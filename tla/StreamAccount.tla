--------------------------- MODULE StreamAccount ---------------------------
(***************************************************************************)
(* The account side of live reception: the retained callbacks of each      *)
(* stream, the account checkpoint of a stream (stream_progress.py), the    *)
(* saved account queries, and the append-only position book of one         *)
(* baseline (ledger.py).  LiveStreams adds the processes that call these   *)
(* operations; every operation here is one SQLite write transaction.       *)
(*                                                                         *)
(* A fact is dated by clock, the order in which facts are committed; dates *)
(* are even.  The receipt time of a callback is read from another clock:   *)
(* where that one falls back it is an odd time before the last receipt.    *)
(***************************************************************************)
EXTENDS Integers, Sequences, FiniteSets, FiniteSetsExt

CONSTANTS
  Streams,     \* stream identities
  Fills,       \* fills the broker may execute
  Kinds,       \* callback kinds the broker sends, a subset of CallbackKinds
  ClockFaults, \* whether the receipt clock may fall back
  MaxEvents,   \* bound: callbacks of one stream
  MaxQueries,  \* bound: account queries, the flat opening one included
  NoStream, NoFill

CallbackKinds == {"Login", "Depth", "MdLost", "Trade", "Foreign", "TdLost"}
AccountKinds  == {"Login", "Trade", "Foreign", "TdLost"}

ASSUME StreamAssumption ==
  /\ IsFiniteSet(Streams) /\ IsFiniteSet(Fills)
  /\ Kinds \subseteq CallbackKinds /\ ClockFaults \in BOOLEAN
  /\ MaxEvents \in Nat /\ MaxQueries \in Nat \ {0}
  /\ NoStream \notin Streams /\ NoFill \notin Fills

VARIABLES
  clock,     \* commit order of every dated fact
  executed,  \* fills that happened at the broker
  events,    \* broker_stream_events: the retained callbacks of a stream
  account,   \* broker_stream_accounts: baseline binding and checkpoint
  queries,   \* broker_query_batches, in the order they began
  baseline,  \* recorded_at of the account's fixed baseline, 0 before
  book       \* broker_position_entries of that baseline, by ordinal

Tick == clock + 2

accountVars == <<clock, executed, events, account, queries, baseline, book>>

Checkpoint == [bound : BOOLEAN, through : Nat, material : Nat, entry : Nat,
               status : {"WAITING", "READY", "UNKNOWN"}]
Unbound    == [bound |-> FALSE, through |-> 0, material |-> 0, entry |-> 0,
               status |-> "WAITING"]

\* The service starts after the flat, complete query that a baseline and a
\* stream both need as their source.
InitAccount ==
  /\ clock = 4 /\ executed = {} /\ baseline = 0 /\ book = << >>
  /\ events = [s \in Streams |-> << >>]
  /\ account = [s \in Streams |-> Unbound]
  /\ queries = <<[begun |-> 2, ended |-> 4, complete |-> TRUE, fills |-> {}]>>

---------------------------------------------------------------------------
(* Reading retained callbacks.                                             *)

Received(s) == Len(events[s])

\* The receipt time fell behind that of the previous callback.
Regressed(s, k) == k > 1 /\ events[s][k].received < events[s][k - 1].received

Material(s, k) == \/ events[s][k].kind \in {"Trade", "Foreign", "TdLost"}
                  \/ Regressed(s, k)

\* Callbacks after which the stream cannot know its account any more.
Breaks(s, k)  == events[s][k].kind = "TdLost" \/ Regressed(s, k)

\* The material callbacks that catching up to n would apply.
Pending(s, n) == {k \in account[s].through + 1 .. n : Material(s, k)}

\* The TD identity as a reader of the prefix confirms it.
Confirmed(s, n) ==
  \E m \in 1..n : /\ events[s][m].kind = "Login"
                  /\ \A k \in m + 1 .. n : events[s][k].kind # "TdLost"

\* Only account callbacks are retained in a prefix; their receipt times are
\* compared with each other.
PrefixRegressed(s, n) ==
  \E j, k \in 1..n : /\ j < k /\ {events[s][j].kind, events[s][k].kind} \subseteq AccountKinds
                     /\ \A i \in j + 1 .. k - 1 : events[s][i].kind \notin AccountKinds
                     /\ events[s][k].received < events[s][j].received

SegmentFills(s, after, n) ==
  {events[s][k].fill : k \in {k \in after + 1 .. n : events[s][k].kind = "Trade"}}

SegmentProblem(s, after, n) ==
  \/ ~Confirmed(s, n) \/ PrefixRegressed(s, n)
  \/ \E k \in 1..n : events[s][k].kind = "TdLost"
  \/ \E k \in after + 1 .. n : \/ events[s][k].kind = "Foreign"
                               \/ events[s][k].kind = "Trade" /\ ~Confirmed(s, k)

---------------------------------------------------------------------------
(* The position book.                                                      *)

Known             == UNION {book[i].fills : i \in DOMAIN book}
UnknownUpTo(i)    == \E j \in 1..i : book[j].problem
BookUnknown       == UnknownUpTo(Len(book))
EntriesOf(s)      == {i \in DOMAIN book : book[i].stream = s}
BookedThrough(s)  == Max({book[i].through : i \in EntriesOf(s)} \union {0})

\* Faulty variant: what a stream reported before is counted again.
FromQueryAgain(q) == [stream |-> NoStream, after |-> 0, through |-> 0, query |-> q,
                      fills |-> queries[q].fills,
                      problem |-> ~queries[q].complete \/ ~(Known \subseteq queries[q].fills)]
FromQuery(q) == [stream |-> NoStream, after |-> 0, through |-> 0, query |-> q,
                 fills |-> queries[q].fills \ Known,
                 problem |-> ~queries[q].complete \/ ~(Known \subseteq queries[q].fills)]
FromStream(s, after, n) ==
                [stream |-> s, after |-> after, through |-> n, query |-> 0,
                 fills |-> SegmentFills(s, after, n) \ Known,
                 problem |-> SegmentProblem(s, after, n)]

\* The period an entry's source covers; last is its latest receipt time.
SourceStart(e) == IF e.query # 0 THEN queries[e.query].begun
                  ELSE Min({events[e.stream][e.after + 1].received,
                            events[e.stream][e.after + 1].committed})
SourceEnd(e)   == IF e.query # 0 THEN queries[e.query].ended
                  ELSE Max({events[e.stream][e.through].received,
                            events[e.stream][e.through].committed})

\* A later segment may start in the period of the stream segment before it
\* when both of its clocks moved on.
OrderedSegment(e, prior) ==
  /\ e.query = 0 /\ prior.query = 0
  /\ events[e.stream][e.after + 1].received >= events[prior.stream][prior.through].received
  /\ events[e.stream][e.after + 1].committed > events[prior.stream][prior.through].committed

\* Faulty variant: the source is not compared with the entry before it.
FollowsAnything(e) == SourceStart(e) > baseline
Follows(e) ==
  /\ SourceStart(e) > baseline
  /\ \A prior \in {book[i] : i \in {Len(book)} \ {0}} :
       OrderedSegment(e, prior) \/ SourceStart(e) > SourceEnd(prior)

\* ledger.ingest: a query is booked once, after every callback before it.
QueryReady(q) ==
  /\ queries[q].ended # 0 /\ queries[q].begun > baseline
  /\ \A i \in DOMAIN book : book[i].query # q
  /\ \A s \in Streams : account[s].bound => Pending(s, Received(s)) = {}

IngestQuery(q) ==
  /\ baseline # 0 /\ QueryReady(q) /\ Follows(FromQuery(q))
  /\ book' = Append(book, FromQuery(q))
  /\ UNCHANGED <<clock, executed, events, account, queries, baseline>>

\* ledger.ingest_stream: an operator books a prefix, with no checkpoint.
IngestPrefix(s, n) ==
  /\ baseline # 0 /\ n <= Received(s) /\ n > BookedThrough(s)
  /\ Follows(FromStream(s, BookedThrough(s), n))
  /\ book' = Append(book, FromStream(s, BookedThrough(s), n))
  /\ UNCHANGED <<clock, executed, events, account, queries, baseline>>

---------------------------------------------------------------------------
(* A stream's account checkpoint.                                          *)

Bind(s) ==
  /\ baseline # 0
  /\ account' = [account EXCEPT ![s].bound = TRUE]

\* Entries of the stream that already cover all that is pending up to n.
Reusable(s, n) == {i \in EntriesOf(s) : book[i].through \in Max(Pending(s, n)) .. n}

AdvanceEntry(s, n) ==
  FromStream(s, Max({BookedThrough(s), Min(Pending(s, n)) - 1}), Max(Pending(s, n)))

\* Advancing to n would commit: otherwise it raises and changes nothing.
CanAdvance(s, n) ==
  IF Pending(s, n) = {} THEN TRUE
  ELSE \/ Reusable(s, n) # {}
       \/ /\ Max(Pending(s, n)) > BookedThrough(s)
          /\ Follows(AdvanceEntry(s, n))

Applied(s, n) ==
  LET new == account[s].through + 1 .. n IN
  IF account[s].status = "UNKNOWN" \/ \E k \in new : Breaks(s, k) THEN "UNKNOWN"
  ELSE IF \E k \in new : events[s][k].kind = "Login" THEN "READY" ELSE account[s].status

\* advance: apply the callbacks up to n, booking the material ones among them.
\* Faulty variant: the checkpoint moves although nothing was booked.
AdvanceUnbooked(s, n) ==
  /\ account[s].bound /\ account[s].through < n /\ n <= Received(s)
  /\ account' = [account EXCEPT ![s].through = n, ![s].status = Applied(s, n)]
  /\ book' = book
Advance(s, n) ==
  /\ account[s].bound /\ account[s].through < n /\ n <= Received(s)
  /\ CanAdvance(s, n)
  /\ IF Pending(s, n) = {}
     THEN /\ account' = [account EXCEPT ![s].through = n, ![s].status = Applied(s, n)]
          /\ book' = book
     ELSE LET reuse   == Reusable(s, n)
              ordinal == IF reuse # {} THEN Max(reuse) ELSE Len(book) + 1
              unknown == \/ UnknownUpTo(Min({ordinal, Len(book)}))
                         \/ reuse = {} /\ AdvanceEntry(s, n).problem
          IN /\ book' = IF reuse # {} THEN book ELSE Append(book, AdvanceEntry(s, n))
             /\ account' = [account EXCEPT
                  ![s].through = n, ![s].material = Max(Pending(s, n)), ![s].entry = ordinal,
                  ![s].status = IF unknown THEN "UNKNOWN" ELSE Applied(s, n)]

\* What a reader of the progress is told.
View(s) == IF ~account[s].bound THEN "UNBOUND"
           ELSE IF BookUnknown THEN "UNKNOWN" ELSE account[s].status

---------------------------------------------------------------------------
(* Facts from outside.                                                     *)

\* append_stream_event: retain the next callback, before anything uses it.
Retain(s, kind, fill, received) ==
  /\ Received(s) < MaxEvents
  /\ clock' = Tick
  /\ events' = [events EXCEPT ![s] = Append(@,
       [kind |-> kind, fill |-> fill, received |-> received, committed |-> Tick])]
  /\ executed' = IF kind = "Trade" THEN executed \union {fill} ELSE executed

\* A fill no receiver was there to see.
Execute(f) == /\ f \notin executed /\ executed' = executed \union {f}
              /\ UNCHANGED <<clock, events, account, queries, baseline, book>>

BeginQuery ==
  /\ Len(queries) < MaxQueries
  /\ clock' = Tick
  /\ queries' = Append(queries, [begun |-> Tick, ended |-> 0, complete |-> FALSE, fills |-> {}])
  /\ UNCHANGED <<executed, events, account, baseline, book>>

FinishQuery(q) ==
  /\ queries[q].ended = 0 /\ clock' = Tick
  /\ \E whole \in BOOLEAN :
       queries' = [queries EXCEPT ![q].ended = Tick, ![q].complete = whole,
                                  ![q].fills = IF whole THEN executed ELSE {}]
  /\ UNCHANGED <<executed, events, account, baseline, book>>

\* establish: a complete query of a flat account without trades.
Establish ==
  /\ baseline = 0
  /\ \E q \in DOMAIN queries : queries[q].complete /\ queries[q].fills = {}
  /\ clock' = Tick /\ baseline' = Tick
  /\ UNCHANGED <<executed, events, account, queries, book>>

---------------------------------------------------------------------------
(* What PositionBook sees of the account.                                  *)

\* The fills a stream has retained; those any account query returned.
Told(s) == IF s = NoStream THEN UNION {queries[q].fills : q \in DOMAIN queries}
           ELSE SegmentFills(s, 0, Received(s))
TimesCounted(f) == Cardinality({i \in DOMAIN book : f \in book[i].fills})

positions == INSTANCE PositionBook WITH
  Readers <- Streams,
  Desk    <- NoStream,
  open    <- baseline # 0,
  told    <- [s \in Streams \union {NoStream} |-> Told(s)],
  count   <- [f \in Fills |-> TimesCounted(f)],
  doubt   <- BookUnknown,
  applied <- [s \in Streams |-> SegmentFills(s, 0, account[s].through)],
  view    <- [s \in Streams |-> View(s)]

\* Whoever calls these operations, in whatever order: a fill is counted once and after it
\* was reported, a checkpoint stands for counted fills of its own stream only,
\* and a reader that is told UNKNOWN is told so from then on
\* (ledger.py, stream_progress.py).
PositionsAreKept == positions!Spec
=============================================================================

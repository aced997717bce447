---------------------------- MODULE LiveStreams ----------------------------
(***************************************************************************)
(* Continuous read-only reception (live/streams.py): the thread that       *)
(* receives one stream, the request threads that start, control, catch up  *)
(* and book, account queries, the two file locks that keep receivers and   *)
(* queries of an account apart, and the death of the process anywhere.     *)
(*                                                                         *)
(* accept() commits three times for a callback: the callback itself, the   *)
(* account book, the shadow step.  The receiver's pc names the last commit *)
(* it made; any other thread may act between two of them.                  *)
(***************************************************************************)
EXTENDS StreamAccount

CONSTANT MaxCrashes   \* bound: abrupt process deaths

ASSUME CrashAssumption == MaxCrashes \in Nat

VARIABLES
  row,         \* broker_streams
  worker,      \* receiver threads of the running process
  streamLock,  \* holder of the one-receiver-per-database lock
  accountLock, \* holder of the lock streams and queries of an account share
  asking,      \* the account query in flight, 0 for none
  closing,     \* the service is shutting down
  crashes

procVars == <<worker, streamLock, accountLock, asking, closing, crashes>>
vars     == <<accountVars, row, procVars>>

Active   == {"STARTING", "RECEIVING", "STOP_REQUESTED"}
Terminal == {"STOPPED", "FAILED"}
Nobody   == <<"nobody", 0>>

NoRow    == [status |-> "ABSENT", paused |-> FALSE, error |-> FALSE, cursor |-> 0,
             decided |-> {}]
NoWorker == [pc |-> "NONE", seen |-> "UNBOUND", stopping |-> FALSE, failed |-> FALSE]

At(s, pcs)  == worker[s].pc \in pcs
Running(s)  == ~At(s, {"NONE", "CREATED"})      \* the thread exists
Accepting   == {"RETAINED", "BOOKED"}           \* between two commits of accept()

Init ==
  /\ InitAccount
  /\ row = [s \in Streams |-> NoRow]
  /\ worker = [s \in Streams |-> NoWorker]
  /\ streamLock = Nobody /\ accountLock = Nobody
  /\ asking = 0 /\ closing = FALSE /\ crashes = 0

Goto(s, next) == worker' = [worker EXCEPT ![s].pc = next]

---------------------------------------------------------------------------
(* start(): locks, row, account binding, thread.                           *)

\* Faulty variant: start does not ask who holds the locks.
CreateUnlocked(s) ==
  /\ row[s].status = "ABSENT" /\ ~closing
  /\ streamLock' = <<"stream", s>> /\ accountLock' = <<"stream", s>>
  /\ row' = [row EXCEPT ![s].status = "STARTING"]
  /\ Goto(s, "CREATED")
  /\ UNCHANGED <<accountVars, asking, closing, crashes>>
\* Faulty variant: a new start continues the row of an ended stream.
CreateAgain(s) ==
  /\ row[s].status \notin Active /\ ~closing
  /\ streamLock = Nobody /\ accountLock = Nobody
  /\ streamLock' = <<"stream", s>> /\ accountLock' = <<"stream", s>>
  /\ row' = [row EXCEPT ![s].status = "STARTING"]
  /\ Goto(s, "CREATED")
  /\ UNCHANGED <<accountVars, asking, closing, crashes>>
Create(s) ==
  /\ row[s].status = "ABSENT" /\ ~closing
  /\ streamLock = Nobody /\ accountLock = Nobody
  /\ streamLock' = <<"stream", s>> /\ accountLock' = <<"stream", s>>
  /\ row' = [row EXCEPT ![s].status = "STARTING"]
  /\ Goto(s, "CREATED")
  /\ UNCHANGED <<accountVars, asking, closing, crashes>>

Launch(s) ==
  /\ At(s, {"CREATED"}) /\ Goto(s, "CONNECTING")
  /\ IF baseline = 0 THEN account' = account ELSE Bind(s)
  /\ UNCHANGED <<clock, executed, events, queries, baseline, book, row,
                 streamLock, accountLock, asking, closing, crashes>>

\* Faulty variant: the locks are given back only with the terminal row.
EndHolding(s, status) ==
  /\ \/ /\ row' = [row EXCEPT ![s].status = status, ![s].paused = TRUE]
        /\ streamLock' = Nobody /\ accountLock' = Nobody
     \/ row' = row /\ UNCHANGED <<streamLock, accountLock>>
  /\ worker' = [worker EXCEPT ![s] = NoWorker]
  /\ UNCHANGED <<accountVars, asking, closing, crashes>>

\* The end of a receiver: the terminal row may be refused by the database, the
\* locks are given back either way.
End(s, status) ==
  /\ \/ row' = [row EXCEPT ![s].status = status, ![s].paused = TRUE]
     \/ row' = row
  /\ worker' = [worker EXCEPT ![s] = NoWorker]
  /\ streamLock' = Nobody /\ accountLock' = Nobody
  /\ UNCHANGED <<accountVars, asking, closing, crashes>>

StartFails(s) == At(s, {"CREATED"}) /\ End(s, "FAILED")

---------------------------------------------------------------------------
(* _run(): the receiver thread.                                            *)

Connect(s) ==
  /\ At(s, {"CONNECTING"}) /\ Goto(s, "POLLING")
  /\ row' = [row EXCEPT ![s].status = IF @ = "STARTING" THEN "RECEIVING" ELSE @]
  /\ UNCHANGED <<accountVars, streamLock, accountLock, asking, closing, crashes>>

StopWanted(s) == closing \/ row[s].status = "STOP_REQUESTED"

\* Before the connection a wanted stop ends the thread; on the connection it
\* signals the native child, whose last callbacks are still accepted.
Poll(s) ==
  /\ At(s, {"POLLING", "RECEIVING"}) /\ ~worker[s].stopping
  /\ \/ /\ StopWanted(s) /\ row' = row
        /\ worker' = [worker EXCEPT ![s].pc = IF @ = "POLLING" THEN "ENDING" ELSE @,
                                    ![s].stopping = TRUE]
     \/ /\ ~StopWanted(s) /\ Goto(s, "RECEIVING")
        /\ \/ row' = row
           \/ row' = [row EXCEPT ![s].paused = TRUE]      \* idle_reason
  /\ UNCHANGED <<accountVars, streamLock, accountLock, asking, closing, crashes>>

Deadline(s) ==
  /\ At(s, {"RECEIVING"}) /\ ~worker[s].stopping
  /\ worker' = [worker EXCEPT ![s].stopping = TRUE]
  /\ UNCHANGED <<accountVars, row, streamLock, accountLock, asking, closing, crashes>>

\* The child is gone, or was killed three seconds after it was asked to stop.
Finish(s) ==
  /\ At(s, {"RECEIVING"}) /\ worker[s].stopping /\ Goto(s, "ENDING")
  /\ UNCHANGED <<accountVars, row, streamLock, accountLock, asking, closing, crashes>>

\* A database, SDK or processing error faults the thread's kernel.
Fault(s) ==
  /\ At(s, {"CONNECTING", "POLLING", "RECEIVING"} \union Accepting)
  /\ worker' = [worker EXCEPT ![s].pc = "ENDING", ![s].failed = TRUE]
  /\ UNCHANGED <<accountVars, row, streamLock, accountLock, asking, closing, crashes>>

Ended(s) == At(s, {"ENDING"}) /\ End(s, IF worker[s].failed THEN "FAILED" ELSE "STOPPED")

Receive(s, kind, fill, late) ==
  /\ At(s, {"RECEIVING"}) /\ row[s].status \in {"RECEIVING", "STOP_REQUESTED"}
  /\ kind \in Kinds /\ (kind = "Trade") <=> (fill # NoFill)
  /\ late => Received(s) > 0
  /\ Retain(s, kind, fill, IF late THEN events[s][Received(s)].received - 1 ELSE Tick)
  /\ Goto(s, "RETAINED")
  /\ UNCHANGED <<account, queries, baseline, book, row, streamLock, accountLock, asking, closing, crashes>>

\* advance_stream up to the callback just retained; what it cannot apply
\* raises, which is a Fault.
BookCallback(s) ==
  /\ At(s, {"RETAINED"})
  /\ IF account[s].bound /\ account[s].through < Received(s)
     THEN Advance(s, Received(s)) ELSE UNCHANGED <<account, book>>
  /\ worker' = [worker EXCEPT ![s].pc = "BOOKED", ![s].seen = View(s)']
  /\ UNCHANGED <<clock, executed, events, queries, baseline, row,
                 streamLock, accountLock, asking, closing, crashes>>

\* The shadow step.  A callback error stays with the stream; a market callback
\* moves the shadow market only when nothing pauses it, and may halt it.
ShadowStep(s, n) ==
  LET e      == events[s][n]
      error  == e.kind \in {"TdLost", "MdLost", "Foreign"}
      reason == error \/ worker[s].seen = "UNKNOWN"
      known  == \E k \in 1..n : events[s][k].kind = "Login"
      quote  == e.kind = "Depth" /\ ~row[s].paused /\ ~reason
  IN \E halt \in IF quote THEN {TRUE, ~known} ELSE {FALSE} :
       row' = [row EXCEPT ![s].cursor = n, ![s].error = @ \/ error,
                          ![s].paused = @ \/ reason \/ halt,
                          ![s].decided = IF quote /\ ~halt THEN @ \union {n} ELSE @]

Project(s) ==
  /\ At(s, {"BOOKED"}) /\ row[s].cursor = Received(s) - 1
  /\ ShadowStep(s, Received(s))
  /\ Goto(s, "RECEIVING")
  /\ UNCHANGED <<accountVars, streamLock, accountLock, asking, closing, crashes>>

---------------------------------------------------------------------------
(* Requests served beside the receiver.                                    *)

Control(s, action) ==
  /\ row[s].status # "ABSENT"
  /\ row' = [row EXCEPT ![s].paused = TRUE,
       ![s].status = IF action = "STOP" /\ @ \in Active THEN "STOP_REQUESTED" ELSE @]
  /\ UNCHANGED <<accountVars, procVars>>

\* Faulty variant: resuming forgets an identity or connection error.
MayResumeAfterError(s) ==
  /\ row[s].status = "RECEIVING" /\ Running(s)
  /\ \/ View(s) = "UNBOUND"
     \/ View(s) = "READY" /\ account[s].through >= Received(s)
MayResume(s) ==
  /\ row[s].status = "RECEIVING" /\ Running(s) /\ ~row[s].error
  /\ \/ View(s) = "UNBOUND"
     \/ View(s) = "READY" /\ account[s].through >= Received(s)

Resume(s) ==
  /\ MayResume(s)
  /\ row' = [row EXCEPT ![s].paused = FALSE]
  /\ UNCHANGED <<accountVars, procVars>>

\* catchup_account binds in one transaction and advances in another.
CatchupBind(s) ==
  /\ Received(s) > 0 /\ ~account[s].bound /\ Bind(s)
  /\ UNCHANGED <<clock, executed, events, queries, baseline, book, row, procVars>>
CatchupAdvance(s, n) ==
  /\ Advance(s, n)
  /\ UNCHANGED <<clock, executed, events, queries, baseline, row, procVars>>

StartQuery == /\ BeginQuery /\ ~closing /\ accountLock = Nobody
              /\ asking' = Len(queries) + 1 /\ accountLock' = <<"query", Len(queries) + 1>>
              /\ UNCHANGED <<row, worker, streamLock, closing, crashes>>
\* Faulty variant: an answer that comes while the service shuts down is not taken.
EndQueryOpen(q) == /\ asking = q /\ ~closing /\ FinishQuery(q)
                   /\ asking' = 0 /\ accountLock' = Nobody
                   /\ UNCHANGED <<row, worker, streamLock, closing, crashes>>
EndQuery(q) == /\ asking = q /\ FinishQuery(q)
               /\ asking' = 0 /\ accountLock' = Nobody
               /\ UNCHANGED <<row, worker, streamLock, closing, crashes>>

\* External facts and requests that touch the account tables alone.
Beside ==
  /\ \/ Establish
     \/ \E f \in Fills : Execute(f)
     \/ \E q \in DOMAIN queries : IngestQuery(q)
     \/ \E s \in Streams : \E n \in 1..Received(s) : IngestPrefix(s, n)
  /\ UNCHANGED <<row, procVars>>

---------------------------------------------------------------------------
(* The process.                                                            *)

Close == /\ ~closing /\ closing' = TRUE
         /\ UNCHANGED <<accountVars, row, worker, streamLock, accountLock, asking, crashes>>

Restarted == /\ worker' = [s \in Streams |-> NoWorker]
             /\ streamLock' = Nobody /\ accountLock' = Nobody
             /\ asking' = 0 /\ closing' = FALSE
             /\ UNCHANGED <<accountVars, row>>

\* The rows of receivers and queries in flight stay as they were.
Crash   == crashes < MaxCrashes /\ crashes' = crashes + 1 /\ Restarted
Restart == /\ closing /\ \A s \in Streams : At(s, {"NONE"})
           /\ crashes' = crashes /\ Restarted

Receiver(s) ==
  \/ Launch(s) \/ StartFails(s) \/ Connect(s) \/ Poll(s) \/ Deadline(s)
  \/ Finish(s) \/ Fault(s) \/ Ended(s) \/ BookCallback(s) \/ Project(s)

Arrival(s) == \E kind \in Kinds, fill \in Fills \union {NoFill} :
                \E late \in {FALSE, ClockFaults} : Receive(s, kind, fill, late)

Request(s) ==
  \/ Create(s) \/ Resume(s) \/ CatchupBind(s)
  \/ \E action \in {"PAUSE", "STOP"} : Control(s, action)
  \/ \E n \in 1..MaxEvents : CatchupAdvance(s, n)

Next ==
  \/ \E s \in Streams : Receiver(s) \/ Arrival(s) \/ Request(s)
  \/ StartQuery \/ (\E q \in DOMAIN queries : EndQuery(q)) \/ Beside
  \/ Close \/ Restart \/ Crash

Spec == Init /\ [][Next]_vars

\* A thread that is neither blocked nor dead takes its next step; the loop of a
\* connected receiver checks its deadline, and a stopped child's three seconds,
\* in every round, between callbacks.
Booking(s) == At(s, {"RETAINED"}) /\ (BookCallback(s) \/ Fault(s))
ReceiverGoesOn(s) ==
  /\ WF_vars(Launch(s)) /\ WF_vars(Connect(s)) /\ SF_vars(Poll(s)) /\ SF_vars(Deadline(s))
  /\ SF_vars(Finish(s)) /\ WF_vars(Ended(s)) /\ WF_vars(Booking(s)) /\ WF_vars(Project(s))
Answer(q)    == q \in DOMAIN queries /\ EndQuery(q)
QueryEnds(q) == WF_vars(Answer(q))
Fairness ==
  /\ \A s \in Streams : ReceiverGoesOn(s)
  /\ \A q \in 1..MaxQueries : QueryEnds(q)
FairSpec == Spec /\ Fairness

---------------------------------------------------------------------------
(* Properties.                                                             *)

\* Types of all variables.
TypeOK ==
  /\ clock \in Nat /\ executed \subseteq Fills /\ baseline \in Nat
  /\ account \in [Streams -> Checkpoint]
  /\ \A s \in Streams :
       /\ Received(s) <= MaxEvents
       /\ \A k \in DOMAIN events[s] :
            events[s][k] \in [kind : Kinds, fill : Fills \union {NoFill},
                              received : Int, committed : Nat]
       /\ row[s] \in [status : {"ABSENT"} \union Active \union Terminal, paused : BOOLEAN,
                      error : BOOLEAN, cursor : 0..MaxEvents, decided : SUBSET (1..MaxEvents)]
       /\ worker[s] \in [pc : {"NONE", "CREATED", "CONNECTING", "POLLING", "RECEIVING",
                               "ENDING"} \union Accepting,
                         seen : {"UNBOUND", "WAITING", "READY", "UNKNOWN"},
                         stopping : BOOLEAN, failed : BOOLEAN]
  /\ \A q \in DOMAIN queries :
       queries[q] \in [begun : Nat, ended : Nat, complete : BOOLEAN, fills : SUBSET Fills]
  /\ \A i \in DOMAIN book :
       book[i] \in [stream : Streams \union {NoStream}, after : Nat, through : Nat,
                    query : 0..MaxQueries, fills : SUBSET Fills, problem : BOOLEAN]
  /\ {streamLock, accountLock} \subseteq
       {Nobody} \union ({"stream"} \X Streams) \union ({"query"} \X (1..MaxQueries))
  /\ asking \in 0..MaxQueries /\ closing \in BOOLEAN /\ crashes \in 0..MaxCrashes

\* Every account callback a checkpoint has passed lies in exactly one entry of
\* the book, whatever mix of live booking, manual prefixes, catch-up and death
\* between two commits brought the checkpoint there.
AppliedIsBookedOnce ==
  \A s \in Streams : \A k \in 1..account[s].through :
    Material(s, k) =>
      Cardinality({i \in EntriesOf(s) : book[i].after < k /\ k <= book[i].through}) = 1

\* A fill is added to the book once, however many sources report it, and the
\* fills of every callback a checkpoint has passed are there.
FillsAreCountedOnce ==
  /\ \A f \in Fills : Cardinality({i \in DOMAIN book : f \in book[i].fills}) <= 1
  /\ \A s \in Streams : SegmentFills(s, 0, account[s].through) \subseteq Known

\* What was retained and what was reported is in the book, once, in any order of
\* live booking, manual prefixes, queries, catch-up and death between commits.
BookedOnce == TypeOK /\ AppliedIsBookedOnce /\ FillsAreCountedOnce

\* Entries follow each other in time: the source of a later entry begins after
\* the source of every earlier one ended, segments of one stream apart.
BookIsChronological ==
  \A i, j \in DOMAIN book : i < j =>
    \/ SourceStart(book[j]) > SourceEnd(book[i])
    \/ /\ book[i].stream = book[j].stream /\ book[i].stream # NoStream
       /\ book[i].through <= book[j].after

\* One receiver or one query is on the account at a time, and no lock is held
\* for a receiver or query that is gone.
AccountHasOneUser ==
  /\ \A s, r \in Streams : ~At(s, {"NONE"}) /\ ~At(r, {"NONE"}) => s = r
  /\ \A s \in Streams : ~At(s, {"NONE"}) =>
       /\ accountLock = <<"stream", s>> /\ streamLock = <<"stream", s>>
  /\ \A s \in Streams : <<"stream", s>> \in {streamLock, accountLock} => ~At(s, {"NONE"})

\* The shadow runs unpaused only on a live receiver whose callbacks brought no
\* identity or connection error; the row of an ended stream is always paused.
UnpausedIsSound ==
  \A s \in Streams :
    /\ row[s].status \in Terminal => row[s].paused /\ ~Running(s)
    /\ ~row[s].paused => ~row[s].error /\ row[s].status # "STOP_REQUESTED"

\* A reader is told a stream runs (get() shows it unpaused) only while each of
\* its retained fills is in a book that is not UNKNOWN.
Shown(s) == /\ ~row[s].paused /\ Running(s) /\ View(s) # "UNKNOWN"
            /\ View(s) # "UNBOUND" => account[s].through >= Received(s)
ShownRunningIsBooked ==
  \A s \in Streams : Shown(s) /\ account[s].bound =>
    SegmentFills(s, 0, Received(s)) \subseteq Known /\ ~BookUnknown

\* The book holds what was received, once, and no reader is told of a stream as
\* running whose fills are not all in it.
BookIsTrue == BookedOnce /\ ShownRunningIsBooked

\* A market decision is never taken behind a known problem of the account: no
\* callback of the stream that broke or disputed the account came before it.
DecisionsAreClean ==
  \A s \in Streams : \A n \in row[s].decided : \A k \in 1..n :
    events[s][k].kind \notin {"TdLost", "Foreign", "MdLost"}

\* The shadow runs, and decides, on a clean and attached stream only.
ShadowIsClean == UnpausedIsSound /\ DecisionsAreClean

\* Nothing is taken up again: once its receiver is gone, by any end
\* or by a crash, nothing is retained, projected or resumed for it again.
NeverReconnects ==
  [][\A s \in Streams : row[s].status # "ABSENT" /\ At(s, {"NONE"}) =>
       /\ At(s, {"NONE"})' /\ events'[s] = events[s]
       /\ row'[s].cursor = row[s].cursor /\ row'[s].decided = row[s].decided
       /\ row[s].paused => row'[s].paused]_vars

\* What ReceptionContract sees of a stream.
Phase(s) ==
  CASE At(s, {"NONE"})   -> IF row[s].status = "ABSENT" THEN "BEFORE" ELSE "OVER"
    [] At(s, {"CREATED", "CONNECTING", "POLLING"}) -> "BEFORE"
    [] At(s, {"ENDING"}) -> IF worker[s].failed THEN "BROKEN" ELSE "COMPLETE"
    [] OTHER             -> IF worker[s].stopping THEN "STOPPING" ELSE "RECEIVING"
Said(s) ==
  CASE row[s].status = "STOPPED" -> "CLEAN"
    [] row[s].status = "FAILED"  -> "FAILED"
    [] OTHER                     -> "NONE"

contract == INSTANCE ReceptionContract WITH
  Receptions <- Streams,
  reception  <- [s \in Streams |->
                   [phase |-> Phase(s), recorded |-> Received(s), verdict |-> Said(s)]]

\* Each stream has the one session of ReceptionContract: it starts once or never,
\* records its callbacks one by one while it runs, and is complete only after a stop;
\* whatever broke is never said to have stopped, and what is over stays over.
OneSessionEach == NeverReconnects /\ contract!Spec

\* Whatever a receiver or a query meets, and whether or not the database takes
\* its last row, it leaves the account to others.
AccountIsReleased == (accountLock # Nobody) ~> (accountLock = Nobody)

\* Nothing a receiver or a query does waits for another thread: wherever its thread
\* stands, the next step on the way to giving the account back is open.
NothingSticks ==
  /\ \A s \in Streams :
       /\ At(s, {"CREATED"}) => ENABLED <<Launch(s)>>_vars
       /\ At(s, {"CONNECTING"}) => ENABLED <<Connect(s)>>_vars
       /\ At(s, {"POLLING"}) => ENABLED <<Poll(s)>>_vars
       /\ At(s, {"RECEIVING"}) =>
            IF worker[s].stopping THEN ENABLED <<Finish(s)>>_vars ELSE ENABLED <<Deadline(s)>>_vars
       /\ At(s, {"RETAINED"}) => ENABLED <<Booking(s)>>_vars
       /\ At(s, {"BOOKED"}) => ENABLED <<Project(s)>>_vars
       /\ At(s, {"ENDING"}) => ENABLED <<Ended(s)>>_vars
  /\ \A q \in 1..MaxQueries : asking = q => ENABLED <<Answer(q)>>_vars
=============================================================================

---------------------------- MODULE Observations ----------------------------
(***************************************************************************)
(* The canonical bars of one data series in Data Hub's PostgreSQL: imports *)
(* of files (ingestion/service.py), corrections (observations/service.py), *)
(* the quality of imports and of day ranges (quality/), and the snapshots  *)
(* published from them (snapshots/service.py).                             *)
(*                                                                         *)
(* An import looks for an earlier run, parses outside any transaction, and *)
(* writes in one that inserts the receipt, locks the series and touches    *)
(* bars; a correction locks the bar before the series.  Evaluations and    *)
(* publications read one REPEATABLE READ view and add rows of their own,   *)
(* so each is one step, taken at the moment of its view.                   *)
(*                                                                         *)
(* A row is its value and the time it says it was available: prices,       *)
(* texts, hashes and units are left out, as are the order of rows in a     *)
(* file and calendars without a session.  Each trading day has one bar,    *)
(* slot s, that completes at time s.                                       *)
(***************************************************************************)
EXTENDS Naturals, Sequences, FiniteSets

CONSTANTS
  Inputs,        \* files under a declaration: the fingerprints of requests
  Receipt,       \* the receipt of an input: equal bytes of a source share it
  Rows,          \* the rows of an input, by slot
  Slots,         \* the trading days of the series
  Callers,       \* sessions that import and correct
  Keys,          \* idempotency keys of evaluations and publications
  None,
  MaxRevisions,  \* MAX_OBSERVATION_REVISIONS, smaller
  MaxRuns,       \* bound: runs after which nobody asks for another
  MaxClock       \* bound: the last time

Time == 0..MaxClock

ASSUME ObservationsAssumption ==
  /\ MaxClock \in Nat /\ MaxRevisions \in Nat \ {0} /\ MaxRuns \in Nat
  /\ Slots \subseteq Time
  /\ None \notin Callers /\ None \notin [input : Inputs] /\ None \notin [run : Nat, slot : Slots]
  /\ \A i \in Inputs : /\ DOMAIN Rows[i] # {} /\ DOMAIN Rows[i] \subseteq Slots
                       /\ \A s \in DOMAIN Rows[i] : Rows[i][s].at \in Nat

VARIABLES
  \* committed: receipts, import runs by age, for each slot the runs of its
  \* revisions, the verdicts on runs, the evaluations of ranges, the snapshots
  receipts, runs, chains, verdicts, evaluations, snapshots,
  \* sessions: where they are and what they were asked
  pc, call,
  \* locks: uncommitted receipts, the row of the series, the rows of heads
  fresh, series, held,
  \* the clock of the database
  now

authority == <<receipts, runs, chains>>
products  == <<verdicts, evaluations, snapshots>>
sessions  == <<pc, call>>
locks     == <<fresh, series, held>>
vars      == <<authority, products, sessions, locks, now>>

Init ==
  /\ receipts = {} /\ runs = << >> /\ chains = [s \in Slots |-> << >>]
  /\ verdicts = {}
  /\ evaluations = [k \in Keys |-> None] /\ snapshots = [k \in Keys |-> None]
  /\ pc = [c \in Callers |-> "IDLE"] /\ call = [c \in Callers |-> None]
  /\ fresh = {} /\ series = None /\ held = [s \in Slots |-> None]
  /\ now = 0

Tick == /\ now < MaxClock /\ now' = now + 1
        /\ UNCHANGED <<authority, products, sessions, locks>>

-----------------------------------------------------------------------------
(* Bars.                                                                     *)

\* The row a run brought for a slot, and that of a revision.
RowOf(r, s)  == Rows[runs[r].input][s]
Bar(s, n)    == RowOf(chains[s][n], s)
HeadOf(s)    == Len(chains[s])

Visible(s, t) == {n \in DOMAIN chains[s] : Bar(s, n).at <= t}
Latest(S)     == CHOOSE n \in S : \A m \in S : m <= n

\* select_point_in_time_revisions; an evaluation keeps a first revision from
\* the future, a publication does not.  0: no bar.
Seen(s, t) ==
  IF Visible(s, t) # {} THEN Latest(Visible(s, t))
  ELSE IF chains[s] # << >> THEN 1 ELSE 0

-----------------------------------------------------------------------------
(* Imports: import_file().                                                   *)

Goto(c, phase) == pc' = [pc EXCEPT ![c] = phase]

\* _find_existing, whose key and fingerprint name the same input.
Existing(i) == {r \in DOMAIN runs : runs[r].kind = "IMPORT" /\ runs[r].input = i}

\* Nothing is available before it is complete (_normalize).
Normal(i) == \A s \in DOMAIN Rows[i] : Rows[i][s].at >= s

\* An input that has a run is answered by it, which changes nothing.
Ask(c, i) ==
  /\ pc[c] = "IDLE" /\ Len(runs) < MaxRuns /\ Existing(i) = {}
  /\ call' = [call EXCEPT ![c] = [input |-> i]]
  /\ Goto(c, IF Normal(i) THEN "PARSED" ELSE "REJECTED")
  /\ UNCHANGED <<authority, products, locks, now>>

Asked(c) == call[c].input

\* The transaction begins: _ensure_receipt looks for the receipt ...
Begin(c) ==
  /\ pc[c] = "PARSED"
  /\ Goto(c, IF Receipt[Asked(c)] \in receipts THEN "LOCKING" ELSE "INSERTING")
  /\ UNCHANGED <<authority, products, call, locks, now>>

\* ... and inserts it, which waits for others that insert the same one.
Uncontested(c) == \A d \in fresh \ {c} : Receipt[Asked(d)] # Receipt[Asked(c)]

\* The transaction, and with it the locks, of a session is gone.
Release(c) ==
  /\ Goto(c, "IDLE") /\ call' = [call EXCEPT ![c] = None]
  /\ fresh' = fresh \ {c}
  /\ series' = IF series = c THEN None ELSE series
  /\ held' = [s \in Slots |-> IF held[s] = c THEN None ELSE held[s]]

InsertReceipt(c) ==
  /\ pc[c] = "INSERTING" /\ Uncontested(c)
  /\ IF Receipt[Asked(c)] \in receipts
     THEN Goto(c, "COLLIDED") /\ UNCHANGED fresh
     ELSE Goto(c, "LOCKING") /\ fresh' = fresh \union {c}
  /\ UNCHANGED <<authority, products, call, series, held, now>>

LockSeries(c) ==
  /\ pc[c] = "LOCKING" /\ series = None
  /\ series' = c /\ Goto(c, "WRITING")
  /\ UNCHANGED <<authority, products, call, fresh, held, now>>

\* Bars the records of the import refer to.
Referred(c)  == {s \in DOMAIN Rows[Asked(c)] : chains[s] # << >>}
Conflicts(c) == {s \in Referred(c) : Bar(s, HeadOf(s)) # Rows[Asked(c)][s]}

Disposition(c, s) ==
  IF Conflicts(c) # {} THEN (IF s \in Conflicts(c) THEN "CONFLICT" ELSE "REJECTED")
  ELSE IF s \in Referred(c) THEN "DUPLICATE_IDENTICAL" ELSE "INSERTED"

Records(c) ==
  [s \in DOMAIN Rows[Asked(c)] |->
     [as  |-> Disposition(c, s),
      bar |-> IF Disposition(c, s) = "INSERTED" THEN 1 ELSE HeadOf(s)]]

Run(kind, input, status, records) ==
  [kind |-> kind, input |-> input, status |-> status, records |-> records]

\* Faulty variant: rows that do not conflict are kept.
AcceptedOfBatch(c) ==
  [s \in Slots |-> IF s \in DOMAIN Rows[Asked(c)] \ Referred(c)
                   THEN Append(chains[s], Len(runs) + 1) ELSE chains[s]]

Accepted(c) ==
  [s \in Slots |-> IF s \in DOMAIN Rows[Asked(c)] /\ Records(c)[s].as = "INSERTED"
                   THEN Append(chains[s], Len(runs) + 1) ELSE chains[s]]

\* A foreign key holds the bar that a record refers to, which waits for a
\* correction that holds it; whatever the order of rows in the file.
Refer(c) ==
  /\ pc[c] = "WRITING" /\ Existing(Asked(c)) = {}
  /\ \E s \in Referred(c) : held[s] = None /\ held' = [held EXCEPT ![s] = c]
  /\ UNCHANGED <<authority, products, sessions, fresh, series, now>>

\* _apply_normalized_import from the lock on: all rows or none.
Write(c) ==
  /\ pc[c] = "WRITING" /\ Existing(Asked(c)) = {}
  /\ \A s \in Referred(c) : held[s] = c
  /\ receipts' = receipts \union {Receipt[Asked(c)]}
  /\ runs' = Append(runs, Run("IMPORT", Asked(c),
                              IF Conflicts(c) = {} THEN "SUCCEEDED" ELSE "QUARANTINED",
                              Records(c)))
  /\ chains' = Accepted(c)
  /\ Release(c)
  /\ UNCHANGED <<products, now>>

\* The job or the fingerprint exists by now: the first run is the answer.
Replay(c) ==
  /\ pc[c] \in {"WRITING", "REJECTED", "COLLIDED"} /\ Existing(Asked(c)) # {}
  /\ Release(c)
  /\ UNCHANGED <<authority, products, now>>

\* _record_terminal_error for an input that is not normal, or whose receipt
\* somebody inserted first; its run refers to the series, whose lock it awaits.
RecordError(c) ==
  /\ pc[c] \in {"REJECTED", "COLLIDED"} /\ Existing(Asked(c)) = {} /\ Uncontested(c)
  /\ series = None
  /\ receipts' = receipts \union {Receipt[Asked(c)]}
  /\ runs' = Append(runs, Run("IMPORT", Asked(c),
                              IF pc[c] = "REJECTED" THEN "FAILED" ELSE "QUARANTINED", << >>))
  /\ Release(c)
  /\ UNCHANGED <<chains, products, now>>

\* The process dies, or the database fails.
Abort(c) ==
  /\ pc[c] # "IDLE"
  /\ Release(c)
  /\ UNCHANGED <<authority, products, now>>

-----------------------------------------------------------------------------
(* Corrections: supersede().                                                 *)

\* _load_conflict: a quarantined row that names the bar it contradicts.
Evidence == {e \in (DOMAIN runs) \X Slots :
               /\ e[2] \in DOMAIN runs[e[1]].records
               /\ runs[e[1]].records[e[2]].as = "CONFLICT"}

\* The bar it names has no successor.
AgainstHead(e) == runs[e[1]].records[e[2]].bar = HeadOf(e[2])

\* The bar is locked first; other evidence is refused, which changes nothing.
Hold(c, e) ==
  /\ pc[c] = "IDLE" /\ Len(runs) < MaxRuns
  /\ AgainstHead(e) /\ HeadOf(e[2]) < MaxRevisions /\ held[e[2]] = None
  /\ held' = [held EXCEPT ![e[2]] = c]
  /\ call' = [call EXCEPT ![c] = [run |-> e[1], slot |-> e[2]]]
  /\ Goto(c, "HOLDING")
  /\ UNCHANGED <<authority, products, fresh, series, now>>

Corrected(c) == call[c].slot
Offer(c)     == RowOf(call[c].run, Corrected(c))

\* Faulty variant: a correction may be dated before what it corrects.
NotFromTheFuture(c) == Offer(c).at <= now

\* Later than what it corrects, and not later than the database's now.
Timely(c) == /\ Bar(Corrected(c), HeadOf(Corrected(c))).at < Offer(c).at
             /\ Offer(c).at <= now

\* The series is locked second, and released by the same step.
Correct(c) ==
  /\ pc[c] = "HOLDING" /\ series = None /\ Timely(c)
  /\ runs' = Append(runs, Run("SUPERSESSION", runs[call[c].run].input, "SUCCEEDED",
       [s \in {Corrected(c)} |-> [as |-> "INSERTED", bar |-> HeadOf(s) + 1]]))
  /\ chains' = [chains EXCEPT ![Corrected(c)] = Append(@, Len(runs) + 1)]
  /\ Release(c)
  /\ UNCHANGED <<receipts, products, now>>

\* Faulty variant: a refusal leaves the transaction open.
RefuseOpen(c) ==
  /\ pc[c] = "HOLDING" /\ series = None /\ ~Timely(c)
  /\ Goto(c, "IDLE") /\ call' = [call EXCEPT ![c] = None]
  /\ UNCHANGED <<authority, products, locks, now>>

Refuse(c) ==
  /\ pc[c] = "HOLDING" /\ series = None /\ ~Timely(c)
  /\ Release(c)
  /\ UNCHANGED <<authority, products, now>>

\* An import holds the series and waits for a bar whose holder waits for the
\* series: PostgreSQL ends one of the two.
BreakDeadlock ==
  /\ \E i \in Callers : /\ pc[i] = "WRITING" /\ Existing(Asked(i)) = {}
                        /\ \E s \in Referred(i) : /\ held[s] # None /\ pc[held[s]] = "HOLDING"
                                                  /\ Release(held[s]) \/ Release(i)
  /\ UNCHANGED <<authority, products, now>>

-----------------------------------------------------------------------------
(* Quality.                                                                  *)

Accepting == {"INSERTED", "DUPLICATE_IDENTICAL"}

\* Bars and records of a run, each by slot and revision.
Inserted(r) == {b \in Slots \X (1..MaxRevisions) : b[2] <= HeadOf(b[1]) /\ chains[b[1]][b[2]] = r}
Claimed(r)  == {<<s, runs[r].records[s].bar>> :
                  s \in {x \in DOMAIN runs[r].records : runs[r].records[x].as = "INSERTED"}}

\* _StreamingAccumulator: the run, its records and its bars tell one story.
Consistent(r) ==
  /\ Inserted(r) = Claimed(r)
  /\ \A s \in DOMAIN runs[r].records :
       LET record == runs[r].records[s]
           same   == record.bar \in 1..HeadOf(s) /\ Bar(s, record.bar) = RowOf(r, s)
       IN  /\ record.as \in Accepting => same
           /\ record.as = "CONFLICT" => record.bar \in 1..HeadOf(s) /\ ~same
           /\ record.as \in Accepting <=> runs[r].status = "SUCCEEDED"

Verdict(r) ==
  IF ~Consistent(r) THEN "UNKNOWN"
  ELSE IF runs[r].status = "SUCCEEDED" THEN "PASS" ELSE "FAIL"

\* One evaluation of a run with bars, under the key its reader gives it.
EvaluateImport(r) ==
  /\ Inserted(r) # {} /\ \A v \in verdicts : v.run # r
  /\ verdicts' = verdicts \union {[run |-> r, outcome |-> Verdict(r)]}
  /\ UNCHANGED <<authority, evaluations, snapshots, sessions, locks, now>>

\* What an evaluation of a range looks at, which its fingerprint stands for.
Input(days, t) == [s \in days |-> Seen(s, t)]

\* Every day of the range has ended and its bar is visible.
Outcome(days, t) ==
  IF \E s \in days : t < s THEN "UNKNOWN"
  ELSE IF \A s \in days : Visible(s, t) # {} THEN "PASS" ELSE "FAIL"

Span(from, to) == {s \in Slots : from <= s /\ s <= to}

EvaluateRange(k, days, t) ==
  /\ evaluations[k] = None /\ t <= now
  /\ evaluations' = [evaluations EXCEPT ![k] =
       [days |-> days, asOf |-> t, input |-> Input(days, t), outcome |-> Outcome(days, t)]]
  /\ UNCHANGED <<authority, verdicts, snapshots, sessions, locks, now>>

-----------------------------------------------------------------------------
(* Publication.                                                              *)

Selection(days, t) == {<<s, Latest(Visible(s, t))>> : s \in {d \in days : Visible(d, t) # {}}}

RunsOf(members) == {chains[m[1]][m[2]] : m \in members}

\* Faulty variant: an eligible evaluation of the range is enough.
Eligible(e) == e # None /\ e.outcome = "PASS"

\* _load_and_verify_series_quality: eligible, and nothing it looked at changed.
Applies(e) == e # None /\ e.outcome = "PASS" /\ e.input = Input(e.days, e.asOf)

\* _verify_import_quality_pin: eligible, and still what the run would get.
Pinned(r) == \E v \in verdicts : v.run = r /\ v.outcome = "PASS" /\ Verdict(r) = "PASS"

\* The pins must be exactly the runs of the members.
Publish(k, q, days) ==
  LET e == evaluations[q] IN
  /\ snapshots[k] = None /\ Applies(e) /\ days \subseteq e.days
  /\ LET members == Selection(days, e.asOf) IN
     /\ members # {} /\ \A r \in RunsOf(members) : Pinned(r)
     /\ snapshots' = [snapshots EXCEPT ![k] =
          [evaluation |-> q, days |-> days, members |-> members, pins |-> RunsOf(members)]]
  /\ UNCHANGED <<authority, verdicts, evaluations, sessions, locks, now>>

-----------------------------------------------------------------------------
Step(c) == \/ Begin(c) \/ InsertReceipt(c) \/ LockSeries(c) \/ Refer(c) \/ Write(c)
           \/ Replay(c) \/ RecordError(c) \/ Correct(c) \/ Refuse(c)

Days == {Span(f, t) : f \in Slots, t \in Slots} \ {{}}

Call == \E c \in Callers : \/ \E i \in Inputs : Ask(c, i)
                           \/ \E e \in Evidence : Hold(c, e)
                           \/ Abort(c)

Assess == \/ \E r \in DOMAIN runs : EvaluateImport(r)
          \/ \E k \in Keys, d \in Days, t \in Time : EvaluateRange(k, d, t)
          \/ \E k \in Keys, q \in Keys, d \in Days : Publish(k, q, d)

Next == Tick \/ Call \/ Assess \/ BreakDeadlock \/ \E c \in Callers : Step(c)

Spec == Init /\ [][Next]_vars

\* A session that was asked goes on, and the database finds deadlocks.
FairSpec == Spec /\ WF_vars(BreakDeadlock) /\ \A c \in Callers : SF_vars(Step(c))

-----------------------------------------------------------------------------
(* Correctness.                                                              *)

Disposed == {"INSERTED", "DUPLICATE_IDENTICAL", "CONFLICT", "REJECTED"}
Phase    == {"IDLE", "PARSED", "REJECTED", "INSERTING", "LOCKING", "WRITING", "COLLIDED",
             "HOLDING"}

\* Every variable stays in its type.
TypeOK ==
  /\ receipts \subseteq {Receipt[i] : i \in Inputs}
  /\ \A r \in DOMAIN runs :
       /\ runs[r].kind \in {"IMPORT", "SUPERSESSION"} /\ runs[r].input \in Inputs
       /\ runs[r].status \in {"SUCCEEDED", "FAILED", "QUARANTINED"}
       /\ \A s \in DOMAIN runs[r].records : /\ s \in DOMAIN Rows[runs[r].input]
                                            /\ runs[r].records[s].as \in Disposed
                                            /\ runs[r].records[s].bar \in 0..MaxRevisions
  /\ \A s \in Slots : chains[s] \in Seq(DOMAIN runs) /\ HeadOf(s) <= MaxRevisions
  /\ \A v \in verdicts : v.run \in DOMAIN runs /\ v.outcome \in {"PASS", "FAIL", "UNKNOWN"}
  /\ \A k \in Keys :
       /\ evaluations[k] # None => evaluations[k].days \subseteq Slots
                                   /\ evaluations[k].asOf \in Time
       /\ snapshots[k] # None => snapshots[k].members \subseteq Slots \X (1..MaxRevisions)
  /\ pc \in [Callers -> Phase] /\ \A c \in Callers : pc[c] = "IDLE" <=> call[c] = None
  /\ fresh \subseteq Callers /\ series \in Callers \union {None}
  /\ held \in [Slots -> Callers \union {None}] /\ now \in Time

\* No evaluation of an import can ever find it contradicting itself: whatever
\* imports and corrections ran between its look-up, its lock and its commit, a
\* successful run accounts for every row by the bar that carries it, and a
\* refused one left no bar (ingestion/service.py 499-655, the rules of
\* quality/import_service.py 221-556).
ImportsTellOneStory == \A r \in DOMAIN runs : Consistent(r)

\* A revision rests on a quarantined row that contradicted exactly the bar it
\* supersedes, becomes available later than it, and no row is used twice; the
\* first revision is imported (observations/service.py 55-300).
CorrectionsAreEvidenced ==
  \A s \in Slots : \A n \in DOMAIN chains[s] :
    IF n = 1 THEN runs[chains[s][n]].kind = "IMPORT"
    ELSE /\ runs[chains[s][n]].kind = "SUPERSESSION"
         /\ Bar(s, n - 1).at < Bar(s, n).at
         /\ \E e \in Evidence : /\ e[2] = s /\ runs[e[1]].records[s].bar = n - 1
                                /\ RowOf(e[1], s) = Bar(s, n)

\* The rows of all tables fit together, those of one import and those of one
\* bar most of all.
EvidenceIsSound == TypeOK /\ ImportsTellOneStory /\ CorrectionsAreEvidenced

\* What a snapshot publishes is what its evaluation looked at, bar for bar,
\* though imports and corrections went on between the two: each day of the
\* range is there with a bar that was visible at the cutoff and complete, and
\* each pinned run succeeded (snapshots/service.py 321-667).
SnapshotsAreAsEvaluated ==
  \A k \in Keys : snapshots[k] # None =>
    LET p == snapshots[k]
        e == evaluations[p.evaluation]
    IN /\ e.outcome = "PASS"
       /\ {m[1] : m \in p.members} = p.days
       /\ \A r \in p.pins : runs[r].status = "SUCCEEDED"
       /\ \A m \in p.members : /\ m[2] = e.input[m[1]]
                               /\ m[1] <= Bar(m[1], m[2]).at /\ Bar(m[1], m[2]).at <= e.asOf

\* Every call ends: locks that imports and corrections take in opposite orders
\* never stop a session for good, nor does one that was refused or died.
CallsEnd == \A c \in Callers : pc[c] # "IDLE" ~> pc[c] = "IDLE"

-----------------------------------------------------------------------------
(* What BarSeries sees of the tables.                                        *)

\* The bars of a day, first to last.
History(s) == [n \in 1..HeadOf(s) |-> Bar(s, n)]

\* The rows that were quarantined for a contradiction, and what they contradicted.
Refused == {[day |-> e[2], revision |-> runs[e[1]].records[e[2]].bar, row |-> RowOf(e[1], e[2])] :
              e \in Evidence}

\* The bars of a snapshot, and the cutoff it took from its evaluation.
MemberOf(p, s) == CHOOSE n \in 1..MaxRevisions : <<s, n>> \in p.members
Contents(p)   == [asOf |-> evaluations[p.evaluation].asOf,
                   bars |-> [s \in p.days |-> Bar(s, MemberOf(p, s))]]
Holdings(k)    == IF snapshots[k] = None THEN None ELSE Contents(snapshots[k])

bars == INSTANCE BarSeries WITH
  Days     <- Slots,
  Files    <- {Rows[i] : i \in Inputs},
  Releases <- Keys,
  history  <- [s \in Slots |-> History(s)],
  refused  <- Refused,
  released <- [k \in Keys |-> Holdings(k)]

\* Whoever imports, corrects, evaluates and publishes at once: a file adds all its
\* new days or none and rewrites nothing, a bar is followed only by a refused
\* row that contradicted it and came later, and a snapshot holds what was
\* known at its cutoff, whatever was written since it was evaluated
\* (ingestion/service.py, observations/service.py, snapshots/service.py).
SeriesIsKept == bars!Spec
=============================================================================

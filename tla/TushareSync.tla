----------------------------- MODULE TushareSync -----------------------------
(***************************************************************************)
(* The automatic Tushare download of Data Hub: the PostgreSQL tables of    *)
(* data_management/tushare/store.py, one pass of process_next() per worker *)
(* and the settings and reprocessing requests of the page.                 *)
(*                                                                         *)
(* A transaction is one step, except the recovery: its two statements see  *)
(* different snapshots (READ COMMITTED) and are two.  An advisory lock of  *)
(* the database keeps a second worker out for a whole pass, but it belongs *)
(* to one connection and the pass writes through others: when that one is  *)
(* lost the old worker goes on while a new one starts, and only the        *)
(* generation of the claimed job tells them apart.                         *)
(*                                                                         *)
(* One contract stands for all of them, with one dataset cut into shards   *)
(* of days, its exchange's catalog and its calendar.  The target day does  *)
(* not move.  How much time passes between two steps is left open.         *)
(***************************************************************************)
EXTENDS Naturals, FiniteSets

CONSTANTS
  Workers,      \* data worker processes
  LastDay,      \* days of the contract's life up to the target day
  Planned,      \* shards <<first, last>> the planner asks for
  RecentFrom,   \* days from here on are rechecked every day
  MaxTries,     \* downloads of a job before it is blocked (6 in the code)
  Turn,         \* every Turn-th claim prefers the oldest days (5 in the code)
  Catalog, Calendar,  \* the two jobs that are not shards
  None,         \* no worker, no generation
  MaxAttempts,  \* bound: claims in a run
  MaxEdits,     \* bound: changes of settings, refresh times
  MaxRequests,  \* bound: reprocessing requests
  MaxFaults     \* bound: worker crashes and lost lock connections

Shards == {w \in (1..LastDay) \X (1..LastDay) : w[1] <= w[2]}
Jobs   == {Catalog, Calendar} \union Shards

ASSUME SyncAssumption ==
  /\ IsFiniteSet(Workers) /\ None \notin Workers \union Nat
  /\ LastDay \in Nat \ {0} /\ Planned \subseteq Shards /\ RecentFrom \in Nat
  /\ MaxTries \in Nat \ {0} /\ Turn \in Nat \ {0}
  /\ Catalog # Calendar /\ {Catalog, Calendar} \intersect Shards = {}
  /\ MaxAttempts \in Nat /\ MaxEdits \in Nat /\ MaxRequests \in Nat /\ MaxFaults \in Nat

VARIABLES
  \* data_sync_settings; contracts: planned_revision against the revision
  enabled, refreshDue, contracts, edits,
  \* data_sync_jobs, data_sync_calendar
  status, gen, source, tries, checked, calendar,
  \* data_sync_attempts, by start order: a generation is its number
  last, jobOf, parent, open, kept,
  \* data_sync_coverage: the download whose response the covering receipt has
  coverage,
  \* workers, the advisory lock, the faults so far
  pc, mine, owner, faults,
  \* by worker: attempts an uncommitted recovery has marked INTERRUPTED
  interrupted

settingVars == <<enabled, refreshDue, contracts, edits>>
jobVars     == <<status, gen, source, tries, checked, calendar>>
attemptVars == <<last, jobOf, parent, open, kept>>
workerVars  == <<pc, mine, owner, faults, interrupted>>
vars        == <<settingVars, jobVars, attemptVars, coverage, workerVars>>

\* DENIED is BLOCKED with the error text of a missing permission.
Blocked == {"BLOCKED", "DENIED"}
Status  == {"NONE", "PENDING", "RUNNING", "WAITING", "VALIDATED", "SPLIT"} \union Blocked
Phase   == {"OFF", "IDLE", "RECOVERING", "RESETTING", "REFRESHING", "PLANNING", "CLAIMING",
            "FETCHING", "JUDGING", "PAUSING", "ENDING"}
Generation == 1..MaxAttempts

Init ==
  /\ enabled = FALSE /\ refreshDue = TRUE
  /\ contracts = "NONE" /\ edits = [setting |-> 0, request |-> 0]
  /\ status = [j \in Jobs |-> "NONE"]
  /\ gen = [j \in Jobs |-> None] /\ source = [j \in Jobs |-> None]
  /\ tries = [j \in Jobs |-> 0]
  /\ checked = {} /\ calendar = FALSE
  /\ last = 0
  /\ jobOf = [g \in Generation |-> None] /\ parent = [g \in Generation |-> None]
  /\ open = {} /\ kept = {}
  /\ coverage = [j \in Jobs |-> 0]
  /\ pc = [w \in Workers |-> "OFF"] /\ mine = [w \in Workers |-> None]
  /\ owner = None /\ faults = [crash |-> 0, lock |-> 0]
  /\ interrupted = [w \in Workers |-> {}]

-----------------------------------------------------------------------------
(* The tables.                                                               *)

Stale(c) == IF c = "NONE" THEN "NONE" ELSE "STALE"

\* INSERT ... ON CONFLICT(identity) DO NOTHING.
Enqueued(new) == [j \in Jobs |-> IF j \in new /\ status[j] = "NONE" THEN "PENDING" ELSE status[j]]

\* end_at is '' for the catalog; a year's calendar ends on the target day.
Recent(j) == j = Calendar \/ (j \in Shards /\ j[2] >= RecentFrom)

\* Faulty variant: the first half ends a day too early.
HalvesApart(j) == LET middle == j[1] + (j[2] - j[1]) \div 2
                  IN  {<<j[1], middle - 1>>, <<middle + 1, j[2]>>} \intersect Shards

Halves(j) == LET middle == j[1] + (j[2] - j[1]) \div 2
             IN  {<<j[1], middle>>, <<middle + 1, j[2]>>}

MyJob(w)  == jobOf[mine[w]]

Owns(w) == gen[MyJob(w)] = mine[w]

Goto(w, phase) == pc' = [pc EXCEPT ![w] = phase]

\* _finish: the job only under its generation, the attempt in any case.
Finish(w, result) ==
  /\ open' = open \ {mine[w]}
  /\ IF Owns(w)
     THEN /\ status' = [status EXCEPT ![MyJob(w)] = result]
          /\ source' = IF result = "WAITING" THEN source
                       ELSE [source EXCEPT ![MyJob(w)] = None]
     ELSE UNCHANGED <<status, source>>
  /\ UNCHANGED <<gen, tries, checked, calendar, last, jobOf, parent, kept>>

\* _fail: attempts is the count the claim saw, tries the same unless fenced off.
Fail(w, retry, waiting) ==
  Finish(w, IF retry /\ (waiting \/ tries[MyJob(w)] < MaxTries) THEN "WAITING" ELSE "BLOCKED")

-----------------------------------------------------------------------------
(* One pass of a worker: process_next().                                     *)

\* The process is supervised; at its start the refresh is due at once.
Start(w) ==
  /\ pc[w] = "OFF"
  /\ Goto(w, "IDLE") /\ refreshDue' = TRUE
  /\ UNCHANGED <<enabled, contracts, edits, jobVars, attemptVars, coverage,
                 mine, owner, faults, interrupted>>

\* pg_try_advisory_xact_lock, then the settings of this pass.
Begin(w) ==
  /\ pc[w] = "IDLE" /\ owner = None /\ enabled
  /\ Goto(w, "RECOVERING")
  /\ owner' = w
  /\ UNCHANGED <<settingVars, jobVars, attemptVars, coverage, mine, faults, interrupted>>

\* Recovery, its first statement: every open attempt is marked INTERRUPTED, seen
\* by nobody before the commit.  Waiting for a row is not modelled: an attempt that
\* another transaction is just ending ends as if before this step, and a second
\* recovery, which waits for a first one with the same rows, may overtake it here.
Interrupt(w) ==
  /\ pc[w] = "RECOVERING"
  /\ Goto(w, "RESETTING")
  /\ interrupted' = [interrupted EXCEPT ![w] = open]
  /\ UNCHANGED <<settingVars, jobVars, attemptVars, coverage, mine, owner, faults>>

\* The jobs that are running go back to the queue, and both statements commit.
Requeue(lost) ==
  /\ status' = [j \in Jobs |-> IF j \in lost THEN "PENDING" ELSE status[j]]
  /\ gen' = [j \in Jobs |-> IF j \in lost THEN None ELSE gen[j]]

\* Faulty variants: recovery closes the attempts only, resets the jobs before it
\* closes the attempts, or drops the source.
RecoverAttempts(w) ==
  /\ pc[w] = "RESETTING"
  /\ Goto(w, "REFRESHING")
  /\ open' = open \ interrupted[w] /\ interrupted' = [interrupted EXCEPT ![w] = {}]
  /\ UNCHANGED <<settingVars, jobVars, last, jobOf, parent, kept, coverage,
                 mine, owner, faults>>

RecoverJobsFirst(w) ==
  /\ pc[w] = "RESETTING"
  /\ Goto(w, "REFRESHING")
  /\ Requeue({j \in Jobs : status[j] = "RUNNING" /\ gen[j] \in interrupted[w]})
  /\ open' = {} /\ interrupted' = [interrupted EXCEPT ![w] = {}]
  /\ UNCHANGED <<settingVars, source, tries, checked, calendar, last, jobOf,
                 parent, kept, coverage, mine, owner, faults>>

RecoverSourceless(w) ==
  /\ pc[w] = "RESETTING"
  /\ Goto(w, "REFRESHING")
  /\ LET lost == {j \in Jobs : status[j] = "RUNNING"} IN
       /\ Requeue(lost)
       /\ source' = [j \in Jobs |-> IF j \in lost THEN None ELSE source[j]]
  /\ open' = open \ interrupted[w] /\ interrupted' = [interrupted EXCEPT ![w] = {}]
  /\ UNCHANGED <<settingVars, tries, checked, calendar, last, jobOf,
                 parent, kept, coverage, mine, owner, faults>>

\* Its second statement sees what was committed since: a job claimed in between
\* is reset too, but its attempt was not marked.
Recover(w) ==
  /\ pc[w] = "RESETTING"
  /\ Goto(w, "REFRESHING")
  /\ Requeue({j \in Jobs : status[j] = "RUNNING"})
  /\ open' = open \ interrupted[w] /\ interrupted' = [interrupted EXCEPT ![w] = {}]
  /\ UNCHANGED <<settingVars, source, tries, checked, calendar, last, jobOf,
                 parent, kept, coverage, mine, owner, faults>>

\* planning.refresh: which old windows have passed 90 days is left open, but a
\* job without checked_at never has.
Refresh(w) ==
  /\ pc[w] = "REFRESHING"
  /\ Goto(w, "PLANNING")
  /\ IF enabled /\ refreshDue
     THEN \E aged \in SUBSET checked :
            LET again == {j \in Jobs : /\ status[j] = "VALIDATED"
                                       /\ j = Catalog \/ j \in aged \/ Recent(j)}
                hole  == {j \in Jobs : status[j] = "VALIDATED" /\ coverage[j] = 0}
            IN  /\ status' = [j \in Jobs |-> IF j \in again \union hole THEN "PENDING"
                                             ELSE Enqueued({Catalog})[j]]
                /\ tries' = [j \in Jobs |-> IF j \in again THEN 0 ELSE tries[j]]
                /\ refreshDue' = FALSE /\ contracts' = Stale(contracts)
     ELSE UNCHANGED <<status, tries, refreshDue, contracts>>
  /\ UNCHANGED <<enabled, edits, gen, source, checked, calendar,
                 attemptVars, coverage, mine, owner, faults, interrupted>>

Plan(w) ==
  /\ pc[w] = "PLANNING"
  /\ Goto(w, "CLAIMING")
  /\ status' = IF contracts = "STALE" THEN Enqueued({Calendar} \union Planned) ELSE status
  /\ contracts' = IF contracts = "STALE" THEN "CURRENT" ELSE contracts
  /\ UNCHANGED <<enabled, refreshDue, edits, gen, source, tries, checked,
                 calendar, attemptVars, coverage, mine, owner, faults, interrupted>>

SameDataset(i, j) == i = j \/ (i \in Shards /\ j \in Shards)

\* How much time has passed is chosen where the code looks at the clock: quota
\* when next_request_at is over, due for the waiting jobs whose next_at is.
Claimable(quota, due) ==
  {j \in Jobs : /\ status[j] = "PENDING" \/ j \in due
                /\ \/ source[j] # None
                   \/ quota /\ \A b \in Jobs : SameDataset(b, j) => status[b] # "DENIED"}

Waiting == {j \in Jobs : status[j] = "WAITING"}

Rank(j) == IF j = Catalog THEN 0 ELSE IF j = Calendar THEN 1 ELSE 2

\* ORDER BY reprocessing first, dataset, newest or (every Turn-th time) oldest.
Precedes(i, j) ==
  \/ source[i] # None /\ source[j] = None
  \/ /\ (source[i] = None) = (source[j] = None)
     /\ \/ Rank(i) < Rank(j)
        \/ /\ i \in Shards /\ j \in Shards
           /\ IF last % Turn = Turn - 1 THEN i[1] < j[1] ELSE i[1] > j[1]

Claim(w, j) ==
  /\ pc[w] = "CLAIMING" /\ last < MaxAttempts
  /\ \E quota \in BOOLEAN, due \in SUBSET Waiting :
       j \in Claimable(quota, due) /\ \A i \in Claimable(quota, due) : ~Precedes(i, j)
  /\ last' = last + 1
  /\ jobOf' = [jobOf EXCEPT ![last + 1] = j]
  /\ parent' = [parent EXCEPT ![last + 1] = source[j]]
  /\ open' = open \union {last + 1}
  /\ status' = [status EXCEPT ![j] = "RUNNING"]
  /\ gen' = [gen EXCEPT ![j] = last + 1]
  /\ tries' = [tries EXCEPT ![j] = IF source[j] = None /\ @ <= MaxTries THEN @ + 1 ELSE @]
  /\ mine' = [mine EXCEPT ![w] = last + 1]
  /\ Goto(w, "FETCHING")
  /\ UNCHANGED <<enabled, refreshDue, contracts, edits, source, checked, calendar,
                 kept, coverage, owner, faults, interrupted>>

NoClaim(w) ==
  /\ pc[w] = "CLAIMING"
  /\ last = MaxAttempts \/ \E quota \in BOOLEAN, due \in SUBSET Waiting : Claimable(quota, due) = {}
  /\ Goto(w, "ENDING")
  /\ UNCHANGED <<settingVars, jobVars, attemptVars, coverage, mine, owner, faults, interrupted>>

\* The request was answered with an error, or the source is missing or corrupt.
FetchFails(w) ==
  /\ pc[w] = "FETCHING"
  /\ \/ Fail(w, FALSE, FALSE)
     \/ parent[mine[w]] = None /\ (Fail(w, TRUE, FALSE) \/ Finish(w, "DENIED"))
  /\ Goto(w, "ENDING")
  /\ UNCHANGED <<settingVars, coverage, mine, owner, faults, interrupted>>

\* acquisition.fetch, or the archived source read again, then archived:
\* retain_tushare_response and the attempt's source hash are not fenced.
Keep(w) ==
  /\ pc[w] = "FETCHING"
  /\ kept' = kept \union {mine[w]}
  /\ Goto(w, "JUDGING")
  /\ UNCHANGED <<settingVars, jobVars, last, jobOf, parent, open, coverage,
                 mine, owner, faults, interrupted>>

\* No credential, a failing archive or a failing publication: the automatic
\* download is paused afterwards, in a transaction of its own.
Breakdown(w) ==
  /\ pc[w] \in {"FETCHING", "JUDGING"}
  /\ Fail(w, FALSE, FALSE)
  /\ Goto(w, "PAUSING")
  /\ UNCHANGED <<settingVars, coverage, mine, owner, faults, interrupted>>

Pause(w) ==
  /\ pc[w] = "PAUSING"
  /\ enabled' = FALSE
  /\ Goto(w, "ENDING")
  /\ UNCHANGED <<refreshDue, contracts, edits, jobVars, attemptVars, coverage,
                 mine, owner, faults, interrupted>>

\* normalize and coverage.verify find nothing, or not every trading day.
JudgeEmpty(w) ==
  /\ pc[w] = "JUDGING"
  /\ Fail(w, parent[mine[w]] = None, Recent(MyJob(w)))
  /\ Goto(w, "ENDING")
  /\ UNCHANGED <<settingVars, coverage, mine, owner, faults, interrupted>>

\* A catalog row without product, found in _commit, rolls back to the same end.
JudgeBad(w) ==
  /\ pc[w] = "JUDGING"
  /\ Fail(w, FALSE, FALSE)
  /\ Goto(w, "ENDING")
  /\ UNCHANGED <<settingVars, coverage, mine, owner, faults, interrupted>>

\* The row limit or the byte limit: a download of several days is split.
\* (A year's calendar stays far below both.)
Truncated(w) ==
  /\ \/ pc[w] = "FETCHING" /\ parent[mine[w]] = None
     \/ pc[w] = "JUDGING"
  /\ MyJob(w) # Calendar
  /\ LET j == MyJob(w)
         divided == parent[mine[w]] = None /\ j \in Shards /\ j[1] < j[2] IN
       IF Owns(w)
       THEN /\ status' = [i \in Jobs |-> IF i = j THEN IF divided THEN "SPLIT" ELSE "BLOCKED"
                                         ELSE IF divided THEN Enqueued(Halves(j))[i] ELSE status[i]]
            /\ source' = [source EXCEPT ![j] = None]
            /\ open' = open \ {mine[w]}
       ELSE UNCHANGED <<status, source, open>>
  /\ Goto(w, "ENDING")
  /\ UNCHANGED <<settingVars, gen, tries, checked, calendar, last, jobOf, parent,
                 kept, coverage, mine, owner, faults, interrupted>>

Origin(g) == IF parent[g] = None THEN g ELSE parent[g]

\* A good response; coverage.verify wants the calendar of a shard complete.
\* _commit: receipt, coverage, catalog or calendar and the job, or nothing.
Commit(w) ==
  /\ pc[w] = "JUDGING"
  /\ MyJob(w) \in Shards => calendar
  /\ LET j == MyJob(w) g == mine[w] IN
       IF Owns(w)
       THEN /\ coverage' = [coverage EXCEPT ![j] = Origin(g)]
            /\ checked' = IF source[j] = None THEN checked \union {j} ELSE checked
            /\ contracts' = IF j = Catalog /\ contracts = "NONE" THEN "STALE" ELSE contracts
            /\ calendar' = (calendar \/ j = Calendar)
            /\ status' = [status EXCEPT ![j] = "VALIDATED"]
            /\ source' = [source EXCEPT ![j] = None]
            /\ open' = open \ {g}
       ELSE UNCHANGED <<coverage, checked, contracts, calendar, status, source, open>>
  /\ Goto(w, "ENDING")
  /\ UNCHANGED <<enabled, refreshDue, edits, gen, tries, last, jobOf,
                 parent, kept, mine, owner, faults, interrupted>>

\* Faulty variant: a pass ends only where its lock is still held.
ReturnHolding(w) ==
  /\ pc[w] = "ENDING" /\ owner = w
  /\ Goto(w, "IDLE") /\ owner' = None
  /\ mine' = [mine EXCEPT ![w] = None]
  /\ UNCHANGED <<settingVars, jobVars, attemptVars, coverage, faults, interrupted>>

\* The lock's transaction ends; on a lost connection that raises and run() ends.
Return(w) ==
  /\ pc[w] = "ENDING"
  /\ Goto(w, IF owner = w THEN "IDLE" ELSE "OFF")
  /\ owner' = IF owner = w THEN None ELSE owner
  /\ mine' = [mine EXCEPT ![w] = None]
  /\ UNCHANGED <<settingVars, jobVars, attemptVars, coverage, faults, interrupted>>

-----------------------------------------------------------------------------
(* Faults and time.                                                          *)

FaultLeft == faults.crash + faults.lock < MaxFaults

\* The process dies, or an exception process_next does not catch ends run(); what
\* it had not committed is rolled back.
Crash(w) ==
  /\ FaultLeft /\ pc[w] \notin {"OFF", "IDLE"}
  /\ faults' = [faults EXCEPT !.crash = @ + 1]
  /\ Goto(w, "OFF") /\ mine' = [mine EXCEPT ![w] = None]
  /\ interrupted' = [interrupted EXCEPT ![w] = {}]
  /\ owner' = IF owner = w THEN None ELSE owner
  /\ UNCHANGED <<settingVars, jobVars, attemptVars, coverage>>

\* The connection that holds the advisory lock is gone; the worker goes on.
LoseLock ==
  /\ FaultLeft /\ owner # None
  /\ faults' = [faults EXCEPT !.lock = @ + 1] /\ owner' = None
  /\ UNCHANGED <<settingVars, jobVars, attemptVars, coverage, pc, mine, interrupted>>

RefreshTime ==
  /\ ~refreshDue /\ refreshDue' = TRUE
  /\ edits.setting < MaxEdits /\ edits' = [edits EXCEPT !.setting = @ + 1]
  /\ UNCHANGED <<enabled, contracts, jobVars, attemptVars, coverage, workerVars>>

-----------------------------------------------------------------------------
(* The user.                                                                 *)

\* settings.configure: start, pause, and in both cases retry what is blocked.
Configure(on) ==
  /\ edits.setting < MaxEdits /\ edits' = [edits EXCEPT !.setting = @ + 1]
  /\ enabled' = on /\ refreshDue' = TRUE /\ contracts' = Stale(contracts)
  /\ status' = [j \in Jobs |-> IF status[j] \in Blocked THEN "PENDING" ELSE status[j]]
  /\ tries' = [j \in Jobs |-> IF status[j] \in Blocked THEN 0 ELSE tries[j]]
  /\ UNCHANGED <<gen, source, checked, calendar, attemptVars, coverage, workerVars>>

\* store.job: the last finished download whose response was kept.
Retained(j) == {g \in kept : jobOf[g] = j /\ parent[g] = None /\ g \notin open}

IsLatest(j, g) == g \in Retained(j) /\ \A h \in Retained(j) : h <= g

MayReprocess(j) ==
  \/ status[j] \in {"VALIDATED"} \union Blocked
  \/ status[j] \in {"PENDING", "WAITING"} /\ source[j] # None

Reprocess(j, g) ==
  /\ edits.request < MaxRequests /\ edits' = [edits EXCEPT !.request = @ + 1]
  /\ MayReprocess(j) /\ IsLatest(j, g) /\ source[j] \in {None, g}
  /\ source' = [source EXCEPT ![j] = g]
  /\ status' = [status EXCEPT ![j] = "PENDING"]
  /\ UNCHANGED <<enabled, refreshDue, contracts, gen, tries, checked, calendar,
                 attemptVars, coverage, workerVars>>

-----------------------------------------------------------------------------
PassStep(w) ==
  \/ Begin(w) \/ Interrupt(w) \/ Recover(w) \/ Refresh(w) \/ Plan(w) \/ NoClaim(w)
  \/ FetchFails(w) \/ Keep(w) \/ Breakdown(w) \/ Pause(w)
  \/ JudgeEmpty(w) \/ JudgeBad(w) \/ Truncated(w) \/ Commit(w) \/ Return(w)
  \/ \E j \in Jobs : Claim(w, j)

Environment ==
  \/ LoseLock \/ RefreshTime
  \/ \E w \in Workers : Crash(w)

UserStep ==
  \/ \E on \in BOOLEAN : Configure(on)
  \/ \E j \in Jobs, g \in Generation : Reprocess(j, g)

Next == Environment \/ UserStep \/ \E w \in Workers : PassStep(w) \/ Start(w)

Spec == Init /\ [][Next]_vars

\* A worker that is running goes on, and a dead one is started again.
GoesOn(w) == WF_vars(PassStep(w)) /\ WF_vars(Start(w))
FairSpec  == Spec /\ \A w \in Workers : GoesOn(w)

-----------------------------------------------------------------------------
(* Correctness.                                                              *)

\* Every variable stays in its type; the bounds are those of the constants.
TypeOK ==
  /\ enabled \in BOOLEAN /\ refreshDue \in BOOLEAN
  /\ contracts \in {"NONE", "STALE", "CURRENT"}
  /\ edits \in [setting : 0..MaxEdits, request : 0..MaxRequests]
  /\ status \in [Jobs -> Status]
  /\ gen \in [Jobs -> Generation \union {None}] /\ source \in [Jobs -> Generation \union {None}]
  /\ tries \in [Jobs -> 0..MaxTries + 1]
  /\ checked \subseteq Jobs /\ calendar \in BOOLEAN
  /\ last \in 0..MaxAttempts
  /\ jobOf \in [Generation -> Jobs \union {None}]
  /\ parent \in [Generation -> Generation \union {None}]
  /\ open \subseteq Generation /\ kept \subseteq Generation
  /\ coverage \in [Jobs -> 0..MaxAttempts]
  /\ pc \in [Workers -> Phase] /\ mine \in [Workers -> Generation \union {None}]
  /\ owner \in Workers \union {None}
  /\ faults \in [crash : 0..MaxFaults, lock : 0..MaxFaults]
  /\ interrupted \in [Workers -> SUBSET Generation]

\* No job runs without an open attempt of its own that will end it, across
\* crashes, lost locks and a claim between the two statements of a recovery; and
\* as long as no lock was lost no other attempt is open (jobs.py 31-39, 209-233).
AttemptsMatchJobs ==
  LET running == {j \in Jobs : status[j] = "RUNNING"} IN
    /\ \A j \in running : gen[j] \in open /\ jobOf[gen[j]] = j
    /\ faults.lock = 0 => open = {gen[j] : j \in running}

\* Jobs, attempts and the rest of the queue tell one story.
QueueIsSound == TypeOK /\ AttemptsMatchJobs

\* Each day of a planned shard stays in some shard that is not itself split,
\* whatever was planned, split or queued before (planning.split).
SplitLosesNothing ==
  \A p \in Planned : status[p] = "SPLIT" =>
    \A day \in p[1]..p[2] : \E s \in Shards : /\ s[1] <= day /\ day <= s[2]
                                             /\ status[s] \notin {"NONE", "SPLIT"}

\* The covering receipt is never replaced by one of an older response, by no
\* late worker, reprocessing or retry (the generation check of _commit and the
\* latest-response rule of reprocessing.enqueue).
CoverageNeverRegresses == [][\A j \in Jobs : coverage'[j] >= coverage[j]]_vars

\* Work keeps its kind until it ends: a queued reprocessing is not lost to a
\* pause, a crash or a refresh and never turns into a download, and a queued
\* download is never replaced by a reprocessing (docs/ARCHITECTURE.md 173-175).
SourceIsKept == [][
  \A j \in Jobs : status[j] \in {"PENDING", "WAITING", "RUNNING"} =>
      \/ source'[j] = source[j]
      \/ status[j] = "RUNNING" /\ status'[j] \in {"VALIDATED", "BLOCKED"}]_vars

\* What a job already has survives whatever late, crashed or paused work does.
ResponsesAreKept == CoverageNeverRegresses /\ SourceIsKept

\* No job stays claimed: it ends, or another pass takes it back, for as long
\* as the synchronization is not paused (jobs.py 31-39, worker.py run).
NothingStaysRunning ==
  []<>(~enabled \/ \A j \in Jobs : status[j] # "RUNNING")

\* No attempt stays open, not even one that was claimed between the two statements
\* of a recovery and that no job names: the next recovery ends it (jobs.py 31-34).
AttemptsEnd == \A g \in Generation : []<>(~enabled \/ g \notin open)

\* A pass waits for nothing but the lock it begins with, and a worker that is not
\* running can be started.
NothingBlocks ==
  \A w \in Workers :
    /\ pc[w] = "OFF" => ENABLED <<Start(w)>>_vars
    /\ pc[w] = "IDLE" /\ owner = None /\ enabled => ENABLED <<PassStep(w)>>_vars
    /\ pc[w] \notin {"OFF", "IDLE"} => ENABLED <<PassStep(w)>>_vars
=============================================================================

--------------------------- MODULE ResearchTasks ---------------------------
(***************************************************************************)
(* The durable research task queue: the SQLite tables of                   *)
(* research/tasks/store.py, the supervisor loop of apps/research/worker.py *)
(* and the calculation processes of research/tasks/execution.py.           *)
(*                                                                         *)
(* Every store operation is one BEGIN IMMEDIATE transaction, hence one     *)
(* step.  A process works between two transactions, and the user, the      *)
(* supervisor and every process interleave freely.  A process is named by  *)
(* the attempt whose claim spawned it; the program itself hands it only    *)
(* the task, and it reads the task's attempt when it starts.               *)
(***************************************************************************)
EXTENDS Naturals, FiniteSets

CONSTANTS
  Tasks,       \* task identities
  Attempts,    \* attempt identities a claim may draw (bound: claims in a run)
  Total,       \* bars of the fixed snapshot, the last progress value
  Cpus,        \* processors capacity() reports
  MaxCrashes,  \* bound: abrupt supervisor deaths
  None         \* no attempt

ASSUME ResearchAssumption ==
  /\ IsFiniteSet(Tasks) /\ IsFiniteSet(Attempts)
  /\ Total \in Nat /\ Cpus \in Nat /\ MaxCrashes \in Nat
  /\ None \notin Attempts /\ None \notin Tasks

VARIABLES
  \* research_jobs
  status, current, completed, linked, created, submitted,
  \* research_job_attempts and research_runs
  attempt, taskOf, runs,
  \* calculation processes
  pc, held, done, signalled,
  \* supervisor
  sup, children, pass, focus, observed, crashes

jobVars   == <<status, current, completed, linked, created, submitted>>
tryVars   == <<attempt, taskOf>>
childVars == <<pc, held, done, signalled>>
supVars   == <<sup, children, pass, focus, observed, crashes>>
vars      == <<jobVars, tryVars, runs, childVars, supVars>>

Terminal   == {"SUCCEEDED", "FAILED", "CANCELLED", "INTERRUPTED"}
ActiveSet  == {"RUNNING", "CANCEL_REQUESTED", "FINALIZING"}
Status     == {"NONE", "QUEUED"} \union ActiveSet \union Terminal
Phase      == {"IDLE", "SPAWNED", "CHECKING", "COMPUTING", "SAVING", "SAVED",
               "INTERRUPTED", "FAILING", "ENDING", "EXITED"}
Supervisor == {"DOWN", "RECOVERING", "POLLING", "REAPING", "ADMITTING",
               "SPAWNING", "SLEEPING", "DRAINING", "CLEARING"}

Active(t) == status[t] \in ActiveSet
Alive(c)  == pc[c] \notin {"IDLE", "EXITED"}
Oldest(t) == /\ status[t] = "QUEUED"
             /\ \A u \in Tasks : status[u] = "QUEUED" => created[t] <= created[u]

Init ==
  /\ status = [t \in Tasks |-> "NONE"]
  /\ current = [t \in Tasks |-> None]
  /\ completed = [t \in Tasks |-> 0]
  /\ linked = [t \in Tasks |-> FALSE]
  /\ created = [t \in Tasks |-> 0]
  /\ submitted = 0
  /\ attempt = [a \in Attempts |-> "UNUSED"]
  /\ taskOf = [a \in Attempts |-> None]
  /\ runs = {}
  /\ pc = [a \in Attempts |-> "IDLE"]
  /\ held = [a \in Attempts |-> None]
  /\ done = [a \in Attempts |-> 0]
  /\ signalled = [a \in Attempts |-> FALSE]
  /\ sup = "DOWN" /\ children = {} /\ pass = {}
  /\ focus = None /\ observed = None /\ crashes = 0

-----------------------------------------------------------------------------
(* The store: TaskStore.finish, fenced on the attempt.                       *)

Owns(t, a) == current[t] = a /\ Active(t)

Outcome(t, wish) == IF status[t] = "CANCEL_REQUESTED" THEN "CANCELLED" ELSE wish

\* Faulty variant: the attempt row of a cancelled job is left RUNNING.
FinishJobOnly(t, a, wish) ==
  IF Owns(t, a)
  THEN /\ status' = [status EXCEPT ![t] = Outcome(t, wish)]
       /\ linked' = [linked EXCEPT ![t] = Outcome(t, wish) = "SUCCEEDED"]
       /\ UNCHANGED <<current, completed, created, submitted, tryVars>>
  ELSE UNCHANGED <<jobVars, tryVars>>

FinishJob(t, a, wish) ==
  IF Owns(t, a)
  THEN /\ status' = [status EXCEPT ![t] = Outcome(t, wish)]
       /\ linked' = [linked EXCEPT ![t] = Outcome(t, wish) = "SUCCEEDED"]
       /\ attempt' = [attempt EXCEPT ![a] = Outcome(t, wish)]
       /\ UNCHANGED <<current, completed, created, submitted, taskOf>>
  ELSE UNCHANGED <<jobVars, tryVars>>

-----------------------------------------------------------------------------
(* The user, through the API or the CLI.                                     *)

Submit(t) ==
  /\ status[t] = "NONE"
  /\ status' = [status EXCEPT ![t] = "QUEUED"]
  /\ submitted' = submitted + 1
  /\ created' = [created EXCEPT ![t] = submitted + 1]
  /\ UNCHANGED <<current, completed, linked, tryVars, runs, childVars, supVars>>

\* Faulty variant: the cancellation window is still open while saving.
CancelAnyActive(t) ==
  /\ \/ /\ status[t] = "QUEUED"
        /\ status' = [status EXCEPT ![t] = "CANCELLED"]
     \/ /\ status[t] \in {"RUNNING", "FINALIZING"}
        /\ status' = [status EXCEPT ![t] = "CANCEL_REQUESTED"]
  /\ UNCHANGED <<current, completed, linked, created, submitted,
                 tryVars, runs, childVars, supVars>>

Cancel(t) ==
  /\ \/ /\ status[t] = "QUEUED"
        /\ status' = [status EXCEPT ![t] = "CANCELLED"]
     \/ /\ status[t] = "RUNNING"
        /\ status' = [status EXCEPT ![t] = "CANCEL_REQUESTED"]
  /\ UNCHANGED <<current, completed, linked, created, submitted,
                 tryVars, runs, childVars, supVars>>

\* The run_id and the attempt_id of the last attempt are left in place.
Retry(t) ==
  /\ status[t] \in {"FAILED", "INTERRUPTED"}
  /\ status' = [status EXCEPT ![t] = "QUEUED"]
  /\ completed' = [completed EXCEPT ![t] = 0]
  /\ UNCHANGED <<current, linked, created, submitted,
                 tryVars, runs, childVars, supVars>>

-----------------------------------------------------------------------------
(* A calculation process: execute().                                         *)

Goto(c, phase) == pc' = [pc EXCEPT ![c] = phase]

\* store.get: the attempt is whatever the row holds now.
ReadTask(c) ==
  /\ pc[c] = "SPAWNED"
  /\ Goto(c, "CHECKING")
  /\ held' = [held EXCEPT ![c] = current[taskOf[c]]]
  /\ UNCHANGED <<jobVars, tryVars, runs, done, signalled, supVars>>

\* Any exception but InterruptedError: code revision or snapshot mismatch, a
\* failing calculation, a failing save before or after its commit.
Raise(c) ==
  /\ pc[c] \in {"CHECKING", "COMPUTING", "SAVING", "SAVED"}
  /\ Goto(c, "FAILING")
  /\ UNCHANGED <<jobVars, tryVars, runs, held, done, signalled, supVars>>

\* SIGTERM set the stop event, which progress() checks first.
StopSeen(c) ==
  /\ pc[c] \in {"CHECKING", "COMPUTING"}
  /\ signalled[c]
  /\ Goto(c, "INTERRUPTED")
  /\ UNCHANGED <<jobVars, tryVars, runs, held, done, signalled, supVars>>

MayRecord(t, a, n) ==
  /\ status[t] = "RUNNING" /\ current[t] = a
  /\ completed[t] <= n /\ n <= Total

\* progress() reports 0 first and the last bar always; those between are
\* throttled to one in 0.2 s, so any later bar may be the next one written.
Progress(c, n) ==
  /\ ~signalled[c]
  /\ \/ pc[c] = "CHECKING" /\ n = 0
     \/ pc[c] = "COMPUTING" /\ n > done[c]
  /\ IF MayRecord(taskOf[c], held[c], n)
     THEN /\ completed' = [completed EXCEPT ![taskOf[c]] = n]
          /\ done' = [done EXCEPT ![c] = n]
          /\ Goto(c, "COMPUTING")
     ELSE /\ Goto(c, "INTERRUPTED")
          /\ UNCHANGED <<completed, done>>
  /\ UNCHANGED <<status, current, linked, created, submitted,
                 tryVars, runs, held, signalled, supVars>>

MayFinalize(t, a) == status[t] = "RUNNING" /\ current[t] = a

\* store.finalizing closes the cancellation window.
Finalize(c) ==
  /\ pc[c] = "COMPUTING" /\ done[c] = Total
  /\ IF MayFinalize(taskOf[c], held[c])
     THEN /\ status' = [status EXCEPT ![taskOf[c]] = "FINALIZING"]
          /\ Goto(c, "SAVING")
     ELSE /\ Goto(c, "INTERRUPTED")
          /\ UNCHANGED status
  /\ UNCHANGED <<current, completed, linked, created, submitted,
                 tryVars, runs, held, done, signalled, supVars>>

\* RunStore.save: the content identity makes saving the same run again a no-op.
Save(c) ==
  /\ pc[c] = "SAVING"
  /\ runs' = runs \union {taskOf[c]}
  /\ Goto(c, "SAVED")
  /\ UNCHANGED <<jobVars, tryVars, held, done, signalled, supVars>>

Wish(c) == IF pc[c] = "SAVED" THEN "SUCCEEDED"
           ELSE IF pc[c] = "FAILING" THEN "FAILED" ELSE "INTERRUPTED"

Report(c) ==
  /\ pc[c] \in {"SAVED", "FAILING", "INTERRUPTED"}
  /\ FinishJob(taskOf[c], held[c], Wish(c))
  /\ Goto(c, "ENDING")
  /\ UNCHANGED <<runs, held, done, signalled, supVars>>

\* engine.dispose and the interpreter's exit, after the outcome is committed.
Exit(c) ==
  /\ pc[c] = "ENDING"
  /\ Goto(c, "EXITED")
  /\ UNCHANGED <<jobVars, tryVars, runs, held, done, signalled, supVars>>

\* Out of memory, SIGKILL, SIGTERM before the handler is set, a failing finish.
Die(c) ==
  /\ Alive(c)
  /\ Goto(c, "EXITED")
  /\ UNCHANGED <<jobVars, tryVars, runs, held, done, signalled, supVars>>

-----------------------------------------------------------------------------
(* The supervisor: run().                                                    *)

\* Faulty variant: the children do not inherit the lock.
LockOfSupervisor == sup = "DOWN"

\* Every child inherits the lock's descriptor: flock succeeds only when the
\* last supervisor and all of its children are gone.
LockFree == sup = "DOWN" /\ \A c \in Attempts : ~Alive(c)

Start ==
  /\ LockFree
  /\ sup' = "RECOVERING" /\ children' = {} /\ pass' = {}
  /\ focus' = None /\ observed' = None
  /\ UNCHANGED <<jobVars, tryVars, runs, childVars, crashes>>

\* One task of recover(), at start and after a shutdown.
RecoverTask(t) ==
  /\ sup \in {"RECOVERING", "CLEARING"}
  /\ Active(t)
  /\ FinishJob(t, current[t], "INTERRUPTED")
  /\ UNCHANGED <<runs, childVars, supVars>>

Recovered ==
  /\ sup \in {"RECOVERING", "CLEARING"}
  /\ \A t \in Tasks : ~Active(t)
  /\ sup' = IF sup = "RECOVERING" THEN "POLLING" ELSE "DOWN"
  /\ UNCHANGED <<jobVars, tryVars, runs, childVars,
                 children, pass, focus, observed, crashes>>

\* Faulty variant: a child that died after a cancellation is not reaped.
PollRunning(c) ==
  /\ sup = "POLLING" /\ c \in pass
  /\ pass' = pass \ {c}
  /\ IF pc[c] # "EXITED"
     THEN UNCHANGED <<sup, children, focus, observed>>
     ELSE IF status[taskOf[c]] \in {"RUNNING", "FINALIZING"}
          THEN /\ sup' = "REAPING"
               /\ focus' = c /\ observed' = current[taskOf[c]]
               /\ UNCHANGED children
          ELSE /\ children' = children \ {c}
               /\ UNCHANGED <<sup, focus, observed>>
  /\ UNCHANGED <<jobVars, tryVars, runs, childVars, crashes>>

\* poll() of one child: still running, or gone and its task read back.
Poll(c) ==
  /\ sup = "POLLING" /\ c \in pass
  /\ pass' = pass \ {c}
  /\ IF pc[c] # "EXITED"
     THEN UNCHANGED <<sup, children, focus, observed>>
     ELSE IF Active(taskOf[c])
          THEN /\ sup' = "REAPING"
               /\ focus' = c /\ observed' = current[taskOf[c]]
               /\ UNCHANGED children
          ELSE /\ children' = children \ {c}
               /\ UNCHANGED <<sup, focus, observed>>
  /\ UNCHANGED <<jobVars, tryVars, runs, childVars, crashes>>

\* Another transaction: finish with the attempt read by Poll.
Reap ==
  /\ sup = "REAPING"
  /\ FinishJob(taskOf[focus], observed, "INTERRUPTED")
  /\ children' = children \ {focus}
  /\ sup' = "POLLING" /\ focus' = None /\ observed' = None
  /\ UNCHANGED <<runs, childVars, pass, crashes>>

Polled ==
  /\ sup = "POLLING" /\ pass = {}
  /\ sup' = "ADMITTING"
  /\ UNCHANGED <<jobVars, tryVars, runs, childVars,
                 children, pass, focus, observed, crashes>>

\* claim() with a fresh attempt, once a processor is free.
Claim(t, a) ==
  /\ sup = "ADMITTING"
  /\ Cardinality(children) < Cpus
  /\ Oldest(t) /\ attempt[a] = "UNUSED"
  /\ status' = [status EXCEPT ![t] = "RUNNING"]
  /\ current' = [current EXCEPT ![t] = a]
  /\ completed' = [completed EXCEPT ![t] = 0]
  /\ attempt' = [attempt EXCEPT ![a] = "RUNNING"]
  /\ taskOf' = [taskOf EXCEPT ![a] = t]
  /\ sup' = "SPAWNING" /\ focus' = a
  /\ UNCHANGED <<linked, created, submitted, runs, childVars,
                 children, pass, observed, crashes>>

\* Popen: the task is already RUNNING in the store.
Spawn ==
  /\ sup = "SPAWNING"
  /\ Goto(focus, "SPAWNED")
  /\ children' = children \union {focus}
  /\ sup' = "SLEEPING" /\ focus' = None
  /\ UNCHANGED <<jobVars, tryVars, runs, held, done, signalled,
                 pass, observed, crashes>>

\* Nothing queued, or processors, memory or disk do not allow one more.
NotAdmitted ==
  /\ sup = "ADMITTING"
  /\ sup' = "SLEEPING"
  /\ UNCHANGED <<jobVars, tryVars, runs, childVars,
                 children, pass, focus, observed, crashes>>

Loop ==
  /\ sup = "SLEEPING"
  /\ sup' = "POLLING" /\ pass' = children
  /\ UNCHANGED <<jobVars, tryVars, runs, childVars,
                 children, focus, observed, crashes>>

\* SIGTERM or SIGINT: the loop ends and every child is asked to stop.
Shutdown ==
  /\ sup = "SLEEPING"
  /\ sup' = "DRAINING"
  /\ signalled' = [c \in Attempts |-> signalled[c] \/ c \in children]
  /\ UNCHANGED <<jobVars, tryVars, runs, pc, held, done,
                 children, pass, focus, observed, crashes>>

\* wait(), and after ten seconds kill(), of every child.
Drained ==
  /\ sup = "DRAINING"
  /\ \A c \in children : pc[c] = "EXITED"
  /\ sup' = "CLEARING"
  /\ UNCHANGED <<jobVars, tryVars, runs, childVars,
                 children, pass, focus, observed, crashes>>

\* SIGKILL, or an exception out of run(): the children live on.
Crash ==
  /\ sup # "DOWN" /\ crashes < MaxCrashes
  /\ sup' = "DOWN" /\ crashes' = crashes + 1
  /\ UNCHANGED <<jobVars, tryVars, runs, childVars,
                 children, pass, focus, observed>>

-----------------------------------------------------------------------------
UserStep == \E t \in Tasks : Submit(t) \/ Cancel(t) \/ Retry(t)

ChildStep(c) ==
  \/ ReadTask(c) \/ StopSeen(c) \/ Finalize(c) \/ Save(c) \/ Report(c) \/ Exit(c)
  \/ \E n \in 0..Total : Progress(c, n)

SupervisorStep ==
  \/ Recovered \/ Reap \/ Polled \/ Spawn \/ NotAdmitted \/ Loop \/ Drained
  \/ \E t \in Tasks : RecoverTask(t)
  \/ \E c \in Attempts : Poll(c)
  \/ \E t \in Tasks, a \in Attempts : Claim(t, a)

Next ==
  \/ UserStep
  \/ \E c \in Attempts : ChildStep(c) \/ Raise(c) \/ Die(c)
  \/ SupervisorStep \/ Start \/ Shutdown \/ Crash

Spec == Init /\ [][Next]_vars

(***************************************************************************)
(* Fairness: the operating system schedules every live process and the     *)
(* supervisor; compose restarts a supervisor that is down (restart:        *)
(* unless-stopped); a draining supervisor kills what does not stop; and    *)
(* processors, memory and disk are found sufficient again and again while  *)
(* a task waits.  Users, crashes and shutdowns are never assumed.          *)
(***************************************************************************)
KillDraining(c) == sup = "DRAINING" /\ c \in children /\ Die(c)

Fairness ==
  /\ \A c \in Attempts : WF_vars(ChildStep(c)) /\ WF_vars(KillDraining(c))
  /\ WF_vars(SupervisorStep) /\ WF_vars(Start)
  /\ SF_vars(\E t \in Tasks, a \in Attempts : Claim(t, a))

-----------------------------------------------------------------------------
TypeOK ==
  /\ status \in [Tasks -> Status]
  /\ current \in [Tasks -> Attempts \union {None}]
  /\ completed \in [Tasks -> 0..Total]
  /\ linked \in [Tasks -> BOOLEAN]
  /\ created \in [Tasks -> Nat] /\ submitted \in Nat
  /\ attempt \in [Attempts -> {"UNUSED", "RUNNING"} \union Terminal]
  /\ taskOf \in [Attempts -> Tasks \union {None}]
  /\ runs \subseteq Tasks
  /\ pc \in [Attempts -> Phase]
  /\ held \in [Attempts -> Attempts \union {None}]
  /\ done \in [Attempts -> 0..Total]
  /\ signalled \in [Attempts -> BOOLEAN]
  /\ sup \in Supervisor
  /\ children \subseteq Attempts /\ pass \subseteq Attempts
  /\ focus \in Attempts \union {None} /\ observed \in Attempts \union {None}
  /\ sup \in {"REAPING", "SPAWNING"} => focus \in Attempts
  /\ crashes \in Nat

(* research_jobs and research_job_attempts never disagree: an attempt row is *)
(* RUNNING exactly while it is the current attempt of an active job, so two  *)
(* attempts of one task never run and no closed attempt still owns a job.    *)
RunningAttemptIsCurrent ==
  \A a \in Attempts :
    attempt[a] = "RUNNING" <=> \E t \in Tasks : taskOf[a] = t /\ Owns(t, a)

(* A job that reports SUCCEEDED has a stored run, its attempt closed with    *)
(* the same verdict, and no other state of the job carries a run_id.         *)
SucceededHasItsRun ==
  \A t \in Tasks :
    /\ linked[t] <=> status[t] = "SUCCEEDED"
    /\ linked[t] => t \in runs /\ attempt[current[t]] = "SUCCEEDED"

(* FINALIZING and SUCCEEDED are reached only after every bar of the fixed    *)
(* snapshot was reported under the same attempt.                             *)
FinalizedIsComplete ==
  \A t \in Tasks :
    status[t] \in {"FINALIZING", "SUCCEEDED"} => completed[t] = Total

(* Jobs, attempts and stored runs tell one story: a verdict, the attempt it   *)
(* came from, the run it promises and the progress it rests on are written in *)
(* several transactions of several processes.                                 *)
TasksAreSound ==
  /\ TypeOK
  /\ RunningAttemptIsCurrent
  /\ SucceededHasItsRun
  /\ FinalizedIsComplete

(* Two processes may read the same attempt when one of them starts late;     *)
(* still at most one of them is ever allowed to save its result.             *)
SingleSaver ==
  \A c, d \in Attempts :
    /\ pc[c] \in {"SAVING", "SAVED"} /\ pc[d] \in {"SAVING", "SAVED"}
    /\ held[c] = held[d]
    => c = d

(* recover() closes every active job: it may run only when no calculation    *)
(* process is alive, across crashes that orphan children.                    *)
RecoveryFindsNoChild ==
  sup \in {"RECOVERING", "CLEARING"} => \A c \in Attempts : ~Alive(c)

(* Live calculation processes, orphans of a crashed supervisor included,     *)
(* never exceed the processors.                                              *)
WithinCpus == Cardinality({c \in Attempts : Alive(c)}) <= Cpus

(* What keeps processes apart that know nothing of each other: the claim of  *)
(* finalizing() and the inherited lock, over late starts and crashes.        *)
ProcessesKeepApart == SingleSaver /\ RecoveryFindsNoChild /\ WithinCpus

(* A closed attempt is history: its verdict is never rewritten.              *)
ClosedAttemptsStay ==
  [][\A a \in Attempts : attempt[a] \in Terminal => attempt'[a] = attempt[a]]_vars

(* An accepted cancellation ends in CANCELLED, whatever the process was      *)
(* about to report, and a cancelled or succeeded job never moves again.      *)
CancellationHolds ==
  [][\A t \in Tasks :
       /\ status[t] = "CANCEL_REQUESTED" =>
            status'[t] \in {"CANCEL_REQUESTED", "CANCELLED"}
       /\ status[t] \in {"CANCELLED", "SUCCEEDED"} => status'[t] = status[t]]_vars

(* "attempts are fenced by explicit execution identities" (store.py:1): a    *)
(* running attempt is closed by a process that holds it, or once the process *)
(* spawned for it is no longer alive.                                        *)
AttemptsAreFenced ==
  [][\A a \in Attempts :
       attempt[a] = "RUNNING" /\ attempt'[a] # "RUNNING" =>
         \/ ~Alive(a)
         \/ \E c \in Attempts : held[c] = a /\ pc'[c] = "ENDING" /\ pc[c] # "ENDING"]_vars

(* The queue keeps the promise of TaskContract: what a reader sees of a task *)
(* moves only as the contract allows, and success follows a stored result.   *)
Contract == INSTANCE TaskContract WITH state <- status, stored <- runs
KeepsContract == Contract!Spec

(* Whatever crashes, a claimed task does not stay active for ever.           *)
ActiveTasksEnd == \A t \in Tasks : Active(t) ~> ~Active(t)

(* A queued task is claimed or cancelled, unless the attempts of the model   *)
(* are used up.                                                              *)
Exhausted == \A a \in Attempts : attempt[a] # "UNUSED"

QueuedTasksLeave ==
  \A t \in Tasks : status[t] = "QUEUED" ~> status[t] # "QUEUED" \/ Exhausted

(* The queue goes on: what is claimed ends, and what waits is taken.          *)
TasksGoOn == ActiveTasksEnd /\ QueuedTasksLeave
=============================================================================

------------------------ MODULE ResearchTasksProofs ------------------------
(***************************************************************************)
(* Proofs about ResearchTasks for every set of tasks and attempts, every   *)
(* number of bars and processors, and any number of crashes.  The          *)
(* inductive invariant IInv is the conjunction of the parts defined below; *)
(* each part is shown to be preserved from the parts before it.            *)
(***************************************************************************)
EXTENDS ResearchTasks, FiniteSetTheorems, TLAPS

(* Which attempts, tasks and processes exist, and what the supervisor holds. *)
Existence ==
  /\ \A a \in Attempts : attempt[a] = "UNUSED" <=> taskOf[a] = None
  /\ \A c \in Attempts : pc[c] # "IDLE" => attempt[c] # "UNUSED"
  /\ \A t \in Tasks : Active(t) => current[t] # None
  /\ \A t \in Tasks : current[t] # None => taskOf[current[t]] = t /\ status[t] # "NONE"
  /\ \A a \in Attempts : attempt[a] # "UNUSED" => current[taskOf[a]] # None
  /\ sup = "SPAWNING" => pc[focus] = "IDLE" /\ attempt[focus] # "UNUSED"
  /\ sup = "REAPING" => pc[focus] = "EXITED"

(* The attempt a process read belongs to the task it was started for.        *)
Holding ==
  /\ \A c \in Attempts : held[c] # None => taskOf[c] # None /\ taskOf[held[c]] = taskOf[c]
  /\ \A c \in Attempts : pc[c] \notin {"IDLE", "SPAWNED", "EXITED"} => held[c] # None

(* Once a process may save, no other process of the attempt may.             *)
Saving ==
  /\ \A c \in Attempts :
       pc[c] \in {"SAVING", "SAVED"} /\ Owns(taskOf[c], held[c])
       => status[taskOf[c]] = "FINALIZING"
  /\ \A c \in Attempts : pc[c] = "SAVED" => taskOf[c] \in runs
  /\ SingleSaver

(* The stored progress is never behind a process that owns the task.         *)
Counting ==
  /\ \A c \in Attempts :
       pc[c] = "COMPUTING" /\ Owns(taskOf[c], held[c]) => done[c] <= completed[taskOf[c]]
  /\ FinalizedIsComplete

(* Live processes are children of this supervisor, or of the crashed one     *)
(* whose place nobody could take yet.                                        *)
Locking ==
  /\ \A c \in Attempts : Alive(c) => c \in children
  /\ Cardinality(children) <= Cpus
  /\ sup = "SPAWNING" => Cardinality(children) < Cpus
  /\ RecoveryFindsNoChild

IInv ==
  /\ TypeOK /\ Existence /\ Holding /\ RunningAttemptIsCurrent
  /\ Saving /\ Counting /\ SucceededHasItsRun /\ Locking

-----------------------------------------------------------------------------
(* finish() either changes nothing or closes the task and its attempt.       *)
LEMMA FinishCases ==
  ASSUME NEW t, NEW a, NEW wish \in Terminal, FinishJob(t, a, wish)
  PROVE  \/ UNCHANGED <<jobVars, tryVars>>
         \/ /\ Owns(t, a)
            /\ \E o \in Terminal :
                 /\ o = "SUCCEEDED" => wish = "SUCCEEDED"
                 /\ o = IF status[t] = "CANCEL_REQUESTED" THEN "CANCELLED" ELSE wish
                 /\ status' = [status EXCEPT ![t] = o]
                 /\ linked' = [linked EXCEPT ![t] = (o = "SUCCEEDED")]
                 /\ attempt' = [attempt EXCEPT ![a] = o]
            /\ UNCHANGED <<current, completed, created, submitted, taskOf>>
  <1>1. CASE ~Owns(t, a)
    BY <1>1 DEF FinishJob
  <1>2. CASE Owns(t, a)
    <2> DEFINE o == Outcome(t, wish)
    <2>1. /\ o \in Terminal /\ (o = "SUCCEEDED" => wish = "SUCCEEDED")
          /\ o = IF status[t] = "CANCEL_REQUESTED" THEN "CANCELLED" ELSE wish
      BY DEF Outcome, Terminal
    <2>2. /\ status' = [status EXCEPT ![t] = o]
          /\ linked' = [linked EXCEPT ![t] = (o = "SUCCEEDED")]
          /\ attempt' = [attempt EXCEPT ![a] = o]
          /\ UNCHANGED <<current, completed, created, submitted, taskOf>>
      BY <1>2 DEF FinishJob
    <2> HIDE DEF o
    <2> QED BY <1>2, <2>1, <2>2
  <1> QED BY <1>1, <1>2

(* The three callers of finish() name a task that exists.                    *)
LEMMA FinishCallers ==
  ASSUME TypeOK, Existence, Holding,
         \/ \E c \in Attempts : Report(c)
         \/ Reap
         \/ \E t \in Tasks : RecoverTask(t)
  PROVE  \E t \in Tasks, a \in Attempts \union {None}, wish \in Terminal :
           /\ FinishJob(t, a, wish)
           /\ wish # "CANCELLED"
           /\ wish = "SUCCEEDED" =>
                \E c \in Attempts : pc[c] = "SAVED" /\ taskOf[c] = t /\ held[c] = a
           /\ UNCHANGED <<runs, held, done, signalled, crashes>>
           /\ \/ \E c \in Attempts : /\ pc[c] \in {"SAVED", "FAILING", "INTERRUPTED"}
                                     /\ pc' = [pc EXCEPT ![c] = "ENDING"]
                                     /\ UNCHANGED supVars
              \/ /\ sup = "REAPING" /\ sup' = "POLLING"
                 /\ children' = children \ {focus} /\ focus' = None /\ observed' = None
                 /\ UNCHANGED <<pc, pass>>
              \/ sup \in {"RECOVERING", "CLEARING"} /\ UNCHANGED <<pc, supVars>>
  <1> USE ResearchAssumption
  <1>1. ASSUME NEW c \in Attempts, Report(c)
        PROVE  /\ taskOf[c] \in Tasks /\ held[c] \in Attempts \union {None}
               /\ Wish(c) \in Terminal /\ Wish(c) # "CANCELLED"
               /\ FinishJob(taskOf[c], held[c], Wish(c))
               /\ Wish(c) = "SUCCEEDED" => pc[c] = "SAVED"
               /\ UNCHANGED <<runs, held, done, signalled, supVars>>
               /\ pc[c] \in {"SAVED", "FAILING", "INTERRUPTED"}
               /\ pc' = [pc EXCEPT ![c] = "ENDING"]
    BY <1>1 DEF Report, TypeOK, Existence, Wish, Terminal, Goto
  <1>2. ASSUME Reap
        PROVE  /\ taskOf[focus] \in Tasks /\ observed \in Attempts \union {None}
               /\ FinishJob(taskOf[focus], observed, "INTERRUPTED")
               /\ "INTERRUPTED" \in Terminal /\ "INTERRUPTED" \notin {"SUCCEEDED", "CANCELLED"}
               /\ UNCHANGED <<runs, held, done, signalled, crashes>>
               /\ sup = "REAPING" /\ sup' = "POLLING"
               /\ children' = children \ {focus} /\ focus' = None /\ observed' = None
               /\ UNCHANGED <<pc, pass>>
    BY <1>2 DEF Reap, TypeOK, Existence, Terminal, childVars
  <1>3. ASSUME NEW t \in Tasks, RecoverTask(t)
        PROVE  /\ current[t] \in Attempts \union {None}
               /\ FinishJob(t, current[t], "INTERRUPTED")
               /\ "INTERRUPTED" \in Terminal /\ "INTERRUPTED" \notin {"SUCCEEDED", "CANCELLED"}
               /\ UNCHANGED <<runs, held, done, signalled, crashes>>
               /\ sup \in {"RECOVERING", "CLEARING"} /\ UNCHANGED <<pc, supVars>>
    BY <1>3 DEF RecoverTask, TypeOK, Terminal, childVars, supVars
  <1>4. CASE \E c \in Attempts : Report(c)
    BY <1>1, <1>4 DEF supVars
  <1>5. CASE Reap
    BY <1>2, <1>5
  <1>6. CASE \E t \in Tasks : RecoverTask(t)
    BY <1>3, <1>6 DEF supVars
  <1> QED BY <1>4, <1>5, <1>6

(* The steps of Next, grouped by what they touch.                            *)
UserPart   == \E t \in Tasks : Submit(t) \/ Cancel(t) \/ Retry(t)
QuietPart  == \E c \in Attempts : Raise(c) \/ StopSeen(c) \/ Exit(c) \/ Die(c)
WorkPart   == \E c \in Attempts :
                 \/ ReadTask(c) \/ Finalize(c) \/ Save(c)
                 \/ \E n \in 0..Total : Progress(c, n)
FinishPart == \/ \E c \in Attempts : Report(c)
              \/ Reap
              \/ \E t \in Tasks : RecoverTask(t)
ClaimPart  == \E t \in Tasks, a \in Attempts : Claim(t, a)
LoopPart   == \/ Recovered \/ Polled \/ Spawn \/ NotAdmitted \/ Loop \/ Drained
              \/ Start \/ Shutdown \/ Crash
              \/ \E c \in Attempts : Poll(c)

LEMMA NextParts ==
  Next => UserPart \/ QuietPart \/ WorkPart \/ FinishPart \/ ClaimPart \/ LoopPart
  BY DEF Next, UserStep, ChildStep, SupervisorStep,
         UserPart, QuietPart, WorkPart, FinishPart, ClaimPart, LoopPart

LEMMA TypesKept ==
  ASSUME TypeOK, Existence, Holding, [Next]_vars
  PROVE  TypeOK'
  <1> USE ResearchAssumption
  <1> USE DEF jobVars, tryVars, childVars, supVars, Goto
  <1>1. CASE UserPart
    BY <1>1 DEF UserPart, Submit, Cancel, Retry, TypeOK, Status, ActiveSet, Terminal
  <1>2. CASE QuietPart
    BY <1>2 DEF QuietPart, Raise, StopSeen, Exit, Die, TypeOK, Phase
  <1>3. CASE WorkPart
    <2>1. ASSUME NEW c \in Attempts, ReadTask(c) PROVE TypeOK'
      BY <2>1 DEF ReadTask, TypeOK, Existence, Phase
    <2>2. ASSUME NEW c \in Attempts, Finalize(c) \/ Save(c) PROVE TypeOK'
      BY <2>2 DEF Finalize, Save, TypeOK, Existence, Phase, Status, ActiveSet
    <2>3. ASSUME NEW c \in Attempts, NEW n \in 0..Total, Progress(c, n) PROVE TypeOK'
      BY <2>3 DEF Progress, TypeOK, Phase
    <2> QED BY <1>3, <2>1, <2>2, <2>3 DEF WorkPart
  <1>4. CASE FinishPart
    <2>1. PICK t \in Tasks, a \in Attempts \union {None}, wish \in Terminal :
            /\ FinishJob(t, a, wish)
            /\ UNCHANGED <<runs, held, done, signalled, crashes>>
            /\ \/ \E c \in Attempts : /\ pc' = [pc EXCEPT ![c] = "ENDING"]
                                      /\ UNCHANGED supVars
               \/ /\ sup' = "POLLING"
                  /\ children' = children \ {focus} /\ focus' = None /\ observed' = None
                  /\ UNCHANGED <<pc, pass>>
               \/ UNCHANGED <<pc, supVars>>
      BY <1>4, FinishCallers DEF FinishPart
    <2>2. /\ status' \in [Tasks -> Status] /\ linked' \in [Tasks -> BOOLEAN]
          /\ attempt' \in [Attempts -> {"UNUSED", "RUNNING"} \union Terminal]
          /\ UNCHANGED <<current, completed, created, submitted, taskOf>>
      <3>1. CASE UNCHANGED <<jobVars, tryVars>>
        BY <3>1 DEF TypeOK
      <3>2. CASE /\ \E o \in Terminal : /\ status' = [status EXCEPT ![t] = o]
                                        /\ linked' = [linked EXCEPT ![t] = (o = "SUCCEEDED")]
                                        /\ attempt' = [attempt EXCEPT ![a] = o]
                 /\ UNCHANGED <<current, completed, created, submitted, taskOf>>
        <4>1. PICK o \in Terminal : /\ status' = [status EXCEPT ![t] = o]
                                    /\ linked' = [linked EXCEPT ![t] = (o = "SUCCEEDED")]
                                    /\ attempt' = [attempt EXCEPT ![a] = o]
          BY <3>2
        <4>2. o \in Status /\ (o = "SUCCEEDED") \in BOOLEAN
          BY DEF Status
        <4> QED BY <3>2, <4>1, <4>2 DEF TypeOK
      <3> QED BY <2>1, <3>1, <3>2, FinishCases
    <2> QED BY <2>1, <2>2 DEF TypeOK, Phase, Supervisor
  <1>5. CASE ClaimPart
    BY <1>5 DEF ClaimPart, Claim, TypeOK, Status, ActiveSet, Supervisor
  <1>6. CASE LoopPart
    <2>1. CASE \E c \in Attempts : Poll(c)
      BY <2>1 DEF Poll, TypeOK, Existence, Supervisor, Phase
    <2>2. CASE Spawn
      BY <2>2 DEF Spawn, TypeOK, Supervisor, Phase
    <2>3. CASE Shutdown
      BY <2>3 DEF Shutdown, TypeOK, Supervisor
    <2>4. CASE Recovered \/ Polled \/ NotAdmitted \/ Loop \/ Drained \/ Start \/ Crash
      BY <2>4 DEF Recovered, Polled, NotAdmitted, Loop, Drained, Start, Crash,
                  TypeOK, Supervisor
    <2> QED BY <1>6, <2>1, <2>2, <2>3, <2>4 DEF LoopPart
  <1>7. CASE UNCHANGED vars
    BY <1>7 DEF vars, TypeOK
  <1> QED BY <1>1, <1>2, <1>3, <1>4, <1>5, <1>6, <1>7, NextParts

LEMMA ExistenceKept ==
  ASSUME TypeOK, Existence, Holding, [Next]_vars
  PROVE  Existence'
  <1> USE ResearchAssumption
  <1> USE DEF jobVars, tryVars, childVars, supVars, Goto
  <1>1. CASE UserPart
    BY <1>1 DEF UserPart, Submit, Cancel, Retry, TypeOK, Existence, Active, ActiveSet
  <1>2. CASE QuietPart
    BY <1>2 DEF QuietPart, Raise, StopSeen, Exit, Die, Alive, TypeOK, Existence, Active
  <1>3. CASE WorkPart
    <2>1. ASSUME NEW c \in Attempts, ReadTask(c) \/ Save(c) PROVE Existence'
      BY <2>1 DEF ReadTask, Save, TypeOK, Existence, Active
    <2>2. ASSUME NEW c \in Attempts, Finalize(c) PROVE Existence'
      BY <2>2 DEF Finalize, MayFinalize, TypeOK, Existence, Active, ActiveSet
    <2>3. ASSUME NEW c \in Attempts, NEW n \in 0..Total, Progress(c, n) PROVE Existence'
      BY <2>3 DEF Progress, TypeOK, Existence, Active
    <2> QED BY <1>3, <2>1, <2>2, <2>3 DEF WorkPart
  <1>4. CASE FinishPart
    <2>1. PICK t \in Tasks, a \in Attempts \union {None}, wish \in Terminal :
            /\ FinishJob(t, a, wish)
            /\ \/ \E c \in Attempts : /\ pc[c] \in {"SAVED", "FAILING", "INTERRUPTED"}
                                      /\ pc' = [pc EXCEPT ![c] = "ENDING"]
                                      /\ UNCHANGED supVars
               \/ sup' = "POLLING" /\ UNCHANGED pc
               \/ UNCHANGED <<pc, supVars>>
      BY <1>4, FinishCallers DEF FinishPart
    <2>2. /\ \A u \in Tasks : Active(u)' => Active(u)
          /\ \A u \in Tasks : status'[u] = "NONE" => status[u] = "NONE"
          /\ \A b \in Attempts : attempt'[b] = "UNUSED" <=> attempt[b] = "UNUSED"
          /\ UNCHANGED <<current, taskOf>>
      <3>1. CASE UNCHANGED <<jobVars, tryVars>>
        BY <3>1 DEF Active
      <3>2. CASE /\ Owns(t, a)
                 /\ \E o \in Terminal : /\ status' = [status EXCEPT ![t] = o]
                                        /\ attempt' = [attempt EXCEPT ![a] = o]
                 /\ UNCHANGED <<current, completed, created, submitted, taskOf>>
        BY <3>2 DEF Active, ActiveSet, Terminal, Owns, TypeOK, Existence
      <3> QED BY <2>1, <3>1, <3>2, FinishCases
    <2> QED BY <2>1, <2>2 DEF Existence, TypeOK
  <1>5. CASE ClaimPart
    BY <1>5 DEF ClaimPart, Claim, TypeOK, Existence, Active
  <1>6. CASE LoopPart
    <2>1. CASE \E c \in Attempts : Poll(c)
      BY <2>1 DEF Poll, TypeOK, Existence, Active
    <2>2. CASE Spawn
      BY <2>2 DEF Spawn, TypeOK, Existence, Active
    <2>3. CASE \/ Recovered \/ Polled \/ NotAdmitted \/ Loop \/ Drained \/ Start
               \/ Crash \/ Shutdown
      BY <2>3 DEF Recovered, Polled, NotAdmitted, Loop, Drained, Start, Crash, Shutdown,
                  TypeOK, Existence, Active
    <2> QED BY <1>6, <2>1, <2>2, <2>3 DEF LoopPart
  <1>7. CASE UNCHANGED vars
    BY <1>7 DEF vars, Existence, Active
  <1> QED BY <1>1, <1>2, <1>3, <1>4, <1>5, <1>6, <1>7, NextParts

LEMMA HoldingKept ==
  ASSUME TypeOK, Existence, Holding, [Next]_vars
  PROVE  Holding'
  <1> USE ResearchAssumption
  <1> USE DEF jobVars, tryVars, childVars, supVars, Goto
  <1>1. CASE UserPart
    BY <1>1 DEF UserPart, Submit, Cancel, Retry, Holding
  <1>2. CASE QuietPart
    BY <1>2 DEF QuietPart, Raise, StopSeen, Exit, Die, Alive, TypeOK, Holding
  <1>3. CASE WorkPart
    <2>1. ASSUME NEW c \in Attempts, ReadTask(c) PROVE Holding'
      <3>1. /\ current[taskOf[c]] # None /\ taskOf[c] \in Tasks
            /\ taskOf[current[taskOf[c]]] = taskOf[c]
        BY <2>1 DEF ReadTask, TypeOK, Existence
      <3> QED BY <2>1, <3>1 DEF ReadTask, TypeOK, Holding
    <2>2. ASSUME NEW c \in Attempts, Finalize(c) \/ Save(c) PROVE Holding'
      BY <2>2 DEF Finalize, Save, TypeOK, Holding
    <2>3. ASSUME NEW c \in Attempts, NEW n \in 0..Total, Progress(c, n) PROVE Holding'
      BY <2>3 DEF Progress, TypeOK, Holding
    <2> QED BY <1>3, <2>1, <2>2, <2>3 DEF WorkPart
  <1>4. CASE FinishPart
    <2>1. PICK t \in Tasks, a \in Attempts \union {None}, wish \in Terminal :
            /\ FinishJob(t, a, wish)
            /\ UNCHANGED held
            /\ \/ \E c \in Attempts : /\ pc[c] \in {"SAVED", "FAILING", "INTERRUPTED"}
                                      /\ pc' = [pc EXCEPT ![c] = "ENDING"]
               \/ UNCHANGED pc
      BY <1>4, FinishCallers DEF FinishPart
    <2>2. UNCHANGED taskOf
      BY <2>1, FinishCases
    <2> QED BY <2>1, <2>2 DEF Holding, TypeOK
  <1>5. CASE ClaimPart
    BY <1>5 DEF ClaimPart, Claim, TypeOK, Existence, Holding
  <1>6. CASE LoopPart
    <2>1. CASE \E c \in Attempts : Poll(c)
      BY <2>1 DEF Poll, Holding
    <2>2. CASE Spawn
      BY <2>2 DEF Spawn, TypeOK, Holding
    <2>3. CASE \/ Recovered \/ Polled \/ NotAdmitted \/ Loop \/ Drained \/ Start
               \/ Crash \/ Shutdown
      BY <2>3 DEF Recovered, Polled, NotAdmitted, Loop, Drained, Start, Crash, Shutdown,
                  Holding
    <2> QED BY <1>6, <2>1, <2>2, <2>3 DEF LoopPart
  <1>7. CASE UNCHANGED vars
    BY <1>7 DEF vars, Holding
  <1> QED BY <1>1, <1>2, <1>3, <1>4, <1>5, <1>6, <1>7, NextParts

(* Steps that leave the job and attempt tables alone cannot disturb the      *)
(* agreement between them.                                                   *)
LEMMA RunningKept ==
  ASSUME TypeOK, Existence, Holding, RunningAttemptIsCurrent, [Next]_vars
  PROVE  RunningAttemptIsCurrent'
  <1> USE ResearchAssumption
  <1> USE DEF jobVars, tryVars, childVars, supVars, Goto
  <1>0. ASSUME UNCHANGED <<status, current, attempt, taskOf>>
        PROVE  RunningAttemptIsCurrent'
    BY <1>0 DEF RunningAttemptIsCurrent, Owns, Active
  <1>1. CASE UserPart
    BY <1>1 DEF UserPart, Submit, Cancel, Retry, RunningAttemptIsCurrent, Owns, Active,
                ActiveSet, TypeOK
  <1>2. CASE QuietPart
    BY <1>0, <1>2 DEF QuietPart, Raise, StopSeen, Exit, Die
  <1>3. CASE WorkPart
    <2>1. ASSUME NEW c \in Attempts, ReadTask(c) \/ Save(c) PROVE RunningAttemptIsCurrent'
      BY <1>0, <2>1 DEF ReadTask, Save
    <2>2. ASSUME NEW c \in Attempts, Finalize(c) PROVE RunningAttemptIsCurrent'
      BY <2>2 DEF Finalize, MayFinalize, RunningAttemptIsCurrent, Owns, Active, ActiveSet, TypeOK
    <2>3. ASSUME NEW c \in Attempts, NEW n \in 0..Total, Progress(c, n)
          PROVE RunningAttemptIsCurrent'
      BY <1>0, <2>3 DEF Progress
    <2> QED BY <1>3, <2>1, <2>2, <2>3 DEF WorkPart
  <1>4. CASE FinishPart
    <2>1. PICK t \in Tasks, a \in Attempts \union {None}, wish \in Terminal :
            FinishJob(t, a, wish)
      BY <1>4, FinishCallers DEF FinishPart
    <2>2. CASE UNCHANGED <<jobVars, tryVars>>
      BY <1>0, <2>2
    <2>3. CASE /\ Owns(t, a)
               /\ \E o \in Terminal : /\ status' = [status EXCEPT ![t] = o]
                                      /\ attempt' = [attempt EXCEPT ![a] = o]
               /\ UNCHANGED <<current, completed, created, submitted, taskOf>>
      BY <2>3 DEF RunningAttemptIsCurrent, Owns, Active, ActiveSet, Terminal, TypeOK, Existence
    <2> QED BY <2>1, <2>2, <2>3, FinishCases
  <1>5. CASE ClaimPart
    BY <1>5 DEF ClaimPart, Claim, Oldest, TypeOK, Existence, RunningAttemptIsCurrent, Owns,
                Active, ActiveSet
  <1>6. CASE LoopPart
    BY <1>0, <1>6 DEF LoopPart, Poll, Spawn, Recovered, Polled, NotAdmitted, Loop, Drained,
                      Start, Crash, Shutdown
  <1>7. CASE UNCHANGED vars
    BY <1>0, <1>7 DEF vars
  <1> QED BY <1>1, <1>2, <1>3, <1>4, <1>5, <1>6, <1>7, NextParts

LEMMA SavingKept ==
  ASSUME TypeOK, Existence, Holding, Saving, [Next]_vars
  PROVE  Saving'
  <1> USE ResearchAssumption
  <1> USE DEF jobVars, tryVars, childVars, supVars, Goto
  <1> USE DEF Saving, SingleSaver, Owns, Active, ActiveSet
  <1>1. CASE UserPart
    <2>1. ASSUME NEW t \in Tasks, Submit(t) PROVE Saving'
      BY <2>1 DEF Submit, TypeOK
    <2>2. ASSUME NEW t \in Tasks, Cancel(t) PROVE Saving'
      <3>1. /\ \A u \in Tasks :
                 \/ status'[u] = status[u]
                 \/ status[u] = "RUNNING" /\ status'[u] = "CANCEL_REQUESTED"
                 \/ status'[u] = "CANCELLED"
            /\ UNCHANGED <<current, completed, tryVars, runs, childVars>>
        BY <2>2 DEF Cancel, TypeOK
      <3> QED BY <3>1 DEF TypeOK, Existence, Holding
    <2>3. ASSUME NEW t \in Tasks, Retry(t) PROVE Saving'
      BY <2>3 DEF Retry, TypeOK
    <2> QED BY <1>1, <2>1, <2>2, <2>3 DEF UserPart
  <1>2. CASE QuietPart
    BY <1>2 DEF QuietPart, Raise, StopSeen, Exit, Die, TypeOK
  <1>3. CASE WorkPart
    <2>1. ASSUME NEW c \in Attempts, ReadTask(c) PROVE Saving'
      BY <2>1 DEF ReadTask, TypeOK
    <2>2. ASSUME NEW c \in Attempts, Finalize(c) PROVE Saving'
      BY <2>2 DEF Finalize, MayFinalize, TypeOK, Existence, Holding
    <2>3. ASSUME NEW c \in Attempts, Save(c) PROVE Saving'
      BY <2>3 DEF Save, TypeOK
    <2>4. ASSUME NEW c \in Attempts, NEW n \in 0..Total, Progress(c, n) PROVE Saving'
      BY <2>4 DEF Progress, TypeOK
    <2> QED BY <1>3, <2>1, <2>2, <2>3, <2>4 DEF WorkPart
  <1>4. CASE FinishPart
    <2>1. PICK t \in Tasks, a \in Attempts \union {None}, wish \in Terminal :
            /\ FinishJob(t, a, wish)
            /\ UNCHANGED <<runs, held>>
            /\ \/ \E c \in Attempts : pc' = [pc EXCEPT ![c] = "ENDING"]
               \/ UNCHANGED pc
      BY <1>4, FinishCallers DEF FinishPart
    <2>2. \A c \in Attempts : pc'[c] \in {"SAVING", "SAVED"} => pc'[c] = pc[c]
      BY <2>1 DEF TypeOK
    <2>3. CASE UNCHANGED <<jobVars, tryVars>>
      BY <2>1, <2>2, <2>3
    <2>4. CASE /\ \E o \in Terminal : status' = [status EXCEPT ![t] = o]
               /\ UNCHANGED <<current, completed, created, submitted, taskOf>>
      BY <2>1, <2>2, <2>4 DEF Terminal, TypeOK
    <2> QED BY <2>1, <2>3, <2>4, FinishCases
  <1>5. CASE ClaimPart
    BY <1>5 DEF ClaimPart, Claim, TypeOK, Existence, Holding
  <1>6. CASE LoopPart
    <2>1. CASE Spawn
      BY <2>1 DEF Spawn, TypeOK
    <2>2. CASE \E c \in Attempts : Poll(c)
      BY <2>2 DEF Poll
    <2>3. CASE \/ Recovered \/ Polled \/ NotAdmitted \/ Loop \/ Drained \/ Start
               \/ Crash \/ Shutdown
      BY <2>3 DEF Recovered, Polled, NotAdmitted, Loop, Drained, Start, Crash, Shutdown
    <2> QED BY <1>6, <2>1, <2>2, <2>3 DEF LoopPart
  <1>7. CASE UNCHANGED vars
    BY <1>7 DEF vars
  <1> QED BY <1>1, <1>2, <1>3, <1>4, <1>5, <1>6, <1>7, NextParts

LEMMA CountingKept ==
  ASSUME TypeOK, Existence, Holding, Saving, Counting, [Next]_vars
  PROVE  Counting'
  <1> USE ResearchAssumption
  <1> USE DEF jobVars, tryVars, childVars, supVars, Goto
  <1> USE DEF Counting, FinalizedIsComplete, Owns, Active, ActiveSet
  <1>1. CASE UserPart
    <2>1. ASSUME NEW t \in Tasks, Submit(t) PROVE Counting'
      BY <2>1 DEF Submit, TypeOK
    <2>2. ASSUME NEW t \in Tasks, Cancel(t) PROVE Counting'
      <3>1. /\ \A u \in Tasks :
                 \/ status'[u] = status[u]
                 \/ status[u] = "RUNNING" /\ status'[u] = "CANCEL_REQUESTED"
                 \/ status'[u] = "CANCELLED"
            /\ UNCHANGED <<current, completed, tryVars, runs, childVars>>
        BY <2>2 DEF Cancel, TypeOK
      <3> QED BY <3>1 DEF TypeOK, Existence, Holding
    <2>3. ASSUME NEW t \in Tasks, Retry(t) PROVE Counting'
      BY <2>3 DEF Retry, TypeOK
    <2> QED BY <1>1, <2>1, <2>2, <2>3 DEF UserPart
  <1>2. CASE QuietPart
    BY <1>2 DEF QuietPart, Raise, StopSeen, Exit, Die, TypeOK
  <1>3. CASE WorkPart
    <2>1. ASSUME NEW c \in Attempts, ReadTask(c) \/ Save(c) PROVE Counting'
      BY <2>1 DEF ReadTask, Save, TypeOK
    <2>2. ASSUME NEW c \in Attempts, Finalize(c) PROVE Counting'
      BY <2>2 DEF Finalize, MayFinalize, TypeOK, Existence
    <2>3. ASSUME NEW c \in Attempts, NEW n \in 0..Total, Progress(c, n) PROVE Counting'
      BY <2>3 DEF Progress, MayRecord, TypeOK, Existence
    <2> QED BY <1>3, <2>1, <2>2, <2>3 DEF WorkPart
  <1>4. CASE FinishPart
    <2>1. PICK t \in Tasks, a \in Attempts \union {None}, wish \in Terminal :
            /\ FinishJob(t, a, wish)
            /\ wish = "SUCCEEDED" =>
                 \E c \in Attempts : pc[c] = "SAVED" /\ taskOf[c] = t /\ held[c] = a
            /\ UNCHANGED <<done, held>>
            /\ \/ \E c \in Attempts : pc' = [pc EXCEPT ![c] = "ENDING"]
               \/ UNCHANGED pc
      BY <1>4, FinishCallers DEF FinishPart
    <2>2. \A c \in Attempts : pc'[c] = "COMPUTING" => pc[c] = "COMPUTING"
      BY <2>1 DEF TypeOK
    <2>3. CASE UNCHANGED <<jobVars, tryVars>>
      BY <2>1, <2>2, <2>3
    <2>4. CASE /\ Owns(t, a)
               /\ \E o \in Terminal : /\ o = "SUCCEEDED" => wish = "SUCCEEDED"
                                      /\ status' = [status EXCEPT ![t] = o]
               /\ UNCHANGED <<current, completed, created, submitted, taskOf>>
      BY <2>1, <2>2, <2>4 DEF Terminal, TypeOK, Saving
    <2> QED BY <2>1, <2>3, <2>4, FinishCases
  <1>5. CASE ClaimPart
    BY <1>5 DEF ClaimPart, Claim, TypeOK, Existence, Holding
  <1>6. CASE LoopPart
    <2>1. CASE Spawn
      BY <2>1 DEF Spawn, TypeOK
    <2>2. CASE \E c \in Attempts : Poll(c)
      BY <2>2 DEF Poll
    <2>3. CASE \/ Recovered \/ Polled \/ NotAdmitted \/ Loop \/ Drained \/ Start
               \/ Crash \/ Shutdown
      BY <2>3 DEF Recovered, Polled, NotAdmitted, Loop, Drained, Start, Crash, Shutdown
    <2> QED BY <1>6, <2>1, <2>2, <2>3 DEF LoopPart
  <1>7. CASE UNCHANGED vars
    BY <1>7 DEF vars
  <1> QED BY <1>1, <1>2, <1>3, <1>4, <1>5, <1>6, <1>7, NextParts

LEMMA SuccessKept ==
  ASSUME TypeOK, Existence, Holding, Saving, SucceededHasItsRun, [Next]_vars
  PROVE  SucceededHasItsRun'
  <1> USE ResearchAssumption
  <1> USE DEF jobVars, tryVars, childVars, supVars, Goto
  <1>0. ASSUME UNCHANGED <<status, linked, current, attempt>>, runs \subseteq runs'
        PROVE  SucceededHasItsRun'
    BY <1>0 DEF SucceededHasItsRun
  <1>1. CASE UserPart
    BY <1>1 DEF UserPart, Submit, Cancel, Retry, TypeOK, SucceededHasItsRun
  <1>2. CASE QuietPart
    BY <1>0, <1>2 DEF QuietPart, Raise, StopSeen, Exit, Die
  <1>3. CASE WorkPart
    <2>1. ASSUME NEW c \in Attempts, ReadTask(c) \/ Save(c) PROVE SucceededHasItsRun'
      BY <1>0, <2>1 DEF ReadTask, Save
    <2>2. ASSUME NEW c \in Attempts, Finalize(c) PROVE SucceededHasItsRun'
      BY <2>2 DEF Finalize, MayFinalize, TypeOK, SucceededHasItsRun
    <2>3. ASSUME NEW c \in Attempts, NEW n \in 0..Total, Progress(c, n)
          PROVE SucceededHasItsRun'
      BY <1>0, <2>3 DEF Progress
    <2> QED BY <1>3, <2>1, <2>2, <2>3 DEF WorkPart
  <1>4. CASE FinishPart
    <2>1. PICK t \in Tasks, a \in Attempts \union {None}, wish \in Terminal :
            /\ FinishJob(t, a, wish)
            /\ wish = "SUCCEEDED" =>
                 \E c \in Attempts : pc[c] = "SAVED" /\ taskOf[c] = t /\ held[c] = a
            /\ UNCHANGED runs
      BY <1>4, FinishCallers DEF FinishPart
    <2>2. CASE UNCHANGED <<jobVars, tryVars>>
      BY <1>0, <2>1, <2>2
    <2>3. CASE /\ Owns(t, a)
               /\ \E o \in Terminal : /\ o = "SUCCEEDED" => wish = "SUCCEEDED"
                                      /\ status' = [status EXCEPT ![t] = o]
                                      /\ linked' = [linked EXCEPT ![t] = (o = "SUCCEEDED")]
                                      /\ attempt' = [attempt EXCEPT ![a] = o]
               /\ UNCHANGED <<current, completed, created, submitted, taskOf>>
      <3>1. PICK o \in Terminal : /\ o = "SUCCEEDED" => wish = "SUCCEEDED"
                                  /\ status' = [status EXCEPT ![t] = o]
                                  /\ linked' = [linked EXCEPT ![t] = (o = "SUCCEEDED")]
                                  /\ attempt' = [attempt EXCEPT ![a] = o]
        BY <2>3
      <3>2. o = "SUCCEEDED" => t \in runs
        BY <2>1, <3>1 DEF Saving
      <3>3. a \in Attempts /\ taskOf[a] = t
        BY <2>3 DEF Owns, Existence, TypeOK
      <3>4. \A u \in Tasks : u # t /\ status[u] = "SUCCEEDED" => current[u] # a
        BY <3>3 DEF Existence
      <3>5. ASSUME NEW u \in Tasks
            PROVE  /\ (linked[u] <=> status[u] = "SUCCEEDED")'
                   /\ (linked[u] => u \in runs /\ attempt[current[u]] = "SUCCEEDED")'
        <4>1. CASE u = t
          <5>1. linked'[u] = (o = "SUCCEEDED") /\ status'[u] = o /\ current'[u] = a
            BY <2>3, <3>1, <4>1 DEF TypeOK, Owns
          <5>2. attempt'[a] = o
            BY <3>1, <3>3 DEF TypeOK
          <5> QED BY <2>1, <3>2, <4>1, <5>1, <5>2
        <4>2. CASE u # t
          <5>1. linked'[u] = linked[u] /\ status'[u] = status[u] /\ current'[u] = current[u]
            BY <2>3, <3>1, <4>2 DEF TypeOK
          <5>2. linked[u] => current[u] # a
            BY <3>4, <4>2 DEF SucceededHasItsRun
          <5>3. linked[u] => attempt'[current[u]] = attempt[current[u]]
            BY <3>1, <5>2 DEF TypeOK, SucceededHasItsRun
          <5> QED BY <2>1, <5>1, <5>3 DEF SucceededHasItsRun
        <4> QED BY <4>1, <4>2
      <3> QED BY <3>5 DEF SucceededHasItsRun
    <2> QED BY <2>1, <2>2, <2>3, FinishCases
  <1>5. CASE ClaimPart
    <2>1. PICK t \in Tasks, a \in Attempts : Claim(t, a)
      BY <1>5 DEF ClaimPart
    <2>2. \A u \in Tasks : current[u] # a
      BY <2>1 DEF Claim, Existence
    <2> QED BY <2>1, <2>2 DEF Claim, Oldest, TypeOK, SucceededHasItsRun
  <1>6. CASE LoopPart
    BY <1>0, <1>6 DEF LoopPart, Poll, Spawn, Recovered, Polled, NotAdmitted, Loop, Drained,
                      Start, Crash, Shutdown
  <1>7. CASE UNCHANGED vars
    BY <1>0, <1>7 DEF vars
  <1> QED BY <1>1, <1>2, <1>3, <1>4, <1>5, <1>6, <1>7, NextParts

LEMMA LockingKept ==
  ASSUME TypeOK, Existence, Holding, Locking, [Next]_vars
  PROVE  Locking'
  <1> USE ResearchAssumption
  <1> USE DEF jobVars, tryVars, childVars, supVars, Goto
  <1> USE DEF Locking, RecoveryFindsNoChild, Alive
  <1>0. IsFiniteSet(children) /\ Cardinality(children) \in Nat
    BY FS_Subset, FS_CardinalityType DEF TypeOK
  <1>1. \A S \in SUBSET children : Cardinality(S) <= Cardinality(children)
    BY <1>0, FS_Subset
  <1>2. CASE UserPart
    BY <1>2 DEF UserPart, Submit, Cancel, Retry
  <1>3. CASE QuietPart
    BY <1>3 DEF QuietPart, Raise, StopSeen, Exit, Die, TypeOK
  <1>4. CASE WorkPart
    BY <1>4 DEF WorkPart, ReadTask, Finalize, Save, Progress, TypeOK
  <1>5. CASE FinishPart
    <2>1. CASE \E c \in Attempts : Report(c)
      BY <2>1 DEF Report, TypeOK
    <2>2. CASE Reap
      <3>1. Cardinality(children \ {focus}) <= Cardinality(children)
            /\ Cardinality(children \ {focus}) \in Nat
        BY <1>0, <1>1, FS_Subset, FS_CardinalityType
      <3> QED BY <1>0, <2>2, <3>1 DEF Reap, Existence, TypeOK
    <2>3. CASE \E t \in Tasks : RecoverTask(t)
      BY <2>3 DEF RecoverTask
    <2> QED BY <1>5, <2>1, <2>2, <2>3 DEF FinishPart
  <1>6. CASE ClaimPart
    BY <1>6 DEF ClaimPart, Claim, TypeOK
  <1>7. CASE LoopPart
    <2>1. CASE Spawn
      <3>1. IsFiniteSet(children \union {focus})
            /\ Cardinality(children \union {focus}) =
                 IF focus \in children THEN Cardinality(children) ELSE Cardinality(children) + 1
        BY <1>0, FS_AddElement
      <3> QED BY <1>0, <2>1, <3>1 DEF Spawn, TypeOK
    <2>2. ASSUME NEW c \in Attempts, Poll(c) PROVE Locking'
      <3>1. Cardinality(children \ {c}) <= Cardinality(children)
            /\ Cardinality(children \ {c}) \in Nat
        BY <1>0, <1>1, FS_Subset, FS_CardinalityType
      <3>2. /\ \/ children' = children
               \/ pc[c] = "EXITED" /\ children' = children \ {c}
            /\ sup = "POLLING" /\ sup' \in {"POLLING", "REAPING"} /\ UNCHANGED pc
        BY <2>2 DEF Poll
      <3> QED BY <1>0, <3>1, <3>2
    <2>3. CASE Start
      BY <2>3, FS_EmptySet DEF Start, LockFree
    <2>4. CASE Drained
      BY <2>4 DEF Drained
    <2>5. CASE \/ Recovered \/ Polled \/ NotAdmitted \/ Loop \/ Crash \/ Shutdown
      BY <2>5 DEF Recovered, Polled, NotAdmitted, Loop, Crash, Shutdown
    <2> QED BY <1>7, <2>1, <2>2, <2>3, <2>4, <2>5 DEF LoopPart
  <1>8. CASE UNCHANGED vars
    BY <1>8 DEF vars
  <1> QED BY <1>2, <1>3, <1>4, <1>5, <1>6, <1>7, <1>8, NextParts

-----------------------------------------------------------------------------
(* The theorems.                                                             *)

LEMMA Inductive == Spec => []IInv
  <1>1. Init => IInv
    <2> SUFFICES ASSUME Init PROVE IInv
      OBVIOUS
    <2> USE ResearchAssumption DEF Init
    <2>1. TypeOK
      BY DEF TypeOK, Status, Phase, Supervisor
    <2>2. Existence /\ Holding /\ RunningAttemptIsCurrent
      BY DEF Existence, Holding, RunningAttemptIsCurrent, Owns, Active, ActiveSet
    <2>3. Saving /\ Counting /\ SucceededHasItsRun
      BY DEF Saving, SingleSaver, Counting, FinalizedIsComplete, SucceededHasItsRun
    <2>4. Locking
      BY FS_EmptySet DEF Locking, RecoveryFindsNoChild, Alive
    <2> QED BY <2>1, <2>2, <2>3, <2>4 DEF IInv
  <1>2. IInv /\ [Next]_vars => IInv'
    BY TypesKept, ExistenceKept, HoldingKept, RunningKept, SavingKept, CountingKept,
       SuccessKept, LockingKept DEF IInv
  <1> QED BY <1>1, <1>2, PTL DEF Spec

(* The variables of the queue, the processes and the supervisor keep the     *)
(* types the tables and the loop give them.                                  *)
THEOREM TypeCorrect == Spec => []TypeOK
  <1>1. IInv => TypeOK
    BY DEF IInv
  <1> QED BY <1>1, Inductive, PTL

(* finish, claim and recover keep research_jobs and research_job_attempts in *)
(* agreement whatever processes and users do.                                *)
THEOREM AttemptsAgreeWithJobs == Spec => []RunningAttemptIsCurrent
  <1>1. IInv => RunningAttemptIsCurrent
    BY DEF IInv
  <1> QED BY <1>1, Inductive, PTL

(* No job reports SUCCEEDED before its run is stored, and none carries a     *)
(* run_id otherwise.                                                         *)
THEOREM SuccessIsStored == Spec => []SucceededHasItsRun
  <1>1. IInv => SucceededHasItsRun
    BY DEF IInv
  <1> QED BY <1>1, Inductive, PTL

(* A job is finalized only with all of its bars reported.                    *)
THEOREM FinalizedWhole == Spec => []FinalizedIsComplete
  <1>1. IInv => FinalizedIsComplete
    BY DEF IInv, Counting
  <1> QED BY <1>1, Inductive, PTL

(* Jobs, attempts and stored runs tell one story at every moment.             *)
THEOREM TasksSound == Spec => []TasksAreSound
  <1>1. TypeOK /\ RunningAttemptIsCurrent /\ SucceededHasItsRun /\ FinalizedIsComplete
        => TasksAreSound
    BY DEF TasksAreSound
  <1> QED BY <1>1, TypeCorrect, AttemptsAgreeWithJobs, SuccessIsStored, FinalizedWhole, PTL

(* finalizing() admits one process of an attempt, even when a late process   *)
(* reads an attempt that was claimed for another.                            *)
LEMMA OneSaver == Spec => []SingleSaver
  <1>1. IInv => SingleSaver
    BY DEF IInv, Saving
  <1> QED BY <1>1, Inductive, PTL

(* The inherited lock keeps recovery away from live processes and bounds     *)
(* them by the processors, for any number of crashes.                        *)
LEMMA LockIsEnough == Spec => [](RecoveryFindsNoChild /\ WithinCpus)
  <1>1. IInv => RecoveryFindsNoChild /\ WithinCpus
    <2> SUFFICES ASSUME IInv PROVE RecoveryFindsNoChild /\ WithinCpus
      OBVIOUS
    <2> DEFINE live == {c \in Attempts : Alive(c)}
    <2>1. live \subseteq children /\ IsFiniteSet(children)
      BY ResearchAssumption, FS_Subset DEF IInv, Locking, TypeOK
    <2>2. Cardinality(live) <= Cardinality(children)
      BY <2>1, FS_Subset
    <2>3. /\ Cardinality(live) \in Nat /\ Cardinality(children) \in Nat
      BY <2>1, FS_Subset, FS_CardinalityType
    <2>4. Cardinality(children) <= Cpus /\ Cpus \in Nat
      BY ResearchAssumption DEF IInv, Locking
    <2> QED BY <2>2, <2>3, <2>4 DEF IInv, Locking, WithinCpus
  <1> QED BY <1>1, Inductive, PTL

(* Processes that know nothing of each other stay apart: one saver for an    *)
(* attempt, no recovery beside a live process, no more than the processors.  *)
THEOREM NeverTwoAtWork == Spec => []ProcessesKeepApart
  <1>1. SingleSaver /\ RecoveryFindsNoChild /\ WithinCpus => ProcessesKeepApart
    BY DEF ProcessesKeepApart
  <1> QED BY <1>1, OneSaver, LockIsEnough, PTL

-----------------------------------------------------------------------------
(* Action properties and refinement: what one step may do to the tables.     *)

LEMMA ContractStep ==
  ASSUME IInv, [Next]_vars
  PROVE  [Contract!Next]_(Contract!vars)
  <1> USE ResearchAssumption
  <1> USE DEF IInv, jobVars, tryVars, childVars, supVars, Goto
  <1> USE DEF Contract!vars, Contract!Move
  <1>0. ASSUME UNCHANGED <<status, runs>> PROVE [Contract!Next]_(Contract!vars)
    BY <1>0
  <1>1. CASE UserPart
    BY <1>1 DEF UserPart, Submit, Cancel, Retry,
                Contract!Next, Contract!Submit, Contract!Cancel, Contract!Retry
  <1>2. CASE QuietPart
    BY <1>0, <1>2 DEF QuietPart, Raise, StopSeen, Exit, Die
  <1>3. CASE WorkPart
    <2>1. ASSUME NEW c \in Attempts, ReadTask(c) PROVE [Contract!Next]_(Contract!vars)
      BY <1>0, <2>1 DEF ReadTask
    <2>2. ASSUME NEW c \in Attempts, Finalize(c) PROVE [Contract!Next]_(Contract!vars)
      BY <2>2 DEF Finalize, MayFinalize, Existence, TypeOK, Contract!Next, Contract!Seal
    <2>3. ASSUME NEW c \in Attempts, Save(c) PROVE [Contract!Next]_(Contract!vars)
      <3>1. taskOf[c] \in Tasks /\ status[taskOf[c]] # "NONE"
        BY <2>3 DEF Save, Existence, TypeOK
      <3> QED BY <2>3, <3>1 DEF Save, Contract!Next, Contract!Store
    <2>4. ASSUME NEW c \in Attempts, NEW n \in 0..Total, Progress(c, n)
          PROVE [Contract!Next]_(Contract!vars)
      BY <1>0, <2>4 DEF Progress
    <2> QED BY <1>3, <2>1, <2>2, <2>3, <2>4 DEF WorkPart
  <1>4. CASE FinishPart
    <2>1. PICK t \in Tasks, a \in Attempts \union {None}, wish \in Terminal :
            /\ FinishJob(t, a, wish)
            /\ wish # "CANCELLED"
            /\ wish = "SUCCEEDED" =>
                 \E c \in Attempts : pc[c] = "SAVED" /\ taskOf[c] = t /\ held[c] = a
            /\ UNCHANGED runs
      BY <1>4, FinishCallers DEF FinishPart
    <2>2. CASE UNCHANGED <<jobVars, tryVars>>
      BY <1>0, <2>1, <2>2
    <2>3. CASE /\ Owns(t, a)
               /\ \E o \in Terminal :
                    /\ o = IF status[t] = "CANCEL_REQUESTED" THEN "CANCELLED" ELSE wish
                    /\ status' = [status EXCEPT ![t] = o]
      <3>1. wish = "SUCCEEDED" => t \in runs /\ status[t] = "FINALIZING"
        BY <2>1, <2>3 DEF Saving
      <3>2. status[t] \in {"RUNNING", "CANCEL_REQUESTED", "FINALIZING"}
        BY <2>3 DEF Owns, Active, ActiveSet
      <3> QED BY <2>1, <2>3, <3>1, <3>2
              DEF Terminal, Contract!Next, Contract!Succeed, Contract!Confirm,
                  Contract!Fail, Contract!Abandon
    <2> QED BY <2>1, <2>2, <2>3, FinishCases
  <1>5. CASE ClaimPart
    BY <1>5 DEF ClaimPart, Claim, Oldest, Contract!Next, Contract!Start
  <1>6. CASE LoopPart
    BY <1>0, <1>6 DEF LoopPart, Poll, Spawn, Recovered, Polled, NotAdmitted, Loop, Drained,
                      Start, Crash, Shutdown
  <1>7. CASE UNCHANGED vars
    BY <1>0, <1>7 DEF vars
  <1> QED BY <1>1, <1>2, <1>3, <1>4, <1>5, <1>6, <1>7, NextParts

(* What a reader sees of a task moves only as TaskContract allows: success   *)
(* after a stored result, cancellation honoured, history final.              *)
THEOREM QueueKeepsContract == Spec => KeepsContract
  <1>1. Init => Contract!Init
    BY DEF Init, Contract!Init
  <1>2. IInv /\ [Next]_vars => [Contract!Next]_(Contract!vars)
    BY ContractStep
  <1> QED BY <1>1, <1>2, Inductive, PTL DEF Spec, Contract!Spec, KeepsContract

(* A cancellation asked for while running ends in CANCELLED; a cancelled or  *)
(* succeeded task never moves again.                                         *)
THEOREM CancellationIsKept == Spec => CancellationHolds
  <1>1. ASSUME TypeOK, [Contract!Next]_(Contract!vars)
        PROVE  \A t \in Tasks :
                 /\ status[t] = "CANCEL_REQUESTED" =>
                      status'[t] \in {"CANCEL_REQUESTED", "CANCELLED"}
                 /\ status[t] \in {"CANCELLED", "SUCCEEDED"} => status'[t] = status[t]
    BY <1>1 DEF TypeOK, Contract!Next, Contract!vars, Contract!Move, Contract!Submit,
       Contract!Start, Contract!Retry, Contract!Cancel, Contract!Seal, Contract!Store,
       Contract!Succeed, Contract!Confirm, Contract!Fail, Contract!Abandon
  <1>2. IInv /\ [Next]_vars =>
          [\A t \in Tasks :
             /\ status[t] = "CANCEL_REQUESTED" =>
                  status'[t] \in {"CANCEL_REQUESTED", "CANCELLED"}
             /\ status[t] \in {"CANCELLED", "SUCCEEDED"} => status'[t] = status[t]]_vars
    BY <1>1, ContractStep DEF IInv
  <1> QED BY <1>2, Inductive, PTL DEF Spec, CancellationHolds

(* No step rewrites the verdict of a closed attempt.                         *)
THEOREM HistoryIsFinal == Spec => ClosedAttemptsStay
  <1>1. ASSUME IInv, [Next]_vars, NEW b \in Attempts, attempt[b] \in Terminal
        PROVE  attempt'[b] = attempt[b]
    <2> USE DEF jobVars, tryVars, Terminal
    <2>1. CASE FinishPart
      <3>1. PICK t \in Tasks, a \in Attempts \union {None}, wish \in Terminal :
              FinishJob(t, a, wish)
        BY <1>1, <2>1, FinishCallers DEF FinishPart, IInv
      <3>2. Owns(t, a) => a # b
        BY <1>1 DEF IInv, RunningAttemptIsCurrent, Existence, Owns, TypeOK
      <3> QED BY <1>1, <3>1, <3>2, FinishCases DEF IInv, TypeOK
    <2>2. CASE ClaimPart
      BY <1>1, <2>2 DEF ClaimPart, Claim, IInv, TypeOK
    <2>3. CASE UserPart \/ QuietPart \/ WorkPart \/ LoopPart \/ UNCHANGED vars
      BY <2>3 DEF UserPart, Submit, Cancel, Retry, QuietPart, Raise, StopSeen, Exit, Die,
         WorkPart, ReadTask, Finalize, Save, Progress, LoopPart, Poll, Spawn, Recovered,
         Polled, NotAdmitted, Loop, Drained, Start, Crash, Shutdown, vars
    <2> QED BY <1>1, <2>1, <2>2, <2>3, NextParts
  <1>2. IInv /\ [Next]_vars =>
          [\A a \in Attempts : attempt[a] \in Terminal => attempt'[a] = attempt[a]]_vars
    BY <1>1
  <1> QED BY <1>2, Inductive, PTL DEF Spec, ClosedAttemptsStay
=============================================================================

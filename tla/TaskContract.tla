---------------------------- MODULE TaskContract ----------------------------
(***************************************************************************)
(* What the research queue promises of a task, with no attempt, process or *)
(* supervisor in sight: only the status the API shows and the stored result.          *)
(* ResearchTasks is shown to implement it.                                 *)
(***************************************************************************)
CONSTANT Tasks

VARIABLES
  state,   \* the status a reader of the task sees
  stored   \* tasks whose immutable result exists

vars == <<state, stored>>

Init == state = [t \in Tasks |-> "NONE"] /\ stored = {}

Move(t, from, to) ==
  /\ state[t] \in from
  /\ state' = [state EXCEPT ![t] = to]
  /\ UNCHANGED stored

Submit(t) == Move(t, {"NONE"}, "QUEUED")
Start(t)  == Move(t, {"QUEUED"}, "RUNNING")
Retry(t)  == Move(t, {"FAILED", "INTERRUPTED"}, "QUEUED")

\* A queued task is cancelled at once, a running one is only asked to stop.
Cancel(t) == Move(t, {"QUEUED"}, "CANCELLED") \/ Move(t, {"RUNNING"}, "CANCEL_REQUESTED")

\* From here on the task can no longer be cancelled.
Seal(t) == Move(t, {"RUNNING"}, "FINALIZING")

\* Storing is a step of its own: a crash after it leaves a result unreported.
Store(t) ==
  /\ state[t] \notin {"NONE"}
  /\ stored' = stored \union {t}
  /\ UNCHANGED state

Succeed(t) == t \in stored /\ Move(t, {"FINALIZING"}, "SUCCEEDED")
Confirm(t) == Move(t, {"CANCEL_REQUESTED"}, "CANCELLED")
Fail(t)    == Move(t, {"RUNNING", "FINALIZING"}, "FAILED")
Abandon(t) == Move(t, {"RUNNING", "FINALIZING"}, "INTERRUPTED")

Next == \E t \in Tasks :
  \/ Submit(t) \/ Start(t) \/ Retry(t) \/ Cancel(t) \/ Seal(t)
  \/ Store(t) \/ Succeed(t) \/ Confirm(t) \/ Fail(t) \/ Abandon(t)

Spec == Init /\ [][Next]_vars
=============================================================================

-------------------------- MODULE CommandContract --------------------------
(***************************************************************************)
(* What Live promises about a command identity, with no caller, request,   *)
(* clock or process in sight: the receipt a reader sees and whether the    *)
(* effect ran.  LiveCommands is shown to implement it.                     *)
(***************************************************************************)
CONSTANT Ids

VARIABLES
  state,    \* what the receipt of each identity reads
  entered,  \* identities whose effect was entered
  done      \* identities whose effect was committed

vars == <<state, entered, done>>

Init == state = [c \in Ids |-> "ABSENT"] /\ entered = {} /\ done = {}

Move(c, from, to) ==
  state[c] = from /\ state' = [state EXCEPT ![c] = to] /\ UNCHANGED <<entered, done>>

Admit(c) == Move(c, "ABSENT", "RUNNING")

\* The effect is entered once, while the receipt is open, and commits there too.
Enter(c) ==
  /\ state[c] = "RUNNING" /\ c \notin entered
  /\ entered' = entered \union {c} /\ UNCHANGED <<state, done>>

Apply(c) ==
  /\ state[c] = "RUNNING" /\ c \in entered \ done
  /\ done' = done \union {c} /\ UNCHANGED <<state, entered>>

Complete(c) == c \in done /\ Move(c, "RUNNING", "COMPLETED")
Reject(c)   == c \notin entered /\ Move(c, "RUNNING", "REJECTED")
GiveUp(c)   == c \in entered /\ Move(c, "RUNNING", "UNKNOWN")

\* A new owner cannot know how far the open commands came.
Abandon ==
  /\ state' = [c \in Ids |-> IF state[c] = "RUNNING" THEN "UNKNOWN" ELSE state[c]]
  /\ UNCHANGED <<entered, done>>

Next ==
  \/ \E c \in Ids : Admit(c) \/ Enter(c) \/ Apply(c) \/ Complete(c) \/ Reject(c) \/ GiveUp(c)
  \/ Abandon

Spec == Init /\ [][Next]_vars
=============================================================================

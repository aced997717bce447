-------------------------- MODULE MCResearchTasks --------------------------
(* Small instances of ResearchTasks for TLC.                                 *)
EXTENDS ResearchTasks

(* The identities of tasks and attempts are drawn at random and only compared *)
(* for equality, so every behaviour has one like it that draws them in order. *)
(* Unlike a SYMMETRY set this may be used with a liveness property.           *)
InOrder ==
  /\ \A a, b \in Attempts : b < a /\ attempt'[a] # "UNUSED" => attempt'[b] # "UNUSED"
  /\ \A t, u \in Tasks : u < t /\ status'[t] # "NONE" => status'[u] # "NONE"

OrderedSpec == Init /\ [][Next /\ InOrder]_vars
FairOrderedSpec == OrderedSpec /\ Fairness
=============================================================================

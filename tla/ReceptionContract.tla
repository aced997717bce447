------------------------- MODULE ReceptionContract -------------------------
(***************************************************************************)
(* What a reader of Live may rely on for the reception of a stream, with   *)
(* no child process, callback thread, lock or book in sight: when its      *)
(* callbacks are recorded, and what its end says about them.               *)
(*                                                                         *)
(* NativeStream, which has one reception down to the messages of its child *)
(* process, and LiveStreams, which has many among requests, queries and    *)
(* crashes but takes the child as given, are both shown to implement it.   *)
(***************************************************************************)
EXTENDS Naturals

CONSTANT Receptions

VARIABLE reception  \* of each: its phase, the callbacks recorded, its verdict

Untouched == [phase |-> "BEFORE", recorded |-> 0, verdict |-> "NONE"]

Init == reception = [r \in Receptions |-> Untouched]

Becomes(r, from, phase, recorded, verdict) ==
  /\ reception[r].phase \in from
  /\ reception' = [reception EXCEPT
       ![r] = [phase |-> phase, recorded |-> recorded, verdict |-> verdict]]

Moves(r, from, to) == Becomes(r, from, to, reception[r].recorded, reception[r].verdict)

\* It starts once, or not at all: stopped before, or unable to.
Start(r)   == Moves(r, {"BEFORE"}, "RECEIVING")
Decline(r) == \E to \in {"COMPLETE", "BROKEN"} : Moves(r, {"BEFORE"}, to)

\* Callbacks are recorded one by one, also those that come after the stop.
Record(r) ==
  \E phase \in {"RECEIVING", "STOPPING"} :
    Becomes(r, {phase}, phase, reception[r].recorded + 1, reception[r].verdict)

\* Only a reception that was stopped is ever complete.
Stop(r)   == Moves(r, {"RECEIVING"}, "STOPPING")
Finish(r) == Moves(r, {"STOPPING"}, "COMPLETE")

\* It breaks at any time, while a callback is recorded or after that too.
Fail(r) ==
  \E recorded \in {reception[r].recorded, reception[r].recorded + 1} :
    Becomes(r, {"RECEIVING", "STOPPING"}, "BROKEN", recorded, reception[r].verdict)

\* The verdict is the one that was reached, or is never written.
Says(r, from, verdict) ==
  \E said \in {verdict, "NONE"} : Becomes(r, from, "OVER", reception[r].recorded, said)
Settle(r) == Says(r, {"COMPLETE"}, "CLEAN") \/ Says(r, {"BEFORE", "BROKEN"}, "FAILED")

\* The process dies.
Abort(r) == Moves(r, {"BEFORE", "RECEIVING", "STOPPING", "COMPLETE", "BROKEN"}, "OVER")

Next == \E r \in Receptions :
  \/ Start(r) \/ Decline(r) \/ Record(r) \/ Stop(r) \/ Finish(r) \/ Fail(r)
  \/ Settle(r) \/ Abort(r)

vars == reception
Spec == Init /\ [][Next]_vars
=============================================================================

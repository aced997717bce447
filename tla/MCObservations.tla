--------------------------- MODULE MCObservations ---------------------------
(* A small instance of Observations for TLC.                                 *)
EXTENDS Observations, TLC

\* Two days; the same bytes under another declaration; another value for the
\* first day, known at the end of the second; an impossible time.  The second
\* file corrects the first one, and when it comes first, not conversely.
MCRows ==
  [a |-> (0 :> [value |-> 1, at |-> 0]) @@ (1 :> [value |-> 1, at |-> 1]),
   b |-> (0 :> [value |-> 1, at |-> 0]) @@ (1 :> [value |-> 1, at |-> 1]),
   c |-> (0 :> [value |-> 2, at |-> 1]),
   e |-> (1 :> [value |-> 1, at |-> 0])]

MCReceipt == [a |-> "x", b |-> "x", c |-> "y", e |-> "w"]
=============================================================================

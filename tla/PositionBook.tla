---------------------------- MODULE PositionBook ----------------------------
(***************************************************************************)
(* What the positions of an account promise their readers, with no         *)
(* callback, query batch, checkpoint or thread in sight: which fills are   *)
(* counted, what a reader stands for, and what it says of itself.          *)
(* StreamAccount is shown to implement it.                                 *)
(***************************************************************************)
EXTENDS Naturals

CONSTANTS
  Fills,
  Readers,  \* the streams, each of which reports and reads
  Desk      \* the account queries, which report only

VARIABLES
  open,     \* the baseline is fixed
  told,     \* the fills each source has reported
  count,    \* how often a fill is counted
  doubt,    \* the positions are not known any more
  applied,  \* the fills a reader stands for
  view      \* what it says of the positions

vars == <<open, told, count, doubt, applied, view>>

Sources == Readers \union {Desk}

Init ==
  /\ open = FALSE /\ doubt = FALSE
  /\ told = [s \in Sources |-> {}]
  /\ count = [f \in Fills |-> 0]
  /\ applied = [r \in Readers |-> {}]
  /\ view = [r \in Readers |-> "UNBOUND"]

Open == /\ ~open /\ open' = TRUE
        /\ UNCHANGED <<told, count, doubt, applied, view>>

Tell(s, new) ==
  /\ told' = [told EXCEPT ![s] = @ \union new]
  /\ UNCHANGED <<open, count, doubt, applied, view>>

\* Doubt is for good, and for everyone who is bound.
Doubted(said) ==
  [r \in Readers |-> IF doubt' /\ said[r] # "UNBOUND" THEN "UNKNOWN" ELSE said[r]]

Bind(r) ==
  /\ open /\ view[r] = "UNBOUND"
  /\ UNCHANGED <<open, told, count, doubt, applied>>
  /\ view' = Doubted([view EXCEPT ![r] = "WAITING"])

\* A fill is counted once, after one of the sources reported it.
Enter(s, new) ==
  /\ open /\ new \subseteq told[s]
  /\ \A f \in new : count[f] = 0
  /\ count' = [f \in Fills |-> IF f \in new THEN count[f] + 1 ELSE count[f]]
  /\ doubt' \in {doubt, TRUE}
  /\ UNCHANGED <<open, told>>

Book(s, new) ==
  /\ Enter(s, new)
  /\ view' = Doubted(view) /\ UNCHANGED applied

\* What a reader may say next; it never takes back that it does not know.
After(said) ==
  CASE said = "WAITING" -> {"WAITING", "READY", "UNKNOWN"}
    [] said = "READY"   -> {"READY", "UNKNOWN"}
    [] OTHER            -> {said}

\* A reader stands for fills it reported itself, and all of them are counted.
Apply(r, new, more) ==
  /\ view[r] # "UNBOUND"
  /\ Enter(r, new)
  /\ more \subseteq told[r] /\ \A f \in more : count'[f] = 1
  /\ applied' = [applied EXCEPT ![r] = @ \union more]
  /\ \E said \in After(view[r]) : view' = Doubted([view EXCEPT ![r] = said])

Next ==
  \/ Open
  \/ \E s \in Sources : \E new \in SUBSET Fills : Tell(s, new) \/ Book(s, new)
  \/ \E r \in Readers : Bind(r) \/ \E new, more \in SUBSET Fills : Apply(r, new, more)

Spec == Init /\ [][Next]_vars
=============================================================================

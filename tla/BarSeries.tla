------------------------------ MODULE BarSeries ------------------------------
(***************************************************************************)
(* What a series of daily bars promises its readers, with no run, record,  *)
(* receipt, session or lock in sight: what a file may change, what a       *)
(* correction rests on, and which bars a release holds.  Observations is   *)
(* shown to implement it.                                                  *)
(***************************************************************************)
EXTENDS Naturals, Sequences

CONSTANTS
  Days,
  Files,     \* contents: a bar and when it was available, for some of the days
  Releases,  \* names
  None

VARIABLES
  history,   \* for each day the bars that were true of it, the last one is
  refused,   \* rows of files that contradicted such a bar
  released,
  now

vars == <<history, refused, released, now>>

Init ==
  /\ history = [d \in Days |-> << >>] /\ refused = {}
  /\ released = [k \in Releases |-> None] /\ now = 0

Tick == now' = now + 1 /\ UNCHANGED <<history, refused, released>>

Current(d) == history[d][Len(history[d])]

Contradicted(file) == {d \in DOMAIN file : history[d] # << >> /\ Current(d) # file[d]}

\* No bar is from before the end of its day.
Complete(file) == \A d \in DOMAIN file : file[d].at >= d

\* A file adds days, all it has, if it contradicts nothing.
Take(file) ==
  /\ Complete(file) /\ Contradicted(file) = {}
  /\ history' = [d \in Days |-> IF d \in DOMAIN file /\ history[d] = << >>
                                THEN <<file[d]>> ELSE history[d]]
  /\ UNCHANGED <<refused, released, now>>

\* Otherwise it adds no day, and its contradictions are kept.
Turn(file) ==
  /\ Complete(file) /\ Contradicted(file) # {}
  /\ refused' = refused \union {[day |-> d, revision |-> Len(history[d]), row |-> file[d]] :
                                  d \in Contradicted(file)}
  /\ UNCHANGED <<history, released, now>>

\* A refused row, of a later time but not the future, follows the very bar it
\* contradicted.
Correct(e) ==
  /\ e.revision = Len(history[e.day])
  /\ Current(e.day).at < e.row.at /\ e.row.at <= now
  /\ history' = [history EXCEPT ![e.day] = Append(@, e.row)]
  /\ UNCHANGED <<refused, released, now>>

\* The revisions of a day that were available at t.
Available(d, t) == {n \in 1..Len(history[d]) : history[d][n].at <= t}
AsOf(d, t)      == LET last == CHOOSE n \in Available(d, t) : \A m \in Available(d, t) : m <= n
                   IN  history[d][last]

\* A release holds what was known of each of its days at a time that is over.
Release(k, days, t) ==
  /\ released[k] = None
  /\ \A d \in days : Available(d, t) # {}
  /\ released' = [released EXCEPT ![k] = [asOf |-> t, bars |-> [d \in days |-> AsOf(d, t)]]]
  /\ UNCHANGED <<history, refused, now>>

Next ==
  \/ Tick
  \/ \E file \in Files : Take(file) \/ Turn(file)
  \/ \E e \in refused : Correct(e)
  \/ \E k \in Releases, days \in (SUBSET Days) \ {{}}, t \in 0..now : Release(k, days, t)

Spec == Init /\ [][Next]_vars
=============================================================================

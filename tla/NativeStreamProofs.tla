------------------------- MODULE NativeStreamProofs -------------------------
(* Proofs about NativeStream for any number of exchanges, any limits and any
   room in the pipe: a clean end is a whole one, a lost callback is noted, and
   nothing of the child is left behind. *)
EXTENDS NativeStream, SequenceTheorems, TLAPS

-----------------------------------------------------------------------------
(* The inductive invariant. *)

\* The last event that was sent into the pipe.
Sent == taken - Len(queue) - (IF hand = 0 THEN 0 ELSE 1)

\* What waits in the child are the last numbers, in order.
Numbered ==
  /\ \A i \in DOMAIN queue : queue[i] = taken - Len(queue) + i
  /\ hand # 0 => hand = taken - Len(queue)
  /\ Sent \in Nat

Active    == parent \in {"CHECKING", "GETTING", "ACCEPTING", "JOINING"}
IsEvent(m) == m.kind = "EVENT"

\* The last event under way is the last one sent, or everything has arrived.
LastInPipe ==
  \E j \in DOMAIN pipe :
    /\ IsEvent(pipe[j]) /\ pipe[j].n = Sent
    /\ \A k \in DOMAIN pipe : k > j => ~IsEvent(pipe[k])

NoneInPipe == \A k \in DOMAIN pipe : ~IsEvent(pipe[k])
InSlot     == slot # << >> /\ IsEvent(slot[1])

Ordered ==
  /\ \A i \in DOMAIN pipe : IsEvent(pipe[i]) => pipe[i].n <= Sent
  /\ InSlot => slot[1].n <= Sent
  /\ sequence <= Sent
  /\ \/ LastInPipe
     \/ NoneInPipe /\ InSlot /\ slot[1].n = Sent
     \/ NoneInPipe /\ ~InSlot /\ sequence = Sent

\* COMPLETE is the last message of all, sent with everything else sent.
Completed(m) ==
  /\ child \in {"LEAVING", "EXITED", "DEAD"}
  /\ queue = << >> /\ hand = 0 /\ m.failure = failure

Finishing ==
  /\ \A i \in DOMAIN pipe : pipe[i].kind = "COMPLETE" => i = Len(pipe) /\ Completed(pipe[i])
  /\ slot # << >> /\ slot[1].kind = "COMPLETE" => pipe = << >> /\ Completed(slot[1])
  /\ parent = "JOINING" =>
       /\ child \in {"LEAVING", "EXITED", "DEAD"}
       /\ queue = << >> /\ hand = 0 /\ sequence = taken
       /\ verdict = "NONE" => failure = "NONE"

\* The kernel has recorded what was handed to it, the one in hand excepted.
Recorded ==
  /\ Active => kernel = "RUNNING" /\ child # "NONE"
  /\ Active /\ parent # "ACCEPTING" => stored = sequence
  /\ parent = "ACCEPTING" => sequence = stored + 1
  /\ stored <= sequence /\ sequence <= stored + 1 /\ sequence <= taken
  /\ parent = "READY" =>
       /\ child = "NONE" /\ pipe = << >> /\ slot = << >> /\ kernel = "RUNNING"
       /\ taken = 0 /\ queue = << >> /\ hand = 0 /\ sequence = 0 /\ stored = 0
  /\ parent = "DONE" => ~Alive
  /\ parent \in {"CLOSING", "DONE"} /\ verdict = "NONE" /\ child # "NONE" =>
       failure = "NONE" /\ stored = taken /\ child = "EXITED"

StreamInv ==
  /\ TypeOK /\ GapsAreNoted /\ Numbered /\ Recorded
  /\ Active => Ordered /\ Finishing

-----------------------------------------------------------------------------
(* Steps by what they move. *)

ChildMoves  == Break \/ Drained \/ Look \/ GiveUp \/ Confirm \/ Release \/ Leave \/ Die
Messaging   == Send \/ Announce \/ Complete
ParentMoves == Begin \/ Check \/ Disown \/ Empty \/ Accept \/ Join
Clocks      == AskStop \/ Expire \/ Overrun

LEMMA StepsAre ==
  ASSUME [Next]_vars
  PROVE  \/ Callback \/ Undecodable \/ Ask \/ Pop \/ ChildMoves \/ Messaging \/ Read
         \/ ParentMoves \/ Get \/ Reject \/ Close \/ Clocks \/ UNCHANGED vars
BY DEF Next, ChildStep, ParentStep, ChildMoves, Messaging, ParentMoves, Clocks

LEMMA Starts == Init => StreamInv
<1> SUFFICES ASSUME Init PROVE StreamInv
  OBVIOUS
<1>1. TypeOK
  <2>1. << >> \in Seq(Nat) /\ << >> \in Seq(Messages)
    BY EmptySeq
  <2>2. 0 \in 0..Setup /\ 0 < Setup
    BY StreamAssumption
  <2>3. ChildTyped
    BY <2>1, <2>2 DEF Init, ChildTyped, Failures
  <2>4. ParentTyped /\ LinkTyped
    BY <2>1 DEF Init, ParentTyped, LinkTyped, Failures
  <2> QED
    BY <2>3, <2>4 DEF TypeOK
<1>2. GapsAreNoted /\ Numbered /\ Recorded
  BY DEF Init, GapsAreNoted, Numbered, Sent, Recorded, Active, Alive
<1>3. ~Active
  BY DEF Init, Active
<1> QED
  BY <1>1, <1>2, <1>3 DEF StreamInv

LEMMA ChildTypesStay == ASSUME TypeOK, [Next]_vars PROVE ChildTyped'
<1> USE DEF TypeOK, ChildTyped, Waiting, Draining, Closed, Gone, Alive, childVars, parentVars, Others, Beside
<1>2. ASSUME Callback PROVE ChildTyped'
  <2>1. CASE Refuse
    BY <1>2, <2>1 DEF Callback, Refuse, Failures
  <2>2. CASE Keep
    <3>1. Append(queue, taken + 1) \in Seq(Nat)
      BY AppendProperties
    <3>2. failure' \in Failures /\ answer' \in {"NO", "RIGHT", "WRONG"}
      BY <1>2, <2>2 DEF Callback, Refuse, Or, Failures
    <3> QED
      BY <1>2, <2>2, <3>1, <3>2 DEF Callback, Keep
  <2> QED
    BY <1>2, <2>1, <2>2 DEF Callback
<1>3. ASSUME Undecodable PROVE ChildTyped'
  BY <1>3 DEF Undecodable, Or, Failures
<1>4. ASSUME Ask PROVE ChildTyped'
  <2>1. CASE Refuse
    BY <1>4, <2>1 DEF Ask, Refuse, Failures
  <2>2. CASE Keep
    <3>1. Append(queue, taken + 1) \in Seq(Nat)
      BY AppendProperties
    <3>2. failure' \in Failures /\ UNCHANGED answer
      BY <1>4, <2>2 DEF Ask, Refuse, Or, Failures
    <3> QED
      BY <1>4, <2>2, <3>1, <3>2 DEF Ask, Keep
  <2> QED
    BY <1>4, <2>1, <2>2 DEF Ask
<1>5. ASSUME Pop PROVE ChildTyped'
  <2>1. Head(queue) \in Nat /\ Tail(queue) \in Seq(Nat)
    BY <1>5, HeadTailProperties DEF Pop
  <2> QED
    BY <1>5, <2>1 DEF Pop
<1>6. ASSUME Confirm PROVE ChildTyped'
  <2>1. stage + 1 \in 0..Setup /\ (stage + 1 # Setup => stage + 1 < Setup)
    BY <1>6, StreamAssumption DEF Confirm
  <2> QED
    BY <1>6, <2>1 DEF Confirm, Failures, parentVars
<1>7. ASSUME ChildMoves, ~Confirm PROVE ChildTyped'
  <2>1. failure' \in Failures
    BY <1>7 DEF ChildMoves, Break, Drained, Look, GiveUp, Release, Leave, Die, Or, Failures
  <2>2. CASE Look
    <3>1. child' \in {"ENDING", "ANSWERED", "DRAINING"} /\ (child' = "ANSWERED" => stage < Setup)
      BY <2>2, StreamAssumption DEF Look, Running
    <3>2. UNCHANGED <<stage, answer, hand, queue, taken, failure, lost, parent>> /\ child # "NONE"
      BY <2>2 DEF Look
    <3> QED
      BY <3>1, <3>2
  <2>3. CASE Break \/ Drained \/ GiveUp \/ Release \/ Leave \/ Die
    <3>1. child' \in {"LOOKING", "ANNOUNCING", "ENDING", "CLOSING", "EXITED", "DEAD"} /\ child # "NONE"
      BY <2>3 DEF Break, Drained, GiveUp, Release, Leave, Die
    <3>2. UNCHANGED <<stage, answer, hand, queue, taken, lost, parent>>
      BY <2>3 DEF Break, Drained, GiveUp, Release, Leave, Die
    <3> QED
      BY <2>1, <3>1, <3>2
  <2> QED
    BY <1>7, <2>2, <2>3 DEF ChildMoves
<1>8. ASSUME Messaging \/ Read PROVE ChildTyped'
  BY <1>8 DEF Messaging, Send, Announce, Complete, Tell, Read
<1>9. ASSUME ParentMoves \/ Get \/ Reject \/ Close PROVE ChildTyped'
  <2>1. CASE Begin
    BY <2>1 DEF Begin, End
  <2>2. CASE Close
    BY <2>2 DEF Close, Kill
  <2>3. CASE (ParentMoves /\ ~Begin) \/ Get \/ Reject
    <3>1. UNCHANGED childVars /\ parent' # "READY"
      BY <2>3 DEF ParentMoves, Check, Disown, Empty, Accept, Join, Get, Reject, End
    <3> QED
      BY <3>1
  <2> QED
    BY <1>9, <2>1, <2>2, <2>3
<1>10. ASSUME Clocks \/ UNCHANGED vars PROVE ChildTyped'
  BY <1>10 DEF Clocks, AskStop, Expire, Overrun, vars
<1> QED
  BY <1>2, <1>3, <1>4, <1>5, <1>6, <1>7, <1>8, <1>9, <1>10, StepsAre

LEMMA ParentTypesStay == ASSUME TypeOK, [Next]_vars PROVE ParentTyped'
<1> USE DEF TypeOK, ParentTyped, parentVars, Others, End, Or, Failures
<1>1. ASSUME Callback \/ Undecodable \/ Ask \/ Pop \/ Read \/ Clocks \/ UNCHANGED vars PROVE ParentTyped'
  BY <1>1 DEF Callback, Undecodable, Ask, Pop, Read, Clocks, AskStop, Expire, Overrun, vars
<1>2. ASSUME ChildMoves \/ Messaging PROVE ParentTyped'
  BY <1>2 DEF ChildMoves, Break, Drained, Look, GiveUp, Confirm, Release, Leave, Die,
     Messaging, Send, Announce, Complete, Tell
<1>3. ASSUME ParentMoves PROVE ParentTyped'
  BY <1>3 DEF ParentMoves, Begin, Check, Disown, Empty, Accept, Join
<1>4. ASSUME Get PROVE ParentTyped'
  <2>1. slot[1] \in Messages
    BY <1>4, EmptySeq, ElementOfSeq DEF Get, LinkTyped
  <2>2. slot[1].n \in Nat /\ slot[1].failure \in Failures
    BY <2>1 DEF Messages
  <2> QED
    BY <1>4, <2>2 DEF Get
<1>5. ASSUME Reject \/ Close PROVE ParentTyped'
  BY <1>5 DEF Reject, Close
<1> QED
  BY <1>1, <1>2, <1>3, <1>4, <1>5, StepsAre

LEMMA LinkTypesStay == ASSUME TypeOK, [Next]_vars PROVE LinkTyped'
<1> USE DEF TypeOK, LinkTyped, outside, Others, Beside
<1>1. ASSUME Callback \/ Undecodable \/ Ask \/ Pop \/ ChildMoves PROVE LinkTyped'
  BY <1>1 DEF Callback, Undecodable, Ask, Pop, ChildMoves, Break, Drained, Look, GiveUp, Confirm,
     Release, Leave, Die
<1>2. ASSUME Messaging PROVE LinkTyped'
  <2>1. \A m \in Messages : Append(pipe, m) \in Seq(Messages)
    BY AppendProperties
  <2>2. Event(hand) \in Messages
    BY DEF Event, Messages, ChildTyped, Failures
  <2>3. \A k \in {"RELEASING", "COMPLETE"} : Note(k, failure) \in Messages
    BY DEF Note, Messages, ChildTyped
  <2>4. pipe' \in Seq(Messages)
    BY <1>2, <2>1, <2>2, <2>3 DEF Messaging, Send, Announce, Complete, Tell
  <2> QED
    BY <1>2, <2>4 DEF Messaging, Send, Announce, Complete, Tell
<1>3. ASSUME Read PROVE LinkTyped'
  <2>1. pipe # << >> => Head(pipe) \in Messages /\ Tail(pipe) \in Seq(Messages)
    BY HeadTailProperties
  <2>2. Note("EOF", "FAILED") \in Messages
    BY DEF Note, Messages, Failures
  <2>3. \A m \in Messages : <<m>> \in Seq(Messages)
    OBVIOUS
  <2>4. pipe' \in Seq(Messages) /\ slot' \in Seq(Messages)
    BY <1>3, <2>1, <2>2, <2>3 DEF Read
  <2> QED
    BY <1>3, <2>4 DEF Read
<1>4. ASSUME ParentMoves PROVE LinkTyped'
  BY <1>4 DEF ParentMoves, Begin, Check, Disown, Empty, Accept, Join
<1>5. ASSUME Get \/ Reject \/ Close PROVE LinkTyped'
  <2>1. << >> \in Seq(Messages)
    BY EmptySeq
  <2> QED
    BY <1>5, <2>1 DEF Get, Reject, Close
<1>6. ASSUME Clocks \/ UNCHANGED vars PROVE LinkTyped'
  BY <1>6 DEF Clocks, AskStop, Expire, Overrun, vars
<1> QED
  BY <1>1, <1>2, <1>3, <1>4, <1>5, <1>6, StepsAre

LEMMA TypesStay == ASSUME TypeOK, [Next]_vars PROVE TypeOK'
  BY ChildTypesStay, ParentTypesStay, LinkTypesStay DEF TypeOK

\* The code is overwritten, never cleared.
LEMMA GapsStay == ASSUME TypeOK, GapsAreNoted, [Next]_vars PROVE GapsAreNoted'
<1> USE DEF GapsAreNoted, childVars, Others, Beside, Or
<1>1. ASSUME Callback \/ Undecodable \/ Ask PROVE GapsAreNoted'
  BY <1>1 DEF Callback, Undecodable, Ask, Keep, Refuse
<1>2. ASSUME Pop \/ ChildMoves \/ Messaging PROVE GapsAreNoted'
  BY <1>2 DEF Pop, ChildMoves, Break, Drained, Look, GiveUp, Confirm, Release, Leave, Die,
     Messaging, Send, Announce, Complete, Tell
<1>3. ASSUME Read \/ ParentMoves \/ Get \/ Reject \/ Close \/ Clocks \/ UNCHANGED vars
      PROVE  GapsAreNoted'
  BY <1>3 DEF Read, ParentMoves, Begin, Check, Disown, Empty, Accept, Join, Get, Reject, Close,
     Clocks, AskStop, Expire, Overrun, vars
<1> QED
  BY <1>1, <1>2, <1>3, StepsAre

-----------------------------------------------------------------------------
(* The numbers: what waits, what is under way, what has arrived. *)

\* Numbering under the lock moves nothing out of the child.
LEMMA KeepNumbers ==
  ASSUME TypeOK, Numbered, Keep, UNCHANGED hand PROVE Numbered' /\ Sent' = Sent
<1>1. /\ Len(queue') = Len(queue) + 1 /\ DOMAIN queue' = 1..(Len(queue) + 1)
      /\ \A i \in 1..Len(queue) : queue'[i] = queue[i]
      /\ queue'[Len(queue) + 1] = taken + 1
  BY AppendProperties, LenProperties DEF TypeOK, ChildTyped, ParentTyped, LinkTyped, Keep
<1>2. Len(queue) \in Nat /\ DOMAIN queue = 1..Len(queue) /\ taken \in Nat /\ taken' = taken + 1
  BY LenProperties DEF TypeOK, ChildTyped, ParentTyped, LinkTyped, Keep
<1>3. hand \in Nat /\ (hand # 0 => hand = taken - Len(queue)) /\ Sent \in Nat
  BY DEF Numbered, TypeOK, ChildTyped
<1>4. Sent' = Sent /\ (hand' # 0 => hand' = taken' - Len(queue'))
  BY <1>1, <1>2, <1>3 DEF Sent
<1>5. ASSUME NEW i \in DOMAIN queue' PROVE queue'[i] = taken' - Len(queue') + i
  BY <1>1, <1>2 DEF Numbered
<1> QED
  BY <1>3, <1>4, <1>5 DEF Numbered

LEMMA PopNumbers == ASSUME TypeOK, Numbered, Pop PROVE Numbered' /\ Sent' = Sent
<1>1. /\ Len(queue') = Len(queue) - 1 /\ DOMAIN queue' = 1..(Len(queue) - 1)
      /\ \A i \in 1..(Len(queue) - 1) : queue'[i] = queue[i + 1]
      /\ hand' = queue[1] /\ taken' = taken /\ hand = 0
  BY HeadTailProperties, LenProperties DEF TypeOK, ChildTyped, ParentTyped, LinkTyped, Pop
<1>2. Len(queue) \in Nat \ {0} /\ DOMAIN queue = 1..Len(queue) /\ taken \in Nat
  BY EmptySeq, LenProperties DEF TypeOK, ChildTyped, ParentTyped, LinkTyped, Pop
<1>3. \A i \in 1..Len(queue) : queue[i] = taken - Len(queue) + i
  BY <1>2 DEF Numbered
<1>4. Sent = taken - Len(queue) /\ Sent \in Nat
  BY <1>1, <1>2 DEF Sent, Numbered
<1>5. hand' = Sent + 1
  BY <1>1, <1>2, <1>3, <1>4
<1>6. Sent' = Sent /\ hand' = taken' - Len(queue')
  BY <1>1, <1>2, <1>4, <1>5 DEF Sent
<1>7. ASSUME NEW i \in DOMAIN queue' PROVE queue'[i] = taken' - Len(queue') + i
  <2>1. i \in Nat /\ i + 1 \in 1..Len(queue) /\ queue'[i] = queue[i + 1]
    BY <1>1, <1>2
  <2> QED
    BY <1>1, <1>2, <1>3, <2>1
<1> QED
  BY <1>4, <1>6, <1>7 DEF Numbered

LEMMA NumbersStay == ASSUME TypeOK, Numbered, [Next]_vars PROVE Numbered'
<1> USE DEF childVars, Others, Beside
<1>1. ASSUME Callback \/ Ask PROVE Numbered'
  <2>1. CASE Keep
    BY <1>1, <2>1, KeepNumbers DEF Callback, Ask
  <2>2. CASE Refuse
    BY <1>1, <2>2 DEF Callback, Ask, Refuse, Numbered, Sent
  <2> QED
    BY <1>1, <2>1, <2>2 DEF Callback, Ask
<1>2. CASE Pop
  BY <1>2, PopNumbers
<1>3. ASSUME Messaging PROVE Numbered'
  BY <1>3, LenProperties DEF Messaging, Send, Announce, Complete, Tell, Numbered, Sent, TypeOK, ChildTyped, ParentTyped, LinkTyped
<1>4. ASSUME Undecodable \/ ChildMoves \/ Read \/ ParentMoves \/ Get \/ Reject \/ Close \/ Clocks
             \/ UNCHANGED vars
      PROVE  Numbered'
  <2>1. UNCHANGED <<hand, queue, taken>>
    BY <1>4 DEF Undecodable, ChildMoves, Break, Drained, Look, GiveUp, Confirm, Release, Leave, Die,
       Read, ParentMoves, Begin, Check, Disown, Empty, Accept, Join, Get, Reject, Close,
       Clocks, AskStop, Expire, Overrun, vars
  <2> QED
    BY <2>1 DEF Numbered, Sent
<1> QED
  BY <1>1, <1>2, <1>3, <1>4, StepsAre

LEMMA OrderStays ==
  ASSUME Ordered, Sent' = Sent, UNCHANGED <<pipe, slot, sequence>> PROVE Ordered'
BY DEF Ordered, LastInPipe, NoneInPipe, InSlot

LEMMA MessageKeepsOrder ==
  ASSUME TypeOK, Numbered, Ordered, Messaging PROVE Ordered'
<1>1. PICK m \in Messages : pipe' = Append(pipe, m) /\ UNCHANGED <<slot, sequence>>
                /\ \/ IsEvent(m) /\ m.n = Sent' /\ Sent' = Sent + 1
                   \/ ~IsEvent(m) /\ Sent' = Sent
  <2>1. CASE Send
    <3>1. Event(hand) \in Messages /\ IsEvent(Event(hand)) /\ Event(hand).n = hand
      BY DEF Event, Messages, IsEvent, TypeOK, ChildTyped, ParentTyped, LinkTyped, Failures
    <3>2. hand = Sent' /\ Sent' = Sent + 1
      BY <2>1, LenProperties DEF Send, Sent, Numbered, TypeOK, ChildTyped, ParentTyped, LinkTyped
    <3> QED
      BY <2>1, <3>1, <3>2 DEF Send, parentVars
  <2>2. CASE Announce \/ Complete
    <3>1. \A k \in {"RELEASING", "COMPLETE"} : Note(k, failure) \in Messages /\ ~IsEvent(Note(k, failure))
      BY DEF Note, Messages, IsEvent, TypeOK, ChildTyped, ParentTyped, LinkTyped
    <3>2. Sent' = Sent
      BY <2>2 DEF Announce, Complete, Tell, Sent
    <3> QED
      BY <2>2, <3>1, <3>2 DEF Announce, Complete, Tell, parentVars
  <2> QED
    BY <2>1, <2>2 DEF Messaging
<1>2. /\ DOMAIN pipe = 1..Len(pipe) /\ Len(pipe) \in Nat /\ DOMAIN pipe' = 1..(Len(pipe) + 1)
      /\ \A i \in 1..Len(pipe) : pipe'[i] = pipe[i]
      /\ pipe'[Len(pipe) + 1] = m
  BY <1>1, AppendProperties, LenProperties DEF TypeOK, ChildTyped, ParentTyped, LinkTyped
<1>3. Sent \in Nat /\ sequence \in Nat
  BY DEF Numbered, TypeOK, ParentTyped
<1>4. (\A i \in DOMAIN pipe : pipe[i].n \in Nat) /\ (InSlot => slot[1].n \in Nat)
  <2>1. \A i \in DOMAIN pipe : pipe[i] \in Messages
    BY <1>2, ElementOfSeq DEF TypeOK, LinkTyped
  <2>2. InSlot => slot[1] \in Messages
    BY EmptySeq, ElementOfSeq DEF InSlot, TypeOK, LinkTyped
  <2> QED
    BY <2>1, <2>2 DEF Messages
<1> QED
  BY <1>1, <1>2, <1>3, <1>4 DEF Ordered, LastInPipe, NoneInPipe, InSlot

LEMMA ReadKeepsOrder == ASSUME TypeOK, Ordered, Read PROVE Ordered'
<1>1. Sent' = Sent /\ slot = << >> /\ UNCHANGED sequence
  BY DEF Read, Sent, childVars, parentVars
<1>2. CASE pipe # << >> /\ slot' = <<Head(pipe)>> /\ pipe' = Tail(pipe)
  <2>1. /\ DOMAIN pipe = 1..Len(pipe) /\ Len(pipe) \in Nat \ {0} /\ DOMAIN pipe' = 1..(Len(pipe) - 1)
        /\ \A i \in 1..(Len(pipe) - 1) : pipe'[i] = pipe[i + 1]
        /\ slot' # << >> /\ slot'[1] = pipe[1]
    BY <1>2, EmptySeq, HeadTailProperties, LenProperties DEF TypeOK, ChildTyped, ParentTyped, LinkTyped
  <2>2. /\ \A i \in DOMAIN pipe' : i + 1 \in DOMAIN pipe /\ pipe'[i] = pipe[i + 1]
        /\ 1 \in DOMAIN pipe
    BY <2>1
  <2>3. /\ \A i \in DOMAIN pipe' : IsEvent(pipe'[i]) => pipe'[i].n <= Sent
        /\ InSlot' => slot'[1].n <= Sent
    BY <2>1, <2>2 DEF Ordered, InSlot
  <2>4. ASSUME NEW j \in DOMAIN pipe, IsEvent(pipe[j]), pipe[j].n = Sent,
               \A k \in DOMAIN pipe : k > j => ~IsEvent(pipe[k])
        PROVE  LastInPipe' \/ (NoneInPipe' /\ InSlot' /\ slot'[1].n = Sent)
    <3>1. CASE j = 1
      <4>1. NoneInPipe'
        BY <2>1, <2>2, <2>4, <3>1 DEF NoneInPipe
      <4> QED
        BY <2>1, <2>4, <3>1, <4>1 DEF InSlot
    <3>2. CASE j > 1
      <4>1. j - 1 \in DOMAIN pipe' /\ pipe'[j - 1] = pipe[j]
        BY <2>1, <3>2
      <4>2. \A k \in DOMAIN pipe' : k > j - 1 => ~IsEvent(pipe'[k])
        BY <2>1, <2>2, <2>4
      <4> QED
        BY <1>1, <2>4, <4>1, <4>2 DEF LastInPipe
    <3> QED
      BY <2>1, <3>1, <3>2
  <2>5. NoneInPipe /\ ~InSlot /\ sequence = Sent => NoneInPipe' /\ ~InSlot' /\ sequence' = Sent
    BY <1>1, <2>1, <2>2 DEF NoneInPipe, InSlot
  <2> QED
    BY <1>1, <2>3, <2>4, <2>5 DEF Ordered, LastInPipe, InSlot
<1>3. CASE pipe = << >> /\ slot' = <<Note("EOF", "FAILED")>> /\ UNCHANGED pipe
  <2>1. ~InSlot'
    BY <1>3 DEF InSlot, IsEvent, Note
  <2> QED
    BY <1>1, <1>3, <2>1 DEF Ordered, LastInPipe, NoneInPipe, InSlot
<1> QED
  BY <1>2, <1>3 DEF Read

LEMMA GetKeepsOrder == ASSUME TypeOK, Ordered, Get PROVE Active' => Ordered'
<1>1. Sent' = Sent /\ UNCHANGED pipe /\ slot # << >> /\ slot' = << >>
  BY DEF Get, Beside, Sent, childVars
<1>2. CASE IsEvent(slot[1])
  <2>1. sequence' = slot[1].n
    BY <1>2 DEF Get, IsEvent
  <2> QED
    BY <1>1, <1>2, <2>1 DEF Ordered, LastInPipe, NoneInPipe, InSlot
<1>3. CASE ~IsEvent(slot[1])
  <2>1. UNCHANGED sequence
    BY <1>3 DEF Get, IsEvent
  <2> QED
    BY <1>1, <1>3, <2>1 DEF Ordered, LastInPipe, NoneInPipe, InSlot
<1> QED
  BY <1>2, <1>3

LEMMA OrderIsKept == ASSUME StreamInv, [Next]_vars PROVE Active' => Ordered'
<1> USE DEF StreamInv, childVars, parentVars, Others, Beside
<1>1. ASSUME Callback \/ Ask PROVE Active' => Ordered'
  <2>1. CASE Keep
    <3>1. Sent' = Sent
      BY <1>1, <2>1, KeepNumbers DEF Callback, Ask
    <3> QED
      BY <1>1, <3>1, OrderStays DEF Callback, Ask, Active
  <2>2. CASE Refuse
    <3>1. Sent' = Sent
      BY <1>1, <2>2 DEF Callback, Ask, Refuse, Sent
    <3> QED
      BY <1>1, <3>1, OrderStays DEF Callback, Ask, Active
  <2> QED
    BY <1>1, <2>1, <2>2 DEF Callback, Ask
<1>2. ASSUME Pop PROVE Active' => Ordered'
  BY <1>2, PopNumbers, OrderStays DEF Pop, Active
<1>3. ASSUME Messaging PROVE Active' => Ordered'
  <2>1. Active' => Active
    BY <1>3 DEF Messaging, Send, Announce, Complete, Tell, Active
  <2> QED
    BY <1>3, <2>1, MessageKeepsOrder
<1>4. ASSUME Read PROVE Active' => Ordered'
  BY <1>4, ReadKeepsOrder DEF Read, Active
<1>5. ASSUME Get PROVE Active' => Ordered'
  BY <1>5, GetKeepsOrder DEF Get, Active
<1>6. ASSUME Begin PROVE Active' => Ordered'
  <2>1. pipe = << >> /\ slot = << >> /\ sequence = 0 /\ taken = 0 /\ queue = << >> /\ hand = 0
    BY <1>6 DEF Begin, Recorded
  <2>2. UNCHANGED <<pipe, slot, sequence, taken, queue, hand>>
    BY <1>6 DEF Begin
  <2>3. Sent' = 0
    <3>1. taken' = 0 /\ hand' = 0
      BY <2>1, <2>2
    <3>2. Len(queue') = 0
      BY <2>1, <2>2
    <3> QED
      BY <3>1, <3>2 DEF Sent
  <2> QED
    BY <2>1, <2>2, <2>3 DEF Ordered, NoneInPipe, InSlot
<1>7. ASSUME Undecodable \/ ChildMoves \/ (ParentMoves /\ ~Begin) \/ Clocks \/ UNCHANGED vars
      PROVE  Active' => Ordered'
  <2>1. UNCHANGED <<hand, queue, taken, pipe, slot, sequence>>
    BY <1>7 DEF Undecodable, ChildMoves, Break, Drained, Look, GiveUp, Confirm, Release, Leave, Die,
       ParentMoves, Check, Disown, Empty, Accept, Join, Clocks, AskStop, Expire, Overrun, vars
  <2>2. Active' => Active
    BY <1>7 DEF Undecodable, ChildMoves, Break, Drained, Look, GiveUp, Confirm, Release, Leave, Die,
       ParentMoves, Check, Disown, Empty, Accept, Join, Clocks, AskStop, Expire, Overrun, vars, Active
  <2> QED
    BY <2>1, <2>2, OrderStays DEF Sent
<1>8. ASSUME Reject \/ Close PROVE ~Active'
  BY <1>8 DEF Reject, Close, End, Active
<1> QED
  BY <1>1, <1>2, <1>3, <1>4, <1>5, <1>6, <1>7, <1>8, StepsAre

-----------------------------------------------------------------------------
(* COMPLETE, and what was recorded when it arrives. *)

\* What COMPLETE says of the child stays true.
LEMMA CompletionHolds ==
  ASSUME TypeOK, [Next]_vars, NEW m, Completed(m), Active, Active' PROVE Completed(m)'
<1> USE DEF Completed, childVars, Others, Beside, parentVars
<1>1. CASE Callback \/ Undecodable \/ Ask \/ Pop \/ ChildMoves
  BY <1>1 DEF Callback, Undecodable, Calling, Closed, Alive, Gone, Ask, Pop, ChildMoves, Break, Drained,
     Look, GiveUp, Confirm, Release, Leave, Die
<1>2. CASE Messaging \/ Read \/ ParentMoves \/ Get \/ Reject \/ Close \/ Clocks \/ UNCHANGED vars
  BY <1>2 DEF Messaging, Send, Draining, Announce, Complete, Tell, Read, ParentMoves, Begin, Check, Disown,
     Empty, Accept, Join, Get, Reject, Close, End, Active, Clocks, AskStop, Expire, Overrun, vars
<1> QED
  BY <1>1, <1>2, StepsAre

LEMMA FinishIsKept == ASSUME StreamInv, [Next]_vars, Active, Active' PROVE Finishing'
<1> USE DEF StreamInv, childVars, parentVars, Others, Beside
<1>1. \A m : Completed(m) => Completed(m)'
  BY CompletionHolds
<1>2. ASSUME Callback \/ Undecodable \/ Ask \/ Pop \/ ChildMoves \/ Clocks \/ UNCHANGED vars
      PROVE  Finishing'
  <2>1. UNCHANGED <<pipe, slot, parent, verdict, sequence>>
    BY <1>2 DEF Callback, Undecodable, Ask, Pop, ChildMoves, Break, Drained, Look, GiveUp, Confirm,
       Release, Leave, Die, Clocks, AskStop, Expire, Overrun, vars
  <2>2. parent = "JOINING" => UNCHANGED <<queue, hand, taken, failure>> /\ child' \in {"LEAVING", "EXITED", "DEAD"}
    BY <1>2 DEF Finishing, Callback, Undecodable, Calling, Closed, Alive, Gone, Ask, Pop, ChildMoves,
       Break, Drained, Look, GiveUp, Confirm, Release, Leave, Die, Clocks, AskStop, Expire, Overrun, vars
  <2> QED
    BY <1>1, <2>1, <2>2 DEF Finishing
<1>3. ASSUME Messaging PROVE Finishing'
  <2>1. /\ child \notin {"LEAVING", "EXITED", "DEAD"}
        /\ UNCHANGED <<slot, parent, queue, hand, taken, failure>> \/ Send
    BY <1>3 DEF Messaging, Send, Draining, Announce, Complete, Tell
  <2>2. /\ \A i \in DOMAIN pipe : pipe[i].kind # "COMPLETE"
        /\ slot # << >> => slot[1].kind # "COMPLETE"
        /\ parent # "JOINING"
    BY <2>1 DEF Finishing, Completed
  <2>3. UNCHANGED <<slot, parent>>
    BY <1>3 DEF Messaging, Send, Announce, Complete, Tell
  <2>4. PICK m \in Messages :
          pipe' = Append(pipe, m) /\ (m.kind = "COMPLETE" => Completed(m)')
    <3>1. CASE Send
      <4>1. Event(hand) \in Messages /\ Event(hand).kind = "EVENT"
        BY DEF Event, Messages, TypeOK, ChildTyped, Failures
      <4> QED
        BY <3>1, <4>1 DEF Send
    <3>2. CASE Announce
      <4>1. Note("RELEASING", failure) \in Messages /\ Note("RELEASING", failure).kind = "RELEASING"
        BY DEF Note, Messages, TypeOK, ChildTyped
      <4> QED
        BY <3>2, <4>1 DEF Announce, Tell
    <3>3. CASE Complete
      <4>1. Note("COMPLETE", failure) \in Messages /\ Note("COMPLETE", failure).failure = failure
        BY DEF Note, Messages, TypeOK, ChildTyped
      <4> QED
        BY <3>3, <4>1 DEF Complete, Tell, Completed
    <3> QED
      BY <1>3, <3>1, <3>2, <3>3 DEF Messaging
  <2>5. /\ DOMAIN pipe = 1..Len(pipe) /\ Len(pipe) \in Nat /\ DOMAIN pipe' = 1..(Len(pipe) + 1)
        /\ Len(pipe') = Len(pipe) + 1
        /\ \A i \in 1..Len(pipe) : pipe'[i] = pipe[i]
        /\ pipe'[Len(pipe) + 1] = m
    BY <2>4, AppendProperties, LenProperties DEF TypeOK, LinkTyped
  <2> QED
    BY <2>2, <2>3, <2>4, <2>5 DEF Finishing
<1>4. ASSUME Read PROVE Finishing'
  <2>1. UNCHANGED <<childVars, parentVars>> /\ slot = << >>
    BY <1>4 DEF Read
  <2>2. CASE pipe # << >> /\ slot' = <<Head(pipe)>> /\ pipe' = Tail(pipe)
    <3>1. /\ DOMAIN pipe = 1..Len(pipe) /\ Len(pipe) \in Nat \ {0} /\ DOMAIN pipe' = 1..(Len(pipe) - 1)
          /\ Len(pipe') = Len(pipe) - 1
          /\ \A i \in 1..(Len(pipe) - 1) : pipe'[i] = pipe[i + 1]
          /\ slot'[1] = pipe[1]
      BY <2>2, EmptySeq, HeadTailProperties, LenProperties DEF TypeOK, LinkTyped
    <3>2. pipe[1].kind = "COMPLETE" => Len(pipe) = 1 /\ Completed(pipe[1])
      BY <3>1 DEF Finishing
    <3>3. Len(pipe) = 1 => pipe' = << >>
      BY <2>2, <3>1, HeadTailProperties, EmptySeq DEF TypeOK, LinkTyped
    <3>4. ASSUME NEW i \in DOMAIN pipe', pipe'[i].kind = "COMPLETE"
          PROVE  i = Len(pipe') /\ Completed(pipe'[i])
      <4>1. i \in Nat /\ i + 1 \in DOMAIN pipe /\ pipe'[i] = pipe[i + 1]
        BY <3>1
      <4>2. i + 1 = Len(pipe) /\ Completed(pipe[i + 1])
        BY <3>4, <4>1 DEF Finishing
      <4> QED
        BY <3>1, <4>1, <4>2
    <3> QED
      BY <1>1, <2>1, <3>1, <3>2, <3>3, <3>4 DEF Finishing
  <2>3. CASE pipe = << >> /\ slot' = <<Note("EOF", "FAILED")>> /\ UNCHANGED pipe
    BY <1>1, <2>1, <2>3 DEF Finishing, Note
  <2> QED
    BY <1>4, <2>2, <2>3 DEF Read
<1>5. ASSUME Get PROVE Finishing'
  <2>1. UNCHANGED <<pipe, childVars>> /\ slot # << >> /\ slot' = << >>
    BY <1>5 DEF Get
  <2>2. ASSUME parent' = "JOINING"
        PROVE  /\ child \in {"LEAVING", "EXITED", "DEAD"} /\ queue = << >> /\ hand = 0
               /\ sequence' = taken /\ (verdict' = "NONE" => failure = "NONE")
    <3>1. slot[1].kind = "COMPLETE" /\ verdict' = Or(verdict, slot[1].failure) /\ UNCHANGED sequence
      BY <1>5, <2>2 DEF Get, End
    <3>2. pipe = << >> /\ Completed(slot[1])
      BY <2>1, <3>1 DEF Finishing
    <3>3. ~InSlot /\ ~LastInPipe
      BY <3>1, <3>2 DEF InSlot, IsEvent, LastInPipe
    <3>4. sequence = Sent
      BY <3>3 DEF Ordered
    <3>5. Sent = taken
      <4>1. Len(<< >>) = 0
        OBVIOUS
      <4> QED
        BY <3>2, <4>1 DEF Sent, Completed, TypeOK, ChildTyped
    <3> QED
      BY <3>1, <3>2, <3>4, <3>5 DEF Completed, Or
  <2> QED
    BY <1>1, <2>1, <2>2 DEF Finishing, Completed
<1>6. ASSUME ParentMoves PROVE Finishing'
  <2>1. UNCHANGED <<pipe, slot, childVars>> /\ parent' # "JOINING"
    BY <1>6 DEF ParentMoves, Begin, Active, Check, Disown, Empty, Accept, Join, End
  <2> QED
    BY <2>1 DEF Finishing, Completed
<1>7. ASSUME Reject \/ Close PROVE FALSE
  BY <1>7 DEF Reject, Close, End, Active
<1> QED
  BY <1>2, <1>3, <1>4, <1>5, <1>6, <1>7, StepsAre

LEMMA RecordIsKept == ASSUME StreamInv, [Next]_vars PROVE Recorded'
<1> USE DEF StreamInv, childVars, parentVars, Others, Beside
<1>1. ASSUME Callback \/ Undecodable \/ Ask \/ Pop \/ ChildMoves \/ Messaging PROVE Recorded'
  <2>1. UNCHANGED <<parent, sequence, verdict, stored, kernel, slot>> /\ child \notin {"NONE", "EXITED", "DEAD"}
    BY <1>1 DEF Callback, Undecodable, Calling, Alive, Gone, Ask, Pop, Draining, ChildMoves, Break, Drained,
       Look, GiveUp, Confirm, Release, Leave, Die, Messaging, Send, Announce, Complete, Tell
  <2>2. child' # "NONE"
    <3>1. CASE Callback \/ Undecodable \/ Pop \/ Send
      BY <2>1, <3>1 DEF Callback, Undecodable, Pop, Send
    <3>2. CASE Ask \/ ChildMoves \/ Announce \/ Complete
      BY <3>2 DEF Ask, ChildMoves, Break, Drained, Look, GiveUp, Confirm, Release, Leave, Die,
         Announce, Complete
    <3> QED
      BY <1>1, <3>1, <3>2 DEF Messaging
  <2>3. taken' \in Nat /\ taken <= taken'
    BY <1>1 DEF Callback, Keep, Refuse, Undecodable, Ask, Pop, ChildMoves, Break, Drained, Look, GiveUp,
       Confirm, Release, Leave, Die, Messaging, Send, Announce, Complete, Tell, TypeOK, ChildTyped
  <2>4. parent # "READY" /\ parent # "DONE"
    BY <2>1 DEF Recorded, Alive, Gone
  <2>5. ~ (parent = "CLOSING" /\ verdict = "NONE")
    BY <2>1 DEF Recorded
  <2>6. sequence \in Nat /\ taken \in Nat
    BY DEF TypeOK, ChildTyped, ParentTyped
  <2> QED
    BY <2>1, <2>2, <2>3, <2>4, <2>5, <2>6 DEF Recorded, Active
<1>2. ASSUME Read \/ Clocks \/ UNCHANGED vars PROVE Recorded'
  BY <1>2 DEF Read, Clocks, AskStop, Expire, Overrun, vars, Recorded, Active, Alive
<1>3. ASSUME Begin PROVE Recorded'
  BY <1>3 DEF Begin, End, Recorded, Active, Alive
<1>4. ASSUME Check \/ Disown \/ Empty PROVE Recorded'
  BY <1>4 DEF Check, Disown, Empty, End, Or, Recorded, Active, Alive
<1>5. ASSUME Accept PROVE Recorded'
  BY <1>5 DEF Accept, End, Recorded, Active, Alive, TypeOK, ChildTyped, ParentTyped
<1>6. ASSUME Join PROVE Recorded'
  <2>1. sequence = taken /\ stored = sequence /\ (verdict = "NONE" => failure = "NONE")
    BY <1>6 DEF Join, Finishing, Recorded, Active
  <2> QED
    BY <1>6, <2>1 DEF Join, End, Or, Recorded, Active, Alive
<1>7. ASSUME Get PROVE Recorded'
  <2>1. parent = "GETTING" /\ stored = sequence /\ kernel = "RUNNING" /\ child # "NONE"
    BY <1>7 DEF Get, Recorded, Active
  <2>2. slot[1].kind = "EVENT" => slot[1].n <= taken
    <3>1. slot[1].kind = "EVENT" => slot[1].n <= Sent
      BY <1>7, <2>1 DEF Get, Ordered, InSlot, IsEvent, Active
    <3>2. Sent \in Nat /\ Sent <= taken
      BY LenProperties DEF Sent, Numbered, TypeOK, ChildTyped
    <3>3. slot[1] \in Messages
      BY <1>7, EmptySeq, ElementOfSeq DEF Get, TypeOK, LinkTyped
    <3> QED
      BY <3>1, <3>2, <3>3 DEF Messages, TypeOK, ChildTyped
  <2> QED
    BY <1>7, <2>1, <2>2 DEF Get, End, Or, Recorded, Active, Alive, TypeOK, ParentTyped
<1>8. ASSUME Reject PROVE Recorded'
  BY <1>8 DEF Reject, End, Recorded, Active, Alive
<1>9. ASSUME Close PROVE Recorded'
  BY <1>9 DEF Close, Kill, Recorded, Active, Alive, Gone
<1> QED
  BY <1>1, <1>2, <1>3, <1>4, <1>5, <1>6, <1>7, <1>8, <1>9, StepsAre DEF ParentMoves

LEMMA Inductive == Spec => []StreamInv
<1>1. StreamInv /\ [Next]_vars => StreamInv'
  <2> SUFFICES ASSUME StreamInv, [Next]_vars PROVE StreamInv'
    OBVIOUS
  <2>1. TypeOK' /\ GapsAreNoted' /\ Numbered' /\ Recorded'
    BY TypesStay, GapsStay, NumbersStay, RecordIsKept DEF StreamInv
  <2>2. Active' => Ordered'
    BY OrderIsKept
  <2>3. ASSUME Active', ~Active PROVE Begin
    BY <2>3 DEF Next, vars, Active, Callback, Undecodable, ChildStep, ParentStep, Ask, Break, Pop, Send,
       Drained, Look, GiveUp, Confirm, Announce, Release, Complete, Tell, Leave, Die, Read, Check, Disown,
       Empty, Get, Reject, Accept, Join, Close, AskStop, Expire, Overrun, Others, Beside, parentVars, End
  <2>4. ASSUME Begin, Active' PROVE Finishing'
    <3>1. pipe' = << >> /\ slot' = << >> /\ parent' = "CHECKING"
      BY <2>4 DEF Begin, End, Active, StreamInv, Recorded
    <3> QED
      BY <3>1 DEF Finishing
  <2>5. Active' => Finishing'
    BY <2>3, <2>4, FinishIsKept
  <2> QED
    BY <2>1, <2>2, <2>5 DEF StreamInv
<1> QED
  BY Starts, <1>1, PTL DEF Spec

(* Whatever the limits, and in whatever order the SDK, the two processes and the
   clocks take their steps: a reception that ends without a code recorded all,
   a lost callback has its code, and no child outlives the reception. *)
THEOREM HonestReception == Spec => []ReceptionIsHonest
<1>1. StreamInv => ReceptionIsHonest
  <2> SUFFICES ASSUME StreamInv PROVE ReceptionIsHonest
    OBVIOUS
  <2>1. CleanEndIsWhole
    BY DEF StreamInv, Recorded, GapsAreNoted, CleanEndIsWhole, TypeOK, ChildTyped
  <2>2. NothingIsLeft
    BY DEF StreamInv, Recorded, NothingIsLeft
  <2> QED
    BY <2>1, <2>2 DEF StreamInv, ReceptionIsHonest
<1> QED
  BY <1>1, Inductive, PTL

-----------------------------------------------------------------------------
(* ReceptionContract.  COMPLETE is announced: RELEASING is before it in the
   pipe, and stops the reception when it arrives. *)

Has(kind) ==
  \/ slot # << >> /\ slot[1].kind = kind
  \/ \E i \in DOMAIN pipe : pipe[i].kind = kind

Announced ==
  \/ child \in {"RELEASING", "CLOSING", "LEAVING", "EXITED"}
  \/ Has("COMPLETE")

StopInv ==
  /\ StreamInv
  /\ parent = "READY" => ~stopping
  /\ kernel = "FAULTED" => verdict # "NONE"
  /\ Active /\ Announced => stopping \/ Has("RELEASING")
  /\ parent = "JOINING" => stopping

LEMMA SendingAdds ==
  ASSUME TypeOK, NEW m \in Messages, pipe' = Append(pipe, m), UNCHANGED slot, NEW kind
  PROVE  Has(kind)' <=> Has(kind) \/ m.kind = kind
<1>1. /\ DOMAIN pipe = 1..Len(pipe) /\ Len(pipe) \in Nat /\ DOMAIN pipe' = 1..(Len(pipe) + 1)
      /\ \A i \in 1..Len(pipe) : pipe'[i] = pipe[i]
      /\ pipe'[Len(pipe) + 1] = m
  BY AppendProperties, LenProperties DEF TypeOK, LinkTyped
<1>2. ASSUME NEW i \in DOMAIN pipe' PROVE i \in DOMAIN pipe \/ pipe'[i] = m
  BY <1>1, <1>2
<1>3. Len(pipe) + 1 \in DOMAIN pipe' /\ DOMAIN pipe \subseteq DOMAIN pipe'
  BY <1>1
<1> QED
  BY <1>1, <1>2, <1>3 DEF Has

\* What is read is still there, in the slot.
LEMMA ReadingKeeps ==
  ASSUME TypeOK, Read, NEW kind, kind # "EOF"
  PROVE  Has(kind)' <=> Has(kind)
<1>1. slot = << >>
  BY DEF Read
<1>2. CASE pipe # << >> /\ slot' = <<Head(pipe)>> /\ pipe' = Tail(pipe)
  <2>1. /\ DOMAIN pipe = 1..Len(pipe) /\ Len(pipe) \in Nat \ {0} /\ DOMAIN pipe' = 1..(Len(pipe) - 1)
        /\ \A i \in 1..(Len(pipe) - 1) : pipe'[i] = pipe[i + 1]
        /\ slot' # << >> /\ slot'[1] = pipe[1]
    BY <1>2, EmptySeq, HeadTailProperties, LenProperties DEF TypeOK, LinkTyped
  <2>2. ASSUME NEW i \in DOMAIN pipe, i # 1 PROVE i - 1 \in DOMAIN pipe' /\ pipe'[i - 1] = pipe[i]
    BY <2>1, <2>2
  <2>3. ASSUME NEW i \in DOMAIN pipe' PROVE i + 1 \in DOMAIN pipe /\ pipe'[i] = pipe[i + 1]
    BY <2>1, <2>3
  <2>4. 1 \in DOMAIN pipe
    BY <2>1
  <2>5. ASSUME Has(kind) PROVE Has(kind)'
    <3>1. PICK i \in DOMAIN pipe : pipe[i].kind = kind
      BY <1>1, <2>5 DEF Has
    <3>2. CASE i = 1
      BY <2>1, <3>1, <3>2 DEF Has
    <3>3. CASE i # 1
      BY <2>2, <3>1, <3>3 DEF Has
    <3> QED
      BY <3>2, <3>3
  <2>6. ASSUME Has(kind)' PROVE Has(kind)
    <3>1. CASE slot'[1].kind = kind
      BY <2>1, <2>4, <3>1 DEF Has
    <3>2. CASE \E i \in DOMAIN pipe' : pipe'[i].kind = kind
      BY <2>3, <3>2 DEF Has
    <3> QED
      BY <2>6, <3>1, <3>2 DEF Has
  <2> QED
    BY <2>5, <2>6
<1>3. CASE pipe = << >> /\ slot' = <<Note("EOF", "FAILED")>> /\ UNCHANGED pipe
  BY <1>1, <1>3 DEF Has, Note
<1> QED
  BY <1>2, <1>3 DEF Read

LEMMA AnnouncementStays ==
  ASSUME StopInv, [Next]_vars, Active, Active', Announced'
  PROVE  stopping' \/ Has("RELEASING")'
<1> USE DEF StopInv, StreamInv, childVars, parentVars, Others, Beside
<1>1. ASSUME Callback \/ Undecodable \/ Ask \/ Pop \/ ChildMoves \/ Clocks \/ UNCHANGED vars
      PROVE  stopping' \/ Has("RELEASING")'
  <2>1. UNCHANGED <<pipe, slot, parent, stopping>>
    BY <1>1 DEF Callback, Undecodable, Ask, Pop, ChildMoves, Break, Drained, Look, GiveUp, Confirm,
       Release, Leave, Die, Clocks, AskStop, Expire, Overrun, vars
  <2>2. child' \in {"RELEASING", "CLOSING", "LEAVING", "EXITED"} =>
          child \in {"RELEASING", "CLOSING", "LEAVING", "EXITED"}
    BY <1>1 DEF Callback, Undecodable, Ask, Pop, ChildMoves, Break, Drained, Look, GiveUp, Confirm,
       Release, Leave, Die, Clocks, AskStop, Expire, Overrun, vars
  <2> QED
    BY <2>1, <2>2 DEF Announced, Has
<1>2. ASSUME Messaging PROVE stopping' \/ Has("RELEASING")'
  <2>1. UNCHANGED <<slot, parent, stopping>>
    BY <1>2 DEF Messaging, Send, Announce, Complete, Tell
  <2>2. CASE Announce
    <3>1. Note("RELEASING", failure) \in Messages /\ Note("RELEASING", failure).kind = "RELEASING"
      BY DEF Note, Messages, TypeOK, ChildTyped
    <3>2. pipe' = Append(pipe, Note("RELEASING", failure))
      BY <2>2 DEF Announce, Tell
    <3> QED
      BY <2>1, <3>1, <3>2, SendingAdds
  <2>3. CASE Send
    <3>1. Event(hand) \in Messages /\ Event(hand).kind = "EVENT"
      BY DEF Event, Messages, TypeOK, ChildTyped, Failures
    <3>2. pipe' = Append(pipe, Event(hand)) /\ child' = child
      BY <2>3 DEF Send
    <3>3. \A kind \in {"COMPLETE", "RELEASING"} : Has(kind)' <=> Has(kind)
      BY <2>1, <3>1, <3>2, SendingAdds
    <3> QED
      BY <2>1, <3>2, <3>3 DEF Announced
  <2>4. CASE Complete
    <3>1. Note("COMPLETE", failure) \in Messages /\ Note("COMPLETE", failure).kind = "COMPLETE"
      BY DEF Note, Messages, TypeOK, ChildTyped
    <3>2. pipe' = Append(pipe, Note("COMPLETE", failure)) /\ child = "CLOSING"
      BY <2>4 DEF Complete, Tell
    <3>3. Has("RELEASING")' <=> Has("RELEASING")
      BY <2>1, <3>1, <3>2, SendingAdds
    <3> QED
      BY <2>1, <3>2, <3>3 DEF Announced
  <2> QED
    BY <1>2, <2>2, <2>3, <2>4 DEF Messaging
<1>3. ASSUME Read PROVE stopping' \/ Has("RELEASING")'
  <2>1. \A kind \in {"COMPLETE", "RELEASING"} : Has(kind)' <=> Has(kind)
    BY <1>3, ReadingKeeps
  <2>2. UNCHANGED <<child, parent, stopping>>
    BY <1>3 DEF Read
  <2> QED
    BY <2>1, <2>2 DEF Announced
<1>4. ASSUME Get PROVE stopping' \/ Has("RELEASING")'
  <2>1. UNCHANGED <<pipe, child>> /\ slot # << >> /\ slot' = << >> /\ parent = "GETTING"
    BY <1>4 DEF Get
  <2>2. CASE slot[1].kind = "RELEASING"
    BY <1>4, <2>2 DEF Get
  <2>3. CASE slot[1].kind = "COMPLETE"
    <3>1. stopping' = stopping
      BY <1>4, <2>3 DEF Get, End
    <3>2. pipe = << >>
      BY <2>1, <2>3 DEF Finishing
    <3>3. ~Has("RELEASING") /\ Announced
      BY <2>1, <2>3, <3>2 DEF Has, Announced
    <3> QED
      BY <3>1, <3>3
  <2>4. CASE slot[1].kind \notin {"RELEASING", "COMPLETE"}
    <3>1. stopping' = stopping
      BY <1>4, <2>4 DEF Get, End
    <3>2. \A kind \in {"COMPLETE", "RELEASING"} : Has(kind)' <=> Has(kind)
      BY <2>1, <2>4 DEF Has
    <3> QED
      BY <2>1, <3>1, <3>2 DEF Announced
  <2> QED
    BY <2>2, <2>3, <2>4
<1>5. ASSUME ParentMoves PROVE stopping' \/ Has("RELEASING")'
  <2>1. UNCHANGED <<pipe, slot, child>> /\ (stopping => stopping')
    <3>1. CASE Check
      BY <3>1 DEF Check
    <3>2. CASE Disown \/ Empty \/ Accept \/ Join
      BY <3>2 DEF Disown, Empty, Accept, Join
    <3>3. ~Begin
      BY DEF Begin, Active
    <3> QED
      BY <1>5, <3>1, <3>2, <3>3 DEF ParentMoves
  <2> QED
    BY <2>1 DEF Announced, Has
<1>6. ASSUME Reject \/ Close PROVE FALSE
  BY <1>6 DEF Reject, Close, End, Active
<1> QED
  BY <1>1, <1>2, <1>3, <1>4, <1>5, <1>6, StepsAre

\* What only the receiver thread moves.
LEMMA OthersLeave ==
  ASSUME [Next]_vars, ~ParentStep
  PROVE  UNCHANGED <<parent, verdict, stopping, stored, kernel>>
BY DEF Next, vars, Callback, Undecodable, ChildStep, Ask, Break, Pop, Send, Drained, Look, GiveUp,
   Confirm, Announce, Release, Complete, Tell, Leave, Die, Read, AskStop, Expire, Overrun,
   childVars, parentVars, Others

LEMMA StopStays == Spec => []StopInv
<1>1. Init => StopInv
  BY Starts DEF Init, StopInv, Active
<1>2. StopInv /\ [Next]_vars /\ StreamInv' => StopInv'
  <2> SUFFICES ASSUME StopInv, [Next]_vars, StreamInv' PROVE StopInv'
    OBVIOUS
  <2>1. UNCHANGED <<parent, stopping, kernel, verdict>> \/ ParentStep
    BY OthersLeave
  <2>2. (parent = "READY" => ~stopping)'
    BY <2>1 DEF StopInv, ParentStep, Begin, Check, Disown, Empty, Get, Reject, Accept, Join, Close, End
  <2>3. (kernel = "FAULTED" => verdict # "NONE")'
    <3>1. CASE UNCHANGED <<parent, stopping, kernel, verdict>>
      BY <3>1 DEF StopInv
    <3>2. CASE Begin \/ Check \/ Disown \/ Empty \/ Get \/ Join
      BY <3>2 DEF StopInv, StreamInv, Recorded, Active, Begin, Check, Disown, Empty, Get, Join
    <3>3. CASE Reject \/ Accept \/ Close
      BY <3>3 DEF StopInv, Reject, Accept, Close, End
    <3> QED
      BY <2>1, <3>1, <3>2, <3>3 DEF ParentStep
  <2>4. ASSUME Active', ~Active PROVE ~Announced'
    <3>1. Begin
      BY <2>1, <2>4 DEF ParentStep, Active, Check, Disown, Empty, Get, Reject, Accept, Join, Close, End
    <3>2. pipe' = << >> /\ slot' = << >> /\ parent' = "CHECKING" /\ child' = "ASKING"
      BY <2>4, <3>1 DEF Begin, End, Active, StopInv, StreamInv, Recorded
    <3> QED
      BY <3>2 DEF Announced, Has
  <2>5. ASSUME Active', Announced' PROVE stopping' \/ Has("RELEASING")'
    BY <2>4, <2>5, AnnouncementStays
  <2>6. ASSUME parent' = "JOINING" PROVE stopping'
    <3>1. CASE Get
      <4>1. slot # << >> /\ slot[1].kind = "COMPLETE" /\ UNCHANGED stopping /\ Active
        BY <2>6, <3>1 DEF Get, End, Active
      <4>2. pipe = << >>
        BY <4>1 DEF StopInv, StreamInv, Finishing
      <4>3. Announced /\ ~Has("RELEASING")
        BY <4>1, <4>2 DEF Announced, Has
      <4> QED
        BY <4>1, <4>3 DEF StopInv
    <3>2. CASE ~Get
      <4>1. UNCHANGED <<parent, stopping>>
        BY <2>1, <2>6, <3>2 DEF ParentStep, Begin, Check, Disown, Empty, Reject, Accept, Join, Close, End
      <4> QED
        BY <2>6, <4>1 DEF StopInv
    <3> QED
      BY <3>1, <3>2
  <2> QED
    BY <2>2, <2>3, <2>5, <2>6 DEF StopInv
<1> QED
  BY <1>1, <1>2, Inductive, PTL DEF Spec

\* How any step shows on the one reception there is.
LEMMA Shows ==
  ASSUME NEW from, Phase \in from
  PROVE  contract!Becomes("this", from, Phase', stored', Said')
BY DEF contract!Becomes

LEMMA ContractStep ==
  ASSUME StopInv, [Next]_vars
  PROVE  [contract!Next]_(contract!vars)
<1> USE DEF StopInv, StreamInv, contract!vars
<1>1. ASSUME UNCHANGED <<Phase, stored, Said>> PROVE [contract!Next]_(contract!vars)
  BY <1>1
<1>2. CASE ~ParentStep
  BY <1>1, <1>2, OthersLeave DEF Phase, Said
<1>3. CASE Begin
  <2>1. /\ Phase = "BEFORE" /\ Phase' \in {"COMPLETE", "BROKEN", "RECEIVING"}
        /\ UNCHANGED <<stored, Said>>
    BY <1>3 DEF Begin, End, Phase, Said
  <2>2. contract!Start("this") \/ contract!Decline("this")
    BY <2>1, Shows DEF contract!Start, contract!Decline, contract!Moves
  <2> QED
    BY <2>2 DEF contract!Next
<1>4. CASE Check \/ Disown \/ Empty \/ Get \/ Reject \/ Join
  <2>1. UNCHANGED <<stored, Said>>
    BY <1>4 DEF Check, Disown, Empty, Get, Reject, Join, End, Said
  <2>2. Phase = IF stopping THEN "STOPPING" ELSE "RECEIVING"
    BY <1>4 DEF Check, Disown, Empty, Get, Reject, Join, Phase
  <2>3. Phase' = Phase \/ Phase' \in {"STOPPING", "BROKEN"} \/ (Phase' = "COMPLETE" /\ stopping)
    <3>1. CASE Join
      BY <3>1, <2>2 DEF Join, End, Phase
    <3>2. CASE Check
      BY <3>2, <2>2 DEF Check, End, Or, Phase
    <3>3. CASE Get
      BY <3>3, <2>2 DEF Get, End, Or, Phase
    <3>4. CASE Disown \/ Empty \/ Reject
      BY <3>4, <2>2 DEF Disown, Empty, Reject, End, Or, Phase
    <3> QED
      BY <1>4, <3>1, <3>2, <3>3, <3>4
  <2>4. \/ UNCHANGED Phase
        \/ contract!Stop("this") \/ contract!Fail("this") \/ contract!Finish("this")
    BY <2>1, <2>2, <2>3, Shows DEF contract!Stop, contract!Fail, contract!Finish, contract!Moves
  <2> QED
    BY <1>1, <2>1, <2>4 DEF contract!Next
<1>5. CASE Accept
  <2>1. stored \in Nat /\ sequence = stored + 1
    BY <1>5 DEF Accept, Recorded, TypeOK, ParentTyped
  <2>2. /\ Phase \in {"RECEIVING", "STOPPING"} /\ UNCHANGED Said
        /\ stored' \in {stored, stored + 1} /\ Phase' \in {Phase, "BROKEN"}
        /\ Phase' = Phase => stored' = stored + 1
    BY <1>5, <2>1 DEF Accept, End, Phase, Said
  <2>3. contract!Record("this") \/ contract!Fail("this")
    BY <2>2, Shows DEF contract!Record, contract!Fail
  <2> QED
    BY <2>3 DEF contract!Next
<1>6. CASE Close
  <2>1. /\ Phase \in {"COMPLETE", "BROKEN"} /\ Phase' = "OVER" /\ UNCHANGED stored
        /\ Said' = IF Phase = "COMPLETE" THEN "CLEAN" ELSE "FAILED"
    BY <1>6 DEF Close, Phase, Said
  <2>2. contract!Settle("this")
    BY <2>1, Shows DEF contract!Settle, contract!Says
  <2> QED
    BY <2>2 DEF contract!Next
<1> QED
  BY <1>2, <1>3, <1>4, <1>5, <1>6 DEF ParentStep

(* The reception, down to the messages of its child, is one of ReceptionContract:
   whatever ends without having been stopped, by the kernel or by the RELEASING of
   the child, is told as failed. *)
THEOREM KeepsReceptionContract == Spec => Contract
<1>1. Init => contract!Init
  BY DEF Init, contract!Init, contract!Untouched, Phase, Said
<1>2. StopInv /\ [Next]_vars => [contract!Next]_(contract!vars)
  BY ContractStep
<1> QED
  BY <1>1, <1>2, StopStays, PTL DEF Spec, contract!Spec, Contract

-----------------------------------------------------------------------------
(* The way out: what the receiver still has before it, one step of it after
   another.  CHECKING and GETTING alternate only while a clock still runs. *)

Is(p)   == parent = p
Going   == parent \notin {"READY", "DONE"}
Late    == stopping /\ overdue

LEMMA ClocksKeep ==
  ASSUME TypeOK, [Next]_vars
  PROVE  /\ expired => expired'
         /\ stopping => stopping'
         /\ overdue => overdue'
         /\ ParentStep \/ UNCHANGED <<parent, stopping>>
<1> USE DEF parentVars, outside, Others, Beside
<1>1. ASSUME ~ParentStep
      PROVE  UNCHANGED <<parent, stopping>> /\ (expired => expired') /\ (overdue => overdue')
  BY <1>1 DEF Next, ChildStep, Callback, Undecodable, Ask, Break, Pop, Send, Drained, Look, GiveUp, Confirm,
     Announce, Release, Complete, Tell, Leave, Die, Read, AskStop, Expire, Overrun, vars
<1>2. ASSUME ParentStep PROVE UNCHANGED <<expired, overdue>> /\ (stopping => stopping')
  <2> USE DEF End, TypeOK, ParentTyped
  <2>1. CASE Begin \/ Disown \/ Empty
    BY <2>1 DEF Begin, Disown, Empty
  <2>2. CASE Check
    BY <2>2 DEF Check
  <2>3. CASE Get \/ Reject
    BY <2>3 DEF Get, Reject
  <2>4. CASE Accept \/ Join \/ Close
    BY <2>4 DEF Accept, Join, Close
  <2> QED
    BY <1>2, <2>1, <2>2, <2>3, <2>4 DEF ParentStep
<1> QED
  BY <1>1, <1>2

LEMMA ParentGoes ==
  ASSUME TypeOK, ParentStep
  PROVE  /\ Is("CHECKING") => Is("CLOSING")' \/ (Is("GETTING")' /\ ~Late /\ (expired => stopping'))
         /\ Is("GETTING") => Is("CHECKING")' \/ Is("ACCEPTING")' \/ Is("JOINING")' \/ Is("CLOSING")'
         /\ Is("ACCEPTING") => Is("CHECKING")' \/ Is("CLOSING")'
         /\ Is("JOINING") => Is("CLOSING")'
         /\ Is("CLOSING") => Is("DONE")'
         /\ ~Is("READY")'
<1> USE DEF Is, Late, End, TypeOK, ParentTyped, LinkTyped
<1>1. CASE Begin \/ Check \/ Disown
  BY <1>1 DEF Begin, Check, Disown
<1>2. CASE Empty \/ Get \/ Reject
  BY <1>2 DEF Empty, Get, Reject
<1>3. CASE Accept \/ Join \/ Close
  BY <1>3 DEF Accept, Join, Close
<1> QED
  BY <1>1, <1>2, <1>3 DEF ParentStep

\* The loop has a step wherever it is, so each place is left for one of the next.
Onward == FairSpec /\ []NothingBlocks

LEMMA OnwardRuns ==
  Onward => /\ []StreamInv /\ [][Next]_vars /\ WF_vars(ParentStep) /\ WF_vars(Expire) /\ WF_vars(Overrun)
            /\ [](parent # "DONE" => ENABLED <<ParentStep>>_vars)
            /\ [](Going /\ ~expired => ENABLED <<Expire>>_vars)
            /\ [](stopping /\ Going /\ ~overdue => ENABLED <<Overrun>>_vars)
<1>1. FairSpec => []StreamInv
  BY Inductive, PTL DEF FairSpec
<1>2. NothingBlocks =>
        /\ parent # "DONE" => ENABLED <<ParentStep>>_vars
        /\ Going /\ ~expired => ENABLED <<Expire>>_vars
        /\ stopping /\ Going /\ ~overdue => ENABLED <<Overrun>>_vars
  BY DEF NothingBlocks, Going
<1> QED
  BY <1>1, <1>2, PTL DEF Onward, FairSpec, Spec

\* From CLOSING and JOINING the way is straight.
LEMMA ClosingEnds == Onward => (Is("CLOSING") ~> Is("DONE"))
<1>1. StreamInv /\ Is("CLOSING") /\ [Next]_vars => Is("CLOSING")' \/ Is("DONE")'
  BY ClocksKeep, ParentGoes DEF StreamInv, Is
<1>2. StreamInv /\ Is("CLOSING") /\ <<Next /\ ParentStep>>_vars => Is("DONE")'
  BY ParentGoes DEF StreamInv
<1>3. Is("CLOSING") => parent # "DONE"
  BY DEF Is
<1> QED
  BY <1>1, <1>2, <1>3, OnwardRuns, PTL

LEMMA JoiningCloses == Onward => (Is("JOINING") ~> Is("CLOSING"))
<1>1. StreamInv /\ Is("JOINING") /\ [Next]_vars => Is("JOINING")' \/ Is("CLOSING")'
  BY ClocksKeep, ParentGoes DEF StreamInv, Is
<1>2. StreamInv /\ Is("JOINING") /\ <<Next /\ ParentStep>>_vars => Is("CLOSING")'
  BY ParentGoes DEF StreamInv
<1>3. Is("JOINING") => parent # "DONE"
  BY DEF Is
<1> QED
  BY <1>1, <1>2, <1>3, OnwardRuns, PTL

\* Three seconds after the end was announced, the next look at the clock closes.
LateAt(p) == Is(p) /\ Late

LEMMA LateIsKept == ASSUME StreamInv, [Next]_vars, Late PROVE Late'
  BY ClocksKeep DEF StreamInv, Late

LEMMA LateCloses == Onward => (Going /\ Late ~> Is("CLOSING"))
<1>1. /\ StreamInv /\ LateAt("CHECKING") /\ [Next]_vars => LateAt("CHECKING")' \/ Is("CLOSING")'
      /\ StreamInv /\ LateAt("CHECKING") /\ <<Next /\ ParentStep>>_vars => Is("CLOSING")'
      /\ LateAt("CHECKING") => parent # "DONE"
  BY ClocksKeep, ParentGoes, LateIsKept DEF StreamInv, LateAt, Is
<1>2. Onward => (LateAt("CHECKING") ~> Is("CLOSING"))
  BY <1>1, OnwardRuns, PTL
<1>3. /\ StreamInv /\ LateAt("ACCEPTING") /\ [Next]_vars =>
           LateAt("ACCEPTING")' \/ (LateAt("CHECKING")' \/ Is("CLOSING")')
      /\ StreamInv /\ LateAt("ACCEPTING") /\ <<Next /\ ParentStep>>_vars =>
           LateAt("CHECKING")' \/ Is("CLOSING")'
      /\ LateAt("ACCEPTING") => parent # "DONE"
  BY ClocksKeep, ParentGoes, LateIsKept DEF StreamInv, LateAt, Is
<1>4. Onward => (LateAt("ACCEPTING") ~> LateAt("CHECKING") \/ Is("CLOSING"))
  BY <1>3, OnwardRuns, PTL
<1>5. /\ StreamInv /\ LateAt("GETTING") /\ [Next]_vars =>
           LateAt("GETTING")' \/ (LateAt("CHECKING")' \/ LateAt("ACCEPTING")' \/ Is("JOINING")' \/ Is("CLOSING")')
      /\ StreamInv /\ LateAt("GETTING") /\ <<Next /\ ParentStep>>_vars =>
           LateAt("CHECKING")' \/ LateAt("ACCEPTING")' \/ Is("JOINING")' \/ Is("CLOSING")'
      /\ LateAt("GETTING") => parent # "DONE"
  BY ClocksKeep, ParentGoes, LateIsKept DEF StreamInv, LateAt, Is
<1>6. Onward => (LateAt("GETTING") ~>
                   LateAt("CHECKING") \/ LateAt("ACCEPTING") \/ Is("JOINING") \/ Is("CLOSING"))
  BY <1>5, OnwardRuns, PTL
<1>7. StreamInv /\ Going /\ Late =>
        LateAt("CHECKING") \/ LateAt("ACCEPTING") \/ LateAt("GETTING") \/ Is("JOINING") \/ Is("CLOSING")
  BY DEF StreamInv, TypeOK, ParentTyped, Going, LateAt, Is
<1> QED
  BY <1>2, <1>4, <1>6, <1>7, JoiningCloses, OnwardRuns, PTL

\* Once the end is announced, its three seconds pass; before that, the duration does.
LEMMA StoppingIsLate == Onward => (stopping /\ Going ~> (Going /\ Late) \/ Is("DONE"))
<1>1. StreamInv /\ stopping /\ Going /\ [Next]_vars =>
        (stopping /\ Going)' \/ ((Going /\ Late)' \/ Is("DONE")')
  BY ClocksKeep, ParentGoes DEF StreamInv, Going, Is
<1>2. StreamInv /\ stopping /\ Going /\ <<Next /\ Overrun>>_vars => (Going /\ Late)'
  BY DEF StreamInv, TypeOK, LinkTyped, Overrun, Going, Late, parentVars
<1>3. stopping /\ Going /\ ~Late => stopping /\ Going /\ ~overdue
  BY DEF Late
<1> QED
  BY <1>1, <1>2, <1>3, OnwardRuns, PTL

LEMMA DurationEnds == Onward => (Going ~> (Going /\ expired) \/ Is("DONE"))
<1>1. StreamInv /\ Going /\ [Next]_vars => Going' \/ ((Going /\ expired)' \/ Is("DONE")')
  BY ClocksKeep, ParentGoes DEF StreamInv, Going, Is
<1>2. StreamInv /\ Going /\ <<Next /\ Expire>>_vars => (Going /\ expired)'
  BY DEF StreamInv, Expire, Going, parentVars
<1> QED
  BY <1>1, <1>2, OnwardRuns, PTL

\* When the duration is over, the next look at the clock announces the end.
DueAt(p) == Is(p) /\ expired
Ending   == stopping /\ Going

LEMMA DueEnds == Onward => (Going /\ expired ~> Ending \/ Is("CLOSING"))
<1>0. StreamInv /\ [Next]_vars => (expired => expired') /\ (Is("GETTING")' /\ stopping' => Ending')
  BY ClocksKeep DEF StreamInv, Ending, Going, Is
<1>1. /\ StreamInv /\ DueAt("CHECKING") /\ [Next]_vars =>
           DueAt("CHECKING")' \/ (Ending' \/ Is("CLOSING")')
      /\ StreamInv /\ DueAt("CHECKING") /\ <<Next /\ ParentStep>>_vars => Ending' \/ Is("CLOSING")'
      /\ DueAt("CHECKING") => parent # "DONE"
  BY <1>0, ClocksKeep, ParentGoes DEF StreamInv, DueAt, Is
<1>2. Onward => (DueAt("CHECKING") ~> Ending \/ Is("CLOSING"))
  BY <1>1, OnwardRuns, PTL
<1>3. /\ StreamInv /\ DueAt("ACCEPTING") /\ [Next]_vars =>
           DueAt("ACCEPTING")' \/ (DueAt("CHECKING")' \/ Is("CLOSING")')
      /\ StreamInv /\ DueAt("ACCEPTING") /\ <<Next /\ ParentStep>>_vars =>
           DueAt("CHECKING")' \/ Is("CLOSING")'
      /\ DueAt("ACCEPTING") => parent # "DONE"
  BY <1>0, ClocksKeep, ParentGoes DEF StreamInv, DueAt, Is
<1>4. Onward => (DueAt("ACCEPTING") ~> DueAt("CHECKING") \/ Is("CLOSING"))
  BY <1>3, OnwardRuns, PTL
<1>5. /\ StreamInv /\ DueAt("GETTING") /\ [Next]_vars =>
           DueAt("GETTING")' \/ (DueAt("CHECKING")' \/ DueAt("ACCEPTING")' \/ Is("JOINING")' \/ Is("CLOSING")')
      /\ StreamInv /\ DueAt("GETTING") /\ <<Next /\ ParentStep>>_vars =>
           DueAt("CHECKING")' \/ DueAt("ACCEPTING")' \/ Is("JOINING")' \/ Is("CLOSING")'
      /\ DueAt("GETTING") => parent # "DONE"
  BY <1>0, ClocksKeep, ParentGoes DEF StreamInv, DueAt, Is
<1>6. Onward => (DueAt("GETTING") ~>
                   DueAt("CHECKING") \/ DueAt("ACCEPTING") \/ Is("JOINING") \/ Is("CLOSING"))
  BY <1>5, OnwardRuns, PTL
<1>7. StreamInv /\ Going /\ expired =>
        DueAt("CHECKING") \/ DueAt("ACCEPTING") \/ DueAt("GETTING") \/ Is("JOINING") \/ Is("CLOSING")
  BY DEF StreamInv, TypeOK, ParentTyped, Going, DueAt, Is
<1> QED
  BY <1>2, <1>4, <1>6, <1>7, JoiningCloses, OnwardRuns, PTL

(* Whatever the child, the SDK and the pipe do, and whenever STOP comes: as long
   as the loop has a next step wherever it is (NothingBlocks, which the run checks
   in every state), a started reception ends, by its duration and the three
   seconds after it at the latest. *)
THEOREM ReceptionsEnd == FairSpec /\ []NothingBlocks => ReceptionEnds
<1>1. /\ (parent # "READY") <=> Going \/ Is("DONE")
      /\ (parent = "DONE") <=> Is("DONE")
  BY DEF Going, Is
<1>2. Onward => (Going ~> Is("DONE"))
  BY StoppingIsLate, DurationEnds, DueEnds, LateCloses, ClosingEnds, PTL DEF Ending
<1> QED
  BY <1>1, <1>2, PTL DEF Onward, ReceptionEnds
====

---------------------------- MODULE NativeStream ----------------------------
(***************************************************************************)
(* One reception from the broker, from start to verdict: the SDK's         *)
(* callback threads and the main thread of the child process               *)
(* (broker/_ctp_worker.py, _capture with streaming), the pipe with its     *)
(* reader thread and the loop of stream_account (broker/ctp.py), and the   *)
(* kernel that has each callback recorded (live/streams.py, _run, with     *)
(* trading/kernel.py).                                                     *)
(*                                                                         *)
(* A callback is its number; what is told apart is whether the child could *)
(* copy it, whether it reports a fault, and whether it answers what the    *)
(* main thread waits for.  The connections, requests and the subscription  *)
(* of the setup are Setup exchanges of one form: an event of the child's   *)
(* own, a call into the SDK, and a wait for the answer.                    *)
(***************************************************************************)
EXTENDS Naturals, Sequences

CONSTANTS
  Setup,       \* exchanges before quotes are received
  QueueLimit,  \* callbacks that may wait in the child (_STREAM_QUEUE)
  EventLimit,  \* callbacks of one session (_STREAM_EVENTS)
  PipeRoom     \* messages the pipe and the reader hold

ASSUME StreamAssumption ==
  /\ Setup \in Nat \ {0} /\ QueueLimit \in Nat \ {0}
  /\ EventLimit \in Nat /\ PipeRoom \in Nat \ {0}

VARIABLES
  \* the child: its main thread, and what its lock protects
  child, stage, answer, hand, queue, taken, failure, lost,
  \* between the processes
  pipe, slot, signal,
  \* the receiver thread of the kernel process
  parent, sequence, verdict, stopping, stored, kernel,
  \* its surroundings: a stop is asked, the duration is over, three seconds are
  asked, expired, overdue

childVars  == <<child, stage, answer, hand, queue, taken, failure, lost>>
parentVars == <<parent, sequence, verdict, stopping, stored, kernel>>
outside    == <<asked, expired, overdue>>
vars == <<childVars, pipe, slot, signal, parentVars, outside>>

\* NONE, a refusal for want of room, or any other code.
Failures == {"NONE", "LIMIT", "FAILED"}
Or(code, other) == IF code = "NONE" THEN other ELSE code

Event(n) == [kind |-> "EVENT", n |-> n, failure |-> "NONE"]
Note(kind, code) == [kind |-> kind, n |-> 0, failure |-> code]
Messages == [kind : {"EVENT", "RELEASING", "COMPLETE", "EOF"}, n : Nat, failure : Failures]

Waiting  == {"DRAINING", "LOOKING", "ANSWERED"}
Draining == {"DRAINING", "ENDING", "CLOSING"}
Closed   == {"CLOSING", "LEAVING"}
Gone     == {"EXITED", "DEAD"}
Alive    == child \notin Gone \union {"NONE"}
Running  == stage = Setup

Init ==
  /\ child = "NONE" /\ stage = 0 /\ answer = "NO" /\ hand = 0 /\ queue = << >>
  /\ taken = 0 /\ failure = "NONE" /\ lost = FALSE
  /\ pipe = << >> /\ slot = << >> /\ signal = FALSE
  /\ parent = "READY" /\ sequence = 0 /\ verdict = "NONE" /\ stopping = FALSE
  /\ stored = 0 /\ kernel = "RUNNING"
  /\ asked = FALSE /\ expired = FALSE /\ overdue = FALSE

-----------------------------------------------------------------------------
(* _Receiver.event, under the lock: callbacks and the main thread's own events. *)

Full == Len(queue) >= QueueLimit \/ taken >= EventLimit

Keep ==
  /\ queue' = Append(queue, taken + 1) /\ taken' = taken + 1
  /\ UNCHANGED lost

Refuse ==
  /\ failure' = "LIMIT" /\ lost' = TRUE
  /\ UNCHANGED <<queue, taken, answer>>

\* The SDK calls from Init until Release has returned, and no call outlasts
\* Release; what would come later is refused by "closed".
Calling == Alive /\ child \notin Closed /\ ~ (child = "ASKING" /\ stage = 0)

\* A report or a quote, a fault (disconnection, heartbeat, error), or an answer.
Callback ==
  /\ Calling
  /\ IF failure = "LIMIT" \/ Full THEN Refuse
     ELSE /\ Keep
          /\ \/ UNCHANGED <<failure, answer>>
             \/ failure' = Or(failure, "FAILED") /\ UNCHANGED answer
             \/ /\ child \in Waiting /\ ~Running /\ answer = "NO"
                /\ answer' \in {"RIGHT", "WRONG"}
                /\ UNCHANGED failure
  /\ UNCHANGED <<child, stage, hand, pipe, slot, signal, parentVars, outside>>

\* _copy_fields raises: the callback is lost, and later ones are still taken.
Undecodable ==
  /\ Calling
  /\ failure' = Or(failure, "FAILED") /\ lost' = TRUE
  /\ UNCHANGED <<child, stage, answer, hand, queue, taken>>
  /\ UNCHANGED <<pipe, slot, signal, parentVars, outside>>

-----------------------------------------------------------------------------
(* The main thread of the child: _capture.                                   *)

Others == <<pipe, slot, signal, parentVars, outside>>

\* The event of an exchange and its call, which the SDK may refuse.
Ask ==
  /\ child = "ASKING"
  /\ IF failure = "LIMIT" \/ Full
     THEN Refuse /\ child' = "ENDING"
     ELSE /\ Keep
          /\ \/ child' = "DRAINING" /\ UNCHANGED failure
             \/ child' = "ENDING" /\ failure' \in {"FAILED", Or(failure, "FAILED")}
          /\ UNCHANGED answer
  /\ UNCHANGED <<stage, hand, Others>>

\* Anything in the setup may raise.
Break ==
  /\ child \in {"ASKING", "DRAINING", "LOOKING", "ANSWERED"} /\ ~Running
  /\ hand = 0
  /\ child' = "ENDING" /\ failure' = Or(failure, "FAILED")
  /\ UNCHANGED <<stage, answer, hand, queue, taken, lost, Others>>

\* drain: one event leaves the queue under the lock and is sent outside it.
Pop ==
  /\ child \in Draining /\ hand = 0 /\ queue # << >>
  /\ hand' = Head(queue) /\ queue' = Tail(queue)
  /\ UNCHANGED <<child, stage, answer, taken, failure, lost, Others>>

Send ==
  /\ child \in Draining /\ hand # 0 /\ Len(pipe) < PipeRoom
  /\ pipe' = Append(pipe, Event(hand)) /\ hand' = 0
  /\ UNCHANGED <<child, stage, answer, queue, taken, failure, lost>>
  /\ UNCHANGED <<slot, signal, parentVars, outside>>

Drained ==
  /\ child \in {"DRAINING", "ENDING"} /\ hand = 0 /\ queue = << >>
  /\ child' = IF child = "DRAINING" THEN "LOOKING" ELSE "ANNOUNCING"
  /\ UNCHANGED <<stage, answer, hand, queue, taken, failure, lost, Others>>

\* wait, after its drain: a failure or a stop ends it, and an answer.
Look ==
  /\ child = "LOOKING"
  /\ child' = IF failure # "NONE" \/ signal THEN "ENDING"
              ELSE IF ~Running /\ answer # "NO" THEN "ANSWERED"
              ELSE "DRAINING"
  /\ UNCHANGED <<stage, answer, hand, queue, taken, failure, lost, Others>>

\* The deadline of an exchange, or the end of the session.
GiveUp ==
  /\ child = "LOOKING"
  /\ \/ ~Running /\ failure' = Or(failure, "FAILED")
     \/ Running /\ expired /\ UNCHANGED failure
  /\ child' = "ENDING"
  /\ UNCHANGED <<stage, answer, hand, queue, taken, lost, Others>>

\* Account, trading day or instrument differ: the code is overwritten.
Confirm ==
  /\ child = "ANSWERED"
  /\ IF answer = "RIGHT"
     THEN /\ stage' = stage + 1
          /\ child' = IF stage' = Setup THEN "DRAINING" ELSE "ASKING"
          /\ UNCHANGED failure
     ELSE /\ failure' = "FAILED" /\ child' = "ENDING"
          /\ UNCHANGED stage
  /\ answer' = "NO"
  /\ UNCHANGED <<hand, queue, taken, lost, Others>>

Tell(kind) ==
  /\ Len(pipe) < PipeRoom
  /\ pipe' = Append(pipe, Note(kind, failure))
  /\ UNCHANGED <<stage, answer, hand, queue, taken, failure, lost>>
  /\ UNCHANGED <<slot, signal, parentVars, outside>>

Announce == child = "ANNOUNCING" /\ child' = "RELEASING" /\ Tell("RELEASING")

\* Release returns or raises; then nothing more is taken.
Release ==
  /\ child = "RELEASING"
  /\ child' = "CLOSING" /\ failure' \in {failure, Or(failure, "FAILED")}
  /\ UNCHANGED <<stage, answer, hand, queue, taken, lost, Others>>

\* Faulty variant: what came during Release is not sent any more.
CompleteAtOnce == child = "CLOSING" /\ child' = "LEAVING" /\ Tell("COMPLETE")

Complete ==
  /\ child = "CLOSING" /\ hand = 0 /\ queue = << >>
  /\ child' = "LEAVING" /\ Tell("COMPLETE")

Leave ==
  /\ child = "LEAVING"
  /\ child' = "EXITED"
  /\ UNCHANGED <<stage, answer, hand, queue, taken, failure, lost, Others>>

\* A native crash, or a failing exit.
Die ==
  /\ Alive
  /\ child' = "DEAD"
  /\ UNCHANGED <<stage, answer, hand, queue, taken, failure, lost, Others>>

-----------------------------------------------------------------------------
(* The reader thread: one message ahead of the loop.                         *)

Read ==
  /\ parent \notin {"READY", "DONE"} /\ slot = << >>
  /\ \/ pipe # << >> /\ slot' = <<Head(pipe)>> /\ pipe' = Tail(pipe)
     \/ /\ pipe = << >> /\ child \in Gone
        /\ slot' = <<Note("EOF", "FAILED")>> /\ UNCHANGED pipe
  /\ UNCHANGED <<childVars, signal, parentVars, outside>>

-----------------------------------------------------------------------------
(* The receiver thread: _run and stream_account.                             *)

Beside == <<childVars, pipe, signal, outside>>
End(code) == parent' = "CLOSING" /\ verdict' = code

\* A stop asked before the start ends cleanly; without the SDK nothing starts.
Begin ==
  /\ parent = "READY"
  /\ \/ /\ asked
        /\ End("NONE") /\ UNCHANGED child
     \/ /\ ~asked
        /\ End("FAILED") /\ UNCHANGED child
     \/ /\ ~asked
        /\ parent' = "CHECKING" /\ child' = "ASKING"
        /\ UNCHANGED verdict
  /\ UNCHANGED <<stage, answer, hand, queue, taken, failure, lost>>
  /\ UNCHANGED <<pipe, slot, signal, sequence, stopping, stored, kernel, outside>>

\* The top of the loop, before any message.
Check ==
  /\ parent = "CHECKING"
  /\ IF stopping /\ overdue
     THEN /\ End(Or(verdict, "FAILED"))
          /\ UNCHANGED <<stopping, signal>>
     ELSE /\ parent' = "GETTING"
          /\ stopping' = (stopping \/ expired \/ asked)
          /\ signal' = (signal \/ (~stopping /\ (expired \/ asked)))
          /\ UNCHANGED verdict
  /\ UNCHANGED <<childVars, pipe, slot, sequence, stored, kernel, outside>>

\* Faulty variant: a lost owner ends the reception as a stop does.
DisownQuietly ==
  /\ parent = "CHECKING" /\ ~stopping
  /\ End("NONE")
  /\ UNCHANGED <<sequence, stopping, stored, kernel, slot, Beside>>

\* should_stop raises: the owner's connection or the database is lost.
Disown ==
  /\ parent = "CHECKING" /\ ~stopping
  /\ End("FAILED")
  /\ UNCHANGED <<sequence, stopping, stored, kernel, slot, Beside>>

\* Faulty variant: the loop waits for a message without a timeout.
NeverEmpty == FALSE /\ vars' = vars

\* queue.Empty after 100 ms.
Empty ==
  /\ parent = "GETTING" /\ slot = << >>
  /\ IF child \in Gone
     THEN End(Or(verdict, "FAILED"))
     ELSE parent' = "CHECKING" /\ UNCHANGED verdict
  /\ UNCHANGED <<sequence, stopping, stored, kernel, slot, Beside>>

Get ==
  /\ parent = "GETTING" /\ slot # << >>
  /\ LET m == slot[1] IN
     \/ /\ m.kind = "EVENT" /\ sequence < EventLimit /\ m.n = sequence + 1
        /\ parent' = "ACCEPTING" /\ sequence' = m.n
        /\ UNCHANGED <<verdict, stopping>>
     \/ /\ m.kind = "RELEASING"
        /\ verdict' = Or(verdict, m.failure) /\ stopping' = TRUE
        /\ parent' = "CHECKING" /\ UNCHANGED sequence
     \/ /\ m.kind = "COMPLETE"
        /\ verdict' = Or(verdict, m.failure)
        /\ parent' = "JOINING" /\ UNCHANGED <<sequence, stopping>>
     \/ /\ m.kind = "EOF"
        /\ End(Or(verdict, "FAILED")) /\ UNCHANGED <<sequence, stopping>>
  /\ slot' = << >>
  /\ UNCHANGED <<stored, kernel, Beside>>

\* The session's events or bytes exceed their limit, its numbers have a gap, or
\* the SDK is another version.
Reject ==
  /\ parent = "GETTING" /\ slot # << >>
  /\ End("FAILED") /\ slot' = << >>
  /\ UNCHANGED <<sequence, stopping, stored, kernel, Beside>>

\* kernel.advance: accept records the callback, or raises before or after that.
Accept ==
  /\ parent = "ACCEPTING" /\ kernel = "RUNNING"
  /\ \/ /\ stored' = sequence
        /\ parent' = "CHECKING" /\ UNCHANGED <<kernel, verdict>>
     \/ /\ stored' \in {stored, sequence}
        /\ kernel' = "FAULTED" /\ End("FAILED")
  /\ UNCHANGED <<sequence, stopping, slot, Beside>>

\* join(timeout=1)
Join ==
  /\ parent = "JOINING"
  /\ End(IF child = "EXITED" THEN verdict ELSE Or(verdict, "FAILED"))
  /\ UNCHANGED <<sequence, stopping, stored, kernel, slot, Beside>>

Kill == child' = IF Alive THEN "DEAD" ELSE child

\* finally: the child is terminated or killed, the kernel closed, the row settled.
Close ==
  /\ parent = "CLOSING"
  /\ Kill
  /\ parent' = "DONE" /\ signal' = TRUE /\ kernel' = "CLOSED"
  /\ verdict' = IF kernel = "FAULTED" THEN "FAILED" ELSE verdict
  /\ pipe' = << >> /\ slot' = << >>
  /\ UNCHANGED <<stage, answer, hand, queue, taken, failure, lost>>
  /\ UNCHANGED <<sequence, stopping, stored, outside>>

-----------------------------------------------------------------------------
(* STOP or the deadline of the instance; the clocks.                         *)

AskStop ==
  /\ ~asked /\ asked' = TRUE
  /\ UNCHANGED <<childVars, pipe, slot, signal, parentVars, expired, overdue>>

Expire ==
  /\ parent \notin {"READY", "DONE"} /\ ~expired
  /\ expired' = TRUE
  /\ UNCHANGED <<childVars, pipe, slot, signal, parentVars, asked, overdue>>

Overrun ==
  /\ stopping /\ parent # "DONE" /\ ~overdue
  /\ overdue' = TRUE
  /\ UNCHANGED <<childVars, pipe, slot, signal, parentVars, asked, expired>>

ChildStep ==
  \/ Ask \/ Break \/ Pop \/ Send \/ Drained \/ Look \/ GiveUp \/ Confirm
  \/ Announce \/ Release \/ Complete \/ Leave \/ Die

ParentStep ==
  Begin \/ Check \/ Disown \/ Empty \/ Get \/ Reject \/ Accept \/ Join \/ Close

Next ==
  \/ Callback \/ Undecodable \/ ChildStep \/ Read
  \/ ParentStep \/ AskStop \/ Expire \/ Overrun

Spec == Init /\ [][Next]_vars

(* The receiver thread is scheduled and what it calls returns (accept runs with
   statement and lock timeouts), and time passes.  Nothing is assumed of the
   child, the SDK or the reader: any of them may hang. *)
FairSpec == Spec /\ WF_vars(ParentStep) /\ WF_vars(Expire) /\ WF_vars(Overrun)

-----------------------------------------------------------------------------
ChildTyped ==
  /\ child \in Waiting \union Draining \union Closed \union Gone
               \union {"NONE", "ASKING", "ANNOUNCING", "RELEASING"}
  /\ stage \in 0..Setup /\ answer \in {"NO", "RIGHT", "WRONG"}
  /\ child \in {"NONE", "ASKING", "ANSWERED"} => stage < Setup
  /\ parent = "READY" => child = "NONE"
  /\ hand \in Nat /\ queue \in Seq(Nat) /\ taken \in Nat
  /\ failure \in Failures /\ lost \in BOOLEAN

ParentTyped ==
  /\ parent \in {"READY", "CHECKING", "GETTING", "ACCEPTING", "JOINING", "CLOSING", "DONE"}
  /\ sequence \in Nat /\ verdict \in Failures /\ stopping \in BOOLEAN
  /\ stored \in Nat /\ kernel \in {"RUNNING", "FAULTED", "CLOSED"}

LinkTyped ==
  /\ pipe \in Seq(Messages) /\ slot \in Seq(Messages) /\ signal \in BOOLEAN
  /\ asked \in BOOLEAN /\ expired \in BOOLEAN /\ overdue \in BOOLEAN

TypeOK == ChildTyped /\ ParentTyped /\ LinkTyped

(* "Backpressure overflow stops reception, never silently drops ticks"       *)
(* (broker/ctp.py:266): whatever else overwrites or races the code, a child  *)
(* that lost a callback has a failure to report.                             *)
GapsAreNoted == lost => failure # "NONE"

(* A session that ends without a code recorded every callback the SDK made    *)
(* before it was released, those made during the release included, and its   *)
(* child left by itself.                                                      *)
CleanEndIsWhole ==
  parent = "DONE" /\ verdict = "NONE" /\ child # "NONE" =>
    ~lost /\ stored = taken /\ child = "EXITED"

(* Whatever the verdict, no child outlives the reception, whose account locks *)
(* are given up next, and what was recorded are the first callbacks without   *)
(* a gap.                                                                     *)
NothingIsLeft ==
  /\ parent = "DONE" => ~Alive
  /\ stored <= sequence /\ sequence <= stored + 1 /\ sequence <= taken

ReceptionIsHonest == TypeOK /\ GapsAreNoted /\ CleanEndIsWhole /\ NothingIsLeft

(* A started reception ends, at the latest with its duration and three more   *)
(* seconds, whatever the child, the SDK and the pipe do.                      *)
ReceptionEnds == parent # "READY" ~> parent = "DONE"

(* Before, during and after the loop: a reception is stopped, complete or     *)
(* broken as ReceptionContract has it.  A clean verdict in particular is only *)
(* reached by way of a stop, the child's own RELEASING included; nothing that *)
(* merely ends, a pipe, a process or an owner, ends it cleanly.               *)
Phase ==
  CASE parent = "READY"   -> "BEFORE"
    [] parent = "CLOSING" -> IF verdict = "NONE" THEN "COMPLETE" ELSE "BROKEN"
    [] parent = "DONE"    -> "OVER"
    [] OTHER              -> IF stopping THEN "STOPPING" ELSE "RECEIVING"
Said == IF parent # "DONE" THEN "NONE" ELSE IF verdict = "NONE" THEN "CLEAN" ELSE "FAILED"

contract == INSTANCE ReceptionContract WITH
  Receptions <- {"this"},
  reception  <- [r \in {"this"} |-> [phase |-> Phase, recorded |-> stored, verdict |-> Said]]
Contract == contract!Spec

(* The loop of stream_account has a next step in every state, whatever has    *)
(* become of the child: no message, call or answer is waited for without a    *)
(* limit; and the two clocks run on until the reception is over.              *)
NothingBlocks ==
  /\ parent # "DONE" => ENABLED <<ParentStep>>_vars
  /\ parent \notin {"READY", "DONE"} /\ ~expired => ENABLED <<Expire>>_vars
  /\ stopping /\ parent # "DONE" /\ ~overdue => ENABLED <<Overrun>>_vars
=============================================================================

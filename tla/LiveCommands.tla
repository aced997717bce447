---------------------------- MODULE LiveCommands ----------------------------
(***************************************************************************)
(* Commands sent to a Live kernel over HTTP, from the caller's inquiry to  *)
(* the durable receipt.  A caller (LiveClient.mutate) first inquires about *)
(* the identity, then posts it once with the runtime it observed and a     *)
(* deadline.  The kernel (Commands.execute) admits an identity once, runs  *)
(* its effect and settles the receipt.  Requests and replies are delayed   *)
(* or lost, callers reuse an identity, storage fails, the kernel dies and  *)
(* returns under a new runtime identity.                                   *)
(***************************************************************************)
EXTENDS Integers

CONSTANTS
  Ids,          \* command identities
  Inputs,       \* path and body of a command
  None,         \* no identity, no input
  Calls,        \* invocations of mutate, each made at most once
  Skews,        \* how far a caller's clock may be from the kernel's
  Life,         \* what a caller adds to its clock (30 seconds)
  Window,       \* the furthest deadline the kernel accepts (60 seconds)
  MaxClock,     \* bound: the kernel's clock stops here
  MaxRuntimes,  \* bound: kernel processes started; the last one does not die
  StorageFails  \* whether a transaction of the kernel may fail

ASSUME NoneAssumption == None \notin Ids /\ None \notin Inputs
ASSUME ClockAssumption ==
  Life \in Nat /\ Window \in Nat /\ MaxClock \in Nat /\ Skews \subseteq Int
ASSUME BoundAssumption == MaxRuntimes \in Nat \ {0} /\ StorageFails \in BOOLEAN

VARIABLES
  runtime,  \* identity of the newest kernel process; later ones are larger
  up,       \* whether that process is running
  clock,    \* the kernel's clock
  status,   \* live_commands: the saved status of each identity
  row,      \* live_commands: runtime, deadline and input it was admitted with
  at,       \* how far each caller is
  asked,    \* the identity and input a caller names, the runtime of its page
  header,   \* the runtime and deadline it posted
  told,     \* the outcome it was given
  stage,    \* how far the kernel is with the request of each call
  reply,    \* the status it settles or answers
  begun,    \* calls whose effect was entered
  applied   \* calls whose effect was committed

kernel == <<runtime, up>>
table  == <<status, row>>
caller == <<at, asked, header, told>>
work   == <<stage, reply>>
ghosts == <<begun, applied>>
vars   == <<kernel, clock, table, caller, work, ghosts>>

Saved  == {"RUNNING", "COMPLETED", "REJECTED", "UNKNOWN"}
Told   == {"nothing", "ok", "rejected", "denied", "unknown", "unavailable"}
Stages == {"none", "sent", "again", "checked", "admitted", "running", "applied",
           "settling", "answered", "dead"}
NoRow    == [runtime |-> 0, expires |-> 0, input |-> None]
NoAsk    == [id |-> None, input |-> None, page |-> 0]
NoHeader == [runtime |-> 0, expires |-> 0]

\* Faulty variant: a receipt reads as it was saved, whoever saved it.
SavedStatus(c) == status[c]

\* Commands.get: an unfinished receipt of an earlier process reads UNKNOWN.
Shown(c) ==
  IF status[c] = "RUNNING" /\ row[c].runtime # runtime THEN "UNKNOWN" ELSE status[c]

\* LiveClient._result and _request: only a finished receipt is an answer.
Result(s) ==
  IF s = "COMPLETED" THEN "ok"
  ELSE IF s = "REJECTED" THEN "rejected"
  ELSE IF s = "CONFLICT" THEN "denied"
  ELSE "unknown"

Init ==
  /\ runtime = 1 /\ up = TRUE /\ clock = 0
  /\ status = [c \in Ids |-> "ABSENT"] /\ row = [c \in Ids |-> NoRow]
  /\ at = [k \in Calls |-> "idle"] /\ told = [k \in Calls |-> "nothing"]
  /\ asked = [k \in Calls |-> NoAsk] /\ header = [k \in Calls |-> NoHeader]
  /\ stage = [k \in Calls |-> "none"] /\ reply = [k \in Calls |-> "NONE"]
  /\ begun = {} /\ applied = {}

-----------------------------------------------------------------------------
(* The caller: LiveClient.mutate. *)

Tell(k, outcome) ==
  at' = [at EXCEPT ![k] = "told"] /\ told' = [told EXCEPT ![k] = outcome]

\* mutate begins by reading the durable receipt; page is the runtime a page was
\* opened under, or 0 when the caller accepts any.
Inquire(k, c, i, page) ==
  /\ at[k] = "idle" /\ up
  /\ asked' = [asked EXCEPT ![k] = [id |-> c, input |-> i, page |-> page]]
  /\ \/ status[c] = "ABSENT" /\ at' = [at EXCEPT ![k] = "missing"] /\ UNCHANGED told
     \/ status[c] # "ABSENT" /\ row[c].input # i /\ Tell(k, "denied")
     \/ status[c] # "ABSENT" /\ row[c].input = i /\ Tell(k, Result(Shown(c)))
  /\ UNCHANGED <<kernel, clock, table, header, work, ghosts>>

\* The owner is not the page's, or cannot be observed; no request is sent.
Unavailable(k) ==
  /\ at[k] = "missing"
  /\ Tell(k, "unavailable")
  /\ UNCHANGED <<kernel, clock, table, asked, header, work, ghosts>>

\* Observe the owner, then post the one request this call ever makes.
Send(k, skew) ==
  /\ at[k] = "missing" /\ up
  /\ asked[k].page \in {0, runtime}
  /\ at' = [at EXCEPT ![k] = "waiting"]
  /\ header' = [header EXCEPT ![k] =
                  [runtime |-> runtime, expires |-> clock + skew + Life]]
  /\ stage' = [stage EXCEPT ![k] = "sent"]
  /\ UNCHANGED <<kernel, clock, table, asked, told, reply, ghosts>>

Hear(k) ==
  /\ at[k] = "waiting" /\ stage[k] = "answered"
  /\ Tell(k, Result(reply[k]))
  /\ UNCHANGED <<kernel, clock, table, asked, header, work, ghosts>>

\* A timeout or a lost reply; the request may still be on its way or at work.
Lose(k) ==
  /\ at[k] = "waiting"
  /\ Tell(k, "unknown")
  /\ UNCHANGED <<kernel, clock, table, asked, header, work, ghosts>>

-----------------------------------------------------------------------------
(* The kernel: Commands.execute, one request per thread. *)

At(k, place) == up /\ stage[k] \in place
Go(k, place) == stage' = [stage EXCEPT ![k] = place] /\ UNCHANGED reply
Leave(k, place, value) ==
  stage' = [stage EXCEPT ![k] = place] /\ reply' = [reply EXCEPT ![k] = value]
Answer(k, value) == Leave(k, "answered", value)
Settle(k, value) == Leave(k, "settling", value)

Id(k) == asked[k].id
Recorded(k) == status[Id(k)] # "ABSENT"
Asked(k) == [runtime |-> header[k].runtime, expires |-> header[k].expires,
             input |-> asked[k].input]
DeadlineIsNear(k) == header[k].expires > clock /\ header[k].expires <= clock + Window

\* Faulty variant: a restarted kernel serves requests made out to its predecessor.
LookupForAnyRuntime(k) ==
  /\ At(k, {"sent", "again"})
  /\ \/ Recorded(k) /\ Answer(k, IF row[Id(k)] = Asked(k) THEN Shown(Id(k)) ELSE "CONFLICT")
     \/ ~Recorded(k) /\ ~DeadlineIsNear(k) /\ Answer(k, "CONFLICT")
     \/ ~Recorded(k) /\ DeadlineIsNear(k) /\ Go(k, "checked")
  /\ UNCHANGED <<kernel, clock, table, caller, ghosts>>

Lookup(k) ==
  /\ At(k, {"sent", "again"})
  /\ LET admissible == header[k].runtime = runtime /\ DeadlineIsNear(k) IN
     \/ Recorded(k) /\ Answer(k, IF row[Id(k)] = Asked(k) THEN Shown(Id(k)) ELSE "CONFLICT")
     \/ ~Recorded(k) /\ ~admissible /\ Answer(k, "CONFLICT")
     \/ ~Recorded(k) /\ admissible /\ Go(k, "checked")
  /\ UNCHANGED <<kernel, clock, table, caller, ghosts>>

Insert(k) ==
  /\ status' = [status EXCEPT ![Id(k)] = "RUNNING"]
  /\ row' = [row EXCEPT ![Id(k)] = Asked(k)]
  /\ Go(k, "admitted")

\* Faulty variant: the insert replaces a row another request wrote since the lookup.
AdmitByUpsert(k) ==
  /\ At(k, {"checked"})
  /\ Insert(k)
  /\ UNCHANGED <<kernel, clock, caller, ghosts>>

\* Faulty variant: a request that loses the insert waits for the row to go away.
AdmitOrWait(k) ==
  /\ At(k, {"checked"}) /\ ~Recorded(k)
  /\ Insert(k)
  /\ UNCHANGED <<kernel, clock, caller, ghosts>>

\* INSERT ... ON CONFLICT DO NOTHING; a request that loses compares again.
Admit(k) ==
  /\ At(k, {"checked"})
  /\ \/ Recorded(k) /\ Go(k, "again") /\ UNCHANGED table
     \/ ~Recorded(k) /\ Insert(k)
  /\ UNCHANGED <<kernel, clock, caller, ghosts>>

\* The last look at the deadline; past it the effect is never entered.
Enter(k) ==
  /\ At(k, {"admitted"})
  /\ \/ clock >= header[k].expires /\ Settle(k, "REJECTED") /\ UNCHANGED begun
     \/ clock < header[k].expires /\ Go(k, "running") /\ begun' = begun \union {k}
  /\ UNCHANGED <<kernel, clock, table, caller, applied>>

\* The domain operation commits its own transactions while the receipt is RUNNING.
Apply(k) ==
  /\ At(k, {"running"})
  /\ applied' = applied \union {k}
  /\ Go(k, "applied")
  /\ UNCHANGED <<kernel, clock, table, caller, begun>>

Return(k) ==
  /\ At(k, {"applied"})
  /\ Settle(k, "COMPLETED")
  /\ UNCHANGED <<kernel, clock, table, caller, ghosts>>

\* Faulty variant: an effect that raises is taken for one that never ran.
RaiseRejects(k) ==
  /\ At(k, {"running", "applied"})
  /\ Settle(k, "REJECTED")
  /\ UNCHANGED <<kernel, clock, table, caller, ghosts>>

\* Any exception, before or after the domain operation committed.
Raise(k) ==
  /\ At(k, {"running", "applied"})
  /\ Settle(k, "UNKNOWN")
  /\ UNCHANGED <<kernel, clock, table, caller, ghosts>>

Finish(k) ==
  /\ At(k, {"settling"})
  /\ status' = [status EXCEPT ![Id(k)] = reply[k]]
  /\ Answer(k, reply[k])
  /\ UNCHANGED <<kernel, clock, row, caller, ghosts>>

\* A transaction of execute fails and the caller gets status 503; when it is the
\* last one the receipt stays RUNNING under a kernel that is done with it.
StorageError(k) ==
  /\ StorageFails
  /\ At(k, {"sent", "again", "checked", "settling"})
  /\ Answer(k, "UNAVAILABLE")
  /\ UNCHANGED <<kernel, clock, table, caller, ghosts>>

-----------------------------------------------------------------------------
Tick ==
  /\ clock < MaxClock
  /\ clock' = clock + 1
  /\ UNCHANGED <<kernel, table, caller, work, ghosts>>

\* The process dies with every request it had read; no reply follows.
Crash ==
  /\ up /\ runtime < MaxRuntimes
  /\ up' = FALSE
  /\ stage' = [k \in Calls |->
       IF stage[k] \in {"none", "sent", "answered"} THEN stage[k] ELSE "dead"]
  /\ UNCHANGED <<runtime, clock, table, caller, reply, ghosts>>

\* A new owner with a new identity on the same database; KernelLock admits one.
Restart ==
  /\ ~up
  /\ up' = TRUE /\ runtime' = runtime + 1
  /\ UNCHANGED <<clock, table, caller, work, ghosts>>

Caller(k) ==
  \/ \E c \in Ids, i \in Inputs, page \in 0..runtime : Inquire(k, c, i, page)
  \/ Unavailable(k)
  \/ \E skew \in Skews : Send(k, skew)
  \/ Hear(k) \/ Lose(k)

Execute(k) ==
  Lookup(k) \/ Admit(k) \/ Enter(k) \/ Apply(k) \/ Return(k) \/ Raise(k) \/ Finish(k)

Next ==
  \/ \E k \in Calls : Caller(k) \/ Execute(k) \/ StorageError(k)
  \/ Tick \/ Crash \/ Restart

Spec == Init /\ [][Next]_vars

\* A request thread runs on, and Compose restarts a kernel that died.
RunsOn(k) == WF_vars(Execute(k))

FairSpec ==
  /\ Spec
  /\ \A k \in Calls : RunsOn(k)
  /\ WF_vars(Restart)

-----------------------------------------------------------------------------
(* Properties *)

\* Each variable has its type.
TypeOK ==
  /\ runtime \in 1..MaxRuntimes /\ up \in BOOLEAN /\ clock \in 0..MaxClock
  /\ status \in [Ids -> Saved \union {"ABSENT"}]
  /\ row \in [Ids -> [runtime : 0..MaxRuntimes, expires : Int, input : Inputs \union {None}]]
  /\ at \in [Calls -> {"idle", "missing", "waiting", "told"}]
  /\ asked \in [Calls -> [id : Ids \union {None}, input : Inputs \union {None},
                          page : 0..MaxRuntimes]]
  /\ \A k \in Calls : at[k] # "idle" => asked[k].id \in Ids /\ asked[k].input \in Inputs
  /\ header \in [Calls -> [runtime : 0..MaxRuntimes, expires : Int]]
  /\ told \in [Calls -> Told]
  /\ stage \in [Calls -> Stages]
  /\ reply \in [Calls -> Saved \union {"NONE", "CONFLICT", "UNAVAILABLE"}]
  /\ begun \subseteq Calls /\ applied \subseteq begun

\* An indeterminate attempt is never executed twice (live/commands.py:1): over
\* retries, concurrent requests, lost replies and restarts, the effect of one
\* identity is entered at most once.
AtMostOnce ==
  \A j, k \in begun : Id(j) = Id(k) => j = k

\* What a settled receipt says about the effect is true: COMPLETED only after its
\* commit, REJECTED only when it was never entered (live/commands.py:126-135).
ReceiptsAreTrue ==
  \A k \in begun :
    /\ status[Id(k)] = "COMPLETED" => k \in applied
    /\ status[Id(k)] # "REJECTED"

Outcome(k, outcome) == at[k] = "told" /\ told[k] = outcome

\* A caller told its command is done asked for exactly the input that was applied,
\* although the answer may come from somebody else's receipt.
SuccessIsReal ==
  \A k \in Calls : Outcome(k, "ok") =>
    \E j \in applied : Id(j) = Id(k) /\ asked[j].input = asked[k].input

\* A caller told its command expired may give the identity up: its effect has not
\* been entered and, being an invariant, never will be.
RejectionIsFinal ==
  \A k \in Calls : Outcome(k, "rejected") => \A j \in begun : Id(j) # Id(k)

\* What receipts and callers are told of an effect is true, whichever of the lost
\* replies, deaths and exceptions they were told it after.
AnswersAreTrue == TypeOK /\ ReceiptsAreTrue /\ SuccessIsReal /\ RejectionIsFinal

\* Once a receipt reads as settled it never reads differently, under this kernel
\* or the next ones.
SettledStays ==
  [][\A c \in Ids : Shown(c) \notin {"ABSENT", "RUNNING"} => Shown(c)' = Shown(c)]_vars

\* A restart never retargets a command (live/client.py:205-207): an effect is entered
\* only under the runtime its caller observed, and that its page was opened under.
NeverRetargeted ==
  [][\A k \in begun' \ begun :
       header[k].runtime = runtime /\ asked[k].page \in {0, runtime}]_vars

\* A transaction of the request whose row is saved failed, and its caller was told so.
Failed(c) ==
  \E k \in Calls : Id(k) = c /\ Asked(k) = row[c] /\ stage[k] = "answered"
                   /\ reply[k] = "UNAVAILABLE"

\* A receipt does not read RUNNING for ever: the request settles it, or the kernel
\* dies and its successor reads it as UNKNOWN, or storage failed under the request.
ReceiptsSettle ==
  \A c \in Ids : Shown(c) = "RUNNING" ~> Shown(c) # "RUNNING" \/ Failed(c)

\* No request waits for another or for a caller: the kernel can take the next step of
\* each one it has read, and a dead kernel can be replaced.
NothingWaits ==
  /\ \A k \in Calls :
       up /\ stage[k] \in {"sent", "again", "checked", "admitted", "running", "applied", "settling"} =>
       ENABLED <<Execute(k)>>_vars
  /\ ~up => ENABLED <<Restart>>_vars

\* The receipts and effects behave as CommandContract promises.
contract == INSTANCE CommandContract WITH
  state   <- [c \in Ids |-> Shown(c)],
  entered <- {Id(k) : k \in begun},
  done    <- {Id(k) : k \in applied}
Contract == contract!Spec
=============================================================================

---------------------------- MODULE BrowserCommands ----------------------------
(* The commands of one browser tab: shared/api.ts with the forms that call it,
   the proxy in between and as much of a backend as the tab can tell.

   mutate() looks for an unconfirmed command, waits for the browser session,
   looks again, stores the command in the tab's session storage and sends it
   once.  The stored command is the tab's lock: it goes when the backend
   answers or when the operator has checked the records, and it survives a
   reload, which loses everything else in the page.  Requests travel on after
   the page gave up on them.  A backend forgets its sessions (restart, thirty
   minutes); what it promises of an identity is LiveCommands' contract: one
   effect, and a refusal only when the request had none. *)
EXTENDS Integers, BrowserTab

CONSTANTS
    Clicks,       \* submissions of a form, each a call of mutate()
    First,        \* the instance the catalog lists first
    MaxEpoch,     \* bound: times the backend forgets its sessions
    MaxReloads,   \* bound: reloads of the page
    MaxEditions   \* bound: contents of the form

ASSUME NoneAssumption == None \notin Clicks
ASSUME FirstAssumption == First \in Instances
ASSUME BoundsAssumption == MaxEpoch \in Nat /\ MaxReloads \in Nat /\ MaxEditions \in Nat

VARIABLES
    application,  \* "live", "research" or "data_hub": which front end the tab shows
    \* the page
    reloads,      \* loads of the page so far, less one
    restored,     \* the page looked at the stored command since it was loaded
    session,      \* the cached promise: "none", "asked", "open"
    token,        \* the session's epoch at the backend, once it is open
    instance,     \* the selected Live instance
    leaving,      \* the page is about to be loaded again
    identity,     \* the identity the form keeps for its contents
    edition,      \* contents of the form so far
    at,           \* how far each call of mutate() is
    told,         \* what the page said of it
    ident,        \* the command identity it carries
    contents,     \* the edition it was made from
    target,       \* the instance it captured
    \* session storage
    lock,         \* the click whose command is stored
    status,       \* "SENDING" or "UNKNOWN"
    saved,        \* the instance the operator chose
    \* the network and the backend
    wire,         \* the request of each click
    carried,      \* the epoch of the token it carries
    answer,       \* what the backend answered
    epoch,        \* sessions opened before the latest reset are unknown
    effects,      \* clicks whose request had the effect
    \* the operator
    checked       \* clicks whose records the operator checked

page    == <<reloads, restored, session, token, instance, leaving>>
form    == <<identity, edition>>
calls   == <<at, told, ident, contents, target>>
stored  == <<lock, status, saved>>
network == <<wire, carried, answer>>
backend == <<epoch, effects>>
vars    == <<application, page, form, calls, stored, network, backend, checked>>

Places  == {"idle", "waiting", "sent", "over", "gone"}
Tidings == {"nothing", "not_sent", "confirmed", "refused", "unknown"}
Answers == {"none", "ok", "unknown", "refused", "denied"}
Wires   == {"none", "travelling", "arrived", "lost"}

TypeOK ==
    /\ application \in {"live", "research", "data_hub"}
    /\ reloads \in 0..MaxReloads /\ restored \in BOOLEAN /\ leaving \in BOOLEAN
    /\ session \in {"none", "asked", "open"} /\ token \in 0..MaxEpoch
    /\ instance \in Instances \cup {None} /\ saved \in Instances \cup {None}
    /\ identity \in Clicks \cup {None} /\ edition \in 0..MaxEditions
    /\ at \in [Clicks -> Places] /\ told \in [Clicks -> Tidings]
    /\ ident \in [Clicks -> Clicks] /\ contents \in [Clicks -> 0..MaxEditions]
    /\ target \in [Clicks -> Instances \cup {None}]
    /\ lock \in Clicks \cup {None} /\ status \in {"SENDING", "UNKNOWN"}
    /\ wire \in [Clicks -> Wires] /\ carried \in [Clicks -> 0..MaxEpoch]
    /\ answer \in [Clicks -> Answers]
    /\ epoch \in 0..MaxEpoch
    /\ effects \subseteq Clicks /\ checked \subseteq Clicks

Init ==
    /\ application \in {"live", "research", "data_hub"}
    /\ reloads = 0 /\ restored = FALSE /\ session = "none" /\ token = 0
    /\ instance = None /\ leaving = FALSE
    /\ identity = None /\ edition = 0
    /\ at = [c \in Clicks |-> "idle"] /\ told = [c \in Clicks |-> "nothing"]
    /\ ident = [c \in Clicks |-> c] /\ contents = [c \in Clicks |-> 0]
    /\ target = [c \in Clicks |-> None]
    /\ lock = None /\ status = "UNKNOWN" /\ saved = None
    /\ wire = [c \in Clicks |-> "none"] /\ carried = [c \in Clicks |-> 0]
    /\ answer = [c \in Clicks |-> "none"]
    /\ epoch = 0 /\ effects = {} /\ checked = {}
-----------------------------------------------------------------------------
(* The page is loaded: the notice of the pending command looks at the storage.
   A command that was being sent when the page was lost has no one waiting. *)
Mount ==
    /\ ~restored
    /\ restored' = TRUE
    /\ status' = "UNKNOWN"
    /\ UNCHANGED <<application, reloads, session, token, instance, leaving, form, calls,
                   lock, saved, network, backend, checked>>

(* The catalog of instances is there: the instance of the stored command, else
   the chosen one, else the first. *)
Initial ==
    IF lock # None /\ target[lock] # None THEN target[lock]
    ELSE IF saved # None THEN saved ELSE First

ChooseInstance ==
    /\ application = "live" /\ restored /\ instance = None
    /\ instance' = Initial
    /\ UNCHANGED <<application, reloads, restored, session, token, leaving, form, calls,
                   stored, network, backend, checked>>

(* selectLiveInstance refuses to leave the instance of the stored command; the
   page is loaded anew for the other one. *)
SwitchInstance(i) ==
    /\ application = "live" /\ instance # None /\ i # instance
    /\ reloads < MaxReloads
    /\ lock # None => target[lock] = i
    /\ instance' = i /\ saved' = i /\ leaving' = TRUE
    /\ UNCHANGED <<application, reloads, restored, session, token, form, calls,
                   lock, status, network, backend, checked>>

(* The experiment's form begins anew, with contents of its own. *)
NewForm ==
    IF application = "research"
    THEN edition < MaxEditions /\ edition' = edition + 1 /\ identity' = None
    ELSE UNCHANGED form

(* The page is loaded again: a switch, the operator, a crash of the tab.  Its
   memory and its calls are gone, the storage and the requests are not. *)
Reload ==
    /\ restored /\ reloads < MaxReloads
    /\ NewForm
    /\ reloads' = reloads + 1 /\ restored' = FALSE
    /\ session' = "none" /\ instance' = None /\ leaving' = FALSE
    /\ at' = [c \in Clicks |-> IF at[c] \in {"waiting", "sent"} THEN "gone" ELSE at[c]]
    /\ answer' = [c \in Clicks |-> "none"] /\ token' = 0
    /\ UNCHANGED <<application, told, ident, contents, target, stored, wire, carried,
                   backend, checked>>

(* The operator changes the form: the identity of the old contents is dropped. *)
Edit ==
    /\ application = "research" /\ restored
    /\ NewForm
    /\ UNCHANGED <<application, page, calls, stored, network, backend, checked>>
-----------------------------------------------------------------------------
(* Faulty variant: every submission is a new one. *)
IdentityOfClick(c) == c

(* The forms.  A Live command has an identity of its own for every click; the
   experiment's form keeps one for its contents. *)
Identity(c) == IF application = "research" /\ identity # None THEN identity ELSE c

(* mutate(), up to its wait for the session. *)
Submit(c) ==
    /\ restored /\ at[c] = "idle"
    /\ application = "live" => instance # None /\ lock = None
    /\ ident' = [ident EXCEPT ![c] = Identity(c)]
    /\ contents' = [contents EXCEPT ![c] = edition]
    /\ identity' = IF application = "research" THEN Identity(c) ELSE None
    /\ IF lock # None
       THEN /\ at' = [at EXCEPT ![c] = "over"]
            /\ told' = [told EXCEPT ![c] = "not_sent"]
            /\ UNCHANGED <<target, session>>
       ELSE /\ at' = [at EXCEPT ![c] = "waiting"]
            /\ target' = [target EXCEPT ![c] = instance]
            /\ session' = IF session = "none" THEN "asked" ELSE session
            /\ UNCHANGED told
    /\ UNCHANGED <<application, reloads, restored, token, instance, leaving, edition,
                   stored, network, backend, checked>>

OpenSession ==
    /\ session = "asked"
    /\ session' = "open" /\ token' = epoch
    /\ UNCHANGED <<application, reloads, restored, instance, leaving, form, calls, stored,
                   network, backend, checked>>

(* Every call that waits for the session fails with it. *)
SessionFails ==
    /\ session = "asked"
    /\ session' = "none"
    /\ at' = [c \in Clicks |-> IF at[c] = "waiting" THEN "over" ELSE at[c]]
    /\ told' = [c \in Clicks |-> IF at[c] = "waiting" THEN "not_sent" ELSE told[c]]
    /\ UNCHANGED <<application, reloads, restored, token, instance, leaving, form,
                   ident, contents, target, stored, network, backend, checked>>

(* Faulty variant: it does not look again. *)
FreeAsBefore == TRUE

(* mutate() goes on: another call may have stored its command in between. *)
StillFree == lock = None

Send(c) ==
    /\ at[c] = "waiting" /\ session = "open" /\ StillFree
    /\ at' = [at EXCEPT ![c] = "sent"]
    /\ lock' = c /\ status' = "SENDING"
    /\ wire' = [wire EXCEPT ![c] = "travelling"]
    /\ carried' = [carried EXCEPT ![c] = token]
    /\ UNCHANGED <<application, page, form, told, ident, contents, target, saved, answer,
                   backend, checked>>

(* The lock is taken, the body cannot be encoded or the storage is full. *)
NotSent(c) ==
    /\ at[c] = "waiting" /\ session = "open"
    /\ at' = [at EXCEPT ![c] = "over"]
    /\ told' = [told EXCEPT ![c] = "not_sent"]
    /\ UNCHANGED <<application, page, form, ident, contents, target, stored, network,
                   backend, checked>>
-----------------------------------------------------------------------------
(* The proxy cannot reach the backend, or the network loses the request. *)
Lose(c) ==
    /\ wire[c] = "travelling"
    /\ wire' = [wire EXCEPT ![c] = "lost"]
    /\ carried' = [carried EXCEPT ![c] = 0]
    /\ UNCHANGED <<application, page, form, calls, stored, answer, backend, checked>>

(* An answer that no call waits for reaches no one. *)
Reply(c, result) ==
    /\ wire[c] = "travelling"
    /\ wire' = [wire EXCEPT ![c] = "arrived"]
    /\ carried' = [carried EXCEPT ![c] = 0]
    /\ answer' = [answer EXCEPT ![c] = IF at[c] = "sent" THEN result ELSE "none"]
    /\ UNCHANGED <<application, page, form, calls, stored, epoch, checked>>

Known(c) == carried[c] = epoch
Executed(id) == \E d \in effects : ident[d] = id

(* The effect takes place unless the identity had it already; the backend says
   so, or fails before it can. *)
Execute(c, result) ==
    /\ Known(c) /\ result \in {"ok", "unknown"}
    /\ effects' = IF Executed(ident[c]) THEN effects ELSE effects \cup {c}
    /\ Reply(c, result)

(* The input is refused, or the backend fails: no effect. *)
Refuse(c, result) ==
    /\ Known(c) /\ result \in {"refused", "unknown"}
    /\ Reply(c, result)
    /\ UNCHANGED effects

(* The session is not one the backend knows. *)
Deny(c) ==
    /\ ~Known(c)
    /\ Reply(c, "denied")
    /\ UNCHANGED effects

ForgetSessions ==
    /\ epoch < MaxEpoch
    /\ epoch' = epoch + 1
    /\ UNCHANGED <<application, page, form, calls, stored, network, effects, checked>>
-----------------------------------------------------------------------------
(* The answer reaches the page that waits for it. *)
Settle(c, tidings) ==
    /\ at' = [at EXCEPT ![c] = "over"]
    /\ told' = [told EXCEPT ![c] = tidings]
    /\ answer' = [answer EXCEPT ![c] = "none"]
    /\ UNCHANGED <<application, reloads, restored, token, instance, leaving, ident, contents,
                   target, saved, wire, carried, backend, checked>>

(* The form of a confirmed experiment is left for the task's page. *)
Confirm(c) ==
    /\ at[c] = "sent" /\ answer[c] = "ok"
    /\ Settle(c, "confirmed")
    /\ lock' = None
    /\ NewForm
    /\ UNCHANGED <<status, session>>

(* Faulty variant: an answer that says nothing is taken for a refusal. *)
RefusesOrFails(c) == answer[c] \in {"refused", "denied", "unknown"}

Refuses(c) == answer[c] \in {"refused", "denied"}

BeRefused(c) ==
    /\ at[c] = "sent" /\ Refuses(c)
    /\ Settle(c, "refused")
    /\ lock' = None
    /\ session' = IF answer[c] = "denied" THEN "none" ELSE session
    /\ UNCHANGED <<status, form>>

(* The backend does not know either, the answer cannot be read or comes from
   the proxy, thirty seconds are over: the command stays stored. *)
GiveUp(c) ==
    /\ at[c] = "sent"
    /\ Settle(c, "unknown")
    /\ lock' = c /\ status' = "UNKNOWN"
    /\ UNCHANGED <<session, form>>

(* The operator has looked at the records of the command. *)
Acknowledge ==
    /\ restored /\ lock # None /\ status = "UNKNOWN"
    /\ checked' = checked \cup {lock}
    /\ lock' = None
    /\ UNCHANGED <<application, page, form, calls, status, saved, network, backend>>
-----------------------------------------------------------------------------
Page ==
    \/ Mount \/ ChooseInstance \/ OpenSession \/ SessionFails
    \/ \E c \in Clicks : Send(c) \/ NotSent(c) \/ Confirm(c) \/ BeRefused(c) \/ GiveUp(c)

Operator ==
    \/ Reload \/ Edit \/ Acknowledge
    \/ \E i \in Instances : SwitchInstance(i)
    \/ \E c \in Clicks : Submit(c)

Network ==
    \/ ForgetSessions
    \/ \E c \in Clicks :
         \/ Lose(c) \/ Deny(c)
         \/ \E result \in Answers : Execute(c, result) \/ Refuse(c, result)

Next == Page \/ Operator \/ Network

Spec == Init /\ [][Next]_vars
-----------------------------------------------------------------------------
(* A command that was sent and of which the page knows no outcome is the stored
   one until the operator has checked its records: over reloads, lost answers,
   calls that waited together and answers that say nothing, no command is
   forgotten and no other is sent meanwhile. *)
UnknownIsLocked ==
    \A c \in Clicks :
        wire[c] # "none" /\ told[c] \notin {"confirmed", "refused"} /\ c \notin checked => lock = c

(* Confirmed means that the command had its effect; refused that this request
   had none and is not under way; not sent, that it never was. *)
ToldIsTrue ==
    \A c \in Clicks :
        /\ told[c] = "confirmed" => Executed(ident[c])
        /\ told[c] = "refused" => c \notin effects /\ wire[c] = "arrived"
        /\ told[c] = "not_sent" => wire[c] = "none"

(* However often the operator submits the contents of the experiment's form
   again, after lost answers and checked records, there is one effect. *)
OneEffectPerContents ==
    application = "research" =>
        \A c, d \in effects : contents[c] = contents[d] => c = d

(* A stored command never waits for no one: while it counts as being sent, its
   call is there to settle it or the page has still to look at the storage;
   and the page shows the instance it went to, where its records are. *)
LockHasAnOwner ==
    lock # None =>
        /\ status = "SENDING" => at[lock] = "sent" \/ ~restored
        /\ application = "live" /\ instance # None /\ ~leaving => target[lock] = instance

(* The stored command of the tab is the one nobody may forget, and one that
   somebody can settle. *)
LockIsTrue == UnknownIsLocked /\ LockHasAnOwner
=============================================================================

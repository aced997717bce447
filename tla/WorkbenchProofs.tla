---------------------------- MODULE WorkbenchProofs ----------------------------
(* Proofs about the browser's tab for every set of clicks, instances, kernels
   and filters, any number of reloads, forgotten sessions, pages and chunks and
   any bound.  First its commands alone, as in BrowserCommands: IInv is the
   conjunction of the parts below, each preserved by every step.  Then the
   composed tab: it has these commands and inherits their theorems, and its
   pages are true, of one view and never replaced by what is older. *)
EXTENDS Workbench, TLAPS

-----------------------------------------------------------------------------
(* The commands. *)

(* What the stages of a call say about its request, the lock and the page. *)
Staged(c) ==
    /\ at[c] \in {"idle", "waiting"} => wire[c] = "none" /\ told[c] = "nothing"
    /\ at[c] \in {"waiting", "sent"} => restored
    /\ at[c] = "sent" =>
         lock = c /\ status = "SENDING" /\ told[c] = "nothing" /\ wire[c] # "none"
    /\ at[c] # "sent" => answer[c] = "none"

Stages ==
    /\ \A c \in Clicks : Staged(c)
    /\ lock # None => wire[lock] # "none"

(* What an answer proves, and that a request acts at most when it arrives. *)
Answered(c) ==
    /\ answer[c] # "none" => wire[c] = "arrived"
    /\ answer[c] = "ok" => Executed(ident[c])
    /\ answer[c] \in {"refused", "denied"} => c \notin effects
    /\ c \in effects => wire[c] = "arrived"

Truths == \A c \in Clicks : Answered(c)

(* The instance a call captured is still the one on the page. *)
Captured ==
    application = "live" =>
        /\ \A c \in Clicks :
             at[c] = "waiting" =>
                 /\ instance # None /\ target[c] # None
                 /\ ~leaving => target[c] = instance
        /\ lock # None => target[lock] # None

(* One identity for the same contents of the experiment's form. *)
Identified ==
    application = "research" =>
        /\ \A c \in Clicks : at[c] # "idle" =>
             /\ contents[c] <= edition
             /\ contents[c] = edition => identity # None /\ ident[c] = identity
        /\ \A c, d \in Clicks :
             at[c] # "idle" /\ at[d] # "idle" /\ contents[c] = contents[d] => ident[c] = ident[d]

(* An identity has its effect once. *)
OncePerIdentity == \A c, d \in effects : ident[c] = ident[d] => c = d

IInv ==
    /\ TypeOK /\ Stages /\ UnknownIsLocked /\ LockHasAnOwner /\ Truths /\ ToldIsTrue
    /\ Captured /\ Identified /\ OncePerIdentity

-----------------------------------------------------------------------------
(* The steps one by one: what a lemma splits a step into. *)
LEMMA Steps ==
    ASSUME Next
    PROVE  \/ Mount \/ ChooseInstance \/ OpenSession \/ SessionFails
           \/ Reload \/ Edit \/ Acknowledge \/ ForgetSessions
           \/ \E i \in Instances : SwitchInstance(i)
           \/ \E c \in Clicks :
                \/ Submit(c) \/ Send(c) \/ NotSent(c) \/ Confirm(c) \/ BeRefused(c) \/ GiveUp(c)
                \/ Lose(c) \/ Deny(c) \/ \E r \in Answers : Execute(c, r) \/ Refuse(c, r)
    BY DEF Next, Page, Operator, Network

(* A new form has contents that no form had before. *)
LEMMA NewForms ==
    ASSUME TypeOK, NewForm
    PROVE  /\ edition' \in 0..MaxEditions /\ identity' \in Clicks \cup {None}
           /\ application = "research" => edition' = edition + 1
    BY BoundsAssumption DEF BoundsAssumption, TypeOK, NewForm, form

LEMMA InitHolds == Init => IInv
<1> USE NoneAssumption, FirstAssumption, BoundsAssumption, NoInstanceAssumption
    DEF NoneAssumption, FirstAssumption, BoundsAssumption, NoInstanceAssumption
<1> SUFFICES ASSUME Init PROVE IInv
    OBVIOUS
<1>1. TypeOK
  <2>1. /\ at \in [Clicks -> Places] /\ told \in [Clicks -> Tidings]
        /\ wire \in [Clicks -> Wires] /\ answer \in [Clicks -> Answers]
        /\ ident \in [Clicks -> Clicks] /\ target \in [Clicks -> Instances \cup {None}]
      BY DEF Init, Places, Tidings, Answers, Wires
  <2>2. contents \in [Clicks -> 0..MaxEditions] /\ carried \in [Clicks -> 0..MaxEpoch]
      BY DEF Init
  <2>3. /\ application \in {"live", "research", "data_hub"} /\ session = "none"
        /\ restored = FALSE /\ leaving = FALSE /\ status = "UNKNOWN"
        /\ instance = None /\ saved = None /\ identity = None /\ lock = None
        /\ effects = {} /\ checked = {}
      BY DEF Init
  <2>4. reloads = 0 /\ token = 0 /\ edition = 0 /\ epoch = 0
      BY DEF Init
  <2>5. 0 \in 0..MaxEpoch /\ 0 \in 0..MaxReloads /\ 0 \in 0..MaxEditions
      OBVIOUS
  <2> QED
      BY <2>1, <2>2, <2>3, <2>4, <2>5 DEF TypeOK
<1>2. Stages /\ UnknownIsLocked /\ LockHasAnOwner
    BY DEF Init, Stages, Staged, UnknownIsLocked, LockHasAnOwner
<1>3. Truths /\ ToldIsTrue
    BY DEF Init, Truths, Answered, Executed, ToldIsTrue
<1>4. Captured /\ Identified /\ OncePerIdentity
    BY DEF Init, Captured, Identified, OncePerIdentity
<1> QED
    BY <1>1, <1>2, <1>3, <1>4 DEF IInv

(* Every value stays in its set. *)
LEMMA TypeStep == TypeOK /\ [Next]_vars => TypeOK'
<1> USE NoneAssumption, FirstAssumption, BoundsAssumption, NoInstanceAssumption
    DEF NoneAssumption, FirstAssumption, BoundsAssumption, NoInstanceAssumption
<1> USE DEF TypeOK, Places, Tidings, Answers, Wires, page, form, calls, stored, network, backend
<1> SUFFICES ASSUME TypeOK, [Next]_vars PROVE TypeOK'
    OBVIOUS
<1>1. CASE UNCHANGED vars
    BY <1>1 DEF vars
<1>2. CASE Mount
    BY <1>2 DEF Mount
<1>3. CASE ChooseInstance
    BY <1>3 DEF ChooseInstance, Initial
<1>4. CASE OpenSession
    BY <1>4 DEF OpenSession
<1>5. CASE SessionFails
    BY <1>5 DEF SessionFails
<1>6. CASE Reload
  <2>1. /\ at' \in [Clicks -> Places] /\ answer' \in [Clicks -> Answers]
        /\ reloads' \in 0..MaxReloads /\ token' \in 0..MaxEpoch
      BY <1>6 DEF Reload
  <2>2. edition' \in 0..MaxEditions /\ identity' \in Clicks \cup {None}
      BY <1>6, NewForms DEF Reload
  <2> QED
      BY <1>6, <2>1, <2>2 DEF Reload
<1>7. CASE Edit
    BY <1>7, NewForms DEF Edit
<1>8. CASE Acknowledge
    BY <1>8 DEF Acknowledge
<1>9. CASE ForgetSessions
    BY <1>9 DEF ForgetSessions
<1>10. ASSUME NEW i \in Instances, SwitchInstance(i) PROVE TypeOK'
    BY <1>10 DEF SwitchInstance
<1>11. ASSUME NEW c \in Clicks, Submit(c) PROVE TypeOK'
    BY <1>11 DEF Submit, Identity
<1>12. ASSUME NEW c \in Clicks, Send(c) PROVE TypeOK'
    BY <1>12 DEF Send, StillFree
<1>13. ASSUME NEW c \in Clicks, NotSent(c) PROVE TypeOK'
    BY <1>13 DEF NotSent
<1>14. ASSUME NEW c \in Clicks, Confirm(c) PROVE TypeOK'
    BY <1>14, NewForms DEF Confirm, Settle
<1>15. ASSUME NEW c \in Clicks, BeRefused(c) PROVE TypeOK'
    BY <1>15 DEF BeRefused, Settle, Refuses
<1>16. ASSUME NEW c \in Clicks, GiveUp(c) PROVE TypeOK'
    BY <1>16 DEF GiveUp, Settle
<1>17. ASSUME NEW c \in Clicks, Lose(c) PROVE TypeOK'
    BY <1>17 DEF Lose
<1>18. ASSUME NEW c \in Clicks, Deny(c) PROVE TypeOK'
    BY <1>18 DEF Deny, Reply
<1>19. ASSUME NEW c \in Clicks, NEW r \in Answers, Execute(c, r) PROVE TypeOK'
    BY <1>19 DEF Execute, Reply
<1>20. ASSUME NEW c \in Clicks, NEW r \in Answers, Refuse(c, r) PROVE TypeOK'
    BY <1>20 DEF Refuse, Reply
<1> QED
    BY <1>1, <1>2, <1>3, <1>4, <1>5, <1>6, <1>7, <1>8, <1>9, <1>10, <1>11, <1>12, <1>13,
       <1>14, <1>15, <1>16, <1>17, <1>18, <1>19, <1>20, Steps

(* A call that is under way has the lock, and no other call is. *)
LEMMA StagesStep == TypeOK /\ Stages /\ [Next]_vars => Stages'
<1> USE NoneAssumption, FirstAssumption, BoundsAssumption, NoInstanceAssumption
    DEF NoneAssumption, FirstAssumption, BoundsAssumption, NoInstanceAssumption
<1> USE DEF TypeOK, Stages, Staged, page, form, calls, stored, network, backend
<1> SUFFICES ASSUME TypeOK, Stages, [Next]_vars PROVE Stages'
    OBVIOUS
<1>1. CASE UNCHANGED vars
    BY <1>1 DEF vars
<1>2. CASE Mount
    BY <1>2 DEF Mount
<1>3. CASE ChooseInstance
    BY <1>3 DEF ChooseInstance, Initial
<1>4. CASE OpenSession
    BY <1>4 DEF OpenSession
<1>5. CASE SessionFails
    BY <1>5 DEF SessionFails
<1>6. CASE Reload
    BY <1>6 DEF Reload
<1>7. CASE Edit
    BY <1>7 DEF Edit
<1>8. CASE Acknowledge
    BY <1>8 DEF Acknowledge
<1>9. CASE ForgetSessions
    BY <1>9 DEF ForgetSessions
<1>10. ASSUME NEW i \in Instances, SwitchInstance(i) PROVE Stages'
    BY <1>10 DEF SwitchInstance
<1>11. ASSUME NEW c \in Clicks, Submit(c) PROVE Stages'
    BY <1>11 DEF Submit
<1>12. ASSUME NEW c \in Clicks, Send(c) PROVE Stages'
    BY <1>12 DEF Send, StillFree
<1>13. ASSUME NEW c \in Clicks, NotSent(c) PROVE Stages'
    BY <1>13 DEF NotSent
<1>14. ASSUME NEW c \in Clicks, Confirm(c) PROVE Stages'
    BY <1>14 DEF Confirm, Settle
<1>15. ASSUME NEW c \in Clicks, BeRefused(c) PROVE Stages'
    BY <1>15 DEF BeRefused, Settle, Refuses
<1>16. ASSUME NEW c \in Clicks, GiveUp(c) PROVE Stages'
    BY <1>16 DEF GiveUp, Settle
<1>17. ASSUME NEW c \in Clicks, Lose(c) PROVE Stages'
    BY <1>17 DEF Lose
<1>18. ASSUME NEW c \in Clicks, Deny(c) PROVE Stages'
    BY <1>18 DEF Deny, Reply
<1>19. ASSUME NEW c \in Clicks, NEW r \in Answers, Execute(c, r) PROVE Stages'
    BY <1>19 DEF Execute, Reply
<1>20. ASSUME NEW c \in Clicks, NEW r \in Answers, Refuse(c, r) PROVE Stages'
    BY <1>20 DEF Refuse, Reply
<1> QED
    BY <1>1, <1>2, <1>3, <1>4, <1>5, <1>6, <1>7, <1>8, <1>9, <1>10, <1>11, <1>12, <1>13,
       <1>14, <1>15, <1>16, <1>17, <1>18, <1>19, <1>20, Steps

(* The lock is given up only by an answer or by the operator's check. *)
LEMMA LockedStep == TypeOK /\ Stages /\ UnknownIsLocked /\ [Next]_vars => UnknownIsLocked'
<1> USE NoneAssumption, FirstAssumption, BoundsAssumption, NoInstanceAssumption
    DEF NoneAssumption, FirstAssumption, BoundsAssumption, NoInstanceAssumption
<1> USE DEF TypeOK, Stages, Staged, UnknownIsLocked, page, form, calls, stored, network, backend
<1> SUFFICES ASSUME TypeOK, Stages, UnknownIsLocked, [Next]_vars PROVE UnknownIsLocked'
    OBVIOUS
<1>1. CASE UNCHANGED vars
    BY <1>1 DEF vars
<1>2. CASE Mount
    BY <1>2 DEF Mount
<1>3. CASE ChooseInstance
    BY <1>3 DEF ChooseInstance, Initial
<1>4. CASE OpenSession
    BY <1>4 DEF OpenSession
<1>5. CASE SessionFails
    BY <1>5 DEF SessionFails
<1>6. CASE Reload
    BY <1>6 DEF Reload
<1>7. CASE Edit
    BY <1>7 DEF Edit
<1>8. CASE Acknowledge
    BY <1>8 DEF Acknowledge
<1>9. CASE ForgetSessions
    BY <1>9 DEF ForgetSessions
<1>10. ASSUME NEW i \in Instances, SwitchInstance(i) PROVE UnknownIsLocked'
    BY <1>10 DEF SwitchInstance
<1>11. ASSUME NEW c \in Clicks, Submit(c) PROVE UnknownIsLocked'
    BY <1>11 DEF Submit
<1>12. ASSUME NEW c \in Clicks, Send(c) PROVE UnknownIsLocked'
    BY <1>12 DEF Send, StillFree
<1>13. ASSUME NEW c \in Clicks, NotSent(c) PROVE UnknownIsLocked'
    BY <1>13 DEF NotSent
<1>14. ASSUME NEW c \in Clicks, Confirm(c) PROVE UnknownIsLocked'
    BY <1>14 DEF Confirm, Settle
<1>15. ASSUME NEW c \in Clicks, BeRefused(c) PROVE UnknownIsLocked'
    BY <1>15 DEF BeRefused, Settle, Refuses
<1>16. ASSUME NEW c \in Clicks, GiveUp(c) PROVE UnknownIsLocked'
    BY <1>16 DEF GiveUp, Settle
<1>17. ASSUME NEW c \in Clicks, Lose(c) PROVE UnknownIsLocked'
    BY <1>17 DEF Lose
<1>18. ASSUME NEW c \in Clicks, Deny(c) PROVE UnknownIsLocked'
    BY <1>18 DEF Deny, Reply
<1>19. ASSUME NEW c \in Clicks, NEW r \in Answers, Execute(c, r) PROVE UnknownIsLocked'
    BY <1>19 DEF Execute, Reply
<1>20. ASSUME NEW c \in Clicks, NEW r \in Answers, Refuse(c, r) PROVE UnknownIsLocked'
    BY <1>20 DEF Refuse, Reply
<1> QED
    BY <1>1, <1>2, <1>3, <1>4, <1>5, <1>6, <1>7, <1>8, <1>9, <1>10, <1>11, <1>12, <1>13,
       <1>14, <1>15, <1>16, <1>17, <1>18, <1>19, <1>20, Steps

(* A call stays with the instance of the page until the page goes. *)
LEMMA CapturedStep == TypeOK /\ Stages /\ Captured /\ [Next]_vars => Captured'
<1> USE NoneAssumption, FirstAssumption, BoundsAssumption, NoInstanceAssumption
    DEF NoneAssumption, FirstAssumption, BoundsAssumption, NoInstanceAssumption
<1> USE DEF TypeOK, Stages, Staged, Captured, page, form, calls, stored, network, backend
<1> SUFFICES ASSUME TypeOK, Stages, Captured, [Next]_vars PROVE Captured'
    OBVIOUS
<1>1. CASE UNCHANGED vars
    BY <1>1 DEF vars
<1>2. CASE Mount
    BY <1>2 DEF Mount
<1>3. CASE ChooseInstance
    BY <1>3 DEF ChooseInstance, Initial
<1>4. CASE OpenSession
    BY <1>4 DEF OpenSession
<1>5. CASE SessionFails
    BY <1>5 DEF SessionFails
<1>6. CASE Reload
    BY <1>6 DEF Reload
<1>7. CASE Edit
    BY <1>7 DEF Edit
<1>8. CASE Acknowledge
    BY <1>8 DEF Acknowledge
<1>9. CASE ForgetSessions
    BY <1>9 DEF ForgetSessions
<1>10. ASSUME NEW i \in Instances, SwitchInstance(i) PROVE Captured'
    BY <1>10 DEF SwitchInstance
<1>11. ASSUME NEW c \in Clicks, Submit(c) PROVE Captured'
    BY <1>11 DEF Submit
<1>12. ASSUME NEW c \in Clicks, Send(c) PROVE Captured'
    BY <1>12 DEF Send, StillFree
<1>13. ASSUME NEW c \in Clicks, NotSent(c) PROVE Captured'
    BY <1>13 DEF NotSent
<1>14. ASSUME NEW c \in Clicks, Confirm(c) PROVE Captured'
    BY <1>14 DEF Confirm, Settle
<1>15. ASSUME NEW c \in Clicks, BeRefused(c) PROVE Captured'
    BY <1>15 DEF BeRefused, Settle, Refuses
<1>16. ASSUME NEW c \in Clicks, GiveUp(c) PROVE Captured'
    BY <1>16 DEF GiveUp, Settle
<1>17. ASSUME NEW c \in Clicks, Lose(c) PROVE Captured'
    BY <1>17 DEF Lose
<1>18. ASSUME NEW c \in Clicks, Deny(c) PROVE Captured'
    BY <1>18 DEF Deny, Reply
<1>19. ASSUME NEW c \in Clicks, NEW r \in Answers, Execute(c, r) PROVE Captured'
    BY <1>19 DEF Execute, Reply
<1>20. ASSUME NEW c \in Clicks, NEW r \in Answers, Refuse(c, r) PROVE Captured'
    BY <1>20 DEF Refuse, Reply
<1> QED
    BY <1>1, <1>2, <1>3, <1>4, <1>5, <1>6, <1>7, <1>8, <1>9, <1>10, <1>11, <1>12, <1>13,
       <1>14, <1>15, <1>16, <1>17, <1>18, <1>19, <1>20, Steps

(* The stored command is settled by its call or by the next load of the page. *)
LEMMA OwnerStep == TypeOK /\ Stages /\ Captured /\ LockHasAnOwner /\ [Next]_vars => LockHasAnOwner'
<1> USE NoneAssumption, FirstAssumption, BoundsAssumption, NoInstanceAssumption
    DEF NoneAssumption, FirstAssumption, BoundsAssumption, NoInstanceAssumption
<1> USE DEF TypeOK, Stages, Staged, Captured, LockHasAnOwner, page, form, calls, stored, network, backend
<1> SUFFICES ASSUME TypeOK, Stages, Captured, LockHasAnOwner, [Next]_vars PROVE LockHasAnOwner'
    OBVIOUS
<1>1. CASE UNCHANGED vars
    BY <1>1 DEF vars
<1>2. CASE Mount
    BY <1>2 DEF Mount
<1>3. CASE ChooseInstance
    BY <1>3 DEF ChooseInstance, Initial
<1>4. CASE OpenSession
    BY <1>4 DEF OpenSession
<1>5. CASE SessionFails
    BY <1>5 DEF SessionFails
<1>6. CASE Reload
    BY <1>6 DEF Reload
<1>7. CASE Edit
    BY <1>7 DEF Edit
<1>8. CASE Acknowledge
    BY <1>8 DEF Acknowledge
<1>9. CASE ForgetSessions
    BY <1>9 DEF ForgetSessions
<1>10. ASSUME NEW i \in Instances, SwitchInstance(i) PROVE LockHasAnOwner'
    BY <1>10 DEF SwitchInstance
<1>11. ASSUME NEW c \in Clicks, Submit(c) PROVE LockHasAnOwner'
    BY <1>11 DEF Submit
<1>12. ASSUME NEW c \in Clicks, Send(c) PROVE LockHasAnOwner'
    BY <1>12 DEF Send, StillFree
<1>13. ASSUME NEW c \in Clicks, NotSent(c) PROVE LockHasAnOwner'
    BY <1>13 DEF NotSent
<1>14. ASSUME NEW c \in Clicks, Confirm(c) PROVE LockHasAnOwner'
    BY <1>14 DEF Confirm, Settle
<1>15. ASSUME NEW c \in Clicks, BeRefused(c) PROVE LockHasAnOwner'
    BY <1>15 DEF BeRefused, Settle, Refuses
<1>16. ASSUME NEW c \in Clicks, GiveUp(c) PROVE LockHasAnOwner'
    BY <1>16 DEF GiveUp, Settle
<1>17. ASSUME NEW c \in Clicks, Lose(c) PROVE LockHasAnOwner'
    BY <1>17 DEF Lose
<1>18. ASSUME NEW c \in Clicks, Deny(c) PROVE LockHasAnOwner'
    BY <1>18 DEF Deny, Reply
<1>19. ASSUME NEW c \in Clicks, NEW r \in Answers, Execute(c, r) PROVE LockHasAnOwner'
    BY <1>19 DEF Execute, Reply
<1>20. ASSUME NEW c \in Clicks, NEW r \in Answers, Refuse(c, r) PROVE LockHasAnOwner'
    BY <1>20 DEF Refuse, Reply
<1> QED
    BY <1>1, <1>2, <1>3, <1>4, <1>5, <1>6, <1>7, <1>8, <1>9, <1>10, <1>11, <1>12, <1>13,
       <1>14, <1>15, <1>16, <1>17, <1>18, <1>19, <1>20, Steps

(* What an answer proves stays proved. *)
LEMMA TruthsStep == TypeOK /\ Stages /\ Truths /\ [Next]_vars => Truths'
<1> USE NoneAssumption, FirstAssumption, BoundsAssumption, NoInstanceAssumption
    DEF NoneAssumption, FirstAssumption, BoundsAssumption, NoInstanceAssumption
<1> USE DEF TypeOK, Stages, Staged, Truths, Answered, Executed, page, form, calls, stored, network, backend
<1> SUFFICES ASSUME TypeOK, Stages, Truths, [Next]_vars PROVE Truths'
    OBVIOUS
<1>1. CASE UNCHANGED vars
    BY <1>1 DEF vars
<1>2. CASE Mount
    BY <1>2 DEF Mount
<1>3. CASE ChooseInstance
    BY <1>3 DEF ChooseInstance, Initial
<1>4. CASE OpenSession
    BY <1>4 DEF OpenSession
<1>5. CASE SessionFails
    BY <1>5 DEF SessionFails
<1>6. CASE Reload
    BY <1>6 DEF Reload
<1>7. CASE Edit
    BY <1>7 DEF Edit
<1>8. CASE Acknowledge
    BY <1>8 DEF Acknowledge
<1>9. CASE ForgetSessions
    BY <1>9 DEF ForgetSessions
<1>10. ASSUME NEW i \in Instances, SwitchInstance(i) PROVE Truths'
    BY <1>10 DEF SwitchInstance
<1>11. ASSUME NEW c \in Clicks, Submit(c) PROVE Truths'
    BY <1>11 DEF Submit
<1>12. ASSUME NEW c \in Clicks, Send(c) PROVE Truths'
    BY <1>12 DEF Send, StillFree
<1>13. ASSUME NEW c \in Clicks, NotSent(c) PROVE Truths'
    BY <1>13 DEF NotSent
<1>14. ASSUME NEW c \in Clicks, Confirm(c) PROVE Truths'
    BY <1>14 DEF Confirm, Settle
<1>15. ASSUME NEW c \in Clicks, BeRefused(c) PROVE Truths'
    BY <1>15 DEF BeRefused, Settle, Refuses
<1>16. ASSUME NEW c \in Clicks, GiveUp(c) PROVE Truths'
    BY <1>16 DEF GiveUp, Settle
<1>17. ASSUME NEW c \in Clicks, Lose(c) PROVE Truths'
    BY <1>17 DEF Lose
<1>18. ASSUME NEW c \in Clicks, Deny(c) PROVE Truths'
    BY <1>18 DEF Deny, Reply
<1>19. ASSUME NEW c \in Clicks, NEW r \in Answers, Execute(c, r) PROVE Truths'
    BY <1>19 DEF Execute, Reply
<1>20. ASSUME NEW c \in Clicks, NEW r \in Answers, Refuse(c, r) PROVE Truths'
    BY <1>20 DEF Refuse, Reply
<1> QED
    BY <1>1, <1>2, <1>3, <1>4, <1>5, <1>6, <1>7, <1>8, <1>9, <1>10, <1>11, <1>12, <1>13,
       <1>14, <1>15, <1>16, <1>17, <1>18, <1>19, <1>20, Steps

(* The page repeats what the answer proves. *)
LEMMA ToldStep == TypeOK /\ Stages /\ Truths /\ ToldIsTrue /\ [Next]_vars => ToldIsTrue'
<1> USE NoneAssumption, FirstAssumption, BoundsAssumption, NoInstanceAssumption
    DEF NoneAssumption, FirstAssumption, BoundsAssumption, NoInstanceAssumption
<1> USE DEF TypeOK, Stages, Staged, Truths, Answered, Executed, ToldIsTrue, page, form, calls, stored, network, backend
<1> SUFFICES ASSUME TypeOK, Stages, Truths, ToldIsTrue, [Next]_vars PROVE ToldIsTrue'
    OBVIOUS
<1>1. CASE UNCHANGED vars
    BY <1>1 DEF vars
<1>2. CASE Mount
    BY <1>2 DEF Mount
<1>3. CASE ChooseInstance
    BY <1>3 DEF ChooseInstance, Initial
<1>4. CASE OpenSession
    BY <1>4 DEF OpenSession
<1>5. CASE SessionFails
    BY <1>5 DEF SessionFails
<1>6. CASE Reload
    BY <1>6 DEF Reload
<1>7. CASE Edit
    BY <1>7 DEF Edit
<1>8. CASE Acknowledge
    BY <1>8 DEF Acknowledge
<1>9. CASE ForgetSessions
    BY <1>9 DEF ForgetSessions
<1>10. ASSUME NEW i \in Instances, SwitchInstance(i) PROVE ToldIsTrue'
    BY <1>10 DEF SwitchInstance
<1>11. ASSUME NEW c \in Clicks, Submit(c) PROVE ToldIsTrue'
    BY <1>11 DEF Submit
<1>12. ASSUME NEW c \in Clicks, Send(c) PROVE ToldIsTrue'
    BY <1>12 DEF Send, StillFree
<1>13. ASSUME NEW c \in Clicks, NotSent(c) PROVE ToldIsTrue'
    BY <1>13 DEF NotSent
<1>14. ASSUME NEW c \in Clicks, Confirm(c) PROVE ToldIsTrue'
    BY <1>14 DEF Confirm, Settle
<1>15. ASSUME NEW c \in Clicks, BeRefused(c) PROVE ToldIsTrue'
    BY <1>15 DEF BeRefused, Settle, Refuses
<1>16. ASSUME NEW c \in Clicks, GiveUp(c) PROVE ToldIsTrue'
    BY <1>16 DEF GiveUp, Settle
<1>17. ASSUME NEW c \in Clicks, Lose(c) PROVE ToldIsTrue'
    BY <1>17 DEF Lose
<1>18. ASSUME NEW c \in Clicks, Deny(c) PROVE ToldIsTrue'
    BY <1>18 DEF Deny, Reply
<1>19. ASSUME NEW c \in Clicks, NEW r \in Answers, Execute(c, r) PROVE ToldIsTrue'
    BY <1>19 DEF Execute, Reply
<1>20. ASSUME NEW c \in Clicks, NEW r \in Answers, Refuse(c, r) PROVE ToldIsTrue'
    BY <1>20 DEF Refuse, Reply
<1> QED
    BY <1>1, <1>2, <1>3, <1>4, <1>5, <1>6, <1>7, <1>8, <1>9, <1>10, <1>11, <1>12, <1>13,
       <1>14, <1>15, <1>16, <1>17, <1>18, <1>19, <1>20, Steps

(* Equal contents keep their identity until the form begins anew. *)
LEMMA IdentifiedStep == TypeOK /\ Identified /\ [Next]_vars => Identified'
<1> USE NoneAssumption, FirstAssumption, BoundsAssumption, NoInstanceAssumption
    DEF NoneAssumption, FirstAssumption, BoundsAssumption, NoInstanceAssumption
<1> USE DEF TypeOK, Identified, page, form, calls, stored, network, backend
<1> SUFFICES ASSUME TypeOK, Identified, [Next]_vars PROVE Identified'
    OBVIOUS
<1>1. CASE UNCHANGED vars
    BY <1>1 DEF vars
<1>2. CASE Mount
    BY <1>2 DEF Mount
<1>3. CASE ChooseInstance
    BY <1>3 DEF ChooseInstance, Initial
<1>4. CASE OpenSession
    BY <1>4 DEF OpenSession
<1>5. CASE SessionFails
    BY <1>5 DEF SessionFails
<1>6. CASE Reload
    BY <1>6 DEF Reload, NewForm
<1>7. CASE Edit
    BY <1>7 DEF Edit, NewForm
<1>8. CASE Acknowledge
    BY <1>8 DEF Acknowledge
<1>9. CASE ForgetSessions
    BY <1>9 DEF ForgetSessions
<1>10. ASSUME NEW i \in Instances, SwitchInstance(i) PROVE Identified'
    BY <1>10 DEF SwitchInstance
<1>11. ASSUME NEW c \in Clicks, Submit(c) PROVE Identified'
    BY <1>11 DEF Submit, Identity
<1>12. ASSUME NEW c \in Clicks, Send(c) PROVE Identified'
    BY <1>12 DEF Send, StillFree
<1>13. ASSUME NEW c \in Clicks, NotSent(c) PROVE Identified'
    BY <1>13 DEF NotSent
<1>14. ASSUME NEW c \in Clicks, Confirm(c) PROVE Identified'
    BY <1>14 DEF Confirm, Settle, NewForm
<1>15. ASSUME NEW c \in Clicks, BeRefused(c) PROVE Identified'
    BY <1>15 DEF BeRefused, Settle, Refuses
<1>16. ASSUME NEW c \in Clicks, GiveUp(c) PROVE Identified'
    BY <1>16 DEF GiveUp, Settle
<1>17. ASSUME NEW c \in Clicks, Lose(c) PROVE Identified'
    BY <1>17 DEF Lose
<1>18. ASSUME NEW c \in Clicks, Deny(c) PROVE Identified'
    BY <1>18 DEF Deny, Reply
<1>19. ASSUME NEW c \in Clicks, NEW r \in Answers, Execute(c, r) PROVE Identified'
    BY <1>19 DEF Execute, Reply
<1>20. ASSUME NEW c \in Clicks, NEW r \in Answers, Refuse(c, r) PROVE Identified'
    BY <1>20 DEF Refuse, Reply
<1> QED
    BY <1>1, <1>2, <1>3, <1>4, <1>5, <1>6, <1>7, <1>8, <1>9, <1>10, <1>11, <1>12, <1>13,
       <1>14, <1>15, <1>16, <1>17, <1>18, <1>19, <1>20, Steps

(* The backend repeats no identity. *)
LEMMA OnceStep == TypeOK /\ Stages /\ Truths /\ OncePerIdentity /\ [Next]_vars => OncePerIdentity'
<1> USE NoneAssumption, FirstAssumption, BoundsAssumption, NoInstanceAssumption
    DEF NoneAssumption, FirstAssumption, BoundsAssumption, NoInstanceAssumption
<1> USE DEF TypeOK, Stages, Staged, Truths, Answered, Executed, OncePerIdentity, page, form, calls, stored, network, backend
<1> SUFFICES ASSUME TypeOK, Stages, Truths, OncePerIdentity, [Next]_vars PROVE OncePerIdentity'
    OBVIOUS
<1>1. CASE UNCHANGED vars
    BY <1>1 DEF vars
<1>2. CASE Mount
    BY <1>2 DEF Mount
<1>3. CASE ChooseInstance
    BY <1>3 DEF ChooseInstance, Initial
<1>4. CASE OpenSession
    BY <1>4 DEF OpenSession
<1>5. CASE SessionFails
    BY <1>5 DEF SessionFails
<1>6. CASE Reload
    BY <1>6 DEF Reload
<1>7. CASE Edit
    BY <1>7 DEF Edit
<1>8. CASE Acknowledge
    BY <1>8 DEF Acknowledge
<1>9. CASE ForgetSessions
    BY <1>9 DEF ForgetSessions
<1>10. ASSUME NEW i \in Instances, SwitchInstance(i) PROVE OncePerIdentity'
    BY <1>10 DEF SwitchInstance
<1>11. ASSUME NEW c \in Clicks, Submit(c) PROVE OncePerIdentity'
    BY <1>11 DEF Submit
<1>12. ASSUME NEW c \in Clicks, Send(c) PROVE OncePerIdentity'
    BY <1>12 DEF Send, StillFree
<1>13. ASSUME NEW c \in Clicks, NotSent(c) PROVE OncePerIdentity'
    BY <1>13 DEF NotSent
<1>14. ASSUME NEW c \in Clicks, Confirm(c) PROVE OncePerIdentity'
    BY <1>14 DEF Confirm, Settle
<1>15. ASSUME NEW c \in Clicks, BeRefused(c) PROVE OncePerIdentity'
    BY <1>15 DEF BeRefused, Settle, Refuses
<1>16. ASSUME NEW c \in Clicks, GiveUp(c) PROVE OncePerIdentity'
    BY <1>16 DEF GiveUp, Settle
<1>17. ASSUME NEW c \in Clicks, Lose(c) PROVE OncePerIdentity'
    BY <1>17 DEF Lose
<1>18. ASSUME NEW c \in Clicks, Deny(c) PROVE OncePerIdentity'
    BY <1>18 DEF Deny, Reply
<1>19. ASSUME NEW c \in Clicks, NEW r \in Answers, Execute(c, r) PROVE OncePerIdentity'
    BY <1>19 DEF Execute, Reply
<1>20. ASSUME NEW c \in Clicks, NEW r \in Answers, Refuse(c, r) PROVE OncePerIdentity'
    BY <1>20 DEF Refuse, Reply
<1> QED
    BY <1>1, <1>2, <1>3, <1>4, <1>5, <1>6, <1>7, <1>8, <1>9, <1>10, <1>11, <1>12, <1>13,
       <1>14, <1>15, <1>16, <1>17, <1>18, <1>19, <1>20, Steps

-----------------------------------------------------------------------------
LEMMA InductiveStep == IInv /\ [Next]_vars => IInv'
<1> SUFFICES ASSUME IInv, [Next]_vars PROVE IInv'
    OBVIOUS
<1> USE DEF IInv
<1>1. TypeOK' /\ Stages' /\ UnknownIsLocked'
    BY TypeStep, StagesStep, LockedStep
<1>2. Captured' /\ LockHasAnOwner'
    BY CapturedStep, OwnerStep
<1>3. Truths' /\ ToldIsTrue'
    BY TruthsStep, ToldStep
<1>4. Identified' /\ OncePerIdentity'
    BY IdentifiedStep, OnceStep
<1> QED
    BY <1>1, <1>2, <1>3, <1>4

LEMMA Invariance == Spec => []IInv
    BY InitHolds, InductiveStep, PTL DEF Spec

(* Every variable of the tab, the requests and the backend has its type. *)
THEOREM TypeCorrect == Spec => []TypeOK
<1>1. IInv => TypeOK
    BY DEF IInv
<1> QED
    BY <1>1, Invariance, PTL

(* No command of unknown outcome is forgotten and no other is sent before the
   operator has checked it: mutate(), the stored command and the notice of it. *)
LEMMA NothingIsForgotten == Spec => []UnknownIsLocked
<1>1. IInv => UnknownIsLocked
    BY DEF IInv
<1> QED
    BY <1>1, Invariance, PTL

(* The page says of a command only what the backend did with it: the branches
   of mutate() on the answer. *)
THEOREM TidingsAreTrue == Spec => []ToldIsTrue
<1>1. IInv => ToldIsTrue
    BY DEF IInv
<1> QED
    BY <1>1, Invariance, PTL

(* The stored command always has someone to settle it and is of the instance
   on the page: restoring it after a reload, selectLiveInstance and the choice
   of the instance. *)
LEMMA LockIsOwned == Spec => []LockHasAnOwner
<1>1. IInv => LockHasAnOwner
    BY DEF IInv
<1> QED
    BY <1>1, Invariance, PTL

(* Over reloads, lost answers, waiting calls and changes of the instance, what
   is stored is the command nobody may forget, and somebody can settle it. *)
THEOREM LockTellsTheTruth == Spec => []LockIsTrue
<1>1. UnknownIsLocked /\ LockHasAnOwner => LockIsTrue
    BY DEF LockIsTrue
<1> QED
    BY <1>1, NothingIsForgotten, LockIsOwned, PTL

(* The identity the experiment's form keeps for its contents is enough for one
   effect, however often they are submitted. *)
THEOREM ExperimentOnce == Spec => []OneEffectPerContents
<1>1. IInv => OneEffectPerContents
  <2> SUFFICES ASSUME IInv, application = "research",
                      NEW c \in effects, NEW d \in effects, contents[c] = contents[d]
               PROVE  c = d
      BY DEF OneEffectPerContents
  <2>1. c \in Clicks /\ d \in Clicks
      BY DEF IInv, TypeOK
  <2>2. at[c] # "idle" /\ at[d] # "idle"
      BY <2>1 DEF IInv, Truths, Answered, Stages, Staged
  <2>3. ident[c] = ident[d]
      BY <2>1, <2>2 DEF IInv, Identified
  <2> QED
      BY <2>3 DEF IInv, OncePerIdentity
<1> QED
    BY <1>1, Invariance, PTL

-----------------------------------------------------------------------------
(* The steps of the explorer, of the polls and of the tab one by one. *)
LEMMA ExplorerSteps ==
    ASSUME NextExplorer
    PROVE  \/ Search \/ Export \/ AskChunk \/ ChunkArrives \/ Download \/ ExportFails
           \/ \E f \in Filters : Change(f) \/ Publish(f)
           \/ \E p \in 0..(Pages - 1) : TurnPage(p)
           \/ \E n \in Loads : Serve(n) \/ LoadArrives(n) \/ LoadFails(n)
    BY DEF NextExplorer

(* What the tab does to each part: nothing, or a step of it. *)
LEMMA Parts ==
    ASSUME [NextWorkbench]_workbench
    PROVE  /\ [Next]_vars
           /\ \/ UNCHANGED queries
              \/ ReloadQueries
              \/ Poll
           /\ [NextExplorer]_explorer
<1>1. CASE UNCHANGED workbench
    BY <1>1 DEF workbench
<1>2. CASE LiveReload
    BY <1>2 DEF LiveReload, Next, Operator
<1>3. CASE Poll
    BY <1>3 DEF Poll
<1>4. CASE ExperimentStep
    BY <1>4 DEF ExperimentStep, Next, Operator, Network
<1>5. CASE CommandStep
    BY <1>5 DEF CommandStep, Next, Operator, Network
<1>6. CASE ExplorerStep
    BY <1>6 DEF ExplorerStep
<1>7. ASSUME NEW c \in Clicks, LiveSubmit(c)
      PROVE [Next]_vars /\ UNCHANGED queries /\ UNCHANGED explorer
    BY <1>7 DEF LiveSubmit, Next, Operator
<1>8. ASSUME NEW c \in Clicks, NEW outcome \in Answers, LiveExecute(c, outcome)
      PROVE [Next]_vars /\ UNCHANGED queries /\ UNCHANGED explorer
    BY <1>8 DEF LiveExecute, Next, Network
<1> QED
    BY <1>1, <1>2, <1>3, <1>4, <1>5, <1>6, <1>7, <1>8 DEF NextWorkbench

(* The commands of the tab are those of BrowserCommands: whatever is proved of
   them alone holds beside status, explorer and controls. *)
THEOREM TabHasTheCommands == SpecWorkbench => Spec
<1>1. InitWorkbench => Init
    BY DEF InitWorkbench
<1>2. [NextWorkbench]_workbench => [Next]_vars
    BY Parts
<1> QED
    BY <1>1, <1>2, PTL DEF SpecWorkbench, Spec

-----------------------------------------------------------------------------
(* The polls: at most one of every effect, and what it saw is no older than
   what is shown. *)
Observed ==
    /\ QueriesTypeOK
    /\ PollingGoesOn
    /\ \A g \in Generations : g > generation => poll[g] = "none"
    /\ \A g \in Generations : poll[g] \in {"asked", "answered"} => asked[g] \in Instances
    /\ \A g \in Generations :
         poll[g] = "answered" => saw[g] \in Kernels /\ saw[g][2] <= kernel[saw[g][1]]
    /\ data # None => data[2] <= kernel[data[1]]
    /\ data # None /\ poll[generation] = "answered" /\ saw[generation][1] = data[1]
         => data[2] <= saw[generation][2]

LEMMA PollSteps ==
    ASSUME TypeOK, Poll
    PROVE  \/ \E i \in Instances : Ask(i)
           \/ Refresh \/ BindFirst \/ BindCurrent \/ Lapse
           \/ \E g \in Generations : Observe(g) \/ Arrive(g) \/ Fail(g)
           \/ \E i \in Instances : Replace(i)
<1>1. instance \in Instances \/ instance = None
    BY DEF TypeOK
<1> QED
    BY <1>1, WorkbenchAssumption DEF WorkbenchAssumption, Poll, Mounted

LEMMA ObservedAtFirst ==
    ASSUME poll = FirstPoll, asked = Nothing, saw = Nothing, generation = 0,
           data = None, bound = None, failed = FALSE, loading = TRUE, fresh = FALSE,
           kernel \in [Instances -> 0..MaxKernels]
    PROVE  Observed
<1> USE QueriesAssumption DEF QueriesAssumption, Generations, FirstPoll, Nothing
<1>1. 0 \in Generations
    OBVIOUS
<1>2. poll \in [Generations -> Polls]
    BY DEF Polls
<1>3. QueriesTypeOK
    BY <1>1, <1>2 DEF QueriesTypeOK
<1>4. \A g \in Generations : poll[g] = IF g = 0 THEN "due" ELSE "none"
    OBVIOUS
<1>5. PollingGoesOn
    BY <1>1, <1>4 DEF PollingGoesOn
<1> QED
    BY <1>1, <1>3, <1>4, <1>5 DEF Observed

(* The end of a poll keeps what concerns the polls alone. *)
LEMMA RearmKeeps ==
    ASSUME Observed, NEW g \in Generations, Rearm(g)
    PROVE  /\ poll' \in [Generations -> Polls]
           /\ asked' \in [Generations -> Instances \cup {None}]
           /\ saw' \in [Generations -> Kernels \cup {None}]
           /\ kernel' = kernel /\ generation' = generation /\ bound' = bound
           /\ poll'[generation] \in {"due", "asked", "answered"}
           /\ \A h \in Generations : h # g => poll'[h] = poll[h] /\ asked'[h] = asked[h] /\ saw'[h] = saw[h]
           /\ poll'[g] \in {"due", "over"}
    BY DEF Rearm, Active, Observed, QueriesTypeOK, PollingGoesOn, Polls

LEMMA ObservedStep ==
    TypeOK /\ Observed /\ [NextWorkbench]_workbench => Observed' /\ NeverGoesBack
<1> USE QueriesAssumption, NoInstanceAssumption DEF QueriesAssumption, NoInstanceAssumption
<1> SUFFICES ASSUME TypeOK, Observed, [NextWorkbench]_workbench
             PROVE  Observed' /\ NeverGoesBack
    OBVIOUS
<1> USE DEF polls, shown
<1>1. ASSUME UNCHANGED queries PROVE Observed' /\ NeverGoesBack
    BY <1>1 DEF queries, Observed, QueriesTypeOK, PollingGoesOn, NeverGoesBack, Kernels
<1>2. CASE ReloadQueries
  <2>1. kernel \in [Instances -> 0..MaxKernels]
      BY DEF Observed, QueriesTypeOK
  <2>2. (poll = FirstPoll /\ asked = Nothing /\ saw = Nothing /\ generation = 0
           /\ data = None /\ bound = None /\ failed = FALSE /\ loading = TRUE /\ fresh = FALSE
           /\ kernel \in [Instances -> 0..MaxKernels] => Observed)'
      BY ObservedAtFirst, PTL
  <2> QED
      BY <1>2, <2>1, <2>2 DEF ReloadQueries, NeverGoesBack, FirstPoll, Nothing
<1>3. ASSUME NEW i \in Instances, Ask(i) PROVE Observed' /\ NeverGoesBack
    BY <1>3 DEF Ask, Observed, QueriesTypeOK, PollingGoesOn, NeverGoesBack, Polls, Kernels, Generations
<1>4. CASE Refresh
  <2>1. generation \in Generations /\ generation + 1 \in Generations
      BY <1>4 DEF Refresh, Observed, QueriesTypeOK, Generations
  <2>2. /\ poll' \in [Generations -> Polls]
        /\ poll'[generation'] = "due"
        /\ \A h \in Generations : h > generation' => poll'[h] = "none"
        /\ \A h \in Generations : poll'[h] \in {"asked", "answered"} => poll'[h] = poll[h]
      BY <1>4, <2>1 DEF Refresh, Observed, QueriesTypeOK, Generations, Polls
  <2>3. data' = None /\ failed' = FALSE /\ loading' = TRUE /\ fresh' = FALSE
        /\ UNCHANGED <<kernel, asked, saw, bound>> /\ generation' = generation + 1
      BY <1>4 DEF Refresh
  <2>4. QueriesTypeOK' /\ PollingGoesOn'
      BY <2>1, <2>2, <2>3 DEF Observed, QueriesTypeOK, PollingGoesOn
  <2> QED
      BY <2>1, <2>2, <2>3, <2>4 DEF Observed, NeverGoesBack
<1>5. CASE BindFirst
    BY <1>5 DEF BindFirst, Observed, QueriesTypeOK, PollingGoesOn, NeverGoesBack, Kernels
<1>6. CASE BindCurrent
    BY <1>6 DEF BindCurrent, Changed, Observed, QueriesTypeOK, PollingGoesOn, NeverGoesBack, Kernels
<1>7. CASE Lapse
  <2>1. fresh' \in BOOLEAN /\ UNCHANGED <<kernel, polls, data, failed, loading, bound>>
      BY <1>7 DEF Lapse
  <2>2. QueriesTypeOK'
      BY <2>1 DEF Observed, QueriesTypeOK, Kernels
  <2>3. PollingGoesOn' /\ NeverGoesBack
      BY <2>1 DEF Observed, PollingGoesOn, NeverGoesBack, QueriesTypeOK, Kernels
  <2> QED
      BY <2>1, <2>2, <2>3 DEF Observed, Kernels
<1>8. ASSUME NEW g \in Generations, Observe(g) PROVE Observed' /\ NeverGoesBack
    BY <1>8, SMTT(30) DEF Observe, Observed, QueriesTypeOK, PollingGoesOn, NeverGoesBack, Polls, Kernels, Generations
<1>9. ASSUME NEW g \in Generations, Arrive(g) PROVE Observed' /\ NeverGoesBack
  <2>1. Rearm(g) /\ poll[g] = "answered"
      BY <1>9 DEF Arrive
  <2>2. CASE g = generation
    <3>1. data' = saw[g] /\ failed' = FALSE /\ loading' = FALSE /\ fresh' \in BOOLEAN
        BY <1>9, <2>2 DEF Arrive, Active
    <3>2. saw[g] \in Kernels /\ saw[g][2] <= kernel[saw[g][1]] /\ generation \in Generations
        BY <2>1 DEF Observed, QueriesTypeOK
    <3>3. QueriesTypeOK' /\ PollingGoesOn'
        BY <2>1, <3>1, <3>2, RearmKeeps DEF Observed, QueriesTypeOK, PollingGoesOn
    <3>4. NeverGoesBack
        BY <2>1, <2>2, <3>1 DEF Observed, NeverGoesBack
    <3> QED
        BY <2>1, <2>2, <3>1, <3>2, <3>3, <3>4, RearmKeeps DEF Observed
  <2>3. CASE g # generation
    <3>1. UNCHANGED <<data, failed, loading, fresh>>
        BY <1>9, <2>3 DEF Arrive, Active
    <3>2. QueriesTypeOK' /\ PollingGoesOn' /\ NeverGoesBack
        BY <2>1, <3>1, RearmKeeps DEF Observed, QueriesTypeOK, PollingGoesOn, NeverGoesBack, Kernels
    <3>3. generation \in Generations
        BY DEF Observed, QueriesTypeOK
    <3> QED
        BY <2>1, <2>3, <3>1, <3>2, <3>3, RearmKeeps DEF Observed
  <2> QED
      BY <2>2, <2>3
<1>10. ASSUME NEW g \in Generations, Fail(g) PROVE Observed' /\ NeverGoesBack
  <2>1. Rearm(g) /\ poll[g] \in {"asked", "answered"}
      BY <1>10 DEF Fail
  <2>2. data' = data /\ fresh' = fresh /\ failed' \in BOOLEAN /\ loading' \in BOOLEAN
      BY <1>10 DEF Fail, Observed, QueriesTypeOK
  <2>3. QueriesTypeOK' /\ PollingGoesOn' /\ NeverGoesBack
      BY <2>1, <2>2, RearmKeeps DEF Observed, QueriesTypeOK, PollingGoesOn, NeverGoesBack, Kernels
  <2>4. generation \in Generations
      BY DEF Observed, QueriesTypeOK
  <2> QED
      BY <2>1, <2>2, <2>3, <2>4, RearmKeeps DEF Observed
<1>11. ASSUME NEW i \in Instances, Replace(i) PROVE Observed' /\ NeverGoesBack
  <2>1. /\ kernel' = [kernel EXCEPT ![i] = @ + 1] /\ kernel[i] < MaxKernels
        /\ kernel \in [Instances -> 0..MaxKernels]
        /\ UNCHANGED <<polls, data, failed, loading, fresh, bound>>
      BY <1>11 DEF Replace, Observed, QueriesTypeOK
  <2>2. kernel' \in [Instances -> 0..MaxKernels] /\ \A j \in Instances : kernel[j] <= kernel'[j]
      BY <2>1, QueriesAssumption
  <2>3. QueriesTypeOK'
      BY <2>1, <2>2 DEF Observed, QueriesTypeOK, polls, Kernels
  <2>4. PollingGoesOn' /\ NeverGoesBack
    <3>1. PollingGoesOn'
        BY <2>1 DEF polls, Observed, PollingGoesOn
    <3>2. NeverGoesBack
        BY <2>1 DEF NeverGoesBack, Observed, QueriesTypeOK, Kernels
    <3> QED
        BY <3>1, <3>2
  <2>5. \A g \in Generations : saw[g] \in Kernels /\ saw[g][2] <= kernel[saw[g][1]]
                                => saw[g][2] <= kernel'[saw[g][1]]
      BY <2>1, <2>2 DEF Kernels
  <2>6. data # None /\ data[2] <= kernel[data[1]] => data[2] <= kernel'[data[1]]
      BY <2>1, <2>2 DEF Kernels, Observed, QueriesTypeOK
  <2> QED
      BY <2>1, <2>3, <2>4, <2>5, <2>6 DEF polls, Observed
<1> QED
    BY Parts, PollSteps, <1>1, <1>2, <1>3, <1>4, <1>5, <1>6, <1>7, <1>8, <1>9, <1>10, <1>11

-----------------------------------------------------------------------------
(* The explorer.  Under way: the load the page waits for, if there is one, asks
   the question on the screen. *)
Asking(n) ==
    /\ wants[n] = filter /\ busy /\ ~broken
    /\ mode # "browse" => receipts[n] = None
    /\ mode = "browse" /\ preset # None => receipts[n] = preset
    /\ mode = "browse" /\ turnsTo[n] # 0 => result # None /\ receipts[n] = result
    /\ load[n] = "answered" =>
         /\ found[n] \in Views /\ found[n][1] = filter
         /\ receipts[n] # None => found[n] = receipts[n]

(* The types of published versions and screen, of the loads, of the export. *)
ScreenTyped ==
    /\ published \in [Filters -> 0..MaxPublished] /\ mode \in {"browse", "quality", "versions"}
    /\ filter \in Filters /\ preset \in Views \cup {None} /\ result \in Views \cup {None}
    /\ pageNo \in 0..(Pages - 1) /\ loaded \in Filters \cup {None}
    /\ busy \in BOOLEAN /\ broken \in BOOLEAN
    /\ current \in 0..MaxLoads

LoadsTyped ==
    /\ load \in [Loads -> {"none", "asked", "answered", "over"}]
    /\ wants \in [Loads -> Filters \cup {None}] /\ receipts \in [Loads -> Views \cup {None}]
    /\ turnsTo \in [Loads -> 0..(Pages - 1)] /\ found \in [Loads -> Views \cup {None}]

ExportTyped ==
    /\ exporting \in BOOLEAN /\ fixed \in Views \cup {None} /\ range \in Filters \cup {None}
    /\ chunk \in {"none", "due", "asked"} /\ rows \in Seq(Views \X (0..(Chunks - 1)))
    /\ file \in Seq(Views \X (0..(Chunks - 1)))

LEMMA TypedParts == ExplorerTypeOK <=> ScreenTyped /\ LoadsTyped /\ ExportTyped
    BY DEF ExplorerTypeOK, ScreenTyped, LoadsTyped, ExportTyped

LEMMA SameTypes ==
    /\ LoadsTyped /\ UNCHANGED loads => LoadsTyped'
    /\ ExportTyped /\ UNCHANGED export => ExportTyped'
    /\ ScreenTyped /\ UNCHANGED <<published, mode, screen, current>> => ScreenTyped'
<1>1. LoadsTyped /\ UNCHANGED loads => LoadsTyped'
    BY DEF LoadsTyped, loads, Views, Loads
<1>2. ExportTyped /\ UNCHANGED export => ExportTyped'
    BY DEF ExportTyped, export, Views
<1>3. ScreenTyped /\ UNCHANGED <<published, mode, screen, current>> => ScreenTyped'
    BY DEF ScreenTyped, screen, Views
<1> QED
    BY <1>1, <1>2, <1>3

UnderWay(n) == n \in Loads /\ load[n] \in {"asked", "answered"}

Screened ==
    /\ ScreenTyped /\ LoadsTyped /\ ShownIsTheQuestion /\ BusyIsTrue
    /\ \A n \in Loads : n > current => load[n] = "none"
    /\ \A n \in Loads : load[n] \in {"asked", "answered"} => wants[n] \in Filters
    /\ UnderWay(current) => Asking(current)

(* The export has the first chunks of the view it fixed. *)
Exported ==
    /\ ExportTyped
    /\ exporting <=> chunk # "none"
    /\ exporting => fixed \in Views
    /\ chunk = "asked" => Len(rows) < Chunks
    /\ Len(rows) <= Chunks
    /\ exporting => rows = [i \in 1..Len(rows) |-> <<fixed, i - 1>>]
    /\ ExportIsWhole

LEMMA LoadOver ==
    ASSUME Screened, NEW n \in Loads, Over(n), load[n] \in {"asked", "answered"}
    PROVE  /\ LoadsTyped'
           /\ load'[n] = "over" /\ n <= current
           /\ \A m \in Loads : m # n => /\ load'[m] = load[m] /\ wants'[m] = wants[m]
                                        /\ receipts'[m] = receipts[m] /\ turnsTo'[m] = turnsTo[m]
                                        /\ found'[m] = found[m]
    BY ExplorerAssumption DEF ExplorerAssumption, Over, Screened, ScreenTyped, LoadsTyped, Loads, Views

LEMMA BeginKeeps ==
    ASSUME Screened, NEW ids \in Views \cup {None}, NEW p \in 0..(Pages - 1), Begin(filter, ids, p),
           mode = "browse" /\ preset # None => ids = preset,
           mode = "browse" /\ p # 0 => result # None /\ ids = result
    PROVE  Screened' /\ PagesOfOneView
<1> USE ExplorerAssumption DEF ExplorerAssumption
<1>1. current' = current + 1 /\ current' \in Loads /\ load[current'] = "none" /\ current' \in 0..MaxLoads
    BY DEF Begin, Screened, ScreenTyped, Loads
<1>2. /\ LoadsTyped'
      /\ load'[current'] = "asked" /\ wants'[current'] = filter /\ turnsTo'[current'] = p
      /\ receipts'[current'] = IF mode = "browse" THEN ids ELSE None
      /\ \A m \in Loads : m # current' => load'[m] = load[m] /\ wants'[m] = wants[m]
    BY <1>1 DEF Begin, Screened, LoadsTyped, ScreenTyped, Views
<1>3. busy' = TRUE /\ broken' = FALSE
      /\ UNCHANGED <<published, mode, filter, preset, result, pageNo, loaded, found>>
    BY DEF Begin
<1>4. ScreenTyped'
    BY <1>1, <1>3 DEF Screened, ScreenTyped, Views
<1>5. ShownIsTheQuestion' /\ BusyIsTrue'
    BY <1>1, <1>2, <1>3 DEF Screened, ShownIsTheQuestion, BusyIsTrue
<1>6. Asking(current)'
    BY <1>1, <1>2, <1>3 DEF Asking
<1>7. \A n \in Loads : n > current' => load'[n] = "none"
    BY <1>1, <1>2 DEF Screened, Loads, ScreenTyped
<1>8. \A n \in Loads : load'[n] \in {"asked", "answered"} => wants'[n] \in Filters
    BY <1>1, <1>2 DEF Screened, ScreenTyped
<1> QED
    BY <1>2, <1>3, <1>4, <1>5, <1>6, <1>7, <1>8 DEF Screened, PagesOfOneView, Loads, Views

LEMMA ScreenedStep ==
    Screened /\ [NextExplorer]_explorer => Screened' /\ PagesOfOneView
<1> USE ExplorerAssumption DEF ExplorerAssumption
<1> SUFFICES ASSUME Screened, [NextExplorer]_explorer PROVE Screened' /\ PagesOfOneView
    OBVIOUS
<1>0. ASSUME UNCHANGED <<mode, screen, current, loads>>, ScreenTyped'
      PROVE  Screened' /\ PagesOfOneView
  <2>1. LoadsTyped'
      BY <1>0, SameTypes DEF Screened
  <2> QED
      BY <1>0, <2>1 DEF screen, loads, Screened, ShownIsTheQuestion, BusyIsTrue, Asking, UnderWay,
                        PagesOfOneView, Views, Loads
<1>1. CASE UNCHANGED explorer
    BY <1>0, <1>1, SameTypes DEF explorer, Screened
<1>2. CASE Search
  <2>1. Begin(filter, preset, 0) /\ preset \in Views \cup {None} /\ 0 \in 0..(Pages - 1)
      BY <1>2 DEF Search, Screened, ScreenTyped
  <2> QED
      BY <2>1, BeginKeeps
<1>3. ASSUME NEW p \in 0..(Pages - 1), TurnPage(p) PROVE Screened' /\ PagesOfOneView
  <2>1. /\ Begin(filter, result, p) /\ result # None /\ result \in Views \cup {None}
        /\ mode = "browse" /\ preset # None => result = preset
      BY <1>3 DEF TurnPage, Screened, ShownIsTheQuestion, ScreenTyped
  <2> QED
      BY <2>1, BeginKeeps
<1>4. ASSUME NEW f \in Filters, Change(f) PROVE Screened' /\ PagesOfOneView
  <2>1. /\ current' = current + 1 /\ current' \in Loads /\ load[current'] = "none"
        /\ current' \in 0..MaxLoads /\ 0 \in 0..(Pages - 1)
      BY <1>4 DEF Change, Screened, ScreenTyped, Loads
  <2>2. /\ preset' = None /\ filter' = f /\ loaded' = None /\ result' = None /\ pageNo' = 0
        /\ broken' = FALSE /\ busy' = FALSE /\ UNCHANGED <<published, mode, loads>>
      BY <1>4 DEF Change
  <2>3. ScreenTyped' /\ LoadsTyped'
      BY <2>1, <2>2, SameTypes DEF Screened, ScreenTyped, Views
  <2>4. ShownIsTheQuestion' /\ BusyIsTrue' /\ ~UnderWay(current)' /\ PagesOfOneView
      BY <2>1, <2>2 DEF ShownIsTheQuestion, BusyIsTrue, UnderWay, PagesOfOneView, loads
  <2>5. \A n \in Loads : /\ n > current' => load'[n] = "none"
                         /\ load'[n] \in {"asked", "answered"} => wants'[n] \in Filters
      BY <2>1, <2>2 DEF Screened, loads, Loads, ScreenTyped
  <2> QED
      BY <2>3, <2>4, <2>5 DEF Screened, Loads
<1>5. ASSUME NEW n \in Loads, Serve(n) PROVE Screened' /\ PagesOfOneView
  <2>1. /\ load[n] = "asked" /\ n <= current /\ wants[n] \in Filters
        /\ receipts[n] # None => receipts[n][1] = wants[n]
        /\ UNCHANGED <<published, mode, screen, current, wants, receipts, turnsTo>>
      BY <1>5 DEF Serve, Screened, ScreenTyped, Loads, Pinnable
  <2> DEFINE v == Pinned(wants[n], receipts[n])
  <2>2. v \in Views /\ v[1] = wants[n] /\ (receipts[n] # None => v = receipts[n])
      BY <2>1 DEF Pinned, Views, Screened, ScreenTyped, LoadsTyped
  <2>3. /\ load' = [load EXCEPT ![n] = "answered"] /\ found' = [found EXCEPT ![n] = v]
      BY <1>5 DEF Serve
  <2> HIDE DEF v
  <2>4. LoadsTyped' /\ ScreenTyped'
      BY <2>1, <2>2, <2>3, SameTypes DEF Screened, LoadsTyped, Views, Loads
  <2>5. ShownIsTheQuestion' /\ BusyIsTrue' /\ PagesOfOneView
      BY <2>1, <2>3 DEF Screened, LoadsTyped, ShownIsTheQuestion, BusyIsTrue, PagesOfOneView, screen
  <2>6. \A m \in Loads : /\ m > current' => load'[m] = "none"
                         /\ load'[m] \in {"asked", "answered"} => wants'[m] \in Filters
      BY <2>1, <2>3 DEF Screened, LoadsTyped, ScreenTyped, Loads
  <2>7. UnderWay(current)' => Asking(current)'
      BY <2>1, <2>2, <2>3 DEF Screened, LoadsTyped, UnderWay, Asking, screen, Views
  <2> QED
      BY <2>4, <2>5, <2>6, <2>7 DEF Screened, Loads
<1>6. ASSUME NEW n \in Loads, LoadArrives(n) PROVE Screened' /\ PagesOfOneView
  <2>1. LoadsTyped' /\ load'[n] = "over" /\ n <= current /\ load[n] = "answered"
        /\ current' = current /\ mode' = mode /\ published' = published
        /\ \A m \in Loads : m # n => /\ load'[m] = load[m] /\ wants'[m] = wants[m]
                                        /\ receipts'[m] = receipts[m] /\ turnsTo'[m] = turnsTo[m]
                                        /\ found'[m] = found[m]
      BY <1>6, LoadOver DEF LoadArrives
  <2>2. \A m \in Loads : /\ m > current' => load'[m] = "none"
                         /\ load'[m] \in {"asked", "answered"} => wants'[m] \in Filters
      BY <2>1 DEF Screened
  <2>3. CASE n = current
    <3>1. /\ result' = found[n] /\ pageNo' = turnsTo[n] /\ loaded' = wants[n] /\ busy' = FALSE
          /\ UNCHANGED <<filter, preset, broken>>
        BY <1>6, <2>3 DEF LoadArrives, Mine
    <3>2. Asking(n) /\ turnsTo[n] \in 0..(Pages - 1) /\ wants[n] \in Filters
        BY <2>1, <2>3 DEF Screened, UnderWay, LoadsTyped
    <3>3. ScreenTyped'
        BY <2>1, <3>1, <3>2 DEF Screened, ScreenTyped, Asking, Views
    <3>4. ShownIsTheQuestion'
      <4>1. found[n] # None /\ wants[n] # None
          BY <2>1, <3>2, NoViewAssumption DEF Asking, NoViewAssumption
      <4> QED
          BY <2>1, <3>1, <3>2, <4>1 DEF Asking, ShownIsTheQuestion
    <3>5. BusyIsTrue' /\ ~UnderWay(current)' /\ PagesOfOneView
        BY <2>1, <2>3, <3>1, <3>2 DEF Asking, BusyIsTrue, UnderWay, PagesOfOneView, Loads
    <3> QED
        BY <2>1, <2>2, <3>3, <3>4, <3>5 DEF Screened, Loads
  <2>4. CASE n # current
    <3>1. UNCHANGED screen
        BY <1>6, <2>4 DEF LoadArrives, Mine
    <3>2. ScreenTyped'
        BY <2>1, <3>1, SameTypes DEF Screened
    <3> QED
        BY <2>1, <2>2, <2>4, <3>1, <3>2 DEF Screened, screen, ShownIsTheQuestion, BusyIsTrue,
                                            UnderWay, Asking, PagesOfOneView, Loads, Views
  <2> QED
      BY <2>3, <2>4
<1>7. ASSUME NEW n \in Loads, LoadFails(n) PROVE Screened' /\ PagesOfOneView
  <2>1. LoadsTyped' /\ load'[n] = "over" /\ n <= current
        /\ current' = current /\ mode' = mode /\ published' = published
        /\ \A m \in Loads : m # n => /\ load'[m] = load[m] /\ wants'[m] = wants[m]
                                        /\ receipts'[m] = receipts[m] /\ turnsTo'[m] = turnsTo[m]
                                        /\ found'[m] = found[m]
      BY <1>7, LoadOver DEF LoadFails
  <2>2. \A m \in Loads : /\ m > current' => load'[m] = "none"
                         /\ load'[m] \in {"asked", "answered"} => wants'[m] \in Filters
    <3> TAKE m \in Loads
    <3>1. CASE m = n
        BY <2>1, <3>1 DEF Screened, ScreenTyped, Loads
    <3>2. CASE m # n
        BY <2>1, <3>2 DEF Screened
    <3> QED
        BY <3>1, <3>2
  <2>3. CASE n = current
    <3>1. /\ result' = None /\ pageNo' = 0 /\ loaded' = None /\ busy' = FALSE /\ broken' = TRUE
          /\ UNCHANGED <<filter, preset>>
        BY <1>7, <2>3 DEF LoadFails, Mine
    <3>2. ScreenTyped'
      <4>1. 0 \in 0..(Pages - 1)
          OBVIOUS
      <4> QED
          BY <2>1, <3>1, <4>1 DEF Screened, ScreenTyped, Views
    <3>3. ShownIsTheQuestion' /\ BusyIsTrue' /\ ~UnderWay(current)' /\ PagesOfOneView
        BY <2>1, <2>3, <3>1 DEF ShownIsTheQuestion, BusyIsTrue, UnderWay, PagesOfOneView
    <3> QED
        BY <2>1, <2>2, <3>2, <3>3 DEF Screened, Loads
  <2>4. CASE n # current
    <3>1. UNCHANGED screen
        BY <1>7, <2>4 DEF LoadFails, Mine
    <3>2. ScreenTyped'
        BY <2>1, <3>1, SameTypes DEF Screened
    <3> QED
        BY <2>1, <2>2, <2>4, <3>1, <3>2 DEF Screened, screen, ShownIsTheQuestion, BusyIsTrue,
                                            UnderWay, Asking, PagesOfOneView, Loads, Views
  <2> QED
      BY <2>3, <2>4
<1>8. CASE Export \/ AskChunk \/ ChunkArrives \/ Download \/ ExportFails
  <2>1. UNCHANGED <<published, mode, screen, current, loads>>
      BY <1>8 DEF Export, AskChunk, ChunkArrives, Download, ExportFails
  <2> QED
      BY <1>0, <2>1, SameTypes DEF Screened
<1>9. ASSUME NEW f \in Filters, Publish(f) PROVE Screened' /\ PagesOfOneView
  <2>1. /\ published' \in [Filters -> 0..MaxPublished]
        /\ UNCHANGED <<mode, screen, current, loads>>
      BY <1>9 DEF Publish, Screened, ScreenTyped
  <2>2. ScreenTyped'
      BY <2>1 DEF Screened, ScreenTyped, screen, Views
  <2> QED
      BY <1>0, <2>1, <2>2
<1> QED
    BY ExplorerSteps, <1>1, <1>2, <1>3, <1>4, <1>5, <1>6, <1>7, <1>8, <1>9

-----------------------------------------------------------------------------
(* A run of chunks of one view, and the same with one more. *)
ChunksOf(v, k) == [i \in 1..k |-> <<v, i - 1>>]

LEMMA OneMoreChunk ==
    ASSUME NEW v \in Views, NEW s \in Seq(Views \X (0..(Chunks - 1))),
           s = ChunksOf(v, Len(s)), Len(s) < Chunks
    PROVE  /\ Append(s, <<v, Len(s)>>) \in Seq(Views \X (0..(Chunks - 1)))
           /\ Append(s, <<v, Len(s)>>) = ChunksOf(v, Len(s) + 1)
           /\ Len(Append(s, <<v, Len(s)>>)) = Len(s) + 1
<1> USE ExplorerAssumption DEF ExplorerAssumption
<1> DEFINE x == <<v, Len(s)>>
           T == Views \X (0..(Chunks - 1))
<1>1. Len(s) \in Nat /\ x \in T
    OBVIOUS
<1>2. Append(s, x) \in Seq(T) /\ Len(Append(s, x)) = Len(s) + 1
    BY <1>1
<1>3. \A i \in 1..Len(s) : Append(s, x)[i] = <<v, i - 1>>
    BY <1>1 DEF ChunksOf
<1>4. Append(s, x)[Len(s) + 1] = <<v, (Len(s) + 1) - 1>>
    BY <1>1
<1>5. Append(s, x) = [i \in 1..(Len(s) + 1) |-> Append(s, x)[i]]
    BY <1>1, <1>2
<1>6. \A i \in 1..(Len(s) + 1) : Append(s, x)[i] = <<v, i - 1>>
    BY <1>1, <1>3, <1>4
<1> QED
    BY <1>2, <1>5, <1>6 DEF ChunksOf

LEMMA NoChunks == <<>> \in Seq(Views \X (0..(Chunks - 1))) /\ Len(<<>>) = 0
    OBVIOUS

(* The export is over. *)
LEMMA EndedTyped ==
    ASSUME Ended, file' \in Seq(Views \X (0..(Chunks - 1)))
    PROVE  ExportTyped' /\ ~exporting' /\ chunk' = "none" /\ Len(rows') <= Chunks
<1>1. /\ exporting' = FALSE /\ fixed' = None /\ range' = None /\ chunk' = "none" /\ rows' = <<>>
    BY DEF Ended
<1>2. exporting' \in BOOLEAN /\ fixed' \in Views' \cup {None} /\ range' \in Filters \cup {None}
    BY <1>1
<1>3. rows' \in Seq(Views \X (0..(Chunks - 1)))
    BY <1>1, NoChunks
<1> QED
    BY <1>1, <1>2, <1>3, NoChunks, ExplorerAssumption DEF ExplorerAssumption, ExportTyped, Views

LEMMA ExportedStep == Screened /\ Exported /\ [NextExplorer]_explorer => Exported'
<1> USE ExplorerAssumption DEF ExplorerAssumption
<1> SUFFICES ASSUME Screened, Exported, [NextExplorer]_explorer PROVE Exported'
    OBVIOUS
<1>1. ASSUME UNCHANGED export PROVE Exported'
    BY <1>1, SameTypes DEF Exported, ExportIsWhole, export, Views
<1>2. CASE Search \/ \E p \in 0..(Pages - 1) : TurnPage(p)
    BY <1>1, <1>2 DEF Search, TurnPage, Begin
<1>3. CASE \E f \in Filters : Change(f) \/ Publish(f)
    BY <1>1, <1>3 DEF Change, Publish
<1>4. CASE \E n \in Loads : Serve(n) \/ LoadArrives(n) \/ LoadFails(n)
    BY <1>1, <1>4 DEF Serve, LoadArrives, LoadFails
<1>5. CASE Export
  <2>1. /\ exporting' = TRUE /\ fixed' = result /\ range' = loaded /\ chunk' = "due" /\ rows' = <<>>
        /\ file' = file /\ result \in Views /\ loaded \in Filters
      BY <1>5 DEF Export, Screened, ScreenTyped
  <2>2. ExportTyped'
      BY <2>1 DEF Exported, ExportTyped, Views
  <2>3. Len(rows') = 0 /\ rows' = [i \in 1..0 |-> <<fixed', i - 1>>]
      BY <2>1
  <2> QED
      BY <2>1, <2>2, <2>3 DEF Exported, ExportIsWhole, Views
<1>6. CASE AskChunk
  <2>1. chunk = "due" /\ chunk' = "asked" /\ Len(rows) < Chunks /\ UNCHANGED <<exporting, fixed, range, rows, file>>
      BY <1>6 DEF AskChunk
  <2>2. ExportTyped'
      BY <2>1 DEF Exported, ExportTyped, Views
  <2> QED
      BY <2>1, <2>2 DEF Exported, ExportIsWhole, Views
<1>7. CASE ChunkArrives
  <2>1. /\ chunk = "asked" /\ Pinned(range, fixed) = fixed /\ chunk' = "due"
        /\ rows' = Append(rows, <<fixed, Len(rows)>>) /\ UNCHANGED <<exporting, fixed, range, file>>
      BY <1>7 DEF ChunkArrives
  <2>2. exporting /\ fixed \in Views /\ Len(rows) < Chunks /\ rows = ChunksOf(fixed, Len(rows))
        /\ rows \in Seq(Views \X (0..(Chunks - 1)))
      BY <2>1 DEF Exported, ExportTyped, ChunksOf
  <2>3. /\ rows' \in Seq(Views \X (0..(Chunks - 1))) /\ Len(rows') = Len(rows) + 1
        /\ rows' = ChunksOf(fixed, Len(rows'))
      BY <2>1, <2>2, OneMoreChunk
  <2>4. ExportTyped'
      BY <2>1, <2>3 DEF Exported, ExportTyped, Views
  <2>5. Len(rows') <= Chunks
      BY <2>2, <2>3
  <2> QED
      BY <2>1, <2>2, <2>3, <2>4, <2>5 DEF Exported, ExportIsWhole, ChunksOf, Views
<1>8. CASE Download
  <2>1. chunk = "due" /\ Len(rows) >= Chunks /\ file' = rows /\ Ended
      BY <1>8 DEF Download, Complete
  <2>2. rows \in Seq(Views \X (0..(Chunks - 1))) /\ exporting /\ Len(rows) <= Chunks
      BY <2>1 DEF Exported, ExportTyped
  <2>3. fixed \in Views /\ Len(rows) = Chunks /\ rows = [i \in 1..Len(rows) |-> <<fixed, i - 1>>]
    <3>1. fixed \in Views /\ rows = [i \in 1..Len(rows) |-> <<fixed, i - 1>>]
        BY <2>2 DEF Exported
    <3>2. Len(rows) \in Nat
        BY <2>2
    <3>3. Len(rows) = Chunks
        BY <2>1, <2>2, <3>2
    <3> QED
        BY <3>1, <3>3
  <2>4. ExportTyped' /\ ~exporting' /\ chunk' = "none" /\ Len(rows') <= Chunks
      BY <2>1, <2>2, EndedTyped
  <2>5. ExportIsWhole'
      BY <2>1, <2>3 DEF ExportIsWhole, Views
  <2> QED
      BY <2>4, <2>5 DEF Exported
<1>9. CASE ExportFails
  <2>1. file' = file /\ Ended /\ file \in Seq(Views \X (0..(Chunks - 1)))
      BY <1>9 DEF ExportFails, Exported, ExportTyped
  <2>2. ExportTyped' /\ ~exporting' /\ chunk' = "none" /\ Len(rows') <= Chunks
      BY <2>1, EndedTyped
  <2>3. ExportIsWhole'
      BY <2>1 DEF Exported, ExportIsWhole, Views
  <2> QED
      BY <2>2, <2>3 DEF Exported
<1>10. CASE UNCHANGED explorer
    BY <1>1, <1>10 DEF explorer
<1> QED
    BY ExplorerSteps, <1>2, <1>3, <1>4, <1>5, <1>6, <1>7, <1>8, <1>9, <1>10

-----------------------------------------------------------------------------
WInv == IInv /\ Observed /\ Screened /\ Exported /\ meant \in [Clicks -> Kernels \cup {None}]

LEMMA WInit == InitWorkbench => WInv
<1> SUFFICES ASSUME InitWorkbench PROVE WInv
    OBVIOUS
<1> USE ExplorerAssumption, QueriesAssumption DEF ExplorerAssumption, QueriesAssumption
<1>1. Init /\ InitQueries /\ InitExplorer /\ meant = [c \in Clicks |-> None]
    BY DEF InitWorkbench
<1>2. Observed
  <2>1. kernel \in [Instances -> 0..MaxKernels]
      BY <1>1 DEF InitQueries
  <2> QED
      BY <1>1, <2>1, ObservedAtFirst DEF InitQueries
<1>3. ScreenTyped
  <2>1. published \in [Filters -> 0..MaxPublished] /\ mode \in {"browse", "quality", "versions"}
      BY <1>1 DEF InitExplorer
  <2>2. preset \in Views \cup {None} /\ 0 \in 0..(Pages - 1) /\ 0 \in 0..MaxLoads
      BY <1>1 DEF InitExplorer
  <2> QED
      BY <1>1, <2>1, <2>2 DEF InitExplorer, ScreenTyped
<1>4. LoadsTyped /\ \A n \in Loads : load[n] = "none"
  <2>1. 0 \in 0..(Pages - 1)
      OBVIOUS
  <2> QED
      BY <1>1, <2>1 DEF InitExplorer, LoadsTyped
<1>5. Screened
    BY <1>1, <1>3, <1>4 DEF InitExplorer, Screened, ShownIsTheQuestion, BusyIsTrue, UnderWay, Loads
<1>6. Exported
  <2>1. exporting = FALSE /\ fixed = None /\ range = None /\ chunk = "none" /\ rows = <<>> /\ file = <<>>
      BY <1>1 DEF InitExplorer
  <2>2. ExportTyped
    <3>1. exporting \in BOOLEAN /\ fixed \in Views \cup {None} /\ range \in Filters \cup {None}
        BY <2>1
    <3> QED
        BY <2>1, <3>1, NoChunks DEF ExportTyped
  <2> QED
      BY <2>1, <2>2, NoChunks DEF Exported, ExportIsWhole
<1> QED
    BY <1>1, <1>2, <1>5, <1>6, InitHolds DEF WInv

LEMMA MeantStep == WInv /\ [NextWorkbench]_workbench => (meant \in [Clicks -> Kernels \cup {None}])'
<1> SUFFICES ASSUME WInv, [NextWorkbench]_workbench PROVE meant' \in [Clicks -> Kernels \cup {None}]
    BY DEF Kernels
<1>1. CASE meant' = meant
    BY <1>1 DEF WInv
<1>2. ASSUME NEW c \in Clicks, LiveSubmit(c) PROVE meant' \in [Clicks -> Kernels \cup {None}]
    BY <1>2 DEF LiveSubmit, WInv, Observed, QueriesTypeOK
<1> QED
    BY <1>1, <1>2 DEF NextWorkbench, workbench, LiveReload, Poll, ExperimentStep, CommandStep,
                      ExplorerStep, LiveExecute

LEMMA WStep == WInv /\ [NextWorkbench]_workbench => WInv' /\ NeverGoesBack /\ PagesOfOneView
<1> SUFFICES ASSUME WInv, [NextWorkbench]_workbench PROVE WInv' /\ NeverGoesBack /\ PagesOfOneView
    OBVIOUS
<1>1. [Next]_vars /\ [NextExplorer]_explorer
    BY Parts
<1>2. IInv'
    BY <1>1, InductiveStep DEF WInv
<1>3. Observed' /\ NeverGoesBack
    BY ObservedStep DEF WInv, IInv
<1>4. Screened' /\ PagesOfOneView
    BY <1>1, ScreenedStep DEF WInv
<1>5. Exported'
    BY <1>1, ExportedStep DEF WInv
<1> QED
    BY <1>2, <1>3, <1>4, <1>5, MeantStep DEF WInv

(* Effects are those of LiveExecute when the page is a Live page: the host's
   look-up of the kernel and its refusal of another. *)
LEMMA EffectStep == WInv /\ [NextWorkbench]_workbench => EffectsWhereShown
<1> SUFFICES ASSUME WInv, [NextWorkbench]_workbench, application = "live",
                    NEW c \in effects' \ effects
             PROVE  meant[c] = <<target[c], kernel[target[c]]>>
    BY DEF EffectsWhereShown
<1> USE DEF backend, vars
<1>1. ASSUME NEW d \in Clicks, NEW outcome \in Answers, LiveExecute(d, outcome)
      PROVE  meant[c] = <<target[c], kernel[target[c]]>>
    BY <1>1 DEF LiveExecute, Execute, Reached
<1>2. CASE effects' = effects
    BY <1>2
<1>3. CASE CommandStep
    BY <1>3, <1>2 DEF CommandStep, Page, Mount, ChooseInstance, OpenSession, SessionFails, Send, NotSent,
                Confirm, BeRefused, GiveUp, Settle, Acknowledge, ForgetSessions, SwitchInstance,
                Lose, Deny, Refuse
<1>4. CASE LiveReload
    BY <1>4, <1>2 DEF LiveReload, Reload
<1>5. ASSUME NEW d \in Clicks, LiveSubmit(d) PROVE effects' = effects
    BY <1>5 DEF LiveSubmit, Submit
<1>6. CASE Poll \/ ExplorerStep \/ UNCHANGED workbench
    BY <1>6, <1>2 DEF Poll, ExplorerStep, workbench
<1> QED
    BY <1>1, <1>2, <1>3, <1>4, <1>5, <1>6 DEF NextWorkbench, ExperimentStep

LEMMA WAlways == SpecWorkbench => []WInv
    BY WInit, WStep, PTL DEF SpecWorkbench

(* What the pages say is true of the question on the screen, the loads under
   way and the observations: the answers that useData and load() drop are
   exactly those that are not.  A saved file is every chunk of one view:
   exportRange(). *)
THEOREM PagesTellTheTruth == SpecWorkbench => []PagesAreTrue
<1>1. WInv => PagesAreTrue
    BY TypedParts DEF WInv, IInv, Observed, Screened, Exported, PagesAreTrue, WorkbenchTypeOK
<1> QED
    BY <1>1, WAlways, PTL

(* Effects in the kernel the page was bound to, a status that does not go back
   and pages of one view: the owner a command names, the generations of
   useData and the receipts every later read names. *)
THEOREM PageLeads == SpecWorkbench => PageIsFollowed
<1>1. WInv /\ [NextWorkbench]_workbench
        => [EffectsWhereShown /\ NeverGoesBack /\ PagesOfOneView]_workbench
    BY WStep, EffectStep
<1> QED
    BY <1>1, WAlways, PTL DEF SpecWorkbench, PageIsFollowed

(* The theorems of BrowserCommands in the whole tab. *)
THEOREM TabKeepsItsCommands ==
    SpecWorkbench => [](LockIsTrue /\ ToldIsTrue /\ OneEffectPerContents)
    BY TabHasTheCommands, LockTellsTheTruth, TidingsAreTrue, ExperimentOnce, PTL
=============================================================================

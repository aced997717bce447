-------------------------- MODULE TushareSyncProofs --------------------------
(* Proofs about TushareSync for every set of workers, every life and plan of a
   contract and any number of claims, edits and faults: a running job has an open attempt of
   its own, coverage does not go back, work keeps its kind, a split loses no day,
   and once faults cease every claim and every attempt comes to an end. *)
EXTENDS TushareSync, WellFoundedInduction, TLAPS

-----------------------------------------------------------------------------
(* The inductive invariant. *)

Queued  == {"PENDING", "WAITING", "RUNNING"}
Working == {"FETCHING", "JUDGING"}

(* A running job is claimed by an open attempt of its own, of its kind. *)
Claims ==
  /\ open \subseteq 1..last /\ kept \subseteq 1..last
  /\ \A j \in Jobs : status[j] = "RUNNING" =>
       /\ gen[j] \in 1..last /\ gen[j] \in open
       /\ jobOf[gen[j]] = j /\ parent[gen[j]] = source[j]

(* Each worker has an attempt of its own.  One that still owns its job, between
   claim and end, finds it running. *)
Passes ==
  /\ \A w \in Workers : mine[w] \in 1..last \union {None}
  /\ \A w, v \in Workers : mine[w] = mine[v] /\ mine[w] # None => w = v
  /\ \A w \in Workers : pc[w] \in Working =>
       /\ mine[w] # None /\ MyJob(w) \in Jobs
       /\ Owns(w) => status[MyJob(w)] = "RUNNING"
       /\ pc[w] = "JUDGING" => mine[w] \in kept

(* Only queued work has a source; sources and coverage are kept downloads, and
   what is queued or running is not older than what is covered. *)
Sources ==
  \A j \in Jobs :
    /\ coverage[j] # 0 => coverage[j] \in Retained(j)
    /\ source[j] # None => /\ status[j] \in Queued
                           /\ source[j] \in Retained(j) /\ coverage[j] <= source[j]
    /\ status[j] = "RUNNING" /\ source[j] = None => coverage[j] < gen[j]

(* The halves of a split job are in the queue. *)
Splits ==
  \A s \in Jobs : status[s] = "SPLIT" =>
    s \in Shards /\ s[1] < s[2] /\ \A h \in Halves(s) : status[h] # "NONE"

SyncInv == TypeOK /\ Claims /\ Passes /\ Sources /\ Splits

-----------------------------------------------------------------------------
(* Types. *)

LEMMA Basics ==
  ASSUME TypeOK
  PROVE  /\ last \in Nat /\ MaxAttempts \in Nat /\ last <= MaxAttempts /\ MaxTries \in Nat
         /\ MaxEdits \in Nat /\ MaxRequests \in Nat /\ MaxFaults \in Nat
         /\ None \notin Generation /\ None \notin Workers
         /\ Catalog \in Jobs /\ Calendar \in Jobs /\ Shards \subseteq Jobs
  BY SyncAssumption DEF SyncAssumption, TypeOK, Generation, Jobs

LEMMA TypesHold == Init => TypeOK
<1> SUFFICES ASSUME Init PROVE TypeOK
  OBVIOUS
<1>1. /\ MaxEdits \in Nat /\ MaxRequests \in Nat /\ MaxTries \in Nat /\ MaxAttempts \in Nat
      /\ MaxFaults \in Nat
  BY SyncAssumption DEF SyncAssumption
<1>2. status \in [Jobs -> Status] /\ pc \in [Workers -> Phase]
  BY DEF Init, Status, Phase
<1>3. /\ tries \in [Jobs -> 0..MaxTries + 1] /\ coverage \in [Jobs -> 0..MaxAttempts]
  BY <1>1 DEF Init
<1>4. /\ gen \in [Jobs -> Generation \union {None}] /\ source \in [Jobs -> Generation \union {None}]
      /\ jobOf \in [Generation -> Jobs \union {None}]
      /\ parent \in [Generation -> Generation \union {None}]
      /\ mine \in [Workers -> Generation \union {None}]
  BY DEF Init
<1>5. /\ last \in 0..MaxAttempts /\ edits \in [setting : 0..MaxEdits, request : 0..MaxRequests]
      /\ faults \in [crash : 0..MaxFaults, lock : 0..MaxFaults]
      /\ interrupted \in [Workers -> SUBSET Generation]
  BY <1>1 DEF Init
<1> QED
  BY <1>2, <1>3, <1>4, <1>5 DEF TypeOK, Init

(* What an ended attempt leaves. *)
LEMMA FinishTyped ==
  ASSUME TypeOK, NEW w \in Workers, MyJob(w) \in Jobs, NEW result \in Status, Finish(w, result)
  PROVE  /\ status' \in [Jobs -> Status] /\ source' \in [Jobs -> Generation \union {None}]
         /\ open' \subseteq Generation
         /\ UNCHANGED <<gen, tries, checked, calendar, last, jobOf, parent, kept>>
<1> USE DEF TypeOK
<1>1. status' = status \/ status' = [status EXCEPT ![MyJob(w)] = result]
  BY DEF Finish
<1>2. source' = source \/ source' = [source EXCEPT ![MyJob(w)] = None]
  BY DEF Finish
<1>3. open' = open \ {mine[w]}
  BY DEF Finish
<1>4. status' \in [Jobs -> Status]
  BY <1>1
<1>5. source' \in [Jobs -> Generation \union {None}]
  BY <1>2
<1> QED
  BY <1>3, <1>4, <1>5 DEF Finish

LEMMA FailFinishes ==
  ASSUME NEW w, NEW retry, NEW waiting, Fail(w, retry, waiting)
  PROVE  \E result \in {"WAITING", "BLOCKED"} : Finish(w, result) /\ (result = "WAITING" => retry)
  BY DEF Fail

Refreshed(again, hole) ==
  /\ status' = [j \in Jobs |-> IF j \in again \union hole THEN "PENDING" ELSE Enqueued({Catalog})[j]]
  /\ tries' = [j \in Jobs |-> IF j \in again THEN 0 ELSE tries[j]]

LEMMA TypesStay == TypeOK /\ Passes /\ [Next]_vars => TypeOK'
<1> SUFFICES ASSUME TypeOK, Passes, [Next]_vars PROVE TypeOK'
  OBVIOUS
<1>1. /\ last \in Nat /\ MaxAttempts \in Nat /\ last <= MaxAttempts /\ MaxTries \in Nat
      /\ MaxEdits \in Nat /\ MaxRequests \in Nat /\ MaxFaults \in Nat
      /\ None \notin Generation /\ None \notin Workers
      /\ Catalog \in Jobs /\ Calendar \in Jobs /\ Shards \subseteq Jobs
  BY Basics
<1> USE DEF TypeOK, Goto
(* Steps that leave the tables of jobs and attempts alone. *)
<1>2. ASSUME NEW w \in Workers, Start(w) \/ Begin(w) \/ NoClaim(w) \/ Return(w) PROVE TypeOK'
  <2>1. /\ pc' \in [Workers -> Phase] /\ mine' \in [Workers -> Generation \union {None}]
        /\ owner' \in Workers \union {None}
    BY <1>2 DEF Start, Begin, NoClaim, Return, Phase
  <2>2. refreshDue' \in BOOLEAN
    BY <1>2 DEF Start, Begin, NoClaim, Return, settingVars
  <2>3. UNCHANGED <<enabled, contracts, edits, jobVars, attemptVars, coverage, faults, interrupted>>
    BY <1>2 DEF Start, Begin, NoClaim, Return, settingVars
  <2> QED
    BY <2>1, <2>2, <2>3 DEF jobVars, attemptVars
<1>3. ASSUME NEW w \in Workers, Pause(w) PROVE TypeOK'
  <2>1. pc' \in [Workers -> Phase]
    BY <1>3 DEF Pause, Phase
  <2> QED
    BY <1>3, <2>1 DEF Pause, jobVars, attemptVars
<1>4. ASSUME NEW w \in Workers, Crash(w) PROVE TypeOK'
  <2>1. /\ pc' \in [Workers -> Phase] /\ mine' \in [Workers -> Generation \union {None}]
        /\ owner' \in Workers \union {None} /\ interrupted' \in [Workers -> SUBSET Generation]
    BY <1>1, <1>4 DEF Crash, Phase
  <2>2. faults' \in [crash : 0..MaxFaults, lock : 0..MaxFaults]
    BY <1>1, <1>4 DEF Crash, FaultLeft
  <2> QED
    BY <1>4, <2>1, <2>2 DEF Crash, settingVars, jobVars, attemptVars
<1>5. CASE LoseLock
  <2>1. faults' \in [crash : 0..MaxFaults, lock : 0..MaxFaults]
    BY <1>1, <1>5 DEF LoseLock, FaultLeft
  <2> QED
    BY <1>5, <2>1 DEF LoseLock, settingVars, jobVars, attemptVars
<1>6. CASE RefreshTime
  <2>1. edits' \in [setting : 0..MaxEdits, request : 0..MaxRequests]
    BY <1>1, <1>6 DEF RefreshTime
  <2> QED
    BY <1>6, <2>1 DEF RefreshTime, jobVars, attemptVars, workerVars
<1>7. ASSUME NEW w \in Workers, Recover(w) PROVE TypeOK'
  <2>1. /\ pc' \in [Workers -> Phase] /\ open' \subseteq Generation
        /\ interrupted' \in [Workers -> SUBSET Generation]
    BY <1>7 DEF Recover, Phase
  <2>2. status' \in [Jobs -> Status]
    BY <1>7 DEF Recover, Requeue, Status
  <2>3. gen' \in [Jobs -> Generation \union {None}]
    BY <1>7 DEF Recover, Requeue
  <2> QED
    BY <1>7, <2>1, <2>2, <2>3 DEF Recover, settingVars
<1>19. ASSUME NEW w \in Workers, Interrupt(w) PROVE TypeOK'
  <2>1. pc' \in [Workers -> Phase] /\ interrupted' \in [Workers -> SUBSET Generation]
    BY <1>19 DEF Interrupt, Phase
  <2> QED
    BY <1>19, <2>1 DEF Interrupt, settingVars, jobVars, attemptVars
<1>8. \A new : Enqueued(new) \in [Jobs -> Status]
  BY DEF Enqueued, Status
<1>9. ASSUME NEW w \in Workers, Refresh(w) PROVE TypeOK'
  <2>1. pc' \in [Workers -> Phase]
    BY <1>9 DEF Refresh, Phase
  <2>2. status' \in [Jobs -> Status] /\ tries' \in [Jobs -> 0..MaxTries + 1]
    <3>1. CASE enabled /\ refreshDue
      <4>1. PICK aged \in SUBSET checked :
              Refreshed({j \in Jobs : /\ status[j] = "VALIDATED"
                                      /\ j = Catalog \/ j \in aged \/ Recent(j)},
                        {j \in Jobs : status[j] = "VALIDATED" /\ coverage[j] = 0})
        BY <1>9, <3>1 DEF Refresh, Refreshed
      <4>2. status' \in [Jobs -> Status]
        BY <1>8, <4>1 DEF Refreshed, Status
      <4>3. tries' \in [Jobs -> 0..MaxTries + 1]
        BY <1>1, <4>1 DEF Refreshed
      <4> QED
        BY <4>2, <4>3
    <3>2. CASE ~(enabled /\ refreshDue)
      BY <1>9, <3>2 DEF Refresh
    <3> QED
      BY <3>1, <3>2
  <2>3. refreshDue' \in BOOLEAN /\ contracts' \in {"NONE", "STALE", "CURRENT"}
    BY <1>9 DEF Refresh, Stale
  <2> QED
    BY <1>9, <2>1, <2>2, <2>3 DEF Refresh, attemptVars
<1>10. ASSUME NEW w \in Workers, Plan(w) PROVE TypeOK'
  <2>1. pc' \in [Workers -> Phase] /\ contracts' \in {"NONE", "STALE", "CURRENT"}
    BY <1>10 DEF Plan, Phase
  <2>2. status' \in [Jobs -> Status]
    BY <1>8, <1>10 DEF Plan
  <2> QED
    BY <1>10, <2>1, <2>2 DEF Plan, attemptVars
<1>11. ASSUME NEW w \in Workers, NEW j \in Jobs, Claim(w, j) PROVE TypeOK'
  <2>1. last + 1 \in Generation /\ last' = last + 1 /\ last' \in 0..MaxAttempts
    BY <1>1, <1>11 DEF Claim, Generation
  <2>2. /\ pc' \in [Workers -> Phase] /\ mine' \in [Workers -> Generation \union {None}]
    BY <1>11, <2>1 DEF Claim, Phase
  <2>3. /\ status' \in [Jobs -> Status] /\ gen' \in [Jobs -> Generation \union {None}]
    BY <1>11, <2>1 DEF Claim, Status
  <2>4. tries' \in [Jobs -> 0..MaxTries + 1]
    <3>1. tries' = [tries EXCEPT ![j] = IF source[j] = None /\ tries[j] <= MaxTries THEN tries[j] + 1 ELSE tries[j]]
      BY <1>11 DEF Claim
    <3>2. tries[j] \in 0..MaxTries + 1
      OBVIOUS
    <3>3. (IF source[j] = None /\ tries[j] <= MaxTries THEN tries[j] + 1 ELSE tries[j]) \in 0..MaxTries + 1
      BY <1>1, <3>2
    <3> QED
      BY <3>1, <3>3
  <2>5. /\ jobOf' \in [Generation -> Jobs \union {None}] /\ parent' \in [Generation -> Generation \union {None}]
    BY <1>11, <2>1 DEF Claim
  <2>6. open' \subseteq Generation
    BY <1>11, <2>1 DEF Claim
  <2> QED
    BY <1>11, <2>1, <2>2, <2>3, <2>4, <2>5, <2>6 DEF Claim
<1>12. ASSUME NEW w \in Workers, Keep(w) PROVE TypeOK'
  <2>1. mine[w] \in Generation
    BY <1>12 DEF Keep, Passes, Working
  <2>2. pc' \in [Workers -> Phase] /\ kept' \subseteq Generation
    BY <1>12, <2>1 DEF Keep, Phase
  <2> QED
    BY <1>12, <2>2 DEF Keep, settingVars, jobVars
<1>13. ASSUME NEW w \in Workers, FetchFails(w) \/ Breakdown(w) \/ JudgeEmpty(w) \/ JudgeBad(w) PROVE TypeOK'
  <2>1. MyJob(w) \in Jobs
    BY <1>13 DEF FetchFails, Breakdown, JudgeEmpty, JudgeBad, Passes, Working
  <2>2. PICK result \in {"WAITING", "BLOCKED", "DENIED"} : Finish(w, result)
    <3>1. (\E retry, waiting : Fail(w, retry, waiting)) \/ Finish(w, "DENIED")
      BY <1>13 DEF FetchFails, Breakdown, JudgeEmpty, JudgeBad
    <3>2. ASSUME NEW retry, NEW waiting, Fail(w, retry, waiting) PROVE Finish(w, "WAITING") \/ Finish(w, "BLOCKED")
      BY <3>2, FailFinishes
    <3> QED
      BY <3>1, <3>2
  <2>3. pc' \in [Workers -> Phase]
    BY <1>13 DEF FetchFails, Breakdown, JudgeEmpty, JudgeBad, Phase
  <2>4. UNCHANGED <<settingVars, coverage, mine, owner, faults, interrupted>>
    BY <1>13 DEF FetchFails, Breakdown, JudgeEmpty, JudgeBad
  <2>5. result \in Status
    BY DEF Status, Blocked
  <2> QED
    BY <2>1, <2>2, <2>3, <2>4, <2>5, FinishTyped DEF settingVars
<1>14. ASSUME NEW w \in Workers, Truncated(w) PROVE TypeOK'
  <2>1. MyJob(w) \in Jobs
    BY <1>14 DEF Truncated, Passes, Working
  <2>2. pc' \in [Workers -> Phase]
    BY <1>14 DEF Truncated, Phase
  <2>3. status' \in [Jobs -> Status]
    BY <1>8, <1>14 DEF Truncated, Status, Blocked
  <2>4. source' \in [Jobs -> Generation \union {None}] /\ open' \subseteq Generation
    BY <1>14 DEF Truncated
  <2> QED
    BY <1>14, <2>2, <2>3, <2>4 DEF Truncated, settingVars
<1>15. ASSUME NEW w \in Workers, Commit(w) PROVE TypeOK'
  <2>1. MyJob(w) \in Jobs /\ mine[w] \in Generation /\ Origin(mine[w]) \in 0..MaxAttempts
    <3>1. MyJob(w) \in Jobs /\ mine[w] \in Generation
      BY <1>15 DEF Commit, Passes, Working
    <3>2. Origin(mine[w]) \in Generation
      BY <3>1 DEF Origin
    <3> QED
      BY <1>1, <3>1, <3>2 DEF Generation
  <2>2. pc' \in [Workers -> Phase]
    BY <1>15 DEF Commit, Phase
  <2>3. status' \in [Jobs -> Status] /\ source' \in [Jobs -> Generation \union {None}] /\ open' \subseteq Generation
    BY <1>15 DEF Commit, Status
  <2>4. coverage' \in [Jobs -> 0..MaxAttempts]
    BY <1>15, <2>1 DEF Commit
  <2>5. checked' \subseteq Jobs
    BY <1>15, <2>1 DEF Commit
  <2>6. calendar' \in BOOLEAN
    BY <1>15 DEF Commit
  <2>7. contracts' \in {"NONE", "STALE", "CURRENT"}
    BY <1>15 DEF Commit
  <2> QED
    BY <1>15, <2>2, <2>3, <2>4, <2>5, <2>6, <2>7 DEF Commit
<1>16. ASSUME NEW on \in BOOLEAN, Configure(on) PROVE TypeOK'
  <2>1. status' \in [Jobs -> Status] /\ tries' \in [Jobs -> 0..MaxTries + 1]
    BY <1>1, <1>16 DEF Configure, Status
  <2>2. /\ edits' \in [setting : 0..MaxEdits, request : 0..MaxRequests]
        /\ contracts' \in {"NONE", "STALE", "CURRENT"}
    BY <1>1, <1>16 DEF Configure, Stale
  <2> QED
    BY <1>16, <2>1, <2>2 DEF Configure, attemptVars, workerVars
<1>17. ASSUME NEW j \in Jobs, NEW g \in Generation, Reprocess(j, g) PROVE TypeOK'
  <2>1. /\ status' \in [Jobs -> Status] /\ source' \in [Jobs -> Generation \union {None}]
        /\ edits' \in [setting : 0..MaxEdits, request : 0..MaxRequests]
    BY <1>1, <1>17 DEF Reprocess, Status
  <2> QED
    BY <1>17, <2>1 DEF Reprocess, attemptVars, workerVars
<1>18. CASE UNCHANGED vars
  BY <1>18 DEF vars, settingVars, jobVars, attemptVars, workerVars
<1> QED
  BY <1>2, <1>3, <1>4, <1>5, <1>6, <1>7, <1>9, <1>10, <1>11, <1>12, <1>13, <1>14, <1>15, <1>16, <1>17, <1>18, <1>19
  DEF Next, Environment, UserStep, PassStep
-----------------------------------------------------------------------------
(* The halves of a shard of several days: they are shards, shorter ones, and cover it. *)
LEMMA HalvesCover ==
  ASSUME NEW s \in Shards, s[1] < s[2]
  PROVE  /\ Halves(s) \subseteq Shards
         /\ \A h \in Halves(s) : h[2] - h[1] < s[2] - s[1]
         /\ \A day \in s[1]..s[2] : \E h \in Halves(s) : h[1] <= day /\ day <= h[2]
<1> DEFINE half == (s[2] - s[1]) \div 2
           middle == s[1] + half
<1>1. LastDay \in Nat /\ s = <<s[1], s[2]>> /\ s[1] \in 1..LastDay /\ s[2] \in 1..LastDay
  BY SyncAssumption DEF SyncAssumption, Shards
<1>2. half \in Nat /\ half < s[2] - s[1]
  BY <1>1
<1>3. Halves(s) = {<<s[1], middle>>, <<middle + 1, s[2]>>}
  BY DEF Halves
<1> HIDE DEF half
<1>4. middle \in 1..LastDay /\ middle + 1 \in 1..LastDay /\ s[1] <= middle /\ middle + 1 <= s[2]
  BY <1>1, <1>2
<1> HIDE DEF middle
<1>5. Halves(s) \subseteq Shards
  BY <1>1, <1>3, <1>4 DEF Shards
<1>6. \A h \in Halves(s) : h[2] - h[1] < s[2] - s[1]
  BY <1>1, <1>3, <1>4
<1>7. ASSUME NEW day \in s[1]..s[2] PROVE \E h \in Halves(s) : h[1] <= day /\ day <= h[2]
  <2>1. <<s[1], middle>> \in Halves(s) /\ <<middle + 1, s[2]>> \in Halves(s)
    BY <1>3
  <2>2. (s[1] <= day /\ day <= middle) \/ (middle + 1 <= day /\ day <= s[2])
    BY <1>1, <1>4
  <2> QED
    BY <2>1, <2>2
<1> QED
  BY <1>5, <1>6, <1>7

-----------------------------------------------------------------------------
(* Steps that claim and end nothing: idle jobs may be queued, a worker may
   forget its attempt. *)

Requeued(s, t) == \/ t = s
                  \/ s \in {"NONE", "VALIDATED"} \union Blocked /\ t = "PENDING"
Idles ==
  /\ UNCHANGED <<gen, source, coverage, last, jobOf, parent, open, kept>>
  /\ \A j \in Jobs : Requeued(status[j], status'[j])
  /\ \A w \in Workers : \/ mine'[w] = mine[w] /\ (pc'[w] \in Working => pc'[w] = pc[w])
                        \/ mine'[w] = None /\ pc'[w] \notin Working

LEMMA RunningIsSame ==
  ASSUME NEW s \in Status, NEW t \in Status, Requeued(s, t)
  PROVE  /\ (t = "RUNNING" <=> s = "RUNNING") /\ (t = "SPLIT" <=> s = "SPLIT")
         /\ (s # "NONE" => t # "NONE") /\ (s \in Queued => t \in Queued)
         /\ (s \in Queued => t = s)
  BY DEF Requeued, Status, Queued, Blocked

LEMMA IdleKeeps == SyncInv /\ TypeOK' /\ Idles => SyncInv'
<1> SUFFICES ASSUME SyncInv, TypeOK', Idles PROVE SyncInv'
  OBVIOUS
<1>1. \A j \in Jobs : status[j] \in Status /\ status'[j] \in Status
  BY DEF SyncInv, TypeOK
<1>2. ASSUME NEW j \in Jobs
      PROVE  /\ (status'[j] = "RUNNING" <=> status[j] = "RUNNING") /\ (status'[j] = "SPLIT" <=> status[j] = "SPLIT")
             /\ (status[j] # "NONE" => status'[j] # "NONE") /\ (status[j] \in Queued => status'[j] \in Queued)
  BY <1>1, RunningIsSame DEF Idles
<1>3. /\ gen' = gen /\ source' = source /\ coverage' = coverage /\ last' = last /\ jobOf' = jobOf
      /\ parent' = parent /\ open' = open /\ kept' = kept
  BY DEF Idles
<1>4. Claims'
  BY <1>2, <1>3 DEF SyncInv, Claims
<1>5. Passes'
  <2>1. ASSUME NEW w \in Workers, pc'[w] \in Working
        PROVE  /\ mine'[w] # None /\ MyJob(w)' \in Jobs
               /\ Owns(w)' => status'[MyJob(w)'] = "RUNNING"
               /\ pc'[w] = "JUDGING" => mine'[w] \in kept'
    <3>1. mine'[w] = mine[w] /\ pc'[w] = pc[w]
      BY <2>1 DEF Idles
    <3>2. MyJob(w)' = MyJob(w) /\ (Owns(w)' <=> Owns(w))
      BY <1>3, <3>1 DEF MyJob, Owns
    <3> QED
      BY <1>2, <1>3, <2>1, <3>1, <3>2 DEF SyncInv, Passes
  <2>2. \A w \in Workers : mine'[w] = mine[w] \/ mine'[w] = None
    BY DEF Idles
  <2> QED
    BY <1>3, <2>1, <2>2 DEF SyncInv, Passes
<1>6. Sources'
  <2>1. \A j \in Jobs : Retained(j)' = Retained(j)
    BY <1>3 DEF Retained
  <2> QED
    BY <1>2, <1>3, <2>1 DEF SyncInv, Sources
<1>7. Splits'
  <2>1. \A s \in Shards : s[1] < s[2] => Halves(s) \subseteq Jobs
    BY HalvesCover DEF Jobs
  <2> QED
    BY <1>2, <2>1 DEF SyncInv, Splits
<1> QED
  BY <1>4, <1>5, <1>6, <1>7 DEF SyncInv

LEMMA IdleSteps ==
  ASSUME TypeOK, NEW w \in Workers,
         \/ Start(w) \/ Begin(w) \/ Interrupt(w) \/ Refresh(w) \/ Plan(w) \/ NoClaim(w) \/ Pause(w)
         \/ Return(w) \/ Crash(w)
  PROVE  Idles
<1> USE DEF Goto, Working, TypeOK
<1>1. UNCHANGED <<gen, source, coverage, last, jobOf, parent, open, kept>>
  BY DEF Start, Begin, Interrupt, Refresh, Plan, NoClaim, Pause, Return, Crash, jobVars, attemptVars
<1>2. \A j \in Jobs : Requeued(status[j], status'[j])
  <2>1. CASE status' = status
    BY <2>1 DEF Requeued
  <2>2. CASE Refresh(w)
    <3>1. CASE enabled /\ refreshDue
      <4>1. PICK aged \in SUBSET checked :
              Refreshed({j \in Jobs : /\ status[j] = "VALIDATED"
                                      /\ j = Catalog \/ j \in aged \/ Recent(j)},
                        {j \in Jobs : status[j] = "VALIDATED" /\ coverage[j] = 0})
        BY <2>2, <3>1 DEF Refresh, Refreshed
      <4> QED
        BY <4>1 DEF Refreshed, Enqueued, Requeued
    <3> QED
      BY <2>1, <2>2, <3>1 DEF Refresh
  <2>3. CASE Plan(w)
    BY <2>1, <2>3 DEF Plan, Enqueued, Requeued
  <2> QED
    BY <2>1, <2>2, <2>3 DEF Start, Begin, Interrupt, NoClaim, Pause, Return, Crash, jobVars
<1>3. ASSUME NEW v \in Workers
      PROVE  \/ mine'[v] = mine[v] /\ (pc'[v] \in Working => pc'[v] = pc[v])
             \/ mine'[v] = None /\ pc'[v] \notin Working
  <2>1. CASE UNCHANGED <<mine, pc>>
    BY <2>1
  <2>2. CASE mine' = mine /\ \E p \in Phase \ Working : pc' = [pc EXCEPT ![w] = p]
    BY <2>2
  <2>3. CASE mine' = [mine EXCEPT ![w] = None] /\ \E p \in Phase \ Working : pc' = [pc EXCEPT ![w] = p]
    BY <2>3
  <2> QED
    BY <2>1, <2>2, <2>3 DEF Start, Begin, Interrupt, Refresh, Plan, NoClaim, Pause, Return, Crash, Phase
<1> QED
  BY <1>1, <1>2, <1>3 DEF Idles

LEMMA StillIdles ==
  ASSUME \/ LoseLock \/ RefreshTime \/ UNCHANGED vars
         \/ \E on \in BOOLEAN : Configure(on)
  PROVE  Idles
<1>1. UNCHANGED <<gen, source, coverage, last, jobOf, parent, open, kept, mine, pc>>
  BY DEF LoseLock, RefreshTime, Configure, vars, jobVars, attemptVars, workerVars
<1>2. status' = status \/ status' = [j \in Jobs |-> IF status[j] \in Blocked THEN "PENDING" ELSE status[j]]
  BY DEF LoseLock, RefreshTime, Configure, vars, jobVars
<1> QED
  BY <1>1, <1>2 DEF Idles, Requeued
-----------------------------------------------------------------------------
(* An attempt ends, by whichever result; a job it lost to another pass is left
   as it is. *)

Ends(w) ==
  LET j == MyJob(w) IN
  /\ pc[w] \in Working /\ UNCHANGED <<gen, last, jobOf, parent, kept, mine>>
  /\ \E p \in {"ENDING", "PAUSING"} : pc' = [pc EXCEPT ![w] = p]
  /\ open' = open \ {mine[w]} \/ (~Owns(w) /\ open' = open)
  /\ ~Owns(w) => UNCHANGED <<status, source, coverage>>
  /\ Owns(w) =>
       /\ status'[j] \in Status \ {"NONE", "RUNNING"}
       /\ \A i \in Jobs \ {j} : Requeued(status[i], status'[i]) /\ source'[i] = source[i]
       /\ source'[j] = None \/ (source'[j] = source[j] /\ status'[j] = "WAITING")
       /\ \A i \in Jobs \ {j} : coverage'[i] = coverage[i]
       /\ coverage'[j] = coverage[j] \/ (/\ coverage'[j] = Origin(mine[w]) /\ pc[w] = "JUDGING"
                                         /\ source'[j] = None)
       /\ status'[j] = "SPLIT" =>
            j \in Shards /\ j[1] < j[2] /\ \A h \in Halves(j) : status'[h] # "NONE"

(* Who owns a running job is the worker whose attempt it names. *)
LEMMA OwnerRuns ==
  ASSUME TypeOK, Claims, Passes, NEW w \in Workers, pc[w] \in Working
  PROVE  /\ MyJob(w) \in Jobs /\ mine[w] \in 1..last /\ mine[w] \in Generation /\ mine[w] # None
         /\ Owns(w) => status[MyJob(w)] = "RUNNING" /\ gen[MyJob(w)] = mine[w] /\ mine[w] \in open
                       /\ parent[mine[w]] = source[MyJob(w)]
<1>1. MyJob(w) \in Jobs /\ mine[w] # None /\ mine[w] \in 1..last
  BY DEF Passes
<1>2. mine[w] \in Generation
  BY <1>1 DEF TypeOK
<1>3. ASSUME Owns(w)
      PROVE  /\ status[MyJob(w)] = "RUNNING" /\ gen[MyJob(w)] = mine[w] /\ mine[w] \in open
             /\ parent[mine[w]] = source[MyJob(w)]
  BY <1>1, <1>3 DEF Passes, Owns, Claims
<1> QED
  BY <1>1, <1>2, <1>3

LEMMA EndKeeps ==
  ASSUME SyncInv, TypeOK', NEW w \in Workers, Ends(w) PROVE SyncInv'
<1>0. PICK j \in Jobs, g \in Generation : j = MyJob(w) /\ g = mine[w]
  BY OwnerRuns DEF SyncInv, Ends
<1>1. /\ j \in Jobs /\ g \in 1..last /\ g \in Generation /\ g # None /\ last \in Nat
      /\ Owns(w) => status[j] = "RUNNING" /\ gen[j] = g /\ g \in open /\ parent[g] = source[j]
  BY <1>0, OwnerRuns DEF SyncInv, Ends, TypeOK
<1>2. /\ gen' = gen /\ last' = last /\ jobOf' = jobOf /\ parent' = parent /\ kept' = kept /\ mine' = mine
      /\ open' = open \ {g} \/ (~Owns(w) /\ open' = open)
      /\ pc[w] \in Working
      /\ pc'[w] \notin Working /\ \A v \in Workers \ {w} : pc'[v] = pc[v]
  <2>1. pc \in [Workers -> Phase]
    BY DEF SyncInv, TypeOK
  <2> QED
    BY <1>0, <2>1 DEF Ends, Working
<1>3. ASSUME NEW i \in Jobs, i # j \/ ~Owns(w)
      PROVE  /\ source'[i] = source[i] /\ coverage'[i] = coverage[i]
             /\ (status'[i] = "RUNNING" <=> status[i] = "RUNNING") /\ (status'[i] = "SPLIT" <=> status[i] = "SPLIT")
             /\ (status[i] # "NONE" => status'[i] # "NONE") /\ (status[i] \in Queued => status'[i] \in Queued)
  <2>1. Requeued(status[i], status'[i]) /\ source'[i] = source[i] /\ coverage'[i] = coverage[i]
    BY <1>0, <1>3 DEF Ends, Requeued
  <2>2. status[i] \in Status /\ status'[i] \in Status
    BY DEF SyncInv, TypeOK
  <2> QED
    BY <2>1, <2>2, RunningIsSame
<1>4. ASSUME Owns(w)
      PROVE  /\ status'[j] \notin {"NONE", "RUNNING"}
             /\ source'[j] = None \/ (source'[j] = source[j] /\ status'[j] = "WAITING")
             /\ coverage'[j] = coverage[j] \/ (/\ coverage'[j] = Origin(g) /\ pc[w] = "JUDGING"
                                               /\ source'[j] = None)
             /\ status'[j] = "SPLIT" =>
                  j \in Shards /\ j[1] < j[2] /\ \A h \in Halves(j) : status'[h] # "NONE"
  BY <1>0, <1>4 DEF Ends
<1>5. ASSUME NEW i \in Jobs, status[i] = "RUNNING", gen[i] = g PROVE i = j
  BY <1>0, <1>5 DEF SyncInv, Claims, MyJob
<1>6. Claims'
  <2>1. \A i \in Jobs : status'[i] = "RUNNING" => status[i] = "RUNNING" /\ source'[i] = source[i]
    BY <1>3, <1>4
  <2>2. ASSUME NEW i \in Jobs, status'[i] = "RUNNING" PROVE gen[i] \in open'
    <3>1. gen[i] \in open
      BY <2>1, <2>2 DEF SyncInv, Claims
    <3>2. gen[i] # g
      BY <1>0, <1>1, <1>4, <1>5, <2>1, <2>2 DEF Owns
    <3> QED
      BY <1>2, <3>1, <3>2
  <2> QED
    BY <1>2, <2>1, <2>2 DEF SyncInv, Claims
<1>7. Passes'
  <2>1. ASSUME NEW v \in Workers, pc'[v] \in Working
        PROVE  /\ mine'[v] # None /\ MyJob(v)' \in Jobs
               /\ Owns(v)' => status'[MyJob(v)'] = "RUNNING"
               /\ pc'[v] = "JUDGING" => mine'[v] \in kept'
    <3>1. v # w /\ pc'[v] = pc[v] /\ MyJob(v)' = MyJob(v) /\ (Owns(v)' <=> Owns(v))
      BY <1>2, <2>1 DEF MyJob, Owns
    <3>2. /\ mine[v] # None /\ MyJob(v) \in Jobs /\ (Owns(v) => status[MyJob(v)] = "RUNNING")
          /\ pc[v] = "JUDGING" => mine[v] \in kept
      BY <2>1, <3>1 DEF SyncInv, Passes
    <3>3. ASSUME Owns(v) PROVE MyJob(v) # j \/ ~Owns(w)
      <4>1. mine[v] # g
        BY <1>0, <1>1, <3>1 DEF SyncInv, Passes
      <4> QED
        BY <1>0, <1>1, <3>3, <4>1 DEF Owns
    <3> QED
      BY <1>2, <1>3, <3>1, <3>2, <3>3
  <2> QED
    BY <1>2, <2>1 DEF SyncInv, Passes
<1>8. ASSUME NEW i \in Jobs PROVE Retained(i) \subseteq Retained(i)'
  BY <1>2 DEF Retained
<1>9. Sources'
  <2>1. ASSUME NEW i \in Jobs, i # j \/ ~Owns(w)
        PROVE  /\ coverage'[i] # 0 => coverage'[i] \in Retained(i)'
               /\ source'[i] # None => /\ status'[i] \in Queued
                                       /\ source'[i] \in Retained(i)' /\ coverage'[i] <= source'[i]
               /\ status'[i] = "RUNNING" /\ source'[i] = None => coverage'[i] < gen'[i]
    BY <1>2, <1>3, <1>8, <2>1 DEF SyncInv, Sources
  <2>2. ASSUME Owns(w)
        PROVE  /\ coverage'[j] # 0 => coverage'[j] \in Retained(j)'
               /\ source'[j] # None => /\ status'[j] \in Queued
                                       /\ source'[j] \in Retained(j)' /\ coverage'[j] <= source'[j]
               /\ status'[j] = "RUNNING" /\ source'[j] = None => coverage'[j] < gen'[j]
    <3>1. /\ coverage[j] # 0 => coverage[j] \in Retained(j)
          /\ source[j] # None => source[j] \in Retained(j) /\ coverage[j] <= source[j]
      BY <1>1 DEF SyncInv, Sources
    <3>2. source'[j] # None => /\ status'[j] \in Queued /\ source'[j] \in Retained(j)'
                               /\ coverage'[j] <= source'[j]
      BY <1>1, <1>4, <1>8, <2>2, <3>1 DEF Queued
    <3>3. ASSUME coverage'[j] = Origin(g), pc[w] = "JUDGING" PROVE coverage'[j] \in Retained(j)'
      <4>1. CASE parent[g] = None
        <5>1. g \in kept /\ jobOf[g] = j /\ g \notin open'
          BY <1>0, <1>2, <2>2, <3>3 DEF SyncInv, Passes, Working, MyJob
        <5> QED
          BY <1>2, <3>3, <4>1, <5>1 DEF Retained, Origin
      <4>2. CASE parent[g] # None
        BY <1>1, <1>8, <2>2, <3>1, <3>3, <4>2 DEF Origin
      <4> QED
        BY <4>1, <4>2
    <3> QED
      BY <1>1, <1>4, <1>8, <2>2, <3>1, <3>2, <3>3
  <2> QED
    BY <1>1, <2>1, <2>2 DEF Sources
<1>10. Splits'
  <2>1. \A i \in Jobs : status[i] # "NONE" => status'[i] # "NONE"
    BY <1>3, <1>4
  <2>2. \A s \in Shards : s[1] < s[2] => Halves(s) \subseteq Jobs
    BY HalvesCover DEF Jobs
  <2>3. ASSUME NEW s \in Jobs, status'[s] = "SPLIT"
        PROVE  s \in Shards /\ s[1] < s[2] /\ \A h \in Halves(s) : status'[h] # "NONE"
    <3>1. CASE s = j /\ Owns(w)
      BY <1>4, <2>3, <3>1
    <3>2. CASE s # j \/ ~Owns(w)
      <4>1. s \in Shards /\ s[1] < s[2] /\ \A h \in Halves(s) : status[h] # "NONE"
        BY <1>3, <2>3, <3>2 DEF SyncInv, Splits
      <4> QED
        BY <2>1, <2>2, <4>1
    <3> QED
      BY <3>1, <3>2
  <2> QED
    BY <2>3 DEF Splits
<1> QED
  BY <1>6, <1>7, <1>9, <1>10 DEF SyncInv
LEMMA FinishEnds ==
  ASSUME SyncInv, NEW w \in Workers, pc[w] \in Working, NEW result \in {"WAITING", "BLOCKED", "DENIED"},
         Finish(w, result), UNCHANGED <<coverage, mine>>,
         NEW p \in {"ENDING", "PAUSING"}, Goto(w, p)
  PROVE  Ends(w)
<1>0. PICK j \in Jobs : j = MyJob(w)
  BY OwnerRuns DEF SyncInv
<1>1. status \in [Jobs -> Status] /\ source \in [Jobs -> Generation \union {None}]
  BY DEF SyncInv, TypeOK
<1>2. UNCHANGED <<gen, last, jobOf, parent, kept, mine, coverage>> /\ open' = open \ {mine[w]}
  BY DEF Finish
<1>3. ~Owns(w) => UNCHANGED <<status, source, coverage>>
  BY DEF Finish
<1>4. ASSUME Owns(w)
      PROVE  /\ status'[j] = result
             /\ \A i \in Jobs \ {j} : status'[i] = status[i] /\ source'[i] = source[i]
             /\ source'[j] = None \/ (source'[j] = source[j] /\ status'[j] = "WAITING")
  <2>1. status' = [status EXCEPT ![j] = result]
    BY <1>0, <1>4 DEF Finish
  <2>2. (source' = source /\ result = "WAITING") \/ source' = [source EXCEPT ![j] = None]
    BY <1>0, <1>4 DEF Finish
  <2> QED
    BY <1>1, <2>1, <2>2
<1>5. result \in Status \ {"NONE", "RUNNING", "SPLIT"}
  BY DEF Status, Blocked
<1>6. \A i \in Jobs : status'[i] = status[i] => Requeued(status[i], status'[i])
  BY DEF Requeued
<1>7. \E q \in {"ENDING", "PAUSING"} : pc' = [pc EXCEPT ![w] = q]
  BY DEF Goto
<1> QED
  BY <1>0, <1>2, <1>3, <1>4, <1>5, <1>6, <1>7 DEF Ends

LEMMA EndSteps ==
  ASSUME SyncInv, NEW w \in Workers,
         \/ FetchFails(w) \/ Breakdown(w) \/ JudgeEmpty(w) \/ JudgeBad(w) \/ Truncated(w) \/ Commit(w)
  PROVE  Ends(w)
<1>1. pc[w] \in Working
  BY DEF FetchFails, Breakdown, JudgeEmpty, JudgeBad, Truncated, Commit, Working
<1>2. /\ MyJob(w) \in Jobs /\ mine[w] \in Generation
      /\ Owns(w) => parent[mine[w]] = source[MyJob(w)]
  BY <1>1, OwnerRuns DEF SyncInv
<1>3. /\ status \in [Jobs -> Status] /\ source \in [Jobs -> Generation \union {None}]
      /\ coverage \in [Jobs -> 0..MaxAttempts]
  BY DEF SyncInv, TypeOK
<1>4. PICK j \in Jobs : j = MyJob(w)
  BY <1>2
<1>5. CASE FetchFails(w) \/ Breakdown(w) \/ JudgeEmpty(w) \/ JudgeBad(w)
  <2>1. PICK result \in {"WAITING", "BLOCKED", "DENIED"} : Finish(w, result)
    <3>1. (\E retry, waiting : Fail(w, retry, waiting)) \/ Finish(w, "DENIED")
      BY <1>5 DEF FetchFails, Breakdown, JudgeEmpty, JudgeBad
    <3>2. ASSUME NEW retry, NEW waiting, Fail(w, retry, waiting) PROVE Finish(w, "WAITING") \/ Finish(w, "BLOCKED")
      BY <3>2, FailFinishes
    <3> QED
      BY <3>1, <3>2
  <2>2. UNCHANGED <<coverage, mine>> /\ \E p \in {"ENDING", "PAUSING"} : Goto(w, p)
    BY <1>5 DEF FetchFails, Breakdown, JudgeEmpty, JudgeBad
  <2> QED
    BY <1>1, <2>1, <2>2, FinishEnds
<1>6. CASE Truncated(w)
  <2>1. /\ UNCHANGED <<gen, last, jobOf, parent, kept, mine, coverage>>
        /\ \E p \in {"ENDING", "PAUSING"} : pc' = [pc EXCEPT ![w] = p]
    BY <1>6 DEF Truncated, Goto
  <2>2. /\ open' = open \ {mine[w]} \/ (~Owns(w) /\ open' = open)
        /\ ~Owns(w) => UNCHANGED <<status, source>>
    BY <1>6 DEF Truncated
  <2>3. ASSUME Owns(w)
        PROVE  /\ status'[j] \in {"SPLIT", "BLOCKED"}
               /\ \A i \in Jobs \ {j} : Requeued(status[i], status'[i]) /\ source'[i] = source[i]
               /\ source'[j] = None
               /\ status'[j] = "SPLIT" =>
                    j \in Shards /\ j[1] < j[2] /\ \A h \in Halves(j) : status'[h] # "NONE"
    <3>1. source' = [source EXCEPT ![j] = None]
      BY <1>4, <1>6, <2>3 DEF Truncated
    <3>2. PICK divided \in BOOLEAN :
            /\ divided => j \in Shards /\ j[1] < j[2]
            /\ status' = [i \in Jobs |-> IF i = j THEN IF divided THEN "SPLIT" ELSE "BLOCKED"
                                         ELSE IF divided THEN Enqueued(Halves(j))[i] ELSE status[i]]
      BY <1>4, <1>6, <2>3 DEF Truncated
    <3>3. \A i \in Jobs : /\ Requeued(status[i], Enqueued(Halves(j))[i])
                          /\ i \in Halves(j) => Enqueued(Halves(j))[i] # "NONE"
      BY DEF Enqueued, Requeued
    <3>4. \A i \in Jobs : Requeued(status[i], status[i])
      BY DEF Requeued
    <3>5. divided => Halves(j) \subseteq Jobs
      BY <3>2, HalvesCover DEF Jobs
    <3> QED
      BY <1>3, <3>1, <3>2, <3>3, <3>4, <3>5
  <2>4. {"SPLIT", "BLOCKED"} \subseteq Status \ {"NONE", "RUNNING"}
    BY DEF Status, Blocked
  <2> QED
    BY <1>1, <1>4, <2>1, <2>2, <2>3, <2>4 DEF Ends
<1>7. CASE Commit(w)
  <2>1. /\ UNCHANGED <<gen, last, jobOf, parent, kept, mine>> /\ pc[w] = "JUDGING"
        /\ \E p \in {"ENDING", "PAUSING"} : pc' = [pc EXCEPT ![w] = p]
    BY <1>7 DEF Commit, Goto
  <2>2. /\ open' = open \ {mine[w]} \/ (~Owns(w) /\ open' = open)
        /\ ~Owns(w) => UNCHANGED <<status, source, coverage>>
    BY <1>7 DEF Commit
  <2>3. ASSUME Owns(w)
        PROVE  /\ status'[j] = "VALIDATED" /\ source'[j] = None /\ coverage'[j] = Origin(mine[w])
               /\ \A i \in Jobs \ {j} : /\ status'[i] = status[i] /\ source'[i] = source[i]
                                        /\ coverage'[i] = coverage[i]
    <3>1. /\ status' = [status EXCEPT ![j] = "VALIDATED"] /\ source' = [source EXCEPT ![j] = None]
          /\ coverage' = [coverage EXCEPT ![j] = Origin(mine[w])]
      BY <1>4, <1>7, <2>3 DEF Commit
    <3> QED
      BY <1>3, <3>1
  <2>4. \A i \in Jobs : status'[i] = status[i] => Requeued(status[i], status'[i])
    BY DEF Requeued
  <2>5. "VALIDATED" \in Status \ {"NONE", "RUNNING", "SPLIT"}
    BY DEF Status
  <2> QED
    BY <1>1, <1>4, <2>1, <2>2, <2>3, <2>4, <2>5 DEF Ends
<1> QED
  BY <1>5, <1>6, <1>7

-----------------------------------------------------------------------------
(* The remaining steps. *)

LEMMA RecoverKeeps ==
  ASSUME SyncInv, TypeOK', NEW w \in Workers, Recover(w) PROVE SyncInv'
<1>1. /\ open' \subseteq open /\ UNCHANGED <<source, coverage, last, jobOf, parent, kept, mine>>
      /\ pc' = [pc EXCEPT ![w] = "REFRESHING"]
  BY DEF Recover, Goto
<1>2. \A j \in Jobs : /\ status'[j] = IF status[j] = "RUNNING" THEN "PENDING" ELSE status[j]
                      /\ gen'[j] = IF status[j] = "RUNNING" THEN None ELSE gen[j]
  BY DEF Recover, Requeue
<1>3. Claims'
  BY <1>1, <1>2 DEF SyncInv, Claims
<1>4. Passes'
  <2>1. ASSUME NEW v \in Workers, pc'[v] \in Working
        PROVE  /\ mine'[v] # None /\ MyJob(v)' \in Jobs
               /\ Owns(v)' => status'[MyJob(v)'] = "RUNNING"
               /\ pc'[v] = "JUDGING" => mine'[v] \in kept'
    <3>1. pc'[v] = pc[v]
      BY <1>1, <2>1 DEF SyncInv, TypeOK, Working
    <3>2. MyJob(v)' = MyJob(v) /\ MyJob(v) \in Jobs /\ mine[v] # None
      BY <1>1, <2>1, <3>1 DEF SyncInv, Passes, MyJob
    <3>3. Owns(v)' => Owns(v) /\ status[MyJob(v)] # "RUNNING"
      BY <1>1, <1>2, <3>2 DEF Owns
    <3> QED
      BY <1>1, <2>1, <3>1, <3>2, <3>3 DEF SyncInv, Passes
  <2> QED
    BY <1>1, <2>1 DEF SyncInv, Passes
<1>5. Sources'
  <2>1. \A j \in Jobs : Retained(j) \subseteq Retained(j)'
    BY <1>1 DEF Retained
  <2> QED
    BY <1>1, <1>2, <2>1 DEF SyncInv, Sources, Queued
<1>6. Splits'
  <2>1. \A s \in Shards : s[1] < s[2] => Halves(s) \subseteq Jobs
    BY HalvesCover DEF Jobs
  <2> QED
    BY <1>2, <2>1 DEF SyncInv, Splits
<1> QED
  BY <1>3, <1>4, <1>5, <1>6 DEF SyncInv

LEMMA KeepKeeps ==
  ASSUME SyncInv, TypeOK', NEW w \in Workers, Keep(w) PROVE SyncInv'
<1>1. /\ UNCHANGED <<status, gen, source, coverage, last, jobOf, parent, open, mine>>
      /\ kept' = kept \union {mine[w]} /\ pc' = [pc EXCEPT ![w] = "JUDGING"] /\ pc[w] = "FETCHING"
  BY DEF Keep, Goto, jobVars
<1>2. mine[w] \in 1..last /\ mine[w] # None
  BY <1>1 DEF SyncInv, Passes, Working
<1>3. Claims'
  <2>1. kept' \subseteq 1..last
    BY <1>1, <1>2 DEF SyncInv, Claims
  <2> QED
    BY <1>1, <2>1 DEF SyncInv, Claims
<1>4. Passes'
  <2>1. \A v \in Workers : /\ MyJob(v)' = MyJob(v) /\ (Owns(v)' <=> Owns(v))
                           /\ pc'[v] = pc[v] \/ (v = w /\ pc'[v] = "JUDGING")
    BY <1>1 DEF MyJob, Owns, SyncInv, TypeOK
  <2> QED
    BY <1>1, <1>2, <2>1 DEF SyncInv, Passes, Working
<1>5. Sources'
  <2>1. \A j \in Jobs : Retained(j) \subseteq Retained(j)'
    BY <1>1 DEF Retained
  <2> QED
    BY <1>1, <2>1 DEF SyncInv, Sources
<1>6. Splits'
  BY <1>1 DEF SyncInv, Splits
<1> QED
  BY <1>3, <1>4, <1>5, <1>6 DEF SyncInv

LEMMA ReprocessKeeps ==
  ASSUME SyncInv, TypeOK', NEW j \in Jobs, NEW g \in Generation, Reprocess(j, g) PROVE SyncInv'
<1>1. /\ UNCHANGED <<gen, coverage, last, jobOf, parent, open, kept, mine, pc>>
      /\ status' = [status EXCEPT ![j] = "PENDING"] /\ source' = [source EXCEPT ![j] = g]
      /\ status[j] \in {"VALIDATED", "PENDING", "WAITING"} \union Blocked
      /\ g \in Retained(j) /\ \A h \in Retained(j) : h <= g
  BY DEF Reprocess, MayReprocess, IsLatest, attemptVars, workerVars
<1>2. /\ status'[j] = "PENDING" /\ source'[j] = g /\ status[j] \notin {"RUNNING", "SPLIT"}
      /\ \A i \in Jobs \ {j} : status'[i] = status[i] /\ source'[i] = source[i]
  BY <1>1 DEF SyncInv, TypeOK, Blocked
<1>3. Claims'
  BY <1>1, <1>2 DEF SyncInv, Claims
<1>4. Passes'
  <2>1. \A v \in Workers : MyJob(v)' = MyJob(v) /\ (Owns(v)' <=> Owns(v))
    BY <1>1 DEF MyJob, Owns
  <2> QED
    BY <1>1, <1>2, <2>1 DEF SyncInv, Passes
<1>5. Sources'
  <2>1. \A i \in Jobs : Retained(i)' = Retained(i)
    BY <1>1 DEF Retained
  <2>2. coverage[j] <= g
    BY <1>1 DEF SyncInv, Sources, TypeOK, Generation
  <2> QED
    BY <1>1, <1>2, <2>1, <2>2 DEF SyncInv, Sources, Queued
<1>6. Splits'
  <2>1. \A s \in Shards : s[1] < s[2] => Halves(s) \subseteq Jobs
    BY HalvesCover DEF Jobs
  <2> QED
    BY <1>2, <2>1 DEF SyncInv, Splits
<1> QED
  BY <1>3, <1>4, <1>5, <1>6 DEF SyncInv

LEMMA ClaimKeeps ==
  ASSUME SyncInv, TypeOK', NEW w \in Workers, NEW j \in Jobs, Claim(w, j) PROVE SyncInv'
<1> DEFINE n == last + 1
<1>1. /\ last \in Nat /\ n \in Generation /\ n \notin 1..last /\ 1..last' = 1..last \union {n}
      /\ n # None
  BY Basics DEF SyncInv, Claim, Generation
<1>2. /\ UNCHANGED <<source, coverage, kept>> /\ last' = n
      /\ jobOf' = [jobOf EXCEPT ![n] = j] /\ parent' = [parent EXCEPT ![n] = source[j]]
      /\ open' = open \union {n} /\ status' = [status EXCEPT ![j] = "RUNNING"]
      /\ gen' = [gen EXCEPT ![j] = n] /\ mine' = [mine EXCEPT ![w] = n]
      /\ pc' = [pc EXCEPT ![w] = "FETCHING"]
  BY DEF Claim, Goto
<1>3. status[j] \in {"PENDING", "WAITING"}
  BY DEF Claim, Claimable, Waiting
<1>4. /\ status'[j] = "RUNNING" /\ gen'[j] = n /\ jobOf'[n] = j /\ parent'[n] = source[j]
      /\ mine'[w] = n /\ pc'[w] = "FETCHING"
      /\ \A i \in Jobs \ {j} : status'[i] = status[i] /\ gen'[i] = gen[i]
      /\ \A h \in 1..last : jobOf'[h] = jobOf[h] /\ parent'[h] = parent[h] /\ h \in Generation
      /\ \A v \in Workers \ {w} : mine'[v] = mine[v] /\ pc'[v] = pc[v]
  <2>1. 1..last \subseteq Generation
    BY Basics DEF SyncInv, Generation
  <2> QED
    BY <1>1, <1>2, <2>1 DEF SyncInv, TypeOK
<1> HIDE DEF n
<1>5. Claims'
  <2>1. \A i \in Jobs : status'[i] = "RUNNING" =>
          /\ gen'[i] \in 1..last' /\ gen'[i] \in open'
          /\ jobOf'[gen'[i]] = i /\ parent'[gen'[i]] = source'[i]
    BY <1>1, <1>2, <1>4 DEF SyncInv, Claims
  <2> QED
    BY <1>1, <1>2, <2>1 DEF SyncInv, Claims
<1>6. Passes'
  <2>1. ASSUME NEW v \in Workers \ {w}, pc'[v] \in Working
        PROVE  /\ mine'[v] # None /\ MyJob(v)' \in Jobs
               /\ Owns(v)' => status'[MyJob(v)'] = "RUNNING"
               /\ pc'[v] = "JUDGING" => mine'[v] \in kept'
    <3>1. /\ mine'[v] = mine[v] /\ mine[v] \in 1..last /\ mine[v] # None /\ pc'[v] = pc[v]
      BY <1>4, <2>1 DEF SyncInv, Passes
    <3>2. MyJob(v)' = MyJob(v) /\ MyJob(v) \in Jobs
      BY <1>4, <2>1, <3>1 DEF SyncInv, Passes, MyJob
    <3>3. Owns(v)' => Owns(v)
      BY <1>1, <1>4, <3>1, <3>2 DEF Owns
    <3> QED
      BY <1>2, <1>4, <2>1, <3>1, <3>2, <3>3 DEF SyncInv, Passes
  <2>2. mine'[w] # None /\ MyJob(w)' \in Jobs /\ (Owns(w)' => status'[MyJob(w)'] = "RUNNING")
    BY <1>1, <1>4 DEF MyJob
  <2>3. \A v \in Workers : mine'[v] \in 1..last' \union {None}
    BY <1>1, <1>4 DEF SyncInv, Passes
  <2>4. \A u, v \in Workers : mine'[u] = mine'[v] /\ mine'[u] # None => u = v
    BY <1>1, <1>4 DEF SyncInv, Passes
  <2> QED
    BY <1>4, <2>1, <2>2, <2>3, <2>4 DEF Passes
<1>7. Sources'
  <2>1. \A i \in Jobs : Retained(i) \subseteq Retained(i)'
    BY <1>1, <1>2, <1>4 DEF SyncInv, Claims, Retained
  <2>2. \A i \in Jobs : coverage[i] # 0 => coverage[i] \in 1..last
    BY DEF SyncInv, Sources, Claims, Retained
  <2>3. coverage[j] < n
    BY <1>1, <2>2 DEF n
  <2> QED
    BY <1>2, <1>3, <1>4, <2>1, <2>3 DEF SyncInv, Sources, Queued
<1>8. Splits'
  <2>1. \A s \in Shards : s[1] < s[2] => Halves(s) \subseteq Jobs
    BY HalvesCover DEF Jobs
  <2> QED
    BY <1>4, <2>1 DEF SyncInv, Splits
<1> QED
  BY <1>5, <1>6, <1>7, <1>8 DEF SyncInv
-----------------------------------------------------------------------------
(* The invariant. *)

LEMMA SyncOpens == Init => SyncInv
<1> SUFFICES ASSUME Init PROVE SyncInv
  OBVIOUS
<1>1. TypeOK
  BY TypesHold
<1>2. /\ \A j \in Jobs : status[j] = "NONE" /\ source[j] = None /\ coverage[j] = 0
      /\ \A w \in Workers : mine[w] = None /\ pc[w] \notin Working
      /\ open = {} /\ kept = {}
  BY DEF Init, Working
<1>3. Claims
  BY <1>2 DEF Claims
<1>4. Passes /\ Sources /\ Splits
  BY <1>2 DEF Passes, Sources, Splits
<1> QED
  BY <1>1, <1>3, <1>4 DEF SyncInv

LEMMA SyncStays == SyncInv /\ [Next]_vars => SyncInv'
<1> SUFFICES ASSUME SyncInv, [Next]_vars PROVE SyncInv'
  OBVIOUS
<1>1. TypeOK /\ TypeOK'
  BY TypesStay DEF SyncInv
<1>2. CASE \/ LoseLock \/ RefreshTime \/ UNCHANGED vars
           \/ \E on \in BOOLEAN : Configure(on)
  BY <1>1, <1>2, StillIdles, IdleKeeps
<1>3. ASSUME NEW w \in Workers,
             \/ Start(w) \/ Begin(w) \/ Interrupt(w) \/ Refresh(w) \/ Plan(w) \/ NoClaim(w) \/ Pause(w)
             \/ Return(w) \/ Crash(w)
      PROVE  SyncInv'
  BY <1>1, <1>3, IdleSteps, IdleKeeps
<1>4. ASSUME NEW w \in Workers,
             \/ FetchFails(w) \/ Breakdown(w) \/ JudgeEmpty(w) \/ JudgeBad(w) \/ Truncated(w) \/ Commit(w)
      PROVE  SyncInv'
  BY <1>1, <1>4, EndSteps, EndKeeps
<1>5. ASSUME NEW w \in Workers, Recover(w) \/ Keep(w) \/ \E j \in Jobs : Claim(w, j)
      PROVE  SyncInv'
  BY <1>1, <1>5, RecoverKeeps, KeepKeeps, ClaimKeeps
<1>6. ASSUME NEW j \in Jobs, NEW g \in Generation, Reprocess(j, g) PROVE SyncInv'
  BY <1>1, <1>6, ReprocessKeeps
<1> QED
  BY <1>2, <1>3, <1>4, <1>5, <1>6 DEF Next, Environment, UserStep, PassStep

THEOREM SyncInvariant == Spec => []SyncInv
<1>1. Init => SyncInv
  BY SyncOpens
<1>2. SyncInv /\ [Next]_vars => SyncInv'
  BY SyncStays
<1> QED
  BY <1>1, <1>2, PTL DEF Spec

-----------------------------------------------------------------------------
(* How workers and the lock go on. *)

(* From where a worker stands it goes on to one of these. *)
Ways == { <<"OFF", "IDLE">>, <<"IDLE", "RECOVERING">>, <<"RECOVERING", "RESETTING">>,
          <<"RESETTING", "REFRESHING">>, <<"REFRESHING", "PLANNING">>, <<"PLANNING", "CLAIMING">>,
          <<"CLAIMING", "FETCHING">>, <<"CLAIMING", "ENDING">>,
          <<"FETCHING", "JUDGING">>, <<"FETCHING", "PAUSING">>, <<"FETCHING", "ENDING">>,
          <<"JUDGING", "PAUSING">>, <<"JUDGING", "ENDING">>, <<"PAUSING", "ENDING">>,
          <<"ENDING", "IDLE">>, <<"ENDING", "OFF">> }

LEMMA PassGoes ==
  ASSUME TypeOK, NEW w \in Workers, PassStep(w) \/ Start(w)
  PROVE  /\ <<pc[w], pc'[w]>> \in Ways /\ \A v \in Workers \ {w} : pc'[v] = pc[v]
         /\ PassStep(w) <=> pc[w] # "OFF"
<1> USE DEF Goto
<1>1. pc \in [Workers -> Phase]
  BY DEF TypeOK
<1> DEFINE Goes == <<pc[w], pc'[w]>> \in Ways /\ \A v \in Workers \ {w} : pc'[v] = pc[v]
<1>2. ASSUME NEW p, NEW q, pc[w] = p, <<p, q>> \in Ways, pc' = [pc EXCEPT ![w] = q] PROVE Goes
  BY <1>1, <1>2
<1>3. ASSUME Start(w) \/ Begin(w) \/ Interrupt(w) \/ Recover(w) \/ Refresh(w) \/ Plan(w) PROVE Goes
  <2>1. PICK p, q : pc[w] = p /\ <<p, q>> \in Ways /\ pc' = [pc EXCEPT ![w] = q]
    BY <1>3 DEF Start, Begin, Interrupt, Recover, Refresh, Plan, Ways
  <2> QED
    BY <1>2, <2>1
<1>4. ASSUME NoClaim(w) \/ FetchFails(w) \/ Keep(w) \/ Breakdown(w) \/ Pause(w) PROVE Goes
  <2>1. PICK p, q : pc[w] = p /\ <<p, q>> \in Ways /\ pc' = [pc EXCEPT ![w] = q]
    BY <1>4 DEF NoClaim, FetchFails, Keep, Breakdown, Pause, Ways
  <2> QED
    BY <1>2, <2>1
<1>5. ASSUME JudgeEmpty(w) \/ JudgeBad(w) \/ Truncated(w) \/ Commit(w) \/ Return(w) PROVE Goes
  <2>1. PICK p, q : pc[w] = p /\ <<p, q>> \in Ways /\ pc' = [pc EXCEPT ![w] = q]
    BY <1>5 DEF JudgeEmpty, JudgeBad, Truncated, Commit, Return, Ways
  <2> QED
    BY <1>2, <2>1
<1>6. ASSUME NEW j \in Jobs, Claim(w, j) PROVE Goes
  BY <1>2, <1>6 DEF Claim, Ways
<1>7. PassStep(w) => pc[w] # "OFF"
  BY DEF PassStep, Begin, Interrupt, Recover, Refresh, Plan, NoClaim, FetchFails, Keep, Breakdown, Pause,
     JudgeEmpty, JudgeBad, Truncated, Commit, Return, Claim
<1>8. Start(w) => pc[w] = "OFF"
  BY DEF Start
<1> QED
  BY <1>3, <1>4, <1>5, <1>6, <1>7, <1>8 DEF PassStep

(* Who holds the lock changes when a pass begins or ends, and by faults. *)
LEMMA LockGoes ==
  ASSUME NEW w \in Workers, PassStep(w) \/ Start(w)
  PROVE  /\ UNCHANGED faults
         /\ \/ owner' = owner
            \/ owner = None /\ owner' = w /\ Begin(w)
            \/ owner = w /\ owner' = None /\ Return(w)
<1>1. CASE Begin(w) \/ Return(w)
  BY <1>1 DEF Begin, Return
<1>2. CASE \/ Start(w) \/ Interrupt(w) \/ Recover(w) \/ Refresh(w) \/ Plan(w) \/ NoClaim(w) \/ FetchFails(w)
           \/ Keep(w) \/ Breakdown(w) \/ Pause(w)
  BY <1>2 DEF Start, Interrupt, Recover, Refresh, Plan, NoClaim, FetchFails, Keep, Breakdown, Pause
<1>3. CASE JudgeEmpty(w) \/ JudgeBad(w) \/ Truncated(w) \/ Commit(w) \/ \E j \in Jobs : Claim(w, j)
  BY <1>3 DEF JudgeEmpty, JudgeBad, Truncated, Commit, Claim
<1> QED
  BY <1>1, <1>2, <1>3 DEF PassStep

-----------------------------------------------------------------------------
(* What it gives. *)

(* Where no lock was ever lost, one worker is in a pass, nothing is claimed or
   ended between the two statements of its recovery, and every open attempt is
   that of a running job. *)
Alone ==
  faults.lock = 0 =>
    /\ \A w \in Workers : pc[w] \notin {"OFF", "IDLE"} => owner = w
    /\ \A w \in Workers : pc[w] = "RESETTING" => open \subseteq interrupted[w]
    /\ \A g \in open : \E j \in Jobs : status[j] = "RUNNING" /\ gen[j] = g

LEMMA PassIsAlone ==
  ASSUME SyncInv, Alone, faults.lock = 0, [Next]_vars, ~LoseLock
  PROVE  /\ \A v \in Workers : pc'[v] \notin {"OFF", "IDLE"} => owner' = v
         /\ \A v \in Workers : pc'[v] = "RESETTING" => open' \subseteq interrupted'[v]
<1>0. SUFFICES ASSUME NEW v \in Workers
               PROVE  /\ pc'[v] \notin {"OFF", "IDLE"} => owner' = v
                      /\ pc'[v] = "RESETTING" => open' \subseteq interrupted'[v]
  OBVIOUS
<1>1. /\ pc \in [Workers -> Phase] /\ None \notin Workers /\ interrupted \in [Workers -> SUBSET Generation]
  BY SyncAssumption DEF SyncAssumption, SyncInv, TypeOK
<1>2. /\ \A w \in Workers : pc[w] \notin {"OFF", "IDLE"} => owner = w
      /\ \A w \in Workers : pc[w] = "RESETTING" => open \subseteq interrupted[w]
  BY DEF Alone
<1>3. CASE Start(v) \/ PassStep(v)
  <2>1. <<pc[v], pc'[v]>> \in Ways
    BY <1>3, PassGoes DEF SyncInv
  <2>2. ASSUME pc'[v] \notin {"OFF", "IDLE"} PROVE owner' = v
    <3>1. CASE pc[v] = "IDLE"
      <4>1. Begin(v)
        BY <1>3, <3>1 DEF PassStep, Start, Begin, Interrupt, Recover, Refresh, Plan, NoClaim, FetchFails,
           Keep, Breakdown, Pause, JudgeEmpty, JudgeBad, Truncated, Commit, Return, Claim
      <4> QED
        BY <4>1 DEF Begin
    <3>2. CASE pc[v] # "IDLE"
      <4>1. pc[v] # "OFF" /\ ~Begin(v) /\ ~Return(v)
        BY <1>1, <2>1, <2>2, <3>2 DEF Ways, Begin, Return, Goto
      <4> QED
        BY <1>2, <1>3, <3>2, <4>1, LockGoes
    <3> QED
      BY <3>1, <3>2
  <2>3. ASSUME pc'[v] = "RESETTING" PROVE open' \subseteq interrupted'[v]
    <3>1. pc[v] = "RECOVERING"
      BY <2>1, <2>3 DEF Ways
    <3>2. Interrupt(v)
      BY <1>3, <3>1 DEF PassStep, Start, Begin, Interrupt, Recover, Refresh, Plan, NoClaim, FetchFails,
         Keep, Breakdown, Pause, JudgeEmpty, JudgeBad, Truncated, Commit, Return, Claim
    <3> QED
      BY <1>1, <3>2 DEF Interrupt, attemptVars
  <2> QED
    BY <2>2, <2>3
<1>4. ASSUME NEW w \in Workers \ {v}, Start(w) \/ PassStep(w), pc'[v] \notin {"OFF", "IDLE"}
      PROVE  owner' = v /\ (pc'[v] = "RESETTING" => open' \subseteq interrupted'[v])
  <2>1. pc'[v] = pc[v] /\ owner = v
    BY <1>2, <1>4, PassGoes DEF SyncInv
  <2>2. pc[w] \in {"OFF", "IDLE"}
    BY <1>2, <1>4, <2>1
  <2>3. Start(w) \/ Begin(w)
    BY <1>4, <2>2 DEF PassStep, Interrupt, Recover, Refresh, Plan, NoClaim, FetchFails,
       Keep, Breakdown, Pause, JudgeEmpty, JudgeBad, Truncated, Commit, Return, Claim
  <2>4. UNCHANGED <<owner, open, interrupted>>
    BY <1>1, <2>1, <2>3 DEF Start, Begin, attemptVars
  <2> QED
    BY <1>2, <2>1, <2>4
<1>5. ASSUME NEW w \in Workers, Crash(w), pc'[v] \notin {"OFF", "IDLE"}
      PROVE  owner' = v /\ (pc'[v] = "RESETTING" => open' \subseteq interrupted'[v])
  <2>1. v # w /\ pc'[v] = pc[v] /\ interrupted'[v] = interrupted[v] /\ open' = open
    BY <1>1, <1>5 DEF Crash, Goto, attemptVars
  <2>2. owner = v /\ owner' = v
    BY <1>2, <1>5, <2>1 DEF Crash
  <2> QED
    BY <1>2, <2>1, <2>2
<1>6. ASSUME RefreshTime \/ UserStep \/ UNCHANGED vars PROVE UNCHANGED <<pc, owner, open, interrupted>>
  BY <1>6 DEF RefreshTime, UserStep, Configure, Reprocess, vars, attemptVars, workerVars
<1>7. UNCHANGED <<pc, owner, open, interrupted>> =>
        /\ pc'[v] \notin {"OFF", "IDLE"} => owner' = v
        /\ pc'[v] = "RESETTING" => open' \subseteq interrupted'[v]
  BY <1>2
<1> QED
  BY <1>3, <1>4, <1>5, <1>6, <1>7 DEF Next, Environment

LEMMA OpenIsNamed ==
  ASSUME SyncInv, SyncInv', Alone, faults.lock = 0, [Next]_vars, NEW o \in open'
  PROVE  \E i \in Jobs : status'[i] = "RUNNING" /\ gen'[i] = o
<1>1. /\ status \in [Jobs -> Status] /\ gen \in [Jobs -> Generation \union {None}]
      /\ \A i \in Jobs : status'[i] \in Status
  BY DEF SyncInv, TypeOK
<1>2. \A g \in open : \E i \in Jobs : status[i] = "RUNNING" /\ gen[i] = g
  BY DEF Alone
<1>3. ASSUME Idles PROVE \E i \in Jobs : status'[i] = "RUNNING" /\ gen'[i] = o
  <2>1. open' = open /\ gen' = gen /\ \A i \in Jobs : Requeued(status[i], status'[i])
    BY <1>3 DEF Idles
  <2> QED
    BY <1>1, <1>2, <2>1, RunningIsSame
<1>4. ASSUME NEW w \in Workers, Ends(w) PROVE \E i \in Jobs : status'[i] = "RUNNING" /\ gen'[i] = o
  <2>1. o \in open /\ (Owns(w) => o # mine[w]) /\ gen' = gen
    BY <1>4 DEF Ends
  <2>2. PICK i \in Jobs : status[i] = "RUNNING" /\ gen[i] = o
    BY <1>2, <2>1
  <2>3. i # MyJob(w) \/ ~Owns(w)
    BY <2>1, <2>2 DEF Owns
  <2>4. Requeued(status[i], status'[i])
    BY <1>4, <2>2, <2>3 DEF Ends, Requeued
  <2> QED
    BY <1>1, <2>1, <2>2, <2>4, RunningIsSame
<1>5. ASSUME NEW w \in Workers, Recover(w) PROVE FALSE
  BY <1>5 DEF Recover, Alone
<1>6. ASSUME NEW w \in Workers, Keep(w) PROVE \E i \in Jobs : status'[i] = "RUNNING" /\ gen'[i] = o
  BY <1>2, <1>6 DEF Keep, jobVars
<1>7. ASSUME NEW w \in Workers, NEW j \in Jobs, Claim(w, j)
      PROVE  \E i \in Jobs : status'[i] = "RUNNING" /\ gen'[i] = o
  <2>1. /\ open' = open \union {last + 1} /\ status' = [status EXCEPT ![j] = "RUNNING"]
        /\ gen' = [gen EXCEPT ![j] = last + 1] /\ status[j] # "RUNNING"
    BY <1>7 DEF Claim, Claimable, Waiting
  <2> QED
    BY <1>1, <1>2, <2>1
<1>8. ASSUME NEW j \in Jobs, NEW g \in Generation, Reprocess(j, g)
      PROVE  \E i \in Jobs : status'[i] = "RUNNING" /\ gen'[i] = o
  <2>1. /\ open' = open /\ gen' = gen /\ status' = [status EXCEPT ![j] = "PENDING"]
        /\ status[j] # "RUNNING"
    BY <1>8 DEF Reprocess, MayReprocess, Blocked, attemptVars
  <2> QED
    BY <1>1, <1>2, <2>1
<1>9. CASE \/ LoseLock \/ RefreshTime \/ UNCHANGED vars
           \/ \E on \in BOOLEAN : Configure(on)
  BY <1>3, <1>9, StillIdles
<1>10. ASSUME NEW w \in Workers,
             \/ Start(w) \/ Begin(w) \/ Interrupt(w) \/ Refresh(w) \/ Plan(w) \/ NoClaim(w) \/ Pause(w)
             \/ Return(w) \/ Crash(w)
       PROVE  \E i \in Jobs : status'[i] = "RUNNING" /\ gen'[i] = o
  BY <1>3, <1>10, IdleSteps DEF SyncInv
<1>11. ASSUME NEW w \in Workers,
             \/ FetchFails(w) \/ Breakdown(w) \/ JudgeEmpty(w) \/ JudgeBad(w) \/ Truncated(w) \/ Commit(w)
       PROVE  \E i \in Jobs : status'[i] = "RUNNING" /\ gen'[i] = o
  BY <1>4, <1>11, EndSteps
<1> QED
  BY <1>5, <1>6, <1>7, <1>8, <1>9, <1>10, <1>11 DEF Next, Environment, UserStep, PassStep

(* A lock that is lost stays counted. *)
LEMMA LossesCount == TypeOK /\ [Next]_vars /\ faults'.lock = 0 => faults.lock = 0 /\ ~LoseLock
<1> SUFFICES ASSUME TypeOK, [Next]_vars, faults'.lock = 0 PROVE faults.lock = 0 /\ ~LoseLock
  OBVIOUS
<1>1. faults \in [crash : 0..MaxFaults, lock : 0..MaxFaults] /\ MaxFaults \in Nat
  BY SyncAssumption DEF SyncAssumption, TypeOK
<1>2. ~LoseLock
  BY <1>1 DEF LoseLock
<1>3. ASSUME NEW w \in Workers, PassStep(w) \/ Start(w) PROVE faults' = faults
  BY <1>3, LockGoes
<1>4. ASSUME NEW w \in Workers, Crash(w) PROVE faults'.lock = faults.lock
  BY <1>1, <1>4 DEF Crash
<1>5. RefreshTime \/ UserStep \/ UNCHANGED vars => faults' = faults
  BY DEF RefreshTime, UserStep, Configure, Reprocess, vars, workerVars
<1> QED
  BY <1>2, <1>3, <1>4, <1>5 DEF Next, Environment

LEMMA AloneStays == SyncInv /\ Alone /\ [Next]_vars => Alone'
<1> SUFFICES ASSUME SyncInv, Alone, [Next]_vars, faults'.lock = 0 PROVE Alone'
  BY DEF Alone
<1>1. faults.lock = 0 /\ ~LoseLock
  BY LossesCount DEF SyncInv
<1>2. SyncInv'
  BY SyncStays
<1> QED
  BY <1>1, <1>2, PassIsAlone, OpenIsNamed DEF Alone

(* No job runs without an open attempt of its own, for any workers that crash, lose
   their lock and outlive it, whatever is claimed between the two statements of a
   recovery; and no other attempt is open before the first lost lock (jobs.py
   31-39, 209-233). *)
THEOREM QueueAlwaysSound == Spec => []QueueIsSound
<1>1. Init => Alone
  BY DEF Init, Alone
<1>2. Spec => []Alone
  BY <1>1, AloneStays, SyncInvariant, PTL DEF Spec
<1>3. SyncInv /\ Alone => QueueIsSound
  BY DEF SyncInv, Claims, Alone, AttemptsMatchJobs, QueueIsSound
<1> QED
  BY <1>2, <1>3, SyncInvariant, PTL

(* A shard that is split has a half around each of its days, and that half is
   shorter: from a split shard one comes down to one that is queued, held back or
   valid, so no day of the plan is lost (planning.split, jobs.split). *)
NatLess == {p \in Nat \X Nat : p[1] < p[2]}

LEMMA NatLessIsWellFounded == IsWellFoundedOn(NatLess, Nat)
<1>1. OpToRel(<, Nat) = NatLess
  BY DEF OpToRel, NatLess
<1> QED
  BY <1>1, NatLessThanWellFounded

LEMMA DayIsKept ==
  ASSUME SyncInv, NEW p \in Shards, status[p] = "SPLIT", NEW day \in p[1]..p[2]
  PROVE  \E s \in Shards : s[1] <= day /\ day <= s[2] /\ status[s] \notin {"NONE", "SPLIT"}
<1>1. LastDay \in Nat
  BY SyncAssumption DEF SyncAssumption
<1> DEFINE Around  == {s \in Shards : s[1] <= day /\ day <= s[2] /\ status[s] # "NONE"}
           Lengths == {s[2] - s[1] : s \in Around}
<1>2. \A s \in Shards : s[1] \in Nat /\ s[2] \in Nat /\ s[1] <= s[2]
  BY <1>1 DEF Shards
<1>3. Lengths \subseteq Nat /\ Lengths # {}
  <2>1. p \in Around
    OBVIOUS
  <2> QED
    BY <1>2, <2>1
<1>4. PICK n \in Lengths : \A m \in Lengths : ~(m < n)
  <2>1. PICK n \in Lengths : \A m \in Lengths : ~(<<m, n>> \in NatLess)
    <3> HIDE DEF Lengths
    <3> QED
      BY <1>3, NatLessIsWellFounded, WFMin
  <2>2. ASSUME NEW m \in Lengths PROVE ~(m < n)
    <3>1. <<m, n>> \in Nat \X Nat /\ <<m, n>>[1] = m /\ <<m, n>>[2] = n
      BY <1>3
    <3> QED
      BY <2>1, <3>1 DEF NatLess
  <2> QED
    BY <2>2
<1>5. PICK s \in Around : s[2] - s[1] = n
  OBVIOUS
<1>6. ASSUME status[s] = "SPLIT" PROVE FALSE
  <2>1. s \in Shards /\ s[1] < s[2] /\ \A h \in Halves(s) : status[h] # "NONE"
    BY <1>5, <1>6 DEF SyncInv, Splits, Jobs
  <2>2. PICK h \in Halves(s) : h \in Shards /\ h[1] <= day /\ day <= h[2] /\ h[2] - h[1] < s[2] - s[1]
    BY <1>5, <2>1, HalvesCover
  <2>3. h \in Around
    BY <2>1, <2>2
  <2> QED
    BY <1>4, <1>5, <2>2, <2>3
<1> QED
  BY <1>5, <1>6
(* Every day of a planned shard stays in a shard that is not itself split, for
   every plan and however deep the shards are divided (planning.split). *)
THEOREM NoDayIsLost == Spec => []SplitLosesNothing
<1>1. SyncInv => SplitLosesNothing
  BY DayIsKept, SyncAssumption DEF SplitLosesNothing, SyncAssumption
<1> QED
  BY <1>1, SyncInvariant, PTL

(* What happens to the jobs in one step: all but the end of an attempt and a
   request to reprocess leave sources and coverage alone. *)
LEMMA SourcesStay ==
  ASSUME SyncInv, [Next]_vars
  PROVE  \/ UNCHANGED <<source, coverage>>
         \/ \E w \in Workers : \/ FetchFails(w) \/ Breakdown(w) \/ JudgeEmpty(w) \/ JudgeBad(w)
                               \/ Truncated(w) \/ Commit(w)
         \/ \E j \in Jobs, g \in Generation : Reprocess(j, g)
<1>1. CASE \/ LoseLock \/ RefreshTime \/ UNCHANGED vars
           \/ \E on \in BOOLEAN : Configure(on)
  BY <1>1, StillIdles DEF Idles
<1>2. ASSUME NEW w \in Workers,
             \/ Start(w) \/ Begin(w) \/ Interrupt(w) \/ Refresh(w) \/ Plan(w) \/ NoClaim(w) \/ Pause(w)
             \/ Return(w) \/ Crash(w)
      PROVE  UNCHANGED <<source, coverage>>
  BY <1>2, IdleSteps DEF Idles, SyncInv
<1>3. ASSUME NEW w \in Workers, Recover(w) \/ Keep(w) \/ \E j \in Jobs : Claim(w, j)
      PROVE  UNCHANGED <<source, coverage>>
  BY <1>3 DEF Recover, Keep, Claim, jobVars
<1> QED
  BY <1>1, <1>2, <1>3 DEF Next, Environment, UserStep, PassStep

LEMMA CoverageGrows ==
  ASSUME SyncInv, [Next]_vars, NEW j \in Jobs PROVE coverage'[j] >= coverage[j]
<1>1. coverage[j] \in Nat
  BY SyncAssumption DEF SyncInv, TypeOK, SyncAssumption
<1>2. ASSUME NEW w \in Workers, Ends(w) PROVE coverage'[j] >= coverage[j]
  <2>1. CASE coverage'[j] = coverage[j]
    BY <1>1, <2>1
  <2>2. CASE coverage'[j] # coverage[j]
    <3>1. j = MyJob(w) /\ Owns(w) /\ coverage'[j] = Origin(mine[w])
      BY <1>2, <2>2 DEF Ends
    <3>2. /\ status[j] = "RUNNING" /\ gen[j] = mine[w] /\ parent[mine[w]] = source[j]
          /\ mine[w] \in Generation
      BY <1>2, <3>1, OwnerRuns DEF SyncInv, Ends
    <3>3. CASE source[j] = None
      BY <1>1, <3>1, <3>2, <3>3 DEF SyncInv, Sources, Origin, Generation
    <3>4. CASE source[j] # None
      <4>1. source[j] \in Generation
        BY <3>4 DEF SyncInv, TypeOK
      <4> QED
        BY <1>1, <3>1, <3>2, <3>4, <4>1 DEF SyncInv, Sources, Origin, Generation
    <3> QED
      BY <3>3, <3>4
  <2> QED
    BY <2>1, <2>2
<1>3. ASSUME coverage' = coverage PROVE coverage'[j] >= coverage[j]
  BY <1>1, <1>3
<1>4. ASSUME NEW i \in Jobs, NEW g \in Generation, Reprocess(i, g) PROVE coverage' = coverage
  BY <1>4 DEF Reprocess
<1> QED
  BY <1>2, <1>3, <1>4, SourcesStay, EndSteps

(* The receipt that covers a job is never replaced by one of an older download:
   not by a worker that outlived its lock, a reprocessing or a retry (_commit). *)
THEOREM CoverageAlwaysGrows == Spec => CoverageNeverRegresses
<1>1. SyncInv /\ [Next]_vars => [\A j \in Jobs : coverage'[j] >= coverage[j]]_vars
  BY CoverageGrows
<1> QED
  BY <1>1, SyncInvariant, PTL DEF Spec, CoverageNeverRegresses

KindKept(j) == status[j] \in Queued =>
                 \/ source'[j] = source[j]
                 \/ status[j] = "RUNNING" /\ status'[j] \in {"VALIDATED", "BLOCKED"}

LEMMA FinishKeepsKind ==
  ASSUME SyncInv, NEW w \in Workers, pc[w] \in Working, NEW result \in {"WAITING", "BLOCKED", "DENIED"},
         Finish(w, result), result = "DENIED" => parent[mine[w]] = None, NEW j \in Jobs
  PROVE  KindKept(j)
<1>1. /\ status \in [Jobs -> Status] /\ source \in [Jobs -> Generation \union {None}]
  BY DEF SyncInv, TypeOK
<1>2. MyJob(w) \in Jobs /\ (Owns(w) => /\ status[MyJob(w)] = "RUNNING"
                                       /\ parent[mine[w]] = source[MyJob(w)])
  BY OwnerRuns DEF SyncInv
<1>3. CASE j # MyJob(w) \/ ~Owns(w)
  BY <1>1, <1>2, <1>3 DEF Finish, KindKept
<1>4. CASE j = MyJob(w) /\ Owns(w)
  <2>1. status' = [status EXCEPT ![j] = result]
        /\ source' = IF result = "WAITING" THEN source ELSE [source EXCEPT ![j] = None]
    BY <1>4 DEF Finish
  <2> QED
    BY <1>1, <1>2, <1>4, <2>1 DEF KindKept
<1> QED
  BY <1>3, <1>4

LEMMA KindStays ==
  ASSUME SyncInv, [Next]_vars, NEW j \in Jobs PROVE KindKept(j)
<1>1. /\ status \in [Jobs -> Status] /\ source \in [Jobs -> Generation \union {None}]
  BY DEF SyncInv, TypeOK
<1>2. ASSUME source' = source PROVE KindKept(j)
  BY <1>2 DEF KindKept
<1>3. ASSUME NEW i \in Jobs, NEW g \in Generation, Reprocess(i, g) PROVE KindKept(j)
  <2>1. /\ source' = [source EXCEPT ![i] = g] /\ MayReprocess(i) /\ source[i] \in {None, g}
    BY <1>3 DEF Reprocess
  <2>2. CASE j # i
    BY <1>1, <2>1, <2>2 DEF KindKept
  <2>3. CASE j = i
    BY <1>1, <2>1, <2>3 DEF KindKept, MayReprocess, Queued, Blocked
  <2> QED
    BY <2>2, <2>3
<1>4. ASSUME NEW w \in Workers, FetchFails(w) \/ Breakdown(w) \/ JudgeEmpty(w) \/ JudgeBad(w)
      PROVE  KindKept(j)
  <2>1. pc[w] \in Working
    BY <1>4 DEF FetchFails, Breakdown, JudgeEmpty, JudgeBad, Working
  <2>2. PICK result \in {"WAITING", "BLOCKED", "DENIED"} :
          Finish(w, result) /\ (result = "DENIED" => parent[mine[w]] = None)
    <3>1. \/ \E retry, waiting : Fail(w, retry, waiting)
          \/ Finish(w, "DENIED") /\ parent[mine[w]] = None
      BY <1>4 DEF FetchFails, Breakdown, JudgeEmpty, JudgeBad
    <3>2. ASSUME NEW retry, NEW waiting, Fail(w, retry, waiting) PROVE Finish(w, "WAITING") \/ Finish(w, "BLOCKED")
      BY <3>2, FailFinishes
    <3> QED
      BY <3>1, <3>2
  <2> QED
    BY <2>1, <2>2, FinishKeepsKind
<1>5. ASSUME NEW w \in Workers, Truncated(w) \/ Commit(w) PROVE KindKept(j)
  <2>1. pc[w] \in Working
    BY <1>5 DEF Truncated, Commit, Working
  <2>2. MyJob(w) \in Jobs /\ (Owns(w) => /\ status[MyJob(w)] = "RUNNING"
                                         /\ parent[mine[w]] = source[MyJob(w)])
    BY <2>1, OwnerRuns DEF SyncInv
  <2>3. CASE ~Owns(w)
    BY <1>2, <1>5, <2>3 DEF Truncated, Commit
  <2>4. CASE Owns(w) /\ j # MyJob(w)
    BY <1>1, <1>5, <2>4 DEF Truncated, Commit, KindKept
  <2>5. CASE Owns(w) /\ j = MyJob(w)
    <3>1. source' = [source EXCEPT ![j] = None]
      BY <1>5, <2>5 DEF Truncated, Commit
    <3>2. status'[j] \in {"VALIDATED", "BLOCKED"} \/ source[j] = None
      BY <1>1, <1>5, <2>2, <2>5 DEF Truncated, Commit
    <3> QED
      BY <1>1, <2>2, <2>5, <3>1, <3>2 DEF KindKept
  <2> QED
    BY <2>3, <2>4, <2>5
<1> QED
  BY <1>2, <1>3, <1>4, <1>5, SourcesStay

(* A queued reprocessing stays one through pauses, crashes and refreshes, and a
   queued download is never turned into one (docs/ARCHITECTURE.md 173-175). *)
THEOREM SourceAlwaysKept == Spec => SourceIsKept
<1>1. SyncInv /\ [Next]_vars =>
        [\A j \in Jobs : status[j] \in {"PENDING", "WAITING", "RUNNING"} =>
           \/ source'[j] = source[j]
           \/ status[j] = "RUNNING" /\ status'[j] \in {"VALIDATED", "BLOCKED"}]_vars
  BY KindStays DEF KindKept, Queued
<1> QED
  BY <1>1, SyncInvariant, PTL DEF Spec, SourceIsKept

(* What a job already has, the response that covers it and the one it is queued
   for, survives whatever late, crashed or paused work does. *)
THEOREM ResponsesAlwaysKept == Spec => ResponsesAreKept
  BY CoverageAlwaysGrows, SourceAlwaysKept DEF ResponsesAreKept

-----------------------------------------------------------------------------
(* How a claim gets free: once faults cease, every pass goes to its end, and the
   pass after it takes back the jobs that are still claimed and ends the attempts
   it finds.  An attempt claimed between the two statements of a recovery is not
   found by it; so the way out is that of one attempt g, from when it is claimed
   no more, and is walked for each. *)

Reached(w, pcs) == pc[w] \in pcs
Settled(g)    == ~enabled \/ (g \notin open /\ \A j \in Jobs : status[j] # "RUNNING")
Noted(w, g)   == Reached(w, {"RESETTING"}) /\ (g \in open => g \in interrupted[w])
Recovering    == \E w \in Workers : Reached(w, {"RECOVERING"})

(* The holder of the lock is in a pass. *)
OwnerIsBusy == \A w \in Workers : owner = w => ~Reached(w, {"OFF", "IDLE"})

LEMMA BusyStays == TypeOK /\ OwnerIsBusy /\ [Next]_vars => OwnerIsBusy'
<1> SUFFICES ASSUME TypeOK, OwnerIsBusy, [Next]_vars, NEW v \in Workers, owner' = v
             PROVE  ~Reached(v, {"OFF", "IDLE"})'
  BY DEF OwnerIsBusy
<1> USE DEF Reached
<1>0. pc \in [Workers -> Phase] /\ v # None
  BY SyncAssumption DEF SyncAssumption, TypeOK
<1>1. ASSUME NEW w \in Workers, PassStep(w) \/ Start(w) PROVE pc'[v] \notin {"OFF", "IDLE"}
  <2>1. CASE owner = v
    <3>1. pc[v] \notin {"OFF", "IDLE"}
      BY <2>1 DEF OwnerIsBusy
    <3>2. ~Return(v)
      BY <1>0, <2>1 DEF Return
    <3>3. CASE w # v
      BY <1>1, <3>1, <3>3, PassGoes
    <3>4. CASE w = v
      <4>1. PassStep(v) /\ <<pc[v], pc'[v]>> \in Ways /\ owner' = owner
        BY <1>1, <3>1, <3>4, <2>1, PassGoes
      <4>2. pc[v] # "ENDING"
        BY <4>1, <3>2 DEF PassStep, Begin, Interrupt, Recover, Refresh, Plan, NoClaim, FetchFails, Keep, Breakdown,
           Pause, JudgeEmpty, JudgeBad, Truncated, Commit, Claim
      <4> QED
        BY <3>1, <4>1, <4>2 DEF Ways
    <3> QED
      BY <3>3, <3>4
  <2>2. CASE owner # v
    <3>1. w = v /\ Begin(v)
      BY <1>0, <1>1, <2>2, LockGoes
    <3> QED
      BY <1>0, <3>1 DEF Begin, Goto
  <2> QED
    BY <2>1, <2>2
<1>2. ASSUME NEW w \in Workers, Crash(w) PROVE pc'[v] \notin {"OFF", "IDLE"}
  <2>1. owner = v /\ w # v
    BY <1>0, <1>2 DEF Crash
  <2> QED
    BY <1>0, <1>2, <2>1 DEF Crash, Goto, OwnerIsBusy
<1>3. ~LoseLock
  BY <1>0 DEF LoseLock
<1>4. ASSUME RefreshTime \/ UserStep \/ UNCHANGED vars PROVE pc'[v] \notin {"OFF", "IDLE"}
  <2>1. UNCHANGED <<pc, owner>>
    BY <1>4 DEF RefreshTime, UserStep, Configure, Reprocess, vars, workerVars
  <2> QED
    BY <2>1 DEF OwnerIsBusy
<1> QED
  BY <1>1, <1>2, <1>3, <1>4 DEF Next, Environment

(* A step without a fault is one of a worker, or leaves workers and lock alone. *)
Fine == Next /\ UNCHANGED faults
LEMMA FineSteps ==
  ASSUME TypeOK, [Fine]_vars
  PROVE  (\E w \in Workers : PassStep(w) \/ Start(w)) \/ UNCHANGED <<pc, owner, interrupted>>
<1>1. faults \in [crash : 0..MaxFaults, lock : 0..MaxFaults] /\ MaxFaults \in Nat
  BY SyncAssumption DEF SyncAssumption, TypeOK
<1>2. CASE Next /\ UNCHANGED faults
  <2>1. ~LoseLock /\ ~\E w \in Workers : Crash(w)
    BY <1>1, <1>2 DEF LoseLock, Crash
  <2>2. RefreshTime \/ UserStep => UNCHANGED <<pc, owner, interrupted>>
    BY DEF RefreshTime, UserStep, Configure, Reprocess, workerVars
  <2> QED
    BY <1>2, <2>1, <2>2 DEF Next, Environment
<1>3. CASE UNCHANGED vars
  BY <1>3 DEF vars, workerVars
<1> QED
  BY <1>2, <1>3 DEF Fine

LEMMA WorkerGoes ==
  ASSUME TypeOK, NEW w \in Workers, [Fine]_vars
  PROVE  pc'[w] = pc[w] \/ <<pc[w], pc'[w]>> \in Ways
BY FineSteps, PassGoes

LEMMA OwnerGoes ==
  ASSUME TypeOK, [Fine]_vars
  PROVE  /\ owner = None => owner' = None \/ Recovering'
         /\ \A w \in Workers : owner = w => owner' = w \/ owner' = None
<1>1. pc \in [Workers -> Phase] /\ None \notin Workers
  BY SyncAssumption DEF SyncAssumption, TypeOK
<1>2. ASSUME NEW w \in Workers, Begin(w) PROVE Recovering'
  BY <1>1, <1>2 DEF Begin, Goto, Recovering, Reached
<1> QED
  BY <1>1, <1>2, FineSteps, LockGoes

(* What a recovery has marked is its own. *)
LEMMA MarksStay ==
  ASSUME TypeOK, NEW w \in Workers, NEW v \in Workers, v # w, PassStep(v) \/ Start(v)
  PROVE  interrupted'[w] = interrupted[w]
<1>1. CASE Interrupt(v) \/ Recover(v)
  BY <1>1 DEF Interrupt, Recover, TypeOK
<1>2. CASE \/ Start(v) \/ Begin(v) \/ Refresh(v) \/ Plan(v) \/ NoClaim(v) \/ FetchFails(v)
           \/ Keep(v) \/ Breakdown(v) \/ Pause(v)
  BY <1>2 DEF Start, Begin, Refresh, Plan, NoClaim, FetchFails, Keep, Breakdown, Pause
<1>3. CASE \/ JudgeEmpty(v) \/ JudgeBad(v) \/ Truncated(v) \/ Commit(v) \/ Return(v)
           \/ \E j \in Jobs : Claim(v, j)
  BY <1>3 DEF JudgeEmpty, JudgeBad, Truncated, Commit, Return, Claim
<1> QED
  BY <1>1, <1>2, <1>3 DEF PassStep

(* The jobs a pass finds running are taken back and the attempts it marked are
   ended, in its third step. *)
LEMMA RecoverSettles ==
  ASSUME TypeOK, NEW w \in Workers, NEW g, Noted(w, g), PassStep(w)
  PROVE  Settled(g)'
<1>1. Recover(w)
  BY DEF PassStep, Noted, Reached, Begin, Interrupt, Recover, Refresh, Plan, NoClaim, FetchFails, Keep,
     Breakdown, Pause, JudgeEmpty, JudgeBad, Truncated, Commit, Return, Claim
<1>2. g \notin open'
  BY <1>1 DEF Recover, Noted
<1>3. \A j \in Jobs : status'[j] # "RUNNING"
  BY <1>1 DEF Recover, Requeue, TypeOK
<1> QED
  BY <1>2, <1>3 DEF Settled

LEMMA MarkNotes ==
  ASSUME TypeOK, NEW w \in Workers, NEW g, Reached(w, {"RECOVERING"}), PassStep(w)
  PROVE  Noted(w, g)'
<1>1. Interrupt(w)
  BY DEF PassStep, Reached, Begin, Interrupt, Recover, Refresh, Plan, NoClaim, FetchFails, Keep,
     Breakdown, Pause, JudgeEmpty, JudgeBad, Truncated, Commit, Return, Claim
<1> QED
  BY <1>1 DEF Interrupt, Goto, Noted, Reached, TypeOK, attemptVars

(* From here on g is not claimed. *)
Unclaimed(g) == g \in open' => g \in open

LEMMA NotedStays ==
  ASSUME TypeOK, NEW w \in Workers, NEW g, Noted(w, g), [Fine]_vars, [Unclaimed(g)]_vars
  PROVE  Noted(w, g)' \/ Settled(g)'
<1>1. CASE PassStep(w)
  BY <1>1, RecoverSettles
<1>2. CASE ~PassStep(w)
  <2>1. pc'[w] = pc[w] /\ interrupted'[w] = interrupted[w]
    <3>1. ASSUME NEW v \in Workers, PassStep(v) \/ Start(v) PROVE v # w
      BY <1>2, <3>1, PassGoes DEF Noted, Reached
    <3> QED
      BY <3>1, FineSteps, PassGoes, MarksStay
  <2>2. g \in open' => g \in open
    BY DEF Unclaimed, vars, attemptVars
  <2> QED
    BY <2>1, <2>2 DEF Noted, Reached
<1> QED
  BY <1>1, <1>2

(* What the way out rests on: from here on without faults, and without a claim of g. *)
Calm(g) ==
  /\ [](TypeOK /\ OwnerIsBusy) /\ [][Fine]_vars /\ [][Unclaimed(g)]_vars /\ []NothingBlocks
  /\ \A w \in Workers : GoesOn(w)

LEMMA CalmIsFair == ASSUME NEW g PROVE Calm(g) => \A w \in Workers : GoesOn(w)
BY PTL DEF Calm

LEMMA FairnessStays == (\A w \in Workers : GoesOn(w)) => [](\A w \in Workers : GoesOn(w))
<1>1. ASSUME NEW w \in Workers PROVE GoesOn(w) => []GoesOn(w)
  BY PTL DEF GoesOn
<1>2. (\A w \in Workers : GoesOn(w)) => \A w \in Workers : []GoesOn(w)
  BY <1>1
<1>3. (\A w \in Workers : []GoesOn(w)) => [](\A w \in Workers : GoesOn(w))
  OBVIOUS
<1> QED
  BY <1>2, <1>3

LEMMA CalmRuns ==
  ASSUME NEW w \in Workers, NEW g
  PROVE  Calm(g) =>
    /\ [](TypeOK /\ OwnerIsBusy) /\ [][Fine]_vars /\ [][Unclaimed(g)]_vars
    /\ WF_vars(PassStep(w)) /\ WF_vars(Start(w))
    /\ [](Reached(w, {"OFF"}) => ENABLED <<Start(w)>>_vars)
    /\ [](Reached(w, {"IDLE"}) /\ owner = None /\ enabled => ENABLED <<PassStep(w)>>_vars)
    /\ [](TypeOK /\ ~Reached(w, {"OFF", "IDLE"}) => ENABLED <<PassStep(w)>>_vars)
<1>1. (\A v \in Workers : GoesOn(v)) => GoesOn(w)
  OBVIOUS
<1>2. GoesOn(w) => WF_vars(PassStep(w)) /\ WF_vars(Start(w))
  BY PTL DEF GoesOn
<1>3. NothingBlocks =>
        /\ Reached(w, {"OFF"}) => ENABLED <<Start(w)>>_vars
        /\ Reached(w, {"IDLE"}) /\ owner = None /\ enabled => ENABLED <<PassStep(w)>>_vars
        /\ TypeOK /\ ~Reached(w, {"OFF", "IDLE"}) => ENABLED <<PassStep(w)>>_vars
  BY DEF NothingBlocks, Reached
<1>4. Calm(g) => GoesOn(w)
  BY <1>1, CalmIsFair
<1>5. Calm(g) => WF_vars(PassStep(w)) /\ WF_vars(Start(w))
  BY <1>2, <1>4, PTL
<1> QED
  BY <1>3, <1>5, PTL DEF Calm

LEMMA RecoveringSettles ==
  ASSUME NEW w \in Workers, NEW g PROVE Calm(g) => (Reached(w, {"RECOVERING"}) ~> Settled(g))
<1>1. Calm(g) => (Reached(w, {"RECOVERING"}) ~> Noted(w, g))
  <2>1. TypeOK /\ Reached(w, {"RECOVERING"}) /\ <<Fine /\ PassStep(w)>>_vars => Noted(w, g)'
    BY MarkNotes
  <2>2. TypeOK /\ Reached(w, {"RECOVERING"}) /\ [Fine]_vars => Reached(w, {"RECOVERING"})' \/ Noted(w, g)'
    <3> SUFFICES ASSUME TypeOK, Reached(w, {"RECOVERING"}), [Fine]_vars, ~Reached(w, {"RECOVERING"})'
                 PROVE  Noted(w, g)'
      OBVIOUS
    <3>1. PICK v \in Workers : PassStep(v) \/ Start(v)
      BY FineSteps DEF Reached
    <3>2. v = w
      BY <3>1, PassGoes DEF Reached
    <3>3. PassStep(w)
      BY <3>1, <3>2, PassGoes DEF Reached
    <3> QED
      BY <3>3, MarkNotes DEF Fine
  <2>3. TypeOK /\ Reached(w, {"RECOVERING"}) => ~Reached(w, {"OFF", "IDLE"})
    BY DEF Reached
  <2> QED
    BY <2>1, <2>2, <2>3, CalmRuns, PTL
<1>2. Calm(g) => (Noted(w, g) ~> Settled(g))
  <2>1. TypeOK /\ Noted(w, g) /\ <<Fine /\ PassStep(w)>>_vars => Settled(g)'
    BY RecoverSettles
  <2>2. TypeOK /\ Noted(w, g) /\ [Fine]_vars /\ [Unclaimed(g)]_vars => Noted(w, g)' \/ Settled(g)'
    BY NotedStays
  <2>3. TypeOK /\ Noted(w, g) => ~Reached(w, {"OFF", "IDLE"})
    BY DEF Noted, Reached
  <2> QED
    BY <2>1, <2>2, <2>3, CalmRuns, PTL
<1> QED
  BY <1>1, <1>2, PTL

(* Every pass comes to its end, and its worker back to the loop. *)
LEMMA PassEnds ==
  ASSUME NEW w \in Workers, NEW g PROVE Calm(g) => []<>(Settled(g) \/ Reached(w, {"IDLE"}))
<1>0. Calm(g) => (Reached(w, {"RESETTING"}) ~> Reached(w, {"REFRESHING"}))
  <2>1. /\ TypeOK /\ Reached(w, {"RESETTING"}) /\ [Fine]_vars => Reached(w, {"RESETTING"})' \/ Reached(w, {"REFRESHING"})'
        /\ TypeOK /\ Reached(w, {"RESETTING"}) /\ <<Fine /\ PassStep(w)>>_vars => Reached(w, {"REFRESHING"})'
        /\ TypeOK /\ Reached(w, {"RESETTING"}) => ~Reached(w, {"OFF", "IDLE"})
    BY WorkerGoes, PassGoes DEF Reached, Ways
  <2> QED
    BY <2>1, CalmRuns, PTL
<1>1. Calm(g) => (Reached(w, {"REFRESHING"}) ~> Reached(w, {"PLANNING"}))
  <2>1. /\ TypeOK /\ Reached(w, {"REFRESHING"}) /\ [Fine]_vars => Reached(w, {"REFRESHING"})' \/ Reached(w, {"PLANNING"})'
        /\ TypeOK /\ Reached(w, {"REFRESHING"}) /\ <<Fine /\ PassStep(w)>>_vars => Reached(w, {"PLANNING"})'
        /\ TypeOK /\ Reached(w, {"REFRESHING"}) => ~Reached(w, {"OFF", "IDLE"})
    BY WorkerGoes, PassGoes DEF Reached, Ways
  <2> QED
    BY <2>1, CalmRuns, PTL
<1>2. Calm(g) => (Reached(w, {"PLANNING"}) ~> Reached(w, {"CLAIMING"}))
  <2>1. /\ TypeOK /\ Reached(w, {"PLANNING"}) /\ [Fine]_vars => Reached(w, {"PLANNING"})' \/ Reached(w, {"CLAIMING"})'
        /\ TypeOK /\ Reached(w, {"PLANNING"}) /\ <<Fine /\ PassStep(w)>>_vars => Reached(w, {"CLAIMING"})'
        /\ TypeOK /\ Reached(w, {"PLANNING"}) => ~Reached(w, {"OFF", "IDLE"})
    BY WorkerGoes, PassGoes DEF Reached, Ways
  <2> QED
    BY <2>1, CalmRuns, PTL
<1>3. Calm(g) => (Reached(w, {"CLAIMING"}) ~> Reached(w, {"FETCHING", "ENDING"}))
  <2>1. /\ TypeOK /\ Reached(w, {"CLAIMING"}) /\ [Fine]_vars => Reached(w, {"CLAIMING"})' \/ Reached(w, {"FETCHING", "ENDING"})'
        /\ TypeOK /\ Reached(w, {"CLAIMING"}) /\ <<Fine /\ PassStep(w)>>_vars => Reached(w, {"FETCHING", "ENDING"})'
        /\ TypeOK /\ Reached(w, {"CLAIMING"}) => ~Reached(w, {"OFF", "IDLE"})
    BY WorkerGoes, PassGoes DEF Reached, Ways
  <2> QED
    BY <2>1, CalmRuns, PTL
<1>4. Calm(g) => (Reached(w, {"FETCHING"}) ~> Reached(w, {"JUDGING", "PAUSING", "ENDING"}))
  <2>1. /\ TypeOK /\ Reached(w, {"FETCHING"}) /\ [Fine]_vars => Reached(w, {"FETCHING"})' \/ Reached(w, {"JUDGING", "PAUSING", "ENDING"})'
        /\ TypeOK /\ Reached(w, {"FETCHING"}) /\ <<Fine /\ PassStep(w)>>_vars => Reached(w, {"JUDGING", "PAUSING", "ENDING"})'
        /\ TypeOK /\ Reached(w, {"FETCHING"}) => ~Reached(w, {"OFF", "IDLE"})
    BY WorkerGoes, PassGoes DEF Reached, Ways
  <2> QED
    BY <2>1, CalmRuns, PTL
<1>5. Calm(g) => (Reached(w, {"JUDGING"}) ~> Reached(w, {"PAUSING", "ENDING"}))
  <2>1. /\ TypeOK /\ Reached(w, {"JUDGING"}) /\ [Fine]_vars => Reached(w, {"JUDGING"})' \/ Reached(w, {"PAUSING", "ENDING"})'
        /\ TypeOK /\ Reached(w, {"JUDGING"}) /\ <<Fine /\ PassStep(w)>>_vars => Reached(w, {"PAUSING", "ENDING"})'
        /\ TypeOK /\ Reached(w, {"JUDGING"}) => ~Reached(w, {"OFF", "IDLE"})
    BY WorkerGoes, PassGoes DEF Reached, Ways
  <2> QED
    BY <2>1, CalmRuns, PTL
<1>6. Calm(g) => (Reached(w, {"PAUSING"}) ~> Reached(w, {"ENDING"}))
  <2>1. /\ TypeOK /\ Reached(w, {"PAUSING"}) /\ [Fine]_vars => Reached(w, {"PAUSING"})' \/ Reached(w, {"ENDING"})'
        /\ TypeOK /\ Reached(w, {"PAUSING"}) /\ <<Fine /\ PassStep(w)>>_vars => Reached(w, {"ENDING"})'
        /\ TypeOK /\ Reached(w, {"PAUSING"}) => ~Reached(w, {"OFF", "IDLE"})
    BY WorkerGoes, PassGoes DEF Reached, Ways
  <2> QED
    BY <2>1, CalmRuns, PTL
<1>7. Calm(g) => (Reached(w, {"ENDING"}) ~> Reached(w, {"IDLE", "OFF"}))
  <2>1. /\ TypeOK /\ Reached(w, {"ENDING"}) /\ [Fine]_vars => Reached(w, {"ENDING"})' \/ Reached(w, {"IDLE", "OFF"})'
        /\ TypeOK /\ Reached(w, {"ENDING"}) /\ <<Fine /\ PassStep(w)>>_vars => Reached(w, {"IDLE", "OFF"})'
        /\ TypeOK /\ Reached(w, {"ENDING"}) => ~Reached(w, {"OFF", "IDLE"})
    BY WorkerGoes, PassGoes DEF Reached, Ways
  <2> QED
    BY <2>1, CalmRuns, PTL
<1>8. Calm(g) => (Reached(w, {"OFF"}) ~> Reached(w, {"IDLE"}))
  <2>1. TypeOK /\ Reached(w, {"OFF"}) /\ [Fine]_vars => Reached(w, {"OFF"})' \/ Reached(w, {"IDLE"})'
    BY WorkerGoes DEF Reached, Ways
  <2>2. TypeOK /\ Reached(w, {"OFF"}) /\ <<Fine /\ Start(w)>>_vars => Reached(w, {"IDLE"})'
    BY PassGoes DEF Reached, Ways
  <2> QED
    BY <2>1, <2>2, CalmRuns, PTL
<1>9. /\ TypeOK => \/ Reached(w, {"OFF"}) \/ Reached(w, {"IDLE"}) \/ Reached(w, {"RECOVERING"})
                   \/ Reached(w, {"RESETTING"}) \/ Reached(w, {"REFRESHING"}) \/ Reached(w, {"PLANNING"})
                   \/ Reached(w, {"CLAIMING"})
                   \/ Reached(w, {"FETCHING"}) \/ Reached(w, {"JUDGING"}) \/ Reached(w, {"PAUSING"})
                   \/ Reached(w, {"ENDING"})
      /\ Reached(w, {"FETCHING", "ENDING"}) => Reached(w, {"FETCHING"}) \/ Reached(w, {"ENDING"})
      /\ Reached(w, {"JUDGING", "PAUSING", "ENDING"}) =>
           Reached(w, {"JUDGING"}) \/ Reached(w, {"PAUSING"}) \/ Reached(w, {"ENDING"})
      /\ Reached(w, {"PAUSING", "ENDING"}) => Reached(w, {"PAUSING"}) \/ Reached(w, {"ENDING"})
      /\ Reached(w, {"IDLE", "OFF"}) => Reached(w, {"IDLE"}) \/ Reached(w, {"OFF"})
  BY DEF TypeOK, Reached, Phase
<1> QED
  BY <1>0, <1>1, <1>2, <1>3, <1>4, <1>5, <1>6, <1>7, <1>8, <1>9, RecoveringSettles, CalmRuns, PTL

(* The lock comes free: its holder is in a pass, which ends. *)
LEMMA LockComesFree ==
  ASSUME NEW w \in Workers, NEW g PROVE Calm(g) => (owner = w ~> owner = None \/ Settled(g))
<1>1. TypeOK /\ owner = w /\ [Fine]_vars => (owner = w)' \/ (owner = None)'
  BY OwnerGoes
<1>2. OwnerIsBusy => (owner = w => ~Reached(w, {"IDLE"}))
  BY DEF OwnerIsBusy, Reached
<1> QED
  BY <1>1, <1>2, PassEnds, CalmRuns, PTL

(* A free lock is taken, by this worker or by another. *)
LEMMA PassBegins ==
  ASSUME NEW w \in Workers, NEW g PROVE Calm(g) => (owner = None ~> Recovering \/ Settled(g))
<1>1. TypeOK /\ owner = None /\ [Fine]_vars => (owner = None)' \/ Recovering'
  BY OwnerGoes
<1>2. TypeOK /\ Reached(w, {"IDLE"}) /\ [Fine]_vars => Reached(w, {"IDLE"})' \/ Recovering'
  BY WorkerGoes DEF Reached, Ways, Recovering
<1>3. TypeOK /\ Reached(w, {"IDLE"}) /\ <<Fine /\ PassStep(w)>>_vars => Recovering'
  BY PassGoes DEF Reached, Ways, Recovering
<1>4. ~Settled(g) => enabled
  BY DEF Settled
<1> QED
  BY <1>1, <1>2, <1>3, <1>4, PassEnds, CalmRuns, PTL

LEMMA AnyRecoverySettles == ASSUME NEW g PROVE Calm(g) => (Recovering ~> Settled(g))
<1>1. Calm(g) => \A w \in Workers : [](Reached(w, {"RECOVERING"}) => <>Settled(g))
  <2>1. ASSUME NEW w \in Workers PROVE Calm(g) => [](Reached(w, {"RECOVERING"}) => <>Settled(g))
    BY RecoveringSettles, PTL
  <2>2. \A w \in Workers : (Calm(g) => [](Reached(w, {"RECOVERING"}) => <>Settled(g)))
    BY <2>1
  <2> QED
    BY <2>2
<1>2. (\A w \in Workers : [](Reached(w, {"RECOVERING"}) => <>Settled(g)))
        => [](\A w \in Workers : (Reached(w, {"RECOVERING"}) => <>Settled(g)))
  OBVIOUS
<1>3. (\A w \in Workers : (Reached(w, {"RECOVERING"}) => <>Settled(g)))
        => ((\E w \in Workers : Reached(w, {"RECOVERING"})) => <>Settled(g))
  OBVIOUS
<1>4. Recovering => \E w \in Workers : Reached(w, {"RECOVERING"})
  BY DEF Recovering
<1> QED
  BY <1>1, <1>2, <1>3, <1>4, PTL

LEMMA AnyLockComesFree ==
  ASSUME NEW g PROVE Calm(g) => ((\E w \in Workers : owner = w) ~> owner = None \/ Settled(g))
<1>1. Calm(g) => \A w \in Workers : [](owner = w => <>(owner = None \/ Settled(g)))
  <2>1. ASSUME NEW w \in Workers PROVE Calm(g) => [](owner = w => <>(owner = None \/ Settled(g)))
    BY LockComesFree, PTL
  <2>2. \A w \in Workers : (Calm(g) => [](owner = w => <>(owner = None \/ Settled(g))))
    BY <2>1
  <2> QED
    BY <2>2
<1>2. (\A w \in Workers : [](owner = w => <>(owner = None \/ Settled(g))))
        => [](\A w \in Workers : (owner = w => <>(owner = None \/ Settled(g))))
  OBVIOUS
<1>3. (\A w \in Workers : (owner = w => <>(owner = None \/ Settled(g))))
        => ((\E w \in Workers : owner = w) => <>(owner = None \/ Settled(g)))
  OBVIOUS
<1> QED
  BY <1>1, <1>2, <1>3, PTL

LEMMA CalmSettles == ASSUME Workers # {}, NEW g PROVE Calm(g) => []<>Settled(g)
<1>1. PICK v \in Workers : TRUE
  OBVIOUS
<1>2. Calm(g) => (owner = None ~> Recovering \/ Settled(g))
  BY <1>1, PassBegins
<1>3. TypeOK => owner = None \/ \E w \in Workers : owner = w
  BY DEF TypeOK
<1> QED
  BY <1>2, <1>3, AnyRecoverySettles, AnyLockComesFree, PTL DEF Calm

(* Only the attempt that comes next is claimed, so each is claimed once. *)
LEMMA ClaimedOnce ==
  ASSUME SyncInv, [Next]_vars
  PROVE  open' \subseteq open \union {last + 1} /\ last' \in {last, last + 1}
<1>1. CASE \/ LoseLock \/ RefreshTime \/ UNCHANGED vars
           \/ \E on \in BOOLEAN : Configure(on)
  BY <1>1, StillIdles DEF Idles
<1>2. ASSUME NEW w \in Workers,
             \/ Start(w) \/ Begin(w) \/ Interrupt(w) \/ Refresh(w) \/ Plan(w) \/ NoClaim(w) \/ Pause(w)
             \/ Return(w) \/ Crash(w)
      PROVE  open' = open /\ last' = last
  BY <1>2, IdleSteps DEF Idles, SyncInv
<1>3. ASSUME NEW w \in Workers,
             \/ FetchFails(w) \/ Breakdown(w) \/ JudgeEmpty(w) \/ JudgeBad(w) \/ Truncated(w) \/ Commit(w)
      PROVE  open' \subseteq open /\ last' = last
  BY <1>3, EndSteps DEF Ends
<1>4. ASSUME NEW w \in Workers, Recover(w) \/ Keep(w) PROVE open' \subseteq open /\ last' = last
  BY <1>4 DEF Recover, Keep
<1>5. ASSUME NEW w \in Workers, NEW j \in Jobs, Claim(w, j)
      PROVE  open' \subseteq open \union {last + 1} /\ last' = last + 1
  BY <1>5 DEF Claim
<1>6. ASSUME NEW j \in Jobs, NEW g \in Generation, Reprocess(j, g) PROVE open' = open /\ last' = last
  BY <1>6 DEF Reprocess, attemptVars
<1> QED
  BY <1>1, <1>2, <1>3, <1>4, <1>5, <1>6 DEF Next, Environment, UserStep, PassStep

Made(g) == g \in 1..last

LEMMA ClaimsCease == ASSUME NEW g PROVE Spec => <>[][Unclaimed(g)]_vars
<1>1. SyncInv /\ [Next]_vars /\ Made(g) => Made(g)' /\ [Unclaimed(g)]_vars
  <2> SUFFICES ASSUME SyncInv, [Next]_vars, Made(g) PROVE Made(g)' /\ Unclaimed(g)
    OBVIOUS
  <2>1. last \in Nat /\ g # last + 1 /\ 1..last \subseteq 1..last'
    BY ClaimedOnce, Basics DEF SyncInv, Made
  <2> QED
    BY <2>1, ClaimedOnce DEF Made, Unclaimed
<1>2. SyncInv' /\ ~Made(g)' => [Unclaimed(g)]_vars
  BY DEF SyncInv, Claims, Made, Unclaimed
<1> QED
  BY <1>1, <1>2, SyncInvariant, PTL DEF Spec

LEMMA SettlesAgain ==
  ASSUME Workers # {}, NEW g
  PROVE  FairSpec /\ []NothingBlocks /\ <>[][faults' = faults]_vars => []<>Settled(g)
<1>1. Init => OwnerIsBusy
  BY SyncAssumption DEF SyncAssumption, Init, OwnerIsBusy
<1>2. FairSpec => Spec /\ \A w \in Workers : GoesOn(w)
  BY PTL DEF FairSpec
<1>3. Spec => [](TypeOK /\ OwnerIsBusy) /\ [][Next]_vars
  <2>1. SyncInv => TypeOK
    BY DEF SyncInv
  <2> QED
    BY <1>1, <2>1, BusyStays, SyncInvariant, PTL DEF Spec
<1>4. [Next]_vars /\ [faults' = faults]_vars => [Fine]_vars
  BY DEF Fine
<1>5. FairSpec /\ []NothingBlocks /\ <>[][faults' = faults]_vars => <>Calm(g)
  BY <1>2, <1>3, <1>4, ClaimsCease, FairnessStays, PTL DEF Calm
<1> QED
  BY <1>5, CalmSettles, PTL

(* Once workers stop dying and connections stop breaking, no job stays claimed while
   the synchronization is on: every pass ends and gives the lock back, and the next
   one, whoever begins it, takes the claims of interrupted passes back.  Without an
   end of the faults each pass could die before its third step.  NothingBlocks,
   which TLC evaluates in every state of the instance, says that a pass waits for
   nothing but the lock. *)
THEOREM ClaimsComeBack ==
  ASSUME Workers # {}
  PROVE  FairSpec /\ []NothingBlocks /\ <>[][faults' = faults]_vars => NothingStaysRunning
<1> SUFFICES ASSUME NEW g \in Nat
             PROVE  FairSpec /\ []NothingBlocks /\ <>[][faults' = faults]_vars => NothingStaysRunning
  OBVIOUS
<1>1. Settled(g) => ~enabled \/ \A j \in Jobs : status[j] # "RUNNING"
  BY DEF Settled
<1>2. FairSpec /\ []NothingBlocks /\ <>[][faults' = faults]_vars => []<>Settled(g)
  BY SettlesAgain
<1> QED
  BY <1>1, <1>2, PTL DEF NothingStaysRunning

(* Under the same conditions no attempt stays open, not even one that was claimed
   between the two statements of a recovery: no job names it and its own worker does
   not end it, but the recovery that follows marks it (jobs.py 31-34, 275). *)
THEOREM AttemptsComeToAnEnd ==
  ASSUME Workers # {}
  PROVE  FairSpec /\ []NothingBlocks /\ <>[][faults' = faults]_vars => AttemptsEnd
<1> SUFFICES ASSUME NEW g \in Generation
             PROVE  FairSpec /\ []NothingBlocks /\ <>[][faults' = faults]_vars
                      => []<>(~enabled \/ g \notin open)
  BY DEF AttemptsEnd
<1>1. Settled(g) => ~enabled \/ g \notin open
  BY DEF Settled
<1>2. FairSpec /\ []NothingBlocks /\ <>[][faults' = faults]_vars => []<>Settled(g)
  BY SettlesAgain
<1> QED
  BY <1>1, <1>2, PTL
=============================================================================

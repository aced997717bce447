------------------------ MODULE LiveCommandsProofs ------------------------
(***************************************************************************)
(* Proofs about LiveCommands for every set of identities, inputs and       *)
(* calls, any clock skew and any number of restarts.  The inductive        *)
(* invariant IInv is the conjunction of the parts defined below.           *)
(***************************************************************************)
EXTENDS LiveCommands, TLAPS

\* Requests that won admission and have not answered yet.
Owns(k) == stage[k] \in {"admitted", "running", "applied", "settling"}

(* A request is at work only for a call that posted it, as its page allows.  *)
Posting ==
  /\ \A k \in Calls : stage[k] # "none" =>
       at[k] \in {"waiting", "told"} /\ asked[k].page \in {0, header[k].runtime}
  /\ \A k \in Calls : Owns(k) \/ stage[k] = "checked" =>
       up /\ header[k].runtime = runtime
  /\ \A c \in Ids : row[c].runtime <= runtime
  /\ \A k \in Calls : header[k].runtime <= runtime
  /\ ~up => runtime < MaxRuntimes

(* The open receipt of an identity belongs to one request of this kernel.    *)
Ownership ==
  /\ \A k \in Calls : Owns(k) =>
       /\ status[Id(k)] = "RUNNING"
       /\ row[Id(k)].runtime = runtime /\ row[Id(k)].input = asked[k].input
  /\ \A j, k \in Calls : Owns(j) /\ Owns(k) /\ Id(j) = Id(k) => j = k

(* Who entered the effect, and how the requests at work relate to that.      *)
Effects ==
  /\ \A k \in begun :
       /\ stage[k] \in {"running", "applied", "settling", "answered", "dead"}
       /\ status[Id(k)] # "ABSENT" /\ row[Id(k)].input = asked[k].input
  /\ \A j \in begun, k \in Calls : Owns(k) /\ Id(j) = Id(k) => j = k
  /\ \A k \in Calls : stage[k] = "running" => k \in begun
  /\ \A k \in Calls : stage[k] = "applied" => k \in applied
  /\ \A k \in Calls : stage[k] = "settling" =>
       /\ reply[k] \in {"COMPLETED", "REJECTED", "UNKNOWN"}
       /\ reply[k] = "COMPLETED" => k \in applied
       /\ reply[k] = "REJECTED" => k \notin begun
       /\ reply[k] = "UNKNOWN" => k \in begun

(* What settled receipts, replies and answers to callers go back to.         *)
Settlement ==
  /\ \A c \in Ids : status[c] = "COMPLETED" =>
       \E j \in applied : Id(j) = c /\ asked[j].input = row[c].input
  /\ \A c \in Ids : status[c] = "REJECTED" => \A j \in begun : Id(j) # c

(* A settled reply or answer is what the receipt says, about this very input. *)
Answers ==
  /\ \A k \in Calls :
       stage[k] = "answered" /\ reply[k] \in {"COMPLETED", "REJECTED"} =>
       status[Id(k)] = reply[k] /\ row[Id(k)].input = asked[k].input
  /\ \A k \in Calls : Outcome(k, "ok") =>
       status[Id(k)] = "COMPLETED" /\ row[Id(k)].input = asked[k].input
  /\ \A k \in Calls : Outcome(k, "rejected") => status[Id(k)] = "REJECTED"

IInv == TypeOK /\ Posting /\ Ownership /\ Effects /\ AtMostOnce /\ Settlement /\ Answers

-----------------------------------------------------------------------------

(* What the four steps with several outcomes come to. *)
InquireFacts(k, c, i, p) ==
  /\ stage[k] = "none" /\ k \notin begun /\ p \in 0..MaxRuntimes
  /\ asked' = [asked EXCEPT ![k] = [id |-> c, input |-> i, page |-> p]]
  /\ Id(k)' = c /\ \A j \in Calls \ {k} : asked'[j] = asked[j] /\ Id(j)' = Id(j)
  /\ \E a \in {"missing", "told"}, t \in Told :
       /\ at' = [at EXCEPT ![k] = a] /\ told' = [told EXCEPT ![k] = t]
       /\ t = "ok" /\ a = "told" => status[c] = "COMPLETED" /\ row[c].input = i
       /\ t = "rejected" /\ a = "told" => status[c] = "REJECTED"
  /\ UNCHANGED <<kernel, clock, table, header, work, ghosts>>

LookupFacts(k) ==
  /\ up /\ stage[k] \in {"sent", "again"} /\ Id(k) \in Ids
  /\ UNCHANGED <<kernel, clock, table, caller, ghosts>>
  /\ \A j \in Calls : Id(j)' = Id(j)
  /\ \/ /\ stage' = [stage EXCEPT ![k] = "checked"] /\ reply' = reply
        /\ header[k].runtime = runtime
     \/ \E s \in Saved \union {"CONFLICT"} :
          /\ stage' = [stage EXCEPT ![k] = "answered"] /\ reply' = [reply EXCEPT ![k] = s]
          /\ s \in {"COMPLETED", "REJECTED"} =>
               status[Id(k)] = s /\ row[Id(k)].input = asked[k].input

Inserted(k) ==
  /\ stage' = [stage EXCEPT ![k] = "admitted"] /\ status[Id(k)] = "ABSENT"
  /\ status' = [status EXCEPT ![Id(k)] = "RUNNING"]
  /\ row' = [row EXCEPT ![Id(k)] = Asked(k)]
  /\ row'[Id(k)].runtime = runtime /\ row'[Id(k)].input = asked[k].input
  /\ \A c \in Ids \ {Id(k)} : row'[c] = row[c]

AdmitFacts(k) ==
  /\ up /\ stage[k] = "checked" /\ Id(k) \in Ids /\ header[k].runtime = runtime
  /\ reply' = reply /\ UNCHANGED <<kernel, clock, caller, ghosts>>
  /\ \A j \in Calls : Id(j)' = Id(j)
  /\ \/ stage' = [stage EXCEPT ![k] = "again"] /\ UNCHANGED table
     \/ Inserted(k)

EnterFacts(k) ==
  /\ up /\ stage[k] = "admitted" /\ Id(k) \in Ids
  /\ UNCHANGED <<kernel, clock, table, caller, applied>>
  /\ \A j \in Calls : Id(j)' = Id(j)
  /\ \/ /\ stage' = [stage EXCEPT ![k] = "settling"]
        /\ reply' = [reply EXCEPT ![k] = "REJECTED"] /\ begun' = begun
     \/ /\ stage' = [stage EXCEPT ![k] = "running"]
        /\ reply' = reply /\ begun' = begun \union {k}

(* An inquiry names the identity and either finds nothing or is told what the receipt says. *)
LEMMA InquireCases ==
  ASSUME TypeOK, Posting, Effects, NEW k \in Calls, NEW c \in Ids, NEW i \in Inputs,
         NEW p \in 0..runtime, Inquire(k, c, i, p)
  PROVE  InquireFacts(k, c, i, p)
  <1>1. /\ asked' = [asked EXCEPT ![k] = [id |-> c, input |-> i, page |-> p]]
        /\ at[k] = "idle" /\ UNCHANGED <<kernel, clock, table, header, work, ghosts>>
    BY DEF Inquire
  <1>2. stage[k] = "none" /\ k \notin begun
    <2>1. stage[k] = "none"
      BY <1>1 DEF Posting
    <2> QED BY <2>1 DEF Effects
  <1>3. p \in 0..MaxRuntimes
    BY BoundAssumption DEF TypeOK
  <1>4. asked'[k] = [id |-> c, input |-> i, page |-> p] /\ \A j \in Calls \ {k} : asked'[j] = asked[j]
    BY <1>1 DEF TypeOK
  <1>5. Id(k)' = c /\ \A j \in Calls \ {k} : Id(j)' = Id(j)
    BY <1>4 DEF Id
  <1>6. \E a \in {"missing", "told"}, t \in Told :
          /\ at' = [at EXCEPT ![k] = a] /\ told' = [told EXCEPT ![k] = t]
          /\ t = "ok" /\ a = "told" => status[c] = "COMPLETED" /\ row[c].input = i
          /\ t = "rejected" /\ a = "told" => status[c] = "REJECTED"
    <2>1. CASE status[c] = "ABSENT" /\ at' = [at EXCEPT ![k] = "missing"] /\ UNCHANGED told
      <3>1. told[k] \in Told /\ told' = [told EXCEPT ![k] = told[k]]
        BY <2>1 DEF TypeOK
      <3> QED BY <2>1, <3>1
    <2>2. CASE status[c] # "ABSENT" /\ row[c].input # i /\ Tell(k, "denied")
      BY <2>2 DEF Tell, Told
    <2>3. CASE status[c] # "ABSENT" /\ row[c].input = i /\ Tell(k, Result(Shown(c)))
      <3> DEFINE t == Result(Shown(c))
      <3>1. /\ t \in Told
            /\ t = "ok" => status[c] = "COMPLETED"
            /\ t = "rejected" => status[c] = "REJECTED"
        BY DEF Result, Shown, Told
      <3>2. at' = [at EXCEPT ![k] = "told"] /\ told' = [told EXCEPT ![k] = t]
        BY <2>3 DEF Tell
      <3> HIDE DEF t
      <3> QED BY <2>3, <3>1, <3>2
    <2> QED BY <2>1, <2>2, <2>3 DEF Inquire
  <1> QED BY <1>1, <1>2, <1>3, <1>4, <1>5, <1>6 DEF InquireFacts

(* A lookup passes an admissible request on or answers it from the table. *)
LEMMA LookupCases ==
  ASSUME TypeOK, Posting, NEW k \in Calls, Lookup(k)
  PROVE  LookupFacts(k)
  <1>1. up /\ stage[k] \in {"sent", "again"} /\ UNCHANGED <<kernel, clock, table, caller, ghosts>>
    BY DEF Lookup, At
  <1>2. Id(k) \in Ids /\ \A j \in Calls : Id(j)' = Id(j)
    BY <1>1 DEF TypeOK, Posting, Id, caller
  <1>3. CASE Recorded(k) /\ Answer(k, IF row[Id(k)] = Asked(k) THEN Shown(Id(k)) ELSE "CONFLICT")
    <2> DEFINE s == IF row[Id(k)] = Asked(k) THEN Shown(Id(k)) ELSE "CONFLICT"
    <2>1. s \in Saved \union {"CONFLICT"}
      BY <1>2, <1>3 DEF Recorded, Shown, TypeOK, Saved
    <2>2. ASSUME s \in {"COMPLETED", "REJECTED"}
          PROVE  status[Id(k)] = s /\ row[Id(k)].input = asked[k].input
      BY <2>2, <1>2 DEF Shown, Asked
    <2>3. stage' = [stage EXCEPT ![k] = "answered"] /\ reply' = [reply EXCEPT ![k] = s]
      BY <1>3 DEF Answer, Leave
    <2> HIDE DEF s
    <2> QED BY <1>1, <1>2, <2>1, <2>2, <2>3 DEF LookupFacts
  <1>4. CASE Answer(k, "CONFLICT")
    BY <1>1, <1>2, <1>4 DEF Answer, Leave, Saved, LookupFacts
  <1>5. CASE header[k].runtime = runtime /\ Go(k, "checked")
    BY <1>1, <1>2, <1>5 DEF Go, LookupFacts
  <1> QED BY <1>3, <1>4, <1>5 DEF Lookup

(* An admission writes the row of an absent identity or sends the request back to compare. *)
LEMMA AdmitCases ==
  ASSUME TypeOK, Posting, NEW k \in Calls, Admit(k)
  PROVE  AdmitFacts(k)
  <1>1. /\ up /\ stage[k] = "checked" /\ header[k].runtime = runtime /\ reply' = reply
        /\ UNCHANGED <<kernel, clock, caller, ghosts>>
    BY DEF Admit, At, Posting, Go, Insert
  <1>2. Id(k) \in Ids /\ \A j \in Calls : Id(j)' = Id(j)
    BY <1>1 DEF TypeOK, Posting, Id, caller
  <1>3. CASE Recorded(k) /\ Go(k, "again") /\ UNCHANGED table
    BY <1>1, <1>2, <1>3 DEF Go, AdmitFacts
  <1>4. CASE ~Recorded(k) /\ Insert(k)
    <2>1. row'[Id(k)] = Asked(k) /\ \A c \in Ids \ {Id(k)} : row'[c] = row[c]
      BY <1>2, <1>4 DEF Insert, TypeOK
    <2>2. row'[Id(k)].runtime = header[k].runtime /\ row'[Id(k)].input = asked[k].input
      BY <2>1 DEF Asked
    <2> QED BY <1>1, <1>2, <1>4, <2>1, <2>2 DEF Recorded, Insert, Go, Inserted, AdmitFacts
  <1> QED BY <1>3, <1>4 DEF Admit

(* The last look at the deadline rejects the request or enters its effect. *)
LEMMA EnterCases ==
  ASSUME TypeOK, Posting, NEW k \in Calls, Enter(k)
  PROVE  EnterFacts(k)
  <1>1. up /\ stage[k] = "admitted" /\ UNCHANGED <<kernel, clock, table, caller, applied>>
    BY DEF Enter, At
  <1>2. Id(k) \in Ids /\ \A j \in Calls : Id(j)' = Id(j)
    BY <1>1 DEF TypeOK, Posting, Id, caller
  <1> QED BY <1>1, <1>2 DEF Enter, Go, Settle, Leave, EnterFacts

(* One step per action: each variable keeps its type. *)
LEMMA TypesKept == TypeOK /\ Posting /\ Effects /\ [Next]_vars => TypeOK'
  <1> SUFFICES ASSUME TypeOK, Posting, Effects, [Next]_vars PROVE TypeOK'
    OBVIOUS
  <1> USE ClockAssumption, BoundAssumption, NoneAssumption
  <1>1. ASSUME NEW k \in Calls, NEW c \in Ids, NEW i \in Inputs, NEW p \in 0..runtime, Inquire(k, c, i, p) PROVE TypeOK'
    <2>1. InquireFacts(k, c, i, p)
      BY <1>1, InquireCases
    <2>2. asked' \in [Calls -> [id : Ids \union {None}, input : Inputs \union {None}, page : 0..MaxRuntimes]]
      BY <2>1 DEF InquireFacts, TypeOK
    <2>3. at' \in [Calls -> {"idle", "missing", "waiting", "told"}] /\ told' \in [Calls -> Told]
      BY <2>1 DEF InquireFacts, TypeOK
    <2>4. \A j \in Calls : at'[j] # "idle" => asked'[j].id \in Ids /\ asked'[j].input \in Inputs
      <3>1. asked'[k].id = c /\ asked'[k].input = i /\ \A j \in Calls \ {k} : asked'[j] = asked[j] /\ at'[j] = at[j]
        BY <2>1 DEF InquireFacts, TypeOK
      <3> QED BY <3>1 DEF TypeOK
    <2> QED BY <2>1, <2>2, <2>3, <2>4 DEF InquireFacts, TypeOK, kernel, table, work, ghosts
  <1>2. ASSUME NEW k \in Calls, Unavailable(k) PROVE TypeOK'
    BY <1>2 DEF TypeOK, Told, Saved, Stages, Id, Unavailable, kernel, table, caller, work, ghosts, Tell
  <1>3. ASSUME NEW k \in Calls, NEW s \in Skews, Send(k, s) PROVE TypeOK'
    BY <1>3 DEF TypeOK, Told, Saved, Stages, Id, Send, kernel, table, caller, work, ghosts
  <1>4. ASSUME NEW k \in Calls, Hear(k) PROVE TypeOK'
    BY <1>4 DEF TypeOK, Told, Saved, Stages, Id, Hear, kernel, table, caller, work, ghosts, Tell, Result
  <1>5. ASSUME NEW k \in Calls, Lose(k) PROVE TypeOK'
    BY <1>5 DEF TypeOK, Told, Saved, Stages, Id, Lose, kernel, table, caller, work, ghosts, Tell
  <1>6. ASSUME NEW k \in Calls, Lookup(k) PROVE TypeOK'
    <2>1. LookupFacts(k)
      BY <1>6, LookupCases
    <2> QED BY <2>1 DEF LookupFacts, TypeOK, Saved, Stages, kernel, table, caller, ghosts
  <1>7. ASSUME NEW k \in Calls, Admit(k) PROVE TypeOK'
    <2>1. AdmitFacts(k)
      BY <1>7, AdmitCases
    <2>2. Asked(k) \in [runtime : 0..MaxRuntimes, expires : Int, input : Inputs \union {None}]
      BY DEF TypeOK, Asked
    <2>3. row' \in [Ids -> [runtime : 0..MaxRuntimes, expires : Int, input : Inputs \union {None}]]
      BY <2>1, <2>2, SMTT(30) DEF TypeOK, AdmitFacts, Inserted, table
    <2>4. status' \in [Ids -> Saved \union {"ABSENT"}] /\ stage' \in [Calls -> Stages]
      BY <2>1, ZenonT(40) DEF TypeOK, AdmitFacts, Inserted, Saved, Stages, table
    <2> QED BY <2>1, <2>3, <2>4 DEF TypeOK, AdmitFacts, kernel, caller, ghosts
  <1>8. ASSUME NEW k \in Calls, Enter(k) PROVE TypeOK'
    BY <1>8 DEF TypeOK, Told, Saved, Stages, Id, Enter, kernel, table, caller, work, ghosts, At, Go, Settle, Leave
  <1>9. ASSUME NEW k \in Calls, Apply(k) PROVE TypeOK'
    BY <1>9 DEF Apply, At, Go, Effects, TypeOK, Stages, kernel, table, caller, ghosts
  <1>10. ASSUME NEW k \in Calls, Return(k) PROVE TypeOK'
    BY <1>10 DEF TypeOK, Told, Saved, Stages, Id, Return, kernel, table, caller, work, ghosts, At, Settle, Leave
  <1>11. ASSUME NEW k \in Calls, Raise(k) PROVE TypeOK'
    BY <1>11 DEF TypeOK, Told, Saved, Stages, Id, Raise, kernel, table, caller, work, ghosts, At, Settle, Leave
  <1>12. ASSUME NEW k \in Calls, Finish(k) PROVE TypeOK'
    <2>1. Id(k) \in Ids /\ reply[k] \in Saved
      BY <1>12 DEF Finish, At, Posting, Effects, TypeOK, Id, Saved
    <2> QED BY <1>12, <2>1 DEF Finish, At, Answer, Leave, TypeOK, Stages, Saved, kernel, caller, ghosts
  <1>13. ASSUME NEW k \in Calls, StorageError(k) PROVE TypeOK'
    BY <1>13 DEF TypeOK, Told, Saved, Stages, Id, StorageError, kernel, table, caller, work, ghosts, At, Answer, Leave
  <1>14. ASSUME Tick PROVE TypeOK'
    BY <1>14 DEF TypeOK, Told, Saved, Stages, Id, Tick, kernel, table, caller, work, ghosts
  <1>15. ASSUME Crash PROVE TypeOK'
    BY <1>15 DEF TypeOK, Told, Saved, Stages, Id, Crash, kernel, table, caller, work, ghosts
  <1>16. ASSUME Restart PROVE TypeOK'
    BY <1>16 DEF Restart, Posting, TypeOK, table, caller, work, ghosts
  <1>17. ASSUME UNCHANGED vars PROVE TypeOK'
    BY <1>17 DEF TypeOK, Told, Saved, Stages, Id, vars, kernel, table, caller, work, ghosts
  <1> QED BY <1>1, <1>2, <1>3, <1>4, <1>5, <1>6, <1>7, <1>8, <1>9, <1>10, <1>11, <1>12, <1>13, <1>14, <1>15, <1>16, <1>17 DEF Next, Caller, Execute

(* One step per action: a request is at work only for a call that posted it. *)
LEMMA PostingKept == TypeOK /\ Posting /\ Effects /\ [Next]_vars => Posting'
  <1> SUFFICES ASSUME TypeOK, Posting, Effects, [Next]_vars PROVE Posting'
    OBVIOUS
  <1> USE ClockAssumption, BoundAssumption, NoneAssumption
  <1>1. ASSUME NEW k \in Calls, NEW c \in Ids, NEW i \in Inputs, NEW p \in 0..runtime, Inquire(k, c, i, p) PROVE Posting'
    BY <1>1 DEF TypeOK, Posting, Owns, Id, Inquire, kernel, table, caller, work, ghosts, Tell, Result, Shown
  <1>2. ASSUME NEW k \in Calls, Unavailable(k) PROVE Posting'
    BY <1>2 DEF TypeOK, Posting, Owns, Id, Unavailable, kernel, table, caller, work, ghosts, Tell
  <1>3. ASSUME NEW k \in Calls, NEW s \in Skews, Send(k, s) PROVE Posting'
    BY <1>3 DEF TypeOK, Posting, Owns, Id, Send, kernel, table, caller, work, ghosts
  <1>4. ASSUME NEW k \in Calls, Hear(k) PROVE Posting'
    BY <1>4 DEF TypeOK, Posting, Owns, Id, Hear, kernel, table, caller, work, ghosts, Tell, Result
  <1>5. ASSUME NEW k \in Calls, Lose(k) PROVE Posting'
    BY <1>5 DEF TypeOK, Posting, Owns, Id, Lose, kernel, table, caller, work, ghosts, Tell
  <1>6. ASSUME NEW k \in Calls, Lookup(k) PROVE Posting'
    BY <1>6 DEF TypeOK, Posting, Owns, Id, Lookup, kernel, table, caller, work, ghosts, At, Go, Answer, Leave, Recorded, Asked, DeadlineIsNear, Shown
  <1>7. ASSUME NEW k \in Calls, Admit(k) PROVE Posting'
    BY <1>7 DEF TypeOK, Posting, Owns, Id, Admit, kernel, table, caller, work, ghosts, At, Go, Recorded, Insert, Asked
  <1>8. ASSUME NEW k \in Calls, Enter(k) PROVE Posting'
    BY <1>8 DEF TypeOK, Posting, Owns, Id, Enter, kernel, table, caller, work, ghosts, At, Go, Settle, Leave
  <1>9. ASSUME NEW k \in Calls, Apply(k) PROVE Posting'
    BY <1>9 DEF TypeOK, Posting, Owns, Id, Apply, kernel, table, caller, work, ghosts, At, Go
  <1>10. ASSUME NEW k \in Calls, Return(k) PROVE Posting'
    BY <1>10 DEF TypeOK, Posting, Owns, Id, Return, kernel, table, caller, work, ghosts, At, Settle, Leave
  <1>11. ASSUME NEW k \in Calls, Raise(k) PROVE Posting'
    BY <1>11 DEF TypeOK, Posting, Owns, Id, Raise, kernel, table, caller, work, ghosts, At, Settle, Leave
  <1>12. ASSUME NEW k \in Calls, Finish(k) PROVE Posting'
    BY <1>12 DEF TypeOK, Posting, Owns, Id, Finish, kernel, table, caller, work, ghosts, At, Answer, Leave
  <1>13. ASSUME NEW k \in Calls, StorageError(k) PROVE Posting'
    BY <1>13 DEF TypeOK, Posting, Owns, Id, StorageError, kernel, table, caller, work, ghosts, At, Answer, Leave
  <1>14. ASSUME Tick PROVE Posting'
    BY <1>14 DEF TypeOK, Posting, Owns, Id, Tick, kernel, table, caller, work, ghosts
  <1>15. ASSUME Crash PROVE Posting'
    BY <1>15 DEF TypeOK, Posting, Owns, Id, Crash, kernel, table, caller, work, ghosts
  <1>16. ASSUME Restart PROVE Posting'
    BY <1>16 DEF TypeOK, Posting, Owns, Id, Restart, kernel, table, caller, work, ghosts
  <1>17. ASSUME UNCHANGED vars PROVE Posting'
    BY <1>17 DEF TypeOK, Posting, Owns, Id, vars, kernel, table, caller, work, ghosts
  <1> QED BY <1>1, <1>2, <1>3, <1>4, <1>5, <1>6, <1>7, <1>8, <1>9, <1>10, <1>11, <1>12, <1>13, <1>14, <1>15, <1>16, <1>17 DEF Next, Caller, Execute

(* One step per action: an open receipt has one owner. *)
LEMMA OwnershipKept == TypeOK /\ Posting /\ Ownership /\ Effects /\ [Next]_vars => Ownership'
  <1> SUFFICES ASSUME TypeOK, Posting, Ownership, Effects, [Next]_vars PROVE Ownership'
    OBVIOUS
  <1> USE ClockAssumption, BoundAssumption, NoneAssumption
  <1>1. ASSUME NEW k \in Calls, NEW c \in Ids, NEW i \in Inputs, NEW p \in 0..runtime, Inquire(k, c, i, p) PROVE Ownership'
    BY <1>1 DEF TypeOK, Posting, Ownership, Owns, Id, Inquire, kernel, table, caller, work, ghosts, Tell, Result, Shown
  <1>2. ASSUME NEW k \in Calls, Unavailable(k) PROVE Ownership'
    BY <1>2 DEF TypeOK, Posting, Ownership, Owns, Id, Unavailable, kernel, table, caller, work, ghosts, Tell
  <1>3. ASSUME NEW k \in Calls, NEW s \in Skews, Send(k, s) PROVE Ownership'
    BY <1>3 DEF TypeOK, Posting, Ownership, Owns, Id, Send, kernel, table, caller, work, ghosts
  <1>4. ASSUME NEW k \in Calls, Hear(k) PROVE Ownership'
    BY <1>4 DEF TypeOK, Posting, Ownership, Owns, Id, Hear, kernel, table, caller, work, ghosts, Tell, Result
  <1>5. ASSUME NEW k \in Calls, Lose(k) PROVE Ownership'
    BY <1>5 DEF TypeOK, Posting, Ownership, Owns, Id, Lose, kernel, table, caller, work, ghosts, Tell
  <1>6. ASSUME NEW k \in Calls, Lookup(k) PROVE Ownership'
    <2>1. LookupFacts(k)
      BY <1>6, LookupCases
    <2>2. \A j \in Calls : Owns(j)' => Owns(j)
      BY <2>1 DEF LookupFacts, TypeOK, Owns
    <2> QED BY <2>1, <2>2 DEF LookupFacts, Ownership, kernel, table, caller
  <1>7. ASSUME NEW k \in Calls, Admit(k) PROVE Ownership'
    <2>1. AdmitFacts(k)
      BY <1>7, AdmitCases
    <2>2. CASE stage' = [stage EXCEPT ![k] = "again"] /\ UNCHANGED table
      <3>1. \A j \in Calls : Owns(j)' => Owns(j)
        BY <2>2, <2>1 DEF TypeOK, Owns
      <3> QED BY <2>1, <2>2, <3>1 DEF AdmitFacts, Ownership, kernel, table, caller
    <2>3. CASE Inserted(k)
      <3>1. \A j \in Calls : Owns(j) => Id(j) \in Ids /\ Id(j) # Id(k)
        BY <2>3 DEF Inserted, TypeOK, Posting, Ownership, Owns, Id
      <3>2. \A j \in Calls : Owns(j)' => Owns(j) \/ j = k
        BY <2>3 DEF Inserted, TypeOK, Owns
      <3>3. \A c \in Ids \ {Id(k)} : status'[c] = status[c] /\ row'[c] = row[c]
        BY <2>3 DEF Inserted, TypeOK
      <3>4. /\ status'[Id(k)] = "RUNNING" /\ row'[Id(k)].runtime = runtime'
            /\ row'[Id(k)].input = asked'[k].input
        BY <2>1, <2>3 DEF Inserted, AdmitFacts, TypeOK, kernel, caller
      <3> QED BY <2>1, <3>1, <3>2, <3>3, <3>4 DEF AdmitFacts, Ownership, kernel, caller
    <2> QED BY <2>1, <2>2, <2>3 DEF AdmitFacts
  <1>8. ASSUME NEW k \in Calls, Enter(k) PROVE Ownership'
    <2>1. EnterFacts(k)
      BY <1>8, EnterCases
    <2>2. \A j \in Calls : Owns(j)' => Owns(j)
      BY <2>1 DEF EnterFacts, TypeOK, Owns
    <2> QED BY <2>1, <2>2 DEF EnterFacts, Ownership, kernel, table, caller
  <1>9. ASSUME NEW k \in Calls, Apply(k) PROVE Ownership'
    BY <1>9 DEF TypeOK, Posting, Ownership, Owns, Id, Apply, kernel, table, caller, work, ghosts, At, Go
  <1>10. ASSUME NEW k \in Calls, Return(k) PROVE Ownership'
    BY <1>10 DEF TypeOK, Posting, Ownership, Owns, Id, Return, kernel, table, caller, work, ghosts, At, Settle, Leave
  <1>11. ASSUME NEW k \in Calls, Raise(k) PROVE Ownership'
    BY <1>11 DEF TypeOK, Posting, Ownership, Owns, Id, Raise, kernel, table, caller, work, ghosts, At, Settle, Leave
  <1>12. ASSUME NEW k \in Calls, Finish(k) PROVE Ownership'
    BY <1>12 DEF TypeOK, Posting, Ownership, Owns, Id, Finish, kernel, table, caller, work, ghosts, At, Answer, Leave
  <1>13. ASSUME NEW k \in Calls, StorageError(k) PROVE Ownership'
    BY <1>13 DEF TypeOK, Posting, Ownership, Owns, Id, StorageError, kernel, table, caller, work, ghosts, At, Answer, Leave
  <1>14. ASSUME Tick PROVE Ownership'
    BY <1>14 DEF TypeOK, Posting, Ownership, Owns, Id, Tick, kernel, table, caller, work, ghosts
  <1>15. ASSUME Crash PROVE Ownership'
    BY <1>15 DEF TypeOK, Posting, Ownership, Owns, Id, Crash, kernel, table, caller, work, ghosts
  <1>16. ASSUME Restart PROVE Ownership'
    BY <1>16 DEF TypeOK, Posting, Ownership, Owns, Id, Restart, kernel, table, caller, work, ghosts
  <1>17. ASSUME UNCHANGED vars PROVE Ownership'
    BY <1>17 DEF TypeOK, Posting, Ownership, Owns, Id, vars, kernel, table, caller, work, ghosts
  <1> QED BY <1>1, <1>2, <1>3, <1>4, <1>5, <1>6, <1>7, <1>8, <1>9, <1>10, <1>11, <1>12, <1>13, <1>14, <1>15, <1>16, <1>17 DEF Next, Caller, Execute

(* One step per action: effects and the requests at work agree. *)
LEMMA EffectsKept == TypeOK /\ Posting /\ Ownership /\ Effects /\ [Next]_vars => Effects'
  <1> SUFFICES ASSUME TypeOK, Posting, Ownership, Effects, [Next]_vars PROVE Effects'
    OBVIOUS
  <1> USE ClockAssumption, BoundAssumption, NoneAssumption
  <1>1. ASSUME NEW k \in Calls, NEW c \in Ids, NEW i \in Inputs, NEW p \in 0..runtime, Inquire(k, c, i, p) PROVE Effects'
    <2>1. InquireFacts(k, c, i, p)
      BY <1>1, InquireCases
    <2>2. \A j \in begun \union applied : j # k /\ j \in Calls
      BY <2>1 DEF InquireFacts, TypeOK
    <2>3. \A j \in Calls : Owns(j)' => j # k /\ Owns(j)
      BY <2>1 DEF InquireFacts, Owns, work
    <2> QED BY <2>1, <2>2, <2>3 DEF InquireFacts, Effects, table, work, ghosts
  <1>2. ASSUME NEW k \in Calls, Unavailable(k) PROVE Effects'
    BY <1>2 DEF TypeOK, Posting, Ownership, Effects, Owns, Id, Unavailable, kernel, table, caller, work, ghosts, Tell
  <1>3. ASSUME NEW k \in Calls, NEW s \in Skews, Send(k, s) PROVE Effects'
    BY <1>3, SMTT(30) DEF TypeOK, Posting, Ownership, Effects, Owns, Id, Send, kernel, table, caller, work, ghosts
  <1>4. ASSUME NEW k \in Calls, Hear(k) PROVE Effects'
    BY <1>4 DEF TypeOK, Posting, Ownership, Effects, Owns, Id, Hear, kernel, table, caller, work, ghosts, Tell, Result
  <1>5. ASSUME NEW k \in Calls, Lose(k) PROVE Effects'
    BY <1>5 DEF TypeOK, Posting, Ownership, Effects, Owns, Id, Lose, kernel, table, caller, work, ghosts, Tell
  <1>6. ASSUME NEW k \in Calls, Lookup(k) PROVE Effects'
    <2>1. LookupFacts(k)
      BY <1>6, LookupCases
    <2>2. \A j \in Calls : Owns(j)' => Owns(j)
      BY <2>1 DEF LookupFacts, TypeOK, Owns
    <2>3. k \notin begun
      BY <2>1 DEF LookupFacts, Effects
    <2> QED BY <2>1, <2>2, <2>3, SMTT(30) DEF LookupFacts, Effects, TypeOK, table, caller, ghosts
  <1>7. ASSUME NEW k \in Calls, Admit(k) PROVE Effects'
    <2>1. AdmitFacts(k)
      BY <1>7, AdmitCases
    <2>2. k \notin begun
      BY <2>1 DEF AdmitFacts, Effects
    <2>3. \A j \in begun : j \in Calls /\ Id(j) \in Ids
      <3>1. \A j \in begun : j \in Calls /\ stage[j] # "none"
        BY DEF TypeOK, Effects
      <3> QED BY <3>1 DEF TypeOK, Posting, Id
    <2>4. CASE stage' = [stage EXCEPT ![k] = "again"] /\ UNCHANGED table
      <3>1. \A j \in Calls : Owns(j)' => Owns(j)
        BY <2>4 DEF TypeOK, Owns
      <3> QED BY <2>1, <2>2, <2>4, <3>1 DEF AdmitFacts, Effects, TypeOK, table, caller, ghosts
    <2>5. CASE Inserted(k)
      <3>1. \A j \in Calls : Owns(j)' => Owns(j) \/ j = k
        BY <2>5 DEF Inserted, TypeOK, Owns
      <3>2. \A j \in begun : Id(j) # Id(k)
        BY <2>5 DEF Inserted, Effects
      <3> QED BY <2>1, <2>2, <2>3, <2>5, <3>1, <3>2 DEF AdmitFacts, Inserted, Effects, TypeOK, caller, ghosts
    <2> QED BY <2>1, <2>4, <2>5 DEF AdmitFacts
  <1>8. ASSUME NEW k \in Calls, Enter(k) PROVE Effects'
    <2>1. EnterFacts(k)
      BY <1>8, EnterCases
    <2>2. Owns(k) /\ k \notin begun /\ \A j \in Calls : Owns(j)' => Owns(j)
      BY <2>1 DEF EnterFacts, TypeOK, Owns, Effects
    <2>3. status[Id(k)] # "ABSENT" /\ row[Id(k)].input = asked[k].input
      BY <2>2 DEF Ownership
    <2>4. \A j \in begun' : status[Id(j)] # "ABSENT" /\ row[Id(j)].input = asked[j].input
      BY <2>1, <2>3 DEF EnterFacts, Effects
    <2>5. \A j \in begun', l \in Calls : Owns(l) /\ Id(j) = Id(l) => j = l
      <3> SUFFICES ASSUME NEW j \in begun', NEW l \in Calls, Owns(l), Id(j) = Id(l) PROVE j = l
        OBVIOUS
      <3>1. CASE j = k
        BY <3>1, <2>2 DEF Ownership
      <3>2. CASE j \in begun
        BY <3>2 DEF Effects
      <3> QED BY <2>1, <3>1, <3>2 DEF EnterFacts
    <2>6. \A j \in Calls \ {k} : stage'[j] = stage[j] /\ reply'[j] = reply[j]
      BY <2>1 DEF EnterFacts, TypeOK
    <2>7. begun' \subseteq begun \union {k} /\ begun \subseteq begun' /\ applied' = applied
      BY <2>1 DEF EnterFacts
    <2>8. \/ stage'[k] = "settling" /\ reply'[k] = "REJECTED" /\ k \notin begun'
          \/ stage'[k] = "running" /\ k \in begun'
      BY <2>1, <2>2 DEF EnterFacts, TypeOK
    <2>9. \A j \in begun' :
            /\ stage'[j] \in {"running", "applied", "settling", "answered", "dead"}
            /\ status'[Id(j)'] # "ABSENT" /\ row'[Id(j)'].input = asked'[j].input
      BY <2>1, <2>4, <2>6, <2>7, <2>8 DEF EnterFacts, Effects, TypeOK, table, caller
    <2>10. \A j \in begun', l \in Calls : Owns(l)' /\ Id(j)' = Id(l)' => j = l
      BY <2>1, <2>2, <2>5, <2>7 DEF EnterFacts, TypeOK
    <2>11. \A j \in Calls :
             /\ stage'[j] = "running" => j \in begun'
             /\ stage'[j] = "applied" => j \in applied'
             /\ stage'[j] = "settling" =>
                  /\ reply'[j] \in {"COMPLETED", "REJECTED", "UNKNOWN"}
                  /\ reply'[j] = "COMPLETED" => j \in applied'
                  /\ reply'[j] = "REJECTED" => j \notin begun'
                  /\ reply'[j] = "UNKNOWN" => j \in begun'
      BY <2>6, <2>7, <2>8 DEF Effects
    <2> QED BY <2>9, <2>10, <2>11 DEF Effects
  <1>9. ASSUME NEW k \in Calls, Apply(k) PROVE Effects'
    BY <1>9 DEF TypeOK, Posting, Ownership, Effects, Owns, Id, Apply, kernel, table, caller, work, ghosts, At, Go
  <1>10. ASSUME NEW k \in Calls, Return(k) PROVE Effects'
    BY <1>10 DEF TypeOK, Posting, Ownership, Effects, Owns, Id, Return, kernel, table, caller, work, ghosts, At, Settle, Leave
  <1>11. ASSUME NEW k \in Calls, Raise(k) PROVE Effects'
    BY <1>11 DEF TypeOK, Posting, Ownership, Effects, Owns, Id, Raise, kernel, table, caller, work, ghosts, At, Settle, Leave
  <1>12. ASSUME NEW k \in Calls, Finish(k) PROVE Effects'
    <2>1. /\ Owns(k) /\ Id(k) \in Ids /\ reply[k] # "ABSENT"
          /\ status' = [status EXCEPT ![Id(k)] = reply[k]] /\ stage' = [stage EXCEPT ![k] = "answered"]
          /\ reply' = reply /\ UNCHANGED <<row, caller, ghosts>>
      BY <1>12 DEF Finish, At, Answer, Leave, Owns, TypeOK, Posting, Effects, Id
    <2>2. \A j \in Calls : Id(j)' = Id(j) /\ (Owns(j)' => Owns(j))
      BY <2>1 DEF Id, Owns, caller, TypeOK
    <2> QED BY <2>1, <2>2 DEF Effects, TypeOK, caller, ghosts
  <1>13. ASSUME NEW k \in Calls, StorageError(k) PROVE Effects'
    BY <1>13 DEF TypeOK, Posting, Ownership, Effects, Owns, Id, StorageError, kernel, table, caller, work, ghosts, At, Answer, Leave
  <1>14. ASSUME Tick PROVE Effects'
    BY <1>14 DEF TypeOK, Posting, Ownership, Effects, Owns, Id, Tick, kernel, table, caller, work, ghosts
  <1>15. ASSUME Crash PROVE Effects'
    BY <1>15 DEF TypeOK, Posting, Ownership, Effects, Owns, Id, Crash, kernel, table, caller, work, ghosts
  <1>16. ASSUME Restart PROVE Effects'
    BY <1>16 DEF TypeOK, Posting, Ownership, Effects, Owns, Id, Restart, kernel, table, caller, work, ghosts
  <1>17. ASSUME UNCHANGED vars PROVE Effects'
    BY <1>17 DEF TypeOK, Posting, Ownership, Effects, Owns, Id, vars, kernel, table, caller, work, ghosts
  <1> QED BY <1>1, <1>2, <1>3, <1>4, <1>5, <1>6, <1>7, <1>8, <1>9, <1>10, <1>11, <1>12, <1>13, <1>14, <1>15, <1>16, <1>17 DEF Next, Caller, Execute

(* One step per action: no identity is entered twice. *)
LEMMA AtMostOnceKept == TypeOK /\ Posting /\ Ownership /\ Effects /\ AtMostOnce /\ [Next]_vars => AtMostOnce'
  <1> SUFFICES ASSUME TypeOK, Posting, Ownership, Effects, AtMostOnce, [Next]_vars PROVE AtMostOnce'
    OBVIOUS
  <1> USE ClockAssumption, BoundAssumption, NoneAssumption
  <1>1. ASSUME NEW k \in Calls, NEW c \in Ids, NEW i \in Inputs, NEW p \in 0..runtime, Inquire(k, c, i, p) PROVE AtMostOnce'
    <2>1. InquireFacts(k, c, i, p)
      BY <1>1, InquireCases
    <2>2. \A j \in begun' : j \in begun /\ Id(j)' = Id(j)
      BY <2>1 DEF InquireFacts, TypeOK, ghosts
    <2> QED BY <2>2 DEF AtMostOnce
  <1>2. ASSUME NEW k \in Calls, Unavailable(k) PROVE AtMostOnce'
    BY <1>2 DEF TypeOK, Posting, Effects, AtMostOnce, Owns, Id, Unavailable, kernel, table, caller, work, ghosts, Tell
  <1>3. ASSUME NEW k \in Calls, NEW s \in Skews, Send(k, s) PROVE AtMostOnce'
    BY <1>3 DEF TypeOK, Posting, Effects, AtMostOnce, Owns, Id, Send, kernel, table, caller, work, ghosts
  <1>4. ASSUME NEW k \in Calls, Hear(k) PROVE AtMostOnce'
    BY <1>4 DEF TypeOK, Posting, Effects, AtMostOnce, Owns, Id, Hear, kernel, table, caller, work, ghosts, Tell, Result
  <1>5. ASSUME NEW k \in Calls, Lose(k) PROVE AtMostOnce'
    BY <1>5 DEF TypeOK, Posting, Effects, AtMostOnce, Owns, Id, Lose, kernel, table, caller, work, ghosts, Tell
  <1>6. ASSUME NEW k \in Calls, Lookup(k) PROVE AtMostOnce'
    BY <1>6 DEF TypeOK, Posting, Effects, AtMostOnce, Owns, Id, Lookup, kernel, table, caller, work, ghosts, At, Go, Answer, Leave, Recorded, Asked, DeadlineIsNear, Shown
  <1>7. ASSUME NEW k \in Calls, Admit(k) PROVE AtMostOnce'
    BY <1>7 DEF TypeOK, Posting, Effects, AtMostOnce, Owns, Id, Admit, kernel, table, caller, work, ghosts, At, Go, Recorded, Insert, Asked
  <1>8. ASSUME NEW k \in Calls, Enter(k) PROVE AtMostOnce'
    BY <1>8 DEF TypeOK, Posting, Effects, AtMostOnce, Owns, Id, Enter, kernel, table, caller, work, ghosts, At, Go, Settle, Leave
  <1>9. ASSUME NEW k \in Calls, Apply(k) PROVE AtMostOnce'
    BY <1>9 DEF TypeOK, Posting, Effects, AtMostOnce, Owns, Id, Apply, kernel, table, caller, work, ghosts, At, Go
  <1>10. ASSUME NEW k \in Calls, Return(k) PROVE AtMostOnce'
    BY <1>10 DEF TypeOK, Posting, Effects, AtMostOnce, Owns, Id, Return, kernel, table, caller, work, ghosts, At, Settle, Leave
  <1>11. ASSUME NEW k \in Calls, Raise(k) PROVE AtMostOnce'
    BY <1>11 DEF TypeOK, Posting, Effects, AtMostOnce, Owns, Id, Raise, kernel, table, caller, work, ghosts, At, Settle, Leave
  <1>12. ASSUME NEW k \in Calls, Finish(k) PROVE AtMostOnce'
    BY <1>12 DEF TypeOK, Posting, Effects, AtMostOnce, Owns, Id, Finish, kernel, table, caller, work, ghosts, At, Answer, Leave
  <1>13. ASSUME NEW k \in Calls, StorageError(k) PROVE AtMostOnce'
    BY <1>13 DEF TypeOK, Posting, Effects, AtMostOnce, Owns, Id, StorageError, kernel, table, caller, work, ghosts, At, Answer, Leave
  <1>14. ASSUME Tick PROVE AtMostOnce'
    BY <1>14 DEF TypeOK, Posting, Effects, AtMostOnce, Owns, Id, Tick, kernel, table, caller, work, ghosts
  <1>15. ASSUME Crash PROVE AtMostOnce'
    BY <1>15 DEF TypeOK, Posting, Effects, AtMostOnce, Owns, Id, Crash, kernel, table, caller, work, ghosts
  <1>16. ASSUME Restart PROVE AtMostOnce'
    BY <1>16 DEF TypeOK, Posting, Effects, AtMostOnce, Owns, Id, Restart, kernel, table, caller, work, ghosts
  <1>17. ASSUME UNCHANGED vars PROVE AtMostOnce'
    BY <1>17 DEF TypeOK, Posting, Effects, AtMostOnce, Owns, Id, vars, kernel, table, caller, work, ghosts
  <1> QED BY <1>1, <1>2, <1>3, <1>4, <1>5, <1>6, <1>7, <1>8, <1>9, <1>10, <1>11, <1>12, <1>13, <1>14, <1>15, <1>16, <1>17 DEF Next, Caller, Execute

(* One step per action: settled receipts go back to what happened. *)
LEMMA SettlementKept == TypeOK /\ Posting /\ Ownership /\ Effects /\ Settlement /\ [Next]_vars => Settlement'
  <1> SUFFICES ASSUME TypeOK, Posting, Ownership, Effects, Settlement, [Next]_vars PROVE Settlement'
    OBVIOUS
  <1> USE ClockAssumption, BoundAssumption, NoneAssumption
  <1>1. ASSUME NEW k \in Calls, NEW c \in Ids, NEW i \in Inputs, NEW p \in 0..runtime, Inquire(k, c, i, p) PROVE Settlement'
    <2>1. InquireFacts(k, c, i, p)
      BY <1>1, InquireCases
    <2>2. \A j \in begun \union applied : j \in Calls \ {k}
      BY <2>1 DEF InquireFacts, TypeOK
    <2> QED BY <2>1, <2>2 DEF InquireFacts, Settlement, table, ghosts
  <1>2. ASSUME NEW k \in Calls, Unavailable(k) PROVE Settlement'
    BY <1>2 DEF TypeOK, Posting, Ownership, Effects, Settlement, Owns, Id, Unavailable, kernel, table, caller, work, ghosts, Tell
  <1>3. ASSUME NEW k \in Calls, NEW s \in Skews, Send(k, s) PROVE Settlement'
    BY <1>3 DEF TypeOK, Posting, Ownership, Effects, Settlement, Owns, Id, Send, kernel, table, caller, work, ghosts
  <1>4. ASSUME NEW k \in Calls, Hear(k) PROVE Settlement'
    BY <1>4 DEF TypeOK, Posting, Ownership, Effects, Settlement, Owns, Id, Hear, kernel, table, caller, work, ghosts, Tell, Result
  <1>5. ASSUME NEW k \in Calls, Lose(k) PROVE Settlement'
    BY <1>5 DEF TypeOK, Posting, Ownership, Effects, Settlement, Owns, Id, Lose, kernel, table, caller, work, ghosts, Tell
  <1>6. ASSUME NEW k \in Calls, Lookup(k) PROVE Settlement'
    BY <1>6 DEF TypeOK, Posting, Ownership, Effects, Settlement, Owns, Id, Lookup, kernel, table, caller, work, ghosts, At, Go, Answer, Leave, Recorded, Asked, DeadlineIsNear, Shown
  <1>7. ASSUME NEW k \in Calls, Admit(k) PROVE Settlement'
    <2>1. AdmitFacts(k)
      BY <1>7, AdmitCases
    <2>2. \A c \in Ids : status'[c] \in {"COMPLETED", "REJECTED"} =>
            status'[c] = status[c] /\ row'[c] = row[c]
      BY <2>1 DEF AdmitFacts, Inserted, TypeOK, table
    <2>3. \A j \in begun \union applied : Id(j)' = Id(j) /\ asked'[j] = asked[j]
      BY <2>1 DEF AdmitFacts, TypeOK, caller
    <2> QED BY <2>1, <2>2, <2>3 DEF AdmitFacts, Settlement, ghosts
  <1>8. ASSUME NEW k \in Calls, Enter(k) PROVE Settlement'
    BY <1>8 DEF TypeOK, Posting, Ownership, Effects, Settlement, Owns, Id, Enter, kernel, table, caller, work, ghosts, At, Go, Settle, Leave
  <1>9. ASSUME NEW k \in Calls, Apply(k) PROVE Settlement'
    BY <1>9 DEF TypeOK, Posting, Ownership, Effects, Settlement, Owns, Id, Apply, kernel, table, caller, work, ghosts, At, Go
  <1>10. ASSUME NEW k \in Calls, Return(k) PROVE Settlement'
    BY <1>10 DEF TypeOK, Posting, Ownership, Effects, Settlement, Owns, Id, Return, kernel, table, caller, work, ghosts, At, Settle, Leave
  <1>11. ASSUME NEW k \in Calls, Raise(k) PROVE Settlement'
    BY <1>11 DEF TypeOK, Posting, Ownership, Effects, Settlement, Owns, Id, Raise, kernel, table, caller, work, ghosts, At, Settle, Leave
  <1>12. ASSUME NEW k \in Calls, Finish(k) PROVE Settlement'
    BY <1>12 DEF TypeOK, Posting, Ownership, Effects, Settlement, Owns, Id, Finish, kernel, table, caller, work, ghosts, At, Answer, Leave
  <1>13. ASSUME NEW k \in Calls, StorageError(k) PROVE Settlement'
    BY <1>13 DEF TypeOK, Posting, Ownership, Effects, Settlement, Owns, Id, StorageError, kernel, table, caller, work, ghosts, At, Answer, Leave
  <1>14. ASSUME Tick PROVE Settlement'
    BY <1>14 DEF TypeOK, Posting, Ownership, Effects, Settlement, Owns, Id, Tick, kernel, table, caller, work, ghosts
  <1>15. ASSUME Crash PROVE Settlement'
    BY <1>15 DEF TypeOK, Posting, Ownership, Effects, Settlement, Owns, Id, Crash, kernel, table, caller, work, ghosts
  <1>16. ASSUME Restart PROVE Settlement'
    BY <1>16 DEF TypeOK, Posting, Ownership, Effects, Settlement, Owns, Id, Restart, kernel, table, caller, work, ghosts
  <1>17. ASSUME UNCHANGED vars PROVE Settlement'
    BY <1>17 DEF TypeOK, Posting, Ownership, Effects, Settlement, Owns, Id, vars, kernel, table, caller, work, ghosts
  <1> QED BY <1>1, <1>2, <1>3, <1>4, <1>5, <1>6, <1>7, <1>8, <1>9, <1>10, <1>11, <1>12, <1>13, <1>14, <1>15, <1>16, <1>17 DEF Next, Caller, Execute

(* One step per action: answers agree with the receipts. *)
LEMMA AnswersKept == TypeOK /\ Posting /\ Ownership /\ Effects /\ Answers /\ [Next]_vars => Answers'
  <1> SUFFICES ASSUME TypeOK, Posting, Ownership, Effects, Answers, [Next]_vars PROVE Answers'
    OBVIOUS
  <1> USE ClockAssumption, BoundAssumption, NoneAssumption
  <1>1. ASSUME NEW k \in Calls, NEW c \in Ids, NEW i \in Inputs, NEW p \in 0..runtime, Inquire(k, c, i, p) PROVE Answers'
    <2>1. InquireFacts(k, c, i, p)
      BY <1>1, InquireCases
    <2>2. asked'[k].input = i /\ \A j \in Calls \ {k} : asked'[j].input = asked[j].input
      BY <2>1 DEF InquireFacts, TypeOK
    <2> QED BY <2>1, <2>2 DEF InquireFacts, Answers, Outcome, TypeOK, table, work
  <1>2. ASSUME NEW k \in Calls, Unavailable(k) PROVE Answers'
    BY <1>2 DEF TypeOK, Posting, Ownership, Effects, Answers, Outcome, Owns, Id, Unavailable, kernel, table, caller, work, ghosts, Tell
  <1>3. ASSUME NEW k \in Calls, NEW s \in Skews, Send(k, s) PROVE Answers'
    BY <1>3 DEF TypeOK, Posting, Ownership, Effects, Answers, Outcome, Owns, Id, Send, kernel, table, caller, work, ghosts
  <1>4. ASSUME NEW k \in Calls, Hear(k) PROVE Answers'
    BY <1>4 DEF TypeOK, Posting, Ownership, Effects, Answers, Outcome, Owns, Id, Hear, kernel, table, caller, work, ghosts, Tell, Result
  <1>5. ASSUME NEW k \in Calls, Lose(k) PROVE Answers'
    BY <1>5 DEF TypeOK, Posting, Ownership, Effects, Answers, Outcome, Owns, Id, Lose, kernel, table, caller, work, ghosts, Tell
  <1>6. ASSUME NEW k \in Calls, Lookup(k) PROVE Answers'
    BY <1>6 DEF TypeOK, Posting, Ownership, Effects, Answers, Outcome, Owns, Id, Lookup, kernel, table, caller, work, ghosts, At, Go, Answer, Leave, Recorded, Asked, DeadlineIsNear, Shown
  <1>7. ASSUME NEW k \in Calls, Admit(k) PROVE Answers'
    <2>1. AdmitFacts(k)
      BY <1>7, AdmitCases
    <2>2. \A j \in Calls : at[j] # "idle" => Id(j) \in Ids
      BY DEF TypeOK, Id
    <2>3. \A j \in Calls : stage[j] = "answered" => at[j] # "idle"
      BY DEF Posting
    <2>4. \A c \in Ids : status[c] \in {"COMPLETED", "REJECTED"} =>
            status'[c] = status[c] /\ row'[c] = row[c]
      BY <2>1 DEF AdmitFacts, Inserted, TypeOK, table
    <2>5. \A j \in Calls : stage'[j] = "answered" => stage[j] = "answered"
      BY <2>1 DEF AdmitFacts, Inserted, TypeOK
    <2>6. at' = at /\ told' = told /\ asked' = asked /\ reply' = reply /\ \A j \in Calls : Id(j)' = Id(j)
      BY <2>1 DEF AdmitFacts, caller
    <2>7. \A j \in Calls :
            stage'[j] = "answered" /\ reply'[j] \in {"COMPLETED", "REJECTED"} =>
            status'[Id(j)'] = reply'[j] /\ row'[Id(j)'].input = asked'[j].input
      BY <2>2, <2>3, <2>4, <2>5, <2>6 DEF Answers
    <2>8. \A j \in Calls : Outcome(j, "ok")' =>
            status'[Id(j)'] = "COMPLETED" /\ row'[Id(j)'].input = asked'[j].input
      BY <2>2, <2>4, <2>6 DEF Answers, Outcome
    <2>9. \A j \in Calls : Outcome(j, "rejected")' => status'[Id(j)'] = "REJECTED"
      BY <2>2, <2>4, <2>6 DEF Answers, Outcome
    <2> QED BY <2>7, <2>8, <2>9 DEF Answers
  <1>8. ASSUME NEW k \in Calls, Enter(k) PROVE Answers'
    BY <1>8, SMTT(30) DEF TypeOK, Posting, Ownership, Effects, Answers, Outcome, Owns, Id, Enter, kernel, table, caller, work, ghosts, At, Go, Settle, Leave
  <1>9. ASSUME NEW k \in Calls, Apply(k) PROVE Answers'
    BY <1>9 DEF TypeOK, Posting, Ownership, Effects, Answers, Outcome, Owns, Id, Apply, kernel, table, caller, work, ghosts, At, Go
  <1>10. ASSUME NEW k \in Calls, Return(k) PROVE Answers'
    BY <1>10 DEF TypeOK, Posting, Ownership, Effects, Answers, Outcome, Owns, Id, Return, kernel, table, caller, work, ghosts, At, Settle, Leave
  <1>11. ASSUME NEW k \in Calls, Raise(k) PROVE Answers'
    BY <1>11 DEF TypeOK, Posting, Ownership, Effects, Answers, Outcome, Owns, Id, Raise, kernel, table, caller, work, ghosts, At, Settle, Leave
  <1>12. ASSUME NEW k \in Calls, Finish(k) PROVE Answers'
    BY <1>12, SMTT(30) DEF TypeOK, Posting, Ownership, Effects, Answers, Outcome, Owns, Id, Finish, kernel, table, caller, work, ghosts, At, Answer, Leave
  <1>13. ASSUME NEW k \in Calls, StorageError(k) PROVE Answers'
    BY <1>13 DEF TypeOK, Posting, Ownership, Effects, Answers, Outcome, Owns, Id, StorageError, kernel, table, caller, work, ghosts, At, Answer, Leave
  <1>14. ASSUME Tick PROVE Answers'
    BY <1>14 DEF TypeOK, Posting, Ownership, Effects, Answers, Outcome, Owns, Id, Tick, kernel, table, caller, work, ghosts
  <1>15. ASSUME Crash PROVE Answers'
    BY <1>15 DEF TypeOK, Posting, Ownership, Effects, Answers, Outcome, Owns, Id, Crash, kernel, table, caller, work, ghosts
  <1>16. ASSUME Restart PROVE Answers'
    BY <1>16 DEF TypeOK, Posting, Ownership, Effects, Answers, Outcome, Owns, Id, Restart, kernel, table, caller, work, ghosts
  <1>17. ASSUME UNCHANGED vars PROVE Answers'
    BY <1>17 DEF TypeOK, Posting, Ownership, Effects, Answers, Outcome, Owns, Id, vars, kernel, table, caller, work, ghosts
  <1> QED BY <1>1, <1>2, <1>3, <1>4, <1>5, <1>6, <1>7, <1>8, <1>9, <1>10, <1>11, <1>12, <1>13, <1>14, <1>15, <1>16, <1>17 DEF Next, Caller, Execute

(* The invariant holds before any command. *)
LEMMA Initially == Init => IInv
  BY BoundAssumption, ClockAssumption DEF Init, IInv, TypeOK, Saved, Told, Stages, NoRow, NoAsk, NoHeader,
     Posting, Ownership, Effects, AtMostOnce, Settlement, Answers, Owns, Outcome, Id

(* Every step keeps every part of the invariant. *)
LEMMA Inductive == Spec => []IInv
  <1>1. IInv /\ [Next]_vars => IInv'
    BY TypesKept, PostingKept, OwnershipKept, EffectsKept, AtMostOnceKept, SettlementKept,
       AnswersKept DEF IInv
  <1> QED BY Initially, <1>1, PTL DEF Spec

-----------------------------------------------------------------------------
(* No kernel, caller or receipt ever leaves its type.                        *)
THEOREM TypeCorrect == Spec => []TypeOK
  <1>1. IInv => TypeOK
    BY DEF IInv
  <1> QED BY Inductive, <1>1, PTL

(* However often an identity is sent, however requests interleave and however *)
(* often the kernel restarts, its effect is entered at most once.             *)
THEOREM EffectsAtMostOnce == Spec => []AtMostOnce
  <1>1. IInv => AtMostOnce
    BY DEF IInv
  <1> QED BY Inductive, <1>1, PTL

(* A COMPLETED receipt's effect was committed; a REJECTED one's never began.  *)
THEOREM ReceiptsTellTheTruth == Spec => []ReceiptsAreTrue
  <1>1. IInv => ReceiptsAreTrue
    <2> SUFFICES ASSUME IInv, NEW k \in begun
                 PROVE  /\ status[Id(k)] = "COMPLETED" => k \in applied
                        /\ status[Id(k)] # "REJECTED"
      BY DEF ReceiptsAreTrue
    <2>1. k \in Calls /\ Id(k) \in Ids
      <3>1. k \in Calls /\ stage[k] # "none"
        BY DEF IInv, TypeOK, Effects
      <3> QED BY <3>1 DEF IInv, TypeOK, Posting, Id
    <2>2. ASSUME status[Id(k)] = "COMPLETED" PROVE k \in applied
      <3>1. PICK j \in applied : Id(j) = Id(k)
        BY <2>1, <2>2 DEF IInv, Settlement
      <3> QED BY <3>1 DEF IInv, TypeOK, AtMostOnce
    <2> QED BY <2>1, <2>2 DEF IInv, Settlement
  <1> QED BY Inductive, <1>1, PTL

(* A caller told "done" asked for the input whose effect was committed.       *)
THEOREM SuccessMeansApplied == Spec => []SuccessIsReal
  <1>1. IInv => SuccessIsReal
    <2> SUFFICES ASSUME IInv, NEW k \in Calls, Outcome(k, "ok")
                 PROVE  \E j \in applied : Id(j) = Id(k) /\ asked[j].input = asked[k].input
      BY DEF SuccessIsReal
    <2>1. Id(k) \in Ids
      BY DEF IInv, TypeOK, Outcome, Id
    <2>2. status[Id(k)] = "COMPLETED" /\ row[Id(k)].input = asked[k].input
      BY DEF IInv, Answers
    <2> QED BY <2>1, <2>2 DEF IInv, Settlement
  <1> QED BY Inductive, <1>1, PTL

(* A caller told "rejected" named an identity whose effect never begins.      *)
THEOREM RejectedNeverBegins == Spec => []RejectionIsFinal
  <1>1. IInv => RejectionIsFinal
    <2> SUFFICES ASSUME IInv, NEW k \in Calls, Outcome(k, "rejected"), NEW j \in begun
                 PROVE  Id(j) # Id(k)
      BY DEF RejectionIsFinal
    <2>1. Id(k) \in Ids
      BY DEF IInv, TypeOK, Outcome, Id
    <2> QED BY <2>1 DEF IInv, Answers, Settlement
  <1> QED BY Inductive, <1>1, PTL

(* Receipts and callers are told the truth about the effect.                  *)
THEOREM AnswersTellTheTruth == Spec => []AnswersAreTrue
  <1>1. TypeOK /\ ReceiptsAreTrue /\ SuccessIsReal /\ RejectionIsFinal => AnswersAreTrue
    BY DEF AnswersAreTrue
  <1> QED
    BY <1>1, TypeCorrect, ReceiptsTellTheTruth, SuccessMeansApplied, RejectedNeverBegins, PTL

(* An effect is entered only under the runtime its caller and page observed.  *)
THEOREM RestartsNeverRetarget == Spec => NeverRetargeted
  <1> DEFINE A == \A k \in begun' \ begun :
                    header[k].runtime = runtime /\ asked[k].page \in {0, runtime}
  <1>1. IInv /\ [Next]_vars => A
    <2> SUFFICES ASSUME IInv, [Next]_vars, NEW k \in begun' \ begun
                 PROVE  header[k].runtime = runtime /\ asked[k].page \in {0, runtime}
      OBVIOUS
    <2>1. k \in Calls /\ stage[k] = "admitted"
      <3>1. PICK j \in Calls : Enter(j) /\ k = j
        BY DEF Next, Caller, Execute, Inquire, Unavailable, Send, Hear, Lose, Lookup, Admit, Enter,
               Apply, Return, Raise, Finish, StorageError, Tick, Crash, Restart, vars, ghosts
      <3> QED BY <3>1 DEF Enter, At
    <2> QED BY <2>1 DEF IInv, Posting, Owns
  <1>2. [][IInv /\ [Next]_vars => A]_vars
    BY <1>1, PTL
  <1> QED BY Inductive, <1>1, PTL DEF Spec, NeverRetargeted

-----------------------------------------------------------------------------
(* Refinement: what one step does to the receipts a reader sees.             *)

State   == [c \in Ids |-> Shown(c)]
Entered == {Id(k) : k \in begun}
Done    == {Id(k) : k \in applied}

(* A step that leaves the table, the ghosts and their identities alone is a stutter. *)
LEMMA Stutters ==
  ASSUME UNCHANGED <<runtime, table, ghosts>>, \A j \in begun \union applied : Id(j)' = Id(j)
  PROVE  State' = State /\ Entered' = Entered /\ Done' = Done
  BY DEF State, Entered, Done, Shown, table, ghosts

(* What the status of one identity, changed alone, does to the reading of all. *)
LEMMA Moves ==
  ASSUME TypeOK, NEW c \in Ids, NEW s \in Saved \ {"RUNNING"}, status[c] = "RUNNING",
         row[c].runtime = runtime, status' = [status EXCEPT ![c] = s],
         UNCHANGED <<runtime, row, caller, ghosts>>
  PROVE  State[c] = "RUNNING" /\ State' = [State EXCEPT ![c] = s]
         /\ Entered' = Entered /\ Done' = Done
  <1>1. \A d \in Ids : Shown(d)' = IF d = c THEN s ELSE Shown(d)
    BY DEF Shown, TypeOK
  <1>2. State[c] = "RUNNING" /\ State' = [State EXCEPT ![c] = s]
    BY <1>1 DEF State, Shown
  <1> QED BY <1>2 DEF Entered, Done, caller, ghosts, Id

(* One step per action: each maps to a step of CommandContract or to a stutter. *)
LEMMA ContractStep ==
  ASSUME IInv, [Next]_vars
  PROVE  [contract!Next]_(contract!vars)
  <1> USE DEF IInv
  <1>0. ASSUME State' = State /\ Entered' = Entered /\ Done' = Done
        PROVE  [contract!Next]_(contract!vars)
    BY <1>0 DEF State, Entered, Done, contract!vars
  <1>1. ASSUME NEW k \in Calls, NEW c \in Ids, NEW i \in Inputs, NEW p \in 0..runtime,
               Inquire(k, c, i, p)
        PROVE  [contract!Next]_(contract!vars)
    <2>1. InquireFacts(k, c, i, p)
      BY <1>1, InquireCases
    <2>2. \A j \in begun \union applied : j \in Calls \ {k}
      BY <2>1 DEF InquireFacts, TypeOK
    <2> QED BY <1>0, <2>1, <2>2, Stutters DEF InquireFacts, kernel
  <1>2. ASSUME NEW k \in Calls, Unavailable(k) \/ (\E s \in Skews : Send(k, s)) \/ Hear(k) \/ Lose(k)
        PROVE  [contract!Next]_(contract!vars)
    BY <1>0, <1>2, Stutters DEF Unavailable, Send, Hear, Lose, kernel, ghosts, Id
  <1>3. ASSUME NEW k \in Calls, Lookup(k) \/ Return(k) \/ Raise(k) \/ StorageError(k)
        PROVE  [contract!Next]_(contract!vars)
    BY <1>0, <1>3, Stutters DEF Lookup, Return, Raise, StorageError, kernel, caller, ghosts, Id
  <1>4. ASSUME NEW k \in Calls, Admit(k) PROVE [contract!Next]_(contract!vars)
    <2>1. AdmitFacts(k)
      BY <1>4, AdmitCases
    <2>2. CASE UNCHANGED table
      BY <1>0, <2>1, <2>2, Stutters DEF AdmitFacts, kernel, caller, ghosts, Id
    <2>3. CASE Inserted(k)
      <3>1. Id(k) \in Ids /\ State[Id(k)] = "ABSENT"
        BY <2>1, <2>3 DEF AdmitFacts, Inserted, State, Shown
      <3>2. State' = [State EXCEPT ![Id(k)] = "RUNNING"]
        <4>1. \A c \in Ids : Shown(c)' = IF c = Id(k) THEN "RUNNING" ELSE Shown(c)
          BY <2>1, <2>3 DEF AdmitFacts, Inserted, Shown, TypeOK, kernel
        <4> QED BY <3>1, <4>1 DEF State
      <3>3. Entered' = Entered /\ Done' = Done
        BY <2>1 DEF AdmitFacts, Entered, Done, TypeOK, ghosts
      <3>4. contract!Admit(Id(k))
        BY <3>1, <3>2, <3>3 DEF State, Entered, Done, contract!Admit, contract!Move
      <3> QED BY <3>1, <3>4 DEF contract!Next
    <2> QED BY <2>1, <2>2, <2>3 DEF AdmitFacts
  <1>5. ASSUME NEW k \in Calls, Enter(k) PROVE [contract!Next]_(contract!vars)
    <2>1. EnterFacts(k) /\ begun \subseteq Calls /\ applied \subseteq Calls
      BY <1>5, EnterCases DEF TypeOK
    <2>2. CASE begun' = begun
      BY <1>0, <2>1, <2>2, Stutters DEF EnterFacts, kernel, table, ghosts
    <2>3. CASE begun' = begun \union {k}
      <3>1. Id(k) \in Ids /\ State[Id(k)] = "RUNNING"
        BY <2>1 DEF EnterFacts, Ownership, Owns, State, Shown
      <3>2. Id(k) \notin Entered
        BY <2>1 DEF EnterFacts, Effects, Owns, Entered
      <3>3. State' = State /\ Done' = Done
        BY <2>1 DEF EnterFacts, State, Shown, Done, kernel, table
      <3>4. Entered' = Entered \union {Id(k)}
        BY <2>1, <2>3 DEF EnterFacts, Entered
      <3>5. contract!Enter(Id(k))
        BY <3>1, <3>2, <3>3, <3>4 DEF State, Entered, Done, contract!Enter
      <3> QED BY <3>1, <3>5 DEF contract!Next
    <2> QED BY <2>1, <2>2, <2>3 DEF EnterFacts
  <1>6. ASSUME NEW k \in Calls, Apply(k) PROVE [contract!Next]_(contract!vars)
    <2>1. k \in begun /\ Id(k) \in Ids /\ Owns(k)
      BY <1>6 DEF Apply, At, Effects, Posting, TypeOK, Owns, Id
    <2>2. State[Id(k)] = "RUNNING" /\ Id(k) \in Entered
      BY <2>1 DEF Ownership, State, Shown, Entered
    <2>3. State' = State /\ Entered' = Entered /\ Done' = Done \union {Id(k)}
      BY <1>6 DEF Apply, State, Shown, Entered, Done, Id, kernel, table, caller
    <2>4. CASE Id(k) \in Done
      BY <1>0, <2>3, <2>4
    <2>5. CASE Id(k) \notin Done
      <3>1. contract!Apply(Id(k))
        BY <2>2, <2>3, <2>5 DEF State, Entered, Done, contract!Apply
      <3> QED BY <2>1, <3>1 DEF contract!Next
    <2> QED BY <2>4, <2>5
  <1>7. ASSUME NEW k \in Calls, Finish(k) PROVE [contract!Next]_(contract!vars)
    <2> DEFINE c == Id(k)
    <2>1. stage[k] = "settling" /\ Owns(k) /\ c \in Ids
      BY <1>7 DEF Finish, At, Posting, TypeOK, Owns, Id
    <2>2. reply[k] \in {"COMPLETED", "REJECTED", "UNKNOWN"}
      BY <2>1 DEF Effects
    <2>3. status[c] = "RUNNING" /\ row[c].runtime = runtime
      BY <2>1 DEF Ownership
    <2>4. /\ State[c] = "RUNNING" /\ State' = [State EXCEPT ![c] = reply[k]]
          /\ Entered' = Entered /\ Done' = Done
      BY <1>7, <2>1, <2>2, <2>3, Moves DEF Finish, kernel, Saved
    <2>5. CASE reply[k] = "COMPLETED"
      <3>1. c \in Done
        BY <2>1, <2>5 DEF Effects, Done
      <3>2. contract!Complete(c)
        BY <2>4, <2>5, <3>1 DEF State, Entered, Done, contract!Complete, contract!Move
      <3> QED BY <2>1, <3>2 DEF contract!Next
    <2>6. CASE reply[k] = "REJECTED"
      <3>1. c \notin Entered
        BY <2>1, <2>6 DEF Effects, Entered
      <3>2. contract!Reject(c)
        BY <2>4, <2>6, <3>1 DEF State, Entered, Done, contract!Reject, contract!Move
      <3> QED BY <2>1, <3>2 DEF contract!Next
    <2>7. CASE reply[k] = "UNKNOWN"
      <3>1. c \in Entered
        BY <2>1, <2>7 DEF Effects, Entered
      <3>2. contract!GiveUp(c)
        BY <2>4, <2>7, <3>1 DEF State, Entered, Done, contract!GiveUp, contract!Move
      <3> QED BY <2>1, <3>2 DEF contract!Next
    <2> QED BY <2>2, <2>5, <2>6, <2>7
  <1>8. ASSUME Tick \/ Crash PROVE [contract!Next]_(contract!vars)
    BY <1>0, <1>8, Stutters DEF Tick, Crash, kernel, caller, Id
  <1>9. ASSUME Restart PROVE [contract!Next]_(contract!vars)
    <2>1. \A c \in Ids : Shown(c)' = IF Shown(c) = "RUNNING" THEN "UNKNOWN" ELSE Shown(c)
      <3> SUFFICES ASSUME NEW c \in Ids
                   PROVE  Shown(c)' = IF Shown(c) = "RUNNING" THEN "UNKNOWN" ELSE Shown(c)
        OBVIOUS
      <3>1. row[c].runtime # runtime + 1
        BY DEF Posting, TypeOK
      <3> QED BY <1>9, <3>1 DEF Restart, Shown, table
    <2>2. State' = [c \in Ids |-> IF State[c] = "RUNNING" THEN "UNKNOWN" ELSE State[c]]
      BY <2>1 DEF State
    <2>3. Entered' = Entered /\ Done' = Done
      BY <1>9 DEF Restart, Entered, Done, Id, caller, ghosts
    <2> QED BY <2>2, <2>3 DEF State, Entered, Done, contract!Next, contract!Abandon
  <1>10. ASSUME UNCHANGED vars PROVE [contract!Next]_(contract!vars)
    BY <1>0, <1>10, Stutters DEF vars, kernel, caller, Id
  <1> QED BY <1>1, <1>2, <1>3, <1>4, <1>5, <1>6, <1>7, <1>8, <1>9, <1>10 DEF Next, Caller, Execute

(* Receipts and effects behave as CommandContract promises: an identity moves *)
(* from absent through running to one final reading, its effect entered once. *)
THEOREM KeepsCommandContract == Spec => Contract
  <1>1. Init => contract!Init
    BY DEF Init, contract!Init, Shown
  <1>2. IInv /\ [Next]_vars => [contract!Next]_(contract!vars)
    BY ContractStep
  <1> QED BY <1>1, <1>2, Inductive, PTL DEF Spec, contract!Spec, Contract

(* A receipt that reads as settled reads the same for ever, restarts included. *)
THEOREM SettledReceiptsStay == Spec => SettledStays
  <1>1. ASSUME IInv, [Next]_vars, NEW c \in Ids, Shown(c) \notin {"ABSENT", "RUNNING"}
        PROVE  Shown(c)' = Shown(c)
    <2>1. [contract!Next]_(contract!vars)
      BY <1>1, ContractStep
    <2>2. State[c] \notin {"ABSENT", "RUNNING"}
      BY <1>1 DEF State
    <2>3. State'[c] = State[c]
      BY <2>1, <2>2 DEF State, contract!Next, contract!vars, contract!Admit, contract!Enter,
         contract!Apply, contract!Complete, contract!Reject, contract!GiveUp, contract!Abandon,
         contract!Move
    <2> QED BY <2>3 DEF State
  <1>2. IInv /\ [Next]_vars =>
          [\A c \in Ids : Shown(c) \notin {"ABSENT", "RUNNING"} => Shown(c)' = Shown(c)]_vars
    BY <1>1
  <1> QED BY <1>2, Inductive, PTL DEF Spec, SettledStays
-----------------------------------------------------------------------------
(* Liveness: an open receipt is somebody's, and that somebody goes on.        *)

\* What an owner's row holds, and who an open receipt of a live kernel belongs to.
OwnRow == \A k \in Calls : Owns(k) => row[Id(k)] = Asked(k)

OwnedBy(k, c) == Owns(k) /\ Id(k) = c
Open(c)       == Shown(c) = "RUNNING"
Held ==
  \A c \in Ids : Open(c) /\ up => Failed(c) \/ \E k \in Calls : OwnedBy(k, c)

(* One step per action: the row an owner wrote is the one it was asked for.   *)
LEMMA OwnRowKept == IInv /\ OwnRow /\ [Next]_vars => OwnRow'
  <1> SUFFICES ASSUME IInv, OwnRow, [Next]_vars PROVE OwnRow'
    OBVIOUS
  <1> USE DEF IInv
  <1>0. ASSUME \A j \in Calls : Owns(j)' => Owns(j) /\ Id(j)' = Id(j) /\ Asked(j)' = Asked(j),
               \A j \in Calls : Owns(j)' => row'[Id(j)] = row[Id(j)]
        PROVE  OwnRow'
    BY <1>0 DEF OwnRow
  <1>1. ASSUME NEW k \in Calls, NEW c \in Ids, NEW i \in Inputs, NEW p \in 0..runtime,
               Inquire(k, c, i, p)
        PROVE  OwnRow'
    <2>1. InquireFacts(k, c, i, p)
      BY <1>1, InquireCases
    <2>2. \A j \in Calls : Owns(j)' => Owns(j) /\ j # k
      BY <2>1 DEF InquireFacts, Owns, work
    <2> QED BY <1>0, <2>1, <2>2 DEF InquireFacts, Asked, table
  <1>2. ASSUME NEW k \in Calls, NEW s \in Skews, Send(k, s) PROVE OwnRow'
    <2>1. stage[k] = "none" /\ UNCHANGED <<row, asked>>
      BY <1>2 DEF Send, Posting, table
    <2>2. \A j \in Calls : Owns(j)' => Owns(j) /\ j # k
      BY <1>2 DEF Send, Owns, TypeOK
    <2> QED BY <1>0, <1>2, <2>1, <2>2 DEF Send, Asked, Id, TypeOK
  <1>3. ASSUME NEW k \in Calls, Admit(k) PROVE OwnRow'
    <2>1. AdmitFacts(k) /\ (\A j \in Calls : Asked(j)' = Asked(j))
      BY <1>3, AdmitCases DEF AdmitFacts, Asked, caller
    <2>2. CASE UNCHANGED table /\ stage' = [stage EXCEPT ![k] = "again"]
      BY <1>0, <2>1, <2>2 DEF AdmitFacts, Owns, TypeOK, table
    <2>3. CASE Inserted(k)
      <3>1. \A j \in Calls : Owns(j) => Id(j) # Id(k)
        BY <2>3 DEF Inserted, Ownership
      <3>2. \A j \in Calls : Owns(j)' => Owns(j) \/ j = k
        BY <2>3 DEF Inserted, TypeOK, Owns
      <3>3. \A j \in Calls : Owns(j) => row'[Id(j)] = row[Id(j)]
        BY <2>3, <3>1 DEF Inserted, TypeOK, Posting, Owns, Id
      <3>4. row'[Id(k)] = Asked(k)
        BY <2>1, <2>3 DEF Inserted, AdmitFacts, TypeOK
      <3> QED BY <2>1, <3>2, <3>3, <3>4 DEF AdmitFacts, OwnRow
    <2> QED BY <2>1, <2>2, <2>3 DEF AdmitFacts
  <1>4. ASSUME NEW k \in Calls,
               Unavailable(k) \/ Hear(k) \/ Lose(k) \/ Lookup(k) \/ Enter(k) \/ Apply(k) \/ Return(k)
               \/ Raise(k) \/ Finish(k) \/ StorageError(k)
        PROVE  OwnRow'
    <2>1. UNCHANGED <<row, asked, header>>
      BY <1>4 DEF Unavailable, Hear, Lose, Lookup, Enter, Apply, Return, Raise, Finish, StorageError, table, caller
    <2>2. \A j \in Calls : Owns(j)' => Owns(j)
      BY <1>4 DEF Unavailable, Hear, Lose, Lookup, Enter, Apply, Return, Raise, Finish, StorageError,
         At, Go, Settle, Answer, Leave, Owns, work, TypeOK
    <2> QED BY <1>0, <2>1, <2>2 DEF Id, Asked
  <1>5. ASSUME Tick \/ Crash \/ Restart \/ UNCHANGED vars PROVE OwnRow'
    <2>1. UNCHANGED <<row, asked, header>>
      BY <1>5 DEF Tick, Crash, Restart, vars, table, caller
    <2>2. \A j \in Calls : Owns(j)' => Owns(j)
      BY <1>5 DEF Tick, Crash, Restart, vars, Owns, work
    <2> QED BY <1>0, <2>1, <2>2 DEF Id, Asked
  <1> QED BY <1>1, <1>2, <1>3, <1>4, <1>5 DEF Next, Caller, Execute

\* A request that has answered keeps its answer, and so does the row it names.
LEMMA FailureStays ==
  ASSUME IInv, [Next]_vars, NEW c \in Ids, Failed(c), Open(c), Open(c)' PROVE Failed(c)'
  <1> USE DEF IInv
  <1>1. PICK j \in Calls : Id(j) = c /\ Asked(j) = row[c] /\ stage[j] = "answered" /\ reply[j] = "UNAVAILABLE"
    BY DEF Failed
  <1>2. status[c] = "RUNNING"
    BY DEF Open, Shown
  <1>3. ASSUME stage'[j] = "answered", reply'[j] = "UNAVAILABLE", Id(j)' = c, Asked(j)' = Asked(j), row'[c] = row[c]
        PROVE  Failed(c)'
    BY <1>1, <1>3 DEF Failed
  <1>4. ASSUME NEW k \in Calls, NEW d \in Ids, NEW i \in Inputs, NEW p \in 0..runtime, Inquire(k, d, i, p)
        PROVE  Failed(c)'
    <2>1. InquireFacts(k, d, i, p)
      BY <1>4, InquireCases
    <2>2. j # k
      BY <1>1, <2>1 DEF InquireFacts
    <2> QED BY <1>1, <1>3, <2>1, <2>2 DEF InquireFacts, Asked, table, work
  <1>5. ASSUME NEW k \in Calls, NEW s \in Skews, Send(k, s) PROVE Failed(c)'
    <2>1. j # k
      BY <1>1, <1>5 DEF Send, Posting
    <2> QED BY <1>1, <1>3, <1>5, <2>1 DEF Send, Asked, Id, table, TypeOK
  <1>6. ASSUME NEW k \in Calls, Admit(k) PROVE Failed(c)'
    <2>1. AdmitFacts(k) /\ Asked(j)' = Asked(j)
      BY <1>6, AdmitCases DEF AdmitFacts, Asked, caller
    <2>2. j # k
      BY <1>1, <2>1 DEF AdmitFacts
    <2>3. row'[c] = row[c] /\ stage'[j] = stage[j]
      BY <1>2, <2>1, <2>2 DEF AdmitFacts, Inserted, TypeOK, table
    <2> QED BY <1>1, <1>3, <2>1, <2>3 DEF AdmitFacts
  <1>7. ASSUME NEW k \in Calls,
               Unavailable(k) \/ Hear(k) \/ Lose(k) \/ Lookup(k) \/ Enter(k) \/ Apply(k) \/ Return(k)
               \/ Raise(k) \/ Finish(k) \/ StorageError(k)
        PROVE  Failed(c)'
    <2>1. UNCHANGED <<row, asked, header>>
      BY <1>7 DEF Unavailable, Hear, Lose, Lookup, Enter, Apply, Return, Raise, Finish, StorageError, table, caller
    <2>2. stage'[j] = stage[j] /\ reply'[j] = reply[j]
      BY <1>1, <1>7 DEF Unavailable, Hear, Lose, Lookup, Enter, Apply, Return, Raise, Finish, StorageError,
         At, Go, Settle, Answer, Leave, work, TypeOK
    <2> QED BY <1>1, <1>3, <2>1, <2>2 DEF Id, Asked
  <1>8. ASSUME Tick \/ Crash \/ Restart \/ UNCHANGED vars PROVE Failed(c)'
    <2>1. UNCHANGED <<row, asked, header, reply>>
      BY <1>8 DEF Tick, Crash, Restart, vars, table, caller, work
    <2>2. stage'[j] = stage[j]
      BY <1>1, <1>8 DEF Tick, Crash, Restart, vars, work
    <2> QED BY <1>1, <1>3, <2>1, <2>2 DEF Id, Asked
  <1> QED BY <1>4, <1>5, <1>6, <1>7, <1>8 DEF Next, Caller, Execute
\* The request k that owns the receipt c is at the stage s of its way.
Place(k, c, s) == OwnedBy(k, c) /\ stage[k] = s
Settled(c)     == ~Open(c) \/ Failed(c)

\* Nobody but the request itself, a failing transaction and the death of the kernel
\* moves a request that owns its receipt.
LEMMA OwnerMoves ==
  ASSUME IInv, OwnRow, [Next]_vars, NEW k \in Calls, NEW c \in Ids, OwnedBy(k, c)
  PROVE  \/ Execute(k)
         \/ OwnedBy(k, c)' /\ stage'[k] = stage[k]
         \/ Failed(c)'
         \/ ~up'
  <1> USE DEF IInv
  <1>1. k \in Calls /\ Owns(k) /\ Id(k) = c /\ row[c] = Asked(k)
    BY DEF OwnedBy, OwnRow
  <1>2. ASSUME stage'[k] = stage[k], Id(k)' = Id(k) PROVE OwnedBy(k, c)' /\ stage'[k] = stage[k]
    BY <1>1, <1>2 DEF OwnedBy, Owns
  <1>3. ASSUME NEW j \in Calls, NEW d \in Ids, NEW i \in Inputs, NEW p \in 0..runtime, Inquire(j, d, i, p)
        PROVE  OwnedBy(k, c)' /\ stage'[k] = stage[k]
    <2>1. InquireFacts(j, d, i, p)
      BY <1>3, InquireCases
    <2>2. k # j
      BY <1>1, <2>1 DEF InquireFacts, Owns
    <2> QED BY <1>2, <2>1, <2>2 DEF InquireFacts, work
  <1>4. ASSUME NEW j \in Calls, NEW s \in Skews, Send(j, s) PROVE OwnedBy(k, c)' /\ stage'[k] = stage[k]
    <2>1. k # j
      BY <1>1, <1>4 DEF Send, Posting, Owns
    <2> QED BY <1>2, <1>4, <2>1 DEF Send, Id, TypeOK
  <1>5. ASSUME NEW j \in Calls, Unavailable(j) \/ Hear(j) \/ Lose(j)
        PROVE  OwnedBy(k, c)' /\ stage'[k] = stage[k]
    BY <1>2, <1>5 DEF Unavailable, Hear, Lose, Id, work
  <1>6. ASSUME NEW j \in Calls \ {k}, Execute(j) \/ StorageError(j)
        PROVE  OwnedBy(k, c)' /\ stage'[k] = stage[k]
    BY <1>2, <1>6 DEF Execute, Lookup, Admit, Insert, Enter, Apply, Return, Raise, Finish, StorageError,
       Go, Settle, Answer, Leave, Id, caller, TypeOK
  <1>7. ASSUME StorageError(k) PROVE Failed(c)'
    <2>1. /\ stage' = [stage EXCEPT ![k] = "answered"] /\ reply' = [reply EXCEPT ![k] = "UNAVAILABLE"]
          /\ UNCHANGED <<table, caller>>
      BY <1>7 DEF StorageError, Answer, Leave
    <2>2. stage'[k] = "answered" /\ reply'[k] = "UNAVAILABLE"
      BY <2>1 DEF TypeOK
    <2>3. Id(k)' = c /\ Asked(k)' = row'[c]
      BY <1>1, <2>1 DEF Id, Asked, table, caller
    <2> QED BY <2>2, <2>3 DEF Failed
  <1>8. ASSUME Tick \/ UNCHANGED vars PROVE OwnedBy(k, c)' /\ stage'[k] = stage[k]
    BY <1>2, <1>8 DEF Tick, vars, caller, work, Id
  <1>9. CASE Crash
    BY <1>9 DEF Crash
  <1>10. ~Restart
    BY <1>1 DEF Restart, Posting
  <1> QED BY <1>3, <1>4, <1>5, <1>6, <1>7, <1>8, <1>9, <1>10 DEF Next, Caller

\* The next stage of a request that owns its receipt; the last one settles it.
LEMMA OwnerAdvances ==
  ASSUME IInv, NEW k \in Calls, NEW c \in Ids, OwnedBy(k, c), Execute(k)
  PROVE  /\ stage[k] = "admitted" => Place(k, c, "running")' \/ Place(k, c, "settling")'
         /\ stage[k] = "running" => Place(k, c, "applied")' \/ Place(k, c, "settling")'
         /\ stage[k] = "applied" => Place(k, c, "settling")'
         /\ stage[k] = "settling" => ~Open(c)'
  <1> USE DEF IInv
  <1>1. Owns(k) /\ Id(k) = c /\ c \in Ids
    BY DEF OwnedBy
  <1>2. Id(k)' = Id(k)
    BY DEF Execute, Lookup, Admit, Enter, Apply, Return, Raise, Finish, caller, Id
  <1>3. ASSUME NEW s \in {"running", "applied", "settling"}, stage' = [stage EXCEPT ![k] = s]
        PROVE  Place(k, c, s)'
    BY <1>1, <1>2, <1>3 DEF Place, OwnedBy, Owns, TypeOK
  <1>4. CASE Enter(k)
    BY <1>3, <1>4 DEF Enter, At, Go, Settle, Leave
  <1>5. CASE Apply(k)
    BY <1>3, <1>5 DEF Apply, At, Go
  <1>6. CASE Return(k) \/ Raise(k)
    BY <1>3, <1>6 DEF Return, Raise, At, Settle, Leave
  <1>7. CASE Finish(k)
    <2>1. stage[k] = "settling" /\ reply[k] # "RUNNING"
      BY <1>7 DEF Finish, At, Effects
    <2>2. status'[c] = reply[k]
      BY <1>1, <1>7 DEF Finish, TypeOK
    <2>3. ~Open(c)'
      BY <2>1, <2>2 DEF Open, Shown
    <2> QED BY <2>1, <2>3
  <1>8. CASE Lookup(k) \/ Admit(k)
    BY <1>1, <1>8 DEF Lookup, Admit, At, Owns
  <1> QED BY <1>4, <1>5, <1>6, <1>7, <1>8 DEF Execute

\* Only an admission opens a receipt.
LEMMA AdmissionOpens ==
  ASSUME IInv, [Next]_vars, NEW c \in Ids, Open(c)', ~Open(c)
  PROVE  \E k \in Calls : OwnedBy(k, c)'
  <1>1. \E k \in Calls : Admit(k)
    <2>1. ASSUME ~ \E k \in Calls : Admit(k) PROVE FALSE
      <3>1. UNCHANGED <<runtime, row>> \/ Restart
        BY <2>1 DEF Next, Caller, Execute, Inquire, Unavailable, Send, Hear, Lose, Lookup, Enter, Apply,
           Return, Raise, Finish, StorageError, Tick, Crash, vars, kernel, table
      <3>2. CASE Restart
        BY <3>2 DEF Restart, Open, Shown, IInv, Posting, TypeOK, table
      <3>3. CASE UNCHANGED status /\ UNCHANGED <<runtime, row>>
        BY <3>3 DEF Open, Shown
      <3>4. CASE \E k \in Calls : Finish(k)
        <4>1. PICK k \in Calls : Finish(k)
          BY <3>4
        <4>2. reply[k] # "RUNNING" /\ Id(k) \in Ids /\ status[Id(k)] = "RUNNING" /\ row[Id(k)].runtime = runtime
          BY <4>1 DEF Finish, At, IInv, Effects, Ownership, Owns, Posting, TypeOK, Id
        <4>3. status' = [status EXCEPT ![Id(k)] = reply[k]] /\ UNCHANGED <<runtime, row>>
          BY <4>1 DEF Finish, kernel
        <4> QED BY <4>2, <4>3 DEF Open, Shown, IInv, TypeOK
      <3>5. UNCHANGED status \/ \E k \in Calls : Finish(k)
        BY <2>1 DEF Next, Caller, Execute, Inquire, Unavailable, Send, Hear, Lose, Lookup, Enter, Apply,
           Return, Raise, StorageError, Tick, Crash, Restart, vars, kernel, table
      <3> QED BY <3>1, <3>2, <3>3, <3>4, <3>5
    <2> QED BY <2>1
  <1>2. PICK k \in Calls : Admit(k)
    BY <1>1
  <1>3. AdmitFacts(k)
    BY <1>2, AdmitCases DEF IInv
  <1>4. CASE UNCHANGED table
    BY <1>3, <1>4 DEF AdmitFacts, Open, Shown, kernel, table
  <1>5. CASE Inserted(k)
    <2>1. c = Id(k)
      BY <1>3, <1>5 DEF AdmitFacts, Inserted, Open, Shown, IInv, TypeOK, kernel
    <2>2. OwnedBy(k, c)'
      BY <1>3, <1>5, <2>1 DEF AdmitFacts, Inserted, OwnedBy, Owns, IInv, TypeOK
    <2> QED BY <2>2
  <1> QED BY <1>3, <1>4, <1>5 DEF AdmitFacts

\* An open receipt of a running kernel is owned, unless storage failed under its owner.
LEMMA HeldKept == IInv /\ OwnRow /\ Held /\ [Next]_vars => Held'
  <1> SUFFICES ASSUME IInv, OwnRow, Held, [Next]_vars, NEW c \in Ids, Open(c)', up', ~Failed(c)'
               PROVE  \E k \in Calls : OwnedBy(k, c)'
    BY DEF Held
  <1>1. CASE ~Open(c)
    BY <1>1, AdmissionOpens
  <1>2. CASE Open(c) /\ ~up
    <2>1. Restart \/ UNCHANGED up
      <3>1. ASSUME NEW k \in Calls, Caller(k) PROVE UNCHANGED up
        BY <3>1 DEF Caller, Inquire, Unavailable, Send, Hear, Lose, kernel
      <3>2. ASSUME NEW k \in Calls, Execute(k) \/ StorageError(k) PROVE UNCHANGED up
        BY <3>2 DEF Execute, Lookup, Admit, Enter, Apply, Return, Raise, Finish, StorageError, kernel
      <3>3. CASE Tick \/ Crash \/ UNCHANGED vars
        BY <1>2, <3>3 DEF Tick, Crash, vars, kernel
      <3> QED
        BY <3>1, <3>2, <3>3 DEF Next
    <2>2. Restart
      BY <1>2, <2>1
    <2> QED BY <1>2, <2>2 DEF Restart, Open, Shown, IInv, Posting, TypeOK, table
  <1>3. CASE Open(c) /\ up
    <2>1. ~Failed(c)
      BY <1>3, FailureStays
    <2>2. PICK k \in Calls : OwnedBy(k, c)
      BY <1>3, <2>1 DEF Held
    <2>3. CASE Execute(k)
      BY <2>2, <2>3, OwnerAdvances DEF OwnedBy, Owns, Place
    <2> QED BY <2>2, <2>3, OwnerMoves
  <1> QED BY <1>1, <1>2, <1>3

LEMMA Owned == Spec => [](IInv /\ OwnRow /\ Held)
  <1>1. Init => OwnRow /\ Held
    BY DEF Init, OwnRow, Held, Owns, Open, Shown
  <1>2. IInv /\ OwnRow /\ Held /\ [Next]_vars => OwnRow' /\ Held'
    BY OwnRowKept, HeldKept
  <1> QED BY <1>1, <1>2, Inductive, PTL DEF Spec
\* What the liveness of one request rests on.
Onward == FairSpec /\ []NothingWaits
Sound  == IInv /\ OwnRow /\ Held

LEMMA OnwardRuns ==
  Onward => /\ []Sound /\ [][Next]_vars /\ WF_vars(Restart)
            /\ [](~up => ENABLED <<Restart>>_vars)
  <1>1. FairSpec => Spec /\ WF_vars(Restart)
    BY PTL DEF FairSpec
  <1>2. Spec => []Sound /\ [][Next]_vars
    <2>1. IInv /\ OwnRow /\ Held => Sound
      BY DEF Sound
    <2> QED BY <2>1, Owned, PTL DEF Spec
  <1>3. NothingWaits => (~up => ENABLED <<Restart>>_vars)
    BY DEF NothingWaits
  <1> QED BY <1>1, <1>2, <1>3, PTL DEF Onward

LEMMA EachRunsOn == FairSpec => \A k \in Calls : RunsOn(k)
  BY PTL DEF FairSpec

LEMMA OwnerRuns ==
  ASSUME NEW k \in Calls
  PROVE  Onward => WF_vars(Execute(k)) /\ [](Sound /\ Owns(k) => ENABLED <<Execute(k)>>_vars)
  <1>1. (\A j \in Calls : RunsOn(j)) => RunsOn(k)
    OBVIOUS
  <1>2. FairSpec => RunsOn(k)
    BY <1>1, EachRunsOn
  <1>3. RunsOn(k) => WF_vars(Execute(k))
    BY PTL DEF RunsOn
  <1>4. NothingWaits => (Sound /\ Owns(k) => ENABLED <<Execute(k)>>_vars)
    BY DEF NothingWaits, Sound, IInv, Posting, Owns
  <1> QED BY <1>2, <1>3, <1>4, PTL DEF Onward

\* A kernel that died is followed by one that reads the receipt as UNKNOWN.
LEMMA DeadIsReplaced ==
  ASSUME NEW c \in Ids PROVE Onward => (~up ~> Settled(c))
  <1>1. Sound /\ ~up /\ [Next]_vars => (~up)' \/ Restart
    BY DEF Next, Caller, Execute, Inquire, Unavailable, Send, Hear, Lose, Lookup, Admit, Enter, Apply,
       Return, Raise, Finish, StorageError, Tick, Crash, vars, kernel
  <1>2. Sound /\ Restart => Settled(c)'
    BY DEF Restart, Settled, Open, Shown, Sound, IInv, Posting, TypeOK, table
  <1>3. Sound /\ ~up /\ [Next]_vars => (~up)' \/ Settled(c)'
    BY <1>1, <1>2
  <1>4. Sound /\ ~up /\ <<Next /\ Restart>>_vars => Settled(c)'
    BY <1>2
  <1> QED BY <1>3, <1>4, OnwardRuns, PTL

\* The stages of a request that owns its receipt lead to the settled receipt.
LEMMA OwnerSettles ==
  ASSUME NEW c \in Ids, NEW k \in Calls PROVE Onward => (OwnedBy(k, c) ~> Settled(c))
  <1> DEFINE Off == Settled(c) \/ ~up
  <1>0. /\ Sound /\ OwnedBy(k, c) /\ [Next]_vars =>
             Execute(k) \/ (OwnedBy(k, c)' /\ stage'[k] = stage[k]) \/ Off'
        /\ Sound /\ OwnedBy(k, c) => Owns(k)
    BY OwnerMoves DEF Sound, Settled, OwnedBy
  <1>1. /\ Sound /\ Place(k, c, "settling") /\ [Next]_vars => Place(k, c, "settling")' \/ Off'
        /\ Sound /\ Place(k, c, "settling") /\ <<Next /\ Execute(k)>>_vars => Off'
        /\ Sound /\ Place(k, c, "settling") => Owns(k)
    BY <1>0, OwnerAdvances DEF Place, Sound, Settled
  <1>2. /\ Sound /\ Place(k, c, "applied") /\ [Next]_vars =>
             Place(k, c, "applied")' \/ (Place(k, c, "settling")' \/ Off')
        /\ Sound /\ Place(k, c, "applied") /\ <<Next /\ Execute(k)>>_vars => Place(k, c, "settling")' \/ Off'
        /\ Sound /\ Place(k, c, "applied") => Owns(k)
    BY <1>0, OwnerAdvances DEF Place, Sound
  <1>3. /\ Sound /\ Place(k, c, "running") /\ [Next]_vars =>
             Place(k, c, "running")' \/ (Place(k, c, "applied")' \/ Place(k, c, "settling")' \/ Off')
        /\ Sound /\ Place(k, c, "running") /\ <<Next /\ Execute(k)>>_vars =>
             Place(k, c, "applied")' \/ Place(k, c, "settling")' \/ Off'
        /\ Sound /\ Place(k, c, "running") => Owns(k)
    BY <1>0, OwnerAdvances DEF Place, Sound
  <1>4. /\ Sound /\ Place(k, c, "admitted") /\ [Next]_vars =>
             Place(k, c, "admitted")' \/ (Place(k, c, "running")' \/ Place(k, c, "settling")' \/ Off')
        /\ Sound /\ Place(k, c, "admitted") /\ <<Next /\ Execute(k)>>_vars =>
             Place(k, c, "running")' \/ Place(k, c, "settling")' \/ Off'
        /\ Sound /\ Place(k, c, "admitted") => Owns(k)
    BY <1>0, OwnerAdvances DEF Place, Sound
  <1> HIDE DEF Off
  <1>5. Onward => (Place(k, c, "settling") ~> Off)
    BY <1>1, OnwardRuns, OwnerRuns, PTL
  <1>6. Onward => (Place(k, c, "applied") ~> Place(k, c, "settling") \/ Off)
    BY <1>2, OnwardRuns, OwnerRuns, PTL
  <1>7. Onward => (Place(k, c, "running") ~> Place(k, c, "applied") \/ Place(k, c, "settling") \/ Off)
    BY <1>3, OnwardRuns, OwnerRuns, PTL
  <1>8. Onward => (Place(k, c, "admitted") ~> Place(k, c, "running") \/ Place(k, c, "settling") \/ Off)
    BY <1>4, OnwardRuns, OwnerRuns, PTL
  <1>9. OwnedBy(k, c) => \/ Place(k, c, "admitted") \/ Place(k, c, "running")
                         \/ Place(k, c, "applied") \/ Place(k, c, "settling")
    BY DEF OwnedBy, Owns, Place
  <1>10. Off => Settled(c) \/ ~up
    BY DEF Off
  <1> QED BY <1>5, <1>6, <1>7, <1>8, <1>9, <1>10, DeadIsReplaced, PTL

(* No receipt reads RUNNING for ever: its request settles it, or the kernel dies and
   the next one reads it as UNKNOWN, or storage failed under the request and its
   caller was told so.  NothingWaits, which the run checks in every state, says that
   no request of the kernel waits for anything but its own thread. *)
THEOREM EveryReceiptSettles == FairSpec /\ []NothingWaits => ReceiptsSettle
  <1>1. ASSUME NEW c \in Ids
        PROVE  FairSpec /\ []NothingWaits => (Shown(c) = "RUNNING" ~> Shown(c) # "RUNNING" \/ Failed(c))
    <2>1. Onward => \A k \in Calls : [](OwnedBy(k, c) => <>Settled(c))
      <3>1. ASSUME NEW k \in Calls PROVE Onward => [](OwnedBy(k, c) => <>Settled(c))
        BY OwnerSettles, PTL
      <3> QED BY <3>1
    <2>2. (\A k \in Calls : [](OwnedBy(k, c) => <>Settled(c)))
            => [](\A k \in Calls : (OwnedBy(k, c) => <>Settled(c)))
      OBVIOUS
    <2>3. (\A k \in Calls : (OwnedBy(k, c) => <>Settled(c)))
            => ((\E k \in Calls : OwnedBy(k, c)) => <>Settled(c))
      OBVIOUS
    <2>4. Onward => ((\E k \in Calls : OwnedBy(k, c)) ~> Settled(c))
      BY <2>1, <2>2, <2>3, PTL
    <2>5. Sound => (Shown(c) = "RUNNING" => ~up \/ Settled(c) \/ \E k \in Calls : OwnedBy(k, c))
      BY DEF Sound, Held, Open, Settled
    <2>6. Settled(c) <=> Shown(c) # "RUNNING" \/ Failed(c)
      BY DEF Settled, Open
    <2> QED BY <2>4, <2>5, <2>6, DeadIsReplaced, OnwardRuns, PTL DEF Onward
  <1> QED BY <1>1 DEF ReceiptsSettle
=============================================================================

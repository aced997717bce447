------------------------- MODULE DataProcessingProofs -------------------------
(* Proofs about DataProcessing for any processors, requests, contents, parameters
   and revisions and any number of commands and faults: what others can read is
   confirmed and complete, equal work has one product, a backup can be restored. *)
EXTENDS DataProcessing, FiniteSetTheorems, SequenceTheorems, TLAPS

-----------------------------------------------------------------------------
(* The inductive invariant. *)

IsPublished(row) == row.status = "PUBLISHED"

(* A database on its own, running, dumped or restored. *)
Library(src, att, snaps) ==
  /\ src \in Seq(Contents) /\ att \in Seq(Attempt) /\ snaps \subseteq Snapshot
  /\ Len(src) <= Len(att)
  /\ \A i, j \in 1..Len(att) : att[i].request = att[j].request => i = j
  /\ \A i \in 1..Len(att) : /\ att[i].source \in 1..Len(src)
                            /\ IsPublished(att[i]) => att[i].snapshot \in snaps
  /\ \A s \in snaps : s.source \in 1..Len(src)

Unique(src, att) ==
  \A i, j \in 1..Len(att) :
    /\ IsPublished(att[i]) /\ IsPublished(att[j])
    /\ <<src[att[i].source], att[i].parameters, att[i].revision>>
         = <<src[att[j].source], att[j].parameters, att[j].revision>>
    => att[i].snapshot = att[j].snapshot

Busy == {"PICKED", "LOOKING", "PUBLISHING", "CONFIRMING", "EXPORTING"}

(* The rows, and the bytes of every source. *)
Stored == Library(sources, attempts, snapshots) /\ Contained(sources) \subseteq bytes

Bytes == bytes \subseteq Contents

(* What is about to be admitted is new, and its bytes are there. *)
Admitting == admitting # None =>
  /\ admitting \in [content : Contents, attempt : Attempt]
  /\ admitting.content \in Contents \intersect bytes
  /\ admitting.attempt \in Attempt /\ admitting.attempt.status = "PENDING"
  /\ admitting.attempt.source = Len(sources) + 1
  /\ Unknown(admitting.attempt.request)

(* The processors and the bounds. *)
Processing ==
  /\ pc \in [Processors -> Phase] /\ claim \in Processors \union {None}
  /\ outbox \in [Processors -> SUBSET Snapshot]
  /\ current \in [Processors -> Nat] /\ product \in [Processors -> Snapshot \union {None}]
  /\ commands \in 0..MaxCommands /\ crashes \in Nat /\ lost \in Nat /\ crashes + lost <= MaxFaults
  /\ \A p \in Processors :
       /\ pc[p] \in Busy => current[p] \in 1..Len(attempts)
       /\ current[p] # 0 => current[p] \in 1..Len(attempts)
       /\ pc[p] = "DOWN" => current[p] = 0 /\ outbox[p] = {}

(* A processor exports only what is confirmed, and confirms only a snapshot. *)
Exporting ==
  /\ files \subseteq Published
  /\ \A p \in Processors :
       /\ outbox[p] \subseteq Published
       /\ pc[p] = "CONFIRMING" => product[p] \in snapshots
       /\ pc[p] = "EXPORTING" => product[p] \in Published

(* The backup sees a database of its own, whose bytes stay. *)
Dumped ==
  /\ backup \in {"NONE", "WAITING", "HOLDING", "ABANDONED", "DONE", "RESTORED"}
  /\ archived \subseteq Contents
  /\ Library(dump.sources, dump.attempts, dump.snapshots)
  /\ Contained(dump.sources) \subseteq bytes
  /\ backup = "DONE" => Contained(dump.sources) \subseteq archived
  /\ lost = 0 => Unique(dump.sources, dump.attempts)

(* While no claim is lost only its holder is at work, so what it has found out
   about equal work stays true. *)
Alone ==
  lost = 0 =>
    /\ Unique(sources, attempts)
    /\ \A p \in Processors :
         /\ pc[p] \notin {"DOWN", "IDLE"} => claim = p
         /\ pc[p] = "PUBLISHING" => Equivalent(p) = {}
         /\ pc[p] = "CONFIRMING" =>
              \A i \in Equivalent(p) : attempts[i].snapshot = product[p]

QueueInv == Stored /\ Bytes /\ Admitting /\ Processing /\ Exporting /\ Dumped /\ Alone

-----------------------------------------------------------------------------
(* Rows. *)

LEMMA RowsFit ==
  ASSUME NEW att \in Seq(Attempt),
         \A i, j \in 1..Len(att) : att[i].request = att[j].request => i = j
  PROVE  Len(att) <= Cardinality(Requests)
<1> DEFINE f == [i \in 1..Len(att) |-> att[i].request]
<1>1. Len(att) \in Nat /\ \A i \in 1..Len(att) : att[i] \in Attempt
  BY LenProperties, ElementOfSeq
<1>2. f \in Injection(1..Len(att), Requests)
  BY <1>1 DEF Injection, IsInjective, Attempt
<1>3. Cardinality(1..Len(att)) <= Cardinality(Requests)
  BY <1>2, FS_Injection, ProcessingAssumption DEF ProcessingAssumption
<1>4. Cardinality(1..Len(att)) = Len(att)
  <2>1. 1 \in Int /\ Len(att) \in Int
    BY <1>1
  <2>2. Cardinality(1..Len(att)) = IF 1 > Len(att) THEN 0 ELSE Len(att) - 1 + 1
    BY <2>1, FS_Interval
  <2> QED
    BY <1>1, <2>2
<1> QED
  BY <1>3, <1>4

LEMMA RowIsTyped ==
  ASSUME NEW src, NEW att, NEW snaps, Library(src, att, snaps)
  PROVE  /\ Len(src) \in Nat /\ Len(att) \in Nat /\ DOMAIN src = 1..Len(src) /\ DOMAIN att = 1..Len(att)
         /\ \A i \in 1..Len(att) : att[i] \in Attempt
         /\ \A i \in 1..Len(src) : src[i] \in Contents
         /\ Cardinality(Requests) \in Nat /\ Len(att) <= Cardinality(Requests)
         /\ Len(src) <= Cardinality(Requests)
<1>1. /\ Len(src) \in Nat /\ Len(att) \in Nat /\ DOMAIN src = 1..Len(src) /\ DOMAIN att = 1..Len(att)
      /\ \A i \in 1..Len(att) : att[i] \in Attempt
      /\ \A i \in 1..Len(src) : src[i] \in Contents
  BY LenProperties, ElementOfSeq DEF Library
<1>2. Cardinality(Requests) \in Nat
  BY FS_CardinalityType, ProcessingAssumption DEF ProcessingAssumption
<1>3. Len(att) <= Cardinality(Requests)
  BY RowsFit DEF Library
<1>4. Len(src) <= Cardinality(Requests)
  BY <1>1, <1>2, <1>3 DEF Library
<1> QED
  BY <1>1, <1>2, <1>3, <1>4

(* A new row, which may come with a source of its own. *)
LEMMA NewRow ==
  ASSUME NEW src, NEW att, NEW snaps, Library(src, att, snaps),
         NEW row \in Attempt, row.status = "PENDING",
         \A i \in 1..Len(att) : att[i].request # row.request,
         NEW new \in Seq(Contents), Len(src) <= Len(new), Len(new) <= Len(src) + 1,
         row.source \in 1..Len(new)
  PROVE  /\ Library(new, Append(att, row), snaps)
         /\ Len(Append(att, row)) = Len(att) + 1
         /\ \A i \in 1..Len(att) : Append(att, row)[i] = att[i]
         /\ Append(att, row)[Len(att) + 1] = row
<1> DEFINE rows == Append(att, row)
<1>1. /\ Len(src) \in Nat /\ Len(att) \in Nat /\ Len(new) \in Nat
      /\ rows \in Seq(Attempt) /\ Len(rows) = Len(att) + 1
      /\ \A i \in 1..Len(att) : rows[i] = att[i]
      /\ rows[Len(att) + 1] = row
  BY LenProperties, AppendProperties DEF Library
<1> HIDE DEF rows
<1>2. \A i \in 1..Len(rows) : i \in 1..Len(att) \/ (i = Len(att) + 1 /\ rows[i] = row)
  BY <1>1
<1>3. Len(new) <= Len(rows)
  BY <1>1 DEF Library
<1>4. \A i, j \in 1..Len(rows) : rows[i].request = rows[j].request => i = j
  BY <1>1, <1>2 DEF Library
<1>5. ASSUME NEW i \in 1..Len(rows)
      PROVE  rows[i].source \in 1..Len(new) /\ (IsPublished(rows[i]) => rows[i].snapshot \in snaps)
  BY <1>1, <1>2 DEF Library, IsPublished
<1>6. \A s \in snaps : s.source \in 1..Len(new)
  BY <1>1 DEF Library
<1>7. snaps \subseteq Snapshot
  BY DEF Library
<1>8. Library(new, rows, snaps)
  BY <1>1, <1>3, <1>4, <1>5, <1>6, <1>7 DEF Library
<1> QED
  BY <1>1, <1>8 DEF rows
(* Rows are rewritten in place: what the attempt is for never changes. *)
SameWork(r, t) == /\ r.request = t.request /\ r.source = t.source
                  /\ r.parameters = t.parameters /\ r.revision = t.revision

LEMMA SameRows ==
  ASSUME NEW src, NEW att, NEW snaps, Library(src, att, snaps),
         NEW rows \in Seq(Attempt), Len(rows) = Len(att),
         \A i \in 1..Len(att) : /\ SameWork(rows[i], att[i])
                                /\ IsPublished(rows[i]) => rows[i].snapshot \in snaps
  PROVE  Library(src, rows, snaps)
  BY DEF Library, SameWork

LEMMA InterruptedRows ==
  ASSUME NEW att \in Seq(Attempt)
  PROVE  /\ Interrupted(att) \in Seq(Attempt) /\ Len(Interrupted(att)) = Len(att)
         /\ \A i \in 1..Len(att) :
              /\ SameWork(Interrupted(att)[i], att[i])
              /\ IsPublished(Interrupted(att)[i]) <=> IsPublished(att[i])
              /\ IsPublished(att[i]) => Interrupted(att)[i] = att[i]
<1> DEFINE rows == Interrupted(att)
<1>1. Len(att) \in Nat /\ DOMAIN att = 1..Len(att) /\ \A i \in 1..Len(att) : att[i] \in Attempt
  BY LenProperties, ElementOfSeq
<1>2. rows = [i \in 1..Len(att) |-> IF att[i].status = "RUNNING" THEN [att[i] EXCEPT !.status = "FAILED"]
                                    ELSE att[i]]
  BY <1>1 DEF Interrupted
<1>3. ASSUME NEW i \in 1..Len(att)
      PROVE  /\ rows[i] \in Attempt /\ SameWork(rows[i], att[i])
             /\ IsPublished(rows[i]) <=> IsPublished(att[i])
             /\ IsPublished(att[i]) => rows[i] = att[i]
  <2>1. att[i] \in Attempt
    BY <1>1
  <2>2. rows[i] = IF att[i].status = "RUNNING" THEN [att[i] EXCEPT !.status = "FAILED"] ELSE att[i]
    BY <1>2
  <2> QED
    BY <2>1, <2>2 DEF Attempt, Status, Decided, SameWork, IsPublished
<1>4. rows \in Seq(Attempt) /\ Len(rows) = Len(att)
  <2>1. rows \in [1..Len(att) -> Attempt]
    BY <1>2, <1>3
  <2>2. rows \in Seq(Attempt)
    BY <1>1, <2>1, SeqDef
  <2> HIDE DEF rows
  <2> QED
    BY <1>1, <2>1, <2>2, LenProperties
<1> QED
  BY <1>3, <1>4

Written(att, c, status, snapshot) == [att EXCEPT ![c].status = status, ![c].snapshot = snapshot]

LEMMA WrittenRows ==
  ASSUME NEW att \in Seq(Attempt), NEW c \in 1..Len(att), NEW status \in Status,
         NEW snapshot \in Snapshot \union {None}, NEW rows, rows = Written(att, c, status, snapshot)
  PROVE  /\ rows \in Seq(Attempt) /\ Len(rows) = Len(att)
         /\ \A i \in 1..Len(att) : SameWork(rows[i], att[i]) /\ (i # c => rows[i] = att[i])
         /\ rows[c].status = status /\ rows[c].snapshot = snapshot
<1> DEFINE row == [att[c] EXCEPT !.status = status, !.snapshot = snapshot]
<1>1. att \in [1..Len(att) -> Attempt] /\ att[c] \in Attempt
  BY LenProperties, ElementOfSeq
<1>2. row \in Attempt /\ SameWork(row, att[c]) /\ row.status = status /\ row.snapshot = snapshot
  BY <1>1 DEF Attempt, SameWork
<1>3. rows = [att EXCEPT ![c] = row]
  BY <1>1 DEF Written
<1> HIDE DEF row
<1>4. /\ rows \in Seq(Attempt) /\ Len(rows) = Len(att)
      /\ \A i \in 1..Len(att) : rows[i] = IF i = c THEN row ELSE att[i]
  BY <1>2, <1>3, ExceptSeq
<1> QED
  BY <1>2, <1>4 DEF SameWork
-----------------------------------------------------------------------------
(* The database only grows, but for a restoration. *)

Grows ==
  /\ Stored'
  /\ Len(attempts) <= Len(attempts') /\ Len(sources) <= Len(sources')
  /\ \A i \in 1..Len(attempts) : /\ SameWork(attempts'[i], attempts[i])
                                 /\ IsPublished(attempts[i]) => attempts'[i] = attempts[i]
  /\ \A i \in 1..Len(sources) : sources'[i] = sources[i]
  /\ snapshots \subseteq snapshots' /\ bytes \subseteq bytes'

(* No attempt becomes published; no row is added. *)
PublishesNone == \A i \in 1..Len(attempts') :
                   IsPublished(attempts'[i]) => i \in 1..Len(attempts) /\ IsPublished(attempts[i])
AddsNone == Len(attempts') = Len(attempts) /\ sources' = sources

LEMMA Contains ==
  ASSUME NEW src, NEW att, NEW snaps, Library(src, att, snaps), NEW S
  PROVE  Contained(src) \subseteq S <=> \A i \in 1..Len(src) : src[i] \in S
  BY RowIsTyped DEF Contained

LEMMA BytesGrow ==
  ASSUME QueueInv, UNCHANGED database, bytes \subseteq bytes'
  PROVE  Grows /\ PublishesNone /\ AddsNone
<1>1. Stored'
  BY DEF QueueInv, Stored, database
<1>2. Len(attempts) \in Nat /\ Len(sources) \in Nat
  BY RowIsTyped DEF QueueInv, Stored
<1> QED
  BY <1>1, <1>2 DEF database, Grows, PublishesNone, AddsNone, SameWork

LEMMA SnapshotGrows ==
  ASSUME QueueInv, NEW p \in Processors, PublishSnapshot(p)
  PROVE  /\ Grows /\ PublishesNone /\ AddsNone
         /\ Key(Mine(p)) \in snapshots'
<1>1. /\ current[p] \in 1..Len(attempts) /\ UNCHANGED <<sources, attempts, bytes>>
      /\ snapshots' = snapshots \union {Key(Mine(p))}
  BY DEF QueueInv, Processing, Busy, PublishSnapshot, storage
<1>2. /\ Len(attempts) \in Nat /\ Len(sources) \in Nat /\ Len(sources) <= Cardinality(Requests)
      /\ Cardinality(Requests) \in Nat
      /\ Mine(p) \in Attempt /\ Mine(p).source \in 1..Len(sources)
  <2>1. Library(sources, attempts, snapshots)
    BY DEF QueueInv, Stored
  <2>2. Mine(p).source \in 1..Len(sources)
    BY <1>1, <2>1 DEF Library, Mine
  <2> QED
    BY <1>1, <2>1, <2>2, RowIsTyped DEF Mine
<1>3. Key(Mine(p)) \in Snapshot /\ Key(Mine(p)).source \in 1..Len(sources)
  BY <1>2 DEF Key, Snapshot, Attempt
<1>4. Library(sources', attempts', snapshots')
  BY <1>1, <1>3 DEF QueueInv, Stored, Library
<1> QED
  BY <1>1, <1>2, <1>4 DEF QueueInv, Stored, Grows, PublishesNone, AddsNone, SameWork

LEMMA InterruptGrows ==
  ASSUME QueueInv, attempts' = Interrupted(attempts), UNCHANGED <<sources, snapshots, bytes>>
  PROVE  Grows /\ PublishesNone /\ AddsNone
<1>1. /\ attempts \in Seq(Attempt) /\ Library(sources, attempts, snapshots)
      /\ Len(attempts) \in Nat /\ Len(sources) \in Nat
  BY RowIsTyped DEF QueueInv, Stored, Library
<1>2. /\ attempts' \in Seq(Attempt) /\ Len(attempts') = Len(attempts)
      /\ \A i \in 1..Len(attempts) : /\ SameWork(attempts'[i], attempts[i])
                                     /\ IsPublished(attempts'[i]) <=> IsPublished(attempts[i])
                                     /\ IsPublished(attempts[i]) => attempts'[i] = attempts[i]
  BY <1>1, InterruptedRows
<1>3. Library(sources, attempts', snapshots)
  <2>1. \A i \in 1..Len(attempts) : IsPublished(attempts'[i]) => attempts'[i].snapshot \in snapshots
    BY <1>1, <1>2 DEF Library
  <2> QED
    BY <1>1, <1>2, <2>1, SameRows
<1> QED
  BY <1>1, <1>2, <1>3 DEF QueueInv, Stored, Grows, PublishesNone, AddsNone

LEMMA WriteGrows ==
  ASSUME QueueInv, NEW p \in Processors, NEW status \in Status, NEW snapshot \in Snapshot \union {None},
         pc[p] \in Busy, Writable(p), Write(p, status, snapshot),
         status = "PUBLISHED" => snapshot \in snapshots, UNCHANGED <<sources, snapshots, bytes>>
  PROVE  /\ Grows /\ AddsNone
         /\ \A i \in 1..Len(attempts) : i # current[p] => attempts'[i] = attempts[i]
         /\ attempts'[current[p]].status = status /\ attempts'[current[p]].snapshot = snapshot
<1>1. /\ attempts \in Seq(Attempt) /\ Library(sources, attempts, snapshots)
      /\ Len(attempts) \in Nat /\ Len(sources) \in Nat
      /\ current[p] \in 1..Len(attempts)
  BY RowIsTyped DEF QueueInv, Stored, Library, Processing
<1>2. /\ attempts' \in Seq(Attempt) /\ Len(attempts') = Len(attempts)
      /\ \A i \in 1..Len(attempts) : SameWork(attempts'[i], attempts[i]) /\ (i # current[p] => attempts'[i] = attempts[i])
      /\ attempts'[current[p]].status = status /\ attempts'[current[p]].snapshot = snapshot
  <2>1. attempts' = Written(attempts, current[p], status, snapshot)
    BY DEF Write, Written
  <2> QED
    BY <1>1, <2>1, WrittenRows
<1>3. Library(sources, attempts', snapshots)
  <2>1. \A i \in 1..Len(attempts) : IsPublished(attempts'[i]) => attempts'[i].snapshot \in snapshots
    BY <1>1, <1>2 DEF Library, IsPublished
  <2> QED
    BY <1>1, <1>2, <2>1, SameRows
<1>4. ~IsPublished(attempts[current[p]])
  BY DEF Writable, Mine, Decided, IsPublished
<1> QED
  BY <1>1, <1>2, <1>3, <1>4 DEF QueueInv, Stored, Grows, AddsNone

LEMMA SourceAdded ==
  ASSUME NEW src \in Seq(Contents), NEW c \in Contents, NEW new, new = Append(src, c)
  PROVE  /\ new \in Seq(Contents) /\ Len(new) = Len(src) + 1 /\ Len(src) \in Nat
         /\ \A i \in 1..Len(src) : new[i] = src[i]
         /\ new[Len(src) + 1] = c
  BY AppendProperties, LenProperties

Extends(src, new, store) ==
  /\ new \in Seq(Contents) /\ Len(src) <= Len(new) /\ Len(new) <= Len(src) + 1
  /\ \A i \in 1..Len(src) : new[i] = src[i]
  /\ \A i \in 1..Len(new) : i \in 1..Len(src) \/ new[i] \in store

LEMMA SourceExtends ==
  ASSUME NEW src \in Seq(Contents), NEW c \in Contents, NEW store, c \in store,
         NEW new, new = Append(src, c)
  PROVE  Extends(src, new, store) /\ Len(src) + 1 \in 1..Len(new)
<1>1. /\ new \in Seq(Contents) /\ Len(new) = Len(src) + 1 /\ Len(src) \in Nat
      /\ \A i \in 1..Len(src) : new[i] = src[i]
      /\ new[Len(src) + 1] = c
  BY SourceAdded
<1> QED
  BY <1>1 DEF Extends

LEMMA SameExtends ==
  ASSUME NEW src \in Seq(Contents), NEW store PROVE Extends(src, src, store)
<1>1. Len(src) \in Nat
  BY LenProperties
<1> QED
  BY <1>1 DEF Extends

LEMMA RowGrows ==
  ASSUME QueueInv, NEW row \in Attempt, row.status = "PENDING", Unknown(row.request),
         attempts' = Append(attempts, row), UNCHANGED <<snapshots, bytes>>,
         Extends(sources, sources', bytes), row.source \in 1..Len(sources')
  PROVE  Grows /\ PublishesNone
<1>1. /\ Library(sources, attempts, snapshots) /\ Len(attempts) \in Nat /\ Len(sources) \in Nat
      /\ sources \in Seq(Contents) /\ DOMAIN attempts = 1..Len(attempts) /\ DOMAIN sources = 1..Len(sources)
  BY RowIsTyped DEF QueueInv, Stored, Library
<1>2. /\ sources' \in Seq(Contents) /\ Len(sources) <= Len(sources') /\ Len(sources') <= Len(sources) + 1
      /\ row.source \in 1..Len(sources')
      /\ \A i \in 1..Len(sources) : sources'[i] = sources[i]
      /\ \A i \in 1..Len(sources') : i \in 1..Len(sources) \/ sources'[i] \in bytes
  BY <1>1 DEF Extends
<1>3. \A i \in 1..Len(attempts) : attempts[i].request # row.request
  BY <1>1 DEF Unknown
<1>4. /\ Library(sources', attempts', snapshots) /\ Len(attempts') = Len(attempts) + 1
      /\ \A i \in 1..Len(attempts) : attempts'[i] = attempts[i]
      /\ attempts'[Len(attempts) + 1] = row
  BY <1>1, <1>2, <1>3, NewRow
<1>5. Contained(sources') \subseteq bytes
  <2>1. \A i \in 1..Len(sources) : sources[i] \in bytes
    BY <1>1, Contains DEF QueueInv, Stored
  <2> QED
    BY <1>2, <1>4, <2>1, Contains
<1>6. PublishesNone
  BY <1>1, <1>4 DEF PublishesNone, IsPublished
<1>7. Stored'
  BY <1>4, <1>5 DEF Stored
<1> QED
  BY <1>1, <1>2, <1>4, <1>6, <1>7 DEF Grows, SameWork
LEMMA NewAttemptIsNew ==
  ASSUME NEW r \in Requests, NEW s \in Slot, NEW m \in Parameters, NEW v \in Revisions
  PROVE  /\ NewAttempt(r, s, m, v) \in Attempt
         /\ NewAttempt(r, s, m, v).status = "PENDING"
         /\ NewAttempt(r, s, m, v).request = r /\ NewAttempt(r, s, m, v).source = s
  BY DEF NewAttempt, Attempt, Status

LEMMA AdmitGrows == ASSUME QueueInv, Admit PROVE Grows /\ PublishesNone
<1>1. /\ admitting.attempt \in Attempt /\ admitting.attempt.status = "PENDING"
      /\ Unknown(admitting.attempt.request) /\ admitting.content \in Contents
      /\ admitting.content \in bytes /\ admitting.attempt.source = Len(sources) + 1
      /\ attempts' = Append(attempts, admitting.attempt) /\ UNCHANGED <<snapshots, bytes>>
      /\ sources' = Append(sources, admitting.content)
  BY DEF QueueInv, Admitting, Admit, storage
<1>2. sources \in Seq(Contents)
  BY DEF QueueInv, Stored, Library
<1>3. Extends(sources, sources', bytes) /\ admitting.attempt.source \in 1..Len(sources')
  BY <1>1, <1>2, SourceExtends
<1> QED
  BY <1>1, <1>3, RowGrows

LEMMA ResubmitGrows ==
  ASSUME QueueInv, NEW r \in Requests, NEW m \in Parameters, NEW v \in Revisions,
         NEW s \in DOMAIN sources, Resubmit(r, s, m, v)
  PROVE  Grows /\ PublishesNone
<1>1. /\ sources \in Seq(Contents) /\ DOMAIN sources = 1..Len(sources) /\ s \in Slot
  <2>1. /\ sources \in Seq(Contents) /\ DOMAIN sources = 1..Len(sources) /\ Len(sources) \in Nat
        /\ Cardinality(Requests) \in Nat /\ Len(sources) <= Cardinality(Requests)
    BY RowIsTyped DEF QueueInv, Stored, Library
  <2> QED
    BY <2>1 DEF Slot
<1>2. PICK row \in Attempt : /\ row = NewAttempt(r, s, m, v) /\ row.status = "PENDING"
                             /\ row.request = r /\ row.source = s
  BY <1>1, NewAttemptIsNew
<1>3. /\ attempts' = Append(attempts, row) /\ UNCHANGED <<snapshots, bytes>> /\ sources' = sources
      /\ Unknown(row.request)
  BY <1>2 DEF Resubmit, storage
<1>4. Extends(sources, sources', bytes) /\ row.source \in 1..Len(sources')
  BY <1>1, <1>2, <1>3, SameExtends
<1> QED
  BY <1>2, <1>3, <1>4, RowGrows

LEMMA ConfirmGrows ==
  ASSUME QueueInv, NEW p \in Processors, Confirm(p)
  PROVE  /\ Grows /\ AddsNone
         /\ \A i \in 1..Len(attempts) : i # current[p] => attempts'[i] = attempts[i]
         /\ IsPublished(attempts'[current[p]]) /\ attempts'[current[p]].snapshot = product[p]
<1>1. /\ pc[p] \in Busy /\ Writable(p) /\ Write(p, "PUBLISHED", product[p])
      /\ UNCHANGED <<sources, snapshots, bytes>> /\ product[p] \in snapshots
  BY DEF Confirm, Busy, storage, QueueInv, Exporting
<1>2. product[p] \in Snapshot \union {None} /\ "PUBLISHED" \in Status
  BY DEF QueueInv, Processing, Status, Decided
<1> QED
  BY <1>1, <1>2, WriteGrows DEF IsPublished

LEMMA WritesGrow ==
  ASSUME QueueInv, NEW p \in Processors, Begin(p) \/ Refuse(p) \/ Fail(p)
  PROVE  Grows /\ PublishesNone /\ AddsNone
<1>1. PICK status \in {"RUNNING", "FAILED"} :
        /\ pc[p] \in Busy /\ Writable(p) /\ Write(p, status, None)
        /\ UNCHANGED <<sources, snapshots, bytes>>
  BY DEF Begin, Refuse, Fail, Busy, storage
<1>2. status \in Status /\ None \in Snapshot \union {None} /\ status # "PUBLISHED"
  BY DEF Status, Decided
<1>3. /\ Grows /\ AddsNone
      /\ \A i \in 1..Len(attempts) : i # current[p] => attempts'[i] = attempts[i]
      /\ attempts'[current[p]].status = status
  BY <1>1, <1>2, WriteGrows
<1>4. PublishesNone
  BY <1>2, <1>3 DEF PublishesNone, AddsNone, IsPublished
<1> QED
  BY <1>3, <1>4

LEMMA StepsGrow ==
  ASSUME QueueInv, Next
  PROVE  \/ Restore
         \/ Grows /\ PublishesNone /\ AddsNone
         \/ Grows /\ PublishesNone /\ Admit
         \/ \E r \in Requests, m \in Parameters, v \in Revisions, s \in DOMAIN sources :
              Grows /\ PublishesNone /\ Resubmit(r, s, m, v)
         \/ \E p \in Processors : Grows /\ AddsNone /\ Confirm(p)
<1>1. ASSUME UNCHANGED database, bytes \subseteq bytes' PROVE Grows /\ PublishesNone /\ AddsNone
  BY <1>1, BytesGrow
<1>2. ASSUME NEW r, NEW c, NEW m, NEW v, Store(r, c, m, v) PROVE UNCHANGED database /\ bytes \subseteq bytes'
  BY <1>2 DEF Store
<1>3. CASE AbandonAdmission \/ LoseClaim \/ BeginBackup \/ CloseGate \/ CopyBackup \/ AbandonBackup
  BY <1>1, <1>3 DEF AbandonAdmission, LoseClaim, BeginBackup, CloseGate, CopyBackup, AbandonBackup, storage
<1>4. ASSUME NEW p \in Processors, \/ TimeOut(p) \/ Crash(p) \/ Start(p) \/ Claim(p) \/ Repair(p) \/ Pick(p)
                                   \/ NothingToDo(p) \/ Leave(p) \/ Reuse(p) \/ Import(p) \/ Export(p) \/ Fenced(p)
      PROVE  UNCHANGED database /\ bytes \subseteq bytes'
  BY <1>4 DEF TimeOut, Crash, Start, Claim, Repair, Pick, NothingToDo, Leave, Reuse, Import, Export, Fenced, storage
<1>5. ASSUME NEW p \in Processors, Interrupt(p) PROVE Grows /\ PublishesNone /\ AddsNone
  BY <1>5, InterruptGrows DEF Interrupt, storage
<1> QED
  BY <1>1, <1>2, <1>3, <1>4, <1>5, AdmitGrows, ResubmitGrows, ConfirmGrows, WritesGrow, SnapshotGrows
     DEF Next, Process

-----------------------------------------------------------------------------
(* What growth leaves true. *)

LEMMA PublishedStays ==
  ASSUME QueueInv, Grows PROVE Published \subseteq Published'
<1>1. /\ Len(attempts) \in Nat /\ DOMAIN attempts = 1..Len(attempts) /\ DOMAIN attempts' = 1..Len(attempts')
      /\ Len(attempts') \in Nat
  BY RowIsTyped DEF QueueInv, Stored, Grows
<1>2. ASSUME NEW i \in Confirmed PROVE i \in Confirmed' /\ attempts'[i].snapshot = attempts[i].snapshot
  BY <1>1, <1>2 DEF Confirmed, Grows, IsPublished
<1> QED
  BY <1>2 DEF Published

(* A row, and what it means, is what it was. *)
LEMMA MeaningStays ==
  ASSUME QueueInv, Grows, NEW i \in 1..Len(attempts)
  PROVE  /\ i \in 1..Len(attempts') /\ attempts[i] \in Attempt /\ attempts'[i] \in Attempt
         /\ Meaning(attempts[i])' = Meaning(attempts[i])
         /\ Key(attempts[i])' = Key(attempts[i])
<1>1. /\ Len(attempts) \in Nat /\ Len(attempts') \in Nat
      /\ attempts[i] \in Attempt /\ attempts[i].source \in 1..Len(sources)
      /\ \A k \in 1..Len(attempts') : attempts'[k] \in Attempt
  BY RowIsTyped DEF QueueInv, Stored, Grows, Library
<1>2. SameWork(attempts'[i], attempts[i]) /\ sources'[attempts[i].source] = sources[attempts[i].source]
      /\ Len(attempts) <= Len(attempts')
  BY <1>1 DEF Grows
<1> QED
  BY <1>1, <1>2 DEF SameWork, Meaning, Key
-----------------------------------------------------------------------------
(* One lemma per conjunct. *)

LEMMA StoredStays == ASSUME QueueInv, Next PROVE Stored'
<1>1. CASE Restore
  <2>1. /\ Library(dump.sources, dump.attempts, dump.snapshots)
        /\ sources' = dump.sources /\ attempts' = Interrupted(dump.attempts)
        /\ snapshots' = dump.snapshots /\ bytes' = archived
        /\ Contained(dump.sources) \subseteq archived
    BY <1>1 DEF QueueInv, Dumped, Restore
  <2>2. dump.attempts \in Seq(Attempt)
    BY <2>1 DEF Library
  <2>3. Library(dump.sources, Interrupted(dump.attempts), dump.snapshots)
    <3>1. \A i \in 1..Len(dump.attempts) :
            IsPublished(Interrupted(dump.attempts)[i]) => Interrupted(dump.attempts)[i].snapshot \in dump.snapshots
      BY <2>1, <2>2, InterruptedRows DEF Library
    <3> QED
      BY <2>1, <2>2, <3>1, InterruptedRows, SameRows
  <2> QED
    BY <2>1, <2>3 DEF Stored
<1> QED
  BY <1>1, StepsGrow DEF Grows

LEMMA RoomLeft ==
  ASSUME NEW src, NEW att, NEW snaps, Library(src, att, snaps), NEW r \in Requests,
         \A i \in 1..Len(att) : att[i].request # r
  PROVE  Len(src) + 1 \in Slot
<1> DEFINE f == [i \in 1..Len(att) |-> att[i].request]
<1>1. /\ Len(src) \in Nat /\ Len(att) \in Nat /\ Cardinality(Requests) \in Nat
      /\ \A i \in 1..Len(att) : att[i] \in Attempt
  BY RowIsTyped
<1>2. f \in Injection(1..Len(att), Requests \ {r})
  BY <1>1 DEF Injection, IsInjective, Attempt, Library
<1>3. /\ IsFiniteSet(Requests \ {r}) /\ Cardinality(Requests \ {r}) = Cardinality(Requests) - 1
  BY FS_RemoveElement, ProcessingAssumption DEF ProcessingAssumption
<1>4. Cardinality(1..Len(att)) <= Cardinality(Requests) - 1
  BY <1>2, <1>3, FS_Injection
<1>5. Cardinality(1..Len(att)) = Len(att)
  <2>1. 1 \in Int /\ Len(att) \in Int
    BY <1>1
  <2>2. Cardinality(1..Len(att)) = IF 1 > Len(att) THEN 0 ELSE Len(att) - 1 + 1
    BY <2>1, FS_Interval
  <2> QED
    BY <1>1, <2>2
<1> QED
  BY <1>1, <1>4, <1>5 DEF Slot, Library

LEMMA AdmittingStays == ASSUME QueueInv, Next PROVE Admitting'
<1>1. ASSUME admitting' = None PROVE Admitting'
  BY <1>1 DEF Admitting
<1>2. ASSUME NEW r \in Requests, NEW c \in Contents, NEW m \in Parameters, NEW v \in Revisions, Store(r, c, m, v)
      PROVE  Admitting'
  <2>1. /\ Library(sources, attempts, snapshots) /\ DOMAIN attempts = 1..Len(attempts)
    BY RowIsTyped DEF QueueInv, Stored
  <2>2. Len(sources) + 1 \in Slot
    BY <1>2, <2>1, RoomLeft DEF Store, Unknown
  <2>3. PICK row \in Attempt : /\ row = NewAttempt(r, Len(sources) + 1, m, v) /\ row.status = "PENDING"
                               /\ row.request = r /\ row.source = Len(sources) + 1
    BY <2>2, NewAttemptIsNew
  <2>4. /\ admitting' = [content |-> c, attempt |-> row] /\ c \in bytes' /\ Unknown(row.request)
        /\ UNCHANGED <<sources, attempts>>
    BY <1>2, <2>3 DEF Store, database
  <2>5. Unknown(row.request)'
    BY <2>4 DEF Unknown
  <2>6. admitting'.content = c /\ admitting'.attempt = row
    BY <2>4
  <2> QED
    BY <2>3, <2>4, <2>5, <2>6 DEF Admitting
<1>3. ASSUME Grows, AddsNone, admitting' = admitting PROVE Admitting'
  <2> SUFFICES ASSUME admitting # None PROVE Admitting'
    BY <1>3 DEF Admitting
  <2>1. /\ admitting \in [content : Contents, attempt : Attempt]
        /\ admitting.content \in Contents \intersect bytes
        /\ admitting.attempt \in Attempt /\ admitting.attempt.status = "PENDING"
        /\ admitting.attempt.source = Len(sources) + 1
        /\ Unknown(admitting.attempt.request)
    BY DEF QueueInv, Admitting
  <2>2. DOMAIN attempts = 1..Len(attempts) /\ DOMAIN attempts' = 1..Len(attempts)
    BY <1>3, RowIsTyped DEF QueueInv, Stored, Grows, AddsNone
  <2>3. Unknown(admitting.attempt.request)'
    BY <1>3, <2>1, <2>2 DEF Unknown, Grows, SameWork
  <2> QED
    BY <1>3, <2>1, <2>3 DEF Admitting, Grows, AddsNone
<1>4. ASSUME NEW p \in Processors, Process(p) \/ TimeOut(p) \/ Crash(p) \/ Start(p)
      PROVE  admitting' = admitting
  BY <1>4 DEF Process, TimeOut, Crash, Start, Claim, Interrupt, Repair, Pick, NothingToDo, Leave, Begin, Refuse,
     Reuse, Import, PublishSnapshot, Confirm, Export, Fail, Fenced
<1>5. CASE Restore \/ Admit \/ AbandonAdmission
  BY <1>1, <1>5 DEF Restore, Admit, AbandonAdmission
<1>6. ASSUME NEW r, NEW m, NEW v, NEW s, Resubmit(r, s, m, v) PROVE Admitting'
  BY <1>1, <1>6 DEF Resubmit
<1>7. \/ Restore \/ Admit \/ (\E r, m, v, s : Resubmit(r, s, m, v)) \/ (Grows /\ AddsNone)
  BY StepsGrow
<1>8. admitting' = admitting => Admitting'
  BY <1>3, <1>5, <1>6, <1>7
<1>9. CASE LoseClaim \/ BeginBackup \/ CloseGate \/ CopyBackup \/ AbandonBackup
  BY <1>8, <1>9 DEF LoseClaim, BeginBackup, CloseGate, CopyBackup, AbandonBackup
<1> QED
  BY <1>2, <1>4, <1>5, <1>6, <1>8, <1>9 DEF Next
LEMMA PublishedTyped ==
  ASSUME QueueInv
  PROVE  /\ Published \subseteq snapshots /\ snapshots \subseteq Snapshot
         /\ \A i \in Confirmed : i \in 1..Len(attempts) /\ attempts[i].snapshot \in snapshots
<1>1. /\ DOMAIN attempts = 1..Len(attempts) /\ Library(sources, attempts, snapshots)
  BY RowIsTyped DEF QueueInv, Stored
<1>2. \A i \in Confirmed : i \in 1..Len(attempts) /\ attempts[i].snapshot \in snapshots
  BY <1>1 DEF Confirmed, Library, IsPublished
<1> QED
  BY <1>1, <1>2 DEF Published, Library

LEMMA KeyTyped ==
  ASSUME QueueInv, NEW p \in Processors, pc[p] \in Busy
  PROVE  Mine(p) \in Attempt /\ Key(Mine(p)) \in Snapshot
<1>1. Mine(p) \in Attempt
  BY RowIsTyped DEF QueueInv, Stored, Processing, Mine
<1> QED
  BY <1>1 DEF Attempt, Key, Snapshot

(* What a step of a processor does to its own state. *)
Turns(p) ==
  /\ claim' \in Processors \union {None}
  /\ commands' \in 0..MaxCommands /\ crashes' \in Nat /\ lost' = lost /\ crashes' + lost <= MaxFaults
  /\ \E phase \in Phase, n \in {0} \union 1..Len(attempts), o \in SUBSET Snapshot, s \in Snapshot \union {None} :
       /\ pc' = [pc EXCEPT ![p] = phase] /\ current' = [current EXCEPT ![p] = n]
       /\ outbox' = [outbox EXCEPT ![p] = o] /\ product' = [product EXCEPT ![p] = s]
       /\ phase \in Busy => n # 0
       /\ phase = "DOWN" => n = 0 /\ o = {}

LEMMA TurnsKeep ==
  ASSUME QueueInv, NEW p \in Processors, Turns(p), Grows PROVE Processing'
<1>1. PICK phase \in Phase, n \in {0} \union 1..Len(attempts), o \in SUBSET Snapshot, s \in Snapshot \union {None} :
       /\ pc' = [pc EXCEPT ![p] = phase] /\ current' = [current EXCEPT ![p] = n]
       /\ outbox' = [outbox EXCEPT ![p] = o] /\ product' = [product EXCEPT ![p] = s]
       /\ phase \in Busy => n # 0
       /\ phase = "DOWN" => n = 0 /\ o = {}
  BY DEF Turns
<1>2. /\ Len(attempts) \in Nat /\ Len(attempts') \in Nat /\ Len(attempts) <= Len(attempts')
  BY RowIsTyped DEF QueueInv, Stored, Grows
<1>3. /\ pc \in [Processors -> Phase] /\ outbox \in [Processors -> SUBSET Snapshot]
      /\ current \in [Processors -> Nat] /\ product \in [Processors -> Snapshot \union {None}]
  BY DEF QueueInv, Processing
<1>4. /\ pc' \in [Processors -> Phase] /\ outbox' \in [Processors -> SUBSET Snapshot]
      /\ current' \in [Processors -> Nat] /\ product' \in [Processors -> Snapshot \union {None}]
  <2>1. n \in Nat
    BY <1>2
  <2> QED
    BY <1>1, <1>3, <2>1
<1>5. ASSUME NEW q \in Processors
      PROVE  /\ pc'[q] \in Busy => current'[q] \in 1..Len(attempts')
             /\ current'[q] # 0 => current'[q] \in 1..Len(attempts')
             /\ pc'[q] = "DOWN" => current'[q] = 0 /\ outbox'[q] = {}
  <2>1. CASE q = p
    <3>1. pc'[q] = phase /\ current'[q] = n /\ outbox'[q] = o
      BY <1>1, <1>3, <2>1
    <3> QED
      BY <1>1, <1>2, <3>1
  <2>2. CASE q # p
    <3>1. pc'[q] = pc[q] /\ current'[q] = current[q] /\ outbox'[q] = outbox[q]
      BY <1>1, <1>3, <2>2
    <3> QED
      BY <1>2, <3>1 DEF QueueInv, Processing
  <2> QED
    BY <2>1, <2>2
<1>6. /\ claim' \in Processors \union {None} /\ commands' \in 0..MaxCommands /\ crashes' \in Nat /\ lost' \in Nat
      /\ crashes' + lost' <= MaxFaults
  BY DEF QueueInv, Processing, Turns
<1> QED
  BY <1>4, <1>5, <1>6 DEF Processing

LEMMA DownTurns ==
  ASSUME QueueInv, NEW p \in Processors, Down(p), commands' = commands, crashes' \in {crashes, crashes + 1},
         lost' = lost, crashes' + lost <= MaxFaults
  PROVE  Turns(p)
<1>1. /\ 0 \in {0} \union 1..Len(attempts) /\ {} \in SUBSET Snapshot /\ None \in Snapshot \union {None}
      /\ "DOWN" \in Phase /\ "DOWN" \notin Busy
  BY DEF Phase, Busy
<1>2. /\ claim' \in Processors \union {None} /\ commands' \in 0..MaxCommands /\ crashes' \in Nat
  BY DEF QueueInv, Processing, Down
<1> QED
  BY <1>1, <1>2 DEF Down, Goto, Turns

(* Steps inside a pass keep the slot of the attempt. *)
LEMMA GotoTurns ==
  ASSUME QueueInv, NEW p \in Processors, NEW phase \in Phase \ {"DOWN"}, Goto(p, phase),
         NEW n \in {0} \union 1..Len(attempts), current' = [current EXCEPT ![p] = n],
         NEW o \in SUBSET Snapshot, outbox' = [outbox EXCEPT ![p] = o],
         NEW s \in Snapshot \union {None}, product' = [product EXCEPT ![p] = s],
         phase \in Busy => n # 0,
         claim' \in Processors \union {None}, commands' \in 0..MaxCommands, UNCHANGED <<crashes, lost>>
  PROVE  Turns(p)
  BY DEF QueueInv, Processing, Goto, Turns

LEMMA ProcessTurns ==
  ASSUME QueueInv, NEW p \in Processors, Process(p) \/ TimeOut(p) \/ Crash(p) \/ Start(p)
  PROVE  Turns(p)
<1>1. /\ pc \in [Processors -> Phase] /\ claim \in Processors \union {None}
      /\ outbox \in [Processors -> SUBSET Snapshot]
      /\ current \in [Processors -> Nat] /\ product \in [Processors -> Snapshot \union {None}]
      /\ commands \in 0..MaxCommands /\ crashes \in Nat /\ lost \in Nat /\ crashes + lost <= MaxFaults
      /\ MaxFaults \in Nat /\ MaxCommands \in Nat
      /\ current[p] \in {0} \union 1..Len(attempts) /\ (pc[p] \in Busy => current[p] # 0)
      /\ Len(attempts) \in Nat
  BY ProcessingAssumption, RowIsTyped DEF ProcessingAssumption, QueueInv, Processing, Stored
<1>2. current = [current EXCEPT ![p] = current[p]] /\ outbox = [outbox EXCEPT ![p] = outbox[p]]
      /\ product = [product EXCEPT ![p] = product[p]] /\ pc = [pc EXCEPT ![p] = pc[p]]
  BY <1>1
<1>3. /\ outbox[p] \in SUBSET Snapshot /\ product[p] \in Snapshot \union {None} /\ None \in Snapshot \union {None}
      /\ 0 \in {0} \union 1..Len(attempts)
  BY <1>1
<1>4. CASE Start(p)
  <2>1. "IDLE" \in Phase \ {"DOWN"} /\ "IDLE" \notin Busy /\ Goto(p, "IDLE")
        /\ UNCHANGED <<current, outbox, product, claim, crashes, lost>>
    BY <1>4 DEF Start, Phase, Busy
  <2>2. commands' \in 0..MaxCommands
    BY <1>1, <1>4 DEF Start
  <2> QED
    BY <1>1, <1>2, <1>3, <2>1, <2>2, GotoTurns
<1>5. CASE Claim(p) \/ NothingToDo(p) \/ Begin(p) \/ Refuse(p) \/ Confirm(p) \/ Export(p)
  <2>1. PICK phase \in Phase \ {"DOWN"} : Goto(p, phase) /\ (phase \in Busy => pc[p] \in Busy)
    BY <1>5 DEF Claim, NothingToDo, Begin, Refuse, Confirm, Export, Phase, Busy
  <2>2. /\ UNCHANGED <<current, outbox, product, commands, crashes, lost>>
        /\ claim' \in Processors \union {None}
    BY <1>1, <1>5 DEF Claim, NothingToDo, Begin, Refuse, Confirm, Export, bounds
  <2> QED
    BY <1>1, <1>2, <1>3, <2>1, <2>2, GotoTurns
<1>6. CASE Interrupt(p)
  <2>1. "REPAIRING" \in Phase \ {"DOWN"} /\ "REPAIRING" \notin Busy /\ Goto(p, "REPAIRING")
        /\ UNCHANGED <<current, product, claim, commands, crashes, lost>>
        /\ outbox' = [outbox EXCEPT ![p] = Missing]
    BY <1>6 DEF Interrupt, Phase, Busy, bounds
  <2>2. Missing \in SUBSET Snapshot
    BY PublishedTyped DEF Missing
  <2> QED
    BY <1>1, <1>2, <1>3, <2>1, <2>2, GotoTurns
<1>7. CASE Repair(p)
  <2>1. pc[p] \in Phase \ {"DOWN"} /\ pc[p] \notin Busy /\ Goto(p, pc[p])
        /\ UNCHANGED <<current, product, claim, commands, crashes, lost>>
    <3>1. pc[p] = "REPAIRING" /\ UNCHANGED <<pc, current, product, claim, commands, crashes, lost>>
      BY <1>7 DEF Repair, bounds
    <3>2. "REPAIRING" \in Phase \ {"DOWN"} /\ "REPAIRING" \notin Busy
      BY DEF Phase, Busy
    <3> QED
      BY <1>2, <3>1, <3>2 DEF Goto
  <2>2. PICK s \in outbox[p] : outbox' = [outbox EXCEPT ![p] = outbox[p] \ {s}]
    BY <1>7 DEF Repair
  <2>3. outbox[p] \ {s} \in SUBSET Snapshot
    BY <1>3
  <2>4. /\ current' = [current EXCEPT ![p] = current[p]] /\ product' = [product EXCEPT ![p] = product[p]]
        /\ claim' \in Processors \union {None} /\ commands' \in 0..MaxCommands
        /\ UNCHANGED <<crashes, lost>>
    BY <1>1, <1>2, <2>1
  <2>5. current[p] \in {0} \union 1..Len(attempts)
    BY <1>1
  <2> QED
    BY <1>3, <2>1, <2>2, <2>3, <2>4, <2>5, GotoTurns
<1>8. CASE Pick(p)
  <2>1. "PICKED" \in Phase \ {"DOWN"} /\ Goto(p, "PICKED")
        /\ UNCHANGED <<outbox, product, claim, commands, crashes, lost>>
    BY <1>8 DEF Pick, Phase, bounds
  <2>2. PICK i \in Pending : current' = [current EXCEPT ![p] = i]
    BY <1>8 DEF Pick, Offered
  <2>3. i \in {0} \union 1..Len(attempts) /\ i # 0
    BY RowIsTyped DEF Pending, QueueInv, Stored
  <2> QED
    BY <1>1, <1>2, <1>3, <2>1, <2>2, <2>3, GotoTurns
<1>9. CASE Leave(p)
  <2>1. CASE claim = p /\ p \in Workers
    <3>1. "IDLE" \in Phase \ {"DOWN"} /\ "IDLE" \notin Busy /\ Goto(p, "IDLE")
          /\ UNCHANGED <<outbox, commands, crashes, lost>> /\ claim' \in Processors \union {None}
          /\ current' = [current EXCEPT ![p] = 0] /\ product' = [product EXCEPT ![p] = None]
      BY <1>9, <2>1 DEF Leave, Phase, Busy, bounds
    <3> QED
      BY <1>1, <1>2, <1>3, <3>1, GotoTurns
  <2>2. CASE ~(claim = p /\ p \in Workers)
    BY <1>1, <1>9, <2>2, DownTurns DEF Leave, bounds
  <2> QED
    BY <2>1, <2>2
<1>10. CASE Reuse(p) \/ Import(p) \/ PublishSnapshot(p)
  <2>1. pc[p] \in Busy /\ UNCHANGED <<current, outbox, claim, commands, crashes, lost>>
    BY <1>10 DEF Reuse, Import, PublishSnapshot, Busy, bounds
  <2>2. Key(Mine(p)) \in Snapshot /\ \A i \in Equivalent(p) : attempts[i].snapshot \in Snapshot
    BY <2>1, KeyTyped, PublishedTyped DEF Equivalent
  <2>3. PICK phase \in {"CONFIRMING", "PUBLISHING"}, s \in Snapshot \union {None} :
          Goto(p, phase) /\ product' = [product EXCEPT ![p] = s]
    <3>1. CASE Reuse(p)
      BY <2>2, <3>1 DEF Reuse, Lend
    <3>2. CASE PublishSnapshot(p)
      BY <2>2, <3>2 DEF PublishSnapshot, Lend
    <3>3. CASE Import(p)
      BY <1>2, <1>3, <2>2, <3>3 DEF Import, Lend
    <3> QED
      BY <1>10, <3>1, <3>2, <3>3
  <2>4. phase \in Phase \ {"DOWN"}
    BY DEF Phase
  <2>5. /\ current' = [current EXCEPT ![p] = current[p]] /\ outbox' = [outbox EXCEPT ![p] = outbox[p]]
        /\ claim' \in Processors \union {None} /\ commands' \in 0..MaxCommands
        /\ UNCHANGED <<crashes, lost>>
    BY <1>1, <1>2, <2>1
  <2>6. current[p] \in {0} \union 1..Len(attempts) /\ current[p] # 0
    BY <1>1, <2>1
  <2> QED
    BY <1>3, <2>3, <2>4, <2>5, <2>6, GotoTurns
<1>11. CASE Fail(p)
  <2>1. CASE Goto(p, "LEAVING") /\ UNCHANGED <<outbox, current, product, claim>>
    <3>1. "LEAVING" \in Phase \ {"DOWN"} /\ "LEAVING" \notin Busy /\ UNCHANGED <<commands, crashes, lost>>
      BY <1>11 DEF Fail, Phase, Busy, bounds
    <3> QED
      BY <1>1, <1>2, <1>3, <2>1, <3>1, GotoTurns
  <2>2. CASE Down(p)
    BY <1>1, <1>11, <2>2, DownTurns DEF Fail, bounds
  <2> QED
    BY <1>11, <2>1, <2>2 DEF Fail
<1>12. CASE TimeOut(p) \/ Fenced(p)
  BY <1>1, <1>12, DownTurns DEF TimeOut, Fenced, bounds
<1>13. CASE Crash(p)
  <2>1. Down(p) /\ commands' = commands /\ crashes' = crashes + 1 /\ lost' = lost /\ crashes' + lost <= MaxFaults
    BY <1>1, <1>13 DEF Crash
  <2> QED
    BY <2>1, DownTurns
<1> QED
  BY <1>4, <1>5, <1>6, <1>7, <1>8, <1>9, <1>10, <1>11, <1>12, <1>13 DEF Process
(* The steps of nobody's processor. *)
Outside ==
  \/ \E r \in Requests, m \in Parameters, v \in Revisions :
       \/ \E c \in Contents : Store(r, c, m, v)
       \/ \E s \in DOMAIN sources : Resubmit(r, s, m, v)
  \/ Admit \/ AbandonAdmission \/ BeginBackup \/ CloseGate \/ CopyBackup \/ AbandonBackup

LEMMA OutsideLeaves ==
  ASSUME Outside PROVE UNCHANGED <<processors, bounds, snapshots, files>>
  BY DEF Outside, Store, Resubmit, Admit, AbandonAdmission, BeginBackup, CloseGate, CopyBackup, AbandonBackup,
     database, storage

LEMMA RestoreIsAlone ==
  ASSUME QueueInv, Restore
  PROVE  \A p \in Processors : pc[p] = "DOWN" /\ current[p] = 0 /\ outbox[p] = {}
  BY DEF QueueInv, Processing, Restore

LEMMA ProcessingStays == ASSUME QueueInv, Next PROVE Processing'
<1>1. CASE Restore
  <2>1. UNCHANGED <<processors, bounds>> /\ \A p \in Processors : pc[p] = "DOWN" /\ current[p] = 0
    BY <1>1, RestoreIsAlone DEF Restore
  <2> QED
    BY <2>1 DEF QueueInv, Processing, processors, bounds, Busy
<1>2. CASE ~Restore
  <2>1. Grows
    BY <1>2, StepsGrow
  <2>2. Len(attempts) \in Nat /\ Len(attempts') \in Nat /\ Len(attempts) <= Len(attempts')
    BY <2>1, RowIsTyped DEF QueueInv, Stored, Grows
  <2>3. ASSUME UNCHANGED <<pc, outbox, current, product>>, claim' \in Processors \union {None},
               commands' = commands, crashes' = crashes, lost' \in Nat, crashes + lost' <= MaxFaults
        PROVE  Processing'
    BY <2>2, <2>3 DEF QueueInv, Processing
  <2>4. CASE Outside
    BY <2>3, <2>4, OutsideLeaves DEF processors, bounds, QueueInv, Processing
  <2>5. CASE LoseClaim
    <3>1. lost' \in Nat /\ crashes + lost' <= MaxFaults
      BY <2>5, ProcessingAssumption DEF ProcessingAssumption, LoseClaim, QueueInv, Processing
    <3> QED
      BY <2>3, <2>5, <3>1 DEF LoseClaim
  <2>6. ASSUME NEW p \in Processors, Process(p) \/ TimeOut(p) \/ Crash(p) \/ Start(p) PROVE Processing'
    BY <2>1, <2>6, ProcessTurns, TurnsKeep
  <2> QED
    BY <1>2, <2>4, <2>5, <2>6 DEF Next, Outside
<1> QED
  BY <1>1, <1>2

(* Who is at work in another place keeps what it holds. *)
LEMMA ExportingStays == ASSUME QueueInv, Next PROVE Exporting'
<1>1. CASE Restore
  BY <1>1, RestoreIsAlone DEF Restore, processors, Exporting
<1>2. CASE ~Restore
  <2>1. Grows /\ Published \subseteq Published' /\ snapshots \subseteq snapshots'
    BY <1>2, StepsGrow, PublishedStays DEF Grows
  <2>2. ASSUME NEW q \in Processors, outbox'[q] \subseteq outbox[q], pc'[q] = pc[q], product'[q] = product[q]
        PROVE  /\ outbox'[q] \subseteq Published'
               /\ pc'[q] = "CONFIRMING" => product'[q] \in snapshots'
               /\ pc'[q] = "EXPORTING" => product'[q] \in Published'
    BY <2>1, <2>2 DEF QueueInv, Exporting
  <2>3. CASE Outside \/ LoseClaim
    <3>1. UNCHANGED <<pc, outbox, product, files>>
      BY <2>3, OutsideLeaves DEF LoseClaim, processors, storage
    <3> QED
      BY <2>1, <2>2, <3>1 DEF QueueInv, Exporting
  <2>4. ASSUME NEW p \in Processors, Process(p) \/ TimeOut(p) \/ Crash(p) \/ Start(p) PROVE Exporting'
    <3>1. PICK phase \in Phase, o \in SUBSET Snapshot, s \in Snapshot \union {None} :
            /\ pc' = [pc EXCEPT ![p] = phase]
            /\ outbox' = [outbox EXCEPT ![p] = o] /\ product' = [product EXCEPT ![p] = s]
      <4>1. Turns(p)
        BY <2>4, ProcessTurns
      <4> QED
        BY <4>1 DEF Turns
    <3>2. /\ pc'[p] = phase /\ outbox'[p] = o /\ product'[p] = s
          /\ \A q \in Processors \ {p} : pc'[q] = pc[q] /\ outbox'[q] = outbox[q] /\ product'[q] = product[q]
      BY <3>1 DEF QueueInv, Processing
    <3>3. files' \subseteq Published'
      <4>1. files' \subseteq files \union outbox[p]
            \/ (pc[p] = "EXPORTING" /\ files' = files \union {product[p]})
        BY <2>4 DEF Process, TimeOut, Crash, Start, Claim, Interrupt, Repair, Pick, NothingToDo, Leave, Begin,
           Refuse, Reuse, Import, PublishSnapshot, Confirm, Export, Fail, Fenced, storage
      <4> QED
        BY <2>1, <4>1 DEF QueueInv, Exporting
    <3>4. outbox'[p] \subseteq Published'
      <4>1. CASE Interrupt(p)
        BY <2>1, <3>2, <4>1 DEF Interrupt, Missing, QueueInv, Processing
      <4>2. CASE ~Interrupt(p)
        <5>1. outbox' = outbox \/ (\E x : outbox' = [outbox EXCEPT ![p] = @ \ {x}])
              \/ outbox' = [outbox EXCEPT ![p] = {}]
          BY <2>4, <4>2 DEF Process, TimeOut, Crash, Start, Claim, Repair, Pick, NothingToDo, Leave, Begin,
             Refuse, Reuse, Import, PublishSnapshot, Confirm, Export, Fail, Fenced, Down
        <5>2. outbox \in [Processors -> SUBSET Snapshot]
          BY DEF QueueInv, Processing
        <5>3. outbox'[p] \subseteq outbox[p]
          BY <5>1, <5>2
        <5> QED
          BY <2>1, <5>3 DEF QueueInv, Exporting
      <4> QED
        BY <4>1, <4>2
    <3>5. pc'[p] = "CONFIRMING" => product'[p] \in snapshots'
      <4>1. CASE Reuse(p)
        <5>1. PICK i \in Confirmed : product' = [product EXCEPT ![p] = attempts[i].snapshot]
          BY <4>1 DEF Reuse, Lend, Equivalent
        <5>2. attempts[i].snapshot \in snapshots
          BY PublishedTyped
        <5> QED
          BY <2>1, <5>1, <5>2 DEF QueueInv, Processing
      <4>2. CASE Import(p)
        <5>1. pc' = [pc EXCEPT ![p] = "PUBLISHING"]
              \/ (Key(Mine(p)) \in snapshots /\ product' = [product EXCEPT ![p] = Key(Mine(p))])
          BY <4>2 DEF Import, Lend, Goto
        <5> QED
          BY <2>1, <5>1 DEF QueueInv, Processing
      <4>3. CASE PublishSnapshot(p)
        <5>1. product' = [product EXCEPT ![p] = Key(Mine(p))] /\ Key(Mine(p)) \in snapshots'
          BY <4>3, SnapshotGrows DEF PublishSnapshot, Lend
        <5> QED
          BY <5>1 DEF QueueInv, Processing
      <4>4. CASE ~Reuse(p) /\ ~Import(p) /\ ~PublishSnapshot(p)
        <5>1. \/ pc' = pc /\ product' = product
              \/ \E ph \in Phase \ {"CONFIRMING"} : pc' = [pc EXCEPT ![p] = ph]
          BY <2>4, <4>4 DEF Process, TimeOut, Crash, Start, Claim, Interrupt, Repair, Pick, NothingToDo, Leave, Begin,
             Refuse, Confirm, Export, Fail, Fenced, Down, Goto, Phase
        <5>2. (pc' = pc /\ product' = product) \/ pc'[p] # "CONFIRMING"
          BY <5>1 DEF QueueInv, Processing
        <5> QED
          BY <2>1, <5>2 DEF QueueInv, Exporting
      <4> QED
        BY <4>1, <4>2, <4>3, <4>4
    <3>6. pc'[p] = "EXPORTING" => product'[p] \in Published'
      <4>1. CASE Confirm(p)
        <5>1. /\ IsPublished(attempts'[current[p]]) /\ attempts'[current[p]].snapshot = product[p]
              /\ product' = product /\ AddsNone /\ current[p] \in 1..Len(attempts)
          BY <4>1, ConfirmGrows DEF Confirm, QueueInv, Processing, Busy
        <5>2. current[p] \in DOMAIN attempts'
          BY <2>1, <5>1, RowIsTyped DEF Grows, Stored, AddsNone
        <5> QED
          BY <5>1, <5>2 DEF Published, Confirmed, IsPublished
      <4>2. CASE ~Confirm(p)
        <5>1. \/ pc' = pc /\ product' = product
              \/ \E ph \in Phase \ {"EXPORTING"} : pc' = [pc EXCEPT ![p] = ph]
          BY <2>4, <4>2 DEF Process, TimeOut, Crash, Start, Claim, Interrupt, Repair, Pick, NothingToDo, Leave, Begin,
             Refuse, Reuse, Import, PublishSnapshot, Export, Fail, Fenced, Down, Lend, Goto, Phase
        <5>2. (pc' = pc /\ product' = product) \/ pc'[p] # "EXPORTING"
          BY <5>1 DEF QueueInv, Processing
        <5> QED
          BY <2>1, <5>2 DEF QueueInv, Exporting
      <4> QED
        BY <4>1, <4>2
    <3> QED
      BY <2>2, <3>2, <3>3, <3>4, <3>5, <3>6 DEF Exporting
  <2> QED
    BY <1>2, <2>3, <2>4 DEF Next, Outside
<1> QED
  BY <1>1, <1>2
LEMMA EmptyIsLibrary ==
  /\ Library(Empty.sources, Empty.attempts, Empty.snapshots)
  /\ Contained(Empty.sources) = {} /\ Unique(Empty.sources, Empty.attempts)
<1>1. Empty.sources = << >> /\ Empty.attempts = << >> /\ Empty.snapshots = {}
  BY DEF Empty
<1>2. << >> \in Seq(Contents) /\ << >> \in Seq(Attempt) /\ Len(<< >>) = 0 /\ DOMAIN << >> = {}
  OBVIOUS
<1>3. Library(<< >>, << >>, {})
  BY <1>2 DEF Library
<1>4. Contained(<< >>) = {} /\ Unique(<< >>, << >>)
  BY <1>2 DEF Contained, Unique
<1> QED
  BY <1>1, <1>3, <1>4

LEMMA DumpedStays == ASSUME QueueInv, Next PROVE Dumped'
<1>1. /\ Dumped /\ lost \in Nat
  BY DEF QueueInv, Processing
<1>2. ASSUME dump' = Empty, archived' \subseteq Contents, backup' \in {"ABANDONED", "RESTORED"} PROVE Dumped'
  BY <1>2, EmptyIsLibrary DEF Dumped
<1>3. CASE Restore
  BY <1>2, <1>3 DEF Restore
<1>4. CASE ~Restore
  <2>1. bytes \subseteq bytes'
    BY <1>4, StepsGrow DEF Grows
  <2>2. CASE BeginBackup
    <3>1. /\ dump'.sources = sources /\ dump'.attempts = attempts /\ dump'.snapshots = snapshots
          /\ backup' = "WAITING" /\ archived' = archived /\ lost' = lost /\ bytes' = bytes
      BY <2>2 DEF BeginBackup, bounds, storage
    <3>2. Stored /\ (lost = 0 => Unique(sources, attempts))
      BY DEF QueueInv, Alone
    <3> QED
      BY <1>1, <3>1, <3>2 DEF Dumped, Stored
  <2>3. CASE AbandonBackup
    BY <1>1, <1>2, <2>3 DEF AbandonBackup, Dumped
  <2>4. CASE CopyBackup
    <3>1. /\ archived' = Contained(dump.sources) /\ backup' = "DONE" /\ dump' = dump /\ bytes' = bytes /\ lost' = lost
      BY <2>4 DEF CopyBackup, storage, bounds
    <3>2. Contained(dump.sources) \subseteq Contents
      BY <1>1, RowIsTyped DEF Dumped, Contained
    <3> QED
      BY <1>1, <3>1, <3>2 DEF Dumped
  <2>5. CASE CloseGate
    BY <1>1, <2>5 DEF CloseGate, Dumped, storage, bounds
  <2>6. ASSUME UNCHANGED backups, lost' = 0 => lost = 0 PROVE Dumped'
    BY <1>1, <2>1, <2>6 DEF Dumped, backups
  <2>7. CASE LoseClaim
    BY <1>1, <2>6, <2>7 DEF LoseClaim
  <2>8. ASSUME NEW p \in Processors, Process(p) \/ TimeOut(p) \/ Crash(p) \/ Start(p) PROVE Dumped'
    <3>1. UNCHANGED backups
      BY <2>8 DEF Process, TimeOut, Crash, Start, Claim, Interrupt, Repair, Pick, NothingToDo, Leave, Begin,
         Refuse, Reuse, Import, PublishSnapshot, Confirm, Export, Fail, Fenced
    <3>2. lost' = lost
      BY <2>8, ProcessTurns DEF Turns
    <3> QED
      BY <2>6, <3>1, <3>2
  <2>9. ASSUME NEW r, NEW m, NEW v, (\E c : Store(r, c, m, v)) \/ (\E s : Resubmit(r, s, m, v)) PROVE Dumped'
    BY <2>6, <2>9 DEF Store, Resubmit, bounds
  <2>10. CASE Admit \/ AbandonAdmission
    BY <2>6, <2>10 DEF Admit, AbandonAdmission, bounds
  <2> QED
    BY <1>4, <2>2, <2>3, <2>4, <2>5, <2>7, <2>8, <2>9, <2>10 DEF Next
<1> QED
  BY <1>3, <1>4

(* Equal work among published rows is what it was, unless one is published. *)
LEMMA EquivalentStays ==
  ASSUME QueueInv, Grows, PublishesNone, NEW q \in Processors, pc[q] \in Busy, current'[q] = current[q]
  PROVE  /\ Equivalent(q)' = Equivalent(q)
         /\ \A i \in Equivalent(q) : attempts'[i] = attempts[i]
<1>1. /\ current[q] \in 1..Len(attempts)
      /\ DOMAIN attempts = 1..Len(attempts) /\ DOMAIN attempts' = 1..Len(attempts')
      /\ Len(attempts) \in Nat /\ Len(attempts') \in Nat /\ Len(attempts) <= Len(attempts')
  BY RowIsTyped DEF QueueInv, Processing, Stored, Grows
<1>2. Confirmed' = Confirmed
  BY <1>1 DEF Confirmed, Grows, PublishesNone, IsPublished
<1>3. \A i \in Confirmed : i \in 1..Len(attempts) /\ attempts'[i] = attempts[i]
  BY <1>1 DEF Confirmed, Grows, IsPublished
<1>4. Meaning(Mine(q))' = Meaning(Mine(q))
  <2>1. PICK c \in 1..Len(attempts) : c = current[q]
    BY <1>1
  <2>2. SameWork(attempts'[c], attempts[c]) /\ sources'[attempts[c].source] = sources[attempts[c].source]
    BY <2>1 DEF Grows, QueueInv, Stored, Library
  <2> QED
    BY <2>1, <2>2 DEF SameWork, Meaning, Mine
<1>5. \A i \in Confirmed : Meaning(attempts[i])' = Meaning(attempts[i])
  BY <1>3, MeaningStays
<1> QED
  BY <1>2, <1>3, <1>4, <1>5 DEF Equivalent
LEMMA UniqueStays ==
  ASSUME QueueInv, Grows, PublishesNone, Unique(sources, attempts) PROVE Unique(sources', attempts')
<1>1. \A i \in 1..Len(attempts') : IsPublished(attempts'[i]) =>
        /\ i \in 1..Len(attempts) /\ IsPublished(attempts[i]) /\ attempts'[i] = attempts[i]
        /\ sources'[attempts[i].source] = sources[attempts[i].source]
  BY DEF PublishesNone, Grows, QueueInv, Stored, Library
<1> QED
  BY <1>1 DEF Unique

(* The row that is confirmed agrees with every published row of its meaning. *)
LEMMA ConfirmIsUnique ==
  ASSUME QueueInv, lost = 0, NEW p \in Processors, Confirm(p) PROVE Unique(sources', attempts')
<1> DEFINE W(src, row) == <<src[row.source], row.parameters, row.revision>>
<1>1. PICK c \in 1..Len(attempts) : c = current[p]
  BY DEF QueueInv, Processing, Busy, Confirm
<1>2. /\ Grows /\ sources' = sources /\ Len(attempts') = Len(attempts)
      /\ \A i \in 1..Len(attempts) : i # c => attempts'[i] = attempts[i]
      /\ attempts'[c].snapshot = product[p] /\ SameWork(attempts'[c], attempts[c])
  BY <1>1, ConfirmGrows DEF AddsNone, Grows
<1>3. /\ Unique(sources, attempts)
      /\ \A i \in Equivalent(p) : attempts[i].snapshot = product[p]
  BY DEF QueueInv, Alone, Confirm
<1>4. ASSUME NEW j \in 1..Len(attempts), j # c, IsPublished(attempts'[j]),
             W(sources', attempts'[j]) = W(sources', attempts'[c])
      PROVE  attempts'[j].snapshot = product[p]
  <2>1. IsPublished(attempts[j]) /\ Meaning(attempts[j]) = Meaning(attempts[c])
    BY <1>2, <1>4 DEF SameWork, Meaning
  <2>2. j \in DOMAIN attempts
    BY RowIsTyped DEF QueueInv, Stored
  <2>3. j \in Equivalent(p)
    BY <1>1, <2>1, <2>2 DEF Equivalent, Confirmed, Mine, IsPublished
  <2> QED
    BY <1>2, <1>3, <1>4, <2>3
<1>5. ASSUME NEW i \in 1..Len(attempts'), NEW j \in 1..Len(attempts'),
             IsPublished(attempts'[i]), IsPublished(attempts'[j]),
             W(sources', attempts'[i]) = W(sources', attempts'[j])
      PROVE  attempts'[i].snapshot = attempts'[j].snapshot
  <2>1. CASE i = c \/ j = c
    BY <1>2, <1>4, <1>5, <2>1
  <2>2. CASE i # c /\ j # c
    <3>1. /\ i \in 1..Len(attempts) /\ j \in 1..Len(attempts)
          /\ attempts'[i] = attempts[i] /\ attempts'[j] = attempts[j]
      BY <1>2, <2>2
    <3> QED
      BY <1>2, <1>3, <1>5, <3>1 DEF Unique
  <2> QED
    BY <2>1, <2>2
<1> QED
  BY <1>5 DEF Unique

Idle == {"DOWN", "IDLE"}

LEMMA OneAtWork ==
  ASSUME QueueInv, \A q \in Processors : pc[q] \notin Idle => claim = q,
         NEW p \in Processors, Process(p) \/ TimeOut(p) \/ Crash(p) \/ Start(p)
  PROVE  \A q \in Processors : pc'[q] \notin Idle => claim' = q
<1>1. PICK phase \in Phase : pc' = [pc EXCEPT ![p] = phase]
  <2>1. Turns(p)
    BY ProcessTurns
  <2> QED
    BY <2>1 DEF Turns
<1>2. pc'[p] = phase /\ \A q \in Processors \ {p} : pc'[q] = pc[q]
  BY <1>1 DEF QueueInv, Processing
<1>3. \/ claim = None /\ claim' = p
      \/ phase \in Idle /\ claim' = IF claim = p THEN None ELSE claim
      \/ phase \in Idle /\ claim' = claim
      \/ pc[p] \notin Idle /\ claim' = claim
  <2>1. pc \in [Processors -> Phase]
    BY DEF QueueInv, Processing
  <2>2. CASE TimeOut(p) \/ Crash(p) \/ Fenced(p)
    BY <1>1, <2>1, <2>2 DEF TimeOut, Crash, Fenced, Down, Goto, Idle
  <2>3. CASE Start(p) \/ Claim(p)
    BY <1>1, <2>1, <2>3 DEF Start, Claim, Goto, Idle
  <2>4. CASE Leave(p)
    BY <1>1, <2>1, <2>4 DEF Leave, Down, Goto, Idle
  <2>5. CASE Fail(p)
    BY <1>1, <2>1, <2>5 DEF Fail, Down, Goto, Idle
  <2>6. CASE \/ Interrupt(p) \/ Repair(p) \/ Pick(p) \/ NothingToDo(p) \/ Begin(p) \/ Refuse(p)
             \/ Reuse(p) \/ Import(p) \/ PublishSnapshot(p) \/ Confirm(p) \/ Export(p)
    BY <2>6 DEF Interrupt, Repair, Pick, NothingToDo, Begin, Refuse, Reuse, Import, PublishSnapshot,
       Confirm, Export, Idle
  <2> QED
    BY <2>2, <2>3, <2>4, <2>5, <2>6 DEF Process
<1>4. None \notin Processors
  BY ProcessingAssumption DEF ProcessingAssumption
<1> QED
  BY <1>2, <1>3, <1>4

LEMMA FoundStays ==
  ASSUME QueueInv, lost = 0, Grows, PublishesNone, NEW q \in Processors,
         pc'[q] = pc[q], current'[q] = current[q], product'[q] = product[q]
  PROVE  /\ pc'[q] = "PUBLISHING" => Equivalent(q)' = {}
         /\ pc'[q] = "CONFIRMING" => \A i \in Equivalent(q)' : attempts'[i].snapshot = product'[q]
<1>1. /\ pc[q] = "PUBLISHING" => Equivalent(q) = {}
      /\ pc[q] = "CONFIRMING" => \A i \in Equivalent(q) : attempts[i].snapshot = product[q]
  BY DEF QueueInv, Alone
<1>2. pc[q] \in {"PUBLISHING", "CONFIRMING"} =>
        Equivalent(q)' = Equivalent(q) /\ \A i \in Equivalent(q) : attempts'[i] = attempts[i]
  BY EquivalentStays DEF Busy
<1> QED
  BY <1>1, <1>2

(* What a look at the published rows finds. *)
LEMMA LookFinds ==
  ASSUME QueueInv, lost = 0, NEW p \in Processors, Reuse(p) \/ Import(p) \/ PublishSnapshot(p)
  PROVE  /\ pc'[p] = "PUBLISHING" => Equivalent(p)' = {}
         /\ pc'[p] = "CONFIRMING" => \A i \in Equivalent(p)' : attempts'[i].snapshot = product'[p]
<1>1. /\ UNCHANGED <<sources, attempts, current>>
      /\ pc \in [Processors -> Phase] /\ product \in [Processors -> Snapshot \union {None}]
  BY DEF Reuse, Import, PublishSnapshot, database, QueueInv, Processing
<1>2. Equivalent(p)' = Equivalent(p)
  BY <1>1 DEF Equivalent, Confirmed, Meaning, Mine
<1>3. CASE Import(p) \/ PublishSnapshot(p)
  <2>1. Equivalent(p) = {}
    BY <1>3 DEF Import, PublishSnapshot, QueueInv, Alone
  <2> QED
    BY <1>2, <2>1
<1>4. CASE Reuse(p)
  <2>1. PICK i \in Equivalent(p) : product' = [product EXCEPT ![p] = attempts[i].snapshot]
    BY <1>4 DEF Reuse, Lend
  <2>2. \A j \in Equivalent(p) : /\ j \in 1..Len(attempts) /\ IsPublished(attempts[j])
                                 /\ Meaning(attempts[j]) = Meaning(Mine(p))
    BY PublishedTyped DEF Equivalent, Confirmed, IsPublished
  <2>3. \A j \in Equivalent(p) : attempts[j].snapshot = attempts[i].snapshot
    <3>1. Unique(sources, attempts)
      BY DEF QueueInv, Alone
    <3> QED
      BY <2>2, <3>1 DEF Unique, Meaning
  <2>4. pc'[p] = "CONFIRMING" /\ product'[p] = attempts[i].snapshot
    BY <1>1, <1>4, <2>1 DEF Reuse, Lend, Goto
  <2> QED
    BY <1>1, <1>2, <2>3, <2>4
<1> QED
  BY <1>3, <1>4

LEMMA AloneStays == ASSUME QueueInv, Next PROVE Alone'
<1> SUFFICES ASSUME lost' = 0 PROVE Alone'
  BY DEF Alone
<1>1. CASE Restore
  <2>1. lost = 0 /\ UNCHANGED processors /\ \A p \in Processors : pc[p] = "DOWN"
    BY <1>1 DEF Restore, bounds
  <2>2. /\ Unique(dump.sources, dump.attempts) /\ dump.attempts \in Seq(Attempt)
        /\ Library(dump.sources, dump.attempts, dump.snapshots)
    BY <2>1 DEF QueueInv, Dumped, Library
  <2>3. Unique(dump.sources, Interrupted(dump.attempts))
    BY <2>2, InterruptedRows DEF Unique
  <2>4. Unique(sources', attempts')
    BY <1>1, <2>3 DEF Restore
  <2> QED
    BY <2>1, <2>4 DEF Alone, processors
<1>2. CASE ~Restore
  <2>1. Grows /\ (PublishesNone \/ \E p \in Processors : Confirm(p))
    BY <1>2, StepsGrow
  <2>2. ~LoseClaim
    BY DEF LoseClaim, QueueInv, Processing
  <2>3. lost = 0
    <3>1. CASE Outside
      BY <3>1, OutsideLeaves DEF bounds
    <3>2. ASSUME NEW p \in Processors, Process(p) \/ TimeOut(p) \/ Crash(p) \/ Start(p) PROVE lost' = lost
      BY <3>2, ProcessTurns DEF Turns
    <3> QED
      BY <1>2, <2>2, <3>1, <3>2 DEF Next, Outside
  <2>4. Unique(sources, attempts) /\ \A q \in Processors : pc[q] \notin Idle => claim = q
    BY <2>3 DEF QueueInv, Alone, Idle
  <2>5. Unique(sources', attempts')
    BY <2>1, <2>3, <2>4, UniqueStays, ConfirmIsUnique
  <2>6. CASE Outside
    <3>1. UNCHANGED processors /\ PublishesNone
      <4>1. ~\E p \in Processors : Confirm(p)
        <5>1. ASSUME NEW p \in Processors, Confirm(p) PROVE FALSE
          BY <2>6, <5>1, OutsideLeaves DEF Confirm, Goto, processors, QueueInv, Processing
        <5> QED
          BY <5>1
      <4> QED
        BY <2>1, <2>6, <4>1, OutsideLeaves
    <3> QED
      BY <2>1, <2>3, <2>4, <2>5, <3>1, FoundStays DEF Alone, processors, Idle
  <2>7. ASSUME NEW p \in Processors, Process(p) \/ TimeOut(p) \/ Crash(p) \/ Start(p) PROVE Alone'
    <3>1. \A q \in Processors : pc'[q] \notin Idle => claim' = q
      BY <2>4, <2>7, OneAtWork
    <3>2. ASSUME NEW q \in Processors \ {p} PROVE pc'[q] = pc[q] /\ current'[q] = current[q] /\ product'[q] = product[q]
      <4>1. Turns(p)
        BY <2>7, ProcessTurns
      <4> QED
        BY <4>1 DEF Turns, QueueInv, Processing
    <3>3. ASSUME NEW q \in Processors \ {p}
          PROVE  /\ pc'[q] = "PUBLISHING" => Equivalent(q)' = {}
                 /\ pc'[q] = "CONFIRMING" => \A i \in Equivalent(q)' : attempts'[i].snapshot = product'[q]
      <4>1. CASE PublishesNone
        BY <2>1, <2>3, <3>2, <4>1, FoundStays
      <4>2. CASE \E r \in Processors : Confirm(r)
        <5>1. PICK r \in Processors : pc[r] = "CONFIRMING" /\ pc' = [pc EXCEPT ![r] = "EXPORTING"]
          BY <4>2 DEF Confirm, Goto
        <5>2. claim = r /\ pc'[r] # pc[r]
          BY <2>4, <5>1 DEF Idle, QueueInv, Processing
        <5>3. q # r
          BY <3>2, <5>2
        <5>4. pc[q] \in Idle /\ pc'[q] = pc[q]
          BY <2>4, <3>2, <5>2, <5>3
        <5> QED
          BY <5>4 DEF Idle
      <4> QED
        BY <2>1, <4>1, <4>2
    <3>4. /\ pc'[p] = "PUBLISHING" => Equivalent(p)' = {}
          /\ pc'[p] = "CONFIRMING" => \A i \in Equivalent(p)' : attempts'[i].snapshot = product'[p]
      <4>1. CASE Reuse(p) \/ Import(p) \/ PublishSnapshot(p)
        BY <2>3, <4>1, LookFinds
      <4>2. CASE ~Reuse(p) /\ ~Import(p) /\ ~PublishSnapshot(p)
        <5>1. (pc[p] = "REPAIRING" /\ pc' = pc)
              \/ \E ph \in Phase \ {"PUBLISHING", "CONFIRMING"} : pc' = [pc EXCEPT ![p] = ph]
          BY <2>7, <4>2 DEF Process, TimeOut, Crash, Start, Claim, Interrupt, Repair, Pick, NothingToDo, Leave, Begin,
             Refuse, Confirm, Export, Fail, Fenced, Down, Goto, Phase
        <5> QED
          BY <5>1 DEF QueueInv, Processing
      <4> QED
        BY <4>1, <4>2
    <3> QED
      BY <2>5, <3>1, <3>3, <3>4 DEF Alone, Idle
  <2> QED
    BY <1>2, <2>2, <2>6, <2>7 DEF Next, Outside
<1> QED
  BY <1>1, <1>2
LEMMA BytesStay == ASSUME QueueInv, Next PROVE Bytes'
<1>1. ASSUME bytes' = bytes PROVE Bytes'
  BY <1>1 DEF QueueInv, Bytes
<1>2. CASE Restore
  BY <1>2 DEF Restore, QueueInv, Dumped, Bytes
<1>3. ASSUME NEW r, NEW c \in Contents, NEW m, NEW v, Store(r, c, m, v) PROVE Bytes'
  BY <1>3 DEF Store, QueueInv, Bytes
<1>4. ASSUME NEW p \in Processors, Process(p) \/ TimeOut(p) \/ Crash(p) \/ Start(p) PROVE bytes' = bytes
  BY <1>4 DEF Process, TimeOut, Crash, Start, Claim, Interrupt, Repair, Pick, NothingToDo, Leave, Begin, Refuse,
     Reuse, Import, PublishSnapshot, Confirm, Export, Fail, Fenced, storage
<1>5. CASE LoseClaim \/ BeginBackup \/ CloseGate \/ CopyBackup \/ AbandonBackup \/ Admit \/ AbandonAdmission
  BY <1>1, <1>5 DEF LoseClaim, BeginBackup, CloseGate, CopyBackup, AbandonBackup, Admit, AbandonAdmission, storage
<1>6. ASSUME NEW r, NEW m, NEW v, NEW s, Resubmit(r, s, m, v) PROVE bytes' = bytes
  BY <1>6 DEF Resubmit, storage
<1> QED
  BY <1>1, <1>2, <1>3, <1>4, <1>5, <1>6 DEF Next

-----------------------------------------------------------------------------
(* The invariant. *)

LEMMA QueueOpens == Init => QueueInv
<1> SUFFICES ASSUME Init PROVE QueueInv
  OBVIOUS
<1>1. Library(sources, attempts, snapshots) /\ Contained(sources) = {} /\ Unique(sources, attempts)
  BY EmptyIsLibrary DEF Init, Empty
<1>2. /\ MaxCommands \in Nat /\ MaxFaults \in Nat
      /\ Len(attempts) = 0
  BY ProcessingAssumption DEF ProcessingAssumption, Init
<1>3. Stored /\ Bytes /\ Admitting
  BY <1>1 DEF Init, Stored, Bytes, Admitting
<1>4. Processing
  BY <1>2 DEF Init, Processing, Phase, Busy
<1>5. Exporting
  BY DEF Init, Exporting
<1>6. Dumped
  BY EmptyIsLibrary DEF Init, Dumped
<1>7. Alone
  BY <1>1 DEF Init, Alone
<1> QED
  BY <1>3, <1>4, <1>5, <1>6, <1>7 DEF QueueInv

LEMMA QueueStutters == QueueInv /\ UNCHANGED vars => QueueInv'
<1> SUFFICES ASSUME QueueInv, UNCHANGED vars PROVE QueueInv'
  OBVIOUS
<1>1. UNCHANGED <<sources, attempts, snapshots, bytes, files, admitting, pc, outbox, current, product, claim,
                  backup, dump, archived, commands, crashes, lost>>
  BY DEF vars, database, storage, processors, backups, bounds
<1>2. Stored' /\ Bytes' /\ Admitting' /\ Processing'
  BY <1>1 DEF QueueInv, Stored, Bytes, Admitting, Processing, Unknown
<1>3. Published' = Published /\ \A p \in Processors : Equivalent(p)' = Equivalent(p)
  BY <1>1 DEF Published, Confirmed, Equivalent, Meaning, Mine
<1>4. Exporting' /\ Dumped' /\ Alone'
  BY <1>1, <1>3 DEF QueueInv, Exporting, Dumped, Alone
<1> QED
  BY <1>2, <1>4 DEF QueueInv

THEOREM QueueInvariant == Spec => []QueueInv
<1>1. Init => QueueInv
  BY QueueOpens
<1>2. QueueInv /\ [Next]_vars => QueueInv'
  <2>1. QueueInv /\ Next => QueueInv'
    <3> SUFFICES ASSUME QueueInv, Next PROVE QueueInv'
      OBVIOUS
    <3>1. Stored' /\ Bytes' /\ Admitting' /\ Processing' /\ Exporting' /\ Dumped' /\ Alone'
      BY StoredStays, BytesStay, AdmittingStays, ProcessingStays, ExportingStays, DumpedStays, AloneStays
    <3> QED
      BY <3>1 DEF QueueInv
  <2> QED
    BY <2>1, QueueStutters
<1> QED
  BY <1>1, <1>2, PTL DEF Spec

-----------------------------------------------------------------------------
(* What it gives. *)

LEMMA TypesHold == QueueInv => TypeOK
<1> SUFFICES ASSUME QueueInv PROVE TypeOK
  OBVIOUS
<1>1. /\ Len(sources) \in Nat /\ Len(attempts) \in Nat /\ Cardinality(Requests) \in Nat
      /\ Len(attempts) <= Cardinality(Requests) /\ Len(sources) <= Cardinality(Requests)
      /\ DOMAIN attempts = 1..Len(attempts) /\ DOMAIN sources = 1..Len(sources)
  BY RowIsTyped DEF QueueInv, Stored
<1>2. /\ sources \in Seq(Contents) /\ attempts \in Seq(Attempt) /\ snapshots \subseteq Snapshot
      /\ \A i \in DOMAIN attempts : attempts[i].source \in DOMAIN sources
  BY <1>1 DEF QueueInv, Stored, Library
<1>3. current \in [Processors -> 0..Cardinality(Requests)]
  <2>1. \A p \in Processors : current[p] \in 0..Cardinality(Requests)
    BY <1>1 DEF QueueInv, Processing
  <2> QED
    BY <2>1 DEF QueueInv, Processing
<1>4. files \subseteq Snapshot
  BY PublishedTyped DEF QueueInv, Exporting
<1>5. admitting \in [content : Contents, attempt : Attempt] \union {None}
  BY DEF QueueInv, Admitting
<1> QED
  BY <1>1, <1>2, <1>3, <1>4, <1>5 DEF TypeOK, QueueInv, Bytes, Processing, Dumped

(* Whatever other applications can read belongs to a confirmed attempt and has its
   snapshot and its source bytes, for any crash, lost claim and restoration
   (processing.py:189). *)
THEOREM LibraryAlwaysSound == Spec => []LibraryIsSound
<1>1. QueueInv => LibraryIsSound
  <2> SUFFICES ASSUME QueueInv, NEW s \in files PROVE s \in Published /\ s \in snapshots /\ sources[s.source] \in bytes
    BY TypesHold DEF LibraryIsSound, ReadableIsConfirmed
  <2>1. s \in Published /\ s \in snapshots
    BY PublishedTyped DEF QueueInv, Exporting
  <2>2. s.source \in 1..Len(sources) /\ Library(sources, attempts, snapshots) /\ Contained(sources) \subseteq bytes
    BY <2>1 DEF QueueInv, Stored, Library
  <2>3. sources[s.source] \in bytes
    BY <2>2, Contains
  <2> QED
    BY <2>1, <2>3
<1> QED
  BY <1>1, QueueInvariant, PTL

(* While no claim was lost, equal bytes under equal parameters and code have one
   product, for any number of sources, attempts, deaths and restorations
   (processing.py:124-136). *)
THEOREM OneProduct == Spec => []OneProductPerMeaning
<1>1. QueueInv => OneProductPerMeaning
  BY PublishedTyped DEF QueueInv, Alone, Unique, OneProductPerMeaning, Confirmed, Meaning, IsPublished
<1> QED
  BY <1>1, QueueInvariant, PTL

(* A finished backup holds every source its database names, and its database is in
   order on its own, whatever was admitted while it waited (maintenance.py:90-133). *)
THEOREM BackupAlwaysWhole == Spec => []BackupIsWhole
<1>1. QueueInv => BackupIsWhole
  <2> SUFFICES ASSUME QueueInv, backup = "DONE"
               PROVE  /\ Contained(dump.sources) \subseteq archived
                      /\ \A i \in DOMAIN dump.attempts :
                           /\ dump.attempts[i].source \in DOMAIN dump.sources
                           /\ dump.attempts[i].status = "PUBLISHED" => dump.attempts[i].snapshot \in dump.snapshots
    BY DEF BackupIsWhole
  <2>1. /\ Library(dump.sources, dump.attempts, dump.snapshots)
        /\ Contained(dump.sources) \subseteq archived
    BY DEF QueueInv, Dumped
  <2>2. DOMAIN dump.attempts = 1..Len(dump.attempts) /\ DOMAIN dump.sources = 1..Len(dump.sources)
    BY <2>1, RowIsTyped
  <2> QED
    BY <2>1, <2>2 DEF Library, IsPublished
<1> QED
  BY <1>1, QueueInvariant, PTL
=============================================================================

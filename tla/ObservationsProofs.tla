------------------------- MODULE ObservationsProofs -------------------------
(* Proofs about Observations for any inputs, rows, callers, keys and days, any
   number of runs and revisions and any length of time: the tables tell one story,
   each correction rests on evidence against the bar it supersedes, a snapshot
   is what its evaluation looked at. *)
EXTENDS Observations, SequenceTheorems, WellFoundedInduction, TLAPS

-----------------------------------------------------------------------------
(* The inductive invariant. *)

Entry  == [as : Disposed, bar : 0..MaxRevisions]
Sheets == UNION {[D -> Entry] : D \in SUBSET Slots}
RunRow == [kind : {"IMPORT", "SUPERSESSION"}, input : Inputs,
           status : {"SUCCEEDED", "FAILED", "QUARANTINED"}, records : Sheets]

(* The tables an import and a correction write; rows with records were complete. *)
Filed ==
  /\ runs \in Seq(RunRow) /\ chains \in [Slots -> Seq(1..Len(runs))]
  /\ \A s \in Slots : HeadOf(s) <= MaxRevisions
  /\ \A r \in 1..Len(runs) : /\ DOMAIN runs[r].records \subseteq DOMAIN Rows[runs[r].input]
                             /\ DOMAIN runs[r].records # {} => Normal(runs[r].input)

(* The tables of evaluations and publications.  A day that passed stays visible. *)
Evaluated(e) ==
  /\ e.days \subseteq Slots /\ e.asOf \in Time
  /\ e.outcome = "PASS" => \A s \in e.days : s <= e.asOf /\ Visible(s, e.asOf) # {}

Published(p) ==
  /\ p.evaluation \in Keys /\ evaluations[p.evaluation] # None
  /\ p.members \subseteq Slots \X (1..MaxRevisions)
  /\ \A m \in p.members : m[2] <= HeadOf(m[1])
  /\ p.pins \subseteq 1..Len(runs)

Assessed ==
  /\ \A v \in verdicts : v.run \in 1..Len(runs) /\ v.outcome \in {"PASS", "FAIL", "UNKNOWN"}
  /\ DOMAIN evaluations = Keys /\ DOMAIN snapshots = Keys
  /\ \A k \in Keys : evaluations[k] # None => Evaluated(evaluations[k])
  /\ \A k \in Keys : snapshots[k] # None => Published(snapshots[k])

(* A session that holds a bar has evidence against its head, which stays the head. *)
Backed(c) ==
  /\ call[c] \in [run : Nat, slot : Slots]
  /\ held[Corrected(c)] = c
  /\ <<call[c].run, Corrected(c)>> \in Evidence /\ AgainstHead(<<call[c].run, Corrected(c)>>)
  /\ HeadOf(Corrected(c)) < MaxRevisions

Importing == {"PARSED", "REJECTED", "INSERTING", "LOCKING", "WRITING", "COLLIDED"}

Served(c) ==
  /\ pc[c] = "IDLE" => call[c] = None
  /\ pc[c] \in Importing => call[c] \in [input : Inputs]
  /\ pc[c] \in Importing \ {"REJECTED"} => Normal(Asked(c))
  /\ pc[c] = "HOLDING" => Backed(c)

Sessions ==
  /\ pc \in [Callers -> Phase] /\ DOMAIN call = Callers
  /\ fresh \subseteq Callers /\ series \in Callers \union {None}
  /\ held \in [Slots -> Callers \union {None}] /\ now \in Time
  /\ receipts \subseteq {Receipt[i] : i \in Inputs}
  /\ \A c \in Callers : Served(c)

SeriesInv == /\ Filed /\ ImportsTellOneStory /\ CorrectionsAreEvidenced
             /\ Assessed /\ SnapshotsAreAsEvaluated /\ Sessions

-----------------------------------------------------------------------------
(* The last revision that is visible. *)

NatLess == {p \in Nat \X Nat : p[1] < p[2]}

LEMMA NatLessIsWellFounded == IsWellFoundedOn(NatLess, Nat)
<1>1. OpToRel(<, Nat) = NatLess
  BY DEF OpToRel, NatLess
<1> QED
  BY <1>1, NatLessThanWellFounded

LEMMA LatestIsLast ==
  ASSUME NEW n \in Nat, NEW S \in SUBSET (1..n), S # {}
  PROVE  Latest(S) \in S /\ \A m \in S : m <= Latest(S)
<1> DEFINE D == {n - x : x \in S}
<1>1. D \in SUBSET Nat /\ D # {}
  <2>1. \A x \in S : n - x \in Nat
    OBVIOUS
  <2>2. PICK x \in S : TRUE
    OBVIOUS
  <2> QED
    BY <2>1, <2>2
<1>2. PICK d \in D : \A y \in D : ~(<<y, d>> \in NatLess)
  BY <1>1, NatLessIsWellFounded, WFMin
<1>3. PICK x \in S : d = n - x
  OBVIOUS
<1>4. ASSUME NEW m \in S PROVE m <= x
  <2>1. n - m \in D /\ n - m \in Nat /\ d \in Nat
    BY <1>1
  <2>2. <<n - m, d>> \in Nat \X Nat /\ <<n - m, d>>[1] = n - m /\ <<n - m, d>>[2] = d
    BY <2>1
  <2>3. ~(n - m < d)
    BY <1>2, <2>1, <2>2 DEF NatLess
  <2> QED
    BY <1>3, <2>1, <2>3
<1> QED
  BY <1>4 DEF Latest

(* What the tables hold, row by row. *)
LEMMA Typed ==
  ASSUME Filed
  PROVE  /\ Len(runs) \in Nat /\ DOMAIN runs = 1..Len(runs)
         /\ \A s \in Slots : /\ chains[s] \in Seq(1..Len(runs)) /\ HeadOf(s) \in Nat
                             /\ HeadOf(s) <= MaxRevisions /\ DOMAIN chains[s] = 1..HeadOf(s)
                             /\ \A n \in 1..HeadOf(s) : chains[s][n] \in 1..Len(runs)
         /\ \A r \in 1..Len(runs) :
              /\ runs[r].kind \in {"IMPORT", "SUPERSESSION"} /\ runs[r].input \in Inputs
              /\ runs[r].status \in {"SUCCEEDED", "FAILED", "QUARANTINED"}
              /\ DOMAIN runs[r].records \subseteq DOMAIN Rows[runs[r].input]
              /\ DOMAIN runs[r].records \subseteq Slots
              /\ \A s \in DOMAIN runs[r].records : /\ runs[r].records[s].as \in Disposed
                                                   /\ runs[r].records[s].bar \in 0..MaxRevisions
<1>1. Len(runs) \in Nat /\ DOMAIN runs = 1..Len(runs)
  BY LenProperties DEF Filed
<1>2. ASSUME NEW s \in Slots
      PROVE  /\ chains[s] \in Seq(1..Len(runs)) /\ HeadOf(s) \in Nat
             /\ HeadOf(s) <= MaxRevisions /\ DOMAIN chains[s] = 1..HeadOf(s)
             /\ \A n \in 1..HeadOf(s) : chains[s][n] \in 1..Len(runs)
  <2>1. chains[s] \in Seq(1..Len(runs)) /\ HeadOf(s) <= MaxRevisions
    BY DEF Filed
  <2> QED
    BY <2>1, LenProperties, ElementOfSeq DEF HeadOf
<1>3. ASSUME NEW r \in 1..Len(runs)
      PROVE  /\ runs[r].kind \in {"IMPORT", "SUPERSESSION"} /\ runs[r].input \in Inputs
             /\ runs[r].status \in {"SUCCEEDED", "FAILED", "QUARANTINED"}
             /\ DOMAIN runs[r].records \subseteq DOMAIN Rows[runs[r].input]
             /\ DOMAIN runs[r].records \subseteq Slots
             /\ \A s \in DOMAIN runs[r].records : /\ runs[r].records[s].as \in Disposed
                                                  /\ runs[r].records[s].bar \in 0..MaxRevisions
  <2>1. runs[r] \in RunRow /\ DOMAIN runs[r].records \subseteq DOMAIN Rows[runs[r].input]
    BY ElementOfSeq DEF Filed
  <2>2. PICK D \in SUBSET Slots : runs[r].records \in [D -> Entry]
    BY <2>1 DEF RunRow, Sheets
  <2> QED
    BY <2>1, <2>2 DEF RunRow, Entry
<1> QED
  BY <1>1, <1>2, <1>3

-----------------------------------------------------------------------------
(* Rows are only added. *)

Grows ==
  /\ Len(runs) <= Len(runs)'
  /\ \A r \in 1..Len(runs) : runs'[r] = runs[r]
  /\ \A s \in Slots : /\ HeadOf(s) <= HeadOf(s)'
                      /\ \A n \in 1..HeadOf(s) : chains'[s][n] = chains[s][n]

(* A run with its records, and a bar of that run for each of the slots A. *)
Adds(row, A) ==
  /\ row \in RunRow /\ DOMAIN row.records \subseteq DOMAIN Rows[row.input]
  /\ DOMAIN row.records # {} => Normal(row.input)
  /\ runs' = Append(runs, row)
  /\ chains' = [s \in Slots |-> IF s \in A THEN Append(chains[s], Len(runs) + 1) ELSE chains[s]]
  /\ A = {s \in DOMAIN row.records : row.records[s].as = "INSERTED"}
  /\ \A s \in A : HeadOf(s) < MaxRevisions /\ row.records[s].bar = HeadOf(s) + 1

LEMMA RowsGrow ==
  ASSUME Filed, NEW row, NEW A \in SUBSET Slots, Adds(row, A)
  PROVE  /\ Filed' /\ Grows
         /\ Len(runs)' = Len(runs) + 1 /\ runs'[Len(runs) + 1] = row
         /\ \A s \in A : HeadOf(s)' = HeadOf(s) + 1 /\ chains'[s][HeadOf(s) + 1] = Len(runs) + 1
         /\ \A s \in Slots \ A : chains'[s] = chains[s] /\ HeadOf(s)' = HeadOf(s)
<1> USE Typed
<1>1. /\ runs' \in Seq(RunRow) /\ Len(runs)' = Len(runs) + 1 /\ runs'[Len(runs) + 1] = row
      /\ \A r \in 1..Len(runs) : runs'[r] = runs[r]
  BY AppendProperties DEF Filed, Adds
<1>2. ASSUME NEW s \in Slots
      PROVE  /\ chains'[s] \in Seq(1..(Len(runs) + 1)) /\ HeadOf(s)' <= MaxRevisions
             /\ HeadOf(s)' = HeadOf(s) + (IF s \in A THEN 1 ELSE 0)
             /\ \A n \in 1..HeadOf(s) : chains'[s][n] = chains[s][n]
             /\ s \in A => chains'[s][HeadOf(s) + 1] = Len(runs) + 1
             /\ s \notin A => chains'[s] = chains[s]
  <2>1. /\ chains[s] \in Seq(1..(Len(runs) + 1)) /\ HeadOf(s) \in Nat
        /\ HeadOf(s) = Len(chains[s]) /\ HeadOf(s)' = Len(chains'[s])
        /\ HeadOf(s) <= MaxRevisions
    <3>1. chains[s] \in Seq(1..Len(runs)) /\ Len(runs) \in Nat
      OBVIOUS
    <3>2. 1..Len(runs) \subseteq 1..(Len(runs) + 1)
      BY <3>1
    <3> QED
      BY <3>1, <3>2 DEF HeadOf
  <2>2. CASE s \in A
    <3>1. chains'[s] = Append(chains[s], Len(runs) + 1) /\ HeadOf(s) < MaxRevisions
      BY <2>2 DEF Adds
    <3>2. Len(runs) + 1 \in 1..(Len(runs) + 1)
      OBVIOUS
    <3>3. /\ Append(chains[s], Len(runs) + 1) \in Seq(1..(Len(runs) + 1))
          /\ Len(Append(chains[s], Len(runs) + 1)) = Len(chains[s]) + 1
          /\ \A n \in 1..Len(chains[s]) : Append(chains[s], Len(runs) + 1)[n] = chains[s][n]
          /\ Append(chains[s], Len(runs) + 1)[Len(chains[s]) + 1] = Len(runs) + 1
      BY <2>1, <3>2, AppendProperties
    <3> QED
      BY <2>1, <2>2, <3>1, <3>3, ObservationsAssumption DEF ObservationsAssumption
  <2>3. CASE s \notin A
    <3>1. chains'[s] = chains[s]
      BY <2>3 DEF Adds
    <3> QED
      BY <2>1, <2>3, <3>1
  <2> QED
    BY <2>2, <2>3
<1>3. \A r \in 1..(Len(runs) + 1) :
         /\ DOMAIN runs'[r].records \subseteq DOMAIN Rows[runs'[r].input]
         /\ DOMAIN runs'[r].records # {} => Normal(runs'[r].input)
  <2>1. \A r \in 1..(Len(runs) + 1) : r \in 1..Len(runs) \/ r = Len(runs) + 1
    OBVIOUS
  <2> QED
    BY <1>1, <2>1 DEF Filed, Adds
<1>4. chains' \in [Slots -> Seq(1..Len(runs)')]
  BY <1>1, <1>2 DEF Adds
<1>5. Filed'
  BY <1>1, <1>2, <1>3, <1>4 DEF Filed, Normal
<1>6. Grows
  BY <1>1, <1>2 DEF Grows
<1> QED
  BY <1>1, <1>2, <1>5, <1>6

(* A bar stays what it is, a run and its rows too, and what is visible stays so. *)
LEMMA SameBars ==
  ASSUME Filed, Filed', Grows
  PROVE  /\ \A r \in 1..Len(runs) : /\ r \in 1..Len(runs)' /\ runs'[r] = runs[r]
                                    /\ \A s : RowOf(r, s)' = RowOf(r, s)
         /\ \A s \in Slots : \A n \in 1..HeadOf(s) : /\ n \in 1..HeadOf(s)'
                                                     /\ chains'[s][n] = chains[s][n]
                                                     /\ Bar(s, n)' = Bar(s, n)
         /\ \A s \in Slots, t \in Time : Visible(s, t) \subseteq Visible(s, t)'
<1>1. ASSUME NEW r \in 1..Len(runs)
      PROVE  /\ r \in 1..Len(runs)' /\ runs'[r] = runs[r]
             /\ \A s : RowOf(r, s)' = RowOf(r, s)
  <2>1. Len(runs) \in Nat /\ Len(runs)' \in Nat /\ Len(runs) <= Len(runs)' /\ runs'[r] = runs[r]
    BY LenProperties DEF Grows, Filed
  <2> QED
    BY <2>1 DEF RowOf
<1>2. ASSUME NEW s \in Slots, NEW n \in 1..HeadOf(s)
      PROVE  n \in 1..HeadOf(s)' /\ chains'[s][n] = chains[s][n] /\ Bar(s, n)' = Bar(s, n)
  <2>1. HeadOf(s) \in Nat /\ HeadOf(s)' \in Nat /\ chains[s][n] \in 1..Len(runs)
    <3>1. HeadOf(s) \in Nat /\ chains[s][n] \in 1..Len(runs)
      BY Typed
    <3>2. HeadOf(s)' \in Nat
      BY LenProperties DEF Filed, HeadOf
    <3> QED
      BY <3>1, <3>2
  <2>2. HeadOf(s) <= HeadOf(s)' /\ chains'[s][n] = chains[s][n]
    BY DEF Grows
  <2>3. RowOf(chains[s][n], s)' = Rows[runs'[chains'[s][n]].input][s]
    BY DEF RowOf
  <2> QED
    BY <1>1, <2>1, <2>2, <2>3 DEF Bar, RowOf
<1>3. ASSUME NEW s \in Slots, NEW t \in Time, NEW n \in Visible(s, t)
      PROVE  n \in Visible(s, t)'
  <2>1. DOMAIN chains[s] = 1..HeadOf(s)
    BY Typed
  <2>2. DOMAIN chains'[s] = 1..HeadOf(s)'
    BY LenProperties DEF Filed, HeadOf
  <2>3. n \in 1..HeadOf(s) /\ Bar(s, n).at <= t
    BY <2>1 DEF Visible
  <2>4. n \in 1..HeadOf(s)' /\ Bar(s, n)' = Bar(s, n)
    BY <1>2, <2>3
  <2> QED
    BY <2>2, <2>3, <2>4 DEF Visible
<1> QED
  BY <1>1, <1>2, <1>3
-----------------------------------------------------------------------------
(* Imports tell one story. *)

(* The records of a new run agree with the bars they find. *)
Agrees(row) ==
  \A s \in DOMAIN row.records :
    LET record == row.records[s] IN
    /\ record.as = "DUPLICATE_IDENTICAL" => /\ record.bar \in 1..HeadOf(s)
                                            /\ Bar(s, record.bar) = Rows[row.input][s]
    /\ record.as = "CONFLICT" => /\ record.bar \in 1..HeadOf(s)
                                 /\ Bar(s, record.bar) # Rows[row.input][s]
    /\ record.as \in Accepting <=> row.status = "SUCCEEDED"

LEMMA OldStories ==
  ASSUME Filed, NEW row, NEW A \in SUBSET Slots, Adds(row, A),
         NEW r \in 1..Len(runs), Consistent(r)
  PROVE  Consistent(r)'
<1>1. /\ Filed' /\ Grows /\ Len(runs)' = Len(runs) + 1
      /\ \A s \in A : HeadOf(s)' = HeadOf(s) + 1 /\ chains'[s][HeadOf(s) + 1] = Len(runs) + 1
      /\ \A s \in Slots \ A : chains'[s] = chains[s] /\ HeadOf(s)' = HeadOf(s)
  BY RowsGrow
<1>2. /\ runs'[r] = runs[r] /\ Len(runs) \in Nat
      /\ \A s : RowOf(r, s)' = RowOf(r, s)
      /\ \A s \in Slots : \A n \in 1..HeadOf(s) : /\ n \in 1..HeadOf(s)'
                                                  /\ chains'[s][n] = chains[s][n]
                                                  /\ Bar(s, n)' = Bar(s, n)
  BY <1>1, SameBars, Typed
<1>3. Inserted(r)' = Inserted(r)
  <2>1. ASSUME NEW s \in Slots, NEW n \in 1..MaxRevisions
        PROVE  n <= HeadOf(s) /\ chains[s][n] = r <=> n <= HeadOf(s)' /\ chains'[s][n] = r
    <3>1. HeadOf(s) \in Nat /\ r # Len(runs) + 1
      BY <1>2, Typed
    <3>2. CASE n <= HeadOf(s)
      BY <1>2, <3>1, <3>2
    <3>3. CASE n > HeadOf(s)
      <4>1. CASE s \in A
        BY <1>1, <3>1, <3>3, <4>1
      <4>2. CASE s \notin A
        BY <1>1, <3>1, <3>3, <4>2
      <4> QED
        BY <4>1, <4>2
    <3> QED
      BY <3>1, <3>2, <3>3
  <2> QED
    BY <2>1 DEF Inserted
<1>4. Claimed(r)' = Claimed(r)
  BY <1>2 DEF Claimed
<1>5. ASSUME NEW s \in DOMAIN runs[r].records
      PROVE  /\ runs[r].records[s].bar \in 1..HeadOf(s) =>
                  /\ runs[r].records[s].bar \in 1..HeadOf(s)'
                  /\ Bar(s, runs[r].records[s].bar)' = Bar(s, runs[r].records[s].bar)
             /\ RowOf(r, s)' = RowOf(r, s)
  BY <1>2, Typed
<1>6. \A s \in DOMAIN runs[r].records :
         LET record == runs[r].records[s]
             same   == record.bar \in 1..HeadOf(s) /\ Bar(s, record.bar) = RowOf(r, s)
         IN  (/\ record.as \in Accepting => same
              /\ record.as = "CONFLICT" => record.bar \in 1..HeadOf(s) /\ ~same
              /\ record.as \in Accepting <=> runs[r].status = "SUCCEEDED")'
  BY <1>2, <1>5 DEF Consistent
<1> QED
  BY <1>2, <1>3, <1>4, <1>6 DEF Consistent

LEMMA NewStory ==
  ASSUME Filed, NEW row, NEW A \in SUBSET Slots, Adds(row, A), Agrees(row),
         NEW N, N = Len(runs) + 1
  PROVE  Consistent(N)'
<1>1. /\ Filed' /\ Grows /\ Len(runs)' = N /\ runs'[N] = row
      /\ \A s \in A : HeadOf(s)' = HeadOf(s) + 1 /\ chains'[s][HeadOf(s) + 1] = N
      /\ \A s \in Slots \ A : chains'[s] = chains[s] /\ HeadOf(s)' = HeadOf(s)
  BY RowsGrow
<1>2. /\ Len(runs) \in Nat
      /\ \A s \in Slots : \A n \in 1..HeadOf(s) : /\ n \in 1..HeadOf(s)'
                                                  /\ chains'[s][n] = chains[s][n]
                                                  /\ Bar(s, n)' = Bar(s, n)
  BY <1>1, SameBars, Typed
<1>3. /\ DOMAIN row.records \subseteq Slots
      /\ A = {s \in DOMAIN row.records : row.records[s].as = "INSERTED"}
      /\ \A s \in A : HeadOf(s) < MaxRevisions /\ row.records[s].bar = HeadOf(s) + 1
      /\ \A s \in DOMAIN row.records : row.records[s].as \in Disposed
  <2>1. PICK D \in SUBSET Slots : row.records \in [D -> Entry]
    BY DEF Adds, RunRow, Sheets
  <2> QED
    BY <2>1 DEF Adds, Entry
<1>4. \A s \in Slots : HeadOf(s) \in Nat /\ \A n \in 1..HeadOf(s) : chains[s][n] # N
  BY <1>2, Typed
<1>5. \A s : RowOf(N, s)' = Rows[row.input][s]
  BY <1>1 DEF RowOf
<1>6. Inserted(N)' = Claimed(N)'
  <2>1. ASSUME NEW s \in Slots, NEW n \in 1..MaxRevisions
        PROVE  n <= HeadOf(s)' /\ chains'[s][n] = N <=> s \in A /\ n = HeadOf(s) + 1
    <3>1. HeadOf(s) \in Nat /\ (n <= HeadOf(s) => chains'[s][n] # N)
      BY <1>2, <1>4
    <3>2. CASE s \in A
      BY <1>1, <3>1, <3>2
    <3>3. CASE s \notin A
      BY <1>1, <3>1, <3>3
    <3> QED
      BY <3>2, <3>3
  <2>2. \A s \in A : s \in Slots /\ HeadOf(s) + 1 \in 1..MaxRevisions
    BY <1>3, <1>4, ObservationsAssumption DEF ObservationsAssumption
  <2>3. Claimed(N)' = {<<s, HeadOf(s) + 1>> : s \in A}
    BY <1>1, <1>3 DEF Claimed
  <2>4. Inserted(N)' = {b \in Slots \X (1..MaxRevisions) : b[1] \in A /\ b[2] = HeadOf(b[1]) + 1}
    BY <2>1 DEF Inserted
  <2>5. A \subseteq Slots
    OBVIOUS
  <2>6. ASSUME NEW b \in Inserted(N)' PROVE b \in Claimed(N)'
    <3>1. b[1] \in A /\ b = <<b[1], HeadOf(b[1]) + 1>>
      BY <2>4, <2>6
    <3> QED
      BY <2>3, <3>1
  <2>7. ASSUME NEW s \in A PROVE <<s, HeadOf(s) + 1>> \in Inserted(N)'
    BY <2>2, <2>4, <2>7
  <2> QED
    BY <2>3, <2>6, <2>7
<1>7. ASSUME NEW s \in DOMAIN row.records
      PROVE  LET record == row.records[s]
                 same   == record.bar \in 1..HeadOf(s)' /\ Bar(s, record.bar)' = RowOf(N, s)'
             IN  /\ record.as \in Accepting => same
                 /\ record.as = "CONFLICT" => record.bar \in 1..HeadOf(s)' /\ ~same
                 /\ record.as \in Accepting <=> row.status = "SUCCEEDED"
  <2>1. s \in Slots
    BY <1>3
  <2>2. CASE row.records[s].as = "INSERTED"
    <3>1. s \in A /\ row.records[s].bar = HeadOf(s) + 1 /\ HeadOf(s)' = HeadOf(s) + 1
      BY <1>1, <1>3, <2>2
    <3>2. chains'[s][HeadOf(s) + 1] = N /\ HeadOf(s) + 1 \in 1..HeadOf(s)'
      BY <1>1, <1>4, <2>1, <3>1
    <3>3. Bar(s, row.records[s].bar)' = RowOf(N, s)'
      BY <3>1, <3>2 DEF Bar, RowOf
    <3> QED
      BY <2>2, <3>1, <3>2, <3>3 DEF Agrees, Accepting
  <2>3. CASE row.records[s].as # "INSERTED"
    <3>1. row.records[s].bar \in 1..HeadOf(s) =>
             /\ row.records[s].bar \in 1..HeadOf(s)'
             /\ Bar(s, row.records[s].bar)' = Bar(s, row.records[s].bar)
      BY <1>2, <2>1
    <3> QED
      BY <1>5, <2>3, <3>1 DEF Agrees, Accepting
  <2> QED
    BY <2>2, <2>3
<1> QED
  BY <1>1, <1>6, <1>7 DEF Consistent

LEMMA StoryGoesOn ==
  ASSUME Filed, ImportsTellOneStory, NEW row, NEW A \in SUBSET Slots, Adds(row, A), Agrees(row)
  PROVE  ImportsTellOneStory'
<1>1. Len(runs)' = Len(runs) + 1 /\ Filed' /\ Len(runs) \in Nat
  BY RowsGrow, Typed
<1>2. DOMAIN runs = 1..Len(runs) /\ DOMAIN runs' = 1..(Len(runs) + 1)
  BY <1>1, Typed, LenProperties DEF Filed
<1>3. \A r \in 1..Len(runs) : Consistent(r)'
  BY <1>2, OldStories DEF ImportsTellOneStory
<1>4. \A r : r = Len(runs) + 1 => Consistent(r)'
  BY NewStory
<1>5. \A r \in 1..(Len(runs) + 1) : r \in 1..Len(runs) \/ r = Len(runs) + 1
  BY <1>1
<1> QED
  BY <1>2, <1>3, <1>4, <1>5 DEF ImportsTellOneStory
-----------------------------------------------------------------------------
(* Corrections rest on evidence, and what was assessed stays as it was. *)

Grounded(s, n) ==
  IF n = 1 THEN runs[chains[s][n]].kind = "IMPORT"
  ELSE /\ runs[chains[s][n]].kind = "SUPERSESSION"
       /\ Bar(s, n - 1).at < Bar(s, n).at
       /\ \E e \in Evidence : /\ e[2] = s /\ runs[e[1]].records[s].bar = n - 1
                              /\ RowOf(e[1], s) = Bar(s, n)

(* What the bars of a new run rest on. *)
Rests(row, A) ==
  \A s \in A :
    \/ HeadOf(s) = 0 /\ row.kind = "IMPORT"
    \/ /\ HeadOf(s) > 0 /\ row.kind = "SUPERSESSION"
       /\ Bar(s, HeadOf(s)).at < Rows[row.input][s].at
       /\ \E e \in Evidence : /\ e[2] = s /\ runs[e[1]].records[s].bar = HeadOf(s)
                              /\ RowOf(e[1], s) = Rows[row.input][s]

LEMMA EvidenceStays ==
  ASSUME Filed, Filed', Grows, NEW e \in Evidence
  PROVE  /\ e \in Evidence' /\ e[1] \in 1..Len(runs) /\ e[2] \in Slots
         /\ runs'[e[1]] = runs[e[1]] /\ \A s : RowOf(e[1], s)' = RowOf(e[1], s)
<1>1. e \in (1..Len(runs)) \X Slots /\ DOMAIN runs' = 1..Len(runs)'
  BY Typed, LenProperties DEF Evidence, Filed
<1>2. e[1] \in 1..Len(runs)' /\ runs'[e[1]] = runs[e[1]] /\ \A s : RowOf(e[1], s)' = RowOf(e[1], s)
  BY <1>1, SameBars
<1> QED
  BY <1>1, <1>2 DEF Evidence

LEMMA CorrectionsGoOn ==
  ASSUME Filed, CorrectionsAreEvidenced, NEW row, NEW A \in SUBSET Slots, Adds(row, A), Rests(row, A)
  PROVE  CorrectionsAreEvidenced'
<1>1. /\ Filed' /\ Grows /\ runs'[Len(runs) + 1] = row
      /\ \A s \in A : HeadOf(s)' = HeadOf(s) + 1 /\ chains'[s][HeadOf(s) + 1] = Len(runs) + 1
      /\ \A s \in Slots \ A : HeadOf(s)' = HeadOf(s)
  BY RowsGrow
<1>2. ASSUME NEW s \in Slots
      PROVE  /\ HeadOf(s) \in Nat /\ DOMAIN chains[s] = 1..HeadOf(s) /\ DOMAIN chains'[s] = 1..HeadOf(s)'
             /\ \A n \in 1..HeadOf(s) : /\ chains[s][n] \in 1..Len(runs)
                                        /\ chains'[s][n] = chains[s][n] /\ Bar(s, n)' = Bar(s, n)
                                        /\ runs'[chains[s][n]] = runs[chains[s][n]]
  <2>1. HeadOf(s) \in Nat /\ DOMAIN chains[s] = 1..HeadOf(s) /\ DOMAIN chains'[s] = 1..HeadOf(s)'
    BY <1>1, Typed, LenProperties DEF Filed, HeadOf
  <2> QED
    BY <1>1, <2>1, Typed, SameBars
<1>3. ASSUME NEW s \in Slots, NEW n \in 1..HeadOf(s) PROVE Grounded(s, n)'
  <2>1. Grounded(s, n)
    BY <1>2 DEF CorrectionsAreEvidenced, Grounded
  <2>2. runs'[chains'[s][n]].kind = runs[chains[s][n]].kind
    BY <1>2
  <2>3. CASE n = 1
    BY <2>1, <2>2, <2>3 DEF Grounded
  <2>4. CASE n # 1
    <3>1. n - 1 \in 1..HeadOf(s)
      BY <1>2, <2>4
    <3>2. Bar(s, n - 1)' = Bar(s, n - 1) /\ Bar(s, n)' = Bar(s, n)
      BY <1>2, <3>1
    <3>3. PICK e \in Evidence : /\ e[2] = s /\ runs[e[1]].records[s].bar = n - 1
                                /\ RowOf(e[1], s) = Bar(s, n)
      BY <2>1, <2>4 DEF Grounded
    <3>4. /\ e \in Evidence' /\ runs'[e[1]] = runs[e[1]] /\ RowOf(e[1], s)' = RowOf(e[1], s)
      BY <1>1, EvidenceStays
    <3> QED
      BY <2>1, <2>2, <2>4, <3>2, <3>3, <3>4 DEF Grounded
  <2> QED
    BY <2>3, <2>4
<1>4. ASSUME NEW s \in A, NEW n, n = HeadOf(s) + 1 PROVE Grounded(s, n)'
  <2>1. /\ chains'[s][n] = Len(runs) + 1 /\ runs'[chains'[s][n]] = row
        /\ Bar(s, n)' = Rows[row.input][s]
    BY <1>1, <1>4 DEF Bar, RowOf
  <2>2. CASE HeadOf(s) = 0 /\ row.kind = "IMPORT"
    BY <1>4, <2>1, <2>2 DEF Grounded
  <2>3. CASE ~(HeadOf(s) = 0 /\ row.kind = "IMPORT")
    <3>1. /\ HeadOf(s) > 0 /\ row.kind = "SUPERSESSION"
          /\ Bar(s, HeadOf(s)).at < Rows[row.input][s].at
          /\ \E e \in Evidence : /\ e[2] = s /\ runs[e[1]].records[s].bar = HeadOf(s)
                                 /\ RowOf(e[1], s) = Rows[row.input][s]
      BY <2>3 DEF Rests
    <3>2. n - 1 = HeadOf(s) /\ n # 1 /\ n - 1 \in 1..HeadOf(s)
      BY <1>2, <1>4, <3>1
    <3>3. Bar(s, n - 1)' = Bar(s, n - 1)
      BY <1>2, <3>2
    <3>4. PICK e \in Evidence : /\ e[2] = s /\ runs[e[1]].records[s].bar = n - 1
                                /\ RowOf(e[1], s) = Rows[row.input][s]
      BY <3>1, <3>2
    <3>5. e \in Evidence' /\ runs'[e[1]] = runs[e[1]] /\ RowOf(e[1], s)' = RowOf(e[1], s)
      BY <1>1, EvidenceStays
    <3> QED
      BY <2>1, <3>1, <3>2, <3>3, <3>4, <3>5 DEF Grounded
  <2> QED
    BY <2>2, <2>3
<1>5. ASSUME NEW s \in Slots, NEW n \in DOMAIN chains'[s] PROVE Grounded(s, n)'
  <2>1. n \in 1..HeadOf(s) \/ (s \in A /\ n = HeadOf(s) + 1)
    BY <1>1, <1>2
  <2> QED
    BY <1>3, <1>4, <2>1
<1> QED
  BY <1>5 DEF CorrectionsAreEvidenced, Grounded

LEMMA AssessmentsStay ==
  ASSUME Filed, Filed', Grows, Assessed, UNCHANGED products
  PROVE  Assessed'
<1>1. verdicts' = verdicts /\ evaluations' = evaluations /\ snapshots' = snapshots
  BY DEF products
<1>2. /\ 1..Len(runs) \subseteq 1..Len(runs)'
      /\ \A s \in Slots : HeadOf(s) <= HeadOf(s)' /\ HeadOf(s) \in Nat /\ HeadOf(s)' \in Nat
  <2>1. \A s \in Slots : HeadOf(s)' \in Nat
    BY LenProperties DEF Filed, HeadOf
  <2> QED
    BY <2>1, SameBars, Typed DEF Grows
<1>3. ASSUME NEW k \in Keys, evaluations[k] # None PROVE Evaluated(evaluations[k])'
  BY <1>1, <1>3, SameBars DEF Assessed, Evaluated
<1>4. ASSUME NEW k \in Keys, snapshots[k] # None PROVE Published(snapshots[k])'
  <2>1. Published(snapshots[k])
    BY <1>4 DEF Assessed
  <2>2. ASSUME NEW m \in snapshots[k].members PROVE m[2] <= HeadOf(m[1])'
    <3>1. m[1] \in Slots /\ m[2] \in 1..MaxRevisions /\ m[2] <= HeadOf(m[1])
      BY <2>1 DEF Published
    <3> QED
      BY <1>2, <3>1, ObservationsAssumption DEF ObservationsAssumption
  <2> QED
    BY <1>1, <1>2, <2>1, <2>2 DEF Published
<1> QED
  BY <1>1, <1>2, <1>3, <1>4 DEF Assessed

(* A snapshot and its evaluation agree, bar for bar. *)
AsEvaluated(p) ==
  LET e == evaluations[p.evaluation] IN
  /\ e.outcome = "PASS"
  /\ {m[1] : m \in p.members} = p.days
  /\ \A r \in p.pins : runs[r].status = "SUCCEEDED"
  /\ \A m \in p.members : /\ m[2] = e.input[m[1]]
                          /\ m[1] <= Bar(m[1], m[2]).at /\ Bar(m[1], m[2]).at <= e.asOf

LEMMA SnapshotsStay ==
  ASSUME Filed, Filed', Grows, Assessed, SnapshotsAreAsEvaluated, UNCHANGED products
  PROVE  SnapshotsAreAsEvaluated'
<1>1. evaluations' = evaluations /\ snapshots' = snapshots
  BY DEF products
<1>2. ASSUME NEW k \in Keys, snapshots[k] # None PROVE AsEvaluated(snapshots[k])'
  <2>1. AsEvaluated(snapshots[k]) /\ Published(snapshots[k])
    BY <1>2 DEF SnapshotsAreAsEvaluated, AsEvaluated, Assessed
  <2>2. \A r \in snapshots[k].pins : runs'[r] = runs[r]
    BY <2>1, SameBars DEF Published
  <2>3. ASSUME NEW m \in snapshots[k].members PROVE Bar(m[1], m[2])' = Bar(m[1], m[2])
    <3>1. m[1] \in Slots /\ m[2] \in 1..HeadOf(m[1])
      BY <2>1, Typed, ObservationsAssumption DEF Published, ObservationsAssumption
    <3> QED
      BY <3>1, SameBars
  <2> QED
    BY <1>1, <2>1, <2>2, <2>3 DEF AsEvaluated
<1> QED
  BY <1>1, <1>2 DEF SnapshotsAreAsEvaluated, AsEvaluated
-----------------------------------------------------------------------------
(* Evaluations and publications. *)

LEMMA VisibleBars ==
  ASSUME Filed, NEW s \in Slots, NEW t \in Time
  PROVE  /\ Visible(s, t) \subseteq 1..HeadOf(s) /\ HeadOf(s) \in Nat /\ HeadOf(s) <= MaxRevisions
         /\ Visible(s, t) # {} => /\ Latest(Visible(s, t)) \in Visible(s, t)
                                  /\ Seen(s, t) = Latest(Visible(s, t))
                                  /\ Latest(Visible(s, t)) \in 1..MaxRevisions
<1>1. Visible(s, t) \subseteq 1..HeadOf(s) /\ HeadOf(s) \in Nat /\ HeadOf(s) <= MaxRevisions
  BY Typed DEF Visible
<1>2. ASSUME Visible(s, t) # {}
      PROVE  Latest(Visible(s, t)) \in Visible(s, t) /\ Seen(s, t) = Latest(Visible(s, t))
  BY <1>1, <1>2, LatestIsLast DEF Seen
<1> QED
  BY <1>1, <1>2, ObservationsAssumption DEF ObservationsAssumption

(* A bar is not available before its day is over: its row came with a run that has
   records, so in an input that is normal. *)
LEMMA BarsAreComplete ==
  ASSUME Filed, ImportsTellOneStory, NEW s \in Slots, NEW n \in 1..HeadOf(s)
  PROVE  s <= Bar(s, n).at
<1> DEFINE r == chains[s][n]
<1>1. r \in 1..Len(runs) /\ n \in 1..MaxRevisions /\ n <= HeadOf(s) /\ DOMAIN runs = 1..Len(runs)
  BY Typed, ObservationsAssumption DEF ObservationsAssumption
<1>2. <<s, n>> \in Inserted(r)
  BY <1>1 DEF Inserted
<1>3. <<s, n>> \in Claimed(r)
  BY <1>1, <1>2 DEF ImportsTellOneStory, Consistent
<1>4. s \in DOMAIN runs[r].records
  BY <1>3 DEF Claimed
<1>5. s \in DOMAIN Rows[runs[r].input] /\ Normal(runs[r].input)
  BY <1>1, <1>4 DEF Filed
<1>6. runs[r].input \in Inputs
  BY <1>1, Typed
<1> QED
  BY <1>5, <1>6, ObservationsAssumption DEF ObservationsAssumption, Normal, Bar, RowOf, Time

LEMMA ImportEvaluated ==
  ASSUME SeriesInv, NEW r \in DOMAIN runs, EvaluateImport(r)
  PROVE  Assessed' /\ SnapshotsAreAsEvaluated'
<1>1. /\ verdicts' = verdicts \union {[run |-> r, outcome |-> Verdict(r)]}
      /\ evaluations' = evaluations /\ snapshots' = snapshots /\ runs' = runs /\ chains' = chains
  BY DEF EvaluateImport, authority
<1>2. r \in 1..Len(runs) /\ Verdict(r) \in {"PASS", "FAIL", "UNKNOWN"}
  BY Typed DEF SeriesInv, Verdict
<1>3. Assessed'
  BY <1>1, <1>2 DEF SeriesInv, Assessed, Evaluated, Published, Visible, Bar, RowOf, HeadOf
<1>4. SnapshotsAreAsEvaluated'
  BY <1>1 DEF SeriesInv, SnapshotsAreAsEvaluated, Bar, RowOf
<1> QED
  BY <1>3, <1>4

LEMMA RangeEvaluated ==
  ASSUME SeriesInv, NEW k \in Keys, NEW days \in Days, NEW t \in Time, EvaluateRange(k, days, t)
  PROVE  Assessed' /\ SnapshotsAreAsEvaluated'
<1> DEFINE e == [days |-> days, asOf |-> t, input |-> Input(days, t), outcome |-> Outcome(days, t)]
<1>1. /\ evaluations[k] = None /\ evaluations' = [evaluations EXCEPT ![k] = e]
      /\ verdicts' = verdicts /\ snapshots' = snapshots /\ runs' = runs /\ chains' = chains
  BY DEF EvaluateRange, authority
<1>2. DOMAIN evaluations = Keys /\ evaluations'[k] = e /\ \A q \in Keys \ {k} : evaluations'[q] = evaluations[q]
  BY <1>1 DEF SeriesInv, Assessed
<1>3. Evaluated(e)
  <2>1. days \subseteq Slots
    BY DEF Days, Span
  <2>2. ASSUME Outcome(days, t) = "PASS", NEW s \in days PROVE s <= t /\ Visible(s, t) # {}
    <3>1. ~(t < s) /\ Visible(s, t) # {}
      BY <2>2 DEF Outcome
    <3> QED
      BY <2>1, <3>1, ObservationsAssumption DEF ObservationsAssumption, Time
  <2> QED
    BY <2>1, <2>2 DEF Evaluated
<1>4. \A q \in Keys : evaluations'[q] # None => Evaluated(evaluations'[q])
  BY <1>2, <1>3 DEF SeriesInv, Assessed
<1>5. ASSUME NEW q \in Keys, snapshots[q] # None
      PROVE  Published(snapshots[q]) /\ snapshots[q].evaluation \in Keys
             /\ evaluations'[snapshots[q].evaluation] = evaluations[snapshots[q].evaluation]
             /\ evaluations[snapshots[q].evaluation] # None
  <2>1. Published(snapshots[q])
    BY <1>5 DEF SeriesInv, Assessed
  <2> QED
    BY <1>1, <1>2, <2>1 DEF Published
<1>6. Assessed'
  <2>1. ASSUME NEW j \in Keys, evaluations'[j] # None PROVE Evaluated(evaluations[j])'
    BY <1>1, <1>4, <2>1 DEF Evaluated, Visible, Bar, RowOf
  <2>2. ASSUME NEW j \in Keys, snapshots[j] # None PROVE Published(snapshots[j])'
    BY <1>1, <1>5, <2>2 DEF Published, HeadOf
  <2> QED
    BY <1>1, <1>2, <2>1, <2>2 DEF SeriesInv, Assessed
<1>7. SnapshotsAreAsEvaluated'
  <2>1. ASSUME NEW j \in Keys, snapshots[j] # None PROVE AsEvaluated(snapshots[j])'
    <3>1. AsEvaluated(snapshots[j])
      BY <2>1 DEF SeriesInv, SnapshotsAreAsEvaluated, AsEvaluated
    <3>2. evaluations'[snapshots'[j].evaluation] = evaluations[snapshots[j].evaluation]
      BY <1>1, <1>5, <2>1
    <3> QED
      BY <1>1, <3>1, <3>2 DEF AsEvaluated, Bar, RowOf
  <2> QED
    BY <1>1, <2>1 DEF SnapshotsAreAsEvaluated, AsEvaluated
<1> QED
  BY <1>6, <1>7

LEMMA PublicationHolds ==
  ASSUME SeriesInv, NEW k \in Keys, NEW q \in Keys, NEW days \in Days, Publish(k, q, days)
  PROVE  Assessed' /\ SnapshotsAreAsEvaluated'
<1> DEFINE e == evaluations[q]
           members == Selection(days, e.asOf)
           p == [evaluation |-> q, days |-> days, members |-> members, pins |-> RunsOf(members)]
<1>1. /\ Applies(e) /\ days \subseteq e.days /\ \A r \in RunsOf(members) : Pinned(r)
      /\ snapshots' = [snapshots EXCEPT ![k] = p]
      /\ verdicts' = verdicts /\ evaluations' = evaluations /\ runs' = runs /\ chains' = chains
  BY DEF Publish, authority
<1>2. DOMAIN snapshots = Keys /\ snapshots'[k] = p /\ \A j \in Keys \ {k} : snapshots'[j] = snapshots[j]
  BY <1>1 DEF SeriesInv, Assessed
<1>3. /\ e # None /\ e.outcome = "PASS" /\ e.input = Input(e.days, e.asOf)
      /\ e.days \subseteq Slots /\ e.asOf \in Time
      /\ \A s \in e.days : s <= e.asOf /\ Visible(s, e.asOf) # {}
  BY <1>1 DEF SeriesInv, Assessed, Evaluated, Applies
<1>4. ASSUME NEW s \in days
      PROVE  /\ s \in Slots /\ s \in e.days /\ Visible(s, e.asOf) # {}
             /\ Latest(Visible(s, e.asOf)) \in Visible(s, e.asOf)
             /\ Latest(Visible(s, e.asOf)) \in 1..HeadOf(s)
             /\ Latest(Visible(s, e.asOf)) \in 1..MaxRevisions
             /\ e.input[s] = Latest(Visible(s, e.asOf))
  <2>1. s \in Slots /\ s \in e.days /\ Visible(s, e.asOf) # {}
    BY <1>1, <1>3
  <2>2. e.input[s] = Seen(s, e.asOf)
    BY <1>3, <2>1 DEF Input
  <2> QED
    BY <1>3, <2>1, <2>2, VisibleBars DEF SeriesInv
<1>5. members = {<<s, Latest(Visible(s, e.asOf))>> : s \in days}
  BY <1>4 DEF Selection
<1>6. ASSUME NEW m \in members
      PROVE  /\ m[1] \in days /\ m = <<m[1], Latest(Visible(m[1], e.asOf))>>
             /\ m[1] \in Slots /\ m[2] \in 1..HeadOf(m[1]) /\ m[2] \in 1..MaxRevisions
             /\ m[2] = e.input[m[1]] /\ chains[m[1]][m[2]] \in 1..Len(runs)
             /\ m[1] <= Bar(m[1], m[2]).at /\ Bar(m[1], m[2]).at <= e.asOf
  <2>1. PICK s \in days : m = <<s, Latest(Visible(s, e.asOf))>>
    BY <1>5
  <2>2. m[1] = s /\ m[2] = Latest(Visible(s, e.asOf))
    BY <2>1
  <2>3. s \in Slots /\ m[2] \in Visible(s, e.asOf) /\ m[2] \in 1..HeadOf(s) /\ m[2] \in 1..MaxRevisions
        /\ m[2] = e.input[s]
    BY <1>4, <2>2
  <2>4. Bar(s, m[2]).at <= e.asOf
    BY <2>3 DEF Visible
  <2>5. s <= Bar(s, m[2]).at
    BY <2>3, BarsAreComplete DEF SeriesInv
  <2>6. chains[s][m[2]] \in 1..Len(runs)
    BY <2>3, Typed DEF SeriesInv
  <2> QED
    BY <2>1, <2>2, <2>3, <2>4, <2>5, <2>6
<1>7. {m[1] : m \in members} = days
  <2>1. ASSUME NEW s \in days PROVE s \in {m[1] : m \in members}
    <3>1. <<s, Latest(Visible(s, e.asOf))>> \in members
      BY <1>5
    <3>2. <<s, Latest(Visible(s, e.asOf))>>[1] = s
      OBVIOUS
    <3> QED
      BY <3>1, <3>2
  <2> QED
    BY <1>6, <2>1
<1>8. \A r \in RunsOf(members) : r \in 1..Len(runs) /\ runs[r].status = "SUCCEEDED"
  <2>1. \A r \in RunsOf(members) : Verdict(r) = "PASS" /\ r \in 1..Len(runs)
    BY <1>1, <1>6 DEF Pinned, RunsOf
  <2> QED
    BY <2>1 DEF Verdict
<1>9. Published(p) /\ AsEvaluated(p)
  <2>1. members \subseteq Slots \X (1..MaxRevisions) /\ \A m \in members : m[2] <= HeadOf(m[1])
    BY <1>6, VisibleBars, Typed DEF SeriesInv
  <2>2. Published(p)
    BY <1>3, <1>8, <2>1 DEF Published
  <2>3. AsEvaluated(p)
    BY <1>3, <1>6, <1>7, <1>8 DEF AsEvaluated
  <2> QED
    BY <2>2, <2>3
<1>10. \A j \in Keys : snapshots[j] # None => Published(snapshots[j]) /\ AsEvaluated(snapshots[j])
  BY DEF SeriesInv, Assessed, SnapshotsAreAsEvaluated, AsEvaluated
<1>11. \A j \in Keys : snapshots'[j] # None => Published(snapshots'[j]) /\ AsEvaluated(snapshots'[j])
  BY <1>2, <1>9, <1>10
<1> HIDE DEF p, members, e
<1>12. Assessed'
  BY <1>1, <1>2, <1>11 DEF SeriesInv, Assessed, Evaluated, Published, Visible, Bar, RowOf, HeadOf
<1>13. SnapshotsAreAsEvaluated'
  BY <1>1, <1>11 DEF SnapshotsAreAsEvaluated, AsEvaluated, Bar, RowOf
<1> QED
  BY <1>12, <1>13
-----------------------------------------------------------------------------
(* Sessions. *)

Slot(c) == call[c].slot

(* What a session that is not asked to do anything sees of the others. *)
LEMMA StaysServed ==
  ASSUME Filed, Filed', Grows, NEW c \in Callers, Served(c),
         pc'[c] = pc[c], call'[c] = call[c],
         pc[c] = "HOLDING" => held'[Slot(c)] = held[Slot(c)] /\ HeadOf(Slot(c))' = HeadOf(Slot(c))
  PROVE  Served(c)'
<1>1. ASSUME pc[c] = "HOLDING" PROVE Backed(c)'
  <2>1. Backed(c)
    BY <1>1 DEF Served
  <2> DEFINE e == <<call[c].run, Corrected(c)>>
  <2>2. /\ e \in Evidence' /\ runs'[e[1]] = runs[e[1]]
        /\ Corrected(c)' = Corrected(c) /\ Corrected(c) = Slot(c)
    BY <2>1, EvidenceStays DEF Backed, Corrected, Slot
  <2>3. /\ <<call[c].run, Corrected(c)>>' = e /\ held'[Corrected(c)] = c
        /\ Len(chains'[Corrected(c)]) = Len(chains[Corrected(c)])
    BY <1>1, <2>1, <2>2 DEF Backed, HeadOf, Slot
  <2>4. AgainstHead(<<call[c].run, Corrected(c)>>)' /\ (HeadOf(Corrected(c)) < MaxRevisions)'
    BY <2>1, <2>2, <2>3 DEF Backed, AgainstHead, HeadOf
  <2> QED
    BY <2>1, <2>2, <2>3, <2>4 DEF Backed
<1>2. Normal(Asked(c)) => Normal(Asked(c))'
  BY DEF Normal, Asked
<1> QED
  BY <1>1, <1>2 DEF Served

LEMMA Released ==
  ASSUME Filed, Filed', Grows, Sessions, NEW c \in Callers, Release(c), now' = now,
         receipts' \subseteq {Receipt[i] : i \in Inputs},
         \A d \in Callers \ {c} : pc[d] = "HOLDING" => HeadOf(Slot(d))' = HeadOf(Slot(d))
  PROVE  Sessions'
<1>1. /\ pc' = [pc EXCEPT ![c] = "IDLE"] /\ call' = [call EXCEPT ![c] = None]
      /\ fresh' = fresh \ {c} /\ series' = (IF series = c THEN None ELSE series)
      /\ held' = [s \in Slots |-> IF held[s] = c THEN None ELSE held[s]]
  BY DEF Release, Goto
<1>2. ASSUME NEW d \in Callers PROVE Served(d)'
  <2>1. Served(d)
    BY DEF Sessions
  <2>2. CASE d = c
    <3>1. pc'[d] = "IDLE" /\ call'[d] = None
      BY <1>1, <2>2 DEF Sessions
    <3> QED
      BY <3>1 DEF Served, Importing
  <2>3. CASE d # c
    <3>1. pc'[d] = pc[d] /\ call'[d] = call[d]
      BY <1>1, <2>3 DEF Sessions
    <3>2. ASSUME pc[d] = "HOLDING" PROVE held'[Slot(d)] = held[Slot(d)]
      <4>1. Slot(d) \in Slots /\ held[Slot(d)] = d
        BY <2>1, <3>2 DEF Served, Backed, Slot, Corrected
      <4> QED
        BY <1>1, <2>3, <4>1
    <3> QED
      BY <2>1, <2>3, <3>1, <3>2, StaysServed
  <2> QED
    BY <2>2, <2>3
<1>3. /\ pc' \in [Callers -> Phase] /\ DOMAIN call' = Callers /\ fresh' \subseteq Callers
      /\ series' \in Callers \union {None} /\ held' \in [Slots -> Callers \union {None}]
  BY <1>1 DEF Sessions, Phase
<1> QED
  BY <1>2, <1>3 DEF Sessions

(* A step of one session that writes nothing. *)
LEMMA Moves ==
  ASSUME Filed, Sessions, UNCHANGED authority, now' = now,
         NEW c \in Callers, NEW phase \in Phase, pc' = [pc EXCEPT ![c] = phase],
         DOMAIN call' = Callers, \A d \in Callers \ {c} : call'[d] = call[d],
         fresh' \subseteq Callers, series' \in Callers \union {None},
         held' \in [Slots -> Callers \union {None}],
         \A s \in Slots : held[s] # None => held'[s] = held[s],
         Served(c)'
  PROVE  Sessions'
<1>1. Filed' /\ Grows /\ runs' = runs /\ chains' = chains /\ receipts' = receipts
  <2>1. runs' = runs /\ chains' = chains /\ receipts' = receipts
    BY DEF authority
  <2>2. Filed'
    BY <2>1 DEF Filed, HeadOf, Normal
  <2>3. Grows
    BY <2>1, Typed DEF Grows, HeadOf
  <2> QED
    BY <2>1, <2>2, <2>3
<1>2. ASSUME NEW d \in Callers, d # c PROVE Served(d)'
  <2>1. Served(d) /\ pc'[d] = pc[d] /\ call'[d] = call[d]
    BY <1>2 DEF Sessions
  <2>2. ASSUME pc[d] = "HOLDING"
        PROVE  held'[Slot(d)] = held[Slot(d)] /\ HeadOf(Slot(d))' = HeadOf(Slot(d))
    <3>1. Slot(d) \in Slots /\ held[Slot(d)] = d
      BY <2>1, <2>2 DEF Served, Backed, Slot, Corrected
    <3>2. d # None
      BY ObservationsAssumption DEF ObservationsAssumption
    <3>3. call'[d].slot = call[d].slot
      BY <2>1
    <3> QED
      BY <1>1, <3>1, <3>2, <3>3 DEF HeadOf, Slot
  <2> QED
    BY <1>1, <2>1, <2>2, StaysServed
<1>3. pc' \in [Callers -> Phase] /\ DOMAIN call' = Callers
  BY DEF Sessions
<1> QED
  BY <1>1, <1>2, <1>3 DEF Sessions

(* Steps that write nothing. *)
LEMMA QuietSteps ==
  ASSUME Filed, Sessions, NEW c \in Callers,
         \/ \E i \in Inputs : Ask(c, i)
         \/ \E e \in Evidence : Hold(c, e)
         \/ Begin(c) \/ InsertReceipt(c) \/ LockSeries(c) \/ Refer(c)
  PROVE  Sessions' /\ UNCHANGED <<authority, products>>
<1>1. CASE \E i \in Inputs : Ask(c, i)
  <2>1. PICK i \in Inputs : Ask(c, i)
    BY <1>1
  <2>2. PICK phase : phase = IF Normal(i) THEN "PARSED" ELSE "REJECTED"
    OBVIOUS
  <2>3. phase \in {"PARSED", "REJECTED"} /\ (phase = "PARSED" <=> Normal(i))
    BY <2>2
  <2>4. /\ pc' = [pc EXCEPT ![c] = phase] /\ call' = [call EXCEPT ![c] = [input |-> i]]
        /\ UNCHANGED <<authority, products, locks, now>>
    BY <2>1, <2>2 DEF Ask, Goto
  <2>5. /\ pc'[c] = phase /\ call'[c] = [input |-> i]
        /\ DOMAIN call' = Callers /\ \A d \in Callers \ {c} : call'[d] = call[d]
    BY <2>4 DEF Sessions
  <2>6. Normal(Asked(c))' <=> Normal(i)
    BY <2>5 DEF Normal, Asked
  <2>7. Served(c)'
    BY <2>3, <2>5, <2>6 DEF Served, Importing
  <2>8. fresh' = fresh /\ series' = series /\ held' = held /\ now' = now /\ phase \in Phase
    BY <2>3, <2>4 DEF locks, Phase
  <2>9. Sessions'
    BY <2>4, <2>5, <2>7, <2>8, Moves DEF Sessions
  <2> QED
    BY <2>4, <2>9
<1>2. CASE \E e \in Evidence : Hold(c, e)
  <2>1. PICK e \in Evidence : Hold(c, e)
    BY <1>2
  <2>2. e \in (1..Len(runs)) \X Slots /\ Len(runs) \in Nat
    BY Typed DEF Evidence
  <2>3. /\ pc' = [pc EXCEPT ![c] = "HOLDING"]
        /\ call' = [call EXCEPT ![c] = [run |-> e[1], slot |-> e[2]]]
        /\ held' = [held EXCEPT ![e[2]] = c] /\ held[e[2]] = None
        /\ AgainstHead(e) /\ HeadOf(e[2]) < MaxRevisions
        /\ UNCHANGED <<authority, products, fresh, series, now>>
    BY <2>1 DEF Hold, Goto
  <2>4. /\ pc'[c] = "HOLDING" /\ call'[c] = [run |-> e[1], slot |-> e[2]] /\ held'[e[2]] = c
        /\ DOMAIN call' = Callers /\ \A d \in Callers \ {c} : call'[d] = call[d]
    BY <2>2, <2>3 DEF Sessions
  <2>5. /\ <<call[c].run, Corrected(c)>>' = e /\ Corrected(c)' = e[2]
        /\ runs' = runs /\ chains' = chains /\ call'[c] \in [run : Nat, slot : Slots]
    BY <2>2, <2>3, <2>4 DEF Corrected, authority
  <2>6. Evidence' = Evidence /\ AgainstHead(e)' /\ (HeadOf(e[2]) < MaxRevisions)'
    BY <2>3, <2>5 DEF Evidence, AgainstHead, HeadOf
  <2>7. /\ held'[Corrected(c)'] = c /\ <<call[c].run, Corrected(c)>>' \in Evidence'
        /\ (HeadOf(Corrected(c)) < MaxRevisions)'
    BY <2>4, <2>5, <2>6 DEF HeadOf
  <2>8. AgainstHead(<<call[c].run, Corrected(c)>>)'
    BY <2>5, <2>6 DEF AgainstHead, HeadOf
  <2>9. Backed(c)'
    BY <2>5, <2>7, <2>8 DEF Backed
  <2>10. Served(c)'
    BY <2>4, <2>9 DEF Served, Importing
  <2>11. /\ held' \in [Slots -> Callers \union {None}]
         /\ \A s \in Slots : held[s] # None => held'[s] = held[s]
    BY <2>2, <2>3 DEF Sessions
  <2>12. fresh' = fresh /\ series' = series /\ now' = now /\ "HOLDING" \in Phase
    BY <2>3 DEF Phase
  <2>13. fresh' \subseteq Callers /\ series' \in Callers \union {None}
    BY <2>12 DEF Sessions
  <2>14. /\ UNCHANGED authority /\ UNCHANGED products /\ now' = now
         /\ DOMAIN call' = Callers /\ \A d \in Callers \ {c} : call'[d] = call[d]
    BY <2>3, <2>4
  <2>15. Sessions'
    BY <2>3, <2>10, <2>11, <2>12, <2>13, <2>14, Moves
  <2> QED
    BY <2>14, <2>15
<1>3. CASE Begin(c) \/ InsertReceipt(c) \/ LockSeries(c)
  <2>1. PICK phase \in {"LOCKING", "INSERTING", "COLLIDED", "WRITING"} :
          /\ pc[c] \in {"PARSED", "INSERTING", "LOCKING"} /\ pc' = [pc EXCEPT ![c] = phase]
          /\ UNCHANGED <<authority, products, call, held, now>>
          /\ fresh' \in {fresh, fresh \union {c}} /\ series' \in {series, c}
    BY <1>3 DEF Begin, InsertReceipt, LockSeries, Goto, locks
  <2>2. /\ call'[c] = call[c] /\ pc'[c] = phase
        /\ DOMAIN call' = Callers /\ \A d \in Callers \ {c} : call'[d] = call[d]
    BY <2>1 DEF Sessions
  <2>3. Served(c) /\ call[c] \in [input : Inputs] /\ Normal(Asked(c))
    BY <2>1 DEF Sessions, Served, Importing
  <2>4. Normal(Asked(c))'
    BY <2>2, <2>3 DEF Normal, Asked
  <2>5. Served(c)'
    BY <2>1, <2>2, <2>3, <2>4 DEF Served, Importing
  <2>6. /\ fresh' \subseteq Callers /\ series' \in Callers \union {None} /\ phase \in Phase
        /\ held' = held /\ now' = now
    BY <2>1 DEF Sessions, Phase
  <2>7. Sessions'
    BY <2>1, <2>2, <2>5, <2>6, Moves DEF Sessions
  <2> QED
    BY <2>1, <2>7
<1>4. CASE Refer(c)
  <2>1. PICK s \in Slots : held[s] = None /\ held' = [held EXCEPT ![s] = c]
    BY <1>4, ObservationsAssumption DEF Refer, Referred, Asked, ObservationsAssumption,
       Sessions, Served, Importing
  <2>2. /\ pc[c] = "WRITING" /\ pc' = pc /\ call' = call /\ fresh' = fresh /\ series' = series
        /\ now' = now /\ UNCHANGED <<authority, products>>
    BY <1>4 DEF Refer, sessions
  <2>3. /\ held' \in [Slots -> Callers \union {None}]
        /\ \A x \in Slots : held[x] # None => held'[x] = held[x]
    BY <2>1 DEF Sessions
  <2>4. pc' = [pc EXCEPT ![c] = "WRITING"] /\ "WRITING" \in Phase
    BY <2>2 DEF Sessions, Phase
  <2>5. Served(c) /\ (Normal(Asked(c))' <=> Normal(Asked(c)))
    BY <2>2 DEF Sessions, Normal, Asked
  <2>6. Served(c)'
    BY <2>2, <2>5 DEF Served, Importing
  <2>7. Sessions'
    BY <2>2, <2>3, <2>4, <2>6, Moves DEF Sessions
  <2> QED
    BY <2>2, <2>7
<1> QED
  BY <1>1, <1>2, <1>3, <1>4

LEMMA ReleasesQuietly ==
  ASSUME Filed, Sessions, NEW c \in Callers, Release(c), UNCHANGED <<authority, now>>
  PROVE  Sessions'
<1>1. runs' = runs /\ chains' = chains /\ receipts' = receipts /\ now' = now
  BY DEF authority
<1>2. Filed'
  BY <1>1 DEF Filed, HeadOf, Normal
<1>3. Grows
  BY <1>1, Typed DEF Grows, HeadOf
<1>4. \A s : HeadOf(s)' = HeadOf(s)
  BY <1>1 DEF HeadOf
<1>5. \A d \in Callers \ {c} : pc[d] = "HOLDING" => HeadOf(Slot(d))' = HeadOf(Slot(d))
  <2>1. \A d \in Callers \ {c} : call'[d] = call[d]
    BY DEF Release, Sessions
  <2> QED
    BY <1>4, <2>1 DEF Slot, HeadOf
<1> QED
  BY <1>1, <1>2, <1>3, <1>5, Released DEF Sessions
-----------------------------------------------------------------------------
(* Steps that add a run. *)

LEMMA RunIsAdded ==
  ASSUME SeriesInv, NEW row, NEW A \in SUBSET Slots,
         Adds(row, A), Agrees(row), Rests(row, A),
         NEW c \in Callers, Release(c), UNCHANGED <<products, now>>,
         receipts' \subseteq {Receipt[i] : i \in Inputs},
         \A d \in Callers \ {c} : pc[d] = "HOLDING" => Slot(d) \in Slots \ A
  PROVE  SeriesInv'
<1>1. Filed' /\ Grows /\ \A s \in Slots \ A : chains'[s] = chains[s] /\ HeadOf(s)' = HeadOf(s)
  BY RowsGrow DEF SeriesInv
<1>2. ImportsTellOneStory' /\ CorrectionsAreEvidenced'
  BY StoryGoesOn, CorrectionsGoOn DEF SeriesInv
<1>3. Assessed' /\ SnapshotsAreAsEvaluated'
  BY <1>1, AssessmentsStay, SnapshotsStay DEF SeriesInv
<1>4. Sessions'
  <2>1. ASSUME NEW d \in Callers \ {c}, pc[d] = "HOLDING" PROVE HeadOf(Slot(d))' = HeadOf(Slot(d))
    <3>1. call'[d] = call[d]
      BY DEF Release, SeriesInv, Sessions
    <3>2. Slot(d) \in Slots \ A /\ Len(chains'[Slot(d)]) = Len(chains[Slot(d)])
      BY <1>1, <2>1
    <3> QED
      BY <3>1, <3>2 DEF HeadOf, Slot
  <2> QED
    BY <1>1, <2>1, Released DEF SeriesInv
<1> QED
  BY <1>1, <1>2, <1>3, <1>4 DEF SeriesInv

(* The bar a session holds is contradicted by evidence, so it is there. *)
LEMMA HeldBars ==
  ASSUME SeriesInv, NEW c \in Callers, pc[c] = "HOLDING"
  PROVE  LET r == call[c].run
             s == Slot(c)
         IN /\ s \in Slots /\ held[s] = c /\ Corrected(c) = s /\ r \in 1..Len(runs)
            /\ <<r, s>> \in Evidence /\ s \in DOMAIN runs[r].records
            /\ runs[r].records[s].bar = HeadOf(s)
            /\ HeadOf(s) \in Nat /\ HeadOf(s) > 0 /\ HeadOf(s) < MaxRevisions
<1> DEFINE r == call[c].run
           s == Slot(c)
<1>1. /\ s \in Slots /\ held[s] = c /\ Corrected(c) = s /\ <<r, s>> \in Evidence
      /\ runs[r].records[s].bar = HeadOf(s) /\ HeadOf(s) < MaxRevisions
  BY DEF SeriesInv, Sessions, Served, Backed, Slot, Corrected, AgainstHead
<1>2. r \in DOMAIN runs /\ s \in DOMAIN runs[r].records /\ runs[r].records[s].as = "CONFLICT"
  BY <1>1 DEF Evidence
<1>3. runs[r].records[s].bar \in 1..HeadOf(s)
  BY <1>2 DEF SeriesInv, ImportsTellOneStory, Consistent
<1>4. DOMAIN runs = 1..Len(runs) /\ HeadOf(s) \in Nat
  BY <1>1, Typed DEF SeriesInv
<1> QED
  BY <1>1, <1>2, <1>3, <1>4

LEMMA NoRecords == << >> \in Sheets /\ DOMAIN << >> = {}
<1>1. << >> \in Seq(Entry) /\ Len(<< >>) = 0
  BY EmptySeq
<1>2. << >> \in [1..0 -> Entry] /\ 1..0 = {}
  BY <1>1, LenProperties
<1> QED
  BY <1>2 DEF Sheets

LEMMA ErrorIsRecorded ==
  ASSUME SeriesInv, NEW c \in Callers, RecordError(c)
  PROVE  SeriesInv'
<1> DEFINE i == Asked(c)
<1>1. i \in Inputs
  BY DEF RecordError, SeriesInv, Sessions, Served, Importing, Asked
<1>2. PICK row : row = Run("IMPORT", i, IF pc[c] = "REJECTED" THEN "FAILED" ELSE "QUARANTINED", << >>)
  OBVIOUS
<1>3. row.kind = "IMPORT" /\ row.input = i /\ row.records = << >> /\ row \in RunRow
  BY <1>1, <1>2, NoRecords DEF Run, RunRow
<1>4. DOMAIN row.records = {}
  BY <1>3, NoRecords
<1>5. /\ runs' = Append(runs, row) /\ chains' = chains /\ Release(c) /\ UNCHANGED <<products, now>>
      /\ receipts' = receipts \union {Receipt[i]}
  BY <1>2 DEF RecordError
<1>6. Adds(row, {})
  BY <1>3, <1>4, <1>5 DEF Adds, SeriesInv, Filed
<1>7. Agrees(row) /\ Rests(row, {})
  BY <1>4 DEF Agrees, Rests
<1>8. \A d \in Callers \ {c} : pc[d] = "HOLDING" => Slot(d) \in Slots \ {}
  BY HeldBars
<1>9. receipts' \subseteq {Receipt[j] : j \in Inputs}
  BY <1>1, <1>5 DEF SeriesInv, Sessions
<1> QED
  BY <1>5, <1>6, <1>7, <1>8, <1>9, RunIsAdded

(* The run an import adds, and its bars, one for each day that had none. *)
LEMMA ImportAdds ==
  ASSUME SeriesInv, NEW c \in Callers, Write(c)
  PROVE  \E row, A : /\ A \in SUBSET Slots /\ Adds(row, A) /\ Agrees(row) /\ Rests(row, A)
                     /\ row.input = Asked(c) /\ row.records = Records(c)
                     /\ \A s \in A : HeadOf(s) = 0
<1> DEFINE i == Asked(c)
           status == IF Conflicts(c) = {} THEN "SUCCEEDED" ELSE "QUARANTINED"
<1>1. i \in Inputs /\ Normal(i) /\ DOMAIN Rows[i] \subseteq Slots
  BY ObservationsAssumption DEF Write, SeriesInv, Sessions, Served, Importing, Asked, ObservationsAssumption
<1>2. ASSUME NEW s \in Slots
      PROVE  /\ HeadOf(s) \in 0..MaxRevisions /\ (chains[s] = << >> <=> HeadOf(s) = 0)
             /\ 1 \in 0..MaxRevisions
  <2>1. chains[s] \in Seq(1..Len(runs)) /\ HeadOf(s) \in Nat /\ HeadOf(s) <= MaxRevisions
    BY Typed DEF SeriesInv
  <2>2. chains[s] = << >> <=> Len(chains[s]) = 0
    BY <2>1, EmptySeq
  <2> QED
    BY <2>1, <2>2, ObservationsAssumption DEF HeadOf, ObservationsAssumption
<1>3. PICK records : records = Records(c)
  OBVIOUS
<1>4. /\ DOMAIN records = DOMAIN Rows[i]
      /\ \A s \in DOMAIN Rows[i] : /\ records[s].as = Disposition(c, s)
                                   /\ records[s].bar = IF Disposition(c, s) = "INSERTED" THEN 1 ELSE HeadOf(s)
  BY <1>3 DEF Records
<1>5. records \in [DOMAIN Rows[i] -> Entry]
  <2>1. \A s \in DOMAIN Rows[i] : Disposition(c, s) \in Disposed
    BY DEF Disposition, Disposed
  <2> QED
    BY <1>1, <1>2, <1>3, <2>1 DEF Entry, Records
<1>6. PICK row : row = Run("IMPORT", i, status, records)
  OBVIOUS
<1>7. row.kind = "IMPORT" /\ row.input = i /\ row.records = records /\ row.status = status /\ row \in RunRow
  BY <1>1, <1>5, <1>6 DEF Run, RunRow, Sheets
<1>8. PICK A \in SUBSET Slots : A = {s \in DOMAIN Rows[i] : Disposition(c, s) = "INSERTED"}
  BY <1>1
<1>9. ASSUME NEW s \in A
      PROVE  HeadOf(s) = 0 /\ HeadOf(s) < MaxRevisions /\ records[s].bar = HeadOf(s) + 1
  <2>1. s \notin Referred(c) /\ s \in DOMAIN Rows[i] /\ Disposition(c, s) = "INSERTED"
    BY <1>8 DEF Disposition
  <2> QED
    BY <1>2, <1>4, <2>1, ObservationsAssumption DEF Referred, ObservationsAssumption
<1>10. /\ runs' = Append(runs, row) /\ chains' = Accepted(c) /\ Release(c) /\ UNCHANGED <<products, now>>
       /\ receipts' = receipts \union {Receipt[i]}
  BY <1>3, <1>6 DEF Write
<1>11. chains' = [s \in Slots |-> IF s \in A THEN Append(chains[s], Len(runs) + 1) ELSE chains[s]]
  BY <1>4, <1>3, <1>8, <1>10 DEF Accepted
<1>12. Adds(row, A)
  <2>1. A = {s \in DOMAIN row.records : row.records[s].as = "INSERTED"}
    BY <1>4, <1>7, <1>8
  <2> QED
    BY <1>1, <1>4, <1>7, <1>9, <1>10, <1>11, <2>1 DEF Adds
<1>13. Agrees(row)
  <2>1. ASSUME NEW s \in DOMAIN Rows[i], s \in Referred(c)
        PROVE  HeadOf(s) \in 1..HeadOf(s)
    BY <1>1, <1>2, <2>1 DEF Referred
  <2>2. ASSUME NEW s \in DOMAIN Rows[i], Disposition(c, s) = "DUPLICATE_IDENTICAL"
        PROVE  records[s].bar \in 1..HeadOf(s) /\ Bar(s, records[s].bar) = Rows[i][s]
    <3>1. s \in Referred(c) /\ s \notin Conflicts(c) /\ records[s].bar = HeadOf(s)
      BY <1>4, <2>2 DEF Disposition
    <3> QED
      BY <2>1, <3>1 DEF Conflicts
  <2>3. ASSUME NEW s \in DOMAIN Rows[i], Disposition(c, s) = "CONFLICT"
        PROVE  records[s].bar \in 1..HeadOf(s) /\ Bar(s, records[s].bar) # Rows[i][s]
    <3>1. s \in Conflicts(c) /\ records[s].bar = HeadOf(s)
      BY <1>4, <2>3 DEF Disposition
    <3> QED
      BY <2>1, <3>1 DEF Conflicts
  <2>4. \A s \in DOMAIN Rows[i] : Disposition(c, s) \in Accepting <=> status = "SUCCEEDED"
    BY DEF Disposition, Accepting
  <2> QED
    BY <1>4, <1>7, <2>2, <2>3, <2>4 DEF Agrees
<1>14. Rests(row, A)
  BY <1>7, <1>9 DEF Rests
<1> QED
  BY <1>3, <1>7, <1>9, <1>12, <1>13, <1>14

LEMMA ImportIsWritten ==
  ASSUME SeriesInv, NEW c \in Callers, Write(c)
  PROVE  SeriesInv'
<1>1. PICK row, A : /\ A \in SUBSET Slots /\ Adds(row, A) /\ Agrees(row) /\ Rests(row, A)
                    /\ \A s \in A : HeadOf(s) = 0
  BY ImportAdds
<1>2. Release(c) /\ UNCHANGED <<products, now>> /\ receipts' = receipts \union {Receipt[Asked(c)]}
  BY DEF Write
<1>3. ASSUME NEW d \in Callers \ {c}, pc[d] = "HOLDING" PROVE Slot(d) \in Slots \ A
  <2>1. Slot(d) \in Slots /\ HeadOf(Slot(d)) > 0
    BY <1>3, HeldBars
  <2> QED
    BY <1>1, <2>1
<1>4. Asked(c) \in Inputs
  BY DEF Write, SeriesInv, Sessions, Served, Importing, Asked
<1>5. receipts' \subseteq {Receipt[j] : j \in Inputs}
  BY <1>2, <1>4 DEF SeriesInv, Sessions
<1> QED
  BY <1>1, <1>2, <1>3, <1>5, RunIsAdded

(* The run a correction adds, and its one bar. *)
LEMMA CorrectionAdds ==
  ASSUME SeriesInv, NEW c \in Callers, Correct(c)
  PROVE  \E row : LET s == Slot(c) IN
           /\ {s} \in SUBSET Slots /\ Adds(row, {s}) /\ Agrees(row) /\ Rests(row, {s})
           /\ row.input = runs[call[c].run].input
           /\ DOMAIN row.records = {s} /\ row.records[s].as = "INSERTED"
<1>1. PICK r, s : r = call[c].run /\ s = Slot(c)
  OBVIOUS
<1>2. /\ s \in Slots /\ held[s] = c /\ Corrected(c) = s /\ r \in 1..Len(runs)
      /\ <<r, s>> \in Evidence /\ s \in DOMAIN runs[r].records
      /\ runs[r].records[s].bar = HeadOf(s)
      /\ HeadOf(s) \in Nat /\ HeadOf(s) > 0 /\ HeadOf(s) < MaxRevisions
  BY <1>1, HeldBars DEF Correct
<1>3. /\ runs[r].input \in Inputs /\ s \in DOMAIN Rows[runs[r].input] /\ Normal(runs[r].input)
  BY <1>2, Typed DEF SeriesInv, Filed
<1>4. PICK records : records = [x \in {s} |-> [as |-> "INSERTED", bar |-> HeadOf(x) + 1]]
  OBVIOUS
<1>5. PICK row : row = Run("SUPERSESSION", runs[r].input, "SUCCEEDED", records)
  OBVIOUS
<1>6. /\ DOMAIN records = {s} /\ records[s].as = "INSERTED" /\ records[s].bar = HeadOf(s) + 1
      /\ records \in [{s} -> Entry]
  <2>1. HeadOf(s) + 1 \in 0..MaxRevisions /\ "INSERTED" \in Disposed
    BY <1>2, ObservationsAssumption DEF ObservationsAssumption, Disposed
  <2> QED
    BY <1>4, <2>1 DEF Entry
<1>7. row.kind = "SUPERSESSION" /\ row.input = runs[r].input /\ row.records = records
      /\ row.status = "SUCCEEDED" /\ row \in RunRow
  <2>1. {s} \in SUBSET Slots
    BY <1>2
  <2> QED
    BY <1>3, <1>5, <1>6, <2>1 DEF Run, RunRow, Sheets
<1>8. /\ runs' = Append(runs, row) /\ chains' = [chains EXCEPT ![s] = Append(@, Len(runs) + 1)]
      /\ Release(c) /\ UNCHANGED <<receipts, products, now>>
  BY <1>1, <1>2, <1>4, <1>5 DEF Correct
<1>9. chains' = [x \in Slots |-> IF x \in {s} THEN Append(chains[x], Len(runs) + 1) ELSE chains[x]]
  BY <1>8 DEF SeriesInv, Filed
<1>10. Adds(row, {s})
  BY <1>2, <1>3, <1>6, <1>7, <1>8, <1>9 DEF Adds
<1>11. Agrees(row)
  BY <1>6, <1>7 DEF Agrees, Accepting
<1>12. Rests(row, {s})
  <2>1. Bar(s, HeadOf(s)).at < Rows[row.input][s].at
    BY <1>1, <1>2, <1>7 DEF Correct, Timely, Offer, RowOf
  <2>2. <<r, s>>[1] = r /\ <<r, s>>[2] = s /\ RowOf(r, s) = Rows[row.input][s]
    BY <1>7 DEF RowOf
  <2> QED
    BY <1>2, <1>7, <2>1, <2>2 DEF Rests
<1> QED
  BY <1>1, <1>2, <1>6, <1>7, <1>10, <1>11, <1>12

LEMMA CorrectionIsWritten ==
  ASSUME SeriesInv, NEW c \in Callers, Correct(c)
  PROVE  SeriesInv'
<1>1. PICK s, row : /\ s = Slot(c) /\ {s} \in SUBSET Slots
                    /\ Adds(row, {s}) /\ Agrees(row) /\ Rests(row, {s})
  BY CorrectionAdds
<1>2. Release(c) /\ UNCHANGED <<receipts, products, now>>
  BY DEF Correct
<1>3. \A d \in Callers \ {c} : pc[d] = "HOLDING" => Slot(d) \in Slots \ {s}
  <2>1. held[s] = c /\ \A d \in Callers : pc[d] = "HOLDING" => Slot(d) \in Slots /\ held[Slot(d)] = d
    BY <1>1, HeldBars DEF Correct
  <2> QED
    BY <2>1
<1>4. receipts' \subseteq {Receipt[j] : j \in Inputs}
  BY <1>2 DEF SeriesInv, Sessions
<1> QED
  BY <1>1, <1>2, <1>3, <1>4, RunIsAdded
-----------------------------------------------------------------------------
(* Every step. *)

LEMMA SeriesOpens == Init => SeriesInv
<1> SUFFICES ASSUME Init PROVE SeriesInv
  OBVIOUS
<1>1. /\ << >> \in Seq(RunRow) /\ Len(<< >>) = 0 /\ << >> \in Seq(1..0) /\ DOMAIN << >> = {}
  BY EmptySeq, NoRecords
<1>2. Filed
  BY <1>1, ObservationsAssumption DEF Init, Filed, HeadOf, ObservationsAssumption
<1>3. ImportsTellOneStory /\ CorrectionsAreEvidenced
  BY <1>1 DEF Init, ImportsTellOneStory, CorrectionsAreEvidenced
<1>4. Assessed /\ SnapshotsAreAsEvaluated
  BY DEF Init, Assessed, SnapshotsAreAsEvaluated
<1>5. Sessions
  BY ObservationsAssumption DEF Init, Sessions, Served, Importing, Phase, Time, ObservationsAssumption
<1> QED
  BY <1>2, <1>3, <1>4, <1>5 DEF SeriesInv

LEMMA SameStories ==
  ASSUME SeriesInv, runs' = runs, chains' = chains
  PROVE  ImportsTellOneStory' /\ CorrectionsAreEvidenced'
<1>1. ASSUME NEW r \in DOMAIN runs PROVE Consistent(r)'
  <2>1. Consistent(r)
    BY DEF SeriesInv, ImportsTellOneStory
  <2>2. Inserted(r)' = Inserted(r) /\ Claimed(r)' = Claimed(r)
    BY DEF Inserted, Claimed, HeadOf
  <2>3. ASSUME NEW s, NEW n
        PROVE  HeadOf(s)' = HeadOf(s) /\ Bar(s, n)' = Bar(s, n) /\ RowOf(r, s)' = RowOf(r, s)
    BY DEF HeadOf, Bar, RowOf
  <2>4. ASSUME NEW s
        PROVE  Bar(s, runs[r].records[s].bar)' = Bar(s, runs[r].records[s].bar)
    BY DEF Bar, RowOf
  <2>5. \A s \in DOMAIN runs[r].records :
           (LET record == runs[r].records[s]
                same   == record.bar \in 1..HeadOf(s) /\ Bar(s, record.bar) = RowOf(r, s)
            IN  /\ record.as \in Accepting => same
                /\ record.as = "CONFLICT" => record.bar \in 1..HeadOf(s) /\ ~same
                /\ record.as \in Accepting <=> runs[r].status = "SUCCEEDED")'
    BY <2>1, <2>3, <2>4 DEF Consistent
  <2> QED
    BY <2>2, <2>5, <2>1 DEF Consistent
<1>2. ASSUME NEW s \in Slots, NEW n \in DOMAIN chains[s] PROVE Grounded(s, n)'
  <2>1. Grounded(s, n)
    BY DEF SeriesInv, CorrectionsAreEvidenced, Grounded
  <2>2. \A m : Bar(s, m)' = Bar(s, m)
    BY DEF Bar, RowOf
  <2>3. Evidence' = Evidence
    BY DEF Evidence
  <2>4. \A e \in Evidence : RowOf(e[1], s)' = RowOf(e[1], s)
    BY DEF RowOf
  <2>5. Bar(s, n - 1)' = Bar(s, n - 1) /\ Bar(s, n)' = Bar(s, n)
    BY <2>2
  <2> QED
    BY <2>1, <2>3, <2>4, <2>5 DEF Grounded
<1> QED
  BY <1>1, <1>2 DEF ImportsTellOneStory, CorrectionsAreEvidenced, Grounded

(* A step that writes no table keeps what is said of tables. *)
LEMMA TablesStay ==
  ASSUME SeriesInv, UNCHANGED <<authority, products>>
  PROVE  /\ Filed' /\ ImportsTellOneStory' /\ CorrectionsAreEvidenced'
         /\ Assessed' /\ SnapshotsAreAsEvaluated'
<1>1. runs' = runs /\ chains' = chains
  BY DEF authority
<1>2. Filed'
  BY <1>1 DEF SeriesInv, Filed, HeadOf, Normal
<1>3. Grows
  BY <1>1, Typed DEF SeriesInv, Grows, HeadOf
<1>4. Assessed' /\ SnapshotsAreAsEvaluated'
  BY <1>2, <1>3, AssessmentsStay, SnapshotsStay DEF SeriesInv
<1> QED
  BY <1>1, <1>2, <1>4, SameStories

(* A step that leaves the sessions and what they look at alone. *)
LEMMA SessionsStay ==
  ASSUME SeriesInv, UNCHANGED <<authority, sessions, locks>>, now' \in Time
  PROVE  Filed' /\ ImportsTellOneStory' /\ CorrectionsAreEvidenced' /\ Sessions'
<1>1. /\ runs' = runs /\ chains' = chains /\ receipts' = receipts
      /\ pc' = pc /\ call' = call /\ fresh' = fresh /\ series' = series /\ held' = held
  BY DEF authority, sessions, locks
<1>2. Filed'
  BY <1>1 DEF SeriesInv, Filed, HeadOf, Normal
<1>3. Grows
  BY <1>1, Typed DEF SeriesInv, Grows, HeadOf
<1>4. \A c \in Callers : Served(c)'
  <2>1. ASSUME NEW c \in Callers PROVE Served(c)'
    <3>1. Served(c) /\ held'[Slot(c)] = held[Slot(c)] /\ HeadOf(Slot(c))' = HeadOf(Slot(c))
      BY <1>1 DEF SeriesInv, Sessions, HeadOf, Slot
    <3> QED
      BY <1>1, <1>2, <1>3, <3>1, StaysServed DEF SeriesInv
  <2> QED
    BY <2>1
<1>5. Sessions'
  BY <1>1, <1>4 DEF SeriesInv, Sessions
<1> QED
  BY <1>1, <1>2, <1>5, SameStories

LEMMA SeriesStep == SeriesInv /\ [Next]_vars => SeriesInv'
<1> SUFFICES ASSUME SeriesInv, [Next]_vars PROVE SeriesInv'
  OBVIOUS
<1>1. CASE Tick \/ UNCHANGED vars
  <2>1. /\ UNCHANGED <<authority, products, sessions, locks>> /\ now' \in {now, now + 1}
        /\ (now' = now \/ now < MaxClock)
    BY <1>1 DEF Tick, vars, sessions
  <2>2. now' \in Time
    BY <2>1, ObservationsAssumption DEF SeriesInv, Sessions, Time, ObservationsAssumption
  <2> QED
    BY <2>1, <2>2, SessionsStay, TablesStay DEF SeriesInv
<1>2. CASE Assess
  <2>1. UNCHANGED <<authority, sessions, locks, now>>
    BY <1>2 DEF Assess, EvaluateImport, EvaluateRange, Publish
  <2>2. Assessed' /\ SnapshotsAreAsEvaluated'
    BY <1>2, ImportEvaluated, RangeEvaluated, PublicationHolds DEF Assess
  <2>3. now' \in Time
    BY <2>1 DEF SeriesInv, Sessions
  <2> QED
    BY <2>1, <2>2, <2>3, SessionsStay DEF SeriesInv
<1>3. CASE \E c \in Callers : \/ \E i \in Inputs : Ask(c, i)
                              \/ \E e \in Evidence : Hold(c, e)
                              \/ Begin(c) \/ InsertReceipt(c) \/ LockSeries(c) \/ Refer(c)
  BY <1>3, QuietSteps, TablesStay DEF SeriesInv
<1>4. CASE \/ BreakDeadlock
           \/ \E c \in Callers : Abort(c) \/ Replay(c) \/ Refuse(c)
  <2>1. PICK c \in Callers : Release(c)
    <3>1. CASE BreakDeadlock
      <4>1. PICK i \in Callers, s \in Slots :
              held[s] # None /\ (Release(held[s]) \/ Release(i))
        <5>1. \A i \in Callers : pc[i] = "WRITING" => Referred(i) \subseteq Slots
          BY ObservationsAssumption DEF SeriesInv, Sessions, Served, Importing, Referred, Asked, ObservationsAssumption
        <5> QED
          BY <3>1, <5>1 DEF BreakDeadlock
      <4>2. held[s] \in Callers
        BY <4>1 DEF SeriesInv, Sessions
      <4> QED
        BY <4>1, <4>2
    <3>2. CASE \E c \in Callers : Abort(c) \/ Replay(c) \/ Refuse(c)
      BY <3>2 DEF Abort, Replay, Refuse
    <3> QED
      BY <1>4, <3>1, <3>2
  <2>2. UNCHANGED <<authority, products, now>>
    BY <1>4 DEF BreakDeadlock, Abort, Replay, Refuse
  <2>3. Sessions'
    BY <2>1, <2>2, ReleasesQuietly DEF SeriesInv
  <2> QED
    BY <2>2, <2>3, TablesStay DEF SeriesInv
<1>5. CASE \E c \in Callers : Write(c) \/ RecordError(c) \/ Correct(c)
  BY <1>5, ImportIsWritten, ErrorIsRecorded, CorrectionIsWritten
<1> QED
  BY <1>1, <1>2, <1>3, <1>4, <1>5 DEF Next, Call, Step

(* The tables, the sessions and their locks fit together, for any run of the
   program: the invariant the properties below are read off. *)
THEOREM SeriesInvariant == Spec => []SeriesInv
<1> QED
  BY SeriesOpens, SeriesStep, PTL DEF Spec

-----------------------------------------------------------------------------
(* The properties. *)

LEMMA TypesHold == SeriesInv => TypeOK
<1> SUFFICES ASSUME SeriesInv PROVE TypeOK
  OBVIOUS
<1>1. \A r \in DOMAIN runs :
        /\ runs[r].kind \in {"IMPORT", "SUPERSESSION"} /\ runs[r].input \in Inputs
        /\ runs[r].status \in {"SUCCEEDED", "FAILED", "QUARANTINED"}
        /\ \A s \in DOMAIN runs[r].records : /\ s \in DOMAIN Rows[runs[r].input]
                                             /\ runs[r].records[s].as \in Disposed
                                             /\ runs[r].records[s].bar \in 0..MaxRevisions
  BY Typed DEF SeriesInv
<1>2. \A s \in Slots : chains[s] \in Seq(DOMAIN runs) /\ HeadOf(s) <= MaxRevisions
  BY Typed DEF SeriesInv
<1>3. \A v \in verdicts : v.run \in DOMAIN runs /\ v.outcome \in {"PASS", "FAIL", "UNKNOWN"}
  BY Typed DEF SeriesInv, Assessed
<1>4. \A k \in Keys :
        /\ evaluations[k] # None => evaluations[k].days \subseteq Slots /\ evaluations[k].asOf \in Time
        /\ snapshots[k] # None => snapshots[k].members \subseteq Slots \X (1..MaxRevisions)
  BY DEF SeriesInv, Assessed, Evaluated, Published
<1>5. ASSUME NEW c \in Callers PROVE pc[c] = "IDLE" <=> call[c] = None
  <2>1. Served(c) /\ pc[c] \in Phase
    BY DEF SeriesInv, Sessions
  <2>2. pc[c] # "IDLE" => call[c] \in [input : Inputs] \/ call[c] \in [run : Nat, slot : Slots]
    BY <2>1 DEF Served, Backed, Importing, Phase
  <2> QED
    BY <2>1, <2>2, ObservationsAssumption DEF Served, ObservationsAssumption
<1> QED
  BY <1>1, <1>2, <1>3, <1>4, <1>5 DEF SeriesInv, Sessions, TypeOK

(* Types, and each run, its records and its bars tell one story, whatever imports and
   corrections ran between its look-up, its lock and its commit; a revision
   rests on a row that contradicted exactly the bar it supersedes and is later
   than it (ingestion/service.py 499-655, observations/service.py 55-300). *)
THEOREM EvidenceAlwaysSound == Spec => []EvidenceIsSound
<1>1. SeriesInv => EvidenceIsSound
  BY TypesHold DEF EvidenceIsSound, SeriesInv
<1> QED
  BY <1>1, SeriesInvariant, PTL

(* A snapshot always publishes what its evaluation looked at, bar for bar, with
   complete bars of successful runs (snapshots/service.py 321-667). *)
THEOREM SnapshotsHold == Spec => []SnapshotsAreAsEvaluated
<1>1. SeriesInv => SnapshotsAreAsEvaluated
  BY DEF SeriesInv
<1> QED
  BY <1>1, SeriesInvariant, PTL
-----------------------------------------------------------------------------
(* The tables, as BarSeries has them. *)

(* No evaluation looks ahead. *)
Past       == \A k \in Keys : evaluations[k] # None => evaluations[k].asOf <= now
HistoryInv == SeriesInv /\ Past

Values == {Rows[i][s] : i \in Inputs, s \in Slots}

LEMMA RowsAreValues ==
  ASSUME Filed, NEW s \in Slots, NEW n \in 1..HeadOf(s)
  PROVE  Bar(s, n) \in Values
<1>1. chains[s][n] \in 1..Len(runs)
  BY Typed
<1> QED
  BY <1>1, Typed DEF Bar, RowOf, Values

LEMMA Histories ==
  ASSUME Filed, NEW s \in Slots
  PROVE  /\ History(s) \in Seq(Values) /\ Len(History(s)) = HeadOf(s) /\ HeadOf(s) \in Nat
         /\ \A n \in 1..HeadOf(s) : History(s)[n] = Bar(s, n)
         /\ (History(s) = << >> <=> HeadOf(s) = 0) /\ (chains[s] = << >> <=> HeadOf(s) = 0)
<1>1. HeadOf(s) \in Nat /\ chains[s] \in Seq(1..Len(runs))
  BY Typed
<1>2. History(s) \in [1..HeadOf(s) -> Values]
  BY RowsAreValues DEF History
<1>3. History(s) \in Seq(Values) /\ Len(History(s)) = HeadOf(s)
  BY <1>1, <1>2
<1> QED
  BY <1>1, <1>3, EmptySeq DEF History, HeadOf

(* A run adds its row to the days of its bars, and its refused rows. *)
LEMMA HistoryGrows ==
  ASSUME Filed, NEW row, NEW A \in SUBSET Slots, Adds(row, A), NEW s \in Slots
  PROVE  History(s)' = IF s \in A THEN Append(History(s), Rows[row.input][s]) ELSE History(s)
<1>1. /\ Filed' /\ Grows /\ runs'[Len(runs) + 1] = row
      /\ s \in A => HeadOf(s)' = HeadOf(s) + 1 /\ chains'[s][HeadOf(s) + 1] = Len(runs) + 1
      /\ s \notin A => HeadOf(s)' = HeadOf(s)
  BY RowsGrow
<1>2. \A n \in 1..HeadOf(s) : Bar(s, n)' = Bar(s, n)
  BY <1>1, SameBars
<1>3. /\ History(s) \in Seq(Values) /\ Len(History(s)) = HeadOf(s) /\ HeadOf(s) \in Nat
      /\ \A n \in 1..HeadOf(s) : History(s)[n] = Bar(s, n)
  BY Histories
<1>4. /\ History(s)' \in Seq(Values) /\ Len(History(s)') = HeadOf(s)'
      /\ \A n \in 1..HeadOf(s)' : History(s)'[n] = Bar(s, n)'
  <2>1. /\ Len(runs)' \in Nat /\ HeadOf(s)' \in Nat
        /\ \A n \in 1..HeadOf(s)' : chains'[s][n] \in 1..Len(runs)'
    <3>1. chains'[s] \in Seq(1..Len(runs)') /\ runs' \in Seq(RunRow)
      BY <1>1 DEF Filed
    <3> QED
      BY <3>1, LenProperties, ElementOfSeq DEF HeadOf
  <2>2. \A r \in 1..Len(runs)' : runs'[r].input \in Inputs
    <3>1. runs' \in Seq(RunRow)
      BY <1>1 DEF Filed
    <3>2. \A r \in 1..Len(runs') : runs'[r] \in RunRow
      BY <3>1, ElementOfSeq
    <3> QED
      BY <3>2 DEF RunRow
  <2>3. History(s)' \in [1..HeadOf(s)' -> Values]
    BY <2>1, <2>2 DEF History, Bar, RowOf, Values
  <2>4. History(s)' \in Seq(Values) /\ Len(History(s)') = HeadOf(s)'
    BY <2>1, <2>3
  <2> QED
    BY <2>4 DEF History
<1>5. CASE s \in A
  <2>1. \A n : n = HeadOf(s) + 1 => Bar(s, n)' = Rows[row.input][s]
    BY <1>1, <1>5 DEF Bar, RowOf
  <2>2. Rows[row.input][s] \in Values
    BY DEF Adds, RunRow, Values
  <2>3. /\ Append(History(s), Rows[row.input][s]) \in Seq(Values)
        /\ Len(Append(History(s), Rows[row.input][s])) = HeadOf(s) + 1
        /\ \A n \in 1..HeadOf(s) : Append(History(s), Rows[row.input][s])[n] = Bar(s, n)
        /\ Append(History(s), Rows[row.input][s])[HeadOf(s) + 1] = Rows[row.input][s]
    BY <1>3, <2>2, AppendProperties
  <2>4. \A n \in 1..(HeadOf(s) + 1) : n \in 1..HeadOf(s) \/ n = HeadOf(s) + 1
    BY <1>3
  <2>5. \A n \in 1..Len(History(s)') : History(s)'[n] = Append(History(s), Rows[row.input][s])[n]
    BY <1>1, <1>2, <1>4, <1>5, <2>1, <2>3, <2>4
  <2>6. History(s)' = Append(History(s), Rows[row.input][s])
    BY <1>1, <1>4, <1>5, <2>3, <2>5, SeqEqual
  <2> QED
    BY <1>5, <2>6
<1>6. CASE s \notin A
  <2>1. \A n \in 1..Len(History(s)') : History(s)'[n] = History(s)[n]
    BY <1>1, <1>2, <1>3, <1>4, <1>6
  <2>2. History(s)' = History(s)
    BY <1>1, <1>3, <1>4, <1>6, <2>1, SeqEqual
  <2> QED
    BY <1>6, <2>2
<1> QED
  BY <1>5, <1>6

Turned(row) == {[day |-> s, revision |-> row.records[s].bar, row |-> Rows[row.input][s]] :
                  s \in {x \in DOMAIN row.records : row.records[x].as = "CONFLICT"}}

LEMMA RefusedGrows ==
  ASSUME Filed, NEW row, NEW A \in SUBSET Slots, Adds(row, A)
  PROVE  Refused' = Refused \union Turned(row)
<1> DEFINE N == Len(runs) + 1
           entry(e) == [day |-> e[2], revision |-> runs[e[1]].records[e[2]].bar, row |-> RowOf(e[1], e[2])]
           next(e) == [day |-> e[2], revision |-> runs'[e[1]].records[e[2]].bar, row |-> Rows[runs'[e[1]].input][e[2]]]
<1>1. /\ Filed' /\ Grows /\ Len(runs)' = N /\ runs'[N] = row
  BY RowsGrow
<1>2. /\ DOMAIN runs = 1..Len(runs) /\ DOMAIN runs' = 1..N /\ Len(runs) \in Nat
      /\ \A r \in 1..Len(runs) : runs'[r] = runs[r]
  BY <1>1, Typed, LenProperties DEF Filed, Grows
<1>3. DOMAIN row.records \subseteq Slots
  BY ObservationsAssumption DEF Adds, RunRow, ObservationsAssumption
<1>4. Evidence' = Evidence \union {<<N, s>> : s \in {x \in DOMAIN row.records : row.records[x].as = "CONFLICT"}}
  <2>1. ASSUME NEW e \in Evidence'
        PROVE  e \in Evidence \/ \E s \in DOMAIN row.records : row.records[s].as = "CONFLICT" /\ e = <<N, s>>
    <3>1. /\ e \in (1..N) \X Slots /\ e[2] \in DOMAIN runs'[e[1]].records
          /\ runs'[e[1]].records[e[2]].as = "CONFLICT"
      BY <1>2 DEF Evidence
    <3>2. CASE e[1] \in 1..Len(runs)
      BY <1>2, <3>1, <3>2 DEF Evidence
    <3>3. CASE e[1] = N
      BY <1>1, <3>1, <3>3
    <3> QED
      BY <1>2, <3>1, <3>2, <3>3
  <2>2. ASSUME NEW s \in DOMAIN row.records, row.records[s].as = "CONFLICT" PROVE <<N, s>> \in Evidence'
    BY <1>1, <1>2, <1>3, <2>2 DEF Evidence
  <2>3. Evidence \subseteq Evidence'
    BY <1>1, EvidenceStays
  <2> QED
    BY <2>1, <2>2, <2>3
<1>5. Refused = {entry(e) : e \in Evidence} /\ Refused' = {next(e) : e \in Evidence'}
  BY DEF Refused, RowOf
<1>6. \A e \in Evidence : next(e) = entry(e)
  BY <1>2 DEF Evidence, RowOf
<1>7. \A s : next(<<N, s>>) = [day |-> s, revision |-> row.records[s].bar, row |-> Rows[row.input][s]]
  BY <1>1
<1> HIDE DEF next, entry
<1>8. ASSUME NEW x \in Refused' PROVE x \in Refused \union Turned(row)
  <2>1. PICK e \in Evidence' : x = next(e)
    BY <1>5
  <2>2. CASE e \in Evidence
    BY <1>5, <1>6, <2>1, <2>2
  <2>3. CASE e \notin Evidence
    <3>1. PICK s \in DOMAIN row.records : row.records[s].as = "CONFLICT" /\ e = <<N, s>>
      BY <1>4, <2>3
    <3> QED
      BY <1>7, <2>1, <3>1 DEF Turned
  <2> QED
    BY <2>2, <2>3
<1>9. Refused \subseteq Refused'
  BY <1>4, <1>5, <1>6
<1>10. ASSUME NEW s \in DOMAIN row.records, row.records[s].as = "CONFLICT" PROVE next(<<N, s>>) \in Refused'
  BY <1>4, <1>5, <1>10
<1>11. Turned(row) \subseteq Refused'
  BY <1>7, <1>10 DEF Turned
<1> QED
  BY <1>8, <1>9, <1>11

(* What a snapshot holds stays what it is: its bars and its evaluation do. *)
LEMMA MembersAre ==
  ASSUME SeriesInv, NEW k \in Keys, snapshots[k] # None, NEW s \in snapshots[k].days
  PROVE  /\ s \in Slots /\ MemberOf(snapshots[k], s) \in 1..HeadOf(s)
         /\ <<s, MemberOf(snapshots[k], s)>> \in snapshots[k].members
<1> DEFINE p == snapshots[k]
<1>2. AsEvaluated(p) /\ Published(p)
  BY DEF SeriesInv, SnapshotsAreAsEvaluated, AsEvaluated, Assessed
<1>3. PICK m \in p.members : m[1] = s
  BY <1>2 DEF AsEvaluated
<1>4. m = <<s, m[2]>> /\ s \in Slots /\ m[2] \in 1..MaxRevisions
  BY <1>2, <1>3 DEF Published
<1>5. MemberOf(p, s) \in 1..MaxRevisions /\ <<s, MemberOf(p, s)>> \in p.members
  BY <1>3, <1>4 DEF MemberOf
<1>6. MemberOf(p, s) <= HeadOf(s)
  BY <1>2, <1>5 DEF Published
<1> QED
  BY <1>4, <1>5, <1>6, Typed, ObservationsAssumption DEF SeriesInv, ObservationsAssumption

LEMMA HoldingsStay ==
  ASSUME SeriesInv, Filed', Grows, NEW k \in Keys, snapshots'[k] = snapshots[k],
         snapshots[k] # None =>
           evaluations'[snapshots[k].evaluation] = evaluations[snapshots[k].evaluation]
  PROVE  Holdings(k)' = Holdings(k)
<1>1. CASE snapshots[k] = None
  BY <1>1 DEF Holdings
<1>2. CASE snapshots[k] # None
  <2>1. PICK p : p = snapshots[k]
    OBVIOUS
  <2>2. \A s \in p.days : Bar(s, MemberOf(p, s))' = Bar(s, MemberOf(p, s))
    <3>1. ASSUME NEW s \in p.days, NEW n, n = MemberOf(p, s) PROVE Bar(s, n)' = Bar(s, n)
      BY <1>2, <2>1, <3>1, MembersAre, SameBars DEF SeriesInv
    <3>2. \A s : MemberOf(p, s)' = MemberOf(p, s)
      BY DEF MemberOf
    <3> QED
      BY <3>1, <3>2 DEF Bar, RowOf, MemberOf
  <2>3. Contents(p)' = Contents(p)
    BY <1>2, <2>1, <2>2 DEF Contents
  <2> QED
    BY <1>2, <2>1, <2>3 DEF Holdings, Contents, Bar, RowOf
<1> QED
  BY <1>1, <1>2

Shelves == [k \in Keys |-> Holdings(k)]
Pasts   == [s \in Slots |-> History(s)]

(* A run leaves what is published alone. *)
LEMMA RunHoldsNothing ==
  ASSUME SeriesInv, Filed', Grows, UNCHANGED <<products, now>>
  PROVE  Shelves' = Shelves /\ now' = now
<1>1. evaluations' = evaluations /\ snapshots' = snapshots
  BY DEF products
<1> QED
  BY <1>1, HoldingsStay DEF Shelves

LEMMA ErrorIsNoFile ==
  ASSUME SeriesInv, NEW c \in Callers, RecordError(c)
  PROVE  UNCHANGED (bars!vars)
<1>1. PICK row : /\ Adds(row, {}) /\ DOMAIN row.records = {}
  <2> DEFINE i == Asked(c)
  <2>1. i \in Inputs
    BY DEF RecordError, SeriesInv, Sessions, Served, Importing, Asked
  <2>2. PICK row : row = Run("IMPORT", i, IF pc[c] = "REJECTED" THEN "FAILED" ELSE "QUARANTINED", << >>)
    OBVIOUS
  <2>3. row.input = i /\ row.records = << >> /\ row \in RunRow
    BY <2>1, <2>2, NoRecords DEF Run, RunRow
  <2>4. DOMAIN row.records = {}
    BY <2>3, NoRecords
  <2>5. runs' = Append(runs, row) /\ chains' = chains
    BY <2>2 DEF RecordError
  <2> QED
    BY <2>3, <2>4, <2>5 DEF Adds, SeriesInv, Filed
<1>2. Filed' /\ Grows
  BY <1>1, RowsGrow DEF SeriesInv
<1>3. \A s \in Slots : History(s)' = History(s)
  BY <1>1, HistoryGrows DEF SeriesInv
<1>4. Refused' = Refused
  <2>1. Refused' = Refused \union Turned(row)
    BY <1>1, RefusedGrows DEF SeriesInv
  <2> QED
    BY <1>1, <2>1 DEF Turned
<1>5. Shelves' = Shelves /\ now' = now
  BY <1>2, RunHoldsNothing DEF RecordError
<1> QED
  BY <1>3, <1>4, <1>5 DEF bars!vars, Shelves

(* The days an import finds and contradicts. *)
LEMMA ImportFinds ==
  ASSUME SeriesInv, NEW c \in Callers, Write(c)
  PROVE  /\ Asked(c) \in Inputs /\ DOMAIN Rows[Asked(c)] \subseteq Slots
         /\ bars!Complete(Rows[Asked(c)])
         /\ bars!Contradicted(Rows[Asked(c)]) = Conflicts(c)
<1> DEFINE i == Asked(c)
<1>1. i \in Inputs /\ Normal(i) /\ DOMAIN Rows[i] \subseteq Slots
  BY ObservationsAssumption DEF Write, SeriesInv, Sessions, Served, Importing, Asked, ObservationsAssumption
<1>2. bars!Complete(Rows[i])
  BY <1>1 DEF Normal, bars!Complete
<1>3. ASSUME NEW s \in DOMAIN Rows[i]
      PROVE  s \in bars!Contradicted(Rows[i]) <=> s \in Conflicts(c)
  <2>1. /\ History(s) = << >> <=> chains[s] = << >>
        /\ chains[s] # << >> => Pasts[s][Len(Pasts[s])] = Bar(s, HeadOf(s))
    BY <1>1, Histories DEF SeriesInv, Pasts
  <2> QED
    BY <1>1, <2>1 DEF bars!Contradicted, bars!Current, Conflicts, Referred, Pasts
<1>4. bars!Contradicted(Rows[i]) \subseteq DOMAIN Rows[i] /\ Conflicts(c) \subseteq DOMAIN Rows[i]
  BY DEF bars!Contradicted, Conflicts, Referred
<1> QED
  BY <1>1, <1>2, <1>3, <1>4

LEMMA ImportTakes ==
  ASSUME SeriesInv, NEW c \in Callers, Write(c)
  PROVE  bars!Next
<1> DEFINE i == Asked(c)
           file == Rows[i]
<1>1. PICK row, A : /\ A \in SUBSET Slots /\ Adds(row, A) /\ row.input = i /\ row.records = Records(c)
  BY ImportAdds
<1>2. /\ i \in Inputs /\ DOMAIN file \subseteq Slots /\ bars!Complete(file)
      /\ bars!Contradicted(file) = Conflicts(c)
  BY ImportFinds
<1>3. /\ DOMAIN row.records = DOMAIN file
      /\ \A s \in DOMAIN file :
           /\ row.records[s].as = Disposition(c, s)
           /\ row.records[s].bar = IF Disposition(c, s) = "INSERTED" THEN 1 ELSE HeadOf(s)
      /\ A = {s \in DOMAIN file : Disposition(c, s) = "INSERTED"}
  BY <1>1 DEF Records, Adds
<1>4. Shelves' = Shelves /\ now' = now
  <2>1. Filed' /\ Grows
    BY <1>1, RowsGrow DEF SeriesInv
  <2> QED
    BY <2>1, RunHoldsNothing DEF Write
<1>5. /\ \A s \in Slots : History(s)' = IF s \in A THEN Append(History(s), file[s]) ELSE History(s)
      /\ Refused' = Refused \union Turned(row)
  BY <1>1, HistoryGrows, RefusedGrows DEF SeriesInv
<1>6. CASE Conflicts(c) = {}
  <2>1. \A s \in DOMAIN file : s \in A <=> History(s) = << >>
    <3>1. \A s \in DOMAIN file : s \in A <=> chains[s] = << >>
      BY <1>3, <1>6 DEF Disposition, Referred
    <3> QED
      BY <1>2, <3>1, Histories DEF SeriesInv
  <2>2. Turned(row) = {}
    BY <1>3, <1>6 DEF Turned, Disposition
  <2>3. \A s \in Slots : History(s)' = IF s \in DOMAIN file /\ History(s) = << >> THEN <<file[s]>> ELSE History(s)
    <3>1. \A x : Append(<< >>, x) = <<x>>
      OBVIOUS
    <3>2. \A s \in A : Append(History(s), file[s]) = <<file[s]>>
      BY <1>3, <2>1, <3>1
    <3> QED
      BY <1>3, <1>5, <2>1, <3>2
  <2>4. bars!Take(file)
    BY <1>2, <1>4, <1>5, <1>6, <2>2, <2>3 DEF bars!Take, Shelves, Pasts
  <2> QED
    BY <1>2, <2>4 DEF bars!Next
<1>7. CASE Conflicts(c) # {}
  <2>1. A = {}
    BY <1>3, <1>7 DEF Disposition
  <2>2. \A s \in DOMAIN file : row.records[s].as = "CONFLICT" <=> s \in Conflicts(c)
    BY <1>3, <1>7 DEF Disposition
  <2>3. \A s \in Conflicts(c) : row.records[s].bar = Len(Pasts[s]) /\ s \in DOMAIN file
    <3>1. Conflicts(c) \subseteq DOMAIN file
      BY DEF Conflicts, Referred
    <3>2. \A s \in Conflicts(c) : row.records[s].bar = HeadOf(s)
      BY <1>3, <1>7, <3>1 DEF Disposition
    <3> QED
      BY <1>2, <3>1, <3>2, Histories DEF SeriesInv, Pasts
  <2>4. Turned(row) = {[day |-> d, revision |-> Len(Pasts[d]), row |-> file[d]] : d \in bars!Contradicted(file)}
    BY <1>1, <1>2, <1>3, <2>2, <2>3 DEF Turned
  <2>5. bars!Turn(file)
    BY <1>2, <1>4, <1>5, <1>7, <2>1, <2>4 DEF bars!Turn, Shelves, Pasts
  <2> QED
    BY <1>2, <2>5 DEF bars!Next
<1> QED
  BY <1>6, <1>7

LEMMA CorrectionFollows ==
  ASSUME SeriesInv, NEW c \in Callers, Correct(c)
  PROVE  bars!Next
<1>1. PICK s, r, row : /\ s = Slot(c) /\ r = call[c].run /\ {s} \in SUBSET Slots /\ Adds(row, {s})
                       /\ row.input = runs[r].input
                       /\ DOMAIN row.records = {s} /\ row.records[s].as = "INSERTED"
  BY CorrectionAdds
<1>2. /\ s \in Slots /\ Corrected(c) = s /\ <<r, s>> \in Evidence
      /\ runs[r].records[s].bar = HeadOf(s) /\ HeadOf(s) > 0
      /\ Len(Pasts[s]) = HeadOf(s) /\ Pasts[s][Len(Pasts[s])] = Bar(s, HeadOf(s))
  BY <1>1, HeldBars, Histories DEF Correct, SeriesInv, Pasts
<1> DEFINE e == [day |-> s, revision |-> HeadOf(s), row |-> RowOf(r, s)]
<1>3. e \in Refused
  <2>1. <<r, s>>[1] = r /\ <<r, s>>[2] = s
    OBVIOUS
  <2> QED
    BY <1>2, <2>1 DEF Refused
<1>4. Bar(s, HeadOf(s)).at < RowOf(r, s).at /\ RowOf(r, s).at <= now
  BY <1>1, <1>2 DEF Correct, Timely, Offer
<1>5. RowOf(r, s) = Rows[row.input][s]
  BY <1>1 DEF RowOf
<1>6. Pasts' = [Pasts EXCEPT ![s] = Append(@, RowOf(r, s))]
  <2>1. \A d \in Slots : History(d)' = IF d \in {s} THEN Append(History(d), Rows[row.input][d]) ELSE History(d)
    BY <1>1, HistoryGrows DEF SeriesInv
  <2> QED
    BY <1>2, <1>5, <2>1 DEF Pasts
<1>7. Refused' = Refused
  <2>1. Refused' = Refused \union Turned(row)
    BY <1>1, RefusedGrows DEF SeriesInv
  <2> QED
    BY <1>1, <2>1 DEF Turned
<1>8. Shelves' = Shelves /\ now' = now
  <2>1. Filed' /\ Grows
    BY <1>1, RowsGrow DEF SeriesInv
  <2> QED
    BY <2>1, RunHoldsNothing DEF Correct
<1>9. bars!Correct(e)
  BY <1>2, <1>4, <1>6, <1>7, <1>8 DEF bars!Correct, bars!Current, Pasts, Shelves
<1> QED
  BY <1>3, <1>9 DEF bars!Next

LEMMA NothingGrows == ASSUME Filed, runs' = runs, chains' = chains PROVE Filed' /\ Grows
<1>1. Filed'
  BY DEF Filed, HeadOf, Normal
<1>2. Grows
  BY Typed DEF Grows, HeadOf
<1> QED
  BY <1>1, <1>2

(* A publication takes the bars that were available at the cutoff of its evaluation. *)
LEMMA AvailableIs ==
  ASSUME Filed, NEW s \in Slots, NEW t \in Time
  PROVE  /\ bars!Available(s, t) = Visible(s, t)
         /\ Visible(s, t) # {} => bars!AsOf(s, t) = Bar(s, Latest(Visible(s, t)))
<1>1. /\ Pasts[s] = History(s) /\ Len(History(s)) = HeadOf(s) /\ DOMAIN chains[s] = 1..HeadOf(s)
      /\ \A n \in 1..HeadOf(s) : History(s)[n] = Bar(s, n)
  BY Histories, Typed DEF Pasts
<1>2. bars!Available(s, t) = Visible(s, t)
  BY <1>1 DEF bars!Available, Visible, Pasts
<1>3. bars!AsOf(s, t) = Pasts[s][Latest(bars!Available(s, t))]
  BY DEF bars!AsOf, Latest, Pasts
<1>4. ASSUME Visible(s, t) # {} PROVE Latest(Visible(s, t)) \in 1..HeadOf(s)
  BY <1>4, VisibleBars
<1> QED
  BY <1>1, <1>2, <1>3, <1>4

LEMMA PublicationReleases ==
  ASSUME HistoryInv, NEW k \in Keys, NEW q \in Keys, NEW days \in Days, Publish(k, q, days)
  PROVE  [bars!Next]_(bars!vars)
<1> DEFINE e == evaluations[q]
           t == e.asOf
           members == Selection(days, t)
           p == [evaluation |-> q, days |-> days, members |-> members, pins |-> RunsOf(members)]
<1>1. /\ snapshots[k] = None /\ e # None /\ e.outcome = "PASS" /\ days \subseteq e.days /\ members # {}
      /\ snapshots' = [snapshots EXCEPT ![k] = p]
      /\ evaluations' = evaluations /\ runs' = runs /\ chains' = chains /\ now' = now
  BY DEF Publish, Applies, authority
<1>2. /\ e.days \subseteq Slots /\ t \in Time /\ t <= now /\ now \in Time
      /\ \A s \in e.days : Visible(s, t) # {}
  BY <1>1 DEF HistoryInv, Past, SeriesInv, Assessed, Evaluated, Sessions
<1>3. ASSUME NEW s \in days
      PROVE  /\ s \in Slots /\ Visible(s, t) # {} /\ Latest(Visible(s, t)) \in 1..MaxRevisions
             /\ bars!Available(s, t) # {} /\ bars!AsOf(s, t) = Bar(s, Latest(Visible(s, t)))
  BY <1>1, <1>2, VisibleBars, AvailableIs DEF HistoryInv, SeriesInv
<1>4. members = {<<s, Latest(Visible(s, t))>> : s \in days}
  BY <1>3 DEF Selection
<1>5. PICK r : r = p
  OBVIOUS
<1>6. r.evaluation = q /\ r.days = days /\ r.members = members
  BY <1>5
<1> HIDE DEF p, members
<1>7. ASSUME NEW s \in days PROVE MemberOf(r, s) = Latest(Visible(s, t))
  <2>1. \A n : <<s, n>> \in r.members <=> n = Latest(Visible(s, t))
    BY <1>4, <1>6
  <2> QED
    BY <1>3, <2>1 DEF MemberOf
<1>8. Contents(r)' = [asOf |-> t, bars |-> [s \in days |-> bars!AsOf(s, t)]]
  <2>1. \A s \in days : Bar(s, MemberOf(r, s))' = bars!AsOf(s, t)
    <3>1. ASSUME NEW s \in days, NEW n, n = MemberOf(r, s) PROVE Bar(s, n)' = bars!AsOf(s, t)
      BY <1>1, <1>3, <1>7, <3>1 DEF Bar, RowOf
    <3> QED
      BY <3>1 DEF Bar, RowOf
  <2>2. evaluations'[r.evaluation].asOf = t
    BY <1>1, <1>6
  <2> HIDE DEF t, e
  <2> QED
    BY <1>6, <2>1, <2>2 DEF Contents
<1>9. DOMAIN snapshots = Keys /\ snapshots'[k] = r /\ \A j \in Keys \ {k} : snapshots'[j] = snapshots[j]
  BY <1>1, <1>5 DEF HistoryInv, SeriesInv, Assessed
<1>10. Holdings(k) = None /\ Holdings(k)' = IF r = None THEN None ELSE Contents(r)'
  BY <1>1, <1>9 DEF Holdings, Contents, Bar, RowOf
<1>11. \A j \in Keys \ {k} : Holdings(j)' = Holdings(j)
  <2>1. Filed' /\ Grows
    BY <1>1, NothingGrows DEF HistoryInv, SeriesInv
  <2> QED
    BY <1>1, <1>9, <2>1, HoldingsStay DEF HistoryInv
<1>12. Pasts' = Pasts /\ Refused' = Refused
  BY <1>1 DEF Pasts, History, Bar, RowOf, HeadOf, Refused, Evidence
<1>13. CASE r = None
  <2>1. Shelves' = Shelves
    BY <1>10, <1>11, <1>13 DEF Shelves
  <2> QED
    BY <1>1, <1>12, <2>1 DEF bars!vars, Shelves, Pasts
<1>14. CASE r # None
  <2>1. Shelves' = [Shelves EXCEPT ![k] = [asOf |-> t, bars |-> [s \in days |-> bars!AsOf(s, t)]]]
    BY <1>8, <1>10, <1>11, <1>14 DEF Shelves
  <2>2. bars!Release(k, days, t)
    BY <1>1, <1>3, <1>10, <1>12, <2>1 DEF bars!Release, Shelves, Pasts
  <2>3. days \in (SUBSET Slots) \ {{}} /\ t \in 0..now
    <3>1. days \subseteq Slots /\ days # {}
      BY DEF Days, Span
    <3>2. t \in Nat /\ now \in Nat /\ t <= now
      BY <1>2, ObservationsAssumption DEF Time, ObservationsAssumption
    <3>3. days \in (SUBSET Slots) \ {{}}
      BY <3>1
    <3>4. t \in 0..now
      BY <3>2
    <3> QED
      BY <3>3, <3>4
  <2> QED
    BY <2>2, <2>3 DEF bars!Next
<1> QED
  BY <1>13, <1>14

(* What is neither written nor published shows nothing. *)
LEMMA NothingShows ==
  ASSUME SeriesInv, UNCHANGED <<authority, snapshots, now>>,
         \A k \in Keys : evaluations[k] # None => evaluations'[k] = evaluations[k]
  PROVE  UNCHANGED (bars!vars)
<1>1. runs' = runs /\ chains' = chains
  BY DEF authority
<1>2. Filed' /\ Grows
  BY <1>1, NothingGrows DEF SeriesInv
<1>3. Pasts' = Pasts /\ Refused' = Refused
  BY <1>1 DEF Pasts, History, Bar, RowOf, HeadOf, Refused, Evidence
<1>4. ASSUME NEW k \in Keys PROVE Holdings(k)' = Holdings(k)
  <2>1. snapshots[k] # None => evaluations'[snapshots[k].evaluation] = evaluations[snapshots[k].evaluation]
    BY DEF SeriesInv, Assessed, Published
  <2> QED
    BY <1>2, <2>1, HoldingsStay
<1> QED
  BY <1>3, <1>4 DEF bars!vars, Pasts

LEMMA TimePasses == ASSUME SeriesInv, Tick PROVE bars!Next
<1>1. Filed' /\ Grows /\ runs' = runs /\ chains' = chains /\ now' = now + 1 /\ UNCHANGED products
  BY NothingGrows DEF Tick, authority, SeriesInv
<1>2. Pasts' = Pasts /\ Refused' = Refused
  BY <1>1 DEF Pasts, History, Bar, RowOf, HeadOf, Refused, Evidence
<1>3. \A k \in Keys : Holdings(k)' = Holdings(k)
  BY <1>1, HoldingsStay DEF products
<1> QED
  BY <1>1, <1>2, <1>3 DEF bars!Next, bars!Tick, Pasts

LEMMA HistoryStep == ASSUME HistoryInv, [Next]_vars PROVE [bars!Next]_(bars!vars)
<1>1. CASE UNCHANGED vars
  BY <1>1, NothingShows DEF HistoryInv, vars, authority, products
<1>2. CASE Tick
  BY <1>2, TimePasses DEF HistoryInv
<1>3. CASE Assess
  <2>1. ASSUME NEW r \in DOMAIN runs, EvaluateImport(r) PROVE UNCHANGED (bars!vars)
    BY <2>1, NothingShows DEF HistoryInv, EvaluateImport
  <2>2. ASSUME NEW k \in Keys, NEW d \in Days, NEW t \in Time, EvaluateRange(k, d, t)
        PROVE  UNCHANGED (bars!vars)
    <3>1. \A j \in Keys : evaluations[j] # None => evaluations'[j] = evaluations[j]
      BY <2>2 DEF EvaluateRange, HistoryInv, SeriesInv, Assessed
    <3> QED
      BY <2>2, <3>1, NothingShows DEF HistoryInv, EvaluateRange
  <2> QED
    BY <1>3, <2>1, <2>2, PublicationReleases DEF Assess
<1>4. ASSUME UNCHANGED <<authority, products, now>> PROVE UNCHANGED (bars!vars)
  BY <1>4, NothingShows DEF HistoryInv, products
<1>5. CASE Call \/ BreakDeadlock
  BY <1>4, <1>5 DEF Call, BreakDeadlock, Ask, Hold, Abort, locks
<1>6. ASSUME NEW c \in Callers, Step(c) PROVE [bars!Next]_(bars!vars)
  <2>1. CASE Begin(c) \/ InsertReceipt(c) \/ LockSeries(c) \/ Refer(c) \/ Replay(c) \/ Refuse(c)
    BY <1>4, <2>1 DEF Begin, InsertReceipt, LockSeries, Refer, Replay, Refuse, locks
  <2> QED
    BY <1>6, <2>1, ImportTakes, ErrorIsNoFile, CorrectionFollows DEF HistoryInv, Step
<1> QED
  BY <1>1, <1>2, <1>3, <1>5, <1>6 DEF Next

LEMMA PastStays == HistoryInv /\ [Next]_vars => Past'
<1> SUFFICES ASSUME HistoryInv, [Next]_vars PROVE Past'
  OBVIOUS
<1>1. now \in Nat /\ \A k \in Keys : evaluations[k] # None => evaluations[k].asOf \in Nat
  BY ObservationsAssumption DEF HistoryInv, SeriesInv, Assessed, Evaluated, Sessions, Time, ObservationsAssumption
<1>2. CASE Tick
  BY <1>1, <1>2 DEF Tick, products, HistoryInv, Past
<1>3. CASE Assess
  <2>1. ASSUME NEW k \in Keys, NEW d \in Days, NEW t \in Time, EvaluateRange(k, d, t) PROVE Past'
    <3>1. \A j \in Keys : evaluations'[j] = evaluations[j] \/ evaluations'[j].asOf = t
      BY <2>1 DEF EvaluateRange, HistoryInv, SeriesInv, Assessed
    <3> QED
      BY <2>1, <3>1 DEF EvaluateRange, HistoryInv, Past
  <2>2. ASSUME UNCHANGED <<evaluations, now>> PROVE Past'
    BY <2>2 DEF HistoryInv, Past
  <2> QED
    BY <1>3, <2>1, <2>2 DEF Assess, EvaluateImport, Publish
<1>4. ASSUME UNCHANGED <<products, now>> PROVE Past'
  BY <1>4 DEF products, HistoryInv, Past
<1>5. CASE Call \/ BreakDeadlock \/ UNCHANGED vars
  BY <1>4, <1>5 DEF Call, BreakDeadlock, Ask, Hold, Abort, vars
<1>6. CASE \E c \in Callers : Step(c)
  BY <1>4, <1>6 DEF Step, Begin, InsertReceipt, LockSeries, Refer, Write, Replay, RecordError, Correct,
     Refuse
<1> QED
  BY <1>2, <1>3, <1>5, <1>6 DEF Next

LEMMA HistoryOpens == Init => Past /\ bars!Init
<1> SUFFICES ASSUME Init PROVE Past /\ bars!Init
  OBVIOUS
<1>1. \A s \in Slots : History(s) = << >>
  BY SeriesOpens, Histories DEF SeriesInv, Init, HeadOf
<1>2. Refused = {}
  BY DEF Init, Refused, Evidence
<1>3. \A k \in Keys : Holdings(k) = None
  BY DEF Init, Holdings
<1> QED
  BY <1>1, <1>2, <1>3 DEF Init, Past, bars!Init

(* Imports, corrections, evaluations and publications in any order keep what
   BarSeries promises: a file adds all its new days or none and rewrites nothing, a
   bar is followed only by a refused row that contradicted it and came later,
   and a snapshot holds what was known at its cutoff
   (ingestion/service.py, observations/service.py, snapshots/service.py). *)
THEOREM KeepsSeries == Spec => SeriesIsKept
<1>1. Init => HistoryInv /\ bars!Init
  BY SeriesOpens, HistoryOpens DEF HistoryInv
<1>2. HistoryInv /\ [Next]_vars => HistoryInv' /\ [bars!Next]_(bars!vars)
  BY HistoryStep, PastStays, SeriesStep DEF HistoryInv
<1> QED
  BY <1>1, <1>2, PTL DEF Spec, SeriesIsKept, bars!Spec
=============================================================================

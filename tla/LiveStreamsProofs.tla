-------------------------- MODULE LiveStreamsProofs --------------------------
(* Proofs about LiveStreams for every set of streams and fills and any number
   of callbacks, queries and crashes: the book counts everything once, one
   receiver or query uses the account, the shadow runs and decides on a clean
   stream, and an ended stream is not taken up again.  The lemmas about the
   position book come first: what an appended callback, a booked prefix, an
   applied checkpoint and a booked query leave true of it (BookInv). *)
EXTENDS LiveStreams, FiniteSetTheorems, WellFoundedInduction, TLAPS

-----------------------------------------------------------------------------
(* The least and the greatest of a set of numbers. *)

NatLess == {p \in Nat \X Nat : p[1] < p[2]}

LEMMA NatLessIsWellFounded == IsWellFoundedOn(NatLess, Nat)
<1>1. OpToRel(<, Nat) = NatLess
  BY DEF OpToRel, NatLess
<1> QED
  BY <1>1, NatLessThanWellFounded

LEMMA MinIsLeast ==
  ASSUME NEW S \in SUBSET Nat, S # {}
  PROVE  Min(S) \in S /\ \A x \in S : Min(S) <= x
<1>1. PICK x \in S : \A y \in S : ~(<<y, x>> \in NatLess)
  BY NatLessIsWellFounded, WFMin
<1>2. ASSUME NEW y \in S PROVE x <= y
  <2>1. <<y, x>> \in Nat \X Nat /\ <<y, x>>[1] = y /\ <<y, x>>[2] = x
    OBVIOUS
  <2>2. ~(y < x)
    BY <1>1, <2>1 DEF NatLess
  <2> QED
    BY <2>2
<1> QED
  BY <1>2 DEF Min

LEMMA MaxIsGreatest ==
  ASSUME NEW S \in SUBSET Nat, S # {}, NEW n \in Nat, \A x \in S : x <= n
  PROVE  Max(S) \in S /\ \A x \in S : x <= Max(S)
<1> DEFINE D == {n - x : x \in S}
<1>1. D \in SUBSET Nat /\ D # {}
  <2>1. \A x \in S : n - x \in Nat
    OBVIOUS
  <2>2. PICK x \in S : TRUE
    OBVIOUS
  <2> QED
    BY <2>1, <2>2
<1>2. Min(D) \in D /\ \A e \in D : Min(D) <= e
  BY <1>1, MinIsLeast
<1>3. PICK m \in S : Min(D) = n - m
  BY <1>2
<1>4. ASSUME NEW x \in S PROVE x <= m
  <2>1. n - m <= n - x
    BY <1>2, <1>3
  <2> QED
    BY <2>1
<1> QED
  BY <1>4 DEF Max

MaxOfTwo(x, y) == Max({x, y}) \in {x, y} /\ x <= Max({x, y}) /\ y <= Max({x, y})

LEMMA TwoHaveMax ==
  ASSUME NEW x \in Nat, NEW y \in Nat PROVE MaxOfTwo(x, y)
<1>1. {x, y} \in SUBSET Nat /\ {x, y} # {} /\ x + y \in Nat /\ \A z \in {x, y} : z <= x + y
  OBVIOUS
<1>2. Max({x, y}) \in {x, y} /\ \A z \in {x, y} : z <= Max({x, y})
  BY <1>1, MaxIsGreatest
<1> QED
  BY <1>2 DEF MaxOfTwo

-----------------------------------------------------------------------------
(* Types.  Receipt times are integers: a clock may fall back below zero. *)

Callbacks == [kind : Kinds, fill : Fills \union {NoFill}, received : Int, committed : Nat]
Queries   == [begun : Nat, ended : Nat, complete : BOOLEAN, fills : SUBSET Fills]
Entries   == [stream : Streams \union {NoStream}, after : Nat, through : Nat,
              query : 0..MaxQueries, fills : SUBSET Fills, problem : BOOLEAN]

FactsTyped ==
  /\ clock \in Nat /\ executed \subseteq Fills /\ baseline \in Nat
  /\ events \in [Streams -> Seq(Callbacks)]
  /\ \A s \in Streams : /\ Received(s) <= MaxEvents
                        /\ \A k \in 1..Received(s) : events[s][k].kind = "Trade" => events[s][k].fill # NoFill
  /\ queries \in Seq(Queries) /\ Len(queries) <= MaxQueries

BookTyped == book \in Seq(Entries) /\ account \in [Streams -> Checkpoint]

(* An entry covers retained callbacks, later entries of a stream later ones. *)
Proper ==
  /\ \A i \in DOMAIN book : book[i].stream \in Streams =>
        book[i].after < book[i].through /\ book[i].through <= Received(book[i].stream)
  /\ \A i, j \in DOMAIN book :
        i < j /\ book[i].stream \in Streams /\ book[i].stream = book[j].stream =>
          book[i].through <= book[j].after

(* No fill is in two entries; those of a segment are in the book. *)
Counted ==
  /\ \A i, j \in DOMAIN book : i # j => book[i].fills \cap book[j].fills = {}
  /\ \A i \in DOMAIN book : book[i].stream \in Streams =>
        SegmentFills(book[i].stream, book[i].after, book[i].through) \subseteq Known

(* Up to where a stream is booked every material callback is in an entry. *)
Covered ==
  \A s \in Streams : \A k \in 1..BookedThrough(s) :
    Material(s, k) => \E i \in EntriesOf(s) : book[i].after < k /\ k <= book[i].through

(* A checkpoint has passed no other material callback. *)
Passed ==
  \A s \in Streams : /\ account[s].through <= Received(s)
                     /\ \A k \in 1..account[s].through : Material(s, k) => k <= BookedThrough(s)

BookInv == FactsTyped /\ BookTyped /\ Proper /\ Counted /\ Covered /\ Passed

-----------------------------------------------------------------------------
(* What reading the book and the callbacks returns. *)

Greatest(s) ==
  /\ BookedThrough(s) \in Nat /\ BookedThrough(s) <= Received(s)
  /\ \A i \in EntriesOf(s) : book[i].through <= BookedThrough(s)
  /\ BookedThrough(s) = 0 \/ \E i \in EntriesOf(s) : book[i].through = BookedThrough(s)

AllGreatest == \A s \in Streams : Greatest(s)

LEMMA BookedThroughIs == FactsTyped /\ BookTyped /\ Proper => AllGreatest
<1> SUFFICES ASSUME FactsTyped, BookTyped, Proper, NEW s \in Streams PROVE Greatest(s)
  BY DEF AllGreatest
<1> DEFINE S == {book[i].through : i \in EntriesOf(s)} \union {0}
<1>1. Received(s) \in Nat
  BY DEF FactsTyped, Received
<1>2. \A i \in EntriesOf(s) : book[i] \in Entries /\ book[i].stream = s
  BY DEF BookTyped, EntriesOf
<1>3. \A i \in EntriesOf(s) : book[i].through \in Nat /\ book[i].through <= Received(s)
  BY <1>2 DEF Proper, EntriesOf, Entries
<1>4. S \in SUBSET Nat /\ S # {} /\ \A x \in S : x <= Received(s)
  BY <1>1, <1>3
<1>5. Max(S) \in S /\ \A x \in S : x <= Max(S)
  BY <1>1, <1>4, MaxIsGreatest
<1>6. BookedThrough(s) = Max(S)
  BY DEF BookedThrough
<1> HIDE DEF S
<1>7. BookedThrough(s) \in S /\ \A x \in S : x <= BookedThrough(s)
  BY <1>5, <1>6
<1> QED
  BY <1>4, <1>7 DEF S, Greatest

LEMMA PendingIs ==
  ASSUME FactsTyped, BookTyped, NEW s \in Streams, NEW n \in Nat, Pending(s, n) # {}
  PROVE  /\ Pending(s, n) \subseteq account[s].through + 1 .. n
         /\ Max(Pending(s, n)) \in Pending(s, n) /\ \A k \in Pending(s, n) : k <= Max(Pending(s, n))
         /\ Min(Pending(s, n)) \in Pending(s, n) /\ \A k \in Pending(s, n) : Min(Pending(s, n)) <= k
<1>1. account[s].through \in Nat
  BY DEF BookTyped, Checkpoint
<1>2. Pending(s, n) \subseteq account[s].through + 1 .. n
  BY DEF Pending
<1>3. Pending(s, n) \in SUBSET Nat /\ \A k \in Pending(s, n) : k <= n
  BY <1>1, <1>2
<1> QED
  BY <1>2, <1>3, MaxIsGreatest, MinIsLeast

LEMMA FillsOfSegments ==
  ASSUME FactsTyped, NEW s \in Streams, NEW a \in Nat, NEW n \in Nat, n <= Received(s)
  PROVE  SegmentFills(s, a, n) \subseteq Fills
<1> SUFFICES ASSUME NEW k \in a + 1 .. n, events[s][k].kind = "Trade" PROVE events[s][k].fill \in Fills
  BY DEF SegmentFills
<1>1. k \in 1..Received(s)
  BY DEF FactsTyped, Received
<1>2. events[s][k] \in Callbacks /\ events[s][k].fill # NoFill
  BY <1>1 DEF FactsTyped, Received
<1> QED
  BY <1>2 DEF Callbacks

(* Two segments of one stream, one within the other. *)
LEMMA FillsWithin ==
  ASSUME NEW s, NEW a \in Nat, NEW n \in Nat, NEW k \in a + 1 .. n, events[s][k].kind = "Trade"
  PROVE  events[s][k].fill \in SegmentFills(s, a, n)
  BY DEF SegmentFills

-----------------------------------------------------------------------------
(* An entry is appended. *)

LEMMA Appended ==
  ASSUME BookTyped, NEW e \in Entries, book' = Append(book, e), account' \in [Streams -> Checkpoint]
  PROVE  /\ BookTyped' /\ Len(book') = Len(book) + 1
         /\ DOMAIN book' = DOMAIN book \union {Len(book) + 1}
         /\ \A i \in DOMAIN book : book'[i] = book[i]
         /\ book'[Len(book) + 1] = e /\ Len(book) + 1 \notin DOMAIN book
         /\ Known' = Known \union e.fills
         /\ \A s \in Streams : EntriesOf(s)' = IF e.stream = s THEN EntriesOf(s) \union {Len(book) + 1}
                                               ELSE EntriesOf(s)
<1>1. /\ book' \in Seq(Entries) /\ Len(book') = Len(book) + 1
      /\ DOMAIN book' = DOMAIN book \union {Len(book) + 1}
      /\ \A i \in DOMAIN book : book'[i] = book[i]
      /\ book'[Len(book) + 1] = e /\ Len(book) + 1 \notin DOMAIN book
  BY DEF BookTyped
<1>2. Known' = Known \union e.fills
  <2>1. \A f : f \in Known' <=> \E i \in DOMAIN book' : f \in book'[i].fills
    BY DEF Known
  <2>2. \A f : f \in Known <=> \E i \in DOMAIN book : f \in book[i].fills
    BY DEF Known
  <2> QED
    BY <1>1, <2>1, <2>2
<1>3. \A s \in Streams : EntriesOf(s)' = IF e.stream = s THEN EntriesOf(s) \union {Len(book) + 1}
                                        ELSE EntriesOf(s)
  BY <1>1 DEF EntriesOf
<1> QED
  BY <1>1, <1>2, <1>3 DEF BookTyped

LEMMA StreamEntry ==
  ASSUME BookInv, NEW s \in Streams, NEW a \in Nat, NEW n \in Nat,
         BookedThrough(s) <= a, a < n, n <= Received(s),
         \A k \in BookedThrough(s) + 1 .. a : ~Material(s, k),
         book' = Append(book, FromStream(s, a, n)), UNCHANGED <<clock, executed, events, queries, baseline>>,
         account' \in [Streams -> Checkpoint]
  PROVE  /\ FactsTyped' /\ BookTyped' /\ Proper' /\ Counted' /\ Covered'
         /\ BookedThrough(s)' = n
         /\ \A r \in Streams \ {s} : BookedThrough(r)' = BookedThrough(r)
<1> DEFINE e == FromStream(s, a, n)
<1> USE DEF BookInv
<1>1. /\ e.stream = s /\ e.after = a /\ e.through = n
      /\ e.fills = SegmentFills(s, a, n) \ Known /\ e \in Entries
  <2>1. SegmentFills(s, a, n) \subseteq Fills
    BY FillsOfSegments
  <2>2. SegmentProblem(s, a, n) \in BOOLEAN
    BY DEF SegmentProblem
  <2>3. 0 \in 0..MaxQueries
    BY StreamAssumption DEF StreamAssumption
  <2> QED
    BY <2>1, <2>2, <2>3 DEF FromStream, Entries
<1>2. FactsTyped'
  BY DEF FactsTyped, Received
<1> HIDE DEF e
<1>3. book' = Append(book, e)
  BY DEF e
<1>4. /\ BookTyped' /\ Len(book') = Len(book) + 1
      /\ DOMAIN book' = DOMAIN book \union {Len(book) + 1}
      /\ \A i \in DOMAIN book : book'[i] = book[i]
      /\ book'[Len(book) + 1] = e /\ Len(book) + 1 \notin DOMAIN book
      /\ Known' = Known \union e.fills
      /\ EntriesOf(s)' = EntriesOf(s) \union {Len(book) + 1}
      /\ \A r \in Streams \ {s} : EntriesOf(r)' = EntriesOf(r)
  BY <1>1, <1>3, Appended
<1>5. \A r \in Streams : Greatest(r)
  BY BookedThroughIs DEF AllGreatest
<1>6. \A r \in Streams : \A i \in EntriesOf(r) : i \in DOMAIN book /\ book[i].stream = r
  BY DEF EntriesOf
<1>7. /\ \A i \in DOMAIN book : i < Len(book) + 1 /\ book[i] \in Entries
      /\ \A i \in DOMAIN book : book[i].through \in Nat /\ book[i].after \in Nat
  <2>1. \A i \in DOMAIN book : i < Len(book) + 1 /\ book[i] \in Entries
    BY DEF BookTyped
  <2> QED
    BY <2>1 DEF Entries
<1>8. Proper'
  <2>1. ASSUME NEW i \in DOMAIN book', book'[i].stream \in Streams
        PROVE  book'[i].after < book'[i].through /\ book'[i].through <= Received(book[i].stream)'
    <3>1. Received(book[i].stream)' = Len(events[book'[i].stream])
      BY DEF Received
    <3>2. CASE i \in DOMAIN book
      BY <1>4, <2>1, <3>1, <3>2 DEF Proper, Received
    <3>3. CASE i = Len(book) + 1
      BY <1>1, <1>4, <3>1, <3>3 DEF Received
    <3> QED
      BY <1>4, <3>2, <3>3
  <2>2. ASSUME NEW i \in DOMAIN book', NEW j \in DOMAIN book', i < j, book'[i].stream \in Streams,
               book'[i].stream = book'[j].stream
        PROVE  book'[i].through <= book'[j].after
    <3>1. CASE j \in DOMAIN book
      <4>1. i \in DOMAIN book
        BY <1>4, <2>2, <3>1 DEF BookTyped
      <4> QED
        BY <1>4, <2>2, <3>1, <4>1 DEF Proper
    <3>2. CASE j = Len(book) + 1
      <4>1. i \in DOMAIN book
        BY <1>4, <2>2, <3>2 DEF BookTyped
      <4>2. i \in EntriesOf(s)
        BY <1>1, <1>4, <2>2, <3>2, <4>1 DEF EntriesOf
      <4>3. book[i].through <= BookedThrough(s) /\ BookedThrough(s) \in Nat
        BY <1>5, <4>2 DEF Greatest
      <4>4. book[i].through \in Nat
        BY <1>7, <4>1
      <4> QED
        BY <1>1, <1>4, <3>2, <4>1, <4>3, <4>4
    <3> QED
      BY <1>4, <3>1, <3>2
  <2> QED
    BY <2>1, <2>2 DEF Proper
<1>9. Counted'
  <2>1. ASSUME NEW i \in DOMAIN book', NEW j \in DOMAIN book', i # j
        PROVE  book'[i].fills \cap book'[j].fills = {}
    <3>1. \A k \in DOMAIN book : book[k].fills \subseteq Known
      BY DEF Known
    <3> QED
      BY <1>1, <1>4, <2>1, <3>1 DEF Counted
  <2>2. ASSUME NEW i \in DOMAIN book', book'[i].stream \in Streams
        PROVE  SegmentFills(book[i].stream, book[i].after, book[i].through)' \subseteq Known'
    <3>1. SegmentFills(book[i].stream, book[i].after, book[i].through)'
            = SegmentFills(book'[i].stream, book'[i].after, book'[i].through)
      BY DEF SegmentFills
    <3>2. CASE i \in DOMAIN book
      BY <1>4, <2>2, <3>1, <3>2 DEF Counted
    <3>3. CASE i = Len(book) + 1
      BY <1>1, <1>4, <3>1, <3>3
    <3> QED
      BY <1>4, <3>2, <3>3
  <2> QED
    BY <2>1, <2>2 DEF Counted
<1>10. \A r \in Streams : Greatest(r)'
  <2>1. (FactsTyped /\ BookTyped /\ Proper => AllGreatest)'
    BY BookedThroughIs, PTL
  <2> QED
    BY <1>2, <1>4, <1>8, <2>1 DEF AllGreatest
<1>11. \A r \in Streams : \A i \in EntriesOf(r) : book'[i].through = book[i].through /\ book[i].through \in Nat
  BY <1>4, <1>6, <1>7
<1>12. BookedThrough(s)' = n
  <2>1. n <= BookedThrough(s)' /\ BookedThrough(s)' \in Nat
    BY <1>1, <1>4, <1>10 DEF Greatest
  <2>2. ASSUME NEW i \in EntriesOf(s)' PROVE book'[i].through <= n
    <3>1. BookedThrough(s) \in Nat /\ \A j \in EntriesOf(s) : book[j].through <= BookedThrough(s)
      BY <1>5 DEF Greatest
    <3>2. CASE i \in EntriesOf(s)
      <4>1. book'[i].through = book[i].through /\ book[i].through \in Nat
        BY <1>11, <3>2
      <4>2. book[i].through <= BookedThrough(s)
        BY <3>1, <3>2
      <4> QED
        BY <3>1, <4>1, <4>2
    <3>3. CASE i = Len(book) + 1
      BY <1>1, <1>4, <3>3
    <3> QED
      BY <1>4, <3>2, <3>3
  <2>3. BookedThrough(s)' = 0 \/ \E i \in EntriesOf(s)' : book'[i].through = BookedThrough(s)'
    BY <1>10 DEF Greatest
  <2>4. CASE BookedThrough(s)' = 0
    BY <2>1, <2>4
  <2>5. ASSUME NEW i \in EntriesOf(s)', book'[i].through = BookedThrough(s)'
        PROVE  BookedThrough(s)' = n
    <3>1. BookedThrough(s)' <= n
      BY <2>2, <2>5
    <3> QED
      BY <2>1, <3>1
  <2> QED
    BY <2>3, <2>4, <2>5
<1>13. ASSUME NEW r \in Streams \ {s} PROVE BookedThrough(r)' = BookedThrough(r)
  <2>1. \A i \in EntriesOf(r) : book'[i].through = book[i].through
    BY <1>11
  <2>2. EntriesOf(r)' = EntriesOf(r)
    BY <1>4
  <2>3. BookedThrough(r)' = Max({book'[i].through : i \in EntriesOf(r)'} \union {0})
    BY DEF BookedThrough
  <2>4. {book'[i].through : i \in EntriesOf(r)} = {book[i].through : i \in EntriesOf(r)}
    BY <2>1
  <2> QED
    BY <2>2, <2>3, <2>4 DEF BookedThrough
<1>14. Covered'
  <2>1. ASSUME NEW r \in Streams, NEW k \in 1..BookedThrough(r)', Material(r, k)'
        PROVE  \E i \in EntriesOf(r)' : book'[i].after < k /\ k <= book'[i].through
    <3>1. Material(r, k)
      BY <2>1 DEF Material, Regressed
    <3>2. CASE k \in 1..BookedThrough(r)
      <4>1. PICK i \in EntriesOf(r) : book[i].after < k /\ k <= book[i].through
        BY <3>1, <3>2 DEF Covered
      <4> QED
        BY <1>4, <1>6, <4>1
    <3>3. CASE ~(k \in 1..BookedThrough(r))
      <4>1. r = s /\ k \in BookedThrough(s) + 1 .. n
        BY <1>5, <1>12, <1>13, <3>3 DEF Greatest
      <4>2. a < k
        BY <1>5, <3>1, <4>1 DEF Greatest
      <4> QED
        BY <1>1, <1>4, <4>1, <4>2
    <3> QED
      BY <3>2, <3>3
  <2> QED
    BY <2>1 DEF Covered
<1> QED
  BY <1>2, <1>4, <1>8, <1>9, <1>12, <1>13, <1>14

-----------------------------------------------------------------------------
(* The operations. *)

LEMMA PrefixKeeps ==
  ASSUME BookInv, NEW s \in Streams, NEW n \in 1..Received(s), IngestPrefix(s, n)
  PROVE  BookInv'
<1>1. BookedThrough(s) \in Nat /\ n \in Nat
  BY BookedThroughIs DEF BookInv, AllGreatest, Greatest, FactsTyped, Received
<1>2. /\ book' = Append(book, FromStream(s, BookedThrough(s), n)) /\ BookedThrough(s) < n
      /\ n <= Received(s) /\ UNCHANGED <<clock, executed, events, account, queries, baseline>>
  BY <1>1 DEF IngestPrefix
<1>3. account' \in [Streams -> Checkpoint]
  BY <1>2 DEF BookInv, BookTyped
<1>4. \A k \in BookedThrough(s) + 1 .. BookedThrough(s) : ~Material(s, k)
  BY <1>1
<1>5. /\ FactsTyped' /\ BookTyped' /\ Proper' /\ Counted' /\ Covered'
      /\ BookedThrough(s)' = n
      /\ \A r \in Streams \ {s} : BookedThrough(r)' = BookedThrough(r)
  BY <1>1, <1>2, <1>3, <1>4, StreamEntry
<1>6. \A r \in Streams : BookedThrough(r) <= BookedThrough(r)' /\ BookedThrough(r) \in Nat
  BY <1>1, <1>2, <1>5, BookedThroughIs DEF BookInv, AllGreatest, Greatest
<1>7. Passed'
  <2>1. \A r \in Streams : account'[r].through = account[r].through /\ account[r].through \in Nat
    BY <1>2 DEF BookInv, BookTyped, Checkpoint
  <2>2. \A r, k : Material(r, k)' <=> Material(r, k)
    BY <1>2 DEF Material, Regressed
  <2>3. \A r \in Streams : BookedThrough(r)' \in Nat
    BY <1>1, <1>5, <1>6
  <2> QED
    BY <1>2, <1>6, <2>1, <2>2, <2>3 DEF BookInv, Passed, Received
<1> QED
  BY <1>5, <1>7 DEF BookInv

LEMMA AdvanceKeeps ==
  ASSUME BookInv, NEW s \in Streams, NEW n \in Nat, Advance(s, n),
         UNCHANGED <<clock, executed, events, queries, baseline>>
  PROVE  BookInv'
<1> DEFINE top == Max(Pending(s, n))
           first == Max({BookedThrough(s), Min(Pending(s, n)) - 1})
<1>1. /\ account[s] \in Checkpoint /\ account[s].through \in Nat /\ account[s].through < n
      /\ n <= Received(s) /\ account \in [Streams -> Checkpoint]
  BY DEF Advance, BookInv, BookTyped, Checkpoint
<1>2. BookedThrough(s) \in Nat /\ \A i \in EntriesOf(s) : book[i].through <= BookedThrough(s)
  BY BookedThroughIs DEF BookInv, AllGreatest, Greatest
<1>3. Applied(s, n) \in {"WAITING", "READY", "UNKNOWN"}
  BY <1>1 DEF Applied, Checkpoint
<1>4. \A k \in account[s].through + 1 .. n : Material(s, k) => k \in Pending(s, n)
  BY DEF Pending
<1>5. \A k \in 1 .. n : Material(s, k) => k <= BookedThrough(s) \/ k \in Pending(s, n)
  BY <1>1, <1>4 DEF BookInv, Passed
<1>6. ASSUME account' \in [Streams -> Checkpoint], account'[s].through = n,
             \A r \in Streams \ {s} : account'[r] = account[r],
             \A r \in Streams : BookedThrough(r)' \in Nat /\ BookedThrough(r) <= BookedThrough(r)'
                                 /\ BookedThrough(r) \in Nat,
             \A k \in Pending(s, n) : k <= BookedThrough(s)'
      PROVE  Passed'
  <2>1. \A r, k : Material(r, k)' <=> Material(r, k)
    BY DEF Material, Regressed
  <2>2. ASSUME NEW r \in Streams \ {s}
        PROVE  /\ account'[r].through <= Received(r)'
               /\ \A k \in 1..account'[r].through : Material(r, k)' => k <= BookedThrough(r)'
    <3>1. account'[r].through = account[r].through /\ account[r].through \in Nat /\ Received(r)' = Received(r)
      BY <1>1, <1>6 DEF Checkpoint, Received
    <3>2. /\ account[r].through <= Received(r)
          /\ \A k \in 1..account[r].through : Material(r, k) => k <= BookedThrough(r)
      BY DEF BookInv, Passed
    <3> QED
      BY <1>6, <2>1, <3>1, <3>2
  <2>3. /\ account'[s].through <= Received(s)'
        /\ \A k \in 1..account'[s].through : Material(s, k)' => k <= BookedThrough(s)'
    BY <1>1, <1>5, <1>6, <2>1 DEF Received
  <2> QED
    BY <2>2, <2>3 DEF Passed
<1>7. ASSUME book' = book
      PROVE  /\ FactsTyped' /\ Proper' /\ Counted' /\ Covered'
             /\ \A r \in Streams : BookedThrough(r)' = BookedThrough(r) /\ BookedThrough(r) \in Nat
  <2>1. FactsTyped' /\ Proper'
    BY <1>7 DEF BookInv, FactsTyped, Proper, Received
  <2>2. \A r, x, y : SegmentFills(r, x, y)' = SegmentFills(r, x, y)
    BY DEF SegmentFills
  <2>3. Counted'
    BY <1>7, <2>2 DEF BookInv, Counted, Known, SegmentFills
  <2>4. \A r : BookedThrough(r)' = BookedThrough(r) /\ EntriesOf(r)' = EntriesOf(r)
    BY <1>7 DEF BookedThrough, EntriesOf
  <2>5. Covered'
    BY <1>7, <2>4 DEF BookInv, Covered, Material, Regressed
  <2>6. \A r \in Streams : BookedThrough(r) \in Nat
    BY BookedThroughIs DEF BookInv, AllGreatest, Greatest
  <2> QED
    BY <2>1, <2>3, <2>4, <2>5, <2>6
<1>8. CASE Pending(s, n) = {}
  <2>1. book' = book /\ account' = [account EXCEPT ![s].through = n, ![s].status = Applied(s, n)]
    BY <1>8 DEF Advance
  <2>2. account' \in [Streams -> Checkpoint] /\ account'[s].through = n
        /\ \A r \in Streams \ {s} : account'[r] = account[r]
    BY <1>1, <1>3, <2>1 DEF Checkpoint
  <2>3. BookTyped'
    BY <2>1, <2>2 DEF BookInv, BookTyped
  <2> QED
    BY <1>6, <1>7, <1>8, <2>1, <2>2, <2>3 DEF BookInv
<1>9. CASE Pending(s, n) # {}
  <2>1. /\ Pending(s, n) \subseteq account[s].through + 1 .. n
        /\ top \in Pending(s, n) /\ \A k \in Pending(s, n) : k <= top
        /\ Min(Pending(s, n)) \in Pending(s, n) /\ \A k \in Pending(s, n) : Min(Pending(s, n)) <= k
    BY <1>9, PendingIs DEF BookInv
  <2>2. top \in Nat /\ top <= n /\ Min(Pending(s, n)) \in Nat
        /\ Min(Pending(s, n)) - 1 \in Nat /\ Min(Pending(s, n)) <= top
    BY <1>1, <2>1
  <2>3. PICK entry, status :
          /\ account' = [account EXCEPT ![s].through = n, ![s].material = top, ![s].entry = entry,
                                        ![s].status = status]
          /\ status \in {"WAITING", "READY", "UNKNOWN"}
          /\ entry = IF Reusable(s, n) # {} THEN Max(Reusable(s, n)) ELSE Len(book) + 1
    BY <1>3, <1>9 DEF Advance
  <2>4. CASE Reusable(s, n) # {}
    <3>1. book' = book
      BY <1>9, <2>4 DEF Advance
    <3>2. Reusable(s, n) \in SUBSET Nat /\ \A i \in Reusable(s, n) : i <= Len(book)
      BY DEF Reusable, EntriesOf, BookInv, BookTyped
    <3>3. entry \in Nat
      <4>1. Len(book) \in Nat
        BY DEF BookInv, BookTyped
      <4>2. Max(Reusable(s, n)) \in Reusable(s, n)
        BY <2>4, <3>2, <4>1, MaxIsGreatest
      <4> QED
        BY <2>3, <2>4, <3>2, <4>2
    <3>4. account' \in [Streams -> Checkpoint] /\ account'[s].through = n
          /\ \A r \in Streams \ {s} : account'[r] = account[r]
      BY <1>1, <2>2, <2>3, <3>3 DEF Checkpoint
    <3>5. PICK i \in EntriesOf(s) : book[i].through \in top .. n
      BY <2>4 DEF Reusable
    <3>6. top <= BookedThrough(s)
      BY <1>2, <2>2, <3>5
    <3>7. \A k \in Pending(s, n) : k <= BookedThrough(s)
      BY <1>1, <1>2, <2>1, <2>2, <3>6
    <3> QED
      BY <1>6, <1>7, <3>1, <3>4, <3>7 DEF BookInv, BookTyped
  <2>5. CASE Reusable(s, n) = {}
    <3>1. book' = Append(book, FromStream(s, first, top)) /\ BookedThrough(s) < top
      BY <1>2, <1>9, <2>2, <2>5 DEF Advance, AdvanceEntry, CanAdvance
    <3>2. account' \in [Streams -> Checkpoint] /\ account'[s].through = n
          /\ \A r \in Streams \ {s} : account'[r] = account[r]
      <4>1. entry \in Nat
        BY <2>3, <2>5 DEF BookInv, BookTyped
      <4> QED
        BY <1>1, <2>2, <2>3, <4>1 DEF Checkpoint
    <3>3. first \in {BookedThrough(s), Min(Pending(s, n)) - 1} /\ BookedThrough(s) <= first
          /\ Min(Pending(s, n)) - 1 <= first
      <4> HIDE DEF top
      <4>1. BookedThrough(s) <= top
        BY <1>2, <2>2, <3>1
      <4>2. Min(Pending(s, n)) - 1 <= top
        BY <2>2
      <4>3. MaxOfTwo(BookedThrough(s), Min(Pending(s, n)) - 1)
        BY <1>2, <2>2, <4>1, <4>2, TwoHaveMax
      <4> QED
        BY <4>3 DEF MaxOfTwo
    <3>4. first \in Nat /\ first < top /\ top <= Received(s)
      <4> HIDE DEF top, first
      <4>1. Received(s) \in Nat
        BY DEF BookInv, FactsTyped, Received
      <4>2. CASE first = BookedThrough(s)
        BY <1>1, <1>2, <2>2, <3>1, <4>1, <4>2
      <4>3. CASE first = Min(Pending(s, n)) - 1
        <5>1. \A m \in Nat : m <= top => m - 1 < top
          BY <2>2
        <5>2. first \in Nat /\ first < top
          BY <2>2, <4>3, <5>1
        <5>3. top <= Received(s)
          BY <1>1, <2>2, <4>1
        <5> QED
          BY <5>2, <5>3
      <4> QED
        BY <3>3, <4>2, <4>3
    <3>5. \A k \in BookedThrough(s) + 1 .. first : ~Material(s, k)
      BY <1>2, <1>5, <2>1, <2>2, <3>3, <3>4, <1>1
    <3>6. /\ FactsTyped' /\ BookTyped' /\ Proper' /\ Counted' /\ Covered'
          /\ BookedThrough(s)' = top
          /\ \A r \in Streams \ {s} : BookedThrough(r)' = BookedThrough(r)
      BY <2>2, <3>1, <3>2, <3>3, <3>4, <3>5, StreamEntry
    <3>7. \A r \in Streams : BookedThrough(r) <= BookedThrough(r)' /\ BookedThrough(r) \in Nat
                              /\ BookedThrough(r)' \in Nat
      BY <2>2, <3>1, <3>6, BookedThroughIs DEF BookInv, AllGreatest, Greatest
    <3> QED
      BY <1>6, <2>1, <3>2, <3>6, <3>7 DEF BookInv
  <2> QED
    BY <2>4, <2>5
<1> QED
  BY <1>8, <1>9
LEMMA QueryKeeps ==
  ASSUME BookInv, NEW q \in DOMAIN queries, IngestQuery(q)
  PROVE  BookInv'
<1> DEFINE e == FromQuery(q)
<1> USE DEF BookInv
<1>1. /\ book' = Append(book, e)
      /\ UNCHANGED <<clock, executed, events, account, queries, baseline>>
  BY DEF IngestQuery
<1>2. /\ e.stream = NoStream /\ NoStream \notin Streams
      /\ e.fills = queries[q].fills \ Known /\ e \in Entries
  <2>1. queries[q] \in Queries /\ q \in 0..MaxQueries /\ NoStream \notin Streams
    BY StreamAssumption DEF FactsTyped, StreamAssumption
  <2>2. (~queries[q].complete \/ ~(Known \subseteq queries[q].fills)) \in BOOLEAN
    OBVIOUS
  <2> QED
    BY <2>1, <2>2 DEF FromQuery, Entries, Queries
<1> HIDE DEF e
<1>3. /\ BookTyped' /\ Len(book') = Len(book) + 1
      /\ DOMAIN book' = DOMAIN book \union {Len(book) + 1}
      /\ \A i \in DOMAIN book : book'[i] = book[i]
      /\ book'[Len(book) + 1] = e /\ Len(book) + 1 \notin DOMAIN book
      /\ Known' = Known \union e.fills
      /\ \A r \in Streams : EntriesOf(r)' = EntriesOf(r)
  <2>1. account' \in [Streams -> Checkpoint]
    BY <1>1 DEF BookTyped
  <2> QED
    BY <1>1, <1>2, <2>1, Appended
<1>4. FactsTyped'
  BY <1>1 DEF FactsTyped, Received
<1>5. \A i \in DOMAIN book' : book'[i].stream \in Streams => i \in DOMAIN book
  BY <1>2, <1>3
<1>6. Proper'
  BY <1>1, <1>3, <1>5 DEF Proper, Received
<1>7. Counted'
  <2>1. \A k \in DOMAIN book : book[k].fills \subseteq Known
    BY DEF Known
  <2>2. \A i, j \in DOMAIN book' : i # j => book'[i].fills \cap book'[j].fills = {}
    BY <1>2, <1>3, <2>1 DEF Counted
  <2>3. ASSUME NEW i \in DOMAIN book', book'[i].stream \in Streams
        PROVE  SegmentFills(book[i].stream, book[i].after, book[i].through)' \subseteq Known'
    <3>1. SegmentFills(book[i].stream, book[i].after, book[i].through)'
            = SegmentFills(book'[i].stream, book'[i].after, book'[i].through)
      BY <1>1 DEF SegmentFills
    <3> QED
      BY <1>3, <1>5, <2>3, <3>1 DEF Counted
  <2> QED
    BY <2>2, <2>3 DEF Counted
<1>8. ASSUME NEW r \in Streams
      PROVE  /\ BookedThrough(r)' = BookedThrough(r)
             /\ \A i \in EntriesOf(r) : i \in DOMAIN book /\ book'[i] = book[i]
  <2>1. \A i \in EntriesOf(r) : i \in DOMAIN book /\ book'[i] = book[i]
    BY <1>3 DEF EntriesOf
  <2>2. BookedThrough(r)' = Max({book'[i].through : i \in EntriesOf(r)'} \union {0})
    BY DEF BookedThrough
  <2>3. EntriesOf(r)' = EntriesOf(r)
    BY <1>3
  <2>4. {book'[i].through : i \in EntriesOf(r)} = {book[i].through : i \in EntriesOf(r)}
    BY <2>1
  <2> QED
    BY <2>1, <2>2, <2>3, <2>4 DEF BookedThrough
<1>9. \A r, k : Material(r, k)' <=> Material(r, k)
  BY <1>1 DEF Material, Regressed
<1>10. Covered'
  BY <1>3, <1>8, <1>9 DEF Covered
<1>11. Passed'
  BY <1>1, <1>8, <1>9 DEF Passed, Received
<1> QED
  BY <1>3, <1>4, <1>6, <1>7, <1>10, <1>11

(* New callbacks, queries and fills, and a binding, leave the book as it is. *)
FactsGrow ==
  /\ FactsTyped' /\ book' = book
  /\ account' \in [Streams -> Checkpoint]
  /\ \A s \in Streams : /\ account'[s].through = account[s].through
                        /\ Received(s) <= Received(s)'
                        /\ \A k \in 1..Received(s) : events'[s][k] = events[s][k]

LEMMA FactsKeep == BookInv /\ FactsGrow => BookInv'
<1> SUFFICES ASSUME BookInv, FactsGrow PROVE BookInv'
  OBVIOUS
<1> USE DEF BookInv
<1>1. /\ FactsTyped' /\ BookTyped' /\ book' = book /\ Known' = Known
      /\ \A s \in Streams : EntriesOf(s)' = EntriesOf(s) /\ BookedThrough(s)' = BookedThrough(s)
  BY DEF FactsGrow, BookTyped, Known, EntriesOf, BookedThrough
<1>2. \A s \in Streams : Received(s) \in Nat /\ Received(s)' \in Nat /\ Received(s) <= Received(s)'
  BY DEF FactsGrow, FactsTyped, Received
<1>3. \A i \in DOMAIN book : book[i].through \in Nat /\ book[i].after \in Nat
  <2>1. \A i \in DOMAIN book : book[i] \in Entries
    BY DEF BookTyped
  <2> QED
    BY <2>1 DEF Entries
<1>4. Proper'
  BY <1>1, <1>2, <1>3 DEF Proper
<1>5. ASSUME NEW s \in Streams, NEW k \in 1..Received(s) PROVE Material(s, k)' <=> Material(s, k)
  <2>1. events'[s][k] = events[s][k] /\ (k > 1 => k - 1 \in 1..Received(s))
    BY <1>2 DEF FactsGrow
  <2>2. k > 1 => events'[s][k - 1] = events[s][k - 1]
    BY <2>1 DEF FactsGrow
  <2> QED
    BY <2>1, <2>2 DEF Material, Regressed
<1>6. ASSUME NEW s \in Streams, NEW a \in Nat, NEW n \in Nat, n <= Received(s)
      PROVE  SegmentFills(s, a, n)' = SegmentFills(s, a, n)
  <2>1. \A k \in a + 1 .. n : events'[s][k] = events[s][k]
    BY <1>2, <1>6 DEF FactsGrow
  <2>2. {k \in a + 1 .. n : events'[s][k].kind = "Trade"} = {k \in a + 1 .. n : events[s][k].kind = "Trade"}
    BY <2>1
  <2> QED
    BY <2>1, <2>2 DEF SegmentFills
<1>7. Counted'
  <2>1. ASSUME NEW i \in DOMAIN book, book[i].stream \in Streams
        PROVE  SegmentFills(book[i].stream, book[i].after, book[i].through)' \subseteq Known'
    <3>1. book[i].through <= Received(book[i].stream)
      BY <2>1 DEF Proper
    <3>2. \A a, n : SegmentFills(book[i].stream, a, n)' =
            {events'[book[i].stream][k].fill :
                 k \in {k \in a + 1 .. n : events'[book[i].stream][k].kind = "Trade"}}
      BY <1>1 DEF SegmentFills
    <3> QED
      BY <1>1, <1>3, <1>6, <2>1, <3>1, <3>2 DEF Counted
  <2> QED
    BY <1>1, <2>1 DEF Counted
<1>8. \A s \in Streams : BookedThrough(s) \in Nat /\ BookedThrough(s) <= Received(s)
  BY BookedThroughIs DEF AllGreatest, Greatest
<1>9. Covered'
  BY <1>1, <1>2, <1>5, <1>8 DEF Covered
<1>10. Passed'
  <2>1. \A s \in Streams : account[s].through \in Nat /\ account[s].through <= Received(s)
    BY DEF BookTyped, Checkpoint, Passed
  <2>2. \A s \in Streams : account'[s].through = account[s].through
    BY DEF FactsGrow
  <2> QED
    BY <1>1, <1>2, <1>5, <1>8, <2>1, <2>2 DEF Passed
<1> QED
  BY <1>1, <1>4, <1>7, <1>9, <1>10
LEMMA BindGrows ==
  ASSUME BookInv, NEW s \in Streams, Bind(s),
         UNCHANGED <<clock, executed, events, queries, baseline, book>>
  PROVE  FactsGrow
<1>1. account' = [account EXCEPT ![s].bound = TRUE] /\ account \in [Streams -> Checkpoint]
  BY DEF Bind, BookInv, BookTyped
<1>2. account' \in [Streams -> Checkpoint] /\ \A r \in Streams : account'[r].through = account[r].through
  BY <1>1 DEF Checkpoint
<1>3. FactsTyped' /\ \A r \in Streams : Received(r)' = Received(r) /\ Received(r) \in Nat
  BY DEF BookInv, FactsTyped, Received
<1> QED
  BY <1>2, <1>3 DEF FactsGrow

LEMMA OutsideGrows ==
  ASSUME BookInv, \/ UNCHANGED accountVars \/ Establish \/ BeginQuery
                  \/ \E f \in Fills : Execute(f)
                  \/ \E q \in DOMAIN queries : FinishQuery(q)
  PROVE  FactsGrow
<1>1. events' = events /\ account' = account /\ book' = book
  BY DEF accountVars, Establish, BeginQuery, Execute, FinishQuery
<1>2. /\ clock \in Nat /\ executed \subseteq Fills /\ baseline \in Nat
      /\ queries \in Seq(Queries) /\ Len(queries) <= MaxQueries
  BY DEF BookInv, FactsTyped
<1> DEFINE Typed == /\ clock' \in Nat /\ executed' \subseteq Fills /\ baseline' \in Nat
                   /\ queries' \in Seq(Queries) /\ Len(queries') <= MaxQueries
<1>3. Typed
  <2>1. CASE UNCHANGED accountVars
    BY <1>2, <2>1 DEF accountVars
  <2>2. CASE Establish
    BY <1>2, <2>2 DEF Establish, Tick
  <2>3. CASE BeginQuery
    <3>1. [begun |-> Tick, ended |-> 0, complete |-> FALSE, fills |-> {}] \in Queries
      BY <1>2 DEF Queries, Tick
    <3>2. MaxQueries \in Nat
      BY StreamAssumption DEF StreamAssumption
    <3> QED
      BY <1>2, <2>3, <3>1, <3>2 DEF BeginQuery, Tick
  <2>4. ASSUME NEW f \in Fills, Execute(f) PROVE Typed
    BY <1>2, <2>4 DEF Execute
  <2>5. ASSUME NEW q \in DOMAIN queries, FinishQuery(q) PROVE Typed
    <3>1. PICK whole \in BOOLEAN :
            queries' = [queries EXCEPT ![q].ended = Tick, ![q].complete = whole,
                                       ![q].fills = IF whole THEN executed ELSE {}]
      BY <2>5 DEF FinishQuery
    <3>2. queries \in [1..Len(queries) -> Queries] /\ Len(queries) \in Nat /\ q \in 1..Len(queries)
      BY <1>2
    <3>3. Tick \in Nat /\ (IF whole THEN executed ELSE {}) \in SUBSET Fills
      BY <1>2 DEF Tick
    <3>4. queries' \in [1..Len(queries) -> Queries]
      BY <3>1, <3>2, <3>3 DEF Queries
    <3>5. queries' \in Seq(Queries) /\ Len(queries') = Len(queries)
      BY <3>2, <3>4
    <3> QED
      BY <1>2, <2>5, <3>3, <3>5 DEF FinishQuery
  <2> QED
    BY <2>1, <2>2, <2>3, <2>4, <2>5
<1> QED
  BY <1>1, <1>3 DEF FactsGrow, BookInv, FactsTyped, BookTyped, Received

LEMMA RetainGrows ==
  ASSUME BookInv, NEW s \in Streams, NEW kind \in Kinds, NEW fill \in Fills \union {NoFill},
         NEW received \in Int, (kind = "Trade") <=> (fill # NoFill),
         Retain(s, kind, fill, received), UNCHANGED <<account, queries, baseline, book>>
  PROVE  /\ FactsGrow /\ Received(s)' = Received(s) + 1
         /\ \A r \in Streams \ {s} : events'[r] = events[r]
<1> DEFINE new == [kind |-> kind, fill |-> fill, received |-> received, committed |-> Tick]
<1>1. /\ clock \in Nat /\ executed \subseteq Fills /\ events \in [Streams -> Seq(Callbacks)]
      /\ \A r \in Streams : Received(r) <= MaxEvents /\ Received(r) \in Nat
      /\ \A r \in Streams : \A k \in 1..Received(r) : events[r][k].kind = "Trade" => events[r][k].fill # NoFill
  BY DEF BookInv, FactsTyped, Received
<1>2. new \in Callbacks /\ Tick \in Nat
  BY <1>1 DEF Callbacks, Tick
<1>3. /\ events' = [events EXCEPT ![s] = Append(events[s], new)] /\ clock' = Tick
      /\ Received(s) < MaxEvents /\ MaxEvents \in Nat
      /\ executed' = IF kind = "Trade" THEN executed \union {fill} ELSE executed
  BY StreamAssumption DEF Retain, StreamAssumption
<1>4. new.kind = "Trade" => new.fill # NoFill
  OBVIOUS
<1> HIDE DEF new
<1>5. /\ events' \in [Streams -> Seq(Callbacks)]
      /\ Received(s)' = Received(s) + 1
      /\ \A k \in 1..Received(s) : events'[s][k] = events[s][k]
      /\ events'[s][Received(s) + 1] = new
      /\ \A r \in Streams \ {s} : events'[r] = events[r]
  BY <1>1, <1>2, <1>3 DEF Received
<1>6. \A r \in Streams \ {s} : Received(r)' = Received(r)
  BY <1>5 DEF Received
<1>7. \A k \in 1..Received(s)' : events'[s][k].kind = "Trade" => events'[s][k].fill # NoFill
  <2>1. \A k \in 1..Received(s)' : k \in 1..Received(s) \/ k = Received(s) + 1
    BY <1>1, <1>5
  <2> QED
    BY <1>1, <1>4, <1>5, <2>1
<1>8. \A r \in Streams : Received(r)' <= MaxEvents
  BY <1>1, <1>3, <1>5, <1>6
<1>9. executed' \subseteq Fills
  BY <1>1, <1>3
<1>10. FactsTyped'
  <2>1. \A r \in Streams : \A k \in 1..Received(r)' : events'[r][k].kind = "Trade" => events'[r][k].fill # NoFill
    BY <1>1, <1>5, <1>6, <1>7, SMTT(30)
  <2> QED
    BY <1>2, <1>3, <1>5, <1>8, <1>9, <2>1 DEF BookInv, FactsTyped
<1>11. account' \in [Streams -> Checkpoint]
  BY DEF BookInv, BookTyped
<1>12. ASSUME NEW r \in Streams
       PROVE  /\ account'[r].through = account[r].through /\ Received(r) <= Received(r)'
              /\ \A k \in 1..Received(r) : events'[r][k] = events[r][k]
  <2>1. CASE r = s
    BY <1>1, <1>5, <2>1
  <2>2. CASE r # s
    BY <1>1, <1>5, <1>6, <2>2
  <2> QED
    BY <2>1, <2>2
<1>13. FactsGrow
  BY <1>10, <1>11, <1>12 DEF FactsGrow
<1> QED
  BY <1>5, <1>13

-----------------------------------------------------------------------------
(* The opening, and what the invariant says of the two properties. *)

LEMMA BookOpens == InitAccount => BookInv
<1> SUFFICES ASSUME InitAccount PROVE BookInv
  OBVIOUS
<1> USE DEF InitAccount
<1>1. /\ << >> \in Seq(Callbacks) /\ << >> \in Seq(Entries)
      /\ Unbound \in Checkpoint /\ Unbound.through = 0
  BY DEF Unbound, Checkpoint
<1>2. \A s \in Streams : events[s] = << >> /\ Received(s) = 0 /\ account[s] = Unbound
  BY DEF Received
<1>3. queries \in Seq(Queries) /\ Len(queries) <= MaxQueries
  <2>1. [begun |-> 2, ended |-> 4, complete |-> TRUE, fills |-> {}] \in Queries
    BY DEF Queries
  <2>2. Len(queries) = 1
    OBVIOUS
  <2> QED
    BY <2>1, <2>2, StreamAssumption DEF StreamAssumption
<1>4. FactsTyped /\ BookTyped
  <2>1. events \in [Streams -> Seq(Callbacks)] /\ account \in [Streams -> Checkpoint]
    BY <1>1
  <2>2. MaxEvents \in Nat
    BY StreamAssumption DEF StreamAssumption
  <2> QED
    BY <1>1, <1>2, <1>3, <2>1, <2>2 DEF FactsTyped, BookTyped
<1>5. DOMAIN book = {}
  OBVIOUS
<1>6. Proper /\ Counted
  BY <1>5 DEF Proper, Counted
<1>7. \A s \in Streams : BookedThrough(s) = 0
  <2>1. \A s \in Streams : Greatest(s) /\ Received(s) = 0
    BY <1>2, <1>4, <1>6, BookedThroughIs DEF AllGreatest
  <2> QED
    BY <2>1 DEF Greatest
<1>8. Covered /\ Passed
  BY <1>1, <1>2, <1>7 DEF Covered, Passed
<1> QED
  BY <1>4, <1>6, <1>8 DEF BookInv

(* The callbacks up to n that reach an entry are in one entry. *)
LEMMA OneEntry ==
  ASSUME BookInv, NEW s \in Streams, NEW k \in 1..BookedThrough(s), Material(s, k)
  PROVE  Cardinality({i \in EntriesOf(s) : book[i].after < k /\ k <= book[i].through}) = 1
<1> DEFINE S == {i \in EntriesOf(s) : book[i].after < k /\ k <= book[i].through}
<1>1. PICK i \in EntriesOf(s) : book[i].after < k /\ k <= book[i].through
  BY DEF BookInv, Covered
<1>2. BookedThrough(s) \in Nat
  BY BookedThroughIs DEF BookInv, AllGreatest, Greatest
<1>3. ASSUME NEW m \in EntriesOf(s), NEW j \in EntriesOf(s), m < j,
             book[m].after < k /\ k <= book[m].through, book[j].after < k /\ k <= book[j].through
      PROVE  FALSE
  <2>1. m \in DOMAIN book /\ j \in DOMAIN book /\ book[m].stream = s /\ book[j].stream = s
    BY DEF EntriesOf
  <2>2. book[m].through <= book[j].after
    BY <1>3, <2>1 DEF BookInv, Proper
  <2>3. book[m] \in Entries /\ book[j] \in Entries
    BY <2>1 DEF BookInv, BookTyped
  <2>4. book[m].through \in Nat /\ book[j].after \in Nat
    BY <2>3 DEF Entries
  <2> QED
    BY <1>2, <1>3, <2>2, <2>4
<1>4. \A j \in S : j = i
  <2> SUFFICES ASSUME NEW j \in S, j # i PROVE FALSE
    OBVIOUS
  <2>1. i \in Nat /\ j \in Nat
    BY DEF EntriesOf, BookInv, BookTyped
  <2> QED
    BY <1>1, <1>3, <2>1
<1>5. S = {i}
  BY <1>1, <1>4
<1> QED
  BY <1>5, FS_Singleton

LEMMA FillOnce ==
  ASSUME BookInv, NEW f PROVE Cardinality({i \in DOMAIN book : f \in book[i].fills}) <= 1
<1> DEFINE S == {i \in DOMAIN book : f \in book[i].fills}
<1>1. \A i, j \in S : i = j
  BY DEF BookInv, Counted
<1>2. CASE S = {}
  BY <1>2, FS_EmptySet
<1>3. CASE S # {}
  <2>1. PICK i \in S : TRUE
    BY <1>3
  <2>2. S = {i}
    BY <1>1, <2>1
  <2>3. Cardinality(S) = 1
    BY <2>2, FS_Singleton
  <2> QED
    BY <2>3
<1> QED
  BY <1>2, <1>3

PassedKnown == \A s \in Streams : SegmentFills(s, 0, account[s].through) \subseteq Known

LEMMA PassedFills == BookInv => PassedKnown
<1> SUFFICES ASSUME BookInv, NEW s \in Streams, NEW k \in 1..account[s].through, events[s][k].kind = "Trade"
             PROVE  events[s][k].fill \in Known
  BY DEF PassedKnown, SegmentFills
<1>1. account[s].through \in Nat /\ BookedThrough(s) \in Nat /\ k \in Nat
  BY BookedThroughIs DEF BookInv, AllGreatest, Greatest, BookTyped, Checkpoint
<1>2. k \in 1..BookedThrough(s) /\ Material(s, k)
  BY <1>1 DEF BookInv, Passed, Material
<1>3. PICK i \in EntriesOf(s) : book[i].after < k /\ k <= book[i].through
  BY <1>2 DEF BookInv, Covered
<1>4. i \in DOMAIN book /\ book[i].stream = s
  BY DEF EntriesOf
<1>5. book[i].after \in Nat /\ book[i].through \in Nat
  <2>1. book[i] \in Entries
    BY <1>4 DEF BookInv, BookTyped
  <2> QED
    BY <2>1 DEF Entries
<1>6. events[s][k].fill \in SegmentFills(s, book[i].after, book[i].through)
  <2>1. k \in book[i].after + 1 .. book[i].through
    BY <1>1, <1>3, <1>5
  <2> QED
    BY <1>5, <2>1, FillsWithin
<1> QED
  BY <1>4, <1>6 DEF BookInv, Counted


-----------------------------------------------------------------------------
(* The inductive invariant. *)

Rows == [status : {"ABSENT"} \union Active \union Terminal, paused : BOOLEAN,
         error : BOOLEAN, cursor : 0..MaxEvents, decided : SUBSET (1..MaxEvents)]
Workers == [pc : {"NONE", "CREATED", "CONNECTING", "POLLING", "RECEIVING", "ENDING"} \union Accepting,
            seen : {"UNBOUND", "WAITING", "READY", "UNKNOWN"},
            stopping : BOOLEAN, failed : BOOLEAN]
Holders == {Nobody} \union ({"stream"} \X Streams) \union ({"query"} \X (1..MaxQueries))

ProcessesTyped ==
  /\ row \in [Streams -> Rows] /\ worker \in [Streams -> Workers]
  /\ streamLock \in Holders /\ accountLock \in Holders
  /\ asking \in 0..MaxQueries /\ closing \in BOOLEAN /\ crashes \in 0..MaxCrashes

(* The query in flight holds the account. *)
Uses == AccountHasOneUser /\ (asking # 0 => accountLock = <<"query", asking>>)

(* A stream with a receiver is active, one that ended is paused.  What was
   projected was retained; behind an error that was projected nothing is
   decided and nothing resumes. *)
ErrorKinds == {"TdLost", "MdLost", "Foreign"}
StreamShadow(s) ==
  /\ At(s, {"NONE"}) \/ row[s].status \in Active
  /\ row[s].cursor <= Received(s)
  /\ row[s].decided \subseteq 1..row[s].cursor
  /\ ~row[s].error => \A k \in 1..row[s].cursor : events[s][k].kind \notin ErrorKinds
  /\ row[s].status \in Terminal => row[s].paused /\ ~Running(s)
  /\ ~row[s].paused => ~row[s].error /\ row[s].status # "STOP_REQUESTED"
  /\ \A n \in row[s].decided : \A k \in 1..n : events[s][k].kind \notin ErrorKinds
Shadowed == \A s \in Streams : StreamShadow(s)

LiveInv == BookInv /\ ProcessesTyped /\ Uses /\ Shadowed

-----------------------------------------------------------------------------
(* The steps one by one: what a lemma splits a step into. *)
LEMMA Steps ==
  ASSUME Next
  PROVE  \/ \E s \in Streams :
              \/ Launch(s) \/ StartFails(s) \/ Connect(s) \/ Poll(s) \/ Deadline(s)
              \/ Finish(s) \/ Fault(s) \/ Ended(s) \/ BookCallback(s) \/ Project(s)
              \/ Create(s) \/ Resume(s) \/ CatchupBind(s)
              \/ \E action \in {"PAUSE", "STOP"} : Control(s, action)
              \/ \E n \in 1..MaxEvents : CatchupAdvance(s, n)
              \/ \E kind \in Kinds, fill \in Fills \union {NoFill}, late \in BOOLEAN :
                   Receive(s, kind, fill, late)
         \/ StartQuery \/ (\E q \in DOMAIN queries : EndQuery(q)) \/ Beside
         \/ Close \/ Restart \/ Crash
  BY StreamAssumption, ZenonT(40) DEF StreamAssumption, Next, Receiver, Arrival, Request

(* A callback is appended to one stream; its receipt time is an integer. *)
LEMMA ReceivedInt ==
  ASSUME BookInv, NEW s \in Streams, NEW kind, NEW fill, NEW late \in BOOLEAN, Receive(s, kind, fill, late)
  PROVE  (IF late THEN events[s][Received(s)].received - 1 ELSE Tick) \in Int
<1>1. events[s] \in Seq(Callbacks) /\ clock \in Nat
  BY DEF BookInv, FactsTyped
<1>2. CASE late
  <2>1. Received(s) \in 1..Received(s)
    BY <1>1, <1>2 DEF Receive, Received
  <2>2. events[s][Received(s)] \in Callbacks
    BY <1>1, <2>1 DEF Received
  <2> QED
    BY <1>2, <2>2 DEF Callbacks
<1>3. CASE ~late
  BY <1>1, <1>3 DEF Tick
<1> QED
  BY <1>2, <1>3

LEMMA ReceiveGrows ==
  ASSUME BookInv, NEW s \in Streams, NEW kind \in Kinds, NEW fill \in Fills \union {NoFill},
         NEW late \in BOOLEAN, Receive(s, kind, fill, late)
  PROVE  /\ FactsGrow /\ Received(s)' = Received(s) + 1
         /\ \A r \in Streams \ {s} : events'[r] = events[r]
<1> DEFINE received == IF late THEN events[s][Received(s)].received - 1 ELSE Tick
<1>1. received \in Int
  BY ReceivedInt
<1>2. /\ (kind = "Trade") <=> (fill # NoFill)
      /\ Retain(s, kind, fill, received) /\ UNCHANGED <<account, queries, baseline, book>>
  BY DEF Receive
<1> HIDE DEF received
<1> QED
  BY <1>1, <1>2, RetainGrows

(* What a step does to the account and the book. *)
LEMMA FactsStay ==
  ASSUME BookInv, ProcessesTyped, [Next]_vars PROVE BookInv'
<1>1. ASSUME FactsGrow PROVE BookInv'
  BY <1>1, FactsKeep
<1>2. ASSUME UNCHANGED accountVars PROVE BookInv'
  BY <1>1, <1>2, OutsideGrows
<1>3. ASSUME NEW s \in Streams,
             \/ StartFails(s) \/ Connect(s) \/ Poll(s) \/ Deadline(s)
             \/ Finish(s) \/ Fault(s) \/ Ended(s) \/ Project(s) \/ Create(s) \/ Resume(s)
             \/ \E action \in {"PAUSE", "STOP"} : Control(s, action)
      PROVE  BookInv'
  BY <1>2, <1>3 DEF StartFails, Connect, Poll, Deadline, Finish, Fault, Ended, End, Project, Create,
                    Resume, Control
<1>4. ASSUME NEW s \in Streams, Launch(s) \/ CatchupBind(s) PROVE BookInv'
  <2>1. UNCHANGED <<clock, executed, events, queries, baseline, book>> /\ (Bind(s) \/ account' = account)
    BY <1>4 DEF Launch, CatchupBind
  <2>2. CASE Bind(s)
    BY <1>1, <2>1, <2>2, BindGrows
  <2>3. CASE account' = account
    BY <1>2, <2>1, <2>3 DEF accountVars
  <2> QED
    BY <2>1, <2>2, <2>3
<1>5. ASSUME NEW s \in Streams, BookCallback(s) PROVE BookInv'
  <2>1. UNCHANGED <<clock, executed, events, queries, baseline>>
    BY <1>5 DEF BookCallback
  <2>2. Received(s) \in Nat
    BY DEF BookInv, FactsTyped, Received
  <2>3. Advance(s, Received(s)) \/ UNCHANGED <<account, book>>
    BY <1>5 DEF BookCallback
  <2>4. CASE Advance(s, Received(s))
    BY <2>1, <2>2, <2>4, AdvanceKeeps
  <2>5. CASE UNCHANGED <<account, book>>
    BY <1>2, <2>1, <2>5 DEF accountVars
  <2> QED
    BY <2>3, <2>4, <2>5
<1>6. ASSUME NEW s \in Streams, NEW n \in 1..MaxEvents, CatchupAdvance(s, n) PROVE BookInv'
  BY <1>6, AdvanceKeeps DEF CatchupAdvance
<1>7. ASSUME NEW s \in Streams, NEW kind \in Kinds, NEW fill \in Fills \union {NoFill},
             NEW late \in BOOLEAN, Receive(s, kind, fill, late)
      PROVE  BookInv'
  BY <1>1, <1>7, ReceiveGrows
<1>8. CASE StartQuery
  BY <1>1, <1>8, OutsideGrows DEF StartQuery
<1>9. ASSUME NEW q \in DOMAIN queries, EndQuery(q) PROVE BookInv'
  <2>1. FinishQuery(q)
    BY <1>9 DEF EndQuery
  <2> QED
    BY <1>1, <2>1, OutsideGrows
<1>10. CASE Beside
  <2>1. CASE Establish \/ \E f \in Fills : Execute(f)
    BY <1>1, <2>1, OutsideGrows
  <2>2. ASSUME NEW q \in DOMAIN queries, IngestQuery(q) PROVE BookInv'
    BY <2>2, QueryKeeps
  <2>3. ASSUME NEW s \in Streams, NEW n \in 1..Received(s), IngestPrefix(s, n) PROVE BookInv'
    BY <2>3, PrefixKeeps
  <2> QED
    BY <1>10, <2>1, <2>2, <2>3 DEF Beside
<1>11. CASE Close \/ Restart \/ Crash
  BY <1>2, <1>11 DEF Close, Restart, Crash, Restarted
<1>12. CASE UNCHANGED vars
  BY <1>2, <1>12 DEF vars
<1> QED
  BY <1>3, <1>4, <1>5, <1>6, <1>7, <1>8, <1>9, <1>10, <1>11, <1>12, Steps
-----------------------------------------------------------------------------
(* Who runs and who holds which lock. *)

LEMMA Types ==
  ASSUME BookInv, ProcessesTyped
  PROVE  /\ \A s \in Streams : Received(s) \in 0..MaxEvents /\ events[s] \in Seq(Callbacks)
         /\ \A s \in Streams : View(s) \in {"UNBOUND", "WAITING", "READY", "UNKNOWN"}
         /\ NoWorker \in Workers /\ NoRow \in Rows /\ Nobody \in Holders
         /\ \A s \in Streams : <<"stream", s>> \in Holders
         /\ MaxEvents \in Nat /\ MaxQueries \in Nat \ {0}
<1>1. MaxEvents \in Nat /\ MaxQueries \in Nat \ {0}
  BY StreamAssumption DEF StreamAssumption
<1>2. \A s \in Streams : Received(s) \in 0..MaxEvents /\ events[s] \in Seq(Callbacks)
  BY <1>1 DEF BookInv, FactsTyped, Received
<1>3. \A s \in Streams : account[s].status \in {"WAITING", "READY", "UNKNOWN"}
  BY DEF BookInv, BookTyped, Checkpoint
<1>4. \A s \in Streams : View(s) \in {"UNBOUND", "WAITING", "READY", "UNKNOWN"}
  BY <1>3 DEF View
<1>5. NoWorker \in Workers /\ NoRow \in Rows /\ Nobody \in Holders
  BY <1>1 DEF NoWorker, NoRow, Workers, Rows, Holders
<1>6. \A s \in Streams : <<"stream", s>> \in Holders
  BY DEF Holders
<1> QED
  BY <1>1, <1>2, <1>4, <1>5, <1>6

LEMMA ProcessesStay ==
  ASSUME BookInv, ProcessesTyped, [Next]_vars, BookInv' PROVE ProcessesTyped'
<1> USE DEF Goto, At, Terminal, Active, Accepting
<1>1. /\ row \in [Streams -> Rows] /\ worker \in [Streams -> Workers]
      /\ streamLock \in Holders /\ accountLock \in Holders
      /\ asking \in 0..MaxQueries /\ closing \in BOOLEAN /\ crashes \in 0..MaxCrashes
  BY DEF ProcessesTyped
<1>2. /\ NoWorker \in Workers /\ Nobody \in Holders /\ MaxEvents \in Nat /\ MaxQueries \in Nat \ {0}
      /\ \A s \in Streams : <<"stream", s>> \in Holders
  BY Types
<1>3. ASSUME UNCHANGED <<streamLock, accountLock, asking, closing, crashes>>,
             row' \in [Streams -> Rows], worker' \in [Streams -> Workers]
      PROVE  ProcessesTyped'
  BY <1>1, <1>3 DEF ProcessesTyped
<1>4. ASSUME row' = row, worker' = worker, UNCHANGED <<streamLock, accountLock, asking, closing, crashes>>
      PROVE  ProcessesTyped'
  BY <1>1, <1>3, <1>4
<1>5. ASSUME NEW s \in Streams, NEW p \in {"CREATED", "CONNECTING", "POLLING", "RECEIVING", "ENDING"} \union Accepting,
             worker' = [worker EXCEPT ![s].pc = p]
      PROVE  worker' \in [Streams -> Workers]
  BY <1>1, <1>5 DEF Workers
<1>6. ASSUME NEW s \in Streams, Launch(s) PROVE ProcessesTyped'
  BY <1>1, <1>3, <1>5, <1>6 DEF Launch
<1>7. ASSUME NEW s \in Streams, NEW status \in Terminal, End(s, status) PROVE ProcessesTyped'
  BY <1>1, <1>2, <1>7 DEF End, Rows, ProcessesTyped
<1>8. ASSUME NEW s \in Streams, StartFails(s) \/ Ended(s) PROVE ProcessesTyped'
  BY <1>7, <1>8 DEF StartFails, Ended
<1>9. ASSUME NEW s \in Streams, Connect(s) PROVE ProcessesTyped'
  <2>1. PICK status \in Active \union {row[s].status} : row' = [row EXCEPT ![s].status = status]
    BY <1>9 DEF Connect
  <2>2. row' \in [Streams -> Rows]
    BY <1>1, <2>1 DEF Rows
  <2> QED
    BY <1>3, <1>5, <1>9, <2>2 DEF Connect
<1>10. ASSUME NEW s \in Streams, Poll(s) PROVE ProcessesTyped'
  <2>1. row' = row \/ row' = [row EXCEPT ![s].paused = TRUE]
    BY <1>10 DEF Poll
  <2>2. row' \in [Streams -> Rows]
    BY <1>1, <2>1, ZenonT(40) DEF Rows
  <2>3. PICK p \in {"ENDING", "RECEIVING", worker[s].pc} :
          \/ worker' = [worker EXCEPT ![s].pc = p, ![s].stopping = TRUE]
          \/ worker' = [worker EXCEPT ![s].pc = p]
    BY <1>10 DEF Poll
  <2>4. p \in {"NONE", "CREATED", "CONNECTING", "POLLING", "RECEIVING", "ENDING"} \union Accepting
    BY <1>1, <2>3 DEF Workers
  <2>5. worker' \in [Streams -> Workers]
    BY <1>1, <2>3, <2>4 DEF Workers
  <2> QED
    BY <1>3, <1>10, <2>2, <2>5 DEF Poll
<1>11. ASSUME NEW s \in Streams, Deadline(s) \/ Finish(s) \/ Fault(s) PROVE ProcessesTyped'
  <2>1. \/ worker' = [worker EXCEPT ![s].pc = "ENDING"]
        \/ worker' = [worker EXCEPT ![s].stopping = TRUE]
        \/ worker' = [worker EXCEPT ![s].pc = "ENDING", ![s].failed = TRUE]
    BY <1>11 DEF Deadline, Finish, Fault
  <2>2. ASSUME worker' = [worker EXCEPT ![s].stopping = TRUE] PROVE worker' \in [Streams -> Workers]
    BY <1>1, <2>2 DEF Workers
  <2>3. ASSUME worker' = [worker EXCEPT ![s].pc = "ENDING", ![s].failed = TRUE]
        PROVE  worker' \in [Streams -> Workers]
    BY <1>1, <2>3, ZenonT(40) DEF Workers
  <2>4. worker' \in [Streams -> Workers]
    BY <1>5, <2>1, <2>2, <2>3
  <2> QED
    BY <1>1, <1>3, <1>11, <2>4 DEF Deadline, Finish, Fault
<1>12. ASSUME NEW s \in Streams, BookCallback(s) PROVE ProcessesTyped'
  <2>1. account' \in [Streams -> Checkpoint]
    BY DEF BookInv, BookTyped
  <2>2. account'[s].status \in {"WAITING", "READY", "UNKNOWN"}
    BY <2>1 DEF Checkpoint
  <2>3. View(s)' \in {"UNBOUND", "WAITING", "READY", "UNKNOWN"}
    BY <2>2 DEF View
  <2>4. worker' = [worker EXCEPT ![s].pc = "BOOKED", ![s].seen = View(s)']
    BY <1>12 DEF BookCallback
  <2>5. worker' \in [Streams -> Workers]
    BY <1>1, <2>3, <2>4, ZenonT(40) DEF Workers
  <2> QED
    BY <1>1, <1>3, <1>12, <2>5 DEF BookCallback
<1>13. ASSUME NEW s \in Streams, Project(s) PROVE ProcessesTyped'
  <2>1. Received(s) \in 0..MaxEvents /\ row[s].cursor = Received(s) - 1 /\ row[s] \in Rows
    BY <1>1, <1>13, Types DEF Project
  <2>2. Received(s) \in 1..MaxEvents
    BY <1>2, <2>1 DEF Rows
  <2>3. PICK halt \in BOOLEAN, error \in BOOLEAN, pause \in BOOLEAN, quote \in BOOLEAN :
          row' = [row EXCEPT ![s].cursor = Received(s), ![s].error = row[s].error \/ error,
                             ![s].paused = row[s].paused \/ pause \/ halt,
                             ![s].decided = IF quote /\ ~halt THEN row[s].decided \union {Received(s)}
                                            ELSE row[s].decided]
    BY <1>13 DEF Project, ShadowStep
  <2>4. PICK b, c, d : /\ b \in BOOLEAN /\ c \in BOOLEAN /\ d \in SUBSET (1..MaxEvents)
                       /\ row' = [row EXCEPT ![s].cursor = Received(s), ![s].error = b,
                                             ![s].paused = c, ![s].decided = d]
    <3>1. (row[s].error \/ error) \in BOOLEAN /\ (row[s].paused \/ pause \/ halt) \in BOOLEAN
      OBVIOUS
    <3>2. (IF quote /\ ~halt THEN row[s].decided \union {Received(s)} ELSE row[s].decided)
            \in SUBSET (1..MaxEvents)
      BY <2>1, <2>2 DEF Rows
    <3> QED
      BY <2>3, <3>1, <3>2
  <2>5. row' \in [Streams -> Rows]
    BY <1>1, <2>1, <2>4 DEF Rows
  <2> QED
    BY <1>3, <1>5, <1>13, <2>5 DEF Project
<1>14. ASSUME NEW s \in Streams, Create(s) PROVE ProcessesTyped'
  <2>1. row' \in [Streams -> Rows]
    BY <1>1, <1>14 DEF Create, Rows
  <2> QED
    BY <1>1, <1>2, <1>5, <1>14, <2>1 DEF Create, ProcessesTyped
<1>15. ASSUME NEW s \in Streams, NEW action, Resume(s) \/ Control(s, action) PROVE ProcessesTyped'
  <2>1. PICK b \in BOOLEAN, status \in {"STOP_REQUESTED", row[s].status} :
          row' = [row EXCEPT ![s].paused = b, ![s].status = status] \/ row' = [row EXCEPT ![s].paused = b]
    BY <1>15 DEF Resume, Control
  <2>2. row' \in [Streams -> Rows]
    BY <1>1, <2>1 DEF Rows
  <2> QED
    BY <1>1, <1>3, <1>15, <2>2 DEF Resume, Control, procVars
<1>16. ASSUME NEW s \in Streams, NEW n, CatchupBind(s) \/ CatchupAdvance(s, n) PROVE ProcessesTyped'
  BY <1>4, <1>16 DEF CatchupBind, CatchupAdvance, procVars
<1>17. ASSUME NEW s \in Streams, NEW kind, NEW fill, NEW late, Receive(s, kind, fill, late)
       PROVE  ProcessesTyped'
  BY <1>1, <1>3, <1>5, <1>17 DEF Receive
<1>18. CASE StartQuery
  <2>1. Len(queries) + 1 \in 1..MaxQueries
    BY <1>18, <1>2 DEF StartQuery, BeginQuery, BookInv, FactsTyped
  <2>2. <<"query", Len(queries) + 1>> \in Holders
    BY <2>1 DEF Holders
  <2> QED
    BY <1>1, <1>2, <1>18, <2>1, <2>2 DEF StartQuery, ProcessesTyped
<1>19. ASSUME NEW q \in DOMAIN queries, EndQuery(q) PROVE ProcessesTyped'
  BY <1>1, <1>2, <1>19 DEF EndQuery, ProcessesTyped
<1>20. CASE Beside \/ UNCHANGED vars
  BY <1>4, <1>20 DEF Beside, vars, procVars
<1>21. CASE Close
  BY <1>1, <1>21 DEF Close, ProcessesTyped
<1>22. CASE Restart \/ Crash
  <2>1. crashes' \in 0..MaxCrashes
    BY <1>1, <1>22, CrashAssumption DEF Restart, Crash, CrashAssumption
  <2>2. row' = row /\ worker' = [s \in Streams |-> NoWorker] /\ streamLock' = Nobody
        /\ accountLock' = Nobody /\ asking' = 0 /\ closing' = FALSE
    BY <1>22 DEF Restart, Crash, Restarted
  <2>3. worker' \in [Streams -> Workers]
    BY <1>2, <2>2
  <2>4. asking' \in 0..MaxQueries
    BY <1>2, <2>2
  <2> QED
    BY <1>1, <1>2, <2>1, <2>2, <2>3, <2>4 DEF ProcessesTyped
<1> QED
  BY <1>6, <1>8, <1>9, <1>10, <1>11, <1>12, <1>13, <1>14, <1>15, <1>16, <1>17, <1>18, <1>19, <1>20,
     <1>21, <1>22, Steps
LEMMA UsesStay ==
  ASSUME BookInv, ProcessesTyped, Uses, [Next]_vars PROVE Uses'
<1> USE DEF Goto, At
<1>1. /\ worker \in [Streams -> Workers] /\ \A s \in Streams : worker[s] \in Workers
      /\ NoWorker.pc = "NONE" /\ queries \in Seq(Queries)
  BY DEF ProcessesTyped, NoWorker, BookInv, FactsTyped
<1>2. ASSUME \A s \in Streams : At(s, {"NONE"})' <=> At(s, {"NONE"}),
             UNCHANGED <<streamLock, accountLock, asking>>
      PROVE  Uses'
  BY <1>2 DEF Uses, AccountHasOneUser
<1>3. ASSUME UNCHANGED <<worker, streamLock, accountLock, asking>> PROVE Uses'
  BY <1>2, <1>3
<1>4. ASSUME NEW s \in Streams, ~At(s, {"NONE"}), worker'[s].pc # "NONE",
             \A r \in Streams \ {s} : worker'[r] = worker[r],
             UNCHANGED <<streamLock, accountLock, asking>>
      PROVE  Uses'
  BY <1>2, <1>4
<1>5. ASSUME NEW s \in Streams, ~At(s, {"NONE"}), NEW p, p # "NONE", worker' = [worker EXCEPT ![s].pc = p],
             UNCHANGED <<streamLock, accountLock, asking>>
      PROVE  Uses'
  <2>1. worker'[s].pc # "NONE" /\ \A r \in Streams \ {s} : worker'[r] = worker[r]
    BY <1>1, <1>5 DEF Workers
  <2> QED
    BY <1>4, <1>5, <2>1
<1>6. ASSUME NEW s \in Streams, Launch(s) \/ Connect(s) \/ Finish(s) \/ Project(s) PROVE Uses'
  <2>1. PICK p \in {"CONNECTING", "POLLING", "ENDING", "RECEIVING"} : worker' = [worker EXCEPT ![s].pc = p]
    BY <1>6 DEF Launch, Connect, Finish, Project
  <2>2. ~At(s, {"NONE"}) /\ UNCHANGED <<streamLock, accountLock, asking>> /\ p # "NONE"
    BY <1>6, <2>1 DEF Launch, Connect, Finish, Project
  <2> QED
    BY <1>5, <2>1, <2>2
<1>7. ASSUME NEW s \in Streams, Poll(s) \/ Deadline(s) \/ Fault(s) \/ BookCallback(s) PROVE Uses'
  <2>1. /\ ~At(s, {"NONE"}) /\ UNCHANGED <<streamLock, accountLock, asking>>
    BY <1>7 DEF Poll, Deadline, Fault, BookCallback, Accepting
  <2>2. ASSUME NEW p \in {"ENDING", "BOOKED", "RECEIVING", worker[s].pc},
               \/ worker' = [worker EXCEPT ![s].pc = p]
               \/ worker' = [worker EXCEPT ![s].stopping = TRUE]
               \/ worker' = [worker EXCEPT ![s].pc = p, ![s].stopping = TRUE]
               \/ worker' = [worker EXCEPT ![s].pc = p, ![s].failed = TRUE]
               \/ worker' = [worker EXCEPT ![s].pc = p, ![s].seen = View(s)']
        PROVE  worker'[s].pc \in {"ENDING", "BOOKED", "RECEIVING", worker[s].pc}
               /\ \A r \in Streams \ {s} : worker'[r] = worker[r]
    BY <1>1, <2>2 DEF Workers
  <2>3. \E p \in {"ENDING", "BOOKED", "RECEIVING", worker[s].pc} :
               \/ worker' = [worker EXCEPT ![s].pc = p]
               \/ worker' = [worker EXCEPT ![s].stopping = TRUE]
               \/ worker' = [worker EXCEPT ![s].pc = p, ![s].stopping = TRUE]
               \/ worker' = [worker EXCEPT ![s].pc = p, ![s].failed = TRUE]
               \/ worker' = [worker EXCEPT ![s].pc = p, ![s].seen = View(s)']
    BY <1>7 DEF Poll, Deadline, Fault, BookCallback
  <2> QED
    BY <1>4, <2>1, <2>2, <2>3
<1>8. ASSUME NEW s \in Streams, NEW kind, NEW fill, NEW late, Receive(s, kind, fill, late) PROVE Uses'
  BY <1>5, <1>8 DEF Receive
<1>9. ASSUME NEW s \in Streams, NEW status, ~At(s, {"NONE"}), End(s, status) PROVE Uses'
  <2>1. /\ worker'[s].pc = "NONE" /\ \A r \in Streams \ {s} : worker'[r] = worker[r]
        /\ streamLock' = Nobody /\ accountLock' = Nobody /\ asking' = asking
    BY <1>1, <1>9 DEF End
  <2>2. \A r \in Streams \ {s} : At(r, {"NONE"})
    BY <1>9 DEF Uses, AccountHasOneUser
  <2>3. \A r \in Streams : At(r, {"NONE"})'
    BY <2>1, <2>2
  <2>4. accountLock = <<"stream", s>>
    BY <1>9 DEF Uses, AccountHasOneUser
  <2>5. asking' = 0
    BY <2>1, <2>4 DEF Uses
  <2> QED
    BY <2>1, <2>3, <2>5 DEF Uses, AccountHasOneUser, Nobody
<1>10. ASSUME NEW s \in Streams, StartFails(s) \/ Ended(s) PROVE Uses'
  BY <1>9, <1>10 DEF StartFails, Ended
<1>11. ASSUME NEW s \in Streams, Create(s) PROVE Uses'
  <2>1. \A r \in Streams : At(r, {"NONE"})
    BY <1>11 DEF Create, Uses, AccountHasOneUser, Nobody
  <2>2. asking' = 0
    <3>1. <<"query", asking>> # Nobody
      BY DEF Nobody
    <3> QED
      BY <1>11, <3>1 DEF Create, Uses
  <2>3. /\ worker'[s].pc = "CREATED" /\ \A r \in Streams \ {s} : worker'[r] = worker[r]
        /\ streamLock' = <<"stream", s>> /\ accountLock' = <<"stream", s>>
    BY <1>1, <1>11 DEF Create, Workers
  <2> QED
    BY <2>1, <2>2, <2>3 DEF Uses, AccountHasOneUser
<1>12. ASSUME NEW s \in Streams, NEW x, Resume(s) \/ CatchupBind(s) \/ Control(s, x) \/ CatchupAdvance(s, x)
       PROVE  Uses'
  BY <1>3, <1>12 DEF Resume, CatchupBind, Control, CatchupAdvance, procVars
<1>13. CASE StartQuery
  <2>1. \A r \in Streams : At(r, {"NONE"})
    BY <1>13 DEF StartQuery, Uses, AccountHasOneUser, Nobody
  <2>2. /\ worker' = worker /\ streamLock' = streamLock
        /\ asking' = Len(queries) + 1 /\ accountLock' = <<"query", Len(queries) + 1>>
    BY <1>13 DEF StartQuery
  <2>3. \A r \in Streams : <<"stream", r>> # accountLock' /\ <<"stream", r>> # streamLock
    BY <2>1, <2>2 DEF Uses, AccountHasOneUser
  <2> QED
    BY <2>1, <2>2, <2>3 DEF Uses, AccountHasOneUser
<1>14. ASSUME NEW q \in DOMAIN queries, EndQuery(q) PROVE Uses'
  <2>1. /\ asking = q /\ q # 0 /\ asking' = 0 /\ accountLock' = Nobody /\ UNCHANGED <<worker, streamLock>>
    BY <1>1, <1>14 DEF EndQuery
  <2>2. accountLock = <<"query", q>>
    BY <2>1 DEF Uses
  <2>3. \A r \in Streams : At(r, {"NONE"})
    BY <2>2 DEF Uses, AccountHasOneUser
  <2> QED
    BY <2>1, <2>3 DEF Uses, AccountHasOneUser, Nobody
<1>15. CASE Beside \/ Close \/ UNCHANGED vars
  BY <1>3, <1>15 DEF Beside, Close, vars, procVars
<1>16. CASE Restart \/ Crash
  <2>1. /\ \A r \in Streams : At(r, {"NONE"})'
        /\ streamLock' = Nobody /\ accountLock' = Nobody /\ asking' = 0
    BY <1>1, <1>16 DEF Restart, Crash, Restarted
  <2> QED
    BY <2>1 DEF Uses, AccountHasOneUser, Nobody
<1> QED
  BY <1>6, <1>7, <1>8, <1>10, <1>11, <1>12, <1>13, <1>14, <1>15, <1>16, Steps

-----------------------------------------------------------------------------
(* The shadow. *)

LEMMA ShadowStays ==
  ASSUME BookInv, ProcessesTyped, Shadowed, [Next]_vars PROVE Shadowed'
<1> USE DEF Goto, At, Running
<1>1. /\ worker \in [Streams -> Workers] /\ row \in [Streams -> Rows]
      /\ \A s \in Streams : worker[s] \in Workers /\ row[s] \in Rows /\ StreamShadow(s)
      /\ \A s \in Streams : Received(s) \in Nat
  BY Types DEF ProcessesTyped, Shadowed
<1>2. ASSUME NEW r \in Streams, events'[r] = events[r],
             row'[r].cursor = row[r].cursor, row'[r].decided = row[r].decided, row'[r].error = row[r].error,
             At(r, {"NONE"})' \/ row'[r].status \in Active,
             row'[r].status \in Terminal => row'[r].paused /\ ~Running(r)',
             ~row'[r].paused => ~row'[r].error /\ row'[r].status # "STOP_REQUESTED"
      PROVE  StreamShadow(r)'
  BY <1>1, <1>2 DEF StreamShadow, Received
<1>3. ASSUME NEW r \in Streams, events'[r] = events[r], row'[r] = row[r],
             \/ worker'[r].pc = worker[r].pc \/ worker'[r].pc = "NONE"
             \/ worker[r].pc # "NONE" /\ row[r].status \in Active
      PROVE  StreamShadow(r)'
  BY <1>1, <1>2, <1>3 DEF StreamShadow, Active, Terminal
<1>4. ASSUME NEW s \in Streams, StreamShadow(s)', \A r \in Streams \ {s} : row'[r] = row[r],
             \A r \in Streams \ {s} : worker'[r] = worker[r], \A r \in Streams \ {s} : events'[r] = events[r]
      PROVE  Shadowed'
  BY <1>3, <1>4 DEF Shadowed
<1>5. ASSUME UNCHANGED <<row, worker, events>> PROVE Shadowed'
  BY <1>3, <1>5 DEF Shadowed
<1>6. ASSUME NEW s \in Streams, worker[s].pc # "NONE" PROVE row[s].status \in Active
  BY <1>1, <1>6 DEF StreamShadow
(* Steps of a receiver that touch no row. *)
<1>7. ASSUME NEW s \in Streams, row' = row, events' = events, worker[s].pc # "NONE",
             \A r \in Streams \ {s} : worker'[r] = worker[r]
      PROVE  Shadowed'
  BY <1>3, <1>4, <1>6, <1>7
<1>8. ASSUME NEW s \in Streams, Launch(s) \/ Deadline(s) \/ Finish(s) \/ Fault(s) \/ BookCallback(s)
      PROVE  Shadowed'
  <2>1. /\ row' = row /\ events' = events /\ worker[s].pc # "NONE"
    BY <1>8 DEF Launch, Deadline, Finish, Fault, BookCallback, accountVars, Accepting
  <2>2. \A r \in Streams \ {s} : worker'[r] = worker[r]
    BY <1>1, <1>8 DEF Launch, Deadline, Finish, Fault, BookCallback
  <2> QED
    BY <1>7, <2>1, <2>2
<1>9. ASSUME NEW s \in Streams, NEW status \in Terminal, worker[s].pc # "NONE", End(s, status) PROVE Shadowed'
  <2>1. /\ events' = events /\ worker'[s].pc = "NONE"
        /\ \A r \in Streams \ {s} : worker'[r] = worker[r]
    BY <1>1, <1>9 DEF End, accountVars, NoWorker
  <2>2. CASE row' = row
    BY <1>7, <1>9, <2>1, <2>2
  <2>3. CASE row' = [row EXCEPT ![s].status = status, ![s].paused = TRUE]
    <3>1. /\ row'[s].cursor = row[s].cursor /\ row'[s].decided = row[s].decided /\ row'[s].error = row[s].error
          /\ row'[s].paused = TRUE /\ \A r \in Streams \ {s} : row'[r] = row[r]
      BY <1>1, <2>3 DEF Rows
    <3>2. StreamShadow(s)'
      BY <1>2, <2>1, <3>1
    <3> QED
      BY <1>4, <2>1, <3>1, <3>2
  <2> QED
    BY <1>9, <2>2, <2>3 DEF End
<1>10. ASSUME NEW s \in Streams, StartFails(s) \/ Ended(s) PROVE Shadowed'
  BY <1>9, <1>10 DEF StartFails, Ended, Terminal
<1>11. ASSUME NEW s \in Streams, Connect(s) PROVE Shadowed'
  <2>1. /\ events' = events /\ worker[s].pc # "NONE" /\ worker'[s].pc = "POLLING"
        /\ \A r \in Streams \ {s} : worker'[r] = worker[r] /\ row'[r] = row[r]
    BY <1>1, <1>11 DEF Connect, accountVars, Workers
  <2>2. /\ row'[s].cursor = row[s].cursor /\ row'[s].decided = row[s].decided /\ row'[s].error = row[s].error
        /\ row'[s].paused = row[s].paused
        /\ row'[s].status = IF row[s].status = "STARTING" THEN "RECEIVING" ELSE row[s].status
    BY <1>1, <1>11 DEF Connect, Rows
  <2>3. row'[s].status \in Active /\ (row'[s].status = "STOP_REQUESTED" => row[s].status = "STOP_REQUESTED")
    BY <1>6, <2>1, <2>2 DEF Active
  <2>4. StreamShadow(s)'
    BY <1>1, <1>2, <2>1, <2>2, <2>3 DEF StreamShadow, Active, Terminal
  <2> QED
    BY <1>4, <2>1, <2>4
<1>12. ASSUME NEW s \in Streams, row' = [row EXCEPT ![s].paused = TRUE], events' = events,
              worker[s].pc # "NONE", \A r \in Streams \ {s} : worker'[r] = worker[r]
       PROVE  Shadowed'
  <2>1. /\ row'[s].cursor = row[s].cursor /\ row'[s].decided = row[s].decided /\ row'[s].error = row[s].error
        /\ row'[s].paused = TRUE /\ row'[s].status = row[s].status
        /\ \A r \in Streams \ {s} : row'[r] = row[r]
    BY <1>1, <1>12 DEF Rows
  <2>2. row[s].status \in Active
    BY <1>6, <1>12
  <2>3. StreamShadow(s)'
    BY <1>2, <1>12, <2>1, <2>2 DEF Active, Terminal
  <2> QED
    BY <1>4, <1>12, <2>1, <2>3
<1>13. ASSUME NEW s \in Streams, Poll(s) PROVE Shadowed'
  <2>1. /\ events' = events /\ worker[s].pc # "NONE"
        /\ row' = row \/ row' = [row EXCEPT ![s].paused = TRUE]
    BY <1>13 DEF Poll, accountVars
  <2>2. \A r \in Streams \ {s} : worker'[r] = worker[r]
    BY <1>1, <1>13 DEF Poll
  <2> QED
    BY <1>7, <1>12, <2>1, <2>2
<1>14. ASSUME NEW s \in Streams, Create(s) PROVE Shadowed'
  <2>1. /\ events' = events /\ row[s].status = "ABSENT"
        /\ \A r \in Streams \ {s} : worker'[r] = worker[r] /\ row'[r] = row[r]
        /\ row'[s].cursor = row[s].cursor /\ row'[s].decided = row[s].decided /\ row'[s].error = row[s].error
        /\ row'[s].paused = row[s].paused /\ row'[s].status = "STARTING"
    BY <1>1, <1>14 DEF Create, accountVars, Rows
  <2>2. StreamShadow(s)'
    BY <1>1, <1>2, <2>1 DEF StreamShadow, Active, Terminal
  <2> QED
    BY <1>4, <2>1, <2>2
<1>15. ASSUME NEW s \in Streams, Resume(s) PROVE Shadowed'
  <2>1. /\ events' = events /\ worker' = worker /\ row[s].status = "RECEIVING" /\ ~row[s].error
        /\ worker[s].pc # "NONE"
    BY <1>15 DEF Resume, MayResume, accountVars, procVars
  <2>2. /\ row'[s].cursor = row[s].cursor /\ row'[s].decided = row[s].decided /\ row'[s].error = row[s].error
        /\ row'[s].status = row[s].status
        /\ \A r \in Streams \ {s} : row'[r] = row[r]
    BY <1>1, <1>15 DEF Resume, Rows
  <2>3. StreamShadow(s)'
    BY <1>2, <2>1, <2>2 DEF Active, Terminal
  <2> QED
    BY <1>4, <2>1, <2>2, <2>3
<1>16. ASSUME NEW s \in Streams, NEW action, Control(s, action) PROVE Shadowed'
  <2>1. PICK status \in {"STOP_REQUESTED", row[s].status} :
          /\ row' = [row EXCEPT ![s].paused = TRUE, ![s].status = status]
          /\ status = "STOP_REQUESTED" => status = row[s].status \/ row[s].status \in Active
    BY <1>16 DEF Control
  <2>2. /\ row'[s].cursor = row[s].cursor /\ row'[s].decided = row[s].decided /\ row'[s].error = row[s].error
        /\ row'[s].paused = TRUE /\ row'[s].status = status
        /\ \A r \in Streams \ {s} : row'[r] = row[r]
    BY <1>1, <2>1 DEF Rows
  <2>3. events' = events /\ worker' = worker
    BY <1>16 DEF Control, accountVars, procVars
  <2>4. StreamShadow(s)'
    BY <1>1, <1>2, <2>1, <2>2, <2>3 DEF StreamShadow, Active, Terminal
  <2> QED
    BY <1>4, <2>2, <2>3, <2>4
<1>17. ASSUME NEW s \in Streams, NEW n, CatchupBind(s) \/ CatchupAdvance(s, n) PROVE Shadowed'
  BY <1>5, <1>17 DEF CatchupBind, CatchupAdvance, procVars
<1>18. ASSUME NEW s \in Streams, NEW kind \in Kinds, NEW fill \in Fills \union {NoFill},
              NEW late \in BOOLEAN, Receive(s, kind, fill, late)
       PROVE  Shadowed'
  <2>1. /\ row' = row /\ worker[s].pc = "RECEIVING" /\ worker'[s].pc = "RETAINED"
        /\ \A r \in Streams \ {s} : worker'[r] = worker[r]
    BY <1>1, <1>18 DEF Receive, Workers
  <2>2. /\ Received(s)' = Received(s) + 1 /\ \A r \in Streams \ {s} : events'[r] = events[r]
        /\ \A k \in 1..Received(s) : events'[s][k] = events[s][k]
    BY <1>18, ReceiveGrows DEF FactsGrow
  <2>3. row[s].status \in Active
    BY <1>6, <2>1
  <2>4. row[s].cursor \in Nat /\ row[s].cursor <= Received(s) /\ row[s].decided \subseteq 1..row[s].cursor
    BY <1>1, Types DEF Rows, StreamShadow
  <2>5. \A k \in 1..row[s].cursor : events'[s][k] = events[s][k]
    BY <1>1, <2>2, <2>4
  <2>6. \A n \in row[s].decided : \A k \in 1..n : k \in 1..row[s].cursor
    BY <2>4
  <2>7. StreamShadow(s)'
    BY <1>1, <2>1, <2>2, <2>3, <2>4, <2>5, <2>6 DEF StreamShadow, Active, Terminal
  <2> QED
    BY <1>4, <2>1, <2>2, <2>7
<1>19. ASSUME NEW s \in Streams, Project(s) PROVE Shadowed'
  <2> DEFINE n == Received(s)
             error == events[s][n].kind \in ErrorKinds
  <2>1. /\ events' = events /\ worker[s].pc = "BOOKED" /\ worker'[s].pc = "RECEIVING"
        /\ \A r \in Streams \ {s} : worker'[r] = worker[r] /\ row'[r] = row[r]
        /\ row[s].cursor = n - 1
    BY <1>1, <1>19 DEF Project, ShadowStep, accountVars, Workers
  <2>2. PICK pause \in BOOLEAN, quote \in BOOLEAN :
          /\ row' = [row EXCEPT ![s].cursor = n, ![s].error = row[s].error \/ error,
                                ![s].paused = row[s].paused \/ pause,
                                ![s].decided = IF quote THEN row[s].decided \union {n} ELSE row[s].decided]
          /\ error => pause
          /\ quote => ~row[s].paused /\ ~error
    <3>1. PICK halt \in BOOLEAN, reason \in BOOLEAN, quote \in BOOLEAN :
          /\ row' = [row EXCEPT ![s].cursor = n, ![s].error = row[s].error \/ error,
                                ![s].paused = row[s].paused \/ reason \/ halt,
                                ![s].decided = IF quote /\ ~halt THEN row[s].decided \union {n}
                                               ELSE row[s].decided]
          /\ error => reason
          /\ quote => ~row[s].paused /\ ~reason
      BY <1>19 DEF Project, ShadowStep, ErrorKinds
    <3> QED
      BY <3>1
  <2>3. /\ row'[s].cursor = n /\ row'[s].status = row[s].status
        /\ row'[s].error = (row[s].error \/ error) /\ row'[s].paused = (row[s].paused \/ pause)
        /\ row'[s].decided = IF quote THEN row[s].decided \union {n} ELSE row[s].decided
    BY <1>1, <2>2 DEF Rows
  <2>4. row[s].status \in Active
    BY <1>6, <2>1
  <2>5. /\ row[s].cursor \in Nat /\ n \in Nat /\ n > 0 /\ n = row[s].cursor + 1
        /\ row[s].decided \subseteq 1..row[s].cursor
    BY <1>1, <2>1 DEF Rows, StreamShadow
  <2>6. n = Received(s)'
    BY <2>1 DEF Received
  <2>7. \A k \in 1..n : k \in 1..row[s].cursor \/ k = n
    BY <2>5
  <2>8. row'[s].decided \subseteq 1..row'[s].cursor
    BY <2>3, <2>5
  <2>9. ~row'[s].error => \A k \in 1..n : events[s][k].kind \notin ErrorKinds
    BY <1>1, <2>3, <2>7 DEF StreamShadow
  <2>10. quote => \A k \in 1..n : events[s][k].kind \notin ErrorKinds
    BY <1>1, <2>2, <2>7 DEF StreamShadow
  <2>11. \A m \in row'[s].decided : \A k \in 1..m : events[s][k].kind \notin ErrorKinds
    BY <1>1, <2>3, <2>10 DEF StreamShadow
  <2>12. ~row'[s].paused => ~row'[s].error /\ row'[s].status # "STOP_REQUESTED"
    BY <1>1, <2>2, <2>3 DEF StreamShadow
  <2> HIDE DEF n, error
  <2>13. StreamShadow(s)'
    BY <2>1, <2>3, <2>4, <2>5, <2>6, <2>8, <2>9, <2>11, <2>12 DEF StreamShadow, Active, Terminal
  <2> QED
    BY <1>4, <2>1, <2>13
<1>20. CASE StartQuery \/ (\E q \in DOMAIN queries : EndQuery(q)) \/ Beside \/ Close \/ UNCHANGED vars
  BY <1>5, <1>20 DEF StartQuery, BeginQuery, EndQuery, FinishQuery, Beside, Establish, Execute, IngestQuery,
                     IngestPrefix, Close, vars, accountVars, procVars
<1>21. CASE Restart \/ Crash
  <2>1. /\ row' = row /\ events' = events /\ \A r \in Streams : worker'[r].pc = "NONE"
    BY <1>21 DEF Restart, Crash, Restarted, accountVars, NoWorker
  <2> QED
    BY <1>3, <2>1 DEF Shadowed
<1> QED
  BY <1>8, <1>10, <1>11, <1>13, <1>14, <1>15, <1>16, <1>17, <1>18, <1>19, <1>20, <1>21, Steps

-----------------------------------------------------------------------------
(* The invariant holds, and what follows from it. *)

LEMMA LiveOpens == Init => LiveInv
<1> SUFFICES ASSUME Init PROVE LiveInv
  OBVIOUS
<1>1. BookInv
  BY BookOpens DEF Init
<1>2. /\ row = [s \in Streams |-> NoRow] /\ worker = [s \in Streams |-> NoWorker]
      /\ streamLock = Nobody /\ accountLock = Nobody /\ asking = 0 /\ closing = FALSE /\ crashes = 0
  BY DEF Init
<1>3. /\ NoRow \in Rows /\ NoWorker \in Workers /\ MaxQueries \in Nat /\ MaxCrashes \in Nat
      /\ NoRow.status = "ABSENT" /\ NoRow.cursor = 0 /\ NoRow.decided = {} /\ NoRow.error = FALSE
      /\ NoWorker.pc = "NONE"
  <2>1. MaxEvents \in Nat /\ MaxQueries \in Nat /\ MaxCrashes \in Nat
    BY StreamAssumption, CrashAssumption DEF StreamAssumption, CrashAssumption
  <2> QED
    BY <2>1 DEF NoRow, NoWorker, Rows, Workers
<1>4. ProcessesTyped
  <2>1. row \in [Streams -> Rows]
    BY <1>2, <1>3
  <2>2. worker \in [Streams -> Workers]
    BY <1>2, <1>3
  <2>3. streamLock \in Holders /\ accountLock \in Holders
    BY <1>2 DEF Holders
  <2>4. asking \in 0..MaxQueries
    BY <1>2, <1>3
  <2>5. crashes \in 0..MaxCrashes
    BY <1>2, <1>3
  <2>6. closing \in BOOLEAN
    BY <1>2
  <2> QED
    BY <2>1, <2>2, <2>3, <2>4, <2>5, <2>6 DEF ProcessesTyped
<1>5. Uses
  BY <1>2, <1>3 DEF Uses, AccountHasOneUser, At, Nobody
<1>6. Shadowed
  <2>1. \A s \in Streams : Received(s) = 0
    BY DEF Init, InitAccount, Received
  <2> QED
    BY <1>2, <1>3, <2>1 DEF Shadowed, StreamShadow, At, Running, Terminal
<1> QED
  BY <1>1, <1>4, <1>5, <1>6 DEF LiveInv

LEMMA LiveStays == LiveInv /\ [Next]_vars => LiveInv'
  BY FactsStay, ProcessesStay, UsesStay, ShadowStays DEF LiveInv

LEMMA LiveInvariant == Spec => []LiveInv
  BY LiveOpens, LiveStays, PTL DEF Spec

LEMMA LiveTypes == LiveInv => TypeOK
<1> SUFFICES ASSUME LiveInv PROVE TypeOK
  OBVIOUS
<1>1. /\ clock \in Nat /\ executed \subseteq Fills /\ baseline \in Nat
      /\ account \in [Streams -> Checkpoint] /\ events \in [Streams -> Seq(Callbacks)]
      /\ queries \in Seq(Queries) /\ book \in Seq(Entries)
      /\ \A s \in Streams : Received(s) <= MaxEvents
  BY DEF LiveInv, BookInv, FactsTyped, BookTyped
<1>2. \A s \in Streams : /\ \A k \in DOMAIN events[s] : events[s][k] \in Callbacks
                         /\ row[s] \in Rows /\ worker[s] \in Workers
  BY <1>1 DEF LiveInv, ProcessesTyped
<1>3. /\ \A q \in DOMAIN queries : queries[q] \in Queries
      /\ \A i \in DOMAIN book : book[i] \in Entries
  BY <1>1
<1>4. /\ {streamLock, accountLock} \subseteq Holders
      /\ asking \in 0..MaxQueries /\ closing \in BOOLEAN /\ crashes \in 0..MaxCrashes
  BY DEF LiveInv, ProcessesTyped
<1> QED
  BY <1>1, <1>2, <1>3, <1>4 DEF TypeOK, Callbacks, Rows, Workers, Queries, Entries, Holders

LEMMA LiveBooks == LiveInv => AppliedIsBookedOnce /\ FillsAreCountedOnce
<1> SUFFICES ASSUME LiveInv PROVE AppliedIsBookedOnce /\ FillsAreCountedOnce
  OBVIOUS
<1>1. BookInv
  BY DEF LiveInv
<1>2. ASSUME NEW s \in Streams, NEW k \in 1..account[s].through, Material(s, k)
      PROVE  Cardinality({i \in EntriesOf(s) : book[i].after < k /\ k <= book[i].through}) = 1
  <2>1. account[s].through \in Nat /\ BookedThrough(s) \in Nat
    BY <1>1, BookedThroughIs DEF BookInv, AllGreatest, Greatest, BookTyped, Checkpoint
  <2>2. k \in 1..BookedThrough(s)
    BY <1>1, <1>2, <2>1 DEF BookInv, Passed
  <2> QED
    BY <1>1, <1>2, <2>2, OneEntry
<1>3. AppliedIsBookedOnce
  BY <1>2 DEF AppliedIsBookedOnce
<1>4. FillsAreCountedOnce
  BY <1>1, FillOnce, PassedFills DEF FillsAreCountedOnce, PassedKnown
<1> QED
  BY <1>3, <1>4

(* One receiver or query is on the account, and no lock outlives its holder. *)
THEOREM OneUser == Spec => []AccountHasOneUser
<1>1. LiveInv => AccountHasOneUser
  BY DEF LiveInv, Uses
<1> QED
  BY <1>1, LiveInvariant, PTL

(* The shadow runs unpaused, and decides, on a clean and attached stream only. *)
THEOREM CleanShadow == Spec => []ShadowIsClean
<1>1. LiveInv => ShadowIsClean
  BY DEF LiveInv, Shadowed, StreamShadow, ErrorKinds, ShadowIsClean, UnpausedIsSound, DecisionsAreClean
<1> QED
  BY <1>1, LiveInvariant, PTL

\* What get() reports is compared with the callbacks retained since.
LEMMA ShownIsBooked == LiveInv => ShownRunningIsBooked
<1>1. ASSUME LiveInv, NEW s \in Streams, Shown(s), account[s].bound
      PROVE  SegmentFills(s, 0, Received(s)) \subseteq Known /\ ~BookUnknown
  <2>1. BookInv /\ account[s] \in Checkpoint
    BY <1>1 DEF LiveInv, BookInv, BookTyped
  <2>2. ~BookUnknown /\ View(s) = account[s].status
    BY <1>1 DEF Shown, View
  <2>3. View(s) # "UNBOUND"
    BY <2>1, <2>2 DEF Checkpoint
  <2>4. account[s].through = Received(s)
    <3>1. account[s].through \in Nat /\ Received(s) \in Nat /\ account[s].through <= Received(s)
      BY <2>1 DEF Checkpoint, BookInv, Passed, FactsTyped, Received
    <3>2. account[s].through >= Received(s)
      BY <1>1, <2>3 DEF Shown
    <3> QED
      BY <3>1, <3>2
  <2> QED
    BY <2>1, <2>2, <2>4, PassedFills DEF PassedKnown
<1> QED
  BY <1>1 DEF ShownRunningIsBooked

(* Types, and: each account callback a checkpoint has passed lies in one entry
   of the book, no fill is in two of them, and the fills of what was passed are
   there, for any order of live booking, prefixes, queries, catch-up and death
   between the commits of accept (live/streams.py, ledger.py).  A stream shown
   running has all its fills in a book that is not UNKNOWN. *)
THEOREM BookIsExact == Spec => []BookIsTrue
<1>1. LiveInv => BookIsTrue
  BY LiveTypes, LiveBooks, ShownIsBooked DEF BookedOnce, BookIsTrue
<1> QED
  BY <1>1, LiveInvariant, PTL

StaysGone(s) ==
  /\ At(s, {"NONE"})' /\ events'[s] = events[s]
  /\ row'[s].cursor = row[s].cursor /\ row'[s].decided = row[s].decided
  /\ row[s].paused => row'[s].paused

LEMMA GoneStays ==
  ASSUME LiveInv, [Next]_vars, NEW s \in Streams, row[s].status # "ABSENT", At(s, {"NONE"})
  PROVE  StaysGone(s)
<1> USE DEF Goto, At
<1>1. /\ row \in [Streams -> Rows] /\ worker \in [Streams -> Workers] /\ BookInv
      /\ \A r \in Streams : row[r] \in Rows
  BY DEF LiveInv, ProcessesTyped
<1>2. ASSUME events'[s] = events[s], row'[s] = row[s], worker'[s] = worker[s] PROVE StaysGone(s)
  BY <1>2 DEF StaysGone
<1>3. ASSUME NEW r \in Streams,
             Launch(r) \/ Connect(r) \/ Poll(r) \/ Deadline(r) \/ Finish(r) \/ Fault(r) \/ BookCallback(r)
      PROVE  StaysGone(s)
  <2>1. r # s /\ events' = events
    BY <1>3 DEF Launch, Connect, Poll, Deadline, Finish, Fault, BookCallback, accountVars, Accepting
  <2>2. worker'[s] = worker[s] /\ row'[s] = row[s]
    BY <1>1, <1>3, <2>1 DEF Launch, Connect, Poll, Deadline, Finish, Fault, BookCallback
  <2> QED
    BY <1>2, <2>1, <2>2
<1>4. ASSUME NEW r \in Streams, Project(r) \/ Create(r) \/ StartFails(r) \/ Ended(r) PROVE StaysGone(s)
  <2>1. r # s /\ events' = events
    BY <1>4 DEF Project, Create, StartFails, Ended, End, accountVars
  <2>2. worker'[s] = worker[s] /\ row'[s] = row[s]
    BY <1>1, <1>4, <2>1 DEF Project, ShadowStep, Create, StartFails, Ended, End
  <2> QED
    BY <1>2, <2>1, <2>2
<1>5. ASSUME NEW r \in Streams, Resume(r) PROVE StaysGone(s)
  <2>1. r # s /\ events' = events /\ worker' = worker
    BY <1>5 DEF Resume, MayResume, Running, accountVars, procVars
  <2>2. row'[s] = row[s]
    BY <1>1, <1>5, <2>1 DEF Resume
  <2> QED
    BY <1>2, <2>1, <2>2
<1>6. ASSUME NEW r \in Streams, NEW action, Control(r, action) PROVE StaysGone(s)
  <2>1. events' = events /\ worker' = worker
    BY <1>6 DEF Control, accountVars, procVars
  <2>2. PICK status : row' = [row EXCEPT ![r].paused = TRUE, ![r].status = status]
    BY <1>6 DEF Control
  <2>3. /\ row'[s].cursor = row[s].cursor /\ row'[s].decided = row[s].decided
        /\ row[s].paused => row'[s].paused
    BY <1>1, <2>2 DEF Rows
  <2> QED
    BY <2>1, <2>3 DEF StaysGone
<1>7. ASSUME NEW r \in Streams, NEW kind \in Kinds, NEW fill \in Fills \union {NoFill},
             NEW late \in BOOLEAN, Receive(r, kind, fill, late)
      PROVE  StaysGone(s)
  <2>1. r # s /\ row' = row
    BY <1>7 DEF Receive
  <2>2. events'[s] = events[s]
    BY <1>1, <1>7, <2>1, ReceiveGrows
  <2>3. worker'[s] = worker[s]
    BY <1>1, <1>7, <2>1 DEF Receive
  <2> QED
    BY <1>2, <2>1, <2>2, <2>3
<1>8. ASSUME UNCHANGED <<events, row, worker>> PROVE StaysGone(s)
  BY <1>2, <1>8
<1>9. ASSUME NEW r \in Streams, NEW n, CatchupBind(r) \/ CatchupAdvance(r, n) PROVE StaysGone(s)
  BY <1>8, <1>9 DEF CatchupBind, CatchupAdvance, procVars
<1>10. CASE StartQuery \/ (\E q \in DOMAIN queries : EndQuery(q)) \/ Beside \/ Close \/ UNCHANGED vars
  BY <1>8, <1>10 DEF StartQuery, BeginQuery, EndQuery, FinishQuery, Beside, Establish, Execute, IngestQuery,
                     IngestPrefix, Close, vars, accountVars, procVars
<1>11. CASE Restart \/ Crash
  BY <1>11 DEF Restart, Crash, Restarted, accountVars, NoWorker, StaysGone
<1> QED
  BY <1>3, <1>4, <1>5, <1>6, <1>7, <1>9, <1>10, <1>11, Steps

LEMMA NoneReconnects == Spec => NeverReconnects
<1>1. LiveInv /\ [Next]_vars =>
        [\A s \in Streams : row[s].status # "ABSENT" /\ At(s, {"NONE"}) =>
           /\ At(s, {"NONE"})' /\ events'[s] = events[s]
           /\ row'[s].cursor = row[s].cursor /\ row'[s].decided = row[s].decided
           /\ row[s].paused => row'[s].paused]_vars
  BY GoneStays DEF StaysGone
<1> QED
  BY <1>1, LiveInvariant, PTL DEF Spec, NeverReconnects
-----------------------------------------------------------------------------
(* ReceptionContract, stream by stream. *)

\* Only a receiver on its way out has failed.
FailedEnds == \A s \in Streams : worker[s].failed => At(s, {"ENDING"})

PhaseInv == LiveInv /\ FailedEnds

\* What the contract sees of a stream.
Seen(s)  == <<worker[s], row[s].status, events[s]>>
Apart(s) == \A r \in Streams \ {s} : UNCHANGED Seen(r)

\* A receiver's own step, by what it does to its entry.
Turns(s, pc, stopping, failed) ==
  /\ worker'[s].pc = pc /\ worker'[s].stopping = stopping /\ worker'[s].failed = failed
  /\ Apart(s) /\ row'[s].status \in Active /\ row[s].status \in Active

LEMMA Turning ==
  ASSUME LiveInv, NEW s \in Streams
  PROVE  /\ Launch(s)  => Turns(s, "CONNECTING", worker[s].stopping, worker[s].failed) /\ events'[s] = events[s]
         /\ Connect(s) => Turns(s, "POLLING", worker[s].stopping, worker[s].failed) /\ events'[s] = events[s]
         /\ Poll(s) => /\ events'[s] = events[s]
                       /\ \/ Turns(s, IF worker[s].pc = "POLLING" THEN "ENDING" ELSE worker[s].pc, TRUE,
                                   worker[s].failed)
                          \/ Turns(s, "RECEIVING", worker[s].stopping, worker[s].failed)
         /\ Deadline(s) => Turns(s, worker[s].pc, TRUE, worker[s].failed) /\ events'[s] = events[s]
         /\ Finish(s) => Turns(s, "ENDING", worker[s].stopping, worker[s].failed) /\ events'[s] = events[s]
         /\ Fault(s)  => Turns(s, "ENDING", worker[s].stopping, TRUE) /\ events'[s] = events[s]
         /\ BookCallback(s) => Turns(s, "BOOKED", worker[s].stopping, worker[s].failed) /\ events'[s] = events[s]
         /\ Project(s) => Turns(s, "RECEIVING", worker[s].stopping, worker[s].failed) /\ events'[s] = events[s]
<1> USE DEF Goto, At, Turns, Apart, Seen
<1>1. /\ row \in [Streams -> Rows] /\ worker \in [Streams -> Workers]
      /\ \A r \in Streams : row[r] \in Rows /\ worker[r] \in Workers
  BY DEF LiveInv, ProcessesTyped
<1>2. ~At(s, {"NONE"}) => row[s].status \in Active
  BY DEF LiveInv, Shadowed, StreamShadow
<1>3. ASSUME Launch(s) \/ Deadline(s) \/ Finish(s) \/ Fault(s) \/ BookCallback(s)
      PROVE  row' = row /\ events' = events /\ ~At(s, {"NONE"})
  BY <1>3 DEF Launch, Deadline, Finish, Fault, BookCallback, accountVars, Accepting
<1>4. ASSUME NEW pc, worker' = [worker EXCEPT ![s].pc = pc]
      PROVE  /\ worker'[s].pc = pc /\ worker'[s].stopping = worker[s].stopping
             /\ worker'[s].failed = worker[s].failed
             /\ \A r \in Streams \ {s} : worker'[r] = worker[r]
  BY <1>1, <1>4 DEF Workers
<1>5. ASSUME Launch(s) PROVE Turns(s, "CONNECTING", worker[s].stopping, worker[s].failed)
  <2>1. worker' = [worker EXCEPT ![s].pc = "CONNECTING"]
    BY <1>5 DEF Launch
  <2> QED
    BY <1>2, <1>3, <1>4, <1>5, <2>1
<1>6. ASSUME Finish(s) PROVE Turns(s, "ENDING", worker[s].stopping, worker[s].failed)
  <2>1. worker' = [worker EXCEPT ![s].pc = "ENDING"]
    BY <1>6 DEF Finish
  <2> QED
    BY <1>2, <1>3, <1>4, <1>6, <2>1
<1>7. ASSUME Connect(s)
      PROVE  Turns(s, "POLLING", worker[s].stopping, worker[s].failed) /\ events'[s] = events[s]
  <2>1. worker' = [worker EXCEPT ![s].pc = "POLLING"] /\ events' = events /\ row[s].status \in Active
    BY <1>2, <1>7 DEF Connect, accountVars
  <2>2. PICK new \in Active : row' = [row EXCEPT ![s].status = new]
    BY <1>7, <2>1 DEF Connect, Active
  <2>3. row'[s].status = new /\ \A r \in Streams \ {s} : row'[r] = row[r]
    BY <1>1, <2>2 DEF Rows
  <2> QED
    BY <1>4, <2>1, <2>2, <2>3
<1>8. ASSUME Poll(s)
      PROVE  /\ events'[s] = events[s]
             /\ \/ Turns(s, IF worker[s].pc = "POLLING" THEN "ENDING" ELSE worker[s].pc, TRUE,
                         worker[s].failed)
                \/ Turns(s, "RECEIVING", worker[s].stopping, worker[s].failed)
  <2>1. events' = events /\ row[s].status \in Active
    BY <1>2, <1>8 DEF Poll, accountVars
  <2>2. row' = row \/ row' = [row EXCEPT ![s].paused = TRUE]
    BY <1>8 DEF Poll
  <2>3. row'[s].status = row[s].status /\ \A r \in Streams \ {s} : row'[r] = row[r]
    BY <1>1, <2>2 DEF Rows
  <2>4. CASE worker' = [worker EXCEPT ![s].pc = IF worker[s].pc = "POLLING" THEN "ENDING" ELSE worker[s].pc,
                                      ![s].stopping = TRUE]
    <3>1. /\ worker'[s].pc = IF worker[s].pc = "POLLING" THEN "ENDING" ELSE worker[s].pc
          /\ worker'[s].stopping = TRUE /\ worker'[s].failed = worker[s].failed
          /\ \A r \in Streams \ {s} : worker'[r] = worker[r]
      BY <1>1, <2>4 DEF Workers
    <3> QED
      BY <2>1, <2>3, <3>1
  <2>5. CASE worker' = [worker EXCEPT ![s].pc = "RECEIVING"]
    BY <1>4, <2>1, <2>3, <2>5
  <2> QED
    BY <1>8, <2>4, <2>5 DEF Poll
<1>9. ASSUME Deadline(s) PROVE Turns(s, worker[s].pc, TRUE, worker[s].failed)
  <2>1. worker' = [worker EXCEPT ![s].stopping = TRUE]
    BY <1>9 DEF Deadline
  <2>2. /\ worker'[s].pc = worker[s].pc /\ worker'[s].stopping = TRUE
        /\ worker'[s].failed = worker[s].failed /\ \A r \in Streams \ {s} : worker'[r] = worker[r]
    BY <1>1, <2>1 DEF Workers
  <2> QED
    BY <1>2, <1>3, <1>9, <2>2
<1>10. ASSUME Fault(s) PROVE Turns(s, "ENDING", worker[s].stopping, TRUE)
  <2>1. worker' = [worker EXCEPT ![s].pc = "ENDING", ![s].failed = TRUE]
    BY <1>10 DEF Fault
  <2>2. /\ worker'[s].pc = "ENDING" /\ worker'[s].stopping = worker[s].stopping
        /\ worker'[s].failed = TRUE /\ \A r \in Streams \ {s} : worker'[r] = worker[r]
    BY <1>1, <2>1 DEF Workers
  <2> QED
    BY <1>2, <1>3, <1>10, <2>2
<1>11. ASSUME BookCallback(s) PROVE Turns(s, "BOOKED", worker[s].stopping, worker[s].failed)
  <2>1. worker' = [worker EXCEPT ![s].pc = "BOOKED", ![s].seen = View(s)']
    BY <1>11 DEF BookCallback
  <2>2. /\ worker'[s].pc = "BOOKED" /\ worker'[s].stopping = worker[s].stopping
        /\ worker'[s].failed = worker[s].failed /\ \A r \in Streams \ {s} : worker'[r] = worker[r]
    BY <1>1, <2>1 DEF Workers
  <2> QED
    BY <1>2, <1>3, <1>11, <2>2
<1>12. ASSUME Project(s)
       PROVE  Turns(s, "RECEIVING", worker[s].stopping, worker[s].failed) /\ events'[s] = events[s]
  <2>1. worker' = [worker EXCEPT ![s].pc = "RECEIVING"] /\ events' = events /\ row[s].status \in Active
    BY <1>2, <1>12 DEF Project, accountVars
  <2>2. row'[s].status = row[s].status /\ \A r \in Streams \ {s} : row'[r] = row[r]
    BY <1>1, <1>12 DEF Project, ShadowStep, Rows
  <2> QED
    BY <1>4, <2>1, <2>2
<1> QED
  BY <1>3, <1>5, <1>6, <1>7, <1>8, <1>9, <1>10, <1>11, <1>12

\* The end of a receiver, and the first and the last it is seen of.
LEMMA Ending ==
  ASSUME LiveInv, NEW s \in Streams, NEW status \in Terminal, ~At(s, {"NONE"}), End(s, status)
  PROVE  /\ worker'[s] = NoWorker /\ row[s].status \in Active
         /\ row'[s].status \in {status, row[s].status} /\ events' = events /\ Apart(s)
<1>1. /\ row \in [Streams -> Rows] /\ worker \in [Streams -> Workers]
      /\ \A r \in Streams : row[r] \in Rows
  BY DEF LiveInv, ProcessesTyped
<1>2. row[s].status \in Active
  BY DEF LiveInv, Shadowed, StreamShadow
<1>3. /\ worker' = [worker EXCEPT ![s] = NoWorker] /\ events' = events
      /\ row' = row \/ row' = [row EXCEPT ![s].status = status, ![s].paused = TRUE]
  BY DEF End, accountVars
<1>4. row'[s].status \in {status, row[s].status} /\ \A r \in Streams \ {s} : row'[r] = row[r]
  BY <1>1, <1>3 DEF Rows
<1> QED
  BY <1>1, <1>2, <1>3, <1>4 DEF Apart, Seen

\* A step of one stream is the step of the contract that its view shows.
LEMMA Shows ==
  ASSUME NEW s \in Streams, Apart(s), NEW from, Phase(s) \in from, NEW phase, NEW recorded, NEW said,
         Phase(s)' = phase, Received(s)' = recorded, Said(s)' = said
  PROVE  contract!Becomes(s, from, phase, recorded, said)
<1>1. \A r \in Streams \ {s} : UNCHANGED <<Phase(r), Received(r), Said(r)>>
  BY DEF Apart, Seen, Phase, Received, Said, At
<1> QED
  BY <1>1 DEF contract!Becomes

LEMMA Stutters ==
  ASSUME NEW s \in Streams, Apart(s), UNCHANGED <<Phase(s), Received(s), Said(s)>>
  PROVE  UNCHANGED contract!vars
<1>1. \A r \in Streams : UNCHANGED <<Phase(r), Received(r), Said(r)>>
  BY DEF Apart, Seen, Phase, Received, Said, At
<1> QED
  BY <1>1 DEF contract!vars

\* Steps that leave what the contract sees of every stream, or all of it but a status.
LEMMA Asides ==
  ASSUME LiveInv,
         \/ \E s \in Streams : Resume(s) \/ CatchupBind(s) \/ \E n \in 1..MaxEvents : CatchupAdvance(s, n)
         \/ StartQuery \/ (\E q \in DOMAIN queries : EndQuery(q)) \/ Beside
         \/ Close \/ UNCHANGED vars
  PROVE  /\ \A r \in Streams : UNCHANGED Seen(r)
         /\ worker' = worker
<1> USE DEF Seen
<1>1. row \in [Streams -> Rows] /\ \A r \in Streams : row[r] \in Rows
  BY DEF LiveInv, ProcessesTyped
<1>2. ASSUME NEW s \in Streams, Resume(s)
      PROVE  /\ \A r \in Streams : row'[r].status = row[r].status
             /\ events' = events /\ worker' = worker
  <2>1. row' = [row EXCEPT ![s].paused = FALSE] /\ events' = events /\ worker' = worker
    BY <1>2 DEF Resume, accountVars, procVars
  <2> QED
    BY <1>1, <2>1 DEF Rows
<1>3. ASSUME NEW s \in Streams, NEW n, CatchupBind(s) \/ CatchupAdvance(s, n)
      PROVE  row' = row /\ events' = events /\ worker' = worker
  BY <1>3 DEF CatchupBind, CatchupAdvance, procVars
<1>4. ASSUME StartQuery \/ (\E q \in DOMAIN queries : EndQuery(q)) \/ Beside \/ Close \/ UNCHANGED vars
      PROVE  row' = row /\ events' = events /\ worker' = worker
  BY <1>4 DEF StartQuery, BeginQuery, EndQuery, FinishQuery, Beside, Establish, Execute, IngestQuery,
              IngestPrefix, Close, vars, accountVars, procVars
<1> QED
  BY <1>2, <1>3, <1>4

LEMMA Controls ==
  ASSUME LiveInv, NEW s \in Streams, NEW action, Control(s, action)
  PROVE  /\ worker' = worker /\ events' = events /\ Apart(s) /\ row[s].status # "ABSENT"
         /\ \/ row'[s].status = row[s].status
            \/ row'[s].status = "STOP_REQUESTED" /\ row[s].status \in Active
<1>1. row \in [Streams -> Rows] /\ row[s] \in Rows
  BY DEF LiveInv, ProcessesTyped
<1>2. /\ worker' = worker /\ events' = events /\ row[s].status # "ABSENT"
      /\ row' = [row EXCEPT ![s].paused = TRUE,
           ![s].status = IF action = "STOP" /\ @ \in Active THEN "STOP_REQUESTED" ELSE @]
  BY DEF Control, accountVars, procVars
<1>3. /\ row'[s].status = IF action = "STOP" /\ row[s].status \in Active THEN "STOP_REQUESTED"
                          ELSE row[s].status
      /\ \A r \in Streams \ {s} : row'[r] = row[r]
  BY <1>1, <1>2 DEF Rows
<1> QED
  BY <1>2, <1>3 DEF Apart, Seen

LEMMA Creates ==
  ASSUME LiveInv, NEW s \in Streams, Create(s)
  PROVE  /\ row[s].status = "ABSENT" /\ At(s, {"NONE"}) /\ row'[s].status = "STARTING"
         /\ worker'[s].pc = "CREATED" /\ worker'[s].failed = worker[s].failed
         /\ events' = events /\ Apart(s)
<1>1. row \in [Streams -> Rows] /\ row[s] \in Rows /\ worker \in [Streams -> Workers] /\ worker[s] \in Workers
  BY DEF LiveInv, ProcessesTyped
<1>2. At(s, {"NONE"})
  BY DEF Create, LiveInv, Uses, AccountHasOneUser, Nobody
<1>3. /\ row' = [row EXCEPT ![s].status = "STARTING"] /\ worker' = [worker EXCEPT ![s].pc = "CREATED"]
      /\ row[s].status = "ABSENT" /\ events' = events
  BY DEF Create, Goto, accountVars
<1>4. /\ row'[s].status = "STARTING" /\ worker'[s].pc = "CREATED" /\ worker'[s].failed = worker[s].failed
      /\ \A r \in Streams \ {s} : row'[r] = row[r] /\ worker'[r] = worker[r]
  BY <1>1, <1>3 DEF Rows, Workers
<1> QED
  BY <1>2, <1>3, <1>4 DEF Apart, Seen

LEMMA Receives ==
  ASSUME LiveInv, NEW s \in Streams, NEW kind \in Kinds, NEW fill \in Fills \union {NoFill},
         NEW late \in BOOLEAN, Receive(s, kind, fill, late)
  PROVE  /\ Turns(s, "RETAINED", worker[s].stopping, worker[s].failed)
         /\ At(s, {"RECEIVING"}) /\ Received(s)' = Received(s) + 1
<1>1. worker \in [Streams -> Workers] /\ worker[s] \in Workers /\ BookInv
  BY DEF LiveInv, ProcessesTyped
<1>2. /\ worker' = [worker EXCEPT ![s].pc = "RETAINED"] /\ row' = row /\ At(s, {"RECEIVING"})
      /\ row[s].status \in Active
  BY DEF Receive, Goto, Active
<1>3. /\ worker'[s].pc = "RETAINED" /\ worker'[s].stopping = worker[s].stopping
      /\ worker'[s].failed = worker[s].failed
      /\ \A r \in Streams \ {s} : worker'[r] = worker[r]
  BY <1>1, <1>2 DEF Workers
<1>4. Received(s)' = Received(s) + 1 /\ \A r \in Streams \ {s} : events'[r] = events[r]
  BY <1>1, ReceiveGrows
<1> QED
  BY <1>2, <1>3, <1>4 DEF Turns, Apart, Seen

LEMMA FailuresEnd == ASSUME PhaseInv, [Next]_vars PROVE FailedEnds'
<1> USE DEF PhaseInv, FailedEnds, At
<1>1. ASSUME NEW s \in Streams, Apart(s), worker'[s].failed => worker'[s].pc = "ENDING"
      PROVE  FailedEnds'
  BY <1>1 DEF Apart, Seen
<1>2. ASSUME NEW s \in Streams,
             Launch(s) \/ Connect(s) \/ Poll(s) \/ Deadline(s) \/ Finish(s) \/ Fault(s) \/ BookCallback(s) \/ Project(s)
      PROVE  FailedEnds'
  <2>1. ~At(s, {"ENDING"})
    BY <1>2 DEF Launch, Connect, Poll, Deadline, Finish, Fault, BookCallback, Project, Accepting
  <2>2. Apart(s) /\ (worker'[s].failed => worker'[s].pc = "ENDING")
    BY <1>2, <2>1, Turning DEF Turns
  <2> QED
    BY <1>1, <2>2
<1>3. ASSUME NEW s \in Streams, StartFails(s) \/ Ended(s) PROVE FailedEnds'
  <2>1. \E status \in Terminal : End(s, status) /\ ~At(s, {"NONE"})
    BY <1>3 DEF StartFails, Ended, Terminal
  <2> QED
    BY <1>1, <2>1, Ending DEF NoWorker
<1>4. ASSUME NEW s \in Streams, Create(s) PROVE FailedEnds'
  BY <1>1, <1>4, Creates
<1>5. ASSUME NEW s \in Streams, NEW action, Control(s, action) PROVE FailedEnds'
  BY <1>5, Controls
<1>6. ASSUME NEW s \in Streams, NEW kind \in Kinds, NEW fill \in Fills \union {NoFill},
             NEW late \in BOOLEAN, Receive(s, kind, fill, late)
      PROVE  FailedEnds'
  BY <1>1, <1>6, Receives DEF Turns
<1>7. CASE \/ \E s \in Streams : Resume(s) \/ CatchupBind(s) \/ \E n \in 1..MaxEvents : CatchupAdvance(s, n)
           \/ StartQuery \/ (\E q \in DOMAIN queries : EndQuery(q)) \/ Beside
           \/ Close \/ UNCHANGED vars
  BY <1>7, Asides
<1>8. CASE Restart \/ Crash
  BY <1>8 DEF Restart, Crash, Restarted, NoWorker
<1> QED
  BY <1>2, <1>3, <1>4, <1>5, <1>6, <1>7, <1>8, Steps

LEMMA ContractStep ==
  ASSUME PhaseInv, [Next]_vars
  PROVE  [contract!Next]_(contract!vars)
<1> DEFINE Kept == [contract!Next]_(contract!vars)
<1>1. /\ LiveInv /\ FailedEnds
      /\ \A s \in Streams : row[s] \in Rows /\ worker[s] \in Workers
      /\ \A s \in Streams : At(s, {"NONE"}) \/ row[s].status \in Active
  BY DEF PhaseInv, LiveInv, ProcessesTyped, Shadowed, StreamShadow
<1>2. ASSUME NEW s \in Streams, Apart(s), UNCHANGED <<Phase(s), Received(s), Said(s)>>
      PROVE  Kept
  BY <1>2, Stutters
<1>3. ASSUME NEW s \in Streams, NEW pc, NEW stopping, NEW failed, Turns(s, pc, stopping, failed)
      PROVE  UNCHANGED Said(s)
  BY <1>3 DEF Turns, Said, Active
<1>4. ASSUME NEW s \in Streams, Launch(s) \/ Connect(s) \/ BookCallback(s) \/ Project(s) PROVE Kept
  <2>1. /\ Apart(s) /\ UNCHANGED <<events[s], Said(s)>>
        /\ worker'[s].stopping = worker[s].stopping
    BY <1>1, <1>3, <1>4, Turning DEF Turns
  <2>2. UNCHANGED Phase(s)
    <3>1. CASE Launch(s)
      BY <1>1, <3>1, Turning DEF Turns, Launch, Phase, At
    <3>2. CASE Connect(s)
      BY <1>1, <3>2, Turning DEF Turns, Connect, Phase, At
    <3>3. CASE BookCallback(s)
      BY <1>1, <3>3, Turning DEF Turns, BookCallback, Phase, At
    <3>4. CASE Project(s)
      BY <1>1, <3>4, Turning DEF Turns, Project, Phase, At
    <3> QED
      BY <1>4, <3>1, <3>2, <3>3, <3>4
  <2> QED
    BY <1>2, <2>1, <2>2 DEF Received
<1>5. ASSUME NEW s \in Streams, Poll(s) PROVE Kept
  <2>1. Apart(s) /\ UNCHANGED <<Received(s), Said(s)>>
    BY <1>1, <1>3, <1>5, Turning DEF Turns, Received
  <2>2. worker[s].pc \in {"POLLING", "RECEIVING"} /\ ~worker[s].stopping /\ ~worker[s].failed
    BY <1>1, <1>5 DEF Poll, At, FailedEnds
  <2>3. Phase(s) = IF worker[s].pc = "POLLING" THEN "BEFORE" ELSE "RECEIVING"
    BY <2>2 DEF Phase, At
  <2>4. \/ Phase(s) = "BEFORE" /\ Phase(s)' \in {"COMPLETE", "RECEIVING"}
        \/ Phase(s) = "RECEIVING" /\ Phase(s)' \in {"STOPPING", "RECEIVING"}
    BY <1>1, <1>5, <2>2, <2>3, Turning DEF Turns, Phase, At
  <2>5. \/ UNCHANGED Phase(s)
        \/ contract!Start(s) \/ contract!Decline(s) \/ contract!Stop(s)
    BY <2>1, <2>4, Shows DEF contract!Start, contract!Decline, contract!Stop, contract!Moves
  <2> QED
    BY <1>2, <2>1, <2>5 DEF contract!Next
<1>6. ASSUME NEW s \in Streams, Deadline(s) \/ Finish(s) \/ Fault(s) PROVE Kept
  <2>1. Apart(s) /\ UNCHANGED <<Received(s), Said(s)>>
    BY <1>1, <1>3, <1>6, Turning DEF Turns, Received
  <2>2. \/ Phase(s) = "RECEIVING" /\ Phase(s)' = "STOPPING"
        \/ Phase(s) = "STOPPING" /\ Phase(s)' = "COMPLETE"
        \/ Phase(s) \in {"BEFORE", "RECEIVING", "STOPPING"} /\ Phase(s)' = "BROKEN"
    <3>1. CASE Deadline(s)
      BY <1>1, <3>1, Turning DEF Turns, Deadline, Phase, At
    <3>2. CASE Finish(s)
      <4>1. ~worker[s].failed
        BY <1>1, <3>2 DEF Finish, At, FailedEnds
      <4> QED
        BY <1>1, <3>2, <4>1, Turning DEF Turns, Finish, Phase, At
    <3>3. CASE Fault(s)
      BY <1>1, <3>3, Turning DEF Turns, Fault, Phase, At, Accepting
    <3> QED
      BY <1>6, <3>1, <3>2, <3>3
  <2>3. contract!Stop(s) \/ contract!Finish(s) \/ contract!Decline(s) \/ contract!Fail(s)
    BY <2>1, <2>2, Shows DEF contract!Stop, contract!Finish, contract!Decline, contract!Fail, contract!Moves
  <2> QED
    BY <2>3 DEF contract!Next
<1>7. ASSUME NEW s \in Streams, StartFails(s) \/ Ended(s) PROVE Kept
  <2>1. PICK status \in Terminal :
          /\ End(s, status) /\ ~At(s, {"NONE"})
          /\ \/ Phase(s) \in {"BEFORE", "BROKEN"} /\ status = "FAILED"
             \/ Phase(s) = "COMPLETE" /\ status = "STOPPED"
    BY <1>7 DEF StartFails, Ended, Terminal, Phase, At
  <2>2. /\ worker'[s] = NoWorker /\ row[s].status \in Active
        /\ row'[s].status \in {status, row[s].status} /\ events' = events /\ Apart(s)
    BY <1>1, <2>1, Ending
  <2>3. Phase(s)' = "OVER" /\ UNCHANGED Received(s)
    BY <2>1, <2>2 DEF Phase, At, NoWorker, Active, Terminal, Received
  <2>4. Said(s)' = "NONE" \/ (Said(s)' = "CLEAN" /\ status = "STOPPED") \/ (Said(s)' = "FAILED" /\ status = "FAILED")
    BY <2>1, <2>2 DEF Said, Active, Terminal
  <2>5. contract!Settle(s)
    BY <2>1, <2>2, <2>3, <2>4, Shows DEF contract!Settle, contract!Says
  <2> QED
    BY <2>5 DEF contract!Next
<1>8. ASSUME NEW s \in Streams, Create(s) PROVE Kept
  <2>1. UNCHANGED <<Phase(s), Received(s), Said(s)>> /\ Apart(s)
    BY <1>1, <1>8, Creates DEF Phase, Received, Said, At
  <2> QED
    BY <1>2, <2>1
<1>9. ASSUME NEW s \in Streams, NEW action, Control(s, action) PROVE Kept
  <2>1. UNCHANGED <<Phase(s), Received(s), Said(s)>> /\ Apart(s)
    BY <1>1, <1>9, Controls DEF Phase, Received, Said, At, Active
  <2> QED
    BY <1>2, <2>1
<1>10. ASSUME NEW s \in Streams, NEW kind \in Kinds, NEW fill \in Fills \union {NoFill},
              NEW late \in BOOLEAN, Receive(s, kind, fill, late)
       PROVE  Kept
  <2>1. /\ Turns(s, "RETAINED", worker[s].stopping, worker[s].failed)
        /\ At(s, {"RECEIVING"}) /\ Received(s)' = Received(s) + 1
    BY <1>1, <1>10, Receives
  <2>2. Phase(s) \in {"RECEIVING", "STOPPING"} /\ UNCHANGED <<Phase(s), Said(s)>> /\ Apart(s)
    BY <1>3, <2>1 DEF Turns, Phase, At
  <2>3. contract!Record(s)
    BY <2>1, <2>2, Shows DEF contract!Record
  <2> QED
    BY <2>3 DEF contract!Next
<1>11. CASE \/ \E s \in Streams : Resume(s) \/ CatchupBind(s) \/ \E n \in 1..MaxEvents : CatchupAdvance(s, n)
            \/ StartQuery \/ (\E q \in DOMAIN queries : EndQuery(q)) \/ Beside
            \/ Close \/ UNCHANGED vars
  <2>1. \A s \in Streams : UNCHANGED <<Phase(s), Received(s), Said(s)>>
    BY <1>1, <1>11, Asides DEF Seen, Phase, Received, Said, At
  <2> QED
    BY <2>1 DEF contract!vars
<1>12. CASE Restart \/ Crash
  <2>1. /\ \A s \in Streams : worker'[s].pc = "NONE"
        /\ row' = row /\ events' = events
    BY <1>12 DEF Restart, Crash, Restarted, accountVars, NoWorker
  <2>2. CASE \A s \in Streams : At(s, {"NONE"})
    <3>1. \A s \in Streams : UNCHANGED <<Phase(s), Received(s), Said(s)>>
      BY <2>1, <2>2 DEF Phase, Received, Said, At
    <3> QED
      BY <3>1 DEF contract!vars
  <2>3. ASSUME NEW s \in Streams, ~At(s, {"NONE"}) PROVE Kept
    <3>1. \A r \in Streams \ {s} : At(r, {"NONE"})
      BY <1>1, <2>3 DEF LiveInv, Uses, AccountHasOneUser
    <3>2. \A r \in Streams \ {s} : UNCHANGED <<Phase(r), Received(r), Said(r)>>
      BY <2>1, <3>1 DEF Phase, Received, Said, At
    <3>3. UNCHANGED <<Received(s), Said(s)>> /\ Phase(s)' = "OVER"
      BY <1>1, <2>1, <2>3 DEF Phase, Received, Said, At, Active
    <3>4. Phase(s) \in {"BEFORE", "RECEIVING", "STOPPING", "COMPLETE", "BROKEN"}
      BY <2>3 DEF Phase
    <3>5. contract!Abort(s)
      BY <3>2, <3>3, <3>4 DEF contract!Abort, contract!Moves, contract!Becomes
    <3> QED
      BY <3>5 DEF contract!Next
  <2> QED
    BY <2>2, <2>3
<1> QED
  BY <1>4, <1>5, <1>6, <1>7, <1>8, <1>9, <1>10, <1>11, <1>12, Steps

(* Whatever requests, queries and crashes come between, each stream is received as
   ReceptionContract promises, which NativeStream keeps down to the child: a receiver
   that broke is never told as stopped, nor one that was not asked to stop. *)
THEOREM KeepsReceptionContract == Spec => contract!Spec
<1>1. Init => contract!Init /\ FailedEnds
  BY DEF Init, InitAccount, contract!Init, contract!Untouched, FailedEnds, Phase, Said, Received, At,
         NoRow, NoWorker
<1>2. PhaseInv /\ [Next]_vars => [contract!Next]_(contract!vars) /\ FailedEnds'
  BY ContractStep, FailuresEnd
<1> QED
  BY <1>1, <1>2, LiveInvariant, PTL DEF Spec, PhaseInv, contract!Spec

(* A stream has one session, as the contract says; once its receiver is gone nothing
   is retained, projected or resumed for it again: start() takes no existing row, and
   what works on a row wants the running thread. *)
THEOREM OneSession == Spec => OneSessionEach
  BY NoneReconnects, KeepsReceptionContract, PTL DEF OneSessionEach

-----------------------------------------------------------------------------
(* The positions, as PositionBook has them. *)

(* What the operations of StreamAccount are called for. *)
RetainOne ==
  \E s \in Streams, kind \in Kinds, fill \in Fills \union {NoFill}, received \in Int :
    /\ (kind = "Trade") <=> (fill # NoFill)
    /\ Retain(s, kind, fill, received) /\ UNCHANGED <<account, queries, baseline, book>>
BindOne ==
  \E s \in Streams : Bind(s) /\ UNCHANGED <<clock, executed, events, queries, baseline, book>>
AdvanceOne ==
  \E s \in Streams, n \in Nat : Advance(s, n) /\ UNCHANGED <<clock, executed, events, queries, baseline>>
IngestOne ==
  \/ \E q \in DOMAIN queries : IngestQuery(q)
  \/ \E s \in Streams : \E n \in 1..Received(s) : IngestPrefix(s, n)
AccountStep ==
  \/ UNCHANGED accountVars
  \/ Establish \/ BeginQuery \/ \E f \in Fills : Execute(f)
  \/ \E q \in DOMAIN queries : FinishQuery(q)
  \/ RetainOne \/ BindOne \/ AdvanceOne \/ IngestOne

LEMMA AccountSteps == ASSUME BookInv, [Next]_vars PROVE AccountStep
<1>1. ASSUME NEW s \in Streams,
             \/ StartFails(s) \/ Connect(s) \/ Poll(s) \/ Deadline(s)
             \/ Finish(s) \/ Fault(s) \/ Ended(s) \/ Project(s) \/ Create(s) \/ Resume(s)
             \/ \E action \in {"PAUSE", "STOP"} : Control(s, action)
      PROVE  UNCHANGED accountVars
  BY <1>1 DEF StartFails, Connect, Poll, Deadline, Finish, Fault, Ended, End, Project, Create,
              Resume, Control
<1>2. ASSUME NEW s \in Streams, Launch(s) \/ CatchupBind(s) PROVE UNCHANGED accountVars \/ BindOne
  BY <1>2 DEF Launch, CatchupBind, BindOne, accountVars
<1>3. ASSUME NEW s \in Streams, BookCallback(s) PROVE UNCHANGED accountVars \/ AdvanceOne
  <2>1. Received(s) \in Nat
    BY DEF BookInv, FactsTyped, Received
  <2> QED
    BY <1>3, <2>1 DEF BookCallback, AdvanceOne, accountVars
<1>4. ASSUME NEW s \in Streams, NEW n \in 1..MaxEvents, CatchupAdvance(s, n) PROVE AdvanceOne
  BY <1>4 DEF CatchupAdvance, AdvanceOne
<1>5. ASSUME NEW s \in Streams, NEW kind \in Kinds, NEW fill \in Fills \union {NoFill},
             NEW late \in BOOLEAN, Receive(s, kind, fill, late)
      PROVE  RetainOne
  <2> DEFINE received == IF late THEN events[s][Received(s)].received - 1 ELSE Tick
  <2>1. received \in Int
    BY <1>5, ReceivedInt
  <2>2. /\ (kind = "Trade") <=> (fill # NoFill)
        /\ Retain(s, kind, fill, received) /\ UNCHANGED <<account, queries, baseline, book>>
    BY <1>5 DEF Receive
  <2> HIDE DEF received
  <2> QED
    BY <2>1, <2>2 DEF RetainOne
<1>6. CASE StartQuery
  BY <1>6 DEF StartQuery, AccountStep
<1>7. ASSUME NEW q \in DOMAIN queries, EndQuery(q) PROVE FinishQuery(q)
  BY <1>7 DEF EndQuery
<1>8. CASE Beside
  BY <1>8 DEF Beside, AccountStep, IngestOne
<1>9. CASE Close \/ Restart \/ Crash \/ UNCHANGED vars
  BY <1>9 DEF Close, Restart, Crash, Restarted, vars, accountVars, AccountStep
<1> QED
  BY <1>1, <1>2, <1>3, <1>4, <1>5, <1>6, <1>7, <1>8, <1>9, Steps DEF AccountStep

(* A query without an answer has no fills, a stream is bound to a baseline or waits. *)
Unanswered == \A q \in DOMAIN queries : queries[q].ended = 0 => queries[q].fills = {}
Bindings   == \A s \in Streams : IF account[s].bound THEN baseline # 0 ELSE account[s].status = "WAITING"
PositionInv == BookInv /\ Unanswered /\ Bindings

LEMMA PositionsOpen == Init => PositionInv /\ positions!Init
<1> SUFFICES ASSUME Init PROVE PositionInv /\ positions!Init
  OBVIOUS
<1>1. InitAccount /\ BookInv
  BY BookOpens DEF Init
<1>2. Unanswered /\ Bindings
  BY <1>1 DEF InitAccount, Unanswered, Bindings, Unbound
<1>3. \A s \in Streams : Received(s) = 0 /\ account[s].through = 0 /\ View(s) = "UNBOUND"
  BY <1>1 DEF InitAccount, Received, View, Unbound
<1>4. \A s \in Streams : SegmentFills(s, 0, 0) = {}
  BY DEF SegmentFills
<1>5. \A s \in Streams \union {NoStream} : Told(s) = {}
  <2>1. \A q \in DOMAIN queries : queries[q].fills = {}
    BY <1>1 DEF InitAccount
  <2> QED
    BY <1>3, <1>4, <2>1 DEF Told
<1>6. \A f \in Fills : TimesCounted(f) = 0
  <2>1. DOMAIN book = {}
    BY <1>1 DEF InitAccount
  <2> QED
    BY <2>1, FS_EmptySet DEF TimesCounted
<1>7. BookUnknown = FALSE
  BY <1>1 DEF InitAccount, BookUnknown, UnknownUpTo
<1>8. baseline = 0
  BY <1>1 DEF InitAccount
<1> QED
  BY <1>1, <1>2, <1>3, <1>4, <1>5, <1>6, <1>7, <1>8
  DEF PositionInv, positions!Init, positions!Sources

(* Only the checkpoint of s moves. *)
Touched(s) == \A r \in Streams \ {s} : account'[r] = account[r]

(* Advancing moves the checkpoint and books one entry or none. *)
LEMMA AdvanceMoves ==
  ASSUME BookTyped, NEW s \in Streams, NEW n \in Nat, Advance(s, n)
  PROVE  /\ Touched(s) /\ account[s].bound /\ account'[s].bound
         /\ account'[s].through = n /\ account[s].through < n /\ n <= Received(s)
         /\ account'[s].status \in {"UNKNOWN", Applied(s, n)}
         /\ \/ book' = book
            \/ Pending(s, n) # {} /\ book' = Append(book, AdvanceEntry(s, n))
<1>1. account \in [Streams -> Checkpoint] /\ account[s] \in Checkpoint
  BY DEF BookTyped
<1>2. account[s].bound /\ account[s].through < n /\ n <= Received(s)
  BY DEF Advance
<1>4. CASE Pending(s, n) = {}
  <2>1. account' = [account EXCEPT ![s].through = n, ![s].status = Applied(s, n)] /\ book' = book
    BY <1>4 DEF Advance
  <2> QED
    BY <1>1, <1>2, <2>1 DEF Touched, Checkpoint
<1>5. CASE Pending(s, n) # {}
  <2> DEFINE ordinal == IF Reusable(s, n) # {} THEN Max(Reusable(s, n)) ELSE Len(book) + 1
             unknown == \/ UnknownUpTo(Min({ordinal, Len(book)}))
                        \/ Reusable(s, n) = {} /\ AdvanceEntry(s, n).problem
             st      == IF unknown THEN "UNKNOWN" ELSE Applied(s, n)
  <2>1. account' = [account EXCEPT ![s].through = n, ![s].material = Max(Pending(s, n)),
                                   ![s].entry = ordinal, ![s].status = st]
    BY <1>5 DEF Advance
  <2>2. book' = book \/ book' = Append(book, AdvanceEntry(s, n))
    BY <1>5 DEF Advance
  <2>3. st \in {"UNKNOWN", Applied(s, n)}
    OBVIOUS
  <2> HIDE DEF st, ordinal
  <2> QED
    BY <1>1, <1>2, <1>5, <2>1, <2>2, <2>3 DEF Touched, Checkpoint
<1> QED
  BY <1>4, <1>5

LEMMA PositionsStay == PositionInv /\ BookInv' /\ [Next]_vars => PositionInv'
<1> SUFFICES ASSUME PositionInv, BookInv', AccountStep PROVE Unanswered' /\ Bindings'
  BY AccountSteps DEF PositionInv
<1> USE DEF PositionInv
<1>0. /\ queries \in Seq(Queries) /\ account \in [Streams -> Checkpoint] /\ clock \in Nat
  BY DEF BookInv, FactsTyped, BookTyped
<1>1. CASE UNCHANGED <<queries, account>> /\ (baseline' = baseline \/ baseline' = Tick)
  BY <1>0, <1>1 DEF Tick, Unanswered, Bindings
<1>2. CASE BeginQuery
  <2>1. queries' = Append(queries, [begun |-> Tick, ended |-> 0, complete |-> FALSE, fills |-> {}])
        /\ account' = account /\ baseline' = baseline
    BY <1>2 DEF BeginQuery
  <2> QED
    BY <1>0, <2>1 DEF Unanswered, Bindings
<1>3. ASSUME NEW q \in DOMAIN queries, FinishQuery(q) PROVE Unanswered' /\ Bindings'
  <2>1. DOMAIN queries' = DOMAIN queries /\ queries'[q].ended = Tick /\ UNCHANGED <<account, baseline>>
        /\ \A p \in DOMAIN queries \ {q} : queries'[p] = queries[p]
    <3>1. PICK whole \in BOOLEAN :
            queries' = [queries EXCEPT ![q].ended = Tick, ![q].complete = whole,
                                       ![q].fills = IF whole THEN executed ELSE {}]
      BY <1>3 DEF FinishQuery
    <3>2. queries[q] \in Queries /\ UNCHANGED <<account, baseline>>
      BY <1>0, <1>3 DEF FinishQuery
    <3>3. DOMAIN queries[q] = {"begun", "ended", "complete", "fills"}
      BY <3>2 DEF Queries
    <3> QED
      BY <1>0, <3>1, <3>2, <3>3
  <2>2. Tick # 0
    BY <1>0 DEF Tick
  <2> QED
    BY <2>1, <2>2 DEF Unanswered, Bindings
<1>4. CASE BindOne \/ AdvanceOne
  <2>1. UNCHANGED <<queries, baseline>>
    BY <1>4 DEF BindOne, AdvanceOne
  <2>2. PICK s \in Streams : account'[s].bound /\ baseline # 0 /\ \A r \in Streams \ {s} : account'[r] = account[r]
    <3>1. ASSUME NEW s \in Streams, Bind(s) PROVE account'[s].bound /\ baseline # 0 /\ Touched(s)
      BY <1>0, <3>1 DEF Bind, Touched, Checkpoint
    <3>2. ASSUME NEW s \in Streams, NEW n \in Nat, Advance(s, n) PROVE account'[s].bound /\ baseline # 0 /\ Touched(s)
      BY <3>2, AdvanceMoves DEF BookInv, Bindings
    <3> QED
      BY <1>4, <3>1, <3>2 DEF BindOne, AdvanceOne, Touched
  <2> QED
    BY <2>1, <2>2 DEF Unanswered, Bindings
<1> QED
  BY <1>1, <1>2, <1>3, <1>4
  DEF AccountStep, accountVars, Establish, Execute, RetainOne, Retain, IngestOne, IngestQuery, IngestPrefix

(* How often a fill is counted, as a state of the book. *)
CountedOnce == \A f \in Fills : TimesCounted(f) = IF f \in Known THEN 1 ELSE 0

LEMMA CountIs == BookInv => CountedOnce
<1> SUFFICES ASSUME BookInv, NEW f \in Fills PROVE TimesCounted(f) = IF f \in Known THEN 1 ELSE 0
  BY DEF CountedOnce
<1> DEFINE S == {i \in DOMAIN book : f \in book[i].fills}
<1>1. \A i, j \in S : i = j
  BY DEF BookInv, Counted
<1>2. f \in Known <=> S # {}
  BY DEF Known
<1>3. CASE S = {}
  BY <1>2, <1>3, FS_EmptySet DEF TimesCounted
<1>4. ASSUME NEW i \in S PROVE TimesCounted(f) = 1
  <2>1. S = {i}
    BY <1>1, <1>4
  <2> QED
    BY <2>1, FS_Singleton DEF TimesCounted
<1> QED
  BY <1>2, <1>3, <1>4

LEMMA DoubtGrows ==
  ASSUME BookTyped, NEW e \in Entries, book' = Append(book, e)
  PROVE  BookUnknown' <=> (BookUnknown \/ e.problem)
<1>1. /\ Len(book) \in Nat /\ Len(book') = Len(book) + 1 /\ book'[Len(book) + 1] = e
      /\ \A j \in 1..Len(book) : book'[j] = book[j]
  BY DEF BookTyped
<1> QED
  BY <1>1 DEF BookUnknown, UnknownUpTo

(* A segment of a stream is part of what the stream told. *)
LEMMA ToldBy ==
  ASSUME NEW s \in Streams, NEW a \in Nat, NEW n \in Nat, Received(s) \in Nat, n <= Received(s)
  PROVE  SegmentFills(s, a, n) \subseteq Told(s)
<1>1. s # NoStream
  BY StreamAssumption DEF StreamAssumption
<1>2. a + 1 .. n \subseteq 0 + 1 .. Received(s)
  OBVIOUS
<1> QED
  BY <1>1, <1>2 DEF Told, SegmentFills

-----------------------------------------------------------------------------
(* The steps of the account as steps of PositionBook. *)

Sources == Streams \union {NoStream}

LEMMA EntryCounts ==
  ASSUME BookInv, BookInv', NEW s \in Sources, NEW e \in Entries, book' = Append(book, e), baseline # 0,
         UNCHANGED <<baseline, events, queries>>, e.fills \subseteq Told(s), e.fills \cap Known = {}
  PROVE  positions!Enter(s, e.fills) /\ (BookUnknown' <=> (BookUnknown \/ e.problem))
<1>1. BookUnknown' <=> (BookUnknown \/ e.problem)
  BY DoubtGrows DEF BookInv
<1>2. Known' = Known \union e.fills
  BY Appended DEF BookInv, BookTyped
<1>3. \A f \in Fills : /\ TimesCounted(f) = IF f \in Known THEN 1 ELSE 0
                       /\ TimesCounted(f)' = IF f \in Known' THEN 1 ELSE 0
  <2>1. CountedOnce /\ CountedOnce'
    BY CountIs, PTL
  <2> QED
    BY <2>1 DEF CountedOnce
<1>4. e.fills \subseteq Fills
  BY DEF Entries
<1>5. \A f \in Fills : TimesCounted(f)' = IF f \in e.fills THEN TimesCounted(f) + 1 ELSE TimesCounted(f)
  BY <1>2, <1>3
<1>6. \A r \in Sources : Told(r)' = Told(r)
  BY DEF Told, SegmentFills, Received
<1>7. \A f \in e.fills : TimesCounted(f) = 0
  BY <1>3, <1>4
<1>8. BookUnknown \in BOOLEAN /\ BookUnknown' \in {BookUnknown, TRUE}
  BY <1>1 DEF BookUnknown, UnknownUpTo
<1> QED
  BY <1>1, <1>4, <1>5, <1>6, <1>7, <1>8 DEF positions!Enter, Sources

LEMMA NothingCounts ==
  ASSUME NEW s \in Sources, baseline # 0, UNCHANGED <<baseline, events, queries, book>>
  PROVE  positions!Enter(s, {}) /\ BookUnknown' = BookUnknown
<1>1. \A r \in Sources : Told(r)' = Told(r)
  BY DEF Told, SegmentFills, Received
<1>2. \A f \in Fills : TimesCounted(f)' = TimesCounted(f)
  BY DEF TimesCounted
<1>3. BookUnknown' = BookUnknown
  BY DEF BookUnknown, UnknownUpTo
<1> QED
  BY <1>1, <1>2, <1>3 DEF positions!Enter, Sources

Reported(s) == SegmentFills(s, 0, account[s].through)

LEMMA Tells ==
  ASSUME NEW s \in Sources, UNCHANGED <<account, baseline, book>>,
         \A r \in Streams : Reported(r)' = Reported(r),
         \A r \in Sources \ {s} : Told(r)' = Told(r),
         Told(s) \subseteq Told(s)', Told(s)' \subseteq Fills
  PROVE  positions!Next
<1>1. \A f \in Fills : TimesCounted(f)' = TimesCounted(f)
  BY DEF TimesCounted
<1>2. BookUnknown' = BookUnknown /\ \A r \in Streams : View(r)' = View(r)
  BY DEF BookUnknown, UnknownUpTo, View
<1>3. Told(s)' = Told(s) \union Told(s)'
  OBVIOUS
<1>4. positions!Tell(s, Told(s)')
  BY <1>1, <1>2, <1>3 DEF positions!Tell, Sources, Reported
<1> QED
  BY <1>4 DEF positions!Next, positions!Sources, Sources

LEMMA OutsideTells ==
  ASSUME PositionInv, BookInv',
         UNCHANGED accountVars \/ Establish \/ BeginQuery \/ \E f \in Fills : Execute(f)
  PROVE  [positions!Next]_(positions!vars)
<1>1. UNCHANGED <<events, account, book>>
  BY DEF accountVars, Establish, BeginQuery, Execute
<1>2. /\ \A f \in Fills : TimesCounted(f)' = TimesCounted(f)
      /\ BookUnknown' = BookUnknown /\ \A r \in Streams : View(r)' = View(r)
      /\ \A r \in Streams : Reported(r)' = Reported(r)
  BY <1>1 DEF TimesCounted, BookUnknown, UnknownUpTo, View, Reported, SegmentFills
<1>3. \A r \in Sources : Told(r)' = Told(r)
  <2>1. CASE queries' = queries
    BY <1>1, <2>1 DEF Told, SegmentFills, Received
  <2>2. CASE BeginQuery
    <3>1. queries \in Seq(Queries)
      BY DEF PositionInv, BookInv, FactsTyped
    <3>2. queries' = Append(queries, [begun |-> Tick, ended |-> 0, complete |-> FALSE, fills |-> {}])
      BY <2>2 DEF BeginQuery
    <3>3. /\ DOMAIN queries' = DOMAIN queries \union {Len(queries) + 1}
          /\ \A q \in DOMAIN queries : queries'[q] = queries[q]
          /\ queries'[Len(queries) + 1].fills = {}
      BY <3>1, <3>2
    <3>4. UNION {queries'[q].fills : q \in DOMAIN queries'} = UNION {queries[q].fills : q \in DOMAIN queries}
      BY <3>3
    <3> QED
      BY <1>1, <3>4 DEF Told, SegmentFills, Received
  <2> QED
    BY <2>1, <2>2 DEF accountVars, Establish, Execute
<1>4. CASE Establish
  <2>1. baseline = 0 /\ baseline' # 0
    BY <1>4 DEF Establish, Tick, PositionInv, BookInv, FactsTyped
  <2>2. positions!Open
    BY <1>2, <1>3, <2>1 DEF positions!Open, Sources, Reported
  <2> QED
    BY <2>2 DEF positions!Next
<1>5. CASE baseline' = baseline
  BY <1>2, <1>3, <1>5 DEF positions!vars, Sources, Reported
<1> QED
  BY <1>4, <1>5 DEF accountVars, BeginQuery, Execute

LEMMA AnswerTells ==
  ASSUME PositionInv, BookInv', NEW q \in DOMAIN queries, FinishQuery(q)
  PROVE  positions!Next
<1>1. UNCHANGED <<events, account, book, baseline>> /\ queries[q].ended = 0
  BY DEF FinishQuery
<1>2. queries \in Seq(Queries) /\ queries' \in Seq(Queries)
  BY DEF PositionInv, BookInv, FactsTyped
<1>3. queries[q].fills = {}
  BY <1>1 DEF PositionInv, Unanswered
<1>4. DOMAIN queries' = DOMAIN queries /\ \A p \in DOMAIN queries \ {q} : queries'[p] = queries[p]
  BY <1>2 DEF FinishQuery
<1>5. Told(NoStream) \subseteq Told(NoStream)'
  BY <1>3, <1>4 DEF Told
<1>6. Told(NoStream)' \subseteq Fills
  <2>1. \A p \in DOMAIN queries' : queries'[p] \in Queries
    BY <1>2
  <2> QED
    BY <2>1 DEF Told, Queries
<1>7. \A r \in Sources \ {NoStream} : Told(r)' = Told(r)
  BY <1>1 DEF Told, SegmentFills, Received
<1>8. \A r \in Streams : Reported(r)' = Reported(r)
  BY <1>1 DEF Reported, SegmentFills
<1> QED
  BY <1>1, <1>5, <1>6, <1>7, <1>8, Tells DEF Sources

LEMMA RetainTells ==
  ASSUME PositionInv, BookInv', RetainOne
  PROVE  positions!Next
<1>1. PICK s \in Streams, kind \in Kinds, fill \in Fills \union {NoFill}, received \in Int :
        /\ (kind = "Trade") <=> (fill # NoFill)
        /\ Retain(s, kind, fill, received) /\ UNCHANGED <<account, queries, baseline, book>>
  BY DEF RetainOne
<1>2. /\ FactsGrow /\ Received(s)' = Received(s) + 1
      /\ \A r \in Streams \ {s} : events'[r] = events[r]
  BY <1>1, RetainGrows DEF PositionInv
<1>3. \A r \in Streams : /\ Received(r) \in Nat /\ account[r].through \in Nat
                         /\ account[r].through <= Received(r)
  <2>1. \A r \in Streams : Received(r) \in Nat /\ account[r] \in Checkpoint
    BY DEF PositionInv, BookInv, FactsTyped, BookTyped, Received
  <2> QED
    BY <2>1 DEF PositionInv, BookInv, Passed, Checkpoint
<1>4. s # NoStream /\ \A r \in Streams : r # NoStream
  BY StreamAssumption DEF StreamAssumption
<1>5. ASSUME NEW r \in Streams PROVE Reported(r)' = Reported(r)
  <2>1. \A k \in 1..account[r].through : events'[r][k] = events[r][k]
    BY <1>2, <1>3 DEF FactsGrow
  <2> QED
    BY <1>1, <2>1 DEF Reported, SegmentFills
<1>6. \A r \in Sources \ {s} : Told(r)' = Told(r)
  <2>1. Told(NoStream)' = Told(NoStream)
    BY <1>1 DEF Told
  <2>2. ASSUME NEW r \in Streams \ {s} PROVE Told(r)' = Told(r)
    BY <1>2, <1>4 DEF Told, SegmentFills, Received
  <2> QED
    BY <2>1, <2>2 DEF Sources
<1>7. Told(s) \subseteq Told(s)'
  <2>1. Told(s) = SegmentFills(s, 0, Received(s)) /\ Told(s)' = SegmentFills(s, 0, Received(s))'
    BY <1>4 DEF Told
  <2>2. ASSUME NEW k \in 0 + 1..Received(s), events[s][k].kind = "Trade"
        PROVE  events[s][k].fill \in SegmentFills(s, 0, Received(s))'
    <3>1. k \in 1..Received(s) /\ k \in 0 + 1..Received(s)'
      BY <1>2, <1>3, <2>2
    <3>2. events'[s][k] = events[s][k]
      BY <1>2, <3>1 DEF FactsGrow
    <3> QED
      BY <2>2, <3>1, <3>2 DEF SegmentFills
  <2>3. SegmentFills(s, 0, Received(s)) \subseteq SegmentFills(s, 0, Received(s))'
    BY <2>2 DEF SegmentFills
  <2> QED
    BY <2>1, <2>3
<1>8. Told(s)' \subseteq Fills
  <2>1. FactsTyped' /\ Received(s)' \in Nat
    BY DEF BookInv, FactsTyped, Received
  <2>2. ASSUME NEW k \in 1..Received(s)', events'[s][k].kind = "Trade" PROVE events'[s][k].fill \in Fills
    <3>1. events'[s][k] \in Callbacks /\ events'[s][k].fill # NoFill
      BY <2>1, <2>2 DEF FactsTyped, Received
    <3> QED
      BY <3>1 DEF Callbacks
  <2> QED
    BY <1>4, <2>2 DEF Told, SegmentFills
<1> QED
  BY <1>1, <1>5, <1>6, <1>7, <1>8, Tells DEF Sources

LEMMA BindBinds ==
  ASSUME PositionInv, NEW s \in Streams, Bind(s),
         UNCHANGED <<clock, executed, events, queries, baseline, book>>
  PROVE  [positions!Next]_(positions!vars)
<1>1. baseline # 0 /\ account' = [account EXCEPT ![s].bound = TRUE] /\ account \in [Streams -> Checkpoint]
  BY DEF Bind, PositionInv, BookInv, BookTyped
<1>2. \A r \in Streams : /\ account'[r].through = account[r].through /\ account'[r].status = account[r].status
                         /\ account'[r].bound = IF r = s THEN TRUE ELSE account[r].bound
  BY <1>1 DEF Checkpoint
<1>3. /\ \A f \in Fills : TimesCounted(f)' = TimesCounted(f)
      /\ BookUnknown' = BookUnknown
      /\ \A r \in Sources : Told(r)' = Told(r)
      /\ \A r \in Streams : Reported(r)' = Reported(r)
  BY <1>2 DEF TimesCounted, BookUnknown, UnknownUpTo, Told, Reported, SegmentFills, Received
<1>4. \A r \in Streams \ {s} : View(r)' = View(r)
  BY <1>2, <1>3 DEF View
<1>5. CASE account[s].bound
  <2>1. View(s)' = View(s)
    BY <1>2, <1>3, <1>5 DEF View
  <2> QED
    BY <1>3, <1>4, <2>1 DEF positions!vars, Sources, Reported
<1>6. CASE ~account[s].bound
  <2>1. account[s].status = "WAITING"
    BY <1>6 DEF PositionInv, Bindings
  <2>2. View(s) = "UNBOUND" /\ View(s)' = IF BookUnknown THEN "UNKNOWN" ELSE "WAITING"
    BY <1>2, <1>3, <1>6, <2>1 DEF View
  <2>3. \A r \in Streams : View(r) # "UNBOUND" /\ BookUnknown => View(r) = "UNKNOWN"
    BY DEF View
  <2>4. positions!Bind(s)
    BY <1>1, <1>3, <1>4, <2>2, <2>3 DEF positions!Bind, positions!Doubted, Sources, Reported
  <2> QED
    BY <2>4 DEF positions!Next
<1> QED
  BY <1>5, <1>6

LEMMA SegmentEntry ==
  ASSUME FactsTyped, NEW s \in Streams, NEW a \in Nat, NEW n \in Nat, n <= Received(s)
  PROVE  /\ FromStream(s, a, n) \in Entries
         /\ FromStream(s, a, n).fills \subseteq Told(s)
         /\ FromStream(s, a, n).fills \cap Known = {}
<1>1. Received(s) \in Nat
  BY DEF FactsTyped, Received
<1>2. SegmentFills(s, a, n) \subseteq Fills /\ SegmentFills(s, a, n) \subseteq Told(s)
  BY <1>1, FillsOfSegments, ToldBy
<1>3. SegmentProblem(s, a, n) \in BOOLEAN /\ 0 \in 0..MaxQueries
  BY StreamAssumption DEF SegmentProblem, StreamAssumption
<1> QED
  BY <1>2, <1>3 DEF FromStream, Entries

LEMMA Books ==
  ASSUME PositionInv, BookInv', NEW s \in Sources, NEW e \in Entries, book' = Append(book, e), baseline # 0,
         UNCHANGED <<baseline, events, queries, account>>, e.fills \subseteq Told(s), e.fills \cap Known = {}
  PROVE  positions!Next
<1>1. positions!Enter(s, e.fills) /\ (BookUnknown' <=> (BookUnknown \/ e.problem))
  BY EntryCounts DEF PositionInv
<1>2. \A r \in Streams : View(r)' = IF BookUnknown' /\ View(r) # "UNBOUND" THEN "UNKNOWN" ELSE View(r)
  <2>1. \A r \in Streams : account[r].status # "UNBOUND"
    BY DEF PositionInv, BookInv, BookTyped, Checkpoint
  <2> QED
    BY <1>1, <2>1 DEF View
<1>3. \A r \in Streams : Reported(r)' = Reported(r)
  BY DEF Reported, SegmentFills
<1>4. positions!Book(s, e.fills)
  BY <1>1, <1>2, <1>3 DEF positions!Book, positions!Doubted, Reported
<1>5. e.fills \in SUBSET Fills
  BY DEF Entries
<1> QED
  BY <1>4, <1>5 DEF positions!Next, positions!Sources, Sources

LEMMA IngestBooks == ASSUME PositionInv, BookInv', IngestOne PROVE positions!Next
<1>1. FactsTyped
  BY DEF PositionInv, BookInv
<1>2. ASSUME NEW q \in DOMAIN queries, IngestQuery(q) PROVE positions!Next
  <2> DEFINE e == FromQuery(q)
  <2>1. /\ book' = Append(book, e) /\ baseline # 0
        /\ UNCHANGED <<baseline, events, queries, account>>
    BY <1>2 DEF IngestQuery
  <2>2. queries[q] \in Queries /\ q \in 0..MaxQueries
    BY <1>1, StreamAssumption DEF FactsTyped, StreamAssumption
  <2>3. (~queries[q].complete \/ ~(Known \subseteq queries[q].fills)) \in BOOLEAN
    OBVIOUS
  <2>4. e \in Entries /\ e.fills = queries[q].fills \ Known
    BY <2>2, <2>3 DEF FromQuery, Entries, Queries
  <2>5. e.fills \subseteq Told(NoStream) /\ e.fills \cap Known = {}
    BY <2>4 DEF Told
  <2> HIDE DEF e
  <2> QED
    BY <2>1, <2>4, <2>5, Books DEF Sources
<1>3. ASSUME NEW s \in Streams, NEW n \in 1..Received(s), IngestPrefix(s, n) PROVE positions!Next
  <2> DEFINE e == FromStream(s, BookedThrough(s), n)
  <2>1. /\ book' = Append(book, e) /\ baseline # 0
        /\ UNCHANGED <<baseline, events, queries, account>>
    BY <1>3 DEF IngestPrefix
  <2>2. BookedThrough(s) \in Nat /\ n \in Nat /\ n <= Received(s)
    BY <1>1, BookedThroughIs DEF PositionInv, BookInv, AllGreatest, Greatest, FactsTyped, Received
  <2>3. e \in Entries /\ e.fills \subseteq Told(s) /\ e.fills \cap Known = {}
    BY <1>1, <2>2, SegmentEntry
  <2> HIDE DEF e
  <2> QED
    BY <2>1, <2>3, Books DEF Sources
<1> QED
  BY <1>2, <1>3 DEF IngestOne

LEMMA AdvanceApplies ==
  ASSUME PositionInv, BookInv', NEW s \in Streams, NEW n \in Nat, Advance(s, n),
         UNCHANGED <<clock, executed, events, queries, baseline>>
  PROVE  positions!Next
<1> DEFINE new  == IF book' = book THEN {} ELSE AdvanceEntry(s, n).fills
           more == SegmentFills(s, 0, n)
<1>1. /\ Touched(s) /\ account[s].bound /\ account'[s].bound
      /\ account'[s].through = n /\ account[s].through < n /\ n <= Received(s)
      /\ account'[s].status \in {"UNKNOWN", Applied(s, n)}
      /\ \/ book' = book
         \/ Pending(s, n) # {} /\ book' = Append(book, AdvanceEntry(s, n))
  BY AdvanceMoves DEF PositionInv, BookInv
<1>2. FactsTyped /\ BookTyped /\ baseline # 0 /\ account \in [Streams -> Checkpoint]
  BY <1>1 DEF PositionInv, BookInv, BookTyped, Bindings
<1>3. Received(s) \in Nat /\ account[s].through \in Nat /\ account[s].status \in {"WAITING", "READY", "UNKNOWN"}
  BY <1>2 DEF FactsTyped, Received, Checkpoint
<1>4. /\ positions!Enter(s, new) /\ new \in SUBSET Fills
      /\ BookUnknown => BookUnknown'
  <2>1. CASE book' = book
    <3>1. positions!Enter(s, {}) /\ BookUnknown' = BookUnknown
      BY <1>2, <2>1, NothingCounts DEF Sources
    <3> QED
      BY <2>1, <3>1
  <2>2. CASE book' # book
    <3> DEFINE e == AdvanceEntry(s, n)
    <3>1. book' = Append(book, e) /\ Pending(s, n) # {}
      BY <1>1, <2>2
    <3>2. Max(Pending(s, n)) \in Nat /\ Max(Pending(s, n)) <= Received(s) /\ Min(Pending(s, n)) \in Nat \ {0}
      BY <1>1, <1>2, <1>3, <3>1, PendingIs
    <3>3. BookedThrough(s) \in Nat
      BY BookedThroughIs DEF PositionInv, BookInv, AllGreatest, Greatest
    <3>4. Max({BookedThrough(s), Min(Pending(s, n)) - 1}) \in Nat
      <4>1. Min(Pending(s, n)) - 1 \in Nat
        BY <3>2
      <4> QED
        BY <3>3, <4>1, TwoHaveMax DEF MaxOfTwo
    <3>5. e \in Entries /\ e.fills \subseteq Told(s) /\ e.fills \cap Known = {}
      BY <1>2, <3>2, <3>4, SegmentEntry DEF AdvanceEntry
    <3> HIDE DEF e
    <3>6. positions!Enter(s, e.fills) /\ (BookUnknown' <=> (BookUnknown \/ e.problem))
      BY <1>2, <3>1, <3>5, EntryCounts DEF PositionInv, Sources
    <3>7. new = e.fills
      BY <2>2 DEF e
    <3> QED
      BY <3>5, <3>6, <3>7 DEF Entries
  <2> QED
    BY <2>1, <2>2
<1>5. /\ more \subseteq Told(s) /\ more \in SUBSET Fills
      /\ Reported(s)' = Reported(s) \union more
      /\ \A r \in Streams \ {s} : Reported(r)' = Reported(r)
  <2>1. more \subseteq Told(s) /\ more \subseteq Fills
    BY <1>1, <1>2, <1>3, ToldBy, FillsOfSegments
  <2>2. Reported(s)' = more
    BY <1>1 DEF Reported, SegmentFills
  <2>3. Reported(s) \subseteq more
    BY <1>1, <1>3 DEF Reported, SegmentFills
  <2>4. \A r \in Streams \ {s} : Reported(r)' = Reported(r)
    BY <1>1 DEF Reported, SegmentFills, Touched
  <2> QED
    BY <2>1, <2>2, <2>3, <2>4
<1>6. \A f \in more : TimesCounted(f)' = 1
  <2>1. CountedOnce'
    BY CountIs, PTL
  <2>2. PassedKnown'
    BY PassedFills, PTL
  <2>3. more \subseteq Known'
    BY <1>1, <2>2 DEF PassedKnown, SegmentFills
  <2> QED
    BY <1>5, <2>1, <2>3 DEF CountedOnce
<1>7. View(s) # "UNBOUND" /\ View(s)' # "UNBOUND"
  BY <1>1, <1>3 DEF View, Applied
<1>8. PICK said \in positions!After(View(s)) :
        View(s)' = IF BookUnknown' THEN "UNKNOWN" ELSE said
  <2>1. CASE BookUnknown'
    <3>1. "UNKNOWN" \in positions!After(View(s))
      BY <1>1, <1>3 DEF View, positions!After
    <3> QED
      BY <1>1, <2>1, <3>1 DEF View
  <2>2. CASE ~BookUnknown'
    <3>1. View(s) = account[s].status /\ View(s)' = account'[s].status
      BY <1>1, <1>4, <2>2 DEF View
    <3>2. account'[s].status \in positions!After(account[s].status)
      BY <1>1, <1>3 DEF Applied, positions!After
    <3> QED
      BY <2>2, <3>1, <3>2
  <2> QED
    BY <2>1, <2>2
<1>9. \A r \in Streams \ {s} : View(r)' = IF BookUnknown' /\ View(r) # "UNBOUND" THEN "UNKNOWN" ELSE View(r)
  <2>1. \A r \in Streams : account[r].status # "UNBOUND"
    BY <1>2 DEF Checkpoint
  <2> QED
    BY <1>1, <1>4, <2>1 DEF View, Touched
<1>10. said # "UNBOUND"
  BY <1>1, <1>3, <1>8 DEF positions!After, View
<1> HIDE DEF new, more
<1>11. positions!Apply(s, new, more)
  <2> DEFINE shown == [[r \in Streams |-> View(r)] EXCEPT ![s] = said]
  <2>1. [r \in Streams |-> View(r)'] = [r \in Streams |-> IF BookUnknown' /\ shown[r] # "UNBOUND" THEN "UNKNOWN" ELSE shown[r]]
    BY <1>8, <1>9, <1>10
  <2> QED
    BY <1>4, <1>5, <1>6, <1>7, <1>8, <2>1 DEF positions!Apply, positions!Doubted, Sources, Reported
<1> QED
  BY <1>4, <1>5, <1>11 DEF positions!Next

LEMMA PositionStep == ASSUME PositionInv, BookInv', [Next]_vars PROVE [positions!Next]_(positions!vars)
<1>1. AccountStep
  BY AccountSteps DEF PositionInv
<1>2. CASE BindOne
  BY <1>2, BindBinds DEF BindOne
<1>3. CASE AdvanceOne
  BY <1>3, AdvanceApplies DEF AdvanceOne
<1>4. ASSUME NEW q \in DOMAIN queries, FinishQuery(q) PROVE positions!Next
  BY <1>4, AnswerTells
<1> QED
  BY <1>1, <1>2, <1>3, <1>4, OutsideTells, RetainTells, IngestBooks DEF AccountStep

(* Requests, receivers, queries and crashes in any order keep what PositionBook promises:
   a fill is counted once, and only after a stream or a query reported it; a stream's
   checkpoint stands for counted fills that it reported itself; a reader that is told
   UNKNOWN is told so ever after (ledger.py, stream_progress.py). *)
THEOREM KeepsPositions == Spec => PositionsAreKept
<1>1. Init => PositionInv /\ positions!Init
  BY PositionsOpen
<1>2. PositionInv /\ BookInv' /\ [Next]_vars => [positions!Next]_(positions!vars) /\ PositionInv'
  BY PositionStep, PositionsStay
<1>3. LiveInv => BookInv
  BY DEF LiveInv
<1> QED
  BY <1>1, <1>2, <1>3, LiveInvariant, PTL DEF Spec, PositionsAreKept, positions!Spec

-----------------------------------------------------------------------------
(* The order of the book, where the receipt clock does not fall back. *)

(* The period of an entry's source, by the commits of its callbacks. *)
StartAt(ev, qs, e) == IF e.query # 0 THEN qs[e.query].begun ELSE ev[e.stream][e.after + 1].committed
EndAt(ev, qs, e)   == IF e.query # 0 THEN qs[e.query].ended ELSE ev[e.stream][e.through].committed

(* The source of an entry is there and is over. *)
Sourced(ev, qs, e) ==
  /\ e \in Entries
  /\ IF e.query # 0 THEN e.query \in DOMAIN qs /\ qs[e.query].ended # 0
     ELSE e.stream \in Streams /\ e.after < e.through /\ e.through <= Len(ev[e.stream])

(* A callback is received when it is committed, after the one before it. *)
OnTime ==
  \A s \in Streams : \A k \in 1..Received(s) :
    /\ events[s][k].received = events[s][k].committed /\ events[s][k].committed <= clock
    /\ \A m \in 1..Received(s) : m < k => events[s][m].committed < events[s][k].committed

QueriesOnTime ==
  \A q \in DOMAIN queries :
    /\ queries[q].begun <= clock
    /\ queries[q].ended = 0 \/ (queries[q].begun < queries[q].ended /\ queries[q].ended <= clock)

InOrder ==
  /\ \A i \in DOMAIN book : Sourced(events, queries, book[i])
  /\ \A i, j \in DOMAIN book : i < j => StartAt(events, queries, book[j]) > EndAt(events, queries, book[i])

ChronicleInv == OnTime /\ QueriesOnTime /\ InOrder

(* The period of a source is not empty, and is the one ledger.py compares. *)
Periods(e) ==
  /\ StartAt(events, queries, e) \in Nat /\ EndAt(events, queries, e) \in Nat
  /\ StartAt(events, queries, e) <= EndAt(events, queries, e)
  /\ SourceStart(e) = StartAt(events, queries, e) /\ SourceEnd(e) = EndAt(events, queries, e)

LEMMA PeriodsAre ==
  ASSUME FactsTyped, OnTime, QueriesOnTime, NEW e, Sourced(events, queries, e)
  PROVE  Periods(e)
<1>1. e \in Entries
  BY DEF Sourced
<1>2. CASE e.query # 0
  <2>1. e.query \in DOMAIN queries /\ queries[e.query].ended # 0
    BY <1>2 DEF Sourced
  <2>2. queries[e.query] \in Queries
    BY <2>1 DEF FactsTyped
  <2>3. queries[e.query].begun \in Nat /\ queries[e.query].ended \in Nat
    BY <2>2 DEF Queries
  <2>4. queries[e.query].begun < queries[e.query].ended
    BY <2>1 DEF QueriesOnTime
  <2> QED
    BY <1>2, <2>3, <2>4 DEF Periods, StartAt, EndAt, SourceStart, SourceEnd
<1>3. CASE e.query = 0
  <2> DEFINE s == e.stream
             a == e.after + 1
             n == e.through
  <2>1. s \in Streams /\ a \in 1..Received(s) /\ n \in 1..Received(s) /\ a <= n
    <3>1. e.after \in Nat /\ e.through \in Nat
      BY <1>1 DEF Entries
    <3>2. s \in Streams /\ e.after < n /\ n <= Received(s)
      BY <1>3 DEF Sourced, Received
    <3>3. Received(s) \in Nat
      BY <3>2 DEF FactsTyped, Received
    <3> QED
      BY <3>1, <3>2, <3>3
  <2> HIDE DEF s, a, n
  <2>2. events[s][a] \in Callbacks /\ events[s][n] \in Callbacks
    BY <2>1 DEF FactsTyped, Received
  <2> DEFINE x == events[s][a].committed
             y == events[s][n].committed
  <2>3. x \in Nat /\ y \in Nat
    BY <2>2 DEF Callbacks
  <2>4. events[s][a].received = x /\ events[s][n].received = y
    BY <2>1 DEF OnTime
  <2>5. x <= y
    <3>1. CASE a = n
      BY <2>3, <3>1
    <3>2. CASE a < n
      BY <2>1, <2>3, <3>2 DEF OnTime
    <3> QED
      BY <2>1, <3>1, <3>2
  <2>6. Min({x, x}) = x /\ Max({y, y}) = y
    <3> HIDE DEF x, y
    <3>1. {x, x} \in SUBSET Nat /\ {x, x} # {}
      BY <2>3
    <3>2. Min({x, x}) \in {x, x}
      BY <3>1, MinIsLeast
    <3>3. MaxOfTwo(y, y)
      BY <2>3, TwoHaveMax
    <3> QED
      BY <3>2, <3>3 DEF MaxOfTwo
  <2>7. StartAt(events, queries, e) = x /\ EndAt(events, queries, e) = y
    BY <1>3 DEF StartAt, EndAt, s, a, n
  <2>8. SourceStart(e) = Min({events[s][a].received, x}) /\ SourceEnd(e) = Max({events[s][n].received, y})
    BY <1>3 DEF SourceStart, SourceEnd, s, a, n
  <2> HIDE DEF x, y
  <2>9. SourceStart(e) = x /\ SourceEnd(e) = y
    BY <2>4, <2>6, <2>8
  <2> QED
    BY <2>3, <2>5, <2>7, <2>9 DEF Periods
<1> QED
  BY <1>2, <1>3

(* What was received stays, a finished query stays as it finished. *)
SourcesStay ==
  /\ \A s \in Streams : /\ Received(s) <= Received(s)'
                        /\ \A k \in 1..Received(s) : events'[s][k] = events[s][k]
  /\ \A q \in DOMAIN queries : q \in DOMAIN queries' /\ (queries[q].ended # 0 => queries'[q] = queries[q])

LEMMA OrderStays ==
  ASSUME FactsTyped, FactsTyped', InOrder, SourcesStay, book' = book PROVE InOrder'
<1>1. ASSUME NEW i \in DOMAIN book
      PROVE  /\ Sourced(events', queries', book[i])
             /\ StartAt(events', queries', book[i]) = StartAt(events, queries, book[i])
             /\ EndAt(events', queries', book[i]) = EndAt(events, queries, book[i])
  <2> DEFINE e == book[i]
  <2>1. Sourced(events, queries, e)
    BY DEF InOrder
  <2> HIDE DEF e
  <2>2. CASE e.query # 0
    BY <2>1, <2>2 DEF Sourced, StartAt, EndAt, SourcesStay, e
  <2>3. CASE e.query = 0
    <3>1. e.after \in Nat /\ e.through \in Nat
      BY <2>1 DEF Sourced, Entries
    <3>2. e.stream \in Streams /\ e.after < e.through /\ e.through <= Received(e.stream)
      BY <2>1, <2>3 DEF Sourced, Received
    <3>3. Received(e.stream) \in Nat /\ Len(events'[e.stream]) \in Nat
          /\ Received(e.stream) <= Len(events'[e.stream])
      BY <3>2 DEF FactsTyped, SourcesStay, Received
    <3>4. e.through <= Len(events'[e.stream])
      BY <3>1, <3>2, <3>3
    <3>5. e.after + 1 \in 1..Received(e.stream) /\ e.through \in 1..Received(e.stream)
      BY <3>1, <3>2, <3>3
    <3>6. /\ events'[e.stream][e.after + 1] = events[e.stream][e.after + 1]
          /\ events'[e.stream][e.through] = events[e.stream][e.through]
      BY <3>2, <3>5 DEF SourcesStay
    <3> QED
      BY <2>1, <2>3, <3>2, <3>4, <3>6 DEF Sourced, StartAt, EndAt, e
  <2> QED
    BY <2>2, <2>3
<1> QED
  BY <1>1 DEF InOrder

LEMMA TimeStays ==
  ASSUME FactsTyped, FactsTyped', ChronicleInv, UNCHANGED <<events, queries, book>>, clock <= clock'
  PROVE  ChronicleInv'
<1>1. clock \in Nat /\ clock' \in Nat
  BY DEF FactsTyped
<1>2. \A s \in Streams : Received(s)' = Received(s)
  BY DEF Received
<1>3. ASSUME NEW s \in Streams, NEW k \in 1..Received(s) PROVE events[s][k].committed <= clock'
  <2>1. events[s][k] \in Callbacks
    BY DEF FactsTyped, Received
  <2> QED
    BY <1>1, <2>1 DEF ChronicleInv, OnTime, Callbacks
<1>4. OnTime'
  BY <1>2, <1>3 DEF ChronicleInv, OnTime
<1>5. \A q \in DOMAIN queries : queries[q] \in Queries
  BY DEF FactsTyped
<1>6. QueriesOnTime'
  BY <1>1, <1>5 DEF ChronicleInv, QueriesOnTime, Queries
<1> QED
  BY <1>4, <1>6 DEF ChronicleInv, InOrder

(* An entry whose source follows the last one's follows them all. *)
LEMMA FollowerIsLater ==
  ASSUME BookInv, BookTyped', ChronicleInv, NEW e, Sourced(events, queries, e), Follows(e),
         book' = Append(book, e), UNCHANGED <<clock, events, queries>>
  PROVE  ChronicleInv'
<1>1. /\ book \in Seq(Entries) /\ FactsTyped /\ OnTime /\ QueriesOnTime
      /\ OnTime' /\ QueriesOnTime'
  BY DEF BookInv, BookTyped, ChronicleInv, OnTime, QueriesOnTime, Received
<1>2. /\ Len(book') = Len(book) + 1 /\ DOMAIN book' = 1..Len(book) + 1
      /\ \A i \in DOMAIN book : book'[i] = book[i]
      /\ book'[Len(book) + 1] = e /\ Len(book) \in Nat /\ DOMAIN book = 1..Len(book)
  <2>1. e \in Entries
    BY DEF Sourced
  <2> QED
    BY <1>1, <2>1
<1>3. ASSUME NEW i \in DOMAIN book PROVE StartAt(events, queries, e) > EndAt(events, queries, book[i])
  <2> DEFINE last == book[Len(book)]
  <2>1. Len(book) \in DOMAIN book /\ Len(book) # 0
    BY <1>2
  <2>2. Periods(e) /\ Periods(last) /\ Periods(book[i])
    BY <1>1, <2>1, PeriodsAre DEF ChronicleInv, InOrder
  <2>3. OrderedSegment(e, last) \/ SourceStart(e) > SourceEnd(last)
    BY <2>1 DEF Follows
  <2>4. OrderedSegment(e, last) => StartAt(events, queries, e) > EndAt(events, queries, last)
    BY DEF OrderedSegment, StartAt, EndAt
  <2>5. StartAt(events, queries, e) > EndAt(events, queries, last)
    BY <2>2, <2>3, <2>4 DEF Periods
  <2>6. CASE i = Len(book)
    BY <2>5, <2>6
  <2>7. CASE i < Len(book)
    <3>1. StartAt(events, queries, last) > EndAt(events, queries, book[i])
      BY <2>1, <2>7 DEF ChronicleInv, InOrder
    <3> HIDE DEF last
    <3> QED
      BY <2>2, <2>5, <3>1 DEF Periods
  <2> QED
    BY <1>2, <2>6, <2>7
<1>4. ASSUME NEW i \in DOMAIN book' PROVE Sourced(events', queries', book'[i])
  BY <1>2 DEF ChronicleInv, InOrder
<1>5. ASSUME NEW i \in DOMAIN book', NEW j \in DOMAIN book', i < j
      PROVE  StartAt(events', queries', book'[j]) > EndAt(events', queries', book'[i])
  <2>1. i \in DOMAIN book
    BY <1>2, <1>5
  <2>2. CASE j \in DOMAIN book
    BY <1>2, <1>5, <2>1, <2>2 DEF ChronicleInv, InOrder
  <2>3. CASE j = Len(book) + 1
    BY <1>2, <1>3, <2>1, <2>3
  <2> QED
    BY <1>2, <2>2, <2>3
<1>6. InOrder'
  BY <1>4, <1>5 DEF InOrder
<1> QED
  BY <1>1, <1>6 DEF ChronicleInv

(* What a transaction of this step books is a source of its own. *)
LEMMA SegmentSourced ==
  ASSUME BookInv, BookInv', UNCHANGED events, NEW e, e.query = 0, e.stream \in Streams,
         book' = Append(book, e)
  PROVE  Sourced(events, queries, e)
<1>1. book \in Seq(Entries) /\ book' \in Seq(Entries)
  BY DEF BookInv, BookTyped
<1>2. Len(book) + 1 \in DOMAIN book' /\ book'[Len(book) + 1] = e
  BY <1>1
<1>3. e \in Entries
  BY <1>1, <1>2
<1>4. e.after < e.through /\ e.through <= Len(events[e.stream])
  BY <1>2 DEF BookInv, Proper, Received
<1> QED
  BY <1>3, <1>4 DEF Sourced

LEMMA SegmentKeepsOrder ==
  ASSUME BookInv, BookInv', ChronicleInv, UNCHANGED <<clock, events, queries>>,
         NEW s \in Streams, NEW a, NEW n, Follows(FromStream(s, a, n)),
         book' = Append(book, FromStream(s, a, n))
  PROVE  ChronicleInv'
<1> DEFINE e == FromStream(s, a, n)
<1>1. e.query = 0 /\ e.stream \in Streams
  BY DEF FromStream
<1>2. book' = Append(book, e) /\ Follows(e)
  OBVIOUS
<1> HIDE DEF e
<1>3. Sourced(events, queries, e)
  BY <1>1, <1>2, SegmentSourced
<1>4. BookTyped'
  BY DEF BookInv
<1> QED
  BY <1>2, <1>3, <1>4, FollowerIsLater

LEMMA QueryKeepsOrder ==
  ASSUME BookInv, BookInv', ChronicleInv, NEW q \in DOMAIN queries, IngestQuery(q)
  PROVE  ChronicleInv'
<1> DEFINE e == FromQuery(q)
<1>1. /\ book' = Append(book, e) /\ Follows(e) /\ UNCHANGED <<clock, events, queries>>
      /\ queries[q].ended # 0
  BY DEF IngestQuery, QueryReady
<1>2. e.query = q /\ q # 0
  BY DEF FromQuery, BookInv, FactsTyped
<1> HIDE DEF e
<1>3. book' \in Seq(Entries) /\ book \in Seq(Entries) /\ BookTyped'
  BY DEF BookInv, BookTyped
<1>4. e \in Entries
  <2>1. Len(book) + 1 \in DOMAIN book' /\ book'[Len(book) + 1] = e
    BY <1>1, <1>3
  <2> QED
    BY <1>3, <2>1
<1>5. Sourced(events, queries, e)
  BY <1>1, <1>2, <1>4 DEF Sourced
<1> QED
  BY <1>1, <1>3, <1>5, FollowerIsLater

LEMMA AdvanceKeepsOrder ==
  ASSUME BookInv, BookInv', ChronicleInv, NEW s \in Streams, NEW n, Advance(s, n),
         UNCHANGED <<clock, executed, events, queries, baseline>>
  PROVE  ChronicleInv'
<1>1. \/ book' = book
      \/ \E a, m : /\ book' = Append(book, FromStream(s, a, m)) /\ Follows(FromStream(s, a, m))
  BY DEF Advance, CanAdvance, AdvanceEntry
<1>2. CASE book' = book
  BY <1>2, TimeStays DEF BookInv, FactsTyped
<1> QED
  BY <1>1, <1>2, SegmentKeepsOrder

LEMMA ReceiveKeepsOrder ==
  ASSUME BookInv, BookInv', ChronicleInv, NEW s \in Streams, NEW kind \in Kinds,
         NEW fill \in Fills \union {NoFill}, Receive(s, kind, fill, FALSE)
  PROVE  ChronicleInv'
<1> DEFINE new == [kind |-> kind, fill |-> fill, received |-> Tick, committed |-> Tick]
<1>1. /\ clock' = Tick /\ events' = [events EXCEPT ![s] = Append(events[s], new)]
      /\ UNCHANGED <<queries, book>>
  BY DEF Receive, Retain
<1>2. /\ events \in [Streams -> Seq(Callbacks)] /\ events' \in [Streams -> Seq(Callbacks)] /\ clock \in Nat
      /\ FactsTyped /\ FactsTyped'
  BY DEF BookInv, FactsTyped
<1>3. new.received = Tick /\ new.committed = Tick /\ Tick = clock + 2
  BY DEF Tick
<1> HIDE DEF new
<1>4. /\ FactsGrow /\ Received(s)' = Received(s) + 1
      /\ \A r \in Streams \ {s} : events'[r] = events[r]
  BY ReceiveGrows
<1>5. events'[s][Received(s) + 1] = new /\ Received(s) \in Nat
  BY <1>1, <1>2 DEF Received
<1>6. InOrder'
  <2>1. SourcesStay
    BY <1>1, <1>4 DEF SourcesStay, FactsGrow
  <2> QED
    BY <1>1, <1>2, <2>1, OrderStays DEF ChronicleInv
<1>7. \A r \in Streams : \A k \in 1..Received(r) :
        /\ events'[r][k] = events[r][k] /\ events[r][k] \in Callbacks
  BY <1>2, <1>4 DEF FactsGrow, Received
<1>8. \A r \in Streams : \A k \in 1..Received(r) :
        events[r][k].committed \in Nat /\ events[r][k].committed < clock'
  <2>1. \A r \in Streams : \A k \in 1..Received(r) :
          events[r][k].committed \in Nat /\ events[r][k].committed <= clock
    BY <1>7 DEF ChronicleInv, OnTime, Callbacks
  <2> QED
    BY <1>1, <1>2, <1>3, <2>1
<1>9. \A r \in Streams : \A k \in 1..Received(r)' :
        k \in 1..Received(r) \/ (r = s /\ k = Received(s) + 1)
  BY <1>4, <1>5 DEF Received
<1>10. ASSUME NEW r \in Streams, NEW k \in 1..Received(r)'
       PROVE  /\ events'[r][k].received = events'[r][k].committed
              /\ events'[r][k].committed <= clock'
              /\ \A m \in 1..Received(r)' : m < k => events'[r][m].committed < events'[r][k].committed
  <2>1. CASE k \in 1..Received(r)
    <3>1. \A m \in 1..Received(r)' : m < k => m \in 1..Received(r)
      BY <2>1, <1>2 DEF Received
    <3>2. \A m \in 1..Received(r) : m < k => events[r][m].committed < events[r][k].committed
      BY <2>1 DEF ChronicleInv, OnTime
    <3>3. events[r][k].received = events[r][k].committed
      BY <2>1 DEF ChronicleInv, OnTime
    <3>4. clock' \in Nat
      BY <1>2 DEF FactsTyped
    <3> QED
      BY <1>7, <1>8, <2>1, <3>1, <3>2, <3>3, <3>4
  <2>2. CASE r = s /\ k = Received(s) + 1
    <3>1. \A m \in 1..Received(r)' : m < k => m \in 1..Received(r)
      BY <1>4, <1>5, <2>2
    <3>2. events'[r][k] = new /\ new.committed = clock' /\ clock' \in Nat
      BY <1>1, <1>2, <1>3, <1>5, <2>2 DEF FactsTyped
    <3>3. \A m \in 1..Received(r) : events'[r][m].committed < clock'
      BY <1>7, <1>8
    <3>4. new.received = new.committed
      BY <1>3
    <3> QED
      BY <3>1, <3>2, <3>3, <3>4
  <2> QED
    BY <1>9, <2>1, <2>2
<1>11. OnTime'
  BY <1>10 DEF OnTime
<1>12. QueriesOnTime'
  <2>1. \A q \in DOMAIN queries : queries[q].begun \in Nat /\ queries[q].ended \in Nat
    <3>1. \A q \in DOMAIN queries : queries[q] \in Queries
      BY <1>2 DEF FactsTyped
    <3> QED
      BY <3>1 DEF Queries
  <2> QED
    BY <1>1, <1>2, <1>3, <2>1 DEF ChronicleInv, QueriesOnTime
<1> QED
  BY <1>6, <1>11, <1>12 DEF ChronicleInv

LEMMA QueriesKeepOrder ==
  ASSUME BookInv, BookInv', ChronicleInv, BeginQuery \/ \E q \in DOMAIN queries : FinishQuery(q)
  PROVE  ChronicleInv'
<1>1. /\ clock' = clock + 2 /\ UNCHANGED <<events, book>> /\ clock \in Nat
      /\ queries \in Seq(Queries) /\ FactsTyped /\ FactsTyped'
  BY DEF BeginQuery, FinishQuery, Tick, BookInv, FactsTyped
<1>2. \A q \in DOMAIN queries : queries[q].begun \in Nat /\ queries[q].ended \in Nat
  <2>1. \A q \in DOMAIN queries : queries[q] \in Queries
    BY <1>1
  <2> QED
    BY <2>1 DEF Queries
<1>3. OnTime'
  <2>1. \A s \in Streams : \A k \in 1..Received(s) : events[s][k].committed \in Nat
    <3>1. \A s \in Streams : \A k \in 1..Received(s) : events[s][k] \in Callbacks
      BY <1>1 DEF FactsTyped, Received
    <3> QED
      BY <3>1 DEF Callbacks
  <2>2. \A s \in Streams : \A k \in 1..Received(s) : events[s][k].committed <= clock'
    BY <1>1, <2>1 DEF ChronicleInv, OnTime
  <2>3. \A s \in Streams : Received(s)' = Received(s)
    BY <1>1 DEF Received
  <2> QED
    BY <1>1, <2>2, <2>3 DEF ChronicleInv, OnTime
<1>4. CASE BeginQuery
  <2> DEFINE new == [begun |-> Tick, ended |-> 0, complete |-> FALSE, fills |-> {}]
  <2>1. queries' = Append(queries, new) /\ new.begun = clock' /\ new.ended = 0 /\ new \in Queries
    BY <1>1, <1>4 DEF BeginQuery, Tick, Queries
  <2> HIDE DEF new
  <2>2. /\ DOMAIN queries' = DOMAIN queries \union {Len(queries) + 1}
        /\ \A q \in DOMAIN queries : queries'[q] = queries[q]
        /\ queries'[Len(queries) + 1] = new
    BY <1>1, <2>1
  <2>3. SourcesStay
    BY <1>1, <2>2 DEF SourcesStay, Received, FactsTyped
  <2>4. QueriesOnTime'
    <3>1. \A q \in DOMAIN queries : queries[q].begun <= clock' /\
            (queries[q].ended = 0 \/ (queries[q].begun < queries[q].ended /\ queries[q].ended <= clock'))
      BY <1>1, <1>2 DEF ChronicleInv, QueriesOnTime
    <3>2. new.begun <= clock' /\ new.ended = 0
      BY <1>1, <2>1
    <3> QED
      BY <2>2, <3>1, <3>2 DEF QueriesOnTime
  <2> QED
    BY <1>1, <1>3, <2>3, <2>4, OrderStays DEF ChronicleInv
<1>5. ASSUME NEW q \in DOMAIN queries, FinishQuery(q) PROVE ChronicleInv'
  <2>1. PICK whole \in BOOLEAN, fills \in {executed, {}} :
          queries' = [queries EXCEPT ![q].ended = Tick, ![q].complete = whole, ![q].fills = fills]
    BY <1>5 DEF FinishQuery
  <2>2. /\ queries[q].ended = 0 /\ DOMAIN queries' = DOMAIN queries
        /\ \A p \in DOMAIN queries \ {q} : queries'[p] = queries[p]
        /\ queries'[q].begun = queries[q].begun /\ queries'[q].ended = clock'
    <3>1. queries[q] \in Queries /\ Tick = clock'
      BY <1>1 DEF Tick
    <3> QED
      BY <1>5, <2>1, <3>1 DEF FinishQuery, Queries
  <2>3. SourcesStay
    BY <1>1, <2>2 DEF SourcesStay, Received, FactsTyped
  <2>4. QueriesOnTime'
    <3>1. \A p \in DOMAIN queries : queries[p].begun < clock' /\
            (queries[p].ended = 0 \/ (queries[p].begun < queries[p].ended /\ queries[p].ended <= clock'))
      BY <1>1, <1>2 DEF ChronicleInv, QueriesOnTime
    <3>2. clock' \in Nat /\ clock' <= clock' /\ \A p \in DOMAIN queries : queries[p].begun <= clock'
      BY <1>1, <1>2, <3>1
    <3> QED
      BY <2>2, <3>1, <3>2 DEF QueriesOnTime
  <2> QED
    BY <1>1, <1>3, <2>3, <2>4, OrderStays DEF ChronicleInv
<1> QED
  BY <1>4, <1>5

LEMMA OrderIsKept ==
  ASSUME ~ClockFaults, BookInv, BookInv', ChronicleInv, [Next]_vars PROVE ChronicleInv'
<1>1. FactsTyped /\ FactsTyped' /\ clock \in Nat
  BY DEF BookInv, FactsTyped
<1>2. ASSUME UNCHANGED <<clock, events, queries, book>> PROVE ChronicleInv'
  BY <1>1, <1>2, TimeStays
<1>3. ASSUME NEW s \in Streams, Receiver(s) PROVE ChronicleInv'
  <2>1. CASE BookCallback(s)
    <3>1. UNCHANGED <<clock, executed, events, queries, baseline>>
      BY <2>1 DEF BookCallback
    <3>2. Advance(s, Received(s)) \/ UNCHANGED <<account, book>>
      BY <2>1 DEF BookCallback
    <3> QED
      BY <1>2, <3>1, <3>2, AdvanceKeepsOrder
  <2>2. CASE ~BookCallback(s)
    <3>1. UNCHANGED <<clock, events, queries, book>>
      BY <1>3, <2>2 DEF Receiver, Launch, StartFails, Connect, Poll, Deadline, Finish, Fault, Ended, End,
                        Project, accountVars
    <3> QED
      BY <1>2, <3>1
  <2> QED
    BY <2>1, <2>2
<1>4. ASSUME NEW s \in Streams, Arrival(s) PROVE ChronicleInv'
  <2>1. PICK kind \in Kinds, fill \in Fills \union {NoFill}, late \in {FALSE, ClockFaults} :
          Receive(s, kind, fill, late)
    BY <1>4 DEF Arrival
  <2>2. late = FALSE
    BY <2>1, StreamAssumption DEF StreamAssumption
  <2>3. Receive(s, kind, fill, FALSE)
    BY <2>1, <2>2
  <2> QED
    BY <2>3, ReceiveKeepsOrder
<1>5. ASSUME NEW s \in Streams, Request(s) PROVE ChronicleInv'
  <2>1. ASSUME NEW n \in 1..MaxEvents, CatchupAdvance(s, n) PROVE ChronicleInv'
    BY <2>1, AdvanceKeepsOrder DEF CatchupAdvance
  <2>2. CASE Create(s) \/ Resume(s) \/ CatchupBind(s) \/ \E action \in {"PAUSE", "STOP"} : Control(s, action)
    <3>1. UNCHANGED <<clock, events, queries, book>>
      BY <2>2 DEF Create, Resume, CatchupBind, Control, accountVars
    <3> QED
      BY <1>2, <3>1
  <2> QED
    BY <1>5, <2>1, <2>2 DEF Request
<1>6. CASE StartQuery \/ \E q \in DOMAIN queries : EndQuery(q)
  BY <1>6, QueriesKeepOrder DEF StartQuery, EndQuery
<1>7. CASE Beside
  <2>1. CASE Establish
    <3>1. UNCHANGED <<events, queries, book>> /\ clock <= clock'
      BY <1>1, <2>1 DEF Establish, Tick
    <3> QED
      BY <1>1, <3>1, TimeStays
  <2>2. ASSUME NEW f \in Fills, Execute(f) PROVE ChronicleInv'
    BY <1>2, <2>2 DEF Execute
  <2>3. ASSUME NEW q \in DOMAIN queries, IngestQuery(q) PROVE ChronicleInv'
    BY <2>3, QueryKeepsOrder
  <2>4. ASSUME NEW s \in Streams, NEW n \in 1..Received(s), IngestPrefix(s, n) PROVE ChronicleInv'
    <3>1. /\ Follows(FromStream(s, BookedThrough(s), n))
          /\ book' = Append(book, FromStream(s, BookedThrough(s), n))
          /\ UNCHANGED <<clock, events, queries>>
      BY <2>4 DEF IngestPrefix
    <3> QED
      BY <3>1, SegmentKeepsOrder
  <2> QED
    BY <1>7, <2>1, <2>2, <2>3, <2>4 DEF Beside
<1>8. CASE Close \/ Restart \/ Crash \/ UNCHANGED vars
  <2>1. UNCHANGED <<clock, events, queries, book>>
    BY <1>8 DEF Close, Restart, Crash, Restarted, vars, accountVars
  <2> QED
    BY <1>2, <2>1
<1> QED
  BY <1>3, <1>4, <1>5, <1>6, <1>7, <1>8 DEF Next

LEMMA OrderBegins == ASSUME Init PROVE ChronicleInv
<1> USE DEF Init, InitAccount
<1>1. OnTime
  <2>1. \A s \in Streams : Received(s) = 0
    BY DEF Received
  <2> QED
    BY <2>1 DEF OnTime
<1>2. QueriesOnTime
  <2>1. DOMAIN queries = {1} /\ queries[1].begun = 2 /\ queries[1].ended = 4 /\ clock = 4
    OBVIOUS
  <2> QED
    BY <2>1 DEF QueriesOnTime
<1>3. InOrder
  <2>1. DOMAIN book = {}
    OBVIOUS
  <2> QED
    BY <2>1 DEF InOrder
<1> QED
  BY <1>1, <1>2, <1>3 DEF ChronicleInv

(* While the receipt clock does not fall back, the sources of the book follow
   each other: comparing a new source with the entry before it alone, as
   ledger.py does, orders it after all of them. *)
THEOREM BookInOrder == ASSUME ~ClockFaults PROVE Spec => []BookIsChronological
<1>1. BookInv /\ ChronicleInv => BookIsChronological
  <2> SUFFICES ASSUME BookInv, ChronicleInv, NEW i \in DOMAIN book, NEW j \in DOMAIN book, i < j
               PROVE  SourceStart(book[j]) > SourceEnd(book[i])
    BY DEF BookIsChronological
  <2>1. Periods(book[i]) /\ Periods(book[j])
    BY PeriodsAre DEF ChronicleInv, InOrder, BookInv
  <2> QED
    BY <2>1 DEF ChronicleInv, InOrder, Periods
<1>2. Init => ChronicleInv
  BY OrderBegins
<1>3. BookInv /\ BookInv' /\ ChronicleInv /\ [Next]_vars => ChronicleInv'
  BY OrderIsKept
<1>4. LiveInv => BookInv
  BY DEF LiveInv
<1> QED
  BY <1>1, <1>2, <1>3, <1>4, LiveInvariant, PTL DEF Spec
-----------------------------------------------------------------------------
(* How the account comes free again. *)

Free == accountLock = Nobody

(* The query that holds the account is the one in flight. *)
Asked == \A q \in 1..MaxQueries : accountLock = <<"query", q>> => asking = q

LEMMA AskedKept == LiveInv /\ Asked /\ [Next]_vars => Asked'
<1> SUFFICES ASSUME LiveInv, Asked, [Next]_vars PROVE Asked'
  OBVIOUS
<1>1. ASSUME UNCHANGED <<accountLock, asking>> PROVE Asked'
  BY <1>1 DEF Asked
<1>2. ASSUME NEW s \in Streams, accountLock' = Nobody \/ accountLock' = <<"stream", s>> PROVE Asked'
  BY <1>2 DEF Asked, Nobody
<1>3. ASSUME NEW s \in Streams, Create(s) \/ StartFails(s) \/ Ended(s) PROVE Asked'
  BY <1>2, <1>3 DEF Create, StartFails, Ended, End
<1>4. CASE Restart \/ Crash
  BY <1>4 DEF Restart, Crash, Restarted, Asked, Nobody
<1>5. CASE \E q \in DOMAIN queries : EndQuery(q)
  BY <1>5 DEF EndQuery, Asked, Nobody
<1>6. CASE StartQuery
  <2>1. asking' = Len(queries) + 1 /\ accountLock' = <<"query", Len(queries) + 1>>
    BY <1>6 DEF StartQuery
  <2> QED
    BY <2>1 DEF Asked
<1>7. ASSUME NEW s \in Streams,
             \/ Launch(s) \/ Connect(s) \/ Poll(s) \/ Deadline(s) \/ Finish(s) \/ Fault(s)
             \/ BookCallback(s) \/ Project(s)
      PROVE  Asked'
  BY <1>1, <1>7 DEF Launch, Connect, Poll, Deadline, Finish, Fault, BookCallback, Project
<1>8. ASSUME NEW s \in Streams, NEW n, NEW action,
             Resume(s) \/ CatchupBind(s) \/ Control(s, action) \/ CatchupAdvance(s, n)
      PROVE  Asked'
  BY <1>1, <1>8 DEF Resume, CatchupBind, Control, CatchupAdvance, procVars
<1>9. ASSUME NEW s \in Streams, NEW kind, NEW fill, NEW late, Receive(s, kind, fill, late) PROVE Asked'
  BY <1>1, <1>9 DEF Receive
<1>10. CASE Beside \/ Close \/ UNCHANGED vars
  BY <1>1, <1>10 DEF Beside, Close, vars, procVars
<1> QED
  BY <1>3, <1>4, <1>5, <1>6, <1>7, <1>8, <1>9, <1>10, Steps

(* A booked callback moves the receiver on, whatever view of the account it took with it. *)
LEMMA BookCallbackMoves ==
  ASSUME NEW s \in Streams, BookCallback(s)
  PROVE  At(s, {"RETAINED"}) /\ \E v : worker' = [worker EXCEPT ![s].pc = "BOOKED", ![s].seen = v]
BY DEF BookCallback, View

(* Where a receiver may go from where it stands. *)
Ways == { <<"CREATED", "CONNECTING">>, <<"CONNECTING", "POLLING">>, <<"CONNECTING", "ENDING">>,
          <<"POLLING", "RECEIVING">>, <<"POLLING", "ENDING">>,
          <<"RECEIVING", "RETAINED">>, <<"RECEIVING", "ENDING">>,
          <<"RETAINED", "BOOKED">>, <<"RETAINED", "ENDING">>,
          <<"BOOKED", "RECEIVING">>, <<"BOOKED", "ENDING">> }

(* A receiver that was told to stop stays told, until it is gone. *)
GoesOn(s) == /\ worker'[s].pc = worker[s].pc \/ <<worker[s].pc, worker'[s].pc>> \in Ways
             /\ worker[s].stopping => worker'[s].stopping

LEMMA ReceiverGoes ==
  ASSUME LiveInv, NEW s \in Streams, ~At(s, {"NONE"}), [Next]_vars
  PROVE  Free' \/ GoesOn(s)
<1> USE DEF Goto, At
<1>1. worker \in [Streams -> Workers] /\ \A r \in Streams : worker[r] \in Workers
  BY DEF LiveInv, ProcessesTyped
<1>2. ASSUME worker'[s] = worker[s] PROVE GoesOn(s)
  BY <1>2 DEF GoesOn
<1>3. ASSUME NEW r \in Streams \ {s}, NEW w, worker' = [worker EXCEPT ![r] = w] PROVE GoesOn(s)
  BY <1>1, <1>2, <1>3
<1>4. ASSUME NEW r \in Streams,
             \/ Launch(r) \/ Connect(r) \/ Poll(r) \/ Deadline(r) \/ Finish(r) \/ Fault(r)
             \/ BookCallback(r) \/ Project(r)
      PROVE  GoesOn(s)
  <2>1. CASE r # s
    <3>1. worker'[s] = worker[s]
      BY <1>1, <1>4, <2>1, BookCallbackMoves DEF Launch, Connect, Poll, Deadline, Finish, Fault, Project
    <3> QED
      BY <1>2, <3>1
  <2>2. CASE r = s
    <3>1. CASE Launch(s) \/ Connect(s) \/ Finish(s) \/ Project(s)
      BY <1>1, <3>1 DEF Launch, Connect, Finish, Project, GoesOn, Ways, Workers
    <3>2. CASE Poll(s) \/ Deadline(s)
      BY <1>1, <3>2 DEF Poll, Deadline, GoesOn, Ways, Workers
    <3>3. CASE Fault(s)
      BY <1>1, <3>3 DEF Fault, GoesOn, Ways, Workers, Accepting
    <3>4. CASE BookCallback(s)
      <4>1. PICK v : worker' = [worker EXCEPT ![s].pc = "BOOKED", ![s].seen = v]
        BY <3>4, BookCallbackMoves
      <4>2. worker[s].pc = "RETAINED"
        BY <3>4, BookCallbackMoves
      <4>3. worker'[s] = [worker[s] EXCEPT !.pc = "BOOKED", !.seen = v]
        BY <1>1, <4>1
      <4>4. worker'[s].pc = "BOOKED" /\ worker'[s].stopping = worker[s].stopping
        BY <1>1, <4>3 DEF Workers
      <4> QED
        BY <4>2, <4>4 DEF GoesOn, Ways
    <3> QED
      BY <1>4, <2>2, <3>1, <3>2, <3>3, <3>4
  <2> QED
    BY <2>1, <2>2
<1>5. ASSUME NEW r \in Streams, Create(r) PROVE FALSE
  BY <1>5 DEF Create, LiveInv, Uses, AccountHasOneUser, Nobody
<1>6. ASSUME NEW r \in Streams, StartFails(r) \/ Ended(r) PROVE Free'
  BY <1>6 DEF StartFails, Ended, End, Free
<1>7. ASSUME NEW r \in Streams, NEW n, NEW action,
             Resume(r) \/ CatchupBind(r) \/ Control(r, action) \/ CatchupAdvance(r, n)
      PROVE  GoesOn(s)
  BY <1>2, <1>7 DEF Resume, CatchupBind, Control, CatchupAdvance, procVars
<1>8. ASSUME NEW r \in Streams, NEW kind, NEW fill, NEW late, Receive(r, kind, fill, late) PROVE GoesOn(s)
  <2>1. worker[r].pc = "RECEIVING" /\ worker' = [worker EXCEPT ![r].pc = "RETAINED"]
    BY <1>8 DEF Receive
  <2> QED
    BY <1>1, <2>1 DEF GoesOn, Ways, Workers
<1>9. CASE StartQuery \/ (\E q \in DOMAIN queries : EndQuery(q)) \/ Beside \/ Close \/ UNCHANGED vars
  BY <1>2, <1>9 DEF StartQuery, EndQuery, Beside, Close, vars, procVars
<1>10. CASE Restart \/ Crash
  BY <1>10 DEF Restart, Crash, Restarted, Free
<1> QED
  BY <1>4, <1>5, <1>6, <1>7, <1>8, <1>9, <1>10, Steps

(* The step each standing waits for. *)
LEMMA ReceiverSteps ==
  ASSUME LiveInv, NEW s \in Streams
  PROVE  /\ Launch(s) => At(s, {"CONNECTING"})'
         /\ Connect(s) => At(s, {"POLLING"})'
         /\ At(s, {"POLLING"}) /\ Poll(s) => At(s, {"RECEIVING", "ENDING"})'
         /\ Deadline(s) => At(s, {"RECEIVING"})' /\ worker'[s].stopping
         /\ Finish(s) => At(s, {"ENDING"})'
         /\ Booking(s) => At(s, {"BOOKED", "ENDING"})'
         /\ Project(s) => At(s, {"RECEIVING"})'
         /\ Ended(s) => Free'
<1> USE DEF Goto, At
<1>1. worker \in [Streams -> Workers] /\ worker[s] \in Workers
  BY DEF LiveInv, ProcessesTyped
<1>2. /\ Launch(s) => At(s, {"CONNECTING"})'
      /\ Connect(s) => At(s, {"POLLING"})'
      /\ Finish(s) => At(s, {"ENDING"})'
      /\ Project(s) => At(s, {"RECEIVING"})'
  BY <1>1 DEF Launch, Connect, Finish, Project, Workers
<1>3. /\ At(s, {"POLLING"}) /\ Poll(s) => At(s, {"RECEIVING", "ENDING"})'
      /\ Deadline(s) => At(s, {"RECEIVING"})' /\ worker'[s].stopping
  BY <1>1 DEF Poll, Deadline, Workers
<1>4. Booking(s) => At(s, {"BOOKED", "ENDING"})'
  <2>1. CASE BookCallback(s)
    <3>1. PICK v : worker' = [worker EXCEPT ![s].pc = "BOOKED", ![s].seen = v]
      BY <2>1, BookCallbackMoves
    <3> QED
      BY <1>1, <3>1 DEF Workers
  <2>2. CASE Fault(s)
    BY <1>1, <2>2 DEF Fault, Workers
  <2> QED
    BY <2>1, <2>2 DEF Booking
<1>5. Ended(s) => Free'
  BY DEF Ended, End, Free
<1> QED
  BY <1>2, <1>3, <1>4, <1>5

(* The query in flight stays in flight until it is answered or the process dies. *)
LEMMA QueryGoes ==
  ASSUME LiveInv, NEW q \in 1..MaxQueries, asking = q, [Next]_vars
  PROVE  /\ Free' \/ asking' = q
         /\ EndQuery(q) => Free'
<1>1. accountLock = <<"query", q>> /\ ~Free
  BY DEF LiveInv, Uses, Free, Nobody
<1>2. ASSUME NEW s \in Streams, StartFails(s) \/ Ended(s) \/ Create(s) PROVE Free'
  BY <1>1, <1>2 DEF StartFails, Ended, End, Create, Free
<1>3. CASE Restart \/ Crash \/ \E p \in DOMAIN queries : EndQuery(p)
  BY <1>3 DEF Restart, Crash, Restarted, EndQuery, Free
<1>4. ~StartQuery
  BY <1>1 DEF StartQuery, Free
<1>5. ASSUME NEW s \in Streams,
             \/ Launch(s) \/ Connect(s) \/ Poll(s) \/ Deadline(s) \/ Finish(s) \/ Fault(s)
             \/ BookCallback(s) \/ Project(s)
      PROVE  asking' = q
  BY <1>5 DEF Launch, Connect, Poll, Deadline, Finish, Fault, BookCallback, Project
<1>6. ASSUME NEW s \in Streams, NEW n, NEW action,
             Resume(s) \/ CatchupBind(s) \/ Control(s, action) \/ CatchupAdvance(s, n)
      PROVE  asking' = q
  BY <1>6 DEF Resume, CatchupBind, Control, CatchupAdvance, procVars
<1>7. ASSUME NEW s \in Streams, NEW kind, NEW fill, NEW late, Receive(s, kind, fill, late) PROVE asking' = q
  BY <1>7 DEF Receive
<1>8. ASSUME Beside \/ Close \/ UNCHANGED vars PROVE asking' = q
  BY <1>8 DEF Beside, Close, vars, procVars
<1>9. EndQuery(q) => Free'
  BY DEF EndQuery, Free
<1> QED
  BY <1>2, <1>3, <1>4, <1>5, <1>6, <1>7, <1>8, <1>9, Steps

(* What the release of the account rests on. *)
Onward == FairSpec /\ []NothingSticks
Sound  == LiveInv /\ Asked

LEMMA OnwardRuns == Onward => []Sound /\ [][Next]_vars
<1>1. Init => Asked
  BY DEF Init, Asked, Nobody
<1>2. FairSpec => Spec
  BY PTL DEF FairSpec
<1>3. Spec => [](LiveInv /\ Asked)
  BY <1>1, AskedKept, LiveInvariant, PTL DEF Spec
<1>4. LiveInv /\ Asked => Sound
  BY DEF Sound
<1> QED
  BY <1>2, <1>3, <1>4, PTL DEF Onward, Spec

LEMMA EachGoesOn == FairSpec => (\A s \in Streams : ReceiverGoesOn(s)) /\ (\A q \in 1..MaxQueries : QueryEnds(q))
  BY PTL DEF FairSpec, Fairness

LEMMA ReceiverRuns ==
  ASSUME NEW s \in Streams
  PROVE  Onward =>
    /\ WF_vars(Launch(s)) /\ [](At(s, {"CREATED"}) => ENABLED <<Launch(s)>>_vars)
    /\ WF_vars(Connect(s)) /\ [](At(s, {"CONNECTING"}) => ENABLED <<Connect(s)>>_vars)
    /\ SF_vars(Poll(s)) /\ [](At(s, {"POLLING"}) => ENABLED <<Poll(s)>>_vars)
    /\ SF_vars(Finish(s)) /\ [](At(s, {"RECEIVING"}) /\ worker[s].stopping => ENABLED <<Finish(s)>>_vars)
    /\ SF_vars(Deadline(s)) /\ [](At(s, {"RECEIVING"}) /\ ~worker[s].stopping => ENABLED <<Deadline(s)>>_vars)
    /\ WF_vars(Booking(s)) /\ [](At(s, {"RETAINED"}) => ENABLED <<Booking(s)>>_vars)
    /\ WF_vars(Project(s)) /\ [](At(s, {"BOOKED"}) => ENABLED <<Project(s)>>_vars)
    /\ WF_vars(Ended(s)) /\ [](At(s, {"ENDING"}) => ENABLED <<Ended(s)>>_vars)
<1>1. (\A r \in Streams : ReceiverGoesOn(r)) => ReceiverGoesOn(s)
  OBVIOUS
<1>2. FairSpec => ReceiverGoesOn(s)
  BY <1>1, EachGoesOn
<1>3. ReceiverGoesOn(s) =>
        /\ WF_vars(Launch(s)) /\ WF_vars(Connect(s)) /\ SF_vars(Poll(s)) /\ SF_vars(Deadline(s))
        /\ SF_vars(Finish(s)) /\ WF_vars(Ended(s)) /\ WF_vars(Booking(s)) /\ WF_vars(Project(s))
  BY PTL DEF ReceiverGoesOn
<1>4. NothingSticks =>
        /\ At(s, {"CREATED"}) => ENABLED <<Launch(s)>>_vars
        /\ At(s, {"CONNECTING"}) => ENABLED <<Connect(s)>>_vars
        /\ At(s, {"POLLING"}) => ENABLED <<Poll(s)>>_vars
        /\ At(s, {"RECEIVING"}) /\ worker[s].stopping => ENABLED <<Finish(s)>>_vars
        /\ At(s, {"RECEIVING"}) /\ ~worker[s].stopping => ENABLED <<Deadline(s)>>_vars
        /\ At(s, {"RETAINED"}) => ENABLED <<Booking(s)>>_vars
        /\ At(s, {"BOOKED"}) => ENABLED <<Project(s)>>_vars
        /\ At(s, {"ENDING"}) => ENABLED <<Ended(s)>>_vars
  BY DEF NothingSticks
<1> QED
  BY <1>2, <1>3, <1>4, PTL DEF Onward

LEMMA QueryRuns ==
  ASSUME NEW q \in 1..MaxQueries
  PROVE  Onward => WF_vars(Answer(q)) /\ [](asking = q => ENABLED <<Answer(q)>>_vars)
<1>1. (\A p \in 1..MaxQueries : QueryEnds(p)) => QueryEnds(q)
  OBVIOUS
<1>2. FairSpec => QueryEnds(q)
  BY <1>1, EachGoesOn
<1>3. QueryEnds(q) => WF_vars(Answer(q))
  BY PTL DEF QueryEnds
<1>4. NothingSticks => (asking = q => ENABLED <<Answer(q)>>_vars)
  BY DEF NothingSticks
<1> QED
  BY <1>2, <1>3, <1>4, PTL DEF Onward

(* Callbacks go through their three commits and come back to the loop, in which the
   deadline and then the three seconds of a stopped child are looked at every round. *)
Looping(s)  == At(s, {"RECEIVING"} \union Accepting)
Stopping(s) == Looping(s) /\ worker[s].stopping
Standing(s) == Looping(s) /\ ~worker[s].stopping

LEMMA LoopSteps ==
  ASSUME NEW s \in Streams
  PROVE  /\ Sound /\ Standing(s) /\ [Next]_vars => (Standing(s) \/ Stopping(s) \/ At(s, {"ENDING"}) \/ Free)'
         /\ Sound /\ Stopping(s) /\ [Next]_vars => (Stopping(s) \/ At(s, {"ENDING"}) \/ Free)'
         /\ Sound /\ At(s, {"RETAINED"}) /\ [Next]_vars => (At(s, {"RETAINED", "BOOKED", "ENDING"}) \/ Free)'
         /\ Sound /\ At(s, {"BOOKED"}) /\ [Next]_vars => (At(s, {"BOOKED", "RECEIVING", "ENDING"}) \/ Free)'
<1>1. Sound /\ [Next]_vars /\ Looping(s) => Free' \/ GoesOn(s)
  BY ReceiverGoes DEF Sound, Looping, At, Accepting
<1> QED
  BY <1>1 DEF Sound, Looping, Standing, Stopping, At, Accepting, GoesOn, Ways

LEMMA ReceiverReleases == ASSUME NEW s \in Streams PROVE Onward => (~At(s, {"NONE"}) ~> Free)
<1>1. /\ Sound /\ At(s, {"ENDING"}) /\ [Next]_vars => At(s, {"ENDING"})' \/ Free'
      /\ Sound /\ At(s, {"ENDING"}) /\ <<Next /\ Ended(s)>>_vars => Free'
  BY ReceiverGoes, ReceiverSteps DEF Sound, At, GoesOn, Ways
<1>2. Onward => (At(s, {"ENDING"}) ~> Free)
  BY <1>1, OnwardRuns, ReceiverRuns, PTL
<1> DEFINE Out == At(s, {"ENDING"}) \/ Free
<1>3. /\ Sound /\ Stopping(s) /\ [Next]_vars => Stopping(s)' \/ Out'
      /\ Sound /\ Standing(s) /\ [Next]_vars => Standing(s)' \/ Stopping(s)' \/ Out'
      /\ Sound /\ At(s, {"RETAINED"}) /\ [Next]_vars => At(s, {"RETAINED"})' \/ At(s, {"BOOKED"})' \/ Out'
      /\ Sound /\ At(s, {"BOOKED"}) /\ [Next]_vars => At(s, {"BOOKED"})' \/ At(s, {"RECEIVING"})' \/ Out'
  BY LoopSteps DEF At
<1>4. /\ Sound /\ <<Next /\ Booking(s)>>_vars => At(s, {"BOOKED"})' \/ Out'
      /\ Sound /\ <<Next /\ Project(s)>>_vars => At(s, {"RECEIVING"})'
      /\ Sound /\ <<Next /\ Finish(s)>>_vars => Out'
      /\ Sound /\ <<Next /\ Deadline(s)>>_vars => Stopping(s)'
  BY ReceiverSteps DEF Sound, At, Stopping, Looping
<1>5. Looping(s) => At(s, {"RECEIVING"}) \/ At(s, {"RETAINED"}) \/ At(s, {"BOOKED"})
  BY DEF Looping, At, Accepting
<1> HIDE DEF Out
<1>6. Onward => (At(s, {"RETAINED"}) ~> At(s, {"BOOKED"}) \/ Out)
  BY <1>3, <1>4, OnwardRuns, ReceiverRuns, PTL
<1>7. Onward => (At(s, {"BOOKED"}) ~> At(s, {"RECEIVING"}) \/ Out)
  BY <1>3, <1>4, OnwardRuns, ReceiverRuns, PTL
<1>8. Onward => (Looping(s) ~> At(s, {"RECEIVING"}) \/ Out)
  BY <1>5, <1>6, <1>7, PTL
<1>9. Onward => (Stopping(s) ~> Out)
  BY <1>3, <1>4, <1>8, OnwardRuns, ReceiverRuns, PTL DEF Stopping
<1>10. Onward => (Standing(s) ~> Stopping(s) \/ Out)
  BY <1>3, <1>4, <1>8, OnwardRuns, ReceiverRuns, PTL DEF Standing
<1>11. Looping(s) <=> Standing(s) \/ Stopping(s)
  BY DEF Standing, Stopping
<1>12. Onward => (Looping(s) ~> Out)
  BY <1>9, <1>10, <1>11, PTL
<1>13. /\ Sound /\ At(s, {"CREATED"}) /\ [Next]_vars => At(s, {"CREATED"})' \/ At(s, {"CONNECTING"})' \/ Free'
       /\ Sound /\ At(s, {"CREATED"}) /\ <<Next /\ Launch(s)>>_vars => At(s, {"CONNECTING"})'
       /\ Sound /\ At(s, {"CONNECTING"}) /\ [Next]_vars => At(s, {"CONNECTING"})' \/ At(s, {"POLLING"})' \/ Out'
       /\ Sound /\ At(s, {"CONNECTING"}) /\ <<Next /\ Connect(s)>>_vars => At(s, {"POLLING"})'
       /\ Sound /\ At(s, {"POLLING"}) /\ [Next]_vars => At(s, {"POLLING"})' \/ At(s, {"RECEIVING"})' \/ Out'
       /\ Sound /\ At(s, {"POLLING"}) /\ <<Next /\ Poll(s)>>_vars => At(s, {"RECEIVING"})' \/ Out'
  BY ReceiverGoes, ReceiverSteps DEF Sound, At, GoesOn, Ways, Out
<1>14. Onward => (At(s, {"POLLING"}) ~> At(s, {"RECEIVING"}) \/ Out)
  BY <1>13, OnwardRuns, ReceiverRuns, PTL
<1>15. Onward => (At(s, {"CONNECTING"}) ~> At(s, {"POLLING"}) \/ Out)
  BY <1>13, OnwardRuns, ReceiverRuns, PTL
<1>16. Onward => (At(s, {"CREATED"}) ~> At(s, {"CONNECTING"}) \/ Free)
  BY <1>13, OnwardRuns, ReceiverRuns, PTL
<1>17. /\ Sound => (~At(s, {"NONE"}) => \/ At(s, {"CREATED"}) \/ At(s, {"CONNECTING"}) \/ At(s, {"POLLING"})
                                        \/ Looping(s) \/ At(s, {"ENDING"}))
       /\ At(s, {"RECEIVING"}) => Looping(s)
  BY DEF Sound, LiveInv, ProcessesTyped, Workers, At, Looping
<1>18. Out <=> At(s, {"ENDING"}) \/ Free
  BY DEF Out
<1> QED
  BY <1>2, <1>12, <1>14, <1>15, <1>16, <1>17, <1>18, OnwardRuns, PTL

LEMMA QueryReleases == ASSUME NEW q \in 1..MaxQueries PROVE Onward => (asking = q ~> Free)
<1>1. /\ Sound /\ asking = q /\ [Next]_vars => (asking = q)' \/ Free'
      /\ Sound /\ asking = q /\ <<Next /\ Answer(q)>>_vars => Free'
  BY QueryGoes DEF Sound, Answer
<1> QED
  BY <1>1, OnwardRuns, QueryRuns, PTL

(* Whoever holds the account gives it back: a receiver, whatever callbacks arrive and
   however its loop ends, and a query, whatever it is told.  NothingSticks, which the
   run checks in every state, says that the next step of a holder is always open. *)
THEOREM AccountComesFree == FairSpec /\ []NothingSticks => AccountIsReleased
<1>1. Onward => ((\E s \in Streams : ~At(s, {"NONE"})) ~> Free)
  <2>1. Onward => \A s \in Streams : [](~At(s, {"NONE"}) => <>Free)
    <3>1. ASSUME NEW s \in Streams PROVE Onward => [](~At(s, {"NONE"}) => <>Free)
      BY ReceiverReleases, PTL
    <3> QED
      BY <3>1
  <2>2. (\A s \in Streams : [](~At(s, {"NONE"}) => <>Free)) => [](\A s \in Streams : (~At(s, {"NONE"}) => <>Free))
    OBVIOUS
  <2>3. (\A s \in Streams : (~At(s, {"NONE"}) => <>Free)) => ((\E s \in Streams : ~At(s, {"NONE"})) => <>Free)
    OBVIOUS
  <2> QED
    BY <2>1, <2>2, <2>3, PTL
<1>2. Onward => ((\E q \in 1..MaxQueries : asking = q) ~> Free)
  <2>1. Onward => \A q \in 1..MaxQueries : [](asking = q => <>Free)
    <3>1. ASSUME NEW q \in 1..MaxQueries PROVE Onward => [](asking = q => <>Free)
      BY QueryReleases, PTL
    <3> QED
      BY <3>1
  <2>2. (\A q \in 1..MaxQueries : [](asking = q => <>Free)) => [](\A q \in 1..MaxQueries : (asking = q => <>Free))
    OBVIOUS
  <2>3. (\A q \in 1..MaxQueries : (asking = q => <>Free)) => ((\E q \in 1..MaxQueries : asking = q) => <>Free)
    OBVIOUS
  <2> QED
    BY <2>1, <2>2, <2>3, PTL
<1>3. Sound => (accountLock # Nobody => (\E s \in Streams : ~At(s, {"NONE"})) \/ \E q \in 1..MaxQueries : asking = q)
  <2> SUFFICES ASSUME Sound, accountLock # Nobody
               PROVE  (\E s \in Streams : ~At(s, {"NONE"})) \/ \E q \in 1..MaxQueries : asking = q
    OBVIOUS
  <2>1. accountLock \in ({"stream"} \X Streams) \union ({"query"} \X (1..MaxQueries))
    BY DEF Sound, LiveInv, ProcessesTyped, Holders
  <2>2. CASE accountLock \in {"stream"} \X Streams
    BY <2>2 DEF Sound, LiveInv, Uses, AccountHasOneUser
  <2>3. CASE accountLock \in {"query"} \X (1..MaxQueries)
    BY <2>3 DEF Sound, Asked
  <2> QED
    BY <2>1, <2>2, <2>3
<1>4. Free <=> accountLock = Nobody
  BY DEF Free
<1> QED
  BY <1>1, <1>2, <1>3, <1>4, OnwardRuns, PTL DEF Onward, AccountIsReleased
=============================================================================

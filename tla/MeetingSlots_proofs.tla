-------------------------- MODULE MeetingSlots_proofs --------------------------
(***************************************************************************)
(* Proofs about MeetingSlots, for batches and numbers of requests of any   *)
(* size: slots never overlap and are numbered without a gap.               *)
(*                                                                         *)
(* A batch can always be sorted, and in a sorted batch of valid intervals  *)
(* it is enough to compare neighbours.  A request that commits saw all the *)
(* slots there are, so what its checks said of its snapshot is true of the *)
(* meeting, and its numbers go on where those of the meeting end.          *)
(***************************************************************************)
EXTENDS MeetingSlots, FiniteSetTheorems, WellFoundedInduction, TLAPS
-----------------------------------------------------------------------------
(* Sorting.  The induction is over sets of naturals: a set of those for    *)
(* which a claim fails has a least element, unless it is empty.            *)

LEMMA LeastNatural ==
  ASSUME NEW T \in SUBSET Nat, T # {}
  PROVE  \E x \in T : \A y \in T : x <= y
<1> DEFINE R == OpToRel(<, Nat)
<1>1. IsWellFoundedOn(R, Nat) BY NatLessThanWellFounded
<1>2. \E x \in T : \A y \in T : ~ (<<y, x>> \in R) BY <1>1, WFMin
<1>3. R = {pair \in Nat \X Nat : pair[1] < pair[2]} BY DEF OpToRel
<1> HIDE DEF R
<1>4. \A x, y \in Nat : <<x, y>> \in R <=> x < y BY <1>3
<1>5. PICK x \in T : \A y \in T : ~ (<<y, x>> \in R) BY <1>2
<1>6. ASSUME NEW y \in T PROVE x <= y
  <2>1. x \in Nat /\ y \in Nat OBVIOUS
  <2>2. ~ y < x BY <1>4, <1>5, <2>1
  <2> QED BY <2>1, <2>2
<1> QED BY <1>6

(* One of the values from m on is the least of them.                       *)
LEMMA LeastValue ==
  ASSUME NEW n \in Nat, NEW f \in [1..n -> Int], NEW m \in 1..n
  PROVE  \E k \in m..n : \A j \in m..n : f[k] <= f[j]
<1> DEFINE Least(k, last) == \A j \in m..last : f[k] <= f[j]
           T == {d \in 0 .. n - m : ~ \E k \in m .. m + d : Least(k, m + d)}
<1>0. T \subseteq 0 .. n - m /\ T \subseteq Nat OBVIOUS
<1>1. ASSUME NEW d \in T, \A e \in T : d <= e PROVE FALSE
  <2>1. d # 0
    <3>1. m \in m .. m + 0 /\ Least(m, m + 0) OBVIOUS
    <3> QED BY <3>1
  <2>2. d - 1 \in 0 .. n - m /\ d - 1 \notin T
    <3> HIDE DEF T
    <3>1. d \in 0 .. n - m /\ ~ (d <= d - 1) BY <1>0
    <3> QED BY <1>1, <2>1, <3>1
  <2>3. PICK k \in m .. m + (d - 1) : Least(k, m + (d - 1)) BY <2>2
  <2> DEFINE last == m + d
  <2>4. last \in m..n /\ k \in m..n /\ k \in m..last /\ last \in m..last BY <2>3
  <2>5. \A j \in m..last : j = last \/ j \in m .. m + (d - 1) OBVIOUS
  <2>6. CASE f[k] <= f[last]
    <3>1. Least(k, last) BY <2>3, <2>5, <2>6
    <3> QED BY <3>1, <2>4
  <2>7. CASE ~ (f[k] <= f[last])
    <3>1. f[k] \in Int /\ f[last] \in Int BY <2>4
    <3>2. \A j \in m .. m + (d - 1) : f[j] \in Int /\ f[k] <= f[j] BY <2>3
    <3>3. Least(last, last) BY <2>5, <2>7, <3>1, <3>2
    <3> QED BY <3>3, <2>4
  <2> QED BY <2>6, <2>7
<1>2. T = {}
  <2> HIDE DEF T
  <2> QED BY <1>0, <1>1, LeastNatural
<1>3. n - m \in 0 .. n - m /\ m + (n - m) = n OBVIOUS
<1> QED BY <1>2, <1>3

(* An arrangement of the values that is sorted as far as m: no earlier     *)
(* value is above a later one.                                             *)
SortedTo(f, p, n, m) ==
  \A i, j \in 1..n : i < j /\ i <= m => f[p[i]] <= f[p[j]]

(* Finding the least of the rest and putting it next sorts one more.       *)
LEMMA SortedFurther ==
  ASSUME NEW n \in Nat, NEW f \in [1..n -> Int], NEW m \in 1..n,
         NEW p \in Bijection(1..n, 1..n), SortedTo(f, p, n, m - 1)
  PROVE  \E q \in Bijection(1..n, 1..n) : SortedTo(f, q, n, m)
<1> DEFINE g == [i \in 1..n |-> f[p[i]]]
<1>1. p \in [1..n -> 1..n] /\ \A i, j \in 1..n : p[i] = p[j] => i = j
  BY DEF Bijection, Injection, IsInjective
<1>2. \A t \in 1..n : \E i \in 1..n : p[i] = t BY DEF Bijection, Surjection
<1>3. g \in [1..n -> Int] BY <1>1
<1>4. PICK k \in m..n : \A j \in m..n : g[k] <= g[j] BY <1>3, LeastValue
<1> DEFINE swap(i) == IF i = m THEN k ELSE IF i = k THEN m ELSE i
           q == [i \in 1..n |-> p[swap(i)]]
<1>5. \A i \in 1..n : swap(i) \in 1..n /\ swap(swap(i)) = i OBVIOUS
<1>6. q \in Bijection(1..n, 1..n)
  <2>1. q \in [1..n -> 1..n] BY <1>1, <1>5
  <2>2. ASSUME NEW i \in 1..n, NEW j \in 1..n, q[i] = q[j] PROVE i = j
    <3>1. swap(i) = swap(j) BY <1>1, <1>5, <2>2
    <3> QED BY <1>5, <3>1
  <2>3. ASSUME NEW t \in 1..n PROVE \E i \in 1..n : q[i] = t
    <3>1. PICK i \in 1..n : p[i] = t BY <1>2
    <3>2. swap(i) \in 1..n /\ q[swap(i)] = t BY <1>5, <3>1
    <3> QED BY <3>2
  <2> QED BY <2>1, <2>2, <2>3 DEF Bijection, Injection, IsInjective, Surjection
<1>7. ASSUME NEW i \in 1..n, NEW j \in 1..n, i < j, i <= m PROVE f[q[i]] <= f[q[j]]
  <2>1. f[q[i]] = g[swap(i)] /\ f[q[j]] = g[swap(j)] BY <1>5
  <2>2. CASE i = m
    <3>1. swap(i) = k /\ swap(j) \in m..n BY <1>7, <2>2
    <3> QED BY <1>4, <2>1, <3>1
  <2>3. CASE i # m
    <3>1. i < m /\ swap(i) = i /\ swap(j) \in 1..n /\ i < swap(j) BY <1>7, <2>3
    <3>2. f[p[i]] <= f[p[swap(j)]] BY <3>1 DEF SortedTo
    <3> QED BY <2>1, <3>1, <3>2
  <2> QED BY <2>2, <2>3
<1> QED BY <1>6, <1>7 DEF SortedTo

LEMMA SortedExists ==
  ASSUME NEW n \in Nat, NEW f \in [1..n -> Int]
  PROVE  \E p \in Bijection(1..n, 1..n) : SortedTo(f, p, n, n)
<1> DEFINE T == {m \in 0..n : ~ \E p \in Bijection(1..n, 1..n) : SortedTo(f, p, n, m)}
<1>0. T \subseteq 0..n /\ T \subseteq Nat OBVIOUS
<1>1. ASSUME NEW m \in T, \A e \in T : m <= e PROVE FALSE
  <2>1. m # 0
    <3> DEFINE id == [i \in 1..n |-> i]
    <3>1. id \in Bijection(1..n, 1..n) BY DEF Bijection, Injection, IsInjective, Surjection
    <3>2. SortedTo(f, id, n, 0) BY DEF SortedTo
    <3> QED BY <3>1, <3>2
  <2>2. m - 1 \in 0..n /\ m - 1 \notin T BY <1>1, <2>1
  <2>3. PICK p \in Bijection(1..n, 1..n) : SortedTo(f, p, n, m - 1) BY <2>2
  <2>4. m \in 1..n BY <2>1
  <2> QED BY <2>3, <2>4, SortedFurther
<1>2. T = {}
  <2> HIDE DEF T
  <2> QED BY <1>0, <1>1, LeastNatural
<1>3. n \in 0..n OBVIOUS
<1> QED BY <1>2, <1>3
-----------------------------------------------------------------------------
(* Checking a batch.                                                       *)

LEMMA BatchSorted ==
  ASSUME NEW n \in Nat, NEW incoming \in [1..n -> [start: Int, end: Int]]
  PROVE  \E p \in Bijection(1..n, 1..n) :
           /\ Sorted(incoming) = [i \in 1..n |-> incoming[p[i]]]
           /\ \A i, j \in 1..n : i < j => incoming[p[i]].start <= incoming[p[j]].start
<1> DEFINE f == [i \in 1..n |-> incoming[i].start]
<1>1. f \in [1..n -> Int] OBVIOUS
<1>2. PICK p \in Bijection(1..n, 1..n) : SortedTo(f, p, n, n) BY <1>1, SortedExists
<1>3. \A i \in 1..n : p[i] \in 1..n BY DEF Bijection, Injection
<1>4. p \in Orders(incoming)
  <2>1. \A i, j \in 1..n : i < j => f[p[i]] <= f[p[j]] BY <1>2 DEF SortedTo
  <2>2. \A i \in 1..n : f[p[i]] = incoming[p[i]].start BY <1>3
  <2>3. DOMAIN incoming = 1..n OBVIOUS
  <2> HIDE DEF f
  <2> QED BY <2>1, <2>2, <2>3 DEF Orders
<1> DEFINE q == CHOOSE q \in Orders(incoming) : TRUE
<1>5. q \in Orders(incoming) BY <1>4
<1>6. /\ q \in Bijection(1..n, 1..n)
      /\ \A i, j \in 1..n : i < j => incoming[q[i]].start <= incoming[q[j]].start
  <2> HIDE DEF q
  <2> QED BY <1>5 DEF Orders
<1>7. Sorted(incoming) = [i \in 1..n |-> incoming[q[i]]] BY DEF Sorted
<1> QED BY <1>6, <1>7

(* Of two valid intervals that do not intersect, the one that starts first *)
(* ends before the other starts.                                           *)
LEMMA FirstEndsFirst ==
  ASSUME NEW a \in [start: Int, end: Int], NEW b \in [start: Int, end: Int],
         a.start < a.end, b.start < b.end, a.start <= b.start
  PROVE  ~IntersectsRange(a, b) <=> a.end <= b.start
BY DEF IntersectsRange

(* What ensureSlotsDoNotOverlap accepts is what it means to accept: it     *)
(* compares neighbours of the sorted batch only, yet no two intervals of a *)
(* valid batch it lets through intersect, and it refuses no other.         *)
THEOREM NeighboursSuffice ==
  ASSUME NEW n \in Nat, NEW incoming \in [1..n -> [start: Int, end: Int]], Valid(incoming),
         NEW existing
  PROVE  DoNotOverlap(incoming, existing) <=>
           /\ \A i, j \in 1..n : i # j => ~IntersectsRange(incoming[i], incoming[j])
           /\ \A i \in 1..n : \A s \in existing : ~IntersectsRange(incoming[i], s)
<1>1. PICK p \in Bijection(1..n, 1..n) :
        /\ Sorted(incoming) = [i \in 1..n |-> incoming[p[i]]]
        /\ \A i, j \in 1..n : i < j => incoming[p[i]].start <= incoming[p[j]].start
  BY BatchSorted
<1> DEFINE sorted == [i \in 1..n |-> incoming[p[i]]]
           neighbours == \A i \in 1..n \ {1} : ~IntersectsRange(sorted[i - 1], sorted[i])
           pairs == \A i, j \in 1..n : i # j => ~IntersectsRange(incoming[i], incoming[j])
<1>2. /\ \A i \in 1..n : p[i] \in 1..n
      /\ \A i, j \in 1..n : p[i] = p[j] => i = j
      /\ \A t \in 1..n : \E i \in 1..n : p[i] = t
  BY DEF Bijection, Injection, IsInjective, Surjection
<1>3. \A i \in 1..n : sorted[i] \in [start: Int, end: Int] /\ sorted[i].start < sorted[i].end
  BY <1>2 DEF Valid
<1>4. \A i, j \in 1..n : i < j => sorted[i].start <= sorted[j].start BY <1>1
<1>5. ASSUME neighbours PROVE pairs
  <2>1. ASSUME NEW i \in 1..n, NEW j \in 1..n, i < j
        PROVE  ~IntersectsRange(sorted[i], sorted[j]) /\ ~IntersectsRange(sorted[j], sorted[i])
    <3>1. i + 1 \in 1..n \ {1} /\ (i + 1) - 1 = i /\ (i + 1 = j \/ i + 1 < j) BY <2>1
    <3>2. ~IntersectsRange(sorted[i], sorted[i + 1]) BY <1>5, <3>1
    <3> HIDE DEF sorted
    <3>3. /\ sorted[i].start <= sorted[i + 1].start
          /\ i + 1 = j \/ sorted[i + 1].start <= sorted[j].start
      BY <1>4, <3>1
    <3>4. sorted[i].end <= sorted[i + 1].start BY <1>3, <3>1, <3>2, <3>3, FirstEndsFirst
    <3>5. /\ sorted[i].start \in Int /\ sorted[i].end \in Int /\ sorted[i + 1].start \in Int
          /\ sorted[j].start \in Int /\ sorted[j].end \in Int
          /\ sorted[i].start < sorted[i].end /\ sorted[j].start < sorted[j].end
      BY <1>3, <3>1
    <3>6. sorted[i].end <= sorted[j].start
      <4>1. CASE i + 1 = j BY <3>4, <4>1
      <4>2. CASE sorted[i + 1].start <= sorted[j].start
        <5>1. \A x, y, z \in Int : x <= y /\ y <= z => x <= z OBVIOUS
        <5> QED BY <3>4, <3>5, <4>2, <5>1
      <4> QED BY <3>3, <4>1, <4>2
    <3> QED BY <3>5, <3>6 DEF IntersectsRange
  <2>2. ASSUME NEW s \in 1..n, NEW t \in 1..n, s # t
        PROVE  ~IntersectsRange(incoming[s], incoming[t])
    <3>1. PICK i \in 1..n : p[i] = s BY <1>2
    <3>2. PICK j \in 1..n : p[j] = t BY <1>2
    <3>3. i < j \/ j < i BY <2>2, <3>1, <3>2
    <3>4. sorted[i] = incoming[s] /\ sorted[j] = incoming[t] BY <3>1, <3>2
    <3> QED BY <2>1, <3>3, <3>4
  <2> QED BY <2>2
<1>6. ASSUME pairs PROVE neighbours
  <2> SUFFICES ASSUME NEW i \in 1..n \ {1} PROVE ~IntersectsRange(sorted[i - 1], sorted[i])
    OBVIOUS
  <2>1. i - 1 \in 1..n /\ i \in 1..n /\ p[i - 1] # p[i] BY <1>2
  <2> QED BY <1>2, <1>6, <2>1
<1>7. DoNotOverlap(incoming, existing) <=>
        neighbours /\ \A i \in 1..n : \A s \in existing : ~IntersectsRange(incoming[i], s)
  BY <1>1 DEF DoNotOverlap
<1> QED BY <1>5, <1>6, <1>7
-----------------------------------------------------------------------------
(* The slots of the meeting.                                               *)

(* A request that has inserted its batch checked it against its snapshot.  *)
Checked(w) ==
  /\ tx[w].phase # "idle" => tx[w].incoming \in Batch
  /\ tx[w].phase = "written" =>
       Valid(tx[w].incoming) /\ DoNotOverlap(tx[w].incoming, tx[w].view)

Apart == \A s, q \in slots : s # q => ~IntersectsRange(s, q)

Inv ==
  /\ TypeOK
  /\ IsFiniteSet(slots)
  /\ \A w \in Worker : Checked(w)
  /\ Apart
  /\ SortOrderTotal

LEMMA BatchTyped ==
  ASSUME NEW incoming \in Batch
  PROVE  \E n \in Nat \ {0} : incoming \in [1..n -> [start: Int, end: Int]]
BY SlotsAssumption DEF Batch

LEMMA InitInv == Init => Inv
<1> SUFFICES ASSUME Init PROVE Inv OBVIOUS
<1>1. TypeOK BY DEF Init, TypeOK, Idle, Request
<1>2. Cardinality(slots) = 0 /\ IsFiniteSet(slots) BY FS_EmptySet DEF Init
<1>3. SortOrderTotal BY <1>2 DEF Init, SortOrderTotal
<1>4. Apart /\ \A w \in Worker : Checked(w) BY DEF Init, Apart, Checked, Idle
<1> QED BY <1>1, <1>2, <1>3, <1>4 DEF Inv

(* What a batch becomes: its intervals in one of its orders, ...           *)
LEMMA NewRows ==
  ASSUME NEW n \in Nat, NEW incoming \in [1..n -> [start: Int, end: Int]], NEW existing
  PROVE  \E p \in Bijection(1..n, 1..n) :
           NewSlots(incoming, existing) =
             {[start |-> incoming[p[i]].start, end |-> incoming[p[i]].end,
               sortOrder |-> Cardinality(existing) + i - 1] : i \in 1..n}
<1>1. PICK p \in Bijection(1..n, 1..n) : Sorted(incoming) = [i \in 1..n |-> incoming[p[i]]]
  BY BatchSorted
<1> DEFINE row(interval, i) == [start |-> interval.start, end |-> interval.end,
                                sortOrder |-> Cardinality(existing) + i - 1]
<1>2. DOMAIN Sorted(incoming) = 1..n /\ \A i \in 1..n : Sorted(incoming)[i] = incoming[p[i]]
  BY <1>1
<1>3. NewSlots(incoming, existing) = {row(Sorted(incoming)[i], i) : i \in 1..n}
  BY <1>2 DEF NewSlots
<1>4. \A i \in 1..n : row(Sorted(incoming)[i], i) = row(incoming[p[i]], i) BY <1>2
<1>5. NewSlots(incoming, existing) = {row(incoming[p[i]], i) : i \in 1..n}
  <2> HIDE DEF row
  <2> QED BY <1>3, <1>4
<1> QED BY <1>5

(* ... numbered after those of the meeting in a row.                       *)
LEMMA NewNumbered ==
  ASSUME NEW n \in Nat, NEW incoming \in [1..n -> [start: Int, end: Int]],
         NEW existing, IsFiniteSet(existing)
  PROVE  LET new == NewSlots(incoming, existing)
             c == Cardinality(existing)
         IN  /\ new \subseteq Slot /\ IsFiniteSet(new) /\ Cardinality(new) = n
             /\ {s.sortOrder : s \in new} = c .. c + n - 1
             /\ \A s, q \in new : s.sortOrder = q.sortOrder => s = q
<1> DEFINE new == NewSlots(incoming, existing)
           c == Cardinality(existing)
<1>1. c \in Nat BY FS_CardinalityType
<1>2. PICK p \in Bijection(1..n, 1..n) :
        new = {[start |-> incoming[p[i]].start, end |-> incoming[p[i]].end,
                sortOrder |-> c + i - 1] : i \in 1..n}
  BY NewRows
<1> DEFINE f == [i \in 1..n |-> [start |-> incoming[p[i]].start, end |-> incoming[p[i]].end,
                                 sortOrder |-> c + i - 1]]
<1>3. \A i \in 1..n : p[i] \in 1..n BY DEF Bijection, Injection
<1>4. \A i \in 1..n : f[i] \in Slot /\ f[i].sortOrder = c + i - 1
  <2>1. \A i \in 1..n : incoming[p[i]] \in [start: Int, end: Int] BY <1>3
  <2>2. \A i \in 1..n : c + i - 1 \in Nat BY <1>1
  <2> QED BY <2>1, <2>2 DEF Slot
<1>5. new = {f[i] : i \in 1..n} BY <1>2
<1> HIDE DEF f, new, c
<1>6. DOMAIN f = 1..n BY DEF f
<1>7. f \in Bijection(1..n, new)
  <2>1. f \in [1..n -> new] BY <1>5, <1>6 DEF f
  <2>2. ASSUME NEW i \in 1..n, NEW j \in 1..n, f[i] = f[j] PROVE i = j
    <3>1. c + i - 1 = c + j - 1 BY <1>4, <2>2
    <3> QED BY <1>1, <3>1
  <2>3. \A s \in new : \E i \in 1..n : f[i] = s BY <1>5
  <2> QED BY <2>1, <2>2, <2>3 DEF Bijection, Injection, IsInjective, Surjection
<1>8. IsFiniteSet(1..n) /\ Cardinality(1..n) = n BY FS_Interval
<1>9. IsFiniteSet(new) /\ Cardinality(new) = n BY <1>7, <1>8, FS_Bijection DEF ExistsBijection
<1>10. {s.sortOrder : s \in new} = c .. c + n - 1
  <2>1. ASSUME NEW s \in new PROVE s.sortOrder \in c .. c + n - 1 BY <1>1, <1>4, <1>5
  <2>2. ASSUME NEW k \in c .. c + n - 1 PROVE \E s \in new : s.sortOrder = k
    <3>1. k - c + 1 \in 1..n /\ c + (k - c + 1) - 1 = k BY <1>1
    <3>2. f[k - c + 1] \in new /\ f[k - c + 1].sortOrder = k BY <1>4, <1>5, <3>1
    <3> QED BY <3>2
  <2> QED BY <2>1, <2>2
<1>11. \A s, q \in new : s.sortOrder = q.sortOrder => s = q
  <2> TAKE s, q \in new
  <2> HAVE s.sortOrder = q.sortOrder
  <2>1. PICK i \in 1..n : s = f[i] BY <1>5
  <2>2. PICK j \in 1..n : q = f[j] BY <1>5
  <2>3. c + i - 1 = c + j - 1 BY <1>4, <2>1, <2>2
  <2>4. i = j BY <1>1, <2>3
  <2> QED BY <2>1, <2>2, <2>4
<1>12. new \subseteq Slot BY <1>4, <1>5
<1> QED BY <1>9, <1>10, <1>11, <1>12 DEF new, c

(* The meeting and a batch that was checked against it.                    *)
LEMMA CommitKeeps ==
  ASSUME Inv, NEW w \in Worker, Commit(w)
  PROVE  IsFiniteSet(slots') /\ slots' \subseteq Slot /\ Apart' /\ SortOrderTotal'
<1> DEFINE incoming == tx[w].incoming
           new == NewSlots(incoming, slots)
           c == Cardinality(slots)
<1>1. /\ slots' = slots \cup new
      /\ incoming \in Batch /\ Valid(incoming) /\ DoNotOverlap(incoming, slots)
      /\ slots \subseteq Slot /\ IsFiniteSet(slots)
  BY DEF Inv, TypeOK, Checked, Commit
<1>2. PICK n \in Nat \ {0} : incoming \in [1..n -> [start: Int, end: Int]] BY <1>1, BatchTyped
<1> HIDE DEF incoming
<1>3. /\ new \subseteq Slot /\ IsFiniteSet(new) /\ Cardinality(new) = n
      /\ {s.sortOrder : s \in new} = c .. c + n - 1
      /\ \A s, q \in new : s.sortOrder = q.sortOrder => s = q
  BY <1>1, <1>2, NewNumbered
<1>4. /\ c \in Nat
      /\ {s.sortOrder : s \in slots} = 0 .. c - 1
      /\ \A s, q \in slots : s.sortOrder = q.sortOrder => s = q
  BY <1>1, FS_CardinalityType DEF Inv, SortOrderTotal
<1>5. /\ \A i, j \in 1..n : i # j => ~IntersectsRange(incoming[i], incoming[j])
      /\ \A i \in 1..n : \A s \in slots : ~IntersectsRange(incoming[i], s)
  BY <1>1, <1>2, NeighboursSuffice
<1>6. PICK p \in Bijection(1..n, 1..n) :
        new = {[start |-> incoming[p[i]].start, end |-> incoming[p[i]].end,
                sortOrder |-> c + i - 1] : i \in 1..n}
  BY <1>1, <1>2, NewRows
<1>7. (\A i \in 1..n : p[i] \in 1..n) /\ (\A i, j \in 1..n : p[i] = p[j] => i = j)
  BY DEF Bijection, Injection, IsInjective
<1> HIDE DEF new, c
<1>8. \A s \in slots, q \in new : ~IntersectsRange(s, q) /\ ~IntersectsRange(q, s)
  <2> TAKE s \in slots, q \in new
  <2>1. PICK i \in 1..n : q.start = incoming[i].start /\ q.end = incoming[i].end BY <1>6, <1>7
  <2>2. s \in Slot /\ q \in Slot BY <1>1, <1>3
  <2>3. ~IntersectsRange(q, s) BY <1>5, <2>1 DEF IntersectsRange
  <2> QED BY <2>2, <2>3 DEF IntersectsRange, Slot
<1>9. ASSUME NEW s \in new, NEW q \in new, s # q PROVE ~IntersectsRange(s, q)
  <2>1. PICK i \in 1..n : s = [start |-> incoming[p[i]].start, end |-> incoming[p[i]].end,
                              sortOrder |-> c + i - 1]
    BY <1>6
  <2>2. PICK j \in 1..n : q = [start |-> incoming[p[j]].start, end |-> incoming[p[j]].end,
                              sortOrder |-> c + j - 1]
    BY <1>6
  <2>3. p[i] \in 1..n /\ p[j] \in 1..n /\ p[i] # p[j] BY <1>7, <1>9, <2>1, <2>2
  <2>4. ~IntersectsRange(incoming[p[i]], incoming[p[j]]) BY <1>5, <2>3
  <2> QED BY <2>1, <2>2, <2>4 DEF IntersectsRange
<1>10. Apart' BY <1>1, <1>8, <1>9 DEF Inv, Apart
<1>11. IsFiniteSet(slots') /\ slots' \subseteq Slot /\ Cardinality(slots') = c + n
  <2>1. slots \cap new = {}
    <3> SUFFICES ASSUME NEW s \in slots, s \in new PROVE FALSE OBVIOUS
    <3>1. s.sortOrder \in 0 .. c - 1 /\ s.sortOrder \in c .. c + n - 1 BY <1>3, <1>4
    <3> QED BY <1>4, <3>1
  <2>2. Cardinality(slots \cap new) = 0 BY <2>1, FS_EmptySet
  <2>3. IsFiniteSet(slots \cup new) /\ Cardinality(slots \cup new) = Cardinality(slots) + n - 0
    BY <1>1, <1>3, <2>2, FS_Union
  <2>4. Cardinality(slots) = c BY DEF c
  <2> QED BY <1>1, <1>3, <1>4, <2>3, <2>4
<1>12. SortOrderTotal'
  <2>1. {s.sortOrder : s \in slots'} = 0 .. Cardinality(slots') - 1
    <3>1. {s.sortOrder : s \in slots'} = {s.sortOrder : s \in slots} \cup {s.sortOrder : s \in new}
      BY <1>1
    <3>2. (0 .. c - 1) \cup (c .. c + n - 1) = 0 .. c + n - 1 BY <1>4
    <3>3. {s.sortOrder : s \in slots'} = 0 .. c + n - 1 BY <1>3, <1>4, <3>1, <3>2
    <3>4. \A k \in Nat : k = c + n => {s.sortOrder : s \in slots'} = 0 .. k - 1
      <4>1. c \in Nat BY <1>4
      <4>2. \A k \in Nat : k = c + n => 0 .. k - 1 = 0 .. c + n - 1 BY <4>1
      <4> QED BY <3>3, <4>2
    <3>5. Cardinality(slots') \in Nat BY <1>11, FS_CardinalityType
    <3> QED BY <1>11, <3>4, <3>5
  <2>2. ASSUME NEW s \in slots', NEW q \in slots', s.sortOrder = q.sortOrder PROVE s = q
    <3>1. ASSUME NEW x \in slots, NEW y \in new PROVE x.sortOrder # y.sortOrder
      <4>1. x.sortOrder \in 0 .. c - 1 /\ y.sortOrder \in c .. c + n - 1 BY <1>3, <1>4
      <4> QED BY <1>4, <4>1
    <3> QED BY <1>1, <1>3, <1>4, <2>2, <3>1
  <2> QED BY <2>1, <2>2 DEF SortOrderTotal
<1> QED BY <1>10, <1>11, <1>12

LEMMA NextInv == Inv /\ [Next]_vars => Inv'
<1> SUFFICES ASSUME Inv, [Next]_vars PROVE Inv' OBVIOUS
<1>1. ASSUME NEW w \in Worker, NEW incoming \in Batch, Begin(w, incoming) PROVE Inv'
  BY <1>1 DEF Inv, TypeOK, Request, Checked, Apart, SortOrderTotal, Begin
<1>2. ASSUME NEW w \in Worker, CreateSlots(w) PROVE Inv'
  <2>1. TypeOK' BY <1>2 DEF Inv, TypeOK, Request, CreateSlots, Idle
  <2>2. ASSUME NEW v \in Worker PROVE Checked(v)'
    <3>1. CASE v # w BY <1>2, <3>1 DEF Inv, TypeOK, Checked, CreateSlots
    <3>2. CASE v = w
      <4>1. tx[w] \in Request /\ tx \in [Worker -> Request] /\ tx[w].phase = "begun"
        BY <1>2 DEF Inv, TypeOK, CreateSlots
      <4>2. tx[w].incoming \in Batch BY <4>1 DEF Inv, Checked
      <4>3. CASE /\ Valid(tx[w].incoming) /\ DoNotOverlap(tx[w].incoming, tx[w].view)
                 /\ tx' = [tx EXCEPT ![w].phase = "written"]
        <5>1. tx'[w].incoming = tx[w].incoming /\ tx'[w].view = tx[w].view BY <4>1, <4>3 DEF Request
        <5> QED BY <3>2, <4>2, <4>3, <5>1 DEF Checked
      <4>4. CASE tx' = [tx EXCEPT ![w] = Idle]
        <5>1. tx'[w].phase = "idle" BY <4>1, <4>4 DEF Idle
        <5> QED BY <3>2, <5>1 DEF Checked
      <4> QED BY <1>2, <4>3, <4>4 DEF CreateSlots
    <3> QED BY <3>1, <3>2
  <2> QED BY <1>2, <2>1, <2>2 DEF Inv, Apart, SortOrderTotal, CreateSlots
<1>3. ASSUME NEW w \in Worker, Commit(w) PROVE Inv'
  <2>1. IsFiniteSet(slots') /\ slots' \subseteq Slot /\ Apart' /\ SortOrderTotal'
    BY <1>3, CommitKeeps
  <2>2. TypeOK' BY <1>3, <2>1 DEF Inv, TypeOK, Request, Commit, Idle
  <2>3. ASSUME NEW v \in Worker PROVE Checked(v)'
    BY <1>3 DEF Inv, TypeOK, Checked, Commit, Idle
  <2> QED BY <2>1, <2>2, <2>3 DEF Inv
<1>4. ASSUME NEW w \in Worker, Abort(w) PROVE Inv'
  <2>1. TypeOK' BY <1>4 DEF Inv, TypeOK, Request, Abort, Idle
  <2>2. ASSUME NEW v \in Worker PROVE Checked(v)'
    BY <1>4 DEF Inv, TypeOK, Checked, Abort, Idle
  <2> QED BY <1>4, <2>1, <2>2 DEF Inv, Apart, SortOrderTotal, Abort
<1>5. CASE UNCHANGED vars
  BY <1>5 DEF Inv, TypeOK, Checked, Apart, SortOrderTotal, vars
<1> QED BY <1>1, <1>2, <1>3, <1>4, <1>5 DEF Next

LEMMA InvHolds == Spec => []Inv
BY InitInv, NextInv, PTL DEF Spec

(* Every slot and every request holds values of its type.                  *)
THEOREM TypeCorrect == Spec => []TypeOK
<1>1. Inv => TypeOK BY DEF Inv
<1> QED BY <1>1, InvHolds, PTL

(* No instant belongs to two slots, however many managers add slots at the *)
(* same time: neither the order in which a request lists its intervals nor *)
(* a snapshot older than the lock lets an overlap through.                 *)
THEOREM SlotsApart == Spec => []SlotsDisjoint
<1>1. Inv => SlotsDisjoint
  <2> SUFFICES ASSUME Inv, NEW s \in slots, NEW q \in slots, s # q,
                      NEW t \in Covers(s) \cap Covers(q)
               PROVE  FALSE
    BY DEF SlotsDisjoint
  <2>1. t \in Int BY SlotsAssumption DEF Covers
  <2>2. s \in Slot /\ q \in Slot /\ ~IntersectsRange(s, q) BY DEF Inv, TypeOK, Apart
  <2>3. s.start <= t /\ t < s.end /\ q.start <= t /\ t < q.end BY DEF Covers
  <2> QED BY <2>1, <2>2, <2>3 DEF Slot, IntersectsRange
<1> QED BY <1>1, InvHolds, PTL

(* The slots are numbered 0, 1, 2, ... without a gap or a repetition.      *)
THEOREM NumberedInOrder == Spec => []SortOrderTotal
<1>1. Inv => SortOrderTotal BY DEF Inv
<1> QED BY <1>1, InvHolds, PTL
=============================================================================

-------------------------- MODULE VirtqueuesProofs --------------------------
(***************************************************************************)
(* The split virtqueue implements BufferQueue, for every size of the       *)
(* queue, width of the ring indexes, length and number of buffers.         *)
(***************************************************************************)
EXTENDS Virtqueues, FiniteSetTheorems, WellFoundedInduction, TLAPS

-----------------------------------------------------------------------------
(***************************************************************************)
(* Arithmetic modulo the size of a ring.                                   *)
(***************************************************************************)
LEMMA Remainder ==
  ASSUME NEW s \in Nat, s > 0, NEW x \in Nat
  PROVE  x % s \in 0 .. s - 1 /\ \E a \in Nat : x = s * a + (x % s)
  <1>1. x = s * (x \div s) + (x % s) /\ x \div s \in Nat /\ x % s \in 0 .. s - 1
    BY SMTT(30)
  <1> QED
    BY <1>1

LEMMA RemainderIs ==
  ASSUME NEW s \in Nat, s > 0, NEW a \in Nat, NEW r \in Nat, r < s
  PROVE  (s * a + r) % s = r
  BY SMTT(30)

\* Turns of the ring do not matter.
LEMMA Turns ==
  ASSUME NEW s \in Nat, s > 0, NEW x \in Nat, NEW m \in Nat, m % s = 0
  PROVE  (x + m) % s = x % s
  <1>1. PICK a \in Nat : x = s * a + (x % s)
    BY Remainder, Zenon
  <1>2. PICK q \in Nat : m = s * q
    BY Remainder, SMTT(30)
  <1>3. PICK r \in Nat : r = x % s /\ r < s
    BY Remainder, SMTT(30)
  <1>4. x + m = s * (a + q) + r /\ a + q \in Nat
    BY <1>1, <1>2, <1>3, SMTT(30)
  <1>5. (s * (a + q) + r) % s = r
    BY <1>3, <1>4, RemainderIs, Zenon
  <1> QED
    BY <1>3, <1>4, <1>5

\* Indexes less than a turn apart are different slots.
LEMMA Near ==
  ASSUME NEW s \in Nat, s > 0, NEW x \in Nat, NEW y \in Nat, x < y, y < x + s
  PROVE  x % s # y % s
  <1> SUFFICES ASSUME x % s = y % s PROVE FALSE
    OBVIOUS
  <1>1. PICK a \in Nat : x = s * a + (x % s)
    BY Remainder, Zenon
  <1>2. PICK b \in Nat : y = s * b + (y % s)
    BY Remainder, Zenon
  <1>3. PICK c \in Int : c = b - a
    OBVIOUS
  <1>4. y - x = s * c
    <2>1. x % s \in Int
      BY Remainder
    <2>2. PICK r \in Int : r = x % s
      BY <2>1
    <2>3. x = s * a + r /\ y = s * b + r
      BY <1>1, <1>2, <2>2
    <2> QED
      BY <1>3, <2>3, SMTT(30)
  <1>5. s * c > 0 /\ s * c < s
    BY <1>4, SMTT(30)
  <1>6. CASE c <= 0
    BY <1>5, <1>6, SMTT(30)
  <1>7. CASE c >= 1
    BY <1>5, <1>7, SMTT(30)
  <1> QED
    BY <1>6, <1>7

\* From one index to another, and to the next.
LEMMA Between ==
  ASSUME NEW m \in Nat, m > 0, NEW f \in 0 .. m - 1, NEW t \in 0 .. m - 1
  PROVE  /\ (t - f) % m \in 0 .. m - 1
         /\ t >= f => (t - f) % m = t - f
         /\ t < f => (t - f) % m = t - f + m
         /\ t + 1 < m => (t + 1) % m = t + 1
         /\ t + 1 = m => (t + 1) % m = 0
  BY SMTT(30)

-----------------------------------------------------------------------------
(***************************************************************************)
(* A ring as the queue of what is in it.                                   *)
(***************************************************************************)
RingIndexes == 0 .. IdxMod - 1

RingLen(from, to) == (to - from) % IdxMod
SlotAt(from, k) == (from + k - 1) % SplitSize
Slot(i) == i % SplitSize
After(i) == (i + 1) % IdxMod
SameBut(arr, arr2, i) == \A j \in SplitCells : j # i => arr2[j] = arr[j]
RingSeq(arr, from, to) == [k \in 1 .. RingLen(from, to) |-> arr[SlotAt(from, k)]]

LEMMA SplitFacts ==
  ASSUME SplitAssumption
  PROVE  /\ SplitSize \in Nat /\ SplitSize > 0 /\ IdxMod \in Nat /\ IdxMod > SplitSize
         /\ IsFiniteSet(SplitCells) /\ Cardinality(SplitCells) = SplitSize
         /\ \A x \in Nat : x % SplitSize \in SplitCells /\ (x + IdxMod) % SplitSize = x % SplitSize
  <1>1. SplitSize \in Nat /\ SplitSize > 0 /\ IdxMod \in Nat /\ IdxMod > SplitSize /\ IdxMod % SplitSize = 0
    BY SMT DEF SplitAssumption
  <1>2. IsFiniteSet(SplitCells) /\ Cardinality(SplitCells) = SplitSize
    BY <1>1, FS_Interval, SMTT(30) DEF SplitCells
  <1>3. \A x \in Nat : x % SplitSize \in SplitCells /\ (x + IdxMod) % SplitSize = x % SplitSize
    BY <1>1, Remainder, Turns, Zenon DEF SplitCells
  <1> QED
    BY <1>1, <1>2, <1>3

\* s is what the n slots from an index on hold.
HeldFrom(arr, from, n, s, T) ==
    s \in Seq(T) /\ Len(s) = n /\ \A k \in 1 .. n : s[k] = arr[SlotAt(from, k)]

LEMMA RingIs ==
  ASSUME SplitAssumption, NEW T, NEW arr \in [SplitCells -> T], NEW from \in RingIndexes, NEW to \in RingIndexes
  PROVE  /\ RingLen(from, to) \in Nat
         /\ HeldFrom(arr, from, RingLen(from, to), RingSeq(arr, from, to), T)
         /\ from = to => RingSeq(arr, from, to) = <<>>
  <1> USE SMTT(30)
  <1>1. IdxMod \in Nat /\ IdxMod > 0 /\ \A x \in Nat : x % SplitSize \in SplitCells
    <2>1. /\ IdxMod \in Nat /\ IdxMod > SplitSize /\ SplitSize \in Nat
          /\ \A x \in Nat : x % SplitSize \in SplitCells
      BY SplitFacts, Zenon
    <2> QED
      BY <2>1
  <1>2. RingLen(from, to) \in Nat /\ (from = to => RingLen(from, to) = 0)
    BY <1>1, Between DEF RingIndexes, RingLen
  <1>3. PICK n \in Nat : n = RingLen(from, to)
    BY <1>2
  <1>4. \A k \in 1 .. n : arr[SlotAt(from, k)] \in T
    <2> SUFFICES ASSUME NEW k \in 1 .. n PROVE arr[SlotAt(from, k)] \in T
      OBVIOUS
    <2>1. from + k - 1 \in Nat
      BY DEF RingIndexes
    <2>2. SlotAt(from, k) \in SplitCells
      BY <1>1, <2>1 DEF SlotAt
    <2> QED
      BY <2>2
  <1>5. PICK s : s = RingSeq(arr, from, to)
    OBVIOUS
  <1>6. s = [k \in 1 .. n |-> arr[SlotAt(from, k)]]
    BY <1>3, <1>5, Zenon DEF RingSeq
  <1>7. s \in Seq(T) /\ Len(s) = n /\ \A k \in 1 .. n : s[k] = arr[SlotAt(from, k)]
    BY <1>4, <1>6
  <1>8. from = to => s = <<>>
    BY <1>2, <1>3, <1>7
  <1> QED
    BY <1>2, <1>3, <1>5, <1>7, <1>8, Zenon DEF HeldFrom

\* A slot that is not in the queue may be written.
LEMMA RingWrite ==
  ASSUME SplitAssumption, NEW T, NEW arr \in [SplitCells -> T], NEW from \in RingIndexes, NEW to \in RingIndexes,
         RingLen(from, to) < SplitSize, NEW arr2, SameBut(arr, arr2, Slot(to))
  PROVE  RingSeq(arr2, from, to) = RingSeq(arr, from, to)
  <1> USE SMTT(30)
  <1>1. /\ IdxMod \in Nat /\ IdxMod > 0 /\ SplitSize \in Nat /\ SplitSize > 0
        /\ \A x \in Nat : x % SplitSize \in SplitCells /\ (x + IdxMod) % SplitSize = x % SplitSize
    BY SplitFacts
  <1>2. PICK n \in Nat : n = RingLen(from, to) /\ n < SplitSize /\ (from + n = to \/ from + n = to + IdxMod)
    BY <1>1, Between DEF RingIndexes, RingLen
  <1>3. (from + n) % SplitSize = to % SplitSize /\ from \in Nat /\ to \in Nat
    <2>1. from \in Nat /\ to \in Nat
      BY <1>1 DEF RingIndexes
    <2>2. CASE from + n = to
      BY <2>1, <2>2, Zenon
    <2>3. CASE from + n = to + IdxMod
      <3>1. (to + IdxMod) % SplitSize = to % SplitSize
        BY <1>1, <2>1, Zenon
      <3> QED
        BY <2>1, <2>3, <3>1, Zenon
    <2> QED
      BY <1>2, <2>2, <2>3, Zenon
  <1>4. ASSUME NEW k \in 1 .. n PROVE arr2[SlotAt(from, k)] = arr[SlotAt(from, k)]
    <2>1. PICK x \in Nat : x = from + k - 1
      BY <1>3
    <2>2. PICK y \in Nat : y = from + n
      BY <1>3
    <2>3. x < y /\ y < x + SplitSize
      BY <1>1, <1>2, <1>3, <2>1, <2>2
    <2>4. x % SplitSize # y % SplitSize
      BY <1>1, <2>3, Near, Zenon
    <2>5. x % SplitSize # to % SplitSize /\ x % SplitSize = SlotAt(from, k)
      BY <1>1, <1>3, <2>1, <2>2, <2>4 DEF SlotAt
    <2>6. SlotAt(from, k) \in SplitCells
      BY <1>1, <2>1, <2>5, Zenon
    <2> QED
      BY <2>5, <2>6, Zenon DEF SameBut, Slot
  <1>5. [k \in 1 .. n |-> arr2[SlotAt(from, k)]] = [k \in 1 .. n |-> arr[SlotAt(from, k)]]
    BY <1>4, Zenon
  <1>6. RingSeq(arr2, from, to) = RingSeq(arr, from, to)
    BY <1>2, <1>5, Zenon DEF RingSeq
  <1> QED
    BY <1>6

\* The next index puts the slot into the queue.
LEMMA RingMore ==
  ASSUME SplitAssumption, NEW T, NEW arr \in [SplitCells -> T], NEW from \in RingIndexes, NEW to \in RingIndexes,
         RingLen(from, to) < SplitSize
  PROVE  /\ After(to) \in RingIndexes
         /\ RingSeq(arr, from, After(to)) = Append(RingSeq(arr, from, to), arr[Slot(to)])
  <1> USE SMTT(30) DEF After, Slot
  <1>1. /\ IdxMod \in Nat /\ IdxMod > SplitSize /\ SplitSize \in Nat /\ SplitSize > 0
        /\ \A x \in Nat : x % SplitSize \in SplitCells /\ (x + IdxMod) % SplitSize = x % SplitSize
    BY SplitFacts
  <1>2. PICK n \in Nat : n = RingLen(from, to) /\ n < SplitSize /\ (from + n = to \/ from + n = to + IdxMod)
    BY <1>1, Between DEF RingIndexes, RingLen
  <1>3. (from + n) % SplitSize = to % SplitSize /\ from \in Nat /\ to \in Nat
    BY <1>1, <1>2 DEF RingIndexes
  <1>4. PICK t2 \in RingIndexes : t2 = (to + 1) % IdxMod /\ (t2 = to + 1 \/ (t2 = 0 /\ to + 1 = IdxMod))
    BY <1>1, Between DEF RingIndexes, RingLen
  <1>5. RingLen(from, t2) = n + 1
    <2>1. /\ t2 >= from => RingLen(from, t2) = t2 - from
          /\ t2 < from => RingLen(from, t2) = t2 - from + IdxMod
      BY <1>1, Between DEF RingIndexes, RingLen
    <2> QED
      <3>1. /\ t2 \in Nat /\ t2 < IdxMod /\ from < IdxMod /\ to < IdxMod /\ n < IdxMod - 1
            /\ RingLen(from, t2) \in Int
        BY <1>1, <1>2, <2>1 DEF RingIndexes
      <3>2. PICK l \in Int : l = RingLen(from, t2)
        BY <3>1
      <3>3. (from + n = to \/ from + n = to + IdxMod) /\ (t2 = to + 1 \/ (t2 = 0 /\ to + 1 = IdxMod))
        BY <1>2, <1>4, Zenon
      <3>4. (t2 >= from => l = t2 - from) /\ (t2 < from => l = t2 - from + IdxMod)
        BY <2>1, <3>2, Zenon
      <3>5. IdxMod \in Nat
        BY <1>1
      <3>6. l = n + 1
        BY <1>3, <3>1, <3>3, <3>4, <3>5
      <3> QED
        BY <3>2, <3>6
  <1>6. PICK s, u : s = RingSeq(arr, from, to) /\ u = RingSeq(arr, from, t2)
    OBVIOUS
  <1>7. s \in Seq(T) /\ Len(s) = n /\ \A k \in 1 .. n : s[k] = arr[SlotAt(from, k)]
    <2>1. HeldFrom(arr, from, RingLen(from, to), RingSeq(arr, from, to), T)
      BY RingIs, Zenon
    <2> QED
      BY <1>2, <1>6, <2>1, Zenon DEF HeldFrom
  <1>8. u \in Seq(T) /\ Len(u) = n + 1 /\ \A k \in 1 .. n + 1 : u[k] = arr[SlotAt(from, k)]
    <2>1. HeldFrom(arr, from, RingLen(from, t2), RingSeq(arr, from, t2), T)
      BY RingIs, Zenon
    <2> QED
      BY <1>5, <1>6, <2>1, Zenon DEF HeldFrom
  <1>9. u[n + 1] = arr[to % SplitSize]
    <2>1. from + (n + 1) - 1 = from + n /\ n + 1 \in 1 .. n + 1
      BY <1>3
    <2> QED
      BY <1>3, <1>8, <2>1 DEF SlotAt
  <1>10. u = Append(s, arr[to % SplitSize])
    BY <1>7, <1>8, <1>9
  <1> QED
    BY <1>4, <1>6, <1>10, Zenon

\* The next index of the reader takes the first slot out.
LEMMA RingLess ==
  ASSUME SplitAssumption, NEW T, NEW arr \in [SplitCells -> T], NEW from \in RingIndexes, NEW to \in RingIndexes,
         from # to
  PROVE  /\ After(from) \in RingIndexes
         /\ RingSeq(arr, from, to) # <<>> /\ Head(RingSeq(arr, from, to)) = arr[Slot(from)]
         /\ RingSeq(arr, After(from), to) = Tail(RingSeq(arr, from, to))
  <1> USE SMTT(30) DEF After, Slot
  <1>1. /\ IdxMod \in Nat /\ IdxMod > SplitSize /\ SplitSize \in Nat /\ SplitSize > 0
        /\ \A x \in Nat : x % SplitSize \in SplitCells /\ (x + IdxMod) % SplitSize = x % SplitSize
    BY SplitFacts
  <1>3. from \in Nat /\ to \in Nat /\ from < IdxMod /\ to < IdxMod
    BY <1>1 DEF RingIndexes
  <1>2. PICK n \in Nat : n = RingLen(from, to) /\ n > 0 /\ n < IdxMod /\ (from + n = to \/ from + n = to + IdxMod)
    <2>1. /\ to >= from => RingLen(from, to) = to - from
          /\ to < from => RingLen(from, to) = to - from + IdxMod
      BY <1>1, Between DEF RingIndexes, RingLen
    <2>2. CASE to > from
      <3>1. to - from \in Nat /\ to - from > 0 /\ to - from < IdxMod /\ from + (to - from) = to
        BY <1>1, <1>3, <2>2
      <3>2. RingLen(from, to) = to - from
        BY <1>3, <2>1, <2>2
      <3> QED
        BY <3>1, <3>2, Zenon
    <2>3. CASE to < from
      <3>1. to - from + IdxMod \in Nat /\ to - from + IdxMod > 0 /\ to - from + IdxMod < IdxMod
        BY <1>1, <1>3, <2>3
      <3> QED
        BY <1>1, <1>3, <2>1, <2>3, <3>1
    <2> QED
      BY <1>3, <2>2, <2>3
  <1>4. PICK f2 \in RingIndexes : f2 = (from + 1) % IdxMod /\ (f2 = from + 1 \/ (f2 = 0 /\ from + 1 = IdxMod))
    BY <1>1, Between DEF RingIndexes, RingLen
  <1>5. RingLen(f2, to) = n - 1
    <2>1. /\ to >= f2 => RingLen(f2, to) = to - f2
          /\ to < f2 => RingLen(f2, to) = to - f2 + IdxMod
      BY <1>1, Between DEF RingIndexes, RingLen
    <2> QED
      <3>1. f2 \in Nat /\ f2 < IdxMod /\ RingLen(f2, to) \in Int
        BY <1>1, <2>1 DEF RingIndexes
      <3>2. PICK l \in Int : l = RingLen(f2, to)
        BY <3>1
      <3>3. /\ n > 0 /\ n < IdxMod /\ (from + n = to \/ from + n = to + IdxMod)
            /\ (f2 = from + 1 \/ (f2 = 0 /\ from + 1 = IdxMod))
        BY <1>2, <1>4, Zenon
      <3>4. (to >= f2 => l = to - f2) /\ (to < f2 => l = to - f2 + IdxMod)
        BY <2>1, <3>2, Zenon
      <3>5. IdxMod \in Nat
        BY <1>1
      <3>6. l = n - 1
        BY <1>3, <3>1, <3>3, <3>4, <3>5
      <3> QED
        BY <3>2, <3>6
  <1>6. PICK s, u : s = RingSeq(arr, from, to) /\ u = RingSeq(arr, f2, to)
    OBVIOUS
  <1>7. s \in Seq(T) /\ Len(s) = n /\ \A k \in 1 .. n : s[k] = arr[SlotAt(from, k)]
    <2>1. HeldFrom(arr, from, RingLen(from, to), RingSeq(arr, from, to), T)
      BY RingIs, Zenon
    <2> QED
      BY <1>2, <1>6, <2>1, Zenon DEF HeldFrom
  <1>8. u \in Seq(T) /\ Len(u) = n - 1 /\ \A k \in 1 .. n - 1 : u[k] = arr[SlotAt(f2, k)]
    <2>1. HeldFrom(arr, f2, RingLen(f2, to), RingSeq(arr, f2, to), T)
      BY RingIs, Zenon
    <2> QED
      BY <1>5, <1>6, <2>1, Zenon DEF HeldFrom
  <1>9. ASSUME NEW k \in 1 .. n - 1 PROVE u[k] = s[k + 1]
    <2>1. PICK x \in Nat : x = f2 + k - 1
      BY <1>4 DEF RingIndexes
    <2>2. from + (k + 1) - 1 = x \/ from + (k + 1) - 1 = x + IdxMod
      BY <1>3, <1>4, <2>1
    <2>3. SlotAt(from, k + 1) = x % SplitSize
      BY <1>1, <2>2 DEF SlotAt
    <2>4. k + 1 \in 1 .. n
      BY <1>2
    <2> QED
      BY <1>7, <1>8, <2>1, <2>3, <2>4 DEF SlotAt
  <1>10. u = Tail(s)
    BY <1>7, <1>8, <1>9, <1>2
  <1>11. s # <<>> /\ Head(s) = arr[from % SplitSize]
    <2>1. 1 \in 1 .. n /\ from + 1 - 1 = from
      BY <1>2, <1>3
    <2> QED
      BY <1>2, <1>7, <2>1 DEF SlotAt
  <1> QED
    BY <1>4, <1>6, <1>10, <1>11, Zenon

-----------------------------------------------------------------------------
(***************************************************************************)
(* Allocation: the lowest free indexes.                                    *)
(***************************************************************************)
LEMMA Least ==
  ASSUME NEW I \in SUBSET Nat, I # {}
  PROVE  \E n \in I : \A m \in I : n <= m
  <1>1. IsWellFoundedOn(OpToRel(<, Nat), Nat)
    BY NatLessThanWellFounded, Zenon
  <1>2. PICK n \in I : \A m \in I : ~(<<m, n>> \in OpToRel(<, Nat))
    BY <1>1, WFMin, Zenon
  <1>3. \A m \in I : ~(m < n)
    BY <1>2, Zenon DEF OpToRel
  <1> QED
    BY <1>3

Lowest(F, n, s) ==
    /\ s \in [1..n -> F]
    /\ \A k \in 1..n - 1 : s[k] < s[k + 1]
    /\ \A i \in F : i <= s[n] => \E k \in 1..n : s[k] = i

\* One index more.
LEMMA LowestNext ==
  ASSUME NEW F \in SUBSET Nat, NEW m \in Nat, m >= 1, NEW s, Lowest(F, m, s), NEW y \in F,
         \A k \in 1..m : s[k] # y
  PROVE  \E t : Lowest(F, m + 1, t)
  <1> USE SMTT(30)
  <1>0. /\ s \in [1..m -> F]
        /\ \A k \in 1..m - 1 : s[k] < s[k + 1]
        /\ \A i \in F : i <= s[m] => \E k \in 1..m : s[k] = i
    BY Zenon DEF Lowest
  <1>a. m \in 1..m
    OBVIOUS
  <1>b. s[m] \in Nat
    BY <1>0, <1>a, Zenon
  <1>1. /\ s \in [1..m -> F] /\ s[m] \in Nat
        /\ \A k \in 1..m - 1 : s[k] < s[k + 1]
        /\ \A i \in F : i <= s[m] => \E k \in 1..m : s[k] = i
    BY <1>0, <1>b, Zenon
  <1>2. y > s[m]
    BY <1>1
  <1>3. PICK x \in F : x > s[m] /\ \A z \in F : z > s[m] => x <= z
    <2> DEFINE I == {z \in F : z > s[m]}
    <2>1. I \in SUBSET Nat /\ I # {}
      BY <1>2, Zenon
    <2>2. PICK x \in I : \A z \in I : x <= z
      BY <2>1, Least, Zenon
    <2> QED
      BY <2>2
  <1> DEFINE t == [k \in 1..m + 1 |-> IF k <= m THEN s[k] ELSE x]
  <1>4. t \in [1..m + 1 -> F] /\ t[m + 1] = x /\ \A k \in 1..m : t[k] = s[k]
    BY <1>1
  <1> HIDE DEF t
  <1>5. ASSUME NEW k \in 1..m PROVE t[k] < t[k + 1]
    <2>1. CASE k = m
      BY <1>3, <1>4, <2>1
    <2>2. CASE k < m
      BY <1>1, <1>4, <2>2
    <2> QED
      BY <2>1, <2>2
  <1>6. ASSUME NEW i \in F, i <= t[m + 1] PROVE \E k \in 1..m + 1 : t[k] = i
    <2>1. CASE i = x
      BY <1>4, <2>1
    <2>2. CASE i # x
      <3>1. i <= s[m]
        BY <1>1, <1>3, <1>4, <1>6, <2>2
      <3>2. PICK k \in 1..m : s[k] = i
        BY <1>1, <3>1
      <3> QED
        BY <1>4, <3>2
    <2> QED
      BY <2>1, <2>2
  <1>7. (m + 1) - 1 = m
    OBVIOUS
  <1>8. Lowest(F, m + 1, t)
    BY <1>4, <1>5, <1>6, <1>7 DEF Lowest
  <1> QED
    BY <1>8, Zenon

LEMMA LowestExist ==
  ASSUME NEW F \in SUBSET Nat, IsFiniteSet(F), NEW n \in Nat, n >= 1, n <= Cardinality(F)
  PROVE  \E s : Lowest(F, n, s)
  <1> USE SMTT(30)
  <1> DEFINE Has(m) == \E s : Lowest(F, m, s)
             B == {m \in Nat : m >= 1 /\ m <= Cardinality(F) /\ ~Has(m)}
  <1> SUFFICES ASSUME B # {} PROVE FALSE
    BY Zenon
  <1>0. Cardinality(F) \in Nat
    BY FS_CardinalityType, Zenon
  <1>1. B \in SUBSET Nat
    BY Zenon
  <1>2. PICK m \in B : \A k \in B : m <= k
    BY <1>1, Least, Zenon
  <1>3. m \in Nat /\ m >= 1 /\ m <= Cardinality(F) /\ ~Has(m)
    BY <1>2, Zenon
  <1>4. CASE m = 1
    <2>1. F # {}
      BY <1>3, FS_EmptySet
    <2>2. PICK x \in F : \A y \in F : x <= y
      BY <2>1, Least
    <2> DEFINE t == [k \in 1..1 |-> x]
    <2>3. t \in [1..1 -> F] /\ t[1] = x
      OBVIOUS
    <2> HIDE DEF t
    <2>4. Lowest(F, 1, t)
      BY <2>2, <2>3 DEF Lowest
    <2> QED
      BY <1>3, <1>4, <2>4, Zenon
  <1>5. CASE m > 1
    <2>1. PICK p \in Nat : p >= 1 /\ m = p + 1
      BY <1>3, <1>5
    <2>2. p <= Cardinality(F) /\ ~(m <= p)
      BY <1>0, <1>3, <2>1
    <2>3. Has(p)
      BY <1>2, <2>1, <2>2, Zenon
    <2>4. PICK s : Lowest(F, p, s)
      BY <2>3
    <2>5. PICK y \in F : \A k \in 1..p : s[k] # y
      <3> SUFFICES ASSUME \A y \in F : \E k \in 1..p : s[k] = y PROVE FALSE
        OBVIOUS
      <3>1. s \in Surjection(1..p, F)
        BY <2>4 DEF Lowest, Surjection
      <3>2. ExistsSurjection(1..p, F)
        BY <3>1, Zenon DEF ExistsSurjection
      <3>3. Cardinality(F) <= p
        BY <2>1, <3>2, FS_SurjCardinalityBound, Zenon
      <3> QED
        BY <1>0, <1>3, <2>1, <3>3
    <2>6. \E t : Lowest(F, p + 1, t)
      BY <2>1, <2>4, <2>5, LowestNext
    <2> QED
      BY <1>3, <2>1, <2>6
  <1> QED
    BY <1>3, <1>4, <1>5

\* No index is allocated twice.
LEMMA LowestApart ==
  ASSUME NEW F \in SUBSET Nat, NEW n \in Nat, NEW s, Lowest(F, n, s), NEW j \in 1..n, NEW k \in 1..n, s[j] = s[k]
  PROVE  j = k
  <1> USE SMTT(30)
  <1>1. /\ \A i \in 1..n : s[i] \in Nat
        /\ \A i \in 1..n - 1 : s[i] < s[i + 1]
    BY Zenon DEF Lowest
  <1> DEFINE B == {b \in 1..n : \E a \in 1..n : a < b /\ ~(s[a] < s[b])}
  <1>2. B = {}
    <2> SUFFICES ASSUME B # {} PROVE FALSE
      OBVIOUS
    <2>1. B \in SUBSET Nat
      OBVIOUS
    <2>2. PICK b \in B : \A c \in B : b <= c
      BY <2>1, Least, Zenon
    <2>3. PICK a \in 1..n : a < b /\ ~(s[a] < s[b])
      BY <2>2
    <2>4. b \in 1..n /\ b - 1 \in 1..n - 1 /\ s[b - 1] < s[b]
      BY <1>1, <2>2, <2>3
    <2>5. a < b - 1 /\ ~(b - 1 \in B)
      BY <2>2, <2>3, <2>4
    <2>6. s[a] < s[b - 1]
      BY <2>4, <2>5
    <2> QED
      BY <1>1, <2>3, <2>4, <2>6
  <1>3. j < k => s[j] < s[k]
    BY <1>2
  <1>4. k < j => s[k] < s[j]
    BY <1>2
  <1> QED
    BY <1>1, <1>3, <1>4

LEMMA AllocateIs ==
  ASSUME SplitAssumption, split_indexes \subseteq SplitCells, NEW n \in Nat, n >= 1,
         n <= Cardinality(SplitCells \ split_indexes)
  PROVE  /\ allocate(n) \in [1..n -> SplitCells \ split_indexes]
         /\ \A j, k \in 1..n : allocate(n)[j] = allocate(n)[k] => j = k
  <1> DEFINE F == SplitCells \ split_indexes
  <1>1. F \in SUBSET Nat /\ IsFiniteSet(F)
    <2>1. IsFiniteSet(SplitCells) /\ SplitSize \in Nat
      BY SplitFacts, Zenon
    <2>2. IsFiniteSet(F)
      BY <2>1, FS_Difference, Zenon
    <2> QED
      BY <2>1, <2>2, SMT DEF SplitCells
  <1>2. \E s : Lowest(F, n, s)
    BY <1>1, LowestExist, Zenon
  <1>3. Lowest(F, n, allocate(n))
    <2>1. PICK s : Lowest(F, n, s)
      BY <1>2
    <2>2. /\ s \in [1..n -> SplitCells \ split_indexes]
          /\ \A k \in 1..n - 1 : s[k] < s[k + 1]
          /\ \A i \in SplitCells \ split_indexes : i <= s[n] => \E k \in 1..n : s[k] = i
      BY <2>1, Zenon DEF Lowest
    <2> QED
      BY <2>2, Zenon DEF Lowest, allocate
  <1>4. PICK t : t = allocate(n)
    BY Zenon
  <1>5. \A j, k \in 1..n : t[j] = t[k] => j = k
    BY <1>1, <1>3, <1>4, LowestApart, ZenonT(60)
  <1> QED
    BY <1>3, <1>4, <1>5, Zenon DEF Lowest

-----------------------------------------------------------------------------
(***************************************************************************)
(* Chains.                                                                 *)
(***************************************************************************)
\* The next fields lead along c.
Leads(c, n) ==
    /\ c \in [1..n -> SplitCells]
    /\ \A k \in 1..n : descr_table[c[k]].next = IF k = n THEN None ELSE c[k + 1]

LEMMA ChainIs ==
  ASSUME SplitAssumption, NEW n \in Nat, n >= 1, n <= SplitSize, NEW c, Leads(c, n)
  PROVE  chain(c[1]) = c
  <1> USE SMTT(30)
  <1>1. SplitSize \in Nat /\ SplitSize > 0
    BY SplitFacts, Zenon
  <1>2. \A k \in 1..n : c[k] \in SplitCells /\ c[k] # None
    BY <1>1 DEF Leads, SplitCells, None
  <1>3. \A k \in 1..n : descr_table[c[k]].next = IF k = n THEN None ELSE c[k + 1]
    BY DEF Leads
  <1> DEFINE N(i) == descr_table[i].next
             g == [j \in 1..SplitSize |-> IF j <= n THEN c[j] ELSE None]
  <1>4. g = [j \in 1..SplitSize |-> IF j = 1 THEN c[1] ELSE IF g[j - 1] = None THEN None ELSE N(g[j - 1])]
    <2> SUFFICES ASSUME NEW j \in 1..SplitSize
                 PROVE  g[j] = IF j = 1 THEN c[1] ELSE IF g[j - 1] = None THEN None ELSE N(g[j - 1])
      BY Zenon
    <2>1. CASE j = 1
      BY <2>1
    <2>2. CASE j > 1 /\ j <= n
      <3>1. g[j - 1] = c[j - 1] /\ g[j] = c[j] /\ j - 1 \in 1..n /\ j - 1 # n /\ (j - 1) + 1 = j /\ j # 1
        BY <1>1, <2>2
      <3>2. g[j - 1] # None
        BY <1>2, <3>1
      <3>3. N(c[j - 1]) = c[j]
        BY <1>3, <3>1
      <3> QED
        BY <3>1, <3>2, <3>3, Zenon
    <2>3. CASE j = n + 1
      <3>1. g[j - 1] = c[n] /\ g[j] = None /\ n \in 1..n /\ j # 1
        BY <1>1, <2>3
      <3>2. g[j - 1] # None
        BY <1>2, <3>1
      <3>3. N(c[n]) = None
        BY <1>3, <3>1
      <3> QED
        BY <3>1, <3>2, <3>3, Zenon
    <2>4. CASE j > n + 1
      <3>1. g[j - 1] = None /\ g[j] = None /\ j # 1
        BY <1>1, <2>4
      <3> QED
        BY <3>1, Zenon
    <2> QED
      BY <1>1, <2>1, <2>2, <2>3, <2>4
  <1>5. PICK f : f = follow(c[1])
    BY Zenon
  <1>6. f = [j \in 1..SplitSize |-> IF j = 1 THEN c[1] ELSE IF f[j - 1] = None THEN None ELSE N(f[j - 1])]
    BY <1>4, <1>5, ZenonT(60) DEF follow
  <1>7. \A j \in 1..SplitSize : f[j] = g[j]
    <2> DEFINE B == {j \in 1..SplitSize : f[j] # g[j]}
    <2> SUFFICES ASSUME B # {} PROVE FALSE
      BY Zenon
    <2>1. B \in SUBSET Nat
      BY <1>1
    <2>2. PICK j \in B : \A i \in B : j <= i
      BY <2>1, Least, Zenon
    <2>3. j \in 1..SplitSize /\ f[j] # g[j] /\ \A i \in 1..SplitSize : i < j => f[i] = g[i]
      BY <1>1, <2>2
    <2> HIDE DEF g, B
    <2>4. /\ g[j] = IF j = 1 THEN c[1] ELSE IF g[j - 1] = None THEN None ELSE N(g[j - 1])
          /\ f[j] = IF j = 1 THEN c[1] ELSE IF f[j - 1] = None THEN None ELSE N(f[j - 1])
      BY <1>4, <1>6, <2>3, Zenon
    <2>5. j = 1 \/ f[j - 1] = g[j - 1]
      BY <1>1, <2>3
    <2> QED
      BY <2>3, <2>4, <2>5, Zenon
  <1>8. {k \in 1..SplitSize : f[k] # None} = 1..n
    BY <1>1, <1>2, <1>7
  <1>9. Cardinality(1..n) = n
    BY FS_Interval
  <1>10. [k \in 1..n |-> f[k]] = c
    <2>1. \A k \in 1..n : f[k] = c[k]
      BY <1>1, <1>7
    <2>2. c = [k \in 1..n |-> c[k]]
      BY Zenon DEF Leads
    <2> QED
      BY <2>1, <2>2, Zenon
  <1> QED
    BY <1>5, <1>8, <1>9, <1>10, Zenon DEF chain

-----------------------------------------------------------------------------
(***************************************************************************)
(* The inductive invariant.  A head that has a token is the head of a      *)
(* chain of allocated descriptors that carry the number of its buffer, and *)
(* is in one place at most: pushed and not yet published, in the available *)
(* ring, at the device, or in the used ring.                               *)
(***************************************************************************)
IsChain(d, idx, t, h, c) ==
    /\ c \in [1..t.n -> idx] /\ c[1] = h
    /\ \A k \in 1..t.n :
         d[c[k]] = [buf |-> t.buf, elem |-> k, next |-> IF k = t.n THEN None ELSE c[k + 1]]

Filed(d, idx, t, max, h) ==
    /\ t \in SplitTokens /\ t.buf <= max
    /\ \E c \in [1..t.n -> idx] : IsChain(d, idx, t, h, c)

Chains(d, idx, tok, max) ==
    /\ \A h \in SplitCells : tok[h] # NoToken => Filed(d, idx, tok[h], max, h)
    /\ \A g, h \in SplitCells : tok[g] # NoToken /\ tok[h] # NoToken /\ tok[g].buf = tok[h].buf => g = h

Apart(a, u, I, P, L) ==
    /\ a \in Seq(L) /\ u \in Seq(L) /\ I \subseteq L /\ P \subseteq L
    /\ \A j, k \in 1..Len(a) : a[j] = a[k] => j = k
    /\ \A j, k \in 1..Len(u) : u[j] = u[k] => j = k
    /\ \A j \in 1..Len(a) : a[j] \notin I /\ a[j] \notin P
    /\ \A k \in 1..Len(u) : u[k] \notin I /\ u[k] \notin P
    /\ \A j \in 1..Len(a), k \in 1..Len(u) : a[j] # u[k]
    /\ \A h \in I : h \notin P

AvailSeq == RingSeq(avail_ring.ring, dev_idx, avail_ring.idx)
UsedSeq == RingSeq(used_ring.ring, read_idx, used_ring.idx)
Live(tok) == {h \in SplitCells : tok[h] # NoToken}
Pushed == IF push_pc = "idle" THEN {} ELSE {push_head}
Ring == [idx : RingIndexes, ring : [SplitCells -> SplitCells]]

Typed ==
    /\ split_indexes \subseteq SplitCells
    /\ token_ring \in [SplitCells -> SplitTokens \cup {NoToken}]
    /\ avail_ring \in Ring /\ used_ring \in Ring
    /\ read_idx \in RingIndexes /\ dev_idx \in RingIndexes
    /\ push_pc \in {"idle", "entry", "publish"}
    /\ split_dispatched \in 0..SplitMaxBuffers

SplitInv ==
    /\ Typed
    /\ Chains(descr_table, split_indexes, token_ring, split_dispatched)
    /\ Apart(AvailSeq, UsedSeq, split_inflight, Pushed, Live(token_ring))
    /\ split_done = [k \in 1..Len(UsedSeq) |-> token_ring[UsedSeq[k]]]
    /\ push_pc = "publish" => avail_ring.ring[avail_ring.idx % SplitSize] = push_head

-----------------------------------------------------------------------------
(***************************************************************************)
(* A head goes from place to place.                                        *)
(***************************************************************************)
LEMMA Room ==
  ASSUME SplitAssumption, NEW x, NEW L \in SUBSET SplitCells, x \in Seq(L), NEW h \in L,
         \A j, k \in 1..Len(x) : x[j] = x[k] => j = k, \A k \in 1..Len(x) : x[k] # h
  PROVE  Len(x) < SplitSize
  <1> USE SMTT(30)
  <1>1. SplitSize \in Nat /\ SplitSize > 0 /\ IsFiniteSet(SplitCells) /\ Cardinality(SplitCells) = SplitSize
    BY SplitFacts, Zenon
  <1>2. PICK n \in Nat : n = Len(x)
    OBVIOUS
  <1>3. h \in SplitCells
    BY Zenon
  <1>4. /\ IsFiniteSet(SplitCells \ {h})
        /\ Cardinality(SplitCells \ {h}) = SplitSize - 1
    <2>1. /\ IsFiniteSet(SplitCells \ {h})
          /\ Cardinality(SplitCells \ {h})
                = (IF h \in SplitCells THEN Cardinality(SplitCells) - 1 ELSE Cardinality(SplitCells))
      BY <1>1, FS_RemoveElement, Zenon
    <2> QED
      BY <1>1, <1>3, <2>1, Zenon
  <1>5. \A k \in 1..n : x[k] \in SplitCells \ {h}
    BY <1>2
  <1>6. x \in [1..n -> SplitCells \ {h}]
    <2>1. x = [k \in 1..n |-> x[k]]
      BY <1>2
    <2> QED
      BY <1>5, <2>1, Zenon
  <1>7. x \in Injection(1..n, SplitCells \ {h})
    BY <1>2, <1>6, Zenon DEF Injection, IsInjective
  <1>9. Cardinality(1..n) <= Cardinality(SplitCells \ {h})
    BY <1>4, <1>7, FS_Injection, Zenon
  <1>10. Cardinality(1..n) = n
    BY FS_Interval
  <1> QED
    BY <1>1, <1>2, <1>4, <1>9, <1>10

LEMMA ApartRoom ==
  ASSUME SplitAssumption, NEW a, NEW u, NEW I, NEW P, NEW L \in SUBSET SplitCells, Apart(a, u, I, P, L)
  PROVE  /\ P # {} => Len(a) < SplitSize
         /\ I # {} => Len(u) < SplitSize
  <1>1. ASSUME NEW h \in P PROVE Len(a) < SplitSize
    <2>0. /\ a \in Seq(L) /\ P \subseteq L
          /\ \A j, k \in 1..Len(a) : a[j] = a[k] => j = k
          /\ \A k \in 1..Len(a) : a[k] \notin P
      BY Zenon DEF Apart
    <2>1. /\ a \in Seq(L) /\ h \in L
          /\ \A j, k \in 1..Len(a) : a[j] = a[k] => j = k
          /\ \A k \in 1..Len(a) : a[k] # h
      BY <2>0, Zenon
    <2> QED
      BY <2>1, Room, Zenon
  <1>2. ASSUME NEW h \in I PROVE Len(u) < SplitSize
    <2>0. /\ u \in Seq(L) /\ I \subseteq L
          /\ \A j, k \in 1..Len(u) : u[j] = u[k] => j = k
          /\ \A k \in 1..Len(u) : u[k] \notin I
      BY Zenon DEF Apart
    <2>1. /\ u \in Seq(L) /\ h \in L
          /\ \A j, k \in 1..Len(u) : u[j] = u[k] => j = k
          /\ \A k \in 1..Len(u) : u[k] # h
      BY <2>0, Zenon
    <2> QED
      BY <2>1, Room, Zenon
  <1> QED
    BY <1>1, <1>2, Zenon

LEMMA ApartPush ==
  ASSUME NEW a, NEW u, NEW I, NEW L, NEW h, h \notin L, Apart(a, u, I, {}, L)
  PROVE  Apart(a, u, I, {h}, L \cup {h})
  <1>1. a \in Seq(L) /\ u \in Seq(L)
    BY Zenon DEF Apart
  <1>2. a \in Seq(L \cup {h}) /\ u \in Seq(L \cup {h}) /\ \A k \in 1..Len(a) : a[k] \in L
    BY <1>1, SMTT(30)
  <1>3. \A k \in 1..Len(u) : u[k] \in L
    BY <1>1, SMTT(30)
  <1> QED
    BY <1>2, <1>3, ZenonT(60) DEF Apart

LEMMA ApartPublish ==
  ASSUME NEW a, NEW u, NEW I, NEW L, NEW h, Apart(a, u, I, {h}, L)
  PROVE  Apart(Append(a, h), u, I, {}, L)
  <1> USE SMTT(30)
  <1>1. /\ a \in Seq(L) /\ u \in Seq(L) /\ I \subseteq L /\ h \in L
        /\ \A j, k \in 1..Len(a) : a[j] = a[k] => j = k
        /\ \A j, k \in 1..Len(u) : u[j] = u[k] => j = k
        /\ \A j \in 1..Len(a) : a[j] \notin I /\ a[j] # h
        /\ \A k \in 1..Len(u) : u[k] \notin I /\ u[k] # h
        /\ \A j \in 1..Len(a), k \in 1..Len(u) : a[j] # u[k]
        /\ h \notin I
    BY Zenon DEF Apart
  <1>2. PICK b : b = Append(a, h)
    BY Zenon
  <1>3. PICK n \in Nat : n = Len(a)
    BY <1>1
  <1>4. b \in Seq(L) /\ Len(b) = n + 1 /\ b[n + 1] = h /\ \A k \in 1..n : b[k] = a[k]
    BY <1>1, <1>2, <1>3
  <1>5. \A k \in 1..n + 1 : k \in 1..n \/ k = n + 1
    OBVIOUS
  <1>6. \A j, k \in 1..Len(b) : b[j] = b[k] => j = k
    <2>0. /\ \A j, k \in 1..n : a[j] = a[k] => j = k
          /\ \A k \in 1..n : b[k] = a[k]
      BY <1>1, <1>3, <1>4, Zenon
    <2>1. \A j, k \in 1..n : b[j] = b[k] => j = k
      BY <2>0, Zenon
    <2>2. \A j \in 1..n : b[j] # b[n + 1]
      BY <1>1, <1>3, <1>4, Zenon
    <2> QED
      BY <1>4, <1>5, <2>1, <2>2, Zenon
  <1>7. \A j \in 1..Len(b) : b[j] \notin I
    BY <1>1, <1>3, <1>4, <1>5, Zenon
  <1>8. \A j \in 1..Len(b), k \in 1..Len(u) : b[j] # u[k]
    <2>0. /\ \A j \in 1..n, k \in 1..Len(u) : a[j] # u[k]
          /\ \A k \in 1..n : b[k] = a[k]
      BY <1>1, <1>3, <1>4, Zenon
    <2>1. \A j \in 1..n, k \in 1..Len(u) : b[j] # u[k]
      BY <2>0, Zenon
    <2>2. \A k \in 1..Len(u) : b[n + 1] # u[k]
      BY <1>1, <1>4, Zenon
    <2> QED
      BY <1>4, <1>5, <2>1, <2>2, Zenon
  <1> QED
    BY <1>1, <1>2, <1>4, <1>6, <1>7, <1>8, ZenonT(60) DEF Apart

LEMMA TailIs ==
  ASSUME NEW T, NEW s \in Seq(T), s # <<>>
  PROVE  /\ Len(s) \in Nat /\ 1 \in 1..Len(s) /\ Head(s) = s[1] /\ Tail(s) \in Seq(T)
         /\ Len(Tail(s)) = Len(s) - 1
         /\ \A k \in 1..Len(Tail(s)) : Tail(s)[k] = s[k + 1] /\ k + 1 \in 1..Len(s) /\ k + 1 # 1
  BY SMTT(30)

LEMMA ApartFetch ==
  ASSUME NEW a, NEW u, NEW I, NEW P, NEW L, a # <<>>, Apart(a, u, I, P, L)
  PROVE  Apart(Tail(a), u, I \cup {Head(a)}, P, L)
  <1>1. /\ a \in Seq(L) /\ u \in Seq(L) /\ I \subseteq L /\ P \subseteq L
        /\ \A j, k \in 1..Len(a) : a[j] = a[k] => j = k
        /\ \A j, k \in 1..Len(u) : u[j] = u[k] => j = k
        /\ \A j \in 1..Len(a) : a[j] \notin I /\ a[j] \notin P
        /\ \A k \in 1..Len(u) : u[k] \notin I /\ u[k] \notin P
        /\ \A j \in 1..Len(a), k \in 1..Len(u) : a[j] # u[k]
        /\ \A h \in I : h \notin P
    BY Zenon DEF Apart
  <1>2. PICK b, h : b = Tail(a) /\ h = Head(a)
    BY Zenon
  <1>3. /\ 1 \in 1..Len(a) /\ h = a[1] /\ b \in Seq(L) /\ h \in L
        /\ \A k \in 1..Len(b) : b[k] = a[k + 1] /\ k + 1 \in 1..Len(a) /\ k + 1 # 1
    BY <1>1, <1>2, TailIs, SMTT(30)
  <1>4. \A j, k \in 1..Len(b) : b[j] = b[k] => j = k
    <2>1. Len(b) \in Nat
      BY <1>3, SMT
    <2>2. ASSUME NEW j \in 1..Len(b), NEW k \in 1..Len(b), b[j] = b[k] PROVE j + 1 = k + 1
      <3>1. b[j] = a[j + 1] /\ j + 1 \in 1..Len(a) /\ b[k] = a[k + 1] /\ k + 1 \in 1..Len(a)
        BY <1>3, Zenon
      <3>2. a[j + 1] = a[k + 1]
        BY <2>2, <3>1, Zenon
      <3>3. \A x, y \in 1..Len(a) : a[x] = a[y] => x = y
        BY <1>1, Zenon
      <3> QED
        BY <3>1, <3>2, <3>3, Zenon
    <2> QED
      BY <2>1, <2>2, SMTT(30)
  <1>5. \A j \in 1..Len(b) : b[j] \notin I /\ b[j] \notin P /\ b[j] # h
    BY <1>1, <1>3, Zenon
  <1>6. \A j \in 1..Len(b), k \in 1..Len(u) : b[j] # u[k]
    <2>1. \A j \in 1..Len(a), k \in 1..Len(u) : a[j] # u[k]
      BY <1>1, Zenon
    <2>2. \A k \in 1..Len(b) : b[k] = a[k + 1] /\ k + 1 \in 1..Len(a)
      BY <1>3, Zenon
    <2> QED
      BY <2>1, <2>2, Zenon
  <1>7. h \notin P /\ \A k \in 1..Len(u) : u[k] # h
    BY <1>1, <1>3, Zenon
  <1>8. Apart(b, u, I \cup {h}, P, L)
    BY <1>1, <1>3, <1>4, <1>5, <1>6, <1>7, Zenon DEF Apart
  <1> QED
    BY <1>2, <1>8, Zenon

LEMMA ApartUse ==
  ASSUME NEW a, NEW u, NEW I, NEW P, NEW L, NEW h \in I, Apart(a, u, I, P, L)
  PROVE  Apart(a, Append(u, h), I \ {h}, P, L)
  <1> USE SMTT(30)
  <1>1. /\ a \in Seq(L) /\ u \in Seq(L) /\ I \subseteq L /\ h \in L /\ P \subseteq L
        /\ \A j, k \in 1..Len(a) : a[j] = a[k] => j = k
        /\ \A j, k \in 1..Len(u) : u[j] = u[k] => j = k
        /\ \A j \in 1..Len(a) : a[j] \notin I /\ a[j] \notin P
        /\ \A k \in 1..Len(u) : u[k] \notin I /\ u[k] \notin P
        /\ \A j \in 1..Len(a), k \in 1..Len(u) : a[j] # u[k]
        /\ \A i \in I : i \notin P
    BY Zenon DEF Apart
  <1>2. PICK b : b = Append(u, h)
    BY Zenon
  <1>3. PICK n \in Nat : n = Len(u)
    BY <1>1
  <1>4. b \in Seq(L) /\ Len(b) = n + 1 /\ b[n + 1] = h /\ \A k \in 1..n : b[k] = u[k]
    BY <1>1, <1>2, <1>3
  <1>5. \A k \in 1..n + 1 : k \in 1..n \/ k = n + 1
    OBVIOUS
  <1>6. \A j, k \in 1..Len(b) : b[j] = b[k] => j = k
    <2>0. /\ \A j, k \in 1..n : u[j] = u[k] => j = k
          /\ \A k \in 1..n : b[k] = u[k]
      BY <1>1, <1>3, <1>4, Zenon
    <2>1. \A j, k \in 1..n : b[j] = b[k] => j = k
      BY <2>0, Zenon
    <2>2. \A j \in 1..n : b[j] # b[n + 1]
      BY <1>1, <1>3, <1>4, Zenon
    <2> QED
      BY <1>4, <1>5, <2>1, <2>2, Zenon
  <1>7. \A j \in 1..Len(b) : b[j] \notin I \ {h} /\ b[j] \notin P
    BY <1>1, <1>3, <1>4, <1>5, Zenon
  <1>8. \A j \in 1..Len(a), k \in 1..Len(b) : a[j] # b[k]
    <2>1. \A j \in 1..Len(a), k \in 1..n : a[j] # b[k]
      BY <1>1, <1>3, <1>4, ZenonT(60)
    <2>2. \A j \in 1..Len(a) : a[j] # b[n + 1]
      BY <1>1, <1>4, Zenon
    <2> QED
      BY <1>4, <1>5, <2>1, <2>2, Zenon
  <1> QED
    BY <1>1, <1>2, <1>4, <1>6, <1>7, <1>8, ZenonT(60) DEF Apart

LEMMA ApartRecv ==
  ASSUME NEW a, NEW u, NEW I, NEW P, NEW L, u # <<>>, Apart(a, u, I, P, L)
  PROVE  Apart(a, Tail(u), I, P, L \ {Head(u)})
  <1>1. /\ a \in Seq(L) /\ u \in Seq(L) /\ I \subseteq L /\ P \subseteq L
        /\ \A j, k \in 1..Len(a) : a[j] = a[k] => j = k
        /\ \A j, k \in 1..Len(u) : u[j] = u[k] => j = k
        /\ \A j \in 1..Len(a) : a[j] \notin I /\ a[j] \notin P
        /\ \A k \in 1..Len(u) : u[k] \notin I /\ u[k] \notin P
        /\ \A j \in 1..Len(a), k \in 1..Len(u) : a[j] # u[k]
        /\ \A h \in I : h \notin P
    BY Zenon DEF Apart
  <1>2. PICK b, h : b = Tail(u) /\ h = Head(u)
    BY Zenon
  <1>3. /\ 1 \in 1..Len(u) /\ h = u[1] /\ b \in Seq(L) /\ h \in L
        /\ \A k \in 1..Len(b) : b[k] = u[k + 1] /\ k + 1 \in 1..Len(u) /\ k + 1 # 1
    BY <1>1, <1>2, TailIs, SMTT(30)
  <1>4. \A j, k \in 1..Len(b) : b[j] = b[k] => j = k
    <2>1. Len(b) \in Nat
      BY <1>3, SMT
    <2>2. ASSUME NEW j \in 1..Len(b), NEW k \in 1..Len(b), b[j] = b[k] PROVE j + 1 = k + 1
      <3>1. b[j] = u[j + 1] /\ j + 1 \in 1..Len(u) /\ b[k] = u[k + 1] /\ k + 1 \in 1..Len(u)
        BY <1>3, Zenon
      <3>2. u[j + 1] = u[k + 1]
        BY <2>2, <3>1, Zenon
      <3>3. \A x, y \in 1..Len(u) : u[x] = u[y] => x = y
        BY <1>1, Zenon
      <3> QED
        BY <3>1, <3>2, <3>3, Zenon
    <2> QED
      BY <2>1, <2>2, SMTT(30)
  <1>5. \A j \in 1..Len(b) : b[j] \notin I /\ b[j] \notin P /\ b[j] # h
    BY <1>1, <1>3, Zenon
  <1>6. \A j \in 1..Len(a), k \in 1..Len(b) : a[j] # b[k]
    <2>1. \A j \in 1..Len(a), k \in 1..Len(u) : a[j] # u[k]
      BY <1>1, Zenon
    <2>2. \A k \in 1..Len(b) : b[k] = u[k + 1] /\ k + 1 \in 1..Len(u)
      BY <1>3, Zenon
    <2> QED
      BY <2>1, <2>2, Zenon
  <1>7. /\ h \notin I /\ h \notin P /\ \A k \in 1..Len(a) : a[k] # h
        /\ I \subseteq L \ {h} /\ P \subseteq L \ {h}
    <2>1. h \notin I /\ h \notin P
      BY <1>1, <1>3, Zenon
    <2>2. \A k \in 1..Len(a) : a[k] # h
      BY <1>1, <1>3, Zenon
    <2>3. I \subseteq L /\ P \subseteq L
      BY <1>1, Zenon
    <2> QED
      BY <2>1, <2>2, <2>3, Zenon
  <1>8. a \in Seq(L \ {h}) /\ b \in Seq(L \ {h})
    <2>1. \A k \in 1..Len(a) : a[k] \in L \ {h}
      BY <1>1, <1>7, SMTT(30)
    <2>2. \A k \in 1..Len(b) : b[k] \in L \ {h}
      BY <1>3, <1>5, SMTT(30)
    <2>3. a \in Seq(L \ {h})
      BY <1>1, <2>1, SMTT(30)
    <2>4. b \in Seq(L \ {h})
      BY <1>3, <2>2, SMTT(30)
    <2> QED
      BY <2>3, <2>4
  <1>9. Apart(a, b, I, P, L \ {h})
    BY <1>1, <1>4, <1>5, <1>6, <1>7, <1>8, Zenon DEF Apart
  <1> QED
    BY <1>2, <1>9, Zenon

-----------------------------------------------------------------------------
(***************************************************************************)
(* Chains are written, kept and returned.                                  *)
(***************************************************************************)
LEMMA TokenIs ==
  ASSUME SplitAssumption, NEW t \in SplitTokens
  PROVE  t.n \in Nat /\ t.n >= 1 /\ t.n \in SplitLengths /\ t.buf \in Nat /\ t.buf >= 1 /\ t # NoToken
  <1>1. t.n \in SplitLengths /\ t.buf \in 1..SplitMaxBuffers /\ SplitMaxBuffers \in Nat
    BY SMT DEF SplitTokens, SplitAssumption
  <1>2. t.n \in Nat /\ t.n >= 1 /\ t.buf \in Nat /\ t.buf >= 1
    <2>1. t.n \in Nat \ {0}
      BY <1>1, Zenon DEF SplitAssumption
    <2>2. PICK m \in Nat : m = t.n /\ m # 0
      BY <2>1, Zenon
    <2>3. PICK b \in 1..SplitMaxBuffers : b = t.buf
      BY <1>1, Zenon
    <2>4. m >= 1 /\ b \in Nat /\ b >= 1
      BY <1>1, <2>2, SMT
    <2> QED
      BY <2>2, <2>3, <2>4, Zenon
  <1> QED
    BY <1>1, <1>2, SMT DEF NoToken

Cells(c, n) == {c[k] : k \in 1..n}

LEMMA CellsSize ==
  ASSUME NEW n \in Nat, n >= 1, NEW T, NEW c \in [1..n -> T], \A j, k \in 1..n : c[j] = c[k] => j = k
  PROVE  Cells(c, n) \subseteq T /\ IsFiniteSet(Cells(c, n)) /\ Cardinality(Cells(c, n)) = n
  <1>1. Cells(c, n) \subseteq T /\ c \in [1..n -> Cells(c, n)]
    BY Zenon DEF Cells
  <1>2. c \in Bijection(1..n, Cells(c, n))
    <2>1. c \in Injection(1..n, Cells(c, n))
      BY <1>1, Zenon DEF Injection, IsInjective
    <2>2. c \in Surjection(1..n, Cells(c, n))
      BY <1>1, Zenon DEF Surjection, Cells
    <2> QED
      BY <2>1, <2>2, Zenon DEF Bijection
  <1>3. IsFiniteSet(1..n) /\ Cardinality(1..n) = n
    <2>1. IsFiniteSet(1..n) /\ Cardinality(1..n) = (IF 1 > n THEN 0 ELSE n - 1 + 1)
      <3>1. 1 \in Int /\ n \in Int
        BY SMT
      <3> QED
        BY <3>1, FS_Interval, Zenon
    <2>2. ~(1 > n) /\ n - 1 + 1 = n
      BY SMT
    <2> QED
      BY <2>1, <2>2, Zenon
  <1>4. ExistsBijection(1..n, Cells(c, n))
    BY <1>2, Zenon DEF ExistsBijection
  <1>5. IsFiniteSet(Cells(c, n)) /\ Cardinality(Cells(c, n)) = n
    BY <1>3, <1>4, FS_Bijection, Zenon
  <1> QED
    BY <1>1, <1>5, Zenon

\* Its descriptors carry the number of its buffer, and their own.
Carried(d, idx, t, c) ==
    /\ \A k \in 1..t.n : c[k] \in idx
    /\ \A k \in 1..t.n : d[c[k]].buf = t.buf
    /\ \A k \in 1..t.n : d[c[k]].elem = k
    /\ \A k \in 1..t.n : d[c[k]].next = IF k = t.n THEN None ELSE c[k + 1]

LEMMA Carries ==
  ASSUME NEW d, NEW idx, NEW t, NEW h, NEW c, IsChain(d, idx, t, h, c)
  PROVE  Carried(d, idx, t, c)
  <1> SUFFICES ASSUME NEW k \in 1..t.n
               PROVE  /\ c[k] \in idx /\ d[c[k]].buf = t.buf /\ d[c[k]].elem = k
                      /\ d[c[k]].next = IF k = t.n THEN None ELSE c[k + 1]
    BY Zenon DEF Carried
  <1>1. PICK x : x = IF k = t.n THEN None ELSE c[k + 1]
    BY Zenon
  <1>2. PICK y : y = t.buf
    BY Zenon
  <1>3. c[k] \in idx /\ d[c[k]] = [buf |-> y, elem |-> k, next |-> x]
    BY <1>1, <1>2, Zenon DEF IsChain
  <1>4. PICK z : z = [buf |-> y, elem |-> k, next |-> x]
    BY Zenon
  <1>5. z.buf = y /\ z.elem = k /\ z.next = x
    BY <1>4, SMT
  <1> QED
    BY <1>1, <1>2, <1>3, <1>4, <1>5, Zenon

Sized(c, n, h, idx) ==
    /\ \A j, k \in 1..n : c[j] = c[k] => j = k
    /\ n <= SplitSize /\ h \in idx
    /\ Cells(c, n) \subseteq idx /\ IsFiniteSet(idx)
    /\ IsFiniteSet(Cells(c, n)) /\ Cardinality(Cells(c, n)) = n

\* A chain has as many descriptors as its token says.
LEMMA ChainSize ==
  ASSUME SplitAssumption, NEW d, NEW idx \in SUBSET SplitCells, NEW t \in SplitTokens, NEW h, NEW c,
         IsChain(d, idx, t, h, c)
  PROVE  Sized(c, t.n, h, idx)
  <1>1. /\ IsFiniteSet(SplitCells) /\ Cardinality(SplitCells) = SplitSize /\ SplitSize \in Nat
        /\ t.n \in Nat /\ t.n >= 1
    BY SplitFacts, TokenIs, Zenon
  <1>2. PICK n \in Nat : n = t.n /\ n >= 1
    BY <1>1
  <1>3. c \in [1..n -> idx] /\ c[1] = h /\ \A k \in 1..n : d[c[k]].elem = k
    <2>1. c \in [1..n -> idx] /\ c[1] = h
      BY <1>2, Zenon DEF IsChain
    <2>2. \A k \in 1..n : d[c[k]].elem = k
      <3>1. Carried(d, idx, t, c)
        BY Carries, Zenon
      <3> QED
        BY <1>2, <3>1, Zenon DEF Carried
    <2> QED
      BY <2>1, <2>2
  <1>4. \A j, k \in 1..n : c[j] = c[k] => j = k
    BY <1>3, Zenon
  <1>5. h \in idx
    <2>1. 1 \in 1..n
      BY <1>2, SMT
    <2> QED
      BY <1>3, <2>1, Zenon
  <1>6. Cells(c, n) \subseteq idx /\ IsFiniteSet(Cells(c, n)) /\ Cardinality(Cells(c, n)) = n
    BY <1>2, <1>3, <1>4, CellsSize, Zenon
  <1>7. IsFiniteSet(idx) /\ Cardinality(idx) <= SplitSize
    BY <1>1, FS_Subset, Zenon
  <1>11. Cardinality(Cells(c, n)) <= Cardinality(idx) /\ Cardinality(idx) \in Nat
    BY <1>6, <1>7, FS_Subset, FS_CardinalityType, Zenon
  <1>12. n <= SplitSize
    BY <1>1, <1>2, <1>6, <1>7, <1>11, SMT
  <1> QED
    BY <1>2, <1>4, <1>5, <1>6, <1>7, <1>12, Zenon DEF Sized

LEMMA ChainKept ==
  ASSUME NEW d, NEW d2, NEW idx, NEW idx2, NEW t, NEW max, NEW max2, NEW h, NEW c,
         IsChain(d, idx, t, h, c), t \in SplitTokens, t.buf <= max2,
         \A k \in 1..t.n : c[k] \in idx2 /\ d2[c[k]] = d[c[k]]
  PROVE  Filed(d2, idx2, t, max2, h)
  <1>1. c \in [1..t.n -> idx2]
    BY Zenon DEF IsChain
  <1>2. IsChain(d2, idx2, t, h, c)
    BY <1>1, Zenon DEF IsChain
  <1> QED
    BY <1>1, <1>2, Zenon DEF Filed

\* What push writes: the chain of a new buffer, in cells that were free.
Wrote(d, d2, idx, n, s, b) ==
    /\ \A i \in idx : d2[i] = d[i]
    /\ \A k \in 1..n : d2[s[k]] = [buf |-> b, elem |-> n + 1 - k, next |-> IF k = 1 THEN None ELSE s[k - 1]]
Pushes(d2, idx, tok, max, n, s) ==
    /\ s[n] \in SplitCells /\ tok[s[n]] = NoToken
    /\ [buf |-> max + 1, n |-> n] \in SplitTokens
    /\ Chains(d2, idx \cup Cells(s, n), [tok EXCEPT ![s[n]] = [buf |-> max + 1, n |-> n]], max + 1)

\* The tokens of live heads have different numbers; a new one has a new number.
LEMMA ChainsPush ==
  ASSUME SplitAssumption, NEW d, NEW d2, NEW idx \in SUBSET SplitCells, NEW tok \in [SplitCells -> SplitTokens \cup {NoToken}],
         NEW max \in Nat, max < SplitMaxBuffers, Chains(d, idx, tok, max),
         NEW n \in SplitLengths, NEW s \in [1..n -> SplitCells \ idx], \A j, k \in 1..n : s[j] = s[k] => j = k,
         NEW b, b = max + 1, Wrote(d, d2, idx, n, s, b)
  PROVE  Pushes(d2, idx, tok, max, n, s)
  <1>0. /\ \A i \in idx : d2[i] = d[i]
        /\ \A k \in 1..n : d2[s[k]] = [buf |-> max + 1, elem |-> n + 1 - k, next |-> IF k = 1 THEN None ELSE s[k - 1]]
    BY Zenon DEF Wrote
  <1>1. n \in Nat /\ n >= 1 /\ SplitMaxBuffers \in Nat
    BY SMT DEF SplitAssumption
  <1>2. n \in 1..n /\ s[n] \in SplitCells /\ s[n] \notin idx
    BY <1>1, SMT
  <1>3. \A h \in SplitCells : tok[h] # NoToken => Filed(d, idx, tok[h], max, h)
    BY Zenon DEF Chains
  <1>4. tok[s[n]] = NoToken
    <2> SUFFICES ASSUME tok[s[n]] # NoToken PROVE FALSE
      OBVIOUS
    <2>1. PICK h \in SplitCells : h = s[n]
      BY <1>2
    <2>2. Filed(d, idx, tok[h], max, h)
      BY <1>3, <2>1, Zenon
    <2>3. PICK c : IsChain(d, idx, tok[h], h, c) /\ tok[h] \in SplitTokens
      BY <2>2, Zenon DEF Filed
    <2>4. h \in idx
      <3>1. Sized(c, tok[h].n, h, idx)
        BY <2>3, ChainSize, Zenon
      <3> QED
        BY <3>1, Zenon DEF Sized
    <2> QED
      BY <1>2, <2>1, <2>4, Zenon
  <1>5. PICK t : t = [buf |-> max + 1, n |-> n]
    BY Zenon
  <1>6. t \in SplitTokens /\ t.buf = max + 1 /\ t.n = n /\ max + 1 \in Nat
    BY <1>1, <1>5, SMTT(30) DEF SplitTokens
  <1>7. PICK tok2 : tok2 = [tok EXCEPT ![s[n]] = t]
    BY Zenon
  <1>8. tok2[s[n]] = t /\ \A h \in SplitCells : h # s[n] => tok2[h] = tok[h]
    BY <1>2, <1>7, Zenon
  <1>9. PICK idx2 : idx2 = idx \cup Cells(s, n)
    BY Zenon
  <1>10. ASSUME NEW h \in SplitCells, h # s[n], tok[h] # NoToken
         PROVE  Filed(d2, idx2, tok[h], max + 1, h) /\ tok[h].buf <= max /\ tok[h].buf \in Nat
    <2>1. Filed(d, idx, tok[h], max, h)
      BY <1>3, <1>10, Zenon
    <2>2. PICK c : IsChain(d, idx, tok[h], h, c) /\ tok[h] \in SplitTokens /\ tok[h].buf <= max
      BY <2>1, Zenon DEF Filed
    <2>3. tok[h].buf \in Nat
      BY <2>2, TokenIs, Zenon
    <2>4. tok[h].buf <= max + 1
      BY <2>2, <2>3, SMT
    <2>5. \A k \in 1..tok[h].n : c[k] \in idx
      BY <2>2, Zenon DEF IsChain
    <2>6. \A k \in 1..tok[h].n : c[k] \in idx2 /\ d2[c[k]] = d[c[k]]
      BY <1>0, <1>9, <2>5, Zenon
    <2> QED
      BY <2>2, <2>3, <2>4, <2>6, ChainKept, Zenon
  <1>11. Filed(d2, idx2, t, max + 1, s[n])
    <2> DEFINE c == [k \in 1..n |-> s[n + 1 - k]]
    <2>1. \A k \in 1..n : n + 1 - k \in 1..n
      BY <1>1, SMT
    <2>2. c \in [1..n -> idx2]
      BY <1>9, <2>1, Zenon DEF Cells
    <2>3. c[1] = s[n]
      <3>1. n + 1 - 1 = n /\ 1 \in 1..n
        BY <1>1, SMT
      <3> QED
        BY <3>1, Zenon
    <2>4. ASSUME NEW k \in 1..n
          PROVE  d2[c[k]] = [buf |-> max + 1, elem |-> k, next |-> IF k = n THEN None ELSE c[k + 1]]
      <3>1. PICK j \in 1..n : j = n + 1 - k
        BY <2>1
      <3>2. n + 1 - j = k /\ (j = 1 <=> k = n)
        BY <1>1, <3>1, SMT
      <3>3. k # n => c[k + 1] = s[j - 1]
        BY <1>1, <3>1, SMT
      <3>4. d2[s[j]] = [buf |-> max + 1, elem |-> n + 1 - j, next |-> IF j = 1 THEN None ELSE s[j - 1]]
        BY <1>0, Zenon
      <3>5. c[k] = s[j]
        BY <3>1, Zenon
      <3> HIDE DEF c
      <3>6. CASE k = n
        BY <3>2, <3>4, <3>5, <3>6, Zenon
      <3>7. CASE k # n
        BY <3>2, <3>3, <3>4, <3>5, <3>7, Zenon
      <3> QED
        BY <3>6, <3>7
    <2> HIDE DEF c
    <2>5. IsChain(d2, idx2, t, s[n], c)
      <3>1. 1..t.n = 1..n
        BY <1>6, Zenon
      <3>2. ASSUME NEW k \in 1..t.n
            PROVE  d2[c[k]] = [buf |-> t.buf, elem |-> k, next |-> IF k = t.n THEN None ELSE c[k + 1]]
        BY <1>6, <2>4, <3>1, Zenon
      <3> QED
        BY <2>2, <2>3, <3>1, <3>2, Zenon DEF IsChain
    <2>6. t.buf <= max + 1
      BY <1>6, SMT
    <2> QED
      BY <1>6, <2>2, <2>5, <2>6, Zenon DEF Filed
  <1>12. \A h \in SplitCells : tok2[h] # NoToken => Filed(d2, idx2, tok2[h], max + 1, h)
    BY <1>8, <1>10, <1>11, Zenon
  <1>13. ASSUME NEW g \in SplitCells, NEW h \in SplitCells, tok2[g] # NoToken, tok2[h] # NoToken,
                tok2[g].buf = tok2[h].buf
         PROVE  g = h
    <2>1. ASSUME NEW x \in SplitCells, x # s[n], tok2[x] # NoToken PROVE tok2[x].buf # max + 1
      <3>1. tok2[x] = tok[x]
        BY <1>8, <2>1, Zenon
      <3>2. tok[x].buf <= max /\ tok[x].buf \in Nat
        BY <1>10, <2>1, <3>1, Zenon
      <3> QED
        BY <3>1, <3>2, SMT
    <2>0. tok2[s[n]].buf = max + 1
      BY <1>6, <1>8, Zenon
    <2>2. CASE g = s[n]
      BY <1>13, <2>0, <2>1, <2>2, Zenon
    <2>3. CASE h = s[n]
      BY <1>13, <2>0, <2>1, <2>3, Zenon
    <2>4. CASE g # s[n] /\ h # s[n]
      <3>1. tok2[g] = tok[g] /\ tok2[h] = tok[h]
        BY <1>8, <2>4, Zenon
      <3>2. tok[g] # NoToken /\ tok[h] # NoToken /\ tok[g].buf = tok[h].buf
        BY <1>13, <3>1, Zenon
      <3>3. \A x, y \in SplitCells : tok[x] # NoToken /\ tok[y] # NoToken /\ tok[x].buf = tok[y].buf => x = y
        BY Zenon DEF Chains
      <3> QED
        BY <3>2, <3>3, Zenon
    <2> QED
      BY <2>2, <2>3, <2>4
  <1>14. Chains(d2, idx2, tok2, max + 1)
    BY <1>12, <1>13, Zenon DEF Chains
  <1> QED
    BY <1>2, <1>4, <1>5, <1>6, <1>7, <1>9, <1>14, Zenon DEF Pushes

\* What is allocated besides does not matter.
LEMMA ChainsFail ==
  ASSUME NEW d, NEW idx \in SUBSET SplitCells, NEW tok, NEW max, Chains(d, idx, tok, max)
  PROVE  Chains(d, SplitCells, tok, max)
  <1>1. ASSUME NEW h \in SplitCells, tok[h] # NoToken PROVE Filed(d, SplitCells, tok[h], max, h)
    <2>1. Filed(d, idx, tok[h], max, h)
      BY <1>1, Zenon DEF Chains
    <2>2. PICK c : IsChain(d, idx, tok[h], h, c) /\ tok[h] \in SplitTokens /\ tok[h].buf <= max
      BY <2>1, Zenon DEF Filed
    <2>3. \A k \in 1..tok[h].n : c[k] \in SplitCells /\ d[c[k]] = d[c[k]]
      BY <2>2, Zenon DEF IsChain
    <2> QED
      BY <2>2, <2>3, ChainKept, Zenon
  <1> QED
    BY <1>1, Zenon DEF Chains

\* The descriptors of one chain go; no other chain has one of them.
LEMMA ChainsRecv ==
  ASSUME SplitAssumption, NEW d, NEW idx \in SUBSET SplitCells, NEW tok \in [SplitCells -> SplitTokens \cup {NoToken}],
         NEW max, Chains(d, idx, tok, max), NEW g \in SplitCells, tok[g] # NoToken, NEW c,
         IsChain(d, idx, tok[g], g, c)
  PROVE  Chains(d, idx \ Cells(c, tok[g].n), [tok EXCEPT ![g] = NoToken], max)
  <1>1. PICK tok2 : tok2 = [tok EXCEPT ![g] = NoToken]
    BY Zenon
  <1>2. tok2[g] = NoToken /\ \A h \in SplitCells : h # g => tok2[h] = tok[h]
    BY <1>1, Zenon
  <1>3. PICK idx2 : idx2 = idx \ Cells(c, tok[g].n)
    BY Zenon
  <1>4. \A k \in 1..tok[g].n : d[c[k]].buf = tok[g].buf
    <2>1. Carried(d, idx, tok[g], c)
      BY Carries, Zenon
    <2> QED
      BY <2>1, Zenon DEF Carried
  <1>5. ASSUME NEW h \in SplitCells, tok2[h] # NoToken PROVE Filed(d, idx2, tok2[h], max, h)
    <2>1. h # g /\ tok2[h] = tok[h] /\ tok[h] # NoToken
      BY <1>2, <1>5, Zenon
    <2>2. Filed(d, idx, tok[h], max, h) /\ tok[h].buf # tok[g].buf
      BY <2>1, Zenon DEF Chains
    <2>3. PICK e : IsChain(d, idx, tok[h], h, e) /\ tok[h] \in SplitTokens /\ tok[h].buf <= max
      BY <2>2, Zenon DEF Filed
    <2>4. \A k \in 1..tok[h].n : e[k] \in idx
      BY <2>3, Zenon DEF IsChain
    <2>5. \A k \in 1..tok[h].n : d[e[k]].buf = tok[h].buf
      <3>1. Carried(d, idx, tok[h], e)
        BY <2>3, Carries, Zenon
      <3> QED
        BY <3>1, Zenon DEF Carried
    <2>6. \A k \in 1..tok[h].n : e[k] \notin Cells(c, tok[g].n)
      BY <1>4, <2>2, <2>5, Zenon DEF Cells
    <2>7. \A k \in 1..tok[h].n : e[k] \in idx2 /\ d[e[k]] = d[e[k]]
      BY <1>3, <2>4, <2>6, Zenon
    <2>8. Filed(d, idx2, tok[h], max, h)
      BY <2>3, <2>7, ChainKept, Zenon
    <2> QED
      BY <2>1, <2>8, Zenon
  <1>6. ASSUME NEW x \in SplitCells, NEW y \in SplitCells, tok2[x] # NoToken, tok2[y] # NoToken,
               tok2[x].buf = tok2[y].buf
        PROVE  x = y
    <2>1. tok2[x] = tok[x] /\ tok2[y] = tok[y]
      BY <1>2, <1>6, Zenon
    <2> QED
      BY <1>6, <2>1, Zenon DEF Chains
  <1> QED
    BY <1>1, <1>3, <1>5, <1>6, Zenon DEF Chains

-----------------------------------------------------------------------------
(***************************************************************************)
(* The state.                                                              *)
(***************************************************************************)
LEMMA TypedFacts ==
  ASSUME Typed
  PROVE  /\ avail_ring.ring \in [SplitCells -> SplitCells] /\ avail_ring.idx \in RingIndexes
         /\ used_ring.ring \in [SplitCells -> SplitCells] /\ used_ring.idx \in RingIndexes
  BY SMT DEF Typed, Ring

\* The table leads along the chain of a live head.
LEMMA ChainOf ==
  ASSUME SplitAssumption, SplitInv, NEW h \in SplitCells, token_ring[h] # NoToken
  PROVE  /\ token_ring[h] \in SplitTokens
         /\ IsChain(descr_table, split_indexes, token_ring[h], h, chain(h))
         /\ DOMAIN chain(h) = 1..token_ring[h].n /\ Len(chain(h)) = token_ring[h].n
         /\ [buf |-> descr_table[h].buf, n |-> Len(chain(h))] = token_ring[h]
  <1>1. Filed(descr_table, split_indexes, token_ring[h], split_dispatched, h)
    BY Zenon DEF SplitInv, Chains
  <1>2. PICK c : IsChain(descr_table, split_indexes, token_ring[h], h, c) /\ token_ring[h] \in SplitTokens
    BY <1>1, Zenon DEF Filed
  <1>3. PICK t \in SplitTokens : t = token_ring[h]
    BY <1>2, Zenon
  <1>4. PICK n \in Nat : n = t.n /\ n >= 1
    BY TokenIs, Zenon
  <1>5. split_indexes \in SUBSET SplitCells
    BY Zenon DEF SplitInv, Typed
  <1>6. n <= SplitSize
    <2>1. Sized(c, t.n, h, split_indexes)
      BY <1>2, <1>3, <1>5, ChainSize, Zenon
    <2> QED
      BY <1>4, <2>1, Zenon DEF Sized
  <1>7. c \in [1..n -> split_indexes] /\ c[1] = h
    BY <1>2, <1>3, <1>4, Zenon DEF IsChain
  <1>8. Carried(descr_table, split_indexes, t, c)
    BY <1>2, <1>3, Carries, Zenon
  <1>9. Leads(c, n)
    <2>1. c \in [1..n -> SplitCells]
      BY <1>5, <1>7, Zenon
    <2>2. \A k \in 1..n : descr_table[c[k]].next = IF k = n THEN None ELSE c[k + 1]
      BY <1>4, <1>8, Zenon DEF Carried
    <2> QED
      BY <2>1, <2>2, Zenon DEF Leads
  <1>10. chain(c[1]) = c
    BY <1>4, <1>6, <1>9, ChainIs, Zenon
  <1>11. chain(h) = c
    BY <1>7, <1>10, Zenon
  <1>12. DOMAIN c = 1..n /\ Len(c) = n
    BY <1>4, <1>7, SMT
  <1>13. descr_table[h].buf = t.buf
    <2>1. 1 \in 1..n
      BY <1>4, SMT
    <2> QED
      BY <1>4, <1>7, <1>8, <2>1, Zenon DEF Carried
  <1>14. [buf |-> t.buf, n |-> t.n] = t
    BY SMT DEF SplitTokens
  <1> QED
    BY <1>2, <1>3, <1>4, <1>11, <1>12, <1>13, <1>14, Zenon

LEMMA WrittenIs ==
  ASSUME split_indexes \subseteq SplitCells, NEW n \in Nat, NEW s \in [1..n -> SplitCells \ split_indexes],
         \A j, k \in 1..n : s[j] = s[k] => j = k, NEW b
  PROVE  Wrote(descr_table, written(b, s), split_indexes, n, s, b)
  <1>1. Len(s) = n
    BY SMT
  <1> DEFINE at(i) == CHOOSE k \in 1..n : s[k] = i
             D(k) == [buf |-> b, elem |-> n + 1 - k, next |-> IF k = 1 THEN None ELSE s[k - 1]]
  <1>2. written(b, s) = [i \in SplitCells |-> IF \E k \in 1..n : s[k] = i THEN D(at(i)) ELSE descr_table[i]]
    BY <1>1, ZenonT(60) DEF written
  <1> HIDE DEF D
  <1>3. ASSUME NEW i \in split_indexes PROVE written(b, s)[i] = descr_table[i]
    <2>1. ~\E k \in 1..n : s[k] = i
      BY Zenon
    <2> QED
      BY <1>2, <2>1, Zenon
  <1>4. ASSUME NEW k \in 1..n PROVE written(b, s)[s[k]] = D(k)
    <2>1. at(s[k]) = k
      BY Zenon
    <2>2. s[k] \in SplitCells
      BY Zenon
    <2> HIDE DEF at
    <2> QED
      BY <1>2, <2>1, <2>2, Zenon
  <1> QED
    BY <1>3, <1>4, Zenon DEF D, Wrote

\* The heads in a ring, as OwnedHeads has them.
LEMMA RingSet ==
  ASSUME SplitAssumption, NEW T, NEW arr \in [SplitCells -> T], NEW from \in RingIndexes, NEW to \in RingIndexes
  PROVE  {arr[(from + k) % SplitSize] : k \in 0..((to - from) % IdxMod) - 1}
           = Cells(RingSeq(arr, from, to), Len(RingSeq(arr, from, to)))
  <1>1. /\ RingLen(from, to) \in Nat
        /\ HeldFrom(arr, from, RingLen(from, to), RingSeq(arr, from, to), T)
    BY RingIs, Zenon
  <1>2. PICK n \in Nat : n = RingLen(from, to)
    BY <1>1, Zenon
  <1>3. PICK s : s = RingSeq(arr, from, to)
    BY Zenon
  <1>4. s \in Seq(T) /\ Len(s) = n /\ \A k \in 1..n : s[k] = arr[SlotAt(from, k)]
    BY <1>1, <1>2, <1>3, Zenon DEF HeldFrom
  <1>5. (to - from) % IdxMod = n
    BY <1>2, Zenon DEF RingLen
  <1>6. \A k \in 0..n - 1 : k + 1 \in 1..n /\ from + k = from + (k + 1) - 1
    BY SMT DEF RingIndexes
  <1>7. \A k \in 1..n : k - 1 \in 0..n - 1 /\ from + (k - 1) = from + k - 1
    BY SMT DEF RingIndexes
  <1> DEFINE A == {arr[(from + k) % SplitSize] : k \in 0..n - 1}
             B == {s[k] : k \in 1..n}
  <1>8. ASSUME NEW x \in A PROVE x \in B
    <2>1. PICK k \in 0..n - 1 : x = arr[(from + k) % SplitSize]
      BY Zenon
    <2>2. s[k + 1] = x /\ k + 1 \in 1..n
      BY <1>4, <1>6, <2>1, Zenon DEF SlotAt
    <2> QED
      BY <2>2, Zenon
  <1>9. ASSUME NEW x \in B PROVE x \in A
    <2>1. PICK k \in 1..n : x = s[k]
      BY Zenon
    <2>2. arr[(from + (k - 1)) % SplitSize] = x /\ k - 1 \in 0..n - 1
      BY <1>4, <1>7, <2>1, Zenon DEF SlotAt
    <2> QED
      BY <2>2, Zenon
  <1>10. A = B
    BY <1>8, <1>9, Zenon
  <1> QED
    BY <1>3, <1>4, <1>5, <1>10, Zenon DEF Cells

LEMMA TakenCells ==
  ASSUME NEW A, NEW B, IsFiniteSet(A), IsFiniteSet(B), A \cap B = {}
  PROVE  Cardinality(A \cup B) = Cardinality(A) + Cardinality(B)
  <1>1. Cardinality(A \cup B) = Cardinality(A) + Cardinality(B) - Cardinality(A \cap B)
    BY FS_Union, Zenon
  <1>2. Cardinality(A \cap B) = 0 /\ Cardinality(A) \in Nat /\ Cardinality(B) \in Nat
    BY FS_EmptySet, FS_CardinalityType, Zenon
  <1> QED
    BY <1>1, <1>2, SMT

LEMMA ReturnedCells ==
  ASSUME NEW A, NEW B, IsFiniteSet(A), B \subseteq A
  PROVE  Cardinality(A \ B) = Cardinality(A) - Cardinality(B)
  <1>1. Cardinality(A \ B) = Cardinality(A) - Cardinality(A \cap B)
    BY FS_Difference, Zenon
  <1>2. A \cap B = B
    BY Zenon
  <1> QED
    BY <1>1, <1>2, Zenon

\* The promise of BufferQueue, read off the split queue.
Free == SplitSize - Cardinality(split_indexes) + (IF push_pc = "idle" THEN 0 ELSE token_ring[push_head].n)
Held == {token_ring[h] : h \in OwnedHeads}

LEMMA Parts ==
  ASSUME SplitInv
  PROVE  /\ split_indexes \in SUBSET SplitCells
         /\ token_ring \in [SplitCells -> SplitTokens \cup {NoToken}]
         /\ avail_ring \in Ring /\ used_ring \in Ring
         /\ avail_ring.ring \in [SplitCells -> SplitCells] /\ avail_ring.idx \in RingIndexes
         /\ used_ring.ring \in [SplitCells -> SplitCells] /\ used_ring.idx \in RingIndexes
         /\ read_idx \in RingIndexes /\ dev_idx \in RingIndexes
         /\ push_pc \in {"idle", "entry", "publish"}
         /\ split_dispatched \in 0..SplitMaxBuffers
         /\ Chains(descr_table, split_indexes, token_ring, split_dispatched)
         /\ Apart(AvailSeq, UsedSeq, split_inflight, Pushed, Live(token_ring))
         /\ split_done = [k \in 1..Len(UsedSeq) |-> token_ring[UsedSeq[k]]]
         /\ Live(token_ring) \in SUBSET SplitCells
  <1>1. Typed
    BY Zenon DEF SplitInv
  <1>2. /\ avail_ring.ring \in [SplitCells -> SplitCells] /\ avail_ring.idx \in RingIndexes
        /\ used_ring.ring \in [SplitCells -> SplitCells] /\ used_ring.idx \in RingIndexes
    BY <1>1, TypedFacts, Zenon
  <1>3. Live(token_ring) \in SUBSET SplitCells
    BY Zenon DEF Live
  <1> QED
    BY <1>1, <1>2, <1>3, Zenon DEF SplitInv, Typed

\* What the device owns: live heads, and none that is used or being pushed.
LEMMA OwnedAre ==
  ASSUME SplitAssumption, SplitInv
  PROVE  /\ OwnedHeads = split_inflight \cup Cells(AvailSeq, Len(AvailSeq))
         /\ OwnedHeads \subseteq Live(token_ring)
         /\ \A k \in 1..Len(UsedSeq) : UsedSeq[k] \notin OwnedHeads
         /\ \A h \in Pushed : h \notin OwnedHeads
  <1>1. /\ avail_ring.ring \in [SplitCells -> SplitCells] /\ avail_ring.idx \in RingIndexes /\ dev_idx \in RingIndexes
        /\ Apart(AvailSeq, UsedSeq, split_inflight, Pushed, Live(token_ring))
    BY Parts, Zenon
  <1>2. OwnedHeads = split_inflight \cup Cells(AvailSeq, Len(AvailSeq))
    BY <1>1, RingSet, Zenon DEF OwnedHeads, AvailSeq
  <1>3. PICK a, u, L, P : a = AvailSeq /\ u = UsedSeq /\ L = Live(token_ring) /\ P = Pushed
    BY Zenon
  <1>4. Apart(a, u, split_inflight, P, L)
    BY <1>1, <1>3, Zenon
  <1>5. \A k \in 1..Len(a) : a[k] \in L
    <2>1. a \in Seq(L)
      BY <1>4, Zenon DEF Apart
    <2> QED
      BY <2>1, SMT
  <1>6. \A h \in Cells(a, Len(a)) : h \in L /\ h \notin P /\ \A k \in 1..Len(u) : u[k] # h
    <2>1. ASSUME NEW j \in 1..Len(a) PROVE a[j] \in L /\ a[j] \notin P
      BY <1>4, <1>5, Zenon DEF Apart
    <2>2. ASSUME NEW j \in 1..Len(a), NEW k \in 1..Len(u) PROVE u[k] # a[j]
      BY <1>4, Zenon DEF Apart
    <2> QED
      BY <2>1, <2>2, Zenon DEF Cells
  <1>7. \A h \in split_inflight : h \in L /\ h \notin P /\ \A k \in 1..Len(u) : u[k] # h
    BY <1>4, Zenon DEF Apart
  <1> QED
    BY <1>2, <1>3, <1>6, <1>7, Zenon

LEMMA PushStep ==
  ASSUME SplitAssumption, SplitInv, NEW n \in SplitLengths, push(n)
  PROVE  SplitInv' /\ Free' = Free /\ Held' = Held /\ split_done' = split_done /\ split_got' = split_got
  <1> USE SMTT(30)
  <1>1. /\ split_indexes \in SUBSET SplitCells
        /\ token_ring \in [SplitCells -> SplitTokens \cup {NoToken}]
        /\ split_dispatched \in 0..SplitMaxBuffers
        /\ Chains(descr_table, split_indexes, token_ring, split_dispatched)
        /\ Apart(AvailSeq, UsedSeq, split_inflight, Pushed, Live(token_ring))
        /\ split_done = [k \in 1..Len(UsedSeq) |-> token_ring[UsedSeq[k]]]
    BY Parts, Zenon
  <1>2. n \in Nat /\ n >= 1 /\ SplitMaxBuffers \in Nat
    BY DEF SplitAssumption
  <1>3. PICK s : s = allocate(n)
    BY Zenon
  <1>4. /\ push_pc = "idle" /\ split_dispatched < SplitMaxBuffers
        /\ n <= Cardinality(SplitCells \ split_indexes)
        /\ split_indexes' = split_indexes \cup Cells(s, n)
        /\ descr_table' = written(split_dispatched + 1, s)
        /\ push_head' = s[n]
        /\ token_ring' = [token_ring EXCEPT ![s[n]] = [buf |-> split_dispatched + 1, n |-> n]]
        /\ split_dispatched' = split_dispatched + 1
        /\ push_pc' = "entry"
        /\ avail_ring' = avail_ring /\ used_ring' = used_ring /\ read_idx' = read_idx /\ dev_idx' = dev_idx
        /\ split_inflight' = split_inflight /\ split_done' = split_done /\ split_got' = split_got
    BY <1>3, Zenon DEF push, Cells
  <1>5. s \in [1..n -> SplitCells \ split_indexes] /\ \A j, k \in 1..n : s[j] = s[k] => j = k
    BY <1>1, <1>2, <1>3, <1>4, AllocateIs, Zenon
  <1>6. PICK max \in Nat : max = split_dispatched /\ max < SplitMaxBuffers /\ max + 1 \in 0..SplitMaxBuffers
    BY <1>1, <1>2, <1>4
  <1>7. PICK d2, idx, tok, idx2, tok2, t :
          /\ d2 = descr_table' /\ idx = split_indexes /\ tok = token_ring /\ idx2 = split_indexes' /\ tok2 = token_ring'
          /\ t = [buf |-> max + 1, n |-> n]
    BY Zenon
  <1>8. PICK b : b = max + 1 /\ Wrote(descr_table, d2, idx, n, s, b)
    <2>1. PICK b : b = max + 1
      BY Zenon
    <2>2. Wrote(descr_table, written(b, s), split_indexes, n, s, b)
      BY <1>1, <1>2, <1>5, WrittenIs, Zenon
    <2>3. d2 = written(b, s)
      BY <1>4, <1>6, <1>7, <2>1, Zenon
    <2> QED
      BY <1>7, <2>1, <2>2, <2>3, Zenon
  <1>9. Chains(descr_table, idx, tok, max) /\ tok \in [SplitCells -> SplitTokens \cup {NoToken}] /\ idx \in SUBSET SplitCells
    BY <1>1, <1>6, <1>7, Zenon
  <1>10. /\ s[n] \in SplitCells /\ tok[s[n]] = NoToken
         /\ [buf |-> max + 1, n |-> n] \in SplitTokens
         /\ Chains(d2, idx \cup Cells(s, n), [tok EXCEPT ![s[n]] = [buf |-> max + 1, n |-> n]], max + 1)
    <2>1. s \in [1..n -> SplitCells \ idx]
      BY <1>5, <1>7, Zenon
    <2>2. Pushes(d2, idx, tok, max, n, s)
      BY <1>5, <1>6, <1>8, <1>9, <2>1, ChainsPush, Zenon
    <2> QED
      BY <2>2, Zenon DEF Pushes
  <1>11. /\ idx2 = idx \cup Cells(s, n) /\ tok2 = [tok EXCEPT ![s[n]] = t]
         /\ Chains(d2, idx2, tok2, max + 1) /\ t \in SplitTokens
    BY <1>4, <1>6, <1>7, <1>10, Zenon
  <1>12. t # NoToken /\ t.n = n
    <2>1. t # NoToken
      BY <1>11, TokenIs, Zenon
    <2>2. t.n = n
      BY <1>7
    <2> QED
      BY <2>1, <2>2, Zenon
  <1>13. tok2[s[n]] = t /\ \A h \in SplitCells : h # s[n] => tok2[h] = tok[h]
    BY <1>9, <1>10, <1>11, Zenon
  <1>14. /\ tok2 \in [SplitCells -> SplitTokens \cup {NoToken}]
         /\ idx2 \subseteq SplitCells
    <2>1. tok2 \in [SplitCells -> SplitTokens \cup {NoToken}]
      <3>1. PICK T : T = SplitTokens \cup {NoToken}
        BY Zenon
      <3>2. tok \in [SplitCells -> T] /\ t \in T
        BY <1>9, <1>11, <3>1, Zenon
      <3>3. [tok EXCEPT ![s[n]] = t] \in [SplitCells -> T]
        BY <3>2, Zenon
      <3> QED
        BY <1>11, <3>1, <3>3, Zenon
    <2>2. idx2 \subseteq SplitCells
      <3>1. Cells(s, n) \subseteq SplitCells
        BY <1>5, Zenon DEF Cells
      <3> QED
        BY <1>9, <1>11, <3>1, Zenon
    <2> QED
      BY <2>1, <2>2, Zenon
  <1>15. s[n] \notin Live(tok) /\ Live(tok2) = Live(tok) \cup {s[n]} /\ \A h \in Live(tok) : tok2[h] = tok[h]
    BY <1>10, <1>12, <1>13, Zenon DEF Live
  <1>16. AvailSeq' = AvailSeq /\ UsedSeq' = UsedSeq /\ OwnedHeads' = OwnedHeads
    BY <1>4, Zenon DEF AvailSeq, UsedSeq, OwnedHeads
  <1>17. Pushed = {} /\ Pushed' = {s[n]}
    BY <1>4, Zenon DEF Pushed
  <1>18. PICK a, u, I : a = AvailSeq /\ u = UsedSeq /\ I = split_inflight /\ Apart(a, u, I, {}, Live(tok))
    BY <1>1, <1>7, <1>17, Zenon
  <1>19. Apart(a, u, I, {s[n]}, Live(tok) \cup {s[n]})
    BY <1>15, <1>18, ApartPush, Zenon
  <1>20. Apart(AvailSeq', UsedSeq', split_inflight', Pushed', Live(token_ring'))
    BY <1>4, <1>7, <1>15, <1>16, <1>17, <1>18, <1>19, Zenon
  <1>21. \A k \in 1..Len(u) : u[k] \in Live(tok)
    <2>1. u \in Seq(Live(tok))
      BY <1>18, Zenon DEF Apart
    <2> QED
      BY <2>1
  <1>22. split_done' = [k \in 1..Len(UsedSeq') |-> token_ring'[UsedSeq'[k]]]
    <2>1. split_done = [k \in 1..Len(u) |-> tok[u[k]]]
      BY <1>1, <1>7, <1>18, Zenon
    <2>2. \A k \in 1..Len(u) : tok2[u[k]] = tok[u[k]]
      BY <1>15, <1>21, Zenon
    <2>3. split_done = [k \in 1..Len(u) |-> tok2[u[k]]]
      BY <2>1, <2>2, Zenon
    <2>4. UsedSeq' = u /\ token_ring' = tok2 /\ split_done' = split_done
      BY <1>4, <1>7, <1>16, <1>18, Zenon
    <2> QED
      BY <2>3, <2>4, Zenon
  <1>23. Typed'
    BY <1>4, <1>6, <1>7, <1>14, Zenon DEF Typed, SplitInv
  <1>24. SplitInv'
    <2>1. push_pc' # "publish"
      BY <1>4
    <2>2. Chains(descr_table', split_indexes', token_ring', split_dispatched')
      BY <1>4, <1>6, <1>7, <1>11, Zenon
    <2> QED
      BY <1>20, <1>22, <1>23, <2>1, <2>2, Zenon DEF SplitInv
  <1>25. Free' = Free
    <2>1. IsFiniteSet(idx)
      BY <1>9, SplitFacts, FS_Subset, Zenon
    <2>2. IsFiniteSet(Cells(s, n)) /\ Cardinality(Cells(s, n)) = n /\ Cells(s, n) \subseteq SplitCells \ split_indexes
      BY <1>2, <1>5, CellsSize, Zenon
    <2>3. idx \cap Cells(s, n) = {}
      BY <1>7, <2>2, Zenon
    <2>4. Cardinality(idx2) = Cardinality(idx) + Cardinality(Cells(s, n))
      BY <1>11, <2>1, <2>2, <2>3, TakenCells, Zenon
    <2>5. PICK x \in Nat : x = Cardinality(idx)
      BY <2>1, FS_CardinalityType, Zenon
    <2>6. PICK y \in Nat : y = Cardinality(idx2) /\ y = x + n
      BY <1>2, <2>2, <2>4, <2>5
    <2>7. Free = SplitSize - x + 0
      BY <1>4, <1>7, <2>5, Zenon DEF Free
    <2>8. Free' = SplitSize - y + n
      <3>1. token_ring'[push_head'].n = n /\ push_pc' # "idle"
        BY <1>4, <1>7, <1>12, <1>13
      <3> QED
        BY <1>7, <2>6, <3>1, Zenon DEF Free
    <2>9. SplitSize \in Nat
      BY SplitFacts, Zenon
    <2> QED
      BY <1>2, <2>6, <2>7, <2>8, <2>9
  <1>26. Held' = Held
    <2>1. OwnedHeads \subseteq Live(tok)
      BY <1>7, OwnedAre, Zenon
    <2>2. \A h \in OwnedHeads : token_ring'[h] = token_ring[h]
      BY <1>7, <1>15, <2>1, Zenon
    <2> QED
      BY <1>16, <2>2, Zenon DEF Held
  <1> QED
    BY <1>4, <1>24, <1>25, <1>26, Zenon

\* The heads in a sequence.
Heads(s) == Cells(s, Len(s))

LEMMA HeadsAppend ==
  ASSUME NEW T, NEW s \in Seq(T), NEW h \in T
  PROVE  \A x : x \in Heads(Append(s, h)) <=> x \in Heads(s) \/ x = h
  <1> USE SMTT(30)
  <1>1. PICK b : b = Append(s, h)
    BY Zenon
  <1>2. PICK n \in Nat : n = Len(s)
    OBVIOUS
  <1>3. Len(b) = n + 1 /\ b[n + 1] = h /\ \A k \in 1..n : b[k] = s[k]
    BY <1>1, <1>2
  <1>4. \A k \in 1..n + 1 : k \in 1..n \/ k = n + 1
    OBVIOUS
  <1>5. n + 1 \in 1..n + 1 /\ \A k \in 1..n : k \in 1..n + 1
    OBVIOUS
  <1>6. {b[k] : k \in 1..n + 1} = {s[k] : k \in 1..n} \cup {h}
    <2>1. ASSUME NEW x \in {b[k] : k \in 1..n + 1} PROVE x \in {s[k] : k \in 1..n} \cup {h}
      BY <1>3, <1>4, Zenon
    <2>2. ASSUME NEW x \in {s[k] : k \in 1..n} \cup {h} PROVE x \in {b[k] : k \in 1..n + 1}
      <3>1. CASE x = h
        BY <1>3, <1>5, <3>1, Zenon
      <3>2. CASE x \in {s[k] : k \in 1..n}
        <4>1. PICK k \in 1..n : x = s[k]
          BY <3>2, Zenon
        <4>2. k \in 1..n + 1 /\ x = b[k]
          BY <1>3, <1>5, <4>1, Zenon
        <4> QED
          BY <4>2, Zenon
      <3> QED
        BY <2>2, <3>1, <3>2, Zenon
    <2> QED
      BY <2>1, <2>2, Zenon
  <1>7. Heads(b) = Heads(s) \cup {h}
    BY <1>2, <1>3, <1>6, Zenon DEF Heads, Cells
  <1> QED
    BY <1>1, <1>7, Zenon

LEMMA HeadsTail ==
  ASSUME NEW T, NEW s \in Seq(T), s # <<>>
  PROVE  Heads(s) = Heads(Tail(s)) \cup {Head(s)}
  <1> USE SMTT(30)
  <1>1. PICK b, h : b = Tail(s) /\ h = Head(s)
    BY Zenon
  <1>2. PICK n \in Nat : n = Len(s) /\ n >= 1
    OBVIOUS
  <1>3. Len(b) = n - 1 /\ h = s[1] /\ \A k \in 1..n - 1 : b[k] = s[k + 1]
    BY <1>1, <1>2
  <1>4. \A k \in 1..n : k = 1 \/ (k - 1 \in 1..n - 1 /\ (k - 1) + 1 = k)
    OBVIOUS
  <1>5. 1 \in 1..n /\ \A k \in 1..n - 1 : k + 1 \in 1..n
    BY <1>2
  <1>6. {s[k] : k \in 1..n} = {b[k] : k \in 1..n - 1} \cup {h}
    <2>1. ASSUME NEW x \in {s[k] : k \in 1..n} PROVE x \in {b[k] : k \in 1..n - 1} \cup {h}
      <3>1. PICK k \in 1..n : x = s[k]
        BY <2>1, Zenon
      <3>2. CASE k = 1
        BY <1>3, <3>1, <3>2, Zenon
      <3>3. CASE k # 1
        <4>1. k - 1 \in 1..n - 1 /\ (k - 1) + 1 = k
          BY <1>4, <3>3, Zenon
        <4>2. x = b[k - 1]
          BY <1>3, <3>1, <4>1, Zenon
        <4> QED
          BY <4>1, <4>2, Zenon
      <3> QED
        BY <3>2, <3>3, Zenon
    <2>2. ASSUME NEW x \in {b[k] : k \in 1..n - 1} \cup {h} PROVE x \in {s[k] : k \in 1..n}
      BY <1>3, <1>5, Zenon
    <2> QED
      BY <2>1, <2>2, Zenon
  <1> QED
    BY <1>1, <1>2, <1>3, <1>6, Zenon DEF Heads, Cells

\* A failed push takes what is free.
LEMMA FailStep ==
  ASSUME SplitAssumption, SplitInv, NEW n \in SplitLengths, push_fails(n)
  PROVE  SplitInv' /\ Free' = 0 /\ Held' = Held /\ split_done' = split_done /\ split_got' = split_got
  <1>1. /\ split_indexes \in SUBSET SplitCells
        /\ Chains(descr_table, split_indexes, token_ring, split_dispatched)
    BY Parts, Zenon
  <1>2. /\ push_pc = "idle" /\ push_pc' = push_pc /\ split_indexes' = SplitCells /\ push_head' = push_head
        /\ descr_table' = descr_table /\ token_ring' = token_ring /\ split_dispatched' = split_dispatched
        /\ avail_ring' = avail_ring /\ used_ring' = used_ring /\ read_idx' = read_idx /\ dev_idx' = dev_idx
        /\ split_inflight' = split_inflight /\ split_done' = split_done /\ split_got' = split_got
    BY Zenon DEF push_fails
  <1>3. Chains(descr_table, SplitCells, token_ring, split_dispatched)
    BY <1>1, ChainsFail, Zenon
  <1>4. AvailSeq' = AvailSeq /\ UsedSeq' = UsedSeq /\ OwnedHeads' = OwnedHeads /\ Pushed' = Pushed
    BY <1>2, Zenon DEF AvailSeq, UsedSeq, OwnedHeads, Pushed
  <1>5. Typed'
    BY <1>2, Zenon DEF Typed, SplitInv
  <1>6. SplitInv'
    <2>1. Chains(descr_table', split_indexes', token_ring', split_dispatched')
      BY <1>2, <1>3, Zenon
    <2>2. Apart(AvailSeq', UsedSeq', split_inflight', Pushed', Live(token_ring'))
      BY <1>2, <1>4, Zenon DEF SplitInv
    <2>3. split_done' = [k \in 1..Len(UsedSeq') |-> token_ring'[UsedSeq'[k]]]
      BY <1>2, <1>4, Zenon DEF SplitInv
    <2>4. push_pc' = "publish" => avail_ring'.ring[avail_ring'.idx % SplitSize] = push_head'
      BY <1>2, Zenon DEF SplitInv
    <2> QED
      BY <1>5, <2>1, <2>2, <2>3, <2>4, Zenon DEF SplitInv
  <1>7. Free' = 0
    <2>1. SplitSize \in Nat /\ Cardinality(SplitCells) = SplitSize
      BY SplitFacts, Zenon
    <2>2. Free' = SplitSize - SplitSize + 0
      BY <1>2, <2>1, Zenon DEF Free
    <2> QED
      BY <2>1, <2>2, SMT
  <1>8. Held' = Held
    BY <1>2, <1>4, Zenon DEF Held
  <1> QED
    BY <1>2, <1>6, <1>7, <1>8, Zenon

\* The number of heads in a ring.
LEMMA RingRoom ==
  ASSUME SplitAssumption, SplitInv
  PROVE  /\ AvailSeq \in Seq(SplitCells) /\ UsedSeq \in Seq(SplitCells)
         /\ Len(AvailSeq) = RingLen(dev_idx, avail_ring.idx)
         /\ Len(UsedSeq) = RingLen(read_idx, used_ring.idx)
         /\ push_pc # "idle" => RingLen(dev_idx, avail_ring.idx) < SplitSize
         /\ split_inflight # {} => RingLen(read_idx, used_ring.idx) < SplitSize
  <1>1. /\ avail_ring.ring \in [SplitCells -> SplitCells] /\ avail_ring.idx \in RingIndexes
        /\ used_ring.ring \in [SplitCells -> SplitCells] /\ used_ring.idx \in RingIndexes
        /\ read_idx \in RingIndexes /\ dev_idx \in RingIndexes
        /\ Apart(AvailSeq, UsedSeq, split_inflight, Pushed, Live(token_ring))
        /\ Live(token_ring) \in SUBSET SplitCells
    BY Parts, Zenon
  <1>2. HeldFrom(avail_ring.ring, dev_idx, RingLen(dev_idx, avail_ring.idx), AvailSeq, SplitCells)
    BY <1>1, RingIs, Zenon DEF AvailSeq
  <1>3. HeldFrom(used_ring.ring, read_idx, RingLen(read_idx, used_ring.idx), UsedSeq, SplitCells)
    BY <1>1, RingIs, Zenon DEF UsedSeq
  <1>4. (Pushed # {} => Len(AvailSeq) < SplitSize) /\ (split_inflight # {} => Len(UsedSeq) < SplitSize)
    BY <1>1, ApartRoom, Zenon
  <1>5. push_pc # "idle" => Pushed # {}
    BY Zenon DEF Pushed
  <1> QED
    BY <1>2, <1>3, <1>4, <1>5, Zenon DEF HeldFrom

LEMMA EntryStep ==
  ASSUME SplitAssumption, SplitInv, push_entry
  PROVE  SplitInv' /\ Free' = Free /\ Held' = Held /\ split_done' = split_done /\ split_got' = split_got
  <1>1. /\ avail_ring \in Ring /\ avail_ring.ring \in [SplitCells -> SplitCells] /\ avail_ring.idx \in RingIndexes
        /\ dev_idx \in RingIndexes
        /\ Apart(AvailSeq, UsedSeq, split_inflight, Pushed, Live(token_ring))
        /\ Live(token_ring) \in SUBSET SplitCells
    BY Parts, Zenon
  <1>2. /\ push_pc = "entry" /\ push_pc' = "publish" /\ push_head' = push_head /\ split_indexes' = split_indexes
        /\ avail_ring' = [avail_ring EXCEPT !.ring[avail_ring.idx % SplitSize] = push_head]
        /\ descr_table' = descr_table /\ token_ring' = token_ring /\ split_dispatched' = split_dispatched
        /\ used_ring' = used_ring /\ read_idx' = read_idx /\ dev_idx' = dev_idx
        /\ split_inflight' = split_inflight /\ split_done' = split_done /\ split_got' = split_got
    BY Zenon DEF push_entry
  <1>3. push_pc # "idle" /\ push_pc' # "idle"
    BY <1>2, SMT
  <1>4. Pushed = {push_head} /\ Pushed' = {push_head}
    BY <1>2, <1>3, Zenon DEF Pushed
  <1>5. push_head \in SplitCells
    BY <1>1, <1>4, Zenon DEF Apart
  <1>6. PICK arr \in [SplitCells -> SplitCells], to \in RingIndexes : arr = avail_ring.ring /\ to = avail_ring.idx
    BY <1>1, Zenon
  <1>7. to % SplitSize \in SplitCells
    <2>1. to \in Nat /\ \A x \in Nat : x % SplitSize \in SplitCells
      <3>1. to \in Nat
        BY SMT DEF RingIndexes
      <3> QED
        BY <3>1, SplitFacts, Zenon
    <2> QED
      BY <2>1, Zenon
  <1>8. PICK i \in SplitCells : i = to % SplitSize
    BY <1>7, Zenon
  <1>9. /\ avail_ring'.ring = [arr EXCEPT ![i] = push_head] /\ avail_ring'.idx = to
        /\ avail_ring' \in Ring /\ avail_ring'.ring[i] = push_head
    <2>1. avail_ring' = [idx |-> to, ring |-> [arr EXCEPT ![i] = push_head]]
      BY <1>1, <1>2, <1>6, <1>8, SMTT(30) DEF Ring
    <2>2. [arr EXCEPT ![i] = push_head] \in [SplitCells -> SplitCells] /\ [arr EXCEPT ![i] = push_head][i] = push_head
      BY <1>5, Zenon
    <2> QED
      BY <2>1, <2>2, SMTT(30) DEF Ring
  <1>10. RingLen(dev_idx, to) < SplitSize
    BY <1>3, <1>6, RingRoom, Zenon
  <1>11. RingSeq(avail_ring'.ring, dev_idx, to) = RingSeq(arr, dev_idx, to)
    <2>1. PICK arr2 : arr2 = avail_ring'.ring
      BY Zenon
    <2>2. SameBut(arr, arr2, Slot(to))
      BY <1>8, <1>9, <2>1, Zenon DEF SameBut, Slot
    <2>3. RingSeq(arr2, dev_idx, to) = RingSeq(arr, dev_idx, to)
      BY <1>1, <1>10, <2>2, RingWrite, ZenonT(60)
    <2> QED
      BY <2>1, <2>3, Zenon
  <1>12. AvailSeq' = AvailSeq /\ UsedSeq' = UsedSeq
    BY <1>2, <1>6, <1>8, <1>9, <1>11, Zenon DEF AvailSeq, UsedSeq
  <1>13. Typed'
    BY <1>2, <1>9, Zenon DEF Typed, SplitInv
  <1>14. SplitInv'
    <2>1. Chains(descr_table', split_indexes', token_ring', split_dispatched')
      BY <1>2, Zenon DEF SplitInv
    <2>2. Apart(AvailSeq', UsedSeq', split_inflight', Pushed', Live(token_ring'))
      BY <1>1, <1>2, <1>4, <1>12, Zenon
    <2>3. split_done' = [k \in 1..Len(UsedSeq') |-> token_ring'[UsedSeq'[k]]]
      BY <1>2, <1>12, Zenon DEF SplitInv
    <2>4. avail_ring'.ring[avail_ring'.idx % SplitSize] = push_head'
      BY <1>2, <1>8, <1>9, Zenon
    <2> QED
      BY <1>13, <2>1, <2>2, <2>3, <2>4, Zenon DEF SplitInv
  <1>15. Free' = Free
    BY <1>2, <1>3, Zenon DEF Free
  <1>16. OwnedHeads' = OwnedHeads
    <2>1. OwnedHeads = split_inflight \cup Cells(AvailSeq, Len(AvailSeq))
      BY OwnedAre, Zenon
    <2>2. avail_ring'.ring \in [SplitCells -> SplitCells] /\ avail_ring'.idx \in RingIndexes /\ dev_idx' \in RingIndexes
      BY <1>1, <1>2, <1>5, <1>6, <1>9, ZenonT(60)
    <2>3. OwnedHeads' = split_inflight' \cup Cells(AvailSeq', Len(AvailSeq'))
      BY <2>2, RingSet, Zenon DEF OwnedHeads, AvailSeq
    <2> QED
      BY <1>2, <1>12, <2>1, <2>3, Zenon
  <1>17. Held' = Held
    BY <1>2, <1>16, Zenon DEF Held
  <1> QED
    BY <1>2, <1>14, <1>15, <1>17, Zenon

\* Publishing is the dispatch of the buffer.
LEMMA PublishStep ==
  ASSUME SplitAssumption, SplitInv, push_publish
  PROVE  /\ SplitInv' /\ split_done' = split_done /\ split_got' = split_got
         /\ \E t \in SplitTokens : t.n <= Free /\ Free' = Free - t.n /\ Held' = Held \cup {t}
  <1>1. /\ avail_ring \in Ring /\ avail_ring.ring \in [SplitCells -> SplitCells] /\ avail_ring.idx \in RingIndexes
        /\ dev_idx \in RingIndexes /\ split_indexes \in SUBSET SplitCells
        /\ Apart(AvailSeq, UsedSeq, split_inflight, Pushed, Live(token_ring))
        /\ Live(token_ring) \in SUBSET SplitCells
    BY Parts, Zenon
  <1>2. /\ push_pc = "publish" /\ push_pc' = "idle" /\ split_indexes' = split_indexes
        /\ avail_ring' = [avail_ring EXCEPT !.idx = (@ + 1) % IdxMod]
        /\ descr_table' = descr_table /\ token_ring' = token_ring /\ split_dispatched' = split_dispatched
        /\ used_ring' = used_ring /\ read_idx' = read_idx /\ dev_idx' = dev_idx
        /\ split_inflight' = split_inflight /\ split_done' = split_done /\ split_got' = split_got
    BY Zenon DEF push_publish
  <1>3. push_pc # "idle" /\ push_pc' # "publish"
    BY <1>2, SMT
  <1>4. Pushed = {push_head} /\ Pushed' = {}
    BY <1>2, <1>3, Zenon DEF Pushed
  <1>5. PICK h \in Live(token_ring) : h = push_head
    BY <1>1, <1>4, Zenon DEF Apart
  <1>6. PICK arr \in [SplitCells -> SplitCells], to \in RingIndexes : arr = avail_ring.ring /\ to = avail_ring.idx
    BY <1>1, Zenon
  <1>7. arr[Slot(to)] = h
    BY <1>2, <1>5, <1>6, Zenon DEF SplitInv, Slot
  <1>8. avail_ring'.ring = arr /\ avail_ring'.idx = After(to)
    BY <1>1, <1>2, <1>6, SMTT(30) DEF Ring, After
  <1>9. RingLen(dev_idx, to) < SplitSize
    BY <1>3, <1>6, RingRoom, Zenon
  <1>10. /\ After(to) \in RingIndexes
         /\ RingSeq(arr, dev_idx, After(to)) = Append(RingSeq(arr, dev_idx, to), arr[Slot(to)])
    BY <1>1, <1>9, RingMore, Zenon
  <1>11. PICK a : a = AvailSeq /\ a \in Seq(Live(token_ring))
    BY <1>1, Zenon DEF Apart
  <1>12. AvailSeq' = Append(a, h) /\ UsedSeq' = UsedSeq
    BY <1>2, <1>6, <1>7, <1>8, <1>10, <1>11, Zenon DEF AvailSeq, UsedSeq
  <1>13. avail_ring' \in Ring
    <2>1. avail_ring' = [idx |-> After(to), ring |-> arr]
      BY <1>1, <1>2, <1>6, SMTT(30) DEF Ring, After
    <2> QED
      BY <1>10, <2>1, SMTT(30) DEF Ring
  <1>14. Typed'
    BY <1>2, <1>13, Zenon DEF Typed, SplitInv
  <1>15. SplitInv'
    <2>1. Chains(descr_table', split_indexes', token_ring', split_dispatched')
      BY <1>2, Zenon DEF SplitInv
    <2>2. Apart(AvailSeq', UsedSeq', split_inflight', Pushed', Live(token_ring'))
      <3>1. PICK u, I, L : u = UsedSeq /\ I = split_inflight /\ L = Live(token_ring)
        BY Zenon
      <3>2. Apart(a, u, I, {h}, L)
        BY <1>1, <1>4, <1>5, <1>11, <3>1, Zenon
      <3>3. Apart(Append(a, h), u, I, {}, L)
        BY <3>2, ApartPublish, Zenon
      <3> QED
        BY <1>2, <1>4, <1>12, <3>1, <3>3, Zenon
    <2>3. split_done' = [k \in 1..Len(UsedSeq') |-> token_ring'[UsedSeq'[k]]]
      BY <1>2, <1>12, Zenon DEF SplitInv
    <2> QED
      BY <1>3, <1>14, <2>1, <2>2, <2>3, Zenon DEF SplitInv
  <1>16. PICK t \in SplitTokens : t = token_ring[h]
    <2>1. h \in SplitCells /\ token_ring[h] # NoToken
      BY Zenon DEF Live
    <2> QED
      BY <2>1, ChainOf, Zenon
  <1>17. Held' = Held \cup {t}
    <2>1. OwnedHeads = split_inflight \cup Heads(a)
      BY <1>11, OwnedAre, Zenon DEF Heads
    <2>2. avail_ring'.ring \in [SplitCells -> SplitCells] /\ avail_ring'.idx \in RingIndexes /\ dev_idx' \in RingIndexes
      BY <1>1, <1>2, <1>6, <1>8, <1>10, Zenon
    <2>3. OwnedHeads' = split_inflight' \cup Heads(AvailSeq')
      BY <2>2, RingSet, Zenon DEF OwnedHeads, AvailSeq, Heads
    <2>4. Heads(Append(a, h)) = Heads(a) \cup {h}
      <3>1. PICK L : L = Live(token_ring)
        BY Zenon
      <3>2. a \in Seq(L) /\ h \in L
        BY <1>11, <3>1, Zenon
      <3>3. \A x : x \in Heads(Append(a, h)) <=> x \in Heads(a) \/ x = h
        BY <3>2, HeadsAppend, Zenon
      <3> QED
        BY <3>3, Zenon
    <2>5. OwnedHeads' = OwnedHeads \cup {h}
      BY <1>2, <1>12, <2>1, <2>3, <2>4, Zenon
    <2> QED
      BY <1>2, <1>16, <2>5, Zenon DEF Held
  <1>18. t.n <= Free /\ Free' = Free - t.n
    <2>1. /\ IsFiniteSet(SplitCells) /\ Cardinality(SplitCells) = SplitSize /\ SplitSize \in Nat
          /\ t.n \in Nat
      BY SplitFacts, TokenIs, Zenon
    <2>2. IsFiniteSet(split_indexes) /\ Cardinality(split_indexes) <= SplitSize
      BY <1>1, <2>1, FS_Subset, Zenon
    <2>3. PICK x \in Nat : x = Cardinality(split_indexes)
      BY <2>2, FS_CardinalityType, Zenon
    <2>4. Free = SplitSize - x + t.n
      BY <1>3, <1>5, <1>16, <2>3, Zenon DEF Free
    <2>5. Free' = SplitSize - x + 0
      BY <1>2, <2>3, Zenon DEF Free
    <2> QED
      BY <2>1, <2>2, <2>3, <2>4, <2>5, SMT
  <1> QED
    BY <1>2, <1>15, <1>17, <1>18, Zenon

\* The device takes a head out of the available ring.
LEMMA FetchStep ==
  ASSUME SplitAssumption, SplitInv, split_device_fetch
  PROVE  SplitInv' /\ Free' = Free /\ Held' = Held /\ split_done' = split_done /\ split_got' = split_got
  <1>1. /\ avail_ring.ring \in [SplitCells -> SplitCells] /\ avail_ring.idx \in RingIndexes
        /\ dev_idx \in RingIndexes
        /\ Apart(AvailSeq, UsedSeq, split_inflight, Pushed, Live(token_ring))
    BY Parts, Zenon
  <1>2. /\ dev_idx # avail_ring.idx
        /\ split_inflight' = split_inflight \cup {avail_ring.ring[Slot(dev_idx)]}
        /\ dev_idx' = After(dev_idx)
        /\ push_pc' = push_pc /\ push_head' = push_head /\ split_indexes' = split_indexes
        /\ descr_table' = descr_table /\ token_ring' = token_ring /\ split_dispatched' = split_dispatched
        /\ avail_ring' = avail_ring /\ used_ring' = used_ring /\ read_idx' = read_idx
        /\ split_done' = split_done /\ split_got' = split_got
    BY Zenon DEF split_device_fetch, Slot, After
  <1>3. PICK a, u, I, P, L : a = AvailSeq /\ u = UsedSeq /\ I = split_inflight /\ P = Pushed /\ L = Live(token_ring)
    BY Zenon
  <1>4. /\ After(dev_idx) \in RingIndexes
        /\ a # <<>> /\ Head(a) = avail_ring.ring[Slot(dev_idx)]
        /\ RingSeq(avail_ring.ring, After(dev_idx), avail_ring.idx) = Tail(a)
    BY <1>1, <1>2, <1>3, RingLess, Zenon DEF AvailSeq
  <1>5. AvailSeq' = Tail(a) /\ UsedSeq' = u /\ Pushed' = P /\ split_inflight' = I \cup {Head(a)}
    BY <1>2, <1>3, <1>4, Zenon DEF AvailSeq, UsedSeq, Pushed
  <1>6. Apart(a, u, I, P, L)
    BY <1>1, <1>3, Zenon
  <1>7. Typed'
    BY <1>2, <1>4, Zenon DEF Typed, SplitInv
  <1>8. SplitInv'
    <2>1. Chains(descr_table', split_indexes', token_ring', split_dispatched')
      BY <1>2, Zenon DEF SplitInv
    <2>2. Apart(AvailSeq', UsedSeq', split_inflight', Pushed', Live(token_ring'))
      <3>1. Apart(Tail(a), u, I \cup {Head(a)}, P, L)
        BY <1>4, <1>6, ApartFetch, Zenon
      <3> QED
        BY <1>2, <1>3, <1>5, <3>1, Zenon
    <2>3. split_done' = [k \in 1..Len(UsedSeq') |-> token_ring'[UsedSeq'[k]]]
      BY <1>2, <1>3, <1>5, Zenon DEF SplitInv
    <2>4. push_pc' = "publish" => avail_ring'.ring[avail_ring'.idx % SplitSize] = push_head'
      BY <1>2, Zenon DEF SplitInv
    <2> QED
      BY <1>7, <2>1, <2>2, <2>3, <2>4, Zenon DEF SplitInv
  <1>9. Free' = Free
    BY <1>2, Zenon DEF Free
  <1>10. Held' = Held
    <2>1. OwnedHeads = split_inflight \cup Heads(a)
      BY <1>3, OwnedAre, Zenon DEF Heads
    <2>2. avail_ring'.ring \in [SplitCells -> SplitCells] /\ avail_ring'.idx \in RingIndexes /\ dev_idx' \in RingIndexes
      BY <1>1, <1>2, <1>4, Zenon
    <2>3. OwnedHeads' = split_inflight' \cup Heads(AvailSeq')
      BY <2>2, RingSet, Zenon DEF OwnedHeads, AvailSeq, Heads
    <2>4. Heads(a) = Heads(Tail(a)) \cup {Head(a)}
      <3>1. a \in Seq(L)
        BY <1>6, Zenon DEF Apart
      <3> QED
        BY <1>4, <3>1, HeadsTail, Zenon
    <2>5. OwnedHeads' = OwnedHeads
      BY <1>3, <1>5, <2>1, <2>3, <2>4, Zenon
    <2> QED
      BY <1>2, <2>5, Zenon DEF Held
  <1> QED
    BY <1>2, <1>8, <1>9, <1>10, Zenon

\* What is done is the token of every used head.
Tokens(u, tok) == [k \in 1..Len(u) |-> tok[u[k]]]

LEMMA TokensAppend ==
  ASSUME NEW T, NEW u \in Seq(T), NEW h \in T, NEW tok
  PROVE  Append(Tokens(u, tok), tok[h]) = Tokens(Append(u, h), tok)
  <1> USE SMTT(30)
  <1>1. PICK n \in Nat : n = Len(u)
    OBVIOUS
  <1>2. PICK v : v = Append(u, h)
    BY Zenon
  <1>3. Len(v) = n + 1 /\ v[n + 1] = h /\ \A k \in 1..n : v[k] = u[k]
    BY <1>1, <1>2
  <1>4. PICK x, y : x = Tokens(u, tok) /\ y = Tokens(v, tok)
    BY Zenon
  <1>5. x = [k \in 1..n |-> tok[u[k]]] /\ y = [k \in 1..n + 1 |-> tok[v[k]]]
    BY <1>1, <1>3, <1>4, Zenon DEF Tokens
  <1>6. Append(x, tok[h]) = [k \in 1..n + 1 |-> IF k = n + 1 THEN tok[h] ELSE x[k]]
    <2>1. x \in Seq({tok[u[k]] : k \in 1..n}) /\ Len(x) = n
      BY <1>5
    <2> QED
      BY <2>1
  <1>7. ASSUME NEW k \in 1..n + 1 PROVE tok[v[k]] = IF k = n + 1 THEN tok[h] ELSE x[k]
    <2>1. CASE k = n + 1
      BY <1>3, <2>1, Zenon
    <2>2. CASE k # n + 1
      <3>1. k \in 1..n
        BY <2>2
      <3> QED
        BY <1>3, <1>5, <2>2, <3>1, Zenon
    <2> QED
      BY <2>1, <2>2, Zenon
  <1>8. y = Append(x, tok[h])
    BY <1>5, <1>6, <1>7, Zenon
  <1> QED
    BY <1>2, <1>4, <1>8, Zenon

LEMMA TokensTail ==
  ASSUME NEW T, NEW u \in Seq(T), u # <<>>, NEW tok
  PROVE  /\ Tokens(u, tok) # <<>> /\ Head(Tokens(u, tok)) = tok[Head(u)]
         /\ Tail(Tokens(u, tok)) = Tokens(Tail(u), tok)
  <1> USE SMTT(30)
  <1>1. PICK n \in Nat : n = Len(u) /\ n >= 1
    OBVIOUS
  <1>2. PICK v : v = Tail(u)
    BY Zenon
  <1>3. Len(v) = n - 1 /\ Head(u) = u[1] /\ \A k \in 1..n - 1 : v[k] = u[k + 1]
    BY <1>1, <1>2
  <1>4. PICK x, y : x = Tokens(u, tok) /\ y = Tokens(v, tok)
    BY Zenon
  <1>5. x = [k \in 1..n |-> tok[u[k]]] /\ y = [k \in 1..n - 1 |-> tok[v[k]]]
    BY <1>1, <1>3, <1>4, Zenon DEF Tokens
  <1>6. x \in Seq({tok[u[k]] : k \in 1..n}) /\ Len(x) = n
    BY <1>5
  <1>7. x # <<>> /\ Head(x) = x[1] /\ x[1] = tok[u[1]]
    BY <1>1, <1>5, <1>6
  <1>8. Tail(x) = [k \in 1..n - 1 |-> x[k + 1]]
    <2>1. PICK z : z = Tail(x)
      BY Zenon
    <2>2. PICK S : x \in Seq(S)
      BY <1>6, Zenon
    <2>3. z \in Seq(S) /\ Len(z) = n - 1 /\ \A k \in 1..n - 1 : z[k] = x[k + 1]
      BY <1>1, <1>6, <2>1, <2>2
    <2>4. z = [k \in 1..n - 1 |-> z[k]]
      BY <1>1, <2>3
    <2> QED
      BY <2>1, <2>3, <2>4, Zenon
  <1>9. ASSUME NEW k \in 1..n - 1 PROVE tok[v[k]] = x[k + 1]
    <2>1. k + 1 \in 1..n
      OBVIOUS
    <2> QED
      BY <1>3, <1>5, <2>1, Zenon
  <1>10. Tail(x) = y
    BY <1>5, <1>8, <1>9, ZenonT(60)
  <1> QED
    BY <1>2, <1>3, <1>4, <1>7, <1>10, Zenon

\* The device uses a chain: what it reports is the token filed under the head.
LEMMA UseStep ==
  ASSUME SplitAssumption, SplitInv, split_device_use
  PROVE  /\ SplitInv' /\ Free' = Free /\ split_got' = split_got
         /\ \E t \in Held : Held' = Held \ {t} /\ split_done' = Append(split_done, t)
  <1>1. /\ used_ring \in Ring /\ used_ring.ring \in [SplitCells -> SplitCells] /\ used_ring.idx \in RingIndexes
        /\ read_idx \in RingIndexes
        /\ Chains(descr_table, split_indexes, token_ring, split_dispatched)
        /\ Apart(AvailSeq, UsedSeq, split_inflight, Pushed, Live(token_ring))
        /\ split_done = [k \in 1..Len(UsedSeq) |-> token_ring[UsedSeq[k]]]
    BY Parts, Zenon
  <1>2. PICK h \in split_inflight :
          /\ used_ring' = [idx |-> After(used_ring.idx), ring |-> [used_ring.ring EXCEPT ![Slot(used_ring.idx)] = h]]
          /\ split_inflight' = split_inflight \ {h}
          /\ split_done' = Append(split_done, [buf |-> descr_table[h].buf, n |-> Len(chain(h))])
          /\ push_pc' = push_pc /\ push_head' = push_head /\ split_indexes' = split_indexes
          /\ descr_table' = descr_table /\ token_ring' = token_ring /\ split_dispatched' = split_dispatched
          /\ avail_ring' = avail_ring /\ dev_idx' = dev_idx /\ read_idx' = read_idx /\ split_got' = split_got
    BY Zenon DEF split_device_use, Slot, After
  <1>3. PICK a, u, I, P, L : a = AvailSeq /\ u = UsedSeq /\ I = split_inflight /\ P = Pushed /\ L = Live(token_ring)
    BY Zenon
  <1>4. Apart(a, u, I, P, L) /\ h \in I
    BY <1>1, <1>3, Zenon
  <1>5. h \in L /\ u \in Seq(L)
    BY <1>4, Zenon DEF Apart
  <1>6. h \in SplitCells /\ token_ring[h] # NoToken
    BY <1>3, <1>5, Zenon DEF Live
  <1>7. PICK t \in SplitTokens : t = token_ring[h] /\ [buf |-> descr_table[h].buf, n |-> Len(chain(h))] = t
    BY <1>6, ChainOf, Zenon
  <1>8. PICK arr \in [SplitCells -> SplitCells], to \in RingIndexes : arr = used_ring.ring /\ to = used_ring.idx
    BY <1>1, Zenon
  <1>9. Slot(to) \in SplitCells
    <2>1. to \in Nat
      BY SMT DEF RingIndexes
    <2>2. \A x \in Nat : x % SplitSize \in SplitCells
      BY SplitFacts, Zenon
    <2> QED
      BY <2>1, <2>2, Zenon DEF Slot
  <1>10. PICK arr2 : arr2 = [arr EXCEPT ![Slot(to)] = h]
    BY Zenon
  <1>11. arr2 \in [SplitCells -> SplitCells] /\ arr2[Slot(to)] = h /\ SameBut(arr, arr2, Slot(to))
    <2>1. arr2 \in [SplitCells -> SplitCells] /\ arr2[Slot(to)] = h
      BY <1>6, <1>9, <1>10, Zenon
    <2>2. SameBut(arr, arr2, Slot(to))
      BY <1>10, Zenon DEF SameBut
    <2> QED
      BY <2>1, <2>2
  <1>12. RingLen(read_idx, to) < SplitSize
    BY <1>8, RingRoom, Zenon
  <1>13. RingSeq(arr2, read_idx, to) = RingSeq(arr, read_idx, to)
    BY <1>1, <1>11, <1>12, RingWrite, ZenonT(60)
  <1>14. /\ After(to) \in RingIndexes
         /\ RingSeq(arr2, read_idx, After(to)) = Append(RingSeq(arr2, read_idx, to), arr2[Slot(to)])
    BY <1>1, <1>11, <1>12, RingMore, Zenon
  <1>15. used_ring'.ring = arr2 /\ used_ring'.idx = After(to) /\ used_ring' \in Ring
    <2>1. used_ring' = [idx |-> After(to), ring |-> arr2]
      BY <1>2, <1>8, <1>10, Zenon
    <2> QED
      BY <1>11, <1>14, <2>1, SMTT(30) DEF Ring
  <1>16. UsedSeq' = Append(u, h) /\ AvailSeq' = a /\ Pushed' = P
    <2>1. UsedSeq' = RingSeq(arr2, read_idx, After(to))
      BY <1>2, <1>15, Zenon DEF UsedSeq
    <2>2. u = RingSeq(arr, read_idx, to)
      BY <1>3, <1>8, Zenon DEF UsedSeq
    <2>3. AvailSeq' = a /\ Pushed' = P
      BY <1>2, <1>3, Zenon DEF AvailSeq, Pushed
    <2> QED
      BY <1>11, <1>13, <1>14, <2>1, <2>2, <2>3, Zenon
  <1>17. split_done' = Append(split_done, t)
    BY <1>2, <1>7, Zenon
  <1>18. Typed'
    BY <1>2, <1>15, Zenon DEF Typed, SplitInv
  <1>19. SplitInv'
    <2>1. Chains(descr_table', split_indexes', token_ring', split_dispatched')
      BY <1>1, <1>2, Zenon
    <2>2. Apart(AvailSeq', UsedSeq', split_inflight', Pushed', Live(token_ring'))
      <3>1. Apart(a, Append(u, h), I \ {h}, P, L)
        BY <1>4, ApartUse, Zenon
      <3> QED
        BY <1>2, <1>3, <1>16, <3>1, Zenon
    <2>3. split_done' = [k \in 1..Len(UsedSeq') |-> token_ring'[UsedSeq'[k]]]
      <3>1. PICK tok : tok = token_ring
        BY Zenon
      <3>2. split_done = Tokens(u, tok)
        BY <1>1, <1>3, <3>1, Zenon DEF Tokens
      <3>3. Append(Tokens(u, tok), tok[h]) = Tokens(Append(u, h), tok)
        BY <1>5, TokensAppend, ZenonT(60)
      <3>4. split_done' = Tokens(UsedSeq', token_ring')
        BY <1>2, <1>7, <1>16, <1>17, <3>1, <3>2, <3>3, Zenon
      <3> QED
        BY <3>4, Zenon DEF Tokens
    <2>4. push_pc' = "publish" => avail_ring'.ring[avail_ring'.idx % SplitSize] = push_head'
      BY <1>2, Zenon DEF SplitInv
    <2> QED
      BY <1>18, <2>1, <2>2, <2>3, <2>4, Zenon DEF SplitInv
  <1>20. Free' = Free
    BY <1>2, Zenon DEF Free
  <1>21. t \in Held /\ Held' = Held \ {t}
    <2>1. OwnedHeads = I \cup Heads(a) /\ OwnedHeads \subseteq L
      BY <1>3, OwnedAre, Zenon DEF Heads
    <2>2. h \notin Heads(a)
      BY <1>4, ZenonT(60) DEF Apart, Heads, Cells
    <2>3. OwnedHeads' = split_inflight' \cup Heads(AvailSeq')
      <3>1. /\ avail_ring.ring \in [SplitCells -> SplitCells] /\ avail_ring.idx \in RingIndexes
            /\ dev_idx \in RingIndexes
        BY Parts, Zenon
      <3>2. avail_ring'.ring \in [SplitCells -> SplitCells] /\ avail_ring'.idx \in RingIndexes /\ dev_idx' \in RingIndexes
        BY <1>2, <3>1, Zenon
      <3> QED
        BY <3>2, RingSet, Zenon DEF OwnedHeads, AvailSeq, Heads
    <2>4. OwnedHeads' = OwnedHeads \ {h} /\ h \in OwnedHeads
      BY <1>2, <1>3, <1>4, <1>16, <2>1, <2>2, <2>3, Zenon
    <2>5. ASSUME NEW g \in OwnedHeads, token_ring[g] = t PROVE g = h
      <3>1. g \in SplitCells /\ token_ring[g] # NoToken
        BY <1>3, <2>1, Zenon DEF Live
      <3>2. token_ring[g].buf = token_ring[h].buf
        BY <1>7, <2>5, Zenon
      <3>3. \A x, y \in SplitCells :
              token_ring[x] # NoToken /\ token_ring[y] # NoToken /\ token_ring[x].buf = token_ring[y].buf => x = y
        BY <1>1, Zenon DEF Chains
      <3> QED
        BY <1>6, <3>1, <3>2, <3>3, Zenon
    <2>6. Held = {token_ring[g] : g \in OwnedHeads} /\ Held' = {token_ring[g] : g \in OwnedHeads \ {h}}
      BY <1>2, <2>4, Zenon DEF Held
    <2>7. t \in Held
      BY <1>7, <2>4, <2>6, Zenon
    <2>8. ASSUME NEW x \in Held' PROVE x \in Held \ {t}
      <3>1. PICK g \in OwnedHeads \ {h} : x = token_ring[g]
        BY <2>6, <2>8, Zenon
      <3> QED
        BY <2>5, <2>6, <3>1, Zenon
    <2>9. ASSUME NEW x \in Held \ {t} PROVE x \in Held'
      <3>1. PICK g \in OwnedHeads : x = token_ring[g]
        BY <2>6, <2>9, Zenon
      <3>2. g # h
        BY <1>7, <2>9, <3>1, Zenon
      <3> QED
        BY <2>6, <3>1, <3>2, Zenon
    <2> QED
      BY <2>7, <2>8, <2>9, Zenon
  <1> QED
    BY <1>2, <1>17, <1>19, <1>20, <1>21, Zenon

\* The driver takes the first used chain, and returns its descriptors.
LEMMA RecvStep ==
  ASSUME SplitAssumption, SplitInv, try_recv
  PROVE  /\ SplitInv' /\ split_done # <<>> /\ split_got' = Head(split_done) /\ split_done' = Tail(split_done)
         /\ Free' = Free + Head(split_done).n /\ Held' = Held
  <1>1. /\ used_ring.ring \in [SplitCells -> SplitCells] /\ used_ring.idx \in RingIndexes
        /\ read_idx \in RingIndexes
        /\ split_indexes \in SUBSET SplitCells
        /\ token_ring \in [SplitCells -> SplitTokens \cup {NoToken}]
        /\ Chains(descr_table, split_indexes, token_ring, split_dispatched)
        /\ Apart(AvailSeq, UsedSeq, split_inflight, Pushed, Live(token_ring))
        /\ split_done = [k \in 1..Len(UsedSeq) |-> token_ring[UsedSeq[k]]]
    BY Parts, Zenon
  <1>2. PICK id : id = used_ring.ring[Slot(read_idx)]
    BY Zenon
  <1>3. /\ push_pc = "idle" /\ read_idx # used_ring.idx
        /\ split_got' = token_ring[id]
        /\ token_ring' = [token_ring EXCEPT ![id] = NoToken]
        /\ split_indexes' = split_indexes \ {chain(id)[k] : k \in DOMAIN chain(id)}
        /\ read_idx' = After(read_idx) /\ split_done' = Tail(split_done)
        /\ push_pc' = push_pc /\ push_head' = push_head
        /\ descr_table' = descr_table /\ split_dispatched' = split_dispatched
        /\ avail_ring' = avail_ring /\ used_ring' = used_ring /\ dev_idx' = dev_idx /\ split_inflight' = split_inflight
    BY <1>2, Zenon DEF try_recv, Slot, After
  <1>4. PICK a, u, I, P, tok : a = AvailSeq /\ u = UsedSeq /\ I = split_inflight /\ P = Pushed /\ tok = token_ring
    BY Zenon
  <1>5. PICK L : L = Live(tok)
    BY Zenon
  <1>6. Apart(a, u, I, P, L)
    BY <1>1, <1>4, <1>5, Zenon
  <1>7. /\ After(read_idx) \in RingIndexes
        /\ u # <<>> /\ Head(u) = id
        /\ RingSeq(used_ring.ring, After(read_idx), used_ring.idx) = Tail(u)
    BY <1>1, <1>2, <1>3, <1>4, RingLess, ZenonT(60) DEF UsedSeq
  <1>8. UsedSeq' = Tail(u) /\ AvailSeq' = a /\ Pushed' = P /\ OwnedHeads' = OwnedHeads
    BY <1>3, <1>4, <1>7, Zenon DEF AvailSeq, UsedSeq, Pushed, OwnedHeads
  <1>9. u \in Seq(L) /\ 1 \in 1..Len(u) /\ id = u[1] /\ id \in L
    <2>1. u \in Seq(L)
      BY <1>6, Zenon DEF Apart
    <2> QED
      BY <1>7, <2>1, SMTT(30)
  <1>10. id \in SplitCells /\ tok[id] # NoToken
    BY <1>5, <1>9, Zenon DEF Live
  <1>11. PICK t \in SplitTokens : t = tok[id]
    BY <1>4, <1>10, ChainOf, Zenon
  <1>12. PICK c : c = chain(id) /\ IsChain(descr_table, split_indexes, t, id, c) /\ DOMAIN c = 1..t.n
    BY <1>4, <1>10, <1>11, ChainOf, Zenon
  <1>13. split_indexes' = split_indexes \ Cells(c, t.n)
    BY <1>3, <1>12, Zenon DEF Cells
  <1>14. PICK tok2 : tok2 = token_ring' /\ tok2 = [tok EXCEPT ![id] = NoToken]
    BY <1>3, <1>4, Zenon
  <1>15. tok2[id] = NoToken /\ \A h \in SplitCells : h # id => tok2[h] = tok[h]
    BY <1>1, <1>4, <1>10, <1>14, Zenon
  <1>16. Live(tok2) = L \ {id} /\ \A h \in L : h # id => tok2[h] = tok[h]
    BY <1>5, <1>15, Zenon DEF Live
  <1>17. \A k \in 1..Len(Tail(u)) : Tail(u)[k] \in L /\ Tail(u)[k] # id
    <2>1. PICK v : v = Tail(u)
      BY Zenon
    <2>2. Apart(a, v, I, P, L \ {id})
      BY <1>6, <1>7, <2>1, ApartRecv, Zenon
    <2>3. v \in Seq(L \ {id})
      BY <2>2, Zenon DEF Apart
    <2>4. \A k \in 1..Len(v) : v[k] \in L \ {id}
      BY <2>3, SMT
    <2> QED
      BY <2>1, <2>4, Zenon
  <1>18. Typed'
    <2>1. token_ring' \in [SplitCells -> SplitTokens \cup {NoToken}]
      <3>1. PICK T : T = SplitTokens \cup {NoToken} /\ tok \in [SplitCells -> T] /\ NoToken \in T
        BY <1>1, <1>4, Zenon
      <3>2. [tok EXCEPT ![id] = NoToken] \in [SplitCells -> T]
        BY <3>1, Zenon
      <3> QED
        BY <1>14, <3>1, <3>2, Zenon
    <2>2. split_indexes' \subseteq SplitCells
      BY <1>1, <1>13, Zenon
    <2> QED
      BY <1>3, <1>7, <2>1, <2>2, Zenon DEF Typed, SplitInv
  <1>19. split_done = Tokens(u, tok)
    BY <1>1, <1>4, Zenon DEF Tokens
  <1>20. /\ split_done # <<>> /\ Head(split_done) = t
         /\ Tail(split_done) = Tokens(Tail(u), tok)
    <2>1. /\ Tokens(u, tok) # <<>> /\ Head(Tokens(u, tok)) = tok[Head(u)]
          /\ Tail(Tokens(u, tok)) = Tokens(Tail(u), tok)
      BY <1>7, <1>9, TokensTail, Zenon
    <2> QED
      BY <1>7, <1>11, <1>19, <2>1, Zenon
  <1>21. SplitInv'
    <2>1. Chains(descr_table', split_indexes', token_ring', split_dispatched')
      <3>1. PICK d, idx, max : d = descr_table /\ idx = split_indexes /\ max = split_dispatched
        BY Zenon
      <3>2. /\ Chains(d, idx, tok, max) /\ IsChain(d, idx, tok[id], id, c) /\ idx \in SUBSET SplitCells
            /\ tok \in [SplitCells -> SplitTokens \cup {NoToken}]
        BY <1>1, <1>4, <1>11, <1>12, <3>1, Zenon
      <3>3. Chains(d, idx \ Cells(c, tok[id].n), [tok EXCEPT ![id] = NoToken], max)
        BY <1>10, <3>2, ChainsRecv, Zenon
      <3> QED
        BY <1>3, <1>11, <1>13, <1>14, <3>1, <3>3, Zenon
    <2>2. Apart(AvailSeq', UsedSeq', split_inflight', Pushed', Live(token_ring'))
      <3>1. Apart(a, Tail(u), I, P, L \ {Head(u)})
        BY <1>6, <1>7, ApartRecv, Zenon
      <3> QED
        BY <1>3, <1>4, <1>7, <1>8, <1>14, <1>16, <3>1, Zenon
    <2>3. split_done' = [k \in 1..Len(UsedSeq') |-> token_ring'[UsedSeq'[k]]]
      <3>1. PICK v : v = Tail(u)
        BY Zenon
      <3>2. \A k \in 1..Len(v) : tok2[v[k]] = tok[v[k]]
        BY <1>16, <1>17, <3>1, Zenon
      <3>3. Tokens(v, tok) = Tokens(v, tok2)
        BY <3>2, Zenon DEF Tokens
      <3>4. split_done' = Tokens(UsedSeq', token_ring')
        BY <1>3, <1>8, <1>14, <1>20, <3>1, <3>3, Zenon
      <3> QED
        BY <3>4, Zenon DEF Tokens
    <2>4. push_pc' # "publish"
      BY <1>3, SMT
    <2> QED
      BY <1>18, <2>1, <2>2, <2>3, <2>4, Zenon DEF SplitInv
  <1>22. Free' = Free + t.n
    <2>1. /\ Cells(c, t.n) \subseteq split_indexes /\ IsFiniteSet(split_indexes)
          /\ IsFiniteSet(Cells(c, t.n)) /\ Cardinality(Cells(c, t.n)) = t.n
      <3>1. Sized(c, t.n, id, split_indexes)
        BY <1>1, <1>12, ChainSize, Zenon
      <3> QED
        BY <3>1, Zenon DEF Sized
    <2>2. PICK x \in Nat, m \in Nat : x = Cardinality(split_indexes) /\ m = t.n
      BY <2>1, FS_CardinalityType, TokenIs, Zenon
    <2>3. Cardinality(split_indexes \ Cells(c, t.n)) = x - m
      BY <2>1, <2>2, ReturnedCells, Zenon
    <2>4. Free = SplitSize - x + 0
      BY <1>3, <2>2, Zenon DEF Free
    <2>5. Free' = SplitSize - (x - m) + 0
      BY <1>3, <1>13, <2>3, Zenon DEF Free
    <2>6. SplitSize \in Nat
      BY SplitFacts, Zenon
    <2> QED
      BY <2>2, <2>4, <2>5, <2>6, SMT
  <1>23. Held' = Held
    <2>1. /\ OwnedHeads \subseteq L
          /\ \A k \in 1..Len(u) : u[k] \notin OwnedHeads
      BY <1>4, <1>5, OwnedAre, Zenon
    <2>2. id \notin OwnedHeads
      BY <1>9, <2>1, Zenon
    <2>3. \A h \in OwnedHeads : token_ring'[h] = token_ring[h]
      BY <1>4, <1>14, <1>16, <2>1, <2>2, Zenon
    <2> QED
      BY <1>8, <2>3, Zenon DEF Held
  <1> QED
    BY <1>3, <1>4, <1>11, <1>20, <1>21, <1>22, <1>23, Zenon

-----------------------------------------------------------------------------
(***************************************************************************)
(* The theorems.                                                           *)
(***************************************************************************)
LEMMA SplitInitInv ==
  ASSUME SplitAssumption, SplitInit
  PROVE  SplitInv /\ Free = SplitSize /\ Held = {} /\ split_done = <<>>
  <1>1. /\ SplitSize \in Nat /\ SplitSize > 0 /\ IdxMod \in Nat /\ IdxMod > SplitSize /\ SplitMaxBuffers \in Nat
    BY SplitFacts, SMT DEF SplitAssumption
  <1>2. 0 \in RingIndexes /\ 0 \in SplitCells /\ 0 \in 0..SplitMaxBuffers
    BY <1>1, SMT DEF RingIndexes, SplitCells
  <1>3. /\ split_indexes = {} /\ token_ring = [i \in SplitCells |-> NoToken]
        /\ avail_ring = [idx |-> 0, ring |-> [i \in SplitCells |-> 0]]
        /\ used_ring = [idx |-> 0, ring |-> [i \in SplitCells |-> 0]]
        /\ read_idx = 0 /\ dev_idx = 0 /\ push_pc = "idle" /\ split_inflight = {}
        /\ split_done = <<>> /\ split_dispatched = 0
    BY Zenon DEF SplitInit
  <1>4. /\ avail_ring.ring = [i \in SplitCells |-> 0] /\ avail_ring.idx = 0
        /\ used_ring.ring = [i \in SplitCells |-> 0] /\ used_ring.idx = 0
    BY <1>3, SMT
  <1>5. PICK arr \in [SplitCells -> SplitCells] : arr = [i \in SplitCells |-> 0]
    BY <1>2, Zenon
  <1>6. avail_ring \in Ring /\ used_ring \in Ring
    BY <1>2, <1>3, <1>5, SMT DEF Ring
  <1>7. RingSeq(arr, 0, 0) = <<>>
    BY <1>2, RingIs, Zenon
  <1>8. AvailSeq = <<>> /\ UsedSeq = <<>>
    BY <1>3, <1>4, <1>5, <1>7, Zenon DEF AvailSeq, UsedSeq
  <1>9. \A h \in SplitCells : token_ring[h] = NoToken
    BY <1>3, Zenon
  <1>10. Live(token_ring) = {} /\ Pushed = {}
    BY <1>3, <1>9, Zenon DEF Live, Pushed
  <1>11. Apart(<<>>, <<>>, {}, {}, {})
    <2>1. <<>> \in Seq({}) /\ 1..Len(<<>>) = {}
      BY SMT
    <2> QED
      BY <2>1, Zenon DEF Apart
  <1>12. Typed
    BY <1>2, <1>3, <1>6, Zenon DEF Typed
  <1>13. push_pc # "publish"
    BY <1>3, SMT
  <1>14. Chains(descr_table, split_indexes, token_ring, split_dispatched)
    BY <1>9, Zenon DEF Chains
  <1>15. split_done = [k \in 1..Len(UsedSeq) |-> token_ring[UsedSeq[k]]]
    <2>1. Len(<<>>) = 0 /\ 1..0 = {}
      BY SMT
    <2>2. <<>> = [k \in 1..Len(<<>>) |-> token_ring[<<>>[k]]]
      BY <2>1, SMT
    <2> QED
      BY <1>3, <1>8, <2>2, Zenon
  <1>16. SplitInv
    BY <1>3, <1>8, <1>10, <1>11, <1>12, <1>13, <1>14, <1>15, Zenon DEF SplitInv
  <1>17. Free = SplitSize
    <2>1. Cardinality(split_indexes) = 0
      BY <1>3, FS_EmptySet, Zenon
    <2>2. Free = SplitSize - 0 + 0
      BY <1>3, <2>1, Zenon DEF Free
    <2> QED
      BY <1>1, <2>2, SMT
  <1>18. Held = {}
    <2>1. OwnedHeads \subseteq Live(token_ring)
      BY <1>16, OwnedAre, Zenon
    <2> QED
      BY <1>10, <2>1, Zenon DEF Held
  <1> QED
    BY <1>3, <1>16, <1>17, <1>18, Zenon

LEMMA SplitStep ==
  ASSUME SplitAssumption, SplitInv, [SplitNext]_split_vars
  PROVE  SplitInv'
  <1>1. CASE SplitNext
    <2>1. ASSUME NEW n \in SplitLengths, push(n) PROVE SplitInv'
      BY <2>1, PushStep, Zenon
    <2>2. ASSUME NEW n \in SplitLengths, push_fails(n) PROVE SplitInv'
      BY <2>2, FailStep, Zenon
    <2>3. CASE push_entry
      BY <2>3, EntryStep, Zenon
    <2>4. CASE push_publish
      BY <2>4, PublishStep, Zenon
    <2>5. CASE try_recv
      BY <2>5, RecvStep, Zenon
    <2>6. CASE split_device_fetch
      BY <2>6, FetchStep, Zenon
    <2>7. CASE split_device_use
      BY <2>7, UseStep, Zenon
    <2> QED
      BY <1>1, <2>1, <2>2, <2>3, <2>4, <2>5, <2>6, <2>7, Zenon DEF SplitNext
  <1>2. CASE UNCHANGED split_vars
    <2>1. /\ split_indexes' = split_indexes /\ descr_table' = descr_table /\ token_ring' = token_ring
          /\ avail_ring' = avail_ring /\ used_ring' = used_ring /\ read_idx' = read_idx /\ push_pc' = push_pc
          /\ push_head' = push_head /\ dev_idx' = dev_idx /\ split_inflight' = split_inflight
          /\ split_done' = split_done /\ split_dispatched' = split_dispatched
      BY <1>2, Zenon DEF split_vars
    <2> QED
      BY <2>1, Zenon DEF SplitInv, Typed, AvailSeq, UsedSeq, Pushed
  <1> QED
    BY <1>1, <1>2, Zenon

LEMMA SplitAlways ==
  ASSUME SplitAssumption
  PROVE  SplitSpec => []SplitInv
  <1>1. SplitInit => SplitInv
    BY SplitInitInv, Zenon
  <1>2. SplitInv /\ [SplitNext]_split_vars => SplitInv'
    BY SplitStep, Zenon
  <1> QED
    BY <1>1, <1>2, PTL DEF SplitSpec

\* The types of the split queue: indexes that wrap stay below the modulus and
\* no more buffers are dispatched than the bound allows.
THEOREM SplitTypeCorrect ==
  ASSUME SplitAssumption
  PROVE  SplitSpec => []SplitTypeOK
  <1>1. SplitInv => SplitTypeOK
    <2> SUFFICES ASSUME SplitInv PROVE SplitTypeOK
      OBVIOUS
    <2>1. split_inflight \subseteq SplitCells
      <3>1. /\ Apart(AvailSeq, UsedSeq, split_inflight, Pushed, Live(token_ring))
            /\ Live(token_ring) \in SUBSET SplitCells
        BY Parts, Zenon
      <3>2. split_inflight \subseteq Live(token_ring)
        BY <3>1, Zenon DEF Apart
      <3> QED
        BY <3>1, <3>2, Zenon
    <2> QED
      BY <2>1, Parts, Zenon DEF SplitTypeOK, RingIndexes
  <1> QED
    BY <1>1, SplitAlways, PTL

\* A chain the device owns is whole, belongs to the buffer filed under its head
\* and is as long as its token says (push, try_recv and IndexAlloc of
\* virtqueue/split.rs and mod.rs): for every size and any number of turns of
\* the rings.
THEOREM ChainIsIntactCorrect ==
  ASSUME SplitAssumption
  PROVE  SplitSpec => []ChainIsIntact
  <1>1. SplitInv => ChainIsIntact
    <2> SUFFICES ASSUME SplitInv, NEW head \in OwnedHeads
                 PROVE  /\ token_ring[head].n = Len(chain(head))
                        /\ \A k \in DOMAIN chain(head) :
                             /\ chain(head)[k] \in split_indexes
                             /\ descr_table[chain(head)[k]].buf = token_ring[head].buf
                             /\ descr_table[chain(head)[k]].elem = k
      BY Zenon DEF ChainIsIntact
    <2>1. head \in SplitCells /\ token_ring[head] # NoToken
      BY OwnedAre, Zenon DEF Live
    <2>2. PICK c, t : c = chain(head) /\ t = token_ring[head]
      BY Zenon
    <2>3. IsChain(descr_table, split_indexes, t, head, c) /\ DOMAIN c = 1..t.n /\ Len(c) = t.n
      BY <2>1, <2>2, ChainOf, Zenon
    <2>4. Carried(descr_table, split_indexes, t, c)
      BY <2>3, Carries, Zenon
    <2> QED
      BY <2>2, <2>3, <2>4, Zenon DEF Carried
  <1> QED
    BY <1>1, SplitAlways, PTL

\* The split virtqueue implements BufferQueue: every step of the driver and of
\* the device is a dispatch, a refused dispatch, a completion or a try_recv of
\* the abstract queue, or changes nothing there.  So try_recv returns what the
\* device used, in that order, and exactly the descriptors of that buffer are
\* free again (DescrRing::push and try_recv of virtqueue/split.rs).
THEOREM SplitImplementsQueue ==
  ASSUME SplitAssumption
  PROVE  SplitSpec => /\ SplitQueue!InitQueue(SplitSize)
                      /\ [][SplitQueue!QueueNext(SplitTokens)]_(SplitQueue!bufferqueue_vars)
  <1>1. SplitInit => SplitQueue!InitQueue(SplitSize)
    <2> SUFFICES ASSUME SplitInit PROVE SplitQueue!InitQueue(SplitSize)
      OBVIOUS
    <2>1. Free = SplitSize /\ Held = {} /\ split_done = <<>> /\ split_got = NoToken
      BY SplitInitInv, Zenon DEF SplitInit
    <2> QED
      BY <2>1, Zenon DEF SplitQueue!InitQueue, SplitQueue!Nothing, NoToken, Free, Held
  <1>2. SplitInv /\ [SplitNext]_split_vars
          => [SplitQueue!QueueNext(SplitTokens)]_(SplitQueue!bufferqueue_vars)
    <2> SUFFICES ASSUME SplitInv, [SplitNext]_split_vars
                 PROVE  [SplitQueue!QueueNext(SplitTokens)]_(SplitQueue!bufferqueue_vars)
      OBVIOUS
    <2> DEFINE Same == Free' = Free /\ Held' = Held /\ split_done' = split_done /\ split_got' = split_got
               Step == SplitQueue!QueueNext(SplitTokens) \/ UNCHANGED SplitQueue!bufferqueue_vars
    <2>1. ASSUME Same PROVE Step
      BY <2>1, Zenon DEF SplitQueue!bufferqueue_vars, Free, Held
    <2>2. ASSUME NEW n \in SplitLengths, push(n) PROVE Step
      <3>1. Same
        BY <2>2, PushStep, Zenon
      <3> QED
        BY <2>1, <3>1, Zenon
    <2>3. ASSUME NEW n \in SplitLengths, push_fails(n) PROVE Step
      <3>1. Free' = 0 /\ Held' = Held /\ split_done' = split_done /\ split_got' = split_got
        BY <2>3, FailStep, Zenon
      <3>2. SplitQueue!refuse
        BY <3>1, Zenon DEF SplitQueue!refuse, Free, Held
      <3> QED
        BY <3>2, Zenon DEF SplitQueue!QueueNext
    <2>4. CASE push_entry
      <3>1. Same
        BY <2>4, EntryStep, Zenon
      <3> QED
        BY <2>1, <3>1, Zenon
    <2>5. CASE push_publish
      <3>1. split_done' = split_done /\ split_got' = split_got
        BY <2>5, PublishStep, Zenon
      <3>2. PICK t \in SplitTokens : t.n <= Free /\ Free' = Free - t.n /\ Held' = Held \cup {t}
        BY <2>5, PublishStep, Zenon
      <3>3. SplitQueue!dispatch(t)
        BY <3>1, <3>2, Zenon DEF SplitQueue!dispatch, Free, Held
      <3> QED
        BY <3>3, Zenon DEF SplitQueue!QueueNext
    <2>6. CASE try_recv
      <3>1. /\ split_done # <<>> /\ split_got' = Head(split_done) /\ split_done' = Tail(split_done)
            /\ Free' = Free + Head(split_done).n /\ Held' = Held
        BY <2>6, RecvStep, Zenon
      <3>2. SplitQueue!try_recv
        BY <3>1, Zenon DEF SplitQueue!try_recv, Free, Held
      <3> QED
        BY <3>2, Zenon DEF SplitQueue!QueueNext
    <2>7. CASE split_device_fetch
      <3>1. Same
        BY <2>7, FetchStep, Zenon
      <3> QED
        BY <2>1, <3>1, Zenon
    <2>8. CASE split_device_use
      <3>1. Free' = Free /\ split_got' = split_got
        BY <2>8, UseStep, Zenon
      <3>2. PICK t \in Held : Held' = Held \ {t} /\ split_done' = Append(split_done, t)
        BY <2>8, UseStep, Zenon
      <3>3. SplitQueue!complete
        BY <3>1, <3>2, Zenon DEF SplitQueue!complete, Free, Held
      <3> QED
        BY <3>3, Zenon DEF SplitQueue!QueueNext
    <2>9. CASE UNCHANGED split_vars
      <3>1. /\ split_indexes' = split_indexes /\ token_ring' = token_ring
            /\ avail_ring' = avail_ring /\ push_pc' = push_pc
            /\ push_head' = push_head /\ dev_idx' = dev_idx /\ split_inflight' = split_inflight
            /\ split_done' = split_done /\ split_got' = split_got
        BY <2>9, Zenon DEF split_vars
      <3>2. OwnedHeads' = OwnedHeads
        BY <3>1, Zenon DEF OwnedHeads
      <3>3. Free' = Free
        BY <3>1, Zenon DEF Free
      <3>4. Held' = Held
        BY <3>1, <3>2, Zenon DEF Held
      <3> QED
        BY <2>1, <3>1, <3>3, <3>4, Zenon
    <2> QED
      BY <2>2, <2>3, <2>4, <2>5, <2>6, <2>7, <2>8, <2>9, Zenon DEF SplitNext
  <1> QED
    BY <1>1, <1>2, SplitAlways, PTL DEF SplitSpec
=============================================================================

----------------------------- MODULE ConsoleLog -----------------------------
(***************************************************************************)
(* The ring in which the kernel keeps the last CONSOLE_LOG_CAPACITY bytes  *)
(* it printed (kernel/src/console_log.rs).  Every operation runs under one *)
(* interrupt-safe ticket lock, so it is one step.  tail is a history       *)
(* variable: the bytes a reader is entitled to, kept without a ring.       *)
(***************************************************************************)
EXTENDS Integers, Sequences, TLAPS

CONSTANTS CONSOLE_LOG_CAPACITY, Bytes

ASSUME CapacityAssumption == CONSOLE_LOG_CAPACITY \in Nat \ {0}

VARIABLES buffer, start, len, capture_enabled, tail

logVars == <<buffer, start, len, capture_enabled, tail>>

Slots == 0 .. CONSOLE_LOG_CAPACITY - 1

LogTypeOK ==
    /\ buffer \in [Slots -> Bytes]
    /\ start \in Slots
    /\ len \in 0 .. CONSOLE_LOG_CAPACITY
    /\ capture_enabled \in BOOLEAN
    /\ tail \in Seq(Bytes)

LogInit ==
    /\ buffer \in {[i \in Slots |-> b] : b \in {CHOOSE b \in Bytes : TRUE}}
    /\ start = 0
    /\ len = 0
    /\ capture_enabled = TRUE
    /\ tail = <<>>

-----------------------------------------------------------------------------
LastOf(s, n) == SubSeq(s, Len(s) - n + 1, Len(s))

KeepTail(bytes) ==
    LET all == tail \o bytes
    IN  tail' = LastOf(all, IF Len(all) > CONSOLE_LOG_CAPACITY
                            THEN CONSOLE_LOG_CAPACITY ELSE Len(all))

append_ignored(bytes) ==
    /\ ~capture_enabled \/ bytes = <<>>
    /\ UNCHANGED logVars

append_overlong(bytes) ==
    /\ capture_enabled
    /\ Len(bytes) >= CONSOLE_LOG_CAPACITY
    /\ buffer' = [i \in Slots |-> bytes[Len(bytes) - CONSOLE_LOG_CAPACITY + i + 1]]
    /\ start' = 0
    /\ len' = CONSOLE_LOG_CAPACITY
    /\ KeepTail(bytes)
    /\ UNCHANGED capture_enabled

\* Mutant: the length shrinks for the bytes dropped, the start stays.
append_fits_in_place(bytes) ==
    LET free     == CONSOLE_LOG_CAPACITY - len
        drop_len == IF Len(bytes) > free THEN Len(bytes) - free ELSE 0
        at       == (start + len - drop_len) % CONSOLE_LOG_CAPACITY
    IN  /\ capture_enabled
        /\ bytes # <<>>
        /\ Len(bytes) < CONSOLE_LOG_CAPACITY
        /\ buffer' = [i \in Slots |->
                        LET k == (i - at + CONSOLE_LOG_CAPACITY) % CONSOLE_LOG_CAPACITY
                        IN  IF k < Len(bytes) THEN bytes[k + 1] ELSE buffer[i]]
        /\ len' = len - drop_len + Len(bytes)
        /\ KeepTail(bytes)
        /\ UNCHANGED <<start, capture_enabled>>

\* Makes room by dropping the oldest bytes, then copies up to the end of the
\* buffer and, for what is left, from its beginning.
append_fits(bytes) ==
    LET free     == CONSOLE_LOG_CAPACITY - len
        drop_len == IF Len(bytes) > free THEN Len(bytes) - free ELSE 0
        start2   == (start + drop_len) % CONSOLE_LOG_CAPACITY
        len2     == len - drop_len
        at       == (start2 + len2) % CONSOLE_LOG_CAPACITY
        first    == IF CONSOLE_LOG_CAPACITY - at < Len(bytes)
                    THEN CONSOLE_LOG_CAPACITY - at ELSE Len(bytes)
        second   == Len(bytes) - first
    IN  /\ capture_enabled
        /\ bytes # <<>>
        /\ Len(bytes) < CONSOLE_LOG_CAPACITY
        /\ buffer' = [i \in Slots |->
                        IF i \in at .. at + first - 1 THEN bytes[i - at + 1]
                        ELSE IF i < second THEN bytes[first + i + 1]
                        ELSE buffer[i]]
        /\ start' = start2
        /\ len' = len2 + Len(bytes)
        /\ KeepTail(bytes)
        /\ UNCHANGED capture_enabled

append(bytes) ==
    append_ignored(bytes) \/ append_overlong(bytes) \/ append_fits(bytes)

\* The bytes read(offset, output) copies to an output of n bytes.
read(offset, n) ==
    LET read_len == IF offset >= len THEN 0
                    ELSE IF len - offset < n THEN len - offset ELSE n
        from     == (start + offset) % CONSOLE_LOG_CAPACITY
        first    == IF CONSOLE_LOG_CAPACITY - from < read_len
                    THEN CONSOLE_LOG_CAPACITY - from ELSE read_len
    IN  [i \in 1 .. read_len |-> IF i <= first THEN buffer[from + i - 1]
                                               ELSE buffer[i - first - 1]]

\* The static of the next boot.
LogRestart ==
    /\ buffer' = [i \in Slots |-> CHOOSE b \in Bytes : TRUE]
    /\ start' = 0
    /\ len' = 0
    /\ capture_enabled' = TRUE
    /\ tail' = <<>>

set_capture_enabled(enabled) ==
    /\ capture_enabled' = enabled
    /\ UNCHANGED <<buffer, start, len, tail>>

-----------------------------------------------------------------------------
\* Reading the ring from any offset gives the newest bytes that were
\* captured, in order, whatever wrapped (append and read of console_log.rs).
RingIsTail ==
    /\ len = Len(tail)
    /\ \A offset \in 0 .. len : read(offset, CONSOLE_LOG_CAPACITY) = LastOf(tail, len - offset)

-----------------------------------------------------------------------------
(* The log by itself: anything may be printed, capture switched and the    *)
(* machine rebooted any time.                                              *)

LogNext ==
    \/ \E bytes \in Seq(Bytes) : append(bytes)
    \/ \E enabled \in BOOLEAN : set_capture_enabled(enabled)
    \/ LogRestart

LogSpec == LogInit /\ [][LogNext]_logVars

\* Slot by slot, the ring holds the tail.
RingInv ==
    /\ start \in Slots
    /\ tail \in Seq(Bytes)
    /\ len = Len(tail) /\ len <= CONSOLE_LOG_CAPACITY
    /\ \A k \in 1 .. len : tail[k] = buffer[(start + k - 1) % CONSOLE_LOG_CAPACITY]

\* An index that has passed the end of the ring at most once.
LEMMA Wraps ==
    ASSUME NEW a \in Nat, a < 2 * CONSOLE_LOG_CAPACITY
    PROVE  /\ a < CONSOLE_LOG_CAPACITY => a % CONSOLE_LOG_CAPACITY = a
           /\ a >= CONSOLE_LOG_CAPACITY => a % CONSOLE_LOG_CAPACITY = a - CONSOLE_LOG_CAPACITY
BY CapacityAssumption, SMTT(60)

\* The slot of such an index, and the turn it made.
LEMMA SlotOf ==
    ASSUME NEW a \in Nat, a < 2 * CONSOLE_LOG_CAPACITY
    PROVE  /\ a % CONSOLE_LOG_CAPACITY \in Nat /\ a % CONSOLE_LOG_CAPACITY < CONSOLE_LOG_CAPACITY
           /\ \/ a % CONSOLE_LOG_CAPACITY = a
              \/ a % CONSOLE_LOG_CAPACITY = a - CONSOLE_LOG_CAPACITY
BY CapacityAssumption, Wraps, SMTT(60)

\* The last n elements of a sequence.
LEMMA LastOfIs ==
    ASSUME NEW S, NEW s \in Seq(S), NEW n \in Nat, n <= Len(s)
    PROVE  /\ LastOf(s, n) \in Seq(S) /\ Len(LastOf(s, n)) = n
           /\ \A k \in 1 .. n : LastOf(s, n)[k] = s[Len(s) - n + k]
BY SMTT(30) DEF LastOf

\* The same as a function.
LEMMA LastOfAre ==
    ASSUME NEW S, NEW s \in Seq(S), NEW n \in Nat, n <= Len(s)
    PROVE  LastOf(s, n) = [k \in 1 .. n |-> s[Len(s) - n + k]]
BY SMTT(30) DEF LastOf

\* A sequence behind another.
LEMMA Behind ==
    ASSUME NEW S, NEW s \in Seq(S), NEW t \in Seq(S)
    PROVE  /\ s \o t \in Seq(S) /\ Len(s \o t) = Len(s) + Len(t)
           /\ \A k \in 1 .. Len(s) : (s \o t)[k] = s[k]
           /\ \A k \in 1 .. Len(t) : (s \o t)[Len(s) + k] = t[k]
BY SMTT(30)

\* What KeepTail makes of the tail: drop bytes leave at its front.
LEMMA TailIs ==
    ASSUME RingInv, NEW bytes \in Seq(Bytes), KeepTail(bytes), NEW drop \in Nat,
           drop = IF len + Len(bytes) > CONSOLE_LOG_CAPACITY
                  THEN len + Len(bytes) - CONSOLE_LOG_CAPACITY ELSE 0
    PROVE  /\ tail' \in Seq(Bytes) /\ Len(tail') = len + Len(bytes) - drop
           /\ \A k \in 1 .. Len(tail') : k + drop <= len => tail'[k] = tail[k + drop]
           /\ \A k \in 1 .. Len(tail') : k + drop > len => tail'[k] = bytes[k + drop - len]
<1> USE SMTT(30)
<1> DEFINE all == tail \o bytes
           n == len + Len(bytes) - drop
<1>1. tail \in Seq(Bytes) /\ len = Len(tail) /\ len \in Nat /\ Len(bytes) \in Nat
  BY DEF RingInv
<1>2. /\ all \in Seq(Bytes) /\ Len(all) = len + Len(bytes)
      /\ \A k \in 1 .. len : all[k] = tail[k]
      /\ \A k \in 1 .. Len(bytes) : all[len + k] = bytes[k]
  BY <1>1, Behind
<1>3. tail' = LastOf(all, n)
  <2>1. tail' = LastOf(all, IF Len(all) > CONSOLE_LOG_CAPACITY
                            THEN CONSOLE_LOG_CAPACITY ELSE Len(all))
    BY Zenon DEF KeepTail
  <2> HIDE DEF all
  <2>2. n = IF Len(all) > CONSOLE_LOG_CAPACITY THEN CONSOLE_LOG_CAPACITY ELSE Len(all)
    BY <1>1, <1>2, CapacityAssumption
  <2> QED
    BY <2>1, <2>2, Zenon
<1> HIDE DEF all
<1>4. n \in Nat /\ n <= Len(all) /\ Len(all) - n = drop
  <2>1. len + Len(bytes) - drop \in Nat
    BY <1>1, CapacityAssumption
  <2> QED
    BY <1>1, <1>2, <2>1
<1> HIDE DEF n
<1>5. tail' \in Seq(Bytes) /\ Len(tail') = n /\ \A k \in 1 .. n : tail'[k] = all[drop + k]
  <2>1. /\ LastOf(all, n) \in Seq(Bytes) /\ Len(LastOf(all, n)) = n
        /\ \A k \in 1 .. n : LastOf(all, n)[k] = all[Len(all) - n + k]
    <3>1. all \in Seq(Bytes) /\ n \in Nat /\ n <= Len(all)
      BY <1>2, <1>4
    <3> QED
      BY <3>1, LastOfIs, Zenon
  <2> QED
    BY <1>3, <1>4, <2>1, Zenon
<1>6. ASSUME NEW k \in 1 .. n, k + drop <= len PROVE tail'[k] = tail[k + drop]
  <2>1. k + drop \in 1 .. len /\ drop + k = k + drop
    BY <1>1, <1>6 DEF n
  <2> QED
    BY <1>2, <1>5, <2>1
<1>7. ASSUME NEW k \in 1 .. n, k + drop > len PROVE tail'[k] = bytes[k + drop - len]
  <2>1. k + drop - len \in 1 .. Len(bytes) /\ drop + k = len + (k + drop - len)
    BY <1>1, <1>7 DEF n
  <2> QED
    BY <1>2, <1>5, <2>1
<1> QED
  BY <1>5, <1>6, <1>7 DEF n

\* Where append_fits copies: m bytes go behind the n of a ring of c slots whose first slot is s, the
\* first f of them up to the end of the buffer, and i is the slot of the k-th byte of the result.
LEMMA FitsIndices ==
    ASSUME NEW c \in Nat, NEW s \in Nat, NEW n \in Nat, NEW m \in Nat, NEW at \in Nat, NEW f \in Nat,
           NEW k \in Nat, NEW i \in Nat,
           s < c, n + m <= c, at < c, at = s + n \/ at = s + n - c,
           c - at < m => f = c - at, c - at >= m => f = m,
           1 <= k, k <= n + m, i < c, i = s + k - 1 \/ i = s + k - 1 - c
    PROVE  /\ k <= n => ~(i \in at .. at + f - 1) /\ ~(i < m - f)
           /\ k > n /\ i \in at .. at + f - 1 => i - at + 1 = k - n
           /\ k > n /\ ~(i \in at .. at + f - 1) => i < m - f /\ f + i + 1 = k - n
BY SMTT(60)

\* Indices that differ by turns of the ring are the same slot.
LEMMA SameSlot ==
    ASSUME NEW c \in Nat, NEW x \in Nat, NEW y \in Nat, x < c, y < c,
           x = y \/ x = y + c \/ x = y - c \/ x = y + 2 * c \/ x = y - 2 * c
    PROVE  x = y
BY SMTT(60)

\* A text as long as the ring replaces all of it.
LEMMA OverlongKeeps ==
    ASSUME RingInv, NEW bytes \in Seq(Bytes), append_overlong(bytes)
    PROVE  RingInv'
<1> USE SMTT(30)
<1> DEFINE C == CONSOLE_LOG_CAPACITY
           drop == len + Len(bytes) - C
<1>1. C \in Nat /\ C > 0 /\ len \in Nat /\ len <= C /\ Len(bytes) \in Nat /\ Len(bytes) >= C
  BY CapacityAssumption DEF RingInv, append_overlong
<1>2. /\ tail' \in Seq(Bytes) /\ Len(tail') = len + Len(bytes) - drop
      /\ \A k \in 1 .. Len(tail') : k + drop > len => tail'[k] = bytes[k + drop - len]
  <2>1. drop \in Nat /\ KeepTail(bytes)
    BY <1>1 DEF append_overlong
  <2>2. drop = IF len + Len(bytes) > C THEN len + Len(bytes) - C ELSE 0
    BY <1>1
  <2> QED
    BY <2>1, <2>2, TailIs
<1>3. start' = 0 /\ len' = C /\ buffer' = [i \in Slots |-> bytes[Len(bytes) - C + i + 1]]
  BY DEF append_overlong
<1>4. ASSUME NEW k \in 1 .. C PROVE tail'[k] = buffer'[(start' + k - 1) % C]
  <2>1. (start' + k - 1) % C = k - 1 /\ k - 1 \in Slots
    BY <1>1, <1>3, Wraps DEF Slots
  <2>2. buffer'[k - 1] = bytes[Len(bytes) - C + (k - 1) + 1]
    BY <1>3, <2>1
  <2>3. /\ Len(bytes) - C + (k - 1) + 1 = k + drop - len
        /\ k + drop > len /\ k \in 1 .. Len(tail')
    BY <1>1, <1>2
  <2> QED
    BY <1>2, <2>1, <2>2, <2>3
<1>5. start' \in Slots /\ Len(tail') = C /\ C <= C
  BY <1>1, <1>2, <1>3 DEF Slots
<1> QED
  BY <1>2, <1>3, <1>4, <1>5, Zenon DEF RingInv

\* A shorter text drops what it needs from the front, and goes behind the rest.
LEMMA FitsKeeps ==
    ASSUME RingInv, NEW bytes \in Seq(Bytes), append_fits(bytes)
    PROVE  RingInv'
<1> USE SMTT(30)
<1> DEFINE C == CONSOLE_LOG_CAPACITY
           L == Len(bytes)
           drop == IF L > C - len THEN L - (C - len) ELSE 0
           begin == start + drop
           start2 == begin % C
           len2 == len - drop
           end == start2 + len2
           at == end % C
           first == IF C - at < L THEN C - at ELSE L
           second == L - first
<1>1. /\ C \in Nat /\ C > 0 /\ len \in Nat /\ len <= C /\ start \in Nat /\ start < C
      /\ L \in Nat /\ L < C
  BY CapacityAssumption DEF RingInv, Slots, append_fits
<1>2. /\ buffer' = [i \in Slots |->
                      IF i \in at .. at + first - 1 THEN bytes[i - at + 1]
                      ELSE IF i < second THEN bytes[first + i + 1]
                      ELSE buffer[i]]
      /\ start' = start2 /\ len' = len2 + L /\ KeepTail(bytes)
  BY Zenon DEF append_fits
<1>3. /\ drop \in Nat /\ drop <= len /\ len2 \in Nat /\ len2 + L <= C /\ len2 = len - drop
      /\ drop = IF len + L > C THEN len + L - C ELSE 0
  BY <1>1
<1> HIDE DEF drop, len2, L, C
<1>4. start2 \in Nat /\ start2 < C /\ (start2 = start + drop \/ start2 = start + drop - C)
  <2>1. begin \in Nat /\ begin < 2 * C
    BY <1>1, <1>3
  <2> HIDE DEF begin
  <2>2. start2 \in Nat /\ start2 < C /\ (start2 = begin \/ start2 = begin - C)
    BY <2>1, SlotOf, Zenon DEF C
  <2> HIDE DEF start2
  <2> QED
    BY <1>1, <1>3, <2>2 DEF begin
<1> HIDE DEF start2
<1>5. at \in Nat /\ at < C /\ (at = start2 + len2 \/ at = start2 + len2 - C)
  <2>1. end \in Nat /\ end < 2 * C
    BY <1>1, <1>3, <1>4
  <2> HIDE DEF end
  <2>2. at \in Nat /\ at < C /\ (at = end \/ at = end - C)
    BY <2>1, SlotOf, Zenon DEF C
  <2> HIDE DEF at
  <2> QED
    BY <1>1, <1>3, <1>4, <2>2 DEF end
<1> HIDE DEF at
<1>6. /\ tail' \in Seq(Bytes) /\ Len(tail') = len + L - drop
      /\ \A k \in 1 .. Len(tail') : k + drop <= len => tail'[k] = tail[k + drop]
      /\ \A k \in 1 .. Len(tail') : k + drop > len => tail'[k] = bytes[k + drop - len]
  BY <1>2, <1>3, TailIs DEF C, L
<1>7. len' = Len(tail') /\ len' \in Nat /\ len' <= C /\ len' = len2 + L
  <2>1. len' = len2 + L
    BY <1>2, Zenon
  <2>2. Len(tail') = len + L - drop
    BY <1>6, Zenon
  <2> QED
    BY <1>1, <1>3, <2>1, <2>2
<1>10. first \in Nat /\ (C - at < L => first = C - at) /\ (C - at >= L => first = L)
  BY <1>1, <1>5
<1>11. second = L - first
  OBVIOUS
<1> HIDE DEF first, second
<1>8. ASSUME NEW k \in 1 .. len' PROVE tail'[k] = buffer'[(start' + k - 1) % C]
  <2> DEFINE at_k == start2 + k - 1
             i == at_k % C
  <2>0. k \in Nat /\ 1 <= k /\ k <= len2 + L
    BY <1>7
  <2>1. i \in Nat /\ i < C /\ (i = start2 + k - 1 \/ i = start2 + k - 1 - C)
    <3>1. at_k \in Nat /\ at_k < 2 * C
      BY <1>1, <1>3, <1>4, <2>0
    <3> HIDE DEF at_k
    <3>2. i \in Nat /\ i < C /\ (i = at_k \/ i = at_k - C)
      BY <3>1, SlotOf, Zenon DEF C
    <3> HIDE DEF i
    <3> QED
      BY <1>1, <1>4, <2>0, <3>2 DEF at_k
  <2>2. buffer'[i] = IF i \in at .. at + first - 1 THEN bytes[i - at + 1]
                     ELSE IF i < second THEN bytes[first + i + 1]
                     ELSE buffer[i]
    <3>1. i \in Slots
      BY <1>1, <2>1 DEF Slots, C
    <3> QED
      BY <1>2, <3>1, Zenon
  <2>5. (start' + k - 1) % C = i
    BY <1>2, Zenon
  <2> HIDE DEF i
  <2>6. /\ k <= len2 => ~(i \in at .. at + first - 1) /\ ~(i < second)
        /\ k > len2 /\ i \in at .. at + first - 1 => i - at + 1 = k - len2
        /\ k > len2 /\ ~(i \in at .. at + first - 1) => i < second /\ first + i + 1 = k - len2
    BY <1>1, <1>3, <1>4, <1>5, <1>10, <1>11, <2>0, <2>1, FitsIndices
  <2>3. CASE k <= len2
    <3>1. k + drop \in 1 .. len /\ k + drop <= len /\ k \in 1 .. Len(tail')
      BY <1>1, <1>3, <1>7, <2>0, <2>3
    <3>2. tail'[k] = tail[k + drop] /\ k + drop \in 1 .. len
      BY <1>6, <3>1, Zenon
    <3>3. tail[k + drop] = buffer[(start + (k + drop) - 1) % C]
      BY <3>2 DEF RingInv, C
    <3>4. (start + (k + drop) - 1) % C = i
      <4> DEFINE at_j == start + (k + drop) - 1
                 j == at_j % C
      <4>1. at_j \in Nat /\ at_j < 2 * C
        BY <1>1, <1>3, <2>0, <3>1
      <4> HIDE DEF at_j
      <4>2. j \in Nat /\ j < C /\ (j = at_j \/ j = at_j - C)
        BY <4>1, SlotOf, Zenon DEF C
      <4> HIDE DEF j
      <4>3. j = i \/ j = i + C \/ j = i - C \/ j = i + 2 * C \/ j = i - 2 * C
        BY <1>1, <1>3, <1>4, <2>0, <2>1, <4>2 DEF at_j
      <4>4. j = i
        BY <1>1, <2>1, <4>2, <4>3, SameSlot
      <4> QED
        BY <4>4, Zenon DEF j, at_j
    <3> QED
      BY <2>2, <2>3, <2>5, <2>6, <3>2, <3>3, <3>4, Zenon
  <2>4. CASE k > len2
    <3>1. tail'[k] = bytes[k - len2]
      <4>1. k + drop > len /\ k + drop - len = k - len2 /\ k \in 1 .. Len(tail')
        BY <1>1, <1>3, <1>7, <2>4
      <4> QED
        BY <1>6, <4>1
    <3> QED
      BY <2>2, <2>4, <2>5, <2>6, <3>1, Zenon
  <2> QED
    BY <2>3, <2>4, <2>0, <1>3
<1>9. start' \in Slots
  BY <1>1, <1>2, <1>4 DEF Slots, C
<1> QED
  BY <1>6, <1>7, <1>8, <1>9, Zenon DEF RingInv, C

\* The invariant is what a reader sees.
LEMMA RingIsRead ==
    ASSUME RingInv
    PROVE  RingIsTail
<1> USE SMTT(30)
<1> DEFINE C == CONSOLE_LOG_CAPACITY
<1>1. /\ C \in Nat /\ C > 0 /\ len \in Nat /\ len <= C /\ start \in 0 .. C - 1
      /\ tail \in Seq(Bytes) /\ len = Len(tail)
  BY CapacityAssumption DEF RingInv, Slots
<1>2. ASSUME NEW offset \in 0 .. len PROVE read(offset, C) = LastOf(tail, len - offset)
  <2> DEFINE n == len - offset
             from == (start + offset) % C
             first == IF C - from < n THEN C - from ELSE n
  <2>1. n \in Nat /\ n <= Len(tail)
    BY <1>1
  <2>2. read(offset, C) = [i \in 1 .. n |-> IF i <= first THEN buffer[from + i - 1]
                                                           ELSE buffer[i - first - 1]]
    <3>1. n = IF offset >= len THEN 0 ELSE IF len - offset < C THEN len - offset ELSE C
      BY <1>1
    <3> QED
      BY <3>1 DEF read
  <2> HIDE DEF n
  <2>3. LastOf(tail, n) = [i \in 1 .. n |-> tail[len - n + i]]
    <3>1. LastOf(tail, n) = [i \in 1 .. n |-> tail[Len(tail) - n + i]]
      BY <1>1, <2>1, LastOfAre, Zenon
    <3> QED
      BY <1>1, <3>1, Zenon
  <2>4. from \in 0 .. C - 1 /\ (from = start + offset \/ from = start + offset - C)
    BY <1>1, Wraps
  <2> HIDE DEF from
  <2>5. ASSUME NEW i \in 1 .. n
        PROVE  tail[len - n + i] = IF i <= first THEN buffer[from + i - 1]
                                                 ELSE buffer[i - first - 1]
    <3>1. offset + i \in 1 .. len /\ len - n + i = offset + i
      BY <1>1, <2>1 DEF n
    <3>2. tail[offset + i] = buffer[(start + (offset + i) - 1) % C]
      BY <3>1 DEF RingInv
    <3>3. (start + (offset + i) - 1) % C = IF i <= first THEN from + i - 1 ELSE i - first - 1
      BY <1>1, <2>4, <3>1, Wraps DEF n
    <3> QED
      BY <3>1, <3>2, <3>3
  <2> QED
    BY <2>2, <2>3, <2>5, Zenon DEF n
<1> QED
  BY <1>1, <1>2 DEF RingIsTail

\* For every capacity and every sequence of printed texts, of any length, and
\* switches of the capture and reboots: reading the ring from any offset gives the newest
\* captured bytes in order (append, read and set_capture_enabled).
THEOREM RingIsTailCorrect == LogSpec => []RingIsTail
<1>1. LogInit => RingInv
  BY CapacityAssumption, SMTT(30) DEF LogInit, RingInv, Slots
<1>2. ASSUME RingInv, [LogNext]_logVars PROVE RingInv'
  <2>1. ASSUME NEW bytes \in Seq(Bytes), append(bytes) PROVE RingInv'
    <3>1. CASE append_ignored(bytes)
      BY <1>2, <3>1 DEF append_ignored, logVars, RingInv
    <3> QED
      BY <1>2, <2>1, <3>1, OverlongKeeps, FitsKeeps DEF append
  <2>2. ASSUME NEW enabled \in BOOLEAN, set_capture_enabled(enabled) PROVE RingInv'
    BY <1>2, <2>2 DEF set_capture_enabled, RingInv
  <2>3. CASE UNCHANGED logVars
    BY <1>2, <2>3 DEF logVars, RingInv
  <2>4. CASE LogRestart
    BY <2>4, CapacityAssumption, SMTT(30) DEF LogRestart, RingInv, Slots
  <2> QED
    BY <1>2, <2>1, <2>2, <2>3, <2>4 DEF LogNext
<1>3. RingInv => RingIsTail
  BY RingIsRead
<1> QED
  BY <1>1, <1>2, <1>3, PTL DEF LogSpec
=============================================================================

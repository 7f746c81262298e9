--------------------------- MODULE MemoryDbProofs ---------------------------
(***************************************************************************)
(* Proofs about the memory database: its layout, what recovery computes,   *)
(* type correctness, that every write keeps the invariant behind           *)
(* durability, what follows from it, and the refinement of DurableLog.     *)
(***************************************************************************)
EXTENDS MemoryDb, Sequences, WellFoundedInduction, TLAPS

-----------------------------------------------------------------------------
(* Layout and recovery                                                     *)

\* The region has room for at least one map entry, and its data follows the
\* map.
LEMMA LayoutFacts ==
    /\ MapCap \in Nat /\ MapCap >= 1
    /\ DataLba \in Nat /\ DataLba >= 3
    /\ DataEnd \in Nat /\ DataEnd = DataLba + Total
    /\ AppendEnd \in Nat /\ AppendEnd <= DataEnd
<1>1. \A x, y \in Nat : x >= 1 /\ y >= 1 => x * y \in Nat /\ x * y >= 1
  OBVIOUS
<1>2. MapSectors - 1 \in Nat /\ MapSectors - 1 >= 1
  BY LayoutAssumption
<1>3. MapCap \in Nat /\ MapCap >= 1
  BY <1>1, <1>2, LayoutAssumption DEF MapCap
<1> QED
  BY <1>3, LayoutAssumption DEF DataLba, DataEnd, AppendEnd

\* Every non-empty set of natural numbers has a least element.
LEMMA LeastElement ==
    ASSUME NEW T \in SUBSET Nat, T # {}
    PROVE  \E n \in T : \A m \in T : n <= m
<1>1. IsWellFoundedOn(OpToRel(<, Nat), Nat)
  BY NatLessThanWellFounded, Zenon
<1>2. PICK n \in T : \A m \in T : ~(<<m, n>> \in OpToRel(<, Nat))
  BY <1>1, WFMin, Zenon
<1>3. \A m \in T : ~(m < n)
  BY <1>2, Zenon DEF OpToRel
<1> QED
  BY <1>3

\* The loop of memory_db_recover_from_map always stops, somewhere within the
\* number of entries the map header gives.
LEMMA RecoveredType ==
    ASSUME TypeOK
    PROVE  /\ Recovered \in 0 .. mapHdr.used
           /\ \A i \in 0 .. Recovered - 1 : Linked(i)
<1> DEFINE T == {n \in 0 .. mapHdr.used : n = mapHdr.used \/ ~Linked(n)}
<1>1. mapHdr.used \in Nat
  BY LayoutFacts DEF TypeOK
<1>2. T \in SUBSET Nat /\ mapHdr.used \in T
  BY <1>1
<1>3. PICK n \in T : \A m \in T : n <= m
  BY <1>2, LeastElement, Zenon
<1>4. n \in 0 .. mapHdr.used /\ (n = mapHdr.used \/ ~Linked(n))
  BY <1>3
<1>5. \A i \in 0 .. n - 1 : Linked(i)
  BY <1>1, <1>3, <1>4
<1> HIDE DEF T
<1> QED
  BY <1>1, <1>4, <1>5 DEF Recovered

\* If every entry counted by the map header passes the tests, recovery keeps
\* them all.
LEMMA RecoveredAll ==
    ASSUME TypeOK, \A i \in 0 .. mapHdr.used - 1 : Linked(i)
    PROVE  Recovered = mapHdr.used
<1> USE SMTT(30)
<1>1. mapHdr.used \in Nat
  BY LayoutFacts DEF TypeOK
<1>2. \E n \in 0 .. mapHdr.used :
         /\ \A i \in 0 .. n - 1 : Linked(i)
         /\ n = mapHdr.used \/ ~Linked(n)
  BY <1>1
<1>3. /\ Recovered \in 0 .. mapHdr.used
      /\ Recovered = mapHdr.used \/ ~Linked(Recovered)
  BY <1>2 DEF Recovered
<1> QED
  BY <1>1, <1>3

-----------------------------------------------------------------------------
(* Type correctness                                                        *)

TypeInv ==
    /\ TypeOK
    /\ pc = "app_data" => st.used < MapCap
    /\ pc \in {"app_map", "app_hdr"} => st.used >= 1

LEMMA TypeInit == Init => TypeInv
<1> SUFFICES ASSUME Init PROVE TypeInv
  OBVIOUS
<1> USE LayoutFacts, LayoutAssumption DEF Init
<1>1. hdr \in [ok : BOOLEAN, next : Nat, used : 0 .. MapCap]
  BY DEF NoHdr
<1>2. mapHdr \in [ok : BOOLEAN, used : 0 .. MapCap]
  BY DEF NoMapHdr
<1>3. registered \in BOOLEAN
  BY Zenon
<1>4. mapEnt \in [Index -> [start : Nat, len : Nat]]
  BY DEF NoEntry
<1>5. data \in [DataLbas -> {Blank} \cup (Payloads \X Nat)]
  BY Zenon
<1>6. st \in [next : Nat, used : 0 .. MapCap]
  BY DEF Fresh
<1> QED
  BY <1>1, <1>2, <1>3, <1>4, <1>5, <1>6 DEF TypeInv, TypeOK

\* What recovery returns is a state of the type the operations work on.
LEMMA RecoverType ==
    ASSUME TypeOK
    PROVE  RecoverFromMap \in [next : Nat, used : 0 .. MapCap]
<1> USE SMTT(30)
<1>1. Recovered \in 0 .. mapHdr.used /\ mapHdr.used \in 0 .. MapCap
  BY RecoveredType DEF TypeOK
<1>2. CASE Recovered = 0
  BY <1>1, <1>2, LayoutFacts DEF RecoverFromMap, Cursor
<1>3. CASE Recovered # 0
  <2>1. Recovered - 1 \in Index
    BY <1>1, <1>3, LayoutFacts DEF Index
  <2>2. mapEnt[Recovered - 1] \in [start : Nat, len : Nat]
    BY <2>1 DEF TypeOK
  <2> QED
    BY <1>1, <1>3, <2>2, LayoutFacts DEF RecoverFromMap, Cursor, EntryEnd
<1> QED
  BY <1>2, <1>3

LEMMA TypeStep == TypeInv /\ [Next]_vars => TypeInv'
<1> SUFFICES ASSUME TypeInv, [Next]_vars PROVE TypeInv'
  OBVIOUS
<1> USE SMTT(30)
<1> USE LayoutFacts
<1> USE DEF TypeInv, TypeOK, disk, Write, Then, WriteHeader, WriteMapHeader,
           WriteMapEntry, WriteZero, NoHdr, NoMapHdr, NoEntry, Header, MapHeader, Fresh
<1>1. CASE BootExisting
  BY <1>1, RecoverType DEF BootExisting
<1>2. CASE BootFresh
  BY <1>2, LayoutAssumption DEF BootFresh
<1>3. CASE FreshVerify
  <2>1. registered' \in BOOLEAN
    BY <1>3, Zenon DEF FreshVerify
  <2> QED
    BY <1>3, <2>1, LayoutAssumption DEF FreshVerify
<1>4. ASSUME NEW o \in Outcomes, BootMapHeader(o) PROVE TypeInv'
  BY <1>4, LayoutAssumption DEF BootMapHeader
<1>5. ASSUME NEW o \in Outcomes, BootHeader(o) PROVE TypeInv'
  BY <1>5, LayoutAssumption DEF BootHeader
<1>6. ASSUME NEW o \in Outcomes, FreshZeroMap(o) PROVE TypeInv'
  BY <1>6, LayoutAssumption DEF FreshZeroMap
<1>7. ASSUME NEW o \in Outcomes, FreshMapHeader(o) PROVE TypeInv'
  BY <1>7, LayoutAssumption DEF FreshMapHeader
<1>8. ASSUME NEW o \in Outcomes, FreshHeader(o) PROVE TypeInv'
  BY <1>8, LayoutAssumption DEF FreshHeader
<1>9. ASSUME NEW p \in Payloads, AppendStart(p) PROVE TypeInv'
  <2>1. PICK s \in WorkingStates : s.used < MapCap /\ st' = s
    BY <1>9 DEF AppendStart
  <2>2. s \in [next : Nat, used : 0 .. MapCap]
    BY RecoverType DEF WorkingStates, HeaderCursor
  <2> QED
    BY <1>9, <2>1, <2>2 DEF AppendStart
<1>10. ASSUME NEW p \in Payloads, AppendRefused(p) PROVE TypeInv'
  BY <1>10 DEF AppendRefused, vars
<1>11. ASSUME NEW o \in Outcomes, AppendData(o) PROVE TypeInv'
  <2>1. <<cur, at>> \in {Blank} \cup (Payloads \X Nat)
    OBVIOUS
  <2>2. data' \in [DataLbas -> {Blank} \cup (Payloads \X Nat)]
    BY <1>11, <2>1, Zenon DEF AppendData
  <2> QED
    BY <1>11, <2>2, LayoutAssumption DEF AppendData
<1>12. CASE AppendNoRoom
  BY <1>12 DEF AppendNoRoom
<1>13. ASSUME NEW o \in Outcomes, AppendEntry(o) PROVE TypeInv'
  <2>1. [start |-> st.next, len |-> SectorsOf[cur]] \in [start : Nat, len : Nat]
    BY PayloadAssumption
  <2>2. mapEnt' \in [Index -> [start : Nat, len : Nat]]
    BY <1>13, <2>1, Zenon DEF AppendEntry
  <2>3. st' \in [next : Nat, used : 0 .. MapCap] /\ st'.used >= 1
    BY <1>13 DEF AppendEntry
  <2> QED
    BY <1>13, <2>2, <2>3, LayoutAssumption DEF AppendEntry
<1>14. ASSUME NEW o \in Outcomes, AppendMapHeader(o) PROVE TypeInv'
  BY <1>14, LayoutAssumption DEF AppendMapHeader
<1>15. ASSUME NEW o \in Outcomes, AppendHeader(o) PROVE TypeInv'
  <2>1. st.used - 1 \in Index /\ cur \in Payloads
    BY <1>15, LayoutAssumption DEF AppendHeader, Index
  <2> QED
    BY <1>15, <2>1, LayoutAssumption DEF AppendHeader
<1>16. CASE EraseStart
  BY <1>16 DEF EraseStart
<1>17. ASSUME NEW o \in Outcomes, EraseSector(o) PROVE TypeInv'
  BY <1>17, LayoutAssumption DEF EraseSector
<1>18. ASSUME NEW o \in Outcomes, EraseMapHeader(o) PROVE TypeInv'
  BY <1>18, LayoutAssumption DEF EraseMapHeader
<1>19. ASSUME NEW o \in Outcomes, EraseHeader(o) PROVE TypeInv'
  BY <1>19, LayoutAssumption DEF EraseHeader
<1>20. CASE Crash
  <2>1. registered' \in BOOLEAN
    BY <1>20, Zenon DEF Crash
  <2> QED
    BY <1>20, <2>1, LayoutAssumption DEF Crash
<1>21. CASE UNCHANGED vars
  BY <1>21 DEF vars
<1> QED
  BY Zenon, <1>1, <1>2, <1>3, <1>4, <1>5, <1>6, <1>7, <1>8, <1>9, <1>10, <1>11, <1>12,
     <1>13, <1>14, <1>15, <1>16, <1>17, <1>18, <1>19, <1>20, <1>21
     DEF Next, Boot, AppendRest, EraseRest

\* Every variable keeps its type, whatever the constants: in particular no
\* operation counts more entries than the map can hold.
THEOREM TypeCorrect == Spec => []TypeOK
<1>1. TypeInv => TypeOK
  BY DEF TypeInv
<1> QED
  BY <1>1, TypeInit, TypeStep, PTL DEF Spec

-----------------------------------------------------------------------------
(* Durability                                                              *)

\* Entry by entry, the records stay within the region.
LEMMA BoundFacts ==
    /\ DataLba <= Bound(0)
    /\ \A n \in Nat : /\ Bound(n) \in Nat
                      /\ n <= MapCap => Bound(n) <= Total
                      /\ MapFillsFirst => Bound(n + 1) = Bound(n) + MaxSectors
    /\ MapFillsFirst => MaxSectors \in Nat /\ \A p \in Payloads : SectorsOf[p] <= MaxSectors
<1> USE SMTT(30)
<1>1. CASE MapFillsFirst
  <2>1. MaxSectors \in 0 .. Total /\ RecordBound(MaxSectors)
    BY <1>1 DEF MapFillsFirst, MaxSectors
  <2>2. MaxSectors \in Nat
    BY <2>1, LayoutAssumption
  <2>3. \A m, n, c \in Nat : n <= c => n * m <= c * m /\ n * m \in Nat
    OBVIOUS
  <2>4. \A m, n \in Nat : (n + 1) * m = n * m + m /\ n * m \in Nat /\ 0 * m = 0
    OBVIOUS
  <2>5. \A n \in Nat : n <= MapCap => n * MaxSectors <= MapCap * MaxSectors
    BY <2>2, <2>3, LayoutFacts
  <2>6. \A n \in Nat : Bound(n) \in Nat /\ Bound(n + 1) = Bound(n) + MaxSectors
    BY <1>1, <2>2, <2>4, LayoutFacts DEF Bound
  <2>7. Bound(0) = DataLba
    BY <1>1, <2>2, <2>4, LayoutFacts DEF Bound
  <2>8. \A n \in Nat : n <= MapCap => Bound(n) <= Total
    <3> SUFFICES ASSUME NEW n \in Nat, n <= MapCap PROVE Bound(n) <= Total
      OBVIOUS
    <3>1. n * MaxSectors \in Nat /\ MapCap * MaxSectors \in Nat
      BY <2>2, <2>4, LayoutFacts
    <3> QED
      BY <1>1, <2>1, <2>5, <3>1, LayoutFacts, LayoutAssumption DEF Bound, RecordBound
  <2> QED
    BY <2>1, <2>2, <2>6, <2>7, <2>8, LayoutFacts DEF RecordBound
<1>2. CASE ~MapFillsFirst
  BY <1>2, LayoutFacts, LayoutAssumption DEF Bound
<1> QED
  BY <1>1, <1>2

\* After n good entries the cursor lies in the data area, past every one of
\* them.
LEMMA CursorFacts ==
    ASSUME TypeOK, NEW n \in 0 .. MapCap, GoodMap(n)
    PROVE  /\ Cursor(n) \in Nat
           /\ DataLba <= Cursor(n) /\ Cursor(n) <= Bound(n) /\ Cursor(n) <= Total
           /\ \A i \in 0 .. n - 1 : EntryEnd(i) <= Cursor(n)
<1> USE SMTT(30)
<1> USE LayoutFacts, BoundFacts
<1>1. CASE n = 0
  <2>1. Cursor(n) = DataLba /\ 0 .. n - 1 = {}
    BY <1>1 DEF Cursor
  <2>2. Bound(n) \in Nat /\ DataLba <= Bound(n) /\ Bound(n) <= Total
    BY <1>1
  <2> QED
    BY <2>1, <2>2, LayoutAssumption
<1>2. CASE n # 0
  <2>1. n - 1 \in Index /\ n - 1 \in 0 .. n - 1
    BY <1>2 DEF Index
  <2>2. /\ mapEnt[n - 1].start \in Nat /\ mapEnt[n - 1].len \in Nat
        /\ mapEnt[n - 1].start >= DataLba
        /\ EntryEnd(n - 1) <= Bound(n)
    BY <2>1, <1>2 DEF TypeOK, GoodMap, GoodEntry
  <2>3. Cursor(n) = EntryEnd(n - 1)
    BY <1>2 DEF Cursor
  <2>4. ASSUME NEW i \in 0 .. n - 1 PROVE EntryEnd(i) <= Cursor(n)
    <3>1. CASE i = n - 1
      BY <3>1, <2>2, <2>3 DEF EntryEnd
    <3>2. CASE i < n - 1
      <4>1. EntryEnd(i) <= mapEnt[n - 1].start
        BY <3>2, <2>1 DEF GoodMap
      <4>2. i \in Index
        BY DEF Index
      <4>3. EntryEnd(i) \in Nat
        BY <4>2 DEF EntryEnd, TypeOK
      <4> QED
        BY <4>1, <4>3, <2>2, <2>3 DEF EntryEnd
    <3> QED
      BY <3>1, <3>2
  <2>5. Bound(n) \in Nat /\ Bound(n) <= Total /\ Total \in Nat
    BY LayoutAssumption
  <2> QED
    BY <2>2, <2>3, <2>4, <2>5 DEF EntryEnd
<1> QED
  BY <1>1, <1>2

\* A new disk has no header and no records.
LEMMA DurableInit == Init => DurableInv
<1> SUFFICES ASSUME Init PROVE DurableInv
  OBVIOUS
<1>1. TypeOK
  BY TypeInit DEF TypeInv
<1>2. DataInRegion
  BY DEF Init, DataInRegion
<1> QED
  BY <1>1, <1>2 DEF Init, DurableInv, DiskInv, AppendInv, ResetInv, NoHdr

\* What a step that writes neither entries nor data cannot disturb.
LEMMA Frame ==
    ASSUME mapEnt' = mapEnt, data' = data
    PROVE  /\ \A i : EntryEnd(i)' = EntryEnd(i) /\ Cursor(i)' = Cursor(i)
           /\ \A i, p : Holds(i, p)' <=> Holds(i, p)
           /\ \A n : GoodMap(n)' <=> GoodMap(n)
           /\ DataInRegion' <=> DataInRegion
BY DEF EntryEnd, Cursor, Linked, Holds, GoodEntry, GoodMap, DataInRegion

\* A call that has returned leaves nothing to finish.
LEMMA IdleKeeps ==
    ASSUME pc' = "idle"
    PROVE  AppendInv' /\ ResetInv'
BY DEF AppendInv, ResetInv

\* Where both headers are valid, recovery keeps every entry of the map, and
\* the next boot keeps the database.
LEMMA RecoveryIsComplete ==
    ASSUME DurableInv, hdr.ok, mapHdr.ok
    PROVE  ExistingValid /\ Recovered = mapHdr.used /\ mapHdr.used \in 0 .. MapCap
<1>1. TypeOK /\ DiskInv /\ GoodMap(mapHdr.used)
  BY DEF DurableInv, DiskInv
<1>2. mapHdr.used \in 0 .. MapCap /\ hdr.used <= MapCap
  BY <1>1, LayoutFacts DEF TypeOK
<1>3. \A i \in 0 .. mapHdr.used - 1 : Linked(i)
  BY <1>1 DEF GoodMap, GoodEntry
<1>4. Recovered = mapHdr.used
  BY <1>1, <1>3, RecoveredAll
<1>5. DataLba <= hdr.next /\ hdr.next <= Total
  BY <1>1 DEF DiskInv
<1> QED
  BY <1>2, <1>4, <1>5, LayoutFacts DEF ExistingValid

\* The calls that only read keep the invariant.
LEMMA ReadingStep ==
    ASSUME "recover" \notin ReadFaults, DurableInv, TypeOK',
           \/ BootExisting \/ BootFresh \/ FreshVerify
           \/ \E p \in Payloads : AppendStart(p)
           \/ \E p \in Payloads : AppendRefused(p)
           \/ AppendNoRoom \/ EraseStart \/ Crash \/ UNCHANGED vars
    PROVE  DurableInv'
<1> USE SMTT(30)
<1> USE DEF DurableInv
<1>1. UNCHANGED disk /\ acked' \subseteq acked
  BY DEF BootExisting, BootFresh, FreshVerify, AppendStart, AppendRefused,
         AppendNoRoom, EraseStart, Crash, vars, disk
<1>2. hdr.ok /\ mapHdr.ok =>
         /\ ExistingValid
         /\ RecoverFromMap.used = mapHdr.used
         /\ RecoverFromMap.next = Cursor(mapHdr.used)
         /\ Cursor(mapHdr.used) <= Total /\ Cursor(mapHdr.used) \in Nat
  <2> SUFFICES ASSUME hdr.ok, mapHdr.ok
               PROVE  /\ ExistingValid
                      /\ RecoverFromMap.used = mapHdr.used
                      /\ RecoverFromMap.next = Cursor(mapHdr.used)
                      /\ Cursor(mapHdr.used) <= Total /\ Cursor(mapHdr.used) \in Nat
    OBVIOUS
  <2>1. ExistingValid /\ Recovered = mapHdr.used /\ mapHdr.used \in 0 .. MapCap
    BY RecoveryIsComplete
  <2>2. TypeOK /\ GoodMap(mapHdr.used)
    BY DEF DiskInv
  <2>3. Cursor(mapHdr.used) <= Total /\ Cursor(mapHdr.used) \in Nat
    BY <2>1, <2>2, CursorFacts
  <2> QED
    BY <2>1, <2>3 DEF RecoverFromMap
<1>3. hdr.ok /\ registered' => mapHdr.ok
  <2>1. CASE FreshVerify
    BY <2>1 DEF FreshVerify, ResetInv, MapHeader
  <2>2. CASE Crash
    BY <2>2 DEF Crash
  <2>3. CASE ~FreshVerify /\ ~Crash
    <3>1. registered' = registered
      BY <2>3 DEF BootExisting, BootFresh, AppendStart, AppendRefused,
                  AppendNoRoom, EraseStart, vars
    <3> QED
      BY <3>1 DEF DiskInv
  <2> QED
    BY <2>1, <2>2, <2>3
<1>4. DiskInv' /\ DataInRegion'
  BY <1>1, <1>3, Frame DEF DiskInv, disk
<1>5. AppendInv' /\ ResetInv'
  <2> USE <1>1, Frame DEF disk
  <2>1. CASE BootExisting
    BY <2>1, <1>2, Zenon DEF BootExisting, ExistingValid, AppendInv, ResetInv, AtCursor
  <2>2. CASE BootFresh
    <3>1. acked' = {}
      BY <2>2, <1>2 DEF BootFresh, DiskInv
    <3> QED
      BY <2>2, <3>1 DEF BootFresh, AppendInv, ResetInv
  <2>3. CASE FreshVerify
    BY <2>3 DEF FreshVerify, AppendInv, ResetInv
  <2>4. ASSUME NEW p \in Payloads, AppendStart(p) PROVE AppendInv' /\ ResetInv'
    <3>1. mapHdr.ok /\ hdr.ok /\ WorkingStates = {RecoverFromMap}
      BY <2>4 DEF AppendStart, WorkingStates, DiskInv
    <3>2. st' = RecoverFromMap /\ st'.used < MapCap
      BY <2>4, <3>1 DEF AppendStart
    <3>3. AtCursor' /\ st'.next <= Total /\ st'.next \in Nat
      BY <1>2, <3>1, <3>2 DEF AtCursor
    <3>4. pc' = "app_data" /\ cur' = p /\ at' = 0
      BY <2>4 DEF AppendStart
    <3>5. AppendInv'
      BY <3>1, <3>2, <3>3, <3>4, PayloadAssumption DEF AppendInv
    <3> QED
      BY <3>4, <3>5 DEF ResetInv
  <2>5. CASE AppendNoRoom \/ Crash
    <3>1. CASE AppendNoRoom
      BY <3>1, IdleKeeps DEF AppendNoRoom
    <3>2. CASE Crash
      BY <3>2, Zenon DEF Crash, AppendInv, ResetInv
    <3> QED
      BY <2>5, <3>1, <3>2
  <2>6. CASE EraseStart
    <3>1. pc' = "erase" /\ at' = 0 /\ acked' = {}
      BY <2>6 DEF EraseStart
    <3>2. \A l \in DataLbas : ~(l < 0)
      BY LayoutFacts DEF DataLbas
    <3>3. AppendInv'
      BY <3>1, Zenon DEF AppendInv
    <3> QED
      BY <3>1, <3>2, <3>3 DEF ResetInv
  <2>7. CASE UNCHANGED vars
    BY <2>7, Zenon DEF vars, AppendInv, ResetInv, AtCursor
  <2> QED
    BY <2>1, <2>2, <2>3, <2>4, <2>5, <2>6, <2>7 DEF AppendRefused
<1> QED
  BY <1>4, <1>5

\* The header is rewritten at boot and by an append that has committed its
\* entry: what the map says is acknowledged by then.
LEMMA HeaderKept ==
    ASSUME DurableInv, TypeOK', NEW o \in Outcomes, BootHeader(o) \/ AppendHeader(o)
    PROVE  DurableInv'
<1> USE SMTT(30)
<1>1. TypeOK /\ DiskInv /\ AppendInv /\ ResetInv /\ DataInRegion
  BY DEF DurableInv
<1>2. mapEnt' = mapEnt /\ data' = data /\ mapHdr' = mapHdr
  BY DEF BootHeader, FreshHeader, AppendHeader, EraseHeader, WriteHeader
<1>3. DataInRegion'
  BY <1>1, <1>2, Frame
<1>4. pc \in {"boot_hdr", "app_hdr"} /\ (AppendHeader(o) => pc = "app_hdr")
  BY DEF BootHeader, AppendHeader
<1>5. hdr.ok /\ mapHdr.ok /\ AtCursor
  BY <1>1, <1>4, Zenon DEF AppendInv
<1>6. GoodMap(mapHdr.used) /\ DataLba <= hdr.next /\ hdr.next <= Total
  BY <1>1, <1>5 DEF DiskInv
<1>7. DataLba <= st.next /\ st.next <= Total
  BY <1>1, <1>5, <1>6, CursorFacts DEF AtCursor, TypeOK
<1>8. hdr'.ok /\ DataLba <= hdr'.next /\ hdr'.next <= Total
  <2>1. hdr' = hdr \/ hdr' = Header(st)
    BY DEF BootHeader, AppendHeader, WriteHeader
  <2> QED
    BY <1>5, <1>6, <1>7, <2>1 DEF Header
<1>9. ASSUME NEW a \in acked' PROVE a[1] < mapHdr.used /\ Holds(a[1], a[2])
  <2>1. CASE a \in acked
    BY <1>1, <2>1 DEF DiskInv
  <2>2. CASE a \notin acked
    <3>1. AppendHeader(o) /\ a = <<st.used - 1, cur>>
      BY <2>2 DEF BootHeader, AppendHeader
    <3>2. Holds(st.used - 1, cur)
      BY <1>1, <1>4, <3>1 DEF AppendInv
    <3>3. st.used = mapHdr.used /\ st.used \in Nat
      BY <1>1, <1>5, LayoutFacts DEF AtCursor, TypeOK
    <3> QED
      BY <3>1, <3>2, <3>3
  <2> QED
    BY <2>1, <2>2
<1>10. GoodMap(mapHdr.used)'
  BY <1>2, <1>6, Frame
<1>11. \A a \in acked' : Holds(a[1], a[2])'
  BY <1>2, <1>9, Frame
<1>12. DiskInv'
  BY <1>2, <1>5, <1>8, <1>9, <1>10, <1>11 DEF DiskInv
<1>13. AppendInv' /\ ResetInv'
  BY IdleKeeps DEF BootHeader, AppendHeader
<1> QED
  BY <1>3, <1>12, <1>13 DEF DurableInv

\* A database that starts over gets its header last.
LEMMA HeaderReset ==
    ASSUME DurableInv, TypeOK', NEW o \in Outcomes, FreshHeader(o) \/ EraseHeader(o)
    PROVE  DurableInv'
<1> USE SMTT(30)
<1>1. TypeOK /\ DiskInv /\ AppendInv /\ ResetInv /\ DataInRegion
  BY DEF DurableInv
<1>2. mapEnt' = mapEnt /\ data' = data /\ mapHdr' = mapHdr
  BY DEF BootHeader, FreshHeader, AppendHeader, EraseHeader, WriteHeader
<1>3. DataInRegion'
  BY <1>1, <1>2, Frame
<1>4. pc \in {"fresh_hdr", "erase_hdr"} /\ registered' = registered
  BY DEF FreshHeader, EraseHeader
<1>5. mapHdr = MapHeader(0)
  BY <1>1, <1>4 DEF ResetInv
<1>6. acked' = {}
  BY <1>1, <1>4 DEF FreshHeader, EraseHeader, ResetInv
<1>7. hdr' = hdr \/ hdr' = Header(Fresh)
  BY <1>1 DEF FreshHeader, EraseHeader, WriteHeader, ResetInv
<1>8. hdr'.ok => DataLba <= hdr'.next /\ hdr'.next <= Total
  <2>1. Header(Fresh).next = DataLba /\ DataLba <= DataLba /\ DataLba <= Total
    BY LayoutAssumption, LayoutFacts DEF Header, Fresh
  <2> QED
    BY <1>1, <1>7, <2>1 DEF DiskInv
<1>9. mapHdr.used = 0 /\ mapHdr.ok
  BY <1>5 DEF MapHeader
<1>10. GoodMap(mapHdr.used)'
  BY <1>2, <1>9 DEF GoodMap
<1>11. DiskInv'
  BY <1>2, <1>6, <1>8, <1>9, <1>10 DEF DiskInv
<1>12. AppendInv' /\ ResetInv'
  <2>1. CASE FreshHeader(o)
    <3>1. ~registered /\ pc' \in {"fresh_verify", "idle"}
      BY <1>1, <2>1 DEF FreshHeader, ResetInv, Then
    <3> QED
      BY <1>2, <1>4, <1>5, <1>6, <3>1, Zenon DEF AppendInv, ResetInv, MapHeader
  <2>2. CASE EraseHeader(o)
    BY <2>2, IdleKeeps DEF EraseHeader
  <2> QED
    BY <2>1, <2>2
<1> QED
  BY <1>3, <1>11, <1>12 DEF DurableInv

\* A map header that counts good entries, and no fewer than before.
LEMMA MapGrows ==
    ASSUME TypeOK, TypeOK', DiskInv, mapEnt' = mapEnt, data' = data, hdr' = hdr, acked' = acked,
           hdr.ok, mapHdr'.ok, GoodMap(mapHdr'.used), mapHdr'.used >= mapHdr.used
    PROVE  DiskInv'
<1> USE SMTT(30)
<1>1. GoodMap(mapHdr.used)'
  BY Frame
<1>2. mapHdr.used \in Nat /\ mapHdr'.used \in Nat
  BY LayoutFacts DEF TypeOK
<1>3. ASSUME NEW a \in acked PROVE a[1] < mapHdr'.used /\ Holds(a[1], a[2])'
  <2>1. a[1] \in Int
    BY LayoutFacts DEF TypeOK, Index
  <2>2. a[1] < mapHdr.used /\ Holds(a[1], a[2])
    BY DEF DiskInv
  <2> QED
    BY <1>2, <2>1, <2>2, Frame
<1>4. DataLba <= hdr.next /\ hdr.next <= Total
  BY DEF DiskInv
<1> QED
  BY <1>1, <1>3, <1>4 DEF DiskInv

\* At boot the map header is confirmed.
LEMMA MapHeaderKept ==
    ASSUME DurableInv, TypeOK', NEW o \in Outcomes, BootMapHeader(o)
    PROVE  DurableInv'
<1> USE SMTT(30)
<1>1. TypeOK /\ DiskInv /\ AppendInv /\ ResetInv /\ DataInRegion
  BY DEF DurableInv
<1>2. mapEnt' = mapEnt /\ data' = data /\ hdr' = hdr /\ acked' = acked
  BY DEF BootMapHeader, FreshMapHeader, AppendMapHeader, EraseMapHeader, WriteMapHeader
<1>3. DataInRegion'
  BY <1>1, <1>2, Frame
<1>4. ASSUME hdr.ok, mapHdr'.ok, GoodMap(mapHdr'.used), mapHdr'.used >= mapHdr.used
      PROVE  DiskInv'
  BY <1>1, <1>2, <1>4, MapGrows
<1>5. mapHdr.used \in Nat /\ mapHdr'.used \in Nat /\ st.used \in Nat
  BY <1>1, LayoutFacts DEF TypeOK
<1>6. pc = "boot_map" /\ st' = st /\ (mapHdr' = mapHdr \/ mapHdr' = MapHeader(st.used))
  BY DEF BootMapHeader, WriteMapHeader
<1>7. hdr.ok /\ AtCursor /\ mapHdr.ok /\ GoodMap(mapHdr.used)
  BY <1>1, <1>6, Zenon DEF AppendInv, DiskInv
<1>8. mapHdr'.used = mapHdr.used /\ mapHdr'.ok
  BY <1>6, <1>7 DEF MapHeader, AtCursor
<1>9. DiskInv'
  BY <1>4, <1>5, <1>7, <1>8
<1>10. AtCursor'
  BY <1>2, <1>6, <1>7, <1>8, Frame, Zenon DEF AtCursor
<1>11. pc' \in {"boot_hdr", "idle"}
  BY DEF BootMapHeader, Then
<1>12. AppendInv' /\ ResetInv'
  BY <1>2, <1>7, <1>8, <1>10, <1>11, Zenon DEF AppendInv, ResetInv
<1> QED
  BY <1>3, <1>9, <1>12 DEF DurableInv

\* In an append it commits the new entry.
LEMMA MapHeaderCommits ==
    ASSUME DurableInv, TypeOK', NEW o \in Outcomes, AppendMapHeader(o)
    PROVE  DurableInv'
<1> USE SMTT(30)
<1>1. TypeOK /\ DiskInv /\ AppendInv /\ ResetInv /\ DataInRegion
  BY DEF DurableInv
<1>2. mapEnt' = mapEnt /\ data' = data /\ hdr' = hdr /\ acked' = acked
  BY DEF BootMapHeader, FreshMapHeader, AppendMapHeader, EraseMapHeader, WriteMapHeader
<1>3. DataInRegion'
  BY <1>1, <1>2, Frame
<1>4. ASSUME hdr.ok, mapHdr'.ok, GoodMap(mapHdr'.used), mapHdr'.used >= mapHdr.used
      PROVE  DiskInv'
  BY <1>1, <1>2, <1>4, MapGrows
<1>5. mapHdr.used \in Nat /\ mapHdr'.used \in Nat /\ st.used \in Nat
  BY <1>1, LayoutFacts DEF TypeOK
<1>6. /\ pc = "app_map" /\ st' = st /\ cur' = cur
      /\ mapHdr' = mapHdr \/ mapHdr' = MapHeader(st.used)
      /\ o = "ok" => mapHdr' = MapHeader(st.used)
      /\ pc' = IF o = "ok" THEN "app_hdr" ELSE "idle"
  BY DEF AppendMapHeader, WriteMapHeader, Then
<1>7. /\ hdr.ok /\ mapHdr.ok /\ st.used = mapHdr.used + 1 /\ GoodMap(st.used) /\ st.used >= 1
      /\ st.next = Cursor(st.used) /\ Holds(st.used - 1, cur)
  BY <1>1, <1>6, Zenon DEF AppendInv
<1>8. GoodMap(mapHdr.used)
  BY <1>1, <1>7 DEF DiskInv
<1>9. mapHdr'.ok /\ GoodMap(mapHdr'.used) /\ mapHdr'.used >= mapHdr.used
  BY <1>5, <1>6, <1>7, <1>8 DEF MapHeader
<1>10. DiskInv'
  BY <1>4, <1>5, <1>7, <1>9
<1>11. AppendInv'
  <2>1. CASE o # "ok"
    BY <1>6, <2>1, IdleKeeps
  <2>2. CASE o = "ok"
    <3>1. AtCursor' /\ Holds(st.used - 1, cur)'
      BY <1>2, <1>6, <1>7, <2>2, Frame DEF AtCursor, MapHeader
    <3>2. pc' = "app_hdr" /\ hdr'.ok /\ mapHdr'.ok /\ st'.used >= 1
      BY <1>2, <1>6, <1>7, <1>9, <2>2
    <3> QED
      BY <3>1, <3>2, Zenon DEF AppendInv
  <2> QED
    BY <2>1, <2>2
<1>12. ResetInv'
  BY <1>6 DEF ResetInv
<1> QED
  BY <1>3, <1>10, <1>11, <1>12 DEF DurableInv

\* A boot that starts over has zeroed the map by then.
LEMMA MapHeaderFresh ==
    ASSUME DurableInv, TypeOK', NEW o \in Outcomes, FreshMapHeader(o)
    PROVE  DurableInv'
<1> USE SMTT(30)
<1>1. TypeOK /\ DiskInv /\ AppendInv /\ ResetInv /\ DataInRegion
  BY DEF DurableInv
<1>2. mapEnt' = mapEnt /\ data' = data /\ hdr' = hdr /\ acked' = acked
  BY DEF BootMapHeader, FreshMapHeader, AppendMapHeader, EraseMapHeader, WriteMapHeader
<1>3. DataInRegion'
  BY <1>1, <1>2, Frame
<1>4. /\ pc = "fresh_map" /\ at = MapSectors /\ registered' = registered
      /\ mapHdr' = mapHdr \/ mapHdr' = MapHeader(0)
      /\ o = "ok" => mapHdr' = MapHeader(0)
      /\ pc' = IF o = "ok" THEN "fresh_hdr" ELSE "idle"
  BY DEF FreshMapHeader, WriteMapHeader, Then
<1>5. acked = {} /\ ~registered /\ ~mapHdr.ok
  BY <1>1, <1>4, LayoutAssumption DEF ResetInv
<1>6. mapHdr'.ok => GoodMap(mapHdr.used)'
  BY <1>4, <1>5 DEF MapHeader, GoodMap
<1>7. DiskInv'
  BY <1>1, <1>2, <1>4, <1>5, <1>6 DEF DiskInv
<1>8. AppendInv' /\ ResetInv'
  BY <1>2, <1>4, <1>5, Zenon DEF AppendInv, ResetInv, MapHeader
<1> QED
  BY <1>3, <1>7, <1>8 DEF DurableInv

\* An erase has zeroed the region by then.
LEMMA MapHeaderErased ==
    ASSUME DurableInv, TypeOK', NEW o \in Outcomes, EraseMapHeader(o)
    PROVE  DurableInv'
<1> USE SMTT(30)
<1>1. TypeOK /\ DiskInv /\ AppendInv /\ ResetInv /\ DataInRegion
  BY DEF DurableInv
<1>2. mapEnt' = mapEnt /\ data' = data /\ hdr' = hdr /\ acked' = acked
  BY DEF BootMapHeader, FreshMapHeader, AppendMapHeader, EraseMapHeader, WriteMapHeader
<1>3. DataInRegion'
  BY <1>1, <1>2, Frame
<1>4. /\ pc = "erase" /\ at = Total /\ st' = Fresh
      /\ mapHdr' = mapHdr \/ mapHdr' = MapHeader(0)
      /\ o = "ok" => mapHdr' = MapHeader(0)
      /\ pc' = IF o = "ok" THEN "erase_hdr" ELSE "idle"
  BY DEF EraseMapHeader, WriteMapHeader, Then
<1>5. acked = {} /\ ~hdr.ok
  BY <1>1, <1>4, LayoutAssumption, LayoutFacts DEF ResetInv
<1>6. \A l \in DataLbas : data[l] = Blank
  <2>1. \A l \in DataLbas : l < Total \/ l >= Total
    BY LayoutAssumption, LayoutFacts DEF DataLbas
  <2> QED
    BY <1>1, <1>4, <2>1 DEF ResetInv, DataInRegion
<1>7. DiskInv'
  BY <1>2, <1>5 DEF DiskInv
<1>8. AppendInv' /\ ResetInv'
  <2>1. pc' \in {"erase_hdr", "idle"} /\ acked' = {} /\ ~hdr'.ok
    BY <1>2, <1>4, <1>5
  <2>2. \A l \in DataLbas : data'[l] = Blank
    BY <1>2, <1>6
  <2>3. CASE pc' = "erase_hdr"
    <3>1. mapHdr' = MapHeader(0) /\ st' = Fresh
      BY <1>4, <2>3
    <3>2. AppendInv'
      BY <2>3 DEF AppendInv
    <3> QED
      BY <2>1, <2>2, <2>3, <3>1, <3>2 DEF ResetInv, MapHeader
  <2> QED
    BY <2>1, <2>3, IdleKeeps
<1> QED
  BY <1>3, <1>7, <1>8 DEF DurableInv

\* Zeroing a sector of the map, map header first.
LEMMA ZeroMapStep ==
    ASSUME DurableInv, TypeOK', NEW o \in Outcomes, FreshZeroMap(o)
    PROVE  DurableInv'
<1> USE SMTT(30)
<1>1. TypeOK /\ DiskInv /\ AppendInv /\ ResetInv /\ DataInRegion
  BY DEF DurableInv
<1>2. /\ pc = "fresh_map" /\ at \in Nat /\ at < MapSectors /\ acked' = acked /\ registered' = registered
      /\ at' = at + 1 /\ pc' = IF o = "ok" THEN pc ELSE "idle"
  BY <1>1 DEF FreshZeroMap, Then, TypeOK
<1>3. acked = {} /\ ~registered /\ (at > 0 => ~mapHdr.ok)
  BY <1>1, <1>2 DEF ResetInv
<1>4. hdr' = hdr /\ data' = data
  <2>1. 1 + at # 0 /\ \A l \in DataLbas : l # 1 + at
    BY <1>2, LayoutAssumption, LayoutFacts DEF DataLbas, DataLba
  <2> QED
    BY <1>1, <2>1 DEF FreshZeroMap, WriteZero, TypeOK
<1>5. CASE ~mapHdr'.ok
  <2>1. DiskInv' /\ DataInRegion'
    BY <1>1, <1>2, <1>3, <1>4, <1>5, Zenon DEF DiskInv, DataInRegion
  <2>2. AppendInv' /\ ResetInv'
    BY <1>2, <1>3, <1>5, Zenon DEF AppendInv, ResetInv
  <2> QED
    BY <2>1, <2>2 DEF DurableInv
<1>6. CASE mapHdr'.ok
  <2>1. o = "lost" /\ mapHdr' = mapHdr /\ mapEnt' = mapEnt
    BY <1>1, <1>2, <1>3, <1>6 DEF FreshZeroMap, WriteZero, NoMapHdr, TypeOK
  <2>2. DiskInv' /\ DataInRegion'
    BY <1>1, <1>2, <1>3, <1>4, <2>1, Frame DEF DiskInv
  <2>3. AppendInv' /\ ResetInv'
    BY <1>2, <2>1, Zenon DEF AppendInv, ResetInv
  <2> QED
    BY <2>2, <2>3 DEF DurableInv
<1> QED
  BY <1>5, <1>6

\* Erasing a sector: the header is invalid by then, or is what is zeroed.
LEMMA EraseStep ==
    ASSUME DurableInv, TypeOK', NEW o \in Outcomes, EraseSector(o)
    PROVE  DurableInv'
<1> USE SMTT(30)
<1>1. TypeOK /\ DiskInv /\ AppendInv /\ ResetInv /\ DataInRegion
  BY DEF DurableInv
<1>2. /\ pc = "erase" /\ at \in Nat /\ acked' = acked /\ registered' = registered
      /\ at' = at + 1 /\ pc' = IF o = "ok" THEN pc ELSE "idle"
  BY <1>1, Zenon DEF EraseSector, Then, TypeOK
<1>3. acked = {} /\ (at > 0 => ~hdr.ok) /\ \A l \in DataLbas : l < at => data[l] = Blank
  BY <1>1, <1>2 DEF ResetInv
<1>4. \A l \in DataLbas : /\ data[l] = Blank => data'[l] = Blank
                          /\ o = "ok" /\ l = at => data'[l] = Blank
  BY DEF EraseSector, WriteZero
<1>5. DataInRegion'
  BY <1>1, <1>4 DEF DataInRegion
<1>6. CASE ~hdr'.ok
  <2>1. DiskInv'
    BY <1>2, <1>3, <1>6 DEF DiskInv
  <2>2. AppendInv'
    BY <1>2, Zenon DEF AppendInv
  <2>3. \A l \in DataLbas : l < at + 1 => l < at \/ l = at
    BY <1>2, LayoutFacts DEF DataLbas
  <2>4. o = "ok" => \A l \in DataLbas : l < at' => data'[l] = Blank
    BY <1>2, <1>3, <1>4, <2>3
  <2>5. ResetInv'
    BY <1>2, <1>3, <1>6, <2>4, Zenon DEF ResetInv
  <2> QED
    BY <1>5, <2>1, <2>2, <2>5 DEF DurableInv
<1>7. CASE hdr'.ok
  <2>1. o = "lost" /\ hdr.ok
    BY <1>2, <1>3, <1>7 DEF EraseSector, WriteZero, NoHdr
  <2>2. hdr' = hdr /\ mapHdr' = mapHdr /\ mapEnt' = mapEnt /\ data' = data
    BY <1>1, <2>1, Zenon DEF EraseSector, WriteZero, TypeOK
  <2>3. DiskInv'
    BY <1>1, <1>2, <1>3, <2>2, Frame, Zenon DEF DiskInv
  <2>4. AppendInv' /\ ResetInv'
    BY <1>2, <2>1, Zenon DEF AppendInv, ResetInv
  <2> QED
    BY <1>5, <2>3, <2>4 DEF DurableInv
<1> QED
  BY <1>6, <1>7


-----------------------------------------------------------------------------
(* The record and its map entry                                            *)

\* What the entries in use hold, they hold after the step.
RecordsStay ==
    \A i \in 0 .. mapHdr.used - 1, p \in Payloads : Holds(i, p) => Holds(i, p)'

\* A data sector of a new record lies past every entry of the map, and within
\* the region.
LEMMA DataStep ==
    ASSUME RegionIsSafe, DurableInv, TypeOK', NEW o \in Outcomes, AppendData(o)
    PROVE  DurableInv' /\ RecordsStay
<1> USE SMTT(30)
<1> DEFINE u == mapHdr.used
<1> DEFINE n == SectorsOf[cur]
<1> DEFINE l == st.next + at
<1>1. TypeOK /\ DiskInv /\ AppendInv /\ ResetInv /\ DataInRegion /\ pc = "app_data"
  BY DEF DurableInv, AppendData
<1>2. u \in Nat /\ u < MapCap /\ u \in 0 .. MapCap
  <2>1. AtCursor
    BY <1>1, Zenon DEF AppendInv
  <2>2. u \in 0 .. MapCap
    BY <1>1 DEF TypeOK
  <2> QED
    BY <1>1, <2>1, <2>2, LayoutFacts DEF AppendInv, AtCursor
<1>3. n \in Nat /\ at \in Nat /\ at < n /\ st.next \in Nat /\ cur \in Payloads
  BY <1>1, PayloadAssumption, Zenon DEF AppendData, TypeOK
<1>4. hdr.ok /\ mapHdr.ok /\ st.used = u /\ st.next = Cursor(u)
  <2>1. hdr.ok /\ mapHdr.ok /\ AtCursor
    BY <1>1, Zenon DEF AppendInv
  <2> QED
    BY <2>1 DEF AtCursor
<1>5. GoodMap(u)
  BY <1>1, <1>4 DEF DiskInv
<1>6. /\ DataLba <= st.next /\ st.next <= Bound(u)
      /\ \A i \in 0 .. u - 1 : EntryEnd(i) <= st.next
  BY <1>1, <1>2, <1>4, <1>5, CursorFacts
<1>7. l \in Nat /\ l \in DataLbas /\ l < Total
  <2>1. CASE MapFillsFirst
    <3>1. /\ Bound(u + 1) = Bound(u) + MaxSectors /\ Bound(u + 1) <= Total
          /\ Bound(u) \in Nat /\ MaxSectors \in Nat /\ n <= MaxSectors
      BY <1>2, <1>3, <2>1, BoundFacts, LayoutFacts
    <3> QED
      BY <1>3, <1>6, <3>1, LayoutFacts, LayoutAssumption DEF DataLbas
  <2>2. CASE Capacity = Total
    BY <1>3, <1>6, <2>2, LayoutFacts, LayoutAssumption DEF AppendData, DataLbas
  <2> QED
    BY <2>1, <2>2 DEF RegionIsSafe
<1>8. UNCHANGED <<hdr, mapHdr, mapEnt, registered, st, cur, acked>>
  BY DEF AppendData
<1>9. /\ \A x \in DataLbas : x # l => data'[x] = data[x]
      /\ o # "lost" => data'[l] = <<cur, at>>
  BY <1>1, <1>7, Zenon DEF AppendData, TypeOK
<1> HIDE DEF l, u, n
<1>10. ASSUME NEW i \in 0 .. u - 1, NEW p \in Payloads, Holds(i, p)
       PROVE  Holds(i, p)'
  <2>1. i \in Index
    BY <1>2, LayoutFacts DEF Index
  <2>2. mapEnt[i].start \in Nat /\ mapEnt[i].len \in Nat
    BY <1>1, <2>1, Zenon DEF TypeOK
  <2>3. EntryEnd(i) <= l
    BY <1>3, <1>6, <2>2 DEF l, EntryEnd
  <2>4. mapEnt[i].len = SectorsOf[p]
    BY <1>10 DEF Holds
  <2>5. \A k \in 0 .. SectorsOf[p] - 1 : mapEnt[i].start + k # l
    BY <1>7, <2>2, <2>3, <2>4 DEF EntryEnd
  <2> QED
    BY <1>8, <1>9, <1>10, <2>5, Zenon DEF Holds
<1>11. ASSUME NEW i \in 0 .. u - 1 PROVE GoodEntry(i)'
  <2>1. GoodEntry(i)
    BY <1>5 DEF GoodMap
  <2>2. \E p \in Payloads : Holds(i, p)'
    BY <1>10, <2>1, Zenon DEF GoodEntry
  <2> QED
    BY <1>8, <2>1, <2>2, Zenon DEF GoodEntry, Linked, EntryEnd, Cursor
<1>12. GoodMap(mapHdr.used)'
  <2>1. \A i \in 0 .. mapHdr'.used - 1 : GoodEntry(i)'
    BY <1>8, <1>11 DEF u
  <2>2. \A i, j \in 0 .. mapHdr'.used - 1 : i < j => EntryEnd(i)' <= mapEnt'[j].start
    BY <1>5, <1>8, Zenon DEF u, GoodMap, EntryEnd
  <2> QED
    BY <2>1, <2>2, Zenon DEF GoodMap
<1>13. DiskInv'
  <2>1. ASSUME NEW a \in acked PROVE Holds(a[1], a[2])' /\ a[1] < u
    <3>1. a[1] \in Index /\ a[2] \in Payloads
      BY <1>1, Zenon DEF TypeOK
    <3>2. a[1] < u /\ Holds(a[1], a[2])
      BY <1>1 DEF DiskInv, u
    <3>3. a[1] \in 0 .. u - 1
      BY <1>2, <3>1, <3>2, LayoutFacts DEF Index
    <3> QED
      BY <1>10, <3>1, <3>2, <3>3
  <2>2. mapHdr.ok /\ hdr.ok /\ DataLba <= hdr.next /\ hdr.next <= Total
    BY <1>1, <1>4 DEF DiskInv
  <2> QED
    BY <1>8, <1>12, <2>1, <2>2 DEF DiskInv, u
<1>14. DataInRegion'
  <2>1. \A x \in DataLbas : x >= Total => x # l
    BY <1>7, LayoutFacts, LayoutAssumption DEF DataLbas
  <2> QED
    BY <1>1, <1>9, <2>1 DEF DataInRegion
<1>15. RecordsStay
  BY <1>10, Zenon DEF RecordsStay, u
<1>16. CASE o # "ok"
  <2>1. AppendInv' /\ ResetInv'
    BY <1>16, IdleKeeps DEF AppendData, Then
  <2> QED
    BY <1>13, <1>14, <2>1, <1>15 DEF DurableInv
<1>17. CASE o = "ok"
  <2>1. pc' = "app_data" /\ at' = at + 1
    BY <1>1, <1>17 DEF AppendData, Then
  <2>2. AtCursor'
    BY <1>4, <1>8, Zenon DEF AtCursor, Cursor, EntryEnd, u
  <2>3. \A k \in 0 .. at - 1 : data[st.next + k] = <<cur, k>>
    BY <1>1, Zenon DEF AppendInv
  <2>4. \A k \in 0 .. at - 1 : st.next + k \in DataLbas /\ st.next + k # l
    BY <1>3, <1>6, <1>7, LayoutFacts, LayoutAssumption DEF l, DataLbas
  <2>5. ASSUME NEW k \in 0 .. at' - 1 PROVE data'[st.next + k] = <<cur, k>>
    <3>1. CASE k = at
      BY <1>9, <1>17, <3>1 DEF l
    <3>2. CASE k # at
      <4>1. k \in 0 .. at - 1
        BY <1>3, <2>1, <3>2
      <4> QED
        BY <1>9, <2>3, <2>4, <4>1, Zenon
    <3> QED
      BY <3>1, <3>2
  <2>6. /\ hdr'.ok /\ mapHdr'.ok /\ st'.used < MapCap
        /\ at' <= SectorsOf[cur'] /\ st'.next + at' <= Total
    BY <1>2, <1>3, <1>4, <1>7, <1>8, <2>1, LayoutAssumption DEF n, l
  <2>7. \A k \in 0 .. at' - 1 : data'[st'.next + k] = <<cur', k>>
    BY <1>8, <2>5
  <2>8. AppendInv' /\ ResetInv'
    BY <2>1, <2>2, <2>6, <2>7, Zenon DEF AppendInv, ResetInv
  <2> QED
    BY <1>13, <1>14, <2>8, <1>15 DEF DurableInv
<1> QED
  BY <1>16, <1>17

\* The new entry goes behind the entries the map header counts, and names the
\* sectors just written.
LEMMA EntryStep ==
    ASSUME DurableInv, TypeOK', NEW o \in Outcomes, AppendEntry(o)
    PROVE  DurableInv' /\ RecordsStay
<1> USE SMTT(30)
<1> DEFINE u == mapHdr.used
<1> DEFINE n == SectorsOf[cur]
<1>1. TypeOK /\ DiskInv /\ AppendInv /\ ResetInv /\ DataInRegion /\ pc = "app_data"
  BY DEF DurableInv, AppendEntry
<1>2. u \in Nat /\ u < MapCap /\ u \in Index /\ u \in 0 .. MapCap
  <2>1. mapHdr.used \in Nat
    BY <1>1 DEF TypeOK
  <2>2. mapHdr.used < MapCap
    BY <1>1, Zenon DEF AppendInv, AtCursor
  <2> QED
    BY <2>1, <2>2, LayoutFacts DEF Index
<1>3. n \in Nat /\ n >= 1 /\ at = n /\ st.next \in Nat /\ cur \in Payloads
  BY <1>1, PayloadAssumption DEF AppendEntry, TypeOK
<1>4. hdr.ok /\ mapHdr.ok /\ st.used = u /\ st.next = Cursor(u)
  <2>1. hdr.ok /\ mapHdr.ok /\ AtCursor
    BY <1>1, Zenon DEF AppendInv
  <2> QED
    BY <2>1 DEF AtCursor
<1>5. GoodMap(u)
  BY <1>1, <1>4 DEF DiskInv
<1>6. \A k \in 0 .. n - 1 : data[st.next + k] = <<cur, k>>
  BY <1>1, <1>3, Zenon DEF AppendInv
<1>7. /\ DataLba <= st.next /\ st.next <= Bound(u)
      /\ \A i \in 0 .. u - 1 : EntryEnd(i) <= st.next
  BY <1>1, <1>2, <1>4, <1>5, CursorFacts
<1>8. UNCHANGED <<hdr, mapHdr, data, registered, acked, cur>> /\ u' = u
  BY Zenon DEF AppendEntry, WriteMapEntry
<1>9. st'.next = st.next + n /\ st'.used = u + 1
  BY <1>3, <1>4 DEF AppendEntry
<1>10. /\ \A i \in Index : i # u => mapEnt'[i] = mapEnt[i]
       /\ o # "lost" => mapEnt'[u].start = st.next /\ mapEnt'[u].len = n
  BY <1>1, <1>2, <1>4, Zenon DEF AppendEntry, WriteMapEntry, TypeOK
<1>11. \A i \in 0 .. u - 1 : mapEnt'[i] = mapEnt[i]
  BY <1>2, <1>10, LayoutFacts DEF Index
<1> HIDE DEF u, n
<1>12. ASSUME NEW i \in 0 .. u - 1
       PROVE  EntryEnd(i)' = EntryEnd(i) /\ Cursor(i)' = Cursor(i)
  <2>1. i # 0 => i - 1 \in 0 .. u - 1
    BY <1>2
  <2> QED
    BY <1>11, <2>1, Zenon DEF Cursor, EntryEnd
<1>13. ASSUME NEW i \in 0 .. u - 1, NEW p \in Payloads, Holds(i, p)
       PROVE  Holds(i, p)'
  BY <1>8, <1>11, <1>13, Zenon DEF Holds
<1>14. ASSUME NEW i \in 0 .. u - 1 PROVE GoodEntry(i)'
  <2>1. GoodEntry(i)
    BY <1>5 DEF GoodMap
  <2>2. mapEnt'[i] = mapEnt[i]
    BY <1>11
  <2>3. \E p \in Payloads : Holds(i, p)'
    BY <1>13, <2>1 DEF GoodEntry
  <2>4. Linked(i)'
    BY <1>12, <2>1, <2>2, Zenon DEF GoodEntry, Linked
  <2> QED
    BY <1>12, <2>1, <2>2, <2>3, <2>4, Zenon DEF GoodEntry
<1>15. ASSUME NEW i \in 0 .. u - 1, NEW j \in 0 .. u - 1, i < j
       PROVE  EntryEnd(i)' <= mapEnt'[j].start
  <2>1. EntryEnd(i) <= mapEnt[j].start
    BY <1>5, <1>15 DEF GoodMap
  <2> QED
    BY <1>11, <1>12, <2>1, Zenon
<1>16. GoodMap(mapHdr.used)'
  <2>1. \A i \in 0 .. mapHdr'.used - 1 : GoodEntry(i)'
    BY <1>8, <1>14 DEF u
  <2>2. \A i, j \in 0 .. mapHdr'.used - 1 : i < j => EntryEnd(i)' <= mapEnt'[j].start
    BY <1>8, <1>15 DEF u
  <2> QED
    BY <2>1, <2>2 DEF GoodMap
<1>17. DiskInv'
  <2>1. ASSUME NEW a \in acked PROVE Holds(a[1], a[2])' /\ a[1] < u
    <3>1. a[1] \in Index /\ a[2] \in Payloads
      BY <1>1 DEF TypeOK
    <3>2. a[1] < u /\ Holds(a[1], a[2])
      BY <1>1 DEF DiskInv, u
    <3>3. a[1] \in 0 .. u - 1
      BY <1>2, <3>1, <3>2, LayoutFacts DEF Index
    <3> QED
      BY <1>13, <3>1, <3>2, <3>3
  <2>2. hdr' = hdr /\ mapHdr' = mapHdr /\ acked' = acked
    BY <1>8
  <2>3. mapHdr.ok /\ hdr.ok /\ DataLba <= hdr.next /\ hdr.next <= Total
    BY <1>1, <1>4 DEF DiskInv
  <2> QED
    BY <1>16, <2>1, <2>2, <2>3 DEF DiskInv, u
<1>18. DataInRegion'
  BY <1>1, <1>8 DEF DataInRegion
<1>19. RecordsStay
  BY <1>13, Zenon DEF RecordsStay, u
<1>20. CASE o # "ok"
  <2>1. AppendInv' /\ ResetInv'
    BY <1>20, IdleKeeps DEF AppendEntry, Then
  <2> QED
    BY <1>17, <1>18, <2>1, <1>19 DEF DurableInv
<1>21. CASE o = "ok"
  <2>1. pc' = "app_map"
    BY <1>21 DEF AppendEntry, Then
  <2>2. mapEnt'[u].start = st.next /\ mapEnt'[u].len = n
    BY <1>10, <1>21, Zenon
  <2>3. EntryEnd(u)' = st.next + n
    BY <1>8, <2>2 DEF EntryEnd
  <2>4. Cursor(u)' = st.next
    <3>1. CASE u = 0
      BY <1>4, <1>8, <3>1 DEF Cursor
    <3>2. CASE u # 0
      <4>1. u - 1 \in 0 .. u - 1
        BY <1>2, <3>2
      <4>2. EntryEnd(u - 1)' = EntryEnd(u - 1)
        BY <1>8, <1>12, <4>1
      <4> QED
        BY <1>4, <1>8, <3>2, <4>2 DEF Cursor
    <3> QED
      BY <3>1, <3>2
  <2>5. st.next + n <= Bound(u + 1) /\ Bound(u + 1) \in Nat /\ Bound(u + 1) <= Total
    <3>1. Bound(u + 1) \in Nat /\ Bound(u + 1) <= Total
      BY <1>2, BoundFacts, LayoutFacts
    <3>2. CASE MapFillsFirst
      <4>1. Bound(u + 1) = Bound(u) + MaxSectors /\ n <= MaxSectors
        BY <1>2, <1>3, <3>2, BoundFacts DEF n
      <4>2. Bound(u) \in Nat /\ MaxSectors \in Nat
        BY <1>2, <3>2, BoundFacts
      <4> QED
        BY <1>3, <1>7, <3>1, <4>1, <4>2
    <3>3. CASE ~MapFillsFirst
      <4>1. st.next + at <= Total
        BY <1>1, Zenon DEF AppendInv
      <4>2. Bound(u + 1) = Total
        BY <3>3 DEF Bound
      <4> QED
        BY <1>3, <3>1, <4>1, <4>2
    <3> QED
      BY <3>1, <3>2, <3>3
  <2>6. st.next + n <= DataEnd
    BY <1>3, <2>5, LayoutFacts, LayoutAssumption
  <2>7. \A k \in 0 .. n - 1 : st.next + k \in DataLbas
    BY <1>3, <1>7, <2>6, LayoutFacts DEF DataLbas
  <2>8. Holds(u, cur)'
    <3>1. \A k \in 0 .. n - 1 : mapEnt'[u].start + k \in DataLbas
      BY <2>2, <2>7
    <3>2. \A k \in 0 .. n - 1 : data'[mapEnt'[u].start + k] = <<cur, k>>
      BY <1>6, <1>8, <2>2
    <3> QED
      BY <1>8, <2>2, <3>1, <3>2, Zenon DEF Holds, n
  <2>9. GoodEntry(u)'
    <3>1. Linked(u)'
      BY <1>3, <1>8, <2>2, <2>3, <2>4, <2>6 DEF Linked
    <3>2. mapEnt'[u].start >= DataLba /\ EntryEnd(u)' <= Bound(u + 1)
      BY <1>3, <1>7, <2>2, <2>3, <2>5, LayoutFacts, Zenon
    <3> QED
      BY <1>3, <1>8, <2>8, <3>1, <3>2, Zenon DEF GoodEntry
  <2>10. ASSUME NEW i \in 0 .. u PROVE GoodEntry(i)'
    <3>1. CASE i = u
      BY <1>8, <2>9, <3>1
    <3>2. CASE i # u
      <4>1. i \in 0 .. u - 1
        BY <1>2, <3>2
      <4> QED
        BY <1>14, <4>1
    <3> QED
      BY <3>1, <3>2
  <2>11. ASSUME NEW i \in 0 .. u, NEW j \in 0 .. u, i < j
         PROVE  EntryEnd(i)' <= mapEnt'[j].start
    <3>1. i \in 0 .. u - 1
      BY <1>2, <2>11
    <3>2. CASE j = u
      BY <1>7, <1>12, <2>2, <3>1, <3>2
    <3>3. CASE j # u
      <4>1. j \in 0 .. u - 1
        BY <1>2, <3>3
      <4> QED
        BY <1>15, <2>11, <3>1, <4>1
    <3> QED
      BY <3>2, <3>3
  <2>12. GoodMap(st.used)'
    <3>1. st'.used - 1 = u
      BY <1>2, <1>9
    <3> QED
      BY <2>10, <2>11, <3>1 DEF GoodMap
  <2>13. st'.next = Cursor(st.used)'
    <3>1. st'.used # 0 /\ st'.used - 1 = u
      BY <1>2, <1>9
    <3>2. EntryEnd(st.used - 1)' = mapEnt'[u].start + mapEnt'[u].len
      BY <3>1 DEF EntryEnd
    <3> QED
      BY <1>9, <2>2, <3>1, <3>2 DEF Cursor
  <2>14. Holds(st.used - 1, cur)'
    <3>1. st'.used - 1 = u
      BY <1>2, <1>9
    <3> QED
      BY <1>8, <2>8, <3>1, Zenon DEF Holds
  <2>15. hdr'.ok /\ mapHdr'.ok /\ st'.used = mapHdr'.used + 1 /\ st'.used >= 1
    BY <1>2, <1>4, <1>8, <1>9 DEF u
  <2>16. AppendInv' /\ ResetInv'
    <3>1. AppendInv'
      BY <2>1, <2>12, <2>13, <2>14, <2>15, Zenon DEF AppendInv
    <3> QED
      BY <2>1, <3>1 DEF ResetInv
  <2> QED
    BY <1>17, <1>18, <2>16, <1>19 DEF DurableInv
<1> QED
  BY <1>20, <1>21

\* Every step keeps the invariant.
LEMMA DurableStep ==
    ASSUME RegionIsSafe, "recover" \notin ReadFaults, DurableInv, TypeOK', [Next]_vars
    PROVE  DurableInv'
BY ReadingStep, HeaderKept, HeaderReset, MapHeaderKept, MapHeaderCommits, MapHeaderFresh,
   MapHeaderErased, ZeroMapStep, EraseStep, DataStep, EntryStep, ZenonT(60)
   DEF Next, Boot, AppendRest, EraseRest

\* The invariant gives the properties of the database.
LEMMA DurableInvSuffices ==
    ASSUME DurableInv
    PROVE  Durable /\ NoTornRecord /\ DataInRegion
BY RecoveryIsComplete, Zenon DEF DurableInv, DiskInv, Durable, NoTornRecord, GoodMap, GoodEntry

\* The invariant holds in every reachable state.
LEMMA DurableInvariant ==
    ASSUME RegionIsSafe, "recover" \notin ReadFaults
    PROVE  Spec => []DurableInv
<1>1. DurableInv /\ TypeOK' /\ [Next]_vars => DurableInv'
  BY DurableStep
<1> QED
  BY <1>1, DurableInit, TypeCorrect, PTL DEF Spec

\* For every layout, every set of records that cannot leave the region and any
\* number of crashes, failed writes and failed reads at boot: an append that
\* returned Ok stays readable until an erase is requested.
THEOREM DurableCorrect ==
    ASSUME RegionIsSafe, "recover" \notin ReadFaults
    PROVE  Spec => []Durable
<1>1. DurableInv => Durable
  BY DurableInvSuffices
<1> QED
  BY <1>1, DurableInvariant, PTL

\* Under the same assumptions, recovery never accepts the entry of a record
\* that is not complete on the disk.
THEOREM NoTornRecordCorrect ==
    ASSUME RegionIsSafe, "recover" \notin ReadFaults
    PROVE  Spec => []NoTornRecord
<1>1. DurableInv => NoTornRecord
  BY DurableInvSuffices
<1> QED
  BY <1>1, DurableInvariant, PTL

\* If the map fills up before the region does, or the region ends with the
\* disk, append_memory_db never writes past the last LBA of the database,
\* although its own limit would let it.
THEOREM DataInRegionCorrect ==
    ASSUME RegionIsSafe, "recover" \notin ReadFaults
    PROVE  Spec => []DataInRegion
<1>1. DurableInv => DataInRegion
  BY DEF DurableInv
<1> QED
  BY <1>1, DurableInvariant, PTL

\* When erase_memory_db returns Ok, no sector of any record is left, for every
\* layout and whatever crashes and failures came before.
THEOREM ErasedIsGoneCorrect ==
    ASSUME RegionIsSafe, "recover" \notin ReadFaults
    PROVE  Spec => ErasedIsGone
<1> DEFINE Gone == pc = "erase_hdr" /\ pc' = "idle" /\ hdr'.ok => \A l \in DataLbas : data'[l] = Blank
<1>1. ASSUME DurableInv, [Next]_vars PROVE [Gone]_vars
  <2> SUFFICES ASSUME Next, pc = "erase_hdr", pc' = "idle"
               PROVE  \A l \in DataLbas : data'[l] = Blank
    BY <1>1
  <2>1. \A l \in DataLbas : data[l] = Blank
    BY <1>1 DEF DurableInv, ResetInv
  <2>2. ~Boot /\ ~AppendRest /\ ~EraseStart /\ ~Crash
    BY Zenon DEF Boot, AppendRest, BootExisting, BootFresh, FreshVerify, BootMapHeader, BootHeader,
           FreshZeroMap, FreshMapHeader, FreshHeader, AppendNoRoom, AppendData, AppendEntry,
           AppendMapHeader, AppendHeader, EraseStart, Crash
  <2>3. \A p \in Payloads : ~AppendStart(p) /\ ~AppendRefused(p)
    BY DEF AppendStart, AppendRefused
  <2>4. EraseRest
    BY <2>2, <2>3 DEF Next
  <2>5. PICK o \in Outcomes : EraseHeader(o)
    BY <2>4 DEF EraseRest, EraseSector, EraseMapHeader
  <2> QED
    BY <2>1, <2>5 DEF EraseHeader, WriteHeader
<1> QED
  BY <1>1, DurableInvariant, PTL DEF Spec, ErasedIsGone

-----------------------------------------------------------------------------
(* The refinement of DurableLog                                            *)

\* Where both headers are valid, a read gives the record of every entry.
LEMMA ReadIs ==
    ASSUME DurableInv, hdr.ok, mapHdr.ok
    PROVE  /\ mapHdr.used \in Nat
           /\ ReadMemoryDb = [i \in 1 .. mapHdr.used |-> ReadMemoryDb[i]]
           /\ \A i \in 1 .. mapHdr.used :
                 ReadMemoryDb[i] \in Payloads /\ Holds(i - 1, ReadMemoryDb[i])
<1>1. Recovered = mapHdr.used /\ mapHdr.used \in Nat
  <2>1. TypeOK /\ Recovered = mapHdr.used
    BY RecoveryIsComplete, Zenon DEF DurableInv
  <2>2. mapHdr.used \in 0 .. MapCap
    BY <2>1, SMTT(30) DEF TypeOK
  <2> QED
    BY <2>1, <2>2, LayoutFacts, SMTT(30)
<1>2. \A i \in 0 .. mapHdr.used - 1 : \E p \in Payloads : Holds(i, p)
  BY <1>1, DurableInvSuffices DEF NoTornRecord
<1>3. ReadMemoryDb = [i \in 1 .. mapHdr.used |->
                        IF \E p \in Payloads : Holds(i - 1, p)
                        THEN CHOOSE p \in Payloads : Holds(i - 1, p)
                        ELSE Blank]
  BY <1>1, Zenon DEF ReadMemoryDb
<1>4. ASSUME NEW i \in 1 .. mapHdr.used
      PROVE  ReadMemoryDb[i] \in Payloads /\ Holds(i - 1, ReadMemoryDb[i])
  <2>1. i - 1 \in 0 .. mapHdr.used - 1
    BY <1>1, SMTT(30)
  <2>2. \E p \in Payloads : Holds(i - 1, p)
    BY <1>2, <2>1, Zenon
  <2>3. ReadMemoryDb[i] = CHOOSE p \in Payloads : Holds(i - 1, p)
    BY <1>3, <2>2, Zenon
  <2> QED
    BY <2>2, <2>3, Zenon
<1>5. ReadMemoryDb = [i \in 1 .. mapHdr.used |-> ReadMemoryDb[i]]
  BY <1>3, Zenon
<1> QED
  BY <1>1, <1>4, <1>5, Zenon

\* A step that keeps the headers' validity, the number of entries and the
\* records they hold keeps what is read.
LEMMA SameRead ==
    ASSUME DurableInv, DurableInv', RecordsStay,
           hdr'.ok = hdr.ok, mapHdr'.ok = mapHdr.ok, mapHdr'.used = mapHdr.used
    PROVE  ReadMemoryDb' = ReadMemoryDb
<1>1. CASE ~(hdr.ok /\ mapHdr.ok)
  BY <1>1, Zenon DEF ReadMemoryDb
<1>2. CASE hdr.ok /\ mapHdr.ok
  <2> DEFINE n == mapHdr.used
  <2>1. /\ n \in Nat
        /\ ReadMemoryDb = [i \in 1 .. n |-> ReadMemoryDb[i]]
        /\ \A i \in 1 .. n : ReadMemoryDb[i] \in Payloads /\ Holds(i - 1, ReadMemoryDb[i])
    BY <1>2, ReadIs, Zenon
  <2>2. (DurableInv /\ hdr.ok /\ mapHdr.ok =>
           /\ ReadMemoryDb = [i \in 1 .. mapHdr.used |-> ReadMemoryDb[i]]
           /\ \A i \in 1 .. mapHdr.used :
                 ReadMemoryDb[i] \in Payloads /\ Holds(i - 1, ReadMemoryDb[i]))'
    BY ReadIs, PTL
  <2>3. /\ ReadMemoryDb' = [i \in 1 .. n |-> ReadMemoryDb'[i]]
        /\ \A i \in 1 .. n : ReadMemoryDb'[i] \in Payloads /\ Holds(i - 1, ReadMemoryDb[i])'
    BY <1>2, <2>2
  <2>4. ASSUME NEW i \in 1 .. n PROVE ReadMemoryDb'[i] = ReadMemoryDb[i]
    <3>1. PICK p \in Payloads : p = ReadMemoryDb[i] /\ Holds(i - 1, p)
      BY <2>1, Zenon
    <3>2. i - 1 \in 0 .. n - 1
      BY <2>1
    <3>3. Holds(i - 1, p)'
      BY <3>1, <3>2, Zenon DEF RecordsStay
    <3>4. ReadMemoryDb'[i] \in Payloads /\ Holds(i - 1, ReadMemoryDb[i])'
      BY <2>3, Zenon
    <3>5. 0 \in 0 .. SectorsOf[p] - 1 /\ 0 \in 0 .. SectorsOf[ReadMemoryDb'[i]] - 1
      BY <3>4, PayloadAssumption
    <3>6. /\ data'[mapEnt'[i - 1].start + 0] = <<p, 0>>
          /\ data'[mapEnt'[i - 1].start + 0] = <<ReadMemoryDb'[i], 0>>
      BY <3>3, <3>4, <3>5, Zenon DEF Holds
    <3> QED
      BY <3>1, <3>6
  <2> QED
    BY <2>1, <2>3, <2>4, Zenon
<1> QED
  BY <1>1, <1>2

\* Without a header, without a map header or with an empty map nothing is read.
LEMMA EmptyRead ==
    ASSUME DurableInv, ~hdr.ok \/ ~mapHdr.ok \/ mapHdr.used = 0
    PROVE  ReadMemoryDb = <<>>
<1>1. CASE ~(hdr.ok /\ mapHdr.ok)
  BY <1>1 DEF ReadMemoryDb
<1>2. CASE hdr.ok /\ mapHdr.ok
  <2>1. ReadMemoryDb = [i \in 1 .. 0 |-> ReadMemoryDb[i]]
    BY <1>2, ReadIs
  <2> QED
    BY <2>1, SMTT(30)
<1> QED
  BY <1>1, <1>2

\* The write of the map header that counts the new entry appends its record.
LEMMA AppendedRead ==
    ASSUME DurableInv, DurableInv', RecordsStay,
           NEW p \in Payloads, NEW n, mapHdr.used = n, mapHdr'.used = n + 1,
           hdr.ok, mapHdr.ok, hdr'.ok, mapHdr'.ok, Holds(n, p)'
    PROVE  Len(ReadMemoryDb) < MapCap /\ ReadMemoryDb' = Append(ReadMemoryDb, p)
<1> USE SMTT(30)
<1>1. /\ n \in Nat
      /\ ReadMemoryDb = [i \in 1 .. n |-> ReadMemoryDb[i]]
      /\ \A i \in 1 .. n : ReadMemoryDb[i] \in Payloads /\ Holds(i - 1, ReadMemoryDb[i])
  BY ReadIs, Zenon
<1>2. (DurableInv /\ hdr.ok /\ mapHdr.ok =>
         /\ ReadMemoryDb = [i \in 1 .. mapHdr.used |-> ReadMemoryDb[i]]
         /\ \A i \in 1 .. mapHdr.used :
               ReadMemoryDb[i] \in Payloads /\ Holds(i - 1, ReadMemoryDb[i]))'
  BY ReadIs, PTL
<1>3. /\ ReadMemoryDb' = [i \in 1 .. n + 1 |-> ReadMemoryDb'[i]]
      /\ \A i \in 1 .. n + 1 : ReadMemoryDb'[i] \in Payloads /\ Holds(i - 1, ReadMemoryDb[i])'
  BY <1>2
<1>4. ASSUME NEW i \in 1 .. n + 1, NEW q \in Payloads, Holds(i - 1, q)'
      PROVE  ReadMemoryDb'[i] = q
  <2>1. ReadMemoryDb'[i] \in Payloads /\ Holds(i - 1, ReadMemoryDb[i])'
    BY <1>3, Zenon
  <2>2. 0 \in 0 .. SectorsOf[q] - 1 /\ 0 \in 0 .. SectorsOf[ReadMemoryDb'[i]] - 1
    BY <2>1, PayloadAssumption
  <2>3. /\ data'[mapEnt'[i - 1].start + 0] = <<q, 0>>
        /\ data'[mapEnt'[i - 1].start + 0] = <<ReadMemoryDb'[i], 0>>
    BY <1>4, <2>1, <2>2, Zenon DEF Holds
  <2> QED
    BY <2>3
<1>5. ReadMemoryDb'[n + 1] = p
  <2>1. n + 1 \in 1 .. n + 1 /\ (n + 1) - 1 = n
    BY <1>1
  <2> QED
    BY <1>4, <2>1
<1>6. ASSUME NEW i \in 1 .. n PROVE ReadMemoryDb'[i] = ReadMemoryDb[i]
  <2>1. PICK q \in Payloads : q = ReadMemoryDb[i] /\ Holds(i - 1, q)
    BY <1>1, Zenon
  <2>2. i - 1 \in 0 .. n - 1 /\ i \in 1 .. n + 1
    BY <1>1
  <2>3. Holds(i - 1, q)'
    BY <2>1, <2>2, Zenon DEF RecordsStay
  <2> QED
    BY <1>4, <2>1, <2>2, <2>3, Zenon
<1>7. n + 1 <= MapCap
  <2>1. mapHdr'.used \in 0 .. MapCap
    <3>1. TypeOK'
      BY Zenon DEF DurableInv
    <3> QED
      BY <3>1 DEF TypeOK
  <2> QED
    BY <1>1, <2>1, LayoutFacts
<1>8. ReadMemoryDb \in Seq(Payloads) /\ Len(ReadMemoryDb) = n
  BY <1>1
<1>9. ReadMemoryDb' \in Seq(Payloads) /\ Len(ReadMemoryDb') = n + 1
  BY <1>1, <1>3
<1> QED
  BY <1>1, <1>3, <1>5, <1>6, <1>7, <1>8, <1>9, LayoutFacts

\* Writes that leave entries and data alone, and the reading calls.
LEMMA FramedRead ==
    ASSUME DurableInv, DurableInv', mapEnt' = mapEnt, data' = data,
           hdr'.ok = hdr.ok, mapHdr'.ok = mapHdr.ok, mapHdr'.used = mapHdr.used
    PROVE  ReadMemoryDb' = ReadMemoryDb
<1>1. RecordsStay
  BY Frame, Zenon DEF RecordsStay
<1> QED
  BY <1>1, SameRead

\* The steps that may empty the log.
LEMMA EmptyingStep ==
    ASSUME DurableInv, DurableInv', NEW o \in Outcomes,
           \/ FreshZeroMap(o) \/ FreshMapHeader(o) \/ FreshHeader(o)
           \/ EraseSector(o) \/ EraseMapHeader(o) \/ EraseHeader(o)
    PROVE  ReadMemoryDb' = <<>> \/ ReadMemoryDb' = ReadMemoryDb
<1> USE SMTT(30)
<1>1. TypeOK /\ ResetInv /\ MapSectors \in Nat /\ MapSectors >= 2 /\ Total \in Nat /\ Total > 0
  BY LayoutAssumption, LayoutFacts DEF DurableInv
<1>2. (DurableInv /\ (~hdr.ok \/ ~mapHdr.ok \/ mapHdr.used = 0) => ReadMemoryDb = <<>>)'
  BY EmptyRead, PTL
<1>3. CASE ~hdr'.ok \/ ~mapHdr'.ok \/ mapHdr'.used = 0
  BY <1>2, <1>3
<1>4. CASE hdr'.ok /\ mapHdr'.ok /\ mapHdr'.used # 0
  <2>1. CASE FreshZeroMap(o)
    <3>1. at \in Nat /\ (at > 0 => ~mapHdr.ok)
      BY <1>1, <2>1, Zenon DEF FreshZeroMap, ResetInv, TypeOK
    <3>2. o = "lost"
      <4>1. mapHdr' = IF o # "lost" /\ 1 + at = 1 THEN NoMapHdr ELSE mapHdr
        BY <2>1, Zenon DEF FreshZeroMap, WriteZero
      <4>2. mapHdr'.ok /\ ~NoMapHdr.ok
        BY <1>4 DEF NoMapHdr
      <4>3. mapHdr' # NoMapHdr /\ (mapHdr' = mapHdr => mapHdr.ok)
        BY <4>2, Zenon
      <4> QED
        BY <3>1, <4>1, <4>3
    <3>3. hdr' = hdr /\ mapHdr' = mapHdr /\ mapEnt' = mapEnt /\ data' = data
      BY <1>1, <2>1, <3>2, Zenon DEF FreshZeroMap, WriteZero, TypeOK
    <3> QED
      BY <3>3, FramedRead
  <2>2. CASE EraseSector(o)
    <3>1. at \in Nat /\ (at > 0 => ~hdr.ok)
      BY <1>1, <2>2, Zenon DEF EraseSector, ResetInv, TypeOK
    <3>2. o = "lost"
      <4>1. hdr' = IF o # "lost" /\ at = 0 THEN NoHdr ELSE hdr
        BY <2>2, Zenon DEF EraseSector, WriteZero
      <4>2. hdr'.ok /\ ~NoHdr.ok
        BY <1>4 DEF NoHdr
      <4>3. hdr' # NoHdr /\ (hdr' = hdr => hdr.ok)
        BY <4>2, Zenon
      <4> QED
        BY <3>1, <4>1, <4>3
    <3>3. hdr' = hdr /\ mapHdr' = mapHdr /\ mapEnt' = mapEnt /\ data' = data
      BY <1>1, <2>2, <3>2, Zenon DEF EraseSector, WriteZero, TypeOK
    <3> QED
      BY <3>3, FramedRead
  <2>3. ~FreshMapHeader(o)
    <3> SUFFICES ASSUME FreshMapHeader(o) PROVE FALSE
      OBVIOUS
    <3>1. ~mapHdr.ok
      <4>1. pc = "fresh_map" /\ at = MapSectors
        BY Zenon DEF FreshMapHeader
      <4>2. at > 0
        BY <1>1, <4>1
      <4> QED
        BY <1>1, <4>1, <4>2, Zenon DEF ResetInv
    <3>2. mapHdr' = mapHdr \/ mapHdr' = MapHeader(0)
      BY Zenon DEF FreshMapHeader, WriteMapHeader
    <3> QED
      BY <1>4, <3>1, <3>2 DEF MapHeader
  <2>4. ~FreshHeader(o) /\ ~EraseHeader(o)
    <3> SUFFICES ASSUME FreshHeader(o) \/ EraseHeader(o) PROVE FALSE
      BY Zenon
    <3>1. pc \in {"fresh_hdr", "erase_hdr"} /\ mapHdr' = mapHdr
      BY Zenon DEF FreshHeader, EraseHeader, WriteHeader
    <3>2. mapHdr = MapHeader(0)
      BY <1>1, <3>1, Zenon DEF ResetInv
    <3> QED
      BY <1>4, <3>1, <3>2 DEF MapHeader
  <2>5. ~EraseMapHeader(o)
    BY <1>1, <1>4, Zenon DEF EraseMapHeader, WriteMapHeader, ResetInv
  <2> QED
    BY <2>1, <2>2, <2>3, <2>4, <2>5
<1> QED
  BY <1>3, <1>4

\* The one step at which an append takes effect.
LEMMA AppendingStep ==
    ASSUME DurableInv, DurableInv', NEW o \in Outcomes, AppendMapHeader(o)
    PROVE  \/ ReadMemoryDb' = ReadMemoryDb
           \/ \E p \in Payloads : /\ Len(ReadMemoryDb) < MapCap
                                   /\ ReadMemoryDb' = Append(ReadMemoryDb, p)
<1> USE SMTT(30)
<1>1. /\ hdr' = hdr /\ mapEnt' = mapEnt /\ data' = data
      /\ mapHdr' = mapHdr \/ mapHdr' = MapHeader(st.used)
  BY DEF AppendMapHeader, WriteMapHeader
<1>2. CASE mapHdr' = mapHdr
  BY <1>1, <1>2, FramedRead
<1>3. CASE mapHdr' = MapHeader(st.used)
  <2>1. AppendInv /\ pc = "app_map" /\ cur \in Payloads /\ st.used \in Nat /\ mapHdr.used \in Nat
    <3>1. TypeOK /\ AppendInv /\ pc = "app_map"
      BY Zenon DEF DurableInv, AppendMapHeader
    <3>2. cur \in Payloads /\ st.used \in 0 .. MapCap /\ mapHdr.used \in 0 .. MapCap
      BY <3>1 DEF TypeOK
    <3> QED
      BY <3>1, <3>2, LayoutFacts
  <2>2. hdr.ok /\ mapHdr.ok /\ st.used = mapHdr.used + 1 /\ Holds(st.used - 1, cur)
    BY <2>1, Zenon DEF AppendInv
  <2>3. PICK n \in Nat : n = mapHdr.used
    BY <2>1
  <2>4. PICK p \in Payloads : p = cur
    BY <2>1
  <2>5. st.used - 1 = n
    BY <2>1, <2>2, <2>3
  <2>6. Holds(n, p)
    BY <2>2, <2>4, <2>5
  <2>7. Holds(n, p)' /\ RecordsStay
    BY <1>1, <2>6, Frame, Zenon DEF RecordsStay
  <2>8. mapHdr'.ok /\ mapHdr'.used = n + 1 /\ hdr'.ok
    BY <1>1, <1>3, <2>2, <2>3 DEF MapHeader
  <2> QED
    BY <2>2, <2>3, <2>7, <2>8, AppendedRead, Zenon
<1> QED
  BY <1>1, <1>2, <1>3

\* Every other step leaves what is read alone.
LEMMA QuietStep ==
    ASSUME DurableInv, DurableInv', [Next]_vars,
           \A o \in Outcomes : /\ ~FreshZeroMap(o) /\ ~FreshMapHeader(o) /\ ~FreshHeader(o)
                               /\ ~EraseSector(o) /\ ~EraseMapHeader(o) /\ ~EraseHeader(o)
                               /\ ~AppendMapHeader(o) /\ ~AppendData(o) /\ ~AppendEntry(o)
    PROVE  ReadMemoryDb' = ReadMemoryDb
<1> USE SMTT(30)
<1>1. CASE \E o \in Outcomes : BootMapHeader(o) \/ BootHeader(o) \/ AppendHeader(o)
  <2>1. PICK o \in Outcomes : BootMapHeader(o) \/ BootHeader(o) \/ AppendHeader(o)
    BY <1>1
  <2>2. /\ mapEnt' = mapEnt /\ data' = data /\ (hdr' = hdr \/ hdr' = Header(st))
        /\ mapHdr' = mapHdr \/ mapHdr' = MapHeader(st.used)
    BY <2>1, Zenon DEF BootMapHeader, BootHeader, AppendHeader, WriteHeader, WriteMapHeader
  <2>3. AppendInv /\ pc \in {"boot_map", "boot_hdr", "app_hdr"}
    BY <2>1, Zenon DEF BootMapHeader, BootHeader, AppendHeader, DurableInv
  <2>4. hdr.ok /\ mapHdr.ok /\ st.used = mapHdr.used
    BY <2>3, Zenon DEF AppendInv, AtCursor
  <2>5. TypeOK
    BY DEF DurableInv
  <2>6. hdr.ok = TRUE /\ mapHdr.ok = TRUE
    BY <2>4, <2>5 DEF TypeOK
  <2>7. hdr'.ok = TRUE /\ mapHdr'.ok = TRUE /\ mapHdr'.used = mapHdr.used
    BY <2>2, <2>4, <2>6 DEF Header, MapHeader
  <2>8. hdr'.ok = hdr.ok /\ mapHdr'.ok = mapHdr.ok /\ mapHdr'.used = mapHdr.used
    BY <2>6, <2>7, Zenon
  <2> QED
    BY <2>2, <2>8, FramedRead, Zenon
<1>2. CASE ~\E o \in Outcomes : BootMapHeader(o) \/ BootHeader(o) \/ AppendHeader(o)
  <2>1. UNCHANGED disk
    <3>1. \/ BootExisting \/ BootFresh \/ FreshVerify \/ AppendNoRoom \/ EraseStart \/ Crash
          \/ \E p \in Payloads : AppendStart(p) \/ AppendRefused(p)
          \/ UNCHANGED vars
      BY <1>2, Zenon DEF Next, Boot, AppendRest, EraseRest
    <3> QED
      BY <3>1, Zenon DEF BootExisting, BootFresh, FreshVerify, AppendStart, AppendRefused,
         AppendNoRoom, EraseStart, Crash, vars, disk
  <2> QED
    BY <2>1, FramedRead DEF disk
<1> QED
  BY <1>1, <1>2

\* Every step of the database is a step of DurableLog or leaves the log alone.
LEMMA RefinedStep ==
    ASSUME RegionIsSafe, DurableInv, DurableInv', [Next]_vars
    PROVE  [Abstract!Next]_ReadMemoryDb
<1>1. TypeOK'
  BY DEF DurableInv
<1>2. ASSUME NEW o \in Outcomes,
             \/ FreshZeroMap(o) \/ FreshMapHeader(o) \/ FreshHeader(o)
             \/ EraseSector(o) \/ EraseMapHeader(o) \/ EraseHeader(o)
      PROVE  [Abstract!Next]_ReadMemoryDb
  BY <1>2, EmptyingStep, Zenon DEF Abstract!Next, Abstract!Erase
<1>3. ASSUME NEW o \in Outcomes, AppendMapHeader(o)
      PROVE  [Abstract!Next]_ReadMemoryDb
  BY <1>3, AppendingStep, Zenon DEF Abstract!Next, Abstract!AppendRecord
<1>4. ASSUME NEW o \in Outcomes, AppendData(o) \/ AppendEntry(o)
      PROVE  ReadMemoryDb' = ReadMemoryDb
  <2>1. RecordsStay
    BY <1>1, <1>4, DataStep, EntryStep
  <2>2. hdr' = hdr /\ mapHdr' = mapHdr
    BY <1>4, Zenon DEF AppendData, AppendEntry, WriteMapEntry
  <2> QED
    BY <2>1, <2>2, SameRead
<1> QED
  BY <1>2, <1>3, <1>4, QuietStep

\* For every layout and set of records that cannot leave the region, the
\* database on the disk implements DurableLog: what read_memory_db returns grows
\* by one whole record, at the write of the map header, or becomes empty, at
\* the first zeroed header of an erase or of a boot that starts over, and no
\* crash, failed command or other step changes it.
THEOREM ImplementsDurableLogCorrect ==
    ASSUME RegionIsSafe, "recover" \notin ReadFaults
    PROVE  Spec => ImplementsDurableLog
<1>1. Init => Abstract!Init
  BY DEF Init, Abstract!Init, ReadMemoryDb, NoHdr
<1>2. DurableInv /\ DurableInv' /\ [Next]_vars => [Abstract!Next]_ReadMemoryDb
  BY RefinedStep
<1> QED
  BY <1>1, <1>2, DurableInvariant, PTL DEF Spec, ImplementsDurableLog, Abstract!Spec
=============================================================================

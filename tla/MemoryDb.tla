------------------------------ MODULE MemoryDb ------------------------------
(***************************************************************************)
(* The append-only memory database kept on the raw SSD behind the cached   *)
(* model (kernel/src/drivers/storage/ahci.rs).  LBAs are relative to the   *)
(* database header:                                                        *)
(*                                                                         *)
(*   0                     header      (cursor and entry count)            *)
(*   1                     map header  (entry count)                       *)
(*   2 .. MapSectors       map entries, EntriesPerSector to a sector       *)
(*   DataLba ..            data, one run of sectors per appended record    *)
(*                                                                         *)
(* The device takes one command at a time.  A sector is written whole or   *)
(* not at all, a command of several sectors lands in ascending order, and  *)
(* a command reported as failed may have landed or not (a timeout of       *)
(* transfer_sectors says nothing about the medium).  Power may fail        *)
(* between any two sectors.                                                *)
(***************************************************************************)
EXTENDS Integers

CONSTANTS
    Payloads,          \* the records a client appends
    SectorsOf,         \* sectors_for_bytes of each record
    MapSectors,        \* MEMORY_DB_MAP_SECTORS, the map header included
    EntriesPerSector,  \* map entries in one sector
    Total,             \* MEMORY_DB_TOTAL_SECTORS
    Capacity,          \* SSD_SECTOR_COUNT, counted from the database header
    ReadFaults,        \* where reads may fail: subset of {"boot", "recover"}
    MaxFaults          \* bound on crashes and failed commands

MapCap == (MapSectors - 1) * EntriesPerSector
DataLba == 1 + MapSectors

\* append_memory_db and recover_from_map add the size of the whole region to
\* data_lba; append_memory_db also stops at the end of the disk, plus one.
DataEnd == DataLba + Total
AppendEnd == IF DataEnd <= Capacity + 1 THEN DataEnd ELSE Capacity + 1

ASSUME LayoutAssumption ==
    /\ MapSectors \in Nat /\ MapSectors >= 2
    /\ EntriesPerSector \in Nat /\ EntriesPerSector >= 1
    /\ Total \in Nat /\ Capacity \in Nat
    /\ DataLba < Total /\ Total <= Capacity
    /\ ReadFaults \subseteq {"boot", "recover"}
    /\ MaxFaults \in Nat

ASSUME PayloadAssumption ==
    SectorsOf \in [Payloads -> Nat \ {0}]

Index == 0 .. MapCap - 1
DataLbas == DataLba .. DataEnd - 1
Blank == <<>>

VARIABLES
    hdr,         \* sector 0; ok: magic, version and layout fields match
    mapHdr,      \* sector 1
    mapEnt,      \* map entries: first sector and length; len = 0: inactive
    data,        \* data sectors; <<p, k>> is sector k of record p
    registered,  \* MEMORY_DB_HEADER_LBA is set
    pc,          \* where the operation in progress stands
    st,          \* its MemoryDbHeader: next_append_lba, map_entries_used
    cur,         \* the record it appends
    at,          \* sectors it has written
    faults,      \* crashes and failed commands so far
    acked        \* history: <<entry, record>> of every append that returned
                 \* Ok since the last erase was requested, or since a boot
                 \* could not read the database and started over

disk == <<hdr, mapHdr, mapEnt, data>>
vars == <<hdr, mapHdr, mapEnt, data, registered, pc, st, cur, at, faults, acked>>

NoHdr == [ok |-> FALSE, next |-> 0, used |-> 0]
NoMapHdr == [ok |-> FALSE, used |-> 0]
NoEntry == [start |-> 0, len |-> 0]
Header(s) == [ok |-> TRUE, next |-> s.next, used |-> s.used]
MapHeader(n) == [ok |-> TRUE, used |-> n]
Fresh == [next |-> DataLba, used |-> 0]

\* A disk no database was ever written to.
Init ==
    /\ hdr = NoHdr
    /\ mapHdr = NoMapHdr
    /\ mapEnt = [i \in Index |-> NoEntry]
    /\ data = [l \in DataLbas |-> Blank]
    /\ registered = FALSE
    /\ pc = "off"
    /\ st = Fresh
    /\ cur \in Payloads
    /\ at = 0
    /\ faults = 0
    /\ acked = {}

-----------------------------------------------------------------------------
(* What the map says.                                                      *)

EntryEnd(i) == mapEnt[i].start + mapEnt[i].len

\* The cursor recover_from_map holds when it reaches entry i.
Cursor(i) == IF i = 0 THEN DataLba ELSE EntryEnd(i - 1)

\* The tests recover_from_map applies to one entry.
Linked(i) ==
    /\ mapEnt[i].len > 0
    /\ mapEnt[i].start = Cursor(i)
    /\ EntryEnd(i) <= DataEnd

\* It stops at the first entry that fails them, or at the map header's count.
Recovered ==
    CHOOSE n \in 0 .. mapHdr.used :
        /\ \A i \in 0 .. n - 1 : Linked(i)
        /\ n = mapHdr.used \/ ~Linked(n)

RecoverFromMap == [next |-> Cursor(Recovered), used |-> Recovered]
HeaderCursor == [next |-> hdr.next, used |-> hdr.used]

\* The states append_memory_db and read_memory_db may work from: when the map
\* cannot be read they go on with the header's cursor.
WorkingStates ==
    (IF mapHdr.ok THEN {RecoverFromMap} ELSE {})
        \cup (IF ~mapHdr.ok \/ "recover" \in ReadFaults THEN {HeaderCursor} ELSE {})

\* The record whose sectors entry i holds, if it holds them all.
Holds(i, p) ==
    /\ mapEnt[i].len = SectorsOf[p]
    /\ \A k \in 0 .. SectorsOf[p] - 1 :
           /\ mapEnt[i].start + k \in DataLbas
           /\ data[mapEnt[i].start + k] = <<p, k>>

\* What read_memory_db copies into a buffer that is large enough: the records
\* of the recovered entries, oldest first (Blank where a record is torn).
ReadMemoryDb ==
    IF hdr.ok /\ mapHdr.ok
    THEN [i \in 1 .. Recovered |->
            IF \E p \in Payloads : Holds(i - 1, p)
            THEN CHOOSE p \in Payloads : Holds(i - 1, p)
            ELSE Blank]
    ELSE <<>>

-----------------------------------------------------------------------------
(* The outcome of one write command: "ok", or reported as failed after the *)
(* sector landed or without it.                                            *)

Outcomes == {"ok", "landed", "lost"}

Write(o) ==
    /\ o # "ok" => faults < MaxFaults
    /\ faults' = IF o = "ok" THEN faults ELSE faults + 1

Then(o, next) == pc' = IF o = "ok" THEN next ELSE "idle"

WriteHeader(o, s) ==
    /\ Write(o)
    /\ hdr' = IF o = "lost" THEN hdr ELSE Header(s)
    /\ UNCHANGED <<mapHdr, mapEnt, data>>

WriteMapHeader(o, n) ==
    /\ Write(o)
    /\ mapHdr' = IF o = "lost" THEN mapHdr ELSE MapHeader(n)
    /\ UNCHANGED <<hdr, mapEnt, data>>

WriteMapEntry(o, i, start, len) ==
    /\ Write(o)
    /\ mapEnt' = IF o = "lost" THEN mapEnt
                 ELSE [mapEnt EXCEPT ![i] = [start |-> start, len |-> len]]
    /\ UNCHANGED <<hdr, mapHdr, data>>

EntryLba(i) == 2 + i \div EntriesPerSector

\* Zero one sector of the region.
WriteZero(o, lba) ==
    /\ Write(o)
    /\ hdr' = IF o # "lost" /\ lba = 0 THEN NoHdr ELSE hdr
    /\ mapHdr' = IF o # "lost" /\ lba = 1 THEN NoMapHdr ELSE mapHdr
    /\ mapEnt' = [i \in Index |->
                    IF o # "lost" /\ EntryLba(i) = lba THEN NoEntry ELSE mapEnt[i]]
    /\ data' = [l \in DataLbas |-> IF o # "lost" /\ l = lba THEN Blank ELSE data[l]]

-----------------------------------------------------------------------------
(* ensure_memory_db, at boot.                                              *)

ExistingValid ==
    /\ hdr.ok
    /\ DataLba <= hdr.next /\ hdr.next <= Total
    /\ hdr.used <= MapCap
    /\ mapHdr.ok /\ mapHdr.used <= MapCap

BootExisting ==
    /\ pc = "off"
    /\ ExistingValid
    /\ st' = RecoverFromMap
    /\ pc' = "boot_map"
    /\ UNCHANGED <<disk, registered, cur, at, faults, acked>>

\* No valid header, or a read of it or of the map failed: start over.
BootFresh ==
    /\ pc = "off"
    /\ \/ ~ExistingValid /\ faults' = faults
       \/ "boot" \in ReadFaults /\ faults < MaxFaults /\ faults' = faults + 1
    /\ st' = Fresh
    /\ at' = 0
    /\ pc' = "fresh_map"
    /\ acked' = IF ExistingValid THEN {} ELSE acked
    /\ UNCHANGED <<disk, registered, cur>>

BootMapHeader(o) ==
    /\ pc = "boot_map"
    /\ WriteMapHeader(o, st.used)
    /\ registered' = (o = "ok")
    /\ Then(o, "boot_hdr")
    /\ UNCHANGED <<st, cur, at, acked>>

\* The database is registered by now, whatever comes of this write.
BootHeader(o) ==
    /\ pc = "boot_hdr"
    /\ WriteHeader(o, st)
    /\ pc' = "idle"
    /\ UNCHANGED <<registered, st, cur, at, acked>>

FreshZeroMap(o) ==
    /\ pc = "fresh_map"
    /\ at < MapSectors
    /\ WriteZero(o, 1 + at)
    /\ at' = at + 1
    /\ Then(o, pc)
    /\ UNCHANGED <<registered, st, cur, acked>>

FreshMapHeader(o) ==
    /\ pc = "fresh_map"
    /\ at = MapSectors
    /\ WriteMapHeader(o, 0)
    /\ Then(o, "fresh_hdr")
    /\ UNCHANGED <<registered, st, cur, at, acked>>

FreshHeader(o) ==
    /\ pc = "fresh_hdr"
    /\ WriteHeader(o, Fresh)
    /\ Then(o, "fresh_verify")
    /\ UNCHANGED <<registered, st, cur, at, acked>>

\* Mutant: the fresh database is not registered.
FreshVerifyForgets ==
    /\ pc = "fresh_verify"
    /\ pc' = "idle"
    /\ UNCHANGED <<disk, registered, faults, st, cur, at, acked>>

FreshVerify ==
    /\ pc = "fresh_verify"
    /\ pc' = "idle"
    /\ \/ hdr.ok /\ registered' = TRUE /\ faults' = faults
       \/ "boot" \in ReadFaults /\ faults < MaxFaults /\ faults' = faults + 1
          /\ registered' = registered
    /\ UNCHANGED <<disk, st, cur, at, acked>>

-----------------------------------------------------------------------------
(* append_memory_db                                                        *)

\* Mutant: a full map is not noticed.
AppendStartUnbounded(p) ==
    /\ pc = "idle"
    /\ registered /\ hdr.ok
    /\ st' \in WorkingStates
    /\ DataLba <= st'.next /\ st'.next < AppendEnd
    /\ cur' = p
    /\ at' = 0
    /\ pc' = "app_data"
    /\ UNCHANGED <<disk, registered, faults, acked>>

AppendStart(p) ==
    /\ pc = "idle"
    /\ registered /\ hdr.ok
    /\ \E s \in WorkingStates :
          /\ s.used < MapCap
          /\ DataLba <= s.next /\ s.next < AppendEnd
          /\ st' = s
    /\ cur' = p
    /\ at' = 0
    /\ pc' = "app_data"
    /\ UNCHANGED <<disk, registered, faults, acked>>

\* The call fails before it has written anything.
AppendRefused(p) ==
    /\ pc = "idle"
    /\ \/ ~registered \/ ~hdr.ok
       \/ \E s \in WorkingStates :
             s.used >= MapCap \/ s.next < DataLba \/ s.next >= AppendEnd
    /\ UNCHANGED vars

\* One sector of the record.
AppendData(o) ==
    /\ pc = "app_data"
    /\ at < SectorsOf[cur]
    /\ st.next + at < AppendEnd /\ st.next + at < Capacity
    /\ Write(o)
    /\ data' = IF o = "lost" THEN data ELSE [data EXCEPT ![st.next + at] = <<cur, at>>]
    /\ at' = at + 1
    /\ Then(o, pc)
    /\ UNCHANGED <<hdr, mapHdr, mapEnt, registered, st, cur, acked>>

\* In the middle of the record the region is full, or the next sector is past
\* the last one of the disk and the device refuses the command.
AppendNoRoom ==
    /\ pc = "app_data"
    /\ at < SectorsOf[cur]
    /\ st.next + at >= AppendEnd \/ st.next + at >= Capacity
    /\ pc' = "idle"
    /\ UNCHANGED <<disk, registered, st, cur, at, faults, acked>>

\* Mutant: the entry is written before the tail sector of the record.
AppendEntryEarly(o) ==
    /\ pc = "app_data"
    /\ at = SectorsOf[cur] - 1
    /\ WriteMapEntry(o, st.used, st.next, SectorsOf[cur])
    /\ st' = [next |-> st.next + SectorsOf[cur], used |-> st.used + 1]
    /\ Then(o, "app_map")
    /\ UNCHANGED <<registered, cur, at, acked>>

AppendEntry(o) ==
    /\ pc = "app_data"
    /\ at = SectorsOf[cur]
    /\ WriteMapEntry(o, st.used, st.next, SectorsOf[cur])
    /\ st' = [next |-> st.next + at, used |-> st.used + 1]
    /\ Then(o, "app_map")
    /\ UNCHANGED <<registered, cur, at, acked>>

\* Mutant: the map header gets the count from before the append.
AppendMapHeaderStale(o) ==
    /\ pc = "app_map"
    /\ WriteMapHeader(o, st.used - 1)
    /\ Then(o, "app_hdr")
    /\ UNCHANGED <<registered, st, cur, at, acked>>

AppendMapHeader(o) ==
    /\ pc = "app_map"
    /\ WriteMapHeader(o, st.used)
    /\ Then(o, "app_hdr")
    /\ UNCHANGED <<registered, st, cur, at, acked>>

AppendHeader(o) ==
    /\ pc = "app_hdr"
    /\ WriteHeader(o, st)
    /\ acked' = IF o = "ok" THEN acked \cup {<<st.used - 1, cur>>} ELSE acked
    /\ pc' = "idle"
    /\ UNCHANGED <<registered, st, cur, at>>

-----------------------------------------------------------------------------
(* erase_memory_db                                                         *)

EraseStart ==
    /\ pc = "idle"
    /\ registered /\ hdr.ok
    /\ at' = 0
    /\ acked' = {}
    /\ pc' = "erase"
    /\ UNCHANGED <<disk, registered, st, cur, faults>>

\* Mutant: the region is zeroed from its end, the header last.
EraseSectorDown(o) ==
    /\ pc = "erase"
    /\ at < Total
    /\ WriteZero(o, Total - 1 - at)
    /\ at' = at + 1
    /\ Then(o, pc)
    /\ UNCHANGED <<registered, st, cur, acked>>

\* The region is zeroed from its header on, ERASE_CHUNK_SECTORS to a command;
\* a fault inside a command leaves the sectors before it zeroed.
EraseSector(o) ==
    /\ pc = "erase"
    /\ at < Total
    /\ WriteZero(o, at)
    /\ at' = at + 1
    /\ Then(o, pc)
    /\ UNCHANGED <<registered, st, cur, acked>>

\* Mutant: the last sector of the region is not zeroed.
EraseMapHeaderEarly(o) ==
    /\ pc = "erase"
    /\ at >= Total - 1
    /\ WriteMapHeader(o, 0)
    /\ st' = Fresh
    /\ Then(o, "erase_hdr")
    /\ UNCHANGED <<registered, cur, at, acked>>

EraseMapHeader(o) ==
    /\ pc = "erase"
    /\ at = Total
    /\ WriteMapHeader(o, 0)
    /\ st' = Fresh
    /\ Then(o, "erase_hdr")
    /\ UNCHANGED <<registered, cur, at, acked>>

EraseHeader(o) ==
    /\ pc = "erase_hdr"
    /\ WriteHeader(o, st)
    /\ pc' = "idle"
    /\ UNCHANGED <<registered, st, cur, at, acked>>

-----------------------------------------------------------------------------

\* Power is lost, or the machine is rebooted while no operation runs.
Crash ==
    /\ pc # "off"
    /\ pc # "idle" => faults < MaxFaults
    /\ faults' = IF pc = "idle" THEN faults ELSE faults + 1
    /\ pc' = "off"
    /\ registered' = FALSE
    /\ UNCHANGED <<disk, st, cur, at, acked>>

Boot ==
    \/ BootExisting
    \/ BootFresh
    \/ FreshVerify
    \/ \E o \in Outcomes : \/ BootMapHeader(o)
                           \/ BootHeader(o)
                           \/ FreshZeroMap(o)
                           \/ FreshMapHeader(o)
                           \/ FreshHeader(o)

AppendRest ==
    \/ AppendNoRoom
    \/ \E o \in Outcomes : \/ AppendData(o)
                           \/ AppendEntry(o)
                           \/ AppendMapHeader(o)
                           \/ AppendHeader(o)

EraseRest ==
    \E o \in Outcomes : \/ EraseSector(o)
                        \/ EraseMapHeader(o)
                        \/ EraseHeader(o)

Next ==
    \/ Boot
    \/ \E p \in Payloads : AppendStart(p) \/ AppendRefused(p)
    \/ AppendRest
    \/ EraseStart
    \/ EraseRest
    \/ Crash

Spec == Init /\ [][Next]_vars

\* A call that has started runs on until it returns: nothing in it waits for
\* anything but the device, which transfer_sectors gives up on.
Fairness == WF_vars(Boot) /\ WF_vars(AppendRest) /\ WF_vars(EraseRest)

FairSpec == Spec /\ Fairness

-----------------------------------------------------------------------------
(* Properties                                                              *)

TypeOK ==
    /\ hdr \in [ok : BOOLEAN, next : Nat, used : 0 .. MapCap]
    /\ mapHdr \in [ok : BOOLEAN, used : 0 .. MapCap]
    /\ mapEnt \in [Index -> [start : Nat, len : Nat]]
    /\ data \in [DataLbas -> {Blank} \cup (Payloads \X Nat)]
    /\ registered \in BOOLEAN
    /\ pc \in {"off", "idle", "boot_map", "boot_hdr", "fresh_map", "fresh_hdr",
               "fresh_verify", "app_data", "app_map", "app_hdr", "erase", "erase_hdr"}
    /\ st \in [next : Nat, used : 0 .. MapCap]
    /\ cur \in Payloads
    /\ at \in Nat
    /\ faults \in 0 .. MaxFaults
    /\ acked \in SUBSET (Index \X Payloads)

\* An append that returned Ok is never lost: until an erase is requested, at
\* every instant of every later operation and across crashes, failed writes
\* and retries, the next boot would keep the database, and recovery reaches
\* the record's entry and finds all of its sectors (append_memory_db,
\* memory_db_recover_from_map and the test for an existing header).
Durable ==
    \A a \in acked :
        /\ ExistingValid
        /\ a[1] < Recovered
        /\ Holds(a[1], a[2])

\* No torn record is ever listed: while header and map header can be read,
\* every entry that recovery accepts names the complete sectors of a record,
\* because append_memory_db writes data, entry and map header in that order
\* and erase_memory_db destroys the header before anything else.
NoTornRecord ==
    hdr.ok /\ mapHdr.ok =>
        \A i \in 0 .. Recovered - 1 : \E p \in Payloads : Holds(i, p)

\* Every sector outside the database region stays untouched: the data of an
\* append ends at or before the last LBA that ensure_memory_db announces.
DataInRegion ==
    \A l \in DataLbas : l >= Total => data[l] = Blank

\* When erase_memory_db returns Ok, no sector of an earlier record is left on
\* the disk.
ErasedIsGone ==
    [][pc = "erase_hdr" /\ pc' = "idle" /\ hdr'.ok
         => \A l \in DataLbas : data'[l] = Blank]_vars

\* A database in any state a crash can leave is made usable by one boot whose
\* commands succeed: ensure_memory_db either keeps it or starts it afresh.
BootRepairs ==
    (pc = "off" /\ faults = MaxFaults) ~> (registered /\ hdr.ok)

Abstract == INSTANCE DurableLog
            WITH Records <- Payloads, Limit <- MapCap, log <- ReadMemoryDb

\* The log of records on the disk implements DurableLog: the write of the map
\* header is the one step at which an append takes effect, the zeroing of a
\* header the one step at which an erase, or a boot that starts over, does.
ImplementsDurableLog == Abstract!Spec

-----------------------------------------------------------------------------
(* The inductive invariant behind Durable, NoTornRecord, DataInRegion and  *)
(* ErasedIsGone.  It holds where the reads of the map by an append do not  *)
(* fail, and where an append cannot leave the region.                      *)

RecordBound(m) ==
    /\ \A p \in Payloads : SectorsOf[p] <= m
    /\ DataLba + MapCap * m <= Total

\* However many records are appended, the map fills up before the region.
MapFillsFirst == \E m \in 0 .. Total : RecordBound(m)

\* No append leaves the region: the map is full before, or the disk ends.
RegionIsSafe == MapFillsFirst \/ Capacity = Total

MaxSectors == CHOOSE m \in 0 .. Total : RecordBound(m)

\* No entry before the n-th ends behind this sector.
Bound(n) == IF MapFillsFirst THEN DataLba + n * MaxSectors ELSE Total

GoodEntry(i) ==
    /\ Linked(i)
    /\ mapEnt[i].start >= DataLba
    /\ EntryEnd(i) <= Bound(i + 1)
    /\ \E p \in Payloads : Holds(i, p)

\* The first n entries are good and in the order of their sectors.
GoodMap(n) ==
    /\ \A i \in 0 .. n - 1 : GoodEntry(i)
    /\ \A i, j \in 0 .. n - 1 : i < j => EntryEnd(i) <= mapEnt[j].start

AtCursor == st.used = mapHdr.used /\ st.next = Cursor(st.used)

\* A header that is valid without a map header is that of a database a boot
\* could not read; no operation works on it.
DiskInv ==
    /\ hdr.ok => DataLba <= hdr.next /\ hdr.next <= Total
    /\ hdr.ok /\ mapHdr.ok => GoodMap(mapHdr.used)
    /\ hdr.ok /\ registered => mapHdr.ok
    /\ \A a \in acked : /\ hdr.ok /\ mapHdr.ok
                         /\ a[1] < mapHdr.used
                         /\ Holds(a[1], a[2])

AppendInv ==
    /\ pc \in {"boot_map", "boot_hdr", "app_data", "app_map", "app_hdr"} => hdr.ok /\ mapHdr.ok
    /\ pc \in {"boot_map", "boot_hdr", "app_data", "app_hdr"} => AtCursor
    /\ pc = "app_data" => /\ st.used < MapCap
                          /\ at <= SectorsOf[cur]
                          /\ st.next + at <= Total
                          /\ \A k \in 0 .. at - 1 : data[st.next + k] = <<cur, k>>
    /\ pc = "app_map" => /\ st.used = mapHdr.used + 1
                         /\ st.next = Cursor(st.used)
                         /\ GoodMap(st.used)
    /\ pc \in {"app_map", "app_hdr"} => st.used >= 1 /\ Holds(st.used - 1, cur)

ResetInv ==
    /\ pc \in {"off", "fresh_map", "fresh_hdr", "fresh_verify"} => ~registered
    /\ pc \in {"fresh_map", "fresh_hdr", "fresh_verify", "erase", "erase_hdr"} => acked = {}
    /\ pc = "fresh_map" /\ at > 0 => ~mapHdr.ok
    /\ pc \in {"fresh_hdr", "fresh_verify", "erase_hdr"} => mapHdr = MapHeader(0)
    /\ pc = "erase" => /\ at > 0 => ~hdr.ok
                       /\ \A l \in DataLbas : l < at => data[l] = Blank
    /\ pc = "erase_hdr" => /\ ~hdr.ok /\ st = Fresh
                           /\ \A l \in DataLbas : data[l] = Blank

DurableInv == TypeOK /\ DiskInv /\ AppendInv /\ ResetInv /\ DataInRegion
=============================================================================

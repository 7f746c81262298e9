----------------------------- MODULE ModelCache -----------------------------
(***************************************************************************)
(* How the model gets into memory and onto the SSD, and where the memory   *)
(* database goes: try_load_raw_model and write_raw_model_cache             *)
(* (kernel/src/drivers/storage/ahci.rs) and the USB task that reads the    *)
(* model from a stick when the SSD has none (kernel/src/drivers/usb/       *)
(* xhci.rs).  The disk is a row of sectors: the cache header, the sector   *)
(* of the smoke test, the model, and right behind it the database.  Power  *)
(* may fail between any two sectors; a read may fail, and a write that     *)
(* fails may have reached the disk.  A sector that was written stays       *)
(* written: the disk is taken to have no volatile cache.                   *)
(*                                                                         *)
(* grown is a history variable: a model was cached over the place the      *)
(* database is registered at.                                              *)
(***************************************************************************)
EXTENDS Integers, Sequences

CONSTANTS
    Models,            \* models a stick may hold
    Size,              \* sectors of each model
    MIN_RAW_MODEL_SIZE, MAX_RAW_MODEL_SIZE,
    CapacitySectors,   \* SSD_SECTOR_COUNT
    DB_SECTORS         \* MEMORY_DB_TOTAL_SECTORS: header, map and data

VARIABLES disk, pc, stick, model_info, target, header_lba, ensure, app, grown

vars == <<disk, pc, stick, model_info, target, header_lba, ensure, app, grown>>

CacheLba == 0
SmokeLba == CacheLba + 1
DataLba == CacheLba + 2     \* MODEL_HEADER_SECTORS
NoLba == -1

Blank == <<"blank", 0, 0>>
Smoke == <<"HSMOKE01", 0, 0>>
Header(magic, size) == <<magic, 0, size>>
Piece(m, i) == <<"model", m, i>>
DbHeader(lba) == <<"MEMDB002", 0, lba>>
DbMap == <<"DMAP", 0, 0>>
DbData == <<"record", 0, 0>>

NoModel == [source |-> "none", image |-> <<>>]
Image(m) == [i \in 1 .. Size[m] |-> Piece(m, i)]

NextFree(size) == DataLba + size

TypeOK ==
    /\ DOMAIN disk = 0 .. CapacitySectors - 1
    /\ pc \in {"off", "header", "extent", "load", "usb", "smoke", "writing",
               "copy", "ready", "ensure", "run"}
    /\ stick \in Models \cup {0}
    /\ model_info.source \in {"none", "ssd-cache", "usb-msc"}
    /\ header_lba \in {NoLba} \cup 0 .. CapacitySectors
    /\ app \in {"idle", "data", "map", "header"}
    /\ grown \in BOOLEAN

Init ==
    /\ disk = [l \in 0 .. CapacitySectors - 1 |-> Blank]
    /\ pc = "off"
    /\ stick = 0
    /\ model_info = NoModel
    /\ target = <<>>
    /\ header_lba = NoLba
    /\ ensure = [step |-> "none", size |-> 0, then |-> "run"]
    /\ app = "idle"
    /\ grown = FALSE

-----------------------------------------------------------------------------
\* Power comes on with some stick plugged in, and goes at any moment.
power_on ==
    /\ pc = "off"
    /\ pc' = "header"
    /\ stick' \in Models \cup {0}
    /\ UNCHANGED <<app, disk, model_info, target, header_lba, ensure, grown>>

power_off ==
    /\ pc # "off"
    /\ pc' = "off"
    /\ stick' = 0
    /\ model_info' = NoModel
    /\ target' = <<>>
    /\ header_lba' = NoLba
    /\ ensure' = [step |-> "none", size |-> 0, then |-> "run"]
    /\ app' = "idle"
    /\ UNCHANGED <<disk, grown>>

Write(lba, sector) == disk' = [disk EXCEPT ![lba] = sector]

raw_model_range_fits(size) == DataLba + size <= CapacitySectors

-----------------------------------------------------------------------------
(* ensure_memory_db(next_free_lba): keeps a database with a valid header,  *)
(* formats one otherwise.  Its errors are tolerated by both callers.       *)

DbFits == NextFree(ensure.size) + DB_SECTORS <= CapacitySectors

EnsureDone ==
    /\ pc' = ensure.then
    /\ ensure' = [step |-> "none", size |-> 0, then |-> "run"]

BeginEnsure(size, then) ==
    /\ pc' = "ensure"
    /\ ensure' = [step |-> "check", size |-> size, then |-> then]

\* memory_db_register_state: a OnceCell, the first location stays.
memory_db_register_state(lba) ==
    header_lba' = IF header_lba = NoLba THEN lba ELSE header_lba

Preserved(lba) == disk[lba] = DbHeader(lba) /\ disk[lba + 1] = DbMap

\* A location that does not fit, or any command of it that fails.
ensure_fails ==
    /\ pc = "ensure"
    /\ EnsureDone
    /\ LET lba == NextFree(ensure.size)
       IN  \/ UNCHANGED disk
           \/ DbFits /\ ensure.step = "map" /\ Write(lba + 1, DbMap)
           \/ DbFits /\ ensure.step = "format" /\ Write(lba, DbHeader(lba))
    /\ UNCHANGED <<app, stick, model_info, target, header_lba, grown>>

ensure_preserves ==
    /\ pc = "ensure"
    /\ ensure.step = "check"
    /\ DbFits
    /\ Preserved(NextFree(ensure.size))
    /\ memory_db_register_state(NextFree(ensure.size))
    /\ EnsureDone
    /\ UNCHANGED <<app, disk, stick, model_info, target, grown>>

ensure_format ==
    /\ pc = "ensure"
    /\ ensure.step = "check"
    /\ DbFits
    /\ ensure' = [ensure EXCEPT !.step = "map"]
    /\ UNCHANGED <<app, disk, pc, stick, model_info, target, header_lba, grown>>

ensure_map ==
    /\ pc = "ensure"
    /\ ensure.step = "map"
    /\ Write(NextFree(ensure.size) + 1, DbMap)
    /\ ensure' = [ensure EXCEPT !.step = "format"]
    /\ UNCHANGED <<app, pc, stick, model_info, target, header_lba, grown>>

ensure_header ==
    /\ pc = "ensure"
    /\ ensure.step = "format"
    /\ Write(NextFree(ensure.size), DbHeader(NextFree(ensure.size)))
    /\ memory_db_register_state(NextFree(ensure.size))
    /\ EnsureDone
    /\ UNCHANGED <<app, stick, model_info, target, grown>>

-----------------------------------------------------------------------------
(* try_load_raw_model, during the enumeration of the disk.                 *)

CachedSize == disk[CacheLba][3]

HeaderAccepted ==
    /\ disk[CacheLba][1] = "READY"
    /\ CachedSize \in MIN_RAW_MODEL_SIZE .. MAX_RAW_MODEL_SIZE
    /\ raw_model_range_fits(CachedSize)

load_header ==
    /\ pc = "header"
    /\ \/ HeaderAccepted /\ pc' = "extent"
       \/ pc' = "usb" \* also when the header cannot be read
    /\ UNCHANGED <<app, disk, stick, model_info, target, header_lba, ensure, grown>>

\* verify_raw_model_extent reads the last sector, then sets up the database.
verify_raw_model_extent ==
    /\ pc = "extent"
    /\ BeginEnsure(CachedSize, "load")
    /\ UNCHANGED <<app, disk, stick, model_info, target, header_lba, grown>>

\* One sector of a chunk; the first must carry the GGUF magic.
load_chunk ==
    /\ pc = "load"
    /\ LET next == disk[DataLba + Len(target)]
       IN  /\ target = <<>> => next[1] = "model" /\ next[3] = 1
           /\ target' = Append(target, next)
           /\ IF Len(target') = CachedSize
              THEN /\ model_info' = [source |-> "ssd-cache", image |-> target']
                   /\ pc' = "run"
              ELSE UNCHANGED <<model_info, pc>>
    /\ UNCHANGED <<app, disk, stick, header_lba, ensure, grown>>

\* A read error, a wrong magic, no memory: the USB task may go on.
load_fails ==
    /\ pc \in {"extent", "load"}
    /\ pc' = "usb"
    /\ target' = <<>>
    /\ UNCHANGED <<app, disk, stick, model_info, header_lba, ensure, grown>>

-----------------------------------------------------------------------------
(* The USB task, and write_raw_model_cache.                                *)

\* The model is announced before it is cached; a stick that cannot be read
\* leaves the machine without one.
usb_ingest ==
    /\ pc = "usb"
    /\ stick # 0
    /\ model_info' = [source |-> "usb-msc", image |-> Image(stick)]
    /\ pc' = "smoke"
    /\ UNCHANGED <<app, disk, stick, target, header_lba, ensure, grown>>

usb_fails ==
    /\ pc = "usb"
    /\ pc' = "run"
    /\ UNCHANGED <<app, disk, stick, model_info, target, header_lba, ensure, grown>>

\* The range is checked and a sector outside the model written and read.
smoke_test_raw_model_cache ==
    /\ pc = "smoke"
    /\ raw_model_range_fits(Size[stick])
    /\ Write(SmokeLba, Smoke)
    /\ pc' = "writing"
    /\ UNCHANGED <<app, stick, model_info, target, header_lba, ensure, grown>>

\* Mutant: the header is touched only once the model is written.
write_header_late ==
    /\ pc = "writing"
    /\ target' = <<>>
    /\ pc' = "copy"
    /\ UNCHANGED <<app, disk, stick, model_info, header_lba, ensure, grown>>

write_header ==
    /\ pc = "writing"
    /\ Write(CacheLba, Header("WRITING", Size[stick]))
    /\ target' = <<>>
    /\ pc' = "copy"
    /\ UNCHANGED <<app, stick, model_info, header_lba, ensure, grown>>

copy_sector ==
    /\ pc = "copy"
    /\ LET i == Len(target) + 1
       IN  /\ Write(DataLba + i - 1, Piece(stick, i))
           /\ target' = Append(target, Piece(stick, i))
           /\ pc' = IF i = Size[stick] THEN "ready" ELSE "copy"
    /\ grown' = (grown \/ (header_lba # NoLba /\ NextFree(Size[stick]) > header_lba))
    /\ UNCHANGED <<app, stick, model_info, header_lba, ensure>>

write_ready ==
    /\ pc = "ready"
    /\ Write(CacheLba, Header("READY", Size[stick]))
    /\ BeginEnsure(Size[stick], "run")
    /\ UNCHANGED <<app, stick, model_info, target, header_lba, grown>>

\* Any command of it fails: the copy is abandoned, the model stays in memory.
write_fails ==
    /\ pc \in {"smoke", "writing", "copy", "ready"}
    /\ pc' = "run"
    /\ \/ UNCHANGED disk
       \/ pc = "smoke" /\ raw_model_range_fits(Size[stick]) /\ Write(SmokeLba, Smoke)
       \/ pc = "writing" /\ Write(CacheLba, Header("WRITING", Size[stick]))
       \/ pc = "copy" /\ Write(DataLba + Len(target), Piece(stick, Len(target) + 1))
       \/ pc = "ready" /\ Write(CacheLba, Header("READY", Size[stick]))
    /\ grown' = (grown \/ (pc = "copy" /\ header_lba # NoLba
                             /\ NextFree(Size[stick]) > header_lba))
    /\ UNCHANGED <<app, stick, model_info, target, header_lba, ensure>>

-----------------------------------------------------------------------------
(* append_memory_db of the application, which runs beside the USB task:    *)
(* it reads the header and the map of the registered database, then writes *)
(* the record, the map and the header.  It stops at the first error.       *)

AppRuns ==
    \/ pc \in {"usb", "smoke", "writing", "copy", "ready", "run"}
    \/ pc = "ensure" /\ ensure.then = "run"

append_begin ==
    /\ AppRuns
    /\ app = "idle"
    /\ header_lba # NoLba
    /\ Preserved(header_lba)
    /\ app' = "data"
    /\ UNCHANGED <<disk, pc, stick, model_info, target, header_lba, ensure, grown>>

append_step ==
    /\ AppRuns
    /\ \/ /\ app = "data"
          /\ \E sector \in 2 .. DB_SECTORS - 1 : Write(header_lba + sector, DbData)
          /\ app' \in {"map", "idle"}
       \/ /\ app = "map"
          /\ Write(header_lba + 1, DbMap)
          /\ app' \in {"header", "idle"}
       \/ /\ app = "header"
          /\ Write(header_lba, DbHeader(header_lba))
          /\ app' = "idle"
    /\ UNCHANGED <<pc, stick, model_info, target, header_lba, ensure, grown>>

Next ==
    \/ power_on \/ power_off
    \/ load_header \/ verify_raw_model_extent \/ load_chunk \/ load_fails
    \/ ensure_fails \/ ensure_preserves \/ ensure_format \/ ensure_map \/ ensure_header
    \/ usb_ingest \/ usb_fails \/ smoke_test_raw_model_cache
    \/ write_header \/ copy_sector \/ write_ready \/ write_fails
    \/ append_begin \/ append_step

Spec == Init /\ [][Next]_vars

-----------------------------------------------------------------------------
IsWhole(image) == \E m \in Models : image = Image(m)

\* A header that says READY stands before a complete model, and a model
\* handed to the application is complete, whatever crashed or failed in
\* between: the header says WRITING while any sector changes.  The one
\* exception is a model cached over the place the database was registered
\* at in the same boot.
ModelIsWhole ==
    \/ grown
    \/ /\ disk[CacheLba][1] = "READY" =>
            IsWhole([i \in 1 .. CachedSize |-> disk[DataLba + i - 1]])
       /\ model_info # NoModel => IsWhole(model_info.image)

\* The database the application writes to lies behind the cached model and
\* inside the disk, with the same exception.
DatabaseIsApart ==
    header_lba # NoLba =>
        /\ header_lba + DB_SECTORS <= CapacitySectors
        /\ ~grown /\ disk[CacheLba][1] = "READY" => header_lba >= NextFree(CachedSize)
=============================================================================

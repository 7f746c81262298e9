----------------------------- MODULE UsbIngest -----------------------------
(***************************************************************************)
(* How the USB task reads the model from a stick (kernel/src/drivers/usb/  *)
(* xhci.rs): the partition, the search of a FAT32 directory tree, the walk *)
(* of the cluster chain in runs of neighbouring clusters, and the raw      *)
(* fallback.  One byte stands for one device block, which is one sector of *)
(* the file system; the content of a block is its address.  A stick has    *)
(* blocks that cannot be read, and may refuse reads that are too long.     *)
(***************************************************************************)
EXTENDS Integers, Sequences, SequencesExt

CONSTANTS
    Sticks,               \* the sticks a run plugs in
    DeviceBlocks,         \* blocks of a stick
    DEFAULT_LBA,          \* where a volume is looked for without a partition
    ReservedSectors, FatSectors, FatEntriesPerSector, SectorsPerCluster,
    MaxReadBlocks,        \* USB_MAX_READ_BYTES
    RawSize,              \* RAW_GGUF_FALLBACK_SIZE
    LargeSize,            \* files above it may be the model for their size alone
    MaxSubdirs, MaxDepth, MaxDirectoryClusters

EndOfChain == 99  \* 0x0fff_fff8 and above
NoFile == [first |-> 0, size |-> 0]

VARIABLES
    stick,        \* [part, header, root, dirs, fat, bad, burst]
    pc, candidates, base_lba,
    file,         \* fat_file
    cluster, copied,
    buffer,       \* the model buffer, as far as it is written
    model_info

vars == <<stick, pc, candidates, base_lba, file, cluster, copied, buffer, model_info>>

TypeOK ==
    /\ stick.bad \subseteq 0 .. DeviceBlocks - 1
    /\ pc \in {"mbr", "probe", "alloc", "ingest", "raw", "loaded", "failed"}
    /\ Len(candidates) <= 2
    /\ base_lba \in 0 .. DeviceBlocks
    /\ copied \in 0 .. DeviceBlocks
    /\ model_info \in {"none", "usb-msc-fat32", "usb-msc-raw"}

Init ==
    /\ stick \in Sticks
    /\ pc = "mbr"
    /\ candidates = <<>>
    /\ base_lba = 0
    /\ file = NoFile
    /\ cluster = 0
    /\ copied = 0
    /\ buffer = <<>>
    /\ model_info = "none"

-----------------------------------------------------------------------------
(* Reading blocks: three attempts, then the halves on their own.           *)

Blocks(lba, count) == lba .. lba + count - 1

Readable(lba, count) == Blocks(lba, count) \subseteq 0 .. DeviceBlocks - 1 \ stick.bad

read_device_sectors_once(lba, count) == count <= stick.burst /\ Readable(lba, count)

RECURSIVE read_device_sectors(_, _)
read_device_sectors(lba, count) ==
    \/ read_device_sectors_once(lba, count)
    \/ /\ count > 1
       /\ LET split == count \div 2
          IN  /\ read_device_sectors(lba, split)
              /\ read_device_sectors(lba + split, count - split)

Content(lba, count) == [i \in 1 .. count |-> lba + i - 1]

first_device_lba_of_cluster(base, c) ==
    base + ReservedSectors + FatSectors + (c - 2) * SectorsPerCluster

fat_lba_for_cluster(base, c) == base + ReservedSectors + c \div FatEntriesPerSector

IsCluster(c) == c >= 2 /\ c < EndOfChain

\* -1: the sector of the entry cannot be read.  A sector that is not of the
\* table holds what it holds: no further cluster.
read_fat_entry(base, c) ==
    IF ~read_device_sectors(fat_lba_for_cluster(base, c), 1) THEN -1
    ELSE IF c \in DOMAIN stick.fat THEN stick.fat[c] ELSE EndOfChain

ReadCluster(base, c) ==
    read_device_sectors(first_device_lba_of_cluster(base, c), SectorsPerCluster)

-----------------------------------------------------------------------------
(* The search.  A directory entry is [kind, gguf, ggml, magic, first,      *)
(* size]; kind "lfn" is a piece of a long name, whose gguf says that it    *)
(* ends in ".gguf".                                                        *)

fat32_file_from_entry(e) == e.kind = "file" /\ e.first >= 2 /\ e.size > 0
fat32_directory_from_entry(e) == e.kind = "dir" /\ e.first >= 2

fat32_file_has_gguf_magic(base, e) ==
    e.magic /\ read_device_sectors(first_device_lba_of_cluster(base, e.first), 1)

AsFile(e) == [first |-> e.first, size |-> e.size]

\* One entry; the scan stops at a preferred file or at the end marker.
ScanEntry(base, depth, s, e) ==
    IF s.stop \/ e.kind = "end" THEN [s EXCEPT !.stop = TRUE]
    ELSE IF e.kind = "lfn" THEN [s EXCEPT !.lfn = @ \/ e.gguf]
    ELSE IF fat32_file_from_entry(e)
         THEN IF e.gguf /\ e.ggml
              THEN [s EXCEPT !.stop = TRUE, !.preferred = AsFile(e)]
              ELSE [s EXCEPT
                      !.lfn = FALSE,
                      !.gguf = IF @ = NoFile /\ (\/ e.gguf \/ s.lfn
                                                 \/ fat32_file_has_gguf_magic(base, e))
                               THEN AsFile(e) ELSE @,
                      !.largest = IF e.size > LargeSize /\ e.size > @.size
                                  THEN AsFile(e) ELSE @]
         ELSE [s EXCEPT
                 !.lfn = FALSE,
                 !.subdirs = IF depth < MaxDepth /\ Len(@) < MaxSubdirs
                                /\ fat32_directory_from_entry(e)
                             THEN Append(@, e.first) ELSE @]

ScanStart == [stop |-> FALSE, failed |-> FALSE, lfn |-> FALSE, preferred |-> NoFile,
              gguf |-> NoFile, largest |-> NoFile, subdirs |-> <<>>]

Entries(c) == IF c \in DOMAIN stick.dirs THEN stick.dirs[c] ELSE <<>>

RECURSIVE ScanChain(_, _, _, _, _)
ScanChain(base, depth, c, seen, s) ==
    IF ~IsCluster(c) \/ seen = MaxDirectoryClusters THEN s
    ELSE IF ~ReadCluster(base, c) THEN [s EXCEPT !.failed = TRUE]
    ELSE LET scanned == FoldLeft(LAMBDA acc, e : ScanEntry(base, depth, acc, e), s, Entries(c))
             next == read_fat_entry(base, c)
         IN  IF scanned.stop THEN scanned
             ELSE IF next = -1 THEN [scanned EXCEPT !.failed = TRUE]
             ELSE ScanChain(base, depth, next, seen + 1, scanned)

\* A preferred file at once; else what a subdirectory has, in order; else
\* the first GGUF file; else the largest large one.
RECURSIVE find_gguf_file_in_fat32_dir(_, _, _)
find_gguf_file_in_fat32_dir(base, start, depth) ==
    LET s == ScanChain(base, depth, start, 0, ScanStart)
        below == SelectSeq([i \in DOMAIN s.subdirs |->
                              find_gguf_file_in_fat32_dir(base, s.subdirs[i], depth + 1)],
                           LAMBDA f : f # NoFile)
    IN  IF s.preferred # NoFile THEN s.preferred
        ELSE IF s.failed THEN NoFile
        ELSE IF below # <<>> THEN below[1]
        ELSE IF s.gguf # NoFile THEN s.gguf
        ELSE s.largest

-----------------------------------------------------------------------------
(* The task.                                                               *)

read_mbr ==
    /\ pc = "mbr"
    /\ candidates' = IF read_device_sectors(0, 1) /\ stick.part > 0
                     THEN <<stick.part, DEFAULT_LBA>> ELSE <<DEFAULT_LBA>>
    /\ pc' = "probe"
    /\ UNCHANGED <<stick, base_lba, file, cluster, copied, buffer, model_info>>

\* A candidate holds a raw model, a volume with a model, or neither.
probe ==
    /\ pc = "probe"
    /\ candidates # <<>>
    /\ LET base == Head(candidates)
           kind == IF base \in DOMAIN stick.header /\ read_device_sectors(base, 1)
                   THEN stick.header[base] ELSE "other"
           found == IF kind = "FAT32"
                    THEN find_gguf_file_in_fat32_dir(base, stick.root, 0) ELSE NoFile
       IN  IF kind = "GGUF" \/ found # NoFile
           THEN /\ base_lba' = base
                /\ file' = found
                /\ candidates' = <<>>
                /\ pc' = "alloc"
           ELSE /\ candidates' = Tail(candidates)
                /\ UNCHANGED <<base_lba, file, pc>>
    /\ UNCHANGED <<stick, cluster, copied, buffer, model_info>>

\* Nothing was found: a buffer of the fallback's size is allocated in vain.
not_found ==
    /\ pc = "probe"
    /\ candidates = <<>>
    /\ pc' = "failed"
    /\ UNCHANGED <<stick, candidates, base_lba, file, cluster, copied, buffer, model_info>>

allocate ==
    /\ pc = "alloc"
    /\ \/ pc' = "failed" /\ UNCHANGED cluster
       \/ /\ pc' = IF file = NoFile THEN "raw" ELSE "ingest"
          /\ cluster' = file.first
    /\ UNCHANGED <<stick, candidates, base_lba, file, copied, buffer, model_info>>

\* How many clusters one read takes from c on, the first n being decided.
RECURSIVE run_clusters(_, _)
run_clusters(c, n) ==
    IF n * SectorsPerCluster < MaxReadBlocks
       /\ read_fat_entry(base_lba, c + n - 1) = c + n
       /\ copied + n * SectorsPerCluster < file.size
    THEN run_clusters(c, n + 1)
    ELSE n

\* One turn of the loop: a run is read, and the chain followed behind it.
ingest_run ==
    /\ pc = "ingest"
    /\ copied < file.size
    /\ IsCluster(cluster)
    /\ LET n == run_clusters(cluster, 1)
           blocks == n * SectorsPerCluster
           lba == first_device_lba_of_cluster(base_lba, cluster)
           next == read_fat_entry(base_lba, cluster + n - 1)
       IN  IF ~read_device_sectors(lba, blocks)
           THEN pc' = "failed" /\ UNCHANGED <<cluster, copied, buffer>>
           ELSE /\ buffer' = SubSeq(buffer, 1, copied) \o Content(lba, blocks)
                /\ copied' = IF copied + blocks < file.size THEN copied + blocks
                             ELSE file.size
                /\ IF copied' < file.size /\ next = -1
                   THEN pc' = "failed" /\ UNCHANGED cluster
                   ELSE /\ cluster' = IF copied' < file.size THEN next ELSE cluster + n - 1
                        /\ UNCHANGED pc
    /\ UNCHANGED <<stick, candidates, base_lba, file, model_info>>

\* A chain that ends before the size of the file is refused.
ingest_end ==
    /\ pc = "ingest"
    /\ copied >= file.size \/ ~IsCluster(cluster)
    /\ IF copied >= file.size
       THEN pc' = "loaded" /\ model_info' = "usb-msc-fat32"
       ELSE pc' = "failed" /\ UNCHANGED model_info
    /\ UNCHANGED <<stick, candidates, base_lba, file, cluster, copied, buffer>>

raw_burst ==
    /\ pc = "raw"
    /\ copied < RawSize
    /\ LET left == RawSize - copied
           count == IF left < MaxReadBlocks THEN left ELSE MaxReadBlocks
       IN  IF ~read_device_sectors(base_lba + copied, count)
           THEN pc' = "failed" /\ UNCHANGED <<copied, buffer>>
           ELSE /\ buffer' = buffer \o Content(base_lba + copied, count)
                /\ copied' = copied + count
                /\ UNCHANGED pc
    /\ UNCHANGED <<stick, candidates, base_lba, file, cluster, model_info>>

raw_end ==
    /\ pc = "raw"
    /\ copied = RawSize
    /\ pc' = "loaded"
    /\ model_info' = "usb-msc-raw"
    /\ UNCHANGED <<stick, candidates, base_lba, file, cluster, copied, buffer>>

Next ==
    \/ read_mbr \/ probe \/ not_found \/ allocate
    \/ ingest_run \/ ingest_end \/ raw_burst \/ raw_end

Spec == Init /\ [][Next]_vars

-----------------------------------------------------------------------------
(* What a file is, from the layout alone.                                  *)

RECURSIVE Chain(_, _)
Chain(c, n) ==
    IF n = 0 THEN <<>>
    ELSE <<c>> \o Chain(IF c \in DOMAIN stick.fat THEN stick.fat[c] ELSE EndOfChain, n - 1)

FileChain == Chain(file.first, (file.size + SectorsPerCluster - 1) \div SectorsPerCluster)

FileBlock(i) ==
    first_device_lba_of_cluster(base_lba, FileChain[(i - 1) \div SectorsPerCluster + 1])
        + ((i - 1) % SectorsPerCluster)

FileIsReadable ==
    \A k \in DOMAIN FileChain :
        /\ IsCluster(FileChain[k])
        /\ Readable(first_device_lba_of_cluster(base_lba, FileChain[k]), SectorsPerCluster)
        /\ k < Len(FileChain) => Readable(fat_lba_for_cluster(base_lba, FileChain[k]), 1)

\* A model read from a FAT32 stick is the file, block for block in the order
\* of its cluster chain; a file that can be read is never given up, however
\* short the reads that the stick accepts; and the buffer is never outrun
\* (its size is rounded up to the longest read).
IngestedIsFile ==
    /\ pc = "loaded" /\ file # NoFile =>
          /\ FileIsReadable
          /\ \A i \in 1 .. file.size : buffer[i] = FileBlock(i)
    /\ pc = "failed" /\ cluster # 0 => ~FileIsReadable
    /\ file # NoFile =>
          Len(buffer) <= ((file.size + MaxReadBlocks - 1) \div MaxReadBlocks) * MaxReadBlocks

\* The entries of a directory up to its end marker, over all its clusters.
RECURSIVE DirectoryEntries(_, _)
DirectoryEntries(c, n) ==
    IF ~IsCluster(c) \/ n = 0 THEN <<>>
    ELSE Entries(c) \o DirectoryEntries(Chain(c, 2)[2], n - 1)

Live(entries) ==
    {i \in DOMAIN entries : \A j \in 1 .. i : entries[j].kind # "end"}

\* Entry i is a file that may be the model: by its short name, by the long
\* name right before it, by its content or by its size.
LooksLikeModel(entries, i) ==
    /\ fat32_file_from_entry(entries[i])
    /\ \/ entries[i].gguf
       \/ entries[i].magic
       \/ entries[i].size > LargeSize
       \/ \E j \in 1 .. i - 1 : /\ \A k \in j .. i - 1 : entries[k].kind = "lfn"
                                /\ entries[j].gguf

RECURSIVE ModelFiles(_, _)
ModelFiles(c, depth) ==
    LET entries == DirectoryEntries(c, MaxDirectoryClusters)
        live == Live(entries)
    IN  {AsFile(entries[i]) : i \in {i \in live : LooksLikeModel(entries, i)}}
        \cup UNION {ModelFiles(entries[i].first, depth + 1) :
                      i \in {i \in live : depth < MaxDepth
                                            /\ fat32_directory_from_entry(entries[i])}}

\* The search opens only a file that looks like a model, and finds one if
\* the tree has one and every block can be read: a long name counts for the
\* file behind it and no other, also across clusters, and a directory that
\* has none does not hide the next.
SearchFindsModel ==
    /\ file # NoFile => file \in ModelFiles(stick.root, 0)
    /\ pc = "failed" /\ file = NoFile /\ base_lba = 0 /\ stick.bad = {}
          /\ stick.part > 0 /\ stick.part \in DOMAIN stick.header
          /\ stick.header[stick.part] = "FAT32"
          => ModelFiles(stick.root, 0) = {}
=============================================================================

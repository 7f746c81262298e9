------------------------------- MODULE MemFs -------------------------------
(***************************************************************************)
(* The in-memory file system (kernel/src/fs/mem.rs) behind the path calls  *)
(* of fs/mod.rs and the descriptor calls of fd/mod.rs and syscalls/mod.rs, *)
(* for tasks of one application, which share one object map (the map of    *)
(* scheduler/mod.rs is cloned by reference into every spawned task).       *)
(*                                                                         *)
(* Names are numbers, since a directory is a BTreeMap and lists its names  *)
(* in their order.  A path is its components after the leading slash; a    *)
(* relative one is appended to the working directory.  A traversal keeps   *)
(* the read locks of the directories it came through, so the part of a     *)
(* call under the last directory's lock is one step; mkdir and mount look  *)
(* under a read lock and insert under a write lock taken later, hence two  *)
(* steps.  A call that returns an error changes nothing and is left out,   *)
(* as are times and permission bits, which no call enforces.               *)
(***************************************************************************)
EXTENDS Integers, Sequences, FiniteSets, SequencesExt

CONSTANTS
    Tasks,
    Names,          \* a set of numbers
    Paths,          \* the paths used: [abs |-> BOOLEAN, comps |-> sequence of names]
    Tmp, Proc,      \* the names "tmp" and "proc"
    Bytes,          \* byte values written, not 0
    Offsets,        \* arguments of lseek
    USIZE,          \* stands for 2^64
    MaxNodes,       \* bound, per load: nodes ever created
    MaxOpen,        \* bound, per load: descriptors open at a time
    MaxLen          \* bound: length of a file

VARIABLES
    dirs,           \* directory node -> its entries, a function from names to nodes
    files,          \* file node -> [data, size (st_size), rom]
    objs,           \* open file descriptions, see object: a function from numbers
    object_map,     \* descriptor -> its description
    cwd,            \* WORKING_DIRECTORY
    call,           \* task -> what it is in the middle of
    panicked,       \* a slice index was out of range
    load            \* what the application does: "names" or "bytes"

vars == <<dirs, files, objs, object_map, cwd, call, panicked, load>>

Root == 0
Idle == [op |-> "idle"]
EmptyFn == [x \in {} |-> 0]
Put(f, k, v) == [x \in DOMAIN f \cup {k} |-> IF x = k THEN v ELSE f[x]]
Drop(f, k) == [x \in DOMAIN f \ {k} |-> f[x]]
Nodes == DOMAIN dirs \cup DOMAIN files
NewNode == Cardinality(Nodes)

TypeOK ==
    /\ \A d \in DOMAIN dirs : /\ DOMAIN dirs[d] \subseteq Names
                              /\ \A n \in DOMAIN dirs[d] : dirs[d][n] \in Nodes
    /\ DOMAIN dirs \cap DOMAIN files = {}
    /\ \A f \in DOMAIN files : files[f].data \in Seq(Bytes \cup {0})
    /\ \A i \in DOMAIN objs : objs[i].node \in Nodes
    /\ \A fd \in DOMAIN object_map : object_map[fd] \in DOMAIN objs
    /\ DOMAIN call = Tasks

(***************************************************************************)
(* Init is the state fs::init leaves: /tmp, and /proc with one file        *)
(* (version) named like the directory.                                     *)
(***************************************************************************)
Init ==
    /\ dirs = [d \in 0 .. 2 |-> IF d = 0 THEN [n \in {Tmp, Proc} |-> IF n = Tmp THEN 1 ELSE 2]
                                ELSE IF d = 1 THEN EmptyFn ELSE [n \in {Proc} |-> 3]]
    /\ files = [f \in {3} |-> [data |-> <<CHOOSE b \in Bytes : TRUE>>, size |-> 1, rom |-> FALSE]]
    /\ objs = EmptyFn
    /\ object_map = EmptyFn
    /\ cwd = <<Tmp>>
    /\ call = [t \in Tasks |-> Idle]
    /\ panicked = FALSE
    /\ load \in {"names", "bytes"}

-----------------------------------------------------------------------------
(* Paths *)

with_relative_filename(p) == IF p.abs THEN p.comps ELSE cwd \o p.comps

\* A relative call holds the spin lock of the working directory to its end.
CwdFree == \A t \in Tasks : call[t].op = "mkdir" => ~ call[t].relative
PathIsFree(p) == p.abs \/ CwdFree

\* The directories a traversal of all components but the last comes through;
\* -1 where a component is missing or is a file.
Steps(comps) ==
    LET down(acc, n) == Append(acc, LET d == Last(acc)
                                    IN  IF d \in DOMAIN dirs /\ n \in DOMAIN dirs[d]
                                        THEN dirs[d][n] ELSE -1)
    IN  FoldLeft(down, <<Root>>, Front(comps))

Reached(comps) == Last(Steps(comps)) \in DOMAIN dirs
Parent(comps) == Last(Steps(comps))
Present(comps) == Last(comps) \in DOMAIN dirs[Parent(comps)]
Target(comps) == dirs[Parent(comps)][Last(comps)]

\* The directories whose read locks the callers of a pending mkdir hold.
ReadLocked == UNION {call[t].through : t \in {u \in Tasks : call[u].op = "mkdir"}}
Writable(comps) == Reached(comps) /\ Parent(comps) \notin ReadLocked

-----------------------------------------------------------------------------
(* The object map and open file descriptions *)

Unused(map) == CHOOSE fd \in 0 .. Cardinality(DOMAIN map) :
                  fd \notin DOMAIN map /\ \A k \in 0 .. fd - 1 : k \in DOMAIN map

\* What get_object of a node gives: a position of its own on shared content.
\* start, listed, ended and quiet are auxiliary: where the last seek went, the
\* names reported since, that a call with room for one found none, and that the
\* directory did not change.
object(node) == [node |-> node, pos |-> 0, start |-> 0, listed |-> <<>>, ended |-> FALSE, quiet |-> TRUE]

insert_object(os, node) ==
    /\ Cardinality(DOMAIN object_map) < MaxOpen[load]
    /\ objs' = Put(os, Unused(os), object(node))
    /\ object_map' = Put(object_map, Unused(object_map), Unused(os))

dup_object(t, fd) ==
    /\ call[t] = Idle
    /\ fd \in DOMAIN object_map
    /\ Cardinality(DOMAIN object_map) < MaxOpen[load]
    /\ object_map' = Put(object_map, Unused(object_map), object_map[fd])
    /\ UNCHANGED <<dirs, files, objs, cwd, call, panicked>>

dup_object2(t, fd1, fd2) ==
    /\ call[t] = Idle
    /\ fd1 \in DOMAIN object_map /\ fd2 \notin DOMAIN object_map
    /\ object_map' = Put(object_map, fd2, object_map[fd1])
    /\ UNCHANGED <<dirs, files, objs, cwd, call, panicked>>

\* The last descriptor of a description takes it along.
close(t, fd) ==
    /\ call[t] = Idle
    /\ fd \in DOMAIN object_map
    /\ object_map' = Drop(object_map, fd)
    /\ objs' = [o \in {object_map'[k] : k \in DOMAIN object_map'} |-> objs[o]]
    /\ UNCHANGED <<dirs, files, cwd, call, panicked>>

\* Scans of directory d after a name was added to it or taken from it.
Rescan(d) == [i \in DOMAIN objs |-> IF objs[i].node # d THEN objs[i] ELSE [objs[i] EXCEPT !.quiet = FALSE]]

-----------------------------------------------------------------------------
(* Calls that take a path *)

NewFile == [data |-> <<>>, size |-> 0, rom |-> FALSE]

open_existing(t, p, directory) ==
    LET comps == with_relative_filename(p)
    IN  /\ call[t] = Idle /\ PathIsFree(p)
        /\ Writable(comps) /\ Present(comps)
        /\ directory => Target(comps) \in DOMAIN dirs
        /\ insert_object(objs, Target(comps))
        /\ UNCHANGED <<dirs, files, cwd, call, panicked>>

open_create(t, p) ==
    LET comps == with_relative_filename(p)
        d == Parent(comps)
    IN  /\ call[t] = Idle /\ PathIsFree(p)
        /\ Writable(comps) /\ ~ Present(comps)
        /\ NewNode < MaxNodes[load]
        /\ dirs' = [dirs EXCEPT ![d] = Put(@, Last(comps), NewNode)]
        /\ files' = Put(files, NewNode, NewFile)
        /\ insert_object(Rescan(d), NewNode)
        /\ UNCHANGED <<cwd, call, panicked>>

\* sys_open, and File::open
open(t, p, creat, directory) ==
    \/ open_existing(t, p, directory)
    \/ creat /\ open_create(t, p)

\* File::create: open with O_CREAT and O_RDWR
create(t, p) == open(t, p, TRUE, FALSE)

\* create_file: an entry of that name, of either kind, is replaced
create_file(t, p) ==
    LET comps == with_relative_filename(p)
        d == Parent(comps)
        content == <<CHOOSE b \in Bytes : TRUE>>
    IN  /\ call[t] = Idle /\ PathIsFree(p)
        /\ Writable(comps)
        /\ NewNode < MaxNodes[load]
        /\ dirs' = [dirs EXCEPT ![d] = Put(@, Last(comps), NewNode)]
        /\ files' = Put(files, NewNode, [data |-> content, size |-> 1, rom |-> TRUE])
        /\ objs' = IF Present(comps) THEN objs ELSE Rescan(d)
        /\ UNCHANGED <<object_map, cwd, call, panicked>>

\* traverse_mkdir and traverse_mount up to the release of the read lock
traverse_mkdir(t, p) ==
    LET comps == with_relative_filename(p)
    IN  /\ call[t] = Idle /\ PathIsFree(p)
        /\ Reached(comps) /\ ~ Present(comps)
        /\ call' = [call EXCEPT ![t] =
              [op |-> "mkdir", dir |-> Parent(comps), name |-> Last(comps),
               through |-> ToSet(Front(Steps(comps))), relative |-> ~ p.abs]]
        /\ UNCHANGED <<dirs, files, objs, object_map, cwd, panicked>>

\* and its insertion, whatever the entry is by now
mkdir_insert(t) ==
    LET d == call[t].dir
        n == call[t].name
    IN  /\ call[t].op = "mkdir"
        /\ NewNode < MaxNodes[load]
        /\ d \notin ReadLocked
        /\ dirs' = Put([dirs EXCEPT ![d] = Put(@, n, NewNode)], NewNode, EmptyFn)
        /\ objs' = IF n \in DOMAIN dirs[d] THEN objs ELSE Rescan(d)
        /\ call' = [call EXCEPT ![t] = Idle]
        /\ UNCHANGED <<files, object_map, cwd, panicked>>

\* Only the kind of the entry is looked at, not whether it is empty.
rmdir(t, p) ==
    LET comps == with_relative_filename(p)
        d == Parent(comps)
    IN  /\ call[t] = Idle /\ PathIsFree(p)
        /\ Writable(comps) /\ Present(comps)
        /\ Target(comps) \in DOMAIN dirs
        /\ dirs' = [dirs EXCEPT ![d] = Drop(@, Last(comps))]
        /\ objs' = Rescan(d)
        /\ UNCHANGED <<files, object_map, cwd, call, panicked>>

unlink(t, p) ==
    LET comps == with_relative_filename(p)
        d == Parent(comps)
    IN  /\ call[t] = Idle /\ PathIsFree(p)
        /\ Writable(comps) /\ Present(comps)
        /\ Target(comps) \in DOMAIN files
        /\ dirs' = [dirs EXCEPT ![d] = Drop(@, Last(comps))]
        /\ objs' = Rescan(d)
        /\ UNCHANGED <<files, object_map, cwd, call, panicked>>

\* set_cwd does not look whether the directory exists.
set_cwd(t, p) ==
    /\ call[t] = Idle /\ CwdFree
    /\ p.abs \/ Len(cwd) < 2
    /\ cwd' = with_relative_filename(p)
    /\ UNCHANGED <<dirs, files, objs, object_map, call, panicked>>

-----------------------------------------------------------------------------
(* Calls that take a descriptor *)

\* Vec::resize(n, 0)
Resized(data, n) == [i \in 1 .. n |-> IF i <= Len(data) THEN data[i] ELSE 0]

\* A call works on the object it got from the map, which it keeps alive.
OnFile(t, fd, f) ==
    /\ call[t] = Idle
    /\ fd \in DOMAIN object_map
    /\ f = objs[object_map[fd]].node
    /\ f \in DOMAIN files

SetPos(fd, n) == objs' = [objs EXCEPT ![object_map[fd]].pos = n]

\* data[pos .. pos + len] panics unless it is in range.
Slice(data, pos, len) == panicked' = (panicked \/ pos + len > Len(data) \/ len < 0)

\* RamFileInterface::read and RomFileInterface::read: behind the end, where
\* another description's truncate may have left the position, 0 is returned.
read(t, fd, n) ==
    \E f \in DOMAIN files :
        LET pos == objs[object_map[fd]].pos
            data == files[f].data
            len == IF Len(data) - pos < n THEN Len(data) - pos ELSE n
        IN  /\ OnFile(t, fd, f)
            /\ IF pos >= Len(data) THEN UNCHANGED <<objs, panicked>>
               ELSE Slice(data, pos, len) /\ SetPos(fd, pos + len)
            /\ UNCHANGED <<dirs, files, object_map, cwd, call>>

\* The content and position after a write of buf at the description's position.
Written(file, pos, buf) ==
    LET end == pos + Len(buf)
        grown == IF end > Len(file.data)
                 THEN [file EXCEPT !.data = Resized(@, end), !.size = end] ELSE file
    IN  [grown EXCEPT !.data = [i \in DOMAIN @ |-> IF i > pos /\ i <= end THEN buf[i - pos]
                                                   ELSE @[i]]]

write_object(fd, f, buf) ==
    LET pos == objs[object_map[fd]].pos
    IN  /\ ~ files[f].rom
        /\ pos + Len(buf) <= MaxLen
        /\ files' = [files EXCEPT ![f] = Written(@, pos, buf)]
        /\ Slice(files'[f].data, pos, Len(buf))
        /\ SetPos(fd, pos + Len(buf))

write(t, fd, buf) ==
    \E f \in DOMAIN files :
        /\ OnFile(t, fd, f)
        /\ write_object(fd, f, buf)
        /\ UNCHANGED <<dirs, object_map, cwd, call>>

\* sys_writev looks the descriptor up again for every part.
writev(t, fd, b, c) ==
    \E f \in DOMAIN files :
        /\ OnFile(t, fd, f)
        /\ write_object(fd, f, <<b>>)
        /\ call' = [call EXCEPT ![t] = [op |-> "writev", fd |-> fd, buf |-> <<c>>]]
        /\ UNCHANGED <<dirs, object_map, cwd>>

writev_next(t) ==
    LET fd == call[t].fd
    IN  /\ call[t].op = "writev"
        /\ call' = [call EXCEPT ![t] = Idle]
        /\ IF /\ fd \in DOMAIN object_map
              /\ objs[object_map[fd]].node \in DOMAIN files
              /\ ~ files[objs[object_map[fd]].node].rom
              /\ objs[object_map[fd]].pos < MaxLen
           THEN write_object(fd, objs[object_map[fd]].node, call[t].buf)
           ELSE UNCHANGED <<files, objs, panicked>>
        /\ UNCHANGED <<dirs, object_map, cwd>>

\* A position past the end grows a RAM file; it is an error on a ROM file.
lseek(t, fd, offset, whence) ==
    \E f \in DOMAIN files :
        LET len == Len(files[f].data)
            new_pos == CASE whence = "Set" -> offset
                         [] whence = "Cur" -> objs[object_map[fd]].pos + offset
                         [] whence = "End" -> len + offset
        IN  /\ OnFile(t, fd, f)
            /\ new_pos \in 0 .. (IF files[f].rom THEN len ELSE MaxLen)
            /\ files' = IF new_pos > len
                        THEN [files EXCEPT ![f].data = Resized(@, new_pos), ![f].size = new_pos]
                        ELSE files
            /\ SetPos(fd, new_pos)
            /\ UNCHANGED <<dirs, object_map, cwd, call, panicked>>

\* Positions of the descriptions stay where they are.
Truncated(f, n) == files' = [files EXCEPT ![f].data = Resized(@, n), ![f].size = n]

ftruncate(t, fd, n) ==
    \E f \in DOMAIN files :
        /\ OnFile(t, fd, f)
        /\ ~ files[f].rom
        /\ Truncated(f, n)
        /\ UNCHANGED <<dirs, objs, object_map, cwd, call, panicked>>

\* O_TRUNC of its open has no effect; the description is not put in the map.
truncate(t, p, n) ==
    LET comps == with_relative_filename(p)
    IN  /\ call[t] = Idle /\ PathIsFree(p)
        /\ Writable(comps) /\ Present(comps)
        /\ Target(comps) \in DOMAIN files
        /\ ~ files[Target(comps)].rom
        /\ Truncated(Target(comps), n)
        /\ UNCHANGED <<dirs, objs, object_map, cwd, call, panicked>>

-----------------------------------------------------------------------------
(* Directory listings: read_idx counts names, in their order *)

Listing(d) == SetToSortSeq(DOMAIN dirs[d], <)

OnDirectory(t, fd) ==
    /\ call[t] = Idle
    /\ fd \in DOMAIN object_map
    /\ objs[object_map[fd]].node \in DOMAIN dirs

\* A call whose buffer has room for the next n entries.  It returns 0 when
\* there are no more, and also when the next one does not fit.
getdents(t, fd, n) ==
    LET o == object_map[fd]
        names == Listing(objs[o].node)
        from == objs[o].pos
        upto == IF from + n < Len(names) THEN from + n ELSE Len(names)
    IN  /\ OnDirectory(t, fd)
        /\ objs' = [objs EXCEPT ![o].listed = @ \o SubSeq(names, from + 1, upto),
                                ![o].pos = IF upto > from THEN upto ELSE from,
                                ![o].ended = (n > 0 /\ upto <= from)]
        /\ UNCHANGED <<dirs, files, object_map, cwd, call, panicked>>

\* MemDirectoryInterface::lseek: only a relative seek must be one to 0, and it
\* goes to the start; with SeekWhence::Set any offset is taken, as a usize.
seekdir(t, fd, offset, whence) ==
    LET o == object_map[fd]
        idx == offset % USIZE
    IN  /\ OnDirectory(t, fd)
        /\ ~ (whence # "Set" /\ offset # 0)
        /\ objs' = [objs EXCEPT ![o] = [object(@.node) EXCEPT !.pos = idx, !.start = idx]]
        /\ UNCHANGED <<dirs, files, object_map, cwd, call, panicked>>

\* Applications that work on names, and ones that work on the bytes of files.
NextNames ==
    \E t \in Tasks :
        \/ \E p \in Paths :
             \/ \E creat, directory \in BOOLEAN : open(t, p, creat, directory)
             \/ create(t, p) \/ create_file(t, p) \/ traverse_mkdir(t, p)
             \/ rmdir(t, p) \/ unlink(t, p) \/ set_cwd(t, p)
        \/ mkdir_insert(t)
        \/ \E fd \in DOMAIN object_map :
             \/ close(t, fd)
             \/ \E n \in 0 .. 2 : getdents(t, fd, n)
             \/ \E o \in Offsets, w \in {"Set", "Cur", "End"} : seekdir(t, fd, o, w)

NextBytes ==
    \E t \in Tasks :
        \/ \E p \in Paths :
             \/ open(t, p, TRUE, FALSE) \/ create_file(t, p) \/ unlink(t, p)
             \/ \E n \in 0 .. MaxLen : truncate(t, p, n)
        \/ writev_next(t)
        \/ \E fd \in DOMAIN object_map :
             \/ dup_object(t, fd) \/ close(t, fd)
             \/ \E fd2 \in 0 .. MaxOpen[load] - 1 : dup_object2(t, fd, fd2)
             \/ \E n \in 1 .. 2 : read(t, fd, n)
             \/ \E b \in Bytes : write(t, fd, <<b>>) \/ write(t, fd, <<b, b>>)
             \/ \E b, c \in Bytes : writev(t, fd, b, c)
             \/ \E n \in 0 .. MaxLen : ftruncate(t, fd, n)
             \/ \E o \in Offsets, w \in {"Set", "Cur", "End"} : lseek(t, fd, o, w)

Next ==
    /\ UNCHANGED load
    /\ \/ load = "names" /\ NextNames
       \/ load = "bytes" /\ NextBytes

Spec == Init /\ [][Next]_vars

-----------------------------------------------------------------------------
(* Properties *)

\* The size that fstat and lstat report is the length of the content, and no
\* slice of it is out of range, however the descriptions of one file move, grow
\* and truncate it under each other (RamFileInterface, RomFileInterface).
SizeIsLength == ~ panicked /\ \A f \in DOMAIN files : files[f].size = Len(files[f].data)

\* A listing over several calls that saw no change of its directory has reported
\* every name from where it was started, once and in order, when a call with
\* room for an entry returns 0 (getdents).  A caller whose buffer is too small
\* for the next name gets the same 0 with names left (mem.rs:403-406).
ListingIsComplete ==
    \A i \in DOMAIN objs :
        objs[i].quiet /\ objs[i].ended =>
            LET names == Listing(objs[i].node)
            IN  objs[i].listed = SubSeq(names, objs[i].start + 1, Len(names))
=============================================================================

------------------------------- MODULE VirtioFs -------------------------------
(***************************************************************************)
(* The virtio-fs client: kernel/src/fs/virtio_fs.rs over send_command of   *)
(* drivers/fs/mod.rs.                                                      *)
(*                                                                         *)
(* The driver's lock is held for one FUSE command at a time, so a call     *)
(* that sends several commands (opening a file, listing a directory,       *)
(* following a symbolic link) is several steps, between which other tasks  *)
(* and the host change the file system.  A file handle's own lock covers a *)
(* read, write or seek.  The host is external: it answers each command or  *)
(* fails it (MaxErrors times).                                             *)
(*                                                                         *)
(* Names are numbers; a path is the sequence of its components from the    *)
(* root of the share; the target of a link is relative (an absolute one    *)
(* is left out).  The entries of a directory are listed in the order of    *)
(* their names; a host may list "." and ".." too, which are left out but   *)
(* keep an answer from being short.  A directory entry has size 1, as has  *)
(* a byte.                                                                 *)
(***************************************************************************)
EXTENDS Integers, Sequences, FiniteSets, SequencesExt

CONSTANTS Tasks, Names, Paths,
          Hosts,          \* the file trees the host may start with, see Tree
          Tmp,            \* the name "tmp", standing for "tmp" and "proc"
          MaxNodes,       \* bound: nodes are 0 .. MaxNodes - 1
          MAX_READ_LEN,   \* also MAX_WRITE_LEN
          MaxLen,         \* bound: length of a file
          MaxLinks,       \* bound: links followed by one stat
          MaxHandles,     \* bound: handles opened by the guest
          USIZE,          \* usize wraps here (an offset below zero becomes a large position)
          MaxCalls, MaxErrors

VARIABLES host,           \* node -> [kind, data, ents, target]
          fhs,            \* open handles of the host: fh -> node
          handles,        \* handles of the guest, see NewFile and NewDir
          call,           \* what each task is in the middle of
          mounts,         \* names mounted by init
          calls, errors,
          short,          \* listings that ended early because the host listed nothing
          stat,           \* the last answer of stat
          overrun,        \* a listing went on behind the host's answer
          panicked        \* the kernel panicked: nothing runs any more

virtiofs_vars == <<host, fhs, handles, call, mounts, calls, errors, short, stat, overrun, panicked>>

Root == 0
NoNode == -1
NoHandle == -1
Nodes == 0 .. MaxNodes - 1
Idle == [op |-> "idle"]
Free == [kind |-> "free", data |-> <<>>, ents |-> <<>>, target |-> <<>>]
NoStat == [path |-> <<>>, node |-> NoNode, quiet |-> FALSE, plain |-> FALSE]

Put(f, k, v) == [x \in DOMAIN f \cup {k} |-> IF x = k THEN v ELSE f[x]]
Without(f, k) == [x \in DOMAIN f \ {k} |-> f[x]]
Least(S) == CHOOSE x \in S : \A y \in S : x <= y

-----------------------------------------------------------------------------
(* External: the host *)

\* FUSE_LOOKUP of a path from the root: the node, links not followed.
HostLookup(path) ==
  FoldLeft(LAMBDA n, name : IF n # NoNode /\ host[n].kind = "dir" /\ name \in DOMAIN host[n].ents
                            THEN host[n].ents[name] ELSE NoNode,
           Root, path)

Listing(n) == SetToSortSeq(DOMAIN host[n].ents, <)
FreeNodes == {n \in Nodes : host[n].kind = "free"}
NewFh == Least(0 .. Cardinality(DOMAIN fhs) \ DOMAIN fhs)

HostAdd(path, kind) ==
  LET n == Least(FreeNodes) IN
  LET parent == HostLookup(Front(path)) IN
  [host EXCEPT ![n] = [Free EXCEPT !.kind = kind],
               ![parent].ents = Put(host[parent].ents, Last(path), n)]

\* A path at which a node can be made.
Creatable(path) ==
  /\ path # <<>> /\ FreeNodes # {} /\ HostLookup(path) = NoNode
  /\ HostLookup(Front(path)) # NoNode /\ host[HostLookup(Front(path))].kind = "dir"

\* The file a node number still names: a removed node keeps its data for those who opened it.
HostRemove(path) ==
  LET parent == HostLookup(Front(path))
  IN [host EXCEPT ![parent].ents = Without(@, Last(path))]

-----------------------------------------------------------------------------
(* Handles and calls *)

NewFile(nid, fh) == [kind |-> "file", nid |-> nid, fh |-> fh, offset |-> 0, path |-> <<>>,
                     seen |-> <<>>, clean |-> TRUE, ended |-> FALSE]
NewDir(path) == [kind |-> "dir", nid |-> NoNode, fh |-> -1, offset |-> 0, path |-> path,
                 seen |-> <<>>, clean |-> TRUE, ended |-> FALSE]
NewHandle == Cardinality(DOMAIN handles)
OpenHandles == {h \in DOMAIN handles : handles[h].kind # "closed"}

Begin(t) == /\ call[t] = Idle /\ calls < MaxCalls /\ calls' = calls + 1
Now(t, c) == call' = [call EXCEPT ![t] = c]
Return(t) == Now(t, Idle)

\* send_command failed: with `?` the call returns.
Fails(t) ==
  /\ errors < MaxErrors /\ errors' = errors + 1
  /\ Return(t)
  /\ UNCHANGED <<host, fhs, handles, mounts, short, stat, overrun, panicked>>

\* Handles of the data that a change of the host makes incomparable with what they saw.
Touched(ns) == [h \in DOMAIN handles |->
                 IF handles[h].nid \in ns \/ (handles[h].kind = "dir" /\ HostLookup(handles[h].path) \in ns)
                 THEN [handles[h] EXCEPT !.clean = FALSE] ELSE handles[h]]

-----------------------------------------------------------------------------
(* traverse_open *)

\* With O_CREAT: one command makes the file, or finds it, and opens it.
create(t, path) ==
  /\ Begin(t) /\ NewHandle < MaxHandles
  /\ \/ Fails(t)
     \/ /\ Creatable(path) \/ (HostLookup(path) # NoNode /\ host[HostLookup(path)].kind = "file")
        /\ IF HostLookup(path) = NoNode
             THEN /\ host' = HostAdd(path, "file")
                  /\ fhs' = Put(fhs, NewFh, Least(FreeNodes))
                  /\ handles' = Put(Touched({HostLookup(Front(path))}), NewHandle, NewFile(Least(FreeNodes), NewFh))
             ELSE /\ fhs' = Put(fhs, NewFh, HostLookup(path))
                  /\ handles' = Put(handles, NewHandle, NewFile(HostLookup(path), NewFh))
                  /\ UNCHANGED host
        /\ Return(t)
        /\ UNCHANGED <<mounts, errors, short, stat, overrun, panicked>>

open_lookup(t, path) ==
  /\ Begin(t) /\ NewHandle < MaxHandles
  /\ LET n == HostLookup(path)
     IN IF n = NoNode \/ host[n].kind # "file" THEN Return(t) ELSE Now(t, [op |-> "open", nid |-> n])
  /\ UNCHANGED <<host, fhs, handles, mounts, errors, short, stat, overrun, panicked>>

\* FUSE_OPEN of the node that the lookup found; the node is open, or the call fails.
open_open(t) ==
  /\ call[t].op = "open" /\ UNCHANGED calls
  /\ \/ Fails(t)
     \/ /\ fhs' = Put(fhs, NewFh, call[t].nid)
        /\ handles' = Put(handles, NewHandle, NewFile(call[t].nid, NewFh))
        /\ Return(t)
        /\ UNCHANGED <<host, mounts, errors, short, stat, overrun, panicked>>

\* With O_DIRECTORY, alone: the handle has a path and no handle of the host.
opendir(t, path) ==
  /\ Begin(t) /\ NewHandle < MaxHandles
  /\ HostLookup(path) # NoNode /\ host[HostLookup(path)].kind = "dir"
  /\ handles' = Put(handles, NewHandle, NewDir(path))
  /\ UNCHANGED <<host, fhs, call, mounts, errors, short, stat, overrun, panicked>>

\* Drop for VirtioFsFileHandleInner: FUSE_RELEASE, whose answer is unwrapped.
drop(t, h) ==
  /\ Begin(t) /\ h \in OpenHandles
  /\ handles' = [handles EXCEPT ![h].kind = "closed"]
  /\ \/ /\ fhs' = IF handles[h].kind = "file" THEN Without(fhs, handles[h].fh) ELSE fhs
        /\ UNCHANGED <<errors, panicked>>
     \/ /\ handles[h].kind = "file" /\ errors < MaxErrors
        /\ errors' = errors + 1 /\ panicked' = TRUE
        /\ UNCHANGED fhs
  /\ UNCHANGED <<host, call, mounts, short, stat, overrun>>

-----------------------------------------------------------------------------
(* Files *)

Files == {h \in DOMAIN handles : handles[h].kind = "file"}
Min2(a, b) == IF a < b THEN a ELSE b
DataOf(h) == host[fhs[handles[h].fh]].data

\* What read adds to the offset: the length of the answer, cut to what was asked.
Advance(got, asked) == IF got >= asked THEN asked ELSE got

read(t, h, n) ==
  /\ Begin(t) /\ h \in Files
  /\ LET len == Min2(n, MAX_READ_LEN)
         got == SubSeq(DataOf(h), handles[h].offset + 1, Min2(handles[h].offset + len, Len(DataOf(h))))
     IN handles' = [handles EXCEPT ![h].offset = @ + Advance(Len(got), len),
                                   ![h].seen = @ \o got]
  /\ UNCHANGED <<host, fhs, call, mounts, errors, short, stat, overrun, panicked>>

Write(data, at, bytes) ==
  [i \in 1 .. (IF at + Len(bytes) > Len(data) THEN at + Len(bytes) ELSE Len(data)) |->
     IF i > at /\ i <= at + Len(bytes) THEN bytes[i - at]
     ELSE IF i <= Len(data) THEN data[i] ELSE 0]

\* The host may write less than it was given.
write(t, h, bytes) ==
  /\ Begin(t) /\ h \in Files /\ handles[h].offset + Len(bytes) <= MaxLen
  /\ \E k \in 1 .. Min2(Len(bytes), MAX_READ_LEN) :
       LET n == fhs[handles[h].fh]
       IN /\ host' = [host EXCEPT ![n].data = Write(@, handles[h].offset, SubSeq(bytes, 1, k))]
          /\ handles' = [Touched({n}) EXCEPT ![h].offset = @ + k]
  /\ UNCHANGED <<fhs, call, mounts, errors, short, stat, overrun, panicked>>

\* lseek: the offset is kept here; only End (and Data, Hole) ask the host.
lseek(t, h, offset, whence) ==
  /\ Begin(t) /\ h \in Files
  /\ LET new == CASE whence = "Set" -> offset
                  [] whence = "Cur" -> handles[h].offset + offset
                  [] whence = "End" -> Len(DataOf(h)) + offset
     IN new \in 0 .. MaxLen /\ handles' = [handles EXCEPT ![h].offset = new, ![h].clean = FALSE]
  /\ UNCHANGED <<host, fhs, call, mounts, errors, short, stat, overrun, panicked>>

\* set_attr with FATTR_SIZE; chmod and fstat change nothing that is kept here.
truncate(t, h, size) ==
  /\ Begin(t) /\ h \in Files
  /\ LET n == fhs[handles[h].fh]
     IN /\ host' = [host EXCEPT ![n].data = [i \in 1 .. size |-> IF i <= Len(@) THEN @[i] ELSE 0]]
        /\ handles' = Touched({n})
  /\ UNCHANGED <<fhs, call, mounts, errors, short, stat, overrun, panicked>>

-----------------------------------------------------------------------------
(* Directories: getdents and traverse_readdir *)

LockFree(h) == \A t \in Tasks : call[t].op \in {"read", "release"} => call[t].h # h \/ h = NoHandle

getdents(t, h, room) ==
  /\ Begin(t) /\ h \in OpenHandles /\ handles[h].kind = "dir"
  /\ LET n == HostLookup(handles[h].path)
     IN IF n = NoNode THEN Return(t) ELSE Now(t, [op |-> "opendir", nid |-> n, h |-> h, room |-> room])
  /\ UNCHANGED <<host, fhs, handles, mounts, errors, short, stat, overrun, panicked>>

\* traverse_readdir lists a directory at once and keeps no position (h is NoHandle).
traverse_readdir(t, path) ==
  /\ Begin(t)
  /\ LET n == HostLookup(path)
     IN IF n = NoNode \/ host[n].kind # "dir" THEN Return(t)
        ELSE Now(t, [op |-> "opendir", nid |-> n, h |-> NoHandle, room |-> MaxNodes])
  /\ UNCHANGED <<host, fhs, handles, mounts, errors, short, stat, overrun, panicked>>

getdents_opendir(t) ==
  /\ call[t].op = "opendir" /\ UNCHANGED calls
  /\ \/ Fails(t)
     \/ /\ fhs' = Put(fhs, NewFh, call[t].nid)
        /\ Now(t, [op |-> "lock", nid |-> call[t].nid, h |-> call[t].h, room |-> call[t].room, fh |-> NewFh])
        /\ UNCHANGED <<host, handles, mounts, errors, short, stat, overrun, panicked>>

\* The position is locked from before the reading to the end of the call.
getdents_lock(t) ==
  /\ call[t].op = "lock" /\ LockFree(call[t].h)
  /\ Now(t, [call[t] EXCEPT !.op = "read"])
  /\ UNCHANGED <<host, fhs, handles, mounts, calls, errors, short, stat, overrun, panicked>>

\* What fits is copied, and the position moves behind it.
Copied(list, offset, room) ==
  [out |-> SubSeq(list, offset + 1, Min2(offset + room, Len(list))), next |-> Min2(offset + room, Len(list))]

\* The host lists the directory from its beginning, MAX_READ_LEN of it at most: what lies behind is
\* never reported.  If it lists nothing the call returns at once, and the host's handle stays open.
\* If the listing became shorter than the position, the subtraction of the position from its length
\* underflows: the release build reads behind the answer, of which the model says no more.
getdents_read(t) ==
  /\ call[t].op = "read" /\ UNCHANGED calls
  /\ \/ Fails(t)
     \/ LET h == call[t].h
            whole == Listing(fhs[call[t].fh])
            list == SubSeq(whole, 1, Min2(MAX_READ_LEN, Len(whole)))
            at == IF h = NoHandle THEN 0 ELSE handles[h].offset
        IN \/ /\ list = <<>>
              /\ short' = short + 1
              /\ Return(t)
              /\ UNCHANGED <<host, fhs, handles, mounts, errors, stat, overrun, panicked>>
           \/ /\ IF h = NoHandle THEN UNCHANGED <<handles, overrun>>
                 ELSE IF at > Len(list) THEN overrun' = TRUE /\ UNCHANGED handles
                 ELSE LET c == Copied(list, at, call[t].room)
                      IN /\ handles' = [handles EXCEPT ![h].offset = c.next, ![h].seen = @ \o c.out,
                                                       ![h].ended = @ \/ (c.out = <<>> /\ call[t].room > 0)]
                         /\ UNCHANGED overrun
              /\ Now(t, [call[t] EXCEPT !.op = "release"])
              /\ UNCHANGED <<host, fhs, mounts, errors, short, stat, panicked>>

getdents_release(t) ==
  /\ call[t].op = "release" /\ UNCHANGED calls
  /\ \/ Fails(t)
     \/ /\ fhs' = Without(fhs, call[t].fh)
        /\ Return(t)
        /\ UNCHANGED <<host, handles, mounts, errors, short, stat, overrun, panicked>>

\* lseek of a directory handle: only an offset that is neither 0 nor counted from the beginning is
\* refused, and the offset itself becomes the position, whatever it is counted from.
seekdir(t, h, offset, whence) ==
  /\ Begin(t) /\ h \in OpenHandles /\ handles[h].kind = "dir" /\ LockFree(h)
  /\ ~(whence # "Set" /\ offset # 0)
  /\ handles' = [handles EXCEPT ![h].offset = offset % USIZE, ![h].seen = <<>>, ![h].ended = FALSE,
                                ![h].clean = offset = 0 /\ \A u \in Tasks : call[u] = Idle]
  /\ UNCHANGED <<host, fhs, call, mounts, errors, short, stat, overrun, panicked>>

-----------------------------------------------------------------------------
(* Names: unlink, rmdir, mkdir and stat *)

traverse_unlink(t, path) ==
  /\ Begin(t) /\ path # <<>> /\ HostLookup(path) # NoNode /\ host[HostLookup(path)].kind # "dir"
  /\ host' = HostRemove(path)
  /\ handles' = Touched({HostLookup(Front(path)), HostLookup(path)})
  /\ UNCHANGED <<fhs, call, mounts, errors, short, stat, overrun, panicked>>

traverse_rmdir(t, path) ==
  /\ Begin(t) /\ path # <<>> /\ HostLookup(path) # NoNode
  /\ host[HostLookup(path)].kind = "dir" /\ DOMAIN host[HostLookup(path)].ents = {}
  /\ host' = HostRemove(path)
  /\ handles' = Touched({HostLookup(Front(path)), HostLookup(path)})
  /\ UNCHANGED <<fhs, call, mounts, errors, short, stat, overrun, panicked>>

traverse_mkdir(t, path) ==
  /\ Begin(t) /\ Creatable(path)
  /\ host' = HostAdd(path, "dir")
  /\ handles' = Touched({HostLookup(Front(path))})
  /\ UNCHANGED <<fhs, call, mounts, errors, short, stat, overrun, panicked>>

\* The mounted directory's name, and the components reversed (callers pop them from the end).
traversal_path(pre, components) == pre \o Reverse(components)

Prefix(path) == IF mounts = {} THEN <<>> ELSE <<path[1]>>
readlink(nid) == host[nid].target

\* Mutant of Follow: the prefix is left out.
Follow_short(pre, target) == traversal_path(<<>>, target)

\* The path that traverse_stat makes of the target of a link: split into components in their order,
\* which traversal_path reverses, and taken from the mounted directory, wherever the link lies.
Follow(pre, target) == traversal_path(pre, target)

\* traverse_stat, one step for each pair of lookup and readlink; a link leads to a new traverse_stat.
\* c.was: the host's tree when the call began; c.plain: every link so far had a target of one name and
\* lay in the mounted directory itself.
traverse_stat(t, c) ==
  LET n == HostLookup(c.at) IN
  /\ IF n # NoNode /\ host[n].kind = "link"
       THEN /\ Now(t, [c EXCEPT !.at = Follow(c.pre, readlink(n)), !.links = @ + 1,
                                !.plain = @ /\ Len(readlink(n)) = 1 /\ Front(c.at) = c.pre])
            /\ UNCHANGED stat
       ELSE /\ Return(t)
            /\ stat' = [path |-> c.path, node |-> n, quiet |-> c.was = host, plain |-> c.plain]
  /\ UNCHANGED <<host, fhs, handles, mounts, errors, short, overrun, panicked>>

stat_begin(t, path) ==
  LET pre == Prefix(path) IN
  LET components == Reverse(SubSeq(path, Len(pre) + 1, Len(path))) IN
  /\ Begin(t)
  /\ traverse_stat(t, [op |-> "stat", path |-> path, pre |-> pre, at |-> traversal_path(pre, components),
                       links |-> 0, was |-> host, plain |-> TRUE])
stat_next(t) ==
  /\ call[t].op = "stat" /\ call[t].links < MaxLinks
  /\ traverse_stat(t, call[t])
  /\ UNCHANGED calls

-----------------------------------------------------------------------------
(* init: FUSE_INIT; the directories of the root are mounted if the mount   *)
(* point is the root, else the share as a whole (mounts is then {}).       *)

Mounted(tree) == {name \in DOMAIN tree[Root].ents : name # Tmp /\ tree[tree[Root].ents[name]].kind = "dir"}

Init ==
  /\ host \in Hosts
  /\ fhs = <<>> /\ handles = <<>>
  /\ call = [t \in Tasks |-> Idle]
  /\ mounts \in {{}, Mounted(host)}
  /\ calls = 0 /\ errors = 0 /\ short = 0
  /\ stat = NoStat /\ overrun = FALSE /\ panicked = FALSE

\* Paths the virtual file system hands to this one.
Reaches(path) == mounts = {} \/ (path # <<>> /\ path[1] \in mounts)

Next ==
  ~panicked /\ \E t \in Tasks :
    \/ \E path \in Paths :
         /\ Reaches(path)
         /\ \/ create(t, path) \/ open_lookup(t, path) \/ opendir(t, path)
            \/ traverse_unlink(t, path) \/ traverse_rmdir(t, path) \/ traverse_mkdir(t, path)
            \/ stat_begin(t, path) \/ traverse_readdir(t, path)
    \/ \E h \in DOMAIN handles :
         \/ drop(t, h)
         \/ \E n \in 1 .. 2 : read(t, h, n) \/ write(t, h, [i \in 1 .. n |-> i])
         \/ \E n \in 0 .. 2 : getdents(t, h, n)
         \/ \E o \in {-1, 1}, w \in {"Set", "Cur", "End"} : lseek(t, h, o, w)
         \/ \E o \in -1 .. 1, w \in {"Set", "Cur"} : seekdir(t, h, o, w)
         \/ \E size \in {0, 2} : truncate(t, h, size)
    \/ open_open(t) \/ getdents_opendir(t) \/ getdents_lock(t) \/ getdents_read(t) \/ getdents_release(t)
    \/ stat_next(t)

Spec == Init /\ [][Next]_virtiofs_vars

-----------------------------------------------------------------------------
TypeOK ==
  /\ \A n \in Nodes : host[n].kind \in {"free", "file", "dir", "link"}
  /\ \A f \in DOMAIN fhs : fhs[f] \in Nodes
  /\ \A h \in DOMAIN handles : /\ handles[h].kind \in {"file", "dir", "closed"}
                               /\ handles[h].offset \in Nat
  /\ DOMAIN call = Tasks /\ mounts \subseteq Names
  /\ calls \in 0 .. MaxCalls /\ errors \in 0 .. MaxErrors /\ short \in 0 .. MaxCalls
  /\ overrun \in BOOLEAN /\ panicked \in BOOLEAN

\* The handles open at the host are those of the guest's open files and of the calls under way, and
\* besides at most one for each command that the host failed and for each listing that the host
\* answered with nothing: getdents and traverse_readdir return from that without FUSE_RELEASE, so that
\* such a handle is never given back.  The guest never uses a handle that it released.
HostHandlesAreOwned ==
  LET held == {handles[h].fh : h \in Files}
      during == {call[t].fh : t \in {u \in Tasks : call[u].op \in {"lock", "read", "release"}}}
  IN /\ held \cup during \subseteq DOMAIN fhs
     /\ \A h \in Files : fhs[handles[h].fh] = handles[h].nid
     /\ Cardinality(DOMAIN fhs \ (held \cup during)) <= errors + short

\* A file read through to some point, in pieces of any size, gives the bytes of the file in order; a
\* directory listed call by call gives its entries in order, each once, and all of them (of the first
\* MAX_READ_LEN) when a call with room for an entry gave none: as long as nobody changes the file or
\* the directory and the position is not set to anything but the beginning.
TransfersInOrder ==
  \A h \in OpenHandles : handles[h].clean =>
    LET whole == IF handles[h].kind = "file" THEN DataOf(h) ELSE Listing(HostLookup(handles[h].path))
    IN /\ handles[h].offset <= Len(whole) /\ handles[h].seen = SubSeq(whole, 1, handles[h].offset)
       /\ handles[h].ended => handles[h].offset = Min2(MAX_READ_LEN, Len(whole))

\* Where the path and the links on it lead: a target counts from the directory the link lies in.
RECURSIVE Resolve(_, _)
Resolve(path, fuel) ==
  LET n == HostLookup(path)
  IN IF fuel = 0 \/ n = NoNode \/ host[n].kind # "link" THEN n
     ELSE Resolve(Front(path) \o host[n].target, fuel - 1)

\* If nothing changed meanwhile, a step in which stat answers answers for the node that the path and
\* the links on it lead to, if each of these links lies in the mounted directory itself and has a
\* target of one name.  It does not hold of other links: traverse_stat looks up a link to d/f as f/d,
\* and a link that lies in a directory below as if it lay in the mounted directory.
StatFollowsLinks ==
  stat' # stat /\ stat'.quiet /\ stat'.plain => stat'.node = Resolve(stat'.path, MaxLinks)
==============================================================================

------------------------------- MODULE Paging --------------------------------
(***************************************************************************)
(* Page tables: those of AArch64 and RISC-V, and the iterator over the     *)
(* tables of the firmware.                                                 *)
(***************************************************************************)
EXTENDS Integers, Sequences, FiniteSets, SequencesExt

-----------------------------------------------------------------------------
(***************************************************************************)
(* The page tables of the AArch64 port: mapping in groups with the         *)
(* contiguous bit, the heap mapped from whatever runs of frames are free,  *)
(* and unmapping, which writes an entry that is present and translates     *)
(* nothing.                                                                *)
(*                                                                         *)
(* Addresses are counted in pages of the size S a call maps. Frame 0 is    *)
(* physical address zero, the frames of the allocator are 1..FrameCount.   *)
(* Of the four levels of tables two remain: the one that holds the pages   *)
(* and the one above it, whose entries are allocated on demand; the two    *)
(* levels above that do the same once more. Calls are not interleaved: the *)
(* code takes no lock here, and two cores that create the same table at    *)
(* the same time are out of this model.                                    *)
(***************************************************************************)
CONSTANTS PageCount, ArmFrameCount,  \* pages and frames
          ArmFanout,                 \* entries of a table (512)
          GROUP_SIZE,             \* pages one contiguous group has (16)
          ArmMaxCalls                \* bound on the calls

VARIABLES
  tables,      \* the entries of the upper level that name a table
  arm_entries,     \* the entries of the pages
  arm_free,        \* the frames FrameAlloc has
  arm_asked,       \* what every page was asked to translate to, 0 for nothing
  arm_heap,        \* map_heap: the pages it is about and how many it has mapped
  arm_pc, arm_calls

aarch64_vars == <<tables, arm_entries, arm_free, arm_asked, arm_heap, arm_pc, arm_calls>>

ArmPages == 0 .. PageCount - 1

(* PageTableEntry: PRESENT, TABLE_OR_4KIB_PAGE, CONTIGUOUS and the address.*)
Default == [present |-> FALSE, page |-> FALSE, contiguous |-> FALSE, address |-> 0]

ArmNoHeap == [first |-> 0, size |-> 0, map_counter |-> 0]

ArmInit ==
  /\ tables = {} /\ arm_entries = [p \in ArmPages |-> Default]
  /\ arm_free = 1 .. ArmFrameCount
  /\ arm_asked = [p \in ArmPages |-> 0]
  /\ arm_heap = ArmNoHeap /\ arm_pc = "ready" /\ arm_calls = 0

Least(S) == CHOOSE x \in S : \A y \in S : x <= y

(* FrameAlloc::allocate: the first run of n frames, a set of none or one.  *)
Run(n) ==
  LET starts == {f \in arm_free : f .. f + n - 1 \subseteq arm_free}
  IN IF starts = {} THEN {} ELSE {Least(starts)}

(* map_page_in_this_table: the entries are set, whatever they were.        *)
map_page_in_this_table(entry) ==
  [p \in ArmPages |-> IF p \in DOMAIN entry THEN entry[p] ELSE arm_entries[p]]

(***************************************************************************)
(* PageTable::map_page for the pages of entry: the tables that are missing *)
(* are allocated one by one from the frames `from`, and the kernel panics  *)
(* when there is no frame for one; then the entries are set, present ones  *)
(* as well. `back` are frames the caller returns afterwards.               *)
(***************************************************************************)
map_pages(entry, from, back, then) ==
  LET missing == {p \div ArmFanout : p \in DOMAIN entry} \ tables
      Taken(f) == Cardinality({g \in from : g < f}) < Cardinality(missing)
  IN IF Cardinality(missing) > Cardinality(from)
     THEN arm_pc' = "panic" /\ UNCHANGED <<tables, arm_entries, arm_free>>
     ELSE /\ tables' = tables \cup missing
          /\ arm_entries' = map_page_in_this_table(entry)
          /\ arm_free' = {f \in from : ~Taken(f)} \cup back
          /\ arm_pc' = then

(***************************************************************************)
(* map: fewer than GROUP_SIZE pages as they are; otherwise first as many   *)
(* as the start is past a group boundary, then whole groups with the       *)
(* contiguous bit, then the rest.                                          *)
(***************************************************************************)
Part(v, p, n, contiguous) == [v |-> v, p |-> p, n |-> n, contiguous |-> contiguous]

\* The groups do not advance the address the rest starts from.
Parts_stuck(v, p, n) ==
  LET offset == v % GROUP_SIZE
      whole == (n - offset) - ((n - offset) % GROUP_SIZE)
  IN IF n < GROUP_SIZE THEN {Part(v, p, n, FALSE)}
     ELSE {Part(v, p, offset, FALSE), Part(v + offset, p + offset, whole, TRUE),
           Part(v + offset + whole, p + offset, n - offset - whole, FALSE)}

Parts(v, p, n) ==
  LET offset == v % GROUP_SIZE
      whole == (n - offset) - ((n - offset) % GROUP_SIZE)
  IN IF n < GROUP_SIZE THEN {Part(v, p, n, FALSE)}
     ELSE {Part(v, p, offset, FALSE), Part(v + offset, p + offset, whole, TRUE),
           Part(v + offset + whole, p + offset + whole, n - offset - whole, FALSE)}

arm_map(v, p, n, from, then) ==
  /\ LET PartOf(q) == CHOOSE x \in Parts(v, p, n) : q \in x.v .. x.v + x.n - 1
     IN map_pages([q \in v .. v + n - 1 |-> [present |-> TRUE, page |-> TRUE,
                                             contiguous |-> PartOf(q).contiguous,
                                             address |-> PartOf(q).p + q - PartOf(q).v]],
                  from, {}, then)
  /\ arm_asked' = IF arm_pc' = "panic" THEN arm_asked
                  ELSE [q \in ArmPages |-> IF q \in v .. v + n - 1 THEN p + (q - v) ELSE arm_asked[q]]

ArmCalled == arm_pc = "ready" /\ arm_calls < ArmMaxCalls /\ arm_calls' = arm_calls + 1

(* mm::map, sys_mprotect, DeviceAlloc, TaskStacks: n frames mapped at v.   *)
map_allocated(v, n) ==
  /\ ArmCalled
  /\ \A p \in v .. v + n - 1 : arm_asked[p] = 0
  /\ \E f \in Run(n) : arm_map(v, f, n, arm_free \ (f .. f + n - 1), "ready")
  /\ UNCHANGED arm_heap

(* identity_map: one page of device memory, which is above the RAM.        *)
arm_identity_map(v) ==
  /\ ArmCalled
  /\ v > ArmFrameCount
  /\ arm_map(v, v, 1, arm_free, "ready")
  /\ UNCHANGED arm_heap

HeapPages == arm_heap.first .. arm_heap.first + arm_heap.size - 1

(***************************************************************************)
(* unmap: the pages are mapped to address zero and up, without flags. set  *)
(* adds PRESENT; without TABLE_OR_4KIB_PAGE the processor ignores an entry *)
(* of the last level. The callers return the frames after that; nobody     *)
(* unmaps the heap or a device.                                            *)
(***************************************************************************)
arm_unmap(v, n) ==
  /\ ArmCalled
  /\ \A p \in v .. v + n - 1 : p \notin HeapPages /\ arm_asked[p] <= ArmFrameCount
  /\ map_pages([q \in v .. v + n - 1 |-> [Default EXCEPT !.present = TRUE, !.address = q - v]],
               arm_free, {arm_asked[p] : p \in v .. v + n - 1} \ {0}, "ready")
  /\ arm_asked' = IF arm_pc' = "panic" THEN arm_asked
                  ELSE [p \in ArmPages |-> IF p \in v .. v + n - 1 THEN 0 ELSE arm_asked[p]]
  /\ UNCHANGED arm_heap

(***************************************************************************)
(* map_heap: while pages are missing, the longest run that can be had. An  *)
(* allocator that has nothing leaves map_counter as it is, and the loop    *)
(* tries again.                                                            *)
(***************************************************************************)
arm_map_heap(v, n) ==
  /\ ArmCalled /\ arm_heap = ArmNoHeap
  /\ \A p \in v .. v + n - 1 : arm_asked[p] = 0
  /\ arm_heap' = [first |-> v, size |-> n, map_counter |-> 0]
  /\ arm_pc' = "map_heap"
  /\ UNCHANGED <<tables, arm_entries, arm_free, arm_asked>>

map_heap_run ==
  /\ arm_pc = "map_heap" /\ arm_heap.map_counter < arm_heap.size
  /\ LET longest == {i \in 1 .. arm_heap.size - arm_heap.map_counter :
                       /\ Run(i) # {}
                       /\ \A j \in i + 1 .. arm_heap.size - arm_heap.map_counter : Run(j) = {}}
         v == arm_heap.first + arm_heap.map_counter
     IN IF longest = {}
        THEN arm_pc' = "spin" /\ UNCHANGED <<tables, arm_entries, arm_free, arm_asked, arm_heap>>
        ELSE \E i \in longest : \E f \in Run(i) :
               /\ arm_map(v, f, i, arm_free \ (f .. f + i - 1), "map_heap")
               /\ arm_heap' = [arm_heap EXCEPT !.map_counter = @ + i]
  /\ UNCHANGED arm_calls

arm_map_heap_ok ==
  /\ arm_pc = "map_heap" /\ arm_heap.map_counter = arm_heap.size
  /\ arm_pc' = "ready"
  /\ UNCHANGED <<tables, arm_entries, arm_free, arm_asked, arm_heap, arm_calls>>

ArmNext ==
  \/ \E v \in ArmPages : \E n \in 1 .. PageCount - v : map_allocated(v, n) \/ arm_map_heap(v, n)
  \/ \E v \in ArmPages : arm_identity_map(v)
  \/ \E v \in ArmPages : \E n \in 1 .. PageCount - v : arm_unmap(v, n)
  \/ map_heap_run \/ arm_map_heap_ok

ArmSpec == ArmInit /\ [][ArmNext]_aarch64_vars

-----------------------------------------------------------------------------
ArmTypeOK ==
  /\ tables \subseteq 0 .. PageCount \div ArmFanout
  /\ arm_entries \in [ArmPages -> [present : BOOLEAN, page : BOOLEAN, contiguous : BOOLEAN,
                                  address : 0 .. ArmFrameCount + PageCount]]
  /\ arm_free \subseteq 1 .. ArmFrameCount
  /\ arm_pc \in {"ready", "map_heap", "spin", "panic"}
  /\ arm_calls \in 0 .. ArmMaxCalls

(* What the entry of a page says.                                          *)
Valid(p) == p \div ArmFanout \in tables /\ arm_entries[p].present /\ arm_entries[p].page
Entry(p) == IF Valid(p) THEN arm_entries[p].address ELSE 0

(* The entries of the aligned group of p that have the contiguous bit. The *)
(* processor may cache any of them as the translation of the whole group,  *)
(* and then finds for p what that one implies.                             *)
Group(p) == {q \in ArmPages : q \div GROUP_SIZE = p \div GROUP_SIZE}
Contiguous(p) == {q \in Group(p) : Valid(q) /\ arm_entries[q].contiguous}
Translations(p) ==
  {Entry(p)} \cup {(Entry(q) - (Entry(q) % GROUP_SIZE)) + (p % GROUP_SIZE) : q \in Contiguous(p)}

(* A group as the architecture wants it: no entry has the bit, or all have *)
(* it and were mapped to frames in order from an aligned one.              *)
Regular(p) ==
  \/ Contiguous(p) = {}
  \/ /\ Contiguous(p) = Group(p) /\ arm_asked[Least(Group(p))] % GROUP_SIZE = 0
     /\ \A q \in Group(p) : arm_asked[q] = arm_asked[Least(Group(p))] + (q % GROUP_SIZE)

(* However a range is cut into groups, and whatever was mapped before,     *)
(* every entry names the frame its page was mapped to, two pages never the *)
(* same frame, none a free one; the processor finds that frame and nothing *)
(* else in a regular group; and once map_heap has returned, every page of  *)
(* the heap has memory. map makes irregular groups: it skips v % GROUP_SIZE*)
(* pages, not the rest up to the boundary, never looks at the alignment of *)
(* the frames, and unmaps or remaps a part of a group.                     *)
ArmTranslatesAsAsked ==
  arm_pc # "panic" =>
    /\ \A p \in ArmPages : /\ Entry(p) = arm_asked[p] /\ Entry(p) \notin arm_free
                          /\ Regular(p) => Translations(p) = {arm_asked[p]}
    /\ \A p, q \in ArmPages : p # q /\ Entry(p) # 0 => Entry(p) # Entry(q)
    /\ arm_pc = "ready" => \A p \in HeapPages : Entry(p) # 0

-----------------------------------------------------------------------------
(***************************************************************************)
(* The Sv39 page tables of the RISC-V port: three levels below a root that *)
(* is locked, tables allocated on demand, leaves at every level, and a     *)
(* software walk that panics where the processor would fault.              *)
(*                                                                         *)
(* An address is the path of its indices from the root down, Fanout        *)
(* standing for the 512 entries of a table; a page of size S is the path   *)
(* of the entry that maps it (one index for 1 GiB, three for 4 KiB).       *)
(* Physical addresses are numbers of 4 KiB frames; the frames of FrameAlloc*)
(* are 1 .. FrameCount.                                                    *)
(***************************************************************************)
CONSTANTS RiscvFanout, RiscvFrameCount,
          RiscvMaxCalls      \* bound on the calls

VARIABLES
  riscv_entries,     \* the entries of the tables, by path
  riscv_free,        \* the frames FrameAlloc has
  riscv_asked,       \* what each address was last asked to translate to, 0: nothing
  riscv_heap,        \* map_heap: first page, pages to map and pages mapped
  result,      \* what map_heap returned: "none", "ok" or "err"
  riscv_pc, riscv_calls

riscv64_vars == <<riscv_entries, riscv_free, riscv_asked, riscv_heap, result, riscv_pc, riscv_calls>>

PAGE_LEVELS == 3
Index == 0 .. RiscvFanout - 1
Paths == UNION {[1 .. l -> Index] : l \in 1 .. PAGE_LEVELS}
RiscvPages == {p \in Paths : Len(p) = PAGE_LEVELS}

(* PageTableEntry::set makes every entry VALID; one without READABLE and   *)
(* EXECUTABLE names a table, whatever its level.                           *)
Zero == [valid |-> FALSE, leaf |-> FALSE, address |-> 0]
Table(f) == [valid |-> TRUE, leaf |-> FALSE, address |-> f]
Leaf(f) == [valid |-> TRUE, leaf |-> TRUE, address |-> f]

RiscvNoHeap == [first |-> 0, count |-> 0, map_counter |-> 0]

RiscvInit ==
  /\ riscv_entries = [p \in Paths |-> Zero]
  /\ riscv_free = 1 .. RiscvFrameCount
  /\ riscv_asked = [p \in RiscvPages |-> 0]
  /\ riscv_heap = RiscvNoHeap /\ result = "none" /\ riscv_pc = "ready" /\ riscv_calls = 0

Above(page) == {SubSeq(page, 1, l) : l \in 1 .. Len(page) - 1}
Below(path) == {p \in RiscvPages : SubSeq(p, 1, Len(path)) = path}

(* The pages of a huge page in order, and so the frame of each of them.    *)
Offset(path, p) ==
  LET Digits(l) == p[l] * (IF l = 3 THEN 1 ELSE IF l = 2 THEN RiscvFanout ELSE RiscvFanout * RiscvFanout)
  IN (IF Len(path) < 3 THEN Digits(3) ELSE 0) + (IF Len(path) < 2 THEN Digits(2) ELSE 0)

(***************************************************************************)
(* map_page, given the frames `from`: a missing table above the page is    *)
(* allocated (the kernel panics when it cannot be) and its entries are     *)
(* zeroed; a present entry is taken for a table. Then the entry is set.    *)
(***************************************************************************)

Missing(page) == {q \in Above(page) : ~riscv_entries[q].valid}

map_page(page, entry, from) ==
  LET missing == Missing(page)
      frame == CHOOSE f \in [missing -> from] : \A q, r \in missing : q # r => f[q] # f[r]
  IN [entries |-> [q \in Paths |->
        IF q = page THEN entry
        ELSE IF q \in missing THEN Table(frame[q])
        ELSE IF \E r \in missing : Len(q) = Len(r) + 1 /\ SubSeq(q, 1, Len(r)) = r THEN Zero
        ELSE riscv_entries[q]],
      free |-> from \ {frame[q] : q \in missing}]

Mapped(page, entry, from, back, then) ==
  LET m == map_page(page, entry, from)
  IN IF Cardinality(Missing(page)) > Cardinality(from)
     THEN riscv_pc' = "panic" /\ UNCHANGED <<riscv_entries, riscv_free, riscv_asked>>
     ELSE /\ riscv_entries' = m.entries
          /\ riscv_free' = m.free \cup back
          /\ riscv_asked' = [p \in RiscvPages |->
               IF p \in Below(page) THEN IF entry.leaf THEN entry.address + Offset(page, p) ELSE 0
               ELSE riscv_asked[p]]
          /\ riscv_pc' = then

RiscvCalled == riscv_pc = "ready" /\ riscv_calls < RiscvMaxCalls /\ riscv_calls' = riscv_calls + 1

(* No page is mapped inside a huge page or over a table: the ranges of     *)
(* PageAlloc and of the identity mapping are apart.                        *)
Apart(page) ==
  /\ \A q \in Above(page) : ~riscv_entries[q].leaf
  /\ \A q \in Paths : Len(q) > Len(page) /\ SubSeq(q, 1, Len(page)) = page => ~riscv_entries[q].valid
  /\ riscv_entries[page].valid => Len(page) = PAGE_LEVELS

(* map of one 4 KiB page to a frame of the allocator.                      *)
riscv_map(page) ==
  /\ RiscvCalled
  /\ Apart(page) /\ riscv_asked[page] = 0 /\ riscv_free # {}
  /\ LET f == Least(riscv_free) IN Mapped(page, Leaf(f), riscv_free \ {f}, {}, "ready")
  /\ UNCHANGED <<riscv_heap, result>>

(* identity_map of one huge page; its frames are above the allocator's.    *)
riscv_identity_map(i) ==
  /\ RiscvCalled
  /\ Apart(<<i>>) /\ ~riscv_entries[<<i>>].valid
  /\ Mapped(<<i>>, Leaf(RiscvFrameCount + 1 + i * RiscvFanout * RiscvFanout), riscv_free, {}, "ready")
  /\ UNCHANGED <<riscv_heap, result>>

(* unmap: the entry is VALID with no other flag, and the caller returns    *)
(* the frame.                                                              *)
riscv_unmap(page) ==
  /\ RiscvCalled
  /\ Apart(page) /\ riscv_asked[page] \in 0 .. RiscvFrameCount
  /\ Mapped(page, Table(0), riscv_free, {riscv_asked[page]} \ {0}, "ready")
  /\ UNCHANGED <<riscv_heap, result>>

(* map_heap: one frame and one page at a time, with the pages mapped so    *)
(* far as the error.                                                       *)
HeapPage(n) == <<RiscvFanout - 1, n \div RiscvFanout, n % RiscvFanout>>

riscv_map_heap(first, count) ==
  /\ RiscvCalled /\ riscv_heap = RiscvNoHeap
  /\ \A n \in first .. first + count - 1 : Apart(HeapPage(n)) /\ ~riscv_entries[HeapPage(n)].valid
  /\ riscv_heap' = [first |-> first, count |-> count, map_counter |-> 0]
  /\ riscv_pc' = "map_heap"
  /\ UNCHANGED <<riscv_entries, riscv_free, riscv_asked, result>>

map_heap_page ==
  /\ riscv_pc = "map_heap" /\ riscv_heap.map_counter < riscv_heap.count
  /\ IF riscv_free = {}
     THEN result' = "err" /\ riscv_pc' = "ready" /\ UNCHANGED <<riscv_entries, riscv_free, riscv_asked, riscv_heap>>
     ELSE LET f == Least(riscv_free)
          IN /\ Mapped(HeapPage(riscv_heap.first + riscv_heap.map_counter), Leaf(f), riscv_free \ {f}, {}, "map_heap")
             /\ riscv_heap' = [riscv_heap EXCEPT !.map_counter = @ + 1]
             /\ UNCHANGED result
  /\ UNCHANGED riscv_calls

riscv_map_heap_ok ==
  /\ riscv_pc = "map_heap" /\ riscv_heap.map_counter = riscv_heap.count
  /\ result' = "ok" /\ riscv_pc' = "ready"
  /\ UNCHANGED <<riscv_entries, riscv_free, riscv_asked, riscv_heap, riscv_calls>>

RiscvNext ==
  \/ \E p \in RiscvPages : riscv_map(p) \/ (riscv_unmap(p) /\ (riscv_heap = RiscvNoHeap \/ p[1] # RiscvFanout - 1))
  \/ \E i \in Index : riscv_identity_map(i)
  \/ \E n \in 0 .. RiscvFanout * RiscvFanout - 1 : \E c \in 1 .. RiscvFanout * RiscvFanout - n : riscv_map_heap(n, c)
  \/ map_heap_page \/ riscv_map_heap_ok

RiscvSpec == RiscvInit /\ [][RiscvNext]_riscv64_vars

-----------------------------------------------------------------------------
RiscvTypeOK ==
  /\ DOMAIN riscv_entries = Paths
  /\ riscv_free \subseteq 1 .. RiscvFrameCount
  /\ result \in {"none", "ok", "err"}
  /\ riscv_pc \in {"ready", "map_heap", "panic"}
  /\ riscv_calls \in 0 .. RiscvMaxCalls

(* virtual_to_physical: from the root down to a leaf; an invalid entry and *)
(* a last-level entry that is no leaf are a panic.                         *)
Panic == -1

RECURSIVE walk(_, _)
walk(p, l) ==
  LET e == riscv_entries[SubSeq(p, 1, l)]
  IN IF ~e.valid THEN Panic
     ELSE IF e.leaf THEN e.address + Offset(SubSeq(p, 1, l), p)
     ELSE IF l = PAGE_LEVELS THEN Panic
     ELSE walk(p, l + 1)

riscv_virtual_to_physical(p) == walk(p, 1)

(* The software walk finds what each page was last mapped to, through      *)
(* tables made on demand and pages of three sizes, and panics for a page   *)
(* that is not mapped; no two pages share a frame, none has a free one and *)
(* none the frame of a table. After an error of map_heap exactly the pages *)
(* it reports have memory.                                                 *)
RiscvTranslatesAsAsked ==
  riscv_pc # "panic" =>
    /\ \A p \in RiscvPages : IF riscv_asked[p] = 0 THEN riscv_virtual_to_physical(p) = Panic
                             ELSE riscv_virtual_to_physical(p) = riscv_asked[p] /\ riscv_asked[p] \notin riscv_free
    /\ \A p, q \in RiscvPages : p # q /\ riscv_asked[p] # 0 => riscv_asked[p] # riscv_asked[q]
    /\ \A p \in RiscvPages, q \in Paths :
         riscv_entries[q].valid /\ ~riscv_entries[q].leaf /\ Len(q) < PAGE_LEVELS /\ riscv_asked[p] # 0
           => riscv_asked[p] # riscv_entries[q].address
    /\ result = "ok" => riscv_heap.map_counter = riscv_heap.count
    /\ \A n \in 0 .. riscv_heap.map_counter - 1 : riscv_asked[HeapPage(riscv_heap.first + n)] # 0

-----------------------------------------------------------------------------
(***************************************************************************)
(* The walk that lists the page tables of x86-64 as ranges: an iterator    *)
(* over four levels of tables that gives up whenever it runs over the end  *)
(* of one and is simply asked again, and an iterator on top of it that     *)
(* joins neighbouring pages.                                               *)
(*                                                                         *)
(* A page table is a function from paths, the indices from level four      *)
(* down, to entries: "unused", "table", or "page" with a frame and flags   *)
(* (a leaf: 4 KiB at the end of a path of four indices, 2 MiB after three, *)
(* 1 GiB after two). Fanout stands for the 512 entries of a table.         *)
(***************************************************************************)
CONSTANTS IterFanout,       \* entries of a table
          Tables        \* the page tables to list

VARIABLES
  page_table,   \* the tables that are listed
  index,        \* MappedPageTableIter: p4_index .. p1_index
  start, end,   \* MappedPageTableRangeInclusiveIter: the range being built
  listed,       \* the ranges listed so far
  iter_pc            \* "start" and "extend": where the range iterator asks; "done"

iter_vars == <<page_table, index, start, end, listed, iter_pc>>

Unused == [kind |-> "unused", frame |-> 0, flags |-> 0]

(* PageTableWalker::next_table and the entries of the last level.          *)
IterEntry(path) == IF path \in DOMAIN page_table THEN page_table[path] ELSE Unused

(***************************************************************************)
(* increment_p4_index .. increment_p1_index: the next entry of a table     *)
(* with the indices below it reset; at the end of the table the entry      *)
(* after it in the table above, and the caller gives up.                   *)
(***************************************************************************)
RECURSIVE increment(_, _)
increment(idx, level) ==
  IF idx[level] < IterFanout - 1
  THEN [index |-> [l \in 1 .. 4 |-> IF l < level THEN idx[l]
                                    ELSE IF l = level THEN idx[l] + 1 ELSE 0],
        ok |-> TRUE]
  ELSE IF level = 1
       THEN [index |-> [idx EXCEPT ![1] = idx[1] + 1], ok |-> FALSE]
       ELSE [index |-> increment(idx, level - 1).index, ok |-> FALSE]

NoPage == [size |-> 0, page |-> 0, frame |-> 0, flags |-> 0]

RECURSIVE Number(_, _)
Number(path, n) == IF n = 0 THEN 0 ELSE Number(path, n - 1) * IterFanout + path[n]

(* MappedPage of the leaf at a path.                                       *)
MappedPage(path) ==
  [size |-> Len(path), page |-> Number(path, Len(path)),
   frame |-> page_table[path].frame, flags |-> page_table[path].flags]

(***************************************************************************)
(* next_forward: from the entry the indices name, down the tables to the   *)
(* first leaf; nothing once a table is exhausted.                          *)
(***************************************************************************)
RECURSIVE next_forward(_, _)
next_forward(idx, level) ==
  LET path == SubSeq(idx, 1, level)
      e == IterEntry(path)
      inc == increment(idx, level)
  IN IF idx[level] >= IterFanout THEN [item |-> NoPage, index |-> idx]
     ELSE IF e.kind = "page" THEN [item |-> MappedPage(path), index |-> inc.index]
     ELSE IF e.kind = "table" THEN next_forward(idx, level + 1)
     ELSE IF inc.ok THEN next_forward(inc.index, level)
     ELSE [item |-> NoPage, index |-> inc.index]

(* MappedPageTableIter::next: asked a second time when it gave up.         *)
iter_next(idx) ==
  LET first == next_forward(idx, 1)
  IN IF first.item = NoPage THEN next_forward(first.index, 1) ELSE first

IterInit ==
  /\ page_table \in Tables
  /\ index = <<0, 0, 0, 0>>
  /\ start = NoPage /\ end = NoPage
  /\ listed = <<>>
  /\ iter_pc = "start"

(***************************************************************************)
(* MappedPageTableRangeInclusiveIter::next in two kinds of steps: the      *)
(* first page of a range, and the pages that may extend it.                *)
(***************************************************************************)
range_start ==
  /\ iter_pc = "start"
  /\ LET next == iter_next(index)
     IN /\ index' = next.index
        /\ start' = next.item
        /\ end' = next.item
        /\ iter_pc' = IF next.item = NoPage THEN "done" ELSE "extend"
  /\ UNCHANGED <<page_table, listed>>

Successor(item) == [item EXCEPT !.page = @ + 1, !.frame = @ + 1]
range_extend ==
  /\ iter_pc = "extend"
  /\ LET next == iter_next(index)
         range == [first |-> start, last |-> end]
     IN /\ index' = next.index
        /\ IF next.item # NoPage /\ next.item = Successor(end)
           THEN end' = next.item /\ UNCHANGED <<start, listed, iter_pc>>
           ELSE /\ listed' = Append(listed, range)
                /\ start' = next.item
                /\ end' = next.item
                /\ iter_pc' = IF next.item = NoPage THEN "start" ELSE "extend"
  /\ UNCHANGED page_table

IterNext == range_start \/ range_extend

IterSpec == IterInit /\ [][IterNext]_iter_vars

-----------------------------------------------------------------------------
IterTypeOK ==
  /\ index \in [1 .. 4 -> 0 .. IterFanout]
  /\ iter_pc \in {"start", "extend", "done"}

(* The leaves of the page table, each as the pages it is made of.          *)
Leaves == {MappedPage(p) : p \in {q \in DOMAIN page_table : page_table[q].kind = "page"}}

Covered(range) ==
  {[range.first EXCEPT !.page = @ + i, !.frame = @ + i] :
     i \in 0 .. range.last.page - range.first.page}

(* No table of the hierarchy is without an entry in use.                   *)
NoEmptyTable ==
  \A p \in DOMAIN page_table : page_table[p].kind = "table" =>
    \E q \in DOMAIN page_table : Len(q) = Len(p) + 1 /\ IsPrefix(p, q)

(* The listing shows every mapped page, each with the frame and the flags  *)
(* it has, in order and once, although the walk gives up at the end of     *)
(* every table (as long as no table is empty: it gives up twice in a row   *)
(* at most, and then starts a new range).                                  *)
ListingIsComplete ==
  /\ iter_pc = "done" /\ NoEmptyTable => UNION {Covered(listed[i]) : i \in DOMAIN listed} = Leaves
  /\ \A i \in DOMAIN listed : Covered(listed[i]) \subseteq Leaves
  /\ \A i, j \in DOMAIN listed : i < j => Covered(listed[i]) \cap Covered(listed[j]) = {}
=============================================================================

----------------------------- MODULE MemoryMap -----------------------------
(***************************************************************************)
(* The kernel's virtual memory once it is up: the free lists of frames and *)
(* of pages, the page table, the TLBs of the cores, and everybody who maps *)
(* and unmaps: the mman system calls, the stacks of the tasks, the memory  *)
(* shared with devices and the windows onto PCI registers.                 *)
(*                                                                         *)
(* Pages and frames are numbers. A free list is the set of its free        *)
(* entries; the page table is a function from pages to frames, its levels  *)
(* and its flags left out (sys_mmap and sys_mprotect make every page       *)
(* writable whatever they are asked for). The two free lists are behind    *)
(* locks and a range that was handed out is private to its call, so a call *)
(* is one step; what the cores share is the page table and what their TLBs *)
(* remember of it.                                                         *)
(***************************************************************************)
EXTENDS Integers, FiniteSets, FiniteSetsExt

CONSTANTS Cores,
          PageCount,    \* pages of the kernel's part of the address space
          FrameCount,   \* frames of the machine
          IST_SIZE,     \* pages of an interrupt stack
          DEFAULT_STACK_SIZE,   \* pages of a kernel stack
          KERNEL_STACK_SIZE,    \* the least pages of a user stack
          StackSizes,   \* stack sizes asked for, in pages
          Sizes,        \* sizes of the other mappings
          Partial,      \* whether a program protects part of a mapping
          Watched,      \* pages whose translations the TLBs may hold
          MaxLive,      \* bound on what is handed out at a time
          MaxCalls      \* bound on the calls

MemoryMapAssumption ==
  /\ PageCount \in Nat /\ FrameCount \in Nat
  /\ {IST_SIZE, DEFAULT_STACK_SIZE, KERNEL_STACK_SIZE} \subseteq Nat \ {0}
  /\ StackSizes \subseteq Nat /\ Sizes \subseteq Nat \ {0}
  /\ Partial \in BOOLEAN /\ Watched \subseteq 1 .. PageCount 
  /\ MaxLive \in Nat /\ MaxCalls \in Nat

Pages == 1 .. PageCount
Frames == 1 .. FrameCount

(* A register window of a PCI device: addresses that are not memory.       *)
DeviceFrame == FrameCount + 1

VARIABLES
  free_frames,  \* PHYSICAL_FREE_LIST
  free_pages,   \* KERNEL_FREE_LIST
  prot_none,    \* PROT_NONE_FREE_LIST
  table,        \* the frame of every page, 0 where none is mapped
  tlb,          \* what every core remembers of the table
  flush,        \* cores with a TLB flush interrupt on its way
  live,         \* what was handed out and not given back
  uefi,         \* env::is_uefi
  panicked,
  calls         \* calls made so far

vars == <<free_frames, free_pages, prot_none, table, tlb, flush, live, uefi, panicked, calls>>

Span(p, n) == p .. p + n - 1

Region(kind, p, n, f) == [kind |-> kind, page |-> p, n |-> n, frame |-> f]

(***************************************************************************)
(* External: the free_list crate hands out the lowest range that fits.     *)
(***************************************************************************)
Fits(free, n) == {p \in free : Span(p, n) \subseteq free}
FirstFit(free, n) == Min(Fits(free, n))

Frameless == [p \in Pages |-> 0]

Init ==
  /\ free_frames = Frames
  /\ free_pages = Pages
  /\ prot_none = {}
  /\ table = Frameless
  /\ tlb = [c \in Cores |-> Frameless]
  /\ flush = {}
  /\ live = {}
  /\ uefi \in BOOLEAN
  /\ panicked = FALSE
  /\ calls = 0

(***************************************************************************)
(* paging::map on core c, of every page of m to m's frame: a page that was *)
(* mapped is unmapped first, each page is flushed from the own TLB, and    *)
(* the other cores are interrupted when something had to be unmapped.      *)
(***************************************************************************)
map_silent(c, m) ==
  /\ table' = [p \in Pages |-> IF p \in DOMAIN m THEN m[p] ELSE table[p]]
  /\ tlb' = [tlb EXCEPT ![c] = [p \in Pages |-> IF p \in DOMAIN m THEN 0 ELSE @[p]]]
  /\ UNCHANGED flush

(* ipi_tlb_flush: every other core is interrupted.                         *)
ipi_tlb_flush(c) == flush' = flush \cup (Cores \ {c})

map(c, m) ==
  /\ table' = [p \in Pages |-> IF p \in DOMAIN m THEN m[p] ELSE table[p]]
  /\ tlb' = [tlb EXCEPT ![c] = [p \in Pages |-> IF p \in DOMAIN m THEN 0 ELSE @[p]]]
  /\ IF \E p \in DOMAIN m : table[p] # 0 THEN ipi_tlb_flush(c) ELSE UNCHANGED flush

(* paging::unmap on core c: pages that are not mapped are skipped; only    *)
(* the own TLB is flushed.                                                 *)
unmap(c, S) ==
  /\ table' = [p \in Pages |-> IF p \in S THEN 0 ELSE table[p]]
  /\ tlb' = [tlb EXCEPT ![c] = [p \in Pages |-> IF p \in S THEN 0 ELSE @[p]]]
  /\ UNCHANGED flush

Untouched == UNCHANGED <<table, tlb, flush>>

Run(p, n, f) == [q \in Span(p, n) |-> f + (q - p)]

(* A failed unwrap stops the machine.                                      *)
panic ==
  /\ panicked' = TRUE
  /\ UNCHANGED <<free_frames, free_pages, prot_none, table, tlb, flush, live>>

(***************************************************************************)
(* sys_mmap: pages first; without any access wanted they go to the         *)
(* PROT_NONE list, otherwise frames are taken and mapped.                  *)
(***************************************************************************)
sys_mmap(c, n, none) ==
  \/ /\ Fits(free_pages, n) = {} \/ (~none /\ Fits(free_frames, n) = {})
     /\ panic
  \/ /\ Fits(free_pages, n) # {}
     /\ LET p == FirstFit(free_pages, n)
        IN /\ free_pages' = free_pages \ Span(p, n)
           /\ IF none
              THEN /\ prot_none' = prot_none \cup Span(p, n)
                   /\ live' = live \cup {Region("none", p, n, 0)}
                   /\ Untouched
                   /\ UNCHANGED free_frames
              ELSE /\ Fits(free_frames, n) # {}
                   /\ LET f == FirstFit(free_frames, n)
                      IN /\ free_frames' = free_frames \ Span(f, n)
                         /\ map(c, Run(p, n, f))
                         /\ live' = live \cup {Region("mmap", p, n, f)}
                   /\ UNCHANGED prot_none
     /\ UNCHANGED panicked

(***************************************************************************)
(* sys_mprotect of n pages at the start of a mapping. A first page that    *)
(* has a frame: the pages are mapped to the frames from there on. None:    *)
(* frames are taken for all of them.                                       *)
(***************************************************************************)
sys_mprotect(c, r, n) ==
  /\ r.kind \in {"none", "mmap"} /\ n <= r.n
  /\ \/ /\ table[r.page] # 0
        /\ map(c, Run(r.page, n, table[r.page]))
        /\ UNCHANGED <<free_frames, panicked>>
     \/ /\ table[r.page] = 0
        /\ Fits(free_frames, n) # {}
        /\ LET f == FirstFit(free_frames, n)
           IN /\ free_frames' = free_frames \ Span(f, n)
              /\ map(c, Run(r.page, n, f))
        /\ UNCHANGED panicked
     \/ /\ table[r.page] = 0
        /\ Fits(free_frames, n) = {}
        /\ panicked' = TRUE
        /\ UNCHANGED free_frames
        /\ Untouched
  /\ UNCHANGED <<free_pages, prot_none, live>>

(***************************************************************************)
(* sys_munmap of a whole mapping. Pages on the PROT_NONE list are taken    *)
(* off it and nothing else happens; others are unmapped and given back     *)
(* with the frames that follow the one of the first page.                  *)
(***************************************************************************)
sys_munmap(c, r) ==
  /\ r.kind \in {"none", "mmap"}
  /\ live' = live \ {r}
  /\ IF Span(r.page, r.n) \subseteq prot_none
     THEN /\ prot_none' = prot_none \ Span(r.page, r.n)
          /\ Untouched
          /\ UNCHANGED <<free_frames, free_pages>>
     ELSE /\ IF table[r.page] # 0
             THEN /\ unmap(c, Span(r.page, r.n))
                  /\ free_frames' = free_frames \cup Span(table[r.page], r.n)
             ELSE Untouched /\ UNCHANGED free_frames
          /\ free_pages' = free_pages \cup Span(r.page, r.n)
          /\ UNCHANGED prot_none
  /\ UNCHANGED panicked

(***************************************************************************)
(* The stacks of a task: an interrupt stack, a kernel stack and a user     *)
(* stack, each with an unmapped page on both sides.                        *)
(***************************************************************************)
UserSize(size) == IF size < KERNEL_STACK_SIZE THEN KERNEL_STACK_SIZE ELSE size
TotalSize(size) == UserSize(size) + DEFAULT_STACK_SIZE + IST_SIZE

StackRun(p, f, size) ==
  LET ist == Run(p + 1, IST_SIZE, f)
      kernel == Run(p + IST_SIZE + 2, DEFAULT_STACK_SIZE, f + IST_SIZE)
      user == Run(p + IST_SIZE + DEFAULT_STACK_SIZE + 3, UserSize(size),
                  f + IST_SIZE + DEFAULT_STACK_SIZE)
  IN [q \in DOMAIN ist \cup DOMAIN kernel \cup DOMAIN user |->
        IF q \in DOMAIN ist THEN ist[q]
        ELSE IF q \in DOMAIN kernel THEN kernel[q] ELSE user[q]]

TaskStacks_new(c, size) ==
  LET total == TotalSize(size)
  IN \/ /\ Fits(free_pages, total + 4) = {} \/ Fits(free_frames, total) = {}
        /\ panic
     \/ /\ Fits(free_pages, total + 4) # {} /\ Fits(free_frames, total) # {}
        /\ LET p == FirstFit(free_pages, total + 4)
               f == FirstFit(free_frames, total)
           IN /\ free_pages' = free_pages \ Span(p, total + 4)
              /\ free_frames' = free_frames \ Span(f, total)
              /\ map(c, StackRun(p, f, size))
              /\ live' = live \cup {Region("stack", p, total, f)}
        /\ UNCHANGED <<prot_none, panicked>>

(* Dropping a task's stacks: under UEFI the pages stay mapped.             *)
TaskStacks_drop(c, r) ==
  /\ r.kind = "stack"
  /\ IF uefi THEN Untouched ELSE unmap(c, Span(r.page, r.n + 4))
  /\ free_pages' = free_pages \cup Span(r.page, r.n + 4)
  /\ free_frames' = free_frames \cup Span(r.frame, r.n)
  /\ live' = live \ {r}
  /\ UNCHANGED <<prot_none, panicked>>

(***************************************************************************)
(* DeviceAlloc: frames reached through the identity map; a failure is      *)
(* returned to the driver.                                                 *)
(***************************************************************************)
DeviceAlloc_allocate(n) ==
  /\ Fits(free_frames, n) # {}
  /\ LET f == FirstFit(free_frames, n)
     IN /\ free_frames' = free_frames \ Span(f, n)
        /\ live' = live \cup {Region("device", 0, n, f)}
  /\ UNCHANGED <<free_pages, prot_none, panicked>>
  /\ Untouched

DeviceAlloc_deallocate(r) ==
  /\ r.kind = "device"
  /\ free_frames' = free_frames \cup Span(r.frame, r.n)
  /\ live' = live \ {r}
  /\ UNCHANGED <<free_pages, prot_none, panicked>>
  /\ Untouched

(* mm::map and mm::unmap: a window onto device registers.                  *)
mm_map(c) ==
  \/ /\ Fits(free_pages, 1) = {}
     /\ panic
  \/ /\ Fits(free_pages, 1) # {}
     /\ LET p == FirstFit(free_pages, 1)
        IN /\ free_pages' = free_pages \ {p}
           /\ map(c, Run(p, 1, DeviceFrame))
           /\ live' = live \cup {Region("window", p, 1, DeviceFrame)}
     /\ UNCHANGED <<free_frames, prot_none, panicked>>

mm_unmap(c, r) ==
  /\ r.kind = "window"
  /\ IF table[r.page] # 0
     THEN /\ unmap(c, {r.page})
          /\ free_pages' = free_pages \cup {r.page}
          /\ live' = live \ {r}
          /\ UNCHANGED panicked
     ELSE panicked' = TRUE /\ UNCHANGED <<table, tlb, flush, free_pages, live>>
  /\ UNCHANGED <<free_frames, prot_none>>

(* External: the processor caches a translation it walked.                 *)
walk(c, p) ==
  /\ table[p] # 0 /\ tlb[c][p] = 0
  /\ tlb' = [tlb EXCEPT ![c][p] = table[p]]
  /\ UNCHANGED <<free_frames, free_pages, prot_none, table, flush, live, panicked>>

(* The handler of the interrupt that ipi_tlb_flush sends reloads CR3.      *)
tlb_flush_handler(c) ==
  /\ c \in flush
  /\ flush' = flush \ {c}
  /\ tlb' = [tlb EXCEPT ![c] = Frameless]
  /\ UNCHANGED <<free_frames, free_pages, prot_none, table, live, panicked>>

Call ==
  \/ \E c \in Cores :
       \/ \E n \in Sizes, none \in BOOLEAN : sys_mmap(c, n, none)
       \/ \E r \in live :
            \/ \E n \in Sizes : (n = r.n \/ Partial) /\ sys_mprotect(c, r, n)
            \/ sys_munmap(c, r)
            \/ TaskStacks_drop(c, r)
            \/ mm_unmap(c, r)
       \/ \E size \in StackSizes : TaskStacks_new(c, size)
       \/ mm_map(c)
  \/ \E n \in Sizes : DeviceAlloc_allocate(n)
  \/ \E r \in live : DeviceAlloc_deallocate(r)

Next ==
  /\ ~panicked
  /\ UNCHANGED uefi
  /\ \/ /\ calls < MaxCalls
        /\ calls' = calls + 1
        /\ Call
        /\ Cardinality(live') <= MaxLive
     \/ /\ \E c \in Cores : tlb_flush_handler(c) \/ \E p \in Watched : walk(c, p)
        /\ UNCHANGED calls

Spec == Init /\ [][Next]_vars

-----------------------------------------------------------------------------
FramesOf(r) ==
  CASE r.kind = "none" -> {table[p] : p \in Span(r.page, r.n)} \ {0}
    [] r.kind = "window" -> {}
    [] OTHER -> Span(r.frame, r.n)

PagesOf(r) ==
  CASE r.kind = "device" -> {}
    [] r.kind = "stack" -> Span(r.page, r.n + 4)
    [] OTHER -> Span(r.page, r.n)

(* The pages of a task's stacks that must fault when they are touched.     *)
GuardsOf(r) ==
  LET second == r.page + IST_SIZE + 1
      third == second + DEFAULT_STACK_SIZE + 1
  IN IF r.kind = "stack" THEN {r.page, second, third, r.page + r.n + 3} ELSE {}

TypeOK ==
  /\ free_frames \subseteq Frames /\ free_pages \subseteq Pages
  /\ prot_none \subseteq Pages
  /\ table \in [Pages -> 0 .. DeviceFrame]
  /\ tlb \in [Cores -> [Pages -> 0 .. DeviceFrame]]
  /\ flush \subseteq Cores
  /\ \A r \in live : PagesOf(r) \subseteq Pages
  /\ uefi \in BOOLEAN /\ panicked \in BOOLEAN /\ calls \in 0 .. MaxCalls

(* Under UEFI a mapping made without access starts on what stacks left     *)
(* mapped, and owns nothing.                                               *)
Owned == {r \in live : uefi => r.kind # "none"}

(* What is handed out is handed out once: no frame and no page of a live   *)
(* mapping, stack or device buffer is on a free list or belongs to another *)
(* one, and the pages of a live stack reach frames of their own.           *)
MemoryIsOwned ==
  /\ \A r \in Owned : /\ FramesOf(r) \cap free_frames = {}
                      /\ PagesOf(r) \cap free_pages = {}
  /\ \A r, s \in Owned : r # s => /\ FramesOf(r) \cap FramesOf(s) = {}
                                  /\ PagesOf(r) \cap PagesOf(s) = {}
  /\ \A r \in live : r.kind = "stack" =>
       Cardinality({table[p] : p \in PagesOf(r) \ GuardsOf(r)}) = r.n

(* A task that runs over the end of one of its stacks faults: the pages    *)
(* around its stacks are not mapped. (Not under UEFI, where the stacks of  *)
(* a task that ended stay mapped.)                                         *)
GuardsAreUnmapped ==
  ~uefi => \A r \in live : \A p \in GuardsOf(r) : table[p] = 0

(* A page that is mapped again while it was mapped is forgotten by every   *)
(* core: as long as the entry of a page is in use, a core that remembers   *)
(* another frame for it has a flush interrupt coming, unless the page was  *)
(* unmapped in between, which no other core is told of.                    *)
RemapReachesCores ==
  \A c \in Cores, p \in Pages :
    table[p] # 0 /\ table'[p] # 0 /\ table'[p] # table[p] /\ tlb[c][p] # 0
      => tlb'[c][p] = 0 \/ c \in flush'
=============================================================================

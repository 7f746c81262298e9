-------------------------------- MODULE Boot ---------------------------------
(***************************************************************************)
(* From the firmware to the kernel's heap: the loader, and the first use   *)
(* of memory by the kernel.                                                *)
(***************************************************************************)
EXTENDS Integers, Sequences, FiniteSets, SequencesExt, FiniteSetsExt

-----------------------------------------------------------------------------
(***************************************************************************)
(* The loader: what it leaves to the kernel.  loader/src/os/uefi for UEFI; *)
(* os/none with arch/x86_64/platform (Multiboot and the Linux boot         *)
(* protocol), arch/x86_64/page_tables.rs and physicalmem.rs for the others *)
(* of x86-64; arch/riscv64 for RISC-V.                                     *)
(*                                                                         *)
(* Memory is a sequence of pages; a range is the set of its pages.  The    *)
(* unit of stack is one page, which stands for 32 KiB.                     *)
(***************************************************************************)
CONSTANTS LoaderMachines,
          PageCount, Super, LoaderHuge,   \* a super page and a huge page, in pages
          HeapSize                  \* the bump allocator's memory

VARIABLES loader_machine, phase,
          types,                \* page -> type, the firmware's memory map
          allocator, services,  \* "uefi" or "bump"; "on" or "off"
          late,                 \* a boot service was called after their end
          loader_heap, image, stack,   \* pages
          fdt,                  \* what the device tree says
          loader_next,                 \* PhysAlloc
          loader_tables, mapped        \* table frames; pages mapped to themselves

loader_vars == <<loader_machine, phase, types, allocator, services, late, loader_heap, image, stack, fdt, loader_next, loader_tables, mapped>>
uefi_vars == <<types, allocator, services, late, loader_heap>>
none_vars == <<loader_next, loader_tables, mapped>>

Pages == 0 .. PageCount - 1
Range2(start, len) == start .. start + len - 1
LoaderAlignUp(n, a) == ((n + a - 1) \div a) * a
LoaderAlignDown(n, a) == (n \div a) * a
NoFdt == [memory |-> {}, bootargs |-> "", rsdp |-> 0, framebuffer |-> FALSE]
Goes(p) == phase' = p
On(platform, p) == loader_machine.platform = platform /\ phase = p

-----------------------------------------------------------------------------
(* UEFI *)

\* The five types of memory that the kernel is told of.
Usable == {"conventional", "boot", "loader"}

\* Esp::read_app: one of two places; without a file the loader stops.
read_app ==
  /\ On("uefi", "start")
  /\ Goes(IF loader_machine.files \cap {"hermit-app", "BOOT-app"} = {} THEN "panicked" ELSE "allocate")
  /\ UNCHANGED <<loader_machine, uefi_vars, none_vars, image, stack, fdt>>

\* External: allocate_pages gives free pages, at an address or anywhere.
Runs(n) == {Range2(p, n) : p \in {q \in 0 .. PageCount - n : \A r \in Range2(q, n) : types[r] = "conventional"}}
Take(run) == [p \in Pages |-> IF p \in run THEN "loader" ELSE types[p]]

\* The image with a page for a stack behind it.
allocate_kernel ==
  /\ On("uefi", "allocate")
  /\ LET n == loader_machine.size + 1
         choices == IF loader_machine.start_addr >= 0 THEN Runs(n) \cap {Range2(loader_machine.start_addr, n)} ELSE Runs(n)
     IN IF choices = {} THEN Goes("panicked") /\ UNCHANGED <<types, image>>
        ELSE \E run \in choices :
               /\ types' = Take(run)
               /\ image' = Range2(Min(run), loader_machine.size)
               /\ Goes("collect")
  /\ UNCHANGED <<loader_machine, allocator, services, late, loader_heap, none_vars, stack, fdt>>

\* rsdp, framebuffer_info, Fdt::new, rsdp, bootargs and framebuffer.
collect ==
  /\ On("uefi", "collect")
  /\ fdt' = [memory |-> {}, rsdp |-> IF 2 \in loader_machine.acpi THEN 2 ELSE 1,
             bootargs |-> IF "hermit-args" \in loader_machine.files THEN "hermit-args"
                          ELSE IF "BOOT-args" \in loader_machine.files THEN "BOOT-args" ELSE "",
             framebuffer |-> loader_machine.gop \in {"rgb", "bgr"}]
  /\ Goes(IF loader_machine.acpi = {} THEN "panicked" ELSE "heap")
  /\ UNCHANGED <<loader_machine, uefi_vars, none_vars, image, stack>>

\* allocator::exit_boot_services: the memory of the bump allocator is the last that the firmware gives.
exit_allocator ==
  /\ On("uefi", "heap")
  /\ late' = (late \/ services = "off")
  /\ IF Runs(HeapSize) = {} THEN Goes("panicked") /\ UNCHANGED <<types, loader_heap, allocator>>
     ELSE \E run \in Runs(HeapSize) : /\ loader_heap' = run /\ types' = Take(run) /\ allocator' = "bump"
                                      /\ Goes("exit")
  /\ UNCHANGED <<loader_machine, services, none_vars, image, stack, fdt>>

exit_boot_services ==
  /\ On("uefi", "exit") /\ services' = "off" /\ Goes("map")
  /\ UNCHANGED <<loader_machine, types, allocator, late, loader_heap, none_vars, image, stack, fdt>>

Told == {p \in Pages : types[p] \in Usable}

\* Fdt::memory_map and finish; the writer's buffer grows meanwhile.
memory_map ==
  /\ On("uefi", "map")
  /\ fdt' = [fdt EXCEPT !.memory = Told]
  /\ late' = (late \/ (allocator = "uefi" /\ services = "off"))
  /\ Goes("boot")
  /\ UNCHANGED <<loader_machine, types, allocator, services, loader_heap, none_vars, image, stack>>

\* boot_kernel: the stack pointer is 64 KiB behind the image; the kernel adds its stack's size to it.
uefi_boot_kernel ==
  /\ On("uefi", "boot")
  /\ stack' = {Max(image) + 1 + 2} /\ Goes("entered")
  /\ UNCHANGED <<loader_machine, uefi_vars, none_vars, image, fdt>>

-----------------------------------------------------------------------------
(* Multiboot and Linux *)

Native == loader_machine.platform \in {"multiboot", "linux"}
Ends(ranges) == {IF r = {} THEN 0 ELSE Max(r) + 1 : r \in ranges}

\* rust_start: the allocator begins behind everything (Multiboot) or behind the loader (Linux).
phys_init ==
  /\ Native /\ phase = "start"
  /\ loader_next' = LoaderAlignUp(IF loader_machine.platform = "linux" THEN Max(loader_machine.loader) + 1
                                  ELSE Max(Ends({loader_machine.loader, loader_machine.module, loader_machine.info, loader_machine.cmdline})), Super)
  /\ mapped' = Range2(0, LoaderHuge)
  /\ Goes("tables")
  /\ UNCHANGED <<loader_machine, uefi_vars, image, stack, fdt, loader_tables>>

\* The entries of the memory map that are looked at: of a Multiboot map those that are available, of
\* a Linux (E820) map all of them, whatever their type.
Entries == {i \in DOMAIN loader_machine.memory : loader_machine.platform = "linux" \/ loader_machine.memory[i].available}

max_phys_addr == Max({Max(loader_machine.memory[i].pages) : i \in Entries}) + 1

\* identity_map: the last frame is the one that holds the last address.
LastFrame(size) == LoaderAlignDown(max_phys_addr - 1, size) + size - 1

\* page_tables::init: huge pages, or super pages with a new table for each huge page's worth.
page_tables_init ==
  /\ Native /\ phase = "tables"
  /\ LET last == LastFrame(IF loader_machine.huge THEN LoaderHuge ELSE Super)
         new == IF loader_machine.huge \/ last < LoaderHuge THEN 0 ELSE (last \div LoaderHuge)
     IN /\ loader_tables' = Range2(loader_next, new)
        /\ loader_next' = loader_next + new
        /\ mapped' = mapped \cup (LoaderHuge .. last)
  /\ Goes("load")
  /\ UNCHANGED <<loader_machine, uefi_vars, image, stack, fdt>>

\* loader_main with get_memory: the image comes from the allocator, whatever the allocator has.
get_memory(size) == loader_next + LoaderAlignUp(size, Super)

loader_main ==
  /\ Native /\ phase = "load"
  /\ image' = Range2(IF loader_machine.start_addr >= 0 THEN loader_machine.start_addr ELSE loader_next, loader_machine.size)
  /\ loader_next' = get_memory(loader_machine.size)
  /\ Goes("stack")
  /\ UNCHANGED <<loader_machine, uefi_vars, stack, fdt, loader_tables, mapped>>

\* boot_kernel of Multiboot: behind the loader, or the information, or the command line.
multiboot_stack ==
  LET behind == Max(loader_machine.loader) + 1
      first == IF behind + 1 > Min(loader_machine.info) THEN Max(loader_machine.info) + 1 ELSE behind
  IN IF loader_machine.cmdline # {} /\ first + 1 > Min(loader_machine.cmdline \cup {PageCount}) THEN Max(loader_machine.cmdline) + 1 ELSE first

\* Of a Linux boot: one page is left free behind the loader.
linux_stack == Max(loader_machine.loader) + 2

\* boot_kernel: the device tree names the entries.
boot_kernel ==
  /\ Native /\ phase = "stack"
  /\ stack' = {IF loader_machine.platform = "linux" THEN linux_stack ELSE multiboot_stack}
  /\ fdt' = [NoFdt EXCEPT !.memory = UNION {loader_machine.memory[i].pages : i \in Entries},
              !.bootargs = IF loader_machine.cmdline = {} THEN "" ELSE "cmdline"]
  /\ Goes("entered")
  /\ UNCHANGED <<loader_machine, uefi_vars, none_vars, image>>

-----------------------------------------------------------------------------
(* RISC-V: get_memory chooses a place for the image, behind the first of   *)
(* the initial disk and the device tree if it fits before the second.      *)

Aligned(r) == LoaderAlignDown(Min(r), Super) .. LoaderAlignUp(Max(r) + 1, Super) - 1
Before(a, b) == Max(a) < Min(b)

\* AddressRange::overlaps: not comparable; equal ranges are comparable.
overlaps(a, b) == ~Before(a, b) /\ ~Before(b, a) /\ a # b

riscv_get_memory ==
  /\ On("riscv", "start")
  /\ LET initrd == Aligned(loader_machine.module)
         tree == Aligned(loader_machine.tree)
         first == IF Before(initrd, tree) THEN initrd ELSE tree
         second == IF Before(initrd, tree) THEN tree ELSE initrd
         start == IF overlaps(Range2(Max(first) + 1, loader_machine.size), second) THEN Max(second) + 1 ELSE Max(first) + 1
     IN image' = Range2(start, loader_machine.size)
  /\ Goes("entered")
  /\ UNCHANGED <<loader_machine, uefi_vars, none_vars, stack, fdt>>

-----------------------------------------------------------------------------
LoaderInit ==
  /\ loader_machine \in LoaderMachines /\ phase = "start"
  /\ types = loader_machine.types /\ allocator = "uefi" /\ services = "on" /\ late = FALSE /\ loader_heap = {}
  /\ image = {} /\ stack = {} /\ fdt = NoFdt /\ loader_next = 0 /\ loader_tables = {} /\ mapped = {}

LoaderNext ==
  \/ read_app \/ allocate_kernel \/ collect \/ exit_allocator \/ exit_boot_services \/ memory_map \/ uefi_boot_kernel
  \/ phys_init \/ page_tables_init \/ loader_main \/ boot_kernel \/ riscv_get_memory

LoaderSpec == LoaderInit /\ [][LoaderNext]_loader_vars

-----------------------------------------------------------------------------
LoaderTypeOK ==
  /\ phase \in {"start", "allocate", "collect", "heap", "exit", "map", "boot", "tables", "load", "stack", "entered", "panicked"}
  /\ allocator \in {"uefi", "bump"} /\ services \in {"on", "off"}
  /\ \A p \in DOMAIN types : types[p] \in {"conventional", "boot", "loader", "runtime"}

Entered == phase = "entered"

\* The kernel is told of the memory it may use, all of it and, booted by UEFI or Multiboot, nothing
\* that the firmware keeps; a Linux boot tells it of the reserved entries of the map as well.  What
\* the loader leaves behind lies in it.  No boot service is called after their end.
MemoryIsTold ==
  /\ ~late
  /\ Entered /\ loader_machine.platform = "uefi" =>
       /\ fdt.memory = {p \in Pages : loader_machine.types[p] # "runtime"}
       /\ image \cup loader_heap \subseteq fdt.memory /\ image \cap loader_heap = {}
       /\ (fdt.bootargs # "") = (loader_machine.files \cap {"hermit-args", "BOOT-args"} # {})
  /\ Entered /\ Native =>
       \A i \in DOMAIN loader_machine.memory :
         LET told == loader_machine.memory[i].pages \cap fdt.memory
         IN IF loader_machine.memory[i].available THEN told = loader_machine.memory[i].pages
            ELSE loader_machine.platform = "linux" \/ told = {}

\* What the kernel needs after its entry is apart: its image and its page tables, the stack, the
\* information of the boot loader.  A UEFI boot puts the stack 64 KiB behind the image, where it allocated
\* 32 KiB: the stack is apart from the image, but whose memory it is in is not known.  For RISC-V the
\* image and the device tree and the disk the image is read from, unless the image would fill the room
\* before the second exactly (equal ranges pass as apart).
HandOverIsApart ==
  /\ Entered /\ loader_machine.platform = "uefi" => image \cap (loader_heap \cup stack) = {}
  /\ Entered /\ Native =>
       LET parts == <<image, loader_tables, stack, loader_machine.info, loader_machine.cmdline, loader_machine.loader>>
       IN \A i, j \in DOMAIN parts : i # j => parts[i] \cap parts[j] = {}
  /\ Entered /\ loader_machine.platform = "riscv" =>
       \/ image \cap loader_machine.tree = {} /\ image \cap loader_machine.module = {}
       \/ image \in {Aligned(loader_machine.tree), Aligned(loader_machine.module)}

\* All memory up to the last address of the entries is mapped to itself, and the tables for it lie where
\* they can be written already.
IdentityIsMapped ==
  Native /\ phase \in {"load", "stack", "entered"} => Range2(0, max_phys_addr) \subseteq mapped /\ loader_tables \subseteq Range2(0, LoaderHuge)

-----------------------------------------------------------------------------
(***************************************************************************)
(* How the kernel takes over the memory at boot: the regions of the device *)
(* tree are claimed and mapped, what lies in them and must stay (the       *)
(* kernel, the device tree, the model, the reservations) is taken out      *)
(* again, and the heap is mapped from what is left, with pages of 1 GiB,   *)
(* 2 MiB and 4 KiB, each kind as far as it goes.                           *)
(*                                                                         *)
(* Addresses are numbers of 4 KiB pages; Large and Huge are the other page *)
(* sizes in these units and the number of entries of a table is Large. A   *)
(* machine is a record: uefi, regions, kernel, fdt, model and reservations *)
(* (sets of frames), whether there are 1 GiB pages, and where PageAlloc    *)
(* puts the heap.                                                          *)
(***************************************************************************)
CONSTANTS MemoryMachines,       \* the machines that boot
          Large, MemoryHuge,    \* pages of a large and of a huge page
          stack_reserve   \* memory kept for stacks and DMA

VARIABLES
  memory_machine,
  free,        \* PHYSICAL_FREE_LIST
  total,       \* TOTAL_MEMORY
  memory_tables,      \* the page tables that were allocated, and where they are
  memory_heap,        \* the frame of each page of the heap
  map_addr, map_size,   \* mm::init: what is left to map
  stage,       \* the map_heap call: page size, pages to map, pages mapped
  pc

bootmemory_vars == <<memory_machine, free, total, memory_tables, memory_heap, map_addr, map_size, stage, pc>>

Least(S) == CHOOSE x \in S : \A y \in S : x <= y
Greatest(S) == CHOOSE x \in S : \A y \in S : x >= y
MemoryAlignDown(n, a) == n - (n % a)
MemoryAlignUp(n, a) == MemoryAlignDown(n + a - 1, a)

NoStage == [size |-> 0, count |-> 0, map_counter |-> 0]

MemoryInit ==
  /\ memory_machine \in MemoryMachines
  /\ free = {} /\ total = 0 /\ memory_tables = <<>> /\ memory_heap = <<>>
  /\ map_addr = 0 /\ map_size = 0 /\ stage = NoStage
  /\ pc = <<"claim", 1>>

(***************************************************************************)
(* Mapper::map_to (of the x86_64 crate): the tables above a page that do   *)
(* not exist yet are allocated, one frame each; the kernel panics when     *)
(* there is none. A table is named by the level below it and by the        *)
(* addresses it covers.                                                    *)
(***************************************************************************)
TablesAbove(space, addr, size) ==
  (IF size < MemoryHuge THEN {<<space, "p2", addr \div MemoryHuge>>} ELSE {})
    \cup (IF size < Large THEN {<<space, "p1", addr \div Large>>} ELSE {})

Missing(wanted) == {t \in wanted : \A i \in DOMAIN memory_tables : memory_tables[i].table # t}

(* One frame for each missing table, the lowest first.                     *)
Lowest(from, n) == {f \in from : Cardinality({g \in from : g < f}) < n}

NewTables(wanted, from) ==
  LET missing == Missing(wanted)
      place == CHOOSE f \in [missing -> Lowest(from, Cardinality(missing))] :
                 \A s, t \in missing : s # t => f[s] # f[t]
      order == CHOOSE o \in [1 .. Cardinality(missing) -> missing] :
                 \A i, j \in DOMAIN o : i # j => o[i] # o[j]
  IN memory_tables \o [i \in DOMAIN order |-> [table |-> order[i], frame |-> place[order[i]]]]

(***************************************************************************)
(* detect_from_fdt, first loop: a region below the kernel is skipped and   *)
(* one around it starts after it (not under UEFI); the rest is freed and   *)
(* mapped at once, before anything in it is reserved. The UEFI firmware    *)
(* has mapped it already, and then map_frame_range needs no table.         *)
(***************************************************************************)
Claimed(region) ==
  LET kernel_end == Greatest(memory_machine.kernel) + 1
      kernel_start == Least(memory_machine.kernel)
  IN IF memory_machine.uefi THEN region
     ELSE IF Greatest(region) < kernel_end THEN {}
     ELSE IF Least(region) <= kernel_start THEN {f \in region : f >= kernel_end}
     ELSE region

IdentityPages(range) == {MemoryAlignDown(f, Large) : f \in range}

(* identity_map of each of them: the tables above it are needed.           *)
identity_map(range) == UNION {TablesAbove("identity", a, Large) : a \in IdentityPages(range)}

claim ==
  /\ pc[1] = "claim" /\ pc[2] <= Len(memory_machine.regions)
  /\ LET range == Claimed(memory_machine.regions[pc[2]])
         from == free \cup range
         wanted == IF memory_machine.uefi THEN {}
                   ELSE identity_map(range)
     IN IF Cardinality(Missing(wanted)) > Cardinality(from)
        THEN pc' = <<"panic">> /\ UNCHANGED <<free, total, memory_tables>>
        ELSE /\ memory_tables' = NewTables(wanted, from)
             /\ free' = from \ Lowest(from, Cardinality(Missing(wanted)))
             /\ total' = total + Cardinality(range)
             /\ pc' = <<"claim", pc[2] + 1>>
  /\ UNCHANGED <<memory_machine, memory_heap, map_addr, map_size, stage>>

(***************************************************************************)
(* The reservations: memory_reservations, the kernel (everything below its *)
(* end without UEFI), the device tree and the model. reserve allocates the *)
(* overlap with one free range after the other until there is none. Only   *)
(* the last two are subtracted from TOTAL_MEMORY.                          *)
(***************************************************************************)
Reservations ==
  memory_machine.reservations \o
    << IF memory_machine.uefi THEN memory_machine.kernel ELSE 0 .. Greatest(memory_machine.kernel),
       memory_machine.fdt >> \o
    (IF memory_machine.model = {} THEN <<>> ELSE <<memory_machine.model>>)

reserve(reservation) == free \cap reservation

reserve_next ==
  /\ IF pc[1] = "claim" THEN pc[2] > Len(memory_machine.regions) ELSE pc[1] = "reserve"
  /\ LET i == IF pc[1] = "claim" THEN 1 ELSE pc[2]
         subtracted == i > Len(memory_machine.reservations) + 1
     IN /\ free' = free \ reserve(Reservations[i])
        /\ total' = IF subtracted THEN total - Cardinality(Reservations[i]) ELSE total
        /\ pc' = IF i = Len(Reservations) THEN <<"init">> ELSE <<"reserve", i + 1>>
  /\ UNCHANGED <<memory_machine, memory_tables, memory_heap, map_addr, map_size, stage>>

(***************************************************************************)
(* mm::init: room for the page tables in the worst case, what the kernel   *)
(* itself takes, the reserve for stacks; the rest is the heap.             *)
(***************************************************************************)
min_mem ==
  LET npage_3tables == total \div Large + 1
      npage_2tables == npage_3tables \div Large + 1
      npage_1tables == npage_2tables \div Large + 1
      reserved_space == npage_3tables + npage_2tables + npage_1tables + 2 * Large
  IN IF memory_machine.uefi THEN reserved_space
     ELSE Greatest(memory_machine.kernel) + 1 + reserved_space

init ==
  /\ pc = <<"init">>
  /\ LET avail_mem == MemoryAlignDown(total - min_mem, Large)
         virt_size == MemoryAlignDown(avail_mem - stack_reserve, Large)
         boundary == MemoryAlignUp(memory_machine.heap_start, MemoryHuge)
     IN IF total < min_mem \/ avail_mem <= stack_reserve \/ virt_size = 0
        THEN pc' = <<"panic">> /\ UNCHANGED <<map_addr, map_size, stage>>
        ELSE /\ map_addr' = memory_machine.heap_start
             /\ map_size' = virt_size
             /\ IF memory_machine.has_1gib_pages /\ virt_size > MemoryHuge
                THEN /\ stage' = [size |-> Large, map_counter |-> 0,
                                  count |-> (boundary - memory_machine.heap_start) \div Large]
                     /\ pc' = <<"map_heap", "huge">>
                ELSE stage' = NoStage /\ pc' = <<"huge">>
  /\ UNCHANGED <<memory_machine, free, total, memory_tables, memory_heap>>

(* One of the three map_heap calls of mm::init, or none: page sizes that   *)
(* are not there, too little left or an address that does not fit.         *)
MapWith(size, usable, next) ==
  IF usable /\ map_size > size /\ map_addr % size = 0
  THEN /\ stage' = [size |-> size, count |-> map_size \div size, map_counter |-> 0]
       /\ pc' = <<"map_heap", next>>
  ELSE pc' = <<next>> /\ UNCHANGED stage

next_stage ==
  /\ \/ pc = <<"huge">> /\ MapWith(MemoryHuge, memory_machine.has_1gib_pages, "large")
     \/ pc = <<"large">> /\ MapWith(Large, TRUE, "base")
     \/ pc = <<"base">> /\ MapWith(1, TRUE, "done")
  /\ UNCHANGED <<memory_machine, free, total, memory_tables, memory_heap, map_addr, map_size>>

(* FrameAlloc::allocate: the first aligned run, a set of none or one.      *)
Run(size) ==
  LET starts == {f \in free : f % size = 0 /\ f .. f + size - 1 \subseteq free}
  IN IF starts = {} THEN {} ELSE {Least(starts)}

Advance(pages) ==
  /\ map_addr' = map_addr + pages
  /\ map_size' = map_size - pages

(* map_heap, one page: the frames, then the mapping with its tables.       *)
map_heap_page ==
  /\ pc[1] = "map_heap" /\ stage.map_counter < stage.count /\ Run(stage.size) # {}
  /\ LET f == CHOOSE x \in Run(stage.size) : TRUE
         addr == map_addr + stage.map_counter * stage.size
         from == free \ (f .. f + stage.size - 1)
         wanted == TablesAbove("heap", addr, stage.size)
     IN IF Cardinality(Missing(wanted)) > Cardinality(from)
        THEN pc' = <<"panic">> /\ UNCHANGED <<free, memory_tables, memory_heap, stage>>
        ELSE /\ memory_tables' = NewTables(wanted, from)
             /\ free' = from \ Lowest(from, Cardinality(Missing(wanted)))
             /\ memory_heap' = [a \in DOMAIN memory_heap \cup (addr .. addr + stage.size - 1) |->
                           IF a \in DOMAIN memory_heap THEN memory_heap[a] ELSE f + a - addr]
             /\ stage' = [stage EXCEPT !.map_counter = @ + 1]
             /\ pc' = pc
  /\ UNCHANGED <<memory_machine, total, map_addr, map_size>>

(* map_heap returns, everything mapped or Err with the pages that are.     *)
map_heap_return ==
  /\ pc[1] = "map_heap" /\ (stage.map_counter = stage.count \/ Run(stage.size) = {})
  /\ Advance(stage.map_counter * stage.size)
  /\ pc' = <<pc[2]>> /\ stage' = NoStage
  /\ UNCHANGED <<memory_machine, free, total, memory_tables, memory_heap>>

MemoryNext == claim \/ reserve_next \/ init \/ next_stage \/ map_heap_page \/ map_heap_return

MemorySpec == MemoryInit /\ [][MemoryNext]_bootmemory_vars

-----------------------------------------------------------------------------
MemoryTypeOK ==
  /\ memory_machine \in MemoryMachines
  /\ total \in Nat /\ map_addr \in Nat /\ map_size \in Nat
  /\ stage.map_counter <= stage.count

(* The arena ALLOCATOR.claim gets.                                         *)
Arena == memory_machine.heap_start .. map_addr - 1

TableFrames == {memory_tables[i].frame : i \in DOMAIN memory_tables}
HeapFrames == {memory_heap[a] : a \in DOMAIN memory_heap}
Kept == memory_machine.kernel \cup memory_machine.fdt \cup memory_machine.model
          \cup UNION {memory_machine.reservations[i] : i \in DOMAIN memory_machine.reservations}

(* Whatever page sizes the machine has and wherever one of them runs out,  *)
(* the arena given to the allocator is mapped without a hole, every page   *)
(* of it to memory of its own that is neither free nor a page table.       *)
ArenaIsBacked ==
  /\ pc = <<"done">> => Arena \subseteq DOMAIN memory_heap
  /\ \A a, b \in DOMAIN memory_heap : a # b => memory_heap[a] # memory_heap[b]
  /\ HeapFrames \cap (free \cup TableFrames) = {} /\ free \cap TableFrames = {}
  /\ Cardinality(TableFrames) = Len(memory_tables)

(* What must stay is never given away: not to the heap and, where the      *)
(* firmware has mapped the memory, not to a page table either.             *)
ReservedIsKept ==
  pc \in {<<"done">>, <<"base">>, <<"large">>} =>
    /\ (HeapFrames \cup free) \cap Kept = {}
    /\ memory_machine.uefi => TableFrames \cap Kept = {}
=============================================================================

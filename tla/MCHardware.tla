----------------------------- MODULE MCHardware -----------------------------
(***************************************************************************)
(* The drivers and the code that sets a machine up, each on a small        *)
(* instance: storage, USB, network and virtio; loader, memory, tables of   *)
(* the firmware, processor and clock.                                      *)
(***************************************************************************)
EXTENDS Parts, Sequences, FiniteSets, SequencesExt, FiniteSetsExt, TLC

CONSTANTS c1, c2, t1

-----------------------------------------------------------------------------
(* The USB sticks and configurations that are plugged in.                  *)

EndOfChain == 99

(* Sticks with every allocation table of three clusters, files that end at *)
(* and off cluster boundaries, sectors that cannot be read; directories    *)
(* with entries of every kind; and sticks without a partition.             *)
Sticks ==
  LET E0 == [kind |-> "file", gguf |-> FALSE, ggml |-> FALSE, magic |-> FALSE, first |-> 3, size |-> 4]
      Model == [E0 EXCEPT !.gguf = TRUE]
      Stick0 == [part |-> 1, header |-> [l \in {1} |-> "FAT32"], root |-> 2, dirs |-> [c \in {2} |-> <<Model>>],
                 fat |-> [c \in 2..5 |-> EndOfChain], bad |-> {}, burst |-> 8]
      Fats == {[c \in 2..5 |-> IF c = 2 THEN EndOfChain ELSE f[c]] : f \in [3..5 -> {0, 3, 4, 5, EndOfChain}]}
      Es == {[E0 EXCEPT !.first = 5], [E0 EXCEPT !.kind = "lfn", !.gguf = TRUE], [Model EXCEPT !.first = 4],
             [Model EXCEPT !.ggml = TRUE], [E0 EXCEPT !.magic = TRUE, !.first = 6], [E0 EXCEPT !.size = 6],
             [E0 EXCEPT !.kind = "end"], [E0 EXCEPT !.kind = "dir", !.first = 7], [E0 EXCEPT !.kind = "deleted"]}
      Few == {<<>>} \cup {<<e>> : e \in {[E0 EXCEPT !.first = 5], [Model EXCEPT !.first = 4], [E0 EXCEPT !.kind = "end"]}}
  IN  {[Stick0 EXCEPT !.dirs = [c \in {2} |-> <<[Model EXCEPT !.size = n]>>], !.fat = f, !.bad = b, !.burst = k] :
          n \in {1, 3, 4, 6}, f \in Fats, b \in {{}, {3}, {8}, {11}}, k \in {1, 3, 8}}
      \cup {[Stick0 EXCEPT !.dirs = (2 :> r @@ 6 :> r2 @@ 7 :> s), !.bad = b,
                           !.fat = (2 :> 6 @@ 6 :> EndOfChain @@ 3 :> 5 @@ 5 :> EndOfChain @@ 4 :> 5)] :
          r \in UNION {[1..k -> Es] : k \in 0..2}, r2 \in Few, s \in Few, b \in {{}, {12}}}
      \cup {[Stick0 EXCEPT !.part = p, !.header = h, !.bad = b] :
          p \in {0, 1}, b \in {{}, {0}, {4}}, h \in {(1 :> x @@ 2 :> y) : x, y \in {"other", "FAT32", "GGUF"}}}

(* Up to four descriptors of ten kinds, and six of five kinds.             *)
Configurations ==
  LET I(n, cl, pr) == [kind |-> "interface", n |-> n, class |-> cl, protocol |-> pr, fit |-> "whole"]
      E(n, t, i) == [kind |-> "endpoint", n |-> n, type |-> t, in |-> i, fit |-> "whole"]
      Ds == {I(1, "msc", "bbb"), I(2, "msc", "uas"), I(3, "hid", "bbb"), E(1, "bulk", TRUE), E(2, "bulk", FALSE),
             E(3, "interrupt", TRUE), [I(4, "msc", "bbb") EXCEPT !.fit = "short"],
             [E(4, "bulk", TRUE) EXCEPT !.fit = "torn"], [E(5, "bulk", FALSE) EXCEPT !.fit = "short"],
             [kind |-> "other", n |-> 0, fit |-> "whole"]}
  IN  UNION {[1..k -> Ds] : k \in 0..4}
      \cup [1..6 -> {I(1, "msc", "bbb"), I(3, "hid", "bbb"), E(1, "bulk", TRUE), E(2, "bulk", FALSE), E(3, "bulk", TRUE)}]

-----------------------------------------------------------------------------
(* The machines: what firmware and processors report, where memory is.     *)

(* Acpi: definition blocks that name \_S5 in the shapes the search knows   *)
(* and in others, lists of two to four tables, and damaged root pointers.  *)
AcpiMachines ==
  LET B(v) == [kind |-> "byte", value |-> v]
      S5(op, n, small) == [kind |-> "s5", op |-> op, byte |-> 5, elements |-> n, small |-> small]
      Amls == {<<>>, <<B("x"), B("x"), B("x"), S5("byte", 1, TRUE)>>,
               <<B("x"), B("x"), B("name"), S5("one", 4, TRUE)>>,
               <<B("x"), B("x"), B("name"), B("root"), S5("zero", 4, TRUE)>>,
               <<B("name"), S5("byte", 2, TRUE)>>, <<B("x"), B("x"), B("name"), S5("byte", 2, FALSE)>>,
               <<B("x"), B("x"), B("x"), S5("byte", 1, TRUE), B("name"), S5("byte", 2, TRUE)>>}
      Plain(sig, f, n) == [sig |-> sig, ok |-> TRUE, frame |-> f, pages |-> n]
      Dsdts == {[sig |-> "DSDT", ok |-> TRUE, frame |-> 40, pages |-> n, aml |-> a] : n \in {1, 3}, a \in Amls}
      Facps == {[sig |-> "FACP", ok |-> TRUE, frame |-> 50, pages |-> 1, dsdt |-> d, long |-> TRUE,
                 x_io |-> TRUE, x_pm1a |-> 2, pm1a |-> 1, reset |-> TRUE, has_reset |-> TRUE,
                 space |-> IF d.pages = 1 THEN "other" ELSE "io"] : d \in Dsdts}
      ShortFacps == {[f EXCEPT !.long = FALSE, !.reset = FALSE] : f \in Facps}
      Ssdts == {[sig |-> "SSDT", ok |-> TRUE, frame |-> 60, pages |-> 2, aml |-> a] : a \in Amls}
      Others == {Plain("APIC", 10, 1), Plain("MCFG", 20, 3), Plain("HPET", 30, 4)}
      All == Others \cup {[Plain("APIC", 10, 1) EXCEPT !.ok = FALSE]}
      Lists == {<<f, s>> : f \in ShortFacps, s \in Ssdts}
               \cup {<<a, f, b, s>> : a, b \in Others, f \in Facps, s \in Ssdts}
               \cup {<<s, a, f>> : a \in Others, f \in Facps, s \in Ssdts}
               \cup {<<a, b, c, d>> : a, b, c, d \in All}
      Rsdp(s, c, x, v) == [sig |-> s, sum |-> c, xsum |-> x, revision |-> v]
      Rsdps == {Rsdp(s, c, x, v) : s, c, x \in BOOLEAN, v \in {0, 2}}
  IN  {[uefi |-> FALSE, rsdp |-> <<Rsdp(TRUE, TRUE, TRUE, 2)>>, root |-> Plain("RSDT", 5, 1), tables |-> l] : l \in Lists}
      \cup {[uefi |-> u, rsdp |-> <<a, b>>, root |-> Plain("RSDT", 5, n), tables |-> <<Plain("APIC", 10, 1)>>] :
              a, b \in Rsdps, n \in {1, 3}, u \in BOOLEAN}

(* Boot memory: memory in one or two pieces, the kernel low or high, the    *)
(* model above it, and reservations that cut across free memory.           *)
BootMachines ==
  {m \in [uefi : BOOLEAN, regions : {<<0..79>>, <<0..39, 45..84>>, <<2..17, 21..100>>},
          kernel : {4..7, 40..43}, fdt : {{9}, {12}, {43}}, model : {{}, 47..58},
          reservations : {<<>>, <<15..22>>, <<60..62, 38..47>>}, has_1gib_pages : BOOLEAN,
          heap_start : {0, 4, 12}] :
     ~m.uefi => m.model = {} /\ m.kernel = 4..7}
  \cup {[uefi |-> u, regions |-> <<r>>, kernel |-> 4..7, fdt |-> {9}, model |-> {}, reservations |-> <<>>,
         has_1gib_pages |-> FALSE, heap_start |-> 12] : u \in BOOLEAN, r \in {3..11, 0..23, 0..31}}

(* Cpu: the extensions of the save area, processors that step their        *)
(* frequency, and sources of the frequency that are missing, zero or do    *)
(* not fit 16 bits.                                                        *)
CpuMachines ==
  LET M0 == [has |-> {}, firmware |-> {}, turbo |-> 0, max |-> 0, fdt |-> 0, cmdline |-> 0, bus |-> 0,
             ratio |-> 0, follows |-> TRUE, cpuid |-> 0, tsc |-> 0, hypervisor |-> 0, uhyve |-> 0,
             is_uhyve |-> FALSE, brand |-> 0, brand_early |-> FALSE, pit |-> 0, real |-> 3000]
  IN  {[M0 EXCEPT !.has = h, !.firmware = f, !.fdt = 3000] :
          h \in {{}, {"xsave"}, {"avx"}, {"xsave", "avx"}, {"xsave", "avx", "opmask", "hi16", "hi256"}},
          f \in {{}, {"sse"}, {"sse", "avx", "pkru"}}}
      \cup {[M0 EXCEPT !.has = h, !.max = 30, !.turbo = t, !.ratio = r, !.follows = w, !.bus = b] :
          h \in {{"eist"}, {"eist", "eist_enabled"}, {"eist", "eist_enabled", "eist_locked"}, {"eist", "eist_enabled", "turbo"}},
          t \in {20, 40}, r \in {0, 8, 255}, w \in BOOLEAN, b \in {0, 300}}
      \cup {[M0 EXCEPT !.fdt = a, !.cpuid = b, !.tsc = c, !.hypervisor = d, !.is_uhyve = u, !.brand = e,
                       !.brand_early = g, !.pit = p] :
          a \in {0, 70000}, b \in {0, 2500}, c \in {0, 65536, 70000}, d \in {0, 65536, 2400}, u \in BOOLEAN,
          e \in {0, 2300}, g \in BOOLEAN, p \in {0, 1, 3, 4, 6}}

(* Loader, with 48 pages: firmware maps with a runtime page in the way,    *)
(* Multiboot and Linux memory maps that end around a huge page, and a      *)
(* device tree anywhere near the image.                                    *)
LoaderMachines ==
  LET None == [platform |-> "none", types |-> <<>>, files |-> {}, start_addr |-> -1, size |-> 2, acpi |-> {},
               gop |-> "none", loader |-> {}, module |-> {}, info |-> {}, cmdline |-> {}, memory |-> <<>>,
               huge |-> FALSE, tree |-> {}]
      Maps == {[p \in 0 .. 47 |-> IF p = 0 \/ p > 16 THEN "boot" ELSE IF p = r THEN "runtime"
                                  ELSE IF p >= e THEN "boot" ELSE "conventional"] :
                 r \in {4, 8, 15}, e \in {9, 12, 16}}
      R(a, b, v) == [pages |-> a..b, available |-> v]
      Mems == {<<R(0, 0, TRUE), R(1, n, TRUE)>> : n \in {18, 23, 24, 25, 27, 28, 31, 32, 47}}
              \cup {<<R(0, 0, TRUE), R(1, 1, FALSE), R(2, n, TRUE), R(n + 1, 47, FALSE)>> : n \in {20, 24, 30}}
      Multi == {[None EXCEPT !.platform = "multiboot", !.loader = 4..5, !.module = m, !.info = i,
                             !.cmdline = c, !.memory = k, !.huge = h, !.size = s] :
                  m \in {8..9, 9..11}, i \in {{0}, {6}, {12}}, c \in {{}, {1}, {7}, {13}}, k \in Mems,
                  h \in BOOLEAN, s \in 1..3}
  IN  {[None EXCEPT !.platform = "uefi", !.types = t, !.files = f, !.start_addr = s, !.acpi = a, !.gop = g] :
          t \in Maps, s \in {-1, 2, 3}, a \in {{}, {1}, {1, 2}}, g \in {"none", "rgb", "bitmask"},
          f \in {{}, {"hermit-app"}, {"BOOT-app", "BOOT-args"}, {"hermit-app", "hermit-args", "BOOT-args"}}}
      \cup {m \in Multi : m.info \cap m.cmdline = {} /\ (m.cmdline # {} => Min(m.cmdline) > Min(m.info))}
      \cup {[None EXCEPT !.platform = "linux", !.loader = 2..e, !.info = {0}, !.cmdline = {1}, !.memory = k,
                         !.huge = h, !.size = s] : e \in {4, 5}, k \in Mems, h \in BOOLEAN, s \in 1..3}
      \cup {m \in {[None EXCEPT !.platform = "riscv", !.tree = a..(a + n), !.module = b..(b + k), !.size = s] :
                     a \in 0..9, n \in 0..2, b \in 0..9, k \in 0..5, s \in 1..9} :
              m.tree \cap m.module = {}}

(* Page tables: up   to three small pages and some large ones, in tables   *)
(* of two entries.                                                         *)
PageTables ==
  LET Bits(n) == [i \in 1..4 |-> (n \div 2^(4 - i)) % 2]
      Number(p) == FoldLeft(LAMBDA a, b : 2 * a + b, 0, p)
      Leaf(p) == LET f == Number(p) + (IF p[1] = 0 THEN 0 ELSE p[2])
                 IN  [kind |-> "page", frame |-> f, flags |-> f \div 6]
      TableOf(small, large) ==
        LET leaves == {Bits(n) : n \in small} \cup {l \in large : ~ \E n \in small : IsPrefix(l, Bits(n))}
            tables == UNION {{SubSeq(l, 1, k) : k \in 1 .. Len(l) - 1} : l \in leaves}
        IN  [p \in leaves \cup tables |->
               IF p \in leaves THEN Leaf(p) ELSE [kind |-> "table", frame |-> 0, flags |-> 0]]
      Large == {{}, {<<0,0,0>>}, {<<1,1,0>>}, {<<0,1>>}, {<<1,0>>}, {<<0,0,1>>, <<0,1>>}, {<<1,0,1>>, <<1,1>>}}
  IN  {TableOf(s, l) : s \in UNION {kSubset(k, (0..5) \cup {7, 8, 11, 12, 15}) : k \in 0..3}, l \in Large}

-----------------------------------------------------------------------------
(* Storage and USB *)

Ahci == INSTANCE AhciPort WITH Callers <- {"call", "usb"}, MaxCommands <- 4, port <- v1, pc <- v2,
       cur <- v3, last <- v4, slot <- v5, ci <- v6, tfes <- v7, hba <- v8, running <- v9,
       allocated <- v10, late <- v11, overlapped <- v12, executed <- v13, acked <- v14,
       capacity <- v15

Cache == INSTANCE ModelCache WITH Models <- {1, 2, 3}, Size <- <<2, 2, 3>>,
       MIN_RAW_MODEL_SIZE <- 2, MAX_RAW_MODEL_SIZE <- 3, CapacitySectors <- 8, DB_SECTORS <- 3,
       disk <- v1, pc <- v2, stick <- v3, model_info <- v4, target <- v5, header_lba <- v6,
       ensure <- v7, app <- v8, grown <- v9

Ingest == INSTANCE UsbIngest WITH Sticks <- Sticks, DeviceBlocks <- 18, DEFAULT_LBA <- 2,
       ReservedSectors <- 1, FatSectors <- 2, FatEntriesPerSector <- 4, SectorsPerCluster <- 2,
       MaxReadBlocks <- 4, RawSize <- 6, LargeSize <- 5, MaxSubdirs <- 2, MaxDepth <- 2,
       MaxDirectoryClusters <- 3, stick <- v1, pc <- v2, candidates <- v3, base_lba <- v4,
       file <- v5, cluster <- v6, copied <- v7, buffer <- v8, model_info <- v9

Xhci == INSTANCE XhciTransfers WITH RingSize <- 5, EventRingSize <- 4, MaxTrbs <- 12, MaxOps <- 3,
       MaxTimeouts <- 1, MaxPortEvents <- 1, Boundary <- 8, Packet <- 2, TdMax <- 5,
       MaxAddress <- 17, MaxLength <- 26, ring_trbs <- v1, enqueue <- v2, cycle <- v3,
       hc_dequeue <- v4, hc_cycle <- v5, events <- v6, dequeue <- v7, ecycle <- v8, erdp <- v9,
       hc_enqueue <- v10, hc_pcs <- v11, sent <- v12, taken <- v13, received <- v14, op <- v1,
       ops <- v2, commands <- v3, ep0 <- v4, bulk_out <- v5, bulk_in <- v6, halted <- v7,
       device <- v8, filled <- v9, ring <- v10, pending_events <- v11, copied <- v12,
       timeouts <- v13, ports <- v14, transfer_result <- v15, addr <- v1, len <- v2,
       remaining <- v3, offset <- v4, chunk_trbs <- v5, moved <- v6, chunk_result <- v7

Usb == INSTANCE UsbDevices WITH Ports <- {0, 1}, Slots <- {1, 2, 3}, Frames <- 10, Retries <- 2,
       Configs <- Configurations, enum_pc <- v1, port <- v2, kind <- v3, slot <- v4,
       enabled <- v5, undisabled <- v6, contexts <- v7, rings <- v8, targets <- v9, free <- v10,
       cycle <- v11, attempt <- v12, msc_found <- v13, config <- v1, descriptor_pc <- v2,
       msc <- v3, msc_interfaces <- v4, hid_interfaces <- v5

-----------------------------------------------------------------------------
(* Network and virtio *)

Net == INSTANCE NetAdapters WITH RX_BUF_LEN <- 36, Lengths <- {5, 12}, NO_TX_BUFFERS <- 2,
       RtlMaxFrames <- 4, RtlMaxSends <- 3, RX_BUF_NUM <- 3, TX_BUF_NUM <- 1, GemMaxFrames <- 5,
       GemMaxSends <- 2, RTL8152_MTU <- 3, RX_DESC_SIZE <- 2, CRC_SIZE <- 1,
       Announced <- {0, 2, 5}, Transferred <- {1, 2, 4, 7}, PacketMaxFrames <- 3,
       rtl_rxbuffer <- v1, rxpos <- v2, rx_in_use <- v3, rxaddr <- v4, capr <- v5, frames <- v6,
       rtl_received <- v7, token <- v8, tx_in_use <- v9, rtl_tx_counter <- v10,
       remaining_bufs <- v11, tsd <- v12, tok <- v13, overwritten <- v14, rtl_panicked <- v15,
       phy <- v1, phy_addr <- v2, word0 <- v3, gem_rxbuffer <- v4, gem_index <- v5, stored <- v6,
       rx_counter <- v7, rxbuffer_reserved <- v8, gem_received <- v9, rx_token <- v10,
       tx_token <- v11, used <- v12, txbuffer <- v13, gem_tx_counter <- v14,
       txbuffer_reserved <- v15, started <- v16, sending <- v17, txcompl <- v18, sends <- v19,
       device <- v1, queue <- v2, reserved_receives <- v3, tokens <- v4, rx_buf <- v5,
       owned <- v6, event <- v7, live <- v8, ids <- v9, given <- v10, packet_panicked <- v11

Vq == INSTANCE Virtqueues WITH SplitSize <- 4, IdxMod <- 8, SplitLengths <- {2, 3},
       SplitMaxBuffers <- 9, PackedSize <- 3, PackedLengths <- {1, 2, 3}, PackedMaxBuffers <- 6,
       split_indexes <- v1, descr_table <- v2, token_ring <- v3, avail_ring <- v4,
       used_ring <- v5, read_idx <- v6, push_pc <- v7, push_head <- v8, dev_idx <- v9,
       split_inflight <- v10, split_done <- v11, split_got <- v12, split_dispatched <- v13,
       ring <- v1, tkn_ref_ring <- v2, write_index <- v3, poll_index <- v4, capacity <- v5,
       packed_indexes <- v6, ctrl <- v7, dev_avail <- v8, dev_used <- v9, packed_inflight <- v10,
       packed_done <- v11, packed_got <- v12, packed_dispatched <- v13

Virtio == INSTANCE VirtioDevices WITH Kinds <- {"net", "console", "vsock", "fs"}, U16 <- 4, U32 <- 16,
       Drivers <- {"net", "console", "vsock"}, QueueSize <- 4, MaxFrames <- 3, MaxMerged <- 2,
       MaxSends <- 4, init_kind <- v1, transport <- v2, init_device <- v3, init_pc <- v4,
       status <- v5, features <- v6, enabled <- v7, init_result <- v8, driver <- v1,
       rx_free <- v2, rx_held <- v3, rx_used <- v4, rx_got <- v5, tx_free <- v6, tx_held <- v7,
       tx_used <- v8, tx_got <- v9, contents <- v10, send_capacity <- v11, drv_pc <- v12,
       parts_left <- v13, packet <- v14, delivered <- v15, received <- v16, sent <- v17,
       rx_next <- v18, tx_next <- v19, drv_panicked <- v20

-----------------------------------------------------------------------------
(* The machine *)

Load == INSTANCE Boot WITH LoaderMachines <- LoaderMachines, PageCount <- 48, Super <- 4,
       LoaderHuge <- 24, HeapSize <- 2, MemoryMachines <- BootMachines, Large <- 4,
       MemoryHuge <- 16, stack_reserve <- 4, loader_machine <- v1, phase <- v2, types <- v3,
       allocator <- v4, services <- v5, late <- v6, loader_heap <- v7, image <- v8, stack <- v9,
       fdt <- v10, loader_next <- v11, loader_tables <- v12, mapped <- v13, memory_machine <- v1,
       free <- v2, total <- v3, memory_tables <- v4, memory_heap <- v5, map_addr <- v6,
       map_size <- v7, stage <- v8, pc <- v9

Map == INSTANCE MemoryMap WITH Cores <- {c1, c2}, PageCount <- 9, FrameCount <- 5, IST_SIZE <- 1,
       DEFAULT_STACK_SIZE <- 1, KERNEL_STACK_SIZE <- 1, StackSizes <- {0, 2}, Sizes <- {1, 2},
       Partial <- FALSE, Watched <- {2}, MaxLive <- 2, MaxCalls <- 5, free_frames <- v1,
       free_pages <- v2, prot_none <- v3, table <- v4, tlb <- v5, flush <- v6, live <- v7,
       uefi <- v8, panicked <- v9, calls <- v10

Paging == INSTANCE Paging WITH IterFanout <- 2, Tables <- PageTables, PageCount <- 12,
       ArmFrameCount <- 8, ArmFanout <- 4, GROUP_SIZE <- 4, ArmMaxCalls <- 2, RiscvFanout <- 2,
       RiscvFrameCount <- 7, RiscvMaxCalls <- 3, page_table <- v1, index <- v2, start <- v3,
       end <- v4, listed <- v5, iter_pc <- v6, tables <- v1, arm_entries <- v2, arm_free <- v3,
       arm_asked <- v4, arm_heap <- v5, arm_pc <- v6, arm_calls <- v7, riscv_entries <- v1,
       riscv_free <- v2, riscv_asked <- v3, riscv_heap <- v4, result <- v5, riscv_pc <- v6,
       riscv_calls <- v7

Platform == INSTANCE Platform WITH AcpiMachines <- AcpiMachines, PageCount <- 16,
       Cores <- {c1, c2}, Boot <- c1, Tasks <- {t1}, CpuMachines <- CpuMachines, U16 <- 65536,
       Base <- 2, MaxTime <- 5, LastYear <- 2099, MaxTicks <- 4, Nanos <- 2,
       LongSleep <- 3, BootTime <- 10, Micros <- 1000,
       acpi_machine <- v1, acpi_pc <- v2, rsdp <- v3, acpi_index <- v4, table <- v5, at <- v6,
       free <- v7, mapped <- v8, MADT <- v9, MCFG <- v10, PM1A_CNT_BLK <- v11, RESET_REG <- v12,
       SLP_TYPA <- v13, pages <- v14, cpu_machine <- v1, features <- v2, xcr0 <- v3,
       osxsave <- v4, state <- v5, area <- v6, home <- v7, saved <- v8, pstate <- v9,
       cpu_ticks <- v10, freq <- v11, load <- v1, time <- v2, regs <- v3, uip <- v4, phase <- v5,
       clock_pc <- v6, clock_index <- v7, first <- v8, second <- v9, began <- v10, result <- v11,
       date <- v12, days <- v13, hour <- v14, clock_ticks <- v15, sleep <- v16

ASSUME Xhci!SizeAssumption /\ Map!MemoryMapAssumption /\ Vq!SplitAssumption

-----------------------------------------------------------------------------
Init ==
  \/ Begin("ahci", 15) /\ Ahci!Init
  \/ Begin("cache", 9) /\ Cache!Init
  \/ Begin("ingest", 9) /\ Ingest!Init
  \/ Begin("rings", 14) /\ Xhci!RingInit
  \/ Begin("transfers", 15) /\ Xhci!TransferInit
  \/ Begin("chunks", 7) /\ Xhci!ChunkInit
  \/ Begin("enum", 13) /\ Usb!EnumInit
  \/ Begin("descriptors", 5) /\ Usb!DescriptorInit
  \/ Begin("rtl8139", 15) /\ Net!RtlInit
  \/ Begin("gem", 19) /\ Net!GemInit
  \/ Begin("rtl8152", 11) /\ Net!PacketInit
  \/ Begin("split", 13) /\ Vq!SplitInit
  \/ Begin("packed", 13) /\ Vq!PackedInit
  \/ Begin("virtio_init", 8) /\ Virtio!SetupInit
  \/ Begin("virtio", 20) /\ Virtio!DriverInit
  \/ Begin("loader", 13) /\ Load!LoaderInit
  \/ Begin("boot", 9) /\ Load!MemoryInit
  \/ Begin("map", 10) /\ Map!Init
  \/ Begin("iter", 6) /\ Paging!IterInit
  \/ Begin("aarch64", 7) /\ Paging!ArmInit
  \/ Begin("riscv64", 7) /\ Paging!RiscvInit
  \/ Begin("acpi", 14) /\ Platform!AcpiInit
  \/ Begin("cpu", 11) /\ Platform!CpuInit
  \/ Begin("clock", 16) /\ Platform!ClockInit
Next ==
  \/ part = "ahci" /\ Ahci!Next /\ Keep(15)
  \/ part = "cache" /\ Cache!Next /\ Keep(9)
  \/ part = "ingest" /\ Ingest!Next /\ Keep(9)
  \/ part = "rings" /\ Xhci!RingNext /\ Keep(14)
  \/ part = "transfers" /\ Xhci!TransferNext /\ Keep(15)
  \/ part = "chunks" /\ Xhci!ChunkNext /\ Keep(7)
  \/ part = "enum" /\ Usb!EnumNext /\ Keep(13)
  \/ part = "descriptors" /\ Usb!DescriptorNext /\ Keep(5)
  \/ part = "rtl8139" /\ Net!RtlNext /\ Keep(15)
  \/ part = "gem" /\ Net!GemNext /\ Keep(19)
  \/ part = "rtl8152" /\ Net!PacketNext /\ Keep(11)
  \/ part = "split" /\ Vq!SplitNext /\ Keep(13)
  \/ part = "packed" /\ Vq!PackedNext /\ Keep(13)
  \/ part = "virtio_init" /\ Virtio!SetupNext /\ Keep(8)
  \/ part = "virtio" /\ Virtio!DriverNext /\ Keep(20)
  \/ part = "loader" /\ Load!LoaderNext /\ Keep(13)
  \/ part = "boot" /\ Load!MemoryNext /\ Keep(9)
  \/ part = "map" /\ Map!Next /\ Keep(10)
  \/ part = "iter" /\ Paging!IterNext /\ Keep(6)
  \/ part = "aarch64" /\ Paging!ArmNext /\ Keep(7)
  \/ part = "riscv64" /\ Paging!RiscvNext /\ Keep(7)
  \/ part = "acpi" /\ Platform!AcpiNext /\ Keep(14)
  \/ part = "cpu" /\ Platform!CpuNext /\ Keep(11)
  \/ part = "clock" /\ Platform!ClockNext /\ Keep(16)
Spec == Init /\ [][Next]_vars

-----------------------------------------------------------------------------
\* Every component keeps its type invariant.
TypeOK ==
  /\ part = "ahci" => Ahci!TypeOK
  /\ part = "cache" => Cache!TypeOK
  /\ part = "ingest" => Ingest!TypeOK
  /\ part = "rings" => Xhci!RingTypeOK
  /\ part = "transfers" => Xhci!TransferTypeOK
  /\ part = "chunks" => Xhci!ChunkTypeOK
  /\ part = "enum" => Usb!TypeOK
  /\ part = "rtl8139" => Net!RtlTypeOK
  /\ part = "gem" => Net!GemTypeOK
  /\ part = "rtl8152" => Net!PacketTypeOK
  /\ part = "split" => Vq!SplitTypeOK
  /\ part = "packed" => Vq!PackedTypeOK
  /\ part = "virtio_init" => Virtio!SetupTypeOK
  /\ part = "virtio" => Virtio!DriverTypeOK
  /\ part = "loader" => Load!LoaderTypeOK
  /\ part = "boot" => Load!MemoryTypeOK
  /\ part = "map" => Map!TypeOK
  /\ part = "iter" => Paging!IterTypeOK
  /\ part = "aarch64" => Paging!ArmTypeOK
  /\ part = "riscv64" => Paging!RiscvTypeOK
  /\ part = "acpi" => Platform!AcpiTypeOK
  /\ part = "cpu" => Platform!CpuTypeOK
  /\ part = "clock" => Platform!ClockTypeOK

\* Every frame a network adapter stored is handed up once, whole and in order, wherever in its ring
\* it began or wrapped, however many buffers it came in and whatever the adapter does meanwhile
\* (receive and RxToken::consume of the RTL8139, GEM, RTL8152 and virtio drivers).
FramesIntact ==
  /\ part = "rtl8139" => Net!RtlFramesIntact
  /\ part = "gem" => Net!GemFramesIntact
  /\ part = "rtl8152" => Net!PacketFramesIntact
  /\ part = "virtio" => Virtio!FramesAreWhole

\* Memory that a device reads or writes is the device's while it does: a transmit buffer of the
\* RTL8139 is not filled while it is sent, a frame that virtio accepted has room in its queue, a
\* descriptor chain is whole and is not handed out again, the contexts and rings of a USB slot live
\* as long as the slot, a transfer covers its buffer and nothing else, only a disk transfer that was
\* given up for late or ran beside another frees what the controller works on, and a virtio driver
\* that reports success has all of its queues, but for a file system without a request queue.
DmaIsOwned ==
  /\ part = "ahci" => Ahci!BufferIsHeld
  /\ part = "rtl8139" => Net!RtlTxBufferIsFree
  /\ part = "virtio" => Virtio!RoomIsReserved
  /\ part = "split" => Vq!ChainIsIntact
  /\ part = "packed" => Vq!ChainIsWhole
  /\ part = "virtio_init" => Virtio!LiveIsReady
  /\ part = "enum" => Usb!DmaTargetsLive
  /\ part = "chunks" => Xhci!ChunksAreTheBuffer

\* Both layouts of a virtqueue implement the queue of buffers that the drivers rely on: dispatch
\* takes descriptors or is refused, the device completes what it holds in any order, and try_recv
\* returns what was completed, in that order and once, with its descriptors.
ImplementsQueue ==
  /\ part = "split" => Vq!SplitQueue!InitQueue(4)
  /\ part = "packed" => Vq!PackedQueue!InitQueue(3)
  /\ [][part = "split" => [Vq!SplitQueue!QueueNext(Vq!SplitTokens)]_(Vq!SplitQueue!bufferqueue_vars)]_vars
  /\ [][part = "packed" => [Vq!PackedQueue!QueueNext(Vq!PackedTokens)]_(Vq!PackedQueue!bufferqueue_vars)]_vars

\* An answer belongs to its question: a disk transfer that returns Ok was carried out although an earlier
\* command was given up for late, unless another call ran beside it, the cells of an xHCI ring are taken
\* once and in order over every wrap and none is left behind, a USB transfer takes its own events although
\* those of earlier ones arrive late, and both parsers of a configuration find the same interface and its
\* endpoints.
AnswersAreOwn ==
  /\ part = "ahci" => Ahci!AckedIsDone
  /\ part = "rings" => Xhci!RingsInOrder /\ Xhci!NothingIsStuck
  /\ part = "transfers" => Xhci!ResultIsOwn
  /\ part = "chunks" => Xhci!LastResidueIsExact
  /\ part = "descriptors" => Usb!ParsersAgree

\* The model that reaches the application is the file of the stick, block for block: the search
\* finds it, the reads follow its clusters however short the stick makes them, a cache on the SSD
\* that says READY is complete whatever failed while it was written, and the database lies apart.
ModelIsWhole ==
  /\ part = "ingest" => Ingest!IngestedIsFile /\ Ingest!SearchFindsModel
  /\ part = "cache" => Cache!ModelIsWhole /\ Cache!DatabaseIsApart

\* Memory has one owner: the loader leaves the kernel's image, stack, tables and boot information
\* apart (of the stack of a UEFI boot, only from the image) and names it the memory it may use (a
\* Linux boot, the reserved entries of the map as well); boot gives away nothing that was reserved and
\* backs the whole heap; a frame or page handed out is on no free list and in no other mapping; the
\* pages around stacks are unmapped; and a page that is mapped anew is flushed on every core.
MemoryIsOwned ==
  /\ [](/\ part = "loader" => Load!MemoryIsTold /\ Load!HandOverIsApart
        /\ part = "boot" => Load!ReservedIsKept /\ Load!ArenaIsBacked
        /\ part = "map" => Map!MemoryIsOwned /\ Map!GuardsAreUnmapped)
  /\ [][part = "map" => Map!RemapReachesCores]_vars

\* A page table translates as it was asked to, after any sequence of map and unmap calls: on AArch64 in
\* single pages and in regular groups (map can make others), on RISC-V with its own tables, in the
\* identity map of the loader; and the iterator over the tables of the firmware lists every mapped page,
\* once.
TranslatesAsAsked ==
  /\ part = "aarch64" => Paging!ArmTranslatesAsAsked
  /\ part = "riscv64" => Paging!RiscvTranslatesAsAsked
  /\ part = "loader" => Load!IdentityIsMapped
  /\ part = "iter" => Paging!ListingIsComplete

\* What the kernel reads from the machine is right: the tables it keeps stay readable and the sleep
\* type comes from \_S5; the area for the registers of a task has room for what is saved, and the
\* frequency is never 0; the time is one the clock showed, dates and hours are converted exactly, and
\* no sleep ends a microsecond early unless a stale handle of the task disturbs it.
MachineIsRead ==
  /\ part = "acpi" => Platform!KeptTablesAreReadable /\ Platform!SleepTypeIsNamed
  /\ part = "cpu" => Platform!AreaHasRoom /\ Platform!FrequencyIsUsable
  /\ part = "clock" => Platform!TimeIsRead /\ Platform!DateIsConverted /\ Platform!NoEarlyWake
=============================================================================

------------------------------ MODULE Platform -------------------------------
(***************************************************************************)
(* What the kernel reads of its machine: the tables of the firmware, the   *)
(* processor, the clocks.                                                  *)
(***************************************************************************)
EXTENDS Integers, Sequences, FiniteSets, SequencesExt, FiniteSetsExt

-----------------------------------------------------------------------------
(***************************************************************************)
(* The ACPI tables, arch/x86_64/kernel/acpi.rs: the search for the root    *)
(* pointer, the walk over the tables of the root table, the mapping of     *)
(* each of them and what is kept for power off, reset, the interrupt       *)
(* controllers and the PCI bus.                                            *)
(*                                                                         *)
(* A machine is a record: uefi; rsdp, the candidates in the order of the   *)
(* search (uefi: the one the loader names); tables, the tables of the root *)
(* table in its order.  A table has a signature, a checksum that is right  *)
(* or not, a first frame, a number of pages, and for the bytecode tables   *)
(* aml, their bytes: single ones, and the five bytes of "_S5_" with the    *)
(* package operator, which count as one element and carry what follows.    *)
(***************************************************************************)
CONSTANTS AcpiMachines,
          PageCount       \* bound: virtual pages of the allocator

VARIABLES acpi_machine, acpi_pc,
          rsdp,           \* the root pointer found
          acpi_index,          \* the entry of the root table
          table, at,      \* the table at hand and its first virtual page (uefi: 0)
          free, mapped,   \* the page allocator; the frame a page maps or -1
          MADT, MCFG,     \* a table and its page, or Nothing
          PM1A_CNT_BLK, RESET_REG, SLP_TYPA,
          pages           \* the pages of the root table

acpi_vars == <<acpi_machine, acpi_pc, rsdp, acpi_index, table, at, free, mapped, MADT, MCFG, PM1A_CNT_BLK, RESET_REG, SLP_TYPA, pages>>
kept_vars == <<MADT, MCFG, PM1A_CNT_BLK, RESET_REG, SLP_TYPA>>

Nothing == [set |-> FALSE]
Kept(t, p) == [set |-> TRUE, table |-> t, page |-> p]
NoTable == [sig |-> "none", ok |-> FALSE, frame |-> 0, pages |-> 0]
Pages == 1 .. PageCount

-----------------------------------------------------------------------------
(* AcpiTable::map and Drop *)

\* The first hole of n pages, as the allocator takes it; 0 for none.
Run(p, n) == p .. p + n - 1
Holes(f, n) == {p \in Pages : Run(p, n) \subseteq f}
allocate(f, n) == IF Holes(f, n) = {} THEN 0 ELSE Min(Holes(f, n))

MapRun(m, p, frame, n) == [q \in Pages |-> IF q \in Run(p, n) THEN frame + q - p ELSE m[q]]

\* Two pages first, for the length; a table that is longer is mapped again elsewhere.  The mapping
\* of the two pages stays behind when their addresses go back.
map(t, f, m) ==
  LET p == allocate(f, 2)
      m2 == MapRun(m, p, t.frame, 2)
      q == allocate(f, t.pages)
  IN IF acpi_machine.uefi THEN [page |-> 0, free |-> f, mapped |-> m]
     ELSE IF t.pages <= 2 THEN [page |-> p, free |-> f \ Run(p, 2), mapped |-> m2]
     ELSE [page |-> q, free |-> f \ Run(q, t.pages), mapped |-> MapRun(m2, q, t.frame, t.pages)]

Held(t) == IF t.pages <= 2 THEN 2 ELSE t.pages

\* Mutant of drop: a page too many is given back.
drop_more(t, p, f) == IF acpi_machine.uefi THEN f ELSE f \cup (Run(p, Held(t) + 1) \cap Pages)

drop(t, p, f) == IF acpi_machine.uefi THEN f ELSE f \cup Run(p, Held(t))

\* The table can be read at its page, and the addresses are its own.
Readable(t, p) == acpi_machine.uefi \/ \A i \in 0 .. t.pages - 1 : mapped[p + i] = t.frame + i /\ p + i \notin free

-----------------------------------------------------------------------------
(* The search for the root pointer *)

\* detect_rsdp: signature, checksum and, from revision 2, the extended checksum
Valid(r) == r.sig /\ r.sum /\ (r.revision >= 2 => r.xsum)

\* detect_acpi: with uefi the pointer of the loader, whose signature alone is looked at; otherwise the
\* first valid one of the EBDA and of the BIOS area.
detect_acpi ==
  /\ acpi_pc = "detect"
  /\ LET c == acpi_machine.rsdp
         hits == {i \in DOMAIN c : Valid(c[i])}
     IN IF acpi_machine.uefi
        THEN IF c[1].sig THEN rsdp' = c[1] /\ acpi_pc' = "root" ELSE acpi_pc' = "panicked" /\ UNCHANGED rsdp
        ELSE IF hits # {} THEN rsdp' = c[Min(hits)] /\ acpi_pc' = "root"
        ELSE acpi_pc' = "panicked" /\ UNCHANGED rsdp
  /\ UNCHANGED <<acpi_machine, acpi_index, table, at, free, mapped, kept_vars, pages>>

\* The root table; its entries are those of the revision's table.
map_root ==
  /\ acpi_pc = "root"
  /\ LET x == map(acpi_machine.root, free, mapped)
     IN free' = x.free /\ mapped' = x.mapped /\ pages' = x.page
  /\ acpi_pc' = "next" /\ acpi_index' = 1
  /\ UNCHANGED <<acpi_machine, rsdp, table, at, kept_vars>>

\* The while loop of init: the next table is mapped; at the end the root table goes.
next_table ==
  /\ acpi_pc = "next" /\ acpi_index <= Len(acpi_machine.tables)
  /\ LET t == acpi_machine.tables[acpi_index]
         x == map(t, free, mapped)
     IN free' = x.free /\ mapped' = x.mapped /\ table' = t /\ at' = x.page
  /\ acpi_pc' = "table" /\ acpi_index' = acpi_index + 1
  /\ UNCHANGED <<acpi_machine, rsdp, kept_vars, pages>>

end_of_tables ==
  /\ acpi_pc = "next" /\ acpi_index > Len(acpi_machine.tables)
  /\ free' = drop(acpi_machine.root, pages, free) /\ acpi_pc' = "done"
  /\ UNCHANGED <<acpi_machine, rsdp, acpi_index, table, at, mapped, kept_vars, pages>>

Table(sig) == acpi_pc = "table" /\ table.sig = sig /\ UNCHANGED <<acpi_machine, rsdp, acpi_index, pages>>
Done == acpi_pc' = "next" /\ table' = NoTable /\ at' = 0
Panics == acpi_pc' = "panicked" /\ UNCHANGED <<table, at, free, mapped, kept_vars>>

\* MADT and MCFG are kept, with their mapping; a second one makes set fail.
keep_madt ==
  /\ Table("APIC")
  /\ IF ~table.ok \/ MADT.set THEN Panics
     ELSE Done /\ MADT' = Kept(table, at) /\ UNCHANGED <<free, mapped, MCFG, PM1A_CNT_BLK, RESET_REG, SLP_TYPA>>

keep_mcfg ==
  /\ Table("MCFG")
  /\ IF ~table.ok \/ MCFG.set THEN Panics
     ELSE Done /\ MCFG' = Kept(table, at) /\ UNCHANGED <<free, mapped, MADT, PM1A_CNT_BLK, RESET_REG, SLP_TYPA>>

\* Any other table is mapped and unmapped.
other_table ==
  /\ acpi_pc = "table" /\ table.sig \notin {"APIC", "MCFG", "FACP", "SSDT"}
  /\ Done /\ free' = drop(table, at, free)
  /\ UNCHANGED <<acpi_machine, rsdp, acpi_index, mapped, kept_vars, pages>>

-----------------------------------------------------------------------------
(* search_s5_in_table.  An element: kind is "byte" or "s5"; a byte has a value, an s5 what follows. *)

IsByte(aml, i, v) == i \in DOMAIN aml /\ aml[i].kind = "byte" /\ aml[i].value = v

\* A name operator, or one and a backslash, stands before it.
Named(aml, i) == IsByte(aml, i - 1, "name") \/ (IsByte(aml, i - 2, "name") /\ IsByte(aml, i - 1, "root"))

Operand(e) == CASE e.op = "zero" -> 0 [] e.op = "one" -> 1 [] e.op = "byte" -> e.byte [] OTHER -> -1

\* The first occurrence only; more than two bytes before it (i > 2 from 0).
search_s5_in_table(aml) ==
  LET s == {i \in DOMAIN aml : aml[i].kind = "s5"}
      i == Min(s)
  IN IF s = {} THEN -1
     ELSE IF i > 3 /\ Named(aml, i) /\ aml[i].small /\ aml[i].elements > 0 THEN Operand(aml[i]) ELSE -1

\* parse_fadt: the registers, then the DSDT is mapped while the FADT is; both go at the end.
parse_fadt ==
  /\ Table("FACP")
  /\ LET t == table
         d == t.dsdt
         x == map(d, free, mapped)
         s5 == search_s5_in_table(d.aml)
     IN IF ~t.ok \/ PM1A_CNT_BLK.set \/ d.sig # "DSDT" \/ ~d.ok \/ (s5 # -1 /\ SLP_TYPA.set)
        THEN Panics
        ELSE /\ Done
             /\ PM1A_CNT_BLK' = [set |-> TRUE, port |-> IF t.long /\ t.x_io THEN t.x_pm1a ELSE t.pm1a]
             /\ RESET_REG' = IF t.reset /\ t.has_reset THEN [set |-> TRUE, space |-> t.space] ELSE RESET_REG
             /\ SLP_TYPA' = IF s5 # -1 THEN [set |-> TRUE, value |-> s5] ELSE SLP_TYPA
             /\ mapped' = x.mapped
             /\ free' = drop(t, at, drop(d, x.page, x.free))
             /\ UNCHANGED <<MADT, MCFG>>

\* parse_ssdt: nothing if the value is known
parse_ssdt ==
  /\ Table("SSDT")
  /\ LET s5 == search_s5_in_table(table.aml)
     IN IF ~table.ok THEN Panics
        ELSE /\ Done /\ free' = drop(table, at, free)
             /\ SLP_TYPA' = IF ~SLP_TYPA.set /\ s5 # -1 THEN [set |-> TRUE, value |-> s5] ELSE SLP_TYPA
             /\ UNCHANGED <<mapped, MADT, MCFG, PM1A_CNT_BLK, RESET_REG>>

-----------------------------------------------------------------------------
(* poweroff and reboot, at any time after the walk *)

poweroff ==
  /\ acpi_pc = "done"
  /\ acpi_pc' = IF PM1A_CNT_BLK.set /\ SLP_TYPA.set THEN "off" ELSE "no_poweroff"
  /\ UNCHANGED <<acpi_machine, rsdp, acpi_index, table, at, free, mapped, kept_vars, pages>>

reboot ==
  /\ acpi_pc = "done"
  /\ acpi_pc' = IF RESET_REG.set /\ RESET_REG.space \in {"io", "memory"} THEN "reset" ELSE "no_reset"
  /\ UNCHANGED <<acpi_machine, rsdp, acpi_index, table, at, free, mapped, kept_vars, pages>>

AcpiInit ==
  /\ acpi_machine \in AcpiMachines /\ acpi_pc = "detect"
  /\ rsdp = [sig |-> FALSE, sum |-> FALSE, xsum |-> FALSE, revision |-> 0]
  /\ acpi_index = 0 /\ table = NoTable /\ at = 0 /\ pages = 0
  /\ free = Pages /\ mapped = [p \in Pages |-> -1]
  /\ MADT = Nothing /\ MCFG = Nothing /\ PM1A_CNT_BLK = Nothing /\ RESET_REG = Nothing /\ SLP_TYPA = Nothing

AcpiNext ==
  \/ detect_acpi \/ map_root \/ next_table \/ end_of_tables
  \/ keep_madt \/ keep_mcfg \/ other_table \/ parse_fadt \/ parse_ssdt
  \/ poweroff \/ reboot

AcpiSpec == AcpiInit /\ [][AcpiNext]_acpi_vars

-----------------------------------------------------------------------------
AcpiTypeOK ==
  /\ acpi_pc \in {"detect", "root", "next", "table", "done", "panicked", "off", "no_poweroff", "reset", "no_reset"}
  /\ free \subseteq Pages /\ DOMAIN mapped = Pages /\ at \in 0 .. PageCount /\ acpi_index \in Nat

\* The tables that are kept for later, the MADT and the MCFG, stay readable where they were mapped,
\* and so does the root table during the walk and the table at hand, while all the other tables
\* come and go and pages are reused.
KeptTablesAreReadable ==
  /\ \A k \in {MADT, MCFG} : k.set => Readable(k.table, k.page)
  /\ acpi_pc = "table" => Readable(table, at)
  /\ acpi_pc \in {"next", "table"} => Readable(acpi_machine.root, pages)

\* The value written for power off comes from an object named _S5_ of the DSDT or an SSDT of the
\* machine, never from bytes that only look like one.
SleepTypeIsNamed ==
  SLP_TYPA.set =>
     \E t \in Range(acpi_machine.tables) :
        LET aml == IF t.sig = "FACP" THEN t.dsdt.aml ELSE IF t.sig = "SSDT" THEN t.aml ELSE <<>>
        IN \E i \in DOMAIN aml : aml[i].kind = "s5" /\ Named(aml, i) /\ Operand(aml[i]) = SLP_TYPA.value

-----------------------------------------------------------------------------
(***************************************************************************)
(* The processor, arch/x86_64/kernel/processor.rs: the features, the       *)
(* configuration of a core, the areas its extended registers are saved in, *)
(* and the frequency of the time stamp counter, with the interval timer of *)
(* pit.rs as the last source of it.                                        *)
(*                                                                         *)
(* A machine is a record: has, the features CPUID reports; firmware, what  *)
(* the firmware left enabled in XCR0 on the boot core; and the frequency   *)
(* sources in MHz, 0 if they do not answer (see the operators).            *)
(***************************************************************************)
CONSTANTS Cores, Boot,     \* the processors; the one the firmware starts
          Tasks,
          CpuMachines,
          U16              \* the number of frequencies, 2^16

VARIABLES cpu_machine,
          features,        \* FEATURES: {} until the boot core has read them
          xcr0, osxsave,   \* of every core: the enabled components, CR4.OSXSAVE
          state,           \* of every core: "off", "reset", "configured"
          area, home,      \* of every task: the components its area has room for; its core
          saved,           \* of every task: the components last written to its area
          pstate,          \* the ratio asked of IA32_PERF_CTL; 0 for none
          cpu_ticks,           \* MEASUREMENT_TIMER_TICKS
          freq             \* the search for the frequency

cpu_vars == <<cpu_machine, features, xcr0, osxsave, state, area, home, saved, pstate, cpu_ticks, freq>>
core_vars == <<features, xcr0, osxsave, state, pstate>>
task_vars == <<area, home, saved>>
freq_vars == <<cpu_ticks, freq>>

Vector == {"avx", "opmask", "hi16", "hi256"}
Legacy == {"x87", "sse"}

-----------------------------------------------------------------------------
(* detect_features: the Lazy is forced by the boot core *)

detect_features ==
  /\ state[Boot] = "reset" /\ features = {}
  /\ features' = cpu_machine.has \cup {"fpu"}
  /\ UNCHANGED <<cpu_machine, xcr0, osxsave, state, pstate, task_vars, freq_vars>>

\* CpuSpeedStep: the P-state configure asks for, if SpeedStep is there, enabled and not locked.
Speedstep ==
  IF ~{"eist", "eist_enabled"} \subseteq features \/ "eist_locked" \in features THEN 0
  ELSE IF "turbo" \in features /\ cpu_machine.turbo > cpu_machine.max THEN cpu_machine.turbo
  ELSE cpu_machine.max

\* configure: what the firmware enabled stays enabled.
configure(c) ==
  /\ state[c] = "reset" /\ features # {}
  /\ osxsave' = [osxsave EXCEPT ![c] = @ \/ "xsave" \in features]
  /\ xcr0' = IF "xsave" \in features THEN [xcr0 EXCEPT ![c] = @ \cup Legacy \cup (Vector \cap features)] ELSE xcr0
  /\ pstate' = IF Speedstep = 0 THEN pstate ELSE Speedstep
  /\ state' = [state EXCEPT ![c] = "configured"]
  /\ UNCHANGED <<cpu_machine, features, task_vars, freq_vars>>

\* External: the boot core starts another one; its XCR0 is the one of a reset.
StartCore(c) ==
  /\ state[Boot] = "configured" /\ state[c] = "off"
  /\ state' = [state EXCEPT ![c] = "reset"]
  /\ UNCHANGED <<cpu_machine, features, xcr0, osxsave, pstate, task_vars, freq_vars>>

-----------------------------------------------------------------------------
(* FPUState: the area is sized by the core that makes the task of itself *)

FPUState_new(c, t) ==
  /\ state[c] = "configured" /\ home[t] = "none"
  /\ home' = [home EXCEPT ![t] = c]
  /\ area' = [area EXCEPT ![t] = IF "xsave" \in features THEN xcr0[c] ELSE Legacy]
  /\ UNCHANGED <<cpu_machine, core_vars, saved, freq_vars>>

\* xsavec, xsaveopt and xsave write what is enabled; fxsave the legacy registers.
FPUState_save(t) ==
  /\ home[t] # "none"
  /\ saved' = [saved EXCEPT ![t] = IF "xsave" \in features THEN xcr0[home[t]] ELSE Legacy]
  /\ UNCHANGED <<cpu_machine, core_vars, area, home, freq_vars>>

-----------------------------------------------------------------------------
(* CpuFrequency::detect.  m.pit is the number of timer interrupts that will arrive, m.real the     *)
(* cycles of the time stamp counter in a microsecond.                                              *)

Absent == [source |-> "none", mhz |-> 0, panic |-> FALSE]
set_detected_cpu_frequency(mhz, s) == [source |-> IF mhz = 0 THEN "none" ELSE s, mhz |-> mhz, panic |-> FALSE]

detect_from_fdt(m) == set_detected_cpu_frequency(IF m.fdt < U16 THEN m.fdt ELSE 0, "fdt")
detect_from_cmdline(m) == set_detected_cpu_frequency(m.cmdline, "cmdline")

\* External: IA32_PERF_STATUS shows the ratio that configure asked for, or the one of the reset.
Ratio(m) == IF pstate # 0 /\ m.follows THEN pstate ELSE m.ratio

\* The active ratio of the SpeedStep registers times the bus clock; checked_mul.
detect_from_msr_perf_status(m) ==
  IF "eist" \notin m.has THEN Absent
  ELSE LET bus == IF m.bus > 0 THEN m.bus ELSE 100
       IN set_detected_cpu_frequency(IF Ratio(m) * bus < U16 THEN Ratio(m) * bus ELSE 0, "msr")

detect_from_cpuid(m) == set_detected_cpu_frequency(m.cpuid, "cpuid")
\* `as u16` cuts
detect_from_cpuid_tsc_info(m) == set_detected_cpu_frequency(m.tsc % U16, "tsc")
\* try_into().unwrap()
detect_from_cpuid_hypervisor_info(m) ==
  [set_detected_cpu_frequency(m.hypervisor % U16, "hypervisor") EXCEPT !.panic = m.hypervisor >= U16]
\* Uhyve reports a frequency in its boot information.
detect_from_hypervisor(m) ==
  [set_detected_cpu_frequency(m.uhyve % U16, "uhyve") EXCEPT !.panic = m.uhyve >= U16]
\* One digit, a point and two digits before "GHz"; "GHz" among the first four characters underflows.
detect_from_cpuid_brand_string(m) ==
  [set_detected_cpu_frequency(m.brand % U16, "brand") EXCEPT !.panic = m.brand_early]

Sources(m) == <<detect_from_fdt(m), detect_from_cmdline(m), detect_from_msr_perf_status(m), detect_from_cpuid(m),
                detect_from_cpuid_tsc_info(m), detect_from_cpuid_hypervisor_info(m), detect_from_hypervisor(m),
                detect_from_cpuid_brand_string(m)>>

Cpu(f) == freq.pc = f /\ UNCHANGED <<cpu_machine, core_vars, task_vars>>

\* The chain of or_else: the first source that answers; then the measurement.
detect ==
  /\ Cpu("start") /\ state[Boot] = "configured" /\ UNCHANGED cpu_ticks
  /\ LET s == Sources(cpu_machine)
         hits == {i \in DOMAIN s : s[i].panic \/ s[i].source # "none"}
         i == CHOOSE k \in hits : \A j \in hits : k <= j
     IN IF hits = {} THEN freq' = [freq EXCEPT !.pc = "measure"]
        ELSE freq' = [freq EXCEPT !.pc = IF s[i].panic THEN "panicked" ELSE "done",
                                !.mhz = s[i].mhz, !.source = s[i].source]

\* measure_frequency: the PIT is unmasked and interrupts enabled; uhyve has no interrupt controller.
measure_start ==
  /\ Cpu("measure") /\ UNCHANGED cpu_ticks
  /\ freq' = IF cpu_machine.is_uhyve THEN [freq EXCEPT !.pc = "done", !.mhz = 2000, !.source = "visionary"]
            ELSE [freq EXCEPT !.pc = "first", !.unmasked = TRUE, !.start = cpu_ticks, !.cycles = 0]

\* External: the interval timer; a slice of it is m.real cycles of a megahertz counter.
PitTick ==
  /\ freq.unmasked /\ cpu_ticks < cpu_machine.pit
  /\ cpu_ticks' = cpu_ticks + 1
  /\ freq' = [freq EXCEPT !.cycles = IF freq.pc = "count" THEN @ + cpu_machine.real ELSE @]
  /\ UNCHANGED <<cpu_machine, core_vars, task_vars>>

\* The start of a slice.
measure_first ==
  /\ Cpu("first") /\ cpu_ticks # freq.start /\ UNCHANGED cpu_ticks
  /\ freq' = [freq EXCEPT !.pc = "count", !.start = cpu_ticks, !.cycles = 0]

\* No tick came: the guess of 2 GHz.
measure_timeout ==
  /\ Cpu("first") /\ cpu_ticks = freq.start /\ UNCHANGED cpu_ticks
  /\ freq' = [freq EXCEPT !.pc = "done", !.unmasked = FALSE, !.mhz = 2000, !.source = "visionary"]

\* Three ticks were counted; without them the loop does not end.
measure_count ==
  /\ Cpu("count") /\ cpu_ticks - freq.start >= 3 /\ UNCHANGED cpu_ticks
  /\ LET mhz == (freq.cycles \div 3) % U16
     IN freq' = IF mhz = 0 THEN [freq EXCEPT !.pc = "done", !.unmasked = FALSE, !.mhz = 2000, !.source = "visionary"]
               ELSE [freq EXCEPT !.pc = "done", !.unmasked = FALSE, !.mhz = mhz, !.source = "measurement"]

-----------------------------------------------------------------------------
NoFreq == [pc |-> "start", mhz |-> 0, source |-> "none", unmasked |-> FALSE, start |-> 0, cycles |-> 0]

CpuInit ==
  /\ cpu_machine \in CpuMachines
  /\ features = {} /\ pstate = 0 /\ cpu_ticks = 0 /\ freq = NoFreq
  /\ xcr0 = [c \in Cores |-> IF c = Boot THEN cpu_machine.firmware \cup {"x87"} ELSE {"x87"}]
  /\ osxsave = [c \in Cores |-> c = Boot /\ cpu_machine.firmware # {}]
  /\ state = [c \in Cores |-> IF c = Boot THEN "reset" ELSE "off"]
  /\ area = [t \in Tasks |-> {}] /\ home = [t \in Tasks |-> "none"] /\ saved = [t \in Tasks |-> {}]

CpuNext ==
  \/ detect_features
  \/ \E c \in Cores : configure(c) \/ StartCore(c) \/ \E t \in Tasks : FPUState_new(c, t)
  \/ \E t \in Tasks : FPUState_save(t)
  \/ detect \/ measure_start \/ PitTick \/ measure_first \/ measure_timeout \/ measure_count

CpuSpec == CpuInit /\ [][CpuNext]_cpu_vars

-----------------------------------------------------------------------------
CpuTypeOK ==
  /\ state \in [Cores -> {"off", "reset", "configured"}] /\ osxsave \in [Cores -> BOOLEAN]
  /\ home \in [Tasks -> Cores \cup {"none"}] /\ cpu_ticks \in Nat /\ freq.mhz \in 0 .. U16
  /\ freq.pc \in {"start", "measure", "first", "count", "done", "panicked"}

\* What a core writes when it saves the registers of a task has room in the area of the task, also
\* if the firmware enabled more on the boot core than the kernel does; and the instruction that
\* writes it is enabled.
AreaHasRoom ==
  \A t \in Tasks :
     /\ saved[t] \subseteq area[t]
     /\ saved[t] # {} /\ "xsave" \in features => osxsave[home[t]] /\ Legacy \subseteq saved[t]

\* Whatever the sources say and however the interval timer behaves, the frequency found is not 0
\* (it divides every time stamp), the timer is masked again, and a measurement covers whole slices.
FrequencyIsUsable ==
  freq.pc = "done" =>
     /\ freq.mhz # 0 /\ ~freq.unmasked
     /\ freq.source = "measurement" => freq.cycles >= 3 * cpu_machine.real

-----------------------------------------------------------------------------
(***************************************************************************)
(* The clocks of the kernel: the real-time clock that                      *)
(* arch/x86_64/kernel/systemtime.rs reads at boot, and the sleeping calls  *)
(* of syscalls/timer.rs.                                                   *)
(*                                                                         *)
(* A behaviour looks at one of four things (load): the reading of the RTC  *)
(* registers while the clock runs on; the conversion of a date into days;  *)
(* the conversion of the hour register; a sleep on a clock.                *)
(***************************************************************************)
CONSTANTS Base,         \* values of an RTC register in the reading: 0 .. Base - 1
          MaxTime,      \* bound: RTC updates
          LastYear,     \* bound: years of the calendar are 2000 .. LastYear
          MaxTicks,     \* bound: microseconds since the boot
          Nanos,        \* the units of a timespec in a microsecond
          LongSleep,    \* the microseconds from which a sleep blocks the task (10_000)
          BootTime,     \* the time of the boot in microseconds
          Micros        \* number of values of a u64 of microseconds

VARIABLES load,
          time, regs, uip, phase,      \* the RTC: its time, registers, update-in-progress, update
          clock_pc, clock_index, first, second,    \* the reader
          began, result,
          date, days,                  \* the calendar
          hour,                        \* an hour and the format of its register
          clock_ticks, sleep                 \* the time since the boot and a sleeping call

NoSleep == [pc |-> "idle", micros |-> 0, deadline |-> 0, called |-> 0, stale |-> FALSE]

clock_vars == <<load, time, regs, uip, phase, clock_pc, clock_index, first, second, began, result, date, days, hour,
                clock_ticks, sleep>>
rtc_vars == <<time, regs, uip, phase>>
reader_vars == <<clock_pc, clock_index, first, second, began, result>>
sleep_vars == <<clock_ticks, sleep>>

-----------------------------------------------------------------------------
(* The RTC registers, most significant first; three stand for the six that *)
(* read_all_values reads.  External: the clock raises its flag, changes    *)
(* its registers one after the other, least significant first, and takes   *)
(* the flag back.  It does so once a second, and a pass of the reader,     *)
(* with interrupts off, is far shorter: one update may fall into a pass.   *)

Registers == 1 .. 3
Digits(t) == <<(t \div (Base * Base)) % Base, (t \div Base) % Base, t % Base>>
Value(v) == (v[1] * Base + v[2]) * Base + v[3]
Unread == <<0, 0, 0>>

UpdateBegins ==
  /\ load = "rtc" /\ ~uip /\ time < MaxTime
  /\ clock_pc \in {"wait", "done"} \/ time = began
  /\ uip' = TRUE /\ phase' = 3
  /\ UNCHANGED <<load, time, regs, reader_vars, date, days, hour, sleep_vars>>

UpdateRegister ==
  /\ load = "rtc" /\ uip /\ phase > 0
  /\ regs' = [regs EXCEPT ![phase] = Digits(time + 1)[phase]]
  /\ phase' = phase - 1
  /\ UNCHANGED <<load, time, uip, reader_vars, date, days, hour, sleep_vars>>

UpdateEnds ==
  /\ load = "rtc" /\ uip /\ phase = 0
  /\ uip' = FALSE /\ time' = time + 1
  /\ UNCHANGED <<load, regs, phase, reader_vars, date, days, hour, sleep_vars>>

-----------------------------------------------------------------------------
(* get_microseconds_since_epoch *)

Reader(f) == load = "rtc" /\ clock_pc = f /\ UNCHANGED <<load, rtc_vars, date, days, hour, sleep_vars>>

wait_update ==
  /\ Reader("wait") /\ ~uip
  /\ clock_pc' = "first" /\ clock_index' = 1 /\ first' = Unread /\ second' = Unread /\ began' = time
  /\ UNCHANGED result

\* read_all_values, register by register
read_first ==
  /\ Reader("first")
  /\ first' = [first EXCEPT ![clock_index] = regs[clock_index]]
  /\ IF clock_index = 3 THEN clock_pc' = "check" /\ clock_index' = 1 ELSE clock_index' = clock_index + 1 /\ UNCHANGED clock_pc
  /\ UNCHANGED <<second, began, result>>

check_update ==
  /\ Reader("check")
  /\ clock_pc' = IF uip THEN "wait" ELSE "second"
  /\ UNCHANGED <<clock_index, first, second, began, result>>

read_second ==
  /\ Reader("second")
  /\ second' = [second EXCEPT ![clock_index] = regs[clock_index]]
  /\ IF clock_index = 3 THEN clock_pc' = "compare" /\ clock_index' = 1 ELSE clock_index' = clock_index + 1 /\ UNCHANGED clock_pc
  /\ UNCHANGED <<first, began, result>>

compare ==
  /\ Reader("compare")
  /\ IF first = second THEN clock_pc' = "done" /\ result' = Value(first)
     ELSE clock_pc' = "wait" /\ UNCHANGED result
  /\ UNCHANGED <<clock_index, first, second, began>>

-----------------------------------------------------------------------------
(* microseconds_from_date, up to the days; divisions round down *)

days_since_epoch(d) ==
  LET m == IF d.month > 2 THEN d.month - 2 ELSE d.month + 12 - 2
      y == IF d.month > 2 THEN d.year ELSE d.year - 1
  IN (y \div 4) - (y \div 100) + (y \div 400) + ((367 * m) \div 12) + d.day + y * 365 - 719499

\* External: the calendar.
IsLeap(y) == y % 4 = 0 /\ (y % 100 # 0 \/ y % 400 = 0)
Length(y, m) == IF m = 2 THEN (IF IsLeap(y) THEN 29 ELSE 28) ELSE IF m \in {4, 6, 9, 11} THEN 30 ELSE 31
NextDay(d) ==
  IF d.day < Length(d.year, d.month) THEN [d EXCEPT !.day = @ + 1]
  ELSE IF d.month < 12 THEN [d EXCEPT !.day = 1, !.month = @ + 1]
  ELSE [day |-> 1, month |-> 1, year |-> d.year + 1]

Midnight ==
  /\ load = "calendar" /\ NextDay(date).year <= LastYear
  /\ date' = NextDay(date) /\ days' = days + 1
  /\ UNCHANGED <<load, rtc_vars, reader_vars, hour, sleep_vars>>

-----------------------------------------------------------------------------
(* The hour register: binary or BCD, 24 or 12 hours with a PM flag *)

Formats == [binary : BOOLEAN, h24 : BOOLEAN]
PM == 128

\* External: what the clock shows at an hour.
HourRegister(h, f) ==
  LET h12 == IF h % 12 = 0 THEN 12 ELSE h % 12
      n == IF f.h24 THEN h ELSE h12
      code == IF f.binary THEN n ELSE (n \div 10) * 16 + (n % 10)
  IN code + (IF ~f.h24 /\ h >= 12 THEN PM ELSE 0)

convert_bcd_value(v) == (v \div 16) * 10 + (v % 16)

read_hour(reg, f) ==
  LET is_pm == ~f.h24 /\ reg >= PM
      masked == IF f.h24 THEN reg ELSE reg % PM
      bin == IF f.binary THEN masked ELSE convert_bcd_value(masked)
      h == IF ~f.h24 /\ bin = 12 THEN 0 ELSE bin
  IN IF is_pm THEN h + 12 ELSE h

-----------------------------------------------------------------------------
(* sys_clock_nanosleep; the monotonic clock is get_timer_ticks, CLOCK_REALTIME adds the boot time *)

Sleeper(f) == load = "sleep" /\ sleep.pc = f /\ UNCHANGED <<load, rtc_vars, reader_vars, date, days, hour>>

\* External: the time stamp counter goes on.
Tick ==
  /\ load = "sleep" /\ clock_ticks < MaxTicks
  /\ clock_ticks' = clock_ticks + 1
  /\ UNCHANGED <<load, rtc_vars, reader_vars, date, days, hour, sleep>>

\* The requested time t, in units of the timespec, is cut to microseconds.  What is left of an absolute
\* time is computed from the clock the caller names; if it has passed, the difference wraps.  A handle of
\* the task may be left in BLOCKED_TASKS by an earlier sys_block_current_task.
sys_clock_nanosleep ==
  /\ Sleeper("idle") /\ UNCHANGED clock_ticks
  /\ \E realtime, absolute, stale \in BOOLEAN, t \in 0 .. MaxTicks * Nanos :
       LET boot == IF realtime THEN BootTime ELSE 0
           requested == (IF absolute THEN boot * Nanos + t ELSE t) \div Nanos
       IN sleep' = [pc |-> "usleep", stale |-> stale, called |-> clock_ticks,
                    micros |-> IF absolute THEN (requested - (boot + clock_ticks)) % Micros ELSE requested,
                    deadline |-> IF absolute THEN t ELSE clock_ticks * Nanos + t]

\* usleep reads the clock again for the wakeup time: the sum wraps for a time that has passed, and is
\* then that time.  A short sleep waits in a loop on the time stamp counter, none returns at once.
usleep ==
  /\ Sleeper("usleep") /\ UNCHANGED clock_ticks
  /\ sleep' = [sleep EXCEPT !.micros = (clock_ticks + @) % Micros,
                            !.pc = IF sleep.micros >= LongSleep THEN "blocked"
                                   ELSE IF sleep.micros > 0 THEN "busy" ELSE "awake"]

\* The loop over the time stamp counter ends.
BusyWaitEnds ==
  /\ Sleeper("busy") /\ clock_ticks >= sleep.micros /\ UNCHANGED clock_ticks
  /\ sleep' = [sleep EXCEPT !.pc = "awake"]

\* The timer interrupt takes the task out of the blocked tasks; usleep returns.
handle_waiting_tasks ==
  /\ Sleeper("blocked") /\ sleep.micros < clock_ticks /\ UNCHANGED clock_ticks
  /\ sleep' = [sleep EXCEPT !.pc = "awake"]

\* sys_wakeup_task with the handle that was left: usleep does not look at the clock when it comes back.
sys_wakeup_task ==
  /\ Sleeper("blocked") /\ sleep.stale /\ UNCHANGED clock_ticks
  /\ sleep' = [sleep EXCEPT !.pc = "disturbed"]

Return == (Sleeper("awake") \/ Sleeper("disturbed")) /\ UNCHANGED clock_ticks /\ sleep' = NoSleep

-----------------------------------------------------------------------------
ClockInit ==
  /\ load \in {"rtc", "calendar", "hours", "sleep"}
  /\ time = 0 /\ regs = Digits(0) /\ uip = FALSE /\ phase = 0
  /\ clock_pc = "wait" /\ clock_index = 1 /\ first = Unread /\ second = Unread /\ began = 0 /\ result = -1
  /\ date = [day |-> 1, month |-> 1, year |-> 2000] /\ days = 10957
  /\ hour \in (IF load = "hours" THEN [h : 0 .. 23, f : Formats] ELSE {[h |-> 0, f |-> CHOOSE f \in Formats : f.h24]})
  /\ clock_ticks = 0 /\ sleep = NoSleep

ClockNext ==
  \/ UpdateBegins \/ UpdateRegister \/ UpdateEnds
  \/ wait_update \/ read_first \/ check_update \/ read_second \/ compare
  \/ Midnight
  \/ Tick \/ sys_clock_nanosleep \/ usleep \/ BusyWaitEnds \/ handle_waiting_tasks \/ sys_wakeup_task \/ Return

ClockSpec == ClockInit /\ [][ClockNext]_clock_vars

-----------------------------------------------------------------------------
ClockTypeOK ==
  /\ time \in 0 .. MaxTime /\ uip \in BOOLEAN /\ phase \in 0 .. 3
  /\ clock_pc \in {"wait", "first", "check", "second", "compare", "done"} /\ clock_index \in Registers
  /\ result \in -1 .. Base * Base * Base /\ clock_ticks \in 0 .. MaxTicks /\ sleep.micros \in Nat

\* The time read from the RTC at boot is one the clock showed during the reading, although the
\* clock goes on between the reading of two registers: never a mixture of two times.
TimeIsRead == load = "rtc" /\ clock_pc = "done" => result \in began .. time

\* The date of the registers becomes the number of days since the epoch, over month ends and leap
\* years; and the hour is the hour in every format of the register.
DateIsConverted ==
  /\ load = "calendar" => days_since_epoch(date) = days
  /\ load = "hours" => read_hour(HourRegister(hour.h, hour.f), hour.f) = hour.h

\* A sleep ends less than a microsecond before the time it was asked for, or later, on either clock,
\* relative or absolute, blocked or busy, although the clock is read once for what is left and again for
\* the wakeup time; the microsecond is lost by the cut of the nanoseconds (timer.rs:109-110).  And the
\* time it waits for lies beyond that by no more than the time between the two readings: also for an
\* absolute time that has passed, for which the code computes a negative time in a u64.  A sleep that
\* sys_wakeup_task disturbs through a handle of an earlier block is left out: usleep does not loop
\* (tasks.rs:74-91), so it may end at any time.
NoEarlyWake ==
  load = "sleep" =>
    /\ sleep.pc = "awake" => clock_ticks * Nanos > sleep.deadline - Nanos
    /\ sleep.pc = "blocked" => sleep.micros <= sleep.deadline \div Nanos + clock_ticks - sleep.called
=============================================================================

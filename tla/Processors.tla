----------------------------- MODULE Processors ------------------------------
(***************************************************************************)
(* The cores of the machine: how they start, and the messages between      *)
(* their local APICs.                                                      *)
(***************************************************************************)
EXTENDS Integers, Sequences, FiniteSets, SequencesExt

-----------------------------------------------------------------------------
(***************************************************************************)
(* Starting the cores of an x86-64 machine: the boot processor lists the   *)
(* local APIC ids of the MADT, starts one application processor after the  *)
(* other through a page of parameters and a few global variables, and all  *)
(* of them meet before the first task is spawned.                          *)
(*                                                                         *)
(* A CPU is a number; the boot processor is CPU 1 and its record comes     *)
(* first in the MADT. Every CPU of an enabled record exists and starts     *)
(* when it is asked to.                                                    *)
(***************************************************************************)
CONSTANTS Cpus,     \* the CPUs of the machine, 1 .. n
          Madts     \* the tables the firmware may provide

VARIABLES
  madt,             \* the records of the table that are still to be read
  apic_ids,         \* CPU_LOCAL_APIC_IDS; the index is the core id plus one
  smp_lock,             \* who holds its lock, 0: nobody
  ioapic,           \* IOAPIC_ADDRESS is set
  cpu_id,           \* SMP boot page: the id for the CPU that starts
  current_stack,    \* CURRENT_STACK_ADDRESS, 0: null
  cpu_online,       \* CPU_ONLINE
  framebuffer,      \* LOADER_FB_BASE and LOADER_FB_STRIDE: who wrote them
  core_counter,     \* CORE_COUNTER of synch_all_cores
  inputs,           \* SCHEDULER_INPUTS and CORE_HLT_STATE
  esi, stack, core, tss,     \* per CPU: register, stack, core_id, TSS stack
  next,             \* boot_application_processors: index and saved count
  allocated,        \* stacks allocated so far
  smp_pc

smpboot_vars == <<madt, apic_ids, smp_lock, ioapic, cpu_id, current_stack, cpu_online,
                  framebuffer, core_counter, inputs, esi, stack, core, tss, next,
                  allocated, smp_pc>>

BSP == 1
None == -1
LoaderStack == 1     \* the stack the loader jumped to _start with

SmpInit ==
  /\ madt \in Madts
  /\ apic_ids = <<>> /\ smp_lock = 0 /\ ioapic = FALSE
  /\ cpu_id = None /\ current_stack = 0 /\ cpu_online = 0
  /\ framebuffer = None /\ core_counter = 0 /\ inputs = <<>>
  /\ esi = [c \in Cpus |-> IF c = BSP THEN 0 ELSE None]
  /\ stack = [c \in Cpus |-> IF c = BSP THEN LoaderStack ELSE None]
  /\ core = [c \in Cpus |-> None] /\ tss = [c \in Cpus |-> None]
  /\ next = [index |-> 0, count |-> 0] /\ allocated = 1
  /\ smp_pc = [c \in Cpus |-> IF c = BSP THEN "_start" ELSE "off"]

goto(c, label) == smp_pc' = [smp_pc EXCEPT ![c] = label]

(* boot.s: the CPU comes out of reset and takes its id from the page.      *)
boot(c) ==
  /\ smp_pc[c] = "reset"
  /\ esi' = [esi EXCEPT ![c] = cpu_id]
  /\ goto(c, "_start")
  /\ UNCHANGED <<madt, apic_ids, smp_lock, ioapic, cpu_id, current_stack, cpu_online,
                 framebuffer, core_counter, inputs, stack, core, tss, next, allocated>>

(***************************************************************************)
(* _start: wait for the turn of this id, take the stack the previous CPU   *)
(* left and leave it as the current one, store rdx and r8 as the           *)
(* framebuffer of the loader.                                              *)
(***************************************************************************)
_start(c) ==
  /\ smp_pc[c] = "_start" /\ cpu_online = esi[c]
  /\ LET rsp == IF current_stack = 0 THEN stack[c] ELSE current_stack
     IN stack' = [stack EXCEPT ![c] = rsp] /\ current_stack' = rsp
  /\ framebuffer' = c
  /\ goto(c, "install")
  /\ UNCHANGED <<madt, apic_ids, smp_lock, ioapic, cpu_id, cpu_online, core_counter, inputs,
                 esi, core, tss, next, allocated>>

(* CoreLocal::install takes its core id from CPU_ONLINE;                   *)
(* gdt::add_current_core puts the current stack into the TSS.              *)
install(c) ==
  /\ smp_pc[c] = "install"
  /\ core' = [core EXCEPT ![c] = cpu_online]
  /\ goto(c, "gdt")
  /\ UNCHANGED <<madt, apic_ids, smp_lock, ioapic, cpu_id, current_stack, cpu_online,
                 framebuffer, core_counter, inputs, esi, stack, tss, next, allocated>>

gdt_add_current_core(c) ==
  /\ smp_pc[c] = "gdt"
  /\ tss' = [tss EXCEPT ![c] = current_stack]
  /\ goto(c, IF c = BSP THEN "detect" ELSE "scheduler")
  /\ UNCHANGED <<madt, apic_ids, smp_lock, ioapic, cpu_id, current_stack, cpu_online,
                 framebuffer, core_counter, inputs, esi, stack, core, next, allocated>>

(* detect_from_acpi, one record: an enabled CPU is added, an I/O APIC is   *)
(* set (a second one is a panic), anything else is skipped.                *)
detect_from_acpi ==
  /\ smp_pc[BSP] = "detect"
  /\ IF madt = <<>>
     THEN goto(BSP, "scheduler") /\ UNCHANGED <<madt, apic_ids, ioapic>>
     ELSE /\ madt' = Tail(madt)
          /\ LET r == Head(madt)
             IN /\ apic_ids' = IF r.type = "lapic" /\ r.enabled THEN Append(apic_ids, r.cpu)
                               ELSE apic_ids
                /\ ioapic' = (ioapic \/ r.type = "ioapic")
                /\ IF r.type = "ioapic" /\ ioapic THEN goto(BSP, "panic") ELSE UNCHANGED smp_pc
  /\ UNCHANGED <<smp_lock, cpu_id, current_stack, cpu_online, framebuffer, core_counter, inputs,
                 esi, stack, core, tss, next, allocated>>

(* scheduler::add_current_core: Vec::insert at the core id, which panics   *)
(* past the end.                                                           *)
add_current_core(c) ==
  /\ smp_pc[c] = "scheduler"
  /\ IF core[c] > Len(inputs) THEN goto(c, "panic") /\ UNCHANGED inputs
     ELSE /\ inputs' = SubSeq(inputs, 1, core[c]) \o <<c>> \o SubSeq(inputs, core[c] + 1, Len(inputs))
          /\ goto(c, "online")
  /\ UNCHANGED <<madt, apic_ids, smp_lock, ioapic, cpu_id, current_stack, cpu_online,
                 framebuffer, core_counter, esi, stack, core, tss, next, allocated>>

(* boot_next_processor: the first CPU to come here boots the others, with  *)
(* CPU_LOCAL_APIC_IDS locked.                                              *)
boot_next_processor(c) ==
  /\ smp_pc[c] = "online" /\ (cpu_online = 0 => smp_lock = 0)
  /\ cpu_online' = cpu_online + 1
  /\ IF cpu_online = 0
     THEN /\ smp_lock' = c /\ next' = [index |-> 1, count |-> 0]
          /\ goto(c, "boot")
     ELSE goto(c, "synch") /\ UNCHANGED <<smp_lock, next>>
  /\ UNCHANGED <<madt, apic_ids, ioapic, cpu_id, current_stack, framebuffer, core_counter,
                 inputs, esi, stack, core, tss, allocated>>

init_next_processor_variables ==
  /\ allocated' = allocated + 1
  /\ current_stack' = allocated + 1

(***************************************************************************)
(* boot_application_processors, one turn of the loop: the id and a fresh   *)
(* stack for the CPU, INIT and STARTUP, and then the wait for CPU_ONLINE   *)
(* to change.                                                              *)
(***************************************************************************)
boot_application_processor(c) ==
  /\ smp_pc[c] = "boot"
  /\ IF next.index > Len(apic_ids)
     THEN /\ smp_lock' = 0 /\ goto(c, "synch")
          /\ UNCHANGED <<cpu_id, next, current_stack, allocated>>
     ELSE IF next.index - 1 = core[c]
     THEN /\ next' = [next EXCEPT !.index = @ + 1]
          /\ UNCHANGED <<cpu_id, smp_pc, smp_lock, current_stack, allocated>>
     ELSE /\ cpu_id' = next.index - 1
          /\ init_next_processor_variables
          /\ next' = [next EXCEPT !.count = cpu_online]
          /\ smp_pc' = [smp_pc EXCEPT ![c] = "wait", ![apic_ids[next.index]] = "reset"]
          /\ UNCHANGED smp_lock
  /\ UNCHANGED <<madt, apic_ids, ioapic, cpu_online, framebuffer, core_counter, inputs,
                 esi, stack, core, tss>>

smp_boot_wait(c) ==
  /\ smp_pc[c] = "wait" /\ cpu_online # next.count
  /\ next' = [next EXCEPT !.index = @ + 1]
  /\ goto(c, "boot")
  /\ UNCHANGED <<madt, apic_ids, smp_lock, ioapic, cpu_id, current_stack, cpu_online,
                 framebuffer, core_counter, inputs, esi, stack, core, tss, allocated>>

(* synch_all_cores: count this CPU, read the number of CPUs under the lock,*)
(* wait until all of them are counted. Then the boot processor spawns      *)
(* initd, the others initialise their executor, and all of them schedule.  *)
synch_all_cores(c) ==
  /\ smp_pc[c] = "synch"
  /\ core_counter' = core_counter + 1
  /\ goto(c, "possible")
  /\ UNCHANGED <<madt, apic_ids, smp_lock, ioapic, cpu_id, current_stack, cpu_online,
                 framebuffer, inputs, esi, stack, core, tss, next, allocated>>

synch_wait(c) ==
  /\ \/ smp_pc[c] = "possible" /\ smp_lock = 0 /\ goto(c, "meet")
     \/ smp_pc[c] = "meet" /\ core_counter = Len(apic_ids) /\ goto(c, "run")
  /\ UNCHANGED <<madt, apic_ids, smp_lock, ioapic, cpu_id, current_stack, cpu_online, framebuffer,
                 core_counter, inputs, esi, stack, core, tss, next, allocated>>

step(c) ==
  \/ boot(c) \/ _start(c) \/ install(c) \/ gdt_add_current_core(c) \/ add_current_core(c)
  \/ boot_next_processor(c) \/ boot_application_processor(c) \/ smp_boot_wait(c)
  \/ synch_all_cores(c) \/ synch_wait(c)

SmpNext == detect_from_acpi \/ \E c \in Cpus : step(c)

SmpSpec == SmpInit /\ [][SmpNext]_smpboot_vars

-----------------------------------------------------------------------------
SmpTypeOK ==
  /\ smp_lock \in Cpus \cup {0} /\ cpu_online \in 0 .. Cardinality(Cpus)
  /\ core_counter \in 0 .. Cardinality(Cpus)
  /\ \A c \in Cpus : core[c] \in 0 .. Cardinality(Cpus) \cup {None}

Installed == {c \in Cpus : core[c] # None}

(* "The index equals the Core ID": the number a core takes from CPU_ONLINE *)
(* is the place of its APIC id in the list, which is where interrupts for  *)
(* it are sent; two cores never share a number, a stack or an inbox, and   *)
(* the TSS of a core names the stack it runs on.                           *)
CoresAreApart ==
  /\ \A c \in Cpus : smp_pc[c] # "panic" \/ ioapic
  /\ \A c, d \in Installed : c # d => core[c] # core[d] /\ stack[c] # stack[d]
  /\ \A c \in Installed : core[c] < Len(apic_ids) => apic_ids[core[c] + 1] = c
  /\ \A c \in Installed : tss[c] \in {None, stack[c]}
  /\ \A i \in DOMAIN inputs : core[inputs[i]] = i - 1

(* Nobody passes the meeting point before every listed core schedules.     *)
InitdIsLast == \A c \in Cpus : smp_pc[c] = "run" =>
  \A i \in DOMAIN apic_ids : core[apic_ids[i]] = i - 1 /\ Len(inputs) = Len(apic_ids)

(* Every listed core is in its scheduler, and the boot processor at the    *)
(* first task.                                                             *)
AllStarted ==
  smp_pc[BSP] = "panic" \/ (smp_pc[BSP] = "run" /\ \A i \in DOMAIN apic_ids : smp_pc[apic_ids[i]] = "run")

-----------------------------------------------------------------------------
(***************************************************************************)
(* The interrupt controllers of arch/x86_64/kernel/apic.rs: what the boot  *)
(* processor writes into its local APIC and into the I/O APIC, and how     *)
(* cores send each other interrupts.  In xAPIC mode a message is two       *)
(* writes, ICR2 with the destination and ICR1 with the vector, and the     *)
(* second one sends; in x2APIC mode it is one.  The list of APIC ids is    *)
(* behind CPU_LOCAL_APIC_IDS, a spin lock that does not mask interrupts.   *)
(* A core runs a stack of frames: a task, and a handler that interrupted   *)
(* it.  External: the delivery of a message, the machine.                  *)
(***************************************************************************)
CONSTANTS Cores, Boot,
          Machines,     \* [x2apic, tsc_deadline, uhyve, entries]: the processor and its I/O APIC
          MaxCalls      \* bound: messages that tasks and handlers start

VARIABLES machine,
          phase,        \* "boot" until the other cores are up
          lvt,          \* the local vector table of the boot processor: name -> vector, or Masked
          apic,         \* the local APIC is enabled; its timer counter is calibrated
          redirect,     \* the registers of the I/O APIC's table, two for an entry
          online,       \* the cores that run
          apic_lock,         \* CPU_LOCAL_APIC_IDS: <<>> or <<core, depth of the frame>>
          irq,          \* interrupt flag of a core
          frames,       \* frames of a core, the running one last
          halted,       \* the hlt flag of a core
          icr2, pend,   \* ICR2, and the message that is not yet delivered or <<>>
          issued, delivered,   \* messages of a core, as meant and as received
          calls

apic_vars == <<machine, phase, lvt, apic, redirect, online, apic_lock, irq, frames, halted, icr2, pend,
               issued, delivered, calls>>
setup_vars == <<machine, lvt, apic, redirect>>

Masked == 0
Local == {"timer", "thermal", "pmi", "lint0", "lint1", "error"}
TLB_FLUSH == 112
WAKEUP == 121
ERROR == 126

Depth(c) == Len(frames[c])
Frame(c) == Last(frames[c])
Put(c, f) == frames' = [frames EXCEPT ![c] = Append(Front(@), f)]
Push(c, f) == frames' = [frames EXCEPT ![c] = Append(@, f)]

-----------------------------------------------------------------------------
(* The boot processor sets the controllers up *)

init_local_apic ==
  /\ phase = "boot" /\ ~apic.enabled
  /\ lvt' = [n \in Local |-> IF n = "error" THEN ERROR ELSE Masked]
  /\ apic' = [apic EXCEPT !.enabled = TRUE]
  /\ UNCHANGED <<machine, phase, redirect, online, apic_lock, irq, frames, halted, icr2, pend, issued, delivered, calls>>

\* Without a TSC deadline the counter of the timer is calibrated.
calibrate_timer ==
  /\ apic.enabled /\ ~machine.tsc_deadline /\ ~apic.calibrated
  /\ apic' = [apic EXCEPT !.calibrated = TRUE]
  /\ UNCHANGED <<machine, phase, lvt, redirect, online, apic_lock, irq, frames, halted, icr2, pend, issued, delivered, calls>>

\* Two registers: the vector with the mask bit, and the destination.
ioapic_set_interrupt(regs, i, enabled) ==
  LET off == (i * 2) % 256
  IN  [regs EXCEPT ![off] = <<(32 + i) % 256, ~enabled>>, ![off + 1] = <<0, FALSE>>]

\* Everything is turned on but the interval timer and the real time clock.
init_ioapic ==
  /\ apic.enabled /\ (machine.tsc_deadline \/ apic.calibrated) /\ ~apic.routed
  /\ redirect' = IF machine.uhyve THEN redirect
                 ELSE FoldLeft(LAMBDA r, i : ioapic_set_interrupt(r, i, i \notin {0, 2}), redirect,
                               [i \in 1 .. machine.entries |-> i - 1])
  /\ apic' = [apic EXCEPT !.routed = TRUE]
  /\ irq' = [irq EXCEPT ![Boot] = TRUE]
  /\ UNCHANGED <<machine, phase, lvt, online, apic_lock, frames, halted, icr2, pend, issued, delivered, calls>>

-----------------------------------------------------------------------------
(* Calls.  A frame: op, pc, the messages left and the flag to restore.     *)

New(op, pc, todo) == [op |-> op, pc |-> pc, todo |-> todo, was |-> FALSE]
Others(c) == SetToSeq(online \ {c})

\* The other cores are woken one after the other, with the lock held and interrupts on.
boot_application_processors ==
  /\ phase = "boot" /\ apic.routed /\ frames[Boot] = <<>>
  /\ Push(Boot, New("boot", "lock",
                    FlattenSeq([i \in 1 .. Len(SetToSeq(Cores \ {Boot})) |->
                       LET d == SetToSeq(Cores \ {Boot})[i]
                       IN  <<<<d, "init">>, <<d, "deassert">>, <<d, "startup">>>>])))
  /\ UNCHANGED <<phase, setup_vars, online, apic_lock, irq, halted, icr2, pend, issued, delivered, calls>>

\* paging::map of a task: with one core there is nobody to tell.
ipi_tlb_flush(c) ==
  /\ phase = "run" /\ frames[c] = <<>> /\ calls < MaxCalls
  /\ online # {c}
  /\ Push(c, New("flush", "lock", [i \in 1 .. Len(Others(c)) |-> <<Others(c)[i], TLB_FLUSH>>]))
  /\ calls' = calls + 1
  /\ UNCHANGED <<phase, setup_vars, online, apic_lock, irq, halted, icr2, pend, issued, delivered>>

\* By a task or by a handler that interrupts it: only a core that has halted is sent a message.
wakeup_core(c, d) ==
  /\ phase = "run" /\ c # d /\ calls < MaxCalls
  /\ \/ frames[c] = <<>>
     \/ Depth(c) = 1 /\ irq[c]
  /\ halted[d]
  /\ halted' = [halted EXCEPT ![d] = FALSE]
  /\ Push(c, New("wakeup", "mask", <<<<d, WAKEUP>>>>))
  /\ calls' = calls + 1
  /\ UNCHANGED <<phase, setup_vars, online, apic_lock, irq, icr2, pend, issued, delivered>>

\* wakeup_core masks before it locks, ipi_tlb_flush after.
without_interrupts(c) ==
  /\ frames[c] # <<>> /\ Frame(c).pc = "mask"
  /\ Put(c, [Frame(c) EXCEPT !.pc = IF @ = "mask" /\ Frame(c).op = "wakeup" THEN "lock" ELSE "send", !.was = irq[c]])
  /\ irq' = [irq EXCEPT ![c] = FALSE]
  /\ UNCHANGED <<phase, setup_vars, online, apic_lock, halted, icr2, pend, issued, delivered, calls>>

Lock(c) ==
  /\ frames[c] # <<>> /\ Frame(c).pc = "lock" /\ apic_lock = <<>>
  /\ apic_lock' = <<c, Depth(c)>>
  /\ Put(c, [Frame(c) EXCEPT !.pc = IF Frame(c).op = "flush" THEN "mask" ELSE "send"])
  /\ UNCHANGED <<phase, setup_vars, online, irq, halted, icr2, pend, issued, delivered, calls>>

\* All is sent: wakeup_core unlocks and restores the flag, ipi_tlb_flush restores it first.
Sent(c) ==
  /\ frames[c] # <<>> /\ Frame(c).pc = "send" /\ Frame(c).todo = <<>>
  /\ irq' = [irq EXCEPT ![c] = IF Frame(c).op = "flush" THEN Frame(c).was ELSE @]
  /\ Put(c, [Frame(c) EXCEPT !.pc = "unlock"])
  /\ UNCHANGED <<phase, setup_vars, online, apic_lock, halted, icr2, pend, issued, delivered, calls>>

Unlock(c) ==
  /\ frames[c] # <<>> /\ Frame(c).pc = "unlock"
  /\ apic_lock' = <<>>
  /\ irq' = [irq EXCEPT ![c] = IF Frame(c).op = "wakeup" THEN Frame(c).was ELSE @]
  /\ frames' = [frames EXCEPT ![c] = Front(@)]
  /\ phase' = IF Frame(c).op = "boot" THEN "run" ELSE phase
  /\ UNCHANGED <<setup_vars, online, halted, icr2, pend, issued, delivered, calls>>

-----------------------------------------------------------------------------
(* local_apic_write of the interrupt command register *)

\* x2APIC: one write, and no delivery status.
local_apic_write_x2apic(c) ==
  /\ machine.x2apic /\ frames[c] # <<>> /\ Frame(c).pc = "send" /\ Frame(c).todo # <<>>
  /\ issued' = [issued EXCEPT ![c] = Append(@, Head(Frame(c).todo))]
  /\ delivered' = [delivered EXCEPT ![c] = Append(@, Head(Frame(c).todo))]
  /\ Put(c, [Frame(c) EXCEPT !.todo = Tail(@), !.pc = IF Frame(c).op = "boot" THEN "wait" ELSE "send"])
  /\ UNCHANGED <<phase, setup_vars, online, apic_lock, irq, halted, icr2, pend, calls>>

\* Mutant of local_apic_write_dest: the last message may still be on its way.
local_apic_write_dest_hasty(c) ==
  /\ ~machine.x2apic /\ frames[c] # <<>> /\ Frame(c).pc = "send" /\ Frame(c).todo # <<>>
  /\ icr2' = [icr2 EXCEPT ![c] = Head(Frame(c).todo)[1]]
  /\ Put(c, [Frame(c) EXCEPT !.pc = "icr1"])
  /\ UNCHANGED <<phase, setup_vars, online, apic_lock, irq, halted, pend, issued, delivered, calls>>

\* xAPIC: once the last message is delivered, the destination is written.
local_apic_write_dest(c) ==
  /\ ~machine.x2apic /\ frames[c] # <<>> /\ Frame(c).pc = "send" /\ Frame(c).todo # <<>>
  /\ pend[c] = <<>>
  /\ icr2' = [icr2 EXCEPT ![c] = Head(Frame(c).todo)[1]]
  /\ Put(c, [Frame(c) EXCEPT !.pc = "icr1"])
  /\ UNCHANGED <<phase, setup_vars, online, apic_lock, irq, halted, pend, issued, delivered, calls>>

\* The vector goes to whatever destination ICR2 holds; a message not yet delivered is lost.
local_apic_write(c) ==
  /\ frames[c] # <<>> /\ Frame(c).pc = "icr1"
  /\ pend' = [pend EXCEPT ![c] = <<icr2[c], Head(Frame(c).todo)[2]>>]
  /\ issued' = [issued EXCEPT ![c] = Append(@, Head(Frame(c).todo))]
  /\ Put(c, [Frame(c) EXCEPT !.todo = Tail(@), !.pc = IF Frame(c).op = "boot" THEN "wait" ELSE "send"])
  /\ UNCHANGED <<phase, setup_vars, online, apic_lock, irq, halted, icr2, delivered, calls>>

\* boot_application_processors waits 200 us, 10 ms, or until the core has counted itself.
apic_boot_wait ==
  /\ frames[Boot] # <<>> /\ Frame(Boot).pc = "wait"
  /\ LET m == Last(issued[Boot]) IN m[2] = "startup" => m[1] \in online
  /\ Put(Boot, [Frame(Boot) EXCEPT !.pc = "send"])
  /\ UNCHANGED <<phase, setup_vars, online, apic_lock, irq, halted, icr2, pend, issued, delivered, calls>>

Deliver(c) ==
  /\ pend[c] # <<>>
  /\ delivered' = [delivered EXCEPT ![c] = Append(@, pend[c])]
  /\ pend' = [pend EXCEPT ![c] = <<>>]
  /\ UNCHANGED <<phase, setup_vars, online, apic_lock, irq, frames, halted, icr2, issued, calls>>

\* A core that got its start-up message comes up, with interrupts on in the end.
Start(d) ==
  /\ d \notin online /\ \E i \in DOMAIN delivered[Boot] : delivered[Boot][i] = <<d, "startup">>
  /\ online' = online \cup {d} /\ irq' = [irq EXCEPT ![d] = TRUE]
  /\ UNCHANGED <<phase, setup_vars, apic_lock, frames, halted, icr2, pend, issued, delivered, calls>>

\* enable_and_wait of an idle core; any interrupt ends it, and leaves the flag as it is.
Halt(c) ==
  /\ phase = "run" /\ frames[c] = <<>> /\ ~halted[c] /\ calls < MaxCalls
  /\ halted' = [halted EXCEPT ![c] = TRUE]
  /\ UNCHANGED <<phase, setup_vars, online, apic_lock, irq, frames, icr2, pend, issued, delivered, calls>>

-----------------------------------------------------------------------------
ApicInit ==
  /\ machine \in Machines /\ phase = "boot"
  /\ lvt = [n \in Local |-> -1]
  /\ apic = [enabled |-> FALSE, calibrated |-> FALSE, routed |-> FALSE]
  /\ redirect = [r \in 0 .. 2 * machine.entries - 1 |-> <<0, TRUE>>]
  /\ online = {Boot} /\ apic_lock = <<>> /\ irq = [c \in Cores |-> FALSE]
  /\ frames = [c \in Cores |-> <<>>] /\ halted = [c \in Cores |-> FALSE]
  /\ icr2 = [c \in Cores |-> 0] /\ pend = [c \in Cores |-> <<>>]
  /\ issued = [c \in Cores |-> <<>>] /\ delivered = [c \in Cores |-> <<>>]
  /\ calls = 0

ApicNext ==
  \/ init_local_apic \/ calibrate_timer \/ init_ioapic
  \/ boot_application_processors \/ apic_boot_wait
  \/ \E c \in Cores :
       \/ ipi_tlb_flush(c) \/ \E d \in Cores : wakeup_core(c, d)
       \/ without_interrupts(c) \/ Lock(c) \/ Sent(c) \/ Unlock(c)
       \/ local_apic_write_x2apic(c) \/ local_apic_write_dest(c) \/ local_apic_write(c)
       \/ Deliver(c) \/ Start(c) \/ Halt(c)

ApicSpec == ApicInit /\ [][ApicNext]_apic_vars

-----------------------------------------------------------------------------
ApicTypeOK ==
  /\ phase \in {"boot", "run"} /\ online \subseteq Cores
  /\ \A c \in Cores : /\ Depth(c) \in 0 .. 2
                      /\ \A i \in 1 .. Depth(c) : frames[c][i].pc \in {"lock", "mask", "send", "icr1", "wait", "unlock"}
  /\ calls \in 0 .. MaxCalls

\* Every message of a core reaches the core it was meant for, in order, with its vector, also when
\* handlers send in between: the two writes of local_apic_write are never torn apart, and none is
\* sent over one that is on its way.
IpiIsDelivered == \A c \in Cores : delivered[c] \o (IF pend[c] = <<>> THEN <<>> ELSE <<pend[c]>>) = issued[c]

\* A handler that waits for CPU_LOCAL_APIC_IDS while the task it interrupted holds it waits for ever.
\* Only ipi_tlb_flush opens that window, between its lock and without_interrupts and after it.
SelfDeadlockNeedsFlush ==
  \A c \in Cores :
     Depth(c) = 2 /\ apic_lock = <<c, 1>> => frames[c][1].op = "flush" /\ frames[c][1].pc \in {"mask", "unlock"}

\* What the I/O APIC reads from its table: entry i sends vector 32 + i to the boot processor, but
\* for the interval timer and the clock, and the controller on uhyve is left alone.
RoutesAreOwn ==
  phase = "run" =>
     \A i \in 0 .. machine.entries - 1 :
        IF machine.uhyve THEN redirect[2 * i][2]
        ELSE redirect[2 * i] = <<32 + i, i \in {0, 2}>> /\ redirect[2 * i + 1] = <<0, FALSE>>
=============================================================================

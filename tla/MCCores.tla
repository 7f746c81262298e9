------------------------------- MODULE MCCores -------------------------------
(***************************************************************************)
(* The cores and what runs on them, each component on a small instance:    *)
(* the start of the cores, tasks from spawn to exit, the futex calls they  *)
(* sleep in, the system calls on one scheduler, the messages between the   *)
(* local APICs, the PCI bus and the interrupts of its devices.             *)
(***************************************************************************)
EXTENDS Parts, Sequences, TLC

CONSTANTS c1, c2, t1, t2, t3, t4, far

ThreeTasks == {t1, t2, t3}
TwoCores == {c1, c2}
\* The root task and another on the first core, one with a higher priority on the second.
HomeOf == [t \in ThreeTasks |-> IF t = t3 THEN c2 ELSE c1]
PrioOf == [t \in ThreeTasks |-> IF t = t3 THEN 2 ELSE 1]

(* SmpBoot: one to four enabled processors, disabled ones between them, an *)
(* I/O APIC first, last or twice.                                          *)
SampleMadts ==
  LET L(c, e) == [type |-> "lapic", enabled |-> e, cpu |-> c]
      IO == [type |-> "ioapic", enabled |-> TRUE, cpu |-> 0]
  IN  {<<L(1, TRUE)>> \o s :
         s \in {<<>>, <<IO>>, <<IO, IO>>, <<L(2, TRUE), IO>>, <<L(2, FALSE), L(3, TRUE)>>,
                <<IO, L(3, TRUE), L(2, TRUE)>>, <<L(2, TRUE), L(3, TRUE), L(4, TRUE)>>,
                <<L(4, TRUE), L(3, FALSE), L(2, TRUE), IO>>}}

(* LocalApic: both modes of the controller, with and without the deadline  *)
(* timer, a hypervisor's, and an I/O APIC with more entries.               *)
ApicMachines ==
  [x2apic : BOOLEAN, tsc_deadline : BOOLEAN, uhyve : {FALSE}, entries : {24}]
  \cup {[x2apic |-> TRUE, tsc_deadline |-> FALSE, uhyve |-> TRUE, entries |-> 24],
        [x2apic |-> FALSE, tsc_deadline |-> TRUE, uhyve |-> FALSE, entries |-> 40]}

(* PciBus: every layout of six places, functions of every kind a driver is *)
(* looked for, shared and unusable lines, and tables of the bus ranges.    *)
PciMachines ==
  LET F(c, p, l, b) == [class |-> c, pin |-> p, line |-> l, bar |-> b, resets |-> TRUE]
      Dead(f) == [f EXCEPT !.resets = FALSE]
      E(s, f, l) == [segment |-> s, first |-> f, last |-> l]
      Kinds == {F("other", 0, 255, "io"), F("xhci", 1, 11, "memory"), F("xhci", 0, 0, "memory"),
                F("ahci", 1, 11, "zero")}
      Nics(n) == {F(n, 1, 4, "memory"), F(n, 2, 7, "memory"), F(n, 1, 16, "memory"), F(n, 1, 5, "io"),
                  Dead(F(n, 3, 4, "memory"))}
      Layouts == UNION {[s -> {F("other", 0, 255, "io")}] :
                          s \in SUBSET {<<0,0,0>>, <<0,0,2>>, <<0,1,0>>, <<0,1,1>>, <<1,1,0>>, <<1,0,1>>}}
      Mcfgs == {<<>>, <<E(0,0,1)>>, <<E(0,0,0), E(0,1,1)>>, <<E(0,0,0), E(1,0,1)>>, <<E(0,1,1)>>}
  IN  {[functions |-> l, multi |-> m, mcfg |-> c, serial |-> 4, nic |-> "rtl8169"] :
          l \in Layouts, m \in {{}, {<<0,0>>}, {<<0,0>>, <<0,1>>, <<1,0>>}}, c \in Mcfgs}
      \cup {[functions |-> l, multi |-> {<<0,0>>}, mcfg |-> <<>>, serial |-> q, nic |-> "rtl8139"] :
          l \in [{<<0,0,0>>, <<0,0,2>>, <<1,1,0>>} -> Kinds \cup Nics("rtl8139")], q \in {-1, 4}}
      \cup {[functions |-> l, multi |-> {<<0,0>>}, mcfg |-> <<>>, serial |-> 4, nic |-> "rtl8169"] :
          l \in [{<<0,0,0>>, <<0,0,2>>} -> Kinds \cup Nics("rtl8169")]}
      \cup {[functions |-> (<<0,0,0>> :> F("xhci", 1, 254, "io")), multi |-> {}, mcfg |-> <<>>, serial |-> 4,
             nic |-> "rtl8169"]}

-----------------------------------------------------------------------------
Life == INSTANCE TaskLife WITH Cores <- TwoCores, Tasks <- ThreeTasks, Home <- HomeOf,
       Prio <- PrioOf, Root <- t1, core <- v1, due <- v2, waiting_tasks <- v3, tasks <- v4,
       no_tasks <- v5, waiting_lock <- v6, input_lock <- v7, pc <- v8, target <- v9, queue <- v10,
       parent <- v11, joined <- v12

\* A fourth task, on the first core.
FourTasks == ThreeTasks \cup {t4}
HomeOfFour == [t \in FourTasks |-> IF t = t3 THEN c2 ELSE c1]
PrioOfFour == [t \in FourTasks |-> IF t = t3 THEN 2 ELSE 1]

Life4 == INSTANCE TaskLife WITH Cores <- TwoCores, Tasks <- FourTasks, Home <- HomeOfFour,
       Prio <- PrioOfFour, Root <- t1, core <- v1, due <- v2, waiting_tasks <- v3, tasks <- v4,
       no_tasks <- v5, waiting_lock <- v6, input_lock <- v7, pc <- v8, target <- v9, queue <- v10,
       parent <- v11, joined <- v12

\* Two tasks on two cores, with and without deadlines, also with deadlines that have passed.
TwoTasks == {t1, t3}
HomeOfTwo == [t \in TwoTasks |-> HomeOf[t]]
PrioOfTwo == [t \in TwoTasks |-> PrioOf[t]]
AllTimeouts == [t \in TwoTasks |-> {"none", "before", "past"}]

Fut == INSTANCE Futex WITH Cores <- TwoCores, Tasks <- TwoTasks, Home <- HomeOfTwo,
       Prio <- PrioOfTwo, Addrs <- {1}, Values <- {0}, Timeouts <- AllTimeouts, Counts <- {1},
       MaxCalls <- 2, core <- v1, due <- v2, word <- v3, parking_lot <- v4, pc <- v5, addr <- v6,
       calls <- v7, popped <- v8, result <- v9

Calls == INSTANCE TaskCalls WITH Tasks <- {t1, t2}, Remote <- far, Prios <- {1, 2, 3},
       MaxCalls <- 4, queues <- v1, prio_bitmap <- v2, task <- v3, handle_prio <- v4,
       current_task <- v5, blocked <- v6, waiting <- v7, calls <- v8, fpu_owner <- v9, fpu <- v10,
       task_switched <- v11, loaded <- v12, panic <- v13

Smp == INSTANCE Processors WITH Cpus <- {1, 2, 3, 4}, Madts <- SampleMadts, Cores <- {1, 2, 3},
       Boot <- 1, Machines <- ApicMachines, MaxCalls <- 2, madt <- v1, apic_ids <- v2,
       smp_lock <- v3, ioapic <- v4, cpu_id <- v5, current_stack <- v6, cpu_online <- v7,
       framebuffer <- v8, core_counter <- v9, inputs <- v10, esi <- v11, stack <- v12,
       core <- v13, tss <- v14, next <- v15, allocated <- v16, smp_pc <- v17, machine <- v1,
       phase <- v2, lvt <- v3, apic <- v4, redirect <- v5, online <- v6, apic_lock <- v7,
       irq <- v8, frames <- v9, halted <- v10, icr2 <- v11, pend <- v12, issued <- v13,
       delivered <- v14, calls <- v15

Bus == INSTANCE PciBus WITH Machines <- PciMachines, MaxBus <- 1, DeviceNumbers <- 2,
       FunctionNumbers <- 3, MaxEvents <- 3, machine <- v1, phase <- v2, todo <- v3,
       PCI_DEVICES <- v4, NETWORK_DEVICE <- v5, probed <- v6, msi <- v7, handlers <- v8,
       asserted <- v9, pending <- v10, in_service <- v11, current <- v12, queue <- v13,
       called <- v14, master <- v15, events <- v16

ASSUME Life!RootAssumption /\ Life4!RootAssumption

-----------------------------------------------------------------------------
Init ==
  \/ Begin("life", 12) /\ Life!Init
  \/ Begin("futex", 9) /\ Fut!Init
  \/ Begin("calls", 13) /\ Calls!Init
  \/ Begin("smp", 17) /\ Smp!SmpInit
  \/ Begin("apic", 15) /\ Smp!ApicInit
  \/ Begin("pci", 16) /\ Bus!Init
Next ==
  \/ part = "life" /\ Life!Next /\ Keep(12)
  \/ part = "futex" /\ Fut!Next /\ Keep(9)
  \/ part = "calls" /\ Calls!Next /\ Keep(13)
  \/ part = "smp" /\ Smp!SmpNext /\ Keep(17)
  \/ part = "apic" /\ Smp!ApicNext /\ Keep(15)
  \/ part = "pci" /\ Bus!Next /\ Keep(16)
Spec == Init /\ [][Next]_vars

\* A core keeps executing its current task or its idle loop, tasks end, a core that starts goes on
\* (nothing preempts it before the scheduler runs), timers fire after a deadline has passed, time passes,
\* and the interrupts of devices are delivered and handled.
Fairness ==
  /\ \A c \in TwoCores : WF_vars(part = "life" /\ Life!Executes(c) /\ Keep(12))
  /\ \A c \in TwoCores :
       /\ WF_vars(part = "futex" /\ Fut!Executes(c) /\ Keep(9))
       /\ WF_vars(part = "futex" /\ Fut!TimerFires(c) /\ Keep(9))
  /\ \A t \in TwoTasks : WF_vars(part = "futex" /\ Fut!TimePasses(t) /\ Keep(9))
  /\ WF_vars(part = "smp" /\ Smp!detect_from_acpi /\ Keep(17))
  /\ \A c \in 1..4 : WF_vars(part = "smp" /\ Smp!step(c) /\ Keep(17))
  /\ WF_vars(part = "pci" /\ Bus!Handling /\ Keep(16))

FairSpec == Spec /\ Fairness

-----------------------------------------------------------------------------
\* Every component keeps its type invariant.
TypeOK ==
  /\ part = "life" => Life!TypeOK
  /\ part = "futex" => Fut!TypeOK
  /\ part = "calls" => Calls!TypeOK
  /\ part = "smp" => Smp!SmpTypeOK
  /\ part = "apic" => Smp!ApicTypeOK
  /\ part = "pci" => Bus!TypeOK
\* No task is lost or counted wrongly by its core: spawn, join and exit never meet a panic, NO_TASKS is
\* the number of tasks alive, who sleeps in join can be woken and who returns from it finds the task
\* over, a ready task is in the list of its priority once and the bitmap names that list, the
\* registers of the FPU are the running task's, and sys_wakeup_task, which panics over a task that is
\* not blocked, meets one only after a timeout or between the entry in BLOCKED_TASKS and the blocking.
TasksAreKept ==
  /\ part = "life" => Life!NoPanic /\ Life!TaskCount /\ Life!JoinerIsReachable /\ Life!JoinedIsOver
  /\ part = "calls" => Calls!ReadyQueueIsExact /\ Calls!RegistersAreOwn /\ Calls!HandleIsOfBlocked

\* A core is what the others take it for: its number, stack and inbox are its own and it schedules before
\* anybody counts on it; its messages arrive in order and whole, though handlers send in between, and
\* the one way to wait for oneself for ever is ipi_tlb_flush.
CoresAreReached ==
  /\ part = "smp" => Smp!CoresAreApart /\ Smp!InitdIsLast
  /\ part = "apic" => Smp!IpiIsDelivered /\ Smp!SelfDeadlockNeedsFlush

\* Interrupts find their handlers: the scan of the bus misses no function, the I/O APIC sends each line on
\* its vector, and every device of a shared line that has a handler is asked before the interrupt is
\* ended, which it is.
InterruptsAreRouted ==
  /\ part = "pci" => Bus!ScanIsComplete /\ Bus!NothingStaysInService
  /\ part = "apic" => Smp!RoutesAreOwn

\* What must be handled, up to four in a component: a join of the root task or of the one on the other
\* core, a spawned task of either core that is not freed, a wake-up that a futex_wake counted, a
\* futex_wait with a deadline.
Pending(i) ==
  \/ part = "life" /\ i = 1 /\ Life!Joining(t1)
  \/ part = "life" /\ i = 2 /\ Life!Joining(t3)
  \/ part = "life" /\ i = 3 /\ Life!Unfreed(t2)
  \/ part = "life" /\ i = 4 /\ Life!Unfreed(t3)
  \/ part = "futex" /\ i = 1 /\ Fut!WakeOnItsWay(t1)
  \/ part = "futex" /\ i = 2 /\ Fut!WakeOnItsWay(t3)
  \/ part = "futex" /\ i = 3 /\ Fut!InTimedWait(t1)
  \/ part = "futex" /\ i = 4 /\ Fut!InTimedWait(t3)
  \/ part = "smp" /\ i = 1 /\ ~Smp!AllStarted
  \/ part = "pci" /\ i = 1 /\ Bus!SerialWaits

\* What is asked of the cores happens: a join returns once the task exits, the memory of a spawned task is
\* freed, a waiter that futex_wake counted returns and a wait with a deadline ends, unless the kernel panics
\* first and although no wake-up interrupt need arrive, every listed core starts, and the serial line is served.
EventsAreHandled == \A i \in 1..4 : Pending(i) ~> ~Pending(i)

-----------------------------------------------------------------------------
\* TaskLife with four tasks alone; a core keeps executing its current task or its idle loop.
LifeSpec ==
  /\ Begin("life4", 12) /\ Life4!Init /\ [][part = "life4" /\ Life4!Next /\ Keep(12)]_vars
  /\ \A c \in TwoCores : WF_vars(part = "life4" /\ Life4!Executes(c) /\ Keep(12))

\* exit gets through "wakeup tasks, which are waiting for task with the identifier id" (mod.rs:200).
WaitersAreWoken == \A t \in FourTasks : Life4!Waking(t) ~> ~Life4!Waking(t)
=============================================================================

------------------------------- MODULE PciBus -------------------------------
(***************************************************************************)
(* The PCI bus and the interrupts of its devices: the scan of              *)
(* arch/x86_64/kernel/pci.rs, the drivers of drivers/pci.rs, and the       *)
(* dispatch of arch/x86_64/kernel/interrupts.rs and pic.rs.                *)
(*                                                                         *)
(* A machine is a record: functions, which addresses <<bus, device,        *)
(* function>> answer and what they are; multi, the devices whose header    *)
(* has the multi-function bit; mcfg, the entries of the MCFG table; nic,   *)
(* the one network driver that is built in; serial, the line of the serial *)
(* port or None.                                                           *)
(***************************************************************************)
EXTENDS Integers, Sequences, FiniteSets, SequencesExt, FiniteSetsExt

CONSTANTS Machines,
          MaxBus,            \* bound: the last bus, 255 in the code
          DeviceNumbers,     \* PCI_MAX_DEVICE_NUMBER
          FunctionNumbers,   \* 8 in the code
          MaxEvents          \* bound: interrupts

VARIABLES machine, phase,
          todo,              \* the <<entry, bus, device>> still to scan
          PCI_DEVICES,
          probed,            \* what init has probed, in order
          NETWORK_DEVICE,    \* the adapter that has a driver, or NoDevice
          msi,               \* devices that init has given a vector of their own
          handlers,          \* IRQ_HANDLERS: irq -> sequence of devices
          asserted,          \* devices that want attention
          pending, in_service,   \* the local APIC: requested and in-service vectors
          current, queue,    \* the vector being handled and the handlers left
          called, master,    \* the handlers that ran; the master PIC has a spurious request in service
          events

pcibus_vars == <<machine, phase, todo, PCI_DEVICES, NETWORK_DEVICE, probed, msi, handlers, asserted, pending, in_service,
                 current, queue, called, master, events>>
bus_vars == <<machine, todo, PCI_DEVICES, NETWORK_DEVICE, probed, msi, handlers>>
irq_vars == <<asserted, pending, in_service, current, queue, called, master, events>>

Present == DOMAIN machine.functions

-----------------------------------------------------------------------------
(* The scan *)

Buses(first, last) ==
  [i \in 1 .. (last - first + 1) * DeviceNumbers |->
     <<first + ((i - 1) \div DeviceNumbers), (i - 1) % DeviceNumbers>>]

\* init: the buses of the MCFG entries, or all of them the old way; an entry of another segment
\* fails the assertion of McfgEntry::read, for the addresses are all of segment 0.
init_pcie ==
  /\ phase = "start"
  /\ LET m == machine.mcfg
         bad == {i \in DOMAIN m : m[i].segment # 0}
         upto == IF bad = {} THEN Len(m) ELSE Min(bad) - 1
     IN /\ phase' = IF bad # {} THEN "panicked" ELSE "scan"
        /\ todo' = IF m = <<>> THEN Buses(0, MaxBus)
                   ELSE FlattenSeq([i \in 1 .. upto |-> Buses(m[i].first, m[i].last)])
  /\ UNCHANGED <<machine, PCI_DEVICES, NETWORK_DEVICE, probed, msi, handlers, irq_vars>>

\* Function 0, and the others if its header says that there are others.
Functions(b, d) ==
  IF <<b, d, 0>> \notin Present THEN <<>>
  ELSE IF <<b, d>> \notin machine.multi THEN <<<<b, d, 0>>>>
  ELSE SelectSeq([f \in 1 .. FunctionNumbers |-> <<b, d, f - 1>>], LAMBDA a : a \in Present)

scan_bus ==
  /\ phase = "scan"
  /\ IF todo = <<>> THEN phase' = "drivers" /\ UNCHANGED <<todo, PCI_DEVICES>>
     ELSE /\ PCI_DEVICES' = PCI_DEVICES \o Functions(Head(todo)[1], Head(todo)[2])
          /\ todo' = Tail(todo) /\ UNCHANGED phase
  /\ UNCHANGED <<machine, NETWORK_DEVICE, probed, msi, handlers, irq_vars>>

-----------------------------------------------------------------------------
(* The drivers *)

Kind(a) == machine.functions[a].class
Line(a) == machine.functions[a].line

\* get_irq: no pin, a reserved pin, a reserved line or no line; the range of the code ends before 254
get_irq(a) ==
  IF machine.functions[a].pin \notin 1 .. 4 \/ Line(a) \in 16 .. 253 \/ Line(a) = 255 THEN -1 ELSE Line(a)

\* memory_map_bar: memory, and with an address
memory_map_bar(a) == machine.functions[a].bar = "memory"

Vector(irq) == irq + 32
MsiIrq == 224 - 32

None == -1
NoDevice == <<>>
Serial == <<"serial">>

\* init_device of the RTL8169 and the RTL8139: an adapter without an interrupt is an error of the one
\* and stops the kernel in the other; then the registers must be in memory and the reset succeed.
nic_panics(a) == machine.nic = "rtl8139" /\ get_irq(a) = None
init_nic(a) == get_irq(a) # None /\ memory_map_bar(a) /\ machine.functions[a].resets

\* init: the network adapters, of which the last that starts is kept, AHCI, then xHCI, each in the
\* order of the scan.  An xHCI controller whose BAR0 is not memory stops the kernel; one without a line
\* is given a vector.  Nothing calls register_driver, so PCI_DRIVERS stays empty.
init ==
  /\ phase = "drivers"
  /\ LET Of(kind) == SelectSeq(PCI_DEVICES, LAMBDA a : Kind(a) = kind)
         nics == SelectSeq(Of(machine.nic), init_nic)
     IN /\ probed' = Of(machine.nic) \o Of("ahci") \o Of("xhci")
        /\ NETWORK_DEVICE' = IF nics = <<>> THEN NoDevice ELSE Last(nics)
        /\ msi' = {a \in Range(Of("xhci")) : get_irq(a) = None}
        /\ phase' = IF \/ \E a \in Range(Of(machine.nic)) : nic_panics(a)
                       \/ \E a \in Range(Of("xhci")) : ~memory_map_bar(a)
                    THEN "panicked" ELSE "install"
  /\ UNCHANGED <<machine, todo, PCI_DEVICES, handlers, irq_vars>>

Irq(a) == IF a \in msi THEN MsiIrq ELSE IF a = Serial THEN machine.serial ELSE get_irq(a)

\* get_interrupt_handlers and install_handlers: a queue for every interrupt, first the serial port's
\* handler, if the port is there, then the network's.
install_handlers ==
  /\ phase = "install"
  /\ LET all == (IF machine.serial = None THEN <<>> ELSE <<Serial>>)
                \o (IF NETWORK_DEVICE = NoDevice THEN <<>> ELSE <<NETWORK_DEVICE>>)
     IN handlers' = [q \in {Irq(a) : a \in Range(all)} |-> SelectSeq(all, LAMBDA a : Irq(a) = q)]
  /\ phase' = "running"
  /\ UNCHANGED <<machine, todo, PCI_DEVICES, NETWORK_DEVICE, probed, msi, irq_vars>>

-----------------------------------------------------------------------------
(* Interrupts.  External: the devices, the I/O APIC and the local APIC,     *)
(* which holds back a vector of the class of one in service or below.       *)

\* The RTL8169 is started with its interrupts masked.
Sources ==
  msi \cup (IF machine.serial = None THEN {} ELSE {Serial})
      \cup (IF NETWORK_DEVICE = NoDevice \/ machine.nic = "rtl8169" THEN {} ELSE {NETWORK_DEVICE})

Raise(a) ==
  /\ phase = "running" /\ a \in Sources \ asserted /\ events < MaxEvents
  /\ asserted' = asserted \cup {a} /\ pending' = pending \cup {Vector(Irq(a))} /\ events' = events + 1
  /\ UNCHANGED <<bus_vars, phase, in_service, current, queue, called, master>>

Class(v) == v \div 16

Deliver(v) ==
  /\ phase = "running" /\ current = 0 /\ v \in pending
  /\ \A w \in in_service : Class(w) < Class(v)
  /\ pending' = pending \ {v} /\ in_service' = in_service \cup {v}
  /\ current' = v /\ called' = {}
  /\ queue' = IF v - 32 \in DOMAIN handlers THEN handlers[v - 32] ELSE <<>>
  /\ UNCHANGED <<bus_vars, phase, asserted, master, events>>

\* External: a spurious request of a PIC reaches the processor without the local APIC's books; one of the
\* slave leaves the master with a request in service.
Spurious(v) ==
  /\ phase = "running" /\ current = 0 /\ events < MaxEvents
  /\ current' = v /\ queue' = IF v - 32 \in DOMAIN handlers THEN handlers[v - 32] ELSE <<>>
  /\ called' = {} /\ master' = (master \/ v = 47) /\ events' = events + 1
  /\ UNCHANGED <<bus_vars, phase, asserted, pending, in_service>>

\* Mutant of handle_interrupt: the first handler of the queue alone is called.
handle_interrupt_first ==
  /\ current # 0 /\ queue # <<>>
  /\ asserted' = asserted \ ({Serial} \cap {Head(queue)})
  /\ queue' = <<>> /\ called' = called \cup {Head(queue)}
  /\ UNCHANGED <<bus_vars, phase, pending, in_service, current, master, events>>

\* handle_interrupt: every handler of the queue is called.  The serial port takes its request back;
\* network_handler asks the driver only when the network task runs, whose start is commented out.
handle_interrupt ==
  /\ current # 0 /\ queue # <<>>
  /\ asserted' = asserted \ ({Serial} \cap {Head(queue)})
  /\ queue' = Tail(queue) /\ called' = called \cup {Head(queue)}
  /\ UNCHANGED <<bus_vars, phase, pending, in_service, current, master, events>>

\* The end: an unhandled 39 or 47 is taken for a spurious one; otherwise the local APIC drops its highest
\* vector in service, and the executor and the scheduler run.
end_of_interrupt ==
  /\ current # 0 /\ queue = <<>>
  /\ in_service' = IF current \in {39, 47} /\ called = {} THEN in_service ELSE in_service \ {Max(in_service \cup {0})}
  /\ current' = 0
  /\ UNCHANGED <<bus_vars, phase, asserted, pending, queue, called, master, events>>

-----------------------------------------------------------------------------
Init ==
  /\ machine \in Machines /\ phase = "start"
  /\ todo = <<>> /\ PCI_DEVICES = <<>> /\ NETWORK_DEVICE = NoDevice /\ probed = <<>> /\ msi = {} /\ handlers = <<>>
  /\ asserted = {} /\ pending = {} /\ in_service = {} /\ current = 0 /\ queue = <<>>
  /\ called = {} /\ master = FALSE /\ events = 0

Next ==
  \/ init_pcie \/ scan_bus \/ init \/ install_handlers
  \/ \E a \in Sources : Raise(a)
  \/ \E v \in pending : Deliver(v)
  \/ \E v \in {39, 47} : Spurious(v)
  \/ handle_interrupt \/ end_of_interrupt

Handling == handle_interrupt \/ end_of_interrupt \/ \E v \in pending : Deliver(v)
Spec == Init /\ [][Next]_pcibus_vars

-----------------------------------------------------------------------------
TypeOK ==
  /\ phase \in {"start", "scan", "drivers", "install", "running", "panicked"}
  /\ Range(PCI_DEVICES) \subseteq Present /\ NETWORK_DEVICE \in Present \cup {NoDevice}
  /\ asserted \subseteq Sources
  /\ current \in 0 .. 255 /\ in_service \subseteq 0 .. 255 /\ events \in 0 .. MaxEvents

\* The scan finds every function behind a bus it may look at, once, and nothing else: those of a
\* device whose function 0 answers, beyond 0 if the device says it has several.
Reachable(a) ==
  /\ <<a[1], a[2], 0>> \in Present /\ (a[3] # 0 => <<a[1], a[2]>> \in machine.multi)
  /\ machine.mcfg = <<>> \/ \E e \in Range(machine.mcfg) : a[1] \in e.first .. e.last

ScanIsComplete ==
  phase \in {"drivers", "install", "running"} =>
     /\ Range(PCI_DEVICES) = {a \in Present : Reachable(a)}
     /\ Len(PCI_DEVICES) = Cardinality(Range(PCI_DEVICES))

\* Every device whose request on a shared line is at hand is asked before the interrupt is ended, if
\* it has a handler, and no vector stays in service once nothing is handled: the next request is not
\* held back.  (A request of a device on line 7 or 15 is one of the devices that are asked.)
NothingStaysInService ==
  /\ current = 0 => in_service = {}
  /\ current # 0 /\ queue = <<>> /\ current \in in_service =>
       \A a \in asserted \ msi : Vector(Irq(a)) # current \/ a \in called \/ current \in pending

\* The serial line asks for attention.
SerialWaits == Serial \in asserted
==============================================================================

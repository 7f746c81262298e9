----------------------------- MODULE UsbDevices ------------------------------
(***************************************************************************)
(* USB devices: their enumeration by usb-oxide, and the two parsers of     *)
(* their configuration descriptors.                                        *)
(***************************************************************************)
EXTENDS Integers, Sequences, FiniteSets, SequencesExt

-----------------------------------------------------------------------------
(***************************************************************************)
(* How the USB task brings up the controller and looks for a mass storage  *)
(* device (usb-oxide/src/xhci.rs, dev.rs, msc.rs; kernel/src/drivers/usb/  *)
(* xhci.rs): every connected port gets a slot, contexts and a ring, is     *)
(* addressed and asked for its configuration; a device that is no stick is *)
(* dropped, and the loop starts over.  Any command or transfer may fail,   *)
(* and frames may run out.  PhysMem frees nothing when it is dropped: what *)
(* is not freed explicitly is lost.                                        *)
(*                                                                         *)
(* Only what the driver holds and what the controller may still write to   *)
(* is kept: per slot, whether it is enabled and whether its contexts and   *)
(* rings are live.                                                         *)
(***************************************************************************)
CONSTANTS
    Ports,      \* root ports, in the order of the loop: 0 .. n
    Slots,      \* device slots of the controller
    Frames,     \* frames the device allocator has
    Retries     \* CONFIG_DESCRIPTOR_RETRIES

VARIABLES
    enum_pc, port,
    kind,       \* what is on each port: "none", "stick", "other"
    slot,       \* the slot of the UsbDevice being built or held, 0 for none
    enabled,    \* slots the controller has enabled
    undisabled, \* slots whose DISABLE_SLOT failed
    contexts,   \* frames of the contexts of each slot that are allocated
    rings,      \* frames of the rings of each slot that are allocated
    targets,    \* frames the controller may use, by slot
    free,       \* free frames
    cycle, attempt,
    msc_found

enum_vars == <<enum_pc, port, kind, slot, enabled, undisabled, contexts, rings, targets, free, cycle,
               attempt, msc_found>>

TypeOK ==
    /\ enum_pc \in {"init", "loop", "slot", "reset", "alloc", "address", "short", "full",
                    "configure", "endpoint in", "endpoint out", "found", "disable", "rings",
                    "panic", "idle"}
    /\ port \in Ports \cup {Cardinality(Ports)}
    /\ slot \in Slots \cup {0}
    /\ undisabled \subseteq enabled /\ enabled \subseteq Slots
    /\ free \in 0 .. Frames
    /\ {cycle, attempt} \subseteq 0 .. Retries

EnumInit ==
    /\ enum_pc = "init"
    /\ port = 0
    /\ kind \in [Ports -> {"none", "stick", "other"}]
    /\ slot = 0
    /\ enabled = {}
    /\ undisabled = {}
    /\ contexts = [s \in Slots |-> 0]
    /\ rings = [s \in Slots |-> 0]
    /\ targets = [s \in Slots |-> 0]
    /\ free = Frames
    /\ cycle = 0
    /\ attempt = 0
    /\ msc_found = FALSE

-----------------------------------------------------------------------------
\* XhciCtrl::new and init: halting, reset, "not ready" and the start are each
\* waited for a bounded time; the kernel panics when one of them fails.  With a
\* model already loaded the search is never begun.
init ==
    /\ enum_pc = "init"
    /\ enum_pc' \in {"loop", "panic", "idle"}
    /\ UNCHANGED <<port, kind, slot, enabled, undisabled, contexts, rings, targets, free,
                   cycle, attempt, msc_found>>

NextPort == port' = (port + 1) % Cardinality(Ports)

\* Each pass begins with a look whether the disk has brought a model.
model_available ==
    /\ enum_pc = "loop"
    /\ port = 0
    /\ enum_pc' = "idle"
    /\ msc_found' = TRUE
    /\ UNCHANGED <<port, kind, slot, enabled, undisabled, contexts, rings, targets, free,
                   cycle, attempt>>

skip_port ==
    /\ enum_pc = "loop"
    /\ kind[port] = "none"
    /\ NextPort
    /\ UNCHANGED <<enum_pc, kind, slot, enabled, undisabled, contexts, rings, targets, free,
                   cycle, attempt, msc_found>>

\* A stick is plugged in while the loop is at another port.
plug ==
    /\ enum_pc = "loop"
    /\ \E p \in Ports \ {port} :
          /\ kind[p] = "none"
          /\ kind' = [kind EXCEPT ![p] = "stick"]
    /\ UNCHANGED <<enum_pc, port, slot, enabled, undisabled, contexts, rings, targets, free,
                   cycle, attempt, msc_found>>

\* The device is gone: back to the loop, which ends for good once a stick was
\* found.  When UsbDevice::new failed, what it had is lost.
GiveUp ==
    /\ enum_pc' = IF msc_found THEN "idle" ELSE "loop"
    /\ slot' = 0
    /\ NextPort

enable_slot ==
    /\ enum_pc = "loop"
    /\ kind[port] # "none"
    /\ \/ /\ \E s \in Slots \ enabled :
                /\ slot' = s
                /\ enabled' = enabled \cup {s}
                /\ contexts' = [contexts EXCEPT ![s] = 0]
                /\ rings' = [rings EXCEPT ![s] = 0]
                /\ targets' = [targets EXCEPT ![s] = 0]
          /\ enum_pc' = "reset"
          /\ UNCHANGED port
       \/ GiveUp /\ UNCHANGED <<enabled, contexts, rings, targets>>
    /\ UNCHANGED <<kind, undisabled, free, cycle, attempt, msc_found>>

\* A SuperSpeed port is not reset; a reset that does not end is an error.
reset_port ==
    /\ enum_pc = "reset"
    /\ \/ enum_pc' = "alloc" /\ UNCHANGED <<slot, port>>
       \/ GiveUp
    /\ UNCHANGED <<kind, enabled, undisabled, contexts, rings, targets, free, cycle,
                   attempt, msc_found>>

\* Two contexts and the ring of endpoint 0; some may be had and not all.
alloc_contexts ==
    /\ enum_pc = "alloc"
    /\ IF free >= 3
       THEN /\ free' = free - 3
            /\ contexts' = [contexts EXCEPT ![slot] = 2]
            /\ rings' = [rings EXCEPT ![slot] = 1]
            /\ enum_pc' = "address"
            /\ UNCHANGED <<slot, port>>
       ELSE /\ free' = 0
            /\ contexts' = [contexts EXCEPT ![slot] = free]
            /\ UNCHANGED rings
            /\ GiveUp
    /\ UNCHANGED <<kind, enabled, undisabled, targets, cycle, attempt, msc_found>>

\* From here on the controller knows the contexts and the ring.
address_device ==
    /\ enum_pc = "address"
    /\ targets' = [targets EXCEPT ![slot] = 1]
    /\ \/ enum_pc' = "short" /\ cycle' = 1 /\ attempt' = 1 /\ UNCHANGED <<slot, port>>
       \/ GiveUp /\ UNCHANGED <<cycle, attempt>>
    /\ UNCHANGED <<kind, enabled, undisabled, contexts, rings, free, msc_found>>

-----------------------------------------------------------------------------
(* get_config_descriptor: nine bytes, then all of them; a stall is retried *)
(* within the fetch, a short or odd answer from the start.                 *)

NextCycle ==
    IF cycle < Retries
    THEN enum_pc' = "short" /\ cycle' = cycle + 1 /\ attempt' = 1
    ELSE enum_pc' = "disable" /\ UNCHANGED <<cycle, attempt>>

fetch ==
    /\ enum_pc \in {"short", "full"}
    /\ \/ /\ enum_pc' = IF enum_pc = "short" THEN "full" ELSE "configure"  \* complete
          /\ attempt' = 1
          /\ UNCHANGED cycle
       \/ NextCycle                                              \* short or odd
       \/ /\ attempt < Retries                                   \* stalled
          /\ attempt' = attempt + 1
          /\ UNCHANGED <<enum_pc, cycle>>
       \/ enum_pc' = "disable" /\ UNCHANGED <<cycle, attempt>>        \* an error
    /\ UNCHANGED <<port, kind, slot, enabled, undisabled, contexts, rings, targets, free,
                   msc_found>>

\* MscDevice::new: the interface decides, then SET_CONFIGURATION.
configure ==
    /\ enum_pc = "configure"
    /\ \/ kind[port] = "stick" /\ enum_pc' = "endpoint in"
       \/ enum_pc' = "disable"
    /\ UNCHANGED <<port, kind, slot, enabled, undisabled, contexts, rings, targets, free,
                   cycle, attempt, msc_found>>

\* configure_endpoint keeps the ring before it tells the controller.
configure_endpoint ==
    /\ enum_pc \in {"endpoint in", "endpoint out"}
    /\ IF free = 0
       THEN enum_pc' = "disable" /\ UNCHANGED <<free, rings, targets>>
       ELSE /\ free' = free - 1
            /\ rings' = [rings EXCEPT ![slot] = @ + 1]
            /\ targets' = [targets EXCEPT ![slot] = @ + 1]
            /\ enum_pc' \in {IF enum_pc = "endpoint in" THEN "endpoint out" ELSE "found", "disable"}
    /\ UNCHANGED <<port, kind, slot, enabled, undisabled, contexts, cycle, attempt, msc_found>>

\* The ingestion (UsbIngest); whatever becomes of it, no other device is tried
\* and this one is dropped.
found ==
    /\ enum_pc = "found"
    /\ msc_found' = TRUE
    /\ enum_pc' = "disable"
    /\ UNCHANGED <<port, kind, slot, enabled, undisabled, contexts, rings, targets,
                   free, cycle, attempt>>

-----------------------------------------------------------------------------
(* Drop for UsbDevice.                                                     *)

\* Mutant: the rings are freed first.
disable_slot_last ==
    /\ enum_pc = "disable"
    /\ free' = free + rings[slot]
    /\ rings' = [rings EXCEPT ![slot] = 0]
    /\ enum_pc' = "rings"
    /\ UNCHANGED <<port, kind, slot, enabled, undisabled, contexts, targets, cycle, attempt,
                   msc_found>>

\* The result of DISABLE_SLOT is ignored.
disable_slot ==
    /\ enum_pc = "disable"
    /\ \/ enabled' = enabled \ {slot} /\ UNCHANGED undisabled
       \/ undisabled' = undisabled \cup {slot} /\ UNCHANGED enabled
    /\ enum_pc' = "rings"
    /\ UNCHANGED <<port, kind, slot, contexts, rings, targets, free, cycle, attempt,
                   msc_found>>

\* The endpoint rings are freed; the ring of endpoint 0 is replaced by a new
\* one, which must be had and is lost.  The contexts are never freed.
free_rings ==
    /\ enum_pc = "rings"
    /\ LET others == rings[slot] - 1
       IN  IF free + others = 0
           THEN enum_pc' = "panic" /\ UNCHANGED <<free, rings, slot, port>>
           ELSE /\ free' = free + others
                /\ rings' = [rings EXCEPT ![slot] = 0]
                /\ GiveUp
    /\ UNCHANGED <<kind, enabled, undisabled, contexts, targets, cycle, attempt, msc_found>>

EnumNext ==
    \/ init \/ model_available \/ skip_port \/ plug \/ enable_slot \/ reset_port \/ alloc_contexts
    \/ address_device \/ fetch \/ configure \/ configure_endpoint \/ found
    \/ disable_slot \/ free_rings

EnumSpec == EnumInit /\ [][EnumNext]_enum_vars

-----------------------------------------------------------------------------
\* The controller never holds the address of memory that was given back: the
\* contexts of a slot live as long as it is enabled, also when its device
\* was abandoned half way, and so do its rings, except when the controller
\* refused to disable the slot.
DmaTargetsLive ==
    \A s \in enabled : targets[s] > 0 =>
        /\ contexts[s] = 2
        /\ s \notin undisabled => rings[s] >= targets[s]

-----------------------------------------------------------------------------
(***************************************************************************)
(* The parsers of a configuration descriptor: MscDevice::new and           *)
(* find_msc_interfaces (usb-oxide/src/msc.rs), find_hid_interfaces         *)
(* (hid.rs).                                                               *)
(*                                                                         *)
(* A configuration is its sequence of descriptors.  An interface has a     *)
(* class and a protocol, an endpoint a transfer type and a direction;      *)
(* "short" marks one whose length is below that of its structure, "torn"   *)
(* one that reaches past the end of the data.                              *)
(***************************************************************************)
CONSTANT Configs     \* the configurations to parse

VARIABLES config, descriptor_pc, msc, msc_interfaces, hid_interfaces

descriptor_vars == <<config, descriptor_pc, msc, msc_interfaces, hid_interfaces>>

None == [kind |-> "none", n |-> 0]

IsInterface(d) == d.kind = "interface"
IsEndpoint(d) == d.kind = "endpoint"
Bulk(d) == d.type = "bulk"

\* Both parsers stop at the first descriptor that does not fit.
Readable(c) ==
    LET torn == {i \in DOMAIN c : c[i].fit = "torn"}
    IN  IF torn = {} THEN c
        ELSE SubSeq(c, 1, (CHOOSE i \in torn : \A j \in torn : i <= j) - 1)

Begin == [iface |-> None, in |-> None, out |-> None, result |-> <<>>, stop |-> FALSE,
          error |-> FALSE]

Complete(s) == s.iface # None /\ s.in # None /\ s.out # None

WithEndpoint(s, d) ==
    IF ~Bulk(d) THEN s
    ELSE IF d.in THEN [s EXCEPT !.in = d] ELSE [s EXCEPT !.out = d]

-----------------------------------------------------------------------------
(* MscDevice::new                                                          *)

\* A complete interface ends the scan at the next one; a descriptor below its
\* structure's length is an error.
MscStep(s, d) ==
    CASE s.stop \/ s.error -> s
      [] IsInterface(d) ->
            IF Complete(s) THEN [s EXCEPT !.stop = TRUE]
            ELSE IF d.fit = "short" THEN [s EXCEPT !.error = TRUE]
            ELSE IF d.class = "msc"
                 THEN [s EXCEPT !.iface = d, !.in = None, !.out = None]
                 ELSE [s EXCEPT !.iface = None]
      [] IsEndpoint(d) /\ s.iface # None ->
            IF d.fit = "short" THEN [s EXCEPT !.error = TRUE] ELSE WithEndpoint(s, d)
      [] OTHER -> s

MscDevice_new(c) ==
    LET s == FoldLeft(MscStep, Begin, Readable(c))
    IN  IF ~s.error /\ Complete(s) THEN <<s.iface.n, s.in.n, s.out.n>> ELSE <<>>

(* find_msc_interfaces                                                     *)

Push(s) == IF Complete(s) THEN Append(s.result, <<s.iface.n, s.in.n, s.out.n>>) ELSE s.result

FindMscStep(s, d) ==
    CASE IsInterface(d) /\ d.fit # "short" ->
            IF d.class = "msc" /\ d.protocol = "bbb"
            THEN [s EXCEPT !.result = Push(s), !.iface = d, !.in = None, !.out = None]
            ELSE [s EXCEPT !.result = Push(s), !.iface = None]
      [] IsEndpoint(d) /\ d.fit # "short" /\ s.iface # None -> WithEndpoint(s, d)
      [] OTHER -> s

find_msc_interfaces(c) == Push(FoldLeft(FindMscStep, Begin, Readable(c)))

(* find_hid_interfaces                                                     *)

FindHidStep(s, d) ==
    CASE IsInterface(d) /\ d.fit # "short" ->
            [s EXCEPT !.iface = IF d.class = "hid" THEN d ELSE None]
      [] IsEndpoint(d) /\ d.fit # "short" /\ s.iface # None /\ d.in /\ d.type = "interrupt" ->
            [s EXCEPT !.result = Append(@, <<s.iface.n, d.n>>), !.iface = None]
      [] OTHER -> s

find_hid_interfaces(c) == FoldLeft(FindHidStep, Begin, Readable(c)).result

-----------------------------------------------------------------------------
DescriptorInit ==
    /\ config \in Configs
    /\ descriptor_pc = "parse"
    /\ msc = <<>> /\ msc_interfaces = <<>> /\ hid_interfaces = <<>>

parse ==
    /\ descriptor_pc = "parse"
    /\ descriptor_pc' = "done"
    /\ msc' = MscDevice_new(config)
    /\ msc_interfaces' = find_msc_interfaces(config)
    /\ hid_interfaces' = find_hid_interfaces(config)
    /\ UNCHANGED config

DescriptorNext == parse

DescriptorSpec == DescriptorInit /\ [][DescriptorNext]_descriptor_vars

-----------------------------------------------------------------------------
(* The reference: what belongs to an interface is what follows it, up to   *)
(* the next interface.                                                     *)

Own(c, i) == {j \in i + 1 .. Len(c) : IsEndpoint(c[j]) /\ \A k \in i + 1 .. j : ~IsInterface(c[k])}

LastOf(c, S) == c[CHOOSE j \in S : \A k \in S : k <= j].n

BulkIn(c, i) == {j \in Own(c, i) : Bulk(c[j]) /\ c[j].in}
BulkOut(c, i) == {j \in Own(c, i) : Bulk(c[j]) /\ ~c[j].in}

MscAt(c) == {i \in DOMAIN c : /\ IsInterface(c[i]) /\ c[i].class = "msc"
                              /\ BulkIn(c, i) # {} /\ BulkOut(c, i) # {}}

\* The stick is driven through an interface of the mass storage class and
\* through two bulk endpoints of that very interface, and the first such
\* interface is found if there is one; the list of all interfaces agrees with
\* it when every mass storage interface is bulk-only.
ParsersAgree ==
    descriptor_pc = "done" =>
                   LET c     == Readable(config)
                       whole == \A i \in DOMAIN c : c[i].fit = "whole"
                       bbb   == \A i \in DOMAIN c : IsInterface(c[i]) => c[i].protocol = "bbb"
                       at    == MscAt(c)
                       first == CHOOSE i \in at : \A j \in at : i <= j
                   IN  /\ msc # <<>> => \E i \in at : msc = <<c[i].n, LastOf(c, BulkIn(c, i)),
                                                             LastOf(c, BulkOut(c, i))>>
                       /\ whole /\ at # {} => msc # <<>> /\ msc[1] = c[first].n
                       /\ whole /\ bbb =>
                             /\ Len(msc_interfaces) = Cardinality(at)
                             /\ at # {} => Head(msc_interfaces) = msc
                       /\ whole => \A k \in DOMAIN hid_interfaces : \E i \in DOMAIN c :
                             /\ IsInterface(c[i]) /\ c[i].class = "hid" /\ c[i].n = hid_interfaces[k][1]
                             /\ hid_interfaces[k][2] \in {c[j].n : j \in Own(c, i)}
=============================================================================

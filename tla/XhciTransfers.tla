---------------------------- MODULE XhciTransfers ----------------------------
(***************************************************************************)
(* The transfers of the xHCI library usb-oxide: its rings, the cut of a    *)
(* buffer into chunks, and the events that end a transfer.                 *)
(***************************************************************************)
EXTENDS Integers, Sequences, FiniteSets, SequencesExt

-----------------------------------------------------------------------------
(***************************************************************************)
(* The rings between the driver and an xHCI controller (usb-oxide/src/     *)
(* ring.rs): the producer ring the driver enqueues transfer request blocks *)
(* (TRBs) on, which ends in a link, and the event ring the controller      *)
(* answers on, whose dequeue pointer the driver reports in ERDP.  Who owns *)
(* a cell is told by a cycle bit alone.  The controller is external: it    *)
(* takes what carries its cycle bit, follows the link, and answers each    *)
(* TRB with one event as long as the event ring has room.                  *)
(***************************************************************************)
CONSTANTS
    RingSize, EventRingSize,   \* CMD_RING_SIZE, EVENT_RING_SIZE
    MaxTrbs                    \* TRBs a run enqueues

SizeAssumption == RingSize > 2 /\ EventRingSize > 1

VARIABLES
    ring_trbs, enqueue, cycle,        \* Ring
    hc_dequeue, hc_cycle,        \* the controller's end of it
    events, dequeue, ecycle,     \* EventRing
    erdp,                        \* the event ring dequeue pointer register
    hc_enqueue, hc_pcs,          \* the controller's end of it
    sent, taken, received        \* TRBs enqueued, executed and answered

ring_vars == <<ring_trbs, enqueue, cycle, hc_dequeue, hc_cycle, events, dequeue, ecycle, erdp,
               hc_enqueue, hc_pcs, sent, taken, received>>

Link == -1
Cell(item, c) == [item |-> item, cycle |-> c]

RingTypeOK ==
    /\ DOMAIN ring_trbs = 0 .. RingSize - 1
    /\ DOMAIN events = 0 .. EventRingSize - 1
    /\ {enqueue, hc_dequeue} \subseteq 0 .. RingSize - 1
    /\ {dequeue, erdp, hc_enqueue} \subseteq 0 .. EventRingSize - 1
    /\ {cycle, hc_cycle, ecycle, hc_pcs} \subseteq BOOLEAN
    /\ sent \in 0 .. MaxTrbs
    /\ taken \in 0 .. sent

RingInit ==
    /\ ring_trbs = [i \in 0 .. RingSize - 1 |-> Cell(0, FALSE)]
    /\ enqueue = 0 /\ cycle = TRUE
    /\ hc_dequeue = 0 /\ hc_cycle = TRUE
    /\ events = [i \in 0 .. EventRingSize - 1 |-> Cell(0, FALSE)]
    /\ dequeue = 0 /\ ecycle = TRUE
    /\ erdp = 0
    /\ hc_enqueue = 0 /\ hc_pcs = TRUE
    /\ sent = 0 /\ taken = 0 /\ received = <<>>

\* The TRB and, when the last cell but one is used, the link behind it.
EnqueuedCells(item) ==
    LET written == [ring_trbs EXCEPT ![enqueue] = Cell(item, cycle)]
    IN  IF enqueue + 1 >= RingSize - 1
        THEN [written EXCEPT ![enqueue + 1] = Cell(Link, cycle)]
        ELSE written

\* Ring::enqueue.  It does not look where the controller is: its callers
\* wait for one transfer before they queue the next, and no transfer has
\* more TRBs than the ring has cells (one less than its size is too many:
\* the link is rewritten before the controller has followed it).
enqueue_trb ==
    /\ sent < MaxTrbs
    /\ sent - taken < RingSize - 2
    /\ sent' = sent + 1
    /\ ring_trbs' = EnqueuedCells(sent')
    /\ IF enqueue + 1 >= RingSize - 1
       THEN enqueue' = 0 /\ cycle' = ~cycle
       ELSE enqueue' = enqueue + 1 /\ UNCHANGED cycle
    /\ UNCHANGED <<hc_dequeue, hc_cycle, events, dequeue, ecycle, erdp, hc_enqueue, hc_pcs,
                   taken, received>>

hc_link ==
    /\ ring_trbs[hc_dequeue] = Cell(Link, hc_cycle)
    /\ hc_dequeue' = 0
    /\ hc_cycle' = ~hc_cycle
    /\ UNCHANGED <<ring_trbs, enqueue, cycle, events, dequeue, ecycle, erdp, hc_enqueue, hc_pcs,
                   sent, taken, received>>

\* A TRB is executed and answered, unless the event ring is full.
hc_execute ==
    /\ ring_trbs[hc_dequeue].cycle = hc_cycle
    /\ ring_trbs[hc_dequeue].item # Link
    /\ (hc_enqueue + 1) % EventRingSize # erdp
    /\ taken' = ring_trbs[hc_dequeue].item
    /\ hc_dequeue' = hc_dequeue + 1
    /\ events' = [events EXCEPT ![hc_enqueue] = Cell(taken', hc_pcs)]
    /\ hc_enqueue' = (hc_enqueue + 1) % EventRingSize
    /\ hc_pcs' = IF hc_enqueue' = 0 THEN ~hc_pcs ELSE hc_pcs
    /\ UNCHANGED <<ring_trbs, enqueue, cycle, hc_cycle, dequeue, ecycle, erdp, sent, received>>

try_dequeue ==
    /\ events[dequeue].cycle = ecycle
    /\ IF dequeue + 1 >= EventRingSize
       THEN dequeue' = 0 /\ ecycle' = ~ecycle
       ELSE dequeue' = dequeue + 1 /\ UNCHANGED ecycle
    /\ received' = Append(received, events[dequeue].item)
    /\ UNCHANGED <<ring_trbs, enqueue, cycle, hc_dequeue, hc_cycle, events, erdp,
                   hc_enqueue, hc_pcs, sent, taken>>

\* It takes the lock again, so several events may be taken before it.
update_erdp ==
    /\ erdp # dequeue
    /\ erdp' = dequeue
    /\ UNCHANGED <<ring_trbs, enqueue, cycle, hc_dequeue, hc_cycle, events, dequeue, ecycle,
                   hc_enqueue, hc_pcs, sent, taken, received>>

RingNext == enqueue_trb \/ hc_link \/ hc_execute \/ try_dequeue \/ update_erdp

RingSpec == RingInit /\ [][RingNext]_ring_vars

-----------------------------------------------------------------------------
\* Every TRB is executed once and in order, and its event is taken once and
\* in order, however often the two rings wrap: no cell of an earlier lap is
\* ever taken for one of this lap.
RingsInOrder ==
    /\ taken <= sent
    /\ Len(received) <= taken
    /\ \A i \in DOMAIN received : received[i] = i
    /\ ring_trbs[hc_dequeue].cycle = hc_cycle /\ ring_trbs[hc_dequeue].item # Link
          => ring_trbs[hc_dequeue].item = taken + 1
    /\ events[dequeue].cycle = ecycle => events[dequeue].item = Len(received) + 1

\* Whatever is outstanding can be taken: an end that sees nothing to do has
\* nothing to do.
NothingIsStuck ==
    /\ taken < sent => ring_trbs[hc_dequeue].cycle = hc_cycle
    /\ Len(received) < taken => events[dequeue].cycle = ecycle

-----------------------------------------------------------------------------
(***************************************************************************)
(* Commands and transfers on one xHCI controller and one mass storage      *)
(* device (usb-oxide/src/xhci.rs, dev.rs, msc.rs).  The driver is          *)
(* sequential: it queues TRBs, rings a doorbell and polls the one event    *)
(* ring for an event that fits, keeping others in pending_events; a poll   *)
(* that runs out of patience returns an error and leaves its TRBs queued.  *)
(* The controller and the device are external: they execute the TRBs of an *)
(* endpoint in order, late or never; a stall halts the endpoint.  The device *)
(* follows the Bulk-Only Transport: it takes a command block wrapper (CBW) *)
(* with a tag, sends the data and then a command status wrapper (CSW) with *)
(* that tag, into whatever buffers are queued.  An operation is named by   *)
(* its number, which also stands for its buffers and for the tag.          *)
(***************************************************************************)
CONSTANTS MaxOps, MaxTimeouts, MaxPortEvents

VARIABLES
    op,             \* the operation in progress: kind, number, phase
    ops,            \* operations begun
    commands,       \* the command ring: numbers not yet executed
    ep0,            \* endpoint 0: <<number, stage>> not yet executed
    bulk_out, bulk_in,
    halted,         \* endpoints that stalled
    device,         \* the device: phase and tag
    filled,         \* <<number, part, what arrived, tag>> of every IN buffer written
    ring,           \* the event ring
    pending_events,
    copied,         \* what scsi_command copied to its caller: <<>> or <<what, tag>>
    timeouts, ports,
    transfer_result          \* of the last operation

transfer_vars == <<op, ops, commands, ep0, halted, bulk_out, bulk_in, device, filled, ring,
                   pending_events, copied, timeouts, ports, transfer_result>>

Idle == [kind |-> "idle", id |-> 0, phase |-> "none"]
NoResult == [kind |-> "none", id |-> 0, ok |-> FALSE, of |-> 0, data |-> <<>>]
Event(kind, id, part, code) == [kind |-> kind, id |-> id, part |-> part, code |-> code]

TransferInit ==
    /\ op = Idle
    /\ ops = 0
    /\ commands = <<>>
    /\ ep0 = <<>> /\ halted = {}
    /\ bulk_out = <<>> /\ bulk_in = <<>>
    /\ device = [phase |-> "idle", tag |-> 0]
    /\ filled = {}
    /\ ring = <<>>
    /\ pending_events = <<>>
    /\ copied = <<>>
    /\ timeouts = 0
    /\ ports = 0
    /\ transfer_result = NoResult

TransferTypeOK ==
    /\ op.kind \in {"idle", "command", "control", "scsi"}
    /\ ops \in 0 .. MaxOps
    /\ device.phase \in {"idle", "data", "status"}
    /\ \A i \in DOMAIN ring : ring[i].kind \in {"command", "ep0", "out", "in", "port"}
    /\ \A i \in DOMAIN pending_events : pending_events[i].kind # "none"
    /\ halted \subseteq {"ep0", "out", "in"}
    /\ timeouts \in 0 .. MaxTimeouts

Finish(ok, of, data) ==
    /\ transfer_result' = [kind |-> op.kind, id |-> op.id, ok |-> ok, of |-> of, data |-> data]
    /\ op' = Idle
    /\ copied' = <<>>

Begin(kind, phase) ==
    /\ op = Idle
    /\ ops < MaxOps
    /\ ops' = ops + 1
    /\ op' = [kind |-> kind, id |-> ops', phase |-> phase]

-----------------------------------------------------------------------------
(* submit_command and wait_command.                                        *)

submit_command ==
    /\ Begin("command", "wait")
    /\ commands' = Append(commands, ops')
    /\ UNCHANGED <<ep0, halted, bulk_out, bulk_in, device, filled, ring, pending_events,
                   copied, timeouts, ports, transfer_result>>

\* Any command completion ends the wait; other events are dropped.
wait_command ==
    /\ op.kind = "command"
    /\ ring # <<>>
    /\ ring' = Tail(ring)
    /\ IF Head(ring).kind = "command"
       THEN Finish(Head(ring).code = "ok", Head(ring).id, <<>>)
       ELSE UNCHANGED <<op, copied, transfer_result>>
    /\ UNCHANGED <<ops, commands, ep0, halted, bulk_out, bulk_in, device, filled,
                   pending_events, timeouts, ports>>

-----------------------------------------------------------------------------
(* poll_event_matching: the first match among the pending events, then in  *)
(* the ring, whose other events become pending.                            *)

Polled(kind) ==
    LET Fits(e) == e.kind = kind
        p == SelectInSeq(pending_events, Fits)
        r == SelectInSeq(ring, Fits)
    IN  IF p > 0
        THEN [found |-> TRUE, event |-> pending_events[p],
              pending |-> RemoveAt(pending_events, p), ring |-> ring]
        ELSE IF r > 0
        THEN [found |-> TRUE, event |-> ring[r],
              pending |-> pending_events \o SubSeq(ring, 1, r - 1),
              ring |-> SubSeq(ring, r + 1, Len(ring))]
        ELSE [found |-> FALSE, event |-> Event("none", 0, "none", "none"),
              pending |-> pending_events \o ring, ring |-> <<>>]

poll_event_matching(kind) ==
    /\ pending_events' = Polled(kind).pending
    /\ ring' = Polled(kind).ring

\* XhciCtrl::poll, between two operations of the USB task: all events go.
poll ==
    /\ op = Idle
    /\ pending_events \o ring # <<>>
    /\ pending_events' = <<>>
    /\ ring' = <<>>
    /\ UNCHANGED <<op, ops, commands, ep0, halted, bulk_out, bulk_in, device, filled,
                   copied, timeouts, ports, transfer_result>>

-----------------------------------------------------------------------------
(* control_transfer, with or without a data stage.                         *)

control_transfer ==
    /\ \E phase \in {"data", "status"} :
          /\ Begin("control", phase)
          /\ ep0' = Append(ep0, <<ops', phase>>)
    /\ UNCHANGED <<commands, halted, bulk_out, bulk_in, device, filled, ring,
                   pending_events, copied, timeouts, ports, transfer_result>>

\* An event of another TRB is skipped; the data event is noted; the status
\* event, a stall or an error ends the transfer.
control_event ==
    /\ op.kind = "control"
    /\ Polled("ep0").found
    /\ poll_event_matching("ep0")
    /\ LET e == Polled("ep0").event
       IN  IF e.id # op.id THEN UNCHANGED <<op, copied, transfer_result>>
           ELSE IF e.part = "data" /\ e.code = "ok"
           THEN op' = [op EXCEPT !.phase = "status"] /\ UNCHANGED <<copied, transfer_result>>
           ELSE Finish(e.code = "ok", e.id, <<>>)
    /\ UNCHANGED <<ops, commands, ep0, halted, bulk_out, bulk_in, device, filled,
                   timeouts, ports>>

-----------------------------------------------------------------------------
(* scsi_command with data from the device: CBW, data and CSW, each waited  *)
(* for by its endpoint only.                                               *)

scsi_command ==
    /\ Begin("scsi", "cbw")
    /\ bulk_out' = Append(bulk_out, ops')
    /\ UNCHANGED <<commands, ep0, halted, bulk_in, device, filled, ring, pending_events,
                   copied, timeouts, ports, transfer_result>>

Arrived(id, part) ==
    LET f == {x \in filled : x[1] = id /\ x[2] = part}
    IN  IF f = {} THEN <<>> ELSE CHOOSE x \in {<<y[3], y[4]>> : y \in f} : TRUE

\* wait_transfer returned: an error code ends the command with its buffers
\* still allocated.
scsi_event ==
    /\ op.kind = "scsi"
    /\ LET kind == IF op.phase = "cbw" THEN "out" ELSE "in"
           e == Polled(kind).event
       IN  /\ Polled(kind).found
           /\ poll_event_matching(kind)
           /\ IF e.code # "ok"
              THEN Finish(FALSE, 0, <<>>) /\ UNCHANGED bulk_in
              ELSE \/ /\ op.phase = "cbw"
                      /\ bulk_in' = Append(bulk_in, <<op.id, "data">>)
                      /\ op' = [op EXCEPT !.phase = "data"]
                      /\ UNCHANGED <<copied, transfer_result>>
                   \/ /\ op.phase = "data"
                      /\ copied' = Arrived(op.id, "data")
                      /\ bulk_in' = Append(bulk_in, <<op.id, "csw">>)
                      /\ op' = [op EXCEPT !.phase = "csw"]
                      /\ UNCHANGED transfer_result
                   \/ /\ op.phase = "csw"
                      /\ LET csw == Arrived(op.id, "csw")
                             is_ok == csw # <<>> /\ csw[1] = "csw"
                         IN  Finish(is_ok, IF is_ok THEN csw[2] ELSE 0, copied)
                      /\ UNCHANGED bulk_in
    /\ UNCHANGED <<ops, commands, ep0, halted, bulk_out, device, filled, timeouts, ports>>

\* No event fits and the patience of the operation is at its end.
timed_out ==
    /\ timeouts < MaxTimeouts
    /\ timeouts' = timeouts + 1
    /\ LET kind == IF op.kind = "control" THEN "ep0"
                   ELSE IF op.phase = "cbw" THEN "out" ELSE "in"
       IN  \/ /\ op.kind = "command"
              /\ ring = <<>>
              /\ UNCHANGED <<ring, pending_events>>
           \/ /\ op.kind \in {"control", "scsi"}
              /\ ~Polled(kind).found
              /\ poll_event_matching(kind)
    /\ Finish(FALSE, 0, <<>>)
    /\ UNCHANGED <<ops, commands, ep0, halted, bulk_out, bulk_in, device, filled, ports>>

-----------------------------------------------------------------------------
(* The controller and the device.                                          *)

hc_command ==
    /\ commands # <<>>
    /\ commands' = Tail(commands)
    /\ \E code \in {"ok", "error"} :
          ring' = Append(ring, Event("command", Head(commands), "none", code))
    /\ UNCHANGED <<op, ops, ep0, halted, bulk_out, bulk_in, device, filled,
                   pending_events, copied, timeouts, ports, transfer_result>>

\* A control transfer: the data stage, then the status stage, or a stall.
hc_control ==
    /\ "ep0" \notin halted
    /\ ep0 # <<>>
    /\ LET id == Head(ep0)[1]
           stage == Head(ep0)[2]
       IN  \/ /\ ring' = Append(ring, Event("ep0", id, stage, "ok"))
              /\ ep0' = IF stage = "data" THEN <<<<id, "status">>>> \o Tail(ep0)
                        ELSE Tail(ep0)
              /\ UNCHANGED halted
           \/ /\ ring' = Append(ring, Event("ep0", id, stage, "stall"))
              /\ ep0' = Tail(ep0)
              /\ halted' = halted \cup {"ep0"}
    /\ UNCHANGED <<op, ops, commands, bulk_out, bulk_in, device, filled, pending_events,
                   copied, timeouts, ports, transfer_result>>

\* The device accepts a CBW once it has sent the last CSW.
hc_out ==
    /\ bulk_out # <<>>
    /\ "out" \notin halted
    /\ device.phase = "idle"
    /\ bulk_out' = Tail(bulk_out)
    /\ device' = [phase |-> "data", tag |-> Head(bulk_out)]
    /\ ring' = Append(ring, Event("out", Head(bulk_out), "cbw", "ok"))
    /\ UNCHANGED <<op, ops, commands, ep0, halted, bulk_in, filled, pending_events,
                   copied, timeouts, ports, transfer_result>>

\* What the device has next goes to the buffer that is queued next.
hc_in ==
    /\ bulk_in # <<>>
    /\ "in" \notin halted
    /\ device.phase # "idle"
    /\ bulk_in' = Tail(bulk_in)
    /\ LET id == Head(bulk_in)[1]
           part == Head(bulk_in)[2]
           what == IF device.phase = "data" THEN "data" ELSE "csw"
       IN  /\ filled' = filled \cup {<<id, part, what, device.tag>>}
           /\ ring' = Append(ring, Event("in", id, part, "ok"))
    /\ device' = [device EXCEPT !.phase = IF @ = "data" THEN "status" ELSE "idle"]
    /\ UNCHANGED <<op, ops, commands, ep0, halted, bulk_out, pending_events, copied,
                   timeouts, ports, transfer_result>>

\* A bulk endpoint stalls at its next TRB.
hc_stall ==
    /\ \/ /\ bulk_out # <<>> /\ "out" \notin halted
          /\ halted' = halted \cup {"out"}
          /\ ring' = Append(ring, Event("out", Head(bulk_out), "cbw", "stall"))
          /\ bulk_out' = Tail(bulk_out)
          /\ UNCHANGED bulk_in
       \/ /\ bulk_in # <<>> /\ "in" \notin halted
          /\ halted' = halted \cup {"in"}
          /\ ring' = Append(ring, Event("in", Head(bulk_in)[1], Head(bulk_in)[2], "stall"))
          /\ bulk_in' = Tail(bulk_in)
          /\ UNCHANGED bulk_out
    /\ UNCHANGED <<op, ops, commands, ep0, device, filled, pending_events, copied,
                   timeouts, ports, transfer_result>>

hc_port ==
    /\ ports < MaxPortEvents
    /\ ports' = ports + 1
    /\ ring' = Append(ring, Event("port", 0, "none", "ok"))
    /\ UNCHANGED <<op, ops, commands, ep0, halted, bulk_out, bulk_in, device, filled,
                   pending_events, copied, timeouts, transfer_result>>

TransferNext ==
    \/ submit_command \/ wait_command \/ poll
    \/ control_transfer \/ control_event
    \/ scsi_command \/ scsi_event \/ timed_out
    \/ hc_command \/ hc_control \/ hc_out \/ hc_in \/ hc_stall \/ hc_port

TransferSpec == TransferInit /\ [][TransferNext]_transfer_vars

-----------------------------------------------------------------------------
\* A control transfer that succeeds saw its own TRBs complete, also when
\* events of transfers that were given up arrive late (data_trb_addr and
\* status_trb_addr); and as long as no wait was given up, a command and a
\* read get their own completion, status and data.
ResultIsOwn ==
    transfer_result.ok /\ (transfer_result.kind = "control" \/ timeouts = 0) =>
        /\ transfer_result.of = transfer_result.id
        /\ transfer_result.kind = "scsi" => transfer_result.data = <<"data", transfer_result.id>>

-----------------------------------------------------------------------------
(***************************************************************************)
(* queue_transfer of usb-oxide/src/dev.rs: one transfer becomes a chain of *)
(* TRBs, none of which may cross a 64 KiB boundary of physical memory; and *)
(* what bulk_transfer makes of the event that ends it.  Sizes are scaled:  *)
(* Boundary stands for 65536, Packet for 512, TdMax for 31.                *)
(***************************************************************************)
CONSTANTS Boundary, Packet, TdMax,
          MaxAddress, MaxLength   \* bounds: where the buffer lies and how long it is

VARIABLES addr, len,              \* the buffer
          remaining, offset, chunk_trbs,
          moved, chunk_result           \* bytes the device sent, or -1; what bulk_transfer returns, or -1

chunk_vars == <<addr, len, remaining, offset, chunk_trbs, moved, chunk_result>>

ChunkInit ==
  /\ addr \in 0 .. MaxAddress /\ len \in 0 .. MaxLength
  /\ remaining = len /\ offset = 0 /\ chunk_trbs = <<>> /\ moved = -1 /\ chunk_result = -1

Least(S) == CHOOSE x \in S : \A y \in S : x <= y

\* A transfer of no bytes is one TRB.
queue_empty ==
  /\ len = 0 /\ chunk_trbs = <<>>
  /\ chunk_trbs' = <<[at |-> addr, size |-> 0, td_size |-> 0, ioc |-> TRUE, chain |-> FALSE]>>
  /\ UNCHANGED <<addr, len, remaining, offset, moved, chunk_result>>

\* From an address to the next boundary above it.
ToBoundary(at) == ((at + Boundary) \div Boundary) * Boundary - at

\* One turn of the loop.
queue_transfer ==
  /\ remaining > 0
  /\ LET at == addr + offset
         chunk == Least({remaining, Boundary, ToBoundary(at)})
         left == remaining - chunk
     IN  /\ chunk_trbs' = Append(chunk_trbs, [at |-> at, size |-> chunk, ioc |-> left = 0, chain |-> left # 0,
                                              td_size |-> Least({(left + Packet - 1) \div Packet, TdMax})])
         /\ remaining' = left
         /\ offset' = offset + chunk
  /\ UNCHANGED <<addr, len, moved, chunk_result>>

Queued == chunk_trbs # <<>> /\ remaining = 0

\* External: the device sends n bytes; a short packet ends the transfer.
Move(n) ==
  /\ Queued /\ moved = -1
  /\ moved' = n
  /\ UNCHANGED <<addr, len, remaining, offset, chunk_trbs, chunk_result>>

Start(i) == chunk_trbs[i].at - addr

\* wait_transfer_event: the residue that the event names is that of the TRB at which the transfer ended.
wait_transfer_event ==
  /\ moved # -1 /\ chunk_result = -1
  /\ LET i == Least({j \in DOMAIN chunk_trbs : j = Len(chunk_trbs) \/ moved < Start(j) + chunk_trbs[j].size})
         residue == chunk_trbs[i].size - (moved - Start(i))
     IN  chunk_result' = IF residue > len THEN 0 ELSE len - residue
  /\ UNCHANGED <<addr, len, remaining, offset, chunk_trbs, moved>>

ChunkNext ==
  \/ queue_empty \/ queue_transfer \/ wait_transfer_event
  \/ \E n \in 0 .. len : Move(n)

ChunkSpec == ChunkInit /\ [][ChunkNext]_chunk_vars

-----------------------------------------------------------------------------
ChunkTypeOK == remaining \in 0 .. len /\ offset + remaining = len /\ moved \in -1 .. len /\ chunk_result \in -1 .. len

\* The chain is the buffer: the TRBs lie one behind the other from its start to its end, none
\* crosses a boundary, all but the last are chained, and only the last one reports its completion.
\* A TRB says how many packets follow it.
ChunksAreTheBuffer ==
  /\ \A i \in DOMAIN chunk_trbs :
       /\ chunk_trbs[i].at = addr + (IF i = 1 THEN 0 ELSE Start(i - 1) + chunk_trbs[i - 1].size)
       /\ chunk_trbs[i].size > 0 => chunk_trbs[i].at \div Boundary = (chunk_trbs[i].at + chunk_trbs[i].size - 1) \div Boundary
       /\ chunk_trbs[i].td_size = Least({(len - Start(i) - chunk_trbs[i].size + Packet - 1) \div Packet, TdMax})
  /\ Queued =>
       /\ Start(Len(chunk_trbs)) + chunk_trbs[Len(chunk_trbs)].size = len
       /\ \A i \in DOMAIN chunk_trbs : chunk_trbs[i].ioc = (i = Len(chunk_trbs)) /\ chunk_trbs[i].chain = (i # Len(chunk_trbs))

\* bulk_transfer returns the bytes that were moved, if the transfer ended in its last TRB.
LastResidueIsExact ==
  chunk_result # -1 /\ (Len(chunk_trbs) = 1 \/ moved >= Start(Len(chunk_trbs))) => chunk_result = moved
=============================================================================

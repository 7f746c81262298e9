---------------------------- MODULE VirtioDevices ----------------------------
(***************************************************************************)
(* The virtio drivers: how a device is set up, and how its queues are      *)
(* used.                                                                   *)
(***************************************************************************)
EXTENDS Integers, Sequences, FiniteSets, FiniteSetsExt

-----------------------------------------------------------------------------
(* How a virtio device is brought up: the search for its configuration      *)
(* structures (kernel/src/drivers/virtio/transport), the feature            *)
(* negotiation of virtio/mod.rs and init_dev of the network, console, vsock  *)
(* and file system drivers.  The device decides what it offers, whether it  *)
(* keeps FEATURES_OK, and which queues exist.                               *)
CONSTANTS
  Kinds,              \* the device types with a driver
  U16, U32            \* how many values the integers have

VARIABLES
  init_kind,
  transport,          \* "pci" or "mmio"
  init_device,        \* offered, accepts, caps, queues, pairs, request_queues
  init_pc,
  status,             \* the device status register
  features,           \* negotiated
  enabled,            \* queues that have been enabled
  init_result         \* "none", "ok", "error" or "panic"

setup_vars == <<init_kind, transport, init_device, init_pc, status, features, enabled, init_result>>

Features == {"VERSION_1", "MAC", "MQ", "CTRL_VQ"}
MAX_NUM_VQ == 2
Structures == {"common", "notify", "isr", "device"}

SetupInit ==
  /\ init_kind \in Kinds /\ transport \in {"pci", "mmio"}
  /\ init_device \in
       [offered : SUBSET Features, accepts : BOOLEAN,
        caps : {{}, Structures} \cup {Structures \ {c} : c \in Structures},
        queues : {0..k : k \in 0..3}, pairs : 1..2,
        request_queues : {0, 1, 2, U16 - 1, U16, U32 - 1}]
  /\ transport = "mmio" => init_device.caps = {} /\ init_kind # "vsock"
  /\ init_pc = "caps" /\ status \in {{}, {"DRIVER_OK"}} /\ features = {} /\ enabled = {}
  /\ init_result = "none"

\* map_caps, and new of each driver: a usable structure of every type.
map_caps ==
  /\ init_pc = "caps"
  /\ IF transport = "mmio" \/ init_device.caps = Structures
       THEN init_pc' = "reset" /\ UNCHANGED init_result
       ELSE init_pc' = "done" /\ init_result' = "error"
  /\ UNCHANGED <<init_kind, transport, init_device, status, features, enabled>>

\* reset_dev; a reset also disables the queues.
reset_dev ==
  /\ init_pc = "reset" /\ init_pc' = "ack"
  /\ status' = {} /\ enabled' = {}
  /\ UNCHANGED <<init_kind, transport, init_device, features, init_result>>

\* ack_dev and set_drv.
ack_dev ==
  /\ init_pc = "ack" /\ init_pc' = "negotiate"
  /\ status' = status \cup {"ACKNOWLEDGE", "DRIVER"}
  /\ UNCHANGED <<init_kind, transport, init_device, features, enabled, init_result>>

minimal_features == IF init_kind = "net" THEN {"VERSION_1", "MAC"} ELSE {"VERSION_1"}
driver_features ==
  IF init_kind = "net" THEN {"VERSION_1", "MAC", "MQ", "CTRL_VQ"} ELSE {"VERSION_1"}

\* set_failed, which the PCI console, vsock and file system drivers call when
\* init_dev fails; the network driver and the MMIO drivers do not.
failed == IF transport = "pci" /\ init_kind # "net" THEN {"FAILED"} ELSE status

\* negotiate_features: what both sides have is written back.
negotiate_features ==
  /\ init_pc = "negotiate"
  /\ features' = init_device.offered \cap driver_features
  /\ IF minimal_features \subseteq features'
       THEN init_pc' = "features_ok" /\ UNCHANGED <<status, init_result>>
       ELSE init_pc' = "done" /\ init_result' = "error" /\ status' = failed
  /\ UNCHANGED <<init_kind, transport, init_device, enabled>>

\* features_ok, and check_features reading back what the device kept of it.
check_features ==
  /\ init_pc = "features_ok"
  /\ IF init_device.accepts
       THEN /\ status' = status \cup {"FEATURES_OK"}
            /\ init_pc' = "queues" /\ UNCHANGED init_result
       ELSE status' = failed /\ init_pc' = "done" /\ init_result' = "error"
  /\ UNCHANGED <<init_kind, transport, init_device, features, enabled>>

num_vqs == IF "MQ" \in features /\ init_device.pairs * 2 < MAX_NUM_VQ
             THEN init_device.pairs * 2 ELSE MAX_NUM_VQ

\* A file system device has a queue of high priority beside those it counts.
vqnum == (init_device.request_queues + 1) % U32

\* The queues init_dev creates, in order; those of a file system device are
\* numbered with 16 bits.
vq_indexes ==
  CASE init_kind = "net" -> 0..(num_vqs - 1) \cup (IF "CTRL_VQ" \in features THEN {num_vqs} ELSE {})
    [] init_kind = "console" -> 0..1
    [] init_kind = "vsock" -> 0..2
    [] init_kind = "fs" -> 0..((vqnum % U16) - 1)

no_queues ==
  /\ init_pc = "queues" /\ init_kind = "fs" /\ vqnum = 0
  /\ init_pc' = "done" /\ init_result' = "error" /\ status' = failed
  /\ UNCHANGED <<init_kind, transport, init_device, features, enabled>>

\* SplitVq::new or PackedVq::new for the next queue, unwrapped: a queue of size
\* 0 does not exist.
new_vq ==
  /\ init_pc = "queues" /\ (init_kind = "fs" => vqnum # 0)
  /\ \E i \in vq_indexes \ enabled :
       /\ \A j \in vq_indexes \ enabled : i <= j
       /\ IF i \in init_device.queues
            THEN enabled' = enabled \cup {i} /\ UNCHANGED <<init_pc, init_result>>
            ELSE init_pc' = "done" /\ init_result' = "panic" /\ UNCHANGED enabled
  /\ UNCHANGED <<init_kind, transport, init_device, status, features>>

\* drv_ok: the device is live.
drv_ok ==
  /\ init_pc = "queues" /\ enabled = vq_indexes /\ (init_kind = "fs" => vqnum # 0)
  /\ status' = status \cup {"DRIVER_OK"}
  /\ init_pc' = "done" /\ init_result' = "ok"
  /\ UNCHANGED <<init_kind, transport, init_device, features, enabled>>

SetupNext ==
  \/ map_caps \/ reset_dev \/ ack_dev \/ negotiate_features \/ check_features
  \/ no_queues \/ new_vq \/ drv_ok

SetupSpec == SetupInit /\ [][SetupNext]_setup_vars

SetupTypeOK ==
  /\ init_pc \in {"caps", "reset", "ack", "negotiate", "features_ok", "queues", "done"}
  /\ status \subseteq {"ACKNOWLEDGE", "DRIVER", "FEATURES_OK", "DRIVER_OK", "FAILED"}
  /\ features \subseteq Features /\ init_result \in {"none", "ok", "error", "panic"}

\* The queues a driver uses afterwards: send_command of the file system takes
\* vqueues[1].
Used == CASE init_kind = "fs" -> {1} [] init_kind = "vsock" -> {0, 1, 2} [] OTHER -> {0, 1}

\* A driver that reports success has a live device that kept the features it
\* was given and every queue the driver will use, each of which exists.  The
\* exception is a file system device without a request queue: init_dev adds
\* one before it compares with 0, and takes 16 bits of the sum.
LiveIsReady ==
  init_result = "ok" =>
    /\ status = {"ACKNOWLEDGE", "DRIVER", "FEATURES_OK", "DRIVER_OK"}
    /\ minimal_features \subseteq features /\ init_device.accepts
    /\ enabled \subseteq init_device.queues
    /\ Used \subseteq enabled \/ (init_kind = "fs" /\ vqnum % U16 < 2)

-----------------------------------------------------------------------------
(* The receive and send sides of the virtio network, console and vsock      *)
(* drivers (kernel/src/drivers/{net/virtio,console,vsock}/mod.rs) over two   *)
(* virtqueues.  A frame the network device receives may fill several        *)
(* buffers; the number is in the header of the first.  The device runs      *)
(* between any two queue operations of the driver.                          *)
CONSTANTS
  Drivers,        \* which drivers: a subset of {"net", "console", "vsock"}
  QueueSize,      \* vq.size() of each queue
  MaxFrames,      \* bound: frames received
  MaxMerged,      \* bound: buffers one received frame fills
  MaxSends        \* bound: frames sent

VARIABLES
  driver,
  rx_free, rx_held, rx_used, rx_got,      \* the receive queue
  tx_free, tx_held, tx_used, tx_got,      \* the send queue
  contents,       \* what the device wrote to a receive buffer: frame, part, num_buffers
  send_capacity,
  drv_pc,         \* where the driver is
  parts_left,     \* buffers of the frame being read that are still to come
  packet,         \* what has been read of it
  delivered,      \* frames handed to the network stack or the reader
  received, sent, \* counters: frames from the device, frames dispatched
  rx_next, tx_next,   \* names for the next buffers
  drv_panicked

driver_vars == <<driver, rx_free, rx_held, rx_used, rx_got, tx_free, tx_held, tx_used, tx_got,
                 contents, send_capacity, drv_pc, parts_left, packet, delivered, received,
                 sent, rx_next, tx_next, drv_panicked>>
rx_vars == <<rx_free, rx_held, rx_used, rx_got>>
tx_vars == <<tx_free, tx_held, tx_used, tx_got>>

Rx == INSTANCE BufferQueue WITH free <- rx_free, held <- rx_held, used <- rx_used, got <- rx_got
Tx == INSTANCE BufferQueue WITH free <- tx_free, held <- tx_held, used <- tx_used, got <- tx_got

BUFF_PER_PACKET == 2
\* A receive buffer is header and data for the network and vsock, data alone
\* for the console; a sent packet has its header apart on the network only.
RxLen == IF driver = "console" THEN 1 ELSE 2
TxLen == IF driver = "net" THEN 2 ELSE 1
Empty == [frame |-> 0, part |-> 0, num_buffers |-> 0]

\* RxQueues::add and fill_queue: half as many buffers as the queue has
\* descriptors; TxQueues: the capacity is the size of the queue.
DriverInit ==
  /\ driver \in Drivers
  /\ LET num == QueueSize \div BUFF_PER_PACKET IN
       /\ rx_free = QueueSize - num * RxLen
       /\ rx_held = {[buf |-> b, n |-> RxLen] : b \in 1..num}
       /\ rx_next = num + 1
       /\ contents = [b \in 1..num + MaxFrames * MaxMerged |-> Empty]
  /\ rx_used = <<>> /\ rx_got = Rx!Nothing
  /\ Tx!InitQueue(QueueSize) /\ tx_next = 1
  /\ send_capacity = QueueSize
  /\ drv_pc = "idle" /\ parts_left = 0 /\ packet = <<>> /\ delivered = <<>>
  /\ received = 0 /\ sent = 0 /\ drv_panicked = FALSE

-----------------------------------------------------------------------------
(* The device *)

\* A frame arrives and fills k buffers, which become used together.
device_receive(k) ==
  /\ received < MaxFrames
  /\ k <= Cardinality(rx_held)
  /\ driver # "net" => k = 1
  /\ LET taken == CHOOSE s \in [1..k -> rx_held] :
                    /\ \A i \in 1..k - 1 : s[i].buf < s[i + 1].buf
                    /\ \A t \in rx_held : t.buf < s[k].buf => \E i \in 1..k : s[i] = t IN
       /\ rx_used' = rx_used \o taken
       /\ rx_held' = rx_held \ {taken[i] : i \in 1..k}
       /\ contents' = [b \in DOMAIN contents |->
            IF \E i \in 1..k : taken[i].buf = b
              THEN [frame |-> received + 1, num_buffers |-> k,
                    part |-> CHOOSE i \in 1..k : taken[i].buf = b]
              ELSE contents[b]]
  /\ received' = received + 1
  /\ UNCHANGED <<driver, rx_free, rx_got, tx_vars, send_capacity, drv_pc, parts_left,
                 packet, delivered, sent, rx_next, tx_next, drv_panicked>>

device_send ==
  /\ Tx!complete
  /\ UNCHANGED <<driver, rx_vars, contents, send_capacity, drv_pc, parts_left, packet,
                 delivered, received, sent, rx_next, tx_next, drv_panicked>>

-----------------------------------------------------------------------------
(* The driver *)

\* Device::receive and Device::transmit of the network driver, send_packet of
\* the others: first the send queue is polled.
start(to) ==
  /\ drv_pc = "idle" /\ ~drv_panicked
  /\ \/ to = "poll_rx" /\ driver = "net" /\ rx_used # <<>>
     \/ to = "poll_tx" /\ sent < MaxSends
  /\ drv_pc' = to
  /\ UNCHANGED <<driver, rx_vars, tx_vars, contents, send_capacity, parts_left, packet,
                 delivered, received, sent, rx_next, tx_next, drv_panicked>>

\* TxQueues::poll and free_up_send_capacity, one buffer at a time.
poll ==
  /\ drv_pc \in {"poll_rx", "poll_tx"}
  /\ Tx!try_recv
  /\ send_capacity' = IF driver = "net" THEN send_capacity + BUFF_PER_PACKET ELSE send_capacity
  /\ UNCHANGED <<driver, rx_vars, contents, drv_pc, parts_left, packet, delivered,
                 received, sent, rx_next, tx_next, drv_panicked>>

\* The end of the poll: a network token needs capacity for a packet.
take_capacity ==
  /\ drv_pc \in {"poll_rx", "poll_tx"}
  /\ tx_used = <<>>
  /\ IF driver = "net" /\ send_capacity < BUFF_PER_PACKET
       THEN drv_pc' = "idle" /\ UNCHANGED send_capacity
       ELSE /\ drv_pc' = IF drv_pc = "poll_rx" THEN "rx" ELSE "tx"
            /\ send_capacity' = IF driver = "net" THEN send_capacity - BUFF_PER_PACKET
                                ELSE send_capacity
  /\ UNCHANGED <<driver, rx_vars, tx_vars, contents, parts_left, packet, delivered,
                 received, sent, rx_next, tx_next, drv_panicked>>

\* TxToken::consume and send_packet: the dispatch is unwrapped.
consume_tx ==
  /\ drv_pc = "tx"
  /\ drv_pc' = "idle"
  /\ IF TxLen <= tx_free
       THEN /\ Tx!dispatch([buf |-> tx_next, n |-> TxLen])
            /\ sent' = sent + 1 /\ tx_next' = tx_next + 1
            /\ UNCHANGED drv_panicked
       ELSE drv_panicked' = TRUE /\ UNCHANGED <<tx_vars, sent, tx_next>>
  /\ UNCHANGED <<driver, rx_vars, contents, send_capacity, parts_left, packet, delivered,
                 received, rx_next>>

\* Drop for TxToken: the capacity of a token that was not used comes back.
drop_tx ==
  /\ drv_pc = "tx" /\ driver = "net"
  /\ drv_pc' = "idle"
  /\ send_capacity' = send_capacity + BUFF_PER_PACKET
  /\ UNCHANGED <<driver, rx_vars, tx_vars, contents, parts_left, packet, delivered,
                 received, sent, rx_next, tx_next, drv_panicked>>

\* RxToken::consume and process_packet: the first buffer of a frame.  Without
\* merged buffers the count in the header is not looked at.
consume_rx ==
  /\ drv_pc = "rx" \/ (drv_pc = "idle" /\ driver # "net" /\ ~drv_panicked)
  /\ Rx!try_recv
  /\ LET c == contents[rx_got'.buf] IN
       /\ packet' = <<c>>
       /\ parts_left' = c.num_buffers - 1
  /\ drv_pc' = "refill"
  /\ UNCHANGED <<driver, tx_vars, contents, send_capacity, delivered, received, sent,
                 rx_next, tx_next, drv_panicked>>

\* RxToken::consume, a buffer after the first: get_next is unwrapped.
consume_more ==
  /\ drv_pc = "more"
  /\ IF rx_used = <<>>
       THEN drv_panicked' = TRUE /\ drv_pc' = "idle"
            /\ UNCHANGED <<rx_vars, packet, parts_left>>
       ELSE /\ Rx!try_recv
            /\ packet' = Append(packet, contents[rx_got'.buf])
            /\ parts_left' = parts_left - 1
            /\ drv_pc' = "refill"
            /\ UNCHANGED drv_panicked
  /\ UNCHANGED <<driver, tx_vars, contents, send_capacity, delivered, received, sent,
                 rx_next, tx_next>>

\* A fresh buffer goes back to the receive queue; then the next part, or the
\* frame is handed up and the network's TxToken is left.
refill ==
  /\ drv_pc = "refill"
  /\ Rx!dispatch([buf |-> rx_next, n |-> RxLen])
  /\ rx_next' = rx_next + 1
  /\ IF parts_left > 0
       THEN drv_pc' = "more" /\ UNCHANGED delivered
       ELSE /\ delivered' = Append(delivered, packet)
            /\ drv_pc' = IF driver = "net" THEN "tx" ELSE "idle"
  /\ UNCHANGED <<driver, tx_vars, contents, send_capacity, parts_left, packet, received,
                 sent, tx_next, drv_panicked>>

DriverNext ==
  \/ \E k \in 1..MaxMerged : device_receive(k)
  \/ device_send
  \/ \E to \in {"poll_rx", "poll_tx"} : start(to)
  \/ poll \/ take_capacity \/ consume_tx \/ drop_tx
  \/ consume_rx \/ consume_more \/ refill

DriverSpec == DriverInit /\ [][DriverNext]_driver_vars

DriverTypeOK ==
  /\ driver \in Drivers /\ drv_pc \in {"idle", "poll_rx", "poll_tx", "rx", "tx", "more", "refill"}
  /\ rx_free \in 0..QueueSize /\ tx_free \in 0..QueueSize
  /\ send_capacity \in Nat /\ parts_left \in 0..MaxMerged

\* Every frame is handed up whole, once and in order, however many buffers it
\* came in and whatever the device does meanwhile.
FramesAreWhole ==
  \A i \in DOMAIN delivered :
    /\ \A p \in DOMAIN delivered[i] :
         delivered[i][p] = [frame |-> i, part |-> p, num_buffers |-> Len(delivered[i])]
    /\ i <= received

\* The capacity the network driver keeps is the room its queue has, less what
\* a token has reserved: the unwrapped dispatch of TxToken::consume finds room,
\* and so does every refill.  The console and the vsock have no such account:
\* there a panic means that the device had not finished a single packet since
\* the ring filled.
RoomIsReserved ==
  /\ driver = "net" =>
       /\ send_capacity + (IF drv_pc \in {"rx", "tx", "more", "refill"} THEN BUFF_PER_PACKET ELSE 0)
            + BUFF_PER_PACKET * Len(tx_used) + BUFF_PER_PACKET * Cardinality(tx_held) = QueueSize
       /\ ~drv_panicked
  /\ drv_pc = "refill" => RxLen <= rx_free
  /\ drv_panicked => tx_free = 0
=============================================================================

----------------------------- MODULE NetAdapters -----------------------------
(***************************************************************************)
(* The network drivers of the kernel: RTL8139, Cadence GEM and RTL8152.    *)
(***************************************************************************)
EXTENDS Integers, Sequences, FiniteSets

-----------------------------------------------------------------------------
(***************************************************************************)
(* The RTL8139 network driver (kernel/src/drivers/net/rtl8139.rs): the     *)
(* receive buffer is one ring of bytes that the adapter fills and the      *)
(* driver reads behind it, the transmit buffers are used in turn.  The     *)
(* tokens of smoltcp are consumed or dropped under the driver's lock; the  *)
(* adapter works at any time.                                              *)
(*                                                                         *)
(* A frame is its number and its length, a byte of it the pair of number   *)
(* and offset; a 16-bit field is kept in the first of its two cells.       *)
(***************************************************************************)
CONSTANTS
    RX_BUF_LEN,     \* a multiple of 4, above 16
    Lengths,        \* lengths of the frames on the wire, without CRC
    NO_TX_BUFFERS,
    RtlMaxFrames,      \* frames that arrive
    RtlMaxSends        \* frames that are sent

VARIABLES
    rtl_rxbuffer, rxpos, rx_in_use,
    rxaddr,         \* where the adapter writes next
    capr,           \* the register: how far the driver has read, less 16
    frames,         \* the lengths of the frames stored so far
    rtl_received,       \* what the closures of smoltcp were given
    token,          \* tokens held: a subset of {"rx", "tx"}
    tx_in_use, rtl_tx_counter, remaining_bufs,
    tsd,            \* status of each transmit buffer: "idle", "own", "TOK", "TABT"
    tok,            \* ISR_TOK
    overwritten,    \* a buffer of the adapter was written to
    rtl_panicked        \* "Unable to get TX buffer"

rtl_rxvars == <<rtl_rxbuffer, rxpos, rx_in_use, rxaddr, capr, frames, rtl_received>>
rtl_txvars == <<tx_in_use, rtl_tx_counter, remaining_bufs, tsd, tok, overwritten, rtl_panicked>>
rtl_vars == <<rtl_rxvars, token, rtl_txvars>>

RtlTxIds == 0 .. NO_TX_BUFFERS - 1

RtlTypeOK ==
    /\ rxpos \in 0 .. RX_BUF_LEN - 1 /\ rxpos % 4 = 0
    /\ rxaddr \in 0 .. RX_BUF_LEN - 1 /\ rxaddr % 4 = 0
    /\ capr \in 0 .. RX_BUF_LEN - 1
    /\ rx_in_use = ("rx" \in token)
    /\ token \subseteq {"rx", "tx"}
    /\ tx_in_use \in [RtlTxIds -> BOOLEAN]
    /\ tsd \in [RtlTxIds -> {"idle", "own", "TOK", "TABT"}]
    /\ remaining_bufs \in Nat

\* init_device
RtlInit ==
    /\ rtl_rxbuffer = [i \in 0 .. RX_BUF_LEN - 1 |-> 0]
    /\ rxpos = 0
    /\ rx_in_use = FALSE
    /\ rxaddr = 0
    /\ capr = RX_BUF_LEN - 16
    /\ frames = <<>>
    /\ rtl_received = <<>>
    /\ token = {}
    /\ tx_in_use = [i \in RtlTxIds |-> FALSE]
    /\ rtl_tx_counter = 0
    /\ remaining_bufs = NO_TX_BUFFERS
    /\ tsd = [i \in RtlTxIds |-> "idle"]
    /\ tok = FALSE
    /\ overwritten = FALSE
    /\ rtl_panicked = FALSE

-----------------------------------------------------------------------------
(* The adapter's receiver.                                                 *)

CRC == 4
Align(n) == ((n + 3) \div 4) * 4
ReadPtr == (capr + 16) % RX_BUF_LEN
Room == (RX_BUF_LEN + ReadPtr - rxaddr) % RX_BUF_LEN

\* A frame is stored behind a header (status, then the length with the CRC),
\* wrapping around at the end of the buffer, or is lost when there is no room.
nic_receive ==
    /\ Len(frames) < RtlMaxFrames
    /\ ~rtl_panicked
    /\ \E n \in Lengths :
          LET id   == Len(frames) + 1
              size == Align(4 + n + CRC)
              At(i) == (i + RX_BUF_LEN - rxaddr) % RX_BUF_LEN
          IN  /\ Room = 0 \/ size < Room
              /\ size < RX_BUF_LEN
              /\ rtl_rxbuffer' = [i \in DOMAIN rtl_rxbuffer |->
                     CASE At(i) = 0 -> "ROK"
                       [] At(i) = 2 -> n + CRC
                       [] At(i) \in 4 .. n + 3 -> <<id, At(i) - 3>>
                       [] OTHER -> rtl_rxbuffer[i]]
              /\ rxaddr' = (rxaddr + size) % RX_BUF_LEN
              /\ frames' = Append(frames, n)
    /\ UNCHANGED <<rxpos, rx_in_use, capr, rtl_received, token, rtl_txvars>>

\* CR_BUFE
BufferEmpty == rxaddr = ReadPtr

-----------------------------------------------------------------------------
(* The driver's receiver.                                                  *)

has_packet == ~BufferEmpty /\ rtl_rxbuffer[rxpos] = "ROK"

rtl_receive ==
    /\ token = {}
    /\ ~rtl_panicked
    /\ ~rx_in_use
    /\ has_packet
    /\ rx_in_use' = TRUE
    /\ token' = {"rx", "tx"}
    /\ UNCHANGED <<rtl_rxbuffer, rxpos, rxaddr, capr, frames, rtl_received, rtl_txvars>>

advance_rxpos(pos, count) == (pos + count) % RX_BUF_LEN

\* The bytes of the frame; two slices when it reaches the end of the buffer.
FrameAt(pos, length) ==
    IF pos + length > RX_BUF_LEN
    THEN LET first == RX_BUF_LEN - pos
         IN  [i \in 1 .. length |-> rtl_rxbuffer[IF i <= first THEN pos + i - 1 ELSE i - first - 1]]
    ELSE [i \in 1 .. length |-> rtl_rxbuffer[pos + i - 1]]

\* Mutant: the padding to a double word is forgotten.
NextRxpos_unaligned(pos, length) == advance_rxpos(pos, length + 2)

NextRxpos(pos, length) == Align(advance_rxpos(pos, length + 2)) % RX_BUF_LEN

\* RxToken::consume, consume_current_buffer and the drop of the token.
rtl_consume_rx ==
    /\ "rx" \in token
    /\ LET pos    == advance_rxpos(rxpos, 2)
           length == rtl_rxbuffer[pos] - 4
       IN  /\ rtl_received' = Append(rtl_received, FrameAt((pos + 2) % RX_BUF_LEN, length))
           /\ rxpos' = NextRxpos(pos, rtl_rxbuffer[pos])
           /\ capr' = IF rxpos' >= 16 THEN rxpos' - 16 ELSE RX_BUF_LEN - (16 - rxpos')
    /\ rx_in_use' = FALSE
    /\ token' = token \ {"rx"}
    /\ UNCHANGED <<rtl_rxbuffer, rxaddr, frames, rtl_txvars>>

drop_rx ==
    /\ "rx" \in token
    /\ rx_in_use' = FALSE
    /\ token' = token \ {"rx"}
    /\ UNCHANGED <<rtl_rxbuffer, rxpos, rxaddr, capr, frames, rtl_received, rtl_txvars>>

-----------------------------------------------------------------------------
(* Sending.                                                                *)

rtl_transmit ==
    /\ token = {}
    /\ ~rtl_panicked
    /\ remaining_bufs # 0
    /\ token' = {"tx"}
    /\ UNCHANGED <<rtl_rxvars, rtl_txvars>>

\* TxToken::consume asserts that the next buffer is free, fills it and hands
\* it to the adapter.
rtl_consume_tx ==
    /\ "tx" \in token
    /\ rtl_tx_counter < RtlMaxSends
    /\ token' = token \ {"tx"}
    /\ LET id == rtl_tx_counter % NO_TX_BUFFERS
       IN  \/ /\ ~tx_in_use[id]
              /\ overwritten' = (overwritten \/ tsd[id] = "own")
              /\ tx_in_use' = [tx_in_use EXCEPT ![id] = TRUE]
              /\ tsd' = [tsd EXCEPT ![id] = "own"]
              /\ rtl_tx_counter' = rtl_tx_counter + 1
              /\ UNCHANGED rtl_panicked
           \/ /\ tx_in_use[id]
              /\ rtl_panicked' = TRUE
              /\ UNCHANGED <<overwritten, tx_in_use, tsd, rtl_tx_counter>>
    /\ UNCHANGED <<rtl_rxvars, remaining_bufs, tok>>

\* Drop for TxToken.
rtl_drop_tx ==
    /\ "tx" \in token
    /\ token' = token \ {"tx"}
    /\ remaining_bufs < NO_TX_BUFFERS + RtlMaxSends
    /\ remaining_bufs' = remaining_bufs + 1
    /\ UNCHANGED <<rtl_rxvars, tx_in_use, rtl_tx_counter, tsd, tok, overwritten, rtl_panicked>>

\* The adapter sends a frame, or gives it up after too many collisions.
nic_transmit ==
    /\ \E i \in RtlTxIds :
          /\ tsd[i] = "own"
          /\ \E s \in {"TOK", "TABT"} : tsd' = [tsd EXCEPT ![i] = s]
    /\ tok' = TRUE
    /\ UNCHANGED <<rtl_rxvars, token, tx_in_use, rtl_tx_counter, remaining_bufs, overwritten, rtl_panicked>>

\* handle_interrupt, tx_handler: an aborted buffer stays in use.
handle_interrupt ==
    /\ token = {}
    /\ ~rtl_panicked
    /\ tok
    /\ LET done == {i \in RtlTxIds : tx_in_use[i] /\ tsd[i] = "TOK"}
       IN  /\ tx_in_use' = [i \in RtlTxIds |-> tx_in_use[i] /\ i \notin done]
           /\ remaining_bufs' = remaining_bufs + Cardinality(done)
    /\ tok' = FALSE
    /\ UNCHANGED <<rtl_rxvars, token, rtl_tx_counter, tsd, overwritten, rtl_panicked>>

RtlNext ==
    \/ nic_receive \/ rtl_receive \/ rtl_consume_rx \/ drop_rx
    \/ rtl_transmit \/ rtl_consume_tx \/ rtl_drop_tx \/ nic_transmit \/ handle_interrupt

RtlSpec == RtlInit /\ [][RtlNext]_rtl_vars

-----------------------------------------------------------------------------
\* Every frame the adapter stored is handed over once, whole and in order,
\* wherever in the ring it began and wrapped.
RtlFramesIntact ==
    \A k \in DOMAIN rtl_received :
        rtl_received[k] = [i \in 1 .. frames[k] |-> <<k, i>>]

\* A transmit buffer is not written to while the adapter reads it
\* (rtl8139.rs; the GEM below marks its only buffer free as soon as it has
\* started the transmission, and may fill it again while it is sent).
RtlTxBufferIsFree == ~overwritten

-----------------------------------------------------------------------------
(***************************************************************************)
(* The GEM network driver (kernel/src/drivers/net/gem.rs): a list of       *)
(* receive descriptors that change hands between the controller and the    *)
(* driver by their ownership bit, and a single transmit buffer.  smoltcp   *)
(* consumes every receive token; a transmit token may be dropped.          *)
(***************************************************************************)
CONSTANTS
    RX_BUF_NUM,
    TX_BUF_NUM,
    GemMaxFrames,      \* frames that arrive
    GemMaxSends

VARIABLES
    phy,            \* "search" at an address, "found" or "failed"
    phy_addr,
    word0,          \* owner of each receive descriptor: "gem" or "cpu"
    gem_rxbuffer,       \* the frame in each receive buffer
    gem_index,      \* where the controller stores the next frame
    stored,         \* frames stored so far
    rx_counter, rxbuffer_reserved,
    gem_received,       \* what the closures of smoltcp were given
    rx_token, tx_token,     \* the index in the token, -1 for none
    used,           \* TX_DESC_USED of each transmit descriptor
    txbuffer,       \* the frame in each transmit buffer
    gem_tx_counter, txbuffer_reserved,
    started,        \* STARTTX was written and not yet obeyed
    sending,        \* the index and the frame the controller is reading, or <<>>
    txcompl,
    sends

gem_rxvars == <<word0, gem_rxbuffer, gem_index, stored, rx_counter, rxbuffer_reserved, gem_received>>
gem_txvars == <<used, txbuffer, gem_tx_counter, txbuffer_reserved, started, sending, txcompl, sends>>
gem_vars == <<phy, phy_addr, gem_rxvars, rx_token, tx_token, gem_txvars>>

RxIds == 0 .. RX_BUF_NUM - 1
GemTxIds == 0 .. TX_BUF_NUM - 1

GemTypeOK ==
    /\ phy \in {"search", "found", "failed"} /\ phy_addr \in 0 .. 31
    /\ word0 \in [RxIds -> {"gem", "cpu"}]
    /\ gem_index \in RxIds /\ rx_counter \in RxIds
    /\ rxbuffer_reserved = [i \in RxIds |-> i = rx_token]
    /\ txbuffer_reserved = [i \in GemTxIds |-> i = tx_token]
    /\ used \in [GemTxIds -> BOOLEAN]

GemInit ==
    /\ phy \in {"search", "found"}         \* no address given, or one
    /\ phy_addr = 0
    /\ word0 = [i \in RxIds |-> "gem"]
    /\ gem_rxbuffer = [i \in RxIds |-> 0]
    /\ gem_index = 0
    /\ stored = 0
    /\ rx_counter = 0
    /\ rxbuffer_reserved = [i \in RxIds |-> FALSE]
    /\ gem_received = <<>>
    /\ rx_token = -1
    /\ tx_token = -1
    /\ used = [i \in GemTxIds |-> TRUE]
    /\ txbuffer = [i \in GemTxIds |-> 0]
    /\ gem_tx_counter = 0
    /\ txbuffer_reserved = [i \in GemTxIds |-> FALSE]
    /\ started = FALSE
    /\ sending = <<>>
    /\ txcompl = FALSE
    /\ sends = 0

\* init_device tries the 32 addresses of the management bus.
probe_phy ==
    /\ phy = "search"
    /\ \/ phy' = "found" /\ UNCHANGED phy_addr
       \/ phy_addr < 31 /\ phy_addr' = phy_addr + 1 /\ UNCHANGED phy
       \/ phy_addr = 31 /\ phy' = "failed" /\ UNCHANGED phy_addr
    /\ UNCHANGED <<gem_rxvars, rx_token, tx_token, gem_txvars>>

-----------------------------------------------------------------------------
(* Receiving.                                                              *)

\* The controller takes the descriptors in order; without a free one the
\* frame is lost.
gem_store ==
    /\ phy = "found"
    /\ stored < GemMaxFrames
    /\ word0[gem_index] = "gem"
    /\ word0' = [word0 EXCEPT ![gem_index] = "cpu"]
    /\ gem_rxbuffer' = [gem_rxbuffer EXCEPT ![gem_index] = stored + 1]
    /\ stored' = stored + 1
    /\ gem_index' = (gem_index + 1) % RX_BUF_NUM
    /\ UNCHANGED <<phy, phy_addr, rx_counter, rxbuffer_reserved, gem_received, rx_token, tx_token,
                   gem_txvars>>

\* The first descriptor of the set S, from start on and around the ring of n; -1 for none.
First(S, n, start) ==
    LET hits == {i \in 0 .. n - 1 : (i + start) % n \in S}
    IN  IF hits = {} THEN -1
        ELSE ((CHOOSE i \in hits : \A j \in hits : i <= j) + start) % n

\* Mutant: the scan begins at the first descriptor.
next_rx_index_first == First({i \in DOMAIN word0 : word0[i] = "cpu"}, RX_BUF_NUM, 0)

next_rx_index == First({i \in DOMAIN word0 : word0[i] = "cpu"}, RX_BUF_NUM, rx_counter)

next_tx_index ==
    First({i \in DOMAIN used : used[i] /\ ~txbuffer_reserved[i]}, TX_BUF_NUM, gem_tx_counter)

reserve_tx_index(i) ==
    /\ tx_token' = i
    /\ gem_tx_counter' = (i + 1) % TX_BUF_NUM
    /\ txbuffer_reserved' = [txbuffer_reserved EXCEPT ![i] = TRUE]

gem_receive ==
    /\ phy = "found"
    /\ rx_token = -1 /\ tx_token = -1
    /\ next_rx_index # -1 /\ next_tx_index # -1
    /\ reserve_tx_index(next_tx_index)
    /\ rx_token' = next_rx_index
    /\ rx_counter' = (next_rx_index + 1) % RX_BUF_NUM
    /\ rxbuffer_reserved' = [rxbuffer_reserved EXCEPT ![next_rx_index] = TRUE]
    /\ UNCHANGED <<phy, phy_addr, word0, gem_rxbuffer, gem_index, stored, gem_received, used, txbuffer,
                   started, sending, txcompl, sends>>

\* RxToken::consume, rx_buffer_consumed and the drop of the token.
gem_consume_rx ==
    /\ rx_token # -1
    /\ gem_received' = Append(gem_received, gem_rxbuffer[rx_token])
    /\ word0' = [word0 EXCEPT ![rx_token] = "gem"]
    /\ rxbuffer_reserved' = [rxbuffer_reserved EXCEPT ![rx_token] = FALSE]
    /\ rx_token' = -1
    /\ UNCHANGED <<phy, phy_addr, gem_rxbuffer, gem_index, stored, rx_counter, tx_token, gem_txvars>>

-----------------------------------------------------------------------------
(* Sending.                                                                *)

\* handle_interrupt acknowledges a completed transmission.
gem_transmit ==
    /\ phy = "found"
    /\ rx_token = -1 /\ tx_token = -1
    /\ txcompl' = FALSE
    /\ next_tx_index # -1
    /\ reserve_tx_index(next_tx_index)
    /\ UNCHANGED <<phy, phy_addr, gem_rxvars, rx_token, used, txbuffer, started, sending, sends>>

\* TxToken::consume up to the start of the transmission.
gem_consume_tx ==
    /\ tx_token # -1
    /\ used[tx_token]
    /\ sends < GemMaxSends
    /\ sends' = sends + 1
    /\ used' = [used EXCEPT ![tx_token] = FALSE]
    /\ txbuffer' = [txbuffer EXCEPT ![tx_token] = sends + 1]
    /\ started' = TRUE
    /\ txcompl' = FALSE
    /\ UNCHANGED <<phy, phy_addr, gem_rxvars, rx_token, tx_token, gem_tx_counter, txbuffer_reserved,
                   sending>>

\* Its end marks the buffer as used, whether or not it was sent, and drops the
\* token.
consume_tx_end ==
    /\ tx_token # -1
    /\ ~used[tx_token]
    /\ used' = [used EXCEPT ![tx_token] = TRUE]
    /\ txbuffer_reserved' = [txbuffer_reserved EXCEPT ![tx_token] = FALSE]
    /\ tx_token' = -1
    /\ UNCHANGED <<phy, phy_addr, gem_rxvars, rx_token, txbuffer, gem_tx_counter, started, sending,
                   txcompl, sends>>

gem_drop_tx ==
    /\ tx_token # -1
    /\ used[tx_token]
    /\ txbuffer_reserved' = [txbuffer_reserved EXCEPT ![tx_token] = FALSE]
    /\ tx_token' = -1
    /\ UNCHANGED <<phy, phy_addr, gem_rxvars, rx_token, used, txbuffer, gem_tx_counter, started,
                   sending, txcompl, sends>>

\* The controller reads the descriptor; one that is marked used ends the
\* transmission at once.
gem_fetch ==
    /\ started
    /\ started' = FALSE
    /\ sending' \in IF used[0] THEN {sending} ELSE {<<0, txbuffer[0]>>}
    /\ UNCHANGED <<phy, phy_addr, gem_rxvars, rx_token, tx_token, used, txbuffer, gem_tx_counter,
                   txbuffer_reserved, txcompl, sends>>

gem_sent ==
    /\ sending # <<>>
    /\ sending' = <<>>
    /\ txcompl' = TRUE
    /\ UNCHANGED <<phy, phy_addr, gem_rxvars, rx_token, tx_token, used, txbuffer, gem_tx_counter,
                   txbuffer_reserved, started, sends>>

GemNext ==
    \/ probe_phy \/ gem_store \/ gem_receive \/ gem_consume_rx \/ gem_transmit \/ gem_consume_tx
    \/ consume_tx_end \/ gem_drop_tx \/ gem_fetch \/ gem_sent

GemSpec == GemInit /\ [][GemNext]_gem_vars

-----------------------------------------------------------------------------
\* The frames reach smoltcp in the order they were stored, none twice, none
\* left out, though the list wraps and the controller runs ahead.
GemFramesIntact == gem_received = [i \in DOMAIN gem_received |-> i]

-----------------------------------------------------------------------------
(***************************************************************************)
(* The network drivers that keep received frames in a queue: the loopback  *)
(* (kernel/src/drivers/net/loopback.rs), where what is sent is received,   *)
(* and the USB adapter (rtl8152.rs, usb-oxide/src/r8152.rs), where one     *)
(* transfer at a time is armed.  smoltcp borrows the driver for as long as *)
(* it has tokens, so there is one receive token at most, beside its        *)
(* transmit token; both are consumed or dropped in either order.           *)
(*                                                                         *)
(* A frame is [id, len]; the adapter announces a length, sends so many     *)
(* bytes, and adds a descriptor and a CRC.                                 *)
(***************************************************************************)
CONSTANTS
    RTL8152_MTU,
    RX_DESC_SIZE,
    CRC_SIZE,
    Announced,      \* lengths the adapter may announce
    Transferred,    \* bytes a transfer may carry
    PacketMaxFrames

VARIABLES
    device,         \* "loopback" or "rtl8152"
    queue,          \* rx_queue
    reserved_receives,
    tokens,         \* tokens smoltcp holds: a subset of {"rx", "tx"}
    rx_buf,         \* "none", "armed"
    owned,          \* the adapter may still write to the receive buffer
    event,          \* completion of the armed transfer: <<>>, or its outcome
    live,           \* receive buffers that are allocated
    ids,            \* frames so far
    given,          \* what the closures were given
    packet_panicked

packet_vars == <<device, queue, reserved_receives, tokens, rx_buf, owned, event, live, ids, given,
                 packet_panicked>>

Min2(a, b) == IF a < b THEN a ELSE b
SaturatingSub(a, b) == IF a > b THEN a - b ELSE 0

PacketTypeOK ==
    /\ device \in {"loopback", "rtl8152"}
    /\ reserved_receives \in 0 .. 1
    /\ tokens \subseteq {"rx", "tx"}
    /\ rx_buf \in {"none", "armed"}
    /\ live \in 0 .. 1
    /\ ids \in 0 .. PacketMaxFrames

PacketInit ==
    /\ device \in {"loopback", "rtl8152"}
    /\ queue = <<>>
    /\ reserved_receives = 0
    /\ tokens = {}
    /\ rx_buf = "none"
    /\ owned = FALSE
    /\ event = <<>>
    /\ live = 0
    /\ ids = 0
    /\ given = <<>>
    /\ packet_panicked = FALSE

-----------------------------------------------------------------------------
(* The adapter.                                                            *)

Failed == [id |-> 0, announced |-> 0, transferred |-> 0]

\* A frame arrives: the transfer ends well, or with an error.
usb_receive ==
    /\ owned
    /\ ids < PacketMaxFrames
    /\ owned' = FALSE
    /\ \/ \E a \in Announced, t \in Transferred :
             /\ event' = <<[id |-> ids + 1, announced |-> a, transferred |-> t]>>
             /\ ids' = ids + 1
       \/ event' = <<Failed>> /\ UNCHANGED ids
    /\ UNCHANGED <<device, queue, reserved_receives, tokens, rx_buf, live, given, packet_panicked>>

\* copy_received_packet
payload_len(e) ==
    Min2(Min2(SaturatingSub(e.announced, CRC_SIZE), SaturatingSub(e.transferred, RX_DESC_SIZE)),
         RTL8152_MTU)

\* arm_receive: a buffer that cannot be had, or queued, is tried again at the
\* next poll.
ArmReceive ==
    \/ rx_buf' = "armed" /\ owned' = TRUE /\ live' = 1
    \/ rx_buf' = "none" /\ owned' = FALSE /\ live' = 0

\* poll_rx, one turn of its loop: without a buffer one is armed; a completed
\* transfer is queued or dropped, its buffer freed and a new one armed.
poll_rx ==
    /\ device = "rtl8152"
    /\ tokens = {}
    /\ \/ /\ rx_buf = "none"
          /\ ArmReceive
          /\ UNCHANGED <<event, queue>>
       \/ /\ rx_buf = "armed"
          /\ event # <<>>
          /\ event' = <<>>
          /\ LET e == event[1]
             IN  queue' = IF e # Failed /\ e.transferred >= RX_DESC_SIZE
                          THEN Append(queue, [id |-> e.id, len |-> payload_len(e),
                                              room |-> e.transferred - RX_DESC_SIZE])
                          ELSE queue
          /\ ArmReceive
    /\ UNCHANGED <<device, reserved_receives, tokens, ids, given, packet_panicked>>

-----------------------------------------------------------------------------
(* The tokens.                                                             *)

packet_receive ==
    /\ tokens = {}
    /\ ~packet_panicked
    /\ Len(queue) > reserved_receives
    /\ reserved_receives' = reserved_receives + 1
    /\ tokens' = {"rx", "tx"}
    /\ UNCHANGED <<device, queue, rx_buf, owned, event, live, ids, given, packet_panicked>>

packet_transmit ==
    /\ tokens = {}
    /\ ~packet_panicked
    /\ tokens' = {"tx"}
    /\ UNCHANGED <<device, queue, reserved_receives, rx_buf, owned, event, live, ids, given,
                   packet_panicked>>

\* RxToken::consume takes the first frame, which must be there.
packet_consume_rx ==
    /\ "rx" \in tokens
    /\ IF queue # <<>>
       THEN /\ given' = Append(given, Head(queue))
            /\ queue' = Tail(queue)
            /\ UNCHANGED packet_panicked
       ELSE packet_panicked' = TRUE /\ UNCHANGED <<given, queue>>
    /\ tokens' = tokens \ {"rx"}
    /\ reserved_receives' = reserved_receives - 1
    /\ UNCHANGED <<device, rx_buf, owned, event, live, ids>>

\* TxToken::consume: the loopback queues the frame, write_packet sends it.
packet_consume_tx ==
    /\ "tx" \in tokens
    /\ tokens' = tokens \ {"tx"}
    /\ \/ /\ device = "loopback"
          /\ ids < PacketMaxFrames
          /\ ids' = ids + 1
          /\ \E n \in 1 .. RTL8152_MTU :
                queue' = Append(queue, [id |-> ids + 1, len |-> n, room |-> n])
       \/ /\ device = "rtl8152"
          /\ UNCHANGED <<ids, queue>>
    /\ UNCHANGED <<device, reserved_receives, rx_buf, owned, event, live, given, packet_panicked>>

drop_token ==
    /\ \E t \in tokens :
          /\ tokens' = tokens \ {t}
          /\ reserved_receives' = reserved_receives - (IF t = "rx" THEN 1 ELSE 0)
    /\ UNCHANGED <<device, queue, rx_buf, owned, event, live, ids, given, packet_panicked>>

PacketNext ==
    \/ usb_receive \/ poll_rx \/ packet_receive \/ packet_transmit \/ packet_consume_rx \/ packet_consume_tx \/ drop_token

PacketSpec == PacketInit /\ [][PacketNext]_packet_vars

-----------------------------------------------------------------------------
\* A receive token always finds its frame; what it hands over are the frames
\* in the order they came, none longer than what was really transferred; and
\* the armed buffer is allocated for as long as the adapter may write to it.
PacketFramesIntact ==
    /\ ~packet_panicked
    /\ \A k \in DOMAIN given : given[k].len <= given[k].room
    /\ \A j, k \in DOMAIN given : j < k => given[j].id < given[k].id
    /\ owned => live = 1
=============================================================================

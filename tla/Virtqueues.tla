----------------------------- MODULE Virtqueues ------------------------------
(***************************************************************************)
(* The two layouts of a virtqueue: split and packed.                       *)
(***************************************************************************)
EXTENDS Integers, Sequences, FiniteSets, FiniteSetsExt

-----------------------------------------------------------------------------
(* The split virtqueue (kernel/src/drivers/virtio/virtqueue/split.rs) and   *)
(* the index allocator of virtqueue/mod.rs, with the device that shares its *)
(* three areas.  The driver holds its lock; the device runs beside it and   *)
(* sees the table, the ring entry and the ring index being written one      *)
(* after the other.  Ring indexes are 16 bits wide in the code: IdxMod is   *)
(* that width here, a multiple of the queue's size as 2^16 is.              *)
CONSTANTS
  SplitSize,         \* queue size
  IdxMod,       \* modulus of the ring indexes
  SplitLengths,      \* descriptors a buffer may have
  SplitMaxBuffers    \* bound: buffers dispatched

\* A virtqueue's size is a power of two of at most 2^15 (the device's, or the
\* max_size that set_vq_size writes), so it divides the modulus 2^16 of the ring
\* indexes and is less.  Every buffer has a descriptor.
SplitAssumption ==
  /\ SplitSize \in Nat \ {0}
  /\ IdxMod \in Nat /\ IdxMod % SplitSize = 0 /\ SplitSize < IdxMod
  /\ SplitLengths \subseteq Nat \ {0}
  /\ SplitMaxBuffers \in Nat

VARIABLES
  split_indexes,      \* allocated descriptor indexes (IndexAlloc.bits)
  descr_table,  \* per index: the buffer and the element it describes, and next
  token_ring,   \* per index: the TransferToken filed under that head
  avail_ring,   \* [idx, ring], written by the driver
  used_ring,    \* [idx, ring], written by the device
  read_idx,
  push_pc,      \* "idle", "entry" or "publish": how far push has come
  push_head,    \* head of the chain being pushed
  dev_idx,      \* the device's position in avail_ring
  split_inflight,     \* heads the device has taken and not yet used
  split_done,         \* what the device has used and try_recv not yet returned
  split_got,          \* what the last try_recv returned
  split_dispatched    \* number of buffers so far

split_vars == <<split_indexes, descr_table, token_ring, avail_ring, used_ring, read_idx,
                push_pc, push_head, dev_idx, split_inflight, split_done, split_got, split_dispatched>>

SplitCells == 0..SplitSize - 1
None == -1
NoToken == [buf |-> 0, n |-> 0]

SplitInit ==
  /\ split_indexes = {}
  /\ descr_table = [i \in SplitCells |-> [buf |-> 0, elem |-> 0, next |-> None]]
  /\ token_ring = [i \in SplitCells |-> NoToken]
  /\ avail_ring = [idx |-> 0, ring |-> [i \in SplitCells |-> 0]]
  /\ used_ring = [idx |-> 0, ring |-> [i \in SplitCells |-> 0]]
  /\ read_idx = 0
  /\ push_pc = "idle" /\ push_head = None
  /\ dev_idx = 0 /\ split_inflight = {}
  /\ split_done = <<>> /\ split_got = NoToken /\ split_dispatched = 0

\* IndexAlloc::allocate, n times: the lowest indexes that are free, in order.
allocate(n) ==
  CHOOSE s \in [1..n -> SplitCells \ split_indexes] :
    /\ \A k \in 1..n - 1 : s[k] < s[k + 1]
    /\ \A i \in SplitCells \ split_indexes : i <= s[n] => \E k \in 1..n : s[k] = i

\* The table after the elements of buffer b are written, the last one first.
written(b, s) ==
  LET n == Len(s) IN
  [i \in SplitCells |->
     IF \E k \in 1..n : s[k] = i
       THEN LET k == CHOOSE k \in 1..n : s[k] = i IN
            [buf |-> b, elem |-> n + 1 - k, next |-> IF k = 1 THEN None ELSE s[k - 1]]
       ELSE descr_table[i]]

\* DescrRing::push up to the token: the chain is in the table.
push(n) ==
  /\ push_pc = "idle"
  /\ split_dispatched < SplitMaxBuffers
  /\ n <= Cardinality(SplitCells \ split_indexes)
  /\ LET s == allocate(n) IN
       /\ split_indexes' = split_indexes \cup {s[k] : k \in 1..n}
       /\ descr_table' = written(split_dispatched + 1, s)
       /\ push_head' = s[n]
       /\ token_ring' = [token_ring EXCEPT ![s[n]] = [buf |-> split_dispatched + 1, n |-> n]]
  /\ split_dispatched' = split_dispatched + 1
  /\ push_pc' = "entry"
  /\ UNCHANGED <<avail_ring, used_ring, read_idx, dev_idx, split_inflight, split_done, split_got>>

\* DescrRing::push when the indexes run out: NoDescrAvail, and the indexes
\* taken so far stay allocated.
push_fails(n) ==
  /\ push_pc = "idle"
  /\ split_dispatched < SplitMaxBuffers
  /\ n > Cardinality(SplitCells \ split_indexes)
  /\ split_indexes' = SplitCells
  /\ UNCHANGED <<descr_table, token_ring, avail_ring, used_ring, read_idx, push_pc,
                 push_head, dev_idx, split_inflight, split_done, split_got, split_dispatched>>

\* DescrRing::push: the head goes into the available ring.
push_entry ==
  /\ push_pc = "entry"
  /\ avail_ring' = [avail_ring EXCEPT !.ring[avail_ring.idx % SplitSize] = push_head]
  /\ push_pc' = "publish"
  /\ UNCHANGED <<split_indexes, descr_table, token_ring, used_ring, read_idx, push_head,
                 dev_idx, split_inflight, split_done, split_got, split_dispatched>>

\* DescrRing::push: after the barrier, the index that publishes the entry.
push_publish ==
  /\ push_pc = "publish"
  /\ avail_ring' = [avail_ring EXCEPT !.idx = (@ + 1) % IdxMod]
  /\ push_pc' = "idle" /\ push_head' = None
  /\ UNCHANGED <<split_indexes, descr_table, token_ring, used_ring, read_idx,
                 dev_idx, split_inflight, split_done, split_got, split_dispatched>>

\* The indexes that the next fields lead to from head, and None behind the last one.
follow(head) ==
  LET at[j \in 1..SplitSize] ==
        IF j = 1 THEN head
        ELSE IF at[j - 1] = None THEN None ELSE descr_table[at[j - 1]].next
  IN at

\* The chain that starts at head, as a sequence of indexes.
chain(head) ==
  LET at == follow(head)
      n == Cardinality({k \in 1..SplitSize : at[k] # None})
  IN [k \in 1..n |-> at[k]]

\* Mutant of try_recv: only the head of the chain is returned to the allocator.
try_recv_head ==
  /\ push_pc = "idle"
  /\ read_idx # used_ring.idx
  /\ LET id == used_ring.ring[read_idx % SplitSize] IN
       /\ split_got' = token_ring[id]
       /\ token_ring' = [token_ring EXCEPT ![id] = NoToken]
       /\ split_indexes' = split_indexes \ {id}
  /\ read_idx' = (read_idx + 1) % IdxMod
  /\ split_done' = Tail(split_done)
  /\ UNCHANGED <<descr_table, avail_ring, used_ring, push_pc, push_head, dev_idx,
                 split_inflight, split_dispatched>>

\* DescrRing::try_recv.
try_recv ==
  /\ push_pc = "idle"
  /\ read_idx # used_ring.idx
  /\ LET id == used_ring.ring[read_idx % SplitSize]
         freed == {chain(id)[k] : k \in DOMAIN chain(id)} IN
       /\ split_got' = token_ring[id]
       /\ token_ring' = [token_ring EXCEPT ![id] = NoToken]
       /\ split_indexes' = split_indexes \ freed
  /\ read_idx' = (read_idx + 1) % IdxMod
  /\ split_done' = Tail(split_done)
  /\ UNCHANGED <<descr_table, avail_ring, used_ring, push_pc, push_head, dev_idx,
                 split_inflight, split_dispatched>>

\* The device takes the next chain that was made available ...
split_device_fetch ==
  /\ dev_idx # avail_ring.idx
  /\ split_inflight' = split_inflight \cup {avail_ring.ring[dev_idx % SplitSize]}
  /\ dev_idx' = (dev_idx + 1) % IdxMod
  /\ UNCHANGED <<split_indexes, descr_table, token_ring, avail_ring, used_ring, read_idx,
                 push_pc, push_head, split_done, split_got, split_dispatched>>

\* ... and uses the ones it has in any order.
split_device_use ==
  \E head \in split_inflight :
    /\ used_ring' = [idx |-> (used_ring.idx + 1) % IdxMod,
                     ring |-> [used_ring.ring EXCEPT ![used_ring.idx % SplitSize] = head]]
    /\ split_inflight' = split_inflight \ {head}
    /\ split_done' = Append(split_done, [buf |-> descr_table[head].buf, n |-> Len(chain(head))])
    /\ UNCHANGED <<split_indexes, descr_table, token_ring, avail_ring, read_idx, push_pc,
                   push_head, dev_idx, split_got, split_dispatched>>

SplitNext ==
  \/ \E n \in SplitLengths : push(n) \/ push_fails(n)
  \/ push_entry \/ push_publish \/ try_recv
  \/ split_device_fetch \/ split_device_use

SplitSpec == SplitInit /\ [][SplitNext]_split_vars

SplitTypeOK ==
  /\ split_indexes \subseteq SplitCells /\ split_inflight \subseteq SplitCells
  /\ avail_ring.idx \in 0..IdxMod - 1 /\ used_ring.idx \in 0..IdxMod - 1
  /\ read_idx \in 0..IdxMod - 1 /\ dev_idx \in 0..IdxMod - 1
  /\ push_pc \in {"idle", "entry", "publish"}
  /\ split_dispatched \in 0..SplitMaxBuffers

\* What the device has been given and not yet used: entries it has not taken
\* from the ring, and chains it has taken.
OwnedHeads ==
  split_inflight \cup
  {avail_ring.ring[(dev_idx + k) % SplitSize] : k \in 0..((avail_ring.idx - dev_idx) % IdxMod) - 1}

\* A chain the device owns is whole and is the one filed under its head: no
\* descriptor of it has been handed out again, whatever was returned, leaked or
\* dispatched since (push, try_recv and IndexAlloc).
ChainIsIntact ==
  \A head \in OwnedHeads :
    LET c == chain(head) IN
    /\ token_ring[head].n = Len(c)
    /\ \A k \in DOMAIN c :
         /\ c[k] \in split_indexes
         /\ descr_table[c[k]].buf = token_ring[head].buf
         /\ descr_table[c[k]].elem = k

\* The queue keeps the promise of BufferQueue: what try_recv returns is what
\* the device used, in that order, and every descriptor of it is free again.
SplitQueue == INSTANCE BufferQueue WITH
  free <- SplitSize - Cardinality(split_indexes)
          + (IF push_pc = "idle" THEN 0 ELSE token_ring[push_head].n),
  held <- {token_ring[h] : h \in OwnedHeads},
  used <- split_done, got <- split_got
SplitTokens == [buf : 1..SplitMaxBuffers, n : SplitLengths]

-----------------------------------------------------------------------------
(* The packed virtqueue (kernel/src/drivers/virtio/virtqueue/packed.rs): one *)
(* ring that both sides write, in which two flags beside every descriptor    *)
(* and a wrap counter on each side say whose it is.  A chain is written one  *)
(* descriptor at a time, its first flags last; the device runs beside it.    *)
CONSTANTS
  PackedSize,         \* queue size
  PackedLengths,      \* descriptors a buffer may have
  PackedMaxBuffers    \* bound: buffers dispatched

VARIABLES
  ring,         \* per cell: id, element (buf, elem), and the NEXT, AVAIL, USED flags
  tkn_ref_ring, \* per id: the TransferToken
  write_index,  \* [off, wrap]
  poll_index,   \* [off, wrap]
  capacity,
  packed_indexes,      \* allocated ids
  ctrl,         \* WriteCtrl of the push under way: start, id, n, k written, flags
  dev_avail,    \* [off, wrap]: where the device looks for the next chain
  dev_used,     \* [off, wrap]: where it writes the next used descriptor
  packed_inflight,     \* chains it has read: [id, buf, n, whole]
  packed_done,         \* what it has used and try_recv not yet returned
  packed_got,
  packed_dispatched

packed_vars == <<ring, tkn_ref_ring, write_index, poll_index, capacity, packed_indexes, ctrl,
                 dev_avail, dev_used, packed_inflight, packed_done, packed_got, packed_dispatched>>

PackedCells == 0..PackedSize - 1
Blank == [id |-> 0, buf |-> 0, elem |-> 0, next |-> FALSE, avail |-> 0, used |-> 0]
NoCtrl == [start |-> 0, id |-> 0, n |-> 0, k |-> 0, wrap |-> 0]

\* DescriptorRing::new: both indexes start at 0 with the wrap counter set.
PackedInit ==
  /\ ring = [i \in PackedCells |-> Blank]
  /\ tkn_ref_ring = [i \in PackedCells |-> NoToken]
  /\ write_index = [off |-> 0, wrap |-> 1] /\ poll_index = [off |-> 0, wrap |-> 1]
  /\ capacity = PackedSize /\ packed_indexes = {} /\ ctrl = NoCtrl
  /\ dev_avail = [off |-> 0, wrap |-> 1] /\ dev_used = [off |-> 0, wrap |-> 1]
  /\ packed_inflight = {} /\ packed_done = <<>> /\ packed_got = NoToken /\ packed_dispatched = 0

\* WriteCtrl::incrmt and ReadCtrl::incrmt, n times: past the last cell the
\* position starts again and the wrap counter flips.
incrmt(p, n) ==
  [off |-> (p.off + n) % PackedSize,
   wrap |-> IF p.off + n >= PackedSize THEN 1 - p.wrap ELSE p.wrap]

\* push_without_making_available: the capacity check and the buffer id.
get_write_ctrler(n) ==
  /\ ctrl = NoCtrl
  /\ packed_dispatched < PackedMaxBuffers
  /\ n <= capacity
  /\ LET id == Min(PackedCells \ packed_indexes) IN
       /\ packed_indexes' = packed_indexes \cup {id}
       /\ ctrl' = [start |-> write_index.off, id |-> id, n |-> n, k |-> 0,
                   wrap |-> write_index.wrap]
  /\ packed_dispatched' = packed_dispatched + 1
  /\ UNCHANGED <<ring, tkn_ref_ring, write_index, poll_index, capacity, dev_avail,
                 dev_used, packed_inflight, packed_done, packed_got>>

\* WriteCtrl::write_desc: every descriptor but the first carries its flags.
write_desc ==
  /\ ctrl.k < ctrl.n
  /\ LET first == write_index.off = ctrl.start IN
       ring' = [ring EXCEPT ![write_index.off] =
                 [id |-> ctrl.id, buf |-> packed_dispatched, elem |-> ctrl.k + 1,
                  next |-> ctrl.k + 1 < ctrl.n,
                  avail |-> IF first THEN 0 ELSE write_index.wrap,
                  used |-> IF first THEN 0 ELSE 1 - write_index.wrap]]
  /\ write_index' = incrmt(write_index, 1)
  /\ capacity' = capacity - 1
  /\ ctrl' = [ctrl EXCEPT !.k = @ + 1]
  /\ UNCHANGED <<tkn_ref_ring, poll_index, packed_indexes, dev_avail, dev_used, packed_inflight,
                 packed_done, packed_got, packed_dispatched>>

\* DescriptorRing::make_avail_with_state: the token, then the first flags.
make_avail_with_state ==
  /\ ctrl # NoCtrl /\ ctrl.k = ctrl.n
  /\ tkn_ref_ring' = [tkn_ref_ring EXCEPT ![ctrl.id] = [buf |-> packed_dispatched, n |-> ctrl.n]]
  /\ ring' = [ring EXCEPT ![ctrl.start].avail = ctrl.wrap,
                          ![ctrl.start].used = 1 - ctrl.wrap]
  /\ ctrl' = NoCtrl
  /\ UNCHANGED <<write_index, poll_index, capacity, packed_indexes, dev_avail, dev_used,
                 packed_inflight, packed_done, packed_got, packed_dispatched>>

\* DescriptorRing::is_marked_used under the driver's poll wrap counter.
is_marked_used(d) == d.avail = poll_index.wrap /\ d.used = poll_index.wrap

\* ReadCtrl::poll_next.
poll_next ==
  /\ ctrl = NoCtrl
  /\ is_marked_used(ring[poll_index.off])
  /\ LET id == ring[poll_index.off].id
         tkn == tkn_ref_ring[id] IN
       /\ packed_got' = tkn
       /\ tkn_ref_ring' = [tkn_ref_ring EXCEPT ![id] = NoToken]
       /\ poll_index' = incrmt(poll_index, tkn.n)
       /\ capacity' = capacity + tkn.n
       /\ packed_indexes' = packed_indexes \ {id}
  /\ packed_done' = IF packed_done = <<>> THEN packed_done ELSE Tail(packed_done)
  /\ UNCHANGED <<ring, write_index, ctrl, dev_avail, dev_used, packed_inflight, packed_dispatched>>

\* The device finds a descriptor marked available at its position and reads
\* the chain that starts there.
packed_device_fetch ==
  LET at(k) == ring[(dev_avail.off + k) % PackedSize]
      n == 1 + CHOOSE k \in 0..PackedSize : k = PackedSize \/ (~at(k).next /\ \A j \in 0..k - 1 : at(j).next) IN
  /\ at(0).avail = dev_avail.wrap /\ at(0).used # dev_avail.wrap
  /\ packed_inflight' = packed_inflight \cup
       {[id |-> at(0).id, buf |-> at(0).buf, n |-> n,
         whole |-> \A k \in 0..n - 1 : at(k).buf = at(0).buf /\ at(k).elem = k + 1
                                       /\ at(k).id = at(0).id]}
  /\ dev_avail' = incrmt(dev_avail, n)
  /\ UNCHANGED <<ring, tkn_ref_ring, write_index, poll_index, capacity, packed_indexes, ctrl,
                 dev_used, packed_done, packed_got, packed_dispatched>>

\* It uses the chains it has read in any order, each with one descriptor.
packed_device_use ==
  \E c \in packed_inflight :
    /\ ring' = [ring EXCEPT ![dev_used.off] = [@ EXCEPT !.id = c.id, !.next = FALSE,
                  !.avail = dev_used.wrap, !.used = dev_used.wrap]]
    /\ dev_used' = incrmt(dev_used, c.n)
    /\ packed_inflight' = packed_inflight \ {c}
    /\ packed_done' = Append(packed_done, [buf |-> c.buf, n |-> c.n])
    /\ UNCHANGED <<tkn_ref_ring, write_index, poll_index, capacity, packed_indexes, ctrl,
                   dev_avail, packed_got, packed_dispatched>>

PackedNext ==
  \/ \E n \in PackedLengths : get_write_ctrler(n)
  \/ write_desc \/ make_avail_with_state \/ poll_next
  \/ packed_device_fetch \/ packed_device_use

PackedSpec == PackedInit /\ [][PackedNext]_packed_vars

PackedTypeOK ==
  /\ capacity \in 0..PackedSize /\ packed_indexes \subseteq PackedCells
  /\ \A p \in {write_index, poll_index, dev_avail, dev_used} : p \in [off : PackedCells, wrap : 0..1]
  /\ packed_got \in [buf : 0..PackedMaxBuffers, n : {0} \cup PackedLengths]

\* The device never reads a chain the driver has not finished, and what it
\* reads is the chain of one buffer, under its own id (write_desc's deferred
\* first flags, and the wrap counters of both sides).
ChainIsWhole == \A c \in packed_inflight : c.whole /\ tkn_ref_ring[c.id] = [buf |-> c.buf, n |-> c.n]

\* What the driver has made available and the device not yet read.
Unread ==
  {tkn_ref_ring[id] : id \in {i \in packed_indexes :
     /\ tkn_ref_ring[i] # NoToken
     /\ \A c \in packed_inflight : c.id # i
     /\ \A k \in DOMAIN packed_done : packed_done[k] # tkn_ref_ring[i]}}

\* The queue keeps the promise of BufferQueue.
PackedQueue == INSTANCE BufferQueue WITH
  free <- capacity + ctrl.k,
  held <- Unread \cup {[buf |-> c.buf, n |-> c.n] : c \in packed_inflight},
  used <- packed_done, got <- packed_got
PackedTokens == [buf : 1..PackedMaxBuffers, n : PackedLengths]
=============================================================================

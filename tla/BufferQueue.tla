---------------------------- MODULE BufferQueue ----------------------------
(* What a virtqueue promises a driver (trait Virtq in                       *)
(* kernel/src/drivers/virtio/virtqueue/mod.rs): a pool of descriptors, the  *)
(* buffers the device holds and the buffers it has finished, in the order   *)
(* in which it finished them.  Both layouts of Virtqueues implement it, and *)
(* the drivers of VirtioDevices are built on it.                            *)
EXTENDS Integers, Sequences

VARIABLES
  free,     \* the number of descriptors that can still be used
  held,     \* the buffers made available and not yet used: [buf, n]
  used,     \* the buffers the device has used and the driver not yet taken
  got       \* the buffer the last try_recv returned

bufferqueue_vars == <<free, held, used, got>>

Nothing == [buf |-> 0, n |-> 0]

InitQueue(size) == free = size /\ held = {} /\ used = <<>> /\ got = Nothing

\* Virtq::dispatch of a buffer t of t.n descriptors.
dispatch(t) ==
  /\ t.n <= free
  /\ free' = free - t.n
  /\ held' = held \cup {t}
  /\ UNCHANGED <<used, got>>

\* A dispatch that returns NoDescrAvail: the packed ring is left as it is, the
\* split ring has lost every descriptor that was free (they are allocated one
\* by one, and not returned).
refuse ==
  /\ free' \in {0, free}
  /\ UNCHANGED <<held, used, got>>

\* The device is done with a buffer.
complete ==
  \E t \in held :
    /\ held' = held \ {t}
    /\ used' = Append(used, t)
    /\ UNCHANGED <<free, got>>

\* Virtq::try_recv when a buffer has been used.
try_recv ==
  /\ used # <<>>
  /\ got' = Head(used)
  /\ used' = Tail(used)
  /\ free' = free + Head(used).n
  /\ UNCHANGED held

QueueNext(Tokens) == (\E t \in Tokens : dispatch(t)) \/ refuse \/ complete \/ try_recv
=============================================================================

------------------------------ MODULE CRuntime -------------------------------
(***************************************************************************)
(* The C runtime under the model's code: threads, and the heap.            *)
(***************************************************************************)
EXTENDS Integers, FiniteSets, FiniteSetsExt

-----------------------------------------------------------------------------
(* The pthread layer the inference runtime's thread pool runs on            *)
(* (bitapp/native/bitapp_runtime.cpp, with BITAPP_ENABLE_SMP_PTHREAD):      *)
(* mutexes and condition variables over the kernel's futex calls.  One      *)
(* mutex and one condition variable, initialised by their first use or by   *)
(* a call, shared by threads that run on several cores; every atomic access *)
(* is a step.  Callers keep to the contract of the calls: only the owner    *)
(* unlocks and waits, and nobody initialises or destroys what another       *)
(* thread still needs (see Needed).                                         *)
CONSTANTS
  Threads,
  MaxCalls      \* bound: calls that need no lock, of all threads together

VARIABLES
  cell,         \* the user's pthread_mutex_t and pthread_cond_t: 0 or a block
  word,         \* the futex word of each block: state of a mutex, seq of a condition
  live,         \* blocks not freed
  asleep,       \* threads in sys_futex_wait
  pt,           \* per thread: pc, the block it works on, what it read, its tid
  owner,        \* threads between lock and unlock
  swept,        \* seq after the last broadcast that has woken its sleepers
  args_tid      \* bitapp_pthread_args.tid of each thread

pthread_vars == <<cell, word, live, asleep, pt, owner, swept, args_tid>>

Objects == {"mutex", "cond"}
\* Each thread may be about to install a block, beside the two installed ones.
Blocks == 1..Cardinality(Threads) + 2
\* bitapp_runtime_calloc: a block given back is handed out again as soon as possible.
Fresh == Min(Blocks \ live)

\* The main thread runs from the start, with the id that bitapp_current_thread begins with.
Main == 1

PthreadInit ==
  /\ cell = [o \in Objects |-> 0]
  /\ word = [b \in Blocks |-> 0]
  /\ live = {} /\ asleep = {} /\ owner = {}
  /\ swept = 0
  /\ pt = [t \in Threads |-> [pc |-> IF t = Main THEN "idle" ELSE "unborn", obj |-> "mutex", block |-> 0, seq |-> 0,
                             op |-> "none", self |-> Main, timed_out |-> FALSE, calls |-> 0]]
  /\ args_tid = [t \in Threads |-> 0]

Go(t, pc) == pt' = [pt EXCEPT ![t].pc = pc]
\* The call returns, and its locals are gone.
Return(t) ==
  pt' = [pt EXCEPT ![t] = [@ EXCEPT !.pc = "idle", !.obj = "mutex", !.block = 0, !.seq = 0, !.op = "none",
                                    !.timed_out = FALSE]]

-----------------------------------------------------------------------------
(* pthread_create and bitapp_pthread_entry *)

spawn(t) ==
  /\ pt[t].pc = "unborn"
  /\ Go(t, "entry")
  /\ UNCHANGED <<cell, word, live, asleep, owner, swept, args_tid>>

\* The creator publishes the id sys_spawn gave it.
publish(t) ==
  /\ pt[t].pc = "entry" /\ args_tid[t] = 0
  /\ args_tid' = [args_tid EXCEPT ![t] = t]
  /\ UNCHANGED <<cell, word, live, asleep, pt, owner, swept>>

entry(t) ==
  /\ pt[t].pc = "entry" /\ args_tid[t] # 0
  /\ pt' = [pt EXCEPT ![t].pc = "idle", ![t].self = args_tid[t]]
  /\ UNCHANGED <<cell, word, live, asleep, owner, swept, args_tid>>

-----------------------------------------------------------------------------
(* A call begins: bitapp_pthread_mutex_get, bitapp_pthread_cond_get *)

Started == MapThenSumSet(LAMBDA u : pt[u].calls, Threads)
NeedsLock(op) == op \in {"unlock", "wait", "timedwait"}
call(t, op) ==
  /\ pt[t].pc = "idle"
  /\ NeedsLock(op) <=> t \in owner
  /\ op \in {"lock", "trylock"} => Started < MaxCalls
  /\ pt' = [pt EXCEPT ![t].pc = "get", ![t].op = op, ![t].calls = IF NeedsLock(op) THEN @ ELSE @ + 1,
                      ![t].obj = IF op \in {"lock", "trylock", "unlock"} THEN "mutex" ELSE "cond"]
  /\ UNCHANGED <<cell, word, live, asleep, owner, swept, args_tid>>

\* A condition may be signalled with or without the mutex.
notify(t, op) ==
  /\ pt[t].pc = "idle" /\ op \in {"signal", "broadcast"} /\ Started < MaxCalls
  /\ pt' = [pt EXCEPT ![t].pc = "get", ![t].op = op, ![t].obj = "cond", ![t].calls = @ + 1]
  /\ UNCHANGED <<cell, word, live, asleep, owner, swept, args_tid>>

get(t) ==
  /\ pt[t].pc = "get"
  /\ IF cell[pt[t].obj] # 0
       THEN /\ pt' = [pt EXCEPT ![t].pc = "do", ![t].block = cell[pt[t].obj]]
            /\ UNCHANGED <<live, word>>
       ELSE \/ /\ pt' = [pt EXCEPT ![t].pc = "install", ![t].block = Fresh]
               /\ live' = live \cup {Fresh}
               /\ word' = [word EXCEPT ![Fresh] = 0]
            \/ Return(t) /\ UNCHANGED <<live, word>>      \* no memory: 22
  /\ UNCHANGED <<cell, asleep, owner, swept, args_tid>>

\* The compare and exchange; who loses frees its block and takes the other's.
install(t) ==
  /\ pt[t].pc = "install"
  /\ IF cell[pt[t].obj] = 0
       THEN /\ cell' = [cell EXCEPT ![pt[t].obj] = pt[t].block]
            /\ Go(t, "do")
            /\ UNCHANGED live
       ELSE /\ live' = live \ {pt[t].block}
            /\ pt' = [pt EXCEPT ![t].pc = "do", ![t].block = cell[pt[t].obj]]
            /\ UNCHANGED cell
  /\ UNCHANGED <<word, asleep, owner, swept, args_tid>>

\* Threads that still need the object: whoever is in a call on it, or holds the mutex, or must take it
\* back after a wait.  Who has released the mutex or counted the condition up needs it no more, though
\* its call has yet to wake a sleeper.
Needed(obj) ==
  {t \in Threads :
     \/ pt[t].obj = obj /\ pt[t].pc \in {"get", "install", "do", "relock", "futex", "release"}
     \/ pt[t].obj = obj /\ pt[t].pc = "sleep" /\ (obj = "mutex" \/ t \in asleep)
     \/ pt[t].op \in {"wait", "timedwait"} /\ pt[t].pc # "idle" /\ (obj = "mutex" \/ pt[t].pc \in {"release", "wake"})
     \/ obj = "mutex" /\ t \in owner}
MayReplace(t, obj) == pt[t].pc = "idle" /\ Started < MaxCalls /\ Needed(obj) = {}

\* pthread_mutex_init, pthread_cond_init of an object that has no block.
init(t, obj) ==
  /\ MayReplace(t, obj) /\ cell[obj] = 0
  /\ cell' = [cell EXCEPT ![obj] = Fresh]
  /\ live' = live \cup {Fresh}
  /\ word' = [word EXCEPT ![Fresh] = 0]
  /\ pt' = [pt EXCEPT ![t].calls = @ + 1]
  /\ UNCHANGED <<asleep, owner, swept, args_tid>>

\* pthread_mutex_destroy, pthread_cond_destroy: the block is freed, though a thread may still be about
\* to pass its address to sys_futex_wake.  (The number that such a broadcast counted to is forgotten.)
destroy(t, obj) ==
  /\ MayReplace(t, obj) /\ cell[obj] # 0
  /\ cell' = [cell EXCEPT ![obj] = 0]
  /\ live' = live \ {cell[obj]}
  /\ swept' = IF obj = "cond" THEN 0 ELSE swept
  /\ pt' = [u \in Threads |->
              [pt[u] EXCEPT !.calls = IF u = t THEN @ + 1 ELSE @,
                            !.seq = IF obj = "cond" /\ pt[u].pc = "notify" THEN 0 ELSE @]]
  /\ UNCHANGED <<word, asleep, owner, args_tid>>

-----------------------------------------------------------------------------
(* Mutexes *)

Locking(t) == pt[t].op \in {"lock", "wait", "timedwait"}

\* pthread_mutex_lock, pthread_mutex_trylock: the compare and exchange.
try_lock(t) ==
  /\ pt[t].pc \in {"do", "relock"} /\ pt[t].obj = "mutex" /\ pt[t].op # "unlock"
  /\ LET b == pt[t].block IN
       \/ /\ word[b] = 0
          /\ word' = [word EXCEPT ![b] = 1]
          /\ owner' = owner \cup {t}
          /\ Return(t)
       \/ /\ word[b] # 0
          /\ IF Locking(t) THEN Go(t, "futex") ELSE Return(t)
          /\ UNCHANGED <<word, owner>>
  /\ UNCHANGED <<cell, live, asleep, swept, args_tid>>

\* sys_futex_wait(&state, 1): sleeps when the word still is 1.
futex_wait_mutex(t) ==
  /\ pt[t].pc = "futex" /\ pt[t].obj = "mutex"
  /\ IF word[pt[t].block] = 1
       THEN Go(t, "sleep") /\ asleep' = asleep \cup {t}
       ELSE Go(t, "relock") /\ UNCHANGED asleep
  /\ UNCHANGED <<cell, word, live, owner, swept, args_tid>>

Sleepers(b) == {t \in asleep : pt[t].block = b}
\* Threads that wake go on: to try the mutex, or to take it back.
Wake(ts) == asleep' = asleep \ ts

woken(t) ==
  /\ pt[t].pc = "sleep" /\ t \notin asleep
  /\ IF pt[t].obj = "mutex" THEN Go(t, "relock") ELSE Go(t, "retake")
  /\ UNCHANGED <<cell, word, live, asleep, owner, swept, args_tid>>

\* pthread_mutex_unlock: the store, then the wake.
unlock(t) ==
  /\ pt[t].pc = "do" /\ pt[t].op = "unlock"
  /\ word' = [word EXCEPT ![pt[t].block] = 0]
  /\ owner' = owner \ {t}
  /\ Go(t, "wake")
  /\ UNCHANGED <<cell, live, asleep, swept, args_tid>>

wake_one(t) ==
  /\ pt[t].pc = "wake"
  /\ IF Sleepers(pt[t].block) = {} THEN UNCHANGED asleep
     ELSE \E u \in Sleepers(pt[t].block) : Wake({u})
  /\ IF pt[t].op \in {"wait", "timedwait"}
       THEN pt' = [pt EXCEPT ![t].pc = "futex", ![t].obj = "cond", ![t].block = cell["cond"]]
       ELSE Return(t)
  /\ UNCHANGED <<cell, word, live, owner, swept, args_tid>>

-----------------------------------------------------------------------------
(* Condition variables *)

\* pthread_cond_wait, pthread_cond_timedwait: the sequence number is read, then
\* the mutex unlocked.
wait_begin(t) ==
  /\ pt[t].pc = "do" /\ pt[t].op \in {"wait", "timedwait"} /\ pt[t].obj = "cond"
  /\ pt' = [pt EXCEPT ![t].pc = "release", ![t].seq = word[pt[t].block], ![t].block = cell["mutex"]]
  /\ UNCHANGED <<cell, word, live, asleep, owner, swept, args_tid>>

wait_unlock(t) ==
  /\ pt[t].pc = "release"
  /\ word' = [word EXCEPT ![pt[t].block] = 0]
  /\ owner' = owner \ {t}
  /\ Go(t, "wake")
  /\ UNCHANGED <<cell, live, asleep, swept, args_tid>>

\* sys_futex_wait(&seq, seq): an answer other than 0 counts as a timeout.
futex_wait_cond(t) ==
  /\ pt[t].pc = "futex" /\ pt[t].obj = "cond"
  /\ IF word[pt[t].block] = pt[t].seq
       THEN pt' = [pt EXCEPT ![t].pc = "sleep", ![t].timed_out = FALSE] /\ asleep' = asleep \cup {t}
       ELSE pt' = [pt EXCEPT ![t].pc = "retake", ![t].timed_out = TRUE] /\ UNCHANGED asleep
  /\ UNCHANGED <<cell, word, live, owner, swept, args_tid>>

timeout(t) ==
  /\ pt[t].pc = "sleep" /\ t \in asleep /\ pt[t].op = "timedwait" /\ pt[t].obj = "cond"
  /\ asleep' = asleep \ {t}
  /\ pt' = [pt EXCEPT ![t].pc = "retake", ![t].timed_out = TRUE]
  /\ UNCHANGED <<cell, word, live, owner, swept, args_tid>>

\* The mutex is locked again before the wait returns.
retake(t) ==
  /\ pt[t].pc = "retake"
  /\ pt' = [pt EXCEPT ![t].pc = "relock", ![t].obj = "mutex", ![t].block = cell["mutex"]]
  /\ UNCHANGED <<cell, word, live, asleep, owner, swept, args_tid>>

\* pthread_cond_signal, pthread_cond_broadcast: the increment, then the wake.
bump(t) ==
  /\ pt[t].pc = "do" /\ pt[t].op \in {"signal", "broadcast"}
  /\ word' = [word EXCEPT ![pt[t].block] = @ + 1]
  /\ pt' = [pt EXCEPT ![t].pc = "notify", ![t].seq = word[pt[t].block] + 1]
  /\ UNCHANGED <<cell, live, asleep, owner, swept, args_tid>>

wake_waiters(t) ==
  /\ pt[t].pc = "notify"
  /\ LET ws == Sleepers(pt[t].block) IN
       \/ pt[t].op = "broadcast" /\ Wake(ws)
          /\ swept' = IF pt[t].seq > swept THEN pt[t].seq ELSE swept
       \/ pt[t].op = "signal" /\ ws # {} /\ (\E u \in ws : Wake({u})) /\ UNCHANGED swept
       \/ pt[t].op = "signal" /\ ws = {} /\ UNCHANGED <<asleep, swept>>
  /\ Return(t)
  /\ UNCHANGED <<cell, word, live, owner, args_tid>>

Step(t) ==
  \/ spawn(t) \/ publish(t) \/ entry(t)
  \/ \E op \in {"lock", "trylock", "unlock", "wait", "timedwait"} : call(t, op)
  \/ \E op \in {"signal", "broadcast"} : notify(t, op)
  \/ \E obj \in Objects : init(t, obj) \/ destroy(t, obj)
  \/ get(t) \/ install(t) \/ try_lock(t) \/ futex_wait_mutex(t) \/ woken(t)
  \/ unlock(t) \/ wake_one(t) \/ wait_begin(t) \/ wait_unlock(t) \/ futex_wait_cond(t)
  \/ timeout(t) \/ retake(t) \/ bump(t) \/ wake_waiters(t)

PthreadNext == \E t \in Threads : Step(t)

PthreadSpec == PthreadInit /\ [][PthreadNext]_pthread_vars

PthreadTypeOK ==
  /\ cell \in [Objects -> {0} \cup Blocks]
  /\ live \subseteq Blocks /\ asleep \subseteq Threads
  /\ \A t \in Threads : pt[t].self = IF pt[t].pc \in {"unborn", "entry"} THEN Main ELSE t

\* Two threads are never between lock and unlock, although each may have been
\* the one to initialise the mutex.  The word of a block that was freed is
\* never read or written, also when the mutex or the condition is destroyed
\* as soon as the contract of the calls allows it: all that unlock, signal and
\* broadcast then still use is its address.  Blocks are freed once, and no block
\* is left behind: each is an object's, or of a thread about to install it.
MutualExclusion ==
  /\ Cardinality(owner) <= 1
  /\ \A t \in Threads : pt[t].pc \in {"do", "install", "release", "futex", "relock"} => pt[t].block \in live
  /\ live = ({cell[o] : o \in Objects} \ {0}) \cup {pt[t].block : t \in {u \in Threads : pt[u].pc = "install"}}

\* A thread that sleeps on a free mutex is about to be woken, or another that
\* was woken in its place is on its way to take it and to wake the next.
NoStrandedLocker ==
  \A t \in asleep : pt[t].obj = "mutex" /\ word[pt[t].block] = 0 =>
    \E u \in Threads \ asleep :
      /\ pt[u].pc \in {"wake", "sleep", "relock", "do", "futex"}
      /\ pt[u].block = pt[t].block

\* A broadcast reaches every thread that had entered wait before it: whoever
\* sleeps on the condition read its number after the last broadcast's increment.
NoMissedBroadcast ==
  \A t \in asleep : pt[t].obj = "cond" => pt[t].seq >= swept

-----------------------------------------------------------------------------
(* malloc, calloc, realloc, free, posix_memalign and sys_sbrk of the        *)
(* inference runtime (bitapp/native/bitapp_runtime.cpp), over the program's *)
(* allocator (bitapp_malloc and bitapp_free of bitapp/src/hermit_app.rs).   *)
(* A block has a header before it that says how it was obtained.  The unit  *)
(* of address is eight bytes; a cell holds the header's fields or a mark    *)
(* of whoever wrote it.                                                     *)
CONSTANTS
  HeapSize,     \* addresses 1..HeapSize
  Sizes,        \* sizes asked for (bound)
  Alignments,   \* alignments asked for by posix_memalign
  SizeMod,      \* size_t wraps here
  SbrkCapacity, \* the arena of sys_sbrk
  MaxAllocs     \* bound: allocations

VARIABLES
  raws,         \* ranges the program's allocator has handed out: start, total, align
  cells,        \* contents of the heap
  ptrs,         \* blocks the caller holds: address |-> size asked for
  allocs,       \* allocations made
  arena,        \* sys_sbrk: heap allocated, offset
  lost,         \* a free that did not match its allocation, or a block whose contents changed
  wrapped       \* a size near SIZE_MAX was given a block too small for it: nothing is said from here on

heap_vars == <<raws, cells, ptrs, allocs, arena, lost, wrapped>>

Header == 3
MinAlign == 2
Untouched == [kind |-> "none", raw |-> 0, total |-> 0, align |-> 0]
Mark(n) == [kind |-> "data", raw |-> n, total |-> 0, align |-> 0]

HeapInit ==
  /\ raws = {} /\ cells = [a \in 1..HeapSize |-> Untouched]
  /\ ptrs = [p \in {} |-> 0] /\ allocs = 0
  /\ arena = [ready |-> FALSE, offset |-> 0] /\ lost = FALSE /\ wrapped = FALSE

AlignUp(a, align) == ((a + align - 1) \div align) * align
Span(r) == r.start..r.start + r.total - 1
MaxOf(a, b) == IF a < b THEN b ELSE a
MinOf(a, b) == IF a < b THEN a ELSE b

\* bitapp_malloc: any free range of the size and alignment.
Places(total, align) ==
  {r \in [start : 1..HeapSize - total + 1, total : {total}, align : {align}] :
     r.start % align = 0 /\ \A q \in raws : Span(r) \cap Span(q) = {}}

\* Mutant of Total: no room for moving the block to its alignment.
Total_tight(size, align) == (Header + MaxOf(size, 1)) % SizeMod

\* bitapp_runtime_malloc_aligned: the sum is not checked against SIZE_MAX.
Total(size, align) == (Header + MaxOf(size, 1) + align - 1) % SizeMod
Wraps(size, align) == Header + MaxOf(size, 1) + align - 1 >= SizeMod

Aligned(r) == AlignUp(r.start + Header, r.align)
\* The heap after a block has been made and its owner has filled it.
Filled(c, r, size) ==
  [a \in 1..HeapSize |->
     IF a = Aligned(r) - Header THEN [kind |-> "header", raw |-> r.start, total |-> r.total, align |-> r.align]
     ELSE IF a \in Aligned(r)..Aligned(r) + size - 1 THEN Mark(Aligned(r)) ELSE c[a]]

malloc_aligned(size, alignment) ==
  /\ allocs < MaxAllocs
  /\ LET align == MaxOf(MinAlign, alignment)
         total == Total(size, align) IN
       \E r \in Places(total, align) :
         /\ raws' = raws \cup {r}
         /\ cells' = Filled(cells, r, size)
         /\ ptrs' = [p \in DOMAIN ptrs \cup {Aligned(r)} |-> IF p = Aligned(r) THEN size ELSE ptrs[p]]
         /\ wrapped' = Wraps(size, align)
  /\ allocs' = allocs + 1
  /\ UNCHANGED <<arena, lost>>

\* calloc: the product of the arguments, unless it overflows.
calloc(count, size) ==
  /\ ~(size # 0 /\ count > (SizeMod - 1) \div size)
  /\ malloc_aligned(count * size, MinAlign)

\* posix_memalign, aligned_alloc: the alignment holds a pointer and is a power of two.
posix_memalign(alignment, size) ==
  /\ \E k \in 0..3 : alignment = 2 ^ k
  /\ malloc_aligned(size, alignment)

\* What bitapp_free gives back: the range the header names.
Named(p) == [start |-> cells[p - Header].raw, total |-> cells[p - Header].total, align |-> cells[p - Header].align]
Forget(p) == [q \in DOMAIN ptrs \ {p} |-> ptrs[q]]

free(p) ==
  /\ p \in DOMAIN ptrs
  /\ raws' = raws \ {Named(p)}
  /\ lost' = (lost \/ Named(p) \notin raws)
  /\ ptrs' = Forget(p)
  /\ UNCHANGED <<cells, allocs, arena, wrapped>>

\* realloc: the header's total stands for the old size, so the copy may take
\* more than the old block; it takes all of it.
realloc(p, size) ==
  /\ p \in DOMAIN ptrs /\ allocs < MaxAllocs /\ size > 0
  /\ \E r \in Places(Total(size, MinAlign), MinAlign) :
       LET old_payload == cells[p - Header].total - Header
           n == MinOf(old_payload, size)
           kept == MinOf(n, ptrs[p]) IN
         /\ raws' = (raws \cup {r}) \ {Named(p)}
         /\ lost' = (lost \/ Named(p) \notin raws \/ kept < MinOf(ptrs[p], size)
                     \/ \E a \in p..p + ptrs[p] - 1 : cells[a] # Mark(p))
         /\ cells' = Filled(cells, r, size)
         /\ ptrs' = [q \in (DOMAIN ptrs \ {p}) \cup {Aligned(r)} |-> IF q = Aligned(r) THEN size ELSE ptrs[q]]
         /\ wrapped' = Wraps(size, MinAlign)
  /\ allocs' = allocs + 1
  /\ UNCHANGED arena

\* sys_sbrk: an arena of fixed size, never given back.
sys_sbrk(incr) ==
  /\ IF ~arena.ready
       THEN \E r \in Places(SbrkCapacity, MinAlign) :
              raws' = raws \cup {r} /\ arena' = [ready |-> TRUE, offset |-> MaxOf(incr, 0)]
       ELSE /\ arena.offset + incr \in 0..SbrkCapacity
            /\ arena' = [arena EXCEPT !.offset = @ + incr]
            /\ UNCHANGED raws
  /\ UNCHANGED <<cells, ptrs, allocs, lost, wrapped>>

HeapNext ==
  /\ ~wrapped
  /\ \/ \E s \in Sizes : malloc_aligned(s, MinAlign) \/ \E al \in Alignments : posix_memalign(al, s)
     \/ \E c, s \in Sizes : calloc(c, s)
     \/ \E p \in DOMAIN ptrs : free(p) \/ \E s \in Sizes : realloc(p, s)
     \/ \E i \in {-1, 1} : sys_sbrk(i)

HeapSpec == HeapInit /\ [][HeapNext]_heap_vars

HeapTypeOK ==
  /\ wrapped \/ DOMAIN ptrs \subseteq 1..HeapSize
  /\ allocs \in 0..MaxAllocs
  /\ arena.offset \in 0..SbrkCapacity /\ lost \in BOOLEAN /\ wrapped \in BOOLEAN

\* Every block lies with its header inside a range of its own, at an address
\* of the alignment asked for; it is given back as it was obtained, and
\* realloc loses nothing of what its owner wrote.  It holds as long as header,
\* size and alignment add up to less than SIZE_MAX: the sum in
\* bitapp_runtime_malloc_aligned wraps for a larger size, and the caller gets a
\* block that is smaller than it asked for.
BlocksAreSound ==
  ~wrapped =>
  /\ ~lost
  /\ \A p \in DOMAIN ptrs :
       /\ Named(p) \in raws /\ p % Named(p).align = 0
       /\ p - Header >= Named(p).start
       /\ p + MaxOf(ptrs[p], 1) - 1 <= Named(p).start + Named(p).total - 1
       /\ \A q \in DOMAIN ptrs \ {p} : Named(q) # Named(p)
=============================================================================

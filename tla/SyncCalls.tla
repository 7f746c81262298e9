------------------------------ MODULE SyncCalls ------------------------------
(***************************************************************************)
(* Condition queues and spinlocks of the system calls.                     *)
(***************************************************************************)
EXTENDS Integers, FiniteSets

-----------------------------------------------------------------------------
(***************************************************************************)
(* The condition queues of syscalls/condvar.rs, used as a condition        *)
(* variable is: a waiter holds its mutex over sys_add_queue, releases it   *)
(* and calls sys_wait; a notifier calls sys_notify, with the mutex or      *)
(* without it.  The semaphores are those of TaskLocks, reduced             *)
(* to their counts; the mutex is the callers'.  A condition variable is    *)
(* destroyed when nobody uses it; its word then names the freed queue      *)
(* until the caller clears it, since sys_destroy_queue does not.           *)
(***************************************************************************)
CONSTANTS CondThreads,
          MaxQueues,    \* bound: queues created
          CondMaxCalls      \* bound: calls per thread

VARIABLES id,           \* the word of the condition variable: 0 or a queue
          queue,        \* the CondQueues: counter, sem1, sem2
          mutex,        \* the owner of the callers' mutex or "none"
          cond_thread        \* of every thread: pc, its queue, notifications left, calls

condqueue_vars == <<id, queue, mutex, cond_thread>>

Queues == 1 .. MaxQueues
New == [made |-> FALSE, counter |-> 0, sem1 |-> 0, sem2 |-> 0]

CondAt(t, p) == cond_thread[t].pc = p
Go(t, p) == cond_thread' = [cond_thread EXCEPT ![t].pc = p]
Usable == id # 0 => queue[id].made
AllIdle == \A t \in CondThreads : CondAt(t, "idle")
Call(t, p, left) == cond_thread' = [cond_thread EXCEPT ![t].pc = p, ![t].left = left, ![t].calls = @ + 1]
Add(q, f, n) == queue' = [queue EXCEPT ![q][f] = @ + n]

\* A new queue becomes the one of the word.
Create ==
  /\ id = 0
  /\ \E q \in Queues : /\ ~queue[q].made /\ \A r \in Queues : r < q => queue[r].made
                       /\ queue' = [queue EXCEPT ![q].made = TRUE] /\ id' = q

-----------------------------------------------------------------------------
(* sys_init_queue, sys_destroy_queue, and the caller that initialises the word again *)

sys_init_queue(t) ==
  /\ CondAt(t, "idle") /\ Create /\ UNCHANGED <<mutex, cond_thread>>

sys_destroy_queue(t) ==
  /\ AllIdle /\ cond_thread[t].calls < CondMaxCalls /\ id # 0 /\ queue[id].made
  /\ queue' = [queue EXCEPT ![id] = New] /\ Call(t, "idle", 0) /\ UNCHANGED <<id, mutex>>

ClearWord == ~Usable /\ id' = 0 /\ UNCHANGED <<queue, mutex, cond_thread>>

-----------------------------------------------------------------------------
(* The waiter *)

LockMutex(t) ==
  /\ CondAt(t, "idle") /\ cond_thread[t].calls < CondMaxCalls /\ mutex = "none" /\ Usable
  /\ mutex' = t /\ Call(t, "add", 0) /\ UNCHANGED <<id, queue>>

\* sys_add_queue: the queue is made by the first waiter.
add_queue_create(t) ==
  /\ CondAt(t, "add") /\ Create /\ UNCHANGED <<mutex, cond_thread>>

\* A time-out is not supported: -1, and the caller gives up.
add_queue_timed(t) ==
  /\ CondAt(t, "add") /\ id # 0
  /\ mutex' = "none" /\ Go(t, "idle") /\ UNCHANGED <<id, queue>>

add_queue(t) ==
  /\ CondAt(t, "add") /\ id # 0
  /\ Add(id, "counter", 1)
  /\ cond_thread' = [cond_thread EXCEPT ![t].pc = "unlock", ![t].q = id]
  /\ UNCHANGED <<id, mutex>>

UnlockMutex(t) ==
  /\ CondAt(t, "unlock") /\ mutex' = "none" /\ Go(t, "wait") /\ UNCHANGED <<id, queue>>

\* sys_wait
wait_acquire(t) ==
  /\ CondAt(t, "wait") /\ queue[id].sem1 > 0
  /\ Add(id, "sem1", -1) /\ Go(t, "woken") /\ UNCHANGED <<id, mutex>>

\* Mutant of wait_release: the notifier is not answered.
wait_release_not(t) ==
  /\ CondAt(t, "woken") /\ Go(t, "relock") /\ UNCHANGED <<id, queue, mutex>>

wait_release(t) ==
  /\ CondAt(t, "woken")
  /\ Add(id, "sem2", 1) /\ Go(t, "relock") /\ UNCHANGED <<id, mutex>>

Relock(t) ==
  /\ CondAt(t, "relock") /\ mutex = "none"
  /\ cond_thread' = [cond_thread EXCEPT ![t].pc = "idle", ![t].q = 0] /\ UNCHANGED <<id, queue, mutex>>

-----------------------------------------------------------------------------
(* sys_notify.  left: the rounds to go, -1 for a broadcast *)

sys_notify(t, count) ==
  /\ CondAt(t, "idle") /\ cond_thread[t].calls < CondMaxCalls /\ Usable
  /\ Call(t, IF id = 0 THEN "idle" ELSE "notify", count)
  /\ UNCHANGED <<id, queue, mutex>>

\* The condition of the loop: the counter is looked at, then decremented.
notify_round(t) ==
  /\ CondAt(t, "notify") /\ UNCHANGED <<id, queue, mutex>>
  /\ IF cond_thread[t].left > 0 \/ (cond_thread[t].left < 0 /\ queue[id].counter > 0)
     THEN cond_thread' = [cond_thread EXCEPT ![t].pc = "sub", ![t].left = IF @ > 0 THEN @ - 1 ELSE @]
     ELSE Go(t, "idle")

notify_sub(t) ==
  /\ CondAt(t, "sub") /\ Add(id, "counter", -1) /\ Go(t, "release") /\ UNCHANGED <<id, mutex>>

notify_release(t) ==
  /\ CondAt(t, "release") /\ Add(id, "sem1", 1) /\ Go(t, "acquire") /\ UNCHANGED <<id, mutex>>

notify_acquire(t) ==
  /\ CondAt(t, "acquire") /\ queue[id].sem2 > 0
  /\ Add(id, "sem2", -1) /\ Go(t, "notify") /\ UNCHANGED <<id, mutex>>

-----------------------------------------------------------------------------
CondInit ==
  /\ id = 0 /\ queue = [q \in Queues |-> New] /\ mutex = "none"
  /\ cond_thread = [t \in CondThreads |-> [pc |-> "idle", q |-> 0, left |-> 0, calls |-> 0]]

CondNext ==
  \/ ClearWord
  \/ \E t \in CondThreads :
       \/ sys_init_queue(t) \/ sys_destroy_queue(t)
       \/ LockMutex(t) \/ add_queue_create(t) \/ add_queue_timed(t) \/ add_queue(t) \/ UnlockMutex(t)
       \/ wait_acquire(t) \/ wait_release(t) \/ Relock(t)
       \/ \E n \in {-1, 1, 2} : sys_notify(t, n)
       \/ notify_round(t) \/ notify_sub(t) \/ notify_release(t) \/ notify_acquire(t)

CondSpec == CondInit /\ [][CondNext]_condqueue_vars

-----------------------------------------------------------------------------
TypeOK ==
  /\ id \in 0 .. MaxQueues /\ mutex \in CondThreads \cup {"none"}
  /\ \A q \in Queues : queue[q].counter \in Int /\ queue[q].sem1 \in Nat /\ queue[q].sem2 \in Nat
  /\ \A t \in CondThreads : cond_thread[t].q \in 0 .. MaxQueues /\ cond_thread[t].left \in -1 .. 2

In(ps) == {t \in CondThreads : cond_thread[t].pc \in ps}
Waiters == In({"unlock", "wait"})
InFlight == In({"release"})

\* Nobody is counted twice or lost between the counter and the semaphores, whatever notifiers and
\* waiters do at the same time: the waiters that are not through the first semaphore are those of
\* the counter and those a notification is on its way for, and each notifier that waits has one
\* waiter to answer it, or one that is still to come.
CountsAgree ==
  id # 0 => /\ queue[id].counter + queue[id].sem1 + Cardinality(InFlight) = Cardinality(Waiters)
            /\ queue[id].sem1 + Cardinality(In({"woken"})) + queue[id].sem2 = Cardinality(In({"acquire"}))

\* In the step in which a broadcast returns, every waiter there is has been let through or is about to be: each
\* finds a unit in the first semaphore, or a notifier that releases one.
BroadcastReachesAll ==
  \A t \in CondThreads :
     CondAt(t, "notify") /\ cond_thread[t].left < 0 /\ cond_thread'[t].pc = "idle"
           => Cardinality(Waiters) <= queue[id].sem1 + Cardinality(InFlight)

-----------------------------------------------------------------------------
(***************************************************************************)
(* The spinlocks of syscalls/spinlock.rs: a ticket lock and, beside it in  *)
(* the container, the guard of the holder.  The check of the guard, the    *)
(* taking of the lock and the store of the guard are separate steps, and   *)
(* two cores may be between them.  The lock with interrupts off            *)
(* (sys_spinlock_irqsave_lock, _unlock) takes the same steps.              *)
(***************************************************************************)
CONSTANTS SpinThreads,      \* one on every core
          SpinMaxCalls      \* bound: acquisitions of a thread

VARIABLES next_ticket, next_serving,   \* the TicketMutex; next_ticket is -1 while there is no container
          guard,                       \* the ticket of the guard in the container, or -1
          spin_thread,                      \* of every thread: pc, ticket, calls
          panicked                     \* the assertion that failed, or "none"

spinlock_vars == <<next_ticket, next_serving, guard, spin_thread, panicked>>

SpinAt(t, p) == panicked = "none" /\ spin_thread[t].pc = p

\* The container is freed by a caller when nobody uses it, and made anew.
sys_spinlock_destroy(t) ==
  /\ \A u \in SpinThreads : SpinAt(u, "idle")
  /\ spin_thread[t].calls < SpinMaxCalls /\ spin_thread' = [spin_thread EXCEPT ![t].calls = @ + 1]
  /\ next_ticket >= 0 /\ next_ticket' = -1
  /\ UNCHANGED <<next_serving, guard, panicked>>

sys_spinlock_init(t) ==
  /\ SpinAt(t, "idle") /\ next_ticket = -1
  /\ next_ticket' = 0 /\ next_serving' = 0 /\ guard' = -1
  /\ UNCHANGED <<spin_thread, panicked>>

\* sys_spinlock_lock: assert!(container.guard.is_none())
lock_assert(t) ==
  /\ SpinAt(t, "idle") /\ spin_thread[t].calls < SpinMaxCalls /\ next_ticket >= 0
  /\ IF guard # -1 THEN panicked' = "lock" /\ UNCHANGED spin_thread
     ELSE spin_thread' = [spin_thread EXCEPT ![t].pc = "take", ![t].calls = @ + 1] /\ UNCHANGED panicked
  /\ UNCHANGED <<next_ticket, next_serving, guard>>

\* External: TicketMutex::lock
take(t) ==
  /\ SpinAt(t, "take")
  /\ spin_thread' = [spin_thread EXCEPT ![t].pc = "spin", ![t].ticket = next_ticket]
  /\ next_ticket' = next_ticket + 1
  /\ UNCHANGED <<next_serving, guard, panicked>>

spin(t) ==
  /\ SpinAt(t, "spin") /\ spin_thread[t].ticket = next_serving
  /\ spin_thread' = [spin_thread EXCEPT ![t].pc = "store"]
  /\ UNCHANGED <<next_ticket, next_serving, guard, panicked>>

\* container.guard = Some(..): an old guard would be dropped, and its lock released.
store_guard(t) ==
  /\ SpinAt(t, "store")
  /\ next_serving' = IF guard # -1 THEN next_serving + 1 ELSE next_serving
  /\ guard' = spin_thread[t].ticket
  /\ spin_thread' = [spin_thread EXCEPT ![t].pc = "held"]
  /\ UNCHANGED <<next_ticket, panicked>>

\* sys_spinlock_unlock: the assertion; then the guard is dropped and the lock released, and the
\* word is cleared after that.
unlock_drop(t) ==
  /\ SpinAt(t, "held")
  /\ IF guard = -1 THEN panicked' = "unlock" /\ UNCHANGED <<spin_thread, next_serving>>
     ELSE next_serving' = next_serving + 1 /\ spin_thread' = [spin_thread EXCEPT ![t].pc = "clear"] /\ UNCHANGED panicked
  /\ UNCHANGED <<next_ticket, guard>>

clear_guard(t) ==
  /\ SpinAt(t, "clear")
  /\ guard' = -1 /\ spin_thread' = [spin_thread EXCEPT ![t].pc = "idle"]
  /\ UNCHANGED <<next_ticket, next_serving, panicked>>

SpinInit ==
  /\ next_ticket = 0 /\ next_serving = 0 /\ guard = -1 /\ panicked = "none"
  /\ spin_thread = [t \in SpinThreads |-> [pc |-> "idle", ticket |-> 0, calls |-> 0]]

SpinNext ==
  \E t \in SpinThreads :
     \/ sys_spinlock_init(t) \/ sys_spinlock_destroy(t)
     \/ lock_assert(t) \/ take(t) \/ spin(t) \/ store_guard(t) \/ unlock_drop(t) \/ clear_guard(t)

SpinSpec == SpinInit /\ [][SpinNext]_spinlock_vars

-----------------------------------------------------------------------------
\* What the assertions say ("Called sys_spinlock_lock when a lock is already held!"): they fail for
\* a thread that calls out of turn, never for one that, like all of this module, locks what it does
\* not hold and unlocks what it holds.
PanicIsMisuse == panicked = "none"
=============================================================================

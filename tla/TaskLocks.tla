------------------------------ MODULE TaskLocks ------------------------------
(***************************************************************************)
(* The locks that tasks sleep on: semaphore and recursive mutex.           *)
(***************************************************************************)
EXTENDS Integers, Scheduler

-----------------------------------------------------------------------------
(***************************************************************************)
(* kernel/src/synch/semaphore.rs on top of the SMP scheduler: one counting *)
(* semaphore, on which each task makes MaxCalls calls of its choice.       *)
(*                                                                         *)
(* The state is behind an InterruptTicketMutex, so every round of the loop *)
(* in acquire is one action and its reschedule() another.  The rounds that *)
(* only back off (snooze) change nothing and are not steps.                *)
(***************************************************************************)
CONSTANTS Initial,      \* the count the semaphore is made with
          Timeouts,     \* where the clock may stand to the deadlines of the tasks' acquires when they start
          SemMaxCalls      \* calls a task makes before it exits

SemaphoreAssumption == Initial \in Int /\ Timeouts \subseteq [Tasks -> Dues] /\ SemMaxCalls \in Nat

VARIABLES sem_count, sem_queue, \* SemaphoreState
          sem_pc,           \* pc[t]: where t is in acquire ("run": in no call)
          sem_calls,        \* calls t has made
          timeout       \* timeout[t]: the time-out t passes to acquire; it does not change

svars == <<sem_count, sem_queue, sem_pc, sem_calls, timeout>>
sem_vars == <<core, due, svars>>

SemTypeOK ==
    /\ SchedulerTypeOK
    /\ sem_count \in (IF Initial < 0 THEN Initial ELSE 0) .. Initial + SemMaxCalls * Cardinality(Tasks)
    /\ sem_queue \in Seq(Tasks)
    /\ sem_pc \in [Tasks -> {"run", "acquire", "parked", "exited"}]
    /\ sem_calls \in [Tasks -> 0 .. SemMaxCalls]
    /\ timeout \in Timeouts

SemInit ==
    /\ SchedulerInit(CHOOSE order \in Orders(Tasks) : TRUE)
    /\ sem_count = Initial
    /\ sem_queue = <<>>
    /\ sem_pc = [t \in Tasks |-> "run"]
    /\ sem_calls = [t \in Tasks |-> 0]
    /\ timeout \in Timeouts

Calls(t) ==
    /\ Runs(t) /\ sem_pc[t] = "run" /\ sem_calls[t] < SemMaxCalls
    /\ sem_calls' = [sem_calls EXCEPT ![t] = @ + 1]

-----------------------------------------------------------------------------
\* acquire computes its deadline and enters the loop.
sem_acquire(t) ==
    /\ Calls(t)
    /\ sem_pc' = [sem_pc EXCEPT ![t] = "acquire"]
    /\ due' = [due EXCEPT ![t] = timeout[t]]
    /\ UNCHANGED <<core, sem_count, sem_queue, timeout>>

Return(t) ==
    /\ sem_pc' = [sem_pc EXCEPT ![t] = "run"]
    /\ due' = [due EXCEPT ![t] = "none"]
    /\ UNCHANGED <<core, sem_calls, timeout>>

\* Mutant of acquire_success: the count is not tested.
acquire_success_unchecked(t) ==
    /\ Runs(t) /\ sem_pc[t] = "acquire"
    /\ sem_count' = sem_count - 1
    /\ Return(t)
    /\ UNCHANGED sem_queue

\* A permit is there.  A handle that an earlier round queued stays in the queue.
acquire_success(t) ==
    /\ Runs(t) /\ sem_pc[t] = "acquire" /\ sem_count > 0
    /\ sem_count' = sem_count - 1
    /\ Return(t)
    /\ UNCHANGED sem_queue

acquire_timeout(t) ==
    /\ Runs(t) /\ sem_pc[t] = "acquire" /\ sem_count <= 0 /\ due[t] = "past"
    /\ sem_queue' = remove(sem_queue, t)
    /\ Return(t)
    /\ UNCHANGED sem_count

\* Mutant of sem_acquire_block: a waiter blocks without looking at the count again.
acquire_block_blindly(t) ==
    /\ Runs(t) /\ sem_pc[t] = "acquire" /\ due[t] # "past"
    /\ core' = [core EXCEPT ![Home[t]] = block_current_task(@)]
    /\ sem_queue' = push(sem_queue, t)
    /\ sem_pc' = [sem_pc EXCEPT ![t] = "parked"]
    /\ UNCHANGED <<due, sem_count, sem_calls, timeout>>

sem_acquire_block(t) ==
    /\ Runs(t) /\ sem_pc[t] = "acquire" /\ sem_count <= 0 /\ due[t] # "past"
    /\ core' = [core EXCEPT ![Home[t]] = block_current_task(@)]
    /\ sem_queue' = push(sem_queue, t)
    /\ sem_pc' = [sem_pc EXCEPT ![t] = "parked"]
    /\ UNCHANGED <<due, sem_count, sem_calls, timeout>>

sem_acquire_reschedule(t) ==
    /\ core[Home[t]].current_task = t /\ sem_pc[t] = "parked"
    /\ core' = [core EXCEPT ![Home[t]] = scheduler(@)]
    /\ sem_pc' = [sem_pc EXCEPT ![t] = "acquire"]
    /\ UNCHANGED <<due, sem_count, sem_queue, sem_calls, timeout>>

try_acquire(t) ==
    /\ Calls(t)
    /\ sem_count' = IF sem_count > 0 THEN sem_count - 1 ELSE sem_count
    /\ UNCHANGED <<core, due, sem_queue, sem_pc, timeout>>

sem_release(t) ==
    /\ Calls(t)
    /\ sem_count' = sem_count + 1
    /\ core' = custom_wakeup(core, Home[t], pop(sem_queue))
    /\ sem_queue' = popped_off(sem_queue)
    /\ UNCHANGED <<due, sem_pc, timeout>>

-----------------------------------------------------------------------------
\* exit: finish the task and reschedule.
SemExit(t) ==
    /\ Runs(t) /\ sem_pc[t] = "run" /\ sem_calls[t] = SemMaxCalls
    /\ core' = [core EXCEPT ![Home[t]] = scheduler([@ EXCEPT !.status[t] = "Finished"])]
    /\ sem_pc' = [sem_pc EXCEPT ![t] = "exited"]
    /\ UNCHANGED <<due, sem_count, sem_queue, sem_calls, timeout>>

SemTaskStep(t) ==
    \/ sem_acquire(t) \/ acquire_success(t) \/ acquire_timeout(t) \/ sem_acquire_block(t) \/ sem_acquire_reschedule(t)
    \/ try_acquire(t) \/ sem_release(t) \/ SemExit(t)

SemInterrupt(c) == (timer_handler(c) \/ wakeup_handler(c)) /\ UNCHANGED svars

SemIdle(c) == run(c) /\ UNCHANGED svars

SemNext ==
    /\ ~Panicked
    /\ \/ \E t \in Tasks : SemTaskStep(t) \/ (Tick(t) /\ UNCHANGED svars)
       \/ \E c \in Cores : SemInterrupt(c) \/ SemIdle(c)

SemSpec == SemInit /\ [][SemNext]_sem_vars

SemExecutes(c) == ~Panicked /\ (SemIdle(c) \/ \E t \in TasksOf(c) : SemTaskStep(t))

TimerFires(c) ==
    /\ ~Panicked
    /\ \E t \in core[c].blocked_tasks : due[t] = "past"
    /\ timer_handler(c) /\ UNCHANGED svars

TimePasses == ~Panicked /\ (\E t \in Tasks : Tick(t)) /\ UNCHANGED svars

-----------------------------------------------------------------------------
\* Tasks that are in acquire and will look at the count again without being woken by a release.
Retrying == {t \in Tasks : sem_pc[t] \in {"acquire", "parked"} /\ t \notin Range(sem_queue)}

Untimed == \A t \in Tasks : timeout[t] = "none"

\* Permits are not stranded: while a handle waits in the queue, every permit there is has a task on
\* its way to take it.  acquire checks the count and queues itself under one lock, and each release
\* wakes one waiter for its permit, whoever overtakes whom.  (A waiter with a deadline that the timer
\* wakes and that finds a permit leaves its handle behind; a later release is spent on it.)
NoStrandedPermit == Untimed /\ sem_queue # <<>> => sem_count <= Cardinality(Retrying)

\* Tasks wait and a permit is unused.
PermitUnused == Untimed /\ sem_queue # <<>> /\ sem_count > 0

\* The task is in an acquire with a deadline.
InTimedAcquire(t) == ~Panicked /\ sem_pc[t] \in {"acquire", "parked"} /\ due[t] # "none"

-----------------------------------------------------------------------------
(***************************************************************************)
(* kernel/src/synch/recmutex.rs on top of the SMP scheduler.  Its state is *)
(* behind a TicketMutex, which, unlike the InterruptTicketMutex of the     *)
(* other primitives, leaves interrupts enabled: an interrupt may switch    *)
(* tasks inside the critical section, and the steps of acquire between     *)
(* which that matters are actions of their own.                            *)
(***************************************************************************)
CONSTANTS RecMaxCalls      \* acquires a task makes before it exits

none == "no task"

MutexAssumption == RecMaxCalls \in Nat /\ none \notin Tasks

VARIABLES tickets,      \* the TicketMutex: its holder first, then the spinning tasks
          current_tid, rec_count, rec_queue,    \* RecursiveMutexState
          rec_pc,           \* pc[t]: where t is in acquire or release ("run": in neither)
          rec_calls,        \* acquires t has made
          held,         \* held[t]: acquires of t that have returned less its releases
          timer_armed   \* whether timer interrupts arrive; it does not change

mvars == <<tickets, current_tid, rec_count, rec_queue, rec_pc, rec_calls, held, timer_armed>>
rec_vars == <<core, due, mvars>>

RecTypeOK ==
    /\ SchedulerTypeOK
    /\ tickets \in Seq(Tasks)
    /\ current_tid \in Tasks \cup {none}
    /\ rec_count \in 0 .. RecMaxCalls
    /\ rec_queue \in Seq(Tasks)
    /\ rec_pc \in [Tasks -> {"run", "acquire", "blocked", "parked", "again", "release", "exited"}]
    /\ rec_calls \in [Tasks -> 0 .. RecMaxCalls]
    /\ held \in [Tasks -> 0 .. RecMaxCalls]
    /\ timer_armed \in BOOLEAN

RecInit ==
    /\ SchedulerInit(CHOOSE order \in Orders(Tasks) : TRUE)
    /\ tickets = <<>>
    /\ current_tid = none /\ rec_count = 0 /\ rec_queue = <<>>
    /\ rec_pc = [t \in Tasks |-> "run"]
    /\ rec_calls = [t \in Tasks |-> 0]
    /\ held = [t \in Tasks |-> 0]
    /\ timer_armed \in BOOLEAN

\* The current task executes even when it is marked blocked, until it or an interrupt reschedules.
Executing(t) == core[Home[t]].current_task = t

Locked(t) == tickets # <<>> /\ Head(tickets) = t

-----------------------------------------------------------------------------
\* self.state.lock() at the top of acquire's loop, the first time and after a wake-up.
rec_acquire(t) ==
    /\ Runs(t)
    /\ \/ rec_pc[t] = "run" /\ rec_calls[t] < RecMaxCalls /\ rec_calls' = [rec_calls EXCEPT ![t] = @ + 1]
       \/ rec_pc[t] = "again" /\ UNCHANGED rec_calls
    /\ tickets' = Append(tickets, t)
    /\ rec_pc' = [rec_pc EXCEPT ![t] = "acquire"]
    /\ UNCHANGED <<core, due, current_tid, rec_count, rec_queue, held>>

\* The mutex is free, or it is already this task's.
acquire_own(t) ==
    /\ Runs(t) /\ rec_pc[t] = "acquire" /\ Locked(t)
    /\ current_tid \in {none, t}
    /\ current_tid' = t
    /\ rec_count' = IF current_tid = t THEN rec_count + 1 ELSE 1
    /\ tickets' = Tail(tickets)
    /\ held' = [held EXCEPT ![t] = @ + 1]
    /\ rec_pc' = [rec_pc EXCEPT ![t] = "run"]
    /\ UNCHANGED <<core, due, rec_queue, rec_calls>>

\* It is another task's: this one is marked blocked ...
rec_acquire_block(t) ==
    /\ Runs(t) /\ rec_pc[t] = "acquire" /\ Locked(t)
    /\ current_tid \notin {none, t}
    /\ core' = [core EXCEPT ![Home[t]] = block_current_task(@)]
    /\ rec_pc' = [rec_pc EXCEPT ![t] = "blocked"]
    /\ UNCHANGED <<due, tickets, current_tid, rec_count, rec_queue, rec_calls, held>>

\* ... then queued, and the TicketMutex is released ...
acquire_queue(t) ==
    /\ Executing(t) /\ rec_pc[t] = "blocked"
    /\ rec_queue' = push(rec_queue, t)
    /\ tickets' = Tail(tickets)
    /\ rec_pc' = [rec_pc EXCEPT ![t] = "parked"]
    /\ UNCHANGED <<core, due, current_tid, rec_count, rec_calls, held>>

\* ... and it calls reschedule.
rec_acquire_reschedule(t) ==
    /\ Executing(t) /\ rec_pc[t] = "parked"
    /\ core' = [core EXCEPT ![Home[t]] = scheduler(@)]
    /\ rec_pc' = [rec_pc EXCEPT ![t] = "again"]
    /\ UNCHANGED <<due, tickets, current_tid, rec_count, rec_queue, rec_calls, held>>

\* The owner calls release and takes its ticket.
rec_release(t) ==
    /\ Runs(t) /\ rec_pc[t] = "run" /\ held[t] > 0
    /\ tickets' = Append(tickets, t)
    /\ rec_pc' = [rec_pc EXCEPT ![t] = "release"]
    /\ UNCHANGED <<core, due, current_tid, rec_count, rec_queue, rec_calls, held>>

\* The last release frees the mutex and wakes the first waiter.
release_locked(t) ==
    /\ Runs(t) /\ rec_pc[t] = "release" /\ Locked(t)
    /\ rec_count' = IF rec_count > 0 THEN rec_count - 1 ELSE 0
    /\ IF rec_count' > 0
         THEN UNCHANGED <<core, current_tid, rec_queue>>
         ELSE /\ current_tid' = none
              /\ core' = custom_wakeup(core, Home[t], pop(rec_queue))
              /\ rec_queue' = popped_off(rec_queue)
    /\ tickets' = Tail(tickets)
    /\ held' = [held EXCEPT ![t] = @ - 1]
    /\ rec_pc' = [rec_pc EXCEPT ![t] = "run"]
    /\ UNCHANGED <<due, rec_calls>>

\* exit: finish the task and reschedule.
RecExit(t) ==
    /\ Runs(t) /\ rec_pc[t] = "run" /\ rec_calls[t] = RecMaxCalls /\ held[t] = 0
    /\ core' = [core EXCEPT ![Home[t]] = scheduler([@ EXCEPT !.status[t] = "Finished"])]
    /\ rec_pc' = [rec_pc EXCEPT ![t] = "exited"]
    /\ UNCHANGED <<due, tickets, current_tid, rec_count, rec_queue, rec_calls, held>>

-----------------------------------------------------------------------------
RecTaskStep(t) ==
    \/ rec_acquire(t) \/ acquire_own(t) \/ rec_acquire_block(t) \/ acquire_queue(t) \/ rec_acquire_reschedule(t)
    \/ rec_release(t) \/ release_locked(t) \/ RecExit(t)

RecInterrupt(c) == (wakeup_handler(c) \/ (timer_armed /\ timer_handler(c))) /\ UNCHANGED mvars

RecIdle(c) == run(c) /\ UNCHANGED mvars

RecNext ==
    /\ ~Panicked
    /\ (\E t \in Tasks : RecTaskStep(t) /\ UNCHANGED timer_armed) \/ (\E c \in Cores : RecInterrupt(c) \/ RecIdle(c))

RecSpec == RecInit /\ [][RecNext]_rec_vars

RecExecutes(c) == ~Panicked /\ (RecIdle(c) \/ \E t \in TasksOf(c) : RecTaskStep(t) /\ UNCHANGED timer_armed)

-----------------------------------------------------------------------------
\* The mutex excludes, recursively: at most one task has acquires that it has not released, it is
\* the owner, and the count is their number, through blocking, preemption and wake-ups.
OwnerHolds ==
    \A t \in Tasks : held[t] > 0 => current_tid = t /\ rec_count = held[t]

\* A task that sleeps in acquire can be woken: "Block the current task and add it to the wakeup
\* queue." (recmutex.rs:53) leaves none switched away, blocked, and in no queue.
SleeperIsQueued ==
    \A t \in Tasks :
       t \in core[Home[t]].blocked_tasks /\ ~Executing(t)
          => t \in Range(rec_queue) \cup Range(core[Home[t]].wakeup_tasks)

\* A free mutex is not slept on: while tasks wait for it, one is on its way to take it.
NoStrandedMutex ==
    current_tid = none /\ rec_queue # <<>>
       => \E t \in Tasks : rec_pc[t] \in {"acquire", "blocked", "parked", "again"} /\ t \notin Range(rec_queue)

\* The task is in acquire, and no timer interrupt can lose it there.
InAcquire(t) == ~timer_armed /\ rec_pc[t] \in {"acquire", "blocked", "parked", "again"}
=============================================================================

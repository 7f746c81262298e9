------------------------------- MODULE MCLocks -------------------------------
(***************************************************************************)
(* What tasks and cores wait with in the kernel, each on a small instance: *)
(* the semaphore and the recursive mutex over the schedulers of two cores, *)
(* the queue of the sleepers with deadlines, the condition variables, the  *)
(* idle loop; and, in specifications of their own, the recursive mutex and *)
(* the spinlock alone.                                                     *)
(***************************************************************************)
EXTENDS Parts, Integers

CONSTANTS c1, c2, t1, t2, t3

\* Two tasks share the first core, a third runs on the second one.
ThreeTasks == {t1, t2, t3}
TwoCores == {c1, c2}
HomeOf == [t \in ThreeTasks |-> IF t = t3 THEN c2 ELSE c1]
OnePrio == [t \in ThreeTasks |-> 1]
TwoPrios == [t \in ThreeTasks |-> IF t = t1 THEN 1 ELSE 2]

\* Nobody waits with a deadline, or the task on the second core does.
SomeTimeouts == {[t \in ThreeTasks |-> "none"], [t \in ThreeTasks |-> IF t = t3 THEN "before" ELSE "none"]}

Sem == INSTANCE TaskLocks WITH Cores <- TwoCores, Tasks <- ThreeTasks, Home <- HomeOf,
       Prio <- TwoPrios, Initial <- 1, Timeouts <- SomeTimeouts, SemMaxCalls <- 2,
       RecMaxCalls <- 2, core <- v1, due <- v2, sem_count <- v3, sem_queue <- v4, sem_pc <- v5,
       sem_calls <- v6, timeout <- v7, tickets <- v3, current_tid <- v4, rec_count <- v5,
       rec_queue <- v6, rec_pc <- v7, rec_calls <- v8, held <- v9, timer_armed <- v10

\* All tasks have one priority.
Rec == INSTANCE TaskLocks WITH Cores <- TwoCores, Tasks <- ThreeTasks, Home <- HomeOf,
       Prio <- OnePrio, Initial <- 1, Timeouts <- SomeTimeouts, SemMaxCalls <- 2,
       RecMaxCalls <- 2, core <- v1, due <- v2, sem_count <- v3, sem_queue <- v4, sem_pc <- v5,
       sem_calls <- v6, timeout <- v7, tickets <- v3, current_tid <- v4, rec_count <- v5,
       rec_queue <- v6, rec_pc <- v7, rec_calls <- v8, held <- v9, timer_armed <- v10

Idle == INSTANCE CoreIdle WITH Tasks <- ThreeTasks, Never <- 4, Cores <- TwoCores, MaxSends <- 3,
       list <- v1, network_wakeup_time <- v2, timer <- v3, mode <- v1,
       timer_armed <- v2, phase <- v3, work <- v4, input <- v5, hlt <- v6, ipi <- v7,
       sending <- v8, sends <- v9

Sync == INSTANCE SyncCalls WITH CondThreads <- ThreeTasks, MaxQueues <- 2, CondMaxCalls <- 2,
       SpinThreads <- ThreeTasks, SpinMaxCalls <- 2, id <- v1, queue <- v2, mutex <- v3,
       cond_thread <- v4, next_ticket <- v1, next_serving <- v2, guard <- v3, spin_thread <- v4,
       panicked <- v5

ASSUME Sem!SemaphoreAssumption /\ Rec!MutexAssumption /\ Idle!NeverAssumption /\ Idle!MaxSendsAssumption

-----------------------------------------------------------------------------
Init ==
  \/ Begin("sem", 7) /\ Sem!SemInit
  \/ Begin("rec", 10) /\ Rec!RecInit
  \/ Begin("timed", 3) /\ Idle!TimedInit
  \/ Begin("cond", 4) /\ Sync!CondInit
  \/ Begin("idle", 9) /\ Idle!IdleInit
Next ==
  \/ part = "sem" /\ Sem!SemNext /\ Keep(7)
  \/ part = "rec" /\ Rec!RecNext /\ Keep(10)
  \/ part = "timed" /\ Idle!TimedNext /\ Keep(3)
  \/ part = "cond" /\ Sync!CondNext /\ Keep(4)
  \/ part = "idle" /\ Idle!IdleNext /\ Keep(9)
Spec == Init /\ [][Next]_vars

\* A core keeps executing its current task or its idle loop, which takes the wake-ups of its input, a
\* task that holds the mutex releases it, a timer fires after a deadline has passed, and time passes.
\* That a wake-up interrupt arrives is assumed of the idle loop only, and there for the core that must
\* handle its input; nothing is assumed of the others.
Fairness ==
  /\ \A c \in TwoCores :
       /\ WF_vars(part = "sem" /\ Sem!SemExecutes(c) /\ Keep(7))
       /\ WF_vars(part = "sem" /\ Sem!TimerFires(c) /\ Keep(7))
       /\ WF_vars(part = "rec" /\ Rec!RecExecutes(c) /\ Keep(10))
  /\ WF_vars(part = "idle" /\ Idle!Executes(c1) /\ Keep(9))
  /\ WF_vars(part = "idle" /\ Idle!Sends(c1) /\ Keep(9))
  /\ WF_vars(part = "idle" /\ Idle!Finishes(c1) /\ Keep(9))
  /\ WF_vars(part = "idle" /\ Idle!Interrupted(c1) /\ Keep(9))
  /\ WF_vars(part = "idle" /\ Idle!TimerFires(c1) /\ Keep(9))
  /\ WF_vars(part = "sem" /\ Sem!TimePasses /\ Keep(7))
  /\ WF_vars(part = "timed" /\ Idle!Tick /\ Keep(3))
  /\ WF_vars(part = "timed" /\ Idle!handle_waiting_tasks /\ Keep(3))

FairSpec == Spec /\ Fairness

-----------------------------------------------------------------------------
\* Every component keeps its type invariant.
TypeOK ==
  /\ part = "sem" => Sem!SemTypeOK
  /\ part = "rec" => Rec!RecTypeOK
  /\ part = "timed" => Idle!TimedTypeOK
  /\ part = "cond" => Sync!TypeOK
  /\ part = "idle" => Idle!IdleTypeOK
\* Who holds and who waits is what the counters say: the recursive mutex has one owner and counts its
\* acquires, a condition variable counts its waiters between its two semaphores; a broadcast lets
\* through everyone who waits when it returns, and the timer wakes nobody before the deadline.
HoldersAndWaitersAgree ==
  /\ [](/\ part = "rec" => Rec!OwnerHolds
        /\ part = "cond" => Sync!CountsAgree)
  /\ [][/\ part = "cond" => Sync!BroadcastReachesAll
        /\ part = "timed" => Idle!NoEarlyWake]_vars

\* Nobody waits for what is there: a permit or a free mutex with waiters has a task on its way to take
\* it, whoever overtakes whom, while some task has a deadline the timer is armed, and a core that halts
\* shows it to wakeup_core or has been interrupted.
NothingStranded ==
  /\ part = "sem" => Sem!NoStrandedPermit
  /\ part = "rec" => Rec!NoStrandedMutex
  /\ part = "timed" => Idle!DeadlineIsArmed
  /\ part = "idle" => Idle!HaltedIsReachable

\* Waits that must end, two in each component: a permit that somebody waits for is unused, an acquire has
\* a deadline, an acquire of the recursive mutex on either core is not interrupted by a timer, a task
\* sleeps with a deadline, a core that polls or has a timer has input.
Waits(t) ==
  \/ part = "sem" /\ (IF t = t1 THEN Sem!PermitUnused ELSE Sem!InTimedAcquire(t))
  \/ part = "rec" /\ Rec!InAcquire(t)
  \/ part = "timed" /\ Idle!Sleeping(t)
  \/ part = "idle" /\ t = t1 /\ Idle!HasInput(c1)

\* Every wait ends: a permit somebody waits for is taken, an acquire with a deadline returns unless the
\* kernel panics first, an acquire of the recursive mutex returns if no timer interrupt comes between,
\* and input of a core is handled although wakeup_core may find its flag not yet set and sends nothing to
\* a core in mwait.  A sleeper with a deadline is woken, on a clock without end, unless other tasks go to
\* sleep again and again and each time set the one-shot timer to a later time than its deadline: add does
\* so (task/mod.rs:606,613), and then the sleeper may wait without bound.
WaitsEnd ==
  \/ \A t \in {t1, t3} : Waits(t) ~> ~Waits(t)
  \/ []<><<part = "timed" /\ Idle!Postpones /\ Keep(3)>>_vars

-----------------------------------------------------------------------------
MutexSpec == Begin("rec", 10) /\ Rec!RecInit /\ [][part = "rec" /\ Rec!RecNext /\ Keep(10)]_vars

\* A task that sleeps in acquire of the recursive mutex can be woken: "Block the current task and add it
\* to the wakeup queue." (recmutex.rs:53) leaves none switched away, blocked, and in no queue.
LockerIsQueued == Rec!SleeperIsQueued

SpinSpec == Begin("spin", 5) /\ Sync!SpinInit /\ [][part = "spin" /\ Sync!SpinNext /\ Keep(5)]_vars

\* The assertions of sys_spinlock_lock and sys_spinlock_unlock fail only for a caller that locks what
\* it holds or unlocks what it does not: "Called sys_spinlock_lock when a lock is already held!".
SpinPanicIsMisuse == Sync!PanicIsMisuse
=============================================================================

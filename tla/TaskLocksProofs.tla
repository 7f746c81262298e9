--------------------------- MODULE TaskLocksProofs ---------------------------
(***************************************************************************)
(* Safety of the semaphore and of the recursive mutex for any number of    *)
(* cores, tasks, priorities, permits and calls.  Both queue the handles of *)
(* tasks that sleep without a deadline.  Slumber (SchedulerProofs) is what *)
(* such a queue and the schedulers agree on; the invariants of the two     *)
(* locks add who has the lock and who is on the way to it.                 *)
(***************************************************************************)
EXTENDS TaskLocks, SchedulerProofs

-----------------------------------------------------------------------------
(***************************************************************************)
(* The recursive mutex.                                                    *)
(***************************************************************************)
Acquiring == {"acquire", "blocked", "parked", "again"}

\* The owner is the task with acquires to release, and the count is their number.
Owning ==
    /\ current_tid \in Tasks \cup {none} /\ rec_count \in Nat /\ held \in [Tasks -> Nat]
    /\ rec_pc \in [Tasks -> Acquiring \cup {"run", "release", "exited"}]
    /\ current_tid = none => rec_count = 0
    /\ \A t \in Tasks : /\ held[t] > 0 <=> current_tid = t
                        /\ current_tid = t => rec_count = held[t]
                        /\ rec_pc[t] = "release" => held[t] > 0

\* A task lines up once for the TicketMutex, and one that is marked blocked and not yet queued holds
\* it, so that the owner cannot release in between.
Ticketing ==
    /\ tickets \in Seq(Tasks) /\ IsInjective(tickets)
    /\ \A t \in Tasks : /\ t \in Range(tickets) <=> rec_pc[t] \in {"acquire", "blocked", "release"}
                        /\ rec_pc[t] = "blocked" => Locked(t) /\ current_tid # none

\* With the schedulers cs, the tasks at pcs and the handles of W queued: a sleeper is queued, called, or
\* about to be queued.
Known(cs, pcs, W) ==
    \A t \in Tasks : /\ t \in W \/ Called(cs, t) => pcs[t] \in {"parked", "again"}
                     /\ Sleeps(cs, t) => pcs[t] = "blocked" \/ t \in W \/ Called(cs, t)
                     /\ pcs[t] = "blocked" => Sleeps(cs, t)

\* The tasks in the queue sleep, and every sleeper is known.
Slumbering ==
    /\ AllSound /\ Calm(core) /\ due = [t \in Tasks |-> "none"]
    /\ rec_queue \in Seq(Tasks) /\ IsInjective(rec_queue) /\ Slumber(core, Range(rec_queue))
    /\ Known(core, rec_pc, Range(rec_queue))

\* What a task holds, it acquired; the acquire it is in is not among them.
Counting ==
    /\ rec_calls \in [Tasks -> 0 .. RecMaxCalls] /\ timer_armed \in BOOLEAN
    /\ \A t \in Tasks : held[t] <= rec_calls[t] /\ (rec_pc[t] \in Acquiring => held[t] < rec_calls[t])

RecInv == Owning /\ Ticketing /\ Slumbering /\ NoStrandedMutex

\* The schedulers start with every task ready and none asleep.
LEMMA StartSlumbers ==
  ASSUME SchedulerInit(CHOOSE order \in Orders(Tasks) : TRUE)
  PROVE  /\ AllSound /\ Calm(core) /\ Slumber(core, {}) /\ due = [t \in Tasks |-> "none"]
         /\ \A t \in Tasks : ~Sleeps(core, t) /\ ~Called(core, t)
  <1> USE SMTT(30)
  <1> DEFINE hs == CHOOSE order \in Orders(Tasks) : TRUE
  <1>1. hs \in Seq(Tasks) /\ IsInjective(hs)
    BY TasksAssumption, OrdersAre, OrdersExist, Zenon
  <1>2. SchedulerInit(hs)
    OBVIOUS
  <1> HIDE DEF hs
  <1>3. /\ AllSound
        /\ \A c \in Cores : /\ core[c].blocked_tasks = {} /\ core[c].wakeup_tasks = <<>>
                            /\ core[c].new_tasks = <<>> /\ ~core[c].panicked
    BY <1>1, <1>2, InitIsSound
  <1>4. due = [t \in Tasks |-> "none"]
    BY <1>2 DEF SchedulerInit
  <1>5. \A t \in Tasks : ~Sleeps(core, t) /\ ~Called(core, t) /\ Once(core[Home[t]].wakeup_tasks, t)
    BY <1>3, HomeAssumption DEF Sleeps, Called, Once, Range
  <1>6. Calm(core) /\ Slumber(core, {})
    BY <1>3, <1>5 DEF Calm, Slumber
  <1> QED
    BY <1>3, <1>4, <1>5, <1>6

\* The mutex is free when the tasks start.
LEMMA RecStarts ==
  ASSUME RecInit, none \notin Tasks
  PROVE  RecInv
  <1> USE SMTT(30)
  <1>1. /\ AllSound /\ Calm(core) /\ Slumber(core, {}) /\ due = [t \in Tasks |-> "none"]
        /\ \A t \in Tasks : ~Sleeps(core, t) /\ ~Called(core, t)
    BY StartSlumbers, Zenon DEF RecInit
  <1>2. Range(<<>>) = {} /\ <<>> \in Seq(Tasks) /\ IsInjective(<<>>)
    BY DEF Range, IsInjective
  <1>3. Owning
    BY DEF RecInit, Owning
  <1>4. Ticketing
    BY <1>2 DEF RecInit, Ticketing
  <1>5. rec_queue = <<>> /\ \A t \in Tasks : rec_pc[t] = "run"
    BY DEF RecInit
  <1>6. Known(core, rec_pc, {})
    BY <1>1, <1>5 DEF Known
  <1>7. Slumbering
    BY <1>1, <1>2, <1>5, <1>6, Zenon DEF Slumbering
  <1>8. NoStrandedMutex
    BY DEF RecInit, NoStrandedMutex
  <1> QED
    BY <1>3, <1>4, <1>7, <1>8, Zenon DEF RecInv

\* Ownership does not depend on the schedulers.
LEMMA OwningKept ==
  ASSUME Owning, NEW t \in Tasks, RecTaskStep(t), none \notin Tasks
  PROVE  Owning'
  <1> USE SMTT(30) DEF Owning, Acquiring
  <1>1. CASE rec_acquire(t)
    BY <1>1 DEF rec_acquire
  <1>2. CASE acquire_own(t)
    BY <1>2 DEF acquire_own
  <1>3. CASE rec_acquire_block(t)
    BY <1>3 DEF rec_acquire_block
  <1>4. CASE acquire_queue(t)
    BY <1>4 DEF acquire_queue
  <1>5. CASE rec_acquire_reschedule(t)
    BY <1>5 DEF rec_acquire_reschedule
  <1>6. CASE rec_release(t)
    BY <1>6 DEF rec_release
  <1>7. CASE release_locked(t)
    <2>1. /\ rec_pc[t] = "release" /\ held[t] > 0 /\ current_tid = t /\ rec_count = held[t]
          /\ held' = [held EXCEPT ![t] = held[t] - 1] /\ rec_pc' = [rec_pc EXCEPT ![t] = "run"]
          /\ rec_count' = rec_count - 1
          /\ IF rec_count' > 0 THEN current_tid' = current_tid ELSE current_tid' = none
      BY <1>7 DEF release_locked
    <2>2. CASE rec_count' > 0
      BY <2>1, <2>2
    <2>3. CASE ~(rec_count' > 0)
      BY <2>1, <2>3
    <2> QED
      BY <2>2, <2>3
  <1>8. CASE RecExit(t)
    BY <1>8 DEF RecExit
  <1> QED
    BY <1>1, <1>2, <1>3, <1>4, <1>5, <1>6, <1>7, <1>8, Zenon DEF RecTaskStep

\* Who lines up for the TicketMutex, and who is blocked while holding it.
LEMMA TicketingKept ==
  ASSUME Owning, Ticketing, NEW t \in Tasks, RecTaskStep(t), none \notin Tasks
  PROVE  Ticketing'
  <1> USE SMTT(30)
  <1>1. rec_pc \in [Tasks -> Acquiring \cup {"run", "release", "exited"}] /\ tickets \in Seq(Tasks)
        /\ IsInjective(tickets)
    BY DEF Owning, Ticketing
  <1>2. ASSUME NEW p, tickets' = Append(tickets, t), rec_pc' = [rec_pc EXCEPT ![t] = p],
               p \in {"acquire", "release"}, rec_pc[t] \in {"run", "again"}, current_tid' = current_tid
        PROVE  Ticketing'
    <2>1. t \notin Range(tickets)
      BY <1>2 DEF Ticketing
    <2>2. /\ tickets' \in Seq(Tasks) /\ IsInjective(tickets') /\ tickets' # <<>>
          /\ Range(tickets') = Range(tickets) \cup {t}
          /\ tickets # <<>> => Head(tickets') = Head(tickets)
      BY <1>1, <1>2, <2>1, AppendIs
    <2> QED
      BY <1>1, <1>2, <2>2 DEF Ticketing, Locked
  <1>3. ASSUME NEW p, tickets' = Tail(tickets), Locked(t), rec_pc' = [rec_pc EXCEPT ![t] = p],
               p \in {"run", "parked"}
        PROVE  Ticketing'
    <2>1. t \in Range(tickets) /\ tickets' \in Seq(Tasks) /\ IsInjective(tickets')
          /\ Range(tickets') = Range(tickets) \ {t}
      BY <1>1, <1>3, PopIs DEF Locked
    <2>2. \A u \in Tasks : rec_pc[u] = "blocked" => u = t
      BY <1>3 DEF Ticketing, Locked
    <2> QED
      BY <1>1, <1>3, <2>1, <2>2 DEF Ticketing
  <1>4. CASE rec_acquire(t) \/ rec_release(t)
    BY <1>2, <1>4, Zenon DEF rec_acquire, rec_release
  <1>5. CASE acquire_own(t) \/ release_locked(t)
    BY <1>3, <1>5, Zenon DEF acquire_own, release_locked
  <1>6. CASE acquire_queue(t)
    BY <1>3, <1>6, Zenon DEF acquire_queue, Ticketing
  <1>7. CASE rec_acquire_block(t)
    BY <1>1, <1>7, Zenon DEF rec_acquire_block, Ticketing, Locked
  <1>8. CASE rec_acquire_reschedule(t)
    BY <1>1, <1>8, Zenon DEF rec_acquire_reschedule, Ticketing, Locked
  <1>9. CASE RecExit(t)
    BY <1>1, <1>9, Zenon DEF RecExit, Ticketing, Locked
  <1> QED
    BY <1>4, <1>5, <1>6, <1>7, <1>8, <1>9, Zenon DEF RecTaskStep

\* The sleepers stay known when a task t moves on from q to p, unless that is where a sleeper may be.
LEMMA KnownKept ==
  ASSUME NEW cs, NEW ds, NEW pcs \in [Tasks -> Acquiring \cup {"run", "release", "exited"}], NEW W, NEW t \in Tasks,
         NEW p, Known(cs, pcs, W),
         \A u \in Tasks : (Sleeps(ds, u) <=> Sleeps(cs, u)) /\ (Called(ds, u) <=> Called(cs, u)),
         p # "blocked",
         (~Sleeps(cs, t) /\ t \notin W /\ ~Called(cs, t)) \/ (pcs[t] = "parked" /\ p = "again")
  PROVE  Known(ds, [pcs EXCEPT ![t] = p], W)
  <1> SUFFICES ASSUME NEW u \in Tasks
               PROVE  LET q == [pcs EXCEPT ![t] = p] IN
                      /\ u \in W \/ Called(ds, u) => q[u] \in {"parked", "again"}
                      /\ Sleeps(ds, u) => q[u] = "blocked" \/ u \in W \/ Called(ds, u)
                      /\ q[u] = "blocked" => Sleeps(ds, u)
    BY Zenon DEF Known
  <1>1. /\ u \in W \/ Called(cs, u) => pcs[u] \in {"parked", "again"}
        /\ Sleeps(cs, u) => pcs[u] = "blocked" \/ u \in W \/ Called(cs, u)
        /\ pcs[u] = "blocked" => Sleeps(cs, u)
    BY Zenon DEF Known
  <1>2. CASE u = t
    BY <1>1, <1>2, SMTT(30)
  <1>3. CASE u # t
    BY <1>1, <1>3, SMTT(30)
  <1> QED
    BY <1>2, <1>3, Zenon

\* A task that runs, and goes on to p without blocking, is neither queued nor called.
LEMMA RunnerSlumbers ==
  ASSUME Owning, Slumbering, NEW t \in Tasks, Runs(t), NEW p, p # "blocked",
         rec_pc' = [rec_pc EXCEPT ![t] = p], due' = due, rec_queue' = rec_queue,
         AllSound', SameSleepers(core, core')
  PROVE  Slumbering'
  <1> USE SMTT(30)
  <1> DEFINE W == Range(rec_queue)
  <1>1. /\ AllSound /\ Calm(core) /\ Slumber(core, W) /\ Known(core, rec_pc, W)
        /\ rec_pc \in [Tasks -> Acquiring \cup {"run", "release", "exited"}]
    BY Zenon DEF Slumbering, Owning
  <1>2. ~Sleeps(core, t)
    BY <1>1, RunnerIsUp
  <1>3. t \notin W /\ ~Called(core, t)
    BY <1>1, <1>2, Zenon DEF Slumber
  <1>4. /\ Slumber(core', W) /\ Calm(core')
        /\ \A u \in Tasks : (Sleeps(core', u) <=> Sleeps(core, u)) /\ (Called(core', u) <=> Called(core, u))
    BY <1>1, QuietSlumbers, Zenon
  <1>5. Known(core', rec_pc', W)
    <2>1. (~Sleeps(core, t) /\ t \notin W /\ ~Called(core, t)) \/ (rec_pc[t] = "parked" /\ p = "again")
      BY <1>2, <1>3, Zenon
    <2> HIDE DEF W
    <2>2. Known(core', [rec_pc EXCEPT ![t] = p], W)
      BY <1>1, <1>4, <2>1, KnownKept, Zenon
    <2> QED
      BY <2>2, Zenon
  <1> QED
    BY <1>1, <1>4, <1>5, Zenon DEF Slumbering

\* Rescheduling and ending do not touch who sleeps.
LEMMA RescheduleSlumbers ==
  ASSUME AllSound, NEW t \in Tasks,
         \/ core' = [core EXCEPT ![Home[t]] = scheduler(core[Home[t]])]
         \/ /\ Runs(t)
            /\ core' = [core EXCEPT ![Home[t]] = scheduler([core[Home[t]] EXCEPT !.status[t] = "Finished"])]
  PROVE  AllSound' /\ SameSleepers(core, core')
  BY RescheduleStep, Zenon DEF SameSleepers

\* The task that found the mutex taken is marked blocked, queued and switched away.
LEMMA SleeperSlumbers ==
  ASSUME Owning, Ticketing, Slumbering, NEW t \in Tasks,
         rec_acquire_block(t) \/ acquire_queue(t) \/ rec_acquire_reschedule(t)
  PROVE  Slumbering'
  <1> USE SMTT(30)
  <1> DEFINE W == Range(rec_queue)
  <1>1. /\ AllSound /\ Calm(core) /\ Slumber(core, W) /\ Known(core, rec_pc, W)
        /\ rec_queue \in Seq(Tasks) /\ IsInjective(rec_queue) /\ due = [u \in Tasks |-> "none"]
        /\ rec_pc \in [Tasks -> Acquiring \cup {"run", "release", "exited"}]
    BY Zenon DEF Slumbering, Owning
  <1>2. CASE rec_acquire_block(t)
    <2>1. /\ Runs(t) /\ core' = [core EXCEPT ![Home[t]] = block_current_task(core[Home[t]])]
          /\ rec_pc' = [rec_pc EXCEPT ![t] = "blocked"] /\ rec_queue' = rec_queue /\ due' = due
      BY <1>2, Zenon DEF rec_acquire_block
    <2>2. /\ AllSound' /\ Calm(core') /\ Slumber(core', W)
          /\ \A u \in Tasks : /\ Sleeps(core', u) <=> Sleeps(core, u) \/ u = t
                              /\ Called(core', u) <=> Called(core, u)
      BY <1>1, <2>1, BlockSlumbers, Zenon
    <2>3. ~Sleeps(core, t)
      BY <1>1, <2>1, RunnerIsUp
    <2>4. t \notin W /\ ~Called(core, t)
      BY <1>1, <2>3, Zenon DEF Slumber
    <2>5. Known(core', rec_pc', W)
      <3> SUFFICES ASSUME NEW u \in Tasks
                   PROVE  /\ u \in W \/ Called(core', u) => rec_pc'[u] \in {"parked", "again"}
                          /\ Sleeps(core', u) => rec_pc'[u] = "blocked" \/ u \in W \/ Called(core', u)
                          /\ rec_pc'[u] = "blocked" => Sleeps(core', u)
        BY Zenon DEF Known
      <3> HIDE DEF W
      <3>1. /\ u \in W \/ Called(core, u) => rec_pc[u] \in {"parked", "again"}
            /\ Sleeps(core, u) => rec_pc[u] = "blocked" \/ u \in W \/ Called(core, u)
            /\ rec_pc[u] = "blocked" => Sleeps(core, u)
        BY <1>1, Zenon DEF Known
      <3>2. CASE u = t
        <4>1. rec_pc'[u] = "blocked"
          BY <1>1, <2>1, <3>2
        <4>2. Sleeps(core', u) /\ ~Called(core', u) /\ u \notin W
          BY <2>2, <2>4, <3>2, Zenon
        <4> QED
          BY <4>1, <4>2, Zenon
      <3>3. CASE u # t
        <4>1. rec_pc'[u] = rec_pc[u]
          BY <1>1, <2>1, <3>3, Zenon
        <4>2. (Sleeps(core', u) <=> Sleeps(core, u)) /\ (Called(core', u) <=> Called(core, u))
          BY <2>2, <3>3, Zenon
        <4> QED
          BY <3>1, <4>1, <4>2, Zenon
      <3> QED
        BY <3>2, <3>3
    <2> QED
      BY <1>1, <2>1, <2>2, <2>5, Zenon DEF Slumbering
  <1>3. CASE acquire_queue(t)
    <2>1. /\ rec_pc[t] = "blocked" /\ rec_pc' = [rec_pc EXCEPT ![t] = "parked"]
          /\ rec_queue' = push(rec_queue, t) /\ core' = core /\ due' = due
      BY <1>3, Zenon DEF acquire_queue
    <2>2. Sleeps(core, t) /\ t \notin W /\ ~Called(core, t)
      BY <1>1, <2>1 DEF Known
    <2>3. rec_queue' \in Seq(Tasks) /\ IsInjective(rec_queue') /\ Range(rec_queue') = W \cup {t}
      BY <1>1, <2>1, <2>2, PushIs, ZenonT(60)
    <2>4. Slumber(core, W \cup {t})
      BY <1>1, <2>2, Zenon DEF Slumber
    <2>5. Known(core, rec_pc', W \cup {t})
      <3> HIDE DEF W
      <3> QED
        BY <1>1, <2>1, <2>2, Zenon DEF Known
    <2>6. AllSound'
      BY <1>1, <2>1, Zenon DEF AllSound
    <2> HIDE DEF W
    <2>7. Slumber(core', Range(rec_queue')) /\ Calm(core') /\ Known(core', rec_pc', Range(rec_queue'))
      BY <1>1, <2>1, <2>3, <2>4, <2>5, Zenon
    <2> QED
      BY <1>1, <2>1, <2>3, <2>6, <2>7, Zenon DEF Slumbering
  <1>4. CASE rec_acquire_reschedule(t)
    <2>1. /\ core' = [core EXCEPT ![Home[t]] = scheduler(core[Home[t]])] /\ rec_pc[t] = "parked"
          /\ rec_pc' = [rec_pc EXCEPT ![t] = "again"] /\ rec_queue' = rec_queue /\ due' = due
      BY <1>4 DEF rec_acquire_reschedule
    <2>2. AllSound' /\ SameSleepers(core, core')
      BY <1>1, <2>1, RescheduleSlumbers, Zenon
    <2>3. /\ Slumber(core', W) /\ Calm(core')
          /\ \A u \in Tasks : (Sleeps(core', u) <=> Sleeps(core, u)) /\ (Called(core', u) <=> Called(core, u))
      BY <1>1, <2>2, QuietSlumbers, Zenon
    <2>4. "again" # "blocked"
      OBVIOUS
    <2>5. Known(core', rec_pc', W)
      BY <1>1, <2>1, <2>3, <2>4, KnownKept, Zenon
    <2> QED
      BY <1>1, <2>1, <2>2, <2>3, <2>5, Zenon DEF Slumbering
  <1> QED
    BY <1>2, <1>3, <1>4

\* The last release wakes the first waiter, which sleeps.
LEMMA WakerSlumbers ==
  ASSUME Owning, Slumbering, NEW t \in Tasks, Runs(t), rec_pc' = [rec_pc EXCEPT ![t] = "run"],
         core' = custom_wakeup(core, Home[t], pop(rec_queue)), rec_queue' = popped_off(rec_queue),
         due' = due
  PROVE  Slumbering'
  <1> USE SMTT(30)
  <1> DEFINE W == Range(rec_queue)
  <1> DEFINE hs == pop(rec_queue)
  <1>1. /\ AllSound /\ Calm(core) /\ Slumber(core, W) /\ rec_queue \in Seq(Tasks) /\ IsInjective(rec_queue)
        /\ due = [u \in Tasks |-> "none"] /\ Known(core, rec_pc, W)
        /\ rec_pc \in [Tasks -> Acquiring \cup {"run", "release", "exited"}]
    BY Zenon DEF Slumbering, Owning
  <1>2. /\ hs \in Seq(Tasks) /\ IsInjective(hs) /\ Range(hs) \subseteq W
        /\ rec_queue' \in Seq(Tasks) /\ IsInjective(rec_queue') /\ Range(rec_queue') = W \ Range(hs)
    BY <1>1, PoppedAre, Zenon
  <1>3. core' = custom_wakeup(core, Home[t], hs) /\ Home[t] \in Cores
    BY HomeAssumption
  <1>4. ~Sleeps(core, t)
    BY <1>1, RunnerIsUp
  <1>5. t \notin W /\ ~Called(core, t)
    BY <1>1, <1>4, Zenon DEF Slumber
  <1> HIDE DEF W, hs
  <1>6. /\ AllSound' /\ Calm(core') /\ Slumber(core', W \ Range(hs))
        /\ \A u \in Tasks : /\ Sleeps(core', u) => Sleeps(core, u)
                            /\ Sleeps(core', u) /\ u \in Range(hs) => Called(core', u)
                            /\ Called(core, u) => Called(core', u)
                            /\ Called(core', u) => Called(core, u) \/ u \in Range(hs)
                            /\ Sleeps(core, u) /\ u \notin Range(hs) => Sleeps(core', u)
    BY <1>1, <1>2, <1>3, WakeSlumbers, Zenon
  <1>7. Known(core', rec_pc', W \ Range(hs))
    <2> SUFFICES ASSUME NEW u \in Tasks
                 PROVE  /\ u \in W \ Range(hs) \/ Called(core', u) => rec_pc'[u] \in {"parked", "again"}
                        /\ Sleeps(core', u) => rec_pc'[u] = "blocked" \/ u \in W \ Range(hs) \/ Called(core', u)
                        /\ rec_pc'[u] = "blocked" => Sleeps(core', u)
      BY Zenon DEF Known
    <2>1. /\ u \in W \/ Called(core, u) => rec_pc[u] \in {"parked", "again"}
          /\ Sleeps(core, u) => rec_pc[u] = "blocked" \/ u \in W \/ Called(core, u)
          /\ rec_pc[u] = "blocked" => Sleeps(core, u)
      BY <1>1, Zenon DEF Known
    <2>2. CASE u = t
      BY <1>1, <1>2, <1>4, <1>5, <1>6, <2>1, <2>2, Zenon
    <2>3. CASE u # t
      BY <1>1, <1>2, <1>6, <2>1, <2>3, Zenon
    <2> QED
      BY <2>2, <2>3, Zenon
  <1> QED
    BY <1>1, <1>2, <1>6, <1>7, Zenon DEF Slumbering

\* Every step of a task keeps the sleepers known.
LEMMA SlumberingKept ==
  ASSUME Owning, Ticketing, Slumbering, NEW t \in Tasks, RecTaskStep(t)
  PROVE  Slumbering'
  <1>1. AllSound
    BY Zenon DEF Slumbering
  <1>2. ASSUME core' = core PROVE AllSound' /\ SameSleepers(core, core')
    BY <1>1, <1>2, SMT DEF AllSound, SameSleepers
  <1>3. "acquire" # "blocked" /\ "run" # "blocked" /\ "release" # "blocked" /\ "exited" # "blocked"
    OBVIOUS
  <1>4. CASE rec_acquire(t)
    <2>1. /\ Runs(t) /\ rec_pc' = [rec_pc EXCEPT ![t] = "acquire"] /\ core' = core
          /\ due' = due /\ rec_queue' = rec_queue
      BY <1>4, Zenon DEF rec_acquire
    <2> QED
      BY <1>2, <1>3, <2>1, RunnerSlumbers, Zenon
  <1>5. CASE acquire_own(t)
    <2>1. /\ Runs(t) /\ rec_pc' = [rec_pc EXCEPT ![t] = "run"] /\ core' = core
          /\ due' = due /\ rec_queue' = rec_queue
      BY <1>5, Zenon DEF acquire_own
    <2> QED
      BY <1>2, <1>3, <2>1, RunnerSlumbers, Zenon
  <1>6. CASE rec_release(t)
    <2>1. /\ Runs(t) /\ rec_pc' = [rec_pc EXCEPT ![t] = "release"] /\ core' = core
          /\ due' = due /\ rec_queue' = rec_queue
      BY <1>6, SMT DEF rec_release
    <2> QED
      BY <1>2, <1>3, <2>1, RunnerSlumbers, Zenon
  <1>7. CASE RecExit(t)
    <2>1. /\ Runs(t) /\ rec_pc' = [rec_pc EXCEPT ![t] = "exited"] /\ due' = due /\ rec_queue' = rec_queue
          /\ core' = [core EXCEPT ![Home[t]] = scheduler([core[Home[t]] EXCEPT !.status[t] = "Finished"])]
      BY <1>7, Zenon DEF RecExit
    <2>2. AllSound' /\ SameSleepers(core, core')
      BY <1>1, <2>1, RescheduleSlumbers, Zenon
    <2> QED
      BY <1>3, <2>1, <2>2, RunnerSlumbers, Zenon
  <1>8. CASE release_locked(t)
    <2>1. Runs(t) /\ rec_pc' = [rec_pc EXCEPT ![t] = "run"] /\ due' = due
      BY <1>8, SMT DEF release_locked
    <2>2. CASE core' = core /\ rec_queue' = rec_queue
      BY <1>2, <1>3, <2>1, <2>2, RunnerSlumbers, Zenon
    <2>3. CASE core' = custom_wakeup(core, Home[t], pop(rec_queue)) /\ rec_queue' = popped_off(rec_queue)
      BY <2>1, <2>3, WakerSlumbers, Zenon
    <2> QED
      BY <1>8, <2>2, <2>3, Zenon DEF release_locked
  <1> QED
    BY <1>4, <1>5, <1>6, <1>7, <1>8, SleeperSlumbers, Zenon DEF RecTaskStep

\* A waiter that a release pops is on its way; nobody queues while the mutex is free.
LEMMA NoStrandedMutexKept ==
  ASSUME RecInv, NEW t \in Tasks, RecTaskStep(t), none \notin Tasks
  PROVE  NoStrandedMutex'
  <1> USE SMTT(30)
  <1> SUFFICES ASSUME current_tid' = none, rec_queue' # <<>>
               PROVE  \E u \in Tasks : rec_pc'[u] \in Acquiring /\ u \notin Range(rec_queue')
    BY DEF NoStrandedMutex, Acquiring
  <1>1. /\ rec_pc \in [Tasks -> Acquiring \cup {"run", "release", "exited"}]
        /\ rec_queue \in Seq(Tasks) /\ IsInjective(rec_queue)
        /\ \A u \in Tasks : u \in Range(rec_queue) => rec_pc[u] \in {"parked", "again"}
    BY Zenon DEF RecInv, Owning, Slumbering, Known
  <1>2. ASSUME current_tid = none, rec_queue' = rec_queue, NEW p, rec_pc' = [rec_pc EXCEPT ![t] = p],
               rec_pc[t] \in Acquiring => p \in Acquiring
        PROVE  \E u \in Tasks : rec_pc'[u] \in Acquiring /\ u \notin Range(rec_queue')
    <2>1. PICK u \in Tasks : rec_pc[u] \in Acquiring /\ u \notin Range(rec_queue)
      BY <1>2 DEF RecInv, NoStrandedMutex, Acquiring
    <2>2. rec_pc'[u] \in Acquiring /\ u \notin Range(rec_queue')
      BY <1>1, <1>2, <2>1
    <2> QED
      BY <2>2
  <1>3. CASE rec_acquire(t)
    <2>1. /\ current_tid = none /\ rec_queue' = rec_queue /\ rec_pc' = [rec_pc EXCEPT ![t] = "acquire"]
          /\ rec_pc[t] \in Acquiring => "acquire" \in Acquiring
      BY <1>3, Zenon DEF rec_acquire, Acquiring
    <2> QED
      BY <1>2, <2>1, Zenon
  <1>4. CASE rec_release(t)
    <2>1. /\ current_tid = none /\ rec_queue' = rec_queue /\ rec_pc' = [rec_pc EXCEPT ![t] = "release"]
          /\ rec_pc[t] \in Acquiring => "release" \in Acquiring
      BY <1>4 DEF rec_release, Acquiring
    <2> QED
      BY <1>2, <2>1, Zenon
  <1>5. CASE rec_acquire_reschedule(t)
    <2>1. /\ current_tid = none /\ rec_queue' = rec_queue /\ rec_pc' = [rec_pc EXCEPT ![t] = "again"]
          /\ rec_pc[t] \in Acquiring => "again" \in Acquiring
      BY <1>5 DEF rec_acquire_reschedule, Acquiring
    <2> QED
      BY <1>2, <2>1, Zenon
  <1>6. CASE RecExit(t)
    <2>1. /\ current_tid = none /\ rec_queue' = rec_queue /\ rec_pc' = [rec_pc EXCEPT ![t] = "exited"]
          /\ rec_pc[t] \in Acquiring => "exited" \in Acquiring
      BY <1>6, Zenon DEF RecExit, Acquiring
    <2> QED
      BY <1>2, <2>1, Zenon
  <1>7. CASE acquire_own(t) \/ rec_acquire_block(t)
    BY <1>7, Zenon DEF acquire_own, rec_acquire_block
  <1>8. CASE acquire_queue(t)
    BY <1>8, Zenon DEF acquire_queue, RecInv, Ticketing
  <1>9. CASE release_locked(t)
    <2>1. rec_pc[t] = "release" /\ rec_pc' = [rec_pc EXCEPT ![t] = "run"] /\ current_tid = t
      BY <1>9, Zenon DEF release_locked, RecInv, Owning
    <2>2. rec_queue' = popped_off(rec_queue)
      BY <1>9, <2>1, Zenon DEF release_locked
    <2> DEFINE u == Head(rec_queue)
    <2>3. rec_queue # <<>> /\ u \in Range(rec_queue) /\ u \notin Range(rec_queue')
      <3>1. /\ Range(popped_off(rec_queue)) = Range(rec_queue) \ Range(pop(rec_queue))
            /\ rec_queue # <<>> => Range(pop(rec_queue)) = {u} /\ u \in Range(rec_queue)
            /\ rec_queue = <<>> => popped_off(rec_queue) = <<>>
        BY <1>1, PoppedAre, Zenon
      <3> QED
        BY <2>2, <3>1, Zenon
    <2>4. u \in Tasks
      BY <1>1, <2>3
    <2> HIDE DEF u
    <2>5. rec_pc'[u] \in Acquiring
      BY <1>1, <2>1, <2>3, <2>4 DEF Acquiring
    <2> QED
      BY <2>3, <2>4, <2>5, Zenon
  <1> QED
    BY <1>3, <1>4, <1>5, <1>6, <1>7, <1>8, <1>9, Zenon DEF RecTaskStep

\* An interrupt or the idle loop only wakes who was called.
LEMMA InterruptKept ==
  ASSUME RecInv, NEW c \in Cores, RecInterrupt(c) \/ RecIdle(c)
  PROVE  RecInv'
  <1> USE SMTT(30)
  <1> DEFINE W == Range(rec_queue)
  <1>1. UNCHANGED <<tickets, current_tid, rec_count, rec_queue, rec_pc, rec_calls, held, timer_armed>>
    BY Zenon DEF RecInterrupt, RecIdle, mvars
  <1>2. Owning' /\ Ticketing' /\ NoStrandedMutex'
    BY <1>1, Zenon DEF RecInv, Owning, Ticketing, NoStrandedMutex, Locked
  <1>3. /\ AllSound /\ Calm(core) /\ Slumber(core, W) /\ due = [u \in Tasks |-> "none"]
        /\ rec_queue \in Seq(Tasks) /\ IsInjective(rec_queue) /\ Known(core, rec_pc, W)
    BY Zenon DEF RecInv, Slumbering
  <1> HIDE DEF W
  <1>4. /\ AllSound' /\ Calm(core') /\ Slumber(core', W) /\ due' = due
        /\ \A u \in Tasks : /\ Sleeps(core', u) => Sleeps(core, u)
                            /\ Called(core', u) => Called(core, u)
                            /\ Sleeps(core', u) /\ Called(core, u) => Called(core', u)
                            /\ Sleeps(core, u) /\ ~Called(core, u) => Sleeps(core', u)
    <2>1. CASE wakeup_handler(c) \/ run(c)
      BY <1>3, <2>1, InputSlumbers, Zenon
    <2>2. CASE timer_handler(c)
      <3>1. \A u \in Tasks : due[u] = "none"
        BY <1>3
      <3>2. AllSound' /\ SameSleepers(core, core') /\ due' = due
        BY <1>3, <2>2, <3>1, TimerSlumbers, Zenon
      <3> QED
        BY <1>3, <3>2, QuietSlumbers, Zenon
    <2> QED
      BY <2>1, <2>2, Zenon DEF RecInterrupt, RecIdle
  <1>5. Known(core', rec_pc', W)
    <2> SUFFICES ASSUME NEW u \in Tasks
                 PROVE  /\ u \in W \/ Called(core', u) => rec_pc[u] \in {"parked", "again"}
                        /\ Sleeps(core', u) => rec_pc[u] = "blocked" \/ u \in W \/ Called(core', u)
                        /\ rec_pc[u] = "blocked" => Sleeps(core', u)
      BY <1>1, Zenon DEF Known
    <2>1. /\ u \in W \/ Called(core, u) => rec_pc[u] \in {"parked", "again"}
          /\ Sleeps(core, u) => rec_pc[u] = "blocked" \/ u \in W \/ Called(core, u)
          /\ rec_pc[u] = "blocked" => Sleeps(core, u) /\ ~Called(core, u)
      BY <1>3 DEF Known
    <2> QED
      BY <1>4, <2>1, Zenon
  <1>6. W = Range(rec_queue') /\ rec_queue' \in Seq(Tasks) /\ IsInjective(rec_queue')
    BY <1>1, <1>3 DEF W
  <1>7. Slumbering'
    BY <1>3, <1>4, <1>5, <1>6, Zenon DEF Slumbering
  <1> QED
    BY <1>2, <1>7, Zenon DEF RecInv

\* The invariant of the recursive mutex.
LEMMA RecInvIsInvariant ==
  ASSUME none \notin Tasks
  PROVE  RecSpec => []RecInv
  <1>1. RecInit => RecInv
    BY RecStarts
  <1>2. ASSUME RecInv, [RecNext]_rec_vars PROVE RecInv'
    <2>1. ASSUME NEW t \in Tasks, RecTaskStep(t) PROVE RecInv'
      <3>1. Owning /\ Ticketing /\ Slumbering
        BY <1>2, Zenon DEF RecInv
      <3> QED
        BY <1>2, <2>1, <3>1, OwningKept, TicketingKept, SlumberingKept, NoStrandedMutexKept, Zenon DEF RecInv
    <2>2. ASSUME NEW c \in Cores, RecInterrupt(c) \/ RecIdle(c) PROVE RecInv'
      BY <1>2, <2>2, InterruptKept, Zenon
    <2>3. CASE UNCHANGED rec_vars
      BY <1>2, <2>3, Zenon DEF rec_vars, mvars, RecInv, Owning, Ticketing, Slumbering, NoStrandedMutex,
         Locked, AllSound
    <2> QED
      BY <1>2, <2>1, <2>2, <2>3, Zenon DEF RecNext
  <1> QED
    BY <1>1, <1>2, PTL DEF RecSpec

\* The acquires that a task holds or waits for are among those it made.
LEMMA CountingKept ==
  ASSUME MutexAssumption, Owning, Counting, NEW t \in Tasks, RecTaskStep(t), UNCHANGED timer_armed
  PROVE  Counting'
  <1> USE SMTT(30) DEF MutexAssumption, Owning, Counting, Acquiring
  <1>1. CASE rec_acquire(t)
    BY <1>1 DEF rec_acquire
  <1>2. CASE acquire_own(t)
    BY <1>2 DEF acquire_own
  <1>3. CASE rec_acquire_block(t)
    BY <1>3, Zenon DEF rec_acquire_block
  <1>4. CASE acquire_queue(t)
    BY <1>4, Zenon DEF acquire_queue
  <1>5. CASE rec_acquire_reschedule(t)
    BY <1>5, Zenon DEF rec_acquire_reschedule
  <1>6. CASE rec_release(t)
    BY <1>6, Zenon DEF rec_release
  <1>7. CASE release_locked(t)
    BY <1>7 DEF release_locked
  <1>8. CASE RecExit(t)
    BY <1>8, Zenon DEF RecExit
  <1> QED
    BY <1>1, <1>2, <1>3, <1>4, <1>5, <1>6, <1>7, <1>8, Zenon DEF RecTaskStep

\* The state of the recursive mutex keeps its types: the tickets and the queue hold tasks, and the
\* count does not pass the acquires that a task makes.
THEOREM RecTypeCorrect ==
  ASSUME MutexAssumption
  PROVE  RecSpec => []RecTypeOK
  <1>1. none \notin Tasks /\ RecMaxCalls \in Nat
    BY DEF MutexAssumption
  <1>2. RecSpec => []RecInv
    BY <1>1, RecInvIsInvariant
  <1>3. RecInit => Counting
    BY <1>1, SMT DEF RecInit, Counting, Acquiring
  <1>4. ASSUME RecInv, Counting, [RecNext]_rec_vars PROVE Counting'
    <2>1. ASSUME NEW t \in Tasks, RecTaskStep(t), UNCHANGED timer_armed PROVE Counting'
      BY <1>4, <2>1, CountingKept, Zenon DEF RecInv
    <2>2. CASE UNCHANGED mvars
      BY <1>4, <2>2, Zenon DEF mvars, Counting
    <2> QED
      BY <1>4, <2>1, <2>2, Zenon DEF RecNext, RecInterrupt, RecIdle, rec_vars
  <1>5. ASSUME RecInv, Counting PROVE RecTypeOK
    <2> USE SMTT(30)
    <2>1. SchedulerTypeOK
      BY <1>5 DEF RecInv, Slumbering, AllSound, Sound, SchedulerTypeOK, Dues
    <2>2. \A t \in Tasks : held[t] \in 0 .. RecMaxCalls
      BY <1>1, <1>5 DEF RecInv, Owning, Counting
    <2>3. rec_count \in 0 .. RecMaxCalls
      BY <1>1, <1>5, <2>2 DEF RecInv, Owning
    <2>4. held \in [Tasks -> 0 .. RecMaxCalls]
      BY <1>5, <2>2 DEF RecInv, Owning
    <2>5. /\ tickets \in Seq(Tasks) /\ current_tid \in Tasks \cup {none} /\ rec_queue \in Seq(Tasks)
          /\ rec_calls \in [Tasks -> 0 .. RecMaxCalls] /\ timer_armed \in BOOLEAN
          /\ rec_pc \in [Tasks -> {"run", "acquire", "blocked", "parked", "again", "release", "exited"}]
      BY <1>5 DEF RecInv, Owning, Ticketing, Slumbering, Counting, Acquiring
    <2> QED
      BY <2>1, <2>3, <2>4, <2>5 DEF RecTypeOK
  <1> QED
    BY <1>2, <1>3, <1>4, <1>5, PTL DEF RecSpec

\* At most one task has acquires to release, it is the owner, and the count is their number, however
\* the tasks block, are preempted and are woken.
THEOREM OwnerHoldsCorrect ==
  ASSUME none \notin Tasks
  PROVE  RecSpec => []OwnerHolds
  <1>1. RecInv => OwnerHolds
    BY SMT DEF RecInv, Owning, OwnerHolds
  <1> QED
    BY <1>1, RecInvIsInvariant, PTL

\* While tasks wait for the mutex and it is free, a task that is not queued is on its way to it.
THEOREM NoStrandedMutexCorrect ==
  ASSUME none \notin Tasks
  PROVE  RecSpec => []NoStrandedMutex
  <1>1. RecInv => NoStrandedMutex
    BY Zenon DEF RecInv
  <1> QED
    BY <1>1, RecInvIsInvariant, PTL

\* A task asleep in acquire is queued or called, unless it was switched away between
\* block_current_task and the push, where it still holds the TicketMutex: the window in which an
\* interrupt loses it is the only one.
SleeperIsKnown ==
    \A t \in Tasks : t \in core[Home[t]].blocked_tasks
       => \/ t \in Range(rec_queue) \cup Range(core[Home[t]].wakeup_tasks)
          \/ rec_pc[t] = "blocked" /\ Locked(t)

\* No interrupt loses a sleeper anywhere else, whatever the timer and the priorities.
THEOREM SleeperIsKnownCorrect ==
  ASSUME none \notin Tasks
  PROVE  RecSpec => []SleeperIsKnown
  <1>1. ASSUME RecInv PROVE SleeperIsKnown
    <2>1. \A t \in Tasks : Sleeps(core, t) => rec_pc[t] = "blocked" \/ t \in Range(rec_queue) \/ Called(core, t)
      BY <1>1, Zenon DEF RecInv, Slumbering, Known
    <2>2. \A t \in Tasks : rec_pc[t] = "blocked" => Locked(t)
      BY <1>1, Zenon DEF RecInv, Ticketing
    <2> QED
      BY <2>1, <2>2, Zenon DEF SleeperIsKnown, Sleeps, Called
  <1> QED
    BY <1>1, RecInvIsInvariant, PTL

\* The mutex never asks a scheduler for the impossible: no release wakes a task that is not blocked,
\* which custom_wakeup would answer with unreachable!(), and only a running task blocks.
THEOREM MutexNeverPanics ==
  ASSUME none \notin Tasks
  PROVE  RecSpec => []~Panicked
  <1>1. RecInv => ~Panicked
    BY SMT DEF RecInv, Slumbering, Calm, Panicked
  <1> QED
    BY <1>1, RecInvIsInvariant, PTL

-----------------------------------------------------------------------------
(***************************************************************************)
(* The semaphore.  A waiter with a deadline leaves its handle behind when  *)
(* it finds a permit, so the schedulers agree with the queue only while    *)
(* nobody has one.                                                         *)
(***************************************************************************)
SemTypes ==
    /\ AllSound /\ due \in [Tasks -> Dues] /\ timeout \in [Tasks -> Dues]
    /\ sem_count \in Int /\ sem_queue \in Seq(Tasks)
    /\ sem_pc \in [Tasks -> {"run", "acquire", "parked", "exited"}]

\* With the schedulers cs, the tasks at pcs and the handles of W queued: who sleeps is in acquire, and
\* queued or called.
Waiting(cs, pcs, W) ==
    \A t \in Tasks : Sleeps(cs, t) => /\ pcs[t] \in {"acquire", "parked"}
                                      /\ t \in W \/ Called(cs, t)

\* The tasks in the queue sleep, and who sleeps waits.
Dozing ==
    /\ Calm(core) /\ \A t \in Tasks : due[t] = "none"
    /\ IsInjective(sem_queue) /\ Slumber(core, Range(sem_queue))
    /\ Waiting(core, sem_pc, Range(sem_queue))

SemInv == SemTypes /\ (Untimed => Dozing) /\ NoStrandedPermit

\* The types, with deadlines and without.
LEMMA SemTypesKept ==
  ASSUME SemTypes, NEW t \in Tasks, SemTaskStep(t)
  PROVE  SemTypes'
  <1> USE SMTT(30)
  <1>1. /\ AllSound /\ due \in [Tasks -> Dues] /\ timeout \in [Tasks -> Dues] /\ timeout' = timeout
        /\ sem_count \in Int /\ sem_queue \in Seq(Tasks)
        /\ sem_pc \in [Tasks -> {"run", "acquire", "parked", "exited"}]
    BY Zenon DEF SemTypes, SemTaskStep, sem_acquire, acquire_success, acquire_timeout, sem_acquire_block,
       sem_acquire_reschedule, try_acquire, sem_release, SemExit, Return
  <1>2. sem_count' \in Int
    BY <1>1 DEF SemTaskStep, sem_acquire, acquire_success, acquire_timeout, sem_acquire_block,
       sem_acquire_reschedule, try_acquire, sem_release, SemExit, Return
  <1>3. due' \in [Tasks -> Dues]
    <2>1. due' = due \/ due' = [due EXCEPT ![t] = timeout[t]] \/ due' = [due EXCEPT ![t] = "none"]
      BY Zenon DEF SemTaskStep, sem_acquire, acquire_success, acquire_timeout, sem_acquire_block,
         sem_acquire_reschedule, try_acquire, sem_release, SemExit, Return
    <2> QED
      BY <1>1, <2>1 DEF Dues
  <1>4. sem_pc' \in [Tasks -> {"run", "acquire", "parked", "exited"}]
    BY <1>1 DEF SemTaskStep, sem_acquire, acquire_success, acquire_timeout, sem_acquire_block,
       sem_acquire_reschedule, try_acquire, sem_release, SemExit, Return
  <1>5. sem_queue' \in Seq(Tasks)
    <2>1. \/ sem_queue' = sem_queue \/ sem_queue' = remove(sem_queue, t)
          \/ sem_queue' = push(sem_queue, t) \/ sem_queue' = popped_off(sem_queue)
      BY Zenon DEF SemTaskStep, sem_acquire, acquire_success, acquire_timeout, sem_acquire_block,
         sem_acquire_reschedule, try_acquire, sem_release, SemExit, Return
    <2>2. remove(sem_queue, t) \in Seq(Tasks)
      BY <1>1, RemoveIs, Zenon
    <2>3. push(sem_queue, t) \in Seq(Tasks)
      BY <1>1, PushIs
    <2>4. popped_off(sem_queue) \in Seq(Tasks)
      BY <1>1 DEF popped_off
    <2> QED
      BY <1>1, <2>1, <2>2, <2>3, <2>4
  <1>6. AllSound'
    <2>1. CASE core' = core
      BY <1>1, <2>1 DEF AllSound
    <2>2. CASE Runs(t) /\ core' = [core EXCEPT ![Home[t]] = block_current_task(core[Home[t]])]
      BY <1>1, <2>2, BlockStep, Zenon
    <2>3. CASE \/ core' = [core EXCEPT ![Home[t]] = scheduler(core[Home[t]])]
               \/ /\ Runs(t)
                  /\ core' = [core EXCEPT ![Home[t]] = scheduler([core[Home[t]] EXCEPT !.status[t] = "Finished"])]
      BY <1>1, <2>3, RescheduleSlumbers, Zenon
    <2>4. CASE core' = custom_wakeup(core, Home[t], pop(sem_queue))
      <3>1. pop(sem_queue) \in Seq(Tasks) /\ Home[t] \in Cores
        BY <1>1, HomeAssumption DEF pop
      <3> QED
        BY <1>1, <2>4, <3>1, CustomWakeupStep, Zenon
    <2> QED
      BY <2>1, <2>2, <2>3, <2>4, Zenon DEF SemTaskStep, sem_acquire, acquire_success, acquire_timeout,
         sem_acquire_block, sem_acquire_reschedule, try_acquire, sem_release, SemExit, Return, Calls
  <1> QED
    BY <1>1, <1>2, <1>3, <1>4, <1>5, <1>6 DEF SemTypes

\* A task that does not sleep and is not put to sleep.
LEMMA WakefulDozes ==
  ASSUME SemTypes, Dozing, NEW t \in Tasks, NEW p,
         sem_pc' = [sem_pc EXCEPT ![t] = p], ~Sleeps(core, t) \/ p \in {"acquire", "parked"},
         \A u \in Tasks : due'[u] = "none", sem_queue' = sem_queue, SameSleepers(core, core')
  PROVE  Dozing'
  <1> USE SMTT(30)
  <1> DEFINE W == Range(sem_queue)
  <1>1. /\ Calm(core) /\ Slumber(core, W) /\ IsInjective(sem_queue) /\ Waiting(core, sem_pc, W)
        /\ sem_pc \in [Tasks -> {"run", "acquire", "parked", "exited"}]
    BY Zenon DEF Dozing, SemTypes
  <1>2. /\ Slumber(core', W) /\ Calm(core')
        /\ \A u \in Tasks : (Sleeps(core', u) <=> Sleeps(core, u)) /\ (Called(core', u) <=> Called(core, u))
    BY <1>1, QuietSlumbers, Zenon
  <1>3. Waiting(core', sem_pc', W)
    <2> HIDE DEF W
    <2> QED
      BY <1>1, <1>2 DEF Waiting
  <1> QED
    BY <1>1, <1>2, <1>3, Zenon DEF Dozing

\* A task finds no permit, blocks and is queued.
LEMMA BlockDozes ==
  ASSUME SemTypes, Dozing, NEW t \in Tasks, sem_acquire_block(t)
  PROVE  Dozing'
  <1> USE SMTT(30)
  <1> DEFINE W == Range(sem_queue)
  <1>1. /\ AllSound /\ Calm(core) /\ Slumber(core, W) /\ IsInjective(sem_queue) /\ sem_queue \in Seq(Tasks)
        /\ sem_pc \in [Tasks -> {"run", "acquire", "parked", "exited"}] /\ Waiting(core, sem_pc, W)
        /\ \A u \in Tasks : due[u] = "none"
    BY Zenon DEF Dozing, SemTypes
  <1>2. /\ Runs(t) /\ core' = [core EXCEPT ![Home[t]] = block_current_task(core[Home[t]])]
        /\ sem_queue' = push(sem_queue, t) /\ sem_pc' = [sem_pc EXCEPT ![t] = "parked"] /\ due' = due
    BY DEF sem_acquire_block
  <1>3. ~Sleeps(core, t)
    BY <1>1, <1>2, RunnerIsUp, Zenon
  <1>4. t \notin W
    BY <1>1, <1>3, Zenon DEF Slumber
  <1>5. Range(push(sem_queue, t)) = W \cup {t} /\ IsInjective(push(sem_queue, t))
    <2>1. Tasks \in SUBSET Tasks
      OBVIOUS
    <2> QED
      BY <1>1, <1>4, <2>1, PushIs, Zenon
  <1> HIDE DEF W
  <1>6. /\ Calm(core') /\ Slumber(core', W \cup {t})
        /\ \A u \in Tasks : /\ Sleeps(core', u) <=> Sleeps(core, u) \/ u = t
                            /\ Called(core', u) <=> Called(core, u)
    BY <1>1, <1>2, BlockSlumbers, Zenon
  <1>7. Waiting(core', sem_pc', W \cup {t})
    <2>1. ASSUME NEW u \in Tasks, Sleeps(core', u), u # t
          PROVE  sem_pc'[u] \in {"acquire", "parked"} /\ (u \in W \/ Called(core', u))
      <3>1. sem_pc'[u] = sem_pc[u]
        BY <1>1, <1>2, <2>1
      <3>2. Sleeps(core, u) /\ (Called(core', u) <=> Called(core, u))
        BY <1>6, <2>1, Zenon
      <3> QED
        BY <1>1, <3>1, <3>2, Zenon DEF Waiting
    <2>2. sem_pc'[t] \in {"acquire", "parked"}
      BY <1>1, <1>2
    <2> QED
      BY <2>1, <2>2, Zenon DEF Waiting
  <1>8. Range(sem_queue') = W \cup {t} /\ IsInjective(sem_queue')
    BY <1>2, <1>5, Zenon
  <1>9. Slumber(core', Range(sem_queue')) /\ Waiting(core', sem_pc', Range(sem_queue'))
    BY <1>6, <1>7, <1>8, Zenon
  <1> QED
    BY <1>1, <1>2, <1>6, <1>8, <1>9, Zenon DEF Dozing

\* A release wakes the first waiter, which sleeps.
LEMMA ReleaseDozes ==
  ASSUME SemTypes, Dozing, NEW t \in Tasks, sem_release(t)
  PROVE  Dozing'
  <1> USE SMTT(30)
  <1> DEFINE W == Range(sem_queue)
  <1> DEFINE hs == pop(sem_queue)
  <1>1. /\ AllSound /\ Calm(core) /\ Slumber(core, W) /\ IsInjective(sem_queue) /\ sem_queue \in Seq(Tasks)
        /\ \A u \in Tasks : due[u] = "none"
        /\ Waiting(core, sem_pc, W)
    BY Zenon DEF Dozing, SemTypes
  <1>2. /\ core' = custom_wakeup(core, Home[t], hs) /\ sem_queue' = popped_off(sem_queue)
        /\ sem_pc' = sem_pc /\ due' = due /\ Home[t] \in Cores
    BY HomeAssumption DEF sem_release
  <1>3. /\ hs \in Seq(Tasks) /\ IsInjective(hs) /\ Range(hs) \subseteq W
        /\ IsInjective(sem_queue') /\ Range(sem_queue') = W \ Range(hs)
    BY <1>1, <1>2, PoppedAre, Zenon
  <1> HIDE DEF W, hs
  <1>4. /\ Calm(core') /\ Slumber(core', W \ Range(hs))
        /\ \A u \in Tasks : /\ Sleeps(core', u) => Sleeps(core, u)
                            /\ Sleeps(core', u) /\ u \in Range(hs) => Called(core', u)
                            /\ Called(core, u) => Called(core', u)
    BY <1>1, <1>2, <1>3, WakeSlumbers, Zenon
  <1>5. Waiting(core', sem_pc', W \ Range(hs))
    BY <1>1, <1>2, <1>4 DEF Waiting
  <1>6. Slumber(core', Range(sem_queue')) /\ Waiting(core', sem_pc', Range(sem_queue'))
    BY <1>3, <1>4, <1>5, Zenon
  <1> QED
    BY <1>1, <1>2, <1>3, <1>4, <1>6, Zenon DEF Dozing

\* Without deadlines every step of a task keeps queue and schedulers in agreement.
LEMMA DozingKept ==
  ASSUME SemTypes, Untimed, Dozing, NEW t \in Tasks, SemTaskStep(t)
  PROVE  Dozing'
  <1> USE SMTT(30)
  <1>1. /\ AllSound /\ due \in [Tasks -> Dues] /\ timeout[t] = "none" /\ \A u \in Tasks : due[u] = "none"
        /\ sem_pc \in [Tasks -> {"run", "acquire", "parked", "exited"}]
    BY Zenon DEF SemTypes, Untimed, Dozing
  <1>2. core' = core => SameSleepers(core, core')
    BY Zenon DEF SameSleepers
  <1>A. "acquire" \in {"acquire", "parked"}
    OBVIOUS
  <1>3. Runs(t) => ~Sleeps(core, t)
    BY <1>1, RunnerIsUp
  <1>4. CASE sem_acquire(t)
    <2>1. /\ Runs(t) /\ sem_pc' = [sem_pc EXCEPT ![t] = "acquire"] /\ core' = core
          /\ due' = [due EXCEPT ![t] = timeout[t]] /\ sem_queue' = sem_queue
      BY <1>4 DEF sem_acquire, Calls
    <2>2. \A u \in Tasks : due'[u] = "none"
      BY <1>1, <2>1
    <2> QED
      BY <1>2, <1>3, <2>1, <2>2, WakefulDozes, Zenon
  <1>5. CASE acquire_success(t)
    <2>1. /\ Runs(t) /\ sem_pc' = [sem_pc EXCEPT ![t] = "run"] /\ core' = core
          /\ due' = [due EXCEPT ![t] = "none"] /\ sem_queue' = sem_queue
      BY <1>5 DEF acquire_success, Return
    <2>2. \A u \in Tasks : due'[u] = "none"
      BY <1>1, <2>1
    <2> QED
      BY <1>2, <1>3, <2>1, <2>2, WakefulDozes, Zenon
  <1>6. CASE acquire_timeout(t)
    BY <1>1, <1>6 DEF acquire_timeout
  <1>7. CASE sem_acquire_reschedule(t)
    <2>1. /\ sem_pc' = [sem_pc EXCEPT ![t] = "acquire"] /\ due' = due /\ sem_queue' = sem_queue
          /\ core' = [core EXCEPT ![Home[t]] = scheduler(core[Home[t]])]
      BY <1>7 DEF sem_acquire_reschedule
    <2>2. SameSleepers(core, core')
      BY <1>1, <2>1, RescheduleSlumbers, Zenon
    <2> QED
      BY <1>1, <1>A, <2>1, <2>2, WakefulDozes, Zenon
  <1>8. CASE try_acquire(t)
    <2>1. /\ Runs(t) /\ sem_pc[t] = "run" /\ sem_pc' = sem_pc /\ due' = due /\ sem_queue' = sem_queue
          /\ core' = core
      BY <1>8 DEF try_acquire, Calls
    <2>2. sem_pc' = [sem_pc EXCEPT ![t] = "run"]
      BY <1>1, <2>1
    <2> QED
      BY <1>1, <1>2, <1>3, <2>1, <2>2, WakefulDozes, Zenon
  <1>9. CASE SemExit(t)
    <2>1. /\ Runs(t) /\ sem_pc' = [sem_pc EXCEPT ![t] = "exited"] /\ due' = due /\ sem_queue' = sem_queue
          /\ core' = [core EXCEPT ![Home[t]] = scheduler([core[Home[t]] EXCEPT !.status[t] = "Finished"])]
      BY <1>9 DEF SemExit
    <2>2. SameSleepers(core, core')
      BY <1>1, <2>1, RescheduleSlumbers, Zenon
    <2> QED
      BY <1>1, <1>3, <2>1, <2>2, WakefulDozes, Zenon
  <1> QED
    BY <1>4, <1>5, <1>6, <1>7, <1>8, <1>9, BlockDozes, ReleaseDozes, Zenon DEF SemTaskStep

\* The tasks on their way to a permit are finitely many.
LEMMA RetryingIsFinite ==
  ASSUME NEW R \in SUBSET Tasks
  PROVE  /\ IsFiniteSet(R) /\ Cardinality(R) \in Nat
         /\ \A u \in R : Cardinality(R \ {u}) = Cardinality(R) - 1
         /\ \A u \in Tasks \ R : Cardinality(R \cup {u}) = Cardinality(R) + 1
         /\ \A S \in SUBSET Tasks : R \subseteq S => Cardinality(R) <= Cardinality(S)
  <1>1. IsFiniteSet(R) /\ \A S \in SUBSET Tasks : IsFiniteSet(S)
    BY TasksAreFinite, Zenon
  <1>2. Cardinality(R) \in Nat
    BY <1>1, FS_CardinalityType, Zenon
  <1>3. \A u \in R : Cardinality(R \ {u}) = Cardinality(R) - 1
    BY <1>1, FS_RemoveElement, SMT
  <1>4. \A u \in Tasks \ R : Cardinality(R \cup {u}) = Cardinality(R) + 1
    BY <1>1, FS_AddElement, Zenon
  <1>5. \A S \in SUBSET Tasks : R \subseteq S => Cardinality(R) <= Cardinality(S)
    BY <1>1, FS_Subset, Zenon
  <1> QED
    BY <1>1, <1>2, <1>3, <1>4, <1>5

\* A permit is taken by a task that was on its way, and a release sends one on its way.
LEMMA NoStrandedPermitKept ==
  ASSUME SemTypes, Untimed, Dozing, NoStrandedPermit, NEW t \in Tasks, SemTaskStep(t)
  PROVE  NoStrandedPermit'
  <1> USE SMTT(30)
  <1> DEFINE R == Retrying
  <1> DEFINE S == Retrying'
  <1> SUFFICES ASSUME sem_queue' # <<>>
               PROVE  sem_count' <= Cardinality(S)
    BY DEF NoStrandedPermit
  <1>1. /\ AllSound /\ sem_queue \in Seq(Tasks) /\ sem_count \in Int /\ IsInjective(sem_queue)
        /\ sem_pc \in [Tasks -> {"run", "acquire", "parked", "exited"}] /\ due[t] = "none"
        /\ \A u \in Tasks : u \in Range(sem_queue) => Sleeps(core, u) /\ sem_pc[u] \in {"acquire", "parked"}
    BY Zenon DEF SemTypes, Dozing, Slumber, Waiting
  <1>2. R \in SUBSET Tasks /\ S \in SUBSET Tasks
    BY DEF Retrying
  <1>3. sem_queue # <<>> => sem_count <= Cardinality(R)
    BY DEF NoStrandedPermit
  <1>4. \A u \in Tasks : u \in R <=> sem_pc[u] \in {"acquire", "parked"} /\ u \notin Range(sem_queue)
    BY DEF Retrying
  <1>5. \A u \in Tasks : u \in S <=> sem_pc'[u] \in {"acquire", "parked"} /\ u \notin Range(sem_queue')
    BY DEF Retrying
  <1> HIDE DEF R, S
  <1>6. /\ Cardinality(R) \in Nat /\ Cardinality(S) \in Nat
        /\ R \subseteq S => Cardinality(R) <= Cardinality(S)
        /\ \A u \in R : S = R \ {u} => Cardinality(S) = Cardinality(R) - 1
        /\ \A u \in Tasks \ R : S = R \cup {u} => Cardinality(S) = Cardinality(R) + 1
    BY <1>2, RetryingIsFinite
  <1>7. Runs(t) => t \notin Range(sem_queue)
    BY <1>1, RunnerIsUp
  <1>8. ASSUME sem_count' <= sem_count, sem_count' \in Int, sem_queue' = sem_queue, R \subseteq S
        PROVE  sem_count' <= Cardinality(S)
    BY <1>1, <1>3, <1>6, <1>8
  <1>9. CASE sem_acquire(t)
    BY <1>1, <1>2, <1>4, <1>5, <1>8, <1>9 DEF sem_acquire
  <1>10. CASE acquire_success(t)
    <2>1. /\ Runs(t) /\ sem_pc[t] = "acquire" /\ sem_pc' = [sem_pc EXCEPT ![t] = "run"]
          /\ sem_queue' = sem_queue /\ sem_count' = sem_count - 1
      BY <1>10 DEF acquire_success, Return
    <2>2. t \in R /\ S = R \ {t}
      BY <1>1, <1>2, <1>4, <1>5, <1>7, <2>1
    <2>3. Cardinality(S) = Cardinality(R) - 1
      BY <1>6, <2>2, Zenon
    <2>4. sem_count <= Cardinality(R)
      BY <1>3, <2>1, Zenon
    <2> QED
      BY <1>1, <1>6, <2>1, <2>3, <2>4
  <1>11. CASE acquire_timeout(t)
    BY <1>1, <1>11 DEF acquire_timeout
  <1>12. CASE sem_acquire_block(t)
    BY <1>1, <1>6, <1>12 DEF sem_acquire_block
  <1>13. CASE sem_acquire_reschedule(t)
    BY <1>1, <1>2, <1>4, <1>5, <1>8, <1>13 DEF sem_acquire_reschedule
  <1>14. CASE try_acquire(t)
    <2>1. sem_pc' = sem_pc /\ sem_queue' = sem_queue /\ sem_count' \in Int /\ sem_count' <= sem_count
      BY <1>1, <1>14 DEF try_acquire
    <2>2. R \subseteq S
      BY <1>2, <1>4, <1>5, <2>1
    <2> QED
      BY <1>8, <2>1, <2>2
  <1>15. CASE sem_release(t)
    <2> DEFINE h == Head(sem_queue)
    <2>1. sem_pc' = sem_pc /\ sem_queue' = popped_off(sem_queue) /\ sem_count' = sem_count + 1
      BY <1>15 DEF sem_release
    <2>2. sem_queue # <<>> /\ h \in Range(sem_queue) /\ Range(sem_queue') = Range(sem_queue) \ {h}
      <3>1. /\ Range(popped_off(sem_queue)) = Range(sem_queue) \ Range(pop(sem_queue))
            /\ sem_queue # <<>> => Range(pop(sem_queue)) = {h} /\ h \in Range(sem_queue)
            /\ sem_queue = <<>> => popped_off(sem_queue) = <<>>
        BY <1>1, PoppedAre, Zenon
      <3> QED
        BY <2>1, <3>1
    <2>3. h \in Tasks
      BY <1>1, <2>2
    <2> HIDE DEF h
    <2>4. h \notin R /\ S = R \cup {h}
      BY <1>1, <1>2, <1>4, <1>5, <2>1, <2>2, <2>3
    <2>5. Cardinality(S) = Cardinality(R) + 1
      BY <1>6, <2>3, <2>4, Zenon
    <2>6. sem_count <= Cardinality(R)
      BY <1>3, <2>2, Zenon
    <2> QED
      BY <1>1, <1>6, <2>1, <2>5, <2>6
  <1>16. CASE SemExit(t)
    BY <1>1, <1>2, <1>4, <1>5, <1>8, <1>16 DEF SemExit
  <1> QED
    BY <1>9, <1>10, <1>11, <1>12, <1>13, <1>14, <1>15, <1>16, Zenon DEF SemTaskStep

\* Interrupts, the idle loop and the clock.
LEMMA SemInterruptKept ==
  ASSUME SemInv, UNCHANGED svars,
         \/ \E c \in Cores : timer_handler(c) \/ wakeup_handler(c) \/ run(c)
         \/ \E t \in Tasks : Tick(t)
  PROVE  SemInv'
  <1> USE SMTT(30)
  <1> DEFINE W == Range(sem_queue)
  <1>1. UNCHANGED <<sem_count, sem_queue, sem_pc, timeout>>
    BY Zenon DEF svars
  <1>2. NoStrandedPermit' /\ (Untimed' <=> Untimed)
    BY <1>1, Zenon DEF SemInv, NoStrandedPermit, Retrying, Untimed
  <1>3. AllSound /\ due \in [Tasks -> Dues]
    BY DEF SemInv, SemTypes
  <1>4. CASE \E t \in Tasks : Tick(t)
    <2>1. PICK t \in Tasks : Tick(t)
      BY <1>4
    <2>2. core' = core /\ due[t] # "none" /\ due' \in [Tasks -> Dues]
      BY <1>3, <2>1 DEF Tick, Dues
    <2>3. ~Untimed
      BY <2>2 DEF SemInv, Dozing
    <2>4. SemTypes'
      BY <1>1, <2>2, Zenon DEF SemInv, SemTypes, AllSound
    <2> QED
      BY <1>2, <2>3, <2>4 DEF SemInv
  <1>5. ASSUME NEW c \in Cores, timer_handler(c) \/ wakeup_handler(c) \/ run(c)
        PROVE  SemInv'
    <2>1. AllSound' /\ due' = due
      <3>1. due' = due
        BY <1>5, Zenon DEF timer_handler, wakeup_handler, run
      <3> QED
        BY <1>3, <1>5, <3>1, TimerStep, InputStep, Zenon
    <2>2. SemTypes'
      BY <1>1, <2>1, Zenon DEF SemInv, SemTypes
    <2>3. ASSUME Untimed PROVE Dozing'
      <3>1. /\ Calm(core) /\ Slumber(core, W) /\ IsInjective(sem_queue) /\ \A u \in Tasks : due[u] = "none"
            /\ Waiting(core, sem_pc, W)
        BY <2>3, Zenon DEF SemInv, Dozing
      <3> HIDE DEF W
      <3>2. /\ Calm(core') /\ Slumber(core', W)
            /\ \A u \in Tasks : /\ Sleeps(core', u) => Sleeps(core, u)
                                /\ Sleeps(core', u) /\ Called(core, u) => Called(core', u)
        <4>1. CASE wakeup_handler(c) \/ run(c)
          BY <1>3, <3>1, <4>1, InputSlumbers, Zenon
        <4>2. CASE timer_handler(c)
          <5>1. SameSleepers(core, core')
            BY <1>3, <3>1, <4>2, TimerSlumbers, Zenon
          <5> QED
            BY <3>1, <5>1, QuietSlumbers, Zenon
        <4> QED
          BY <1>5, <4>1, <4>2, Zenon
      <3>3. Waiting(core', sem_pc', W)
        BY <1>1, <3>1, <3>2, Zenon DEF Waiting
      <3>4. IsInjective(sem_queue') /\ W = Range(sem_queue') /\ \A u \in Tasks : due'[u] = "none"
        BY <1>1, <2>1, <3>1 DEF W
      <3> QED
        BY <3>2, <3>3, <3>4, Zenon DEF Dozing
    <2> QED
      BY <1>2, <2>2, <2>3 DEF SemInv
  <1> QED
    BY <1>4, <1>5

\* The invariant of the semaphore.
LEMMA SemInvIsInvariant ==
  ASSUME Timeouts \subseteq [Tasks -> Dues], Initial \in Int
  PROVE  SemSpec => []SemInv
  <1>1. ASSUME SemInit PROVE SemInv
    <2> USE SMTT(30)
    <2>1. /\ AllSound /\ Calm(core) /\ Slumber(core, {}) /\ due = [t \in Tasks |-> "none"]
          /\ \A t \in Tasks : ~Sleeps(core, t) /\ ~Called(core, t)
      BY <1>1, StartSlumbers, Zenon DEF SemInit
    <2>2. Range(<<>>) = {} /\ <<>> \in Seq(Tasks) /\ IsInjective(<<>>)
      BY DEF Range, IsInjective
    <2>3. SemTypes
      BY <1>1, <2>1, <2>2 DEF SemInit, SemTypes, Dues
    <2>4. sem_queue = <<>> /\ \A t \in Tasks : due[t] = "none"
      BY <1>1, <2>1 DEF SemInit
    <2>5. Waiting(core, sem_pc, {})
      BY <2>1, Zenon DEF Waiting
    <2>6. Dozing
      BY <2>1, <2>2, <2>4, <2>5, Zenon DEF Dozing
    <2>7. NoStrandedPermit
      BY <2>4 DEF NoStrandedPermit
    <2> QED
      BY <2>3, <2>6, <2>7, Zenon DEF SemInv
  <1>2. ASSUME SemInv, [SemNext]_sem_vars PROVE SemInv'
    <2>1. ASSUME NEW t \in Tasks, SemTaskStep(t) PROVE SemInv'
      <3>1. SemTypes /\ (Untimed => Dozing) /\ NoStrandedPermit
        BY <1>2, Zenon DEF SemInv
      <3>2. timeout' = timeout
        BY <2>1, Zenon DEF SemTaskStep, sem_acquire, acquire_success, acquire_timeout, sem_acquire_block,
           sem_acquire_reschedule, try_acquire, sem_release, SemExit, Return
      <3>3. Untimed' <=> Untimed
        BY <3>2, Zenon DEF Untimed
      <3>4. ~Untimed => NoStrandedPermit'
        BY <3>3, Zenon DEF NoStrandedPermit
      <3> QED
        BY <2>1, <3>1, <3>3, <3>4, SemTypesKept, DozingKept, NoStrandedPermitKept, Zenon DEF SemInv
    <2>2. ASSUME NEW t \in Tasks, Tick(t), UNCHANGED svars PROVE SemInv'
      BY <1>2, <2>2, SemInterruptKept, Zenon
    <2>3. ASSUME NEW c \in Cores, SemInterrupt(c) \/ SemIdle(c) PROVE SemInv'
      BY <1>2, <2>3, SemInterruptKept, Zenon DEF SemInterrupt, SemIdle
    <2>4. CASE UNCHANGED sem_vars
      BY <1>2, <2>4, Zenon DEF sem_vars, svars, SemInv, SemTypes, Dozing, NoStrandedPermit, Retrying,
         Untimed, AllSound
    <2> QED
      BY <1>2, <2>1, <2>2, <2>3, <2>4, Zenon DEF SemNext
  <1> QED
    BY <1>1, <1>2, PTL DEF SemSpec

\* While tasks wait in the queue without deadlines, every permit has a task on its way to take it,
\* however many tasks, cores and permits there are and whoever overtakes whom.
THEOREM NoStrandedPermitCorrect ==
  ASSUME SemaphoreAssumption
  PROVE  SemSpec => []NoStrandedPermit
  <1>1. SemInv => NoStrandedPermit
    BY Zenon DEF SemInv
  <1>2. Timeouts \subseteq [Tasks -> Dues] /\ Initial \in Int
    BY DEF SemaphoreAssumption
  <1> QED
    BY <1>1, <1>2, SemInvIsInvariant, PTL

\* Without deadlines a task asleep in acquire is queued or called, and exactly one of the two, and no
\* release wakes a task that is awake: custom_wakeup does not reach its unreachable!().
UntimedSleeperIsKnown ==
    Untimed => /\ ~Panicked
               /\ \A t \in Tasks : t \in core[Home[t]].blocked_tasks
                    => (t \in Range(sem_queue) <=> t \notin Range(core[Home[t]].wakeup_tasks))

\* For any number of cores, tasks and permits.
THEOREM UntimedSleeperIsKnownCorrect ==
  ASSUME SemaphoreAssumption
  PROVE  SemSpec => []UntimedSleeperIsKnown
  <1>1. SemInv => UntimedSleeperIsKnown
    BY SMT, Zenon DEF SemInv, Dozing, Waiting, UntimedSleeperIsKnown, Panicked, Calm, Slumber, Sleeps, Called
  <1>2. Timeouts \subseteq [Tasks -> Dues] /\ Initial \in Int
    BY DEF SemaphoreAssumption
  <1> QED
    BY <1>1, <1>2, SemInvIsInvariant, PTL
==============================================================================

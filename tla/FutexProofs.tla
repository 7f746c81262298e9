---------------------------- MODULE FutexProofs ----------------------------
(***************************************************************************)
(* Safety of the futex for any number of cores, tasks, words, counts and   *)
(* calls.  The inductive invariant says where the handle of a task is: in  *)
(* the parking lot at the address of its wait, on its way to its core, or  *)
(* counted as woken.  For a task whose waits have no deadline this is      *)
(* exact.  With a deadline a task can leave the blocked queue while its    *)
(* handle stays parked, which is all that the weaker half says.            *)
(***************************************************************************)
EXTENDS Futex, SchedulerProofs

Asleep(t) == t \in core[Home[t]].blocked_tasks
Queued(t) == t \in Range(parking_lot[addr[t]])
Coming(t) == t \in Range(core[Home[t]].wakeup_tasks)

\* A handle is parked once, at the address where its task waits.
ParkedOnce ==
    \A a \in Addrs : /\ IsInjective(parking_lot[a])
                     /\ \A t \in Range(parking_lot[a]) : addr[t] = a /\ Waiting(t)

\* A task in a wait is parked or counted, and not both.
ParkedOrCounted ==
    \A t \in Tasks : IF Waiting(t) THEN t \in popped <=> ~Queued(t) ELSE t \notin popped

SleepersAreKnown == \A t \in Tasks : Asleep(t) => Queued(t) \/ Coming(t)

\* Without deadlines a task sleeps exactly while its one handle is parked or on its way.
UndatedSleep ==
    \A t \in Tasks : Timeouts[t] = {"none"} =>
       /\ due[t] = "none"
       /\ Queued(t) \/ Coming(t) => Asleep(t)
       /\ ~(Queued(t) /\ Coming(t))
       /\ Once(core[Home[t]].wakeup_tasks, t)

IInv ==
    /\ TypeOK /\ AllSound
    /\ ParkedOnce /\ ParkedOrCounted /\ SleepersAreKnown /\ UndatedSleep
    /\ PanicNeedsDeadline

-----------------------------------------------------------------------------
(***************************************************************************)
(* The invariant holds initially, and every step keeps it.                 *)
(***************************************************************************)
\* The invariant holds when the tasks start.
LEMMA InitImpliesInv ==
  ASSUME Init
  PROVE  IInv
  <1> USE SMTT(30)
  <1> DEFINE hs == CHOOSE order \in Orders(Tasks) : TRUE
  <1>1. hs \in Seq(Tasks) /\ IsInjective(hs)
    BY TasksAssumption, OrdersAre, OrdersExist, Zenon
  <1>2. SchedulerInit(hs)
    BY DEF Init
  <1> HIDE DEF hs
  <1>3. /\ AllSound
        /\ \A c \in Cores : /\ core[c].blocked_tasks = {} /\ core[c].wakeup_tasks = <<>>
                            /\ core[c].new_tasks = <<>> /\ ~core[c].panicked
    BY <1>1, <1>2, InitIsSound
  <1>4. due = [t \in Tasks |-> "none"]
    BY <1>2 DEF SchedulerInit
  <1>5. SchedulerTypeOK
    BY <1>3, <1>4 DEF SchedulerTypeOK, AllSound, Sound, Dues
  <1>6. TypeOK
    BY <1>5, MaxCallsAssumption DEF TypeOK, Init, None
  <1>7. \A t \in Tasks : Home[t] \in Cores
    BY HomeAssumption
  <1>8. ParkedOnce
    BY DEF Init, ParkedOnce, IsInjective, Range
  <1>9. ParkedOrCounted
    BY DEF Init, ParkedOrCounted, Waiting
  <1>10. SleepersAreKnown
    BY <1>3, <1>7 DEF SleepersAreKnown, Asleep
  <1>11. \A t \in Tasks : ~Queued(t) /\ ~Coming(t) /\ Once(core[Home[t]].wakeup_tasks, t)
    BY <1>3, <1>7 DEF Init, Queued, Coming, Once, Range
  <1>12. UndatedSleep
    BY <1>4, <1>11 DEF UndatedSleep
  <1>13. PanicNeedsDeadline
    BY <1>3 DEF PanicNeedsDeadline
  <1> QED
    BY <1>3, <1>6, <1>8, <1>9, <1>10, <1>12, <1>13 DEF IInv

\* Steps that leave the parking lot, the inputs and the blocked queues alone.
LEMMA QuietKeeps ==
  ASSUME IInv, TypeOK', AllSound',
         \A d \in Cores : /\ core'[d].wakeup_tasks = core[d].wakeup_tasks
                         /\ core'[d].panicked = core[d].panicked
                         /\ core'[d].blocked_tasks = core[d].blocked_tasks,
         UNCHANGED <<parking_lot, addr, popped>>,
         \A u \in Tasks : (Waiting(u)' <=> Waiting(u)) /\ (due[u] = "none" => due'[u] = "none")
  PROVE  IInv'
  <1> USE SMTT(30)
  <1>1. \A u \in Tasks : Home[u] \in Cores
    BY HomeAssumption
  <1>2. \A u \in Tasks : /\ Asleep(u)' <=> Asleep(u)
                         /\ Coming(u)' <=> Coming(u)
                         /\ Queued(u)' <=> Queued(u)
                         /\ core'[Home[u]].wakeup_tasks = core[Home[u]].wakeup_tasks
    BY <1>1 DEF Asleep, Coming, Queued
  <1>3. ParkedOnce'
    <2>1. \A a \in Addrs : Range(parking_lot[a]) \subseteq Tasks
      BY DEF IInv, TypeOK, Range
    <2> QED
      BY <2>1 DEF IInv, ParkedOnce
  <1>4. ParkedOrCounted'
    BY <1>2 DEF IInv, ParkedOrCounted
  <1>5. SleepersAreKnown'
    BY <1>2 DEF IInv, SleepersAreKnown
  <1>6. UndatedSleep'
    BY <1>2 DEF IInv, UndatedSleep
  <1>7. PanicNeedsDeadline'
    BY DEF IInv, PanicNeedsDeadline
  <1> QED
    BY <1>3, <1>4, <1>5, <1>6, <1>7 DEF IInv

\* The types of the state that the tasks change outside the scheduler.
LEMMA TypesAre ==
  ASSUME IInv
  PROVE  /\ TypeOK /\ AllSound /\ due \in [Tasks -> Dues] /\ parking_lot \in [Addrs -> Seq(Tasks)]
         /\ addr \in [Tasks -> Addrs] /\ pc \in [Tasks -> {"run", "parked", "recheck", "exited"}]
         /\ word \in [Addrs -> Values] /\ calls \in [Tasks -> 0 .. MaxCalls]
         /\ result \in [Tasks -> {None, "0", "EAGAIN", "ETIMEDOUT"}] /\ popped \subseteq Tasks
         /\ \A a \in Addrs : parking_lot[a] \in Seq(Tasks) /\ Range(parking_lot[a]) \subseteq Tasks
         /\ \A t \in Tasks : Home[t] \in Cores
  <1> USE SMTT(30)
  <1>1. TypeOK /\ AllSound /\ due \in [Tasks -> Dues] /\ parking_lot \in [Addrs -> Seq(Tasks)]
        /\ addr \in [Tasks -> Addrs] /\ pc \in [Tasks -> {"run", "parked", "recheck", "exited"}]
        /\ word \in [Addrs -> Values] /\ calls \in [Tasks -> 0 .. MaxCalls]
        /\ result \in [Tasks -> {None, "0", "EAGAIN", "ETIMEDOUT"}] /\ popped \subseteq Tasks
    BY DEF IInv, TypeOK, SchedulerTypeOK
  <1> QED
    BY <1>1, HomeAssumption DEF Range

\* Sound schedulers have their types.
LEMMA CoreTypes ==
  ASSUME AllSound', due' \in [Tasks -> Dues]
  PROVE  SchedulerTypeOK'
  BY SMT DEF SchedulerTypeOK, AllSound, Sound

\* A failed check of the word, a store, a yield, the reschedule of a wait, and exit.
LEMMA QuietSteps ==
  ASSUME IInv, NEW t \in Tasks,
         \/ Calls(t) /\ ReturnAgain(t) /\ word' \in [Addrs -> Values]
         \/ \E a \in Addrs, v \in Values : Store(t, a, v)
         \/ sys_yield(t) \/ futex_reschedule(t) \/ Exit(t)
  PROVE  IInv'
  <1> USE SMTT(30)
  <1>1. /\ TypeOK /\ AllSound /\ due \in [Tasks -> Dues]
        /\ pc \in [Tasks -> {"run", "parked", "recheck", "exited"}]
        /\ word \in [Addrs -> Values] /\ calls \in [Tasks -> 0 .. MaxCalls]
        /\ result \in [Tasks -> {None, "0", "EAGAIN", "ETIMEDOUT"}]
    BY TypesAre
  <1>2. /\ AllSound'
        /\ \A d \in Cores : /\ core'[d].wakeup_tasks = core[d].wakeup_tasks
                            /\ core'[d].panicked = core[d].panicked
                            /\ core'[d].blocked_tasks = core[d].blocked_tasks
    <2>1. CASE core' = core
      BY <1>1, <2>1 DEF AllSound
    <2>2. CASE \/ core' = [core EXCEPT ![Home[t]] = scheduler(core[Home[t]])]
               \/ /\ Runs(t)
                  /\ core' = [core EXCEPT ![Home[t]] = scheduler([core[Home[t]] EXCEPT !.status[t] = "Finished"])]
      BY <1>1, <2>2, RescheduleStep, Zenon
    <2> QED
      BY <2>1, <2>2, Zenon DEF ReturnAgain, Store, sys_yield, futex_reschedule, Exit, Reschedule, Calls
  <1>3. UNCHANGED <<parking_lot, addr, popped, due>>
    BY DEF ReturnAgain, Store, sys_yield, futex_reschedule, Exit
  <1>4. /\ pc' \in [Tasks -> {"run", "parked", "recheck", "exited"}]
        /\ \A u \in Tasks : Waiting(u)' <=> Waiting(u)
    BY <1>1 DEF ReturnAgain, Store, sys_yield, futex_reschedule, Exit, Waiting
  <1>5. calls' \in [Tasks -> 0 .. MaxCalls]
    <2>1. calls' = calls \/ (calls' = [calls EXCEPT ![t] = calls[t] + 1] /\ calls[t] < MaxCalls)
      BY DEF ReturnAgain, Store, sys_yield, futex_reschedule, Exit, Calls
    <2> QED
      BY <1>1, <2>1, MaxCallsAssumption
  <1>6. word' \in [Addrs -> Values]
    <2>1. \/ word' = word \/ word' \in [Addrs -> Values]
          \/ \E a \in Addrs, v \in Values : word' = [word EXCEPT ![a] = v]
      BY DEF ReturnAgain, Store, sys_yield, futex_reschedule, Exit
    <2> QED
      BY <1>1, <2>1
  <1>7. result' \in [Tasks -> {None, "0", "EAGAIN", "ETIMEDOUT"}]
    <2>1. result' = result \/ result' = [result EXCEPT ![t] = "EAGAIN"]
      BY DEF ReturnAgain, Store, sys_yield, futex_reschedule, Exit
    <2> QED
      BY <1>1, <2>1
  <1>8. SchedulerTypeOK'
    BY <1>1, <1>2, <1>3, CoreTypes
  <1>9. TypeOK'
    BY <1>1, <1>3, <1>4, <1>5, <1>6, <1>7, <1>8 DEF TypeOK
  <1> QED
    BY <1>2, <1>3, <1>4, <1>9, QuietKeeps

\* Time that passes moves no task and no handle.
LEMMA ClockKeeps ==
  ASSUME IInv, NEW t \in Tasks, Clock(t)
  PROVE  IInv'
  <1> USE SMTT(30)
  <1>1. TypeOK /\ AllSound /\ due \in [Tasks -> Dues]
    BY TypesAre
  <1>2. /\ UNCHANGED <<core, word, parking_lot, pc, addr, calls, popped, result>>
        /\ due' = [due EXCEPT ![t] = IF due[t] = "before" THEN "at" ELSE "past"]
        /\ due[t] \in {"before", "at"}
    BY DEF Clock, Tick, fvars
  <1>3. due' \in [Tasks -> Dues] /\ \A u \in Tasks : due[u] = "none" => due'[u] = "none"
    BY <1>1, <1>2 DEF Dues
  <1>4. AllSound' /\ \A u \in Tasks : Waiting(u)' <=> Waiting(u)
    BY <1>1, <1>2 DEF AllSound, Waiting
  <1>5. SchedulerTypeOK'
    BY <1>3, <1>4, CoreTypes
  <1>6. TypeOK'
    BY <1>1, <1>2, <1>5 DEF TypeOK
  <1> QED
    BY <1>2, <1>3, <1>4, <1>6, QuietKeeps

\* The timer takes a task whose deadline has passed off the blocked queue; its handle stays.
LEMMA TimerKeeps ==
  ASSUME IInv, NEW c \in Cores, timer_handler(c), UNCHANGED fvars
  PROVE  IInv'
  <1> USE SMTT(30)
  <1>1. /\ TypeOK /\ AllSound /\ due \in [Tasks -> Dues] /\ \A u \in Tasks : Home[u] \in Cores
        /\ \A a \in Addrs : Range(parking_lot[a]) \subseteq Tasks
    BY TypesAre
  <1>2. /\ AllSound'
        /\ \A d \in Cores : /\ core'[d].wakeup_tasks = core[d].wakeup_tasks
                            /\ core'[d].panicked = core[d].panicked
                            /\ core'[d].blocked_tasks \subseteq core[d].blocked_tasks
                            /\ \A t \in core[d].blocked_tasks \ core'[d].blocked_tasks : due[t] = "past"
    BY <1>1, TimerStep
  <1>3. UNCHANGED <<word, parking_lot, pc, addr, calls, popped, result, due>>
    BY Zenon DEF fvars, timer_handler
  <1>4. SchedulerTypeOK'
    BY <1>1, <1>2, <1>3, CoreTypes
  <1>5. TypeOK'
    BY <1>1, <1>3, <1>4 DEF TypeOK
  <1>6. \A u \in Tasks : /\ Waiting(u)' <=> Waiting(u)
                         /\ Asleep(u)' => Asleep(u)
                         /\ Asleep(u) /\ due[u] # "past" => Asleep(u)'
                         /\ Coming(u)' <=> Coming(u)
                         /\ Queued(u)' <=> Queued(u)
                         /\ core'[Home[u]].wakeup_tasks = core[Home[u]].wakeup_tasks
    BY <1>1, <1>2, <1>3 DEF Waiting, Asleep, Coming, Queued
  <1>7. ParkedOnce'
    BY <1>1, <1>3, <1>6 DEF IInv, ParkedOnce
  <1>8. ParkedOrCounted'
    BY <1>3, <1>6 DEF IInv, ParkedOrCounted
  <1>9. SleepersAreKnown'
    BY <1>6 DEF IInv, SleepersAreKnown
  <1>10. UndatedSleep'
    BY <1>3, <1>6 DEF IInv, UndatedSleep
  <1>11. PanicNeedsDeadline'
    BY <1>2 DEF IInv, PanicNeedsDeadline
  <1> QED
    BY <1>2, <1>5, <1>7, <1>8, <1>9, <1>10, <1>11 DEF IInv

\* A core takes in its wake-ups: it wakes the tasks they are for, and panics if one is not blocked.
LEMMA InputKeeps ==
  ASSUME IInv, NEW c \in Cores, wakeup_handler(c) \/ run(c), UNCHANGED fvars
  PROVE  IInv'
  <1> USE SMTT(30)
  <1> DEFINE ws == core[c].wakeup_tasks
  <1>1. /\ TypeOK /\ AllSound /\ due \in [Tasks -> Dues] /\ \A u \in Tasks : Home[u] \in Cores
        /\ \A a \in Addrs : Range(parking_lot[a]) \subseteq Tasks
    BY TypesAre
  <1>2. /\ AllSound'
        /\ \A d \in Cores \ {c} : core'[d] = core[d]
        /\ core'[c].blocked_tasks = core[c].blocked_tasks \ Range(ws)
        /\ core'[c].wakeup_tasks = <<>>
        /\ core'[c].panicked <=>
              core[c].panicked \/ ~(IsInjective(ws) /\ Range(ws) \subseteq core[c].blocked_tasks)
    BY <1>1, InputStep, Zenon
  <1>3. UNCHANGED <<word, parking_lot, pc, addr, calls, popped, result, due>>
    BY Zenon DEF fvars, wakeup_handler, run
  <1>4. SchedulerTypeOK'
    BY <1>1, <1>2, <1>3, CoreTypes
  <1>5. TypeOK'
    BY <1>1, <1>3, <1>4 DEF TypeOK
  <1>6. ws \in Seq(TasksOf(c)) /\ Range(ws) \subseteq TasksOf(c)
    BY <1>1 DEF AllSound, Sound, PerCoreScheduler, Range
  <1>7. \A u \in Tasks : (Waiting(u)' <=> Waiting(u)) /\ (Queued(u)' <=> Queued(u))
    BY <1>3 DEF Waiting, Queued
  <1>8. \A u \in Tasks : IF Home[u] = c
                           THEN (Asleep(u)' <=> Asleep(u) /\ ~Coming(u)) /\ ~Coming(u)'
                           ELSE (Asleep(u)' <=> Asleep(u)) /\ (Coming(u)' <=> Coming(u))
    <2>1. Range(<<>>) = {}
      BY DEF Range
    <2> QED
      BY <1>1, <1>2, <2>1 DEF Asleep, Coming
  <1>9. ParkedOnce'
    BY <1>1, <1>3, <1>7 DEF IInv, ParkedOnce
  <1>10. ParkedOrCounted'
    BY <1>3, <1>7 DEF IInv, ParkedOrCounted
  <1>11. SleepersAreKnown'
    BY <1>7, <1>8 DEF IInv, SleepersAreKnown
  <1>12. UndatedSleep'
    <2> SUFFICES ASSUME NEW u \in Tasks, Timeouts[u] = {"none"}
                 PROVE  /\ due'[u] = "none" /\ (Queued(u)' \/ Coming(u)' => Asleep(u)')
                        /\ ~(Queued(u)' /\ Coming(u)') /\ Once(core'[Home[u]].wakeup_tasks, u)
      BY DEF UndatedSleep
    <2>1. /\ due[u] = "none" /\ (Queued(u) \/ Coming(u) => Asleep(u))
          /\ ~(Queued(u) /\ Coming(u)) /\ Once(core[Home[u]].wakeup_tasks, u)
      BY DEF IInv, UndatedSleep
    <2>2. Once(core'[Home[u]].wakeup_tasks, u)
      BY <1>1, <1>2, <2>1 DEF Once
    <2> QED
      BY <1>3, <1>7, <1>8, <2>1, <2>2
  <1>13. PanicNeedsDeadline'
    <2> SUFFICES ASSUME NEW d \in Cores, core'[d].panicked, \A t \in TasksOf(d) : Timeouts[t] = {"none"}
                 PROVE  FALSE
      BY DEF PanicNeedsDeadline
    <2>1. ~core[d].panicked
      BY DEF IInv, PanicNeedsDeadline
    <2>2. d = c
      BY <1>2, <2>1
    <2>3. \A t \in Range(ws) : t \in core[c].blocked_tasks /\ Once(ws, t)
      BY <1>6, <2>2 DEF IInv, UndatedSleep, Coming, Asleep, TasksOf
    <2>4. IsInjective(ws)
      BY <2>3 DEF Once, IsInjective, Range
    <2> QED
      BY <1>2, <2>1, <2>2, <2>3, <2>4
  <1> QED
    BY <1>2, <1>5, <1>9, <1>10, <1>11, <1>12, <1>13 DEF IInv

\* The word matched: the task blocks and its handle is parked.
LEMMA ParkKeeps ==
  ASSUME IInv, NEW t \in Tasks, NEW a \in Addrs, NEW timeout \in Timeouts[t],
         Calls(t), Park(t, a, timeout), word' \in [Addrs -> Values]
  PROVE  IInv'
  <1> USE SMTT(30)
  <1>1. /\ AllSound' /\ ~Asleep(t)
        /\ core'[Home[t]].blocked_tasks = core[Home[t]].blocked_tasks \cup {t}
        /\ \A d \in Cores : /\ core'[d].wakeup_tasks = core[d].wakeup_tasks
                            /\ core'[d].panicked = core[d].panicked
                            /\ d # Home[t] => core'[d].blocked_tasks = core[d].blocked_tasks
    <2>1. AllSound /\ Runs(t) /\ core' = [core EXCEPT ![Home[t]] = block_current_task(core[Home[t]])]
      BY DEF IInv, Calls, Park
    <2> QED
      BY <2>1, BlockStep, Zenon DEF Asleep
  <1>2. /\ due' = [due EXCEPT ![t] = timeout] /\ pc' = [pc EXCEPT ![t] = "parked"]
        /\ addr' = [addr EXCEPT ![t] = a] /\ popped' = popped /\ result' = result
        /\ parking_lot' = [parking_lot EXCEPT ![a] = push(parking_lot[a], t)]
        /\ calls' = [calls EXCEPT ![t] = calls[t] + 1] /\ calls[t] < MaxCalls /\ pc[t] = "run"
    BY DEF Park, Calls
  <1>3. TypeOK /\ timeout \in Dues /\ \A u \in Tasks : Home[u] \in Cores
    BY TimeoutsAssumption, HomeAssumption DEF IInv
  <1>4. /\ due \in [Tasks -> Dues] /\ parking_lot \in [Addrs -> Seq(Tasks)] /\ addr \in [Tasks -> Addrs]
        /\ pc \in [Tasks -> {"run", "parked", "recheck", "exited"}]
    BY <1>3 DEF TypeOK, SchedulerTypeOK
  <1>5. ~Waiting(t) /\ t \notin popped /\ \A b \in Addrs : t \notin Range(parking_lot[b])
    BY <1>2 DEF IInv, ParkedOnce, ParkedOrCounted, Waiting
  <1> DEFINE q == push(parking_lot[a], t)
  <1>6. q \in Seq(Tasks) /\ Range(q) = Range(parking_lot[a]) \cup {t} /\ IsInjective(q)
    BY <1>4, <1>5, PushIs DEF IInv, ParkedOnce
  <1> HIDE DEF q
  <1>7. parking_lot'[a] = q /\ \A b \in Addrs \ {a} : parking_lot'[b] = parking_lot[b]
    BY <1>2, <1>4 DEF q
  <1>8. TypeOK'
    <2>1. SchedulerTypeOK'
      BY <1>1, <1>2, <1>3, <1>4 DEF SchedulerTypeOK, AllSound, Sound
    <2>2. parking_lot' \in [Addrs -> Seq(Tasks)]
      BY <1>2, <1>4, <1>6 DEF q
    <2> QED
      BY <1>2, <1>3, <2>1, <2>2, MaxCallsAssumption DEF TypeOK
  <1>9. \A u \in Tasks : /\ Waiting(u)' <=> u = t \/ Waiting(u)
                         /\ u # t => addr'[u] = addr[u] /\ due'[u] = due[u]
    BY <1>2, <1>4 DEF Waiting
  <1>10. \A u \in Tasks : Queued(u)' <=> u = t \/ Queued(u)
    BY <1>2, <1>4, <1>6, <1>7, <1>9, ZenonT(60) DEF Queued
  <1>11. \A u \in Tasks : (Asleep(u)' <=> u = t \/ Asleep(u)) /\ (Coming(u)' <=> Coming(u))
    BY <1>1, <1>3, Zenon DEF Asleep, Coming
  <1>12. ParkedOnce'
    <2>1. ASSUME NEW b \in Addrs
          PROVE  /\ IsInjective(parking_lot'[b])
                 /\ \A u \in Range(parking_lot'[b]) : addr'[u] = b /\ Waiting(u)'
      <3>1. IsInjective(parking_lot'[b])
        BY <1>6, <1>7, Zenon DEF IInv, ParkedOnce
      <3>2. \A u \in Range(parking_lot'[b]) : \/ u = t /\ b = a
                                              \/ u \in Range(parking_lot[b]) /\ u # t /\ u \in Tasks
        <4>1. Range(parking_lot[b]) \subseteq Tasks
          BY <1>4 DEF Range
        <4> QED
          BY <1>5, <1>6, <1>7, <4>1, Zenon
      <3>3. \A u \in Range(parking_lot[b]) : addr[u] = b /\ Waiting(u)
        BY DEF IInv, ParkedOnce
      <3> QED
        BY <1>2, <1>4, <1>9, <3>1, <3>2, <3>3, ZenonT(60)
    <2> QED
      BY <2>1 DEF ParkedOnce
  <1>13. ParkedOrCounted'
    BY <1>2, <1>5, <1>9, <1>10, Zenon DEF IInv, ParkedOrCounted
  <1>14. SleepersAreKnown'
    BY <1>10, <1>11 DEF IInv, SleepersAreKnown
  <1>15. UndatedSleep'
    <2> SUFFICES ASSUME NEW u \in Tasks, Timeouts[u] = {"none"}
                 PROVE  /\ due'[u] = "none" /\ (Queued(u)' \/ Coming(u)' => Asleep(u)')
                        /\ ~(Queued(u)' /\ Coming(u)') /\ Once(core'[Home[u]].wakeup_tasks, u)
      BY DEF UndatedSleep
    <2>1. u = t => timeout = "none"
      OBVIOUS
    <2>2. due[u] = "none"
      BY DEF IInv, UndatedSleep
    <2>3. due'[u] = "none"
      BY <1>2, <1>4, <2>1, <2>2
    <2>4. ~Coming(t) \/ u # t
      BY <1>1, Zenon DEF IInv, UndatedSleep
    <2>5. core'[Home[u]].wakeup_tasks = core[Home[u]].wakeup_tasks
      BY <1>1, <1>3
    <2> QED
      BY <1>10, <1>11, <2>3, <2>4, <2>5 DEF IInv, UndatedSleep
  <1>16. PanicNeedsDeadline'
    BY <1>1 DEF IInv, PanicNeedsDeadline
  <1> QED
    BY <1>1, <1>8, <1>12, <1>13, <1>14, <1>15, <1>16 DEF IInv

-----------------------------------------------------------------------------
(***************************************************************************)
(* The parked task that looks again and returns, and futex_wake, keep the  *)
(* invariant, which with the other steps makes it one of the specification.*)
(* The theorems follow from it.                                            *)
(***************************************************************************)

\* futex_wait returns: the handle is not parked any more.
LEMMA ReturnKeeps ==
  ASSUME IInv, NEW t \in Tasks, ~Asleep(t), UNCHANGED <<word, addr, calls>>,
         NEW r \in {"0", "ETIMEDOUT"}, Return(t, r),
         \/ parking_lot' = [parking_lot EXCEPT ![addr[t]] = remove(parking_lot[addr[t]], t)]
         \/ parking_lot' = parking_lot /\ ~Queued(t)
  PROVE  IInv'
  <1> USE SMTT(30)
  <1> DEFINE a == addr[t]
  <1>1. /\ pc' = [pc EXCEPT ![t] = "run"] /\ due' = [due EXCEPT ![t] = "none"] /\ popped' = popped \ {t}
        /\ result' = [result EXCEPT ![t] = r] /\ core' = core
    BY DEF Return
  <1>2. /\ parking_lot' \in [Addrs -> Seq(Tasks)]
        /\ Range(parking_lot'[a]) = Range(parking_lot[a]) \ {t} /\ IsInjective(parking_lot'[a])
        /\ \A b \in Addrs \ {a} : parking_lot'[b] = parking_lot[b]
    <2>1. a \in Addrs /\ parking_lot \in [Addrs -> Seq(Tasks)] /\ IsInjective(parking_lot[a])
      BY TypesAre, Zenon DEF IInv, ParkedOnce
    <2>2. CASE parking_lot' = [parking_lot EXCEPT ![a] = remove(parking_lot[a], t)]
      <3>1. /\ remove(parking_lot[a], t) \in Seq(Tasks)
            /\ Range(remove(parking_lot[a], t)) = Range(parking_lot[a]) \ {t}
            /\ IsInjective(remove(parking_lot[a], t))
        BY <2>1, RemoveIs
      <3> QED
        BY <2>1, <2>2, <3>1
    <2>3. CASE parking_lot' = parking_lot /\ ~Queued(t)
      BY <2>1, <2>3 DEF Queued
    <2> QED
      BY <2>2, <2>3
  <1>3. TypeOK' /\ AllSound'
    <2>1. AllSound' /\ due' \in [Tasks -> Dues]
      BY <1>1, TypesAre DEF AllSound, Dues
    <2>2. SchedulerTypeOK'
      BY <2>1, CoreTypes
    <2>3. /\ pc' \in [Tasks -> {"run", "parked", "recheck", "exited"}] /\ popped' \subseteq Tasks
          /\ result' \in [Tasks -> {None, "0", "EAGAIN", "ETIMEDOUT"}]
      BY <1>1, TypesAre
    <2> QED
      BY <1>2, <2>1, <2>2, <2>3, TypesAre DEF TypeOK
  <1>4. \A u \in Tasks : /\ Waiting(u)' <=> Waiting(u) /\ u # t
                         /\ Asleep(u)' <=> Asleep(u)
                         /\ Coming(u)' <=> Coming(u)
                         /\ due[u] = "none" => due'[u] = "none"
    <2>1. pc \in [Tasks -> {"run", "parked", "recheck", "exited"}] /\ due \in [Tasks -> Dues]
      BY TypesAre
    <2> QED
      BY <1>1, <2>1 DEF Waiting, Asleep, Coming
  <1>5. ASSUME NEW u \in Tasks
        PROVE  Queued(u)' <=> Queued(u) /\ u # t
    <2>1. addr'[u] = addr[u] /\ addr[u] \in Addrs
      BY TypesAre
    <2>2. u \in Range(parking_lot'[addr[u]]) <=> u \in Range(parking_lot[addr[u]]) /\ u # t
      BY <1>2, <2>1
    <2> QED
      BY <2>1, <2>2 DEF Queued
  <1>6. ParkedOnce'
    <2>1. \A b \in Addrs : IsInjective(parking_lot[b])
      BY DEF IInv, ParkedOnce
    <2>2. \A b \in Addrs : \A u \in Range(parking_lot[b]) : u \in Tasks /\ addr[u] = b /\ Waiting(u)
      BY TypesAre, Zenon DEF IInv, ParkedOnce
    <2>3. \A b \in Addrs : Range(parking_lot'[b]) \subseteq Range(parking_lot[b]) \ {t}
      BY <1>2, <2>2
    <2> QED
      BY <1>2, <1>4, <2>1, <2>2, <2>3, Zenon DEF ParkedOnce
  <1>7. ParkedOrCounted'
    BY <1>1, <1>4, <1>5 DEF IInv, ParkedOrCounted
  <1>8. SleepersAreKnown'
    BY <1>4, <1>5, Zenon DEF IInv, SleepersAreKnown
  <1>9. UndatedSleep'
    BY <1>1, <1>4, <1>5, Zenon DEF IInv, UndatedSleep
  <1>10. PanicNeedsDeadline'
    BY <1>1 DEF IInv, PanicNeedsDeadline
  <1> QED
    BY <1>3, <1>6, <1>7, <1>8, <1>9, <1>10 DEF IInv

\* A task woken by nobody whose time has not come blocks again; its handle is still parked.
LEMMA SleepAgainKeeps ==
  ASSUME IInv, NEW t \in Tasks, Runs(t), pc[t] = "recheck", Queued(t),
         core' = [core EXCEPT ![Home[t]] = block_current_task(core[Home[t]])],
         pc' = [pc EXCEPT ![t] = "parked"],
         UNCHANGED <<word, addr, calls, due, parking_lot, popped, result>>
  PROVE  IInv'
  <1> USE SMTT(30)
  <1>1. /\ AllSound'
        /\ core'[Home[t]].blocked_tasks = core[Home[t]].blocked_tasks \cup {t}
        /\ \A d \in Cores : /\ core'[d].wakeup_tasks = core[d].wakeup_tasks
                            /\ core'[d].panicked = core[d].panicked
                            /\ d # Home[t] => core'[d].blocked_tasks = core[d].blocked_tasks
    BY TypesAre, BlockStep, ZenonT(60)
  <1>2. TypeOK'
    <2>1. SchedulerTypeOK'
      BY <1>1, TypesAre, CoreTypes, Zenon
    <2>2. pc' \in [Tasks -> {"run", "parked", "recheck", "exited"}]
      BY TypesAre
    <2> QED
      BY <2>1, <2>2, TypesAre DEF TypeOK
  <1>3. \A u \in Tasks : /\ Waiting(u)' <=> Waiting(u)
                         /\ Queued(u)' <=> Queued(u)
    BY TypesAre DEF Waiting, Queued
  <1>4. \A u \in Tasks : /\ Asleep(u)' <=> Asleep(u) \/ u = t
                         /\ Coming(u)' <=> Coming(u)
                         /\ core'[Home[u]].wakeup_tasks = core[Home[u]].wakeup_tasks
    BY <1>1, HomeAssumption, ZenonT(60) DEF Asleep, Coming
  <1>5. ParkedOnce'
    BY <1>3, TypesAre DEF IInv, ParkedOnce
  <1>6. ParkedOrCounted'
    BY <1>3 DEF IInv, ParkedOrCounted
  <1>7. SleepersAreKnown'
    BY <1>3, <1>4 DEF IInv, SleepersAreKnown
  <1>8. UndatedSleep'
    BY <1>3, <1>4, Zenon DEF IInv, UndatedSleep
  <1>9. PanicNeedsDeadline'
    BY <1>1, Zenon DEF IInv, PanicNeedsDeadline
  <1> QED
    BY <1>1, <1>2, <1>5, <1>6, <1>7, <1>8, <1>9 DEF IInv

\* The body of the loop of futex_wait.
LEMMA RecheckKeeps ==
  ASSUME IInv, NEW t \in Tasks, futex_recheck(t)
  PROVE  IInv'
  <1>1. Runs(t) /\ pc[t] = "recheck" /\ UNCHANGED <<word, addr, calls>>
    BY Zenon DEF futex_recheck
  <1>2. ~Asleep(t)
    BY <1>1, RunnerIsUp, Zenon DEF IInv, Asleep, Sleeps
  <1>3. \/ /\ \E r \in {"0", "ETIMEDOUT"} : Return(t, r)
           /\ \/ parking_lot' = [parking_lot EXCEPT ![addr[t]] = remove(parking_lot[addr[t]], t)]
              \/ parking_lot' = parking_lot /\ ~Queued(t)
        \/ /\ Queued(t)
           /\ core' = [core EXCEPT ![Home[t]] = block_current_task(core[Home[t]])]
           /\ pc' = [pc EXCEPT ![t] = "parked"]
           /\ UNCHANGED <<due, parking_lot, popped, result>>
    BY Zenon DEF futex_recheck, Queued
  <1> QED
    BY <1>1, <1>2, <1>3, ReturnKeeps, SleepAgainKeeps, Zenon

\* What custom_wakeup for popped handles does to the inputs and the blocked queues.
LEMMA WakeOnCores ==
  ASSUME IInv, NEW c \in Cores, NEW woken \in Seq(Tasks), IsInjective(woken),
         core' = custom_wakeup(core, c, woken)
  PROVE  /\ AllSound'
         /\ \A d \in Cores : ~core[d].panicked /\ core'[d].panicked =>
                                d = c /\ ~(Range(woken) \cap TasksOf(c) \subseteq core[c].blocked_tasks)
         /\ \A u \in Tasks :
               /\ Asleep(u)' <=> Asleep(u) /\ ~(u \in Range(woken) /\ Home[u] = c)
               /\ Coming(u)' <=> Coming(u) \/ (u \in Range(woken) /\ Home[u] # c)
               /\ Once(core[Home[u]].wakeup_tasks, u) /\ (u \in Range(woken) => ~Coming(u))
                    => Once(core'[Home[u]].wakeup_tasks, u)
  <1>1. AllSound
    BY TypesAre, Zenon
  <1>2. \A u \in Tasks : /\ Sleeps(core, u) <=> Asleep(u)
                         /\ Called(core, u) <=> Coming(u)
                         /\ Sleeps(core', u) <=> Asleep(u)'
                         /\ Called(core', u) <=> Coming(u)'
    BY SMT, Zenon DEF Sleeps, Called, Asleep, Coming
  <1> QED
    BY <1>1, <1>2, WakeupOfTasks, Zenon

\* Popping the handles woken from the queue at a, which leaves the handles left.
LEMMA PopFromLot ==
  ASSUME IInv, NEW a \in Addrs, NEW woken, NEW left \in Seq(Tasks), IsInjective(left),
         Range(woken) \cup Range(left) = Range(parking_lot[a]), Range(woken) \cap Range(left) = {},
         parking_lot' = [parking_lot EXCEPT ![a] = left], UNCHANGED <<pc, addr>>
  PROVE  /\ parking_lot' \in [Addrs -> Seq(Tasks)] /\ ParkedOnce'
         /\ \A u \in Range(woken) : u \in Tasks /\ Waiting(u) /\ Queued(u)
         /\ \A u \in Tasks : /\ Waiting(u)' <=> Waiting(u)
                             /\ Queued(u)' <=> Queued(u) /\ u \notin Range(woken)
  <1> USE SMTT(30)
  <1>1. /\ parking_lot \in [Addrs -> Seq(Tasks)] /\ addr \in [Tasks -> Addrs]
        /\ \A b \in Addrs : Range(parking_lot[b]) \subseteq Tasks
    BY TypesAre
  <1>2. /\ parking_lot' \in [Addrs -> Seq(Tasks)] /\ parking_lot'[a] = left
        /\ \A b \in Addrs \ {a} : parking_lot'[b] = parking_lot[b]
    BY <1>1
  <1>3. \A b \in Addrs : /\ IsInjective(parking_lot[b])
                         /\ \A u \in Range(parking_lot[b]) : addr[u] = b /\ Waiting(u)
    BY DEF IInv, ParkedOnce
  <1>4. \A u \in Range(woken) : u \in Tasks /\ addr[u] = a /\ Waiting(u) /\ Queued(u)
    BY <1>1, <1>3 DEF Queued
  <1>5. \A u \in Tasks : Waiting(u)' <=> Waiting(u)
    BY DEF Waiting
  <1>6. ASSUME NEW u \in Tasks
        PROVE  Queued(u)' <=> Queued(u) /\ u \notin Range(woken)
    <2>1. addr'[u] = addr[u] /\ addr[u] \in Addrs
      BY <1>1
    <2>2. CASE addr[u] = a
      BY <1>2, <2>1, <2>2 DEF Queued
    <2>3. CASE addr[u] # a
      BY <1>2, <1>4, <2>1, <2>3 DEF Queued
    <2> QED
      BY <2>2, <2>3
  <1>7. \A b \in Addrs : /\ Range(parking_lot'[b]) \subseteq Range(parking_lot[b])
                         /\ IsInjective(parking_lot'[b])
    BY <1>2, <1>3
  <1>8. ParkedOnce'
    BY <1>1, <1>3, <1>5, <1>7 DEF ParkedOnce
  <1> QED
    BY <1>2, <1>4, <1>5, <1>6, <1>8

\* Popped handles are counted, and their tasks leave the blocked queue here or are sent a wake-up.
LEMMA WakeKeepsInv ==
  ASSUME IInv, NEW t \in Tasks, NEW a \in Addrs, NEW count \in Counts,
         Calls(t), Wake(t, a, count), word' \in [Addrs -> Values]
  PROVE  IInv'
  <1> USE SMTT(30)
  <1> DEFINE c == Home[t]
  <1> DEFINE q == parking_lot[a]
  <1> DEFINE n == IF count < Len(q) THEN count ELSE Len(q)
  <1> DEFINE woken == SubSeq(q, 1, n)
  <1> DEFINE left == SubSeq(q, n + 1, Len(q))
  <1>1. /\ core' = custom_wakeup(core, c, woken) /\ parking_lot' = [parking_lot EXCEPT ![a] = left]
        /\ popped' = popped \cup Range(woken) /\ UNCHANGED <<due, pc, addr, result>>
        /\ calls' = [calls EXCEPT ![t] = calls[t] + 1] /\ calls[t] < MaxCalls
    BY Zenon DEF Wake, Calls
  <1>2. c \in Cores /\ q \in Seq(Tasks) /\ IsInjective(q)
    BY TypesAre DEF IInv, ParkedOnce
  <1>3. n \in 0 .. Len(q)
    BY <1>2, CountsAssumption
  <1> HIDE DEF c, n
  <1>4. /\ woken \in Seq(Tasks) /\ IsInjective(woken) /\ left \in Seq(Tasks) /\ IsInjective(left)
        /\ Range(woken) \cup Range(left) = Range(q) /\ Range(woken) \cap Range(left) = {}
    BY <1>2, <1>3, SplitIs
  <1> HIDE DEF woken, left
  <1>5. /\ AllSound'
        /\ \A d \in Cores : ~core[d].panicked /\ core'[d].panicked =>
                               d = c /\ ~(Range(woken) \cap TasksOf(c) \subseteq core[c].blocked_tasks)
        /\ \A u \in Tasks :
              /\ Asleep(u)' <=> Asleep(u) /\ ~(u \in Range(woken) /\ Home[u] = c)
              /\ Coming(u)' <=> Coming(u) \/ (u \in Range(woken) /\ Home[u] # c)
              /\ Once(core[Home[u]].wakeup_tasks, u) /\ (u \in Range(woken) => ~Coming(u))
                   => Once(core'[Home[u]].wakeup_tasks, u)
    BY <1>1, <1>2, <1>4, WakeOnCores, Zenon
  <1>6. /\ parking_lot' \in [Addrs -> Seq(Tasks)] /\ ParkedOnce'
        /\ \A u \in Range(woken) : u \in Tasks /\ Waiting(u) /\ Queued(u)
        /\ \A u \in Tasks : /\ Waiting(u)' <=> Waiting(u)
                            /\ Queued(u)' <=> Queued(u) /\ u \notin Range(woken)
    BY <1>1, <1>4, PopFromLot, Zenon
  <1>7. TypeOK'
    <2>1. SchedulerTypeOK'
      <3>1. due' \in [Tasks -> Dues]
        BY <1>1, TypesAre, Zenon
      <3> QED
        BY <1>5, <3>1, CoreTypes, Zenon
    <2>2. calls' \in [Tasks -> 0 .. MaxCalls]
      BY <1>1, TypesAre, MaxCallsAssumption
    <2>3. popped' \subseteq Tasks
      BY <1>1, <1>6, TypesAre, Zenon
    <2> QED
      BY <1>1, <1>6, <2>1, <2>2, <2>3, TypesAre, Zenon DEF TypeOK
  <1>8. ParkedOrCounted /\ SleepersAreKnown /\ UndatedSleep /\ PanicNeedsDeadline
    BY Zenon DEF IInv
  <1>9. ParkedOrCounted'
    BY <1>1, <1>6, <1>8 DEF ParkedOrCounted
  <1>10. SleepersAreKnown'
    <2> SUFFICES ASSUME NEW u \in Tasks, Asleep(u)'
                 PROVE  Queued(u)' \/ Coming(u)'
      BY Zenon DEF SleepersAreKnown
    <2>1. /\ Asleep(u) /\ ~(u \in Range(woken) /\ Home[u] = c)
          /\ Coming(u)' <=> Coming(u) \/ (u \in Range(woken) /\ Home[u] # c)
      BY <1>5, Zenon
    <2>2. Queued(u)' <=> Queued(u) /\ u \notin Range(woken)
      BY <1>6, Zenon
    <2>3. Queued(u) \/ Coming(u)
      BY <1>8, <2>1, Zenon DEF SleepersAreKnown
    <2> QED
      BY <2>1, <2>2, <2>3, Zenon
  <1>11. UndatedSleep'
    <2> SUFFICES ASSUME NEW u \in Tasks, Timeouts[u] = {"none"}
                 PROVE  /\ due'[u] = "none" /\ (Queued(u)' \/ Coming(u)' => Asleep(u)')
                        /\ ~(Queued(u)' /\ Coming(u)') /\ Once(core'[Home[u]].wakeup_tasks, u)
      BY Zenon DEF UndatedSleep
    <2>1. /\ due[u] = "none" /\ (Queued(u) \/ Coming(u) => Asleep(u))
          /\ ~(Queued(u) /\ Coming(u)) /\ Once(core[Home[u]].wakeup_tasks, u)
      BY <1>8, Zenon DEF UndatedSleep
    <2>2. /\ Asleep(u)' <=> Asleep(u) /\ ~(u \in Range(woken) /\ Home[u] = c)
          /\ Coming(u)' <=> Coming(u) \/ (u \in Range(woken) /\ Home[u] # c)
          /\ (u \in Range(woken) => ~Coming(u)) => Once(core'[Home[u]].wakeup_tasks, u)
      BY <1>5, <2>1, Zenon
    <2>3. (Queued(u)' <=> Queued(u) /\ u \notin Range(woken)) /\ (u \in Range(woken) => Queued(u))
      BY <1>6, Zenon
    <2>4. due'[u] = "none"
      BY <1>1, <2>1, Zenon
    <2> QED
      BY <2>1, <2>2, <2>3, <2>4, Zenon
  <1>12. PanicNeedsDeadline'
    <2> SUFFICES ASSUME NEW d \in Cores, core'[d].panicked, \A u \in TasksOf(d) : Timeouts[u] = {"none"}
                 PROVE  FALSE
      BY DEF PanicNeedsDeadline
    <2>1. ~core[d].panicked
      BY <1>8 DEF PanicNeedsDeadline
    <2>2. d = c /\ ~(Range(woken) \cap TasksOf(c) \subseteq core[c].blocked_tasks)
      BY <1>5, <2>1, Zenon
    <2>3. \A u \in Range(woken) \cap TasksOf(c) : u \in core[c].blocked_tasks
      BY <1>6, <1>8, <2>2, Zenon DEF UndatedSleep, Asleep, TasksOf
    <2> QED
      BY <2>2, <2>3
  <1> QED
    BY <1>5, <1>6, <1>7, <1>9, <1>10, <1>11, <1>12, Zenon DEF IInv

\* A step that changes nothing.
LEMMA StutterKeeps ==
  ASSUME IInv, UNCHANGED vars
  PROVE  IInv'
  BY Zenon DEF IInv, vars, fvars, TypeOK, SchedulerTypeOK, AllSound, ParkedOnce, ParkedOrCounted,
     SleepersAreKnown, UndatedSleep, PanicNeedsDeadline, Waiting, Asleep, Queued, Coming

\* The calls a task makes outside a wait.
LEMMA CallKeeps ==
  ASSUME IInv, NEW t \in Tasks, Call(t)
  PROVE  IInv'
  <1> USE SMTT(30)
  <1>1. word \in [Addrs -> Values]
    BY TypesAre
  <1>2. ASSUME NEW a \in Addrs, NEW v \in Values, NEW timeout \in Timeouts[t],
               futex_wait(t, a, v, timeout) \/ \E w \in Values : futex_wait_and_set(t, a, v, timeout, w)
        PROVE  IInv'
    <2>1. word' \in [Addrs -> Values]
      BY <1>1, <1>2, Zenon DEF futex_wait, futex_wait_and_set
    <2>2. Calls(t) /\ (Park(t, a, timeout) \/ ReturnAgain(t))
      BY <1>2, Zenon DEF futex_wait, futex_wait_and_set
    <2> QED
      BY <2>1, <2>2, ParkKeeps, QuietSteps, Zenon
  <1>3. ASSUME NEW a \in Addrs, NEW count \in Counts,
               futex_wake(t, a, count) \/ \E v \in Values : futex_wake_or_set(t, a, count, v)
        PROVE  IInv'
    <2>1. word' \in [Addrs -> Values]
      BY <1>1, <1>3 DEF futex_wake, futex_wake_or_set
    <2>2. Calls(t) /\ Wake(t, a, count)
      BY <1>3, Zenon DEF futex_wake, futex_wake_or_set
    <2> QED
      BY <2>1, <2>2, WakeKeepsInv, Zenon
  <1>4. ASSUME (\E a \in Addrs, v \in Values : Store(t, a, v)) \/ sys_yield(t)
        PROVE  IInv'
    BY <1>4, QuietSteps, Zenon
  <1> QED
    BY <1>2, <1>3, <1>4, Zenon DEF Call

\* Every step keeps the invariant.
LEMMA NextKeepsInv ==
  ASSUME IInv, [Next]_vars
  PROVE  IInv'
  <1>1. ASSUME NEW t \in Tasks, TaskStep(t) PROVE IInv'
    BY <1>1, CallKeeps, QuietSteps, RecheckKeeps, Zenon DEF TaskStep
  <1>2. ASSUME NEW t \in Tasks, Clock(t) PROVE IInv'
    BY <1>2, ClockKeeps, Zenon
  <1>3. ASSUME NEW c \in Cores, Interrupt(c) \/ Idle(c) PROVE IInv'
    BY <1>3, TimerKeeps, InputKeeps, Zenon DEF Interrupt, Idle
  <1> QED
    BY <1>1, <1>2, <1>3, StutterKeeps, Zenon DEF Next

\* The invariant holds in every reachable state.
LEMMA InvIsInvariant ==
  Spec => []IInv
  BY InitImpliesInv, NextKeepsInv, PTL DEF Spec

\* Counting a handle in a queue.
LEMMA TimesIs ==
  ASSUME NEW T, NEW q \in Seq(T), NEW t
  PROVE  /\ Times(q, t) \in Nat
         /\ t \in Range(q) => Times(q, t) >= 1
         /\ Once(q, t) => Times(q, t) = IF t \in Range(q) THEN 1 ELSE 0
  <1> USE SMTT(30)
  <1> DEFINE D == {i \in DOMAIN q : q[i] = t}
  <1>1. IsFiniteSet(D)
    BY IndicesAreFinite
  <1>2. Times(q, t) = Cardinality(D)
    BY DEF Times
  <1>3. t \in Range(q) <=> D # {}
    BY DEF Range
  <1>4. Once(q, t) => D = {} \/ \E i : D = {i}
    BY DEF Once
  <1> HIDE DEF D
  <1>5. Cardinality(D) \in Nat /\ (Cardinality(D) = 0 <=> D = {})
    BY <1>1, FS_CardinalityType, FS_EmptySet
  <1>6. (\E i : D = {i}) => Cardinality(D) = 1
    BY FS_Singleton, Zenon
  <1>7. t \in Range(q) => Cardinality(D) >= 1
    BY <1>3, <1>5
  <1>8. Once(q, t) /\ t \in Range(q) => Cardinality(D) = 1
    BY <1>3, <1>4, <1>6
  <1>9. t \notin Range(q) => Cardinality(D) = 0
    BY <1>3, <1>5
  <1> QED
    BY <1>2, <1>5, <1>7, <1>8, <1>9, Zenon

-----------------------------------------------------------------------------
\* The handles, words and program counters keep their types, and a core's queues hold only tasks of
\* that core, whatever the tasks call and however interrupts fall.
THEOREM FutexTypeCorrect == Spec => []TypeOK
  <1>1. IInv => TypeOK
    BY Zenon DEF IInv
  <1> QED
    BY <1>1, InvIsInvariant, PTL

\* No wake-up, time-out, preemption or exit loses a task, queues it twice or frees the stack of a
\* current task, on any number of cores with any priorities.
THEOREM OnePlaceCorrect == Spec => []OnePlace
  <1>1. IInv => OnePlace
    BY SoundIsOnePlace, Zenon DEF IInv
  <1> QED
    BY <1>1, InvIsInvariant, PTL

\* A task that sleeps in futex_wait is parked at its address or on its way in the input of its core,
\* and exactly once if it waits without deadlines.
THEOREM SleeperIsReachableCorrect == Spec => []SleeperIsReachable
  <1>1. ASSUME IInv PROVE SleeperIsReachable
    <2> USE SMTT(30)
    <2> SUFFICES ASSUME NEW t \in Tasks, Asleep(t)
                 PROVE  WakeUps(t) >= 1 /\ (Timeouts[t] = {"none"} => WakeUps(t) = 1)
      BY DEF SleeperIsReachable, Asleep
    <2> DEFINE p == parking_lot[addr[t]]
    <2> DEFINE w == core[Home[t]].wakeup_tasks
    <2>1. /\ p \in Seq(Tasks) /\ addr[t] \in Addrs /\ Home[t] \in Cores /\ AllSound
      BY <1>1, TypesAre
    <2>2. w \in Seq(TasksOf(Home[t]))
      BY <2>1 DEF AllSound, Sound, PerCoreScheduler
    <2>3. t \in Range(p) \/ t \in Range(w)
      BY <1>1, Zenon DEF IInv, SleepersAreKnown, Queued, Coming
    <2>4. Once(p, t)
      <3>1. IsInjective(p)
        BY <1>1, <2>1, Zenon DEF IInv, ParkedOnce
      <3> QED
        BY <3>1, <2>1, Zenon DEF IsInjective, Once
    <2>5. Timeouts[t] = {"none"} => Once(w, t) /\ ~(t \in Range(p) /\ t \in Range(w))
      BY <1>1, Zenon DEF IInv, UndatedSleep, Queued, Coming
    <2>6. WakeUps(t) = Times(p, t) + Times(w, t)
      BY DEF WakeUps
    <2> HIDE DEF p, w
    <2>7. /\ Times(p, t) \in Nat /\ (t \in Range(p) => Times(p, t) >= 1)
          /\ Once(p, t) => Times(p, t) = IF t \in Range(p) THEN 1 ELSE 0
      BY <2>1, TimesIs, Zenon
    <2>8. /\ Times(w, t) \in Nat /\ (t \in Range(w) => Times(w, t) >= 1)
          /\ Once(w, t) => Times(w, t) = IF t \in Range(w) THEN 1 ELSE 0
      BY <2>2, TimesIs
    <2> QED
      BY <2>3, <2>4, <2>5, <2>6, <2>7, <2>8
  <1> QED
    BY <1>1, InvIsInvariant, PTL

\* A core none of whose tasks waits with deadlines never reaches the unreachable!() of custom_wakeup
\* and never fails an assertion of the blocked queue.
THEOREM PanicNeedsDeadlineCorrect == Spec => []PanicNeedsDeadline
  <1>1. IInv => PanicNeedsDeadline
    BY Zenon DEF IInv
  <1> QED
    BY <1>1, InvIsInvariant, PTL

\* futex_wait returns 0 to exactly the tasks that some futex_wake counted as woken.
THEOREM WakeIsCountedCorrect == Spec => WakeIsCounted
  <1> DEFINE Counted == \A t \in Tasks : Waiting(t) /\ ~Waiting(t)' => (result'[t] = "0" <=> t \in popped)
  <1>1. ASSUME IInv, [Next]_vars PROVE [Counted]_vars
    <2> USE SMTT(30)
    <2> SUFFICES ASSUME Next, NEW t \in Tasks, Waiting(t), ~Waiting(t)'
                 PROVE  result'[t] = "0" <=> t \in popped
      BY <1>1, Zenon
    <2>1. /\ pc \in [Tasks -> {"run", "parked", "recheck", "exited"}]
          /\ result \in [Tasks -> {None, "0", "EAGAIN", "ETIMEDOUT"}]
      BY <1>1, TypesAre
    <2>2. PICK u \in Tasks : futex_recheck(u)
      <3>1. ASSUME NEW u \in Tasks, Call(u) PROVE FALSE
        <4>1. pc' = pc \/ pc' = [pc EXCEPT ![u] = "parked"]
          <5>1. ASSUME NEW a, NEW timeout, Park(u, a, timeout) \/ ReturnAgain(u)
                PROVE  pc' = pc \/ pc' = [pc EXCEPT ![u] = "parked"]
            BY <5>1, Zenon DEF Park, ReturnAgain
          <5>2. ASSUME NEW a, NEW count, Wake(u, a, count)
                PROVE  pc' = pc
            BY <5>2, Zenon DEF Wake
          <5>3. ASSUME (\E a \in Addrs, v \in Values : Store(u, a, v)) \/ sys_yield(u)
                PROVE  pc' = pc
            BY <5>3, Zenon DEF Store, sys_yield
          <5> QED
            BY <3>1, <5>1, <5>2, <5>3, Zenon
               DEF Call, futex_wait, futex_wait_and_set, futex_wake, futex_wake_or_set
        <4> QED
          BY <2>1, <4>1 DEF Waiting
      <3>2. ASSUME NEW u \in Tasks, futex_reschedule(u) \/ Exit(u) PROVE FALSE
        BY <2>1, <3>2 DEF futex_reschedule, Exit, Waiting
      <3>3. ASSUME UNCHANGED fvars PROVE FALSE
        BY <3>3 DEF fvars, Waiting
      <3> QED
        BY <3>1, <3>2, <3>3, Zenon DEF Next, TaskStep, Clock, Interrupt, Idle
    <2>3. u = t
      BY <2>1, <2>2, Zenon DEF futex_recheck, Return, Waiting
    <2>4. t \in popped <=> t \notin Range(parking_lot[addr[t]])
      BY <1>1 DEF IInv, ParkedOrCounted, Queued
    <2>5. PICK r : Return(t, r) /\ (r = "0" <=> t \notin Range(parking_lot[addr[t]]))
      BY <2>1, <2>2, <2>3, Zenon DEF futex_recheck, Waiting
    <2> QED
      BY <2>1, <2>4, <2>5 DEF Return
  <1> QED
    BY <1>1, InvIsInvariant, PTL DEF Spec, WakeIsCounted
==============================================================================

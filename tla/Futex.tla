-------------------------------- MODULE Futex --------------------------------
(***************************************************************************)
(* kernel/src/synch/futex.rs on top of the SMP scheduler.  Each task makes *)
(* MaxCalls futex calls of its choice and then exits.                      *)
(*                                                                         *)
(* futex_wait checks the word, blocks the task and parks its handle while  *)
(* it holds PARKING_LOT (one action), calls reschedule (a second), and     *)
(* looks at the parking lot again when it runs next (a third).  Between    *)
(* these the other cores run and interrupts arrive.  futex_wake pops and   *)
(* wakes under the lock: a woken task can do no futex call before the lock *)
(* is free, so the whole loop is one action.                               *)
(***************************************************************************)
EXTENDS Scheduler

CONSTANTS Addrs,        \* the futex words in use
          Values,       \* values of a word
          Timeouts,     \* Timeouts[t]: where the clock may stand to the deadline of a new wait of t
          Counts,       \* numbers of tasks a futex_wake may ask for
          MaxCalls      \* calls a task makes before it exits

ASSUME TimeoutsAssumption == Timeouts \in [Tasks -> SUBSET Dues]
ASSUME CountsAssumption == Counts \subseteq Nat
ASSUME MaxCallsAssumption == MaxCalls \in Nat

VARIABLES word,         \* word[a]: the AtomicU32 at a
          parking_lot,  \* parking_lot[a]: handles parked at a, in the order of pop
          pc,           \* pc[t]: where t is in futex_wait ("run": in no call)
          addr,         \* addr[t]: the address of t's futex_wait
          calls,        \* calls t has made
          popped,       \* tasks that a futex_wake counted as woken and whose futex_wait has not returned
          result        \* result[t]: what t's last futex_wait returned

fvars == <<word, parking_lot, pc, addr, calls, popped, result>>
vars == <<core, due, fvars>>

None == "none"

TypeOK ==
    /\ SchedulerTypeOK
    /\ word \in [Addrs -> Values]
    /\ parking_lot \in [Addrs -> Seq(Tasks)]
    /\ pc \in [Tasks -> {"run", "parked", "recheck", "exited"}]
    /\ addr \in [Tasks -> Addrs]
    /\ calls \in [Tasks -> 0 .. MaxCalls]
    /\ popped \subseteq Tasks
    /\ result \in [Tasks -> {None, "0", "EAGAIN", "ETIMEDOUT"}]

Init ==
    /\ SchedulerInit(CHOOSE order \in Orders(Tasks) : TRUE)
    /\ word \in [Addrs -> Values]
    /\ parking_lot = [a \in Addrs |-> <<>>]
    /\ pc = [t \in Tasks |-> "run"]
    /\ addr \in [Tasks -> Addrs]
    /\ calls = [t \in Tasks |-> 0]
    /\ popped = {}
    /\ result = [t \in Tasks |-> None]

Calls(t) ==
    /\ Runs(t) /\ pc[t] = "run" /\ calls[t] < MaxCalls
    /\ calls' = [calls EXCEPT ![t] = @ + 1]

Reschedule(t) == core' = [core EXCEPT ![Home[t]] = scheduler(@)]

-----------------------------------------------------------------------------
\* Mutant of Park: a handle is parked only where others already are.
ParkUnqueued(t, a, timeout) ==
    /\ core' = [core EXCEPT ![Home[t]] = block_current_task(@)]
    /\ parking_lot' = [parking_lot EXCEPT ![a] = IF @ = <<>> THEN @ ELSE push(@, t)]
    /\ due' = [due EXCEPT ![t] = timeout]
    /\ pc' = [pc EXCEPT ![t] = "parked"]
    /\ addr' = [addr EXCEPT ![t] = a]
    /\ UNCHANGED <<popped, result>>

\* The rest of futex_wait and futex_wait_and_set once the word matched.
Park(t, a, timeout) ==
    /\ core' = [core EXCEPT ![Home[t]] = block_current_task(@)]
    /\ parking_lot' = [parking_lot EXCEPT ![a] = push(@, t)]
    /\ due' = [due EXCEPT ![t] = timeout]
    /\ pc' = [pc EXCEPT ![t] = "parked"]
    /\ addr' = [addr EXCEPT ![t] = a]
    /\ UNCHANGED <<popped, result>>

ReturnAgain(t) ==
    /\ result' = [result EXCEPT ![t] = "EAGAIN"]
    /\ UNCHANGED <<core, due, parking_lot, pc, addr, popped>>

futex_wait(t, a, expected, timeout) ==
    /\ Calls(t)
    /\ IF word[a] = expected THEN Park(t, a, timeout) ELSE ReturnAgain(t)
    /\ UNCHANGED word

\* The word is swapped whether or not it matched.
futex_wait_and_set(t, a, expected, timeout, new_value) ==
    /\ Calls(t)
    /\ word' = [word EXCEPT ![a] = new_value]
    /\ IF word[a] = expected THEN Park(t, a, timeout) ELSE ReturnAgain(t)

\* The reschedule() at the top of the loop.
futex_reschedule(t) ==
    /\ core[Home[t]].current_task = t /\ pc[t] = "parked"
    /\ Reschedule(t)
    /\ pc' = [pc EXCEPT ![t] = "recheck"]
    /\ UNCHANGED <<due, word, parking_lot, addr, calls, popped, result>>

Return(t, r) ==
    /\ result' = [result EXCEPT ![t] = r]
    /\ pc' = [pc EXCEPT ![t] = "run"]
    /\ due' = [due EXCEPT ![t] = "none"]
    /\ popped' = popped \ {t}
    /\ UNCHANGED core

\* Mutant of futex_recheck: a deadline that has passed is always a time-out.
futex_recheck_by_time(t) ==
    /\ Runs(t) /\ pc[t] = "recheck"
    /\ parking_lot' = [parking_lot EXCEPT ![addr[t]] = remove(@, t)]
    /\ Return(t, IF due[t] \in {"at", "past"} THEN "ETIMEDOUT" ELSE "0")
    /\ UNCHANGED <<word, addr, calls>>

\* The body of the loop after reschedule(): a wake-up is told from a time-out by the parking lot.
futex_recheck(t) ==
    LET a      == addr[t]
        queued == t \in Range(parking_lot[a])
    IN  /\ Runs(t) /\ pc[t] = "recheck"
        /\ \/ /\ due[t] \in {"at", "past"}
              /\ parking_lot' = [parking_lot EXCEPT ![a] = remove(@, t)]
              /\ Return(t, IF queued THEN "ETIMEDOUT" ELSE "0")
           \/ /\ due[t] \in {"none", "before"} /\ ~queued
              /\ Return(t, "0")
              /\ UNCHANGED parking_lot
           \/ /\ due[t] \in {"none", "before"} /\ queued
              /\ core' = [core EXCEPT ![Home[t]] = block_current_task(@)]
              /\ pc' = [pc EXCEPT ![t] = "parked"]
              /\ UNCHANGED <<due, parking_lot, popped, result>>
        /\ UNCHANGED <<word, addr, calls>>

\* Pops and wakes up to count handles at a.
Wake(t, a, count) ==
    LET n     == IF count < Len(parking_lot[a]) THEN count ELSE Len(parking_lot[a])
        woken == SubSeq(parking_lot[a], 1, n)
    IN  /\ core' = custom_wakeup(core, Home[t], woken)
        /\ parking_lot' = [parking_lot EXCEPT ![a] = SubSeq(@, n + 1, Len(@))]
        /\ popped' = popped \cup Range(woken)
        /\ UNCHANGED <<due, pc, addr, result>>

futex_wake(t, a, count) ==
    /\ Calls(t)
    /\ Wake(t, a, count)
    /\ UNCHANGED word

\* When nobody was woken the word is set instead.
futex_wake_or_set(t, a, count, new_value) ==
    /\ Calls(t)
    /\ Wake(t, a, count)
    /\ word' = IF count = 0 \/ parking_lot[a] = <<>> THEN [word EXCEPT ![a] = new_value] ELSE word

-----------------------------------------------------------------------------
\* The program may write the word at any time, and yield.
Store(t, a, v) ==
    /\ Calls(t)
    /\ word' = [word EXCEPT ![a] = v]
    /\ UNCHANGED <<core, due, parking_lot, pc, addr, popped, result>>

sys_yield(t) ==
    /\ Calls(t)
    /\ Reschedule(t)
    /\ UNCHANGED <<due, word, parking_lot, pc, addr, popped, result>>

\* exit: finish the task and reschedule.
Exit(t) ==
    /\ Runs(t) /\ pc[t] = "run" /\ calls[t] = MaxCalls
    /\ core' = [core EXCEPT ![Home[t]] = scheduler([@ EXCEPT !.status[t] = "Finished"])]
    /\ pc' = [pc EXCEPT ![t] = "exited"]
    /\ UNCHANGED <<due, word, parking_lot, addr, calls, popped, result>>

Call(t) ==
    \/ \E a \in Addrs, v \in Values :
          \/ Store(t, a, v)
          \/ \E timeout \in Timeouts[t] : \/ futex_wait(t, a, v, timeout)
                                       \/ \E w \in Values : futex_wait_and_set(t, a, v, timeout, w)
    \/ \E a \in Addrs, count \in Counts :
          \/ futex_wake(t, a, count)
          \/ \E v \in Values : futex_wake_or_set(t, a, count, v)
    \/ sys_yield(t)

TaskStep(t) == Call(t) \/ futex_reschedule(t) \/ futex_recheck(t) \/ Exit(t)

Interrupt(c) == (timer_handler(c) \/ wakeup_handler(c)) /\ UNCHANGED fvars

Idle(c) == run(c) /\ UNCHANGED fvars

Clock(t) == Tick(t) /\ UNCHANGED fvars

Next ==
    /\ ~Panicked
    /\ \/ \E t \in Tasks : TaskStep(t) \/ Clock(t)
       \/ \E c \in Cores : Interrupt(c) \/ Idle(c)

Spec == Init /\ [][Next]_vars

Executes(c) == ~Panicked /\ (Idle(c) \/ \E t \in TasksOf(c) : TaskStep(t))

TimerFires(c) ==
    /\ ~Panicked
    /\ \E t \in core[c].blocked_tasks : due[t] = "past"
    /\ timer_handler(c) /\ UNCHANGED fvars

TimePasses(t) == ~Panicked /\ Clock(t)

-----------------------------------------------------------------------------
Waiting(t) == pc[t] \in {"parked", "recheck"}

Times(q, t) == Cardinality({i \in DOMAIN q : q[i] = t})

\* The ways in which t can be woken: handles parked at its address, or on their way to its core.
WakeUps(t) == Times(parking_lot[addr[t]], t) + Times(core[Home[t]].wakeup_tasks, t)

\* A waiter that sleeps can be woken, and one that uses no deadlines by exactly one wake-up: its
\* handle is either parked at the address it waits for or on its way in the wakeup_tasks of its core,
\* once.  No order of checks of the word, pops and cross-core wake-ups leaves a task asleep that
\* nobody can reach.
SleeperIsReachable ==
    \A t \in Tasks :
       t \in core[Home[t]].blocked_tasks =>
          WakeUps(t) >= 1 /\ (Timeouts[t] = {"none"} => WakeUps(t) = 1)

\* A core panics only if some task of it waits with deadlines: for all others custom_wakeup finds its
\* task among the blocked ones (its unreachable!() is) and only a running task blocks (add).
PanicNeedsDeadline ==
    \A c \in Cores : core[c].panicked => \E t \in TasksOf(c) : Timeouts[t] # {"none"}

\* futex_wait returns 0 to exactly the tasks that a futex_wake counted as woken, and ETIMEDOUT to
\* the others, however the deadline, the wake-up and the interrupts race.
WakeIsCounted ==
    [][\A t \in Tasks : Waiting(t) /\ ~Waiting(t)' => (result'[t] = "0" <=> t \in popped)]_vars

\* A futex_wake counted the task, which has not returned.
WakeOnItsWay(t) == ~Panicked /\ t \in popped

\* The task is in a wait with a deadline.
InTimedWait(t) == ~Panicked /\ Waiting(t) /\ due[t] # "none"
==============================================================================

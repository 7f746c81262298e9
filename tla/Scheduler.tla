------------------------------ MODULE Scheduler ------------------------------
(***************************************************************************)
(* The per-core schedulers of the SMP kernel: kernel/src/scheduler/mod.rs  *)
(* with the queues of scheduler/task/mod.rs and the two interrupt handlers *)
(* that enter the scheduler (the one-shot timer and the wake-up IPI).      *)
(*                                                                         *)
(* A core's scheduler is a record; the operations of PerCoreScheduler are  *)
(* functions on it, so that a handler that calls several of them is one    *)
(* action.  The modules of what tasks block on (Futex, TaskLocks,          *)
(* TaskLife) extend this one with the programs that the tasks run.  Most   *)
(* of their critical sections hold an InterruptTicketMutex, so that an     *)
(* interrupt is taken between two actions and never inside one.            *)
(***************************************************************************)
EXTENDS Naturals, Sequences, FiniteSets, Functions

CONSTANTS Cores, Tasks,
          Home,         \* Home[t]: the core of task t; tasks never migrate
          Prio          \* Prio[t]: its priority, above that of the idle task

ASSUME TasksAssumption == IsFiniteSet(Tasks) /\ "idle task" \notin Tasks
ASSUME HomeAssumption == Home \in [Tasks -> Cores]
ASSUME PrioAssumption == Prio \in [Tasks -> Nat \ {0}]

VARIABLES core,         \* core[c]: the PerCoreScheduler of c and its SchedulerInput
          due           \* due[t]: where the clock stands to the deadline of t's wait

idle == "idle task"

Status == {"New", "Ready", "Running", "Blocked", "Finished", "Invalid", "Freed"}

\* The clock is before, exactly at, or past wakeup_time; "none" is wakeup_time = None.
Dues == {"none", "before", "at", "past"}

TasksOf(c) == {t \in Tasks : Home[t] = c}

\* The orders in which the members of the finite set S can come.
Orders(S) == Injection(1 .. Cardinality(S), S)

-----------------------------------------------------------------------------
(***************************************************************************)
(* The two priority queues (of tasks and of handles) are FIFO lists per    *)
(* priority.  Here such a queue is one sequence in the order of pop.       *)
(***************************************************************************)
\* The elements of s at the indices that have a rank, in the order of the ranks 1, 2, ...
Arrange(s, rank) ==
    [k \in 1 .. Cardinality(DOMAIN rank) |-> s[CHOOSE i \in DOMAIN rank : rank[i] = k]]

\* The elements of s at the indices I, in the order of s.
Pick(s, I) == Arrange(s, [i \in I |-> Cardinality({j \in I : j <= i})])

\* Higher priorities first, equal ones as they came.
NotAfter(s, j, i) == Prio[s[j]] > Prio[s[i]] \/ (Prio[s[j]] = Prio[s[i]] /\ j <= i)
InOrder(s) == Arrange(s, [i \in DOMAIN s |-> Cardinality({j \in DOMAIN s : NotAfter(s, j, i)})])

push(q, t) == InOrder(Append(q, t))

\* What pop returns, as a sequence of at most one handle, and what it leaves.
pop(q) == IF q = <<>> THEN <<>> ELSE <<Head(q)>>
popped_off(q) == IF q = <<>> THEN <<>> ELSE Tail(q)

remove(q, t) == Pick(q, {i \in DOMAIN q : q[i] # t})

\* The handles of the tasks of core c.
HandlesOf(handles, c) == Pick(handles, {i \in DOMAIN handles : Home[handles[i]] = c})

-----------------------------------------------------------------------------
PerCoreScheduler(c) ==
    [current_task   : TasksOf(c) \cup {idle},
     ready_queue    : Seq(TasksOf(c)),
     blocked_tasks  : SUBSET TasksOf(c),
     wakeup_tasks   : Seq(TasksOf(c)),
     new_tasks      : Seq(TasksOf(c)),
     finished_tasks : SUBSET TasksOf(c),
     status         : [TasksOf(c) -> Status],
     panicked       : BOOLEAN]

SchedulerTypeOK ==
    /\ core = [c \in Cores |-> core[c]]
    /\ \A c \in Cores : core[c] \in PerCoreScheduler(c)
    /\ due \in [Tasks -> Dues]

\* The tasks in Started wait in the ready queues in the order given; the others are not spawned yet.
SchedulerInit(Started) ==
    /\ core = [c \in Cores |->
                 [current_task   |-> idle,
                  ready_queue    |-> InOrder(HandlesOf(Started, c)),
                  blocked_tasks  |-> {},
                  wakeup_tasks   |-> <<>>,
                  new_tasks      |-> <<>>,
                  finished_tasks |-> {},
                  status         |-> [t \in TasksOf(c) |->
                                        IF t \in Range(Started) THEN "Ready" ELSE "New"],
                  panicked       |-> FALSE]]
    /\ due = [t \in Tasks |-> "none"]

-----------------------------------------------------------------------------
(***************************************************************************)
(* Operations of one PerCoreScheduler x.                                   *)
(***************************************************************************)
current_status(x) == IF x.current_task = idle THEN "Idle" ELSE x.status[x.current_task]

\* BlockedTaskQueue::add; the assertion is that the current task is running.
block_current_task(x) ==
    IF current_status(x) = "Running"
      THEN [x EXCEPT !.status[x.current_task] = "Blocked",
                     !.blocked_tasks = @ \cup {x.current_task}]
      ELSE [x EXCEPT !.panicked = TRUE]

\* Makes the tasks ts ready, one after the other.
make_ready(x, ts) ==
    IF ts = <<>> THEN x
    ELSE [x EXCEPT !.status = [t \in DOMAIN @ |-> IF t \in Range(ts) THEN "Ready" ELSE @[t]],
                   !.ready_queue = InOrder(@ \o ts)]

\* Mutant of wake: the tasks are not taken off the blocked queue.
wake_keeps_blocked(x, ts) == make_ready(x, ts)

wake(x, ts) == [make_ready(x, ts) EXCEPT !.blocked_tasks = @ \ Range(ts)]

\* The handles whose task custom_wakeup finds when it is called for one after the other: the first
\* for each blocked task.
Found(x, handles) ==
    {i \in DOMAIN handles : /\ handles[i] \in x.blocked_tasks
                            /\ \A j \in DOMAIN handles : j < i => handles[j] # handles[i]}

\* BlockedTaskQueue::custom_wakeup ends in unreachable!() when the task is not in the list.
custom_wakeup_local(x, handles) ==
    [wake(x, Pick(handles, Found(x, handles))) EXCEPT
       !.panicked = @ \/ Found(x, handles) # DOMAIN handles]

\* Mutant of check_input: the handles stay in the input.
check_input_keeps(x) == custom_wakeup_local(x, x.wakeup_tasks)

\* Wakes the tasks that other cores asked for, then takes over the tasks that they spawned here.
check_input(x) ==
    [make_ready(custom_wakeup_local(x, x.wakeup_tasks), x.new_tasks) EXCEPT
       !.wakeup_tasks = <<>>, !.new_tasks = <<>>]

\* Drops the finished tasks, which frees their stacks.
cleanup_tasks(x) ==
    [x EXCEPT !.status = [t \in DOMAIN @ |-> IF t \in x.finished_tasks THEN "Freed" ELSE @[t]],
              !.finished_tasks = {}]

\* A running task gives way to an equal or higher priority; a finished one is kept for cleanup_tasks.
scheduler(y) ==
    LET x    == cleanup_tasks(y)
        st   == current_status(x)
        old  == x.current_task
        pops == /\ x.ready_queue # <<>>
                /\ st = "Running" => Prio[Head(x.ready_queue)] >= Prio[old]
        new  == IF pops THEN Head(x.ready_queue)
                        ELSE IF st \in {"Running", "Idle"} THEN old ELSE idle
        rest == IF pops THEN Tail(x.ready_queue) ELSE x.ready_queue
    IN  [x EXCEPT !.current_task = new,
                  !.ready_queue = IF pops /\ st = "Running" THEN push(rest, old) ELSE rest,
                  !.finished_tasks = IF st = "Finished" THEN @ \cup {old} ELSE @,
                  !.status = [t \in DOMAIN @ |->
                                CASE t = new -> "Running"
                                  [] t = old /\ t # new /\ st = "Running" -> "Ready"
                                  [] t = old /\ t # new /\ st = "Finished" -> "Invalid"
                                  [] OTHER -> @[t]]]

is_scheduling(x) ==
    /\ x.ready_queue # <<>>
    /\ x.current_task # idle => Prio[x.current_task] < Prio[Head(x.ready_queue)]

-----------------------------------------------------------------------------
Runs(t) == core[Home[t]].current_task = t /\ core[Home[t]].status[t] = "Running"

\* Mutant of custom_wakeup: a handle goes to every other core's input.
custom_wakeup_broadcast(cs, c, handles) ==
    [d \in Cores |->
       IF d = c
         THEN custom_wakeup_local(cs[c], HandlesOf(handles, c))
         ELSE [cs[d] EXCEPT !.wakeup_tasks = @ \o handles]]

\* PerCoreScheduler::custom_wakeup for a sequence of handles, called on core c.
custom_wakeup(cs, c, handles) ==
    [d \in Cores |->
       IF d = c
         THEN custom_wakeup_local(cs[c], HandlesOf(handles, c))
         ELSE [cs[d] EXCEPT !.wakeup_tasks = @ \o HandlesOf(handles, d)]]

-----------------------------------------------------------------------------
(***************************************************************************)
(* What enters the scheduler by itself: interrupts, the idle loop, time.   *)
(***************************************************************************)

\* Which order BlockedTaskQueue gives tasks whose deadlines passed together is left open.
timer_handler(c) ==
    /\ \E order \in Orders({t \in core[c].blocked_tasks : due[t] = "past"}) :
          \E x \in {wake(core[c], order)} : core' = [core EXCEPT ![c] = scheduler(x)]
    /\ UNCHANGED due

wakeup_handler(c) ==
    /\ \E x \in {check_input(core[c])} :
          core' = [core EXCEPT ![c] = IF is_scheduling(x) THEN scheduler(x) ELSE x]
    /\ UNCHANGED due

\* Mutant of run: the idle loop does not look at the input.
run_without_input(c) ==
    /\ core[c].current_task = idle
    /\ \E x \in {cleanup_tasks(core[c])} :
          core' = [core EXCEPT ![c] = IF x.ready_queue = <<>> THEN x ELSE scheduler(x)]
    /\ UNCHANGED due

\* One round of the idle task's loop.
run(c) ==
    /\ core[c].current_task = idle
    /\ \E x \in {cleanup_tasks(check_input(core[c]))} :
          core' = [core EXCEPT ![c] = IF x.ready_queue = <<>> THEN x ELSE scheduler(x)]
    /\ UNCHANGED due

Tick(t) ==
    /\ due[t] \in {"before", "at"}
    /\ due' = [due EXCEPT ![t] = IF @ = "before" THEN "at" ELSE "past"]
    /\ UNCHANGED core

Panicked == \E c \in Cores : core[c].panicked

-----------------------------------------------------------------------------
(***************************************************************************)
(* Properties of the schedulers that hold whatever the tasks do.           *)
(***************************************************************************)
\* The queues of scheduler x that hold task t, once for every time they do.
Places(x, t) ==
    {<<"ready", i>> : i \in {j \in DOMAIN x.ready_queue : x.ready_queue[j] = t}}
      \cup {<<"new", i>> : i \in {j \in DOMAIN x.new_tasks : x.new_tasks[j] = t}}
      \cup {<<"blocked", 1>> : u \in {t} \cap x.blocked_tasks}
      \cup {<<"finished", 1>> : u \in {t} \cap x.finished_tasks}

\* A task is held, once, by the queue that its status names, and by no other: no wake-up, time-out,
\* preemption or exit ever loses a task, queues it twice, or frees the stack of the current task.
OnePlace ==
    \A c \in Cores : \A t \in TasksOf(c) :
       LET x  == core[c]
           st == x.status[t]
       IN  /\ Cardinality(Places(x, t)) <= 1
           /\ {p[1] : p \in Places(x, t)} =
                 CASE st = "Ready"   -> {"ready"}
                   [] st = "Blocked" -> {"blocked"}
                   [] st = "Invalid" -> {"finished"}
                   [] st = "New"     -> {"new"} \cap {p[1] : p \in Places(x, t)}
                   [] OTHER          -> {}
           /\ st \in {"Running", "Finished"} => x.current_task = t
           /\ st \in {"New", "Invalid", "Freed"} => x.current_task # t

\* custom_wakeup finds its task among the blocked ones (its unreachable!() is), and only a running
\* task blocks (the assertions of add and mark_ready).
NoPanic == ~Panicked
==============================================================================

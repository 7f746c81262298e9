------------------------------- MODULE TaskLife -------------------------------
(***************************************************************************)
(* The life of a task in kernel/src/scheduler/mod.rs: spawn, exit, join,   *)
(* the cleanup of finished tasks, and the tables that name tasks.  A task  *)
(* may spawn tasks that do not exist yet, joins each task that it spawned  *)
(* at most once, and exits when it likes.                                  *)
(*                                                                         *)
(* spawn holds the lock of a core's input when it takes WAITING_TASKS, and *)
(* exit holds WAITING_TASKS when it takes the locks of inputs, so these    *)
(* two locks are part of the state.  The other critical sections take one  *)
(* lock and are one action each.                                           *)
(***************************************************************************)
EXTENDS Scheduler

CONSTANT Root           \* the task that runs first
nobody == "nobody"
RootAssumption == Root \in Tasks /\ nobody \notin Tasks

VARIABLES waiting_tasks,    \* WAITING_TASKS: for each task in it, the handles that join it
          tasks,            \* the keys of TASKS
          no_tasks,         \* NO_TASKS
          waiting_lock,     \* the task that holds the lock of WAITING_TASKS
          input_lock,       \* input_lock[c]: the task that holds the lock of c's SchedulerInput
          pc,               \* pc[t]: where t is in spawn, join or exit ("run": in none)
          target,           \* target[t]: the task that t spawns or joins, or did last
          queue,            \* queue[t]: the handles that t still has to wake in exit
          parent,           \* parent[t]: the task that spawned t
          joined            \* tasks that their parent has joined

tables == <<waiting_tasks, tasks, no_tasks>>
locks == <<waiting_lock, input_lock>>
lvars == <<tables, locks, pc, target, queue, parent, joined>>
vars == <<core, due, lvars>>

TypeOK ==
    /\ SchedulerTypeOK
    /\ DOMAIN waiting_tasks \subseteq Tasks
    /\ \A t \in DOMAIN waiting_tasks : waiting_tasks[t] \in Seq(Tasks)
    /\ tasks \subseteq Tasks
    /\ no_tasks \in 0 .. Cardinality(Tasks)
    /\ waiting_lock \in Tasks \cup {nobody}
    /\ input_lock \in [Cores -> Tasks \cup {nobody}]
    /\ pc \in [Tasks -> {"run", "spawn", "join", "parked", "joined", "exit", "wake", "reschedule", "gone"}]
    /\ target \in [Tasks -> Tasks \cup {nobody}]
    /\ queue \in [Tasks -> Seq(Tasks)]
    /\ parent \in [Tasks -> Tasks \cup {nobody}]
    /\ joined \subseteq Tasks

Init ==
    /\ SchedulerInit(<<Root>>)
    /\ waiting_tasks = [t \in {Root} |-> <<>>]
    /\ tasks = {Root}
    /\ no_tasks = 1
    /\ waiting_lock = nobody
    /\ input_lock = [c \in Cores |-> nobody]
    /\ pc = [t \in Tasks |-> "run"]
    /\ target = [t \in Tasks |-> nobody]
    /\ queue = [t \in Tasks |-> <<>>]
    /\ parent = [t \in Tasks |-> nobody]
    /\ joined = {}

StatusOf(t) == core[Home[t]].status[t]

Waiting(t) == IF t \in DOMAIN waiting_tasks THEN waiting_tasks[t] ELSE <<>>

goto(t, label) == pc' = [pc EXCEPT ![t] = label]

-----------------------------------------------------------------------------
\* spawn (and clone_impl) takes the lock of the input of the new task's core.
spawn(t, u) ==
    /\ Runs(t) /\ pc[t] = "run"
    /\ u # Root /\ parent[u] = nobody
    /\ input_lock[Home[u]] = nobody
    /\ input_lock' = [input_lock EXCEPT ![Home[u]] = t]
    /\ target' = [target EXCEPT ![t] = u]
    /\ parent' = [parent EXCEPT ![u] = t]
    /\ goto(t, "spawn")
    /\ UNCHANGED <<core, due, tables, waiting_lock, queue, joined>>

\* The scheduler x with the new task u, pushed by a task of the same core, or put into the input.
hand_over(x, u, local) ==
    IF local
      THEN [x EXCEPT !.status[u] = "Ready", !.ready_queue = push(@, u)]
      ELSE [x EXCEPT !.new_tasks = Append(@, u)]

\* Mutant of spawn_insert: the task is counted by its core when it takes it over.
spawn_insert_uncounted(t) ==
    LET u == target[t] IN
    /\ pc[t] = "spawn" /\ waiting_lock = nobody
    /\ waiting_tasks' = [v \in DOMAIN waiting_tasks \cup {u} |-> Waiting(v)]
    /\ tasks' = tasks \cup {u}
    /\ no_tasks' = IF Home[u] = Home[t] THEN no_tasks + 1 ELSE no_tasks
    /\ core' = [core EXCEPT ![Home[u]] = hand_over(@, u, Home[u] = Home[t])]
    /\ input_lock' = [input_lock EXCEPT ![Home[u]] = nobody]
    /\ goto(t, "run")
    /\ UNCHANGED <<due, waiting_lock, target, queue, parent, joined>>

\* With it held, it enters the task in the tables and hands it to its core.
spawn_insert(t) ==
    LET u == target[t] IN
    /\ pc[t] = "spawn" /\ waiting_lock = nobody
    /\ waiting_tasks' = [v \in DOMAIN waiting_tasks \cup {u} |-> Waiting(v)]
    /\ tasks' = tasks \cup {u}
    /\ no_tasks' = no_tasks + 1
    /\ core' = [core EXCEPT ![Home[u]] = hand_over(@, u, Home[u] = Home[t])]
    /\ input_lock' = [input_lock EXCEPT ![Home[u]] = nobody]
    /\ goto(t, "run")
    /\ UNCHANGED <<due, waiting_lock, target, queue, parent, joined>>

-----------------------------------------------------------------------------
join(t, u) ==
    /\ Runs(t) /\ pc[t] = "run" /\ parent[u] = t /\ u \notin joined
    /\ target' = [target EXCEPT ![t] = u]
    /\ joined' = joined \cup {u}
    /\ goto(t, "join")
    /\ UNCHANGED <<core, due, tables, locks, queue, parent>>

\* A task that is no longer in WAITING_TASKS has finished.
join_return(t) ==
    /\ Runs(t) /\ pc[t] = "join" /\ waiting_lock = nobody
    /\ target[t] \notin DOMAIN waiting_tasks
    /\ goto(t, "joined")
    /\ UNCHANGED <<core, due, tables, locks, target, queue, parent, joined>>

join_wait(t) ==
    /\ Runs(t) /\ pc[t] = "join" /\ waiting_lock = nobody
    /\ target[t] \in DOMAIN waiting_tasks
    /\ waiting_tasks' = [waiting_tasks EXCEPT ![target[t]] = Append(@, t)]
    /\ core' = [core EXCEPT ![Home[t]] = block_current_task(@)]
    /\ goto(t, "parked")
    /\ UNCHANGED <<due, tasks, no_tasks, locks, target, queue, parent, joined>>

join_reschedule(t) ==
    /\ core[Home[t]].current_task = t /\ pc[t] = "parked"
    /\ core' = [core EXCEPT ![Home[t]] = scheduler(@)]
    /\ goto(t, "join")
    /\ UNCHANGED <<due, tables, locks, target, queue, parent, joined>>

\* The caller of join goes on.
Continue(t) ==
    /\ Runs(t) /\ pc[t] = "joined"
    /\ goto(t, "run")
    /\ UNCHANGED <<core, due, tables, locks, target, queue, parent, joined>>

-----------------------------------------------------------------------------
\* exit finishes the task; from here on interrupts are disabled until it has woken who joined it.
exit(t) ==
    /\ Runs(t) /\ pc[t] = "run"
    /\ core' = [core EXCEPT ![Home[t]].status[t] = "Finished"]
    /\ no_tasks' = no_tasks - 1
    /\ goto(t, "exit")
    /\ UNCHANGED <<due, waiting_tasks, tasks, locks, target, queue, parent, joined>>

\* The guard of WAITING_TASKS lives as long as the if let that removes the queue of joiners.
exit_remove(t) ==
    /\ pc[t] = "exit" /\ waiting_lock = nobody
    /\ queue' = [queue EXCEPT ![t] = Waiting(t)]
    /\ waiting_tasks' = [v \in DOMAIN waiting_tasks \ {t} |-> waiting_tasks[v]]
    /\ waiting_lock' = IF Waiting(t) = <<>> THEN nobody ELSE t
    /\ goto(t, IF Waiting(t) = <<>> THEN "reschedule" ELSE "wake")
    /\ UNCHANGED <<core, due, tasks, no_tasks, input_lock, target, parent, joined>>

\* Wakes one joiner; one on another core through the input of that core, which has a lock.
exit_wake(t) ==
    /\ pc[t] = "wake"
    /\ Home[Head(queue[t])] # Home[t] => input_lock[Home[Head(queue[t])]] = nobody
    /\ core' = custom_wakeup(core, Home[t], <<Head(queue[t])>>)
    /\ queue' = [queue EXCEPT ![t] = Tail(@)]
    /\ waiting_lock' = IF Len(queue[t]) = 1 THEN nobody ELSE waiting_lock
    /\ goto(t, IF Len(queue[t]) = 1 THEN "reschedule" ELSE "wake")
    /\ UNCHANGED <<due, tables, input_lock, target, parent, joined>>

\* The last reschedule, unless an interrupt has already switched away for good.
exit_reschedule(t) ==
    /\ core[Home[t]].current_task = t /\ pc[t] = "reschedule"
    /\ core' = [core EXCEPT ![Home[t]] = scheduler(@)]
    /\ goto(t, "gone")
    /\ UNCHANGED <<due, tables, locks, target, queue, parent, joined>>

-----------------------------------------------------------------------------
TaskStep(t) ==
    \/ \E u \in Tasks : spawn(t, u) \/ join(t, u)
    \/ spawn_insert(t)
    \/ join_return(t) \/ join_wait(t) \/ join_reschedule(t) \/ Continue(t)
    \/ exit(t) \/ exit_remove(t) \/ exit_wake(t) \/ exit_reschedule(t)

\* The current task of c has disabled interrupts.
InterruptsDisabled(c) == core[c].current_task # idle /\ pc[core[c].current_task] \in {"spawn", "exit", "wake"}

Interrupt(c) ==
    /\ ~InterruptsDisabled(c)
    /\ timer_handler(c) \/ (input_lock[c] = nobody /\ wakeup_handler(c))
    /\ UNCHANGED lvars

Idle(c) == input_lock[c] = nobody /\ run(c) /\ UNCHANGED lvars

Next ==
    /\ ~Panicked
    /\ (\E t \in Tasks : TaskStep(t)) \/ (\E c \in Cores : Interrupt(c) \/ Idle(c))

Spec == Init /\ [][Next]_vars

\* A core keeps executing its current task or its idle loop, and tasks exit in the end.
Executes(c) == ~Panicked /\ (Idle(c) \/ \E t \in TasksOf(c) : TaskStep(t))

FairSpec == Spec /\ \A c \in Cores : WF_vars(Executes(c))

-----------------------------------------------------------------------------
Ended == {"Finished", "Invalid", "Freed"}

\* NO_TASKS counts the tasks that have been spawned and have not finished, those still in the input
\* of their core included.
TaskCount == no_tasks = Cardinality({t \in tasks : StatusOf(t) \notin Ended})

\* A task that sleeps in join can be woken: its handle is queued for a task that has not finished,
\* held by its exit, or on its way to the task's core, once.
JoinerIsReachable ==
    \A t \in Tasks :
       t \in core[Home[t]].blocked_tasks =>
          LET s == Waiting(target[t]) \o queue[target[t]] \o core[Home[t]].wakeup_tasks
          IN  \E i \in DOMAIN s : \A j \in DOMAIN s : s[j] = t <=> j = i

\* When join returns, the task it was called for has finished.
JoinedIsOver == \A t \in Tasks : pc[t] = "joined" => StatusOf(target[t]) \in Ended

Joining(t) == pc[t] \in {"join", "parked"}

\* The task has been spawned and its memory is not freed.
Unfreed(t) == t \in tasks /\ StatusOf(t) # "Freed"

\* exit holds WAITING_TASKS and wakes the tasks that joined it.
Waking(t) == pc[t] = "wake"
==============================================================================

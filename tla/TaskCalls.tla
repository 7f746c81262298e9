------------------------------ MODULE TaskCalls ------------------------------
(***************************************************************************)
(* The task system calls of kernel/src/syscalls/tasks.rs on one core:      *)
(* blocking and waking by id through BLOCKED_TASKS, sleeping, yielding and *)
(* changing priorities; with the ready queue of scheduler/task/mod.rs as   *)
(* it is (a list for each priority and a bitmap of the lists in use) and   *)
(* the lazy switching of the FPU registers.                                *)
(*                                                                         *)
(* A task that has called sys_block_current_task still runs: it may wake   *)
(* others (as the unlock of a mutex does) and then yields.  Interrupts are *)
(* enabled between the entry in BLOCKED_TASKS and the blocking, and        *)
(* between the removal of the entry and the wake-up, so that the timer may *)
(* switch to another task there.                                           *)
(***************************************************************************)
EXTENDS Naturals, Sequences, FiniteSets, SequencesExt

CONSTANTS Tasks,        \* tasks of this core
          Remote,       \* a task of another core
          Prios,        \* priorities that tasks may have, 1 .. n
          MaxCalls      \* bound: system calls in all

VARIABLES queues,       \* ready_queue.queues
          prio_bitmap,  \* ready_queue.prio_bitmap, as a set of indices
          task,         \* task[t]: prio, status, due (its deadline), last_fpu_state, target
                        \* (whose handle it has removed); timed: it blocked with a timeout once
          handle_prio,  \* TASKS: the priority in the handle of each task
          current_task,
          blocked,      \* blocked_tasks.list, as a set
          waiting,      \* BLOCKED_TASKS, as a set of ids
          calls,
          fpu_owner, fpu, task_switched, \* owner, the registers, CR0.TS
          loaded,       \* loaded[t]: what t put into its FPU registers last
          panic

queue_vars == <<queues, prio_bitmap>>
fpu_vars == <<fpu_owner, fpu, task_switched, loaded>>
taskcalls_vars == <<queue_vars, task, handle_prio, current_task, blocked, waiting, calls, fpu_vars, panic>>

idle == "idle"
NORMAL_PRIO == 2
\* Values of FPU registers: a task writes its own marks.
Clean == <<idle, 0>>

Init ==
  /\ queues = [p \in Prios |-> IF p = NORMAL_PRIO THEN SetToSeq(Tasks) ELSE <<>>]
  /\ prio_bitmap = {NORMAL_PRIO}
  /\ task = [t \in Tasks |-> [prio |-> NORMAL_PRIO, status |-> "Ready", due |-> "none",
                              last_fpu_state |-> Clean, pc |-> "run", target |-> "none", timed |-> FALSE]]
  /\ handle_prio = [t \in Tasks |-> NORMAL_PRIO]
  /\ current_task = idle /\ blocked = {} /\ waiting = {} /\ calls = 0
  /\ fpu_owner = idle /\ fpu = Clean /\ task_switched = FALSE
  /\ loaded = [t \in Tasks |-> Clean]
  /\ panic = "none"

-----------------------------------------------------------------------------
(* PriorityTaskQueue: operations on q = [queues, bitmap] *)

ReadyQueue == [queues |-> queues, bitmap |-> prio_bitmap]
SetReadyQueue(q) == queues' = q.queues /\ prio_bitmap' = q.bitmap

push(q, p, t) == [queues |-> [q.queues EXCEPT ![p] = Append(@, t)], bitmap |-> q.bitmap \cup {p}]

msb(bitmap) == CHOOSE i \in bitmap : \A j \in bitmap : j <= i

pop_from_queue(q, i) ==
  [queues |-> [q.queues EXCEPT ![i] = Tail(@)],
   bitmap |-> IF Len(q.queues[i]) = 1 THEN q.bitmap \ {i} ELSE q.bitmap]

\* Mutant of remove_from_queue: the bit of a list that becomes empty stays.
remove_from_queue_sticky(q, index, i) ==
  [queues |-> [q.queues EXCEPT ![i] = RemoveAt(@, index)], bitmap |-> q.bitmap]

remove_from_queue(q, index, i) ==
  [queues |-> [q.queues EXCEPT ![i] = RemoveAt(@, index)],
   bitmap |-> IF Len(q.queues[i]) = 1 THEN q.bitmap \ {i} ELSE q.bitmap]

-----------------------------------------------------------------------------
(* PerCoreScheduler::scheduler and reschedule.  ts, q: the tasks and the   *)
(* ready queue that the caller leaves.                                     *)
(*                                                                         *)
(* reschedule does not set CR0.TS on the way to the idle task or to the    *)
(* owner of the FPU; nothing but the exception clears it.                  *)

switch_to_task(new) == task_switched' = (task_switched \/ (new # idle /\ new # fpu_owner))

reschedule(ts, q) ==
  LET old == current_task
      status == IF old = idle THEN "Idle" ELSE ts[old].status
      pops == /\ q.bitmap # {}
              /\ status = "Running" => msb(q.bitmap) >= ts[old].prio
      i == msb(q.bitmap)
      new == IF pops THEN Head(q.queues[i])
             ELSE IF status \in {"Running", "Idle"} THEN old ELSE idle
      rest == IF pops THEN pop_from_queue(q, i) ELSE q
      again == pops /\ status = "Running"
  IN /\ SetReadyQueue(IF again THEN push(rest, ts[old].prio, old) ELSE rest)
     /\ current_task' = new
     /\ task' = [t \in Tasks |->
                   CASE t = new -> [ts[t] EXCEPT !.status = "Running"]
                     [] t = old /\ t # new /\ again -> [ts[t] EXCEPT !.status = "Ready"]
                     [] OTHER -> ts[t]]
     /\ IF new = old THEN UNCHANGED task_switched ELSE switch_to_task(new)

\* BlockedTaskQueue::mark_ready and the push of its caller, for the tasks of a sequence.
Awake(ts, seq) == [t \in Tasks |-> IF t \in Range(seq) THEN [ts[t] EXCEPT !.status = "Ready", !.due = "none"] ELSE ts[t]]
PushAll(ts, q, seq) == FoldLeft(LAMBDA acc, t : push(acc, ts[t].prio, t), q, seq)

-----------------------------------------------------------------------------
(* The system calls of the current task *)

Alive == panic = "none"
Calls(t) == /\ Alive /\ calls < MaxCalls /\ calls' = calls + 1
            /\ current_task = t /\ task[t].pc \in {"run", "yield"} /\ task[t].target = "none"
Panics(why) ==
  /\ panic' = why
  /\ UNCHANGED <<queue_vars, task, handle_prio, current_task, blocked, waiting, fpu_vars>>

\* sys_block_current_task, sys_block_current_task_with_timeout: the task is entered in BLOCKED_TASKS.
sys_block_current_task(t, timed) ==
  /\ Calls(t) /\ task[t].pc = "run"
  /\ waiting' = waiting \cup {t}
  /\ task' = [task EXCEPT ![t].pc = IF timed THEN "publish_timed" ELSE "publish", ![t].timed = @ \/ timed]
  /\ UNCHANGED <<queue_vars, handle_prio, current_task, blocked, fpu_vars, panic>>

\* Then its scheduler blocks it.
block_current_task(t) ==
  /\ Alive /\ current_task = t /\ task[t].pc \in {"publish", "publish_timed"}
  /\ blocked' = blocked \cup {t}
  /\ task' = [task EXCEPT ![t].status = "Blocked", ![t].pc = "yield",
                          ![t].due = IF task[t].pc = "publish_timed" THEN "before" ELSE "none"]
  /\ UNCHANGED <<queue_vars, handle_prio, current_task, waiting, calls, fpu_vars, panic>>

\* sys_wakeup_task takes the handle out of BLOCKED_TASKS, if it is there.
sys_wakeup_task(t, id) ==
  /\ Calls(t)
  /\ waiting' = waiting \ {id}
  /\ task' = IF id \in waiting THEN [task EXCEPT ![t].target = id] ELSE task
  /\ UNCHANGED <<queue_vars, handle_prio, current_task, blocked, fpu_vars, panic>>

\* Its custom_wakeup ends in unreachable!() for a task that is not blocked.
wakeup_task(t) ==
  LET id == task[t].target
  IN /\ Alive /\ current_task = t /\ id # "none"
     /\ IF id \notin blocked THEN Panics("wakeup")
        ELSE /\ blocked' = blocked \ {id}
             /\ task' = [Awake(task, <<id>>) EXCEPT ![t].target = "none"]
             /\ SetReadyQueue(push(ReadyQueue, task[id].prio, id))
             /\ UNCHANGED <<handle_prio, current_task, waiting, fpu_vars, panic>>
     /\ UNCHANGED calls

\* sys_yield, and a round of usleep's busy waiting for less than ten milliseconds.
sys_yield(t) ==
  /\ Calls(t)
  /\ reschedule([task EXCEPT ![t].pc = "run"], ReadyQueue)
  /\ UNCHANGED <<handle_prio, blocked, waiting, fpu_owner, fpu, loaded, panic>>

\* usleep of ten milliseconds or more, up to its reschedule.
usleep(t) ==
  /\ Calls(t) /\ task[t].pc = "run"
  /\ blocked' = blocked \cup {t}
  /\ task' = [task EXCEPT ![t].status = "Blocked", ![t].pc = "yield", ![t].due = "before"]
  /\ UNCHANGED <<queue_vars, handle_prio, current_task, waiting, fpu_vars, panic>>

sys_set_current_task_priority(t, prio) ==
  /\ Calls(t) /\ task[t].pc = "run"
  /\ task' = [task EXCEPT ![t].prio = prio]
  /\ UNCHANGED <<queue_vars, handle_prio, current_task, blocked, waiting, fpu_vars, panic>>

\* sys_set_priority: nothing happens to a task of another core; a task that is not in the list
\* its handle names panics the kernel.
sys_set_priority(t, id, prio) ==
  /\ Calls(t) /\ task[t].pc = "run"
  /\ IF id = Remote
       THEN UNCHANGED <<queue_vars, task, handle_prio, current_task, blocked, waiting, fpu_vars, panic>>
     ELSE IF id = t
       THEN /\ task' = [task EXCEPT ![t].prio = prio]
            /\ UNCHANGED <<queue_vars, handle_prio, current_task, blocked, waiting, fpu_vars, panic>>
     ELSE LET old == handle_prio[id]
              index == {i \in DOMAIN queues[old] : queues[old][i] = id}
          IN IF index = {} THEN Panics("priority")
             ELSE /\ task' = [task EXCEPT ![id].prio = prio]
                  /\ \E i \in index : SetReadyQueue(push(remove_from_queue(ReadyQueue, i, old), prio, id))
                  /\ UNCHANGED <<handle_prio, current_task, blocked, waiting, fpu_vars, panic>>

-----------------------------------------------------------------------------
(* Interrupts and the idle loop *)

timer_handler ==
  /\ Alive
  /\ \E woken \in SetToSeqs({t \in blocked : task[t].due = "past"}) :
       LET ts == Awake(task, woken)
       IN /\ blocked' = blocked \ Range(woken)
          /\ reschedule(ts, PushAll(ts, ReadyQueue, woken))
  /\ UNCHANGED <<handle_prio, waiting, calls, fpu_owner, fpu, loaded, panic>>

\* External: the clock passes a deadline.
Tick(t) ==
  /\ Alive /\ task[t].due = "before"
  /\ task' = [task EXCEPT ![t].due = "past"]
  /\ UNCHANGED <<queue_vars, handle_prio, current_task, blocked, waiting, calls, fpu_vars, panic>>

run ==
  /\ Alive /\ current_task = idle /\ prio_bitmap # {}
  /\ reschedule(task, ReadyQueue)
  /\ UNCHANGED <<handle_prio, blocked, waiting, calls, fpu_owner, fpu, loaded, panic>>

-----------------------------------------------------------------------------
(* The FPU *)

\* fpu_switch: the owner's registers are saved and those of the current task restored.
fpu_switch(ts, t) ==
  IF t = fpu_owner THEN [ts |-> ts, fpu |-> fpu]
  ELSE [ts |-> IF fpu_owner = idle THEN ts ELSE [ts EXCEPT ![fpu_owner].last_fpu_state = fpu],
        fpu |-> ts[t].last_fpu_state]

\* The current task uses the FPU: device_not_available_exception first, if CR0.TS is set.
device_not_available_exception(t) ==
  /\ Alive /\ current_task = t /\ task[t].pc = "run" /\ task_switched
  /\ LET s == fpu_switch(task, t) IN task' = s.ts /\ fpu' = s.fpu
  /\ fpu_owner' = t /\ task_switched' = FALSE
  /\ UNCHANGED <<queue_vars, handle_prio, current_task, blocked, waiting, calls, loaded, panic>>

use_fpu(t) ==
  /\ Calls(t) /\ task[t].pc = "run" /\ ~task_switched
  /\ loaded' = [loaded EXCEPT ![t] = <<t, (@[2] + 1) % 2>>]
  /\ fpu' = loaded'[t]
  /\ UNCHANGED <<queue_vars, task, handle_prio, current_task, blocked, waiting, fpu_owner, task_switched, panic>>

Next ==
  \/ \E t \in Tasks :
       \/ \E timed \in BOOLEAN : sys_block_current_task(t, timed)
       \/ block_current_task(t) \/ wakeup_task(t)
       \/ \E id \in Tasks \cup {Remote} : sys_wakeup_task(t, id)
       \/ sys_yield(t) \/ usleep(t)
       \/ \E prio \in Prios : sys_set_current_task_priority(t, prio)
       \/ \E id \in Tasks \cup {Remote}, prio \in Prios : sys_set_priority(t, id, prio)
       \/ Tick(t) \/ device_not_available_exception(t) \/ use_fpu(t)
  \/ timer_handler \/ run

Spec == Init /\ [][Next]_taskcalls_vars

-----------------------------------------------------------------------------
TypeOK ==
  /\ queues \in [Prios -> Seq(Tasks)] /\ prio_bitmap \subseteq Prios
  /\ \A t \in Tasks : /\ task[t].prio \in Prios /\ handle_prio[t] \in Prios
                      /\ task[t].status \in {"Ready", "Running", "Blocked"}
                      /\ task[t].due \in {"none", "before", "past"}
                      /\ task[t].pc \in {"run", "publish", "publish_timed", "yield"}
                      /\ task[t].target \in Tasks \cup {"none"} /\ task[t].timed \in BOOLEAN
  /\ current_task \in Tasks \cup {idle} /\ blocked \subseteq Tasks /\ waiting \subseteq Tasks
  /\ fpu_owner \in Tasks \cup {idle} /\ task_switched \in BOOLEAN
  /\ panic \in {"none", "wakeup", "priority"}

\* Whatever order tasks block, wake, sleep and change priorities in, the bitmap names the lists in
\* use (pop takes the head of the list it names), and every ready task is in the list of its
\* priority, once: none is lost or runs at a priority it no longer has.
ReadyQueueIsExact ==
  /\ prio_bitmap = {p \in Prios : queues[p] # <<>>}
  /\ \A t \in Tasks :
       Cardinality({<<p, i>> \in Prios \X (1 .. Cardinality(Tasks)) : i \in DOMAIN queues[p] /\ queues[p][i] = t})
         = IF task[t].status = "Ready" THEN 1 ELSE 0
  /\ \A p \in Prios : \A i \in DOMAIN queues[p] : task[queues[p][i]].prio = p

\* A handle that waits in BLOCKED_TASKS, or that a waker has taken out of it, is of a blocked task,
\* with two exceptions, in both of which the wake-up panics: a task that entered itself and is not
\* blocked yet (block_current_task), and one that has blocked with a timeout, whose deadline leaves
\* the entry behind.  Otherwise a task can always be woken by its id.
HandleIsOfBlocked ==
  \A id \in Tasks :
    (id \in waiting \/ \E t \in Tasks : task[t].target = id) =>
      id \in blocked \/ task[id].pc = "publish" \/ task[id].timed

\* A task that uses the FPU without an exception finds in the registers what it left in them,
\* however often other tasks used them meanwhile (fpu_switch and CR0.TS).
RegistersAreOwn ==
  \A t \in Tasks : current_task = t /\ ~task_switched => fpu = loaded[t]
==============================================================================

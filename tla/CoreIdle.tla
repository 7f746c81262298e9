------------------------------ MODULE CoreIdle -------------------------------
(***************************************************************************)
(* What a core does when no task runs: the idle loop, and the queue of     *)
(* sleepers with its timer.                                                *)
(***************************************************************************)
EXTENDS Integers, Sequences, SequencesExt

-----------------------------------------------------------------------------
(***************************************************************************)
(* How a core that has nothing to do goes to sleep and how another core    *)
(* wakes it: the idle loop PerCoreScheduler::run and enable_and_wait on    *)
(* one side, custom_wakeup or spawn and wakeup_core on the other.  The     *)
(* tasks themselves are Scheduler's; here a core only has an amount of     *)
(* work and a SchedulerInput with messages (handles to wake, new tasks).   *)
(*                                                                         *)
(* mode says how the build and the processor wait: "hlt", "mwait" (used    *)
(* where the processor has it) or "poll" (the feature idle-poll).          *)
(***************************************************************************)
CONSTANTS Cores,
          MaxSends      \* messages sent in all

MaxSendsAssumption == MaxSends \in Nat

VARIABLES mode,         \* how cores wait; it does not change
          timer_armed,  \* whether the one-shot timers keep firing; it does not change
          phase,        \* where the core is: in a task, or where in its idle loop
          work,         \* tasks in its ready queue, the current one included
          input,        \* messages in its scheduler_input
          hlt,          \* its CORE_HLT_STATE
          ipi,          \* a wake-up interrupt is pending
          sending,      \* the core to which its current task sends, between push and wakeup_core
          sends         \* messages sent so far

idle_vars == <<mode, timer_armed, phase, work, input, hlt, ipi, sending, sends>>

nobody == "nobody"

IdleTypeOK ==
    /\ mode \in {"hlt", "mwait", "poll"}
    /\ timer_armed \in BOOLEAN
    /\ phase \in [Cores -> {"task", "loop", "waiting", "flagged", "asleep"}]
    /\ work \in [Cores -> 0 .. MaxSends + 1]
    /\ input \in [Cores -> 0 .. MaxSends]
    /\ hlt \in [Cores -> BOOLEAN]
    /\ ipi \in [Cores -> BOOLEAN]
    /\ sending \in [Cores -> Cores \cup {nobody}]
    /\ sends \in 0 .. MaxSends

\* The boot core runs a task, the others are at the top of their idle loops.
IdleInit ==
    /\ mode \in {"hlt", "mwait", "poll"}
    /\ timer_armed \in BOOLEAN
    /\ \E c \in Cores : /\ phase = [d \in Cores |-> IF d = c THEN "task" ELSE "loop"]
                        /\ work = [d \in Cores |-> IF d = c THEN 1 ELSE 0]
    /\ input = [c \in Cores |-> 0]
    /\ hlt = [c \in Cores |-> FALSE]
    /\ ipi = [c \in Cores |-> FALSE]
    /\ sending = [c \in Cores |-> nobody]
    /\ sends = 0

-----------------------------------------------------------------------------
\* check_input: everything in the input becomes ready, under the lock of the input.
check_input(c) ==
    /\ work' = [work EXCEPT ![c] = @ + input[c]]
    /\ input' = [input EXCEPT ![c] = 0]

\* A task sends to another core: the message is pushed first ...
push(c, d) ==
    /\ phase[c] = "task" /\ sending[c] = nobody /\ d # c /\ sends < MaxSends
    /\ input' = [input EXCEPT ![d] = @ + 1]
    /\ sending' = [sending EXCEPT ![c] = d]
    /\ sends' = sends + 1
    /\ UNCHANGED <<phase, work, hlt, ipi>>

\* ... and then wakeup_core takes the flag of the target and interrupts it if it was set.
wakeup_core(c) ==
    LET d == sending[c]
    IN  /\ sending[c] # nobody
        /\ IF mode = "hlt" /\ hlt[d]
             THEN hlt' = [hlt EXCEPT ![d] = FALSE] /\ ipi' = [ipi EXCEPT ![d] = TRUE]
             ELSE UNCHANGED <<hlt, ipi>>
        /\ sending' = [sending EXCEPT ![c] = nobody]
        /\ UNCHANGED <<phase, work, input, sends>>

\* A task blocks or exits; reschedule goes on with the next one or with the idle loop.
TaskEnds(c) ==
    /\ phase[c] = "task" /\ sending[c] = nobody
    /\ work' = [work EXCEPT ![c] = @ - 1]
    /\ phase' = [phase EXCEPT ![c] = IF work[c] = 1 THEN "loop" ELSE "task"]
    /\ UNCHANGED <<input, hlt, ipi, sending, sends>>

\* Mutant of run: the input is not looked at.
run_without_input(c) ==
    /\ phase[c] = "loop"
    /\ phase' = [phase EXCEPT ![c] = IF work[c] > 0 THEN "task" ELSE "waiting"]
    /\ UNCHANGED <<work, input, hlt, ipi, sending, sends>>

\* One round of the idle loop, with interrupts disabled: it goes on with a task or, when the
\* back-off is complete, to enable_and_wait.
run(c) ==
    /\ phase[c] = "loop"
    /\ check_input(c)
    /\ phase' = [phase EXCEPT ![c] = IF work[c] + input[c] > 0 THEN "task" ELSE "waiting"]
    /\ UNCHANGED <<hlt, ipi, sending, sends>>

\* enable_and_wait: with hlt the flag is set first; mwait watches the core's own ready queue, which
\* no other core writes; idle-poll only pauses.
enable_and_wait(c) ==
    /\ phase[c] = "waiting"
    /\ hlt' = [hlt EXCEPT ![c] = IF mode = "hlt" THEN TRUE ELSE @]
    /\ phase' = [phase EXCEPT ![c] = CASE mode = "hlt" -> "flagged"
                                       [] mode = "mwait" -> "asleep"
                                       [] mode = "poll" -> "loop"]
    /\ UNCHANGED <<work, input, ipi, sending, sends>>

\* sti; hlt: an interrupt that is already pending is taken at once (by wakeup_handler).
enable_and_hlt(c) ==
    /\ phase[c] = "flagged"
    /\ phase' = [phase EXCEPT ![c] = "asleep"]
    /\ UNCHANGED <<work, input, hlt, ipi, sending, sends>>

\* The wake-up interrupt is taken wherever interrupts are enabled.
wakeup_handler(c) ==
    /\ ipi[c] /\ phase[c] \in {"task", "loop", "asleep"}
    /\ ipi' = [ipi EXCEPT ![c] = FALSE]
    /\ check_input(c)
    /\ phase' = [phase EXCEPT ![c] = IF @ = "task" \/ input[c] > 0 THEN "task" ELSE "loop"]
    /\ UNCHANGED <<hlt, sending, sends>>

\* The timer interrupt does not look at the input; it ends the sleep.
timer_handler(c) ==
    /\ timer_armed /\ phase[c] = "asleep"
    /\ phase' = [phase EXCEPT ![c] = "loop"]
    /\ UNCHANGED <<work, input, hlt, ipi, sending, sends>>

CoreStep(c) ==
    \/ \E d \in Cores : push(c, d)
    \/ wakeup_core(c) \/ TaskEnds(c) \/ run(c) \/ enable_and_wait(c) \/ enable_and_hlt(c)

Fixed == UNCHANGED <<mode, timer_armed>>

IdleNext ==
    /\ \E c \in Cores : CoreStep(c) \/ wakeup_handler(c) \/ timer_handler(c)
    /\ Fixed

IdleSpec == IdleInit /\ [][IdleNext]_idle_vars

\* A core that is awake executes, and interrupts that are raised are delivered.
Executes(c) == CoreStep(c) /\ phase[c] # "task" /\ Fixed
Interrupted(c) == wakeup_handler(c) /\ Fixed
TimerFires(c) == timer_handler(c) /\ Fixed
Sends(c) == wakeup_core(c) /\ Fixed
Finishes(c) == TaskEnds(c) /\ Fixed

-----------------------------------------------------------------------------
\* A halted core can still be reached: its flag is set, so that the next wakeup_core interrupts it,
\* or it has been interrupted.  A wake-up lost in the window before the flag is set is made good by
\* the next one.
HaltedIsReachable == \A c \in Cores : mode = "hlt" /\ phase[c] = "asleep" => hlt[c] \/ ipi[c]

\* The core has input, and polls or has a timer.
HasInput(c) == (mode = "poll" \/ timer_armed) /\ input[c] > 0

-----------------------------------------------------------------------------
(***************************************************************************)
(* The BlockedTaskQueue of one core (kernel/src/scheduler/task/mod.rs) and *)
(* the one-shot timer it programs, in a build with the feature "net".      *)
(*                                                                         *)
(* A time is what is left until it, so that the clock has no end: when     *)
(* time passes all of them come nearer, 0 is now and Passed is every time  *)
(* before now, which the code does not tell apart.  Never stands for       *)
(* wakeup_time = None and for a timer that is off: with it the case        *)
(* distinctions on Option<u64> are comparisons.                            *)
(***************************************************************************)
CONSTANTS Tasks,
          Never         \* later than every deadline; what is left until a time is less

NeverAssumption == Never \in Nat \ {0}

VARIABLES list,                 \* BlockedTask nodes: [task, wakeup_time]
          network_wakeup_time,
          timer                 \* when the one-shot timer of the core fires

timed_vars == <<list, network_wakeup_time, timer>>

Passed == -1
Times == Passed .. Never - 1
Options == Times \cup {Never}

Min2(a, b) == IF a < b THEN a ELSE b

Blocked == {list[i].task : i \in DOMAIN list}

front(l) == IF l = <<>> THEN Never ELSE Head(l).wakeup_time

TimedTypeOK ==
    /\ list \in Seq([task : Tasks, wakeup_time : Options])
    /\ network_wakeup_time \in Options
    /\ timer \in Options

TimedInit ==
    /\ list = <<>>
    /\ network_wakeup_time = Never
    /\ timer = Never

-----------------------------------------------------------------------------
\* The new node goes before the first one with a later deadline, else to the end.
insert(l, node) ==
    LET later == {i \in DOMAIN l : node.wakeup_time < l[i].wakeup_time}
        at    == IF later = {} THEN Len(l) + 1 ELSE CHOOSE i \in later : \A j \in later : i <= j
    IN  InsertAt(l, at, node)

\* A running task blocks.  With a deadline, the timer is set for it or for the network, whichever
\* is earlier, wherever in the list the node goes: an earlier deadline of another task is overwritten.
add(t, wakeup_time) ==
    /\ t \notin Blocked
    /\ list' = insert(list, [task |-> t, wakeup_time |-> wakeup_time])
    /\ timer' = IF wakeup_time = Never THEN timer ELSE Min2(wakeup_time, network_wakeup_time)
    /\ UNCHANGED network_wakeup_time

\* A blocked task is woken by hand; only when it was the first is the timer set anew.
custom_wakeup(t) ==
    \E i \in DOMAIN list :
       /\ list[i].task = t
       /\ list' = RemoveAt(list, i)
       /\ network_wakeup_time' = IF network_wakeup_time <= 0 THEN Never ELSE network_wakeup_time
       /\ timer' = IF i = 1 THEN Min2(front(list'), network_wakeup_time') ELSE timer

\* The timer interrupt.  The network stack is polled if its lock is free and names its next time.
handle_waiting_tasks ==
    /\ timer <= 0
    /\ list' = SelectSeq(list, LAMBDA node : node.wakeup_time >= 0)
    /\ network_wakeup_time' \in {network_wakeup_time} \cup 0 .. Never
    /\ timer' = Min2(front(list'), network_wakeup_time')

add_network_timer(wakeup_time) ==
    /\ network_wakeup_time' = wakeup_time
    /\ timer' = Min2(wakeup_time, front(list))
    /\ UNCHANGED list

\* What is left until a time when one unit of time has passed.
Nearer(w) == IF w \in {Never, Passed} THEN w ELSE w - 1

Tick ==
    /\ list' = [i \in DOMAIN list |-> [list[i] EXCEPT !.wakeup_time = Nearer(@)]]
    /\ network_wakeup_time' = Nearer(network_wakeup_time)
    /\ timer' = Nearer(timer)

TimedNext ==
    \/ \E t \in Tasks : custom_wakeup(t) \/ \E w \in Options : add(t, w)
    \/ \E w \in Options : add_network_timer(w)
    \/ handle_waiting_tasks
    \/ Tick

TimedSpec == TimedInit /\ [][TimedNext]_timed_vars

-----------------------------------------------------------------------------
\* While some task has a deadline the timer is armed, whatever was woken, re-blocked or polled since
\* the deadline was set: no sleeper depends on somebody else's interrupt.
DeadlineIsArmed == front(list) # Never => timer # Never

\* A step of the timer interrupt wakes no task before its deadline.
NoEarlyWake ==
    handle_waiting_tasks
      => \A i \in DOMAIN list : list[i] \in Range(list') \/ list[i].wakeup_time = Passed

\* The task sleeps with a deadline.
Sleeping(t) == \E i \in DOMAIN list : list[i].task = t /\ list[i].wakeup_time # Never

\* Another task goes to sleep and sets the timer to a later time than the first deadline of the list.
\* Nothing in the code sets it back: one such call after another keeps the first sleeper asleep.
Postpones == \E t \in Tasks, w \in Options : add(t, w) /\ timer' > front(list)
=============================================================================

--------------------------- MODULE TaskLifeProofs ----------------------------
(***************************************************************************)
(* Safety of spawn, join and exit for any number of cores, tasks and       *)
(* priorities: the kernel does not panic, NO_TASKS counts the tasks alive, *)
(* a task that sleeps in join can be woken, once, and join returns only    *)
(* when its task has finished.                                             *)
(***************************************************************************)
EXTENDS TaskLife, SchedulerProofs

\* In the schedulers cs, the task has ended, or is not spawned yet.
Dead(cs, t) == Over(cs[Home[t]], t)
Unspawned(cs, t) == Unborn(cs[Home[t]], t)

Labels == {"run", "spawn", "join", "parked", "joined", "exit", "wake", "reschedule", "gone"}
Exiting == {"exit", "wake", "reschedule", "gone"}

\* A task that is not in TASKS has not been handed to its core; until then its parent, if it has one,
\* is in spawn.
LifeOf(t) ==
    /\ t \notin tasks => Unspawned(core, t) /\ pc[t] = "run"
    /\ t # Root /\ parent[t] = nobody => t \notin tasks
    /\ t \notin tasks /\ parent[t] # nobody => pc[parent[t]] = "spawn" /\ target[parent[t]] = t
    /\ pc[t] = "spawn" => target[t] \in Tasks \ tasks /\ parent[target[t]] = t
    /\ pc[t] \in {"join", "parked", "joined"} => target[t] \in tasks
    /\ pc[t] = "joined" => target[t] \notin DOMAIN waiting_tasks
    /\ Dead(core, t) <=> pc[t] \in Exiting

\* A task is in WAITING_TASKS from its spawn until its exit takes it out.
Lives ==
    /\ tasks \subseteq Tasks
    /\ pc \in [Tasks -> Labels]
    /\ target \in [Tasks -> Tasks \cup {nobody}]
    /\ parent \in [Tasks -> Tasks \cup {nobody}]
    /\ DOMAIN waiting_tasks = {t \in tasks : pc[t] \notin {"wake", "reschedule", "gone"}}
    /\ \A t \in Tasks : LifeOf(t)

\* The handles that join t or that its exit has still to wake.
Held(t) == Range(Waiting(t)) \cup Range(queue[t])
Holders == [t \in Tasks |-> Held(t)]

\* Nobody is queued twice, and only the exit of a task that somebody joined wakes.
Queues ==
    /\ queue \in [Tasks -> Seq(Tasks)]
    /\ \A t \in Tasks : /\ Waiting(t) \in Seq(Tasks) /\ IsInjective(Waiting(t)) /\ IsInjective(queue[t])
                        /\ queue[t] # <<>> <=> pc[t] = "wake"

\* All handles that H holds.
HandlesIn(H) == {t \in Tasks : \E u \in Tasks : t \in H[u]}

\* With the schedulers cs, the tasks at pcs in calls about tg: the holder of a handle is the task that
\* its task joins, and a sleeper is held by it or called.
Linked(cs, pcs, tg, H) ==
    \A t \in Tasks :
       /\ \A u \in Tasks : t \in H[u] => tg[t] = u /\ pcs[t] \in {"join", "parked"}
       /\ Sleeps(cs, t) => /\ pcs[t] \in {"join", "parked"}
                           /\ t \in HandlesIn(H) \/ Called(cs, t)

Sleepers ==
    /\ AllSound /\ Calm(core) /\ due = [t \in Tasks |-> "none"]
    /\ Slumber(core, HandlesIn(Holders))
    /\ Linked(core, pc, target, Holders)

LifeInv == Lives /\ Queues /\ Sleepers /\ TaskCount
-----------------------------------------------------------------------------
(***************************************************************************)
(* The steps of the schedulers, and who lives.                             *)
(***************************************************************************)
\* A task is handed to its core: to the ready queue by a task of the core, otherwise to the input.
LEMMA SpawnKeeps ==
  ASSUME NEW c \in Cores, NEW x, Sound(x, c), NEW u \in TasksOf(c), Unborn(x, u), NEW y,
         \/ y = [x EXCEPT !.status[u] = "Ready", !.ready_queue = push(x.ready_queue, u)]
         \/ y = [x EXCEPT !.new_tasks = Append(x.new_tasks, u)]
  PROVE  /\ Sound(y, c)
         /\ y.blocked_tasks = x.blocked_tasks /\ y.wakeup_tasks = x.wakeup_tasks /\ y.panicked = x.panicked
         /\ \A v \in TasksOf(c) : /\ Over(y, v) <=> Over(x, v)
                                  /\ Unborn(x, v) /\ v # u => Unborn(y, v)
  <1> USE SMTT(30)
  <1>1. /\ x \in PerCoreScheduler(c) /\ Placed(x) /\ x.status[u] = "New" /\ u \notin Range(x.new_tasks)
        /\ x.status \in [TasksOf(c) -> Status] /\ x.ready_queue \in Seq(TasksOf(c))
        /\ x.new_tasks \in Seq(TasksOf(c))
    BY DEF Sound, Unborn, PerCoreScheduler
  <1>2. u \notin Range(x.ready_queue) /\ x.current_task # u
    BY <1>1 DEF Placed, WithStatus
  <1>3. CASE y = [x EXCEPT !.status[u] = "Ready", !.ready_queue = push(x.ready_queue, u)]
    <2> DEFINE st == [x.status EXCEPT ![u] = "Ready"]
    <2> DEFINE q == push(x.ready_queue, u)
    <2>1. /\ q \in Seq(TasksOf(c)) /\ Range(q) = Range(x.ready_queue) \cup {u} /\ IsInjective(q)
      <3>1. TasksOf(c) \in SUBSET Tasks /\ IsInjective(x.ready_queue)
        BY <1>1 DEF TasksOf, Placed
      <3> QED
        BY <1>1, <1>2, <3>1, PushIs
    <2>2. y = [x EXCEPT !.status = st, !.ready_queue = q] /\ st \in [TasksOf(c) -> Status]
      BY <1>1, <1>3 DEF Status
    <2>3. \A v \in TasksOf(c) : st[v] = IF v = u THEN "Ready" ELSE x.status[v]
      BY <1>1
    <2> HIDE DEF st, q
    <2>4. y \in PerCoreScheduler(c)
      BY <1>1, <2>1, <2>2, Zenon DEF PerCoreScheduler
    <2>5. /\ y.blocked_tasks = x.blocked_tasks /\ y.status = st /\ y.ready_queue = q
          /\ y.current_task = x.current_task /\ y.wakeup_tasks = x.wakeup_tasks
          /\ y.new_tasks = x.new_tasks /\ y.finished_tasks = x.finished_tasks /\ y.panicked = x.panicked
      BY <1>1, <2>2 DEF PerCoreScheduler
    <2>6. Placed(y)
      BY <1>1, <1>2, <2>1, <2>2, <2>3, <2>5 DEF Placed, WithStatus
    <2>7. \A v \in TasksOf(c) : (Over(y, v) <=> Over(x, v)) /\ (Unborn(x, v) /\ v # u => Unborn(y, v))
      BY <1>1, <2>3, <2>5 DEF Over, Unborn
    <2> QED
      BY <2>4, <2>5, <2>6, <2>7 DEF Sound
  <1>4. CASE y = [x EXCEPT !.new_tasks = Append(x.new_tasks, u)]
    <2> DEFINE q == Append(x.new_tasks, u)
    <2>1. q \in Seq(TasksOf(c)) /\ Range(q) = Range(x.new_tasks) \cup {u} /\ IsInjective(q)
      <3>1. IsInjective(x.new_tasks)
        BY <1>1 DEF Placed
      <3>2. x.new_tasks \in Seq(Tasks) /\ u \in Tasks
        BY <1>1 DEF TasksOf
      <3>3. Range(q) = Range(x.new_tasks) \cup {u} /\ IsInjective(q)
        BY <1>1, <3>1, <3>2, AppendIs
      <3> QED
        BY <1>1, <3>3
    <2>2. y = [x EXCEPT !.new_tasks = q]
      BY <1>4
    <2> HIDE DEF q
    <2>3. y \in PerCoreScheduler(c)
      BY <1>1, <2>1, <2>2, Zenon DEF PerCoreScheduler
    <2>4. /\ y.blocked_tasks = x.blocked_tasks /\ y.status = x.status /\ y.ready_queue = x.ready_queue
          /\ y.current_task = x.current_task /\ y.wakeup_tasks = x.wakeup_tasks
          /\ y.new_tasks = q /\ y.finished_tasks = x.finished_tasks /\ y.panicked = x.panicked
      BY <1>1, <2>2 DEF PerCoreScheduler
    <2>5. Placed(y)
      BY <1>1, <2>1, <2>4 DEF Placed, WithStatus
    <2>6. \A v \in TasksOf(c) : (Over(y, v) <=> Over(x, v)) /\ (Unborn(x, v) /\ v # u => Unborn(y, v))
      BY <1>1, <2>1, <2>4 DEF Over, Unborn
    <2> QED
      BY <2>3, <2>4, <2>5, <2>6 DEF Sound
  <1> QED
    BY <1>3, <1>4

\* Who has ended stays so and nobody else ends; who is not spawned stays so.
SameDead(cs, ds) ==
    \A t \in Tasks : (Dead(ds, t) <=> Dead(cs, t)) /\ (Unspawned(cs, t) => Unspawned(ds, t))

LEMMA LivesOfTasks ==
  ASSUME NEW cs, NEW ds, \A d \in Cores : SameLives(cs[d], ds[d], d)
  PROVE  SameDead(cs, ds)
  <1>1. \A t \in Tasks : Home[t] \in Cores /\ t \in TasksOf(Home[t])
    BY HomeAssumption, SMT DEF TasksOf
  <1> QED
    BY <1>1, Zenon DEF SameDead, SameLives, Dead, Unspawned

\* One core takes a step that blocks and wakes nobody.
LEMMA OneCoreSteps ==
  ASSUME AllSound, NEW c \in Cores, NEW y, Sound(y, c), core' = [core EXCEPT ![c] = y],
         y.wakeup_tasks = core[c].wakeup_tasks, y.panicked = core[c].panicked,
         y.blocked_tasks = core[c].blocked_tasks
  PROVE  /\ AllSound' /\ SameSleepers(core, core')
         /\ core'[c] = y /\ \A d \in Cores \ {c} : core'[d] = core[d]
  <1>1. core' = [d \in Cores |-> core'[d]] /\ core'[c] = y /\ \A d \in Cores \ {c} : core'[d] = core[d]
    BY Zenon DEF AllSound
  <1>2. AllSound'
    BY <1>1, Zenon DEF AllSound
  <1> QED
    BY <1>1, <1>2, SMT DEF SameSleepers

\* The new task of spawn.
LEMMA SpawnStep ==
  ASSUME AllSound, NEW t \in Tasks, NEW u \in Tasks, Unspawned(core, u),
         core' = [core EXCEPT ![Home[u]] = hand_over(core[Home[u]], u, Home[u] = Home[t])]
  PROVE  /\ AllSound' /\ SameSleepers(core, core')
         /\ \A v \in Tasks : /\ Dead(core', v) <=> Dead(core, v)
                             /\ Unspawned(core, v) /\ v # u => Unspawned(core', v)
  <1> USE SMTT(30)
  <1> DEFINE c == Home[u]
  <1> DEFINE x == core[c]
  <1> DEFINE y == hand_over(x, u, c = Home[t])
  <1>1. c \in Cores /\ Sound(x, c) /\ u \in TasksOf(c) /\ Unborn(x, u)
    BY HomeAssumption DEF AllSound, TasksOf, Unspawned
  <1>2. core' = [core EXCEPT ![c] = y]
    OBVIOUS
  <1>3. \/ y = [x EXCEPT !.status[u] = "Ready", !.ready_queue = push(x.ready_queue, u)]
        \/ y = [x EXCEPT !.new_tasks = Append(x.new_tasks, u)]
    BY Zenon DEF hand_over
  <1> HIDE DEF y, x, c
  <1>4. /\ Sound(y, c)
        /\ y.blocked_tasks = x.blocked_tasks /\ y.wakeup_tasks = x.wakeup_tasks /\ y.panicked = x.panicked
        /\ \A v \in TasksOf(c) : /\ Over(y, v) <=> Over(x, v)
                                 /\ Unborn(x, v) /\ v # u => Unborn(y, v)
    BY <1>1, <1>3, SpawnKeeps, Zenon
  <1>5. /\ AllSound' /\ SameSleepers(core, core')
        /\ core'[c] = y /\ \A d \in Cores \ {c} : core'[d] = core[d]
    BY <1>1, <1>2, <1>4, OneCoreSteps, Zenon DEF x
  <1>6. ASSUME NEW v \in Tasks
        PROVE  /\ Dead(core', v) <=> Dead(core, v)
               /\ Unspawned(core, v) /\ v # u => Unspawned(core', v)
    <2>1. CASE Home[v] = c
      BY <1>4, <1>5, <2>1, Zenon DEF Dead, Unspawned, TasksOf, x
    <2>2. CASE Home[v] # c
      BY <1>5, <2>2, HomeAssumption DEF Dead, Unspawned
    <2> QED
      BY <2>1, <2>2
  <1> QED
    BY <1>5, <1>6, Zenon

\* The running task ends.
LEMMA FinishStep ==
  ASSUME AllSound, NEW t \in Tasks, Runs(t),
         core' = [core EXCEPT ![Home[t]] = [core[Home[t]] EXCEPT !.status[t] = "Finished"]]
  PROVE  /\ AllSound' /\ SameSleepers(core, core')
         /\ \A v \in Tasks : /\ Dead(core', v) <=> Dead(core, v) \/ v = t
                             /\ Unspawned(core, v) => Unspawned(core', v)
  <1> USE SMTT(30)
  <1> DEFINE c == Home[t]
  <1> DEFINE x == core[c]
  <1> DEFINE y == [x EXCEPT !.status[t] = "Finished"]
  <1>0. t # idle
    BY TasksAssumption, Zenon DEF idle
  <1>1. c \in Cores /\ Sound(x, c) /\ x.current_task = t /\ t # idle
    BY <1>0, HomeAssumption, Zenon DEF AllSound, Runs
  <1>2. core' = [core EXCEPT ![c] = y] /\ current_status(x) = "Running"
    BY <1>1, Zenon DEF Runs, current_status
  <1>3. y = [x EXCEPT !.status[x.current_task] = "Finished"]
    BY <1>1, Zenon
  <1> HIDE DEF y, x, c
  <1>4. /\ Sound(y, c)
        /\ y.blocked_tasks = x.blocked_tasks /\ y.wakeup_tasks = x.wakeup_tasks /\ y.panicked = x.panicked
        /\ \A v \in TasksOf(c) : /\ Over(y, v) <=> Over(x, v) \/ v = t
                                 /\ Unborn(x, v) => Unborn(y, v)
    BY <1>1, <1>2, <1>3, FinishKeeps, Zenon
  <1>5. /\ AllSound' /\ SameSleepers(core, core')
        /\ core'[c] = y /\ \A d \in Cores \ {c} : core'[d] = core[d]
    BY <1>1, <1>2, <1>4, OneCoreSteps, Zenon DEF x
  <1>6. ASSUME NEW v \in Tasks
        PROVE  /\ Dead(core', v) <=> Dead(core, v) \/ v = t
               /\ Unspawned(core, v) => Unspawned(core', v)
    <2>1. CASE Home[v] = c
      BY <1>4, <1>5, <2>1, Zenon DEF Dead, Unspawned, TasksOf, x
    <2>2. CASE Home[v] # c
      <3>1. v # t
        BY <2>2 DEF c
      <3> QED
        BY <1>5, <2>2, <3>1, HomeAssumption, Zenon DEF Dead, Unspawned
    <2> QED
      BY <2>1, <2>2, Zenon
  <1> QED
    BY <1>5, <1>6, Zenon

\* A task gives up its core.
LEMMA GiveUpStep ==
  ASSUME AllSound, NEW t \in Tasks, core' = [core EXCEPT ![Home[t]] = scheduler(core[Home[t]])]
  PROVE  AllSound' /\ SameSleepers(core, core') /\ SameDead(core, core')
  <1> DEFINE c == Home[t]
  <1> DEFINE y == scheduler(core[c])
  <1>1. c \in Cores /\ Sound(core[c], c)
    BY HomeAssumption, SMT DEF AllSound
  <1>2. core' = [core EXCEPT ![c] = y]
    OBVIOUS
  <1> HIDE DEF c
  <1>3. /\ Sound(y, c) /\ y.blocked_tasks = core[c].blocked_tasks
        /\ y.wakeup_tasks = core[c].wakeup_tasks /\ y.panicked = core[c].panicked
        /\ SameLives(core[c], y, c)
    BY <1>1, SchedulerKeeps, SMT
  <1> HIDE DEF y
  <1>4. /\ AllSound' /\ SameSleepers(core, core')
        /\ core'[c] = y /\ \A d \in Cores \ {c} : core'[d] = core[d]
    BY <1>1, <1>2, <1>3, OneCoreSteps, Zenon
  <1>5. \A d \in Cores : SameLives(core[d], core'[d], d)
    BY <1>3, <1>4, Zenon DEF SameLives
  <1> QED
    BY <1>4, <1>5, LivesOfTasks, Zenon
-----------------------------------------------------------------------------
(***************************************************************************)
(* Lives is kept.                                                          *)
(***************************************************************************)
\* A task that runs has been spawned and has not ended.
LEMMA RunnerLives ==
  ASSUME Lives, NEW t \in Tasks, Runs(t)
  PROVE  t \in tasks /\ ~Dead(core, t)
  BY SMT DEF Lives, LifeOf, Runs, Dead, Over, Unspawned, Unborn

\* Spawning: the new task has a parent that is in spawn until it is handed to its core.
LEMMA SpawnLives ==
  ASSUME RootAssumption, Lives, NEW t \in Tasks, NEW u \in Tasks, spawn(t, u)
  PROVE  Lives'
  <1> USE SMTT(30)
  <1>1. t \in tasks /\ ~Dead(core, t)
    BY RunnerLives, Zenon DEF spawn
  <1>2. /\ pc[t] = "run" /\ u # Root /\ parent[u] = nobody /\ core' = core
        /\ target' = [target EXCEPT ![t] = u] /\ parent' = [parent EXCEPT ![u] = t]
        /\ pc' = [pc EXCEPT ![t] = "spawn"] /\ waiting_tasks' = waiting_tasks /\ tasks' = tasks
    BY Zenon DEF spawn, goto, tables
  <1>3. u \notin tasks /\ nobody \notin Tasks
    BY <1>2, Zenon DEF Lives, LifeOf, RootAssumption
  <1>4. ASSUME NEW v \in Tasks PROVE LifeOf(v)'
    <2>1. LifeOf(v) /\ LifeOf(t)
      BY DEF Lives
    <2>2. CASE v = t
      BY <1>1, <1>2, <1>3, <2>1, <2>2 DEF Lives, LifeOf, Exiting
    <2>3. CASE v # t
      BY <1>1, <1>2, <1>3, <2>1, <2>3 DEF Lives, LifeOf
    <2> QED
      BY <2>2, <2>3
  <1> QED
    BY <1>2, <1>4 DEF Lives, Labels

LEMMA InsertLives ==
  ASSUME RootAssumption, Lives, AllSound, NEW t \in Tasks, spawn_insert(t)
  PROVE  /\ Lives' /\ AllSound' /\ SameSleepers(core, core')
         /\ target[t] \in Tasks \ tasks /\ tasks' = tasks \cup {target[t]}
         /\ \A v \in Tasks : Dead(core', v) <=> Dead(core, v)
  <1> USE SMTT(30)
  <1> DEFINE u == target[t]
  <1>1. /\ pc[t] = "spawn" /\ pc' = [pc EXCEPT ![t] = "run"] /\ tasks' = tasks \cup {u}
        /\ target' = target /\ parent' = parent
        /\ waiting_tasks' = [v \in DOMAIN waiting_tasks \cup {u} |-> Waiting(v)]
    BY Zenon DEF spawn_insert, goto
  <1>2. u \in Tasks \ tasks /\ parent[u] = t /\ Unspawned(core, u)
    BY <1>1, Zenon DEF Lives, LifeOf
  <1>3. core' = [core EXCEPT ![Home[u]] = hand_over(core[Home[u]], u, Home[u] = Home[t])]
    BY Zenon DEF spawn_insert
  <1> HIDE DEF u
  <1>4. /\ AllSound' /\ SameSleepers(core, core')
        /\ \A v \in Tasks : /\ Dead(core', v) <=> Dead(core, v)
                            /\ Unspawned(core, v) /\ v # u => Unspawned(core', v)
    BY <1>2, <1>3, SpawnStep, ZenonT(60)
  <1>5. DOMAIN waiting_tasks' = DOMAIN waiting_tasks \cup {u}
    BY <1>1
  <1>6. ASSUME NEW v \in Tasks PROVE LifeOf(v)'
    <2>1. LifeOf(v) /\ LifeOf(t) /\ LifeOf(u)
      BY <1>2, Zenon DEF Lives
    <2>2. CASE v = t
      BY <1>1, <1>2, <1>4, <1>5, <2>1, <2>2 DEF Lives, LifeOf, Exiting, u
    <2>3. CASE v # t
      <3>1. /\ v \notin tasks' => Unspawned(core', v) /\ pc'[v] = "run"
            /\ Dead(core', v) <=> pc'[v] \in Exiting
            /\ v # Root /\ parent'[v] = nobody => v \notin tasks'
        BY <1>1, <1>2, <1>4, <2>1, <2>3 DEF Lives, LifeOf, RootAssumption
      <3>2. v \notin tasks' /\ parent'[v] # nobody => pc'[parent'[v]] = "spawn" /\ target'[parent'[v]] = v
        BY <1>1, <1>2, <2>1, <2>3 DEF Lives, LifeOf, u
      <3>3. pc'[v] = "spawn" => target'[v] \in Tasks \ tasks' /\ parent'[target'[v]] = v
        BY <1>1, <1>2, <2>1, <2>3 DEF Lives, LifeOf
      <3>4. /\ pc'[v] \in {"join", "parked", "joined"} => target'[v] \in tasks'
            /\ pc'[v] = "joined" => target'[v] \notin DOMAIN waiting_tasks'
        BY <1>1, <1>2, <1>5, <2>1, <2>3 DEF Lives, LifeOf
      <3> QED
        BY <3>1, <3>2, <3>3, <3>4, Zenon DEF LifeOf
    <2> QED
      BY <2>2, <2>3
  <1> QED
    BY <1>1, <1>2, <1>4, <1>5, <1>6 DEF Lives, Labels, LifeOf, u

\* The running task ends.
LEMMA ExitLives ==
  ASSUME Lives, AllSound, NEW t \in Tasks, exit(t)
  PROVE  /\ Lives' /\ AllSound' /\ SameSleepers(core, core')
         /\ t \in tasks /\ ~Dead(core, t) /\ tasks' = tasks
         /\ \A v \in Tasks : Dead(core', v) <=> Dead(core, v) \/ v = t
  <1> USE SMTT(30)
  <1>1. /\ Runs(t) /\ pc[t] = "run" /\ pc' = [pc EXCEPT ![t] = "exit"] /\ tasks' = tasks
        /\ target' = target /\ parent' = parent /\ waiting_tasks' = waiting_tasks
    BY Zenon DEF exit, goto
  <1>2. core' = [core EXCEPT ![Home[t]] = [core[Home[t]] EXCEPT !.status[t] = "Finished"]]
    BY Zenon DEF exit
  <1>3. /\ AllSound' /\ SameSleepers(core, core')
        /\ \A v \in Tasks : /\ Dead(core', v) <=> Dead(core, v) \/ v = t
                            /\ Unspawned(core, v) => Unspawned(core', v)
    BY <1>1, <1>2, FinishStep, Zenon
  <1>4. t \in tasks /\ ~Dead(core, t)
    BY <1>1, RunnerLives
  <1>5. ASSUME NEW v \in Tasks PROVE LifeOf(v)'
    <2>1. LifeOf(v) /\ LifeOf(t)
      BY DEF Lives
    <2>2. CASE v = t
      BY <1>1, <1>3, <1>4, <2>1, <2>2 DEF Lives, LifeOf, Exiting
    <2>3. CASE v # t
      BY <1>1, <1>3, <1>4, <2>1, <2>3 DEF Lives, LifeOf
    <2> QED
      BY <2>2, <2>3
  <1> QED
    BY <1>1, <1>3, <1>4, <1>5, Zenon DEF Lives, Labels

\* A task goes on from one point of join, or of exit, to another.
LEMMA OnwardLives ==
  ASSUME Lives, SameDead(core, core'), NEW t \in Tasks, t \in tasks,
         NEW p \in Labels, pc' = [pc EXCEPT ![t] = p], p # "spawn", pc[t] # "spawn",
         p \in Exiting <=> pc[t] \in Exiting,
         tasks' = tasks, parent' = parent,
         NEW u \in Tasks \cup {nobody}, target' = [target EXCEPT ![t] = u],
         p \in {"join", "parked", "joined"} => u \in tasks,
         p = "joined" => u \notin DOMAIN waiting_tasks,
         DOMAIN waiting_tasks' = {v \in tasks : pc'[v] \notin {"wake", "reschedule", "gone"}},
         DOMAIN waiting_tasks' \subseteq DOMAIN waiting_tasks
  PROVE  Lives'
  <1> USE SMTT(30)
  <1>1. ASSUME NEW v \in Tasks PROVE LifeOf(v)'
    <2>1. LifeOf(v) /\ LifeOf(t)
      BY Zenon DEF Lives
    <2>2. (Dead(core', v) <=> Dead(core, v)) /\ (Unspawned(core, v) => Unspawned(core', v))
      BY Zenon DEF SameDead
    <2>3. CASE v = t
      BY <2>1, <2>2, <2>3 DEF Lives, LifeOf
    <2>4. CASE v # t
      BY <2>1, <2>2, <2>4 DEF Lives, LifeOf
    <2> QED
      BY <2>3, <2>4, Zenon
  <1> QED
    BY <1>1, Zenon DEF Lives, Labels

\* Interrupts and the idle loop.
LEMMA CoreLives ==
  ASSUME Lives, SameDead(core, core'), UNCHANGED lvars
  PROVE  Lives'
  <1> USE SMTT(30)
  <1>1. /\ pc' = pc /\ tasks' = tasks /\ target' = target /\ parent' = parent
        /\ waiting_tasks' = waiting_tasks
    BY DEF lvars, tables
  <1>2. ASSUME NEW v \in Tasks PROVE LifeOf(v)'
    BY <1>1, ZenonT(60) DEF Lives, LifeOf, SameDead
  <1> QED
    BY <1>1, <1>2, Zenon DEF Lives
-----------------------------------------------------------------------------
(***************************************************************************)
(* Queues and Sleepers are kept.                                           *)
(***************************************************************************)
\* A step that queues and wakes nobody.
LEMMA QuietQueues ==
  ASSUME Lives, Queues, NEW t \in Tasks, NEW p, pc' = [pc EXCEPT ![t] = p],
         p = "wake" <=> pc[t] = "wake", queue' = queue, \A v \in Tasks : Waiting(v)' = Waiting(v)
  PROVE  Queues' /\ Holders' = Holders
  <1> USE SMTT(30)
  <1>1. \A v \in Tasks : pc'[v] = "wake" <=> pc[v] = "wake"
    BY Zenon DEF Lives
  <1>2. Queues'
    BY <1>1, Zenon DEF Queues
  <1>3. \A v \in Tasks : Held(v)' = Held(v)
    BY Zenon DEF Held
  <1> QED
    BY <1>2, <1>3, Zenon DEF Holders

\* The sleepers stay linked when task t goes on to p, in a call about u.
LEMMA LinkedKept ==
  ASSUME NEW cs, NEW ds, NEW pcs \in [Tasks -> Labels], NEW tg \in [Tasks -> Tasks \cup {nobody}], NEW H,
         NEW t \in Tasks, NEW p, NEW u, Linked(cs, pcs, tg, H),
         \A v \in Tasks : (Sleeps(ds, v) <=> Sleeps(cs, v)) /\ (Called(ds, v) <=> Called(cs, v)),
         (~Sleeps(cs, t) /\ t \notin HandlesIn(H)) \/ (p = "join" /\ u = tg[t])
  PROVE  Linked(ds, [pcs EXCEPT ![t] = p], [tg EXCEPT ![t] = u], H)
  <1> USE SMTT(30)
  <1> DEFINE q == [pcs EXCEPT ![t] = p]
  <1> DEFINE g == [tg EXCEPT ![t] = u]
  <1>1. q[t] = p /\ g[t] = u /\ \A v \in Tasks \ {t} : q[v] = pcs[v] /\ g[v] = tg[v]
    OBVIOUS
  <1> HIDE DEF q, g
  <1> SUFFICES ASSUME NEW v \in Tasks
               PROVE  /\ \A w \in Tasks : v \in H[w] => g[v] = w /\ q[v] \in {"join", "parked"}
                      /\ Sleeps(ds, v) => q[v] \in {"join", "parked"} /\ (v \in HandlesIn(H) \/ Called(ds, v))
    BY Zenon DEF Linked, q, g
  <1>2. /\ \A w \in Tasks : v \in H[w] => tg[v] = w /\ pcs[v] \in {"join", "parked"}
        /\ Sleeps(cs, v) => pcs[v] \in {"join", "parked"} /\ (v \in HandlesIn(H) \/ Called(cs, v))
    BY Zenon DEF Linked
  <1>3. (Sleeps(ds, v) <=> Sleeps(cs, v)) /\ (Called(ds, v) <=> Called(cs, v))
    BY Zenon
  <1>4. CASE v # t
    BY <1>1, <1>2, <1>3, <1>4, Zenon
  <1>5. CASE v = t /\ p = "join" /\ u = tg[t]
    BY <1>1, <1>2, <1>3, <1>5, Zenon
  <1>6. CASE v = t /\ ~Sleeps(cs, t) /\ t \notin HandlesIn(H)
    BY <1>1, <1>3, <1>6, Zenon DEF HandlesIn
  <1> QED
    BY <1>4, <1>5, <1>6, Zenon

\* From cs and H to ds and G nobody blocks, and who sleeps on is held or called.
Wakes(cs, ds, H, G) ==
    /\ \A u \in Tasks : G[u] \subseteq H[u]
    /\ \A v \in Tasks : Sleeps(ds, v) => /\ Sleeps(cs, v)
                                         /\ v \in HandlesIn(H) => v \in HandlesIn(G) \/ Called(ds, v)
                                         /\ Called(cs, v) => Called(ds, v)

LEMMA LinkedWakes ==
  ASSUME NEW cs, NEW ds, NEW pcs, NEW tg, NEW H, NEW G, Linked(cs, pcs, tg, H), Wakes(cs, ds, H, G)
  PROVE  Linked(ds, pcs, tg, G)
  <1> SUFFICES ASSUME NEW v \in Tasks
               PROVE  /\ \A w \in Tasks : v \in G[w] => tg[v] = w /\ pcs[v] \in {"join", "parked"}
                      /\ Sleeps(ds, v) => pcs[v] \in {"join", "parked"} /\ (v \in HandlesIn(G) \/ Called(ds, v))
    BY Zenon DEF Linked
  <1>1. /\ \A w \in Tasks : v \in H[w] => tg[v] = w /\ pcs[v] \in {"join", "parked"}
        /\ Sleeps(cs, v) => pcs[v] \in {"join", "parked"} /\ (v \in HandlesIn(H) \/ Called(cs, v))
    BY Zenon DEF Linked
  <1> QED
    BY <1>1, Zenon DEF Wakes

\* A task that is not in join, or that runs, is neither asleep nor held.
LEMMA OutsideIsUp ==
  ASSUME Sleepers, NEW t \in Tasks, pc[t] \notin {"join", "parked"} \/ Runs(t)
  PROVE  ~Sleeps(core, t) /\ ~Called(core, t) /\ t \notin HandlesIn(Holders)
  <1>1. Slumber(core, HandlesIn(Holders)) /\ Linked(core, pc, target, Holders) /\ AllSound
    BY Zenon DEF Sleepers
  <1>2. ~Sleeps(core, t)
    <2>1. CASE Runs(t)
      BY <1>1, <2>1, RunnerIsUp, Zenon
    <2>2. CASE pc[t] \notin {"join", "parked"}
      BY <1>1, <2>2, Zenon DEF Linked
    <2> QED
      BY <2>1, <2>2
  <1> QED
    BY <1>1, <1>2, Zenon DEF Slumber

\* A task goes on, and nobody blocks or is woken.
LEMMA QuietSleepers ==
  ASSUME Lives, Sleepers, NEW t \in Tasks, NEW p, NEW u,
         pc' = [pc EXCEPT ![t] = p], target' = [target EXCEPT ![t] = u],
         Holders' = Holders, due' = due, AllSound', SameSleepers(core, core'),
         pc[t] \notin {"join", "parked"} \/ Runs(t) \/ (p = "join" /\ u = target[t])
  PROVE  Sleepers'
  <1>1. /\ AllSound /\ Calm(core) /\ Slumber(core, HandlesIn(Holders)) /\ Linked(core, pc, target, Holders)
        /\ due = [v \in Tasks |-> "none"]
        /\ pc \in [Tasks -> Labels] /\ target \in [Tasks -> Tasks \cup {nobody}]
    BY Zenon DEF Sleepers, Lives
  <1>2. (~Sleeps(core, t) /\ t \notin HandlesIn(Holders)) \/ (p = "join" /\ u = target[t])
    BY OutsideIsUp, Zenon
  <1>3. /\ Slumber(core', HandlesIn(Holders)) /\ Calm(core')
        /\ \A v \in Tasks : (Sleeps(core', v) <=> Sleeps(core, v)) /\ (Called(core', v) <=> Called(core, v))
    BY <1>1, QuietSlumbers, Zenon
  <1>4. Linked(core', [pc EXCEPT ![t] = p], [target EXCEPT ![t] = u], Holders)
    <2> DEFINE H == Holders
    <2>1. Linked(core, pc, target, H) /\ ((~Sleeps(core, t) /\ t \notin HandlesIn(H)) \/ (p = "join" /\ u = target[t]))
      BY <1>1, <1>2, Zenon
    <2> HIDE DEF H
    <2>2. Linked(core', [pc EXCEPT ![t] = p], [target EXCEPT ![t] = u], H)
      BY <1>1, <1>3, <2>1, LinkedKept, Zenon
    <2> QED
      BY <2>2, Zenon DEF H
  <1>5. HandlesIn(Holders)' = HandlesIn(Holders)
    BY Zenon DEF HandlesIn
  <1>6. Linked(core, pc, target, Holders)'
    BY <1>4, Zenon
  <1>7. Slumber(core, HandlesIn(Holders))'
    BY <1>3, <1>5, Zenon
  <1> QED
    BY <1>1, <1>3, <1>6, <1>7, Zenon DEF Sleepers

\* Interrupts and the idle loop.
LEMMA CoreSleepers ==
  ASSUME Queues, Sleepers, UNCHANGED lvars, NEW c \in Cores, timer_handler(c) \/ wakeup_handler(c) \/ run(c)
  PROVE  Queues' /\ Sleepers' /\ SameDead(core, core')
  <1>1. /\ pc' = pc /\ target' = target /\ queue' = queue /\ waiting_tasks' = waiting_tasks
    BY Zenon DEF lvars, tables
  <1>2. Holders' = Holders /\ Queues'
    <2>1. \A v \in Tasks : Waiting(v)' = Waiting(v)
      BY <1>1, Zenon DEF Waiting
    <2> QED
      BY <1>1, <2>1, Zenon DEF Holders, Held, Queues
  <1> DEFINE H == Holders
  <1>3. /\ AllSound /\ Calm(core) /\ Slumber(core, HandlesIn(H)) /\ Linked(core, pc, target, H)
        /\ due = [v \in Tasks |-> "none"]
    BY Zenon DEF Sleepers
  <1>4. ASSUME AllSound', Calm(core'), Slumber(core', HandlesIn(H)), Linked(core', pc, target, H), due' = due
        PROVE  Sleepers'
    <2>1. HandlesIn(Holders)' = HandlesIn(Holders)
      BY <1>2, Zenon DEF HandlesIn
    <2> QED
      BY <1>1, <1>2, <1>3, <1>4, <2>1, Zenon DEF Sleepers
  <1> HIDE DEF H
  <1>5. CASE timer_handler(c)
    <2>1. \A v \in Tasks : due[v] = "none"
      BY <1>3
    <2>2. AllSound' /\ SameSleepers(core, core') /\ due' = due
      BY <1>3, <1>5, <2>1, TimerSlumbers, Zenon
    <2>3. /\ Slumber(core', HandlesIn(H)) /\ Calm(core')
          /\ \A v \in Tasks : (Sleeps(core', v) <=> Sleeps(core, v)) /\ (Called(core', v) <=> Called(core, v))
      BY <1>3, <2>2, QuietSlumbers, Zenon
    <2>4. Linked(core', pc, target, H)
      <3>1. Wakes(core, core', H, H)
        BY <2>3, Zenon DEF Wakes
      <3> QED
        BY <1>3, <3>1, LinkedWakes, Zenon
    <2>5. \A d \in Cores : SameLives(core[d], core'[d], d)
      BY <1>3, <1>5, TimerStep, Zenon
    <2> QED
      BY <1>2, <1>4, <2>2, <2>3, <2>4, <2>5, LivesOfTasks, Zenon
  <1>6. CASE wakeup_handler(c) \/ run(c)
    <2>1. /\ AllSound' /\ Calm(core') /\ Slumber(core', HandlesIn(H)) /\ due' = due
          /\ \A v \in Tasks : /\ Sleeps(core', v) => Sleeps(core, v)
                              /\ Sleeps(core', v) /\ Called(core, v) => Called(core', v)
      BY <1>3, <1>6, InputSlumbers, Zenon
    <2>2. Linked(core', pc, target, H)
      <3>1. Wakes(core, core', H, H)
        BY <2>1, Zenon DEF Wakes
      <3> QED
        BY <1>3, <3>1, LinkedWakes, Zenon
    <2>3. \A d \in Cores : SameLives(core[d], core'[d], d)
      BY <1>3, <1>6, InputStep, Zenon
    <2> QED
      BY <1>2, <1>4, <2>1, <2>2, <2>3, LivesOfTasks, Zenon
  <1> QED
    BY <1>5, <1>6, Zenon
\* From cs and H to ds and G task t blocks and its handle is held by the task u that it joins.
Blocks(cs, ds, H, G, t, u) ==
    /\ t \notin HandlesIn(H) /\ u \in Tasks
    /\ \A v \in Tasks : (Sleeps(ds, v) <=> Sleeps(cs, v) \/ v = t) /\ (Called(ds, v) <=> Called(cs, v))
    /\ G[u] = H[u] \cup {t} /\ \A v \in Tasks : v # u => G[v] = H[v]

LEMMA LinkedBlocks ==
  ASSUME NEW cs, NEW ds, NEW H, NEW G, NEW t \in Tasks, NEW u, Blocks(cs, ds, H, G, t, u),
         NEW tg, u = tg[t], NEW pcs \in [Tasks -> Labels], Linked(cs, pcs, tg, H)
  PROVE  Linked(ds, [pcs EXCEPT ![t] = "parked"], tg, G)
  <1> USE SMTT(30)
  <1>1. /\ t \notin HandlesIn(H) /\ u \in Tasks
        /\ \A v \in Tasks : (Sleeps(ds, v) <=> Sleeps(cs, v) \/ v = t) /\ (Called(ds, v) <=> Called(cs, v))
        /\ G[u] = H[u] \cup {t} /\ \A v \in Tasks : v # u => G[v] = H[v]
    BY Zenon DEF Blocks
  <1> DEFINE q == [pcs EXCEPT ![t] = "parked"]
  <1>2. q[t] = "parked" /\ \A v \in Tasks \ {t} : q[v] = pcs[v]
    OBVIOUS
  <1> HIDE DEF q
  <1>3. HandlesIn(G) = HandlesIn(H) \cup {t}
    BY Zenon DEF Blocks, HandlesIn
  <1>4. ASSUME NEW v \in Tasks
        PROVE  /\ \A w \in Tasks : v \in G[w] => tg[v] = w /\ q[v] \in {"join", "parked"}
               /\ Sleeps(ds, v) => q[v] \in {"join", "parked"} /\ (v \in HandlesIn(G) \/ Called(ds, v))
    <2>1. /\ \A w \in Tasks : v \in H[w] => tg[v] = w /\ pcs[v] \in {"join", "parked"}
          /\ Sleeps(cs, v) => pcs[v] \in {"join", "parked"} /\ (v \in HandlesIn(H) \/ Called(cs, v))
      BY Zenon DEF Linked
    <2>2. CASE v = t
      BY <1>1, <1>2, <1>3, <2>2, Zenon DEF HandlesIn
    <2>3. CASE v # t
      <3>1. (Sleeps(ds, v) <=> Sleeps(cs, v)) /\ (Called(ds, v) <=> Called(cs, v))
        BY <1>1, <2>3, Zenon
      <3>2. \A w \in Tasks : v \in G[w] <=> v \in H[w]
        BY <1>1, <2>3, Zenon
      <3> QED
        BY <1>2, <1>3, <2>1, <2>3, <3>1, <3>2, Zenon
    <2> QED
      BY <2>2, <2>3, Zenon
  <1> QED
    BY <1>4, Zenon DEF Linked, q

-----------------------------------------------------------------------------
(***************************************************************************)
(* The steps of the tasks.                                                 *)
(***************************************************************************)
\* What every step keeps but for the count of tasks.
Kept == Lives' /\ Queues' /\ Sleepers'

\* A core that is left alone.
LEMMA CoreUnchanged ==
  ASSUME AllSound, core' = core
  PROVE  AllSound' /\ SameSleepers(core, core') /\ SameDead(core, core')
  BY Zenon DEF AllSound, SameSleepers, SameDead

\* A task goes on, in a call about u, and the tables stay as they are.
LEMMA PlainStep ==
  ASSUME Lives, Queues, Sleepers, NEW t \in Tasks, NEW p, NEW u,
         pc' = [pc EXCEPT ![t] = p], target' = [target EXCEPT ![t] = u],
         queue' = queue, waiting_tasks' = waiting_tasks, due' = due,
         AllSound', SameSleepers(core, core'),
         p = "wake" <=> pc[t] = "wake",
         pc[t] \notin {"join", "parked"} \/ Runs(t) \/ (p = "join" /\ u = target[t])
  PROVE  Queues' /\ Sleepers'
  <1>1. \A v \in Tasks : Waiting(v)' = Waiting(v)
    BY Zenon DEF Waiting
  <1>2. Queues' /\ Holders' = Holders
    BY <1>1, QuietQueues, Zenon
  <1> QED
    BY <1>2, QuietSleepers, Zenon

LEMMA spawn_Kept ==
  ASSUME RootAssumption, Lives, Queues, Sleepers, NEW t \in Tasks, NEW u \in Tasks, spawn(t, u)
  PROVE  Kept /\ SameDead(core, core')
  <1>1. Lives'
    BY SpawnLives, Zenon
  <1>2. /\ pc[t] = "run" /\ core' = core /\ due' = due /\ Runs(t)
        /\ target' = [target EXCEPT ![t] = u] /\ pc' = [pc EXCEPT ![t] = "spawn"]
        /\ waiting_tasks' = waiting_tasks /\ queue' = queue
    BY Zenon DEF spawn, goto, tables
  <1>3. AllSound' /\ SameSleepers(core, core') /\ SameDead(core, core')
    BY <1>2, CoreUnchanged, Zenon DEF Sleepers
  <1>4. "spawn" # "wake" /\ "run" # "wake"
    OBVIOUS
  <1>5. Queues' /\ Sleepers'
    BY <1>2, <1>3, <1>4, PlainStep, Zenon
  <1> QED
    BY <1>1, <1>3, <1>5, Zenon DEF Kept

LEMMA spawn_insert_Kept ==
  ASSUME RootAssumption, Lives, Queues, Sleepers, NEW t \in Tasks, spawn_insert(t)
  PROVE  /\ Kept
         /\ target[t] \in Tasks \ tasks /\ tasks' = tasks \cup {target[t]}
         /\ \A v \in Tasks : Dead(core', v) <=> Dead(core, v)
  <1>1. /\ Lives' /\ AllSound' /\ SameSleepers(core, core')
        /\ target[t] \in Tasks \ tasks /\ tasks' = tasks \cup {target[t]}
        /\ \A v \in Tasks : Dead(core', v) <=> Dead(core, v)
    BY InsertLives, Zenon DEF Sleepers
  <1> DEFINE u == target[t]
  <1>2. /\ pc[t] = "spawn" /\ due' = due /\ target' = target /\ pc' = [pc EXCEPT ![t] = "run"]
        /\ waiting_tasks' = [v \in DOMAIN waiting_tasks \cup {u} |-> Waiting(v)] /\ queue' = queue
    BY Zenon DEF spawn_insert, goto
  <1>3. \A v \in Tasks : Waiting(v)' = Waiting(v)
    BY <1>2, SMT DEF Waiting
  <1>4. "spawn" # "wake" /\ "run" # "wake" /\ "spawn" \notin {"join", "parked"}
    OBVIOUS
  <1>5. target' = [target EXCEPT ![t] = u]
    BY <1>2, SMT DEF Lives
  <1> HIDE DEF u
  <1>6. Queues' /\ Holders' = Holders
    BY <1>2, <1>3, <1>4, QuietQueues, Zenon
  <1>7. Sleepers'
    BY <1>1, <1>2, <1>4, <1>5, <1>6, QuietSleepers, Zenon
  <1> QED
    BY <1>1, <1>6, <1>7, Zenon DEF Kept

LEMMA join_Kept ==
  ASSUME RootAssumption, Lives, Queues, Sleepers, NEW t \in Tasks, NEW u \in Tasks, join(t, u)
  PROVE  Kept /\ SameDead(core, core')
  <1> USE SMTT(30)
  <1>1. /\ pc[t] = "run" /\ core' = core /\ due' = due /\ Runs(t) /\ parent[u] = t
        /\ target' = [target EXCEPT ![t] = u] /\ pc' = [pc EXCEPT ![t] = "join"]
        /\ waiting_tasks' = waiting_tasks /\ queue' = queue /\ tasks' = tasks /\ parent' = parent
    BY Zenon DEF join, goto, tables
  <1>2. AllSound' /\ SameSleepers(core, core') /\ SameDead(core, core')
    BY <1>1, CoreUnchanged, Zenon DEF Sleepers
  <1>3. "join" # "wake" /\ "run" # "wake"
    OBVIOUS
  <1>4. Queues' /\ Sleepers'
    BY <1>1, <1>2, <1>3, PlainStep, Zenon
  <1>5. t \in tasks /\ ~Dead(core, t)
    BY <1>1, RunnerLives, Zenon
  <1>6. u \in tasks
    BY <1>1 DEF Lives, LifeOf, RootAssumption
  <1>7. DOMAIN waiting_tasks' = {v \in tasks : pc'[v] \notin {"wake", "reschedule", "gone"}}
    BY <1>1 DEF Lives
  <1>8. /\ "join" \in Labels /\ "join" # "spawn" /\ pc[t] # "spawn" /\ "join" # "joined"
        /\ "join" \in Exiting <=> pc[t] \in Exiting
    BY <1>1 DEF Labels, Exiting
  <1>9. Lives'
    BY <1>1, <1>2, <1>5, <1>6, <1>7, <1>8, OnwardLives, Zenon
  <1> QED
    BY <1>2, <1>4, <1>9, Zenon DEF Kept

\* The other steps after which the tables stay as they are, and so does the task that the call is about.
LEMMA onward_Kept ==
  ASSUME Lives, Queues, Sleepers, NEW t \in Tasks,
         join_return(t) \/ join_reschedule(t) \/ Continue(t) \/ exit_reschedule(t)
  PROVE  Kept /\ SameDead(core, core')
  <1> USE SMTT(30)
  <1>1. PICK p \in {"joined", "join", "run", "gone"} :
           /\ pc' = [pc EXCEPT ![t] = p] /\ due' = due /\ target' = target /\ waiting_tasks' = waiting_tasks
           /\ queue' = queue /\ tasks' = tasks /\ parent' = parent
           /\ \/ p = "joined" /\ pc[t] = "join" /\ Runs(t) /\ target[t] \notin DOMAIN waiting_tasks
              \/ p = "join" /\ pc[t] = "parked"
              \/ p = "run" /\ pc[t] = "joined"
              \/ p = "gone" /\ pc[t] = "reschedule"
    BY Zenon DEF join_return, join_reschedule, Continue, exit_reschedule, goto, tables
  <1>2. core' = core \/ core' = [core EXCEPT ![Home[t]] = scheduler(core[Home[t]])]
    BY Zenon DEF join_return, join_reschedule, Continue, exit_reschedule
  <1>3. AllSound' /\ SameSleepers(core, core') /\ SameDead(core, core')
    BY <1>2, CoreUnchanged, GiveUpStep, Zenon DEF Sleepers
  <1> DEFINE u == target[t]
  <1>4. target' = [target EXCEPT ![t] = u] /\ u \in Tasks \cup {nobody}
    BY <1>1 DEF Lives
  <1>5. /\ p = "wake" <=> pc[t] = "wake"
        /\ pc[t] \notin {"join", "parked"} \/ Runs(t) \/ (p = "join" /\ u = target[t])
        /\ p \in Labels /\ p # "spawn" /\ pc[t] # "spawn"
        /\ p \in Exiting <=> pc[t] \in Exiting
        /\ p = "joined" => u \notin DOMAIN waiting_tasks
    BY <1>1, Zenon DEF Labels, Exiting
  <1>6. t \in tasks /\ (p \in {"join", "parked", "joined"} => u \in tasks)
    BY <1>1 DEF Lives, LifeOf
  <1>7. DOMAIN waiting_tasks' = {v \in tasks : pc'[v] \notin {"wake", "reschedule", "gone"}}
    BY <1>1 DEF Lives
  <1> HIDE DEF u
  <1>8. Queues' /\ Sleepers'
    BY <1>1, <1>3, <1>4, <1>5, PlainStep, Zenon
  <1>9. Lives'
    BY <1>1, <1>3, <1>4, <1>5, <1>6, <1>7, OnwardLives, ZenonT(60)
  <1> QED
    BY <1>3, <1>8, <1>9, Zenon DEF Kept

LEMMA exit_Kept ==
  ASSUME Lives, Queues, Sleepers, NEW t \in Tasks, exit(t)
  PROVE  /\ Kept
         /\ t \in tasks /\ ~Dead(core, t) /\ tasks' = tasks
         /\ \A v \in Tasks : Dead(core', v) <=> Dead(core, v) \/ v = t
  <1>1. /\ Lives' /\ AllSound' /\ SameSleepers(core, core')
        /\ t \in tasks /\ ~Dead(core, t) /\ tasks' = tasks
        /\ \A v \in Tasks : Dead(core', v) <=> Dead(core, v) \/ v = t
    BY ExitLives, Zenon DEF Sleepers
  <1>2. /\ pc[t] = "run" /\ due' = due /\ Runs(t) /\ target' = target /\ pc' = [pc EXCEPT ![t] = "exit"]
        /\ waiting_tasks' = waiting_tasks /\ queue' = queue
    BY Zenon DEF exit, goto
  <1>3. "exit" # "wake" /\ "run" # "wake"
    OBVIOUS
  <1>4. target' = [target EXCEPT ![t] = target[t]]
    BY <1>2, SMT DEF Lives
  <1>5. Queues' /\ Sleepers'
    BY <1>1, <1>2, <1>3, <1>4, PlainStep, Zenon
  <1> QED
    BY <1>1, <1>5, Zenon DEF Kept
\* The joiner is queued and blocked.
LEMMA join_wait_Kept ==
  ASSUME Lives, Queues, Sleepers, NEW t \in Tasks, join_wait(t)
  PROVE  Kept /\ SameDead(core, core')
  <1> USE SMTT(30)
  <1>0. PICK u, H, G : u = target[t] /\ H = Holders /\ G = Holders'
    BY Zenon
  <1>1. /\ Runs(t) /\ pc[t] = "join" /\ u \in DOMAIN waiting_tasks /\ pc' = [pc EXCEPT ![t] = "parked"]
        /\ waiting_tasks' = [waiting_tasks EXCEPT ![u] = Append(waiting_tasks[u], t)]
        /\ core' = [core EXCEPT ![Home[t]] = block_current_task(core[Home[t]])]
        /\ due' = due /\ target' = target /\ queue' = queue /\ tasks' = tasks /\ parent' = parent
    BY <1>0, Zenon DEF join_wait, goto
  <1>2. /\ AllSound /\ Calm(core) /\ Slumber(core, HandlesIn(H)) /\ Linked(core, pc, target, H)
        /\ due = [v \in Tasks |-> "none"] /\ pc \in [Tasks -> Labels]
    BY <1>0, Zenon DEF Sleepers, Lives
  <1>3. u \in Tasks /\ u \in tasks /\ t \in tasks
    BY <1>0, <1>1, Zenon DEF Lives, LifeOf
  <1>4. ~Sleeps(core, t) /\ ~Called(core, t) /\ t \notin HandlesIn(H)
    BY <1>0, <1>1, OutsideIsUp, Zenon
  <1>5. /\ AllSound' /\ Calm(core') /\ Slumber(core', HandlesIn(H) \cup {t})
        /\ \A v \in Tasks : /\ Sleeps(core', v) <=> Sleeps(core, v) \/ v = t
                            /\ Called(core', v) <=> Called(core, v)
    BY <1>1, <1>2, BlockSlumbers, Zenon
  <1>6. SameDead(core, core')
    <2>1. \A d \in Cores : SameLives(core[d], core'[d], d)
      BY <1>1, <1>2, BlockStep, Zenon
    <2> QED
      BY <2>1, LivesOfTasks, Zenon
  <1>7. t \notin Range(Waiting(u))
    BY <1>0, <1>3, <1>4, Zenon DEF HandlesIn, Holders, Held
  <1>8. /\ Waiting(u)' = Append(Waiting(u), t)
        /\ \A v \in Tasks : v # u => Waiting(v)' = Waiting(v)
    BY <1>1 DEF Waiting
  <1>9. /\ Waiting(u)' \in Seq(Tasks) /\ IsInjective(Waiting(u)')
        /\ Range(Waiting(u)') = Range(Waiting(u)) \cup {t}
    BY <1>3, <1>7, <1>8, AppendIs DEF Queues
  <1>10. Queues'
    <2> SUFFICES ASSUME NEW v \in Tasks
                 PROVE  /\ Waiting(v)' \in Seq(Tasks) /\ IsInjective(Waiting(v)')
                        /\ IsInjective(queue[v]) /\ (queue[v] # <<>> <=> pc'[v] = "wake")
      BY <1>1 DEF Queues
    <2>1. /\ Waiting(v) \in Seq(Tasks) /\ IsInjective(Waiting(v)) /\ IsInjective(queue[v])
          /\ queue[v] # <<>> <=> pc[v] = "wake"
      BY DEF Queues
    <2>2. pc'[v] = "wake" <=> pc[v] = "wake"
      BY <1>1, <1>2
    <2>3. Waiting(v)' \in Seq(Tasks) /\ IsInjective(Waiting(v)')
      BY <1>8, <1>9, <2>1, Zenon
    <2> QED
      BY <2>1, <2>2, <2>3
  <1>11. G[u] = H[u] \cup {t} /\ \A v \in Tasks : v # u => G[v] = H[v]
    <2>1. Held(u)' = Held(u) \cup {t} /\ \A v \in Tasks : v # u => Held(v)' = Held(v)
      BY <1>1, <1>8, <1>9, Zenon DEF Held
    <2>2. \A v \in Tasks : G[v] = Held(v)' /\ H[v] = Held(v)
      BY <1>0 DEF Holders
    <2> QED
      BY <1>3, <2>1, <2>2
  <1>12. Linked(core', pc', target, G) /\ HandlesIn(G) = HandlesIn(H) \cup {t}
    <2>1. Blocks(core, core', H, G, t, u)
      BY <1>3, <1>4, <1>5, <1>11, Zenon DEF Blocks
    <2>2. /\ pc \in [Tasks -> Labels] /\ Linked(core, pc, target, H) /\ u = target[t]
          /\ pc' = [pc EXCEPT ![t] = "parked"]
      BY <1>0, <1>1, <1>2, Zenon
    <2>3. HandlesIn(G) = HandlesIn(H) \cup {t}
      BY <2>1 DEF Blocks, HandlesIn
    <2>4. Linked(core', [pc EXCEPT ![t] = "parked"], target, G)
      BY <2>1, <2>2, LinkedBlocks, Zenon
    <2> QED
      BY <2>2, <2>3, <2>4, Zenon
  <1>13. Sleepers'
    <2>1. Linked(core', pc', target', G) /\ Slumber(core', HandlesIn(G))
      BY <1>1, <1>5, <1>12, Zenon
    <2>2. Linked(core, pc, target, Holders)' /\ Slumber(core, HandlesIn(Holders))'
      BY <1>0, <2>1, Zenon DEF HandlesIn
    <2> QED
      BY <1>1, <1>2, <1>5, <2>2, Zenon DEF Sleepers
  <1>14. Lives'
    <2>1. target' = [target EXCEPT ![t] = u]
      BY <1>0, <1>1 DEF Lives
    <2>2. DOMAIN waiting_tasks' = DOMAIN waiting_tasks
      BY <1>1
    <2>3. DOMAIN waiting_tasks' = {v \in tasks : pc'[v] \notin {"wake", "reschedule", "gone"}}
      BY <1>1, <2>2, Zenon DEF Lives
    <2>4. /\ "parked" \in Labels /\ "parked" # "spawn" /\ pc[t] # "spawn" /\ "parked" # "joined"
          /\ "parked" \in Exiting <=> pc[t] \in Exiting
      BY <1>1 DEF Labels, Exiting
    <2>5. u \in Tasks \cup {nobody} /\ DOMAIN waiting_tasks' \subseteq DOMAIN waiting_tasks
      BY <1>3, <2>2
    <2> QED
      BY <1>1, <1>3, <1>6, <2>1, <2>3, <2>4, <2>5, OnwardLives, Zenon
  <1> QED
    BY <1>6, <1>10, <1>13, <1>14, Zenon DEF Kept

\* exit takes the queue of its joiners over.
LEMMA exit_remove_Kept ==
  ASSUME Lives, Queues, Sleepers, NEW t \in Tasks, exit_remove(t)
  PROVE  Kept /\ SameDead(core, core')
  <1> USE SMTT(30)
  <1> DEFINE p == IF Waiting(t) = <<>> THEN "reschedule" ELSE "wake"
  <1>1. /\ pc[t] = "exit" /\ pc' = [pc EXCEPT ![t] = p]
        /\ queue' = [queue EXCEPT ![t] = Waiting(t)]
        /\ waiting_tasks' = [v \in DOMAIN waiting_tasks \ {t} |-> waiting_tasks[v]]
        /\ core' = core /\ due' = due /\ target' = target /\ tasks' = tasks /\ parent' = parent
    BY Zenon DEF exit_remove, goto
  <1>2. AllSound' /\ SameSleepers(core, core') /\ SameDead(core, core')
    BY <1>1, CoreUnchanged, Zenon DEF Sleepers
  <1>3. p \in {"reschedule", "wake"} /\ (p = "wake" <=> Waiting(t) # <<>>)
    OBVIOUS
  <1> HIDE DEF p
  <1>4. queue[t] = <<>> /\ queue \in [Tasks -> Seq(Tasks)] /\ pc \in [Tasks -> Labels]
    BY <1>1 DEF Queues, Lives
  <1>5. Waiting(t)' = <<>> /\ \A v \in Tasks : v # t => Waiting(v)' = Waiting(v)
    BY <1>1 DEF Waiting
  <1>6. Range(<<>>) = {} /\ IsInjective(<<>>) /\ <<>> \in Seq(Tasks)
    BY DEF Range, IsInjective
  <1>7. Queues'
    <2>1. queue' \in [Tasks -> Seq(Tasks)]
      BY <1>1, <1>4 DEF Queues
    <2>2. ASSUME NEW v \in Tasks
          PROVE  /\ Waiting(v)' \in Seq(Tasks) /\ IsInjective(Waiting(v)') /\ IsInjective(queue'[v])
                 /\ queue'[v] # <<>> <=> pc'[v] = "wake"
      <3>1. CASE v = t
        BY <1>1, <1>3, <1>4, <1>5, <1>6, <3>1, Zenon DEF Queues
      <3>2. CASE v # t
        BY <1>1, <1>4, <1>5, <3>2 DEF Queues
      <3> QED
        BY <3>1, <3>2
    <2> QED
      BY <2>1, <2>2 DEF Queues
  <1>8. Holders' = Holders
    <2>1. ASSUME NEW v \in Tasks PROVE Held(v)' = Held(v)
      <3>1. CASE v = t
        BY <1>1, <1>4, <1>5, <1>6, <3>1 DEF Held
      <3>2. CASE v # t
        BY <1>1, <1>4, <1>5, <3>2 DEF Held
      <3> QED
        BY <3>1, <3>2
    <2> QED
      BY <2>1, Zenon DEF Holders
  <1> DEFINE u == target[t]
  <1>9. target' = [target EXCEPT ![t] = u] /\ u \in Tasks \cup {nobody}
    BY <1>1 DEF Lives
  <1> HIDE DEF u
  <1>10. "exit" \notin {"join", "parked"}
    OBVIOUS
  <1>11. Sleepers'
    BY <1>1, <1>2, <1>8, <1>9, <1>10, QuietSleepers, Zenon
  <1>12. Lives'
    <2>1. /\ p \in Labels /\ p # "spawn" /\ pc[t] # "spawn" /\ p # "joined"
          /\ p \in Exiting <=> pc[t] \in Exiting
          /\ p \notin {"join", "parked", "joined"}
      BY <1>1, <1>3 DEF Labels, Exiting
    <2>2. DOMAIN waiting_tasks' = DOMAIN waiting_tasks \ {t} /\ t \in tasks
      BY <1>1, Zenon DEF Lives, LifeOf
    <2>3. DOMAIN waiting_tasks' = {v \in tasks : pc'[v] \notin {"wake", "reschedule", "gone"}}
      BY <1>1, <1>3, <2>2 DEF Lives
    <2>4. DOMAIN waiting_tasks' \subseteq DOMAIN waiting_tasks
      BY <2>2
    <2> QED
      BY <1>1, <1>2, <1>9, <2>1, <2>2, <2>3, <2>4, OnwardLives, ZenonT(60)
  <1> QED
    BY <1>2, <1>7, <1>11, <1>12, Zenon DEF Kept

\* exit wakes the first of its joiners.
LEMMA exit_wake_Kept ==
  ASSUME Lives, Queues, Sleepers, NEW t \in Tasks, exit_wake(t)
  PROVE  Kept /\ SameDead(core, core')
  <1> USE SMTT(30)
  <1> DEFINE p == IF Len(queue[t]) = 1 THEN "reschedule" ELSE "wake"
  <1> DEFINE q == queue[t]
  <1> DEFINE h == Head(q)
  <1>0. PICK H, G : H = Holders /\ G = Holders'
    BY Zenon
  <1>1. /\ pc[t] = "wake" /\ pc' = [pc EXCEPT ![t] = p] /\ queue' = [queue EXCEPT ![t] = Tail(q)]
        /\ core' = custom_wakeup(core, Home[t], <<h>>)
        /\ due' = due /\ target' = target /\ tasks' = tasks /\ parent' = parent
        /\ waiting_tasks' = waiting_tasks
    BY Zenon DEF exit_wake, goto, tables
  <1>2. /\ q \in Seq(Tasks) /\ IsInjective(q) /\ q # <<>>
        /\ queue \in [Tasks -> Seq(Tasks)] /\ pc \in [Tasks -> Labels]
    BY <1>1, Zenon DEF Queues, Lives
  <1>3. p \in {"reschedule", "wake"} /\ (p = "wake" <=> Tail(q) # <<>>)
    <2>1. Tail(q) \in Seq(Tasks) /\ Len(q) \in Nat /\ Len(Tail(q)) = Len(q) - 1
      BY <1>2
    <2>2. Tail(q) = <<>> <=> Len(Tail(q)) = 0
      <3>1. \A s \in Seq(Tasks) : s = <<>> <=> Len(s) = 0
        OBVIOUS
      <3> QED
        BY <2>1, <3>1, Zenon
    <2>3. Tail(q) = <<>> <=> Len(q) = 1
      BY <2>1, <2>2
    <2>4. "reschedule" # "wake"
      OBVIOUS
    <2> QED
      BY <2>3, <2>4, Zenon
  <1>4. /\ h \in Range(q) /\ h \in Tasks
        /\ Tail(q) \in Seq(Tasks) /\ IsInjective(Tail(q)) /\ Range(Tail(q)) = Range(q) \ {h}
    BY <1>2, PopIs
  <1>5. Waiting(t) = <<>>
    BY <1>1, Zenon DEF Lives, Waiting
  <1>6. \A v \in Tasks : Waiting(v)' = Waiting(v)
    BY <1>1, Zenon DEF Waiting
  <1> HIDE DEF p, h
  <1>7. Queues'
    <2>1. queue' \in [Tasks -> Seq(Tasks)]
      BY <1>1, <1>2, <1>4
    <2>2. ASSUME NEW v \in Tasks
          PROVE  /\ Waiting(v)' \in Seq(Tasks) /\ IsInjective(Waiting(v)') /\ IsInjective(queue'[v])
                 /\ queue'[v] # <<>> <=> pc'[v] = "wake"
      <3>1. CASE v = t
        BY <1>1, <1>2, <1>3, <1>4, <1>6, <3>1, Zenon DEF Queues
      <3>2. CASE v # t
        BY <1>1, <1>2, <1>6, <3>2, Zenon DEF Queues
      <3> QED
        BY <3>1, <3>2
    <2> QED
      BY <2>1, <2>2 DEF Queues
  <1>8. Range(<<>>) = {}
    BY DEF Range
  <1>9. /\ H[t] = Range(q) /\ G[t] = H[t] \ {h}
        /\ \A v \in Tasks : v # t => G[v] = H[v]
    <2>1. Held(t) = Range(q) /\ Held(t)' = Range(q) \ {h}
      BY <1>1, <1>2, <1>4, <1>5, <1>6, <1>8 DEF Held
    <2>2. \A v \in Tasks : v # t => Held(v)' = Held(v)
      BY <1>1, <1>2, <1>6 DEF Held
    <2>3. \A v \in Tasks : G[v] = Held(v)' /\ H[v] = Held(v)
      BY <1>0 DEF Holders
    <2> QED
      BY <2>1, <2>2, <2>3, Zenon
  <1> DEFINE W == HandlesIn(H)
  <1>10. /\ AllSound /\ Calm(core) /\ Slumber(core, W) /\ Linked(core, pc, target, H)
         /\ due = [v \in Tasks |-> "none"]
    BY <1>0, Zenon DEF Sleepers
  <1>11. HandlesIn(G) = W \ {h} /\ h \in W /\ \A v \in Tasks : G[v] \subseteq H[v]
    <2>1. h \in H[t] /\ \A v \in Tasks : h \in H[v] => v = t
      BY <1>4, <1>9, <1>10 DEF Linked
    <2> QED
      BY <1>4, <1>9, <2>1 DEF HandlesIn
  <1> DEFINE hs == <<h>>
  <1>12. hs \in Seq(Tasks) /\ IsInjective(hs) /\ Range(hs) = {h}
    BY <1>4 DEF Range, IsInjective
  <1>13. Home[t] \in Cores /\ core' = custom_wakeup(core, Home[t], hs) /\ Range(hs) \subseteq W
    BY <1>1, <1>11, <1>12, HomeAssumption, Zenon
  <1> HIDE DEF hs, W
  <1>14. /\ AllSound' /\ Calm(core') /\ Slumber(core', W \ Range(hs))
         /\ \A v \in Tasks : /\ Sleeps(core', v) => Sleeps(core, v)
                             /\ Sleeps(core', v) /\ v \in Range(hs) => Called(core', v)
                             /\ Called(core, v) => Called(core', v)
    BY <1>10, <1>12, <1>13, WakeSlumbers, Zenon
  <1>15. Wakes(core, core', H, G)
    BY <1>11, <1>12, <1>14, Zenon DEF Wakes, W
  <1>16. Linked(core', pc, target, G)
    BY <1>10, <1>15, LinkedWakes, Zenon
  <1>17. Slumber(core', HandlesIn(G))
    BY <1>11, <1>12, <1>14, Zenon
  <1>18. t \notin HandlesIn(G) /\ ~Sleeps(core', t)
    <2>1. "wake" \notin {"join", "parked"}
      OBVIOUS
    <2>2. ~Sleeps(core, t) /\ t \notin HandlesIn(H)
      BY <1>0, <1>1, <2>1, OutsideIsUp, Zenon
    <2> QED
      BY <1>11, <1>14, <2>2, Zenon DEF W
  <1> DEFINE u == target[t]
  <1>19. target' = [target EXCEPT ![t] = u] /\ u \in Tasks \cup {nobody} /\ target \in [Tasks -> Tasks \cup {nobody}]
    BY <1>1, Zenon DEF Lives
  <1> HIDE DEF u
  <1>20. Linked(core', [pc EXCEPT ![t] = p], [target EXCEPT ![t] = u], G)
    BY <1>2, <1>16, <1>18, <1>19, LinkedKept, Zenon
  <1>21. Sleepers'
    <2>1. Linked(core, pc, target, Holders)' /\ Slumber(core, HandlesIn(Holders))'
      BY <1>0, <1>1, <1>17, <1>19, <1>20, Zenon DEF HandlesIn
    <2> QED
      BY <1>1, <1>10, <1>14, <2>1, Zenon DEF Sleepers
  <1>22. SameDead(core, core')
    <2>1. \A d \in Cores : SameLives(core[d], core'[d], d)
      BY <1>10, <1>12, <1>13, CustomWakeupStep, Zenon
    <2> QED
      BY <2>1, LivesOfTasks, Zenon
  <1>23. Lives'
    <2>1. /\ p \in Labels /\ p # "spawn" /\ pc[t] # "spawn" /\ p # "joined"
          /\ p \in Exiting <=> pc[t] \in Exiting
          /\ p \notin {"join", "parked", "joined"}
      BY <1>1, <1>3 DEF Labels, Exiting
    <2>2. t \in tasks
      BY <1>1, Zenon DEF Lives, LifeOf
    <2>3. DOMAIN waiting_tasks' = {v \in tasks : pc'[v] \notin {"wake", "reschedule", "gone"}}
      BY <1>1, <1>3, Zenon DEF Lives
    <2> QED
      BY <1>1, <1>19, <1>22, <2>1, <2>2, <2>3, OnwardLives, Zenon
  <1> QED
    BY <1>7, <1>21, <1>22, <1>23, Zenon DEF Kept
-----------------------------------------------------------------------------
(***************************************************************************)
(* NO_TASKS.                                                               *)
(***************************************************************************)
Alive == {t \in tasks : StatusOf(t) \notin Ended}

LEMMA AliveAre ==
  ASSUME Lives
  PROVE  /\ Alive = {t \in tasks : ~Dead(core, t)}
         /\ IsFiniteSet(Alive) /\ Cardinality(Alive) \in 0 .. Cardinality(Tasks)
  <1>1. Alive = {t \in tasks : ~Dead(core, t)}
    BY SMT DEF Alive, StatusOf, Ended, Dead, Over
  <1>2. Alive \in SUBSET Tasks /\ IsFiniteSet(Tasks)
    <2>1. tasks \subseteq Tasks
      BY Zenon DEF Lives
    <2> QED
      BY <2>1, TasksAssumption, Zenon DEF Alive
  <1>3. IsFiniteSet(Alive) /\ Cardinality(Alive) <= Cardinality(Tasks)
    BY <1>2, FS_Subset, Zenon
  <1>4. Cardinality(Alive) \in Nat /\ Cardinality(Tasks) \in Nat
    BY <1>2, <1>3, FS_CardinalityType, Zenon
  <1> QED
    BY <1>1, <1>3, <1>4, SMT

\* The count goes up when a task is handed to its core and down when one ends.
LEMMA CountKept ==
  ASSUME Lives, Lives', TaskCount, NEW t \in Tasks,
         \/ no_tasks' = no_tasks /\ tasks' = tasks /\ \A v \in Tasks : Dead(core', v) <=> Dead(core, v)
         \/ /\ no_tasks' = no_tasks + 1 /\ t \notin tasks /\ tasks' = tasks \cup {t} /\ ~Dead(core, t)
            /\ \A v \in Tasks : Dead(core', v) <=> Dead(core, v)
         \/ /\ no_tasks' = no_tasks - 1 /\ t \in tasks /\ tasks' = tasks /\ ~Dead(core, t)
            /\ \A v \in Tasks : Dead(core', v) <=> Dead(core, v) \/ v = t
  PROVE  TaskCount'
  <1> USE SMTT(30)
  <1>1. /\ Alive = {v \in tasks : ~Dead(core, v)} /\ IsFiniteSet(Alive)
        /\ no_tasks = Cardinality(Alive) /\ Cardinality(Alive) \in Nat
    BY AliveAre DEF TaskCount, Alive
  <1>2. Alive' = {v \in tasks' : ~Dead(core', v)}
    <2>1. \A v : (StatusOf(v) \notin Ended)' <=> ~Dead(core', v)
      BY Zenon DEF StatusOf, Ended, Dead, Over
    <2> QED
      BY <2>1, Zenon DEF Alive
  <1>3. tasks \subseteq Tasks /\ tasks' \subseteq Tasks
    BY Zenon DEF Lives
  <1>4. SUFFICES no_tasks' = Cardinality(Alive')
    BY DEF TaskCount, Alive
  <1>5. CASE no_tasks' = no_tasks /\ tasks' = tasks /\ \A v \in Tasks : Dead(core', v) <=> Dead(core, v)
    <2>1. Alive' = Alive
      BY <1>1, <1>2, <1>3, <1>5, Zenon
    <2> QED
      BY <1>1, <1>5, <2>1
  <1>6. CASE /\ no_tasks' = no_tasks + 1 /\ t \notin tasks /\ tasks' = tasks \cup {t} /\ ~Dead(core, t)
             /\ \A v \in Tasks : Dead(core', v) <=> Dead(core, v)
    <2>1. Alive' = Alive \cup {t} /\ t \notin Alive
      BY <1>1, <1>2, <1>3, <1>6, Zenon
    <2>2. Cardinality(Alive \cup {t}) = Cardinality(Alive) + 1
      BY <1>1, <2>1, FS_AddElement, Zenon
    <2> QED
      BY <1>1, <1>6, <2>1, <2>2, Zenon
  <1>7. CASE /\ no_tasks' = no_tasks - 1 /\ t \in tasks /\ tasks' = tasks /\ ~Dead(core, t)
             /\ \A v \in Tasks : Dead(core', v) <=> Dead(core, v) \/ v = t
    <2>1. Alive' = Alive \ {t} /\ t \in Alive
      BY <1>1, <1>2, <1>3, <1>7, Zenon
    <2>2. Cardinality(Alive \ {t}) = Cardinality(Alive) - 1
      BY <1>1, <2>1, FS_RemoveElement, Zenon
    <2> QED
      BY <1>1, <1>7, <2>1, <2>2, Zenon
  <1> QED
    BY <1>5, <1>6, <1>7, Zenon

-----------------------------------------------------------------------------
(***************************************************************************)
(* The invariant.                                                          *)
(***************************************************************************)
LEMMA LifeStarts ==
  ASSUME RootAssumption, Init
  PROVE  LifeInv
  <1> USE SMTT(30)
  <1> DEFINE hs == <<Root>>
  <1>1. hs \in Seq(Tasks) /\ IsInjective(hs) /\ Range(hs) = {Root}
    BY DEF RootAssumption, IsInjective, Range
  <1>2. SchedulerInit(hs)
    BY Zenon DEF Init
  <1> HIDE DEF hs
  <1>3. /\ AllSound
        /\ \A c \in Cores : /\ core[c].blocked_tasks = {} /\ core[c].wakeup_tasks = <<>>
                            /\ core[c].new_tasks = <<>> /\ ~core[c].panicked
    BY <1>1, <1>2, InitIsSound
  <1>4. \A t \in Tasks : /\ StatusOf(t) = IF t = Root THEN "Ready" ELSE "New"
                         /\ Home[t] \in Cores
    <2> SUFFICES ASSUME NEW t \in Tasks
                 PROVE  StatusOf(t) = (IF t = Root THEN "Ready" ELSE "New") /\ Home[t] \in Cores
      OBVIOUS
    <2>1. Home[t] \in Cores /\ t \in TasksOf(Home[t])
      BY HomeAssumption DEF TasksOf
    <2> DEFINE c == Home[t]
    <2>2. core[c].status = [u \in TasksOf(c) |-> IF u \in Range(hs) THEN "Ready" ELSE "New"]
      BY <1>2, <2>1, Zenon DEF SchedulerInit
    <2> QED
      BY <1>1, <2>1, <2>2 DEF StatusOf
  <1>5. \A t \in Tasks : /\ ~Dead(core, t) /\ (t # Root => Unspawned(core, t))
                         /\ ~Sleeps(core, t) /\ ~Called(core, t) /\ Once(core[Home[t]].wakeup_tasks, t)
    BY <1>3, <1>4 DEF StatusOf, Dead, Over, Unspawned, Unborn, Range, Sleeps, Called, Once
  <1>6. /\ waiting_tasks = [t \in {Root} |-> <<>>] /\ tasks = {Root} /\ no_tasks = 1
        /\ pc = [t \in Tasks |-> "run"] /\ target = [t \in Tasks |-> nobody]
        /\ queue = [t \in Tasks |-> <<>>] /\ parent = [t \in Tasks |-> nobody]
        /\ due = [t \in Tasks |-> "none"]
    BY <1>2, Zenon DEF Init, SchedulerInit
  <1>7. Lives
    <2>1. \A t \in Tasks : LifeOf(t)
      BY <1>5, <1>6, Zenon DEF LifeOf, Exiting
    <2> QED
      BY <1>6, <2>1 DEF Lives, Labels, RootAssumption
  <1>8. /\ \A t \in Tasks : Waiting(t) = <<>> /\ queue[t] = <<>>
        /\ <<>> \in Seq(Tasks) /\ IsInjective(<<>>) /\ Range(<<>>) = {}
    BY <1>6 DEF Waiting, IsInjective, Range
  <1>9. Queues
    <2>1. queue \in [Tasks -> Seq(Tasks)]
      BY <1>6, <1>8, Zenon
    <2>2. \A t \in Tasks : pc[t] = "run"
      BY <1>6
    <2>3. \A t \in Tasks : queue[t] # <<>> <=> pc[t] = "wake"
      BY <1>8, <2>2
    <2> QED
      BY <1>8, <2>1, <2>3, Zenon DEF Queues
  <1>10. \A t \in Tasks : Holders[t] = {}
    BY <1>8 DEF Holders, Held
  <1>11. Sleepers
    <2> DEFINE H == Holders
    <2>1. \A t \in Tasks : H[t] = {}
      BY <1>10
    <2> HIDE DEF H
    <2>2. Slumber(core, HandlesIn(H)) /\ Linked(core, pc, target, H)
      BY <1>5, <2>1, Zenon DEF Slumber, Linked, HandlesIn
    <2>3. Calm(core)
      BY <1>3 DEF Calm
    <2> QED
      BY <1>3, <1>6, <2>2, <2>3, Zenon DEF Sleepers, H
  <1>12. TaskCount
    <2>1. {t \in tasks : StatusOf(t) \notin Ended} = {Root}
      BY <1>4, <1>6 DEF Ended, RootAssumption
    <2>2. Cardinality({Root}) = 1
      BY FS_Singleton, Zenon
    <2> QED
      BY <1>6, <2>1, <2>2, Zenon DEF TaskCount
  <1> QED
    BY <1>7, <1>9, <1>11, <1>12, Zenon DEF LifeInv

LEMMA TaskStepKept ==
  ASSUME RootAssumption, LifeInv, NEW t \in Tasks, TaskStep(t)
  PROVE  LifeInv'
  <1>1. Lives /\ Queues /\ Sleepers /\ TaskCount
    BY Zenon DEF LifeInv
  <1>2. ASSUME Kept, SameDead(core, core'), no_tasks' = no_tasks, tasks' = tasks
        PROVE  LifeInv'
    <2>1. Lives' /\ \A v \in Tasks : Dead(core', v) <=> Dead(core, v)
      BY <1>2, Zenon DEF Kept, SameDead
    <2>2. TaskCount'
      BY <1>1, <1>2, <2>1, CountKept, Zenon
    <2> QED
      BY <1>2, <2>2, Zenon DEF Kept, LifeInv
  <1>3. ASSUME NEW u \in Tasks, spawn(t, u) PROVE LifeInv'
    <2>1. Kept /\ SameDead(core, core')
      BY <1>1, <1>3, spawn_Kept, Zenon
    <2> QED
      BY <1>2, <1>3, <2>1, Zenon DEF spawn, tables
  <1>4. ASSUME NEW u \in Tasks, join(t, u) PROVE LifeInv'
    <2>1. Kept /\ SameDead(core, core')
      BY <1>1, <1>4, join_Kept, Zenon
    <2> QED
      BY <1>2, <1>4, <2>1, Zenon DEF join, tables
  <1>5. CASE spawn_insert(t)
    <2>1. /\ Kept
          /\ target[t] \in Tasks \ tasks /\ tasks' = tasks \cup {target[t]}
          /\ \A v \in Tasks : Dead(core', v) <=> Dead(core, v)
      BY <1>1, <1>5, spawn_insert_Kept, Zenon
    <2>2. PICK u : u = target[t]
      BY Zenon
    <2>3. u \in Tasks /\ u \notin tasks /\ tasks' = tasks \cup {u} /\ Lives' /\ no_tasks' = no_tasks + 1
      BY <1>5, <2>1, <2>2, Zenon DEF Kept, spawn_insert
    <2>4. ~Dead(core, u)
      BY <1>1, <2>3, Zenon DEF Lives, LifeOf, Unspawned, Unborn, Dead, Over
    <2>5. TaskCount'
      BY <1>1, <2>1, <2>3, <2>4, CountKept, Zenon
    <2> QED
      BY <2>1, <2>5, Zenon DEF Kept, LifeInv
  <1>6. CASE exit(t)
    <2>1. /\ Kept
          /\ t \in tasks /\ ~Dead(core, t) /\ tasks' = tasks
          /\ \A v \in Tasks : Dead(core', v) <=> Dead(core, v) \/ v = t
      BY <1>1, <1>6, exit_Kept, Zenon
    <2>2. no_tasks' = no_tasks - 1 /\ Lives'
      BY <1>6, <2>1, Zenon DEF exit, Kept
    <2>3. TaskCount'
      BY <1>1, <2>1, <2>2, CountKept, Zenon
    <2> QED
      BY <2>1, <2>3, Zenon DEF Kept, LifeInv
  <1>7. CASE join_return(t) \/ join_reschedule(t) \/ Continue(t) \/ exit_reschedule(t)
    <2>1. Kept /\ SameDead(core, core')
      BY <1>1, <1>7, onward_Kept, Zenon
    <2> QED
      BY <1>2, <1>7, <2>1, Zenon DEF join_return, join_reschedule, Continue, exit_reschedule, tables
  <1>8. CASE join_wait(t)
    <2>1. Kept /\ SameDead(core, core')
      BY <1>1, <1>8, join_wait_Kept, Zenon
    <2> QED
      BY <1>2, <1>8, <2>1, Zenon DEF join_wait
  <1>9. CASE exit_remove(t)
    <2>1. Kept /\ SameDead(core, core')
      BY <1>1, <1>9, exit_remove_Kept, Zenon
    <2> QED
      BY <1>2, <1>9, <2>1, Zenon DEF exit_remove
  <1>10. CASE exit_wake(t)
    <2>1. Kept /\ SameDead(core, core')
      BY <1>1, <1>10, exit_wake_Kept, Zenon
    <2> QED
      BY <1>2, <1>10, <2>1, Zenon DEF exit_wake, tables
  <1> QED
    BY <1>3, <1>4, <1>5, <1>6, <1>7, <1>8, <1>9, <1>10, Zenon DEF TaskStep

LEMMA LifeInvIsInvariant ==
  ASSUME RootAssumption
  PROVE  Spec => []LifeInv
  <1>1. Init => LifeInv
    BY LifeStarts
  <1>2. ASSUME LifeInv, [Next]_vars PROVE LifeInv'
    <2>1. ASSUME NEW t \in Tasks, TaskStep(t) PROVE LifeInv'
      BY <1>2, <2>1, TaskStepKept, Zenon
    <2>2. ASSUME NEW c \in Cores, Interrupt(c) \/ Idle(c) PROVE LifeInv'
      <3>1. UNCHANGED lvars /\ (timer_handler(c) \/ wakeup_handler(c) \/ run(c))
        BY <2>2, Zenon DEF Interrupt, Idle
      <3>2. Lives /\ Queues /\ Sleepers /\ TaskCount
        BY <1>2, Zenon DEF LifeInv
      <3>3. Queues' /\ Sleepers' /\ SameDead(core, core')
        BY <3>1, <3>2, CoreSleepers, Zenon
      <3>4. Lives'
        BY <3>1, <3>2, <3>3, CoreLives, Zenon
      <3>5. no_tasks' = no_tasks /\ tasks' = tasks /\ \A v \in Tasks : Dead(core', v) <=> Dead(core, v)
        BY <3>1, <3>3, Zenon DEF lvars, tables, SameDead
      <3>6. Root \in Tasks
        BY DEF RootAssumption
      <3>7. TaskCount'
        BY <3>2, <3>4, <3>5, <3>6, CountKept, Zenon
      <3> QED
        BY <3>3, <3>4, <3>7, Zenon DEF LifeInv
    <2>3. CASE UNCHANGED vars
      <3>1. /\ core' = core /\ due' = due /\ waiting_tasks' = waiting_tasks /\ tasks' = tasks
            /\ no_tasks' = no_tasks /\ pc' = pc /\ target' = target /\ queue' = queue /\ parent' = parent
        BY <2>3, Zenon DEF vars, lvars, tables
      <3>2. Lives' /\ TaskCount'
        BY <1>2, <3>1, ZenonT(60) DEF LifeInv, Lives, LifeOf, TaskCount, StatusOf
      <3>3. Holders' = Holders /\ Queues'
        BY <1>2, <3>1, Zenon DEF LifeInv, Queues, Holders, Held, Waiting
      <3>4. HandlesIn(Holders)' = HandlesIn(Holders)
        BY <3>3, Zenon DEF HandlesIn
      <3>5. Sleepers'
        BY <1>2, <3>1, <3>3, <3>4, Zenon DEF LifeInv, Sleepers, AllSound
      <3> QED
        BY <3>2, <3>3, <3>5, Zenon DEF LifeInv
    <2> QED
      BY <1>2, <2>1, <2>2, <2>3, Zenon DEF Next
  <1> QED
    BY <1>1, <1>2, PTL DEF Spec
-----------------------------------------------------------------------------
(***************************************************************************)
(* What follows.                                                           *)
(***************************************************************************)
\* spawn, join and exit never ask a scheduler for the impossible: exit wakes only tasks that are still
\* blocked, which custom_wakeup would answer with unreachable!() otherwise, and only a running task
\* blocks in join.
THEOREM LifeNeverPanics ==
  ASSUME RootAssumption
  PROVE  Spec => []NoPanic
  <1>1. LifeInv => NoPanic
    BY SMT DEF LifeInv, Sleepers, Calm, Panicked, NoPanic
  <1> QED
    BY <1>1, LifeInvIsInvariant, PTL

\* However the spawns and exits of all cores interleave, NO_TASKS is the number of tasks that have been
\* spawned and have not finished, those included that their core has not taken from its input yet.
THEOREM TaskCountCorrect ==
  ASSUME RootAssumption
  PROVE  Spec => []TaskCount
  <1>1. LifeInv => TaskCount
    BY Zenon DEF LifeInv
  <1> QED
    BY <1>1, LifeInvIsInvariant, PTL

\* While tasks spawn, join and exit, every task is where its status says it is, and there once.
THEOREM LifeOnePlace ==
  ASSUME RootAssumption
  PROVE  Spec => []OnePlace
  <1>1. LifeInv => OnePlace
    BY SoundIsOnePlace, Zenon DEF LifeInv, Sleepers
  <1> QED
    BY <1>1, LifeInvIsInvariant, PTL

\* No wake-up of join is lost or doubled: the handle of a task that sleeps in join is in exactly one
\* place of WAITING_TASKS, of what the exit of the joined task has still to wake, and of the wake-ups
\* in the input of the sleeper's core.
THEOREM JoinerIsReachableCorrect ==
  ASSUME RootAssumption
  PROVE  Spec => []JoinerIsReachable
  <1>1. ASSUME LifeInv PROVE JoinerIsReachable
    <2> USE SMTT(30)
    <2> SUFFICES ASSUME NEW t \in Tasks, t \in core[Home[t]].blocked_tasks
                 PROVE  LET s == Waiting(target[t]) \o queue[target[t]] \o core[Home[t]].wakeup_tasks
                        IN  \E i \in DOMAIN s : \A j \in DOMAIN s : s[j] = t <=> j = i
      BY Zenon DEF JoinerIsReachable
    <2> DEFINE s == Waiting(target[t]) \o queue[target[t]] \o core[Home[t]].wakeup_tasks
    <2> SUFFICES \E i \in DOMAIN s : \A j \in DOMAIN s : s[j] = t <=> j = i
      BY Zenon
    <2>1. /\ Lives /\ Queues /\ AllSound /\ Sleeps(core, t)
          /\ Slumber(core, HandlesIn(Holders)) /\ Linked(core, pc, target, Holders)
      BY <1>1, Zenon DEF LifeInv, Sleepers, Sleeps
    <2>2. PICK u : u = target[t]
      BY Zenon
    <2>3. /\ u \in Tasks /\ pc[t] \in {"join", "parked"}
          /\ t \in HandlesIn(Holders) \/ Called(core, t)
      BY <2>1, <2>2, Zenon DEF Lives, LifeOf, Linked
    <2>4. PICK w, q, k : w = Waiting(u) /\ q = queue[u] /\ k = core[Home[t]].wakeup_tasks
      BY Zenon
    <2>5. /\ w \in Seq(Tasks) /\ q \in Seq(Tasks) /\ IsInjective(w) /\ IsInjective(q)
          /\ w = <<>> \/ q = <<>>
      <3>1. q # <<>> => pc[u] = "wake"
        BY <2>1, <2>3, <2>4, Zenon DEF Queues
      <3>2. pc[u] = "wake" => w = <<>>
        BY <2>1, <2>4, Zenon DEF Lives, Waiting
      <3> QED
        BY <2>1, <2>3, <2>4, <3>1, <3>2, Zenon DEF Queues
    <2>6. k \in Seq(Tasks)
      <3>1. k \in Seq(TasksOf(Home[t]))
        BY <2>1, <2>4, HomeAssumption DEF AllSound, Sound, PerCoreScheduler
      <3> QED
        BY <3>1 DEF TasksOf
    <2>7. t \in HandlesIn(Holders) <=> t \in Range(w) \cup Range(q)
      <3>1. Holders[u] = Range(w) \cup Range(q)
        BY <2>3, <2>4, Zenon DEF Holders, Held
      <3>2. \A v \in Tasks : t \in Holders[v] => v = u
        BY <2>1, <2>2, Zenon DEF Linked
      <3> QED
        BY <2>3, <3>1, <3>2, Zenon DEF HandlesIn
    <2>8. Once(w, t) /\ Once(q, t) /\ Once(k, t)
      <3>1. Once(w, t) /\ Once(q, t)
        BY <2>5 DEF Once, IsInjective
      <3> QED
        BY <2>1, <2>4, <3>1, Zenon DEF Slumber
    <2>9. PICK p : p = w \o q
      BY Zenon
    <2>10. p \in Seq(Tasks) /\ Range(p) = Range(w) \cup Range(q) /\ Once(p, t)
      <3>1. t \notin Range(w) \/ t \notin Range(q)
        BY <2>5 DEF Range
      <3> QED
        BY <2>5, <2>8, <2>9, <3>1, ConcatIs, Zenon
    <2>11. t \in Range(p) <=> t \notin Range(k)
      BY <2>1, <2>3, <2>4, <2>7, <2>10, Zenon DEF Slumber, Called
    <2>12. s = p \o k
      BY <2>2, <2>4, <2>9, Zenon
    <2> HIDE DEF s
    <2>13. Range(s) = Range(p) \cup Range(k) /\ Once(s, t)
      <3>1. /\ Range(p \o k) = Range(p) \cup Range(k)
            /\ (Once(p, t) /\ t \notin Range(k)) \/ (t \notin Range(p) /\ Once(k, t)) => Once(p \o k, t)
        BY <2>6, <2>10, ConcatIs, Zenon
      <3> QED
        BY <2>8, <2>10, <2>11, <2>12, <3>1, Zenon
    <2>14. t \in Range(s)
      BY <2>11, <2>13, Zenon
    <2>15. PICK i \in DOMAIN s : s[i] = t
      BY <2>14, Zenon DEF Range
    <2>16. \A j \in DOMAIN s : s[j] = t <=> j = i
      BY <2>13, <2>15, Zenon DEF Once
    <2> QED
      BY <2>16, Zenon
  <1> QED
    BY <1>1, LifeInvIsInvariant, PTL

\* join returns only when the task it was called for has finished: a task is missing from WAITING_TASKS
\* only before its spawn and after its exit, and a task joins only what it has spawned.
THEOREM JoinedIsOverCorrect ==
  ASSUME RootAssumption
  PROVE  Spec => []JoinedIsOver
  <1>1. ASSUME LifeInv PROVE JoinedIsOver
    <2> SUFFICES ASSUME NEW t \in Tasks, pc[t] = "joined"
                 PROVE  StatusOf(target[t]) \in Ended
      BY Zenon DEF JoinedIsOver
    <2>1. target[t] \in Tasks /\ target[t] \in tasks /\ target[t] \notin DOMAIN waiting_tasks
      BY <1>1, Zenon DEF LifeInv, Lives, LifeOf
    <2>2. pc[target[t]] \in Exiting
      BY <1>1, <2>1, SMT DEF LifeInv, Lives, Exiting
    <2>3. Dead(core, target[t])
      BY <1>1, <2>1, <2>2, Zenon DEF LifeInv, Lives, LifeOf
    <2> QED
      BY <2>3, Zenon DEF Dead, Over, StatusOf, Ended
  <1> QED
    BY <1>1, LifeInvIsInvariant, PTL

\* What the invariant does not say of the two locks and of who has been joined.
LockTypes ==
    /\ waiting_lock \in Tasks \cup {nobody}
    /\ input_lock \in [Cores -> Tasks \cup {nobody}]
    /\ joined \subseteq Tasks

\* The tables, the locks and the places of the tasks keep their types, and NO_TASKS, which the code
\* keeps unsigned, does not fall below zero.
THEOREM LifeTypeCorrect ==
  ASSUME RootAssumption
  PROVE  Spec => []TypeOK
  <1>1. Init => LockTypes
    BY SMT DEF Init, LockTypes
  <1>2. ASSUME LockTypes, [Next]_vars PROVE LockTypes'
    <2>1. ASSUME NEW t \in Tasks, TaskStep(t) PROVE LockTypes'
      BY <1>2, <2>1, ZenonT(60) DEF LockTypes, TaskStep, spawn, spawn_insert, join, join_return, join_wait,
         join_reschedule, Continue, exit, exit_remove, exit_wake, exit_reschedule, locks
    <2>2. CASE UNCHANGED lvars
      BY <1>2, <2>2, Zenon DEF LockTypes, lvars, locks
    <2> QED
      BY <1>2, <2>1, <2>2, Zenon DEF Next, Interrupt, Idle, vars
  <1>3. ASSUME LifeInv, LockTypes PROVE TypeOK
    <2> USE SMTT(30)
    <2>1. Lives /\ Queues /\ Sleepers /\ TaskCount
      BY <1>3, Zenon DEF LifeInv
    <2>2. SchedulerTypeOK
      BY <2>1 DEF Sleepers, AllSound, Sound, SchedulerTypeOK, Dues
    <2>3. no_tasks \in 0 .. Cardinality(Tasks)
      BY <2>1, AliveAre, Zenon DEF TaskCount, Alive
    <2>4. DOMAIN waiting_tasks \subseteq Tasks /\ tasks \subseteq Tasks
      BY <2>1 DEF Lives
    <2>5. \A t \in DOMAIN waiting_tasks : waiting_tasks[t] \in Seq(Tasks)
      BY <2>1, <2>4, Zenon DEF Queues, Waiting
    <2> QED
      BY <1>3, <2>1, <2>2, <2>3, <2>4, <2>5, Zenon DEF TypeOK, Lives, Queues, LockTypes, Labels
  <1> QED
    BY <1>1, <1>2, <1>3, LifeInvIsInvariant, PTL DEF Spec
==============================================================================

--------------------------- MODULE SchedulerProofs ---------------------------
(***************************************************************************)
(* What the operations of the schedulers do to the queues, for any number  *)
(* of cores and tasks and any priorities.  The first part is about the     *)
(* queues: sorting by priority and removing handles rearrange a queue and  *)
(* neither lose nor repeat a handle.  The second part shows that every     *)
(* operation of PerCoreScheduler keeps a scheduler sound: each task is in  *)
(* the one queue that its status names.  The third part lifts this to the  *)
(* actions that enter the scheduler.  The last part, Slumber, is what the  *)
(* schedulers and a queue of handles of tasks that sleep without deadline  *)
(* agree on.  The proofs about the primitives that tasks block on, and     *)
(* about their lives, cite these lemmas.                                   *)
(***************************************************************************)
EXTENDS Scheduler, FiniteSetTheorems, WellFoundedInduction, TLAPS

\* The indices of a sequence of length n.
LEMMA UpTo ==
  ASSUME NEW n \in Nat
  PROVE  IsFiniteSet(1 .. n) /\ Cardinality(1 .. n) = n
  BY FS_Interval, SMT

\* Every non-empty set of indices has a least element.
LEMMA LeastIndex ==
  ASSUME NEW I \in SUBSET Nat, I # {}
  PROVE  \E n \in I : \A m \in I : n <= m
  <1>1. IsWellFoundedOn(OpToRel(<, Nat), Nat)
    BY NatLessThanWellFounded, Zenon
  <1>2. PICK n \in I : \A m \in I : ~(<<m, n>> \in OpToRel(<, Nat))
    BY <1>1, WFMin, Zenon
  <1>3. \A m \in I : ~(m < n)
    BY <1>2, Zenon DEF OpToRel
  <1> QED
    BY <1>3

\* A ranking of finitely many things by the numbers from 1 on, without gaps and ties.
Ranks(rank, D) ==
    /\ IsFiniteSet(D)
    /\ rank \in [D -> 1 .. Cardinality(D)]
    /\ \A i, j \in D : rank[i] = rank[j] => i = j

\* It reaches every number.
LEMMA RankingIsOnto ==
  ASSUME NEW rank, NEW D, Ranks(rank, D), NEW k \in 1 .. Cardinality(D)
  PROVE  \E i \in D : rank[i] = k
  <1> USE SMTT(30)
  <1>1. Cardinality(D) \in Nat
    BY FS_CardinalityType DEF Ranks
  <1>2. PICK n \in Nat : n = Cardinality(D)
    BY <1>1
  <1>3. IsFiniteSet(1 .. n) /\ Cardinality(1 .. n) = n
    BY UpTo
  <1>4. rank \in Injection(D, 1 .. n)
    BY <1>2 DEF Injection, IsInjective, Ranks
  <1>5. rank \in Surjection(D, 1 .. n)
    BY <1>2, <1>3, <1>4, FS_Injection
  <1> QED
    BY <1>2, <1>5 DEF Surjection

\* Position k of out holds the element of s that has rank k.
Arranged(out, s, D, rank) ==
    /\ Len(out) = Cardinality(D)
    /\ \A i \in D : rank[i] \in DOMAIN out /\ out[rank[i]] = s[i]
    /\ \A k \in DOMAIN out : \E i \in D : rank[i] = k

\* That is what Arrange returns.
LEMMA ArrangeIs ==
  ASSUME NEW S, NEW s \in Seq(S), NEW D \in SUBSET DOMAIN s, NEW rank, Ranks(rank, D)
  PROVE  Arrange(s, rank) \in Seq(S) /\ Arranged(Arrange(s, rank), s, D, rank)
  <1> USE SMTT(30)
  <1>1. PICK n \in Nat : n = Cardinality(D)
    BY FS_CardinalityType DEF Ranks
  <1>2. DOMAIN rank = D
    BY DEF Ranks
  <1> DEFINE at(k) == CHOOSE i \in D : rank[i] = k
  <1> DEFINE out == Arrange(s, rank)
  <1>3. \A k \in 1 .. n : at(k) \in D /\ rank[at(k)] = k
    BY <1>1, RankingIsOnto
  <1>4. out = [k \in 1 .. n |-> s[at(k)]]
    BY <1>1, <1>2 DEF Arrange
  <1> HIDE DEF at
  <1>5. out \in [1 .. n -> S]
    BY <1>3, <1>4
  <1>6. out \in Seq(S) /\ Len(out) = n /\ DOMAIN out = 1 .. n
    BY <1>5
  <1>7. \A i \in D : rank[i] \in 1 .. n /\ at(rank[i]) = i
    BY <1>1, <1>3 DEF Ranks
  <1>8. \A i \in D : rank[i] \in 1 .. n /\ out[rank[i]] = s[i]
    BY <1>4, <1>7
  <1>9. \A k \in 1 .. n : \E i \in D : rank[i] = k
    BY <1>3
  <1> HIDE DEF out
  <1> QED
    BY <1>1, <1>6, <1>8, <1>9 DEF out, Arranged

\* Counting what is not after each thing ranks things that are linearly ordered.
LEMMA CountingRanks ==
  ASSUME NEW D, IsFiniteSet(D), NEW below \in [D -> SUBSET D],
         \A i \in D : i \in below[i],
         \A i, j \in D : i # j => (below[i] \subseteq below[j] /\ j \notin below[i])
            \/ (below[j] \subseteq below[i] /\ i \notin below[j])
  PROVE  Ranks([i \in D |-> Cardinality(below[i])], D)
  <1> USE SMTT(30)
  <1>1. Cardinality(D) \in Nat
    BY FS_CardinalityType
  <1>2. \A i \in D : IsFiniteSet(below[i]) /\ Cardinality(below[i]) <= Cardinality(D)
    BY FS_Subset
  <1>3. \A i \in D : Cardinality(below[i]) \in Nat
    BY <1>2, FS_CardinalityType
  <1>4. \A i \in D : Cardinality(below[i]) # 0
    BY <1>2, FS_EmptySet
  <1>5. \A i, j \in D : below[i] \subseteq below[j] /\ j \notin below[i]
                        => Cardinality(below[i]) # Cardinality(below[j])
    BY <1>2, FS_Subset
  <1>6. \A i, j \in D : Cardinality(below[i]) = Cardinality(below[j]) => i = j
    BY <1>5
  <1>7. \A i \in D : Cardinality(below[i]) \in 1 .. Cardinality(D)
    BY <1>1, <1>2, <1>3, <1>4
  <1> QED
    BY <1>6, <1>7 DEF Ranks

\* What a rearrangement keeps: the elements of s at the indices D, each once.
Rearranges(out, s, D) ==
    /\ Len(out) = Cardinality(D)
    /\ Range(out) = {s[i] : i \in D}
    /\ (\A i, j \in D : s[i] = s[j] => i = j) => IsInjective(out)

\* Arranging by a ranking keeps the handles, each as often as it was among the ranked indices.
LEMMA ArrangeRearranges ==
  ASSUME NEW S, NEW s \in Seq(S), NEW D \in SUBSET DOMAIN s, NEW rank, Ranks(rank, D),
         NEW T, \A i \in D : s[i] \in T
  PROVE  Arrange(s, rank) \in Seq(T) /\ Rearranges(Arrange(s, rank), s, D)
  <1> USE SMTT(30)
  <1> DEFINE out == Arrange(s, rank)
  <1>1. out \in Seq(S) /\ Arranged(out, s, D, rank)
    BY ArrangeIs
  <1> HIDE DEF out
  <1> USE DEF Arranged
  <1>2. \A k \in DOMAIN out : out[k] \in T
    BY <1>1
  <1>3. out \in Seq(T)
    BY <1>1, <1>2
  <1>4. Range(out) = {s[i] : i \in D}
    BY <1>1 DEF Range
  <1>5. (\A i, j \in D : s[i] = s[j] => i = j) => IsInjective(out)
    BY <1>1 DEF IsInjective
  <1> QED
    BY <1>1, <1>3, <1>4, <1>5 DEF Rearranges, out

\* The indices of a sequence, and those with a property, are finitely many.
LEMMA IndicesAreFinite ==
  ASSUME NEW S, NEW s \in Seq(S), NEW D \in SUBSET DOMAIN s
  PROVE  IsFiniteSet(D) /\ D \subseteq Nat
  <1> USE SMTT(30)
  <1>1. Len(s) \in Nat /\ DOMAIN s = 1 .. Len(s)
    OBVIOUS
  <1>2. IsFiniteSet(DOMAIN s)
    BY <1>1, UpTo
  <1> QED
    BY <1>1, <1>2, FS_Subset

\* Picking indices keeps the elements there and no others.
LEMMA PickIs ==
  ASSUME NEW S, NEW s \in Seq(S), NEW D \in SUBSET DOMAIN s, NEW T, \A i \in D : s[i] \in T
  PROVE  Pick(s, D) \in Seq(T) /\ Rearranges(Pick(s, D), s, D)
  <1> USE SMTT(30)
  <1> DEFINE below == [i \in D |-> {j \in D : j <= i}]
  <1> DEFINE rank == [i \in D |-> Cardinality(below[i])]
  <1>1. IsFiniteSet(D) /\ D \subseteq Nat
    BY IndicesAreFinite
  <1>2. below \in [D -> SUBSET D] /\ \A i \in D : i \in below[i]
    BY <1>1
  <1>3. \A i, j \in D : i # j => (below[i] \subseteq below[j] /\ j \notin below[i])
            \/ (below[j] \subseteq below[i] /\ i \notin below[j])
    BY <1>1
  <1>4. rank = [i \in D |-> Cardinality({j \in D : j <= i})]
    BY Zenon
  <1> HIDE DEF below
  <1>5. Ranks(rank, D)
    BY <1>1, <1>2, <1>3, CountingRanks
  <1> HIDE DEF rank
  <1>6. Pick(s, D) = Arrange(s, rank)
    BY <1>4 DEF Pick
  <1> QED
    BY <1>5, <1>6, ArrangeRearranges

\* Sorting a queue by priority neither loses nor repeats a handle.
LEMMA InOrderIs ==
  ASSUME NEW T \in SUBSET Tasks, NEW s \in Seq(T)
  PROVE  InOrder(s) \in Seq(T) /\ Rearranges(InOrder(s), s, DOMAIN s)
  <1> USE SMTT(30)
  <1> DEFINE D == DOMAIN s
  <1> DEFINE below == [i \in D |-> {j \in D : NotAfter(s, j, i)}]
  <1> DEFINE rank == [i \in D |-> Cardinality(below[i])]
  <1>1. IsFiniteSet(D) /\ D \subseteq Nat
    BY IndicesAreFinite
  <1>2. \A i \in D : s[i] \in T /\ Prio[s[i]] \in Nat
    BY PrioAssumption
  <1>3. below \in [D -> SUBSET D] /\ \A i \in D : i \in below[i]
    BY <1>1, <1>2 DEF NotAfter
  <1>4. \A i, j \in D : i # j => (below[i] \subseteq below[j] /\ j \notin below[i])
            \/ (below[j] \subseteq below[i] /\ i \notin below[j])
    BY <1>1, <1>2 DEF NotAfter
  <1>5. rank = [i \in D |-> Cardinality({j \in D : NotAfter(s, j, i)})]
    BY Zenon
  <1> HIDE DEF below
  <1>6. Ranks(rank, D)
    BY <1>1, <1>3, <1>4, CountingRanks
  <1> HIDE DEF rank
  <1>7. InOrder(s) = Arrange(s, rank)
    BY <1>5 DEF InOrder
  <1> QED
    BY <1>2, <1>6, <1>7, ArrangeRearranges

-----------------------------------------------------------------------------
(***************************************************************************)
(* The operations of one PerCoreScheduler keep every task in the queue     *)
(* that its status names.                                                  *)
(***************************************************************************)
WithStatus(x, st) == {t \in DOMAIN x.status : x.status[t] = st}

\* OnePlace for one scheduler, as the proofs use it.
Placed(x) ==
    /\ IsInjective(x.ready_queue) /\ Range(x.ready_queue) = WithStatus(x, "Ready")
    /\ IsInjective(x.new_tasks) /\ Range(x.new_tasks) \subseteq WithStatus(x, "New")
    /\ x.blocked_tasks = WithStatus(x, "Blocked")
    /\ x.finished_tasks = WithStatus(x, "Invalid")
    /\ WithStatus(x, "Running") \cup WithStatus(x, "Finished") \subseteq {x.current_task}
    /\ x.current_task \notin WithStatus(x, "New") \cup WithStatus(x, "Invalid") \cup WithStatus(x, "Freed")

Sound(x, c) == x \in PerCoreScheduler(c) /\ Placed(x)

\* The task has ended, or is not spawned yet.
Over(x, t) == x.status[t] \in {"Finished", "Invalid", "Freed"}
Unborn(x, t) == x.status[t] = "New" /\ t \notin Range(x.new_tasks)

\* From x to y no task of core c ends or is born.
SameLives(x, y, c) == \A t \in TasksOf(c) : (Over(y, t) <=> Over(x, t)) /\ (Unborn(x, t) => Unborn(y, t))

LEMMA SameLivesTwice ==
  ASSUME NEW c, NEW x, NEW y, NEW z, SameLives(x, y, c), SameLives(y, z, c)
  PROVE  SameLives(x, z, c)
  BY Zenon DEF SameLives

\* A running task that blocks moves to the blocked queue.
LEMMA BlockKeeps ==
  ASSUME NEW c \in Cores, NEW x, Sound(x, c), current_status(x) = "Running"
  PROVE  LET y == block_current_task(x) IN
         /\ Sound(y, c)
         /\ y.blocked_tasks = x.blocked_tasks \cup {x.current_task}
         /\ y.current_task = x.current_task
         /\ y.wakeup_tasks = x.wakeup_tasks
         /\ y.new_tasks = x.new_tasks
         /\ y.panicked = x.panicked
         /\ SameLives(x, y, c)
  <1> USE SMTT(30)
  <1> DEFINE y == block_current_task(x)
  <1>1. x.current_task \in TasksOf(c) /\ x.status[x.current_task] = "Running"
    BY DEF Sound, PerCoreScheduler, current_status
  <1>2. y = [x EXCEPT !.status[x.current_task] = "Blocked",
                     !.blocked_tasks = @ \cup {x.current_task}]
    BY DEF block_current_task
  <1>3. [x.status EXCEPT ![x.current_task] = "Blocked"] \in [TasksOf(c) -> Status]
    BY <1>1 DEF Sound, PerCoreScheduler, Status
  <1>4. x.blocked_tasks \cup {x.current_task} \in SUBSET TasksOf(c)
    BY <1>1 DEF Sound, PerCoreScheduler
  <1>5. y \in PerCoreScheduler(c)
    BY <1>2, <1>3, <1>4, Zenon DEF Sound, PerCoreScheduler
  <1>6. Placed(y)
    BY <1>1 DEF Sound, PerCoreScheduler, block_current_task, Placed, WithStatus
  <1>7. SameLives(x, y, c)
    BY <1>1 DEF Sound, PerCoreScheduler, block_current_task, SameLives, Over, Unborn
  <1> QED
    BY <1>5, <1>6, <1>7 DEF Sound, PerCoreScheduler, block_current_task

\* Pushing the tasks ts onto the queue q.
LEMMA PushesAre ==
  ASSUME NEW T \in SUBSET Tasks, NEW q \in Seq(T), NEW ts \in Seq(T)
  PROVE  /\ InOrder(q \o ts) \in Seq(T)
         /\ Range(InOrder(q \o ts)) = Range(q) \cup Range(ts)
         /\ IsInjective(q) /\ IsInjective(ts) /\ Range(q) \cap Range(ts) = {}
              => IsInjective(InOrder(q \o ts))
  <1> USE SMTT(30)
  <1> DEFINE s == q \o ts
  <1>1. /\ s \in Seq(T)
        /\ Len(s) = Len(q) + Len(ts)
        /\ \A i \in 1 .. Len(q) : s[i] = q[i]
        /\ \A i \in 1 .. Len(ts) : s[Len(q) + i] = ts[i]
        /\ Len(q) \in Nat /\ Len(ts) \in Nat
        /\ DOMAIN q = 1 .. Len(q) /\ DOMAIN ts = 1 .. Len(ts) /\ DOMAIN s = 1 .. Len(s)
    OBVIOUS
  <1> HIDE DEF s
  <1>2. \A i \in DOMAIN s : i \in DOMAIN q \/ (i - Len(q) \in DOMAIN ts /\ s[i] = ts[i - Len(q)])
    BY <1>1
  <1>3. Range(s) = Range(q) \cup Range(ts)
    <2>1. Range(s) \subseteq Range(q) \cup Range(ts)
      BY <1>1, <1>2 DEF Range
    <2>2. \A i \in DOMAIN q : i \in DOMAIN s /\ s[i] = q[i]
      BY <1>1
    <2>3. \A i \in DOMAIN ts : Len(q) + i \in DOMAIN s /\ s[Len(q) + i] = ts[i]
      BY <1>1
    <2>4. Range(q) \subseteq Range(s)
      BY <2>2 DEF Range
    <2>5. Range(ts) \subseteq Range(s)
      BY <2>3 DEF Range
    <2> QED
      BY <2>1, <2>4, <2>5
  <1>4. IsInjective(q) /\ IsInjective(ts) /\ Range(q) \cap Range(ts) = {} => IsInjective(s)
    <2> SUFFICES ASSUME IsInjective(q), IsInjective(ts), Range(q) \cap Range(ts) = {},
                        NEW i \in DOMAIN s, NEW j \in DOMAIN s, s[i] = s[j]
                 PROVE  i = j
      BY DEF IsInjective
    <2>1. \A k \in DOMAIN s : k \in DOMAIN q => s[k] \in Range(q)
      BY <1>1 DEF Range
    <2>2. \A k \in DOMAIN s : k \notin DOMAIN q => s[k] \in Range(ts)
      BY <1>2 DEF Range
    <2>3. CASE i \in DOMAIN q /\ j \in DOMAIN q
      BY <1>1, <2>3 DEF IsInjective
    <2>4. CASE i \in DOMAIN q /\ j \notin DOMAIN q
      BY <2>1, <2>2, <2>4
    <2>5. CASE i \notin DOMAIN q /\ j \in DOMAIN q
      BY <2>1, <2>2, <2>5
    <2>6. CASE i \notin DOMAIN q /\ j \notin DOMAIN q
      <3>1. i - Len(q) = j - Len(q)
        BY <1>2, <2>6 DEF IsInjective
      <3> QED
        BY <1>1, <3>1
    <2> QED
      BY <2>3, <2>4, <2>5, <2>6
  <1>5. InOrder(s) \in Seq(T) /\ Rearranges(InOrder(s), s, DOMAIN s)
    BY <1>1, InOrderIs
  <1>6. Range(InOrder(s)) = Range(s) /\ (IsInjective(s) => IsInjective(InOrder(s)))
    BY <1>5, Zenon DEF Rearranges, Range, IsInjective
  <1> QED
    BY <1>3, <1>4, <1>5, <1>6 DEF s

\* Tasks that are neither ready nor current are made ready; they still have to be taken off the
\* queue that held them.
LEMMA MakeReadyIs ==
  ASSUME NEW c \in Cores, NEW x, Sound(x, c), NEW ts \in Seq(TasksOf(c))
  PROVE  LET y == make_ready(x, ts) IN
         /\ y \in PerCoreScheduler(c)
         /\ y.status = [t \in TasksOf(c) |-> IF t \in Range(ts) THEN "Ready" ELSE x.status[t]]
         /\ Range(y.ready_queue) = Range(x.ready_queue) \cup Range(ts)
         /\ IsInjective(ts) /\ Range(x.ready_queue) \cap Range(ts) = {} => IsInjective(y.ready_queue)
         /\ y.blocked_tasks = x.blocked_tasks /\ y.finished_tasks = x.finished_tasks
         /\ y.current_task = x.current_task /\ y.wakeup_tasks = x.wakeup_tasks
         /\ y.new_tasks = x.new_tasks /\ y.panicked = x.panicked
  <1> USE SMTT(30)
  <1> DEFINE y == make_ready(x, ts)
  <1> DEFINE q == InOrder(x.ready_queue \o ts)
  <1> DEFINE st == [t \in TasksOf(c) |-> IF t \in Range(ts) THEN "Ready" ELSE x.status[t]]
  <1>1. /\ TasksOf(c) \subseteq Tasks /\ x.ready_queue \in Seq(TasksOf(c)) /\ x \in PerCoreScheduler(c)
        /\ x.status \in [TasksOf(c) -> Status] /\ IsInjective(x.ready_queue)
    BY DEF Sound, Placed, PerCoreScheduler, TasksOf
  <1>2. CASE ts = <<>>
    <2>1. Range(ts) = {} /\ y = x
      BY <1>2 DEF Range, make_ready
    <2> QED
      BY <1>1, <2>1
  <1>3. CASE ts # <<>>
    <2>1. y = [x EXCEPT !.status = st, !.ready_queue = q]
      <3>1. DOMAIN x.status = TasksOf(c)
        BY <1>1
      <3> QED
        BY <1>3, <3>1, Zenon DEF make_ready
    <2>2. /\ q \in Seq(TasksOf(c)) /\ Range(q) = Range(x.ready_queue) \cup Range(ts)
          /\ IsInjective(ts) /\ Range(x.ready_queue) \cap Range(ts) = {} => IsInjective(q)
      BY <1>1, PushesAre
    <2>3. st \in [TasksOf(c) -> Status]
      BY <1>1 DEF Status
    <2> HIDE DEF y, q, st
    <2>4. y \in PerCoreScheduler(c)
      BY <1>1, <2>1, <2>2, <2>3, Zenon DEF PerCoreScheduler
    <2>5. /\ y.status = st /\ y.ready_queue = q
          /\ y.blocked_tasks = x.blocked_tasks /\ y.finished_tasks = x.finished_tasks
          /\ y.current_task = x.current_task /\ y.wakeup_tasks = x.wakeup_tasks
          /\ y.new_tasks = x.new_tasks /\ y.panicked = x.panicked
      BY <1>1, <2>1 DEF PerCoreScheduler
    <2> QED
      BY <2>2, <2>4, <2>5 DEF y, st
  <1> QED
    BY <1>2, <1>3

\* Waking blocked tasks moves them to the ready queue.
LEMMA WakeKeeps ==
  ASSUME NEW c \in Cores, NEW x, Sound(x, c),
         NEW ts \in Seq(TasksOf(c)), IsInjective(ts), Range(ts) \subseteq x.blocked_tasks
  PROVE  LET y == wake(x, ts) IN
         /\ Sound(y, c)
         /\ y.blocked_tasks = x.blocked_tasks \ Range(ts)
         /\ y.current_task = x.current_task
         /\ y.wakeup_tasks = x.wakeup_tasks
         /\ y.new_tasks = x.new_tasks
         /\ y.panicked = x.panicked
         /\ SameLives(x, y, c)
  <1> USE SMTT(30)
  <1> DEFINE w == make_ready(x, ts)
  <1> DEFINE y == wake(x, ts)
  <1> DEFINE b == x.blocked_tasks \ Range(ts)
  <1>1. Range(x.ready_queue) \cap Range(ts) = {}
    BY DEF Sound, Placed, WithStatus
  <1>2. /\ w \in PerCoreScheduler(c)
        /\ w.status = [t \in TasksOf(c) |-> IF t \in Range(ts) THEN "Ready" ELSE x.status[t]]
        /\ Range(w.ready_queue) = Range(x.ready_queue) \cup Range(ts)
        /\ IsInjective(w.ready_queue)
        /\ w.blocked_tasks = x.blocked_tasks /\ w.finished_tasks = x.finished_tasks
        /\ w.current_task = x.current_task /\ w.wakeup_tasks = x.wakeup_tasks
        /\ w.new_tasks = x.new_tasks /\ w.panicked = x.panicked
    BY <1>1, MakeReadyIs
  <1>3. y = [w EXCEPT !.blocked_tasks = b]
    BY <1>2 DEF wake
  <1> HIDE DEF w, y
  <1>4. b \in SUBSET TasksOf(c)
    BY <1>2 DEF PerCoreScheduler
  <1>5. y \in PerCoreScheduler(c)
    BY <1>2, <1>3, <1>4, Zenon DEF PerCoreScheduler
  <1>6. /\ y.blocked_tasks = b /\ y.status = w.status /\ y.ready_queue = w.ready_queue
        /\ y.current_task = w.current_task /\ y.wakeup_tasks = w.wakeup_tasks
        /\ y.new_tasks = w.new_tasks /\ y.finished_tasks = w.finished_tasks
        /\ y.panicked = w.panicked
    BY <1>2, <1>3 DEF PerCoreScheduler
  <1>7. DOMAIN x.status = TasksOf(c)
    BY DEF Sound, PerCoreScheduler
  <1>8. Placed(y)
    BY <1>2, <1>6, <1>7 DEF Placed, Sound, WithStatus
  <1>9. SameLives(x, y, c)
    BY <1>2, <1>6, <1>7 DEF SameLives, Over, Unborn, Sound, Placed, WithStatus
  <1> QED
    BY <1>2, <1>5, <1>6, <1>8, <1>9 DEF Sound, y

\* The handles that custom_wakeup finds are those of the blocked tasks, each once.
LEMMA FoundAre ==
  ASSUME NEW c \in Cores, NEW x, NEW hs \in Seq(TasksOf(c))
  PROVE  LET ts == Pick(hs, Found(x, hs)) IN
         /\ ts \in Seq(TasksOf(c))
         /\ IsInjective(ts)
         /\ Range(ts) = Range(hs) \cap x.blocked_tasks
         /\ Found(x, hs) # DOMAIN hs <=> ~(IsInjective(hs) /\ Range(hs) \subseteq x.blocked_tasks)
  <1> USE SMTT(30)
  <1> DEFINE F == Found(x, hs)
  <1> DEFINE ts == Pick(hs, F)
  <1>1. DOMAIN hs \subseteq Nat
    OBVIOUS
  <1>2. F \in SUBSET DOMAIN hs /\ \A i \in F : hs[i] \in TasksOf(c)
    BY DEF Found
  <1>3. ts \in Seq(TasksOf(c)) /\ Rearranges(ts, hs, F)
    BY <1>2, PickIs
  <1>4. \A i, j \in F : hs[i] = hs[j] => i = j
    BY <1>1 DEF Found
  <1>5. \A t \in Range(hs) \cap x.blocked_tasks : \E i \in F : hs[i] = t
    <2> SUFFICES ASSUME NEW t \in Range(hs) \cap x.blocked_tasks
                 PROVE  \E i \in F : hs[i] = t
      OBVIOUS
    <2> DEFINE I == {i \in DOMAIN hs : hs[i] = t}
    <2>1. I \in SUBSET Nat /\ I # {}
      BY <1>1 DEF Range
    <2>2. PICK n \in I : \A m \in I : n <= m
      BY <2>1, LeastIndex, Zenon
    <2>3. n \in F
      BY <1>1, <2>2 DEF Found
    <2> QED
      BY <2>2, <2>3
  <1>6. {hs[i] : i \in F} = Range(hs) \cap x.blocked_tasks
    BY <1>5 DEF Found, Range
  <1>7. F = DOMAIN hs <=> IsInjective(hs) /\ Range(hs) \subseteq x.blocked_tasks
    <2>1. F = DOMAIN hs => IsInjective(hs) /\ Range(hs) \subseteq x.blocked_tasks
      BY <1>4, <1>6 DEF IsInjective, Range
    <2>2. IsInjective(hs) /\ Range(hs) \subseteq x.blocked_tasks => F = DOMAIN hs
      <3> SUFFICES ASSUME IsInjective(hs), Range(hs) \subseteq x.blocked_tasks, NEW i \in DOMAIN hs
                   PROVE  i \in F
        BY <1>2, Zenon
      <3>1. hs[i] \in x.blocked_tasks
        BY DEF Range
      <3>2. \A j \in DOMAIN hs : j < i => hs[j] # hs[i]
        BY <1>1 DEF IsInjective
      <3> QED
        BY <3>1, <3>2 DEF Found
    <2> QED
      BY <2>1, <2>2
  <1> HIDE DEF F
  <1> QED
    BY <1>3, <1>4, <1>6, <1>7 DEF Rearranges, F

\* Waking by handles wakes the blocked tasks among them and panics for any other.
LEMMA CustomWakeupKeeps ==
  ASSUME NEW c \in Cores, NEW x, Sound(x, c), NEW hs \in Seq(TasksOf(c))
  PROVE  LET y == custom_wakeup_local(x, hs) IN
         /\ Sound(y, c)
         /\ y.blocked_tasks = x.blocked_tasks \ Range(hs)
         /\ y.current_task = x.current_task
         /\ y.wakeup_tasks = x.wakeup_tasks
         /\ y.new_tasks = x.new_tasks
         /\ y.panicked <=> x.panicked \/ ~(IsInjective(hs) /\ Range(hs) \subseteq x.blocked_tasks)
         /\ SameLives(x, y, c)
  <1> USE SMTT(30)
  <1> DEFINE ts == Pick(hs, Found(x, hs))
  <1> DEFINE w == wake(x, ts)
  <1> DEFINE y == custom_wakeup_local(x, hs)
  <1> DEFINE p == x.panicked \/ Found(x, hs) # DOMAIN hs
  <1>1. /\ ts \in Seq(TasksOf(c))
        /\ IsInjective(ts)
        /\ Range(ts) = Range(hs) \cap x.blocked_tasks
        /\ Found(x, hs) # DOMAIN hs <=> ~(IsInjective(hs) /\ Range(hs) \subseteq x.blocked_tasks)
    BY FoundAre
  <1> HIDE DEF ts
  <1>2. /\ Sound(w, c)
        /\ w.blocked_tasks = x.blocked_tasks \ Range(ts)
        /\ w.current_task = x.current_task
        /\ w.wakeup_tasks = x.wakeup_tasks
        /\ w.new_tasks = x.new_tasks
        /\ w.panicked = x.panicked
        /\ SameLives(x, w, c)
    BY <1>1, WakeKeeps
  <1>3. y = [w EXCEPT !.panicked = p]
    BY <1>2 DEF custom_wakeup_local, ts
  <1> HIDE DEF y, w
  <1>4. p \in BOOLEAN /\ w \in PerCoreScheduler(c)
    BY <1>2 DEF Sound
  <1>5. y \in PerCoreScheduler(c)
    BY <1>3, <1>4, Zenon DEF PerCoreScheduler
  <1>6. /\ y.blocked_tasks = w.blocked_tasks /\ y.status = w.status /\ y.ready_queue = w.ready_queue
        /\ y.current_task = w.current_task /\ y.wakeup_tasks = w.wakeup_tasks
        /\ y.new_tasks = w.new_tasks /\ y.finished_tasks = w.finished_tasks
        /\ y.panicked = p
    BY <1>3, <1>4 DEF PerCoreScheduler
  <1>7. Placed(y)
    BY <1>2, <1>6 DEF Placed, Sound, WithStatus
  <1>8. y.blocked_tasks = x.blocked_tasks \ Range(hs)
    BY <1>1, <1>2, <1>6
  <1>9. y.panicked <=> x.panicked \/ ~(IsInjective(hs) /\ Range(hs) \subseteq x.blocked_tasks)
    BY <1>1, <1>6, Zenon
  <1>10. SameLives(x, y, c)
    BY <1>2, <1>6, Zenon DEF SameLives, Over, Unborn
  <1> QED
    BY <1>2, <1>5, <1>6, <1>7, <1>8, <1>9, <1>10 DEF Sound, y

\* Emptying the input of a core wakes and takes over the tasks in it.
LEMMA CheckInputKeeps ==
  ASSUME NEW c \in Cores, NEW x, Sound(x, c)
  PROVE  LET y == check_input(x) IN
         /\ Sound(y, c)
         /\ y.blocked_tasks = x.blocked_tasks \ Range(x.wakeup_tasks)
         /\ y.current_task = x.current_task
         /\ y.wakeup_tasks = <<>>
         /\ y.new_tasks = <<>>
         /\ y.panicked <=> x.panicked \/ ~(/\ IsInjective(x.wakeup_tasks)
                                          /\ Range(x.wakeup_tasks) \subseteq x.blocked_tasks)
         /\ SameLives(x, y, c)
  <1> USE SMTT(30)
  <1> DEFINE w == custom_wakeup_local(x, x.wakeup_tasks)
  <1> DEFINE r == make_ready(w, x.new_tasks)
  <1> DEFINE y == check_input(x)
  <1>1. x \in PerCoreScheduler(c) /\ x.wakeup_tasks \in Seq(TasksOf(c)) /\ x.new_tasks \in Seq(TasksOf(c))
    BY DEF Sound, PerCoreScheduler
  <1>2. /\ Sound(w, c)
        /\ w.blocked_tasks = x.blocked_tasks \ Range(x.wakeup_tasks)
        /\ w.current_task = x.current_task
        /\ w.new_tasks = x.new_tasks
        /\ w.panicked <=> x.panicked \/ ~(/\ IsInjective(x.wakeup_tasks)
                                         /\ Range(x.wakeup_tasks) \subseteq x.blocked_tasks)
        /\ SameLives(x, w, c)
    BY <1>1, CustomWakeupKeeps
  <1> HIDE DEF w
  <1>3. IsInjective(x.new_tasks) /\ Range(w.ready_queue) \cap Range(x.new_tasks) = {}
    BY <1>2 DEF Sound, Placed, WithStatus
  <1>4. /\ r \in PerCoreScheduler(c)
        /\ r.status = [t \in TasksOf(c) |-> IF t \in Range(x.new_tasks) THEN "Ready" ELSE w.status[t]]
        /\ Range(r.ready_queue) = Range(w.ready_queue) \cup Range(x.new_tasks)
        /\ IsInjective(r.ready_queue)
        /\ r.blocked_tasks = w.blocked_tasks /\ r.finished_tasks = w.finished_tasks
        /\ r.current_task = w.current_task /\ r.panicked = w.panicked
    BY <1>1, <1>2, <1>3, MakeReadyIs
  <1>5. y = [r EXCEPT !.wakeup_tasks = <<>>, !.new_tasks = <<>>]
    BY DEF check_input, w
  <1> HIDE DEF r, y
  <1>6. <<>> \in Seq(TasksOf(c))
    OBVIOUS
  <1>7. y \in PerCoreScheduler(c)
    BY <1>4, <1>5, <1>6, Zenon DEF PerCoreScheduler
  <1>8. /\ y.blocked_tasks = r.blocked_tasks /\ y.status = r.status /\ y.ready_queue = r.ready_queue
        /\ y.current_task = r.current_task /\ y.wakeup_tasks = <<>> /\ y.new_tasks = <<>>
        /\ y.finished_tasks = r.finished_tasks /\ y.panicked = r.panicked
    BY <1>4, <1>5 DEF PerCoreScheduler
  <1>9. DOMAIN w.status = TasksOf(c)
    BY <1>2 DEF Sound, PerCoreScheduler
  <1>10. Placed(y)
    <2>1. IsInjective(y.new_tasks) /\ Range(y.new_tasks) = {}
      BY <1>8 DEF IsInjective, Range
    <2>2. Placed(w)
      BY <1>2 DEF Sound
    <2> QED
      BY <1>2, <1>4, <1>8, <1>9, <2>1, <2>2 DEF Placed, WithStatus
  <1>11. SameLives(x, y, c)
    <2>1. \A t \in Range(x.new_tasks) : w.status[t] = "New"
      BY <1>2, Zenon DEF Sound, Placed, WithStatus
    <2> QED
      BY <1>2, <1>4, <1>8, <2>1 DEF SameLives, Over, Unborn, Range
  <1> QED
    BY <1>2, <1>4, <1>7, <1>8, <1>10, <1>11 DEF Sound, y

\* Dropping the finished tasks frees them and leaves the rest alone.
LEMMA CleanupKeeps ==
  ASSUME NEW c \in Cores, NEW x, Sound(x, c)
  PROVE  LET y == cleanup_tasks(x) IN
         /\ Sound(y, c) /\ y.finished_tasks = {}
         /\ y.blocked_tasks = x.blocked_tasks
         /\ y.current_task = x.current_task
         /\ y.ready_queue = x.ready_queue
         /\ y.wakeup_tasks = x.wakeup_tasks
         /\ y.new_tasks = x.new_tasks
         /\ y.panicked = x.panicked
         /\ current_status(y) = current_status(x)
         /\ SameLives(x, y, c)
  <1> USE SMTT(30)
  <1> DEFINE y == cleanup_tasks(x)
  <1> DEFINE st == [t \in TasksOf(c) |-> IF t \in x.finished_tasks THEN "Freed" ELSE x.status[t]]
  <1>1. x \in PerCoreScheduler(c) /\ x.status \in [TasksOf(c) -> Status] /\ DOMAIN x.status = TasksOf(c)
    BY DEF Sound, PerCoreScheduler
  <1>2. y = [x EXCEPT !.status = st, !.finished_tasks = {}]
    BY <1>1, Zenon DEF cleanup_tasks
  <1>3. st \in [TasksOf(c) -> Status] /\ {} \in SUBSET TasksOf(c)
    BY <1>1 DEF Status
  <1> HIDE DEF y
  <1>4. y \in PerCoreScheduler(c)
    BY <1>1, <1>2, <1>3, Zenon DEF PerCoreScheduler
  <1>5. /\ y.blocked_tasks = x.blocked_tasks /\ y.status = st /\ y.ready_queue = x.ready_queue
        /\ y.current_task = x.current_task /\ y.wakeup_tasks = x.wakeup_tasks
        /\ y.new_tasks = x.new_tasks /\ y.finished_tasks = {} /\ y.panicked = x.panicked
    BY <1>1, <1>2 DEF PerCoreScheduler
  <1>6. Placed(y)
    BY <1>1, <1>5 DEF Placed, Sound, WithStatus
  <1>7. current_status(y) = current_status(x)
    BY <1>1, <1>5 DEF current_status, Sound, Placed, WithStatus, PerCoreScheduler
  <1>8. SameLives(x, y, c)
    BY <1>1, <1>5 DEF SameLives, Over, Unborn, Sound, Placed, WithStatus
  <1> QED
    BY <1>4, <1>5, <1>6, <1>7, <1>8 DEF Sound, y

\* Popping the first task of the queue q.
LEMMA PopIs ==
  ASSUME NEW T, NEW q \in Seq(T), IsInjective(q), q # <<>>
  PROVE  /\ Head(q) \in Range(q) /\ Head(q) \in T
         /\ Tail(q) \in Seq(T) /\ IsInjective(Tail(q)) /\ Range(Tail(q)) = Range(q) \ {Head(q)}
  <1> USE SMTT(30)
  <1> DEFINE h == Head(q)
  <1> DEFINE r == Tail(q)
  <1>1. /\ r \in Seq(T) /\ Len(r) = Len(q) - 1 /\ h = q[1] /\ Len(q) \in Nat \ {0}
        /\ DOMAIN q = 1 .. Len(q) /\ DOMAIN r = 1 .. Len(r)
        /\ \A i \in 1 .. Len(r) : r[i] = q[i + 1]
    OBVIOUS
  <1> HIDE DEF h, r
  <1>2. /\ 1 \in DOMAIN q /\ \A i \in DOMAIN r : i + 1 \in DOMAIN q /\ r[i] = q[i + 1] /\ i + 1 # 1
        /\ \A j \in DOMAIN q : j # 1 => j - 1 \in DOMAIN r /\ r[j - 1] = q[j]
    BY <1>1
  <1>3. h \in Range(q) /\ h \in T
    BY <1>1, <1>2 DEF Range
  <1>4. IsInjective(r)
    BY <1>1, <1>2 DEF IsInjective
  <1>5. Range(r) \subseteq Range(q) \ {h}
    BY <1>1, <1>2 DEF Range, IsInjective
  <1>6. Range(q) \ {h} \subseteq Range(r)
    BY <1>1, <1>2 DEF Range
  <1> QED
    BY <1>1, <1>3, <1>4, <1>5, <1>6 DEF h, r

\* The current task gives way, or is left: nobody else is touched.
LEMMA SchedulerKeeps ==
  ASSUME NEW c \in Cores, NEW y, Sound(y, c)
  PROVE  LET z == scheduler(y) IN
         /\ Sound(z, c)
         /\ z.blocked_tasks = y.blocked_tasks
         /\ z.wakeup_tasks = y.wakeup_tasks
         /\ z.new_tasks = y.new_tasks
         /\ z.panicked = y.panicked
         /\ SameLives(y, z, c)
  <1> USE SMTT(30)
  <1> DEFINE z == scheduler(y)
  <1> DEFINE x == cleanup_tasks(y)
  <1> DEFINE st == current_status(x)
  <1> DEFINE old == x.current_task
  <1> DEFINE pops == /\ x.ready_queue # <<>>
                     /\ st = "Running" => Prio[Head(x.ready_queue)] >= Prio[old]
  <1> DEFINE new == IF pops THEN Head(x.ready_queue)
                            ELSE IF st \in {"Running", "Idle"} THEN old ELSE idle
  <1> DEFINE rest == IF pops THEN Tail(x.ready_queue) ELSE x.ready_queue
  <1> DEFINE queue == IF pops /\ st = "Running" THEN push(rest, old) ELSE rest
  <1> DEFINE fin == IF st = "Finished" THEN x.finished_tasks \cup {old} ELSE x.finished_tasks
  <1> DEFINE stat == [t \in TasksOf(c) |->
                        CASE t = new -> "Running"
                          [] t = old /\ t # new /\ st = "Running" -> "Ready"
                          [] t = old /\ t # new /\ st = "Finished" -> "Invalid"
                          [] OTHER -> x.status[t]]
  <1>1. /\ Sound(x, c) /\ x.finished_tasks = {}
        /\ x.blocked_tasks = y.blocked_tasks /\ x.wakeup_tasks = y.wakeup_tasks
        /\ x.new_tasks = y.new_tasks /\ x.panicked = y.panicked /\ SameLives(y, x, c)
    BY CleanupKeeps
  <1>2. x \in PerCoreScheduler(c) /\ DOMAIN x.status = TasksOf(c) /\ Placed(x)
    BY <1>1 DEF Sound, PerCoreScheduler
  <1>3. z = [x EXCEPT !.current_task = new, !.ready_queue = queue, !.finished_tasks = fin, !.status = stat]
    BY <1>2, Zenon DEF scheduler
  <1> HIDE DEF z, x
  <1>4. /\ x.current_task \in TasksOf(c) \cup {idle} /\ x.ready_queue \in Seq(TasksOf(c))
        /\ x.status \in [TasksOf(c) -> Status] /\ x.finished_tasks \in SUBSET TasksOf(c)
        /\ idle \notin TasksOf(c) /\ TasksOf(c) \in SUBSET Tasks
    <2>1. idle \notin TasksOf(c) /\ TasksOf(c) \in SUBSET Tasks
      BY TasksAssumption, Zenon DEF TasksOf, idle
    <2> QED
      BY <1>2, <2>1 DEF PerCoreScheduler
  <1>5. /\ st = "Idle" => old = idle
        /\ st # "Idle" => old \in TasksOf(c) /\ st = x.status[old]
        /\ st \in Status \cup {"Idle"}
    BY <1>4 DEF current_status, Status
  <1>6. /\ pops => new \in TasksOf(c) /\ x.status[new] = "Ready"
        /\ rest \in Seq(TasksOf(c)) /\ IsInjective(rest)
        /\ Range(rest) = IF pops THEN Range(x.ready_queue) \ {new} ELSE Range(x.ready_queue)
    <2> DEFINE q == x.ready_queue
    <2>1. q \in Seq(TasksOf(c)) /\ IsInjective(q) /\ Range(q) = WithStatus(x, "Ready")
      BY <1>2, <1>4, Zenon DEF Placed
    <2> HIDE DEF q
    <2>2. q # <<>> => /\ Head(q) \in Range(q) /\ Head(q) \in TasksOf(c) /\ Tail(q) \in Seq(TasksOf(c))
                      /\ IsInjective(Tail(q)) /\ Range(Tail(q)) = Range(q) \ {Head(q)}
      BY <2>1, PopIs
    <2>3. CASE pops
      <3>1. q # <<>> /\ new = Head(q) /\ rest = Tail(q)
        BY <2>3 DEF q
      <3> HIDE DEF new, rest, pops
      <3> QED
        BY <2>1, <2>2, <2>3, <3>1 DEF q, WithStatus
    <2>4. CASE ~pops
      <3>1. rest = q
        BY <2>4 DEF q
      <3> HIDE DEF new, rest, pops
      <3> QED
        BY <2>1, <2>4, <3>1 DEF q
    <2> HIDE DEF new, rest, pops
    <2> QED
      BY <2>3, <2>4
  <1>7. st = "Ready" => pops
    BY <1>2, <1>4, <1>5 DEF Placed, WithStatus, Range
  <1> HIDE DEF st, rest, pops
  <1>8. new \in TasksOf(c) \cup {idle} /\ (~pops => new = IF st \in {"Running", "Idle"} THEN old ELSE idle)
    BY <1>4, <1>6
  <1> HIDE DEF new
  <1>9. /\ queue \in Seq(TasksOf(c)) /\ IsInjective(queue)
        /\ Range(queue) = IF pops /\ st = "Running" THEN Range(rest) \cup {old} ELSE Range(rest)
    <2>1. CASE pops /\ st = "Running"
      <3>1. old \in TasksOf(c) /\ old \notin Range(rest)
        BY <1>2, <1>5, <1>6, <2>1, Zenon DEF Placed, WithStatus
      <3> DEFINE ts == <<old>>
      <3>2. ts \in Seq(TasksOf(c)) /\ IsInjective(ts) /\ Range(ts) = {old} /\ Append(rest, old) = rest \o ts
        BY <1>6, <3>1 DEF IsInjective, Range
      <3>3. queue = InOrder(rest \o ts)
        BY <2>1, <3>2 DEF push
      <3> HIDE DEF ts, queue
      <3>4. Range(rest) \cap Range(ts) = {}
        BY <3>1, <3>2
      <3> QED
        BY <1>4, <1>6, <2>1, <3>2, <3>3, <3>4, PushesAre
    <2>2. CASE ~(pops /\ st = "Running")
      <3>1. queue = rest
        BY <2>2
      <3> HIDE DEF queue
      <3> QED
        BY <1>6, <2>2, <3>1
    <2> HIDE DEF queue
    <2> QED
      BY <2>1, <2>2
  <1> HIDE DEF queue
  <1>10. stat \in [TasksOf(c) -> Status] /\ fin \in SUBSET TasksOf(c)
    BY <1>4, <1>5 DEF Status
  <1>11. z \in PerCoreScheduler(c)
    BY <1>2, <1>3, <1>8, <1>9, <1>10, Zenon DEF PerCoreScheduler
  <1>14. DOMAIN stat = TasksOf(c)
    OBVIOUS
  <1>12. /\ z.current_task = new /\ z.ready_queue = queue /\ z.finished_tasks = fin /\ z.status = stat
         /\ z.blocked_tasks = x.blocked_tasks /\ z.wakeup_tasks = x.wakeup_tasks
         /\ z.new_tasks = x.new_tasks /\ z.panicked = x.panicked
    <2> HIDE DEF fin, stat
    <2> QED
      BY <1>2, <1>3 DEF PerCoreScheduler
  <1>13. \A t \in TasksOf(c) :
            /\ t = new => stat[t] = "Running"
            /\ t # new /\ t = old /\ st = "Running" => stat[t] = "Ready"
            /\ t # new /\ t = old /\ st = "Finished" => stat[t] = "Invalid"
            /\ t # new /\ ~(t = old /\ st \in {"Running", "Finished"}) => stat[t] = x.status[t]
    OBVIOUS
  <1> HIDE DEF stat
  <1>15. Range(queue) = WithStatus(z, "Ready")
    BY <1>2, <1>4, <1>5, <1>6, <1>7, <1>8, <1>9, <1>12, <1>13, <1>14 DEF Placed, WithStatus
  <1>16. z.new_tasks = x.new_tasks /\ Range(z.new_tasks) \subseteq WithStatus(z, "New")
    BY <1>2, <1>4, <1>5, <1>6, <1>8, <1>12, <1>13, <1>14 DEF Placed, WithStatus
  <1>17. z.blocked_tasks = WithStatus(z, "Blocked")
    BY <1>2, <1>4, <1>5, <1>6, <1>8, <1>12, <1>13, <1>14 DEF Placed, WithStatus
  <1>18. z.finished_tasks = WithStatus(z, "Invalid")
    BY <1>1, <1>2, <1>4, <1>5, <1>6, <1>8, <1>12, <1>13, <1>14 DEF Placed, WithStatus
  <1>19. WithStatus(z, "Running") \cup WithStatus(z, "Finished") \subseteq {new}
    BY <1>2, <1>4, <1>5, <1>6, <1>8, <1>12, <1>13, <1>14 DEF Placed, WithStatus
  <1>20. new \notin WithStatus(z, "New") \cup WithStatus(z, "Invalid") \cup WithStatus(z, "Freed")
    BY <1>4, <1>8, <1>12, <1>13, <1>14 DEF WithStatus
  <1>21. Placed(z)
    BY <1>2, <1>9, <1>12, <1>15, <1>16, <1>17, <1>18, <1>19, <1>20, Zenon DEF Placed
  <1>22. SameLives(x, z, c)
    BY <1>2, <1>4, <1>5, <1>6, <1>8, <1>12, <1>13 DEF Placed, WithStatus, SameLives, Over, Unborn
  <1>23. SameLives(y, z, c)
    BY <1>1, <1>22, SameLivesTwice, Zenon
  <1> QED
    BY <1>1, <1>11, <1>12, <1>21, <1>23 DEF Sound, z

\* The current task ends.
LEMMA FinishKeeps ==
  ASSUME NEW c \in Cores, NEW x, Sound(x, c), current_status(x) = "Running"
  PROVE  LET y == [x EXCEPT !.status[x.current_task] = "Finished"] IN
         /\ Sound(y, c)
         /\ y.blocked_tasks = x.blocked_tasks
         /\ y.current_task = x.current_task
         /\ y.wakeup_tasks = x.wakeup_tasks
         /\ y.new_tasks = x.new_tasks
         /\ y.panicked = x.panicked
         /\ \A u \in TasksOf(c) : /\ Over(y, u) <=> Over(x, u) \/ u = x.current_task
                                  /\ Unborn(x, u) => Unborn(y, u)
  <1> USE SMTT(30)
  <1> DEFINE t == x.current_task
  <1> DEFINE st == [x.status EXCEPT ![t] = "Finished"]
  <1> DEFINE y == [x EXCEPT !.status[x.current_task] = "Finished"]
  <1>1. /\ t \in TasksOf(c) /\ x.status[t] = "Running" /\ x.status \in [TasksOf(c) -> Status]
        /\ x \in PerCoreScheduler(c)
    BY Zenon DEF Sound, PerCoreScheduler, current_status
  <1>2. y = [x EXCEPT !.status = st] /\ st \in [TasksOf(c) -> Status]
    BY <1>1 DEF Status
  <1> HIDE DEF y, st
  <1>3. y \in PerCoreScheduler(c)
    BY <1>1, <1>2, Zenon DEF PerCoreScheduler
  <1>4. /\ y.blocked_tasks = x.blocked_tasks /\ y.status = st /\ y.ready_queue = x.ready_queue
        /\ y.current_task = x.current_task /\ y.wakeup_tasks = x.wakeup_tasks
        /\ y.new_tasks = x.new_tasks /\ y.finished_tasks = x.finished_tasks /\ y.panicked = x.panicked
    BY <1>1, <1>2 DEF PerCoreScheduler
  <1>5. Placed(y)
    BY <1>1, <1>4 DEF Placed, Sound, WithStatus, st
  <1>6. \A u \in TasksOf(c) : (Over(y, u) <=> Over(x, u) \/ u = t) /\ (Unborn(x, u) => Unborn(y, u))
    BY <1>1, <1>4 DEF Over, Unborn, st
  <1> QED
    BY <1>3, <1>4, <1>5, <1>6 DEF Sound, y

-----------------------------------------------------------------------------
(***************************************************************************)
(* Sequences of handles.                                                   *)
(***************************************************************************)
\* Picking from a sequence of handles without repetition gives one.
LEMMA PickedAre ==
  ASSUME NEW S, NEW s \in Seq(S), NEW D \in SUBSET DOMAIN s, NEW T, \A i \in D : s[i] \in T
  PROVE  /\ Pick(s, D) \in Seq(T) /\ Range(Pick(s, D)) = {s[i] : i \in D}
         /\ IsInjective(s) => IsInjective(Pick(s, D))
  <1>1. Pick(s, D) \in Seq(T) /\ Rearranges(Pick(s, D), s, D)
    BY PickIs, SMT
  <1> QED
    BY <1>1, Zenon DEF Rearranges, Range, IsInjective

\* The handles of one core are those of its tasks.
LEMMA HandlesOfAre ==
  ASSUME NEW hs \in Seq(Tasks), NEW c \in Cores
  PROVE  /\ HandlesOf(hs, c) \in Seq(TasksOf(c))
         /\ Range(HandlesOf(hs, c)) = Range(hs) \cap TasksOf(c)
         /\ IsInjective(hs) => IsInjective(HandlesOf(hs, c))
  <1> USE SMTT(30)
  <1> DEFINE D == {i \in DOMAIN hs : Home[hs[i]] = c}
  <1>1. D \in SUBSET DOMAIN hs /\ \A i \in D : hs[i] \in TasksOf(c)
    BY DEF TasksOf
  <1>2. {hs[i] : i \in D} = Range(hs) \cap TasksOf(c)
    BY DEF Range, TasksOf
  <1> HIDE DEF D
  <1>3. /\ Pick(hs, D) \in Seq(TasksOf(c)) /\ Range(Pick(hs, D)) = {hs[i] : i \in D}
        /\ IsInjective(hs) => IsInjective(Pick(hs, D))
    BY <1>1, PickedAre
  <1> QED
    BY <1>2, <1>3 DEF HandlesOf, D

\* Removing a handle removes it and nothing else.
LEMMA RemoveIs ==
  ASSUME NEW q \in Seq(Tasks), NEW t
  PROVE  /\ remove(q, t) \in Seq(Tasks)
         /\ Range(remove(q, t)) = Range(q) \ {t}
         /\ IsInjective(q) => IsInjective(remove(q, t))
  <1> USE SMTT(30)
  <1> DEFINE D == {i \in DOMAIN q : q[i] # t}
  <1>1. D \in SUBSET DOMAIN q /\ \A i \in D : q[i] \in Tasks
    OBVIOUS
  <1>2. {q[i] : i \in D} = Range(q) \ {t}
    BY DEF Range
  <1> HIDE DEF D
  <1>3. /\ Pick(q, D) \in Seq(Tasks) /\ Range(Pick(q, D)) = {q[i] : i \in D}
        /\ IsInjective(q) => IsInjective(Pick(q, D))
    BY <1>1, PickedAre
  <1> QED
    BY <1>2, <1>3 DEF remove, D

\* Pushing a handle that is not in the queue adds it once.
LEMMA PushIs ==
  ASSUME NEW T \in SUBSET Tasks, NEW q \in Seq(T), NEW t \in T
  PROVE  /\ push(q, t) \in Seq(T)
         /\ Range(push(q, t)) = Range(q) \cup {t}
         /\ IsInjective(q) /\ t \notin Range(q) => IsInjective(push(q, t))
  <1> USE SMTT(30)
  <1> DEFINE ts == <<t>>
  <1>1. ts \in Seq(T) /\ IsInjective(ts) /\ Range(ts) = {t} /\ Append(q, t) = q \o ts
    BY DEF IsInjective, Range
  <1> HIDE DEF ts
  <1>2. push(q, t) = InOrder(q \o ts)
    BY <1>1 DEF push
  <1>3. /\ InOrder(q \o ts) \in Seq(T) /\ Range(InOrder(q \o ts)) = Range(q) \cup Range(ts)
        /\ IsInjective(q) /\ IsInjective(ts) /\ Range(q) \cap Range(ts) = {} => IsInjective(InOrder(q \o ts))
    BY <1>1, PushesAre
  <1> QED
    BY <1>1, <1>2, <1>3

\* An order of a set is a sequence of its members, each once.
LEMMA OrdersAre ==
  ASSUME NEW S, IsFiniteSet(S), NEW f \in Orders(S)
  PROVE  f \in Seq(S) /\ IsInjective(f) /\ Range(f) = S
  <1> DEFINE n == Cardinality(S)
  <1>1. n \in Nat /\ IsFiniteSet(1 .. n) /\ Cardinality(1 .. n) = n
    BY FS_CardinalityType, UpTo, SMT
  <1>2. f \in Injection(1 .. n, S)
    BY DEF Orders
  <1> HIDE DEF n
  <1>3. f \in Surjection(1 .. n, S)
    BY <1>1, <1>2, FS_Injection, SMT DEF n
  <1>4. f \in [1 .. n -> S] /\ IsInjective(f)
    BY <1>2, Zenon DEF Injection, IsInjective
  <1>5. Range(f) = S
    BY <1>3, <1>4, Zenon DEF Surjection, Range
  <1>6. f \in Seq(S)
    BY <1>1, <1>4, SMT
  <1> QED
    BY <1>4, <1>5, <1>6

\* Every finite set has an order.
LEMMA OrdersExist ==
  ASSUME NEW S, IsFiniteSet(S)
  PROVE  (CHOOSE f \in Orders(S) : TRUE) \in Orders(S)
  <1> DEFINE n == Cardinality(S)
  <1>1. PICK b : b \in Bijection(1 .. n, S)
    BY FS_CardinalityType, SMT DEF ExistsBijection
  <1>2. b \in Orders(S)
    BY <1>1, Zenon DEF Bijection, Orders
  <1> QED
    BY <1>2, Zenon

-----------------------------------------------------------------------------
(***************************************************************************)
(* The steps of the scheduler.                                             *)
(***************************************************************************)
AllSound ==
    /\ core = [c \in Cores |-> core[c]]
    /\ \A c \in Cores : Sound(core[c], c)

\* Initially the tasks of S are ready, and no other is anywhere.
LEMMA InitIsSound ==
  ASSUME NEW hs \in Seq(Tasks), IsInjective(hs), SchedulerInit(hs)
  PROVE  /\ AllSound
         /\ \A c \in Cores : /\ core[c].blocked_tasks = {} /\ core[c].wakeup_tasks = <<>>
                             /\ core[c].new_tasks = <<>> /\ ~core[c].panicked
  <1> USE SMTT(30)
  <1> SUFFICES ASSUME NEW c \in Cores
               PROVE  /\ Sound(core[c], c) /\ core[c].blocked_tasks = {} /\ core[c].wakeup_tasks = <<>>
                      /\ core[c].new_tasks = <<>> /\ ~core[c].panicked
    <2>1. core = [c \in Cores |-> core[c]]
      BY Zenon DEF SchedulerInit
    <2> QED
      BY <2>1, Zenon DEF AllSound
  <1> DEFINE x == core[c]
  <1> DEFINE h == HandlesOf(hs, c)
  <1> DEFINE q == InOrder(h)
  <1> DEFINE st == [t \in TasksOf(c) |-> IF t \in Range(hs) THEN "Ready" ELSE "New"]
  <1>1. x = [current_task |-> idle, ready_queue |-> q, blocked_tasks |-> {}, wakeup_tasks |-> <<>>,
             new_tasks |-> <<>>, finished_tasks |-> {}, status |-> st, panicked |-> FALSE]
    BY Zenon DEF SchedulerInit
  <1>2. h \in Seq(TasksOf(c)) /\ Range(h) = Range(hs) \cap TasksOf(c) /\ IsInjective(h)
    BY HandlesOfAre
  <1>3. TasksOf(c) \in SUBSET Tasks
    BY DEF TasksOf
  <1> HIDE DEF h
  <1>4. q \in Seq(TasksOf(c)) /\ Rearranges(q, h, DOMAIN h)
    BY <1>2, <1>3, InOrderIs, Zenon
  <1> HIDE DEF q
  <1>5. Range(q) = Range(h) /\ IsInjective(q)
    BY <1>2, <1>4, Zenon DEF Rearranges, Range, IsInjective
  <1>6. st \in [TasksOf(c) -> Status] /\ <<>> \in Seq(TasksOf(c)) /\ {} \in SUBSET TasksOf(c)
    BY DEF Status
  <1>7. x \in PerCoreScheduler(c)
    <2> HIDE DEF st
    <2> QED
      BY <1>1, <1>4, <1>6 DEF PerCoreScheduler
  <1>8. idle \notin TasksOf(c)
    BY TasksAssumption, Zenon DEF TasksOf, idle
  <1>9. IsInjective(<<>>) /\ Range(<<>>) = {}
    BY DEF IsInjective, Range
  <1>10. /\ x.status = st /\ x.ready_queue = q /\ x.new_tasks = <<>> /\ x.blocked_tasks = {}
         /\ x.finished_tasks = {} /\ x.current_task = idle /\ x.wakeup_tasks = <<>> /\ ~x.panicked
    BY <1>1
  <1>11. Placed(x)
    BY <1>2, <1>5, <1>8, <1>9, <1>10 DEF Placed, WithStatus
  <1> QED
    BY <1>7, <1>10, <1>11 DEF Sound

\* A task is finite in number wherever it is found.
LEMMA TasksAreFinite ==
  ASSUME NEW S \in SUBSET Tasks
  PROVE  IsFiniteSet(S)
  <1>1. IsFiniteSet(Tasks)
    BY TasksAssumption, Zenon
  <1> QED
    BY <1>1, FS_Subset, SMT

\* The timer interrupt takes only tasks off the blocked queue whose deadline has passed.
LEMMA TimerStep ==
  ASSUME AllSound, NEW c \in Cores, timer_handler(c)
  PROVE  /\ AllSound'
         /\ \A d \in Cores : /\ core'[d].wakeup_tasks = core[d].wakeup_tasks
                             /\ core'[d].panicked = core[d].panicked
                             /\ core'[d].blocked_tasks \subseteq core[d].blocked_tasks
                             /\ \A t \in core[d].blocked_tasks \ core'[d].blocked_tasks : due[t] = "past"
                             /\ SameLives(core[d], core'[d], d)
  <1> USE SMTT(30)
  <1> DEFINE late == {t \in core[c].blocked_tasks : due[t] = "past"}
  <1>1. PICK ts \in Orders(late) : core' = [core EXCEPT ![c] = scheduler(wake(core[c], ts))]
    BY Zenon DEF timer_handler
  <1>2. Sound(core[c], c) /\ late \in SUBSET TasksOf(c) /\ late \in SUBSET Tasks
    BY Zenon DEF AllSound, Sound, PerCoreScheduler, TasksOf
  <1>3. ts \in Seq(late) /\ IsInjective(ts) /\ Range(ts) = late
    BY <1>2, TasksAreFinite, OrdersAre
  <1>4. ts \in Seq(TasksOf(c)) /\ Range(ts) \subseteq core[c].blocked_tasks
    BY <1>2, <1>3
  <1> DEFINE w == wake(core[c], ts)
  <1> DEFINE z == scheduler(w)
  <1>5. /\ Sound(w, c) /\ w.blocked_tasks = core[c].blocked_tasks \ Range(ts)
        /\ w.wakeup_tasks = core[c].wakeup_tasks /\ w.panicked = core[c].panicked
        /\ SameLives(core[c], w, c)
    BY <1>2, <1>3, <1>4, WakeKeeps
  <1> HIDE DEF w
  <1>6. /\ Sound(z, c) /\ z.blocked_tasks = w.blocked_tasks
        /\ z.wakeup_tasks = w.wakeup_tasks /\ z.panicked = w.panicked
        /\ SameLives(w, z, c)
    BY <1>5, SchedulerKeeps, Zenon
  <1> HIDE DEF z
  <1>7. core' = [core EXCEPT ![c] = z]
    BY <1>1 DEF z, w
  <1>8. core' = [d \in Cores |-> core'[d]] /\ core'[c] = z /\ \A d \in Cores \ {c} : core'[d] = core[d]
    BY <1>7 DEF AllSound
  <1>9. AllSound'
    BY <1>6, <1>8, Zenon DEF AllSound
  <1>10. \A d \in Cores : SameLives(core[d], core'[d], d)
    <2>1. SameLives(core[c], z, c)
      BY <1>5, <1>6, SameLivesTwice, Zenon
    <2> QED
      BY <1>8, <2>1, Zenon DEF SameLives
  <1> QED
    BY <1>3, <1>5, <1>6, <1>8, <1>9, <1>10

\* The wake-up interrupt and the idle loop take in what other cores left for this one.
LEMMA InputStep ==
  ASSUME AllSound, NEW c \in Cores, wakeup_handler(c) \/ run(c)
  PROVE  /\ AllSound'
         /\ \A d \in Cores \ {c} : core'[d] = core[d]
         /\ core'[c].blocked_tasks = core[c].blocked_tasks \ Range(core[c].wakeup_tasks)
         /\ core'[c].wakeup_tasks = <<>>
         /\ core'[c].panicked <=> core[c].panicked \/ ~(/\ IsInjective(core[c].wakeup_tasks)
                                                       /\ Range(core[c].wakeup_tasks) \subseteq core[c].blocked_tasks)
         /\ \A d \in Cores : SameLives(core[d], core'[d], d)
  <1> USE SMTT(30)
  <1> DEFINE x == core[c]
  <1> DEFINE y == check_input(x)
  <1> DEFINE v == cleanup_tasks(y)
  <1> DEFINE Takes(z) == /\ Sound(z, c) /\ z.blocked_tasks = y.blocked_tasks
                         /\ z.wakeup_tasks = y.wakeup_tasks /\ z.panicked = y.panicked
                         /\ SameLives(y, z, c)
  <1>1. Sound(x, c)
    BY DEF AllSound
  <1>2. /\ Sound(y, c) /\ y.blocked_tasks = x.blocked_tasks \ Range(x.wakeup_tasks)
        /\ y.wakeup_tasks = <<>>
        /\ y.panicked <=> x.panicked \/ ~(/\ IsInjective(x.wakeup_tasks)
                                         /\ Range(x.wakeup_tasks) \subseteq x.blocked_tasks)
        /\ SameLives(x, y, c)
    BY <1>1, CheckInputKeeps
  <1>3. core' = [core EXCEPT ![c] = IF is_scheduling(y) THEN scheduler(y) ELSE y]
        \/ core' = [core EXCEPT ![c] = IF v.ready_queue = <<>> THEN v ELSE scheduler(v)]
    BY Zenon DEF wakeup_handler, run
  <1> HIDE DEF y
  <1>4. Takes(v)
    BY <1>2, CleanupKeeps
  <1> HIDE DEF v
  <1>5. Takes(y) /\ Takes(scheduler(y))
    <2>1. SameLives(y, y, c)
      BY Zenon DEF SameLives
    <2> QED
      BY <1>2, <2>1, SchedulerKeeps, Zenon
  <1>6. Takes(scheduler(v))
    <2>1. Sound(v, c)
      BY <1>4
    <2>2. /\ Sound(scheduler(v), c) /\ scheduler(v).blocked_tasks = v.blocked_tasks
          /\ scheduler(v).wakeup_tasks = v.wakeup_tasks /\ scheduler(v).panicked = v.panicked
          /\ SameLives(v, scheduler(v), c)
      BY <2>1, SchedulerKeeps
    <2>3. SameLives(y, scheduler(v), c)
      BY <1>4, <2>2, SameLivesTwice, Zenon
    <2> QED
      BY <1>4, <2>2, <2>3, Zenon
  <1>7. \E z : Takes(z) /\ core' = [core EXCEPT ![c] = z]
    <2> HIDE DEF Takes
    <2> QED
      BY <1>3, <1>4, <1>5, <1>6, Zenon
  <1>8. PICK z : Takes(z) /\ core' = [core EXCEPT ![c] = z]
    BY <1>7, Zenon
  <1>9. core' = [d \in Cores |-> core'[d]] /\ core'[c] = z /\ \A d \in Cores \ {c} : core'[d] = core[d]
    BY <1>8 DEF AllSound
  <1>10. AllSound'
    BY <1>8, <1>9, Zenon DEF AllSound
  <1>11. \A d \in Cores : SameLives(core[d], core'[d], d)
    <2>1. SameLives(x, z, c)
      BY <1>2, <1>8, SameLivesTwice, Zenon
    <2> QED
      BY <1>9, <2>1, Zenon DEF SameLives
  <1> QED
    BY <1>2, <1>8, <1>9, <1>10, <1>11

\* Waking the tasks hs from core c.
LEMMA CustomWakeupStep ==
  ASSUME AllSound, NEW c \in Cores, NEW hs \in Seq(Tasks), core' = custom_wakeup(core, c, hs)
  PROVE  /\ AllSound'
         /\ core'[c].blocked_tasks = core[c].blocked_tasks \ Range(hs)
         /\ core'[c].wakeup_tasks = core[c].wakeup_tasks
         /\ IsInjective(hs) /\ Range(hs) \cap TasksOf(c) \subseteq core[c].blocked_tasks
              => core'[c].panicked = core[c].panicked
         /\ \A d \in Cores \ {c} :
               /\ core'[d].blocked_tasks = core[d].blocked_tasks
               /\ core'[d].panicked = core[d].panicked
               /\ core'[d].wakeup_tasks = core[d].wakeup_tasks \o HandlesOf(hs, d)
         /\ \A d \in Cores : SameLives(core[d], core'[d], d)
  <1> USE SMTT(30)
  <1> DEFINE own == HandlesOf(hs, c)
  <1> DEFINE y == custom_wakeup_local(core[c], own)
  <1>1. /\ core' = [d \in Cores |-> core'[d]] /\ core'[c] = y
        /\ \A d \in Cores \ {c} :
              core'[d] = [core[d] EXCEPT !.wakeup_tasks = core[d].wakeup_tasks \o HandlesOf(hs, d)]
    BY Zenon DEF custom_wakeup
  <1>2. /\ own \in Seq(TasksOf(c)) /\ Range(own) = Range(hs) \cap TasksOf(c)
        /\ IsInjective(hs) => IsInjective(own)
    BY HandlesOfAre
  <1>3. Sound(core[c], c) /\ core[c] \in PerCoreScheduler(c) /\ core[c].blocked_tasks \subseteq TasksOf(c)
    BY DEF AllSound, Sound, PerCoreScheduler
  <1> HIDE DEF own
  <1>4. /\ Sound(y, c) /\ y.blocked_tasks = core[c].blocked_tasks \ Range(own)
        /\ y.wakeup_tasks = core[c].wakeup_tasks
        /\ y.panicked <=> core[c].panicked \/ ~(IsInjective(own) /\ Range(own) \subseteq core[c].blocked_tasks)
        /\ SameLives(core[c], y, c)
    BY <1>2, <1>3, CustomWakeupKeeps
  <1> HIDE DEF y
  <1>5. y.panicked \in BOOLEAN /\ core[c].panicked \in BOOLEAN
    BY <1>3, <1>4, Zenon DEF Sound, PerCoreScheduler
  <1>6. ASSUME NEW d \in Cores \ {c}
        PROVE  /\ Sound(core'[d], d)
               /\ core'[d].blocked_tasks = core[d].blocked_tasks
               /\ core'[d].panicked = core[d].panicked
               /\ core'[d].wakeup_tasks = core[d].wakeup_tasks \o HandlesOf(hs, d)
               /\ SameLives(core[d], core'[d], d)
    <2> DEFINE x == core[d]
    <2> DEFINE ws == x.wakeup_tasks \o HandlesOf(hs, d)
    <2> DEFINE z == core'[d]
    <2>1. z = [x EXCEPT !.wakeup_tasks = ws]
      BY <1>1
    <2>2. Sound(x, d) /\ x \in PerCoreScheduler(d) /\ x.wakeup_tasks \in Seq(TasksOf(d))
      BY DEF AllSound, Sound, PerCoreScheduler
    <2>3. ws \in Seq(TasksOf(d))
      BY <2>2, HandlesOfAre
    <2> HIDE DEF x, ws, z
    <2>4. z \in PerCoreScheduler(d)
      BY <2>1, <2>2, <2>3, Zenon DEF PerCoreScheduler
    <2>5. /\ z.blocked_tasks = x.blocked_tasks /\ z.status = x.status /\ z.ready_queue = x.ready_queue
          /\ z.current_task = x.current_task /\ z.wakeup_tasks = ws /\ z.panicked = x.panicked
          /\ z.new_tasks = x.new_tasks /\ z.finished_tasks = x.finished_tasks
      BY <2>1, <2>2 DEF PerCoreScheduler
    <2>6. Placed(z)
      BY <2>2, <2>5 DEF Placed, Sound, WithStatus
    <2>7. SameLives(x, z, d)
      BY <2>5, Zenon DEF SameLives, Over, Unborn
    <2> QED
      BY <2>4, <2>5, <2>6, <2>7, Zenon DEF Sound, x, ws, z
  <1>7. AllSound'
    BY <1>1, <1>4, <1>6, Zenon DEF AllSound
  <1>8. core'[c].blocked_tasks = core[c].blocked_tasks \ Range(hs)
    BY <1>1, <1>2, <1>3, <1>4
  <1>9. IsInjective(hs) /\ Range(hs) \cap TasksOf(c) \subseteq core[c].blocked_tasks
          => core'[c].panicked = core[c].panicked
    BY <1>1, <1>2, <1>4, <1>5
  <1>10. \A d \in Cores : SameLives(core[d], core'[d], d)
    BY <1>1, <1>4, <1>6, Zenon
  <1> QED
    BY <1>1, <1>4, <1>6, <1>7, <1>8, <1>9, <1>10

\* The current task of core c, which runs, blocks.
LEMMA BlockStep ==
  ASSUME AllSound, NEW t \in Tasks, Runs(t),
         core' = [core EXCEPT ![Home[t]] = block_current_task(core[Home[t]])]
  PROVE  /\ AllSound'
         /\ t \notin core[Home[t]].blocked_tasks
         /\ core'[Home[t]].blocked_tasks = core[Home[t]].blocked_tasks \cup {t}
         /\ \A d \in Cores : /\ core'[d].wakeup_tasks = core[d].wakeup_tasks
                             /\ core'[d].panicked = core[d].panicked
                             /\ d # Home[t] => core'[d].blocked_tasks = core[d].blocked_tasks
                             /\ SameLives(core[d], core'[d], d)
  <1> USE SMTT(30)
  <1> DEFINE c == Home[t]
  <1> DEFINE y == block_current_task(core[c])
  <1>1. c \in Cores /\ Sound(core[c], c) /\ core[c].current_task = t /\ core[c].status[t] = "Running"
    BY HomeAssumption DEF AllSound, Runs
  <1>2. t # idle /\ t \in TasksOf(c)
    BY TasksAssumption, Zenon DEF idle, TasksOf
  <1>3. current_status(core[c]) = "Running" /\ t \notin core[c].blocked_tasks
    BY <1>1, <1>2, Zenon DEF current_status, Sound, Placed, WithStatus
  <1> HIDE DEF c
  <1>4. /\ Sound(y, c) /\ y.blocked_tasks = core[c].blocked_tasks \cup {t}
        /\ y.wakeup_tasks = core[c].wakeup_tasks /\ y.panicked = core[c].panicked
        /\ SameLives(core[c], y, c)
    BY <1>1, <1>3, BlockKeeps
  <1> HIDE DEF y
  <1>5. core' = [core EXCEPT ![c] = y]
    BY DEF c, y
  <1>6. core' = [d \in Cores |-> core'[d]] /\ core'[c] = y /\ \A d \in Cores \ {c} : core'[d] = core[d]
    BY <1>1, <1>5 DEF AllSound
  <1>7. AllSound'
    BY <1>4, <1>6, Zenon DEF AllSound
  <1>8. \A d \in Cores : SameLives(core[d], core'[d], d)
    BY <1>4, <1>6, Zenon DEF SameLives
  <1> QED
    BY <1>3, <1>4, <1>6, <1>7, <1>8 DEF c

\* The current task gives up its core, or ends.
LEMMA RescheduleStep ==
  ASSUME AllSound, NEW t \in Tasks,
         \/ core' = [core EXCEPT ![Home[t]] = scheduler(core[Home[t]])]
         \/ /\ Runs(t)
            /\ core' = [core EXCEPT ![Home[t]] = scheduler([core[Home[t]] EXCEPT !.status[t] = "Finished"])]
  PROVE  /\ AllSound'
         /\ \A d \in Cores : /\ core'[d].wakeup_tasks = core[d].wakeup_tasks
                             /\ core'[d].panicked = core[d].panicked
                             /\ core'[d].blocked_tasks = core[d].blocked_tasks
  <1> USE SMTT(30)
  <1> DEFINE c == Home[t]
  <1> DEFINE x == core[c]
  <1> DEFINE f == [x EXCEPT !.status[t] = "Finished"]
  <1> DEFINE Left(z) == /\ Sound(z, c) /\ z.blocked_tasks = x.blocked_tasks
                        /\ z.wakeup_tasks = x.wakeup_tasks /\ z.panicked = x.panicked
  <1>1. c \in Cores /\ Sound(x, c)
    BY HomeAssumption DEF AllSound
  <1>2. t # idle
    BY TasksAssumption, Zenon DEF idle
  <1>3. Left(scheduler(x))
    BY <1>1, SchedulerKeeps
  <1>4. Runs(t) => Left(scheduler(f))
    <2> SUFFICES ASSUME Runs(t) PROVE Left(scheduler(f))
      OBVIOUS
    <2>1. x.current_task = t /\ current_status(x) = "Running"
      BY <1>2 DEF Runs, current_status
    <2>2. f = [x EXCEPT !.status[x.current_task] = "Finished"]
      BY <2>1
    <2> HIDE DEF c, x, f, Left
    <2>3. /\ Sound(f, c) /\ f.blocked_tasks = x.blocked_tasks
          /\ f.wakeup_tasks = x.wakeup_tasks /\ f.panicked = x.panicked
      BY <1>1, <2>1, <2>2, FinishKeeps
    <2>4. /\ Sound(scheduler(f), c) /\ scheduler(f).blocked_tasks = f.blocked_tasks
          /\ scheduler(f).wakeup_tasks = f.wakeup_tasks /\ scheduler(f).panicked = f.panicked
      BY <1>1, <2>3, SchedulerKeeps
    <2> QED
      BY <2>3, <2>4 DEF Left
  <1>5. \E z : Left(z) /\ core' = [core EXCEPT ![c] = z]
    <2> HIDE DEF Left
    <2> QED
      BY <1>3, <1>4, Zenon
  <1>6. PICK z : Left(z) /\ core' = [core EXCEPT ![c] = z]
    BY <1>5, Zenon
  <1>7. core' = [d \in Cores |-> core'[d]] /\ core'[c] = z /\ \A d \in Cores \ {c} : core'[d] = core[d]
    <2> HIDE DEF c, x, Left
    <2> QED
      BY <1>1, <1>6, Zenon DEF AllSound
  <1>8. AllSound'
    BY <1>6, <1>7, Zenon DEF AllSound
  <1> QED
    BY <1>6, <1>7, <1>8

\* Sound is what OnePlace asks of a scheduler.
LEMMA SoundIsOnePlace ==
  ASSUME AllSound
  PROVE  OnePlace
  <1> USE SMTT(30)
  <1> SUFFICES ASSUME NEW c \in Cores, NEW t \in TasksOf(c)
               PROVE  LET x  == core[c]
                          st == x.status[t]
                      IN  /\ Cardinality(Places(x, t)) <= 1
                          /\ {p[1] : p \in Places(x, t)} =
                                CASE st = "Ready"   -> {"ready"}
                                  [] st = "Blocked" -> {"blocked"}
                                  [] st = "Invalid" -> {"finished"}
                                  [] st = "New"     -> {"new"} \cap {p[1] : p \in Places(x, t)}
                                  [] OTHER          -> {}
                          /\ st \in {"Running", "Finished"} => x.current_task = t
                          /\ st \in {"New", "Invalid", "Freed"} => x.current_task # t
    BY Zenon DEF OnePlace
  <1> DEFINE x == core[c]
  <1> DEFINE st == x.status[t]
  <1> DEFINE R == {<<"ready", i>> : i \in {j \in DOMAIN x.ready_queue : x.ready_queue[j] = t}}
  <1> DEFINE N == {<<"new", i>> : i \in {j \in DOMAIN x.new_tasks : x.new_tasks[j] = t}}
  <1> DEFINE B == {<<"blocked", 1>> : u \in {t} \cap x.blocked_tasks}
  <1> DEFINE F == {<<"finished", 1>> : u \in {t} \cap x.finished_tasks}
  <1> DEFINE P == Places(x, t)
  <1>1. P = R \cup N \cup B \cup F
    BY Zenon DEF Places
  <1>2. Placed(x) /\ DOMAIN x.status = TasksOf(c) /\ st \in Status
    BY DEF AllSound, Sound, PerCoreScheduler
  <1>3. st \in {"Running", "Finished"} => x.current_task = t
    BY <1>2, Zenon DEF Placed, WithStatus
  <1>4. st \in {"New", "Invalid", "Freed"} => x.current_task # t
    BY <1>2, Zenon DEF Placed, WithStatus
  <1> HIDE DEF x
  <1>5. IF st = "Ready" THEN \E i : R = {<<"ready", i>>} ELSE R = {}
    <2>1. CASE st = "Ready"
      <3>1. PICK i \in DOMAIN x.ready_queue : x.ready_queue[i] = t
        BY <1>2, <2>1 DEF Placed, WithStatus, Range
      <3>2. {j \in DOMAIN x.ready_queue : x.ready_queue[j] = t} = {i}
        BY <1>2, <3>1 DEF Placed, IsInjective
      <3>3. R = {<<"ready", i>>}
        BY <3>2
      <3> QED
        BY <2>1, <3>3
    <2>2. CASE st # "Ready"
      BY <1>2, <2>2 DEF Placed, WithStatus, Range
    <2> HIDE DEF R, st
    <2> QED
      BY <2>1, <2>2
  <1>6. IF st = "New" THEN N = {} \/ \E i : N = {<<"new", i>>} ELSE N = {}
    BY <1>2 DEF Placed, WithStatus, IsInjective, Range
  <1>7. B = IF st = "Blocked" THEN {<<"blocked", 1>>} ELSE {}
    BY <1>2 DEF Placed, WithStatus
  <1>8. F = IF st = "Invalid" THEN {<<"finished", 1>>} ELSE {}
    BY <1>2 DEF Placed, WithStatus
  <1> HIDE DEF R, N, B, F, st, P
  <1> DEFINE Q == {p[1] : p \in P}
  <1>9. P = {} \/ \E p : P = {p}
    BY <1>1, <1>5, <1>6, <1>7, <1>8
  <1>10. Cardinality(P) <= 1
    <2>1. CASE P = {}
      <3>1. Cardinality(P) = 0
        BY <2>1, FS_EmptySet, Zenon
      <3> QED
        BY <3>1
    <2>2. CASE \E p : P = {p}
      <3>1. Cardinality(P) = 1
        BY <2>2, FS_Singleton, Zenon
      <3> QED
        BY <3>1
    <2> QED
      BY <1>9, <2>1, <2>2
  <1>11. Q = CASE st = "Ready"   -> {"ready"}
               [] st = "Blocked" -> {"blocked"}
               [] st = "Invalid" -> {"finished"}
               [] st = "New"     -> {"new"} \cap Q
               [] OTHER          -> {}
    <2>1. CASE st = "Ready"
      <3>1. \E i : P = {<<"ready", i>>}
        BY <1>1, <1>5, <1>6, <1>7, <1>8, <2>1
      <3> QED
        BY <2>1, <3>1
    <2>2. CASE st = "Blocked"
      <3>1. P = {<<"blocked", 1>>}
        BY <1>1, <1>5, <1>6, <1>7, <1>8, <2>2
      <3> QED
        BY <2>2, <3>1
    <2>3. CASE st = "Invalid"
      <3>1. P = {<<"finished", 1>>}
        BY <1>1, <1>5, <1>6, <1>7, <1>8, <2>3
      <3> QED
        BY <2>3, <3>1
    <2>4. CASE st = "New"
      <3>1. P = {} \/ \E i : P = {<<"new", i>>}
        BY <1>1, <1>5, <1>6, <1>7, <1>8, <2>4, Zenon
      <3> QED
        BY <2>4, <3>1
    <2>5. CASE st \notin {"Ready", "Blocked", "Invalid", "New"}
      <3>1. P = {}
        BY <1>1, <1>5, <1>6, <1>7, <1>8, <2>5
      <3> QED
        BY <2>5, <3>1
    <2> QED
      BY <2>1, <2>2, <2>3, <2>4, <2>5
  <1> QED
    BY <1>3, <1>4, <1>10, <1>11 DEF x, st, P

-----------------------------------------------------------------------------
(***************************************************************************)
(* Queues that are joined and cut.                                         *)
(***************************************************************************)
\* Handle t is in q at most once.
Once(q, t) == \A i, j \in DOMAIN q : q[i] = t /\ q[j] = t => i = j

\* Joining two queues.
LEMMA ConcatIs ==
  ASSUME NEW T, NEW p \in Seq(T), NEW q \in Seq(T)
  PROVE  /\ p \o q \in Seq(T) /\ Range(p \o q) = Range(p) \cup Range(q)
         /\ \A t : (Once(p, t) /\ t \notin Range(q)) \/ (t \notin Range(p) /\ Once(q, t)) => Once(p \o q, t)
  <1> USE SMTT(30)
  <1> DEFINE s == p \o q
  <1>1. /\ s \in Seq(T)
        /\ Len(s) = Len(p) + Len(q)
        /\ \A i \in 1 .. Len(p) : s[i] = p[i]
        /\ \A i \in 1 .. Len(q) : s[Len(p) + i] = q[i]
        /\ Len(p) \in Nat /\ Len(q) \in Nat
        /\ DOMAIN p = 1 .. Len(p) /\ DOMAIN q = 1 .. Len(q) /\ DOMAIN s = 1 .. Len(s)
    OBVIOUS
  <1> HIDE DEF s
  <1>2. \A i \in DOMAIN s : \/ i \in DOMAIN p /\ s[i] = p[i]
                            \/ i - Len(p) \in DOMAIN q /\ s[i] = q[i - Len(p)]
    BY <1>1
  <1>3. Range(s) \subseteq Range(p) \cup Range(q)
    BY <1>2 DEF Range
  <1>4. /\ \A i \in DOMAIN p : i \in DOMAIN s /\ s[i] = p[i]
        /\ \A i \in DOMAIN q : Len(p) + i \in DOMAIN s /\ s[Len(p) + i] = q[i]
    BY <1>1
  <1>5. Range(p) \cup Range(q) \subseteq Range(s)
    BY <1>4 DEF Range
  <1>6. ASSUME NEW t, (Once(p, t) /\ t \notin Range(q)) \/ (t \notin Range(p) /\ Once(q, t))
        PROVE  Once(s, t)
    <2> SUFFICES ASSUME NEW i \in DOMAIN s, NEW j \in DOMAIN s, s[i] = t, s[j] = t
                 PROVE  i = j
      BY DEF Once
    <2>1. i \in Int /\ j \in Int /\ Len(p) \in Int
      BY <1>1
    <2>2. CASE Once(p, t) /\ t \notin Range(q)
      BY <1>2, <2>2 DEF Once, Range
    <2>3. CASE t \notin Range(p) /\ Once(q, t)
      <3>1. i - Len(p) = j - Len(p)
        BY <1>2, <2>3 DEF Once, Range
      <3> QED
        BY <2>1, <3>1
    <2> QED
      BY <1>6, <2>2, <2>3
  <1> QED
    BY <1>1, <1>3, <1>5, <1>6 DEF s

\* Popping n handles.
LEMMA SplitIs ==
  ASSUME NEW T, NEW q \in Seq(T), IsInjective(q), NEW n \in 0 .. Len(q)
  PROVE  LET front == SubSeq(q, 1, n)
             back  == SubSeq(q, n + 1, Len(q))
         IN  /\ front \in Seq(T) /\ IsInjective(front)
             /\ back \in Seq(T) /\ IsInjective(back)
             /\ Range(front) \cup Range(back) = Range(q)
             /\ Range(front) \cap Range(back) = {}
  <1> USE SMTT(30)
  <1> DEFINE front == SubSeq(q, 1, n)
  <1> DEFINE back == SubSeq(q, n + 1, Len(q))
  <1>1. /\ Len(q) \in Nat /\ DOMAIN q = 1 .. Len(q)
        /\ front \in Seq(T) /\ DOMAIN front = 1 .. n /\ \A i \in 1 .. n : front[i] = q[i]
    OBVIOUS
  <1>2. /\ back \in Seq(T) /\ DOMAIN back = 1 .. Len(q) - n
        /\ \A i \in 1 .. Len(q) - n : back[i] = q[n + i]
    OBVIOUS
  <1> HIDE DEF front, back
  <1>3. IsInjective(front)
    BY <1>1 DEF IsInjective
  <1>4. \A i \in DOMAIN back : n + i \in DOMAIN q /\ n + i > n /\ back[i] = q[n + i]
    BY <1>1, <1>2
  <1>5. IsInjective(back)
    BY <1>1, <1>2, <1>4 DEF IsInjective
  <1>6. Range(front) \subseteq Range(q) /\ Range(back) \subseteq Range(q)
    BY <1>1, <1>4 DEF Range
  <1>7. \A i \in DOMAIN q : \/ i \in DOMAIN front /\ front[i] = q[i]
                            \/ i - n \in DOMAIN back /\ back[i - n] = q[i]
    BY <1>1, <1>2
  <1>8. Range(q) \subseteq Range(front) \cup Range(back)
    BY <1>7 DEF Range
  <1>9. Range(front) \cap Range(back) = {}
    BY <1>1, <1>4 DEF Range, IsInjective
  <1> QED
    BY <1>1, <1>2, <1>3, <1>5, <1>6, <1>8, <1>9 DEF front, back

-----------------------------------------------------------------------------
(***************************************************************************)
(* What the steps do to one task, in the schedulers cs.                    *)
(***************************************************************************)
Sleeps(cs, t) == t \in cs[Home[t]].blocked_tasks

\* A wake-up for t is in the input of its core.
Called(cs, t) == t \in Range(cs[Home[t]].wakeup_tasks)

\* A task that runs is not in the blocked queue.
LEMMA RunnerIsUp ==
  ASSUME AllSound, NEW t \in Tasks, Runs(t)
  PROVE  ~Sleeps(core, t)
  <1> USE SMTT(30)
  <1>1. Sound(core[Home[t]], Home[t]) /\ core[Home[t]].status[t] = "Running"
    BY HomeAssumption, Zenon DEF AllSound, Runs
  <1>2. core[Home[t]].blocked_tasks = WithStatus(core[Home[t]], "Blocked")
    BY <1>1, Zenon DEF Sound, Placed
  <1> QED
    BY <1>1, <1>2 DEF Sleeps, WithStatus

\* Waking the tasks of the handles woken from core c: those of this core leave the blocked queue, the
\* others are called.  Only a task of this core that does not sleep makes the kernel panic.
LEMMA WakeupOfTasks ==
  ASSUME AllSound, NEW c \in Cores, NEW woken \in Seq(Tasks), IsInjective(woken),
         core' = custom_wakeup(core, c, woken)
  PROVE  /\ AllSound'
         /\ \A d \in Cores : ~core[d].panicked /\ core'[d].panicked =>
                                d = c /\ ~(Range(woken) \cap TasksOf(c) \subseteq core[c].blocked_tasks)
         /\ \A u \in Tasks :
               /\ Sleeps(core', u) <=> Sleeps(core, u) /\ ~(u \in Range(woken) /\ Home[u] = c)
               /\ Called(core', u) <=> Called(core, u) \/ (u \in Range(woken) /\ Home[u] # c)
               /\ Once(core[Home[u]].wakeup_tasks, u) /\ (u \in Range(woken) => ~Called(core, u))
                    => Once(core'[Home[u]].wakeup_tasks, u)
  <1> USE SMTT(30)
  <1>1. /\ AllSound'
        /\ core'[c].blocked_tasks = core[c].blocked_tasks \ Range(woken)
        /\ core'[c].wakeup_tasks = core[c].wakeup_tasks
        /\ Range(woken) \cap TasksOf(c) \subseteq core[c].blocked_tasks => core'[c].panicked = core[c].panicked
        /\ \A d \in Cores \ {c} :
              /\ core'[d].blocked_tasks = core[d].blocked_tasks
              /\ core'[d].panicked = core[d].panicked
              /\ core'[d].wakeup_tasks = core[d].wakeup_tasks \o HandlesOf(woken, d)
    BY CustomWakeupStep, Zenon
  <1>2. ASSUME NEW u \in Tasks
        PROVE  /\ Sleeps(core', u) <=> Sleeps(core, u) /\ ~(u \in Range(woken) /\ Home[u] = c)
               /\ Called(core', u) <=> Called(core, u) \/ (u \in Range(woken) /\ Home[u] # c)
               /\ Once(core[Home[u]].wakeup_tasks, u) /\ (u \in Range(woken) => ~Called(core, u))
                    => Once(core'[Home[u]].wakeup_tasks, u)
    <2> DEFINE d == Home[u]
    <2>1. d \in Cores
      BY HomeAssumption
    <2>2. CASE d = c
      BY <1>1, <2>2, Zenon DEF Sleeps, Called
    <2>3. CASE d # c
      <3> DEFINE p == core[d].wakeup_tasks
      <3> DEFINE h == HandlesOf(woken, d)
      <3>1. p \in Seq(TasksOf(d))
        BY <2>1 DEF AllSound, Sound, PerCoreScheduler
      <3>2. h \in Seq(TasksOf(d)) /\ Range(h) = Range(woken) \cap TasksOf(d) /\ IsInjective(h)
        BY <2>1, HandlesOfAre
      <3>3. u \in TasksOf(d)
        BY DEF TasksOf
      <3> HIDE DEF d
      <3>4. core'[d].wakeup_tasks = p \o h /\ core'[d].blocked_tasks = core[d].blocked_tasks
        BY <1>1, <2>1, <2>3, Zenon
      <3> HIDE DEF p, h
      <3>5. /\ Range(p \o h) = Range(p) \cup Range(h)
            /\ (Once(p, u) /\ u \notin Range(h)) \/ (u \notin Range(p) /\ Once(h, u)) => Once(p \o h, u)
        BY <3>1, <3>2, ConcatIs
      <3>6. Once(h, u)
        BY <3>2 DEF Once, IsInjective
      <3>7. Called(core, u) <=> u \in Range(p)
        BY DEF Called, p, d
      <3>8. (Sleeps(core', u) <=> Sleeps(core, u)) /\ (Called(core', u) <=> u \in Range(p \o h))
        BY <3>4 DEF Sleeps, Called, d
      <3> QED
        BY <2>3, <3>2, <3>3, <3>4, <3>5, <3>6, <3>7, <3>8, Zenon DEF p, d
    <2> QED
      BY <2>2, <2>3, Zenon
  <1> QED
    BY <1>1, <1>2, Zenon

-----------------------------------------------------------------------------
(***************************************************************************)
(* A queue of handles of tasks that sleep without a deadline, as semaphore,*)
(* recursive mutex and join have one, and the schedulers cs.               *)
(***************************************************************************)
\* A task whose handle is in W, or that is called, sleeps; it is in one of the two, and called once.
Slumber(cs, W) ==
    \A u \in Tasks : /\ u \in W \/ Called(cs, u) => Sleeps(cs, u)
                     /\ ~(u \in W /\ Called(cs, u))
                     /\ Once(cs[Home[u]].wakeup_tasks, u)

\* No scheduler has met an assertion or unreachable!().
Calm(cs) == \A c \in Cores : ~cs[c].panicked

\* What an operation leaves alone that neither blocks nor wakes.
SameSleepers(cs, ds) ==
    \A d \in Cores : /\ ds[d].wakeup_tasks = cs[d].wakeup_tasks
                     /\ ds[d].panicked = cs[d].panicked
                     /\ ds[d].blocked_tasks = cs[d].blocked_tasks

\* Nothing changes for the sleepers.
LEMMA QuietSlumbers ==
  ASSUME NEW cs, NEW ds, NEW W, SameSleepers(cs, ds), Slumber(cs, W), Calm(cs)
  PROVE  /\ Slumber(ds, W) /\ Calm(ds)
         /\ \A u \in Tasks : (Sleeps(ds, u) <=> Sleeps(cs, u)) /\ (Called(ds, u) <=> Called(cs, u))
  <1>1. \A u \in Tasks : /\ Sleeps(ds, u) <=> Sleeps(cs, u)
                         /\ Called(ds, u) <=> Called(cs, u)
                         /\ ds[Home[u]].wakeup_tasks = cs[Home[u]].wakeup_tasks
    BY HomeAssumption, SMT DEF SameSleepers, Sleeps, Called
  <1> QED
    BY <1>1, SMT DEF Slumber, Calm, SameSleepers

\* The timer interrupt finds no deadline.
LEMMA TimerSlumbers ==
  ASSUME AllSound, NEW c \in Cores, timer_handler(c), \A u \in Tasks : due[u] = "none"
  PROVE  AllSound' /\ SameSleepers(core, core') /\ due' = due
  <1> USE SMTT(30)
  <1>1. /\ AllSound'
        /\ \A d \in Cores : /\ core'[d].wakeup_tasks = core[d].wakeup_tasks
                            /\ core'[d].panicked = core[d].panicked
                            /\ core'[d].blocked_tasks \subseteq core[d].blocked_tasks
                            /\ \A t \in core[d].blocked_tasks \ core'[d].blocked_tasks : due[t] = "past"
    BY TimerStep
  <1>2. \A d \in Cores : \A u \in core[d].blocked_tasks : u \in Tasks
    <2> SUFFICES ASSUME NEW d \in Cores PROVE core[d].blocked_tasks \subseteq TasksOf(d)
      BY DEF TasksOf
    <2>1. core[d] \in PerCoreScheduler(d)
      BY DEF AllSound, Sound
    <2> QED
      BY <2>1 DEF PerCoreScheduler
  <1>3. ASSUME NEW d \in Cores PROVE core'[d].blocked_tasks = core[d].blocked_tasks
    <2>1. \A u \in core[d].blocked_tasks : due[u] # "past"
      BY <1>2
    <2>2. core'[d].blocked_tasks \subseteq core[d].blocked_tasks
      BY <1>1, Zenon
    <2>3. \A u \in core[d].blocked_tasks \ core'[d].blocked_tasks : due[u] = "past"
      BY <1>1, Zenon
    <2> QED
      BY <2>1, <2>2, <2>3, Zenon
  <1>4. due' = due
    BY Zenon DEF timer_handler
  <1> QED
    BY <1>1, <1>3, <1>4, Zenon DEF SameSleepers

\* The running task blocks: its handle is called by nobody, and may be queued.
LEMMA BlockSlumbers ==
  ASSUME AllSound, NEW t \in Tasks, Runs(t), NEW W, Slumber(core, W), Calm(core),
         core' = [core EXCEPT ![Home[t]] = block_current_task(core[Home[t]])]
  PROVE  /\ AllSound' /\ Calm(core') /\ Slumber(core', W) /\ Slumber(core', W \cup {t})
         /\ \A u \in Tasks : /\ Sleeps(core', u) <=> Sleeps(core, u) \/ u = t
                             /\ Called(core', u) <=> Called(core, u)
  <1> USE SMTT(30)
  <1>1. /\ AllSound'
        /\ core'[Home[t]].blocked_tasks = core[Home[t]].blocked_tasks \cup {t}
        /\ \A d \in Cores : /\ core'[d].wakeup_tasks = core[d].wakeup_tasks
                            /\ core'[d].panicked = core[d].panicked
                            /\ d # Home[t] => core'[d].blocked_tasks = core[d].blocked_tasks
    BY BlockStep, Zenon
  <1>2. \A u \in Tasks : /\ Sleeps(core', u) <=> Sleeps(core, u) \/ u = t
                         /\ Called(core', u) <=> Called(core, u)
                         /\ core'[Home[u]].wakeup_tasks = core[Home[u]].wakeup_tasks
    BY <1>1, HomeAssumption DEF Sleeps, Called
  <1>3. ~Sleeps(core, t)
    BY RunnerIsUp
  <1>4. t \notin W /\ ~Called(core, t)
    BY <1>3 DEF Slumber
  <1>5. \A u \in Tasks : /\ u \in W \cup {t} \/ Called(core', u) => Sleeps(core', u)
                         /\ ~(u \in W \cup {t} /\ Called(core', u))
                         /\ Once(core'[Home[u]].wakeup_tasks, u)
    <2> SUFFICES ASSUME NEW u \in Tasks
                 PROVE  /\ u \in W \cup {t} \/ Called(core', u) => Sleeps(core', u)
                        /\ ~(u \in W \cup {t} /\ Called(core', u))
                        /\ Once(core'[Home[u]].wakeup_tasks, u)
      BY Zenon
    <2>1. /\ u \in W \/ Called(core, u) => Sleeps(core, u)
          /\ ~(u \in W /\ Called(core, u))
          /\ Once(core[Home[u]].wakeup_tasks, u)
      BY Zenon DEF Slumber
    <2>2. /\ Sleeps(core', u) <=> Sleeps(core, u) \/ u = t
          /\ Called(core', u) <=> Called(core, u)
          /\ core'[Home[u]].wakeup_tasks = core[Home[u]].wakeup_tasks
      BY <1>2, Zenon
    <2>3. Once(core'[Home[u]].wakeup_tasks, u)
      BY <2>1, <2>2
    <2> QED
      BY <1>4, <2>1, <2>2, <2>3, Zenon
  <1>7. Slumber(core', W) /\ Slumber(core', W \cup {t})
    BY <1>5, Zenon DEF Slumber
  <1>6. Calm(core')
    BY <1>1 DEF Calm
  <1> QED
    BY <1>1, <1>2, <1>6, <1>7, Zenon

\* A core takes in its wake-ups: it wakes who was called and does not panic.
LEMMA InputSlumbers ==
  ASSUME AllSound, NEW c \in Cores, wakeup_handler(c) \/ run(c),
         NEW W, Slumber(core, W), Calm(core)
  PROVE  /\ AllSound' /\ Calm(core') /\ Slumber(core', W) /\ due' = due
         /\ \A u \in Tasks : /\ Sleeps(core', u) => Sleeps(core, u)
                             /\ Called(core', u) => Called(core, u)
                             /\ Sleeps(core', u) /\ Called(core, u) => Called(core', u)
                             /\ Sleeps(core, u) /\ ~Called(core, u) => Sleeps(core', u)
  <1> USE SMTT(30)
  <1> DEFINE ws == core[c].wakeup_tasks
  <1>1. /\ AllSound'
        /\ \A d \in Cores \ {c} : core'[d] = core[d]
        /\ core'[c].blocked_tasks = core[c].blocked_tasks \ Range(ws)
        /\ core'[c].wakeup_tasks = <<>>
        /\ core'[c].panicked <=>
              core[c].panicked \/ ~(IsInjective(ws) /\ Range(ws) \subseteq core[c].blocked_tasks)
    BY InputStep, Zenon
  <1>2. due' = due
    BY Zenon DEF wakeup_handler, run
  <1>3. \A u \in Tasks : Home[u] \in Cores
    BY HomeAssumption
  <1>4. \A u \in Range(ws) : u \in Tasks /\ Home[u] = c
    <2>1. ws \in Seq(TasksOf(c))
      BY DEF AllSound, Sound, PerCoreScheduler
    <2> QED
      BY <2>1 DEF TasksOf, Range
  <1>5. Range(ws) \subseteq core[c].blocked_tasks /\ \A u \in Range(ws) : Once(ws, u)
    BY <1>4 DEF Slumber, Called, Sleeps
  <1>6. IsInjective(ws)
    BY <1>5 DEF Once, IsInjective, Range
  <1>7. Calm(core')
    BY <1>1, <1>5, <1>6, Zenon DEF Calm
  <1>8. Range(<<>>) = {} /\ \A u : Once(<<>>, u)
    BY DEF Range, Once
  <1>9. ASSUME NEW u \in Tasks
        PROVE  /\ Sleeps(core', u) => Sleeps(core, u)
               /\ Called(core', u) => Called(core, u)
               /\ Sleeps(core', u) /\ Called(core, u) => Called(core', u)
               /\ Sleeps(core, u) /\ ~Called(core, u) => Sleeps(core', u)
               /\ Called(core', u) => Sleeps(core', u)
               /\ Once(core'[Home[u]].wakeup_tasks, u)
    <2>1. CASE Home[u] = c
      BY <1>1, <1>8, <2>1, ZenonT(60) DEF Sleeps, Called
    <2>2. CASE Home[u] # c
      BY <1>1, <1>3, <2>2, Zenon DEF Sleeps, Called, Slumber
    <2> QED
      BY <2>1, <2>2, Zenon
  <1>10. Slumber(core', W)
    BY <1>9 DEF Slumber
  <1> QED
    BY <1>1, <1>2, <1>7, <1>9, <1>10, Zenon

\* Handles are taken out of W and their tasks woken.
LEMMA WakeSlumbers ==
  ASSUME AllSound, NEW W, Slumber(core, W), Calm(core), NEW c \in Cores,
         NEW hs \in Seq(Tasks), IsInjective(hs), Range(hs) \subseteq W,
         core' = custom_wakeup(core, c, hs)
  PROVE  /\ AllSound' /\ Calm(core') /\ Slumber(core', W \ Range(hs))
         /\ \A u \in Tasks : /\ Sleeps(core', u) => Sleeps(core, u)
                             /\ Sleeps(core', u) /\ u \in Range(hs) => Called(core', u)
                             /\ Called(core, u) => Called(core', u)
                             /\ Called(core', u) => Called(core, u) \/ u \in Range(hs)
                             /\ Sleeps(core, u) /\ u \notin Range(hs) => Sleeps(core', u)
  <1> USE SMTT(30)
  <1>1. /\ AllSound'
        /\ \A d \in Cores : ~core[d].panicked /\ core'[d].panicked =>
                               d = c /\ ~(Range(hs) \cap TasksOf(c) \subseteq core[c].blocked_tasks)
        /\ \A u \in Tasks :
              /\ Sleeps(core', u) <=> Sleeps(core, u) /\ ~(u \in Range(hs) /\ Home[u] = c)
              /\ Called(core', u) <=> Called(core, u) \/ (u \in Range(hs) /\ Home[u] # c)
              /\ Once(core[Home[u]].wakeup_tasks, u) /\ (u \in Range(hs) => ~Called(core, u))
                   => Once(core'[Home[u]].wakeup_tasks, u)
    BY WakeupOfTasks, Zenon
  <1>2. Range(hs) \cap TasksOf(c) \subseteq core[c].blocked_tasks
    BY DEF Slumber, Sleeps, TasksOf
  <1>3. Calm(core')
    BY <1>1, <1>2, Zenon DEF Calm
  <1>4. Slumber(core', W \ Range(hs))
    BY <1>1, Zenon DEF Slumber
  <1> QED
    BY <1>1, <1>3, <1>4, Zenon

\* Popping a queue: the handle popped was in it, and it is not any more.
LEMMA PoppedAre ==
  ASSUME NEW q \in Seq(Tasks), IsInjective(q)
  PROVE  /\ pop(q) \in Seq(Tasks) /\ IsInjective(pop(q)) /\ Range(pop(q)) \subseteq Range(q)
         /\ popped_off(q) \in Seq(Tasks) /\ IsInjective(popped_off(q))
         /\ Range(popped_off(q)) = Range(q) \ Range(pop(q))
         /\ q # <<>> => pop(q) = <<Head(q)>> /\ Range(pop(q)) = {Head(q)} /\ Head(q) \in Range(q)
         /\ q = <<>> => popped_off(q) = <<>> /\ pop(q) = <<>>
  <1> USE SMTT(30)
  <1>1. CASE q = <<>>
    BY <1>1 DEF pop, popped_off, Range, IsInjective
  <1>2. CASE q # <<>>
    <2> DEFINE h == Head(q)
    <2>1. /\ h \in Range(q) /\ h \in Tasks
          /\ Tail(q) \in Seq(Tasks) /\ IsInjective(Tail(q)) /\ Range(Tail(q)) = Range(q) \ {h}
      BY <1>2, PopIs
    <2> HIDE DEF h
    <2>2. <<h>> \in Seq(Tasks) /\ IsInjective(<<h>>) /\ Range(<<h>>) = {h}
      BY <2>1 DEF Range, IsInjective
    <2>3. pop(q) = <<h>> /\ popped_off(q) = Tail(q)
      BY <1>2 DEF pop, popped_off, h
    <2> QED
      BY <1>2, <2>1, <2>2, <2>3 DEF h
  <1> QED
    BY <1>1, <1>2

\* A queue at whose end a task t lines up.
LEMMA AppendIs ==
  ASSUME NEW q \in Seq(Tasks), NEW t \in Tasks
  PROVE  /\ Append(q, t) \in Seq(Tasks) /\ Append(q, t) # <<>>
         /\ Range(Append(q, t)) = Range(q) \cup {t}
         /\ IsInjective(q) /\ t \notin Range(q) => IsInjective(Append(q, t))
         /\ q # <<>> => Head(Append(q, t)) = Head(q)
  <1> USE SMTT(30)
  <1> DEFINE s == Append(q, t)
  <1>1. /\ s \in Seq(Tasks) /\ Len(q) \in Nat /\ Len(s) = Len(q) + 1 /\ s[Len(q) + 1] = t
        /\ \A i \in 1 .. Len(q) : s[i] = q[i]
        /\ DOMAIN q = 1 .. Len(q) /\ DOMAIN s = 1 .. Len(q) + 1
    OBVIOUS
  <1>2. s # <<>> /\ (q # <<>> => Head(s) = Head(q))
    BY <1>1
  <1> HIDE DEF s
  <1>3. \A i \in DOMAIN s : (i \in DOMAIN q /\ s[i] = q[i]) \/ (i = Len(q) + 1 /\ s[i] = t)
    BY <1>1
  <1>4. Range(s) \subseteq Range(q) \cup {t}
    BY <1>3 DEF Range
  <1>5. Range(q) \cup {t} \subseteq Range(s)
    BY <1>1 DEF Range
  <1>6. IsInjective(q) /\ t \notin Range(q) => IsInjective(s)
    BY <1>3 DEF Range, IsInjective
  <1> QED
    BY <1>1, <1>2, <1>4, <1>5, <1>6 DEF s
==============================================================================

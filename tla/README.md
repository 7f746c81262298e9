# Verification of hermit-localLLM

TLA+ models of this repository: the kernel's on-disk memory database, its SMP
scheduler with everything tasks wait for, its drivers, file systems and memory
management, the loader, and the shell and C runtime of the application. TLC
checks small instances of every model. TLAPS proves the safety of the memory
database, and of futexes, semaphores and recursive mutexes over the schedulers,
that the database implements an abstract log, that the console log is a ring,
and that the AHCI driver, used by one caller at a time, acknowledges only what
the disk did, for every value of the constants.

## 1. The system

The repository is a unikernel: one application, `bitapp`, linked with a
customised Hermit kernel, loads a GGUF model from USB or SSD and answers
prompts at a console. What a user asks and what the model answers is kept in
memory and, on `exit` and `reboot`, appended to a database on the raw SSD.

| Part | Source | What makes it hard |
|---|---|---|
| Memory database, model cache, AHCI port | `kernel/src/drivers/storage/ahci.rs` | power failure between any two sectors, commands that fail but land, a region that fills up |
| Per-core scheduler, sleepers, idle loop | `kernel/src/scheduler`, `kernel/src/arch/x86_64/kernel/interrupts.rs` | cross-core wake-ups are messages; a task that is marked blocked still runs for a while; one timer for many deadlines |
| Futex, semaphore, recursive mutex, spinlock | `kernel/src/synch`, `kernel/src/syscalls/{condvar,spinlock,tasks}.rs` | wake-ups race with deadlines, interrupts and other wakers |
| Cores, APICs, PCI | `kernel/src/arch/x86_64/kernel`, `kernel/src/drivers/pci.rs` | cores that start one by one, interrupts that share a line |
| xHCI and USB devices | `usb-oxide`, `kernel/src/drivers/usb` | one event ring for all users, time-outs with late completions, retries, short reads |
| Network and virtio drivers | `kernel/src/drivers/{net,virtio,console,vsock,fs}` | rings shared with a device that writes at any time |
| Memory, page tables, loader | `kernel/src/mm`, `kernel/src/arch/*/mm`, `loader/src` | every frame has one owner, every core has a TLB |
| File systems, sockets, event counters | `kernel/src/{fd,fs,executor}` | calls that sleep with a lock, short answers of the host |
| Console, keyboard | `kernel/src/{console,console_log}.rs`, `kernel/src/arch/x86_64/kernel/ps2_keyboard.rs` | rings that wrap, readers that sleep |
| RAM shell | `bitapp/src/hermit_app.rs` | the copy in memory and the copy on disk must agree after a reboot |
| Inference bridge, C runtime | `bitapp/native` | early returns with things allocated, threads over futexes |

Interactions. `bitapp` calls the kernel through system calls. The shell's
`exit` and `reboot` become `append_memory_db`; boot becomes `ensure_memory_db`
and `read_memory_db`, which go to the SSD through the commands of an AHCI port.
Every blocking call ends in `block_current_task` and `reschedule` of the
caller's core; every wake-up in `custom_wakeup`, which acts on the own core
directly and on another one by a message in its `SchedulerInput` and an
interrupt. `block_on` sleeps on a futex and hands the network's next deadline to
`BlockedTaskQueue`.

Correctness, in a sentence each: what the shell was told is stored survives
every crash; an erase leaves nothing; a blocked task can always be woken by
whoever should wake it, is woken once, and does wake; a mutex excludes; a task
is in exactly one queue; a join returns when its task is over; a frame, page,
descriptor or buffer has one owner; bytes, frames and blocks arrive once, whole
and in order.

## 2. Modules

| Module | Models |
|---|---|
| `MemoryDb` | the database, sector write by sector write |
| `DurableLog` | a log that grows at its end and is emptied whole: what `MemoryDb` promises |
| `RamShell` | shell, history and stored text, over `DurableLog` and `ConsoleLog` |
| `ConsoleLog` | the ring of captured console output, with its theorem |
| `Scheduler` | per-core schedulers as operators on a record, and their interrupts; extended by the next three |
| `Futex` | `synch/futex.rs` |
| `TaskLocks` | the semaphore and the recursive mutex |
| `TaskLife` | spawn, join, exit and the locks they take |
| `TaskCalls` | the task system calls, priorities and the FPU's owner, on one core |
| `CoreIdle` | the queue of sleepers with its one-shot timer; the idle loop and the sleep of a core |
| `SyncCalls` | condition queues over two semaphores; spinlocks |
| `Processors` | the start of the cores; local APICs and the I/O APIC |
| `PciBus` | the scan of the bus, interrupt lines and handlers |
| `AhciPort`, `ModelCache` | the callers of a port beside the HBA, with its theorems; the model on the SSD |
| `UsbIngest`, `UsbDevices`, `XhciTransfers` | the model on a stick; enumeration and descriptors; rings, transfers and chunks |
| `NetAdapters` | RTL8139, GEM and RTL8152 |
| `Virtqueues`, `VirtioDevices` | both layouts of a queue; set-up and drivers |
| `BufferQueue` | a queue of buffers: what both layouts promise |
| `Boot`, `MemoryMap`, `Paging` | loader and boot memory; frames, pages, TLBs and stacks; page tables of three architectures |
| `Platform` | ACPI tables, processor features, clock |
| `MemFs`, `VirtioFs`, `Sockets` | file systems; event counters, socket calls and vsock |
| `Terminal` | console output, keyboard and serial input |
| `CRuntime`, `Inference` | threads and heap of the C library; the bridge to the model |
| `MemoryDbProofs` | theorems about `MemoryDb` |
| `SchedulerProofs` | lemmas about `Scheduler` |
| `FutexProofs` | theorems about `Futex` |
| `TaskLocksProofs` | theorems about `TaskLocks` |
| `TaskLifeProofs` | theorems about `TaskLife` |
| `VirtqueuesProofs` | theorems about the split queue of `Virtqueues` |
| `MCMemoryDb`, `MCRamShell`, `MCFutex` | instances of one component |
| `Parts`, `MCLocks`, `MCCores`, `MCHardware`, `MCServices` | instances of several components, one of which a behaviour belongs to |

A module that models two or three related components (`Platform`, `Sockets`)
has one specification for each, with its own `...Init` and `...Next`. `Parts`
declares variables that the MC modules lend to whichever component a behaviour
is about, so the state space of such a run is the union of the components', and
a property of the run has one conjunct for each component it speaks of.

Operators keep the names of the functions they model. A name with a suffix
(`acquire_block`, `exit_wake`) is a part of that function between two points at
which another core, a device, or an interrupt can see its effects. Definitions
whose comment begins with "Mutant" are not part of any specification: each is
one plausible mistake in the definition it names, kept to show that a property
would notice.

**MemoryDb.** LBAs count from the database header. A record is a number of
sectors; `data[l] = <<p, k>>` says that sector `l` holds part `k` of record
`p`. `pc` says which write of which operation comes next. `Write(o)` is one AHCI
command with outcome `ok`, `lost` (failed, nothing written) or `landed` (reported
as failed, but on the medium, as after a time-out of `transfer_sectors`). `Crash`
may come between any two writes. `Recovered` is `memory_db_recover_from_map`:
it accepts map entries as long as they link up. `acked` is a history variable,
the records whose append returned Ok; an erase, and a format that follows a
failed read at boot, empty it.

**Scheduler.** `core[c]` is the `PerCoreScheduler` of `c` with its input. The
priority queues are one sequence in the order of `pop`. The deadline of a
wait is `due[t]`: the clock is before it, at it or past it. Three values are
enough because the code only compares, once with `<` and once with `<=`. A
reached `unreachable!()` or a failed assertion sets `panicked`, and nothing
happens after it.

**Futex, TaskLocks, TaskLife.** An action is what a task does under one lock.
Futexes, semaphores and joins hold an `InterruptTicketMutex`, so no interrupt of
the own core comes in between. `RecursiveMutex` uses a plain `TicketMutex`:
interrupts stay enabled, its acquire is split further, and the lock itself is the
queue `tickets`. In `TaskLife` the locks of `WAITING_TASKS` and of each
`SchedulerInput` are variables, because two functions take them in different
orders.

**RamShell.** Texts are sequences of words and stored records sequences of
cells, so the parsers of stored text run on data that can be torn or quoted like
theirs. Some words read like a header, well formed or damaged, and an answer may
hold them. The database is `DurableLog`; that `MemoryDb` implements it is proved.

**Drivers.** A device is a set of actions of its own: it answers late, out of
order, with an error or not at all, and writes to memory it was given at any
time. Registers, descriptors and packets are their meaning.

## 3. Runs

A configuration only gives values to constants.

| Run | Instance | Shows |
|---|---|---|
| `memdb` | 2 records of 1 and 2 sectors, 4 map entries in 2 sectors, 5 data sectors, 2 faults, failing reads at boot | `Durable`, `NoTornRecord`, `ErasedIsGone`, `BootRepairs`, refinement of `DurableLog` |
| `memdb_overrun` | region of 5 sectors on a disk of 8 | **violated**: `DataInRegion` |
| `shell` | six kinds of session, 2 appends, history of 14 cells, log of 4 bytes | `MemoryIsReplay`, `RecordsWereAsked`, `OneRecordPerKey`, `RingIsTail` |
| `futex` | 2 cores, 3 tasks of 2 priorities, 2 calls each, one task with deadlines | `OnePlace`, `SleeperIsReachable`, `PanicNeedsDeadline`, `WakeIsCounted` |
| `futex_unreachable` | the same | **violated**: `NoPanic` |
| `locks` | semaphore, recursive mutex, condition queue, sleepers, idle loop; 3 tasks, 2 cores | `NothingStranded`, `HoldersAndWaitersAgree`, `WaitsEnd` |
| `recmutex_lost` | the recursive mutex of `locks` with timer interrupts | **violated**: `LockerIsQueued` |
| `spinlock_contended` | three threads that lock only what they do not hold | **violated**: `SpinPanicIsMisuse` |
| `cores` | task life, task calls, futex, start of 4 cores, APICs of 3, PCI bus of 2 x 2 x 3 places | `TasksAreKept`, `CoresAreReached`, `InterruptsAreRouted`, `EventsAreHandled` |
| `tasklife_locks` | task life with a fourth task | **violated**: `WaitersAreWoken` |
| `hardware` | 24 specifications of drivers, memory and firmware | `FramesIntact`, `DmaIsOwned`, `AnswersAreOwn`, `ModelIsWhole`, `TranslatesAsAsked`, `MachineIsRead`, `MemoryIsOwned`, refinement of `BufferQueue` |
| `services` | 10 specifications of files, sockets, console, threads, heap and inference; 2 threads | `SleepersAreReached`, `BytesInOrder`, `NothingLeaks`, `PromptIsDecoded`, `FilesAreSound` |

Every passing run also checks the type invariants. The comment above a property
in its module says what it claims and of which code.

Bounds, and why they are enough:

- *Faults* of the database (2). One fault interrupts an append, an erase or a
  format; the second interrupts the recovery from the first, or is a failed read
  in it. The theorems do not bound them.
- *Map entries* lie in different sectors; the five data sectors are too few for
  four long records, so an append also runs out of disk.
- *Tasks* (3) and *cores* (2): a waker, a waiter and somebody who overtakes,
  with two of them on one core and a third remote. Two calls let a task meet a
  handle left over from its first one. The lock cycle of `tasklife_locks` needs a
  fourth task. The futex theorems bound none of these.
- *Rings* have 3 to 5 places and are passed round at least twice; counters that
  wrap in the code wrap in the model after one or two rounds more.
- *Commands and calls* (2 to 6): one that fails or times out, one that meets
  what it left behind, one after that.
- *Machines* (layouts of memory, tables, buses, sticks and trees of files) are
  sets of samples with every case the code tells apart: nothing, one, two
  adjoining, something at the end, something out of range.
- *Times* of sleepers count from now (passed, 0..2 ticks, `Never`), so that the
  clock has no end and a sleeper can be overtaken for ever.
- *Byte counters of a vsock* wrap at 4 and the peer's buffer has 2 bytes. The
  modulus must be at least twice the buffer, as 2^32 is: the code takes the
  absolute difference of two counters, which below that would be too small. Five
  bytes in both directions together, two of them the peer's, and a control packet
  that counts as two, pass the wrap and overtake each other.
- *Sizes and offsets* of the C heap and of seeks wrap at 32 and 16, and the sets
  of sizes reach the last value before it.
- *Rings of the console and the serial line* have 2 and 3 places, with up to 5
  bytes out and 3 in. The ring of the shared page has 2032 bytes in the code, which
  does not divide 2^32: what its indices do after 4 GiB of output is outside.
- *The host's files* are two trees with links to a file, to a link and from below
  the mounted directory, and four paths; up to four calls, one of which may fail.
- *Threads of the C library*: two, four calls that need no lock. That is one wait,
  the signal for it, and a destroy and initialisation beside them. Callers keep to
  the contract: nobody destroys what another call still needs (`Needed`).
- *Prompts* (3): one that is cached, a `run_once` beside it, and one after that.

The recursive mutex is checked with one priority: with two, a task of the higher
one that spins on the `TicketMutex` keeps the owner, preempted on the same core,
from releasing it. `services` uses symmetry of its two threads, which no
definition tells apart and no liveness property is about.

`CHECK_DEADLOCK FALSE` is set where tasks exit, calls or messages run out, a
kernel that panicked stays so, or the clock stops: everywhere but in `memdb` and
`shell`.

Fairness. A core executes its current task or its idle loop (weak fairness of
the step of each core: a core does not stop by itself). Time passes, and the
timer interrupt of a deadline that has passed is taken, because the local APIC
raises it and interrupts are enabled outside short critical sections. Futex and
semaphore liveness do not assume that a wake-up interrupt arrives: the idle loop
looks at the input anyway. `CoreIdle` is about exactly that and makes explicit
when it fails. `WaitsEnd` and `EventsAreHandled` assume that tasks end or block
and that an owner releases: the code promises nothing to a program that does
otherwise. `MemoryDb` assumes that an operation in progress goes on and that a
machine that is off is switched on again.

## 4. Disagreements between code and its comments

Five runs keep one each:

- `memdb_overrun`: `append_memory_db` counts the header and the map twice when
  it computes the end of the data, and writes past the range that
  `ensure_memory_db` announces.
- `futex_unreachable`: a `futex_wake` that meets a waiter whose deadline the timer
  has just handled reaches the `unreachable!()` in
  `BlockedTaskQueue::custom_wakeup`.
- `recmutex_lost`: a timer interrupt between `block_current_task` and the
  queueing of the handle leaves a task asleep in no queue, with the lock held.
- `tasklife_locks`: `spawn` and `exit` take `WAITING_TASKS` and a
  `SchedulerInput` in opposite orders.
- `spinlock_contended`: `sys_spinlock_lock` asserts that nobody holds the lock
  before it waits for it.

The models show more, which appear as named conditions in properties that hold.
Each is an exception that the property does not claim; its comment says so too.

Tasks and locks:

- Semaphore: a waiter woken by its deadline that then finds a permit leaves its
  handle in the queue (`semaphore.rs:79-82`), so `NoStrandedPermit` speaks of
  programs without deadlines.
- Idle loop: a message pushed after the loop looked at its input and before it
  set its halt flag raises no interrupt, and with `mwait` none is ever sent while
  the monitored word is one that only the core itself writes
  (`interrupts.rs:57`). That input is handled needs polling or a timer.
- Sleepers: `add` sets the one-shot timer to the new deadline even if an earlier
  one is in the list (`task/mod.rs:606,613`). An earlier sleeper then waits for the
  later deadline, and when other tasks go to sleep again and again it is postponed
  without bound. `WaitsEnd` holds for behaviours in which this does not go on for
  ever.
- Task life: no code removes an entry from `TASKS`, although the comment at
  `scheduler/mod.rs:687` says that `cleanup_tasks` does.
- Task calls: `sys_block_current_task` enters the task in `BLOCKED_TASKS` before it
  is blocked, and a timeout leaves the entry behind. `sys_wakeup_task` panics over
  either. `HandleIsOfBlocked` says that there is no third way.
- Sleep: `usleep` and `nanosleep` cut the nanoseconds, so that a sleep may end up to
  a microsecond early (`timer.rs:109-110`). `sys_usleep` does not look at the clock
  when it is woken (`tasks.rs:74-91`): a handle left over from an earlier block may
  end it at any time. `NoEarlyWake` allows the first and leaves out the second.
- C library: the sum of header, size and alignment wraps in
  `bitapp_runtime_malloc_aligned` (`bitapp_runtime.cpp:38`), and a request near
  `SIZE_MAX` gets a small block. `BlocksAreSound` is about the others.
- Inference: `run_once` frees the library's globals and leaves
  `bitnet_backend_initialized` set; a prompt after it works without them.
  `NothingLeaks` speaks of prompts before that.

Storage and files:

- Memory database with `ReadFaults = {"recover"}`: an append that cannot read
  the map goes on with the cursor of the header, which may be behind the map.
- RAM shell: when `shrink_bytes` drops the front of a delta, the rest of a record
  is read as text. A header that an answer quotes is then taken for a record, and
  one with large lengths swallows what follows. `RecordsWereAsked` names this, and
  `MemoryIsReplay` leaves it out. It also leaves out a load that was cut at
  `RAM_SHELL_HISTORY_CAP_BYTES`, which the flag `exact` marks: a deletion stored
  behind the cut is not seen, and the record is back after a reboot.
- AHCI: nothing locks the slot of the port. The system calls of the database and
  the task that caches a model may be in `transfer_sectors` at once, and the one
  whose header was overwritten takes the other's completion for its own and frees
  its buffer meanwhile. A command that is given up for late frees its buffer under
  the HBA as well.
- virtio-fs, links: `traverse_stat` puts the components of a target together in
  reverse (`d/f` as `f/d`) and looks up a target from the mounted directory
  wherever the link lies (`virtio_fs.rs:1258`). `StatFollowsLinks` is about links in the
  mounted directory with a target of one name.
- virtio-fs, handles: `getdents` and `traverse_readdir` return from an empty listing
  without `FUSE_RELEASE` (`virtio_fs.rs:1025,1193`), and a failed command leaves its
  handle with the host. `HostHandlesAreOwned` counts both. `drop` unwraps the
  host's answer (`virtio_fs.rs:900`), so a failed release is a panic, after which the model
  stops.
- Listings, RAM and virtio-fs: a buffer too small for the next name gets 0, the
  same as at the end (`mem.rs:403-406`). A listing is complete when a call with room got 0.
  A directory may be set to any position, and is then complete from there.

Devices and memory:

- virtio-fs device without a request queue: `init_dev` adds one to the number before
  it compares it with 0, and the driver then uses a queue that does not exist.
  `LiveIsReady` excepts it.
- GEM: the only transmit buffer is marked free as soon as the transmission is
  started. `RtlTxBufferIsFree` is about the RTL8139 alone.
- AArch64: `map` marks groups of entries as contiguous without regard to the
  alignment of the frames, skips the wrong number of pages at the front, and unmaps
  or remaps part of a group. What the processor then finds is not determined.
  `ArmTranslatesAsAsked` is about the entries, and about translation in regular
  groups and single pages.
- UEFI boot: the stack is put 64 KiB behind the image, where 32 KiB were allocated.
  It is apart from the image; whose memory it is in is not known.
- Linux boot: the entries of the E820 map are taken as memory whatever their type.
  `MemoryIsTold` claims nothing of the reserved ones there.
- RISC-V loader: two ranges that are equal pass as apart.
- x86-64: `unmap` sends no flush, and a page stays readable on other cores until it
  is mapped anew. `ipi_tlb_flush` takes its lock with interrupts on, and a handler on
  the same core that maps memory waits for itself.
- USB: the length of a transfer with a short packet before its last TRB is too
  large (`dev.rs:828`). `LastResidueIsExact` is about the others.

Descriptors that wait:

- Event counters: each poll of a call leaves a waker in the queue
  (`eventfd.rs:68,85`), and a later wake-up may be spent on one whose call is over, or
  on a `poll` (154), which does not read. A read of a counter that is no semaphore
  wakes a reader (78), never a writer. `SleeperIsQueued` claims that sleepers are
  queued, and that none sleeps over what it waits for until a wake-up goes astray.
- Vsock, locks: `vsock_run` takes the driver and then `VSOCK_MAP`, `accept` and `write`
  take them in the opposite order, and both spin for ever when they meet.
  `SleepIsJustified` says that no other calls can.
- Vsock, wakers: a second reader overwrites the waker of the first
  (`executor/mod.rs:44-55`), a shutdown wakes nobody and the response to a connect
  wakes nobody until data come (`executor/vsock.rs:113-122`). The state is `Connected`
  after `accept` has refused a peer with a reset.
- Vsock, credit: `write` takes the absolute difference of two counters that wrap
  (`vsock.rs:370`). Between the two wraps it sees no credit and waits, although the
  peer may have room; it never sends too much.
- Serial line and console: a reader of a console that is a page of memory has no
  handler that could wake it (`serial.rs:211`), `GenericStdin::poll` registers no
  waker, and a second reader overwrites that of the first. The guest that finds the
  ring of the page full may put back `tx_read` over what the host stored meanwhile
  (`serial.rs:107-113`), and the host then reads bytes twice (`rewound`).

## 5. Proofs

### The memory database

For all values of the constants that satisfy `LayoutAssumption` and
`PayloadAssumption`, in `MemoryDbProofs`:

- `TypeCorrect`: `Spec => []TypeOK`.
- `DurableCorrect`: an acknowledged append is never lost.
- `NoTornRecordCorrect`: no incomplete record is accepted by recovery.
- `ErasedIsGoneCorrect`: after an erase, no sector holds a part of a record.
- `DataInRegionCorrect`: no append writes outside the region.
- `ImplementsDurableLogCorrect`: the database implements `DurableLog`. The log
  is what a recovery would accept.

All but the first assume `RegionIsSafe` and `"recover" \notin ReadFaults`; both
hold in the run `memdb`. `RegionIsSafe` says that the map is full before the
region is, or that the region ends with the disk. The first holds for this
program: the map has 31 * 32 = 992 entries, the shell appends at most 64 KiB at a
time (`RAM_SHELL_HISTORY_CAP_BYTES`), which is 128 sectors, and 33 + 992 * 128 is
less than `MEMORY_DB_TOTAL_SECTORS` = 131072. It fails for a client that appends
more, which `memdb_overrun` shows to matter. The second leaves out the failed
read named at the end of section 4.

None of these properties is inductive. `DurableInv` adds, to the types and
`DataInRegion`:

- `DiskInv`: while both headers are valid, the entries that the map header counts
  are complete, in order and do not overlap (`GoodMap`), and every acknowledged
  record is one of them. `Bound` limits how far the first n entries reach.
- `AppendInv`: what the append or the recovery in progress holds in memory
  agrees with the disk. Above all, an append writes its data at the cursor of
  the map, behind every entry that is counted, and counts its entry only when
  data and entry are written.
- `ResetInv`: a format or an erase makes the old headers invalid before it
  touches anything they vouch for, and nothing is acknowledged meanwhile.

`DurableStep` goes by the kind of write, one lemma for each: steps that only
read (`ReadingStep`), the header (`HeaderKept`, `HeaderReset`), the map header
(`MapHeaderKept`, `MapHeaderCommits`, `MapHeaderFresh`, `MapHeaderErased`),
zeroing the map, erasing, data and entries. `CursorFacts` relates the cursor to
the entries, `BoundFacts` bounds it. The refinement uses the same invariant: a
step empties the log (`EmptyingStep`), appends the record it counts
(`AppendingStep`), or leaves every record where it was (`QuietStep`).

### Schedulers and futexes

For every number of cores, tasks, priorities, addresses, values and calls, and
every assignment of deadlines, in `FutexProofs`:

- `FutexTypeCorrect`: types, and a core's queues hold only its own tasks.
- `OnePlaceCorrect`: no task is lost, queued twice, or freed while it runs.
- `SleeperIsReachableCorrect`: a task asleep in `futex_wait` is parked at its
  address or on its way in the input of its core, exactly once if it waits
  without deadlines.
- `PanicNeedsDeadlineCorrect`: a core none of whose tasks waits with a deadline
  never reaches the `unreachable!()` of `custom_wakeup`.
- `WakeIsCountedCorrect`: `futex_wait` returns 0 to exactly the tasks that some
  `futex_wake` counted.

The inductive invariant `IInv` joins what is true of each
scheduler (`AllSound`: every task of a core is in one of its places, no queue
names one twice) to what is true of the parking lot: a task is parked at most
once and where it waits (`ParkedOnce`), a waiter is either parked or counted
(`ParkedOrCounted`), a sleeper is parked or its handle is on its way to its core
(`SleepersAreKnown`), and one that never uses deadlines sleeps exactly while its
one handle is parked or on its way (`UndatedSleep`). Without `AllSound` a wake-up
could push a task that is ready already; without `UndatedSleep` a wake-up without
deadlines could find its task awake and panic.

`SchedulerProofs` has the lemmas about the operators of `Scheduler`:
what `block_current_task`, `custom_wakeup`, `check_input`, `scheduler`,
`handle_waiting_tasks` and exit do to the places of a task, and that each keeps a
sound core sound (`...Keeps`, `...Step`). They mention neither futexes nor
locks. TLC checked `IInv` on the instance of the run `futex` first.

### Semaphores and recursive mutexes

For every number of cores, tasks, priorities, permits and calls, in
`TaskLocksProofs`, from `SemaphoreAssumption` and `MutexAssumption` (the bounds
are numbers, and the value that stands for no owner is not a task):

- `NoStrandedMutexCorrect`: while tasks wait for the recursive mutex and nobody
  owns it, a task that is not queued is on its way to it.
- `OwnerHoldsCorrect`: it has one owner and counts exactly that task's acquires.
- `SleeperIsKnownCorrect`: a task that sleeps in its acquire is queued, or on its
  way to its core, or has not yet left the critical section in which it queues
  itself. The last is where `recmutex_lost` loses one: the theorem says that no
  other place exists.
- `MutexNeverPanics`: it never makes a scheduler panic.
- `RecTypeCorrect`: types.
- `NoStrandedPermitCorrect`: while tasks without deadlines wait for a semaphore,
  every permit has a task on its way to take it.
- `UntimedSleeperIsKnownCorrect`: without deadlines a sleeper is queued or on its
  way to its core, not both, and no release makes a scheduler panic.

The first three and the two about permits are conjuncts of the properties of the
run `locks`, or sharpen them. Both locks queue handles of tasks that sleep
without a deadline. `Slumber(cs, W)` is what such a queue, with the handles `W`,
and the schedulers `cs` agree on: a task whose handle is queued, or on its way in
the input of its core, is blocked, and its handle is in one of the two and once.
It makes `custom_wakeup` find its task. One lemma for each operation of a
scheduler (`QuietSlumbers`, `TimerSlumbers`, ..., in `SchedulerProofs`) says what
becomes of it.

`RecInv` is inductive for the mutex. It has `Owning` (the owner, the count and
the acquires of each task agree), `Ticketing` (a task lines up once for the
TicketMutex, and one that is marked blocked and not yet queued holds it),
`Slumbering` (`Slumber` for the queue, and where a sleeper may be) and
`NoStrandedMutex`. The TicketMutex leaves interrupts enabled, so a task may be
switched away anywhere in it; without `Ticketing` the owner could release between
the moment when a waiter is marked blocked and the one when it is queued. The
types need `Counting` as well: what a task holds it has acquired. `SemInv` is
inductive for the semaphore: types, `Dozing` (`Slumber` for its queue) where
nobody has a deadline, and `NoStrandedPermit`, whose step compares the
cardinalities of the tasks on their way before and after. A deadline breaks
`Dozing`: the timer wakes a task whose handle stays queued, which is why these
theorems speak of tasks without. TLC checked both invariants on the instances of
the run `locks` first.

### The lives of tasks

For every number of cores, tasks and priorities, in `TaskLifeProofs`, from
`RootAssumption` (the first task is a task, and the value that stands for nobody
is not):

- `JoinerIsReachableCorrect`: the handle of a task that sleeps in `join` is in
  exactly one of `WAITING_TASKS`, the queue that the joined task's `exit` has
  taken and still wakes, and the input of the sleeper's core.
- `JoinedIsOverCorrect`: `join` returns only when its task has finished.
- `TaskCountCorrect`: `NO_TASKS` is the number of tasks spawned and not finished.
- `LifeNeverPanics`: spawn, join and exit never make a scheduler panic.
- `LifeOnePlace`, `LifeTypeCorrect`: places and types, `NO_TASKS >= 0` included.

`LifeInv` is inductive. `Lives` ties the tables to the tasks: one that is not in
`TASKS` is unknown to its core, and if it has a parent, that parent is in spawn
for it; a task is in `WAITING_TASKS` from its spawn until its exit takes it out;
it has ended exactly when it is in exit. Without the second, `join` would take a
task that is not spawned yet for one that is over. `Queues` says that no queue of
joiners names one twice and that only an exit in its loop has handles left.
`Sleepers` is `Slumber` for all these handles, with `Linked`: whoever holds a
handle is the task that its owner joins, and a sleeper's handle is held or
called. `TaskCount` is the fourth conjunct; its step adds or removes one task from
the set it counts. The lemmas about the schedulers say of each operation which
tasks end and which are born (`SameLives`). TLC checked `LifeInv` first, on the
instance of the run `cores`. The theorems are about safety: the two cores that
`tasklife_locks` shows waiting for each other break none of them.

### The split virtqueue

For every size of the queue, width of the ring indexes, length and number of
buffers, in `VirtqueuesProofs`:

- `SplitImplementsQueue`: the split queue implements `BufferQueue` under the
  mapping of `SplitQueue`, which the run `hardware` checks as a conjunct of
  `ImplementsQueue`. `push_publish` is the dispatch, `push_fails` the refusal,
  `split_device_use` the completion; the other steps of push, and the device
  taking an entry, change nothing in the abstract queue.
- `ChainIsIntactCorrect`: a chain that the device owns is whole and is the one
  filed under its head, whatever was returned, leaked or handed out since.
- `SplitTypeCorrect`: types.

They assume `SplitAssumption`: the size divides the modulus of the ring indexes
and is less, and every buffer has a descriptor (`AvailBufferToken::new`
refuses one without). In the code the modulus is 2^16, and the size is what the device
offers or the `max_size` of `set_vq_size`; virtio allows powers of two up to
2^15. The driver does not check what the device offers, so a device that offers
another size is outside the theorems.

`SplitInv` is inductive. `Chains` says that every head with a token is the first
of a chain of allocated descriptors, that each of them carries the number of the
buffer and its place, and that no two tokens have the same number, so that no two
chains share a descriptor. `Apart` says where a head can be: pushed and not
published, in the available ring, at the device or in the used ring, once and in
one of them. `AvailSeq` and `UsedSeq` are the rings read as sequences, and
`RingWrite`, `RingMore` and `RingLess` say what writing a slot and moving either
index does to them wherever the index wraps. Writing a slot is safe because
`Apart` bounds how many heads a ring holds (`Room`, by counting). `ChainIs` shows
that following the `next` fields gives back the chain, `LowestExist` that enough
free indexes can be allocated. One lemma for each action (`PushStep`, ...,
`RecvStep`) has both the invariant and what the step is in the abstract queue.
TLC checked `SplitInv` first.

### The console log

`RingIsTailCorrect`, in `ConsoleLog`: for every capacity and every set of bytes,
what `read` returns is the newest `CONSOLE_LOG_CAPACITY` bytes that were
captured. `RingInv` says that slot `(start + k) % CONSOLE_LOG_CAPACITY` holds
byte `k` of them, for every `k` below `len`; `OverlongKeeps` and `FitsKeeps` show
that both branches of `append` keep it wherever the ring wraps, and `RingIsRead`
that `read` undoes the wrap. The theorem is about `LogSpec`, the ring with any
sequence of its operations; every step of `RamShell` is one of these on the
ring or leaves it alone.

### The AHCI port

In `AhciPort`, for every number of callers and of commands, of which any may
fail, be given up for late or end late:

- `AckedIsDoneCorrect`: `transfer_sectors` returns `Ok`, to a call beside which no
  other one ran, only for a command that the disk carried out.
- `BufferIsHeldCorrect`: what the HBA works on is still allocated, unless its call
  was given up for late or ran beside another one.

They are conjuncts of `AnswersAreOwn` and `DmaIsOwned`. Both name the cases in
which the code does fail; section 4 has them. The hazard is a command that timed
out and completes while the driver polls for the next one: both use slot 0, and
the driver sees one bit of `PxCI`. `PortInv` says why that bit is enough for a call
that is alone (`CallInv`): from the wait for BSY to the write of `PxCI` the HBA is
at rest, so the header in the slot is the call's own; while it polls the HBA is
busy with nothing but that command, and a clear bit means that it was executed.
The wait is what makes this true, and a call that overlaps has waited in vain: the
other may have issued since. `PortInv` therefore says nothing of such calls except
that what they write to the slot is marked as overlapped. `CallerKeeps` has one
case for each step of a caller, `PortKeeps` those of the boot and of the HBA.

### What is only model-checked

- Liveness under fairness: `BootRepairs`, `WaitsEnd`, `EventsAreHandled`,
  `WaitersAreWoken`. The prover has no rules for fairness and ENABLED.
- `Paging`, `RamShell`, `UsbIngest` and `VirtioFs` walk tables, stored text,
  cluster chains and paths with recursive operators. What they compute for
  every input needs induction over data, which the prover cannot do.
- `SemTypeOK`: the bound on the count is a sum of the calls of all tasks, and a
  sum over a set is defined by recursion. The rest of it is in `SemInv`.
- The packed virtqueue, and the other components.

## 6. Not modelled

llama.cpp and the BitNet kernels: floating-point code. The IP stack: the start
of the network task is commented out in `executor::init`, so none of it runs, and
the protocols are smoltcp's. USB HID: no code calls it. RTL8169 is probed and not
driven. AArch64 and RISC-V beyond their page tables: the kernels do not build
with the drivers of this repository. Register set-up, transports, the layouts of
descriptors and packets, drawing and logging: no decisions that a property here
could be about. Build scripts, examples and benchmarks. `PROJECT.json` lists
every part with its sources and what of it is left out.

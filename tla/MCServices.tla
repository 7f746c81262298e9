----------------------------- MODULE MCServices -----------------------------
(***************************************************************************)
(* What the kernel and the runtime do for the application, each on a small *)
(* instance: file systems, sockets, event counters, console and keyboard,  *)
(* the threads of the C library, its heap, and the bridge to the model.    *)
(***************************************************************************)
EXTENDS Parts, Sequences, TLC

CONSTANTS t1, t2

\* No component tells its two threads apart.
Symmetry == Permutations({t1, t2})

-----------------------------------------------------------------------------
(* Files *)

FsNodes == [names |-> 5, bytes |-> 5]
FsOpen == [names |-> 1, bytes |-> 2]
FsPaths == {[abs |-> TRUE, comps |-> <<1>>], [abs |-> TRUE, comps |-> <<1, 3>>], [abs |-> FALSE, comps |-> <<2>>]}

Mem == INSTANCE MemFs WITH Tasks <- {t1, t2}, Names <- {1, 2, 3}, Paths <- FsPaths, Tmp <- 1,
       Proc <- 2, Bytes <- {5}, Offsets <- {-1, 0, 2}, USIZE <- 16, MaxNodes <- FsNodes, MaxOpen <- FsOpen,
       MaxLen <- 2, dirs <- v1, files <- v2, objs <- v3, object_map <- v4, cwd <- v5, call <- v6,
       panicked <- v7, load <- v8

\* Two trees of the host: one with a link to a file in a directory, which holds a link to that file
\* itself; one with a link to a file, an empty directory and more entries than one answer lists.
HostTrees ==
  LET Free == [kind |-> "free", data |-> <<>>, ents |-> <<>>, target |-> <<>>]
      F(d) == [Free EXCEPT !.kind = "file", !.data = d]
      D(e) == [Free EXCEPT !.kind = "dir", !.ents = e]
      L(p) == [Free EXCEPT !.kind = "link", !.target = p]
      T(f) == [n \in 0..5 |-> IF n \in DOMAIN f THEN f[n] ELSE Free]
  IN  {T(0 :> D(1 :> 1 @@ 2 :> 2) @@ 1 :> D(1 :> 3 @@ 2 :> 4) @@ 2 :> L(<<1, 2>>) @@ 3 :> F(<<7, 8, 9>>) @@ 4 :> L(<<1>>)),
       T(0 :> D(1 :> 1 @@ 2 :> 2 @@ 3 :> 3) @@ 1 :> F(<<7, 8>>) @@ 2 :> L(<<1>>) @@ 3 :> D(<<>>))}

Fuse == INSTANCE VirtioFs WITH Tasks <- {t1, t2}, Names <- {1, 2, 3},
       Paths <- {<<>>, <<1>>, <<2>>, <<1, 2>>}, Hosts <- HostTrees, Tmp <- 3, MaxNodes <- 6,
       MAX_READ_LEN <- 2, MaxLen <- 4, MaxLinks <- 2, MaxHandles <- 2, MaxCalls <- 4,
       MaxErrors <- 1, USIZE <- 16, host <- v1, fhs <- v2, handles <- v3, call <- v4, mounts <- v5,
       calls <- v6, errors <- v7, short <- v8, stat <- v9, overrun <- v10, panicked <- v11

-----------------------------------------------------------------------------
(* Descriptors that wait *)

Sock == INSTANCE Sockets WITH Tasks <- {t1, t2}, MAX <- 2, Values <- {1}, Snoozes <- 2,
       EventMaxCalls <- 3, CallThreads <- {t1, t2}, Sockets <- {1, 2}, Fds <- {3, 4},
       CallPorts <- {1}, CallPeerCid <- 7, Ephemeral <- {8}, CallMaxCalls <- 4, ListenPort <- 1,
       FirstPort <- 2, VsockPeerCid <- 3, CntMod <- 4, PeerAlloc <- 2, MaxSent <- 2,
       MaxTraffic <- 5, MaxQueued <- 2, MaxPackets <- 1, counter <- v1, read_queue <- v2,
       write_queue <- v3, flags <- v4, task <- v5, event_wrote <- v6, got <- v7, astray <- v8, fds <- v1,
       socks <- v2, call_port_map <- v3, locks <- v4, thr <- v5, calls <- v6, socket <- v1,
       vsock_port_map <- v2, vsock_locks <- v3, inbox <- v4, outbox <- v5, peer <- v6,
       vsock_call <- v7, woken <- v8, read_bytes <- v9, vsock_wrote <- v10

-----------------------------------------------------------------------------
(* Console and keyboard *)

ConsoleTexts ==
  {<<"glyph">>, <<"glyph", "newline">>, <<"backspace">>, <<"return", "tab">>, <<"clear", "glyph">>,
   <<"glyph", "glyph", "glyph">>}

\* Letters with and without modifiers, the two bytes of an extended key, an answer of the keyboard.
KeyPresses ==
  LET D(k) == [key |-> k, up |-> FALSE]
      U(k) == [key |-> k, up |-> TRUE]
  IN  {<<D("c"), U("c")>>, <<D("lshift"), D("c"), U("lshift")>>, <<D("rshift"), U("rshift"), D("1")>>,
       <<D("ctrl"), D("c"), U("ctrl")>>, <<D("e0"), D("enter")>>, <<D("f0"), D("c"), D("c")>>,
       <<D("e0"), U("lshift"), D("1")>>, <<D("answer"), D("caps"), D("1")>>}

Tty == INSTANCE Terminal WITH SERIAL_BUFFER_SIZE <- 3, RING_SIZE <- 2, COLS <- 2, ROWS <- 2,
       Texts <- ConsoleTexts, MaxBytes <- 5, BUFFER_LEN <- 3, POLL_LIMIT <- 4,
       Presses <- KeyPresses, ReadLens <- {1, 3}, MaxInput <- 3, backend <- v1,
       console_buffer <- v2, sending <- v3, sent <- v4, tx_buf <- v5, tx_write <- v6,
       tx_read <- v7, host <- v8, seen <- v9, overrun <- v10, rewound <- v11, cursor <- v12,
       drawn <- v13, written <- v14, line <- v1, present <- v2, kbd <- v3, stdin_buffer <- v4,
       head <- v5, tail <- v6, fifo <- v7, uart <- v8, rx <- v9, page <- v10, irq <- v11,
       waker <- v12, reader <- v13, notified <- v14, ready <- v15, pushed <- v16, got <- v17,
       came <- v18, took <- v19, presses <- v20

-----------------------------------------------------------------------------
(* The application *)

Libc == INSTANCE CRuntime WITH Threads <- {1, 2}, MaxCalls <- 4, HeapSize <- 16,
       Sizes <- {0, 1, 3, 31}, Alignments <- {3, 4}, SizeMod <- 32, SbrkCapacity <- 2, MaxAllocs <- 2, cell <- v1,
       word <- v2, live <- v3, asleep <- v4, pt <- v5, owner <- v6, swept <- v7, args_tid <- v8,
       raws <- v1, cells <- v2, ptrs <- v3, allocs <- v4, arena <- v5, lost <- v6, wrapped <- v7

\* Buffers whose tensors fit, end behind the buffer, overflow a size_t, and end with it; one that is
\* too short and one that is not aligned.
ModelBuffers ==
  LET T(o, n) == [offset |-> o, size |-> n]
      B(n, a, ts) == [len |-> n, aligned |-> a, data_offset |-> 2, tensors |-> ts]
  IN  <<B(7, TRUE, <<T(0, 3), T(3, 2)>>), B(7, TRUE, <<T(0, 6)>>), B(7, TRUE, <<T(7, 1)>>),
        B(6, TRUE, <<T(4, 0)>>), B(1, TRUE, <<>>), B(7, FALSE, <<T(0, 3)>>)>>
AnswerLines ==
  LET L(c, e, n) == [class |-> c, ends |-> e, n |-> n]
  IN  {L("blank", FALSE, 0), L("code", FALSE, 3), L("code", TRUE, 3), L("prose", FALSE, 3), L("prose", TRUE, 2)}

Bridge == INSTANCE Inference WITH Buffers <- ModelBuffers, MinLen <- 2, SizeMax <- 8, Lines <- AnswerLines,
       NCtx <- 5, InteractiveMax <- 4, DefaultPredict <- 3,
       Requests <- [n_predict : {-1, 0, 2, 9}, n_threads : {1, 2, 3}], MaxCalls <- 3,
       inf_pc <- v1, inf_call <- v2, cached_model <- v3, cached_threads <- v4,
       backend_ready <- v5, quiet_logs <- v6, alive <- v7, attached <- v8, positions <- v9,
       generated <- v10, text <- v11, inf_calls <- v12, verdict <- v13, freed <- v14

-----------------------------------------------------------------------------
Init ==
  \/ Begin("memfs", 8) /\ Mem!Init
  \/ Begin("virtiofs", 11) /\ Fuse!Init
  \/ Begin("eventfd", 8) /\ Sock!EventInit
  \/ Begin("sockets", 6) /\ Sock!CallInit
  \/ Begin("vsock", 10) /\ Sock!VsockInit
  \/ Begin("console", 14) /\ Tty!ConsoleInit
  \/ Begin("stdin", 20) /\ Tty!StdinInit
  \/ Begin("pthread", 8) /\ Libc!PthreadInit
  \/ Begin("heap", 7) /\ Libc!HeapInit
  \/ Begin("inference", 14) /\ Bridge!Init
Next ==
  \/ part = "memfs" /\ Mem!Next /\ Keep(8)
  \/ part = "virtiofs" /\ Fuse!Next /\ Keep(11)
  \/ part = "eventfd" /\ Sock!EventNext /\ Keep(8)
  \/ part = "sockets" /\ Sock!CallNext /\ Keep(6)
  \/ part = "vsock" /\ Sock!VsockNext /\ Keep(10)
  \/ part = "console" /\ Tty!ConsoleNext /\ Keep(14)
  \/ part = "stdin" /\ Tty!StdinNext /\ Keep(20)
  \/ part = "pthread" /\ Libc!PthreadNext /\ Keep(8)
  \/ part = "heap" /\ Libc!HeapNext /\ Keep(7)
  \/ part = "inference" /\ Bridge!Next /\ Keep(14)
Spec == Init /\ [][Next]_vars

-----------------------------------------------------------------------------
\* Every component keeps its type invariant.
TypeOK ==
  /\ part = "memfs" => Mem!TypeOK
  /\ part = "virtiofs" => Fuse!TypeOK
  /\ part = "eventfd" => Sock!EventTypeOK
  /\ part = "sockets" => Sock!CallTypeOK
  /\ part = "vsock" => Sock!VsockTypeOK
  /\ part = "console" => Tty!ConsoleTypeOK
  /\ part = "stdin" => Tty!StdinTypeOK
  /\ part = "pthread" => Libc!PthreadTypeOK
  /\ part = "heap" => Libc!HeapTypeOK
  /\ part = "inference" => Bridge!TypeOK
\* Nobody sleeps over what it waits for, and who sleeps can be woken: a thread in accept, read or
\* write of a socket, a caller of a socket's lock, a locker of a mutex and a waiter for a condition
\* (pthread_mutex_lock, pthread_cond_wait), a reader or writer of an event counter, a reader of a
\* UART.  The parts name the exceptions, in which the code does lose a wake-up: a second reader
\* overwrites the first one's waker (vsock, serial line), a wake-up of an event counter goes to a call
\* that has ended, vsock_run and a caller wait for each other's lock, and nothing ever wakes a reader
\* of a console that is a page of memory.
SleepersAreReached ==
  /\ part = "vsock" => Sock!SleepIsJustified
  /\ part = "sockets" => Sock!WaitsBehindSleeper
  /\ part = "pthread" => Libc!NoStrandedLocker /\ Libc!NoMissedBroadcast
  /\ part = "eventfd" => Sock!SleeperIsQueued
  /\ part = "stdin" => Tty!SleeperHasInput /\ Tty!AnnouncedIsThere

\* Bytes are neither lost, repeated nor reordered: from the peer of a vsock to the reader and within
\* the credit of the peer to it, from the keys and the serial line to the reader, from the writers
\* of the console through its buffers to the device and onto the screen, and in an event counter.
\* Exceptions: the page of the console drops its oldest bytes when it is full, and the writer and the
\* host that move its index at once can set it back; a full keyboard buffer drops new keys.
BytesInOrder ==
  /\ part = "vsock" => Sock!StreamInOrder /\ Sock!CreditIsRespected
  /\ part = "stdin" => Tty!InputInOrder
  /\ part = "console" => Tty!OutputInOrder /\ Tty!RingIsNewest /\ Tty!GlyphsOnScreen
  /\ part = "eventfd" => Sock!CounterIsConserved

\* Files are what their calls made them: size and content agree in the RAM file system whoever else
\* has the file open, a listing in pieces that ended for a buffer with room is complete, a virtio-fs
\* file is read and its directory listed in order across short answers of the host, and stat answers
\* for the node the links lead to, if they lie in the mounted directory and have targets of one name.
FilesAreSound ==
  /\ [](/\ part = "memfs" => Mem!SizeIsLength /\ Mem!ListingIsComplete
        /\ part = "virtiofs" => Fuse!TransfersInOrder)
  /\ [][part = "virtiofs" => Fuse!StatFollowsLinks]_vars

\* What a call takes has one owner and is given back once: no two threads hold a mutex, nobody touches
\* the word of a mutex or condition that was destroyed, a host handle is released and then not used
\* (it is never released after a failed command or an empty listing), a port lives as long as its
\* socket, the blocks of the heap lie apart unless a size near SIZE_MAX was asked for, and a prompt
\* leaves only the cached model and threads and the library's globals behind, whichever of its steps
\* fails.
NothingLeaks ==
  /\ part = "pthread" => Libc!MutualExclusion
  /\ part = "virtiofs" => Fuse!HostHandlesAreOwned
  /\ part = "sockets" => Sock!PortLives
  /\ part = "heap" => Libc!BlocksAreSound
  /\ part = "inference" => Bridge!NothingLeaks

\* A prompt is decoded as the model needs it: tokens at consecutive positions within the context,
\* tensors inside the buffer also where offsets overflow, and an end exactly after the first
\* explanation that follows code (hermit_bitnet.cpp).
PromptIsDecoded ==
  part = "inference" => Bridge!PositionsInOrder /\ Bridge!LoadedFits /\ Bridge!StopsAfterExplanation
=============================================================================

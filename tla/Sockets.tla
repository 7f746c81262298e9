------------------------------- MODULE Sockets -------------------------------
(***************************************************************************)
(* Descriptors that wait: the socket calls, vsock connections, event       *)
(* counters.                                                               *)
(***************************************************************************)
EXTENDS Integers, Sequences, FiniteSets, FiniteSetsExt, SequencesExt

-----------------------------------------------------------------------------
(***************************************************************************)
(* The socket calls (kernel/src/syscalls/socket/mod.rs) and the descriptor *)
(* calls they share with files (syscalls/mod.rs, fd/mod.rs), made by       *)
(* several threads on sockets of the vsock family; what travels over a     *)
(* connection is below.                                                    *)
(*                                                                         *)
(* An object lies behind an async_lock::RwLock that prefers writers: a     *)
(* call that changes the socket claims the lock, which stops new readers,  *)
(* and then waits for the readers inside.  A call that must wait for the   *)
(* peer sleeps with its guard.  The object is dropped with its last        *)
(* reference, a descriptor's or a running call's.                          *)
(***************************************************************************)
CONSTANTS
  CallThreads, Sockets, Fds,    \* Sockets and Fds are sets of positive numbers
  CallPorts, CallPeerCid,           \* ports to bind to; the peer's context id
  Ephemeral,                \* the ports connect tries, from u32::MAX / 4
  CallMaxCalls

VARIABLES
  fds,        \* descriptor -> socket, or 0
  socks,      \* socket -> its Socket, and whether it exists
  call_port_map,   \* port -> its RawSocket; owner (auxiliary) is the socket that entered it
  locks,      \* socket -> its RwLock
  thr,        \* thread -> its call
  calls

call_vars == <<fds, socks, call_port_map, locks, thr, calls>>

NoOne == "none"
AllPorts == CallPorts \cup {CallPeerCid} \cup Ephemeral
Unlocked == [readers |-> {}, claim |-> NoOne]
NoRaw == [state |-> "none", owner |-> 0, waker |-> NoOne, data |-> FALSE]
NewSocket == [live |-> FALSE, port |-> 0, is_nonblocking |-> FALSE]
Idle(ret) == [pc |-> "idle", op |-> "", s |-> 0, arg |-> 0, ret |-> ret]

CallInit ==
  /\ fds = [f \in Fds |-> 0]
  /\ socks = [s \in Sockets |-> NewSocket]
  /\ call_port_map = [p \in AllPorts |-> NoRaw]
  /\ locks = [s \in Sockets |-> Unlocked]
  /\ thr = [t \in CallThreads |-> Idle("ok")]
  /\ calls = 0

Called == calls < CallMaxCalls /\ calls' = calls + 1
Answers(t, ret) == thr' = [thr EXCEPT ![t] = Idle(ret)]

-----------------------------------------------------------------------------
(* Entry: the arguments are looked at, then the descriptor *)

Inserted(s) == [fds EXCEPT ![Min({f \in Fds : fds[f] = 0})] = s]
CallRoom == \E f \in Fds : fds[f] = 0

sys_socket(t, family, type, nonblock) ==
  /\ thr[t].pc = "idle" /\ Called
  /\ IF family # "vsock" THEN Answers(t, "EAFNOSUPPORT") /\ UNCHANGED <<fds, socks>>
     ELSE IF type # "stream" THEN Answers(t, "ESOCKTNOSUPPORT") /\ UNCHANGED <<fds, socks>>
     ELSE \E s \in {x \in Sockets : socks[x] = NewSocket} :
            /\ CallRoom
            /\ \A x \in Sockets : socks[x] = NewSocket => s <= x
            /\ socks' = [socks EXCEPT ![s] = [@ EXCEPT !.live = TRUE, !.is_nonblocking = nonblock]]
            /\ fds' = Inserted(s)
            /\ Answers(t, "ok")
  /\ UNCHANGED <<call_port_map, locks>>

CallExclusive == {"bind", "listen", "accept", "connect", "setsockopt", "getsockopt", "setfl"}
Shared == {"getsockname", "getpeername", "shutdown", "getfl", "recvfrom"}
Timed == {"read", "write"}      \* these first ask the object for its time limit

\* The answer to a name before the descriptor is looked at.
NameAnswer(op, name) ==
  IF name = "null" THEN (IF op = "bind" THEN "EDESTADDRREQ" ELSE "EINVAL")
  ELSE IF name = "unknown family" THEN "EINVAL"
  ELSE IF op = "connect" /\ name = "short" THEN "EINVAL" ELSE "ok"

\* And after it.
LateAnswer(op, name) == IF op = "bind" /\ name \in {"short", "unix"} THEN "EINVAL" ELSE "ok"

\* sys_bind and sys_connect.
sys_named(t, op, f, name, p) ==
  /\ thr[t].pc = "idle" /\ op \in {"bind", "connect"} /\ Called
  /\ IF NameAnswer(op, name) # "ok" THEN Answers(t, NameAnswer(op, name))
     ELSE IF fds[f] = 0 THEN Answers(t, "EBADF")
     ELSE IF LateAnswer(op, name) # "ok" THEN Answers(t, LateAnswer(op, name))
     ELSE thr' = [thr EXCEPT ![t] = [pc |-> "claim", op |-> op, s |-> fds[f], arg |-> p, ret |-> "ok"]]
  /\ UNCHANGED <<fds, socks, call_port_map, locks>>

\* Options and commands that are answered without a look at the descriptor; how is the option or command.
SetAnswer(how) == IF how = "reuseaddr" THEN "ok" ELSE IF how = "known" THEN "none" ELSE "EINVAL"
GetAnswer(how) == IF how = "known" THEN "none" ELSE "EINVAL"
FlagAnswer(how) == IF how = "cloexec" THEN "ok" ELSE IF how = "known" THEN "none" ELSE "EINVAL"
Early(op, how) ==
  CASE op = "setsockopt" -> SetAnswer(how)
    [] op = "getsockopt" -> GetAnswer(how)
    [] op = "setfl" -> FlagAnswer(how)
    [] OTHER -> "none"

\* sys_accept, sys_listen, sys_setsockopt, sys_getsockopt, sys_fcntl with F_SETFL, sys_ioctl with FIONBIO.
sys_exclusive(t, op, f, value, how) ==
  /\ thr[t].pc = "idle" /\ op \in CallExclusive \ {"bind", "connect"} /\ Called
  /\ IF Early(op, how) # "none" THEN Answers(t, Early(op, how))
     ELSE IF fds[f] = 0 THEN Answers(t, "EBADF")
     ELSE thr' = [thr EXCEPT ![t] = [pc |-> "claim", op |-> op, s |-> fds[f], arg |-> value, ret |-> "ok"]]
  /\ UNCHANGED <<fds, socks, call_port_map, locks>>

\* sys_getsockname, sys_getpeername, sys_shutdown, sys_fcntl with F_GETFL, sys_recvfrom; fd::read, fd::write.
\* room: 1 when the caller has no room for the address.
sys_shared(t, op, f, room) ==
  /\ thr[t].pc = "idle" /\ op \in Shared \cup Timed /\ Called
  /\ IF fds[f] = 0 THEN Answers(t, "EBADF")
     ELSE thr' = [thr EXCEPT ![t] = [pc |-> IF op \in Timed THEN "limit" ELSE "shared",
                                     op |-> op, s |-> fds[f], arg |-> room, ret |-> "ok"]]
  /\ UNCHANGED <<fds, socks, call_port_map, locks>>

-----------------------------------------------------------------------------
(* The lock, and the end of a call *)

\* read_timeout and write_timeout: a guard of their own, given back at once.
limit(t) ==
  /\ thr[t].pc = "limit" /\ locks[thr[t].s].claim = NoOne
  /\ thr' = [thr EXCEPT ![t].pc = "shared"]
  /\ UNCHANGED <<fds, socks, call_port_map, locks, calls>>

read_lock(t) ==
  /\ thr[t].pc = "shared" /\ locks[thr[t].s].claim = NoOne
  /\ locks' = [locks EXCEPT ![thr[t].s].readers = @ \cup {t}]
  /\ thr' = [thr EXCEPT ![t].pc = "inside"]
  /\ UNCHANGED <<fds, socks, call_port_map, calls>>

write_claim(t) ==
  /\ thr[t].pc = "claim" /\ locks[thr[t].s].claim = NoOne
  /\ locks' = [locks EXCEPT ![thr[t].s].claim = t]
  /\ thr' = [thr EXCEPT ![t].pc = "drain"]
  /\ UNCHANGED <<fds, socks, call_port_map, calls>>

write_lock(t) ==
  /\ thr[t].pc = "drain" /\ locks[thr[t].s].readers = {}
  /\ thr' = [thr EXCEPT ![t].pc = "inside"]
  /\ UNCHANGED <<fds, socks, call_port_map, locks, calls>>

Unguarded(lock, t) == [readers |-> lock.readers \ {t}, claim |-> IF lock.claim = t THEN NoOne ELSE lock.claim]

\* No descriptor and no other call holds s.
Unreferenced(s, t, newfds) == (\A f \in Fds : newfds[f] # s) /\ (\A u \in CallThreads \ {t} : thr[u].s # s)

\* Drop for Socket: the port goes, whoever entered it.
Dropped(map, sock) == [p \in AllPorts |-> IF p = sock.port THEN NoRaw ELSE map[p]]

\* The guard is given back, then the reference.
Ends(t, ret, sock, map, newfds) ==
  LET s == thr[t].s
      gone == Unreferenced(s, t, newfds)
  IN /\ Answers(t, ret)
     /\ locks' = [locks EXCEPT ![s] = Unguarded(@, t)]
     /\ fds' = newfds
     /\ socks' = [socks EXCEPT ![s] = [sock EXCEPT !.live = ~gone]]
     /\ call_port_map' = IF gone THEN Dropped(map, sock) ELSE map
     /\ UNCHANGED calls

Inside(t, op) == thr[t].pc = "inside" /\ thr[t].op = op
Mine(t) == socks[thr[t].s]
Known(t) == Mine(t).port \in AllPorts /\ call_port_map[Mine(t).port].state # "none"
Raw(t) == call_port_map[Mine(t).port]

\* Poll::Pending: the thread sleeps with its guard, and its waker is the port's.
Sleeps(t, p) ==
  /\ thr' = [thr EXCEPT ![t].pc = "asleep"]
  /\ call_port_map' = [call_port_map EXCEPT ![p].waker = t]
  /\ UNCHANGED <<fds, socks, locks, calls>>

-----------------------------------------------------------------------------
(* What the calls do, with the guard *)

\* The port is the socket's even when another socket has it.
call_bind(t) ==
  /\ Inside(t, "bind")
  /\ LET p == thr[t].arg
         taken == call_port_map[p].state # "none"
     IN Ends(t, IF taken THEN "EADDRINUSE" ELSE "ok", [Mine(t) EXCEPT !.port = p],
             IF taken THEN call_port_map ELSE [call_port_map EXCEPT ![p] = [NoRaw EXCEPT !.state = "Listen", !.owner = thr[t].s]], fds)

\* The new descriptor is one more of the same socket.  A socket bound to another
\* context id sends a reset for the response (274-278) and is connected all the
\* same; then data, which need not come here, never do.
accept(t) ==
  /\ Inside(t, "accept")
  /\ IF ~Known(t) THEN Ends(t, "EINVAL", Mine(t), call_port_map, fds)
     ELSE \/ /\ Raw(t).state = "Listen" /\ Mine(t).is_nonblocking
             /\ Ends(t, "EAGAIN", Mine(t), call_port_map, fds)
          \/ /\ Raw(t).state = "Listen" /\ ~Mine(t).is_nonblocking
             /\ Sleeps(t, Mine(t).port)
          \/ /\ Raw(t).state = "ReceiveRequest" /\ CallRoom
             /\ Ends(t, "ok", Mine(t), [call_port_map EXCEPT ![Mine(t).port].state = "Connected"], Inserted(thr[t].s))
          \/ /\ Raw(t).state \notin {"Listen", "ReceiveRequest"}
             /\ Ends(t, "EBADF", Mine(t), call_port_map, fds)

\* The first poll sends the request; the port kept is the peer's context id.
call_connect(t) ==
  /\ Inside(t, "connect") /\ thr[t].arg \notin Ephemeral
  /\ LET free == {p \in Ephemeral : call_port_map[p].state = "none"}
     IN IF free = {} THEN Ends(t, "EBADF", Mine(t), call_port_map, fds)
        ELSE /\ call_port_map' = [call_port_map EXCEPT ![Min(free)] = [NoRaw EXCEPT !.state = "Connecting", !.owner = thr[t].s]]
             /\ socks' = [socks EXCEPT ![thr[t].s].port = CallPeerCid]
             /\ thr' = [thr EXCEPT ![t].arg = Min(free)]
             /\ UNCHANGED <<fds, locks, calls>>

connected(t) ==
  /\ Inside(t, "connect") /\ thr[t].arg \in Ephemeral
  /\ \/ /\ call_port_map[thr[t].arg].state = "Connecting"
        /\ Sleeps(t, thr[t].arg)
     \/ /\ call_port_map[thr[t].arg].state # "Connecting"
        /\ Ends(t, IF call_port_map[thr[t].arg].state = "Connected" THEN "ok" ELSE "EBADF", Mine(t), call_port_map, fds)

set_status_flags(t) ==
  Inside(t, "setfl") /\ Ends(t, "ok", [Mine(t) EXCEPT !.is_nonblocking = (thr[t].arg = 1)], call_port_map, fds)

\* A vsock name is never written.
getsockname(t) ==
  Inside(t, "getsockname") /\ Ends(t, IF thr[t].arg = 1 THEN "EINVAL" ELSE "ok", Mine(t), call_port_map, fds)

\* Of a socket without a port the answer is 0.
getpeername(t) ==
  Inside(t, "getpeername") /\ Ends(t, IF Known(t) /\ thr[t].arg = 1 THEN "EINVAL" ELSE "ok", Mine(t), call_port_map, fds)

\* The calls that a vsock socket leaves to ObjectInterface, or answers without effect.
Plain(op) ==
  CASE op \in {"listen", "shutdown", "getfl"} -> "ok"
    [] op \in {"setsockopt", "getsockopt"} -> "ENOTSOCK"
    [] op = "recvfrom" -> "ENOSYS"
    [] OTHER -> "none"

plain(t) ==
  /\ thr[t].pc = "inside" /\ Plain(thr[t].op) # "none"
  /\ Ends(t, Plain(thr[t].op), Mine(t), call_port_map, fds)

read(t) ==
  /\ Inside(t, "read")
  /\ IF ~Known(t) THEN Ends(t, "EINVAL", Mine(t), call_port_map, fds)
     ELSE \/ /\ Raw(t).state = "Connected" /\ Raw(t).data
             /\ Ends(t, "ok", Mine(t), [call_port_map EXCEPT ![Mine(t).port].data = FALSE], fds)
          \/ /\ Raw(t).state = "Connected" /\ ~Raw(t).data /\ Mine(t).is_nonblocking
             /\ Ends(t, "EAGAIN", Mine(t), call_port_map, fds)
          \/ /\ Raw(t).state = "Connected" /\ ~Raw(t).data /\ ~Mine(t).is_nonblocking
             /\ Sleeps(t, Mine(t).port)
          \/ /\ Raw(t).state # "Connected"
             /\ Ends(t, "EIO", Mine(t), call_port_map, fds)

write(t) ==
  /\ Inside(t, "write")
  /\ Ends(t, IF ~Known(t) THEN "EINVAL" ELSE IF Raw(t).state = "Connected" THEN "ok" ELSE "EIO", Mine(t), call_port_map, fds)

\* remove_object: the descriptor goes; the object with it if it was the last reference.
sys_close(t, f) ==
  /\ thr[t].pc = "idle" /\ Called
  /\ LET s == fds[f]
         newfds == [fds EXCEPT ![f] = 0]
     IN IF s = 0 THEN Answers(t, "EBADF") /\ UNCHANGED <<fds, socks, call_port_map>>
        ELSE /\ Answers(t, "ok")
             /\ fds' = newfds
             /\ IF Unreferenced(s, t, newfds)
                THEN call_port_map' = Dropped(call_port_map, socks[s]) /\ socks' = [socks EXCEPT ![s].live = FALSE]
                ELSE UNCHANGED <<call_port_map, socks>>
  /\ UNCHANGED locks

-----------------------------------------------------------------------------
(* External: packets of the peer; a request and data wake the sleeper *)

CallWoken(p) == [t \in CallThreads |-> IF t = call_port_map[p].waker /\ thr[t].pc = "asleep" THEN [thr[t] EXCEPT !.pc = "inside"] ELSE thr[t]]

request(p) ==
  /\ call_port_map[p].state = "Listen"
  /\ call_port_map' = [call_port_map EXCEPT ![p].state = "ReceiveRequest", ![p].waker = NoOne]
  /\ thr' = CallWoken(p)
  /\ UNCHANGED <<fds, socks, locks, calls>>

response(p) ==
  /\ call_port_map[p].state = "Connecting"
  /\ call_port_map' = [call_port_map EXCEPT ![p].state = "Connected"]
  /\ UNCHANGED <<fds, socks, locks, thr, calls>>

data(p) ==
  /\ call_port_map[p].state = "Connected" /\ ~call_port_map[p].data
  /\ call_port_map' = [call_port_map EXCEPT ![p].data = TRUE, ![p].waker = NoOne]
  /\ thr' = CallWoken(p)
  /\ UNCHANGED <<fds, socks, locks, calls>>

-----------------------------------------------------------------------------
Step(t) ==
  \/ limit(t) \/ read_lock(t) \/ write_claim(t) \/ write_lock(t)
  \/ call_bind(t) \/ accept(t) \/ call_connect(t) \/ connected(t) \/ set_status_flags(t) \/ getsockname(t) \/ getpeername(t) \/ plain(t) \/ read(t) \/ write(t)

CallNext ==
  \/ \E t \in CallThreads :
       \/ \E family \in {"vsock", "unix"}, type \in {"stream", "dgram"}, nonblock \in BOOLEAN : sys_socket(t, family, type, nonblock)
       \/ \E op \in {"bind", "connect"}, f \in Fds, name \in {"null", "unknown family", "short", "unix", "vsock"}, p \in CallPorts :
            sys_named(t, op, f, name, p)
       \/ \E op \in CallExclusive, f \in Fds, value \in {0, 1}, how \in {"known", "reuseaddr", "cloexec", "other"} :
            (op = "setfl" \/ value = 0) /\ sys_exclusive(t, op, f, value, how)
       \/ \E op \in Shared \cup Timed, f \in Fds, room \in {0, 1} :
            (op \in {"getsockname", "getpeername"} \/ room = 0) /\ sys_shared(t, op, f, room)
       \/ \E f \in Fds : sys_close(t, f)
       \/ Step(t)
  \/ \E p \in AllPorts : request(p) \/ response(p) \/ data(p)

CallSpec == CallInit /\ [][CallNext]_call_vars

-----------------------------------------------------------------------------
CallTypeOK ==
  /\ \A f \in Fds : fds[f] \in Sockets \cup {0}
  /\ \A s \in Sockets : socks[s].port \in AllPorts \cup {0} /\ locks[s].readers \subseteq CallThreads
  /\ \A p \in AllPorts : call_port_map[p].state \in {"none", "Listen", "ReceiveRequest", "Connected", "Connecting"}
  /\ \A t \in CallThreads : thr[t].pc \in {"idle", "limit", "shared", "claim", "drain", "inside", "asleep"}

Waits(t) == \/ thr[t].pc \in {"limit", "shared", "claim"} /\ locks[thr[t].s].claim # NoOne
            \/ thr[t].pc = "drain" /\ locks[thr[t].s].readers # {}

\* When nothing but the peer can go on, a call waits for a socket's lock only behind a call on the same
\* socket that sleeps with its guard: a read without data, an accept without a request, a connect.
WaitsBehindSleeper ==
  (\A t \in CallThreads : thr[t].pc \in {"idle", "asleep"} \/ Waits(t)) =>
    \A t \in CallThreads : Waits(t) => \E u \in CallThreads \ {t} : thr[u].pc = "asleep" /\ thr[u].s = thr[t].s

\* A socket that a descriptor or a running call refers to exists, and keeps the port it entered as long
\* as its port is that one and no other socket was given the same port: not the close of the descriptor
\* that listened, nor that of the accepted one, takes the port from the other.
PortLives ==
  \A s \in Sockets :
    /\ (\E f \in Fds : fds[f] = s) \/ (\E t \in CallThreads : thr[t].s = s) => socks[s].live
    /\ \A p \in CallPorts : call_port_map[p].state # "none" /\ call_port_map[p].owner = s => socks[s].live \/ socks[s].port # p

-----------------------------------------------------------------------------
(* Stream sockets over virtio-vsock (kernel/src/fd/socket/vsock.rs) and the  *)
(* background task that feeds them (kernel/src/executor/vsock.rs).          *)
(*                                                                          *)
(* One socket is used by two threads, one that accepts, connects and reads  *)
(* ("r") and one that writes and reads ("w"); both block in block_on until  *)
(* the waker they left behind is used.  Two spinlocks are taken: that of    *)
(* the driver and VSOCK_MAP.  vsock_run holds the driver for a whole batch  *)
(* of packets and takes the map for each; accept and write take the map     *)
(* and then the driver.  The peer keeps to the protocol; a second host      *)
(* ("stranger") may also send.                                              *)
CONSTANTS
  ListenPort, FirstPort,  \* a port to bind; the first port connect tries
  VsockPeerCid,                \* the context id of the peer
  CntMod,                 \* the byte counters wrap at 2^32; at least twice PeerAlloc, as 2^32 is (see Credit)
  PeerAlloc,              \* the buffer of the peer
  MaxSent,                \* bound: bytes sent by the peer
  MaxTraffic,             \* bound: bytes in both directions and control packets, together
  MaxQueued,              \* bound: packets waiting in each direction
  MaxPackets              \* bound: control packets of the peer, and of the stranger

VARIABLES
  socket,       \* fd::socket::vsock::Socket: port, local (its cid is any or that of the device), is_nonblocking; open
  vsock_port_map,     \* VsockMap; overwritten (auxiliary) are the threads whose rx_waker another took the place of
  vsock_locks,  \* who holds the driver and VSOCK_MAP; the answer that vsock_run has to send
  inbox,        \* packets the device has received
  outbox,       \* packets sent and not yet seen by the peer
  peer,         \* what the peer has sent, received, consumed
  vsock_call,         \* what each thread is doing
  woken,        \* threads whose TaskNotify has been woken
  read_bytes,   \* what the program has read
  vsock_wrote         \* how many bytes the program has written

vsock_vars == <<socket, vsock_port_map, vsock_locks, inbox, outbox, peer, vsock_call, woken, read_bytes, vsock_wrote>>

VsockThreads == {"r", "w"}
NoThread == "none"
Stranger == VsockPeerCid + 1
VsockPorts == {ListenPort, FirstPort, VsockPeerCid}
VsockState == {"Listen", "ReceiveRequest", "Connected", "Connecting", "Shutdown"}

RawSocket(state, cid) ==
  [state |-> state, remote_cid |-> cid, fwd_cnt |-> 0, peer_fwd_cnt |-> 0,
   peer_buf_alloc |-> 0, tx_cnt |-> 0, rx_waker |-> NoThread, tx_waker |-> NoThread,
   buffer |-> <<>>, overwritten |-> {}]

Packet(op, cid, port, len, cnt) == [op |-> op, cid |-> cid, port |-> port, len |-> len, fwd_cnt |-> cnt]

Unheld == [driver |-> NoThread, map |-> NoThread, hdr |-> <<>>, fwd_cnt |-> 0]

VsockInit ==
  /\ socket \in [port : {0}, local : BOOLEAN, is_nonblocking : BOOLEAN, open : {TRUE}]
  /\ vsock_port_map = [p \in {} |-> 0]
  /\ vsock_locks = Unheld
  /\ inbox = <<>> /\ outbox = <<>>
  /\ peer = [sent |-> 0, received |-> 0, consumed |-> 0, packets |-> 0, port |-> 0, done |-> FALSE]
  /\ vsock_call = [t \in VsockThreads |-> "idle"]
  /\ woken = {}
  /\ read_bytes = <<>> /\ vsock_wrote = 0

Put(p, raw) == [q \in DOMAIN vsock_port_map \cup {p} |-> IF q = p THEN raw ELSE vsock_port_map[q]]

\* accept, bind and connect take the socket's lock for writing.
VsockExclusive == \E t \in VsockThreads : vsock_call[t] \in {"accept", "accepting", "request", "connect"}
AllQuiet == \A t \in VsockThreads : vsock_call[t] = "idle"

\* A control packet counts as two bytes.
Traffic == vsock_wrote + peer.sent + 2 * peer.packets

MapFree == vsock_locks.map = NoThread
DriverFree == vsock_locks.driver = NoThread

\* WakerRegistration::register: the waker of another thread is overwritten, and that thread not woken.
RegisterRx(raw, t) ==
  [raw EXCEPT !.rx_waker = t,
              !.overwritten = (IF raw.rx_waker = NoThread THEN @ ELSE @ \cup {raw.rx_waker}) \ {t}]

-----------------------------------------------------------------------------
(* Calls of the program *)

\* VsockMap::bind: the port is the socket's even when it is taken.
vsock_bind ==
  /\ socket.open /\ AllQuiet /\ socket.port = 0 /\ MapFree
  /\ socket' = [socket EXCEPT !.port = ListenPort]
  /\ vsock_port_map' = IF ListenPort \in DOMAIN vsock_port_map THEN vsock_port_map
                       ELSE Put(ListenPort, RawSocket("Listen", 0))
  /\ UNCHANGED <<vsock_locks, inbox, outbox, peer, vsock_call, woken, read_bytes, vsock_wrote>>

\* connect: a port is found; the port the socket keeps is then overwritten by the context id of the peer.
vsock_connect ==
  /\ socket.open /\ AllQuiet /\ socket.port = 0 /\ MapFree
  /\ FirstPort \notin DOMAIN vsock_port_map
  /\ vsock_port_map' = Put(FirstPort, RawSocket("Connecting", VsockPeerCid))
  /\ socket' = [socket EXCEPT !.port = VsockPeerCid]
  /\ vsock_call' = [vsock_call EXCEPT !["r"] = "request"]
  /\ UNCHANGED <<vsock_locks, inbox, outbox, peer, woken, read_bytes, vsock_wrote>>

\* The request is sent once try_lock gets the driver.
connect_send ==
  /\ vsock_call["r"] = "request" /\ DriverFree
  /\ outbox' = Append(outbox, Packet("Request", VsockPeerCid, FirstPort, 0, 0))
  /\ vsock_call' = [vsock_call EXCEPT !["r"] = "connect"]
  /\ woken' = woken \cup {"r"}
  /\ UNCHANGED <<socket, vsock_port_map, vsock_locks, inbox, peer, read_bytes, vsock_wrote>>

\* A thread enters accept, read or write: its future is polled at once.
begin(t, op) ==
  /\ socket.open /\ vsock_call[t] = "idle" /\ ~VsockExclusive
  /\ op \in IF t = "r" THEN {"accept", "read"} ELSE {"read", "write"}
  /\ op = "accept" => vsock_call["w"] = "idle"
  /\ vsock_call' = [vsock_call EXCEPT ![t] = op]
  /\ woken' = woken \cup {t}
  /\ UNCHANGED <<socket, vsock_port_map, vsock_locks, inbox, outbox, peer, read_bytes, vsock_wrote>>

\* The future is polled; Poll::Pending leaves the thread to sleep.
Polls(t, op) == vsock_call[t] = op /\ t \in woken /\ MapFree /\ woken' = woken \ {t}
Ready(t) == vsock_call' = [vsock_call EXCEPT ![t] = "idle"]
VsockPending(t) == UNCHANGED vsock_call

poll_connect ==
  /\ Polls("r", "connect")
  /\ LET raw == vsock_port_map[FirstPort] IN
       IF raw.state = "Connecting"
         THEN VsockPending("r") /\ vsock_port_map' = Put(FirstPort, RegisterRx(raw, "r"))
         ELSE Ready("r") /\ UNCHANGED vsock_port_map
  /\ UNCHANGED <<socket, vsock_locks, inbox, outbox, peer, read_bytes, vsock_wrote>>

\* For a request, the map stays locked until the driver has sent the answer.
poll_accept ==
  /\ Polls("r", "accept")
  /\ IF socket.port \notin DOMAIN vsock_port_map
       THEN Ready("r") /\ UNCHANGED <<vsock_port_map, vsock_locks>>
       ELSE LET raw == vsock_port_map[socket.port] IN
         \/ /\ raw.state = "Listen"
            /\ IF socket.is_nonblocking
                 THEN Ready("r") /\ UNCHANGED vsock_port_map
                 ELSE VsockPending("r") /\ vsock_port_map' = Put(socket.port, RegisterRx(raw, "r"))
            /\ UNCHANGED vsock_locks
         \/ /\ raw.state = "ReceiveRequest"
            /\ vsock_locks' = [vsock_locks EXCEPT !.map = "r"]
            /\ vsock_call' = [vsock_call EXCEPT !["r"] = "accepting"]
            /\ UNCHANGED vsock_port_map
         \/ /\ raw.state \notin {"Listen", "ReceiveRequest"}
            /\ Ready("r") /\ UNCHANGED <<vsock_port_map, vsock_locks>>
  /\ UNCHANGED <<socket, inbox, outbox, peer, read_bytes, vsock_wrote>>

\* A socket bound to another context id refuses with a reset, and is connected all the same.
accept_send ==
  /\ vsock_call["r"] = "accepting" /\ DriverFree
  /\ LET raw == vsock_port_map[socket.port] IN
       /\ outbox' = Append(outbox, Packet(IF socket.local THEN "Response" ELSE "Rst", raw.remote_cid, socket.port, 0, raw.fwd_cnt))
       /\ vsock_port_map' = Put(socket.port, [raw EXCEPT !.state = "Connected"])
  /\ vsock_locks' = [vsock_locks EXCEPT !.map = NoThread]
  /\ Ready("r")
  /\ UNCHANGED <<socket, inbox, peer, woken, read_bytes, vsock_wrote>>

vsock_poll_read(t, n) ==
  /\ Polls(t, "read")
  /\ IF socket.port \notin DOMAIN vsock_port_map
       THEN Ready(t) /\ UNCHANGED <<vsock_port_map, read_bytes>>
       ELSE LET raw == vsock_port_map[socket.port]
                len == IF n < Len(raw.buffer) THEN n ELSE Len(raw.buffer) IN
         IF raw.state = "Connected" /\ len = 0 /\ ~socket.is_nonblocking
           THEN /\ VsockPending(t)
                /\ vsock_port_map' = Put(socket.port, RegisterRx(raw, t))
                /\ UNCHANGED read_bytes
           ELSE /\ Ready(t)
                /\ IF raw.state \in {"Connected", "Shutdown"}
                     THEN /\ read_bytes' = read_bytes \o SubSeq(raw.buffer, 1, len)
                          /\ vsock_port_map' = Put(socket.port, [raw EXCEPT !.buffer = SubSeq(@, len + 1, Len(@)), !.overwritten = @ \ {t}])
                     ELSE UNCHANGED <<vsock_port_map, read_bytes>>
  /\ UNCHANGED <<socket, vsock_locks, inbox, outbox, peer, vsock_wrote>>

\* u32::abs_diff
AbsDiff(a, b) == IF a < b THEN b - a ELSE a - b

\* The bytes write may send now.  The difference is absolute, not modular: between the wrap of tx_cnt and that
\* of the peer's count it is CntMod minus what is outstanding, so that write waits although there may be room.
Credit(raw) ==
  LET diff == AbsDiff(raw.tx_cnt, raw.peer_fwd_cnt) IN
    IF diff >= raw.peer_buf_alloc THEN 0 ELSE raw.peer_buf_alloc - diff

\* With credit, the map stays locked until the driver has sent the packet.
vsock_poll_write ==
  /\ Polls("w", "write")
  /\ IF socket.port \notin DOMAIN vsock_port_map \/ vsock_port_map[socket.port].state # "Connected"
       THEN Ready("w") /\ UNCHANGED <<vsock_port_map, vsock_locks>>
       ELSE LET raw == vsock_port_map[socket.port] IN
         IF Credit(raw) = 0
           THEN /\ IF socket.is_nonblocking
                     THEN Ready("w") /\ UNCHANGED vsock_port_map
                     ELSE VsockPending("w") /\ vsock_port_map' = Put(socket.port, [raw EXCEPT !.tx_waker = "w"])
                /\ UNCHANGED vsock_locks
           ELSE /\ vsock_locks' = [vsock_locks EXCEPT !.map = "w"]
                /\ vsock_call' = [vsock_call EXCEPT !["w"] = "writing"]
                /\ UNCHANGED vsock_port_map
  /\ UNCHANGED <<socket, inbox, outbox, peer, read_bytes, vsock_wrote>>

write_send(n) ==
  /\ vsock_call["w"] = "writing" /\ DriverFree
  /\ Traffic + n <= MaxTraffic /\ Len(outbox) < MaxQueued
  /\ LET raw == vsock_port_map[socket.port]
         len == IF n < Credit(raw) THEN n ELSE Credit(raw) IN
       /\ vsock_port_map' = Put(socket.port, [raw EXCEPT !.tx_cnt = (@ + len) % CntMod])
       /\ outbox' = Append(outbox, Packet("Rw", raw.remote_cid, socket.port, len, raw.fwd_cnt))
       /\ vsock_wrote' = vsock_wrote + len
  /\ vsock_locks' = [vsock_locks EXCEPT !.map = NoThread]
  /\ Ready("w")
  /\ UNCHANGED <<socket, inbox, peer, woken, read_bytes>>

\* Drop for Socket
close ==
  /\ socket.open /\ AllQuiet /\ MapFree
  /\ socket' = [socket EXCEPT !.open = FALSE]
  /\ vsock_port_map' = [p \in DOMAIN vsock_port_map \ {socket.port} |-> vsock_port_map[p]]
  /\ UNCHANGED <<vsock_locks, inbox, outbox, peer, vsock_call, woken, read_bytes, vsock_wrote>>

-----------------------------------------------------------------------------
(* vsock_run *)

\* One packet: st holds the sockets, the woken threads, and the header that
\* will be answered with the count to answer.  The bytes of a packet are pkt.len.
receive(st, pkt) ==
  IF pkt.port \notin DOMAIN st.map THEN st
  ELSE LET raw == st.map[pkt.port]
           put(r) == [st EXCEPT !.map[pkt.port] = r]
           own == raw.remote_cid = pkt.cid
           answer(s, cnt) == [s EXCEPT !.hdr = <<pkt>>, !.fwd_cnt = cnt] IN
    IF pkt.op = "Request" /\ raw.state = "Listen"
      THEN [put([raw EXCEPT !.state = "ReceiveRequest", !.remote_cid = pkt.cid,
                            !.peer_buf_alloc = PeerAlloc, !.rx_waker = NoThread])
              EXCEPT !.woken = @ \cup {raw.rx_waker}]
    ELSE IF pkt.op = "Rw" /\ raw.state \in {"Connected", "Shutdown"}
      THEN IF ~own THEN st
           ELSE LET cnt == (raw.fwd_cnt + Len(pkt.len)) % CntMod IN
             answer([put([raw EXCEPT !.buffer = @ \o pkt.len, !.fwd_cnt = cnt,
                                     !.peer_fwd_cnt = pkt.fwd_cnt,
                                     !.tx_waker = NoThread, !.rx_waker = NoThread])
                       EXCEPT !.woken = @ \cup {raw.tx_waker, raw.rx_waker}], cnt)
    ELSE IF pkt.op = "CreditUpdate"
      THEN IF ~own THEN st
           ELSE [put([raw EXCEPT !.peer_fwd_cnt = pkt.fwd_cnt, !.tx_waker = NoThread])
                   EXCEPT !.woken = @ \cup {raw.tx_waker}]
    ELSE IF pkt.op = "Shutdown"
      THEN IF own THEN put([raw EXCEPT !.state = "Shutdown"]) ELSE st
    ELSE IF pkt.op = "Response"
      THEN IF own /\ raw.state = "Connecting" THEN put([raw EXCEPT !.state = "Connected"]) ELSE st
    ELSE IF own THEN answer(st, raw.fwd_cnt) ELSE st

\* The driver is locked (a turn without packets is left out) ...
vsock_run ==
  /\ inbox # <<>> /\ DriverFree
  /\ vsock_locks' = [vsock_locks EXCEPT !.driver = "run", !.hdr = <<>>, !.fwd_cnt = 0]
  /\ UNCHANGED <<socket, vsock_port_map, inbox, outbox, peer, vsock_call, woken, read_bytes, vsock_wrote>>

\* ... the map for each packet that is there, as long as there are any ...
process_packet ==
  /\ vsock_locks.driver = "run" /\ inbox # <<>> /\ MapFree
  /\ LET end == receive([map |-> vsock_port_map, woken |-> woken, hdr |-> vsock_locks.hdr, fwd_cnt |-> vsock_locks.fwd_cnt], Head(inbox)) IN
       /\ vsock_port_map' = end.map
       /\ woken' = end.woken \ {NoThread}
       /\ vsock_locks' = [vsock_locks EXCEPT !.hdr = end.hdr, !.fwd_cnt = end.fwd_cnt]
  /\ inbox' = Tail(inbox)
  /\ UNCHANGED <<socket, outbox, peer, vsock_call, read_bytes, vsock_wrote>>

\* ... and the last that asks for one gets an answer.  The future wakes itself.
run_answer ==
  /\ vsock_locks.driver = "run" /\ inbox = <<>>
  /\ outbox' = IF vsock_locks.hdr = <<>> THEN outbox
               ELSE LET h == vsock_locks.hdr[1] IN
                 Append(outbox, Packet(IF h.op \in {"CreditRequest", "Rw"} THEN "CreditUpdate" ELSE "Rst",
                                       h.cid, h.port, 0, vsock_locks.fwd_cnt))
  /\ vsock_locks' = [vsock_locks EXCEPT !.driver = NoThread, !.hdr = <<>>, !.fwd_cnt = 0]
  /\ UNCHANGED <<socket, vsock_port_map, inbox, peer, vsock_call, woken, read_bytes, vsock_wrote>>

-----------------------------------------------------------------------------
(* The peer: its packets arrive in order.  Its bytes are numbered. *)

VsockRoom == Len(inbox) < MaxQueued
PeerSends(op, bytes) ==
  inbox' = Append(inbox, Packet(op, VsockPeerCid, peer.port, bytes, peer.consumed % CntMod))

peer_request ==
  /\ peer.port = 0 /\ ~peer.done /\ VsockRoom
  /\ peer' = [peer EXCEPT !.port = ListenPort, !.done = TRUE]
  /\ inbox' = Append(inbox, Packet("Request", VsockPeerCid, ListenPort, <<>>, 0))
  /\ UNCHANGED <<socket, vsock_port_map, vsock_locks, outbox, vsock_call, woken, read_bytes, vsock_wrote>>

\* The peer takes the next packet sent to it.  Its own connection is up once
\* it has the response; a request is answered.
peer_receive ==
  /\ outbox # <<>>
  /\ outbox' = Tail(outbox)
  /\ LET p == Head(outbox) IN
       \/ /\ p.op = "Request" /\ p.cid = VsockPeerCid
          /\ peer' = [peer EXCEPT !.port = p.port]
          /\ inbox' = Append(inbox, Packet("Response", VsockPeerCid, p.port, <<>>, 0))
       \/ /\ p.op = "Response" /\ p.cid = VsockPeerCid
          /\ peer' = [peer EXCEPT !.done = FALSE]
          /\ UNCHANGED inbox
       \/ /\ p.op = "Rst" /\ p.cid = VsockPeerCid
          /\ peer' = [peer EXCEPT !.done = TRUE]
          /\ UNCHANGED inbox
       \/ /\ p.op = "Rw" /\ p.cid = VsockPeerCid
          /\ peer' = [peer EXCEPT !.received = @ + p.len]
          /\ UNCHANGED inbox
       \/ /\ p.op = "CreditUpdate" \/ p.cid # VsockPeerCid
          /\ UNCHANGED <<peer, inbox>>
  /\ UNCHANGED <<socket, vsock_port_map, vsock_locks, vsock_call, woken, read_bytes, vsock_wrote>>

PeerUp == peer.port # 0 /\ ~peer.done
peer_send(n) ==
  /\ PeerUp /\ peer.sent + n <= MaxSent /\ Traffic + n <= MaxTraffic /\ VsockRoom
  /\ peer' = [peer EXCEPT !.sent = @ + n]
  /\ PeerSends("Rw", [i \in 1..n |-> peer.sent + i])
  /\ UNCHANGED <<socket, vsock_port_map, vsock_locks, outbox, vsock_call, woken, read_bytes, vsock_wrote>>

peer_consume ==
  /\ peer.consumed < peer.received /\ VsockRoom
  /\ peer' = [peer EXCEPT !.consumed = peer.received]
  /\ inbox' = Append(inbox, Packet("CreditUpdate", VsockPeerCid, peer.port, <<>>, peer.received % CntMod))
  /\ UNCHANGED <<socket, vsock_port_map, vsock_locks, outbox, vsock_call, woken, read_bytes, vsock_wrote>>

peer_control(op) ==
  /\ PeerUp /\ peer.packets < MaxPackets /\ Traffic + 2 <= MaxTraffic /\ VsockRoom
  /\ peer' = [peer EXCEPT !.packets = @ + 1, !.done = (op = "Shutdown")]
  /\ PeerSends(op, <<>>)
  /\ UNCHANGED <<socket, vsock_port_map, vsock_locks, outbox, vsock_call, woken, read_bytes, vsock_wrote>>

stranger_send(op) ==
  /\ peer.packets < MaxPackets /\ Traffic + 2 <= MaxTraffic /\ VsockRoom
  /\ peer' = [peer EXCEPT !.packets = @ + 1]
  /\ inbox' = Append(inbox, Packet(op, Stranger, ListenPort, IF op = "Rw" THEN <<0>> ELSE <<>>, 0))
  /\ UNCHANGED <<socket, vsock_port_map, vsock_locks, outbox, vsock_call, woken, read_bytes, vsock_wrote>>

VsockNext ==
  \/ vsock_bind \/ vsock_connect \/ connect_send \/ close
  \/ \E t \in VsockThreads, op \in {"accept", "read", "write"} : begin(t, op)
  \/ poll_connect \/ poll_accept \/ accept_send \/ vsock_poll_write
  \/ \E n \in 1..2 : (\E t \in VsockThreads : vsock_poll_read(t, n)) \/ write_send(n) \/ peer_send(n)
  \/ vsock_run \/ process_packet \/ run_answer
  \/ peer_request \/ peer_receive \/ peer_consume
  \/ \E op \in {"Shutdown", "CreditRequest"} : peer_control(op)
  \/ \E op \in {"Request", "Rw", "Shutdown"} : stranger_send(op)

VsockSpec == VsockInit /\ [][VsockNext]_vsock_vars

VsockTypeOK ==
  /\ DOMAIN vsock_port_map \subseteq VsockPorts
  /\ \A p \in DOMAIN vsock_port_map :
       /\ vsock_port_map[p].state \in VsockState
       /\ vsock_port_map[p].tx_cnt \in 0..CntMod - 1 /\ vsock_port_map[p].fwd_cnt \in 0..CntMod - 1
  /\ woken \subseteq VsockThreads

\* write never sends more than the peer has room for, also after the byte
\* counters have wrapped and while credit updates are on their way.
CreditIsRespected == vsock_wrote - peer.consumed <= PeerAlloc

\* What the program reads is what the peer sent, in order, without a gap and
\* with nothing of another host between.
StreamInOrder ==
  \A p \in DOMAIN vsock_port_map :
    vsock_port_map[p].remote_cid = VsockPeerCid =>
      \A i \in DOMAIN (read_bytes \o vsock_port_map[p].buffer) : (read_bytes \o vsock_port_map[p].buffer)[i] = i

\* A thread that sleeps in connect, accept, read or write can be woken, and sleeps for a reason: the next
\* packet with what it waits for uses its waker, and were its future polled now it would be pending again.
\* What the code does not wake for is named: a shutdown (executor/vsock.rs:113-116) wakes neither reader
\* nor writer, the response to a connect wakes nobody until data come (119-122), and a reader whose waker a
\* second reader has overwritten (executor/mod.rs:44-55) may sleep for ever, over data too.  The two
\* spinlocks are held at a time by vsock_run, and by accept or write; no other call closes this cycle,
\* which stops both for ever.
SleepIsJustified ==
  /\ \A t \in VsockThreads :
       vsock_call[t] \in {"connect", "accept", "read", "write"} /\ t \notin woken =>
         LET p == IF vsock_call[t] = "connect" THEN FirstPort ELSE socket.port
             raw == vsock_port_map[p] IN
           /\ p \in DOMAIN vsock_port_map
           /\ t \in raw.overwritten \/ (IF vsock_call[t] = "write" THEN raw.tx_waker ELSE raw.rx_waker) = t
           /\ vsock_call[t] = "accept" => raw.state = "Listen"
           /\ vsock_call[t] = "read" /\ t \notin raw.overwritten => raw.state \in {"Connected", "Shutdown"} /\ raw.buffer = <<>>
           /\ vsock_call[t] = "write" => raw.state = "Shutdown" \/ (raw.state = "Connected" /\ Credit(raw) = 0)
  /\ ~MapFree /\ ~DriverFree => vsock_locks.driver = "run" /\ vsock_call[vsock_locks.map] \in {"accepting", "writing"}

-----------------------------------------------------------------------------
(***************************************************************************)
(* Event descriptors (kernel/src/fd/eventfd.rs) under block_on and its     *)
(* TaskNotify (executor/mod.rs), which run every blocking descriptor call  *)
(* (fd/mod.rs: read, write, poll; syscalls/mod.rs: sys_read, sys_write,    *)
(* sys_poll, sys_eventfd).                                                 *)
(*                                                                         *)
(* block_on makes a TaskNotify per call, polls the future, runs the        *)
(* executor, and after some fruitless polls waits on the notify's futex;   *)
(* <<t, n>> is the notify of the n-th call of task t, and a clone of its   *)
(* waker in a queue is that pair.  Every fruitless poll leaves one more.   *)
(* A poll of read or write is one step, under the lock of the state, one   *)
(* of EventFd::poll two; a poll that finds the lock taken is one that      *)
(* happens later, as the loop polls again.                                 *)
(***************************************************************************)
CONSTANTS
    Tasks,
    MAX,            \* stands for u64::MAX
    Values,         \* what is written
    Snoozes,        \* polls before backoff.is_completed(), 12 in the code
    EventMaxCalls        \* bound: calls, of all tasks together

VARIABLES
    counter,
    read_queue, write_queue,
    flags,          \* a subset of {"SEMAPHORE", "NONBLOCK"}
    task,           \* task -> its call, see call
    event_wrote, got,     \* auxiliary: sums of what was written and of what was read
    astray                \* auxiliary: a wake-up went to a call that was over or did not sleep, or to a poll

event_vars == <<counter, read_queue, write_queue, flags, task, event_wrote, got, astray>>

Ops == {"read", "write", "pollin", "pollout"}
Wakers == Tasks \X (1 .. EventMaxCalls)

EventTypeOK ==
    /\ counter \in 0 .. MAX
    /\ read_queue \in Seq(Wakers) /\ write_queue \in Seq(Wakers)
    /\ flags \subseteq {"SEMAPHORE", "NONBLOCK"}
    /\ \A t \in Tasks :
          /\ task[t].pc \in {"idle", "poll", "register", "wait", "asleep"}
          /\ task[t].n \in 0 .. EventMaxCalls
          /\ task[t].polls \in 0 .. Snoozes
          /\ task[t].futex \in {0, 1}

\* A task outside a call, after n of them.
Returned(n) == [pc |-> "idle", op |-> "read", val |-> 0, timed |-> FALSE, late |-> FALSE,
                n |-> n, polls |-> 0, futex |-> 0]

EventInit ==
    /\ counter = 0
    /\ read_queue = <<>> /\ write_queue = <<>>
    /\ flags \in SUBSET {"SEMAPHORE", "NONBLOCK"}
    /\ task = [t \in Tasks |-> Returned(0)]
    /\ event_wrote = counter
    /\ got = 0
    /\ astray = FALSE

\* fd::read, fd::write (their timeout is None here) and fd::poll
event_call(t, op, val, timed) ==
    /\ task[t].pc = "idle"
    /\ MapThenSumSet(LAMBDA u : task[u].n, Tasks) < EventMaxCalls
    /\ timed => op \in {"pollin", "pollout"}
    /\ task' = [task EXCEPT ![t] = [pc |-> "poll", op |-> op, val |-> val, timed |-> timed,
                                    late |-> FALSE, n |-> @.n + 1, polls |-> 0, futex |-> 0]]
    /\ UNCHANGED <<counter, read_queue, write_queue, flags, event_wrote, got, astray>>

-----------------------------------------------------------------------------
(* Wakers: futex_wake_or_set on the notify of a call that may have ended *)

EventWoken(ts, wakers) ==
    [t \in Tasks |->
        IF <<t, ts[t].n>> \notin wakers \/ ts[t].pc = "idle" THEN ts[t]
        ELSE IF ts[t].pc = "asleep" THEN [ts[t] EXCEPT !.pc = "poll"]
        ELSE [ts[t] EXCEPT !.futex = 1]]

\* The wake-ups of these wakers reach tasks that sleep in a read or a write.
Reaches(wakers) ==
    \A w \in wakers : task[w[1]].n = w[2] /\ task[w[1]].pc = "asleep" /\ task[w[1]].op \in {"read", "write"}

Firsts(q, k) == {q[i] : i \in 1 .. (IF k < Len(q) THEN k ELSE Len(q))}
Rest(q, k) == SubSeq(q, k + 1, Len(q))

Ended(t) == [task EXCEPT ![t] = Returned(@.n)]

\* Pending: the time limit is looked at, then the backoff.
EventPending(t) ==
    task' = [task EXCEPT ![t] =
        IF @.timed /\ @.late THEN Returned(@.n)
        ELSE IF @.polls + 1 = Snoozes THEN [@ EXCEPT !.pc = "wait", !.polls = 0]
        ELSE [@ EXCEPT !.pc = "poll", !.polls = @ + 1]]

-----------------------------------------------------------------------------
(* The futures of EventFd *)

event_poll_read(t) ==
    LET taken == IF "SEMAPHORE" \in flags THEN 1 ELSE counter
    IN  /\ task[t].pc = "poll" /\ task[t].op = "read"
        /\ \/ /\ counter > 0
              /\ counter' = counter - taken
              /\ got' = got + taken
              /\ IF "SEMAPHORE" \in flags
                 THEN /\ task' = EventWoken(Ended(t), Firsts(write_queue, 1))
                      /\ write_queue' = Rest(write_queue, 1)
                      /\ astray' = (astray \/ ~ Reaches(Firsts(write_queue, 1)))
                      /\ UNCHANGED read_queue
                 ELSE /\ task' = EventWoken(Ended(t), Firsts(read_queue, 1))
                      /\ read_queue' = Rest(read_queue, 1)
                      /\ astray' = (astray \/ ~ Reaches(Firsts(read_queue, 1)))
                      /\ UNCHANGED write_queue
           \/ /\ counter = 0
              /\ flags = {"NONBLOCK"}
              /\ task' = Ended(t)
              /\ UNCHANGED <<counter, got, read_queue, write_queue, astray>>
           \/ /\ counter = 0
              /\ flags # {"NONBLOCK"}
              /\ read_queue' = Append(read_queue, <<t, task[t].n>>)
              /\ EventPending(t)
              /\ UNCHANGED <<counter, got, write_queue, astray>>
        /\ UNCHANGED <<flags, event_wrote>>

\* Mutant of EventRoom: the counter may reach u64::MAX.
EventRoom_full(c) == MAX - counter >= c

EventRoom(c) == MAX - counter > c

event_poll_write(t) ==
    LET c == task[t].val
        k == IF "SEMAPHORE" \in flags THEN c ELSE 1
    IN  /\ task[t].pc = "poll" /\ task[t].op = "write"
        /\ \/ /\ EventRoom(c)
              /\ counter' = (counter + c) % (MAX + 1)
              /\ event_wrote' = event_wrote + c
              /\ task' = EventWoken(Ended(t), Firsts(read_queue, k))
              /\ read_queue' = Rest(read_queue, k)
              /\ astray' = (astray \/ ~ Reaches(Firsts(read_queue, k)))
              /\ UNCHANGED write_queue
           \/ /\ ~ EventRoom(c)
              /\ "NONBLOCK" \in flags
              /\ task' = Ended(t)
              /\ UNCHANGED <<counter, event_wrote, read_queue, write_queue, astray>>
           \/ /\ ~ EventRoom(c)
              /\ "NONBLOCK" \notin flags
              /\ write_queue' = Append(write_queue, <<t, task[t].n>>)
              /\ EventPending(t)
              /\ UNCHANGED <<counter, event_wrote, read_queue, astray>>
        /\ UNCHANGED <<flags, got>>

Available(op) == IF op = "pollin" THEN counter > 0 ELSE counter < MAX - 1

\* poll_fds over one descriptor: a new EventFd::poll future every time.  It looks at the counter, gives
\* the lock back and takes it again for the queue.
poll_poll(t) ==
    /\ task[t].pc = "poll" /\ task[t].op \in {"pollin", "pollout"}
    /\ task' = IF Available(task[t].op) THEN Ended(t) ELSE [task EXCEPT ![t].pc = "register"]
    /\ UNCHANGED <<counter, read_queue, write_queue, flags, event_wrote, got, astray>>

poll_register(t) ==
    /\ task[t].pc = "register"
    /\ EventPending(t)
    /\ IF task[t].op = "pollin"
       THEN read_queue' = Append(read_queue, <<t, task[t].n>>) /\ UNCHANGED write_queue
       ELSE write_queue' = Append(write_queue, <<t, task[t].n>>) /\ UNCHANGED read_queue
    /\ UNCHANGED <<counter, flags, event_wrote, got, astray>>

-----------------------------------------------------------------------------
(* TaskNotify::wait: a wake that came before it is not slept over *)

wait(t) ==
    /\ task[t].pc = "wait"
    /\ task' = [task EXCEPT ![t] = IF @.futex = 1 THEN [@ EXCEPT !.pc = "poll", !.futex = 0]
                                   ELSE [@ EXCEPT !.pc = "asleep"]]
    /\ UNCHANGED <<counter, read_queue, write_queue, flags, event_wrote, got, astray>>

\* The time limit passes; a sleeper is woken by the timer.
expire(t) ==
    /\ task[t].timed /\ task[t].pc # "idle" /\ ~ task[t].late
    /\ task' = [task EXCEPT ![t] = [@ EXCEPT !.late = TRUE,
                                             !.pc = IF @ = "asleep" THEN "poll" ELSE @]]
    /\ UNCHANGED <<counter, read_queue, write_queue, flags, event_wrote, got, astray>>

EventNext ==
    \E t \in Tasks :
        \/ \E op \in Ops, val \in Values, timed \in BOOLEAN :
              (op = "write" \/ val = CHOOSE v \in Values : TRUE) /\ event_call(t, op, val, timed)
        \/ event_poll_read(t) \/ event_poll_write(t) \/ poll_poll(t) \/ poll_register(t) \/ wait(t) \/ expire(t)

EventSpec == EventInit /\ [][EventNext]_event_vars

-----------------------------------------------------------------------------
(* Properties *)

\* What was read is what was written: the counter is neither lost nor made up,
\* and a write that would reach u64::MAX waits or fails instead of wrapping.
CounterIsConserved == event_wrote = got + counter /\ counter < MAX

Asleep(t, op) == task[t].pc = "asleep" /\ task[t].op = op
Queued(q, t) == \E i \in DOMAIN q : q[i] = <<t, task[t].n>>
AwakeFor(op) == \E t \in Tasks : task[t].op = op /\ task[t].pc \in {"poll", "wait"}

\* A task asleep in a read, a write or a poll is in the queue that such calls are woken from, whatever
\* the counter is: a wake-up between its last poll and its sleep is not lost.  And until a wake-up goes
\* astray a reader sleeps over a counter that is not 0 only while another one is awake to read it, and,
\* of a semaphore, a writer over room only while another is awake to write.  Wake-ups do go astray: a
\* call leaves a waker per poll in the queue (eventfd.rs:68,85), which a later wake-up is spent on, and
\* so does a poll (154), which does not read; and the read of a counter that is no semaphore wakes a
\* reader (78), never a writer.
SleeperIsQueued ==
    /\ \A t \in Tasks :
          task[t].pc = "asleep" => Queued(IF task[t].op \in {"read", "pollin"} THEN read_queue ELSE write_queue, t)
    /\ ~ astray =>
          /\ counter > 0 /\ (\E t \in Tasks : Asleep(t, "read")) => AwakeFor("read")
          /\ "SEMAPHORE" \in flags /\ (\E t \in Tasks : Asleep(t, "write") /\ EventRoom(task[t].val)) => AwakeFor("write")
=============================================================================

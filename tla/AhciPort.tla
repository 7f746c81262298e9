------------------------------ MODULE AhciPort ------------------------------
(***************************************************************************)
(* The AHCI port of the SSD (kernel/src/drivers/storage/ahci.rs): finding  *)
(* the disk, IDENTIFY DEVICE, and transfer_sectors, which reads or writes  *)
(* with one polled command in slot 0 and no recovery of the port.  No lock *)
(* is held around the slot: the system calls of the memory database and    *)
(* the task that caches a model may be inside transfer_sectors at once.    *)
(* The host bus adapter (HBA) is external: it fetches the command in slot  *)
(* 0 when PxCI is written, is busy until it completes or fails, and stops  *)
(* at an error until the port is restarted.  Commands are numbered; a      *)
(* number stands for the command, its table and its buffer.                *)
(***************************************************************************)
EXTENDS Naturals, FiniteSets, TLAPS

CONSTANTS Callers, MaxCommands

VARIABLES
    port,        \* how far enumerate_controller is
    pc, cur,     \* where each caller is in transfer_sectors, and its command
    last,        \* the newest command
    slot,        \* the command whose header is in slot 0
    ci,          \* PxCI bit 0
    tfes,        \* PxIS.TFES
    hba,         \* "off", "idle", "busy" (BSY in PxTFD) or "halted"
    running,     \* the command the HBA fetched
    allocated,   \* commands whose table and buffer are allocated
    late,        \* commands that were given up for late
    overlapped,  \* commands whose call ran beside another one
    executed,    \* commands the disk carried out
    acked,       \* commands that returned Ok
    capacity     \* SSD_SECTOR_COUNT: "unset", "read" or "zero"

ghosts == <<late, overlapped, executed, acked>>
vars == <<port, pc, cur, last, slot, ci, tfes, hba, running, allocated, late, overlapped,
          executed, acked, capacity>>

Commands == 1 .. MaxCommands
NoCommand == 0

TypeOK ==
    /\ port \in {"probe", "identify", "up", "gone"}
    /\ pc \in [Callers -> {"idle", "ready", "fill", "issue", "poll"}]
    /\ cur \in [Callers -> Commands \cup {NoCommand}]
    /\ {last, slot, running} \subseteq Commands \cup {NoCommand}
    /\ {ci, tfes} \subseteq BOOLEAN
    /\ hba \in {"off", "idle", "busy", "halted"}
    /\ allocated \cup late \cup overlapped \cup executed \cup acked \subseteq Commands
    /\ capacity \in {"unset", "read", "zero"}

Init ==
    /\ port = "probe"
    /\ pc = [k \in Callers |-> "idle"]
    /\ cur = [k \in Callers |-> NoCommand]
    /\ last = NoCommand /\ slot = NoCommand /\ running = NoCommand
    /\ ci = FALSE /\ tfes = FALSE
    /\ hba = "off"
    /\ allocated = {} /\ late = {} /\ overlapped = {} /\ executed = {} /\ acked = {}
    /\ capacity = "unset"

-----------------------------------------------------------------------------
(* enumerate_controller: the HBA is reset and the port of the SSD started; *)
(* without a SATA device on it there is no port to use.                    *)

no_device ==
    /\ port = "probe"
    /\ port' = "gone"
    /\ UNCHANGED <<pc, cur, last, slot, ci, tfes, hba, running, allocated, ghosts, capacity>>

start_port ==
    /\ port = "probe"
    /\ port' = "identify"
    /\ hba' = "idle"
    /\ ci' = FALSE
    /\ last' = 1
    /\ allocated' = {1}
    /\ UNCHANGED <<pc, cur, slot, tfes, running, ghosts, capacity>>

\* Writes PxCI: an idle HBA fetches the command in the slot, a busy or a
\* halted one takes no notice.
SetCi(c) ==
    /\ ci' = TRUE
    /\ IF hba = "idle" THEN hba' = "busy" /\ running' = c
                       ELSE UNCHANGED <<hba, running>>

identify_issue ==
    /\ port = "identify"
    /\ slot = NoCommand
    /\ slot' = 1
    /\ SetCi(1)
    /\ UNCHANGED <<port, pc, cur, last, tfes, allocated, ghosts, capacity>>

\* The poll ends: completed, TFES (the zeroed buffer is read all the same)
\* or out of patience, which sets no capacity.
identify_end ==
    /\ port = "identify"
    /\ slot = 1
    /\ \/ ~ci /\ capacity' = "read" /\ UNCHANGED late
       \/ ci /\ tfes /\ capacity' = "zero" /\ UNCHANGED late
       \/ late' = late \cup {1} /\ UNCHANGED capacity
    /\ port' = "up"
    /\ allocated' = allocated \ {1}
    /\ UNCHANGED <<pc, cur, last, slot, ci, tfes, hba, running, overlapped, executed, acked>>

-----------------------------------------------------------------------------
(* transfer_sectors.                                                       *)

Active == {j \in Callers : pc[j] # "idle"}

transfer_sectors(k) ==
    /\ port = "up"
    /\ pc[k] = "idle"
    /\ last < MaxCommands
    /\ last' = last + 1
    /\ pc' = [pc EXCEPT ![k] = "ready"]
    /\ cur' = [cur EXCEPT ![k] = last + 1]
    /\ allocated' = allocated \cup {last + 1}
    /\ overlapped' = IF Active = {} THEN overlapped
                                    ELSE overlapped \cup {last + 1} \cup {cur[j] : j \in Active}
    /\ UNCHANGED <<port, slot, ci, tfes, hba, running, late, executed, acked, capacity>>

Return(k) ==
    /\ pc' = [pc EXCEPT ![k] = "idle"]
    /\ cur' = [cur EXCEPT ![k] = NoCommand]
    /\ allocated' = allocated \ {cur[k]}
    /\ UNCHANGED <<port, last, slot, ci, tfes, hba, running, overlapped, executed, capacity>>

\* Mutant: the last command may still be running.
port_ready_hasty(k) ==
    /\ pc[k] = "ready"
    /\ pc' = [pc EXCEPT ![k] = "fill"]
    /\ tfes' = FALSE
    /\ UNCHANGED <<port, cur, last, slot, ci, hba, running, allocated, ghosts, capacity>>

\* PxTFD shows neither BSY nor DRQ: the status of the last command is cleared.
port_ready(k) ==
    /\ pc[k] = "ready"
    /\ hba # "busy"
    /\ pc' = [pc EXCEPT ![k] = "fill"]
    /\ tfes' = FALSE
    /\ UNCHANGED <<port, cur, last, slot, ci, hba, running, allocated, ghosts, capacity>>

\* Out of patience, perhaps at the very look that shows the port ready.
port_not_ready(k) ==
    /\ pc[k] = "ready"
    /\ Return(k)
    /\ UNCHANGED <<late, acked>>

\* The command table is filled in and its header written to slot 0.
fill_slot(k) ==
    /\ pc[k] = "fill"
    /\ pc' = [pc EXCEPT ![k] = "issue"]
    /\ slot' = cur[k]
    /\ UNCHANGED <<port, cur, last, ci, tfes, hba, running, allocated, ghosts, capacity>>

issue(k) ==
    /\ pc[k] = "issue"
    /\ pc' = [pc EXCEPT ![k] = "poll"]
    /\ SetCi(slot)
    /\ UNCHANGED <<port, cur, last, slot, tfes, allocated, ghosts, capacity>>

\* PxCI is clear: success, unless the last of the patience went with it.
completed(k) ==
    /\ pc[k] = "poll"
    /\ ~ci
    /\ \/ acked' = acked \cup {cur[k]}
       \/ UNCHANGED acked
    /\ Return(k)
    /\ UNCHANGED late

transfer_error(k) ==
    /\ pc[k] = "poll"
    /\ ci
    /\ tfes
    /\ Return(k)
    /\ UNCHANGED <<late, acked>>

\* The command, its table and the caller's buffer are given up while the
\* HBA may still be at work on them.
timed_out(k) ==
    /\ pc[k] = "poll"
    /\ ci
    /\ late' = late \cup {cur[k]}
    /\ Return(k)
    /\ UNCHANGED acked

Caller(k) ==
    \/ transfer_sectors(k) \/ port_ready(k) \/ port_not_ready(k) \/ fill_slot(k) \/ issue(k)
    \/ completed(k) \/ transfer_error(k) \/ timed_out(k)

-----------------------------------------------------------------------------
(* The HBA and the disk.                                                   *)

hba_done ==
    /\ hba = "busy"
    /\ executed' = executed \cup {running}
    /\ hba' = "idle"
    /\ ci' = FALSE
    /\ running' = NoCommand
    /\ UNCHANGED <<port, pc, cur, last, slot, tfes, allocated, late, overlapped, acked, capacity>>

\* A failed command may have written some of its sectors.
hba_fails ==
    /\ hba = "busy"
    /\ hba' = "halted"
    /\ tfes' = TRUE
    /\ running' = NoCommand
    /\ UNCHANGED <<port, pc, cur, last, slot, ci, allocated, ghosts, capacity>>

Next ==
    \/ no_device \/ start_port \/ identify_issue \/ identify_end
    \/ \E k \in Callers : Caller(k)
    \/ hba_done \/ hba_fails

Spec == Init /\ [][Next]_vars

-----------------------------------------------------------------------------
\* A transfer that returns Ok, and beside which no other call ran, was carried
\* out by the disk: the end of an earlier command that was given up for late
\* is never taken for its own, and after an error nothing is reported as done
\* (the wait for BSY and DRQ in transfer_sectors).  Of two calls that overlap
\* it is not true: the slot is theirs both, and the one whose header was
\* written over takes the other's end for its own.
AckedIsDone == acked \ overlapped \subseteq executed

\* What the HBA works on is still allocated, unless its call was given up for
\* late or ran beside another one: no other way out of transfer_sectors or
\* identify_device frees a table or a buffer under the HBA.
BufferIsHeld == hba = "busy" => running \in allocated \cup late \cup overlapped

-----------------------------------------------------------------------------
Alone(k) == pc[k] # "idle" /\ cur[k] \notin overlapped

\* A call that is alone finds the HBA at rest from the wait to the write of
\* PxCI, so that what is in the slot, and then runs, is its own command.
CallInv(k) ==
    Alone(k) =>
        /\ \A j \in Callers \ {k} : pc[j] = "idle"
        /\ cur[k] \in allocated
        /\ pc[k] = "ready" /\ hba = "busy" => running # cur[k]
        /\ pc[k] \in {"fill", "issue"} => hba # "busy" /\ ~tfes
        /\ pc[k] = "issue" => slot = cur[k]
        /\ pc[k] = "poll" => /\ hba = "busy" => running = cur[k]
                             /\ ~ci => cur[k] \in executed
                             /\ tfes => hba # "busy"

PortInv ==
    /\ pc \in [Callers -> {"idle", "ready", "fill", "issue", "poll"}]
    /\ cur \in [Callers -> Nat]
    /\ last \in Nat /\ slot \in 0 .. last /\ running \in 0 .. last
    /\ \A k \in Callers : cur[k] <= last
    /\ hba = "busy" => ci
    /\ port # "up" => \A k \in Callers : pc[k] = "idle"
    /\ port \in {"probe", "gone"} => hba = "off" /\ ~tfes /\ last = 0
    /\ port = "identify" => /\ 1 \in allocated /\ last = 1
                            /\ hba = "busy" => running = 1
                            /\ tfes => hba = "halted"
    /\ \A k \in Callers : pc[k] = "issue" => slot = cur[k] \/ slot \in overlapped
    /\ \A k \in Callers : CallInv(k)
    /\ AckedIsDone
    /\ BufferIsHeld

\* One step of one caller, by the step it takes.
LEMMA CallerKeeps ==
    ASSUME PortInv, NEW k \in Callers, Caller(k)
    PROVE  PortInv'
<1> USE DEF PortInv, CallInv, Alone, AckedIsDone, BufferIsHeld, NoCommand, ghosts
<1>1. CASE transfer_sectors(k)
  BY <1>1, SMTT(60) DEF transfer_sectors, Active
<1>2. CASE port_ready(k)
  BY <1>2, SMTT(60) DEF port_ready
<1>3. CASE port_not_ready(k)
  BY <1>3, SMTT(60) DEF port_not_ready, Return
<1>4. CASE fill_slot(k)
  BY <1>4, SMTT(60) DEF fill_slot
<1>5. CASE issue(k)
  <2>1. CASE hba = "idle"
    BY <1>5, <2>1, SMTT(60) DEF issue, SetCi
  <2>2. CASE hba # "idle"
    BY <1>5, <2>2, SMTT(60) DEF issue, SetCi
  <2> QED
    BY <2>1, <2>2
<1>6. CASE completed(k)
  BY <1>6, SMTT(60) DEF completed, Return
<1>7. CASE transfer_error(k)
  BY <1>7, SMTT(60) DEF transfer_error, Return
<1>8. CASE timed_out(k)
  BY <1>8, SMTT(60) DEF timed_out, Return
<1> QED
  BY <1>1, <1>2, <1>3, <1>4, <1>5, <1>6, <1>7, <1>8 DEF Caller

\* Boot, and the HBA beside it.
LEMMA PortKeeps ==
    ASSUME PortInv, \/ no_device \/ start_port \/ identify_issue \/ identify_end
                    \/ hba_done \/ hba_fails
    PROVE  PortInv'
<1> USE DEF PortInv, CallInv, Alone, AckedIsDone, BufferIsHeld, NoCommand, ghosts
<1>1. CASE no_device
  BY <1>1, SMTT(30) DEF no_device
<1>2. CASE start_port
  BY <1>2, SMTT(30) DEF start_port
<1>3. CASE identify_issue
  BY <1>3, SMTT(30) DEF identify_issue, SetCi
<1>4. CASE identify_end
  BY <1>4, SMTT(30) DEF identify_end
<1>5. CASE hba_done
  BY <1>5, SMTT(30) DEF hba_done
<1>6. CASE hba_fails
  BY <1>6, SMTT(30) DEF hba_fails
<1> QED
  BY <1>1, <1>2, <1>3, <1>4, <1>5, <1>6

LEMMA PortInvHolds == Spec => []PortInv
<1>1. Init => PortInv
  BY SMTT(30) DEF Init, PortInv, CallInv, Alone, AckedIsDone, BufferIsHeld, NoCommand
<1>2. ASSUME PortInv, [Next]_vars PROVE PortInv'
  <2>1. CASE UNCHANGED vars
    BY <1>2, <2>1 DEF vars, PortInv, CallInv, Alone, AckedIsDone, BufferIsHeld
  <2>2. CASE \E k \in Callers : Caller(k)
    BY <1>2, <2>2, CallerKeeps
  <2> QED
    BY <1>2, <2>1, <2>2, PortKeeps DEF Next
<1> QED
  BY <1>1, <1>2, PTL DEF Spec

\* For every number of callers and of commands, of which any may fail, be
\* given up for late or end late: what a call beside which no other ran
\* returns Ok for, the disk carried out.
THEOREM AckedIsDoneCorrect == Spec => []AckedIsDone
<1>1. PortInv => AckedIsDone
  BY DEF PortInv
<1> QED
  BY <1>1, PortInvHolds, PTL

\* Under the same conditions a table or a buffer is freed under the HBA only
\* by a call that was given up for late or that ran beside another one.
THEOREM BufferIsHeldCorrect == Spec => []BufferIsHeld
<1>1. PortInv => BufferIsHeld
  BY DEF PortInv
<1> QED
  BY <1>1, PortInvHolds, PTL
=============================================================================

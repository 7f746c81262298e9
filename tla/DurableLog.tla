----------------------------- MODULE DurableLog -----------------------------
(***************************************************************************)
(* What the memory database promises its clients: a sequence of records    *)
(* that grows at its end by one whole record at a time, and that becomes   *)
(* empty at once when it is erased, or when a boot cannot read it and      *)
(* starts over.  Crashes and failing commands are stuttering steps: none   *)
(* of them changes what can be read.                                       *)
(***************************************************************************)
EXTENDS Sequences, Naturals

CONSTANTS Records, Limit

VARIABLE log

Init == log = <<>>

AppendRecord(p) ==
    /\ Len(log) < Limit
    /\ log' = Append(log, p)

Erase == log' = <<>>

Next == Erase \/ \E p \in Records : AppendRecord(p)

Spec == Init /\ [][Next]_log
=============================================================================

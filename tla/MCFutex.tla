------------------------------- MODULE MCFutex -------------------------------
(***************************************************************************)
(* Futex on two cores: two tasks share the first core, a third runs on the *)
(* second one with a higher priority than one of the two.                  *)
(***************************************************************************)
EXTENDS Futex

CONSTANTS c1, c2, t1, t2, t3

MCHome == [t \in Tasks |-> IF t = t3 THEN c2 ELSE c1]
MCPrio == [t \in Tasks |-> IF t = t1 THEN 1 ELSE 2]

\* One task waits with deadlines, the others without.
MCTimeouts == [t \in Tasks |-> IF t = t3 THEN {"none", "before"} ELSE {"none"}]
==============================================================================

------------------------------- MODULE Parts -------------------------------
(***************************************************************************)
(* Several components checked in one run.  Every behaviour is one of a     *)
(* single component, the one that part names: the variables v1, v2, ...    *)
(* are then the variables of that component's module, in the order of its  *)
(* declarations, and those it has no use for stay idle.  The components    *)
(* do not interact; the state space is the union of theirs.                *)
(***************************************************************************)
EXTENDS Integers

VARIABLES part, v1, v2, v3, v4, v5, v6, v7, v8, v9, v10, v11, v12, v13, v14, v15, v16, v17, v18,
          v19, v20

vars == <<part, v1, v2, v3, v4, v5, v6, v7, v8, v9, v10, v11, v12, v13, v14, v15, v16, v17, v18,
          v19, v20>>

\* A behaviour of the component p, whose module has n variables (at least three): those beyond are
\* idle to begin with ...
Begin(p, n) ==
  /\ part = p
  /\ IF n < 4 THEN v4 = "none" ELSE TRUE
  /\ IF n < 5 THEN v5 = "none" ELSE TRUE
  /\ IF n < 6 THEN v6 = "none" ELSE TRUE
  /\ IF n < 7 THEN v7 = "none" ELSE TRUE
  /\ IF n < 8 THEN v8 = "none" ELSE TRUE
  /\ IF n < 9 THEN v9 = "none" ELSE TRUE
  /\ IF n < 10 THEN v10 = "none" ELSE TRUE
  /\ IF n < 11 THEN v11 = "none" ELSE TRUE
  /\ IF n < 12 THEN v12 = "none" ELSE TRUE
  /\ IF n < 13 THEN v13 = "none" ELSE TRUE
  /\ IF n < 14 THEN v14 = "none" ELSE TRUE
  /\ IF n < 15 THEN v15 = "none" ELSE TRUE
  /\ IF n < 16 THEN v16 = "none" ELSE TRUE
  /\ IF n < 17 THEN v17 = "none" ELSE TRUE
  /\ IF n < 18 THEN v18 = "none" ELSE TRUE
  /\ IF n < 19 THEN v19 = "none" ELSE TRUE
  /\ IF n < 20 THEN v20 = "none" ELSE TRUE

\* ... and in every step.
Keep(n) ==
  /\ UNCHANGED part
  /\ IF n < 4 THEN UNCHANGED v4 ELSE TRUE
  /\ IF n < 5 THEN UNCHANGED v5 ELSE TRUE
  /\ IF n < 6 THEN UNCHANGED v6 ELSE TRUE
  /\ IF n < 7 THEN UNCHANGED v7 ELSE TRUE
  /\ IF n < 8 THEN UNCHANGED v8 ELSE TRUE
  /\ IF n < 9 THEN UNCHANGED v9 ELSE TRUE
  /\ IF n < 10 THEN UNCHANGED v10 ELSE TRUE
  /\ IF n < 11 THEN UNCHANGED v11 ELSE TRUE
  /\ IF n < 12 THEN UNCHANGED v12 ELSE TRUE
  /\ IF n < 13 THEN UNCHANGED v13 ELSE TRUE
  /\ IF n < 14 THEN UNCHANGED v14 ELSE TRUE
  /\ IF n < 15 THEN UNCHANGED v15 ELSE TRUE
  /\ IF n < 16 THEN UNCHANGED v16 ELSE TRUE
  /\ IF n < 17 THEN UNCHANGED v17 ELSE TRUE
  /\ IF n < 18 THEN UNCHANGED v18 ELSE TRUE
  /\ IF n < 19 THEN UNCHANGED v19 ELSE TRUE
  /\ IF n < 20 THEN UNCHANGED v20 ELSE TRUE
=============================================================================

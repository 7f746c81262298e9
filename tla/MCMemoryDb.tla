----------------------------- MODULE MCMemoryDb -----------------------------
(***************************************************************************)
(* Small instances of MemoryDb.                                            *)
(***************************************************************************)
EXTENDS MemoryDb

CONSTANTS short, long, LongSectors

\* One record fills a sector, the other LongSectors.
MCSectorsOf == [p \in Payloads |-> IF p = long THEN LongSectors ELSE 1]
=============================================================================

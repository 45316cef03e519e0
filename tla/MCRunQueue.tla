----------------------------- MODULE MCRunQueue -----------------------------
(***************************************************************************)
(* RunQueue for TLC: runs a, b, c, d with the priorities below.            *)
(***************************************************************************)
EXTENDS RunQueue, TLC

CONSTANTS a, b, c, d

MCPriority == [r \in Runs |-> IF r = c THEN 1 ELSE 0]
=============================================================================

--------------------------- MODULE MCPublication ---------------------------
(* An instance of Publication for TLC: three runs, one reader, a bundle of *)
(* two files (index.md and a concept), and each fault once.                *)
EXTENDS Publication, TLC

CONSTANTS a, b, c, q1

EachOnce == [k \in Faults |-> 1]
=============================================================================

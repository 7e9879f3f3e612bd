------------------------------ MODULE MCBoxes ------------------------------
(* Small instances of Boxes for TLC. *)
EXTENDS Boxes, TLC

MCPids == 1 .. TapPoolSize + Cardinality(Procs) + MaxCrashes + 1
Symmetry == Permutations(Procs) \cup Permutations(Boxes)
============================================================================

------------------------------ MODULE MCInmates ------------------------------
(* Inmates alone. *)
EXTENDS Inmates, TLC

Spec == InmatesInit /\ [][InmatesNext]_inmateVars

Symmetry == Permutations(Procs) \cup Permutations(Trees)
=============================================================================

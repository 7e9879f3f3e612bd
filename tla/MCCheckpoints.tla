--------------------------- MODULE MCCheckpoints ---------------------------
(* A directory with a file in it, and the texts that a merge may compare. The *)
(* two share no state, so that a behaviour exercises one of them.            *)
EXTENDS Checkpoints, TextMerge, TLC
CONSTANTS outer, inner
MCInside == (outer :> Top) @@ (inner :> outer)
Symmetry == Permutations(Procs) \cup Permutations(Contents) \cup Permutations(Lines)

VARIABLE part

MCInit ==
    /\ part \in {"checkpoints", "texts"}
    /\ Init /\ TextsInit
    /\ part = "checkpoints" => stepLimit = 1

MCNext ==
    \/ part = "checkpoints" /\ Next /\ UNCHANGED <<part, textVars>>
    \/ part = "texts" /\ TextsNext /\ UNCHANGED <<part, vars>>

MCSpec == MCInit /\ [][MCNext]_<<part, vars, textVars>>
============================================================================

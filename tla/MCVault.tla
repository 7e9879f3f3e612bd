------------------------------- MODULE MCVault -------------------------------
(* At most three of the two commands and two requests are at work at a time. *)
EXTENDS Vault, FiniteSets, TLC

AtWork == Cardinality({h \in Handlers : Busy(h)} \cup {c \in Commands : cmd[c] # NoCmd})

MCNext == Next /\ AtWork' <= 3

MCSpec == Init /\ [][MCNext]_vars

Symmetry == Permutations(Commands) \cup Permutations(Handlers) \cup Permutations(Instances)
            \cup Permutations(Values)
============================================================================

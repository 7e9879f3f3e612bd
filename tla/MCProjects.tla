----------------------------- MODULE MCProjects -----------------------------
(***************************************************************************)
(* Either the commands that approve and run a configuration overlap, or at   *)
(* most one of them is at work next to the commands that remove the record.  *)
(***************************************************************************)
EXTENDS Projects, FiniteSets, TLC

VARIABLE part

Approving == {c \in Procs : job[c].pc # "idle" /\ job[c].cmd \in {"up", "setup", "trust"}}
Removing == {c \in Procs : job[c].cmd \in {"down", "rm", "rmstate"}}

MCInit == Init /\ part \in {"approvals", "removals"}

MCNext ==
    /\ Next
    /\ UNCHANGED part
    /\ \/ part = "approvals" /\ Removing' = {}
       \/ part = "removals" /\ Cardinality(Approving') <= 1

MCSpec == MCInit /\ [][MCNext]_<<vars, part>>

Symmetry == Permutations(Procs) \cup Permutations(Projects) \cup Permutations(Configs)
============================================================================

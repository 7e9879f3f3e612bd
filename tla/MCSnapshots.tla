----------------------------- MODULE MCSnapshots -----------------------------
(***************************************************************************)
(* The reloads with two changes of the files and no connection of the       *)
(* guests, and the requests of a connection with one change: a connection   *)
(* writes nothing that a reload reads, and multiplies its interleavings.    *)
(***************************************************************************)
EXTENDS Snapshots

VARIABLE part

MCInit == Init /\ part \in {"reloads", "requests"}

MCNext ==
    /\ Next
    /\ UNCHANGED part
    /\ \/ part = "reloads" /\ UNCHANGED tunnel
       \/ part = "requests" /\ clock' < MaxChanges

MCSpec == MCInit /\ [][MCNext]_<<vars, part>>
==============================================================================

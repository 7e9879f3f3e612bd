-------------------------- MODULE CheckpointStore --------------------------
(***************************************************************************)
(* What the checkpoints promise to whoever lists and restores them. A saved  *)
(* tree has a number, can be read back whole as it was saved, and is only    *)
(* ever removed as a whole. A new one gets a number above those of all that  *)
(* are there, so that their order is the order in which they were saved.     *)
(* HEAD is set to a checkpoint that is there or to none, and may outlive the *)
(* checkpoint that it was set to.                                            *)
(***************************************************************************)
EXTENDS Naturals

CONSTANTS
    Last,     \* the last number
    Trees,
    None      \* not a tree

VARIABLES
    saved,    \* number -> the tree that a restore brings back, or None
    head      \* HEAD, 0 when there is none

Numbers == 1 .. Last

Init ==
    /\ saved = [i \in Numbers |-> None]
    /\ head = 0

Save(i) ==
    /\ UNCHANGED head
    /\ \A j \in Numbers : saved[j] # None => j < i
    /\ saved'[i] \in Trees
    /\ saved' = [saved EXCEPT ![i] = saved'[i]]

Forget(i) ==
    /\ UNCHANGED head
    /\ saved[i] # None
    /\ saved' = [saved EXCEPT ![i] = None]

PointTo(i) ==
    /\ head' = i
    /\ saved[i] # None
    /\ UNCHANGED saved

Unpoint == head' = 0 /\ UNCHANGED saved

Next == Unpoint \/ \E i \in Numbers : PointTo(i) \/ Forget(i) \/ Save(i)

Spec == Init /\ [][Next]_<<saved, head>>
============================================================================

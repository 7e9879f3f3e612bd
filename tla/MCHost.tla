-------------------------------- MODULE MCHost --------------------------------
(* What the commands keep on the host share no state: the inmates, the images *)
(* of the boxes, and the network. A behaviour exercises one of them. Of what  *)
(* can disturb the inmates two things happen, whichever; a build can die when *)
(* there is one less.                                                        *)
EXTENDS Inmates, Images, HostNetwork, TLC

CONSTANTS i1, i2

MCBase == i1 :> NoTag @@ i2 :> i1

VARIABLE part

hostVars == <<part, inmateVars, imageVars, networkVars>>

\* A part that is not exercised stays in one initial state.
Init ==
    /\ part \in {"inmates", "images", "network"}
    /\ InmatesInit /\ ImagesInit /\ NetworkInit
    /\ part # "network" => version = [u \in Owners |-> CHOOSE v \in Versions : TRUE]
    /\ part # "inmates" => /\ upstream = CHOOSE t \in Trees : TRUE
                           /\ name = [c \in Procs |-> CHOOSE n \in Names : TRUE]

Next ==
    \/ /\ part = "inmates" /\ InmatesNext
       /\ published' + edits' + faults' + crashes' <= 2
       /\ UNCHANGED <<part, imageVars, networkVars>>
    \/ /\ part = "images" /\ ImagesNext
       /\ deaths' = 0 \/ builds' < MaxBuilds
       /\ UNCHANGED <<part, inmateVars, networkVars>>
    \/ part = "network" /\ NetworkNext /\ UNCHANGED <<part, inmateVars, imageVars>>

Spec == Init /\ [][Next]_hostVars

\* The same two processes are the users of all three.
Symmetry == Permutations(Procs) \cup Permutations(Trees)
============================================================================

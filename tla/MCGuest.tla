------------------------------- MODULE MCGuest -------------------------------
(* The agent of a box.  Its processes, its network and its certificates only *)
(* share the signal that the broker has answered, so that a behaviour        *)
(* exercises one of them; of the processes, either the helper programs, or   *)
(* what the commands of the host write and leave running.                    *)
EXTENDS GuestProcesses, GuestNetwork, GuestCertificates

CONSTANTS a, b, z, x, y

MCLeft == [e \in Execs |-> CHOOSE p \in Orphans : TRUE]
MCPidOf == [p \in Processes |-> CASE p = Main -> 1 [] p = Helper -> 2
                                  [] p \in Orphans -> 3 [] OTHER -> 4]
MCLists == {{}, {<<a, 1>>}, {<<a, 1>>, <<b, 2>>}}
MCBundles == {<<>>, <<x>>, <<y>>, <<x, y>>, <<y, x>>}

VARIABLE part

vars == <<part, processVars, networkVars, certificateVars>>

\* A part that is not exercised stays in an initial state of its own.
Init ==
    /\ part \in {"helpers", "commands", "network", "certificates"}
    /\ ProcessesInit /\ (supervisor = "boot" <=> part \in {"helpers", "commands"})
    /\ NetworkInit /\ (part # "network" => brokerList = {} /\ ~brokerUp)
    /\ CertificatesInit /\ (part # "certificates" => bundle = <<>>)

Next ==
    \/ /\ ProcessesNext
       /\ \/ /\ part = "helpers"
             /\ \A e \in Execs : written'[e] = 0
             /\ \A p \in Orphans : proc'[p] # "running"
          \/ part = "commands" /\ helperRuns' = 0
       /\ UNCHANGED <<part, networkVars, certificateVars>>
    \/ /\ part = "network" /\ NetworkNext
       /\ UNCHANGED <<part, processVars, certificateVars>>
    \/ /\ part = "certificates" /\ CertificatesNext
       /\ UNCHANGED <<part, processVars, networkVars>>

Spec == Init /\ [][Next]_vars /\ ProcessesFairness /\ NetworkFairness
=============================================================================

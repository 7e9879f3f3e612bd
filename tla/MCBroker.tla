------------------------------- MODULE MCBroker -------------------------------
(* The port forwards, the requests and the log of the broker share no state,  *)
(* so that a behaviour exercises one of them.                                *)
EXTENDS Forwards, Requests, BrokerLog, TLC

CONSTANTS d1, d2, V1

MCSpecs == <<V1>>
MCRecord(sort, d, limit, hasValue) ==
    [sort |-> sort, upstream |-> d, intercept |-> sort = "route", limit |-> limit,
     hasValue |-> hasValue]
MCRecords == {MCRecord("route", d1, 1, TRUE), MCRecord("route", d2, 0, TRUE),
              MCRecord("route", d1, 0, FALSE), MCRecord("sign", d1, 1, TRUE)}

VARIABLE part

vars == <<part, forwardVars, requestVars, logVars>>

\* A part that is not exercised stays in one initial state.
Init ==
    /\ part \in {"forwards", "requests", "log"}
    /\ ForwardsInit /\ LogInit
    /\ RequestsInit
    /\ part # "requests" => grants = {} /\ \A s \in Secrets : secrets[s] = Nothing

Next ==
    \/ part = "forwards" /\ ForwardsNext /\ UNCHANGED <<part, requestVars, logVars>>
    \/ part = "requests" /\ RequestsNext /\ UNCHANGED <<part, forwardVars, logVars>>
    \/ part = "log" /\ LogNext /\ UNCHANGED <<part, forwardVars, requestVars>>

Spec == Init /\ [][Next]_vars

Symmetry == Permutations(Connections)
============================================================================

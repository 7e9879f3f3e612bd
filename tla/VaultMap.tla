------------------------------ MODULE VaultMap ------------------------------
(***************************************************************************)
(* What the vault file promises to the processes that share it. A vault is  *)
(* a map from names of secrets and hosts of authorities to their records,   *)
(* and every write changes exactly the record it was asked to change, in    *)
(* the map as it is at that moment: no write brings back, or loses, the     *)
(* write of another process.                                                *)
(*                                                                          *)
(* Each `prison secret init` makes a vault of its own, with its own key.    *)
(* They share one path, and the file is the vault that was written last:    *)
(* nothing orders two commands that found no vault (vault.go:88).           *)
(***************************************************************************)
CONSTANTS
    Vaults,    \* the vaults that can be made
    NoVault,
    Keys,      \* names of secrets and hosts of authorities
    Records,   \* what a key can hold
    Nothing    \* an absent record

VARIABLES
    held,      \* vault -> its map, Nothing before it is made
    shown      \* the vault that the file is

Empty == [k \in Keys |-> Nothing]

Init ==
    /\ held = [v \in Vaults |-> Nothing]
    /\ shown = NoVault

\* `prison secret init` makes an empty vault.
Create(v) ==
    /\ shown' = v
    /\ held[v] = Nothing
    /\ held' = [held EXCEPT ![v] = Empty]

Put(v, k) ==
    /\ shown' = v
    /\ held[v] # Nothing
    /\ held'[v][k] \in Records
    /\ held' = [held EXCEPT ![v] = [@ EXCEPT ![k] = held'[v][k]]]

Delete(v, k) ==
    /\ shown' = v
    /\ held[v] # Nothing /\ held[v][k] # Nothing
    /\ held' = [held EXCEPT ![v] = [@ EXCEPT ![k] = Nothing]]

Next ==
    \E v \in Vaults :
        \/ Create(v)
        \/ \E k \in Keys : Delete(v, k) \/ Put(v, k)

Spec == Init /\ [][Next]_<<held, shown>>
----------------------------------------------------------------------------
TypeOK ==
    /\ held \in [Vaults -> [Keys -> Records \cup {Nothing}] \cup {Nothing}]
    /\ shown \in Vaults \cup {NoVault}
============================================================================

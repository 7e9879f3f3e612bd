---------------------------- MODULE AddressPool ----------------------------
(***************************************************************************)
(* What the box store promises about addresses, without files, locks and    *)
(* processes: a box holds at most one address, directories of the host are  *)
(* shared with a box at the address it holds, and an address goes back to   *)
(* the pool only when nothing is shared with it any more. This is what the  *)
(* comment on unexportMounts (internal/isolator/firecracker/boxes.go) asks  *)
(* for: a new box will reuse the address.                                   *)
(***************************************************************************)
CONSTANTS
    Boxes,      \* who can hold an address
    Addresses,  \* the pool
    None        \* holds no address

VARIABLES
    holds,      \* box -> its address, or None
    shared      \* shares of directories [box, tap]: of which box, with which address

Init == holds = [b \in Boxes |-> None] /\ shared = {}

Assign(b) ==
    /\ holds[b] = None
    /\ \E x \in Addresses :
         /\ \A c \in Boxes : holds[c] # x
         /\ \A s \in shared : s.tap # x
         /\ holds' = [holds EXCEPT ![b] = x]
    /\ UNCHANGED shared

Share(b) ==
    /\ holds[b] # None
    /\ shared' = shared \cup {[box |-> b, tap |-> holds[b]]}
    /\ UNCHANGED holds

Withdraw(b) ==
    /\ shared' = {s \in shared : s.box # b}
    /\ UNCHANGED holds

Release(b) ==
    /\ \A s \in shared : s.box # b
    /\ holds' = [holds EXCEPT ![b] = None]
    /\ UNCHANGED shared

Next == \E b \in Boxes : Assign(b) \/ Share(b) \/ Withdraw(b) \/ Release(b)

Spec == Init /\ [][Next]_<<holds, shared>>

TypeOK == /\ holds \in [Boxes -> Addresses \cup {None}]
          /\ shared \subseteq [box : Boxes, tap : Addresses]

(* What a user of the pool relies on: a directory of one box is never       *)
(* shared with an address that another box holds.                            *)
Isolation ==
    \A s \in shared, b \in Boxes : holds[b] = s.tap => b = s.box
============================================================================

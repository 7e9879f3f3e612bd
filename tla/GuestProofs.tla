---------------------------- MODULE GuestProofs ----------------------------
(***************************************************************************)
(* Inside a box: a connection goes to the name that was asked for, only an  *)
(* idle one times out, and the trust store follows the bundle, for every    *)
(* number of programs, names, addresses, certificates, failures and         *)
(* restarts.                                                                *)
(***************************************************************************)
EXTENDS GuestProcesses, GuestNetwork, GuestCertificates, FiniteSetTheorems, SequenceTheorems, TLAPS

NetworkSpec == NetworkInit /\ [][NetworkNext]_networkVars

Connection ==
    [pc : {"idle", "resolved", "refused", "accepted", "dialling", "spliced", "closed"},
     asked : AllNames \cup {Nobody}, address : 0 .. PoolSize, port : Ports \cup {0},
     name : AllNames \cup {Nobody}, copying : SUBSET Sides, deadline : [Sides -> 0 .. IdleTicks],
     quiet : Nat, chunks : Nat, timedOut : BOOLEAN]

SentinelsInv ==
    /\ addressByName \in [AllNames -> 0 .. PoolSize]
    /\ nameByAddress \in [Addresses -> AllNames \cup {Nobody}]
    /\ nextOffset \in 0 .. PoolSize

\* The two tables agree, and the addresses past the offset are free.
TablesAgree ==
    \A n \in AllNames :
        addressByName[n] # 0 =>
            addressByName[n] <= nextOffset /\ nameByAddress[addressByName[n]] = n

\* A connection that has not found its name yet holds the address of the one
\* that it asked for, and one that has found it found that one.
AddressKept(conn) ==
    /\ conn.pc = "resolved" =>
         /\ conn.name = Nobody
         /\ conn.address \in 1 .. nextOffset
         /\ nameByAddress[conn.address] = conn.asked
    /\ conn.name # Nobody => conn.name = conn.asked

\* What is left until a deadline, and the time since the last piece, add up to
\* the timeout: a direction that has ended has no less.
DeadlinesKept(conn) ==
    /\ conn.pc = "spliced" => \A s \in Sides : conn.deadline[s] + conn.quiet >= IdleTicks
    /\ conn.timedOut => conn.pc = "closed" /\ conn.quiet >= IdleTicks

NetworkInv ==
    /\ SentinelsInv
    /\ TablesAgree
    /\ tunnel \in [Programs -> Connection]
    /\ \A p \in Programs : AddressKept(tunnel[p]) /\ DeadlinesKept(tunnel[p])

CertificatesSpec == CertificatesInit /\ [][CertificatesNext]_certificateVars

\* Between installs the keystore has no entry that is not in the directory.
\* During one that is the first, or follows none that was cut short, every
\* entry is that of a file that install found.
CertificatesInv ==
    /\ installer \in {"remove", "write", "rebuild"} => cutShort
    /\ installer = "rebuild" => files = wanted
    /\ ~cutShort => trusted = files /\ files = wanted
    /\ ~everCutShort =>
        IF installer \in {"fetch", "sleep"}
        THEN \A n \in DOMAIN keystore : n \in DOMAIN files /\ keystore[n] = files[n]
        ELSE DOMAIN keystore \subseteq removed

----------------------------------------------------------------------------
\* A step of one connection leaves the tables and the others alone.
LEMMA ConnectionSteps ==
    ASSUME NetworkInv, NEW p \in Programs, NEW next \in Connection,
           tunnel' = [tunnel EXCEPT ![p] = next], UNCHANGED sentinelVars,
           AddressKept(next), DeadlinesKept(next)
    PROVE  NetworkInv'
<1>1. SentinelsInv' /\ TablesAgree'
  BY DEF NetworkInv, SentinelsInv, TablesAgree, sentinelVars
<1>2. tunnel' \in [Programs -> Connection]
  BY DEF NetworkInv
<1>3. ASSUME NEW q \in Programs PROVE AddressKept(tunnel[q])' /\ DeadlinesKept(tunnel[q])'
  <2>1. tunnel'[q] = IF q = p THEN next ELSE tunnel[q]
    BY DEF NetworkInv
  <2>2. AddressKept(tunnel[q]) /\ DeadlinesKept(tunnel[q])
    BY DEF NetworkInv
  <2>3. QED
    BY <2>1, <2>2 DEF AddressKept, DeadlinesKept, sentinelVars
<1>4. QED
  BY <1>1, <1>2, <1>3 DEF NetworkInv

\* Allocate never changes the name of an address that has one.
LEMMA AllocateKeeps ==
    ASSUME NetworkInv, NEW name \in AllNames, Allocate(name)
    PROVE  /\ SentinelsInv' /\ TablesAgree'
           /\ nextOffset <= nextOffset'
           /\ \A a \in 1 .. nextOffset : nameByAddress'[a] = nameByAddress[a]
<1> USE GuestNetworkBounds
<1>1. CASE UNCHANGED sentinelVars
  BY <1>1 DEF NetworkInv, SentinelsInv, TablesAgree, sentinelVars
<1>2. CASE ~UNCHANGED sentinelVars
  <2> DEFINE next == nextOffset + 1
  <2>1. /\ nextOffset # PoolSize /\ nextOffset' = next
        /\ addressByName' = [addressByName EXCEPT ![name] = next]
        /\ nameByAddress' = [nameByAddress EXCEPT ![next] = name]
    BY <1>2 DEF Allocate
  <2>2. next \in Addresses /\ nextOffset \in Nat
    BY <2>1 DEF NetworkInv, SentinelsInv, Addresses
  <2>3. SentinelsInv'
    BY <2>1, <2>2 DEF NetworkInv, SentinelsInv, Addresses
  <2>4. \A a \in 1 .. nextOffset : nameByAddress'[a] = nameByAddress[a]
    BY <2>1, <2>2 DEF NetworkInv, SentinelsInv, Addresses
  <2>5. ASSUME NEW n \in AllNames, addressByName'[n] # 0
        PROVE  addressByName'[n] <= nextOffset' /\ nameByAddress'[addressByName'[n]] = n
    <3>1. CASE n = name
      BY <3>1, <2>1, <2>2 DEF NetworkInv, SentinelsInv
    <3>2. CASE n # name
      <4>1. addressByName'[n] = addressByName[n] /\ addressByName[n] \in 0 .. PoolSize
        BY <3>2, <2>1 DEF NetworkInv, SentinelsInv
      <4>2. addressByName[n] <= nextOffset /\ nameByAddress[addressByName[n]] = n
        BY <4>1, <2>5 DEF NetworkInv, TablesAgree
      <4>3. addressByName[n] \in 1 .. nextOffset
        BY <4>1, <4>2, <2>2, <2>5
      <4>4. QED
        BY <4>1, <4>2, <4>3, <2>4, <2>1, <2>2
    <3>3. QED
      BY <3>1, <3>2
  <2>6. QED
    BY <2>1, <2>2, <2>3, <2>4, <2>5 DEF TablesAgree
<1>3. QED
  BY <1>1, <1>2

\* What an allocation keeps is enough for the connections that do not move.
LEMMA OthersKept ==
    ASSUME NetworkInv, NEW name \in AllNames, Allocate(name),
           NEW conn \in Connection, AddressKept(conn)
    PROVE  AddressKept(conn)'
<1>1. /\ nextOffset <= nextOffset' /\ nextOffset' \in Nat /\ nextOffset \in Nat
      /\ \A a \in 1 .. nextOffset : nameByAddress'[a] = nameByAddress[a]
  BY AllocateKeeps, GuestNetworkBounds DEF NetworkInv, SentinelsInv
<1>2. QED
  BY <1>1 DEF AddressKept

LEMMA IdleFits ==
    Idle \in Connection /\ DeadlinesKept(Idle) /\ Idle.name = Nobody /\ Idle.pc = "idle"
BY GuestNetworkBounds DEF Idle, Connection, DeadlinesKept, Sides

\* A connection that has no address yet.
LEMMA RefusedFits ==
    ASSUME NEW refused, refused = [Idle EXCEPT !.pc = "refused"]
    PROVE  /\ refused \in Connection /\ DeadlinesKept(refused)
           /\ refused.pc = "refused" /\ refused.name = Nobody
<1>1. PICK idle \in Connection : idle = Idle /\ DeadlinesKept(idle) /\ idle.name = Nobody /\ ~idle.timedOut
  BY IdleFits DEF Idle
<1>2. refused = [idle EXCEPT !.pc = "refused"]
  BY <1>1
<1>3. /\ refused \in Connection /\ refused.pc = "refused"
      /\ refused.name = Nobody /\ ~refused.timedOut
  BY ONLY <1>1, <1>2 DEF Connection
<1>4. QED
  BY <1>3 DEF DeadlinesKept

ResolvedTo(name, x) == [Idle EXCEPT !.pc = "resolved", !.asked = name, !.address = x]

LEMMA ResolvedFits ==
    ASSUME NEW name \in AllNames, NEW x \in 0 .. PoolSize, NEW resolved,
           resolved = ResolvedTo(name, x)
    PROVE  /\ resolved \in Connection /\ DeadlinesKept(resolved)
           /\ resolved.pc = "resolved" /\ resolved.name = Nobody
           /\ resolved.asked = name /\ resolved.address = x
<1>1. PICK idle \in Connection : idle = Idle /\ idle.name = Nobody /\ ~idle.timedOut
  BY IdleFits DEF Idle
<1>2. resolved = [idle EXCEPT !.pc = "resolved", !.asked = name, !.address = x]
  BY <1>1 DEF ResolvedTo
<1>3. /\ resolved \in Connection /\ ~resolved.timedOut
      /\ resolved.pc = "resolved" /\ resolved.name = Nobody
      /\ resolved.asked = name /\ resolved.address = x
  BY ONLY <1>1, <1>2 DEF Connection
<1>4. QED
  BY <1>3 DEF DeadlinesKept

\* The resolver answers with the address that the tables give to the name.
LEMMA ResolveKeeps ==
    ASSUME NetworkInv, NEW p \in Programs, NEW name \in AllNames, Resolve(p, name)
    PROVE  NetworkInv'
<1>1. PICK refused : refused = [Idle EXCEPT !.pc = "refused"]
  OBVIOUS
<1>2. /\ refused \in Connection /\ DeadlinesKept(refused)
      /\ refused.pc = "refused" /\ refused.name = Nobody
  BY <1>1, RefusedFits
<1>3. CASE UNCHANGED sentinelVars /\ tunnel' = [tunnel EXCEPT ![p] = refused]
  <2>1. AddressKept(refused)
    BY <1>2 DEF AddressKept
  <2>2. QED
    BY <1>2, <1>3, <2>1, ConnectionSteps
<1>4. CASE Allocate(name) /\ tunnel' = [tunnel EXCEPT ![p] =
                IF addressByName'[name] # 0
                THEN [Idle EXCEPT !.pc = "resolved", !.asked = name, !.address = addressByName'[name]]
                ELSE [Idle EXCEPT !.pc = "refused"]]
  <2>1. SentinelsInv' /\ TablesAgree'
    BY <1>4, AllocateKeeps
  <2>2. PICK x \in 0 .. PoolSize : x = addressByName'[name]
    BY <2>1 DEF SentinelsInv
  <2>3. PICK resolved : resolved = ResolvedTo(name, x)
    OBVIOUS
  <2>4. /\ resolved \in Connection /\ DeadlinesKept(resolved)
        /\ resolved.pc = "resolved" /\ resolved.name = Nobody
        /\ resolved.asked = name /\ resolved.address = x
    BY <2>3, ResolvedFits
  <2>5. PICK next \in Connection :
          /\ next = IF x # 0 THEN resolved ELSE refused
          /\ DeadlinesKept(next)
    BY <2>4, <1>2
  <2>6. tunnel' = [tunnel EXCEPT ![p] = next]
    BY <1>4, <1>1, <2>2, <2>3, <2>5 DEF ResolvedTo
  <2>7. AddressKept(next)'
    <3>1. x # 0 => x \in 1 .. nextOffset' /\ nameByAddress'[x] = name
      BY <2>1, <2>2, GuestNetworkBounds DEF TablesAgree, SentinelsInv
    <3>2. QED
      BY <3>1, <2>4, <2>5, <1>2 DEF AddressKept
  <2>8. ASSUME NEW q \in Programs PROVE AddressKept(tunnel[q])' /\ DeadlinesKept(tunnel[q])'
    <3>1. tunnel'[q] = IF q = p THEN next ELSE tunnel[q]
      BY <2>6 DEF NetworkInv
    <3>2. CASE q = p
      BY <3>1, <3>2, <2>5, <2>7 DEF AddressKept, DeadlinesKept
    <3>3. CASE q # p
      <4>1. PICK conn \in Connection :
              conn = tunnel[q] /\ AddressKept(conn) /\ DeadlinesKept(conn)
        BY DEF NetworkInv
      <4>2. AddressKept(conn)'
        BY <4>1, <1>4, OthersKept
      <4>3. QED
        BY <4>1, <4>2, <3>1, <3>3 DEF AddressKept, DeadlinesKept
    <3>4. QED
      BY <3>2, <3>3
  <2>9. tunnel' \in [Programs -> Connection]
    BY <2>5, <2>6 DEF NetworkInv
  <2>10. QED
    BY <2>1, <2>8, <2>9 DEF NetworkInv
<1>5. QED
  BY <1>1, <1>3, <1>4 DEF Resolve

LEMMA ResolveElsewhereKeeps ==
    ASSUME NetworkInv, NEW name \in AllNames, ResolveElsewhere(name)
    PROVE  NetworkInv'
<1>1. Allocate(name) /\ UNCHANGED tunnel
  BY DEF ResolveElsewhere
<1>2. SentinelsInv' /\ TablesAgree'
  BY <1>1, AllocateKeeps
<1>3. ASSUME NEW q \in Programs PROVE AddressKept(tunnel[q])' /\ DeadlinesKept(tunnel[q])'
  <2>1. PICK conn \in Connection :
          conn = tunnel[q] /\ AddressKept(conn) /\ DeadlinesKept(conn)
    BY DEF NetworkInv
  <2>2. AddressKept(conn)'
    BY <2>1, <1>1, OthersKept
  <2>3. QED
    BY <2>1, <2>2, <1>1 DEF AddressKept, DeadlinesKept
<1>4. QED
  BY <1>1, <1>2, <1>3 DEF NetworkInv

\* The name of the address that a program holds is the one that it asked for.
LEMMA AcceptKeeps ==
    ASSUME NetworkInv, NEW p \in Programs, NEW port \in Ports, Accept(p, port)
    PROVE  NetworkInv'
<1>1. PICK old \in Connection :
        old = tunnel[p] /\ AddressKept(old) /\ DeadlinesKept(old) /\ old.pc = "resolved"
  BY DEF NetworkInv, Accept
<1>2. /\ old.address \in 1 .. nextOffset /\ nameByAddress[old.address] = old.asked
      /\ ~old.timedOut /\ old.address \in Addresses
  BY <1>1, GuestNetworkBounds DEF AddressKept, DeadlinesKept, NetworkInv, SentinelsInv, Addresses, Connection
<1>3. PICK name \in AllNames \cup {Nobody} : name = nameByAddress[old.address]
  BY <1>2 DEF NetworkInv, SentinelsInv
<1>4. PICK next : next = [old EXCEPT !.pc = IF name = Nobody THEN "closed" ELSE "accepted",
                                     !.port = port, !.name = name]
  OBVIOUS
<1>5. /\ next \in Connection /\ next.pc \in {"closed", "accepted"} /\ next.name = old.asked
      /\ next.asked = old.asked /\ ~next.timedOut
  BY ONLY <1>1, <1>2, <1>3, <1>4 DEF Connection
<1>6. tunnel' = [tunnel EXCEPT ![p] = next] /\ UNCHANGED sentinelVars
  BY <1>1, <1>3, <1>4 DEF Accept, NetworkInv
<1>7. AddressKept(next) /\ DeadlinesKept(next)
  BY <1>5 DEF AddressKept, DeadlinesKept
<1>8. QED
  BY <1>5, <1>6, <1>7, ConnectionSteps

\* No step after that changes the name.
LEMMA NameStays ==
    ASSUME NEW old \in Connection, NEW next \in Connection, AddressKept(old),
           next.name = old.name, next.asked = old.asked, next.pc # "resolved"
    PROVE  AddressKept(next)
BY DEF AddressKept

LEMMA PermitKeeps ==
    ASSUME NetworkInv, NEW p \in Programs, Permit(p)
    PROVE  NetworkInv'
<1>1. PICK old \in Connection :
        old = tunnel[p] /\ AddressKept(old) /\ DeadlinesKept(old) /\ old.pc = "accepted"
  BY DEF NetworkInv, Permit
<1>2. PICK next : next = [old EXCEPT !.pc = IF permits(old.name, old.port) THEN "dialling" ELSE "closed"]
  OBVIOUS
<1>3. /\ next \in Connection /\ next.pc \in {"dialling", "closed"}
      /\ next.name = old.name /\ next.asked = old.asked /\ next.timedOut = old.timedOut
  BY ONLY <1>1, <1>2 DEF Connection
<1>4. tunnel' = [tunnel EXCEPT ![p] = next] /\ UNCHANGED sentinelVars
  BY <1>1, <1>2 DEF Permit, NetworkInv
<1>5. AddressKept(next) /\ DeadlinesKept(next)
  BY <1>1, <1>3, NameStays DEF DeadlinesKept
<1>6. QED
  BY <1>3, <1>4, <1>5, ConnectionSteps

\* A connection begins with the whole timeout.
LEMMA ConnectKeeps ==
    ASSUME NetworkInv, NEW p \in Programs, Connect(p)
    PROVE  NetworkInv'
<1>1. PICK old \in Connection :
        old = tunnel[p] /\ AddressKept(old) /\ DeadlinesKept(old) /\ old.pc = "dialling"
  BY DEF NetworkInv, Connect
<1>2. ~old.timedOut /\ UNCHANGED sentinelVars
  BY <1>1 DEF DeadlinesKept, Connect
<1>3. PICK full : full = [s \in Sides |-> IdleTicks] /\ full \in [Sides -> 0 .. IdleTicks]
  <2>1. [s \in Sides |-> IdleTicks] \in [Sides -> 0 .. IdleTicks]
    BY GuestNetworkBounds
  <2>2. QED
    BY <2>1
<1>4. CASE tunnel' = [tunnel EXCEPT ![p].pc = "spliced", ![p].copying = Sides,
                                    ![p].deadline = [s \in Sides |-> IdleTicks]]
  <2>1. PICK next : next = [old EXCEPT !.pc = "spliced", !.copying = Sides, !.deadline = full]
    OBVIOUS
  <2>2. /\ next \in Connection /\ next.pc = "spliced" /\ next.deadline = full
        /\ next.name = old.name /\ next.asked = old.asked /\ ~next.timedOut /\ next.quiet \in Nat
    BY ONLY <1>1, <1>2, <1>3, <2>1 DEF Connection
  <2>3. tunnel' = [tunnel EXCEPT ![p] = next]
    BY <1>1, <1>3, <1>4, <2>1 DEF NetworkInv
  <2>4. AddressKept(next) /\ DeadlinesKept(next)
    BY <1>1, <1>3, <2>2, NameStays, GuestNetworkBounds DEF DeadlinesKept
  <2>5. QED
    BY <1>2, <2>2, <2>3, <2>4, ConnectionSteps
<1>5. CASE tunnel' = [tunnel EXCEPT ![p].pc = "closed"]
  <2>1. PICK next : next = [old EXCEPT !.pc = "closed"]
    OBVIOUS
  <2>2. /\ next \in Connection /\ next.pc = "closed"
        /\ next.name = old.name /\ next.asked = old.asked /\ ~next.timedOut
    BY ONLY <1>1, <1>2, <2>1 DEF Connection
  <2>3. tunnel' = [tunnel EXCEPT ![p] = next]
    BY <1>1, <1>5, <2>1 DEF NetworkInv
  <2>4. AddressKept(next) /\ DeadlinesKept(next)
    BY <1>1, <2>2, NameStays DEF DeadlinesKept
  <2>5. QED
    BY <1>2, <2>2, <2>3, <2>4, ConnectionSteps
<1>6. QED
  BY <1>4, <1>5 DEF Connect

\* A piece gives both directions the whole timeout again.
LEMMA CopyKeeps ==
    ASSUME NetworkInv, NEW p \in Programs, NEW side \in Sides, Copy(p, side)
    PROVE  NetworkInv'
<1>1. PICK old \in Connection :
        old = tunnel[p] /\ AddressKept(old) /\ DeadlinesKept(old) /\ old.pc = "spliced"
  BY DEF NetworkInv, Copy
<1>2. ~old.timedOut /\ UNCHANGED sentinelVars
  BY <1>1 DEF DeadlinesKept, Copy
<1>3. PICK full : full = [s \in Sides |-> IdleTicks] /\ full \in [Sides -> 0 .. IdleTicks]
  <2>1. [s \in Sides |-> IdleTicks] \in [Sides -> 0 .. IdleTicks]
    BY GuestNetworkBounds
  <2>2. QED
    BY <2>1
<1>4. PICK more \in Nat : more = old.chunks + 1
  BY <1>1 DEF Connection
<1>5. PICK next : next = [old EXCEPT !.deadline = full, !.quiet = 0, !.chunks = more]
  OBVIOUS
<1>6. /\ next \in Connection /\ next.pc = "spliced" /\ next.deadline = full /\ next.quiet = 0
      /\ next.name = old.name /\ next.asked = old.asked /\ ~next.timedOut
  BY ONLY <1>1, <1>2, <1>3, <1>5, <1>4 DEF Connection
<1>7. tunnel' = [tunnel EXCEPT ![p] = next]
  BY <1>1, <1>3, <1>5, <1>4 DEF Copy, Touches, NetworkInv
<1>8. AddressKept(next) /\ DeadlinesKept(next)
  BY <1>1, <1>3, <1>6, NameStays, GuestNetworkBounds DEF DeadlinesKept
<1>9. QED
  BY <1>2, <1>6, <1>7, <1>8, ConnectionSteps

\* The end of one direction leaves the deadlines alone.
LEMMA EndOfStreamKeeps ==
    ASSUME NetworkInv, NEW p \in Programs, NEW side \in Sides, EndOfStream(p, side)
    PROVE  NetworkInv'
<1>1. PICK old \in Connection :
        old = tunnel[p] /\ AddressKept(old) /\ DeadlinesKept(old) /\ old.pc = "spliced"
  BY DEF NetworkInv, EndOfStream
<1>2. ~old.timedOut /\ UNCHANGED sentinelVars
  BY <1>1 DEF DeadlinesKept, EndOfStream
<1>3. PICK left : left = [old EXCEPT !.copying = old.copying \ {side}]
  OBVIOUS
<1>4. /\ left \in Connection /\ left.pc = "spliced"
      /\ left.deadline = old.deadline /\ left.quiet = old.quiet
      /\ left.name = old.name /\ left.asked = old.asked /\ ~left.timedOut
  BY ONLY <1>1, <1>2, <1>3 DEF Connection
<1>5. PICK closed : closed = [left EXCEPT !.pc = "closed"]
  OBVIOUS
<1>6. /\ closed \in Connection /\ closed.pc = "closed"
      /\ closed.name = old.name /\ closed.asked = old.asked /\ ~closed.timedOut
  BY ONLY <1>4, <1>5 DEF Connection
<1>7. PICK next \in {left, closed} : next = Settled(left)
  BY <1>5 DEF Settled
<1>8. tunnel' = [tunnel EXCEPT ![p] = next]
  <2>1. tunnel' = [tunnel EXCEPT ![p] = Settled([tunnel[p] EXCEPT !.copying = tunnel[p].copying \ {side}])]
    BY Zenon DEF EndOfStream
  <2>2. left = [tunnel[p] EXCEPT !.copying = tunnel[p].copying \ {side}]
    BY <1>1, <1>3, Zenon
  <2>3. QED
    BY <1>7, <2>1, <2>2, Zenon
<1>9. AddressKept(next) /\ DeadlinesKept(next)
  BY <1>1, <1>4, <1>6, NameStays DEF DeadlinesKept
<1>10. QED
  BY <1>2, <1>4, <1>6, <1>8, <1>9, ConnectionSteps

LEMMA ConnectionErrorKeeps ==
    ASSUME NetworkInv, NEW p \in Programs, NEW side \in Sides, ConnectionError(p, side)
    PROVE  NetworkInv'
<1>1. PICK old \in Connection :
        old = tunnel[p] /\ AddressKept(old) /\ DeadlinesKept(old) /\ old.pc = "spliced"
  BY DEF NetworkInv, ConnectionError
<1>2. ~old.timedOut /\ UNCHANGED sentinelVars
  BY <1>1 DEF DeadlinesKept, ConnectionError
<1>3. PICK next : next = Broken(old)
  OBVIOUS
<1>4. /\ next \in Connection /\ next.pc = "closed"
      /\ next.name = old.name /\ next.asked = old.asked /\ ~next.timedOut
  BY ONLY <1>1, <1>2, <1>3 DEF Connection, Broken
<1>5. tunnel' = [tunnel EXCEPT ![p] = next]
  BY <1>1, <1>3 DEF ConnectionError
<1>6. AddressKept(next) /\ DeadlinesKept(next)
  BY <1>1, <1>4, NameStays DEF DeadlinesKept
<1>7. QED
  BY <1>2, <1>4, <1>5, <1>6, ConnectionSteps

\* A deadline that has passed is as old as the last piece.
LEMMA DeadlinePassesKeeps ==
    ASSUME NetworkInv, NEW p \in Programs, NEW side \in Sides, DeadlinePasses(p, side)
    PROVE  NetworkInv'
<1>1. PICK old \in Connection :
        /\ old = tunnel[p] /\ AddressKept(old) /\ DeadlinesKept(old) /\ old.pc = "spliced"
        /\ old.deadline[side] = 0
  BY DEF NetworkInv, DeadlinePasses
<1>2. UNCHANGED sentinelVars
  BY DEF DeadlinePasses
<1>3. old.quiet >= IdleTicks
  <2>1. old.quiet \in Nat
    BY <1>1 DEF Connection
  <2>2. old.deadline[side] + old.quiet >= IdleTicks
    BY <1>1 DEF DeadlinesKept
  <2>3. QED
    BY <1>1, <2>1, <2>2
<1>4. PICK next : next = [Broken(old) EXCEPT !.timedOut = TRUE]
  OBVIOUS
<1>5. /\ next \in Connection /\ next.pc = "closed"
      /\ next.name = old.name /\ next.asked = old.asked /\ next.quiet = old.quiet
  BY ONLY <1>1, <1>4 DEF Connection, Broken
<1>6. tunnel' = [tunnel EXCEPT ![p] = next]
  BY <1>1, <1>4 DEF DeadlinePasses
<1>7. AddressKept(next) /\ DeadlinesKept(next)
  BY <1>1, <1>3, <1>5, NameStays DEF DeadlinesKept
<1>8. QED
  BY <1>2, <1>5, <1>6, <1>7, ConnectionSteps

\* What a tick takes from a deadline it adds to the quiet time.
LEMMA TickKeeps ==
    ASSUME NetworkInv, NEW p \in Programs, Tick(p)
    PROVE  NetworkInv'
<1>1. PICK old \in Connection :
        old = tunnel[p] /\ AddressKept(old) /\ DeadlinesKept(old) /\ old.pc = "spliced"
  BY DEF NetworkInv, Tick
<1>2. ~old.timedOut /\ UNCHANGED sentinelVars
  BY <1>1 DEF DeadlinesKept, Tick
<1>3. PICK d : d = old.deadline /\ d \in [Sides -> 0 .. IdleTicks]
  BY <1>1 DEF Connection
<1>4. PICK q : q = old.quiet /\ q \in Nat
  BY <1>1 DEF Connection
<1>5. PICK less : less = [s \in Sides |-> IF d[s] > 0 THEN d[s] - 1 ELSE 0]
  OBVIOUS
<1>6. /\ less \in [Sides -> 0 .. IdleTicks]
      /\ \A s \in Sides : less[s] + (q + 1) >= d[s] + q
  BY ONLY <1>3, <1>4, <1>5, GuestNetworkBounds
<1>7. PICK q1 \in Nat : q1 = q + 1
  BY <1>4
<1>8. PICK next : next = [old EXCEPT !.deadline = less, !.quiet = q1]
  OBVIOUS
<1>9. /\ next \in Connection /\ next.pc = "spliced" /\ next.deadline = less /\ next.quiet = q1
      /\ next.name = old.name /\ next.asked = old.asked /\ ~next.timedOut
  BY ONLY <1>1, <1>2, <1>6, <1>8 DEF Connection
<1>10. tunnel' = [tunnel EXCEPT ![p] = next]
  BY <1>1, <1>3, <1>4, <1>5, <1>8, <1>7 DEF Tick, NetworkInv
<1>11. \A s \in Sides : less[s] + (q + 1) >= IdleTicks
  <2>1. \A s \in Sides : d[s] + q >= IdleTicks
    BY <1>1, <1>3, <1>4 DEF DeadlinesKept
  <2>2. \A s \in Sides : d[s] \in Nat /\ less[s] \in Nat
    BY <1>3, <1>6, GuestNetworkBounds
  <2>3. QED
    BY <2>1, <2>2, <1>4, <1>6, GuestNetworkBounds
<1>12. AddressKept(next) /\ DeadlinesKept(next)
  BY <1>1, <1>9, <1>11, <1>7, NameStays DEF DeadlinesKept
<1>13. QED
  BY <1>2, <1>9, <1>10, <1>12, ConnectionSteps

\* The box stops, and everything begins again.
LEMMA FreshNetwork ==
    ASSUME addressByName = [n \in AllNames |-> 0], nameByAddress = [a \in Addresses |-> Nobody],
           nextOffset = 0, tunnel = [p \in Programs |-> Idle]
    PROVE  NetworkInv
<1>1. SentinelsInv /\ TablesAgree
  BY GuestNetworkBounds DEF SentinelsInv, TablesAgree
<1>2. Idle \in Connection /\ DeadlinesKept(Idle) /\ AddressKept(Idle)
  BY IdleFits DEF AddressKept
<1>3. QED
  BY <1>1, <1>2 DEF NetworkInv

LEMMA BoxStopsKeeps ==
    ASSUME BoxStops PROVE NetworkInv'
<1>1. /\ (addressByName = [n \in AllNames |-> 0])' /\ (nameByAddress = [a \in Addresses |-> Nobody])'
      /\ (nextOffset = 0)' /\ (tunnel = [p \in Programs |-> Idle])'
  BY DEF BoxStops
<1>2. QED
  BY <1>1, FreshNetwork, PTL

LEMMA NetworkStep ==
    ASSUME NetworkInv, [NetworkNext]_networkVars
    PROVE  NetworkInv'
<1>1. CASE UNCHANGED <<sentinelVars, tunnel>>
  BY <1>1 DEF NetworkInv, SentinelsInv, TablesAgree, AddressKept, DeadlinesKept, sentinelVars
<1>2. CASE Refresh \/ BrokerChanges \/ BoxStarts \/ UNCHANGED networkVars
  BY <1>1, <1>2 DEF Refresh, refreshHosts, Retry, WakeUp, BrokerChanges, BoxStarts, networkVars
<1>3. CASE BoxStops
  BY <1>3, BoxStopsKeeps
<1>4. ASSUME NEW n \in AllNames, ResolveElsewhere(n) PROVE NetworkInv'
  BY <1>4, ResolveElsewhereKeeps
<1>5. ASSUME NEW p \in Programs, NEW n \in AllNames, Resolve(p, n) PROVE NetworkInv'
  BY <1>5, ResolveKeeps
<1>6. ASSUME NEW p \in Programs, NEW port \in Ports, Accept(p, port) PROVE NetworkInv'
  BY <1>6, AcceptKeeps
<1>7. ASSUME NEW p \in Programs, Handle(p) \/ Tick(p) PROVE NetworkInv'
  BY <1>7, PermitKeeps, ConnectKeeps, DeadlinePassesKeeps, TickKeeps DEF Handle
<1>8. ASSUME NEW p \in Programs, NEW s \in Sides,
             Copy(p, s) \/ EndOfStream(p, s) \/ ConnectionError(p, s)
      PROVE NetworkInv'
  BY <1>8, CopyKeeps, EndOfStreamKeeps, ConnectionErrorKeeps
<1>9. QED
  BY <1>2, <1>3, <1>4, <1>5, <1>6, <1>7, <1>8 DEF NetworkNext

LEMMA NetworkInvariant == NetworkSpec => []NetworkInv
<1>1. NetworkInit => NetworkInv
  BY FreshNetwork DEF NetworkInit
<1>2. NetworkInv /\ [NetworkNext]_networkVars => NetworkInv'
  BY NetworkStep
<1>3. QED
  BY <1>1, <1>2, PTL DEF NetworkSpec

(* A connection is made to the name that was resolved, however long a         *)
(* program waits before it connects and whatever was resolved meanwhile       *)
(* (sentinelPool.Allocate never gives an address to a second name).           *)
THEOREM ConnectionsStayAsResolved == NetworkSpec => []ConnectedAsResolved
<1>1. NetworkInv => ConnectedAsResolved
  BY DEF NetworkInv, AddressKept, ConnectedAsResolved
<1>2. QED
  BY <1>1, NetworkInvariant, PTL

(* No connection that carries bytes in one direction is ended because the     *)
(* other one is silent (idleWatch: a piece extends the deadlines of both).    *)
THEOREM OnlyIdleEverTimesOut == NetworkSpec => []OnlyIdleTimesOut
<1>1. NetworkInv => OnlyIdleTimesOut
  BY DEF NetworkInv, DeadlinesKept, OnlyIdleTimesOut
<1>2. QED
  BY <1>1, NetworkInvariant, PTL

----------------------------------------------------------------------------
LEMMA CertificatesStep ==
    ASSUME CertificatesInv, [CertificatesNext]_certificateVars
    PROVE  CertificatesInv'
<1> USE DEF CertificatesInv
<1>1. CASE UNCHANGED certificateVars
  BY <1>1 DEF certificateVars, directoryVars, storeVars
<1>2. CASE refreshCertificates
  \* What is removed is what was found, and an equal bundle is what was trusted.
  BY <1>2 DEF refreshCertificates, Same, storeVars
<1>3. CASE removeFiles
  BY <1>3 DEF removeFiles, storeVars
<1>4. CASE writeFiles
  BY <1>4 DEF writeFiles, storeVars
<1>5. CASE rebuildStore
  BY <1>5 DEF rebuildStore, directoryVars
<1>6. CASE refreshJavaKeystore
  <2>1. PICK imported \in SUBSET DOMAIN files :
          keystore' = [n \in (DOMAIN keystore \ Deleted) \cup imported |->
                         IF n \in imported THEN files[n] ELSE keystore[n]]
    BY <1>6 DEF refreshJavaKeystore
  <2>2. ~everCutShort => (DOMAIN keystore \ Deleted) \cup imported = imported
    BY <1>6 DEF refreshJavaKeystore, Deleted
  <2>3. ~everCutShort => \A n \in DOMAIN keystore' : n \in DOMAIN files /\ keystore'[n] = files[n]
    BY <2>1, <2>2
  <2>4. /\ installer = "java" /\ installer' = "sleep"
        /\ UNCHANGED <<wanted, removed, files, trusted, cutShort, everCutShort>>
    BY <1>6 DEF refreshJavaKeystore, directoryVars
  <2>5. QED
    BY <2>3, <2>4
<1>7. CASE InstallFails
  BY <1>7 DEF InstallFails, directoryVars, storeVars
<1>8. CASE NextRefresh
  BY <1>8 DEF NextRefresh, directoryVars, storeVars
<1>9. CASE BundleChanges
  BY <1>9 DEF BundleChanges, directoryVars, storeVars
<1>10. CASE BoxRestarts
  BY <1>10 DEF BoxRestarts, directoryVars, storeVars
<1>11. QED
  BY <1>1, <1>2, <1>3, <1>4, <1>5, <1>6, <1>7, <1>8, <1>9, <1>10 DEF CertificatesNext

(* Wherever an install fails or the box stops, the next one that reaches the  *)
(* trust store leaves it, and the directory, with the bundle of its answer;   *)
(* entries of the keystore are only left over from an install that was cut    *)
(* short (writeCertificateFiles compares the files alone).                    *)
THEOREM StoreAlwaysFollows == CertificatesSpec => []StoreFollowsBundle
<1>1. CertificatesInit => CertificatesInv
  BY DEF CertificatesInit, CertificatesInv
<1>2. CertificatesInv /\ [CertificatesNext]_certificateVars => CertificatesInv'
  BY CertificatesStep
<1>3. CertificatesInv => StoreFollowsBundle
  BY DEF CertificatesInv, StoreFollowsBundle
<1>4. QED
  BY <1>1, <1>2, <1>3, PTL DEF CertificatesSpec

----------------------------------------------------------------------------
ProcessesSpec == ProcessesInit /\ [][ProcessesNext]_processVars

ExitOf(p) == [of |-> p, status |-> status[p]]

\* A process begins once, but for the helper, whose end is always met by the
\* one that started it: while it runs the reaper is kept out.
Lives ==
    /\ brokerAnswered # "taken" => proc[Main] = "none"
    /\ proc[Helper] \in {"running", "zombie"} <=> helper = "forked"
    /\ helper # "failed"
    /\ supervisor = "reap" => helper \notin {"holds", "forked"}
    /\ \A p \in Processes : proc[p] = "zombie" => status[p] \in Statuses
    /\ \A e \in Execs :
         /\ session[e] = "none" => proc[e] = "none"
         /\ proc[e] = "none" => proc[Left[e]] = "none"

\* An exit that is on its way is that of a process that was collected.
ExitsInv ==
    /\ \A p \in Processes :
         unclaimed[PidOf[p]] # None =>
            unclaimed[PidOf[p]] = ExitOf(p) /\ proc[p] = "gone" /\ p # Helper
    /\ \A e \in Execs : exited[e] # None => exited[e] = ExitOf(e) /\ proc[e] = "gone"
    /\ reaped # None => reaped = ExitOf(Main) /\ proc[Main] = "gone"
    /\ boxExit \notin {None, Failure, BySignal} => boxExit = ExitOf(Main)
    /\ supervisor # "ended" => boxExit = None

Sending(e) == IF output[e] = "sending" THEN 1 ELSE 0

\* The host has received what the command wrote, but for what waits in the
\* pipe or in the hands of copyOutput.
Accounted(e) ==
    \/ frames[e] = <<>> /\ written[e] = piped[e] + Sending(e)
    \/ frames[e] = <<"out">> /\ written[e] = 1 /\ piped[e] = 0 /\ output[e] # "sending"

StreamInv(e) ==
    /\ frames[e] \in {<<>>, <<"out">>, <<"exit">>, <<"out", "exit">>, <<"failure">>}
    /\ session[e] = "none" =>
         output[e] = "off" /\ frames[e] = <<>> /\ written[e] = 0 /\ piped[e] = 0
    /\ session[e] = "forked" => output[e] = "off"
    /\ session[e] \in {"none", "done"} => ~connected[e]
    /\ cut[e] => session[e] \in {"cut", "done"}
    /\ session[e] # "done" => frames[e] \in {<<>>, <<"out">>}
    /\ connected[e] => Accounted(e)
    /\ connected[e] /\ output[e] = "done" => cut[e] \/ (piped[e] = 0 /\ Holders(e) = {})
    /\ frames[e] \in {<<"exit">>, <<"out", "exit">>} =>
         /\ output[e] = "done" /\ cut[e]
         /\ piped[e] > 0 \/ written[e] = (IF frames[e] = <<"exit">> THEN 0 ELSE 1)

StreamsInv == \A e \in Execs : StreamInv(e)
ProcessesInv == ProcessesTypeOK /\ Lives /\ ExitsInv /\ StreamsInv

----------------------------------------------------------------------------
LEMMA Kinds ==
    /\ Main \in Processes /\ Helper \in Processes /\ Main # Helper
    /\ \A e \in Execs :
         /\ e \in Processes /\ Left[e] \in Processes
         /\ e \notin {Main, Helper} /\ Left[e] \notin {Main, Helper}
         /\ \A d \in Execs : Left[d] # e /\ (Left[d] = Left[e] => d = e)
BY GuestProcessesApart DEF Processes

LEMMA PidsFit == \A p \in Processes : PidOf[p] \in Pids
BY DEF Pids

LEMMA HoldersEmpty ==
    ASSUME NEW e \in Execs
    PROVE  (Holders(e) = {} <=> proc[e] # "running" /\ proc[Left[e]] # "running")
BY DEF Holders

\* A stream whose variables stay, and whose pipe nobody opens again, stays in order.
LEMMA StreamStays ==
    ASSUME NEW e \in Execs, StreamInv(e),
           session'[e] = session[e], output'[e] = output[e], piped'[e] = piped[e],
           written'[e] = written[e], cut'[e] = cut[e], connected'[e] = connected[e],
           frames'[e] = frames[e],
           proc'[e] = "running" => proc[e] = "running" \/ proc[Left[e]] = "running",
           proc'[Left[e]] = "running" => proc[e] = "running" \/ proc[Left[e]] = "running"
    PROVE  StreamInv(e)'
<1>1. Holders(e) = {} => Holders(e)' = {}
  BY DEF Holders
<1>2. Accounted(e) => Accounted(e)'
  BY DEF Accounted, Sending
<1>3. QED
  BY <1>1, <1>2 DEF StreamInv

\* The end of PID 1 leaves nothing that could be wrong.
LEMMA EndKeeps ==
    ASSUME ProcessesInv, NEW code \in Exit \cup {None, Failure, BySignal}, End(code),
           code \notin {None, Failure, BySignal} => code = ExitOf(Main)
    PROVE  ProcessesInv'
<1>1. ProcessesTypeOK'
  BY GuestProcessesBounds DEF End, ProcessesInv, ProcessesTypeOK
<1>2. Lives'
  BY <1>1, Kinds DEF End, Lives, ProcessesTypeOK
<1>3. ExitsInv'
  <2>1. ExitOf(Main)' = ExitOf(Main)
    BY DEF End, ExitOf
  <2>2. /\ unclaimed' = [n \in Pids |-> None] /\ exited' = [e \in Execs |-> None]
        /\ reaped' = None /\ boxExit' = code /\ supervisor' = "ended"
    BY DEF End
  <2>3. QED
    BY <2>1, <2>2, PidsFit DEF ExitsInv
<1>4. ASSUME NEW e \in Execs PROVE StreamInv(e)'
  BY DEF End, StreamInv
<1>5. QED
  BY <1>1, <1>2, <1>3, <1>4 DEF ProcessesInv, StreamsInv

\* What a process that begins changes.
LEMMA MadeEffect ==
    ASSUME ProcessesTypeOK, NEW p \in Processes, Made(p)
    PROVE  /\ proc' \in [Processes -> {"none", "running", "zombie", "gone"}]
           /\ status' \in [Processes -> Statuses \cup {None}]
           /\ proc'[p] = "running" /\ status'[p] = None
           /\ \A q \in Processes : q # p => proc'[q] = proc[q] /\ status'[q] = status[q]
BY DEF Made, ProcessesTypeOK

LEMMA NotifiedFits ==
    ASSUME NEW queue \in Seq({"CHLD", "TERM", "INT"}), Len(queue) <= SignalCapacity,
           NEW signal \in {"CHLD", "TERM", "INT"}
    PROVE  /\ Notified(queue, signal) \in Seq({"CHLD", "TERM", "INT"})
           /\ Len(Notified(queue, signal)) <= SignalCapacity
BY GuestProcessesBounds DEF Notified

\* Processes only end: those that are gone, or were never there, stay so.
LEMMA EndedEffect ==
    ASSUME ProcessesTypeOK, NEW S \in SUBSET Processes, NEW how \in Statuses,
           NEW queue \in Seq({"CHLD", "TERM", "INT"}), Len(queue) <= SignalCapacity,
           Ended(S, how, queue)
    PROVE  /\ proc' \in [Processes -> {"none", "running", "zombie", "gone"}]
           /\ status' \in [Processes -> Statuses \cup {None}]
           /\ signals' \in Seq({"CHLD", "TERM", "INT"}) /\ Len(signals') <= SignalCapacity
           /\ \A p \in Processes :
                \/ proc'[p] = proc[p] /\ status'[p] = status[p]
                \/ proc[p] = "running" /\ proc'[p] = "zombie" /\ status'[p] = how
<1> DEFINE dead == {p \in S : proc[p] = "running"}
<1>1. /\ proc' = [p \in Processes |-> IF p \in dead THEN "zombie" ELSE proc[p]]
      /\ status' = [p \in Processes |-> IF p \in dead THEN how ELSE status[p]]
      /\ signals' = IF dead = {} THEN queue ELSE Notified(queue, "CHLD")
  BY DEF Ended
<1>2. signals' \in Seq({"CHLD", "TERM", "INT"}) /\ Len(signals') <= SignalCapacity
  BY <1>1, NotifiedFits
<1>3. QED
  BY <1>1, <1>2 DEF ProcessesTypeOK

\* The kernel changes its processes, and nothing else does.
LEMMA KernelKeeps ==
    ASSUME ProcessesInv, Up,
           proc' \in [Processes -> {"none", "running", "zombie", "gone"}],
           status' \in [Processes -> Statuses \cup {None}],
           \A p \in Processes :
                \/ proc'[p] = proc[p] /\ status'[p] = status[p]
                \/ proc[p] = "running" /\ proc'[p] = "zombie" /\ status'[p] \in Statuses,
           UNCHANGED <<brokerAnswered, helper, supervisor, session, unclaimed, exited, reaped, boxExit>>
    PROVE  Lives' /\ ExitsInv'
<1>1. \A p \in Processes : proc[p] = "gone" => ExitOf(p)' = ExitOf(p) /\ proc'[p] = "gone"
  BY DEF ExitOf
<1>2. Lives'
  BY Kinds DEF ProcessesInv, Lives
<1>3. ExitsInv'
  BY <1>1, Kinds DEF ProcessesInv, ExitsInv, Up
<1>4. QED
  BY <1>2, <1>3

\* Processes end in every way that the guest knows.
LEMMA EndingKeeps ==
    ASSUME ProcessesInv, Up, NEW S \in SUBSET Processes, NEW how \in Statuses,
           NEW queue \in Seq({"CHLD", "TERM", "INT"}), Len(queue) <= SignalCapacity,
           Ended(S, how, queue),
           UNCHANGED <<brokerAnswered, helper, supervisor, session, unclaimed, exited, reaped, boxExit>>
    PROVE  /\ proc' \in [Processes -> {"none", "running", "zombie", "gone"}]
           /\ status' \in [Processes -> Statuses \cup {None}]
           /\ signals' \in Seq({"CHLD", "TERM", "INT"}) /\ Len(signals') <= SignalCapacity
           /\ \A p \in Processes : proc'[p] = "running" => proc[p] = "running"
           /\ Lives' /\ ExitsInv'
<1>1. /\ proc' \in [Processes -> {"none", "running", "zombie", "gone"}]
      /\ status' \in [Processes -> Statuses \cup {None}]
      /\ signals' \in Seq({"CHLD", "TERM", "INT"}) /\ Len(signals') <= SignalCapacity
      /\ \A p \in Processes :
            \/ proc'[p] = proc[p] /\ status'[p] = status[p]
            \/ proc[p] = "running" /\ proc'[p] = "zombie" /\ status'[p] = how
  BY EndedEffect DEF ProcessesInv
<1>2. Lives' /\ ExitsInv'
  BY <1>1, KernelKeeps
<1>3. QED
  BY <1>1, <1>2

\* The streams of every exec stay in order when no pipe gets a writer.
LEMMA StreamsStay ==
    ASSUME ProcessesInv, UNCHANGED <<session, output, piped, written, cut, connected, frames>>,
           \A p \in Processes : proc'[p] = "running" => proc[p] = "running"
    PROVE  StreamsInv'
<1>1. ASSUME NEW e \in Execs PROVE StreamInv(e)'
  <2>1. /\ StreamInv(e)
        /\ proc'[e] = "running" => proc[e] = "running"
        /\ proc'[Left[e]] = "running" => proc[Left[e]] = "running"
    BY Kinds DEF ProcessesInv, StreamsInv
  <2>2. QED
    BY <2>1, StreamStays
<1>2. QED
  BY <1>1 DEF StreamsInv

LEMMA ProcessEndsKeeps ==
    ASSUME ProcessesInv, NEW p \in Processes, ProcessEnds(p)
    PROVE  ProcessesInv'
<1>1. /\ proc' \in [Processes -> {"none", "running", "zombie", "gone"}]
      /\ status' \in [Processes -> Statuses \cup {None}]
      /\ signals' \in Seq({"CHLD", "TERM", "INT"}) /\ Len(signals') <= SignalCapacity
      /\ \A q \in Processes : proc'[q] = "running" => proc[q] = "running"
      /\ Lives' /\ ExitsInv'
  <2>1. Up /\ Ended({p}, "own", signals) /\ "own" \in Statuses
    BY DEF ProcessEnds, Statuses
  <2>2. UNCHANGED <<brokerAnswered, helper, supervisor, session, unclaimed, exited, reaped, boxExit>>
    BY DEF ProcessEnds, superVars, helperVars, execVars, runnerVars
  <2>3. signals \in Seq({"CHLD", "TERM", "INT"}) /\ Len(signals) <= SignalCapacity
    BY DEF ProcessesInv, ProcessesTypeOK
  <2>4. QED
    BY <2>1, <2>2, <2>3, EndingKeeps
<1>2. ProcessesTypeOK'
  BY <1>1 DEF ProcessEnds, superVars, helperVars, execVars, runnerVars, streamVars, ProcessesInv, ProcessesTypeOK
<1>3. StreamsInv'
  BY <1>1, StreamsStay DEF ProcessEnds, execVars, streamVars
<1>4. QED
  BY <1>1, <1>2, <1>3 DEF ProcessesInv

\* A process that an exec leaves behind holds a pipe that was held before.
LEMMA LeavesRunningKeeps ==
    ASSUME ProcessesInv, NEW e \in Execs, LeavesRunning(e)
    PROVE  ProcessesInv'
<1>1. /\ Up /\ proc[e] = "running" /\ proc[Left[e]] = "none" /\ Made(Left[e])
      /\ UNCHANGED <<signalVars, superVars, runnerVars, helperVars, streamVars, execVars>>
  BY DEF LeavesRunning
<1>2. /\ proc' \in [Processes -> {"none", "running", "zombie", "gone"}]
      /\ status' \in [Processes -> Statuses \cup {None}]
      /\ proc'[Left[e]] = "running" /\ status'[Left[e]] = None
      /\ \A q \in Processes : q # Left[e] => proc'[q] = proc[q] /\ status'[q] = status[q]
  BY <1>1, Kinds, MadeEffect DEF ProcessesInv
<1>3. ProcessesTypeOK'
  BY <1>1, <1>2 DEF signalVars, superVars, helperVars, execVars, runnerVars, streamVars,
                   ProcessesInv, ProcessesTypeOK
<1>4. Lives'
  BY <1>1, <1>2, Kinds DEF superVars, helperVars, execVars, ProcessesInv, Lives
<1>5. ExitsInv'
  <2>1. \A q \in Processes : proc[q] = "gone" => ExitOf(q)' = ExitOf(q) /\ proc'[q] = "gone"
    BY <1>1, <1>2 DEF ExitOf
  <2>2. QED
    BY <1>1, <2>1, Kinds DEF superVars, execVars, runnerVars, ProcessesInv, ExitsInv, Up
<1>6. ASSUME NEW d \in Execs PROVE StreamInv(d)'
  <2>1. StreamInv(d)
    BY DEF ProcessesInv, StreamsInv
  <2>2. proc'[d] = proc[d] /\ (d # e => proc'[Left[d]] = proc[Left[d]])
    BY <1>2, Kinds
  <2>3. QED
    BY <1>1, <2>1, <2>2, StreamStays DEF execVars, streamVars
<1>7. QED
  BY <1>3, <1>4, <1>5, <1>6 DEF ProcessesInv, StreamsInv

\* A step that concerns the supervisor, the signals or the helper alone.
LEMMA QuietKeeps ==
    ASSUME ProcessesInv, ProcessesTypeOK', Lives',
           UNCHANGED <<kernelVars, runnerVars, streamVars, execVars, boxExit>>,
           reaped' \in {None, reaped}, supervisor' # "ended" => supervisor # "ended"
    PROVE  ProcessesInv'
<1>1. ExitsInv'
  <2>1. \A p \in Processes : ExitOf(p)' = ExitOf(p)
    BY DEF ExitOf, kernelVars
  <2>2. QED
    BY <2>1, Kinds DEF ProcessesInv, ExitsInv, kernelVars, runnerVars, execVars
<1>2. StreamsInv'
  BY StreamsStay DEF kernelVars, streamVars, execVars
<1>3. QED
  BY <1>1, <1>2 DEF ProcessesInv

LEMMA SignalledKeeps ==
    ASSUME ProcessesInv, NEW signal \in {"TERM", "INT"}, Signalled(signal)
    PROVE  ProcessesInv'
<1>1. /\ signals' \in Seq({"CHLD", "TERM", "INT"}) /\ Len(signals') <= SignalCapacity
      /\ stops' \in 0 .. MaxStops
  BY NotifiedFits, GuestProcessesBounds DEF Signalled, ProcessesInv, ProcessesTypeOK
<1>2. UNCHANGED <<kernelVars, superVars, runnerVars, helperVars, streamVars, execVars>>
  BY DEF Signalled
<1>3. ProcessesTypeOK'
  BY <1>1, <1>2 DEF kernelVars, superVars, helperVars, execVars, runnerVars, streamVars,
                   ProcessesInv, ProcessesTypeOK
<1>4. Lives'
  BY <1>2 DEF kernelVars, superVars, helperVars, execVars, ProcessesInv, Lives
<1>5. QED
  BY <1>2, <1>3, <1>4, QuietKeeps DEF superVars

LEMMA FailureEnds ==
    ASSUME ProcessesInv, End(Failure) \/ End(BySignal)
    PROVE  ProcessesInv'
BY EndKeeps

LEMMA BootKeeps ==
    ASSUME ProcessesInv, Boot PROVE ProcessesInv'
<1>1. CASE End(Failure)
  BY <1>1, FailureEnds
<1>2. CASE ~End(Failure)
  <2>1. /\ supervisor' = "select" /\ supervisor = "boot"
        /\ UNCHANGED <<kernelVars, streamVars, reaped, forceKill, brokerAnswered, boxExit>>
        /\ UNCHANGED <<signalVars, runnerVars, helperVars, execVars>>
    BY <1>2 DEF Boot
  <2>2. ProcessesTypeOK'
    BY <2>1 DEF kernelVars, signalVars, helperVars, execVars, runnerVars, streamVars,
                ProcessesInv, ProcessesTypeOK
  <2>3. Lives'
    BY <2>1 DEF kernelVars, helperVars, execVars, ProcessesInv, Lives
  <2>4. QED
    BY <2>1, <2>2, <2>3, QuietKeeps
<1>3. QED
  BY <1>1, <1>2

LEMMA CloseFirstAnswerKeeps ==
    ASSUME ProcessesInv, CloseFirstAnswer PROVE ProcessesInv'
<1>1. /\ brokerAnswered = "open" /\ brokerAnswered' = "closed"
      /\ UNCHANGED <<supervisor, reaped, forceKill, boxExit>>
      /\ UNCHANGED <<kernelVars, signalVars, runnerVars, helperVars, streamVars, execVars>>
  BY DEF CloseFirstAnswer
<1>2. ProcessesTypeOK'
  BY <1>1 DEF kernelVars, signalVars, helperVars, execVars, runnerVars, streamVars,
              ProcessesInv, ProcessesTypeOK
<1>3. Lives'
  BY <1>1 DEF kernelVars, helperVars, execVars, ProcessesInv, Lives
<1>4. QED
  BY <1>1, <1>2, <1>3, QuietKeeps

\* The command of the box begins once.
LEMMA StartMainKeeps ==
    ASSUME ProcessesInv, StartMain PROVE ProcessesInv'
<1>1. CASE End(Failure)
  BY <1>1, FailureEnds
<1>2. CASE ~End(Failure)
  <2>1. /\ supervisor = "select" /\ brokerAnswered = "closed" /\ brokerAnswered' = "taken" /\ Made(Main)
        /\ UNCHANGED <<supervisor, reaped, forceKill, boxExit, streamVars>>
        /\ UNCHANGED <<signalVars, runnerVars, helperVars, execVars>>
    BY <1>2 DEF StartMain
  <2>2. /\ proc' \in [Processes -> {"none", "running", "zombie", "gone"}]
        /\ status' \in [Processes -> Statuses \cup {None}]
        /\ proc'[Main] = "running" /\ status'[Main] = None
        /\ \A q \in Processes : q # Main => proc'[q] = proc[q] /\ status'[q] = status[q]
    BY <2>1, Kinds, MadeEffect DEF ProcessesInv
  <2>3. proc[Main] = "none"
    BY <2>1 DEF ProcessesInv, Lives
  <2>4. ProcessesTypeOK'
    BY <2>1, <2>2 DEF signalVars, helperVars, execVars, runnerVars, streamVars,
                      ProcessesInv, ProcessesTypeOK
  <2>5. Lives'
    BY <2>1, <2>2, Kinds DEF helperVars, execVars, ProcessesInv, Lives
  <2>6. ExitsInv'
    <3>1. \A q \in Processes : proc[q] = "gone" => ExitOf(q)' = ExitOf(q) /\ proc'[q] = "gone"
      BY <2>2, <2>3 DEF ExitOf
    <3>2. QED
      BY <2>1, <2>3, <3>1, Kinds DEF execVars, runnerVars, ProcessesInv, ExitsInv
  <2>7. ASSUME NEW d \in Execs PROVE StreamInv(d)'
    <3>1. StreamInv(d) /\ proc'[d] = proc[d] /\ proc'[Left[d]] = proc[Left[d]]
      BY <2>2, Kinds DEF ProcessesInv, StreamsInv
    <3>2. QED
      BY <2>1, <3>1, StreamStays DEF execVars, streamVars
  <2>8. QED
    BY <2>4, <2>5, <2>6, <2>7 DEF ProcessesInv, StreamsInv
<1>3. QED
  BY <1>1, <1>2

LEMMA TakeChildKeeps ==
    ASSUME ProcessesInv, TakeChild PROVE ProcessesInv'
<1>1. /\ supervisor = "select" /\ supervisor' = "lock" /\ signals # <<>> /\ signals' = Tail(signals)
      /\ UNCHANGED <<stops, reaped, forceKill, brokerAnswered, boxExit>>
      /\ UNCHANGED <<kernelVars, runnerVars, helperVars, streamVars, execVars>>
  BY DEF TakeChild
<1>2. signals' \in Seq({"CHLD", "TERM", "INT"}) /\ Len(signals') <= SignalCapacity
  BY <1>1, GuestProcessesBounds DEF ProcessesInv, ProcessesTypeOK
<1>3. ProcessesTypeOK'
  BY <1>1, <1>2 DEF kernelVars, helperVars, execVars, runnerVars, streamVars,
                    ProcessesInv, ProcessesTypeOK
<1>4. Lives'
  BY <1>1 DEF kernelVars, helperVars, execVars, ProcessesInv, Lives
<1>5. QED
  BY <1>1, <1>3, <1>4, QuietKeeps

\* The command of the box ends, or the signal is only taken.
LEMMA TakeStopKeeps ==
    ASSUME ProcessesInv, TakeStop PROVE ProcessesInv'
<1>1. CASE End(BySignal)
  BY <1>1, FailureEnds
<1>2. CASE ~End(BySignal)
  <2>1. /\ supervisor = "select" /\ signals # <<>> /\ forceKill' = ArmTimer(Head(signals))
        /\ \/ Ended({Main}, "own", Tail(signals))
           \/ signals' = Tail(signals) /\ UNCHANGED kernelVars
        /\ UNCHANGED <<supervisor, reaped, brokerAnswered, boxExit, streamVars>>
        /\ UNCHANGED <<stops, runnerVars, helperVars, execVars>>
    BY <1>2 DEF TakeStop
  <2>2. /\ Tail(signals) \in Seq({"CHLD", "TERM", "INT"}) /\ Len(Tail(signals)) <= SignalCapacity
        /\ forceKill' \in {"nil", "armed"}
    BY <2>1, GuestProcessesBounds DEF ProcessesInv, ProcessesTypeOK, ArmTimer
  <2>3. CASE Ended({Main}, "own", Tail(signals))
    <3>1. /\ proc' \in [Processes -> {"none", "running", "zombie", "gone"}]
          /\ status' \in [Processes -> Statuses \cup {None}]
          /\ signals' \in Seq({"CHLD", "TERM", "INT"}) /\ Len(signals') <= SignalCapacity
          /\ \A q \in Processes : proc'[q] = "running" => proc[q] = "running"
          /\ Lives' /\ ExitsInv'
      <4>1. Up /\ "own" \in Statuses
        BY <2>1 DEF Up, Statuses
      <4>2. UNCHANGED <<brokerAnswered, helper, supervisor, session, unclaimed, exited, reaped, boxExit>>
        BY <2>1 DEF helperVars, execVars, runnerVars
      <4>3. QED
        BY <2>2, <2>3, <4>1, <4>2, Kinds, EndingKeeps
    <3>2. ProcessesTypeOK'
      BY <2>1, <2>2, <3>1 DEF helperVars, execVars, runnerVars, streamVars, ProcessesInv, ProcessesTypeOK
    <3>3. StreamsInv'
      BY <2>1, <3>1, StreamsStay DEF execVars, streamVars
    <3>4. QED
      BY <3>1, <3>2, <3>3 DEF ProcessesInv
  <2>4. CASE signals' = Tail(signals) /\ UNCHANGED kernelVars
    <3>1. ProcessesTypeOK'
      BY <2>1, <2>2, <2>4 DEF kernelVars, helperVars, execVars, runnerVars, streamVars,
                              ProcessesInv, ProcessesTypeOK
    <3>2. Lives'
      BY <2>1, <2>4 DEF kernelVars, helperVars, execVars, ProcessesInv, Lives
    <3>3. QED
      BY <2>1, <2>4, <3>1, <3>2, QuietKeeps
  <2>5. QED
    BY <2>1, <2>3, <2>4
<1>3. QED
  BY <1>1, <1>2

LEMMA ForceKillKeeps ==
    ASSUME ProcessesInv, ForceKill PROVE ProcessesInv'
<1>1. /\ supervisor = "select" /\ forceKill' = "nil" /\ Ended({Main}, "killed", signals)
      /\ UNCHANGED <<supervisor, reaped, brokerAnswered, boxExit, stops>>
      /\ UNCHANGED <<runnerVars, helperVars, streamVars, execVars>>
  BY DEF ForceKill
<1>2. /\ proc' \in [Processes -> {"none", "running", "zombie", "gone"}]
      /\ status' \in [Processes -> Statuses \cup {None}]
      /\ signals' \in Seq({"CHLD", "TERM", "INT"}) /\ Len(signals') <= SignalCapacity
      /\ \A q \in Processes : proc'[q] = "running" => proc[q] = "running"
      /\ Lives' /\ ExitsInv'
  <2>1. Up /\ "killed" \in Statuses
    BY <1>1 DEF Up, Statuses
  <2>2. UNCHANGED <<brokerAnswered, helper, supervisor, session, unclaimed, exited, reaped, boxExit>>
    BY <1>1 DEF helperVars, execVars, runnerVars
  <2>3. signals \in Seq({"CHLD", "TERM", "INT"}) /\ Len(signals) <= SignalCapacity
    BY DEF ProcessesInv, ProcessesTypeOK
  <2>4. QED
    BY <1>1, <2>1, <2>2, <2>3, Kinds, EndingKeeps
<1>3. ProcessesTypeOK'
  BY <1>1, <1>2 DEF helperVars, execVars, runnerVars, streamVars, ProcessesInv, ProcessesTypeOK
<1>4. StreamsInv'
  BY <1>1, <1>2, StreamsStay DEF execVars, streamVars
<1>5. QED
  BY <1>2, <1>3, <1>4 DEF ProcessesInv

\* The reaper begins when no helper program runs.
LEMMA LockReaperKeeps ==
    ASSUME ProcessesInv, LockReaper PROVE ProcessesInv'
<1>1. /\ supervisor = "lock" /\ helper \notin {"holds", "forked"} /\ supervisor' = "reap" /\ reaped' = None
      /\ UNCHANGED <<forceKill, brokerAnswered, boxExit>>
      /\ UNCHANGED <<kernelVars, signalVars, runnerVars, helperVars, streamVars, execVars>>
  BY DEF LockReaper
<1>2. ProcessesTypeOK'
  BY <1>1 DEF kernelVars, signalVars, helperVars, execVars, runnerVars, streamVars,
              ProcessesInv, ProcessesTypeOK
<1>3. Lives'
  BY <1>1 DEF kernelVars, helperVars, execVars, ProcessesInv, Lives
<1>4. QED
  BY <1>1, <1>2, <1>3, QuietKeeps

\* One turn of the reaper: the exit goes to the exec that waits for the pid, or
\* is kept. It is never that of a helper, since the helper holds the reaper off.
LEMMA ReapKeeps ==
    ASSUME DistinctPids, ProcessesInv, NEW p \in Processes, Reap(p)
    PROVE  ProcessesInv'
<1>1. /\ supervisor = "reap" /\ proc[p] = "zombie"
      /\ proc' = [proc EXCEPT ![p] = "gone"] /\ deliverExit(p)
      /\ reaped' = IF childStarted /\ PidOf[p] = PidOf[Main] THEN ExitOf(p) ELSE reaped
      /\ UNCHANGED <<status, supervisor, forceKill, brokerAnswered, boxExit>>
      /\ UNCHANGED <<signalVars, helperVars, streamVars, session, finished>>
  BY DEF Reap, Zombies, ExitOf
<1>2. p # Helper /\ status[p] \in Statuses /\ ExitOf(p) \in Exit
  BY <1>1 DEF ProcessesInv, Lives, ExitOf, Exit
<1>3. /\ proc' \in [Processes -> {"none", "running", "zombie", "gone"}] /\ proc'[p] = "gone"
      /\ \A q \in Processes : q # p => proc'[q] = proc[q]
      /\ \A q \in Processes : ExitOf(q)' = ExitOf(q)
  BY <1>1 DEF ProcessesInv, ProcessesTypeOK, ExitOf
<1>4. PICK n \in Pids : n = PidOf[p]
  BY PidsFit
<1>5. PICK exit \in Exit : exit = ExitOf(p)
  BY <1>2
<1>6. /\ owned' \subseteq Pids
      /\ exited' \in [Execs -> Exit \cup {None}] /\ unclaimed' \in [Pids -> Exit \cup {None}]
      /\ \A e \in Execs : exited'[e] = exited[e] \/ (e = p /\ exited'[e] = exit)
      /\ \A q \in Processes : \/ unclaimed'[PidOf[q]] \in {None, unclaimed[PidOf[q]]}
                              \/ q = p /\ unclaimed'[PidOf[q]] = exit
  <2>1. \A q \in Processes : PidOf[q] = n => q = p
    BY <1>4 DEF DistinctPids
  <2>2. CASE n \in owned
    <3>1. /\ owned' = owned \ {n} /\ unclaimed' = unclaimed
          /\ exited' = [e \in Execs |-> IF session[e] = "waiting" /\ PidOf[e] = n
                                        THEN exit ELSE exited[e]]
      BY <1>1, <1>4, <1>5, <2>2 DEF deliverExit, ExitOf
    <3>2. QED
      BY <2>1, <3>1, Kinds, PidsFit DEF ProcessesInv, ProcessesTypeOK
  <2>3. CASE n \notin owned
    <3>1. UNCHANGED <<owned, exited>>
      BY <1>4, <1>1, <2>3 DEF deliverExit
    <3>2. PICK stale : unclaimed' = [k \in Pids |-> IF k = n THEN exit
                                        ELSE IF k \in stale THEN None ELSE unclaimed[k]]
      BY <1>1, <1>4, <1>5, <2>3 DEF deliverExit, ExitOf
    <3>3. unclaimed' \in [Pids -> Exit \cup {None}]
      BY <3>2 DEF ProcessesInv, ProcessesTypeOK
    <3>4. \A q \in Processes : \/ unclaimed'[PidOf[q]] \in {None, unclaimed[PidOf[q]]}
                               \/ q = p /\ unclaimed'[PidOf[q]] = exit
      BY <2>1, <3>2, PidsFit
    <3>5. QED
      BY <3>1, <3>3, <3>4 DEF ProcessesInv, ProcessesTypeOK
  <2>4. QED
    BY <2>2, <2>3
<1>7. reaped' = reaped \/ (p = Main /\ reaped' = ExitOf(p))
  BY <1>1, Kinds DEF DistinctPids
<1>8. ProcessesTypeOK'
  BY <1>1, <1>2, <1>3, <1>6, <1>7 DEF signalVars, helperVars, streamVars, ProcessesInv, ProcessesTypeOK
<1>9. Lives'
  BY <1>1, <1>2, <1>3, Kinds DEF helperVars, ProcessesInv, Lives
<1>10. ExitsInv'
  BY <1>1, <1>2, <1>3, <1>5, <1>6, <1>7, Kinds DEF ProcessesInv, ExitsInv
<1>11. StreamsInv'
  BY <1>1, <1>3, StreamsStay DEF streamVars
<1>12. QED
  BY <1>8, <1>9, <1>10, <1>11 DEF ProcessesInv

LEMMA ReapEndsKeeps ==
    ASSUME ProcessesInv, ReapEnds PROVE ProcessesInv'
<1>1. CASE reaped # None /\ End(reaped)
  <2>1. PICK code : code = reaped
    OBVIOUS
  <2>2. code \in Exit \cup {None, Failure, BySignal} /\ code = ExitOf(Main)
    BY <1>1, <2>1 DEF ProcessesInv, ProcessesTypeOK, ExitsInv
  <2>3. End(code)
    BY <1>1, <2>1 DEF End
  <2>4. QED
    BY <2>2, <2>3, EndKeeps
<1>2. CASE ~(reaped # None /\ End(reaped))
  <2>1. /\ supervisor = "reap" /\ supervisor' = "select"
        /\ UNCHANGED <<kernelVars, streamVars, reaped, forceKill, brokerAnswered, boxExit>>
        /\ UNCHANGED <<signalVars, runnerVars, helperVars, execVars>>
    BY <1>2 DEF ReapEnds
  <2>2. ProcessesTypeOK'
    BY <2>1 DEF kernelVars, signalVars, helperVars, execVars, runnerVars, streamVars,
                ProcessesInv, ProcessesTypeOK
  <2>3. Lives'
    BY <2>1 DEF kernelVars, helperVars, execVars, ProcessesInv, Lives
  <2>4. QED
    BY <2>1, <2>2, <2>3, QuietKeeps
<1>3. QED
  BY <1>1, <1>2

LEMMA HelperAsksKeeps ==
    ASSUME ProcessesInv, HelperAsks PROVE ProcessesInv'
<1>1. /\ helper \in {"idle", "ok", "failed"} /\ helper' = "waits" /\ helperRuns < MaxHelperRuns
      /\ helperRuns' = helperRuns + 1
      /\ UNCHANGED <<kernelVars, signalVars, superVars, runnerVars, streamVars, execVars>>
  BY DEF HelperAsks
<1>2. ProcessesTypeOK'
  BY <1>1, GuestProcessesBounds DEF kernelVars, signalVars, superVars, execVars, runnerVars, streamVars,
              ProcessesInv, ProcessesTypeOK
<1>3. Lives'
  BY <1>1 DEF kernelVars, superVars, execVars, ProcessesInv, Lives
<1>4. QED
  BY <1>1, <1>2, <1>3, QuietKeeps DEF superVars

LEMMA HelperLocksKeeps ==
    ASSUME ProcessesInv, HelperLocks PROVE ProcessesInv'
<1>1. /\ helper = "waits" /\ supervisor \notin {"lock", "reap"} /\ helper' = "holds"
      /\ UNCHANGED <<kernelVars, signalVars, superVars, runnerVars, helperRuns, streamVars, execVars>>
  BY DEF HelperLocks
<1>2. ProcessesTypeOK'
  BY <1>1 DEF kernelVars, signalVars, superVars, execVars, runnerVars, streamVars,
              ProcessesInv, ProcessesTypeOK
<1>3. Lives'
  BY <1>1 DEF kernelVars, superVars, execVars, ProcessesInv, Lives
<1>4. QED
  BY <1>1, <1>2, <1>3, QuietKeeps DEF superVars

LEMMA HelperForksKeeps ==
    ASSUME ProcessesInv, HelperForks PROVE ProcessesInv'
<1>1. /\ Up /\ helper = "holds" /\ helper' = "forked" /\ Made(Helper)
      /\ UNCHANGED <<signalVars, superVars, runnerVars, helperRuns, streamVars, execVars>>
  BY DEF HelperForks
<1>2. /\ proc' \in [Processes -> {"none", "running", "zombie", "gone"}]
      /\ status' \in [Processes -> Statuses \cup {None}]
      /\ proc'[Helper] = "running" /\ status'[Helper] = None
      /\ \A q \in Processes : q # Helper => proc'[q] = proc[q] /\ status'[q] = status[q]
  BY <1>1, Kinds, MadeEffect DEF ProcessesInv
<1>3. ProcessesTypeOK'
  BY <1>1, <1>2 DEF signalVars, superVars, execVars, runnerVars, streamVars,
                    ProcessesInv, ProcessesTypeOK
<1>4. Lives'
  BY <1>1, <1>2, Kinds DEF superVars, execVars, ProcessesInv, Lives
<1>5. ExitsInv'
  <2>1. \A q \in Processes : q # Helper => ExitOf(q)' = ExitOf(q) /\ proc'[q] = proc[q]
    BY <1>2 DEF ExitOf
  <2>2. QED
    BY <1>1, <2>1, Kinds DEF superVars, execVars, runnerVars, ProcessesInv, ExitsInv
<1>6. ASSUME NEW d \in Execs PROVE StreamInv(d)'
  <2>1. StreamInv(d) /\ proc'[d] = proc[d] /\ proc'[Left[d]] = proc[Left[d]]
    BY <1>2, Kinds DEF ProcessesInv, StreamsInv
  <2>2. QED
    BY <1>1, <2>1, StreamStays DEF execVars, streamVars
<1>7. QED
  BY <1>3, <1>4, <1>5, <1>6 DEF ProcessesInv, StreamsInv

\* The helper collects its own child: the reaper was not let in meanwhile.
LEMMA HelperWaitsKeeps ==
    ASSUME ProcessesInv, HelperWaits PROVE ProcessesInv'
<1>1. /\ Up /\ helper = "forked" /\ proc[Helper] \in {"zombie", "gone"} /\ UNCHANGED status
      /\ helper' = (IF proc[Helper] = "zombie" THEN "ok" ELSE "failed")
      /\ proc' = [proc EXCEPT ![Helper] = "gone"]
      /\ UNCHANGED <<signalVars, superVars, runnerVars, helperRuns, streamVars, execVars>>
  BY DEF HelperWaits
<1>2. helper' = "ok"
  BY <1>1 DEF ProcessesInv, Lives
<1>3. /\ proc' \in [Processes -> {"none", "running", "zombie", "gone"}]
      /\ proc'[Helper] = "gone"
      /\ \A q \in Processes : q # Helper => proc'[q] = proc[q]
  BY <1>1, Kinds DEF ProcessesInv, ProcessesTypeOK
<1>4. ProcessesTypeOK'
  BY <1>1, <1>2, <1>3 DEF signalVars, superVars, execVars, runnerVars, streamVars,
                          ProcessesInv, ProcessesTypeOK
<1>5. Lives'
  BY <1>1, <1>2, <1>3, Kinds DEF superVars, execVars, ProcessesInv, Lives
<1>6. ExitsInv'
  <2>1. \A q \in Processes : ExitOf(q)' = ExitOf(q)
    BY <1>1 DEF ExitOf
  <2>2. QED
    BY <1>1, <1>3, <2>1, Kinds DEF superVars, execVars, runnerVars, ProcessesInv, ExitsInv
<1>7. StreamsInv'
  BY <1>1, <1>3, StreamsStay DEF streamVars, execVars
<1>8. QED
  BY <1>4, <1>5, <1>6, <1>7 DEF ProcessesInv

----------------------------------------------------------------------------
\* The steps of the exec sessions: what concerns one leaves the others alone.
OthersStay(e) ==
    \A d \in Execs \ {e} :
        /\ session'[d] = session[d] /\ output'[d] = output[d] /\ piped'[d] = piped[d]
        /\ written'[d] = written[d] /\ cut'[d] = cut[d] /\ connected'[d] = connected[d]
        /\ frames'[d] = frames[d]

LEMMA StreamStep ==
    ASSUME ProcessesInv, NEW e \in Execs, OthersStay(e), UNCHANGED proc, StreamInv(e)'
    PROVE  StreamsInv'
<1>1. ASSUME NEW d \in Execs, d # e PROVE StreamInv(d)'
  BY <1>1, StreamStays DEF OthersStay, ProcessesInv, StreamsInv
<1>2. QED
  BY <1>1 DEF StreamsInv

LEMMA SessionKeeps ==
    ASSUME ProcessesInv, UNCHANGED <<kernelVars, superVars, helperVars, unclaimed, exited>>,
           \A d \in Execs : session'[d] = "none" => session[d] = "none"
    PROVE  Lives' /\ ExitsInv'
<1>1. \A p \in Processes : ExitOf(p)' = ExitOf(p)
  BY DEF ExitOf, kernelVars
<1>2. QED
  BY <1>1, Kinds DEF ProcessesInv, Lives, ExitsInv, kernelVars, superVars, helperVars

LEMMA ProcessWritesKeeps ==
    ASSUME ProcessesInv, NEW e \in Execs, ProcessWrites(e)
    PROVE  ProcessesInv'
<1>1. /\ Holders(e) # {} /\ written[e] = 0 /\ ~cut[e]
      /\ written' = [written EXCEPT ![e] = 1] /\ piped' = [piped EXCEPT ![e] = 1]
      /\ UNCHANGED <<output, input, cut, connected, frames>>
      /\ UNCHANGED <<kernelVars, signalVars, superVars, runnerVars, helperVars, execVars>>
  BY DEF ProcessWrites
<1>2. StreamInv(e) /\ session[e] # "none"
  BY <1>1, HoldersEmpty, Kinds DEF ProcessesInv, StreamsInv, Lives
<1>3. /\ ProcessesTypeOK' /\ OthersStay(e) /\ written'[e] = 1 /\ piped'[e] = 1
  BY <1>1 DEF kernelVars, signalVars, superVars, execVars, runnerVars, helperVars,
              ProcessesInv, ProcessesTypeOK, OthersStay
<1>4. Lives' /\ ExitsInv'
  BY <1>1, SessionKeeps DEF runnerVars, execVars
<1>5. StreamInv(e)'
  <2>1. connected[e] => frames[e] = <<>> /\ piped[e] = 0 /\ Sending(e) = 0
    BY <1>1, <1>2 DEF StreamInv, Accounted, Sending, ProcessesInv, ProcessesTypeOK
  <2>2. Holders(e)' = Holders(e)
    BY <1>1 DEF Holders, kernelVars
  <2>3. Sending(e)' = Sending(e)
    BY <1>1 DEF Sending
  <2>4. connected[e] => Accounted(e)'
    BY <1>1, <1>3, <2>1, <2>3 DEF Accounted
  <2>5. QED
    BY <1>1, <1>2, <1>3, <2>2, <2>4 DEF StreamInv, execVars
<1>6. StreamsInv'
  BY <1>1, <1>3, <1>5, StreamStep DEF kernelVars
<1>7. QED
  BY <1>3, <1>4, <1>6 DEF ProcessesInv

LEMMA HostLeavesKeeps ==
    ASSUME ProcessesInv, NEW e \in Execs, HostLeaves(e)
    PROVE  ProcessesInv'
<1>1. /\ connected[e] /\ connected' = [connected EXCEPT ![e] = FALSE]
      /\ UNCHANGED <<output, input, piped, written, cut, frames>>
      /\ UNCHANGED <<kernelVars, signalVars, superVars, runnerVars, helperVars, execVars>>
  BY DEF HostLeaves
<1>2. StreamInv(e)
  BY DEF ProcessesInv, StreamsInv
<1>3. /\ ProcessesTypeOK' /\ OthersStay(e) /\ ~connected'[e]
  BY <1>1 DEF kernelVars, signalVars, superVars, execVars, runnerVars, helperVars,
              ProcessesInv, ProcessesTypeOK, OthersStay
<1>4. Lives' /\ ExitsInv'
  BY <1>1, SessionKeeps DEF runnerVars, execVars
<1>5. StreamInv(e)'
  BY <1>1, <1>2, <1>3 DEF StreamInv, execVars
<1>6. StreamsInv'
  BY <1>1, <1>3, <1>5, StreamStep DEF kernelVars
<1>7. QED
  BY <1>3, <1>4, <1>6 DEF ProcessesInv

LEMMA ExecFailsKeeps ==
    ASSUME ProcessesInv, NEW e \in Execs, ExecFails(e)
    PROVE  ProcessesInv'
<1>1. /\ session[e] = "none" /\ session' = [session EXCEPT ![e] = "done"]
      /\ frames' = [frames EXCEPT ![e] = <<"failure">>]
      /\ UNCHANGED <<output, input, piped, written, cut, connected, exited, finished>>
      /\ UNCHANGED <<kernelVars, signalVars, superVars, runnerVars, helperVars>>
  BY DEF ExecFails
<1>2. StreamInv(e)
  BY DEF ProcessesInv, StreamsInv
<1>3. /\ ProcessesTypeOK' /\ OthersStay(e) /\ session'[e] = "done" /\ frames'[e] = <<"failure">>
  BY <1>1 DEF kernelVars, signalVars, superVars, runnerVars, helperVars,
              ProcessesInv, ProcessesTypeOK, OthersStay
<1>4. Lives' /\ ExitsInv'
  BY <1>1, <1>3, SessionKeeps DEF runnerVars, OthersStay
<1>5. StreamInv(e)'
  BY <1>1, <1>2, <1>3 DEF StreamInv
<1>6. StreamsInv'
  BY <1>1, <1>3, <1>5, StreamStep DEF kernelVars
<1>7. QED
  BY <1>3, <1>4, <1>6 DEF ProcessesInv

\* Nothing is known of a process that begins, so an exit under its pid is its own.
LEMMA ExecForksKeeps ==
    ASSUME ProcessesInv, NEW e \in Execs, ExecForks(e)
    PROVE  ProcessesInv'
<1>1. /\ Up /\ session[e] = "none" /\ Made(e) /\ session' = [session EXCEPT ![e] = "forked"]
      /\ connected' = [connected EXCEPT ![e] = TRUE]
      /\ UNCHANGED <<exited, finished, output, input, piped, written, cut, frames>>
      /\ UNCHANGED <<signalVars, superVars, runnerVars, helperVars>>
  BY DEF ExecForks
<1>2. /\ proc' \in [Processes -> {"none", "running", "zombie", "gone"}]
      /\ status' \in [Processes -> Statuses \cup {None}]
      /\ proc'[e] = "running" /\ status'[e] = None
      /\ \A q \in Processes : q # e => proc'[q] = proc[q] /\ status'[q] = status[q]
  BY <1>1, Kinds, MadeEffect DEF ProcessesInv
<1>3. StreamInv(e) /\ proc[e] = "none"
  BY <1>1 DEF ProcessesInv, StreamsInv, Lives
<1>4. /\ ProcessesTypeOK' /\ OthersStay(e) /\ session'[e] = "forked" /\ connected'[e]
  BY <1>1, <1>2 DEF signalVars, superVars, runnerVars, helperVars,
                    ProcessesInv, ProcessesTypeOK, OthersStay
<1>5. Lives'
  BY <1>1, <1>2, <1>4, Kinds DEF superVars, helperVars, OthersStay, ProcessesInv, Lives
<1>6. ExitsInv'
  <2>1. \A q \in Processes : proc[q] = "gone" => ExitOf(q)' = ExitOf(q) /\ proc'[q] = "gone"
    BY <1>2, <1>3 DEF ExitOf
  <2>2. QED
    BY <1>1, <2>1, Kinds DEF superVars, runnerVars, ProcessesInv, ExitsInv, Up
<1>7. StreamInv(e)'
  <2>1. Sending(e)' = 0 /\ frames'[e] = <<>> /\ written'[e] = 0 /\ piped'[e] = 0
    BY <1>1, <1>3 DEF StreamInv, Sending
  <2>2. Accounted(e)'
    BY <2>1 DEF Accounted
  <2>3. QED
    BY <1>1, <1>3, <1>4, <2>1, <2>2 DEF StreamInv
<1>8. ASSUME NEW d \in Execs, d # e PROVE StreamInv(d)'
  <2>1. StreamInv(d) /\ proc'[d] = proc[d] /\ proc'[Left[d]] = proc[Left[d]]
    BY <1>2, <1>8, Kinds DEF ProcessesInv, StreamsInv
  <2>2. QED
    BY <1>4, <1>8, <2>1, StreamStays DEF OthersStay
<1>9. QED
  BY <1>4, <1>5, <1>6, <1>7, <1>8 DEF ProcessesInv, StreamsInv

\* register takes the exit that the reaper has kept, or waits for it.
LEMMA RegisterKeeps ==
    ASSUME ProcessesInv, NEW e \in Execs, Register(e)
    PROVE  ProcessesInv'
<1>1. /\ session[e] = "forked" /\ session' = [session EXCEPT ![e] = "waiting"]
      /\ output' = [output EXCEPT ![e] = "reading"] /\ input' = [input EXCEPT ![e] = "reading"]
      /\ UNCHANGED <<finished, piped, written, cut, connected, frames>>
      /\ UNCHANGED <<kernelVars, signalVars, superVars, helperVars>>
  BY DEF Register
<1>2. StreamInv(e)
  BY DEF ProcessesInv, StreamsInv
<1>3. /\ owned' \subseteq Pids /\ unclaimed' \in [Pids -> Exit \cup {None}]
      /\ exited' \in [Execs -> Exit \cup {None}]
      /\ \A n \in Pids : unclaimed'[n] \in {None, unclaimed[n]}
      /\ \A d \in Execs : exited'[d] = exited[d] \/ (d = e /\ exited'[d] = unclaimed[PidOf[e]])
  <2>1. CASE unclaimed[PidOf[e]] # None
    BY ZenonT(60), <2>1, Kinds, PidsFit DEF Register, ProcessesInv, ProcessesTypeOK
  <2>2. CASE unclaimed[PidOf[e]] = None
    BY <2>2, Kinds, PidsFit DEF Register, ProcessesInv, ProcessesTypeOK
  <2>3. QED
    BY <2>1, <2>2
<1>4. /\ ProcessesTypeOK' /\ OthersStay(e) /\ session'[e] = "waiting" /\ output'[e] = "reading"
  BY ZenonT(60), <1>1, <1>3 DEF kernelVars, signalVars, superVars, helperVars,
                    ProcessesInv, ProcessesTypeOK, OthersStay
<1>5. Lives'
  BY <1>1, <1>4 DEF kernelVars, superVars, helperVars, OthersStay, ProcessesInv, Lives
<1>6. ExitsInv'
  <2>1. \A p \in Processes : ExitOf(p)' = ExitOf(p)
    BY <1>1 DEF ExitOf, kernelVars
  <2>2. QED
    BY <1>1, <1>3, <2>1, Kinds, PidsFit DEF ProcessesInv, ExitsInv, kernelVars, superVars
<1>7. StreamInv(e)'
  <2>1. Sending(e)' = Sending(e)
    BY <1>1, <1>2, <1>4 DEF Sending, StreamInv
  <2>2. Accounted(e) => Accounted(e)'
    BY <1>1, <1>4, <2>1 DEF Accounted
  <2>3. QED
    BY <1>1, <1>2, <1>4, <2>2 DEF StreamInv
<1>8. StreamsInv'
  BY <1>1, <1>4, <1>7, StreamStep DEF kernelVars
<1>9. QED
  BY <1>4, <1>5, <1>6, <1>8 DEF ProcessesInv

LEMMA ExecExitedKeeps ==
    ASSUME ProcessesInv, NEW e \in Execs, ExecExited(e)
    PROVE  ProcessesInv'
<1>1. /\ session[e] = "waiting" /\ session' = [session EXCEPT ![e] = "draining"]
      /\ finished' = [finished EXCEPT ![e] = TRUE]
      /\ UNCHANGED <<exited, streamVars>>
      /\ UNCHANGED <<kernelVars, signalVars, superVars, runnerVars, helperVars>>
  BY DEF ExecExited
<1>2. StreamInv(e)
  BY DEF ProcessesInv, StreamsInv
<1>3. /\ ProcessesTypeOK' /\ OthersStay(e) /\ session'[e] = "draining"
  BY <1>1 DEF kernelVars, signalVars, superVars, runnerVars, helperVars, streamVars,
              ProcessesInv, ProcessesTypeOK, OthersStay
<1>4. Lives' /\ ExitsInv'
  BY <1>1, <1>3, SessionKeeps DEF runnerVars, OthersStay
<1>5. StreamInv(e)'
  <2>1. Holders(e)' = Holders(e) /\ (Accounted(e) => Accounted(e)')
    BY <1>1 DEF Holders, Accounted, Sending, kernelVars, streamVars
  <2>2. QED
    BY <1>1, <1>2, <1>3, <2>1 DEF StreamInv, streamVars
<1>6. StreamsInv'
  BY <1>1, <1>3, <1>5, StreamStep DEF kernelVars
<1>7. QED
  BY <1>3, <1>4, <1>6 DEF ProcessesInv

LEMMA DrainTimeoutKeeps ==
    ASSUME ProcessesInv, NEW e \in Execs, DrainTimeout(e)
    PROVE  ProcessesInv'
<1>1. /\ session[e] = "draining" /\ session' = [session EXCEPT ![e] = "cut"]
      /\ cut' = [cut EXCEPT ![e] = TRUE]
      /\ UNCHANGED <<output, input, piped, written, connected, frames, exited, finished>>
      /\ UNCHANGED <<kernelVars, signalVars, superVars, runnerVars, helperVars>>
  BY DEF DrainTimeout
<1>2. StreamInv(e)
  BY DEF ProcessesInv, StreamsInv
<1>3. /\ ProcessesTypeOK' /\ OthersStay(e) /\ session'[e] = "cut" /\ cut'[e]
  BY <1>1 DEF kernelVars, signalVars, superVars, runnerVars, helperVars,
              ProcessesInv, ProcessesTypeOK, OthersStay
<1>4. Lives' /\ ExitsInv'
  BY <1>1, <1>3, SessionKeeps DEF runnerVars, OthersStay
<1>5. StreamInv(e)'
  <2>1. Accounted(e) => Accounted(e)'
    BY <1>1 DEF Accounted, Sending
  <2>2. QED
    BY <1>1, <1>2, <1>3, <2>1 DEF StreamInv
<1>6. StreamsInv'
  BY <1>1, <1>3, <1>5, StreamStep DEF kernelVars
<1>7. QED
  BY <1>3, <1>4, <1>6 DEF ProcessesInv

LEMMA OutThenExit == Append(<<"out">>, "exit") = <<"out", "exit">>
<1>1. <<"out">> \in Seq({"out", "exit", "failure"})
  OBVIOUS
<1>2. Len(<<"out">>) = 1
  OBVIOUS
<1>3. <<"out">>[1] = "out"
  OBVIOUS
<1>4. PICK o : o = <<"out">>
  OBVIOUS
<1>5. /\ Append(o, "exit") \in Seq({"out", "exit", "failure"}) /\ Len(Append(o, "exit")) = 2
      /\ Append(o, "exit")[1] = "out" /\ Append(o, "exit")[2] = "exit"
  BY <1>1, <1>2, <1>3, <1>4, AppendProperties
<1>6. PICK s \in Seq({"out", "exit", "failure"}) :
        s = Append(o, "exit") /\ Len(s) = 2 /\ s[1] = "out" /\ s[2] = "exit"
  BY <1>5
<1>7. <<"out", "exit">> \in Seq({"out", "exit", "failure"})
  OBVIOUS
<1>8. Len(<<"out", "exit">>) = 2
  OBVIOUS
<1>9. <<"out", "exit">>[1] = "out" /\ <<"out", "exit">>[2] = "exit"
  OBVIOUS
<1>10. PICK t \in Seq({"out", "exit", "failure"}) : t = <<"out", "exit">>
  BY <1>7
<1>11. Len(t) = 2 /\ t[1] = "out" /\ t[2] = "exit"
  BY <1>8, <1>9, <1>10
<1>12. \A i \in 1 .. Len(s) : s[i] = t[i]
  BY <1>6, <1>11
<1>13. s = t
  BY <1>6, <1>11, <1>12, SeqEqual
<1>14. QED
  BY <1>4, <1>6, <1>10, <1>13

LEMMA AppendFrames ==
    /\ Append(<<>>, "out") = <<"out">> /\ Append(<<>>, "exit") = <<"exit">>
    /\ Append(<<"out">>, "exit") = <<"out", "exit">>
    /\ <<>> \in Seq({"out", "exit", "failure"})
    /\ <<"out">> \in Seq({"out", "exit", "failure"}) /\ <<"exit">> \in Seq({"out", "exit", "failure"})
    /\ <<"out", "exit">> \in Seq({"out", "exit", "failure"})
<1>1. Append(<<>>, "out") = <<"out">>
  OBVIOUS
<1>2. Append(<<>>, "exit") = <<"exit">>
  OBVIOUS
<1>3. <<>> \in Seq({"out", "exit", "failure"})
  OBVIOUS
<1>4. <<"out">> \in Seq({"out", "exit", "failure"})
  OBVIOUS
<1>5. <<"exit">> \in Seq({"out", "exit", "failure"})
  OBVIOUS
<1>6. <<"out", "exit">> \in Seq({"out", "exit", "failure"})
  OBVIOUS
<1>7. QED
  BY <1>1, <1>2, <1>3, <1>4, <1>5, <1>6, OutThenExit

\* When the exit goes to a host that listens, all else has gone, or is in a
\* pipe that was cut.
LEMMA SendExitKeeps ==
    ASSUME ProcessesInv, NEW e \in Execs, SendExit(e)
    PROVE  ProcessesInv'
<1>1. /\ session[e] \in {"draining", "cut"} /\ output[e] = "done"
      /\ session' = [session EXCEPT ![e] = "done"] /\ frames' = Sent(e, "exit")
      /\ cut' = [cut EXCEPT ![e] = TRUE] /\ connected' = [connected EXCEPT ![e] = FALSE]
      /\ UNCHANGED <<output, input, piped, written, exited, finished>>
      /\ UNCHANGED <<kernelVars, signalVars, superVars, runnerVars, helperVars>>
  BY DEF SendExit, Drained
<1>2. StreamInv(e)
  BY DEF ProcessesInv, StreamsInv
<1>3. frames[e] \in {<<>>, <<"out">>}
  BY <1>1, <1>2 DEF StreamInv
<1>4. PICK f \in {<<>>, <<"out">>, <<"exit">>, <<"out", "exit">>} :
        /\ frames' = [frames EXCEPT ![e] = f]
        /\ \/ ~connected[e] /\ f = frames[e]
           \/ connected[e] /\ frames[e] = <<>> /\ f = <<"exit">>
           \/ connected[e] /\ frames[e] = <<"out">> /\ f = <<"out", "exit">>
  <2>1. CASE connected[e]
    BY <1>1, <1>3, <2>1, AppendFrames DEF Sent, ProcessesInv, ProcessesTypeOK
  <2>2. CASE ~connected[e]
    BY <1>1, <1>3, <2>2 DEF Sent, ProcessesInv, ProcessesTypeOK
  <2>3. QED
    BY <2>1, <2>2
<1>5. f \in Seq({"out", "exit", "failure"})
  BY <1>4, AppendFrames
<1>6. /\ ProcessesTypeOK' /\ OthersStay(e) /\ session'[e] = "done" /\ cut'[e] /\ ~connected'[e]
      /\ frames'[e] = f
  <2>1. /\ frames' \in [Execs -> Seq({"out", "exit", "failure"})] /\ frames'[e] = f
        /\ \A d \in Execs \ {e} : frames'[d] = frames[d]
    BY <1>4, <1>5 DEF ProcessesInv, ProcessesTypeOK
  <2>2. QED
    BY <1>1, <2>1 DEF kernelVars, signalVars, superVars, runnerVars, helperVars,
                      ProcessesInv, ProcessesTypeOK, OthersStay
<1>7. Lives' /\ ExitsInv'
  BY <1>1, <1>6, SessionKeeps DEF runnerVars, OthersStay
<1>8. StreamInv(e)'
  <2>1. /\ <<>> \notin {<<"exit">>, <<"out", "exit">>} /\ <<"out">> \notin {<<"exit">>, <<"out", "exit">>}
        /\ <<"out", "exit">> # <<"exit">> /\ <<>> # <<"out">>
    OBVIOUS
  <2>2. connected[e] => Sending(e) = 0
    BY <1>1 DEF Sending
  <2>3. f = <<"exit">> => piped'[e] > 0 \/ written'[e] = 0
    BY <1>1, <1>2, <1>3, <1>4, <2>1, <2>2 DEF StreamInv, Accounted, ProcessesInv, ProcessesTypeOK
  <2>4. f = <<"out", "exit">> => piped'[e] > 0 \/ written'[e] = 1
    BY <1>1, <1>2, <1>3, <1>4, <2>1, <2>2 DEF StreamInv, Accounted, ProcessesInv, ProcessesTypeOK
  <2>5. QED
    BY <1>1, <1>4, <1>6, <2>1, <2>3, <2>4 DEF StreamInv
<1>9. StreamsInv'
  BY <1>1, <1>6, <1>8, StreamStep DEF kernelVars
<1>10. QED
  BY <1>6, <1>7, <1>9 DEF ProcessesInv

LEMMA ReadOutputKeeps ==
    ASSUME ProcessesInv, NEW e \in Execs, ReadOutput(e)
    PROVE  ProcessesInv'
<1>1. /\ output[e] = "reading"
      /\ UNCHANGED <<input, written, cut, connected, frames>>
      /\ UNCHANGED <<kernelVars, signalVars, superVars, runnerVars, helperVars, execVars>>
  BY DEF ReadOutput
<1>2. \/ /\ piped[e] > 0 /\ piped' = [piped EXCEPT ![e] = piped[e] - 1]
         /\ output' = [output EXCEPT ![e] = "sending"]
      \/ /\ cut[e] \/ (piped[e] = 0 /\ Holders(e) = {})
         /\ output' = [output EXCEPT ![e] = "done"] /\ UNCHANGED piped
  BY DEF ReadOutput
<1>3. StreamInv(e) /\ piped[e] \in 0 .. 1 /\ written[e] \in 0 .. 1
  BY DEF ProcessesInv, ProcessesTypeOK, StreamsInv
<1>4. /\ piped' \in [Execs -> 0 .. 1]
      /\ output' \in [Execs -> {"off", "reading", "sending", "done"}]
      /\ \A d \in Execs \ {e} : piped'[d] = piped[d] /\ output'[d] = output[d]
      /\ \/ piped[e] = 1 /\ piped'[e] = 0 /\ output'[e] = "sending"
         \/ piped'[e] = piped[e] /\ output'[e] = "done" /\ (cut[e] \/ (piped[e] = 0 /\ Holders(e) = {}))
  <2>1. CASE /\ piped[e] > 0 /\ piped' = [piped EXCEPT ![e] = piped[e] - 1]
             /\ output' = [output EXCEPT ![e] = "sending"]
    <3>1. PICK less : less = piped[e] - 1 /\ piped' = [piped EXCEPT ![e] = less]
      BY <2>1
    <3>2. piped[e] = 1 /\ less = 0
      BY <1>3, <2>1, <3>1
    <3>3. QED
      BY <2>1, <3>1, <3>2 DEF ProcessesInv, ProcessesTypeOK
  <2>2. CASE /\ cut[e] \/ (piped[e] = 0 /\ Holders(e) = {})
             /\ output' = [output EXCEPT ![e] = "done"] /\ UNCHANGED piped
    BY <2>2 DEF ProcessesInv, ProcessesTypeOK
  <2>3. QED
    BY <1>2, <2>1, <2>2
<1>5. ProcessesTypeOK' /\ OthersStay(e)
  BY <1>1, <1>4 DEF kernelVars, signalVars, superVars, runnerVars, helperVars, execVars,
                    ProcessesInv, ProcessesTypeOK, OthersStay
<1>6. Lives' /\ ExitsInv'
  BY <1>1, SessionKeeps DEF runnerVars, execVars
<1>7. StreamInv(e)'
  <2>1. Holders(e)' = Holders(e)
    BY <1>1 DEF Holders, kernelVars
  <2>2. Accounted(e) => Accounted(e)'
    BY <1>1, <1>3, <1>4 DEF Accounted, Sending
  <2>3. QED
    BY <1>1, <1>3, <1>4, <2>1, <2>2 DEF StreamInv, execVars
<1>8. StreamsInv'
  BY <1>1, <1>5, <1>7, StreamStep DEF kernelVars
<1>9. QED
  BY <1>5, <1>6, <1>8 DEF ProcessesInv

LEMMA SendOutputKeeps ==
    ASSUME ProcessesInv, NEW e \in Execs, SendOutput(e)
    PROVE  ProcessesInv'
<1>1. /\ output[e] = "sending" /\ frames' = Sent(e, "out")
      /\ output' = [output EXCEPT ![e] = IF connected[e] THEN "reading" ELSE "done"]
      /\ UNCHANGED <<input, piped, written, cut, connected>>
      /\ UNCHANGED <<kernelVars, signalVars, superVars, runnerVars, helperVars, execVars>>
  BY DEF SendOutput
<1>2. StreamInv(e) /\ piped[e] \in 0 .. 1 /\ written[e] \in 0 .. 1
  BY DEF ProcessesInv, ProcessesTypeOK, StreamsInv
<1>3. connected[e] => frames[e] = <<>> /\ written[e] = 1 /\ piped[e] = 0
  BY <1>1, <1>2 DEF StreamInv, Accounted, Sending
<1>4. PICK f \in Seq({"out", "exit", "failure"}) :
        /\ frames' = [frames EXCEPT ![e] = f]
        /\ IF connected[e] THEN f = <<"out">> ELSE f = frames[e]
  <2>1. CASE connected[e]
    BY <1>1, <1>3, <2>1, AppendFrames DEF Sent, ProcessesInv, ProcessesTypeOK
  <2>2. CASE ~connected[e]
    BY <1>1, <2>2 DEF Sent, ProcessesInv, ProcessesTypeOK
  <2>3. QED
    BY <2>1, <2>2
<1>5. /\ ProcessesTypeOK' /\ OthersStay(e) /\ frames'[e] = f
      /\ output'[e] = (IF connected[e] THEN "reading" ELSE "done")
  <2>1. /\ frames' \in [Execs -> Seq({"out", "exit", "failure"})] /\ frames'[e] = f
        /\ \A d \in Execs \ {e} : frames'[d] = frames[d]
    BY <1>4 DEF ProcessesInv, ProcessesTypeOK
  <2>2. /\ output' \in [Execs -> {"off", "reading", "sending", "done"}]
        /\ output'[e] = (IF connected[e] THEN "reading" ELSE "done")
        /\ \A d \in Execs \ {e} : output'[d] = output[d]
    BY <1>1 DEF ProcessesInv, ProcessesTypeOK
  <2>3. QED
    BY <1>1, <2>1, <2>2 DEF kernelVars, signalVars, superVars, runnerVars, helperVars, execVars,
                            ProcessesInv, ProcessesTypeOK, OthersStay
<1>6. Lives' /\ ExitsInv'
  BY <1>1, SessionKeeps DEF runnerVars, execVars
<1>7. StreamInv(e)'
  <2>1. connected[e] => Accounted(e)'
    BY <1>1, <1>3, <1>4, <1>5 DEF Accounted
  <2>2. <<"out">> \notin {<<"exit">>, <<"out", "exit">>}
    OBVIOUS
  <2>3. QED
    BY <1>1, <1>2, <1>4, <1>5, <2>1, <2>2 DEF StreamInv, execVars
<1>8. StreamsInv'
  BY <1>1, <1>5, <1>7, StreamStep DEF kernelVars
<1>9. QED
  BY <1>5, <1>6, <1>8 DEF ProcessesInv

LEMMA InputEndsKeeps ==
    ASSUME ProcessesInv, NEW e \in Execs, InputEnds(e)
    PROVE  ProcessesInv'
<1>1. /\ Up /\ input' = [input EXCEPT ![e] = "done"]
      /\ UNCHANGED <<output, piped, written, cut, connected, frames, stops>>
      /\ UNCHANGED <<superVars, runnerVars, helperVars, execVars>>
  BY DEF InputEnds
<1>2. input' \in [Execs -> {"off", "reading", "done"}]
  BY <1>1 DEF ProcessesInv, ProcessesTypeOK
<1>3. /\ proc' \in [Processes -> {"none", "running", "zombie", "gone"}]
      /\ status' \in [Processes -> Statuses \cup {None}]
      /\ signals' \in Seq({"CHLD", "TERM", "INT"}) /\ Len(signals') <= SignalCapacity
      /\ \A p \in Processes : proc'[p] = "running" => proc[p] = "running"
      /\ Lives' /\ ExitsInv'
  <2>1. CASE UNCHANGED <<kernelVars, signals>>
    <3>1. Lives' /\ ExitsInv'
      BY <1>1, <2>1, SessionKeeps DEF runnerVars, execVars
    <3>2. QED
      BY <2>1, <3>1 DEF kernelVars, ProcessesInv, ProcessesTypeOK
  <2>2. CASE ~UNCHANGED <<kernelVars, signals>>
    <3>1. PICK S : /\ S = UNION {Holders(x) : x \in {y \in Execs : PidOf[y] = PidOf[e]}}
                   /\ Ended(S, "killed", signals)
      BY <2>2 DEF InputEnds
    <3>2. S \in SUBSET Processes /\ "killed" \in Statuses
      BY <3>1, Kinds DEF Holders, Statuses
    <3>3. UNCHANGED <<brokerAnswered, helper, supervisor, session, unclaimed, exited, reaped, boxExit>>
      BY <1>1 DEF superVars, helperVars, execVars, runnerVars
    <3>4. signals \in Seq({"CHLD", "TERM", "INT"}) /\ Len(signals) <= SignalCapacity
      BY DEF ProcessesInv, ProcessesTypeOK
    <3>5. QED
      BY <1>1, <3>1, <3>2, <3>3, <3>4, EndingKeeps
  <2>3. QED
    BY <2>1, <2>2
<1>4. ProcessesTypeOK'
  BY <1>1, <1>2, <1>3 DEF superVars, helperVars, execVars, runnerVars, ProcessesInv, ProcessesTypeOK
<1>5. StreamsInv'
  BY <1>1, <1>3, StreamsStay DEF execVars
<1>6. QED
  BY <1>3, <1>4, <1>5 DEF ProcessesInv

LEMMA ProcessesStep ==
    ASSUME DistinctPids, ProcessesInv, [ProcessesNext]_processVars
    PROVE  ProcessesInv'
<1>1. CASE UNCHANGED processVars
  <2>1. ProcessesTypeOK'
    BY <1>1 DEF processVars, kernelVars, signalVars, superVars, runnerVars, helperVars, streamVars, execVars,
                ProcessesInv, ProcessesTypeOK
  <2>2. Lives' /\ ExitsInv'
    BY <1>1, SessionKeeps DEF processVars, execVars, runnerVars
  <2>3. StreamsInv'
    BY <1>1, StreamsStay DEF processVars, kernelVars, execVars, streamVars
  <2>4. QED
    BY <2>1, <2>2, <2>3 DEF ProcessesInv
<1>2. CASE Supervise
  BY <1>2, BootKeeps, StartMainKeeps, TakeChildKeeps, TakeStopKeeps, ForceKillKeeps, LockReaperKeeps,
     ReapEndsKeeps, ReapKeeps DEF Supervise
<1>3. CASE RunHelper \/ HelperAsks
  BY <1>3, HelperLocksKeeps, HelperForksKeeps, HelperWaitsKeeps, HelperAsksKeeps DEF RunHelper
<1>4. CASE CloseFirstAnswer \/ Fatal
  BY <1>4, CloseFirstAnswerKeeps, FailureEnds DEF Fatal
<1>5. CASE \/ \E p \in Processes : ProcessEnds(p)
           \/ \E s \in {"TERM", "INT"} : Signalled(s)
  BY <1>5, ProcessEndsKeeps, SignalledKeeps
<1>6. ASSUME NEW e \in Execs, ServeExec(e) PROVE ProcessesInv'
  BY <1>6, RegisterKeeps, ExecExitedKeeps, DrainTimeoutKeeps, SendExitKeeps DEF ServeExec
<1>7. ASSUME NEW e \in Execs,
             \/ CopyOutput(e) \/ InputEnds(e) \/ ExecForks(e) \/ ExecFails(e)
             \/ HostLeaves(e) \/ LeavesRunning(e) \/ ProcessWrites(e)
      PROVE ProcessesInv'
  BY <1>7, ReadOutputKeeps, SendOutputKeeps, InputEndsKeeps, ExecForksKeeps, ExecFailsKeeps,
     HostLeavesKeeps, LeavesRunningKeeps, ProcessWritesKeeps DEF CopyOutput
<1>8. QED
  BY <1>1, <1>2, <1>3, <1>4, <1>5, <1>6, <1>7 DEF ProcessesNext

LEMMA ProcessesStart == ProcessesInit => ProcessesInv
<1> SUFFICES ASSUME ProcessesInit PROVE ProcessesInv
  OBVIOUS
<1>1. <<>> \in Seq({"CHLD", "TERM", "INT"}) /\ Len(<<>>) = 0 /\ <<>> \in Seq({"out", "exit", "failure"})
  OBVIOUS
<1>2. ProcessesTypeOK
  BY <1>1, GuestProcessesBounds DEF ProcessesInit, ProcessesTypeOK
<1>3. Lives /\ ExitsInv
  BY Kinds, PidsFit DEF ProcessesInit, Lives, ExitsInv
<1>4. ASSUME NEW e \in Execs PROVE StreamInv(e)
  BY DEF ProcessesInit, StreamInv
<1>5. QED
  BY <1>2, <1>3, <1>4 DEF ProcessesInv, StreamsInv

LEMMA ProcessesInvariant ==
    ASSUME DistinctPids
    PROVE  ProcessesSpec => []ProcessesInv
<1>1. ProcessesInv /\ [ProcessesNext]_processVars => ProcessesInv'
  BY ProcessesStep
<1>2. QED
  BY <1>1, ProcessesStart, PTL DEF ProcessesSpec

\* The number of frames of output that came before the exit.
LEMMA OutputCounted ==
    ASSUME NEW f \in {<<"exit">>, <<"out", "exit">>}, NEW i \in DOMAIN f, f[i] = "exit"
    PROVE  /\ i = Len(f)
           /\ Cardinality({k \in DOMAIN f : f[k] = "out"}) = (IF f = <<"exit">> THEN 0 ELSE 1)
<1>1. CASE f = <<"exit">>
  <2>1. DOMAIN f = {1} /\ Len(f) = 1 /\ f[1] = "exit"
    BY <1>1
  <2>2. {k \in DOMAIN f : f[k] = "out"} = {}
    BY <2>1
  <2>3. QED
    BY <1>1, <2>1, <2>2, FS_EmptySet
<1>2. CASE f = <<"out", "exit">>
  <2>1. DOMAIN f = {1, 2} /\ Len(f) = 2 /\ f[1] = "out" /\ f[2] = "exit"
    BY <1>2
  <2>2. {k \in DOMAIN f : f[k] = "out"} = {1}
    BY <2>1
  <2>3. f # <<"exit">>
    BY <2>1
  <2>4. QED
    BY <2>1, <2>2, <2>3, FS_Singleton
<1>3. QED
  BY <1>1, <1>2

(* Every exit reaches the one that started the process: the host gets that of *)
(* its own command after all of the output that was not cut off, the box      *)
(* ends with that of its command, and a helper never loses its own to the     *)
(* reaper (commandRunner). The kernel must not give a pid again while somebody *)
(* still has to do with the process that had it.                              *)
THEOREM ExitsAlwaysReachTheirOwners ==
    ASSUME DistinctPids
    PROVE  ProcessesSpec => []ExitsReachTheirOwners
<1>1. ASSUME ProcessesInv PROVE OutputBeforeExit
  <2>1. ASSUME NEW e \in Execs, NEW i \in DOMAIN frames[e], frames[e][i] = "exit"
        PROVE  /\ i = Len(frames[e]) /\ output[e] = "done"
               /\ \/ piped[e] > 0 /\ cut[e]
                  \/ written[e] = Cardinality({k \in DOMAIN frames[e] : frames[e][k] = "out"})
    <3>1. StreamInv(e)
      BY <1>1 DEF ProcessesInv, StreamsInv
    <3>2. PICK f : f = frames[e]
      OBVIOUS
    <3>3. f \in {<<"exit">>, <<"out", "exit">>}
      <4>1. f # <<>>
        BY <2>1, <3>2
      <4>2. \A k \in DOMAIN <<"out">> : <<"out">>[k] = "out"
        OBVIOUS
      <4>3. \A k \in DOMAIN <<"failure">> : <<"failure">>[k] = "failure"
        OBVIOUS
      <4>4. f # <<"out">> /\ f # <<"failure">>
        BY <2>1, <3>2, <4>2, <4>3
      <4>5. QED
        BY <3>1, <3>2, <4>1, <4>4 DEF StreamInv
    <3>4. /\ i = Len(f)
          /\ Cardinality({k \in DOMAIN f : f[k] = "out"}) = (IF f = <<"exit">> THEN 0 ELSE 1)
      BY <2>1, <3>2, <3>3, OutputCounted
    <3>5. /\ output[e] = "done" /\ cut[e]
          /\ piped[e] > 0 \/ written[e] = (IF f = <<"exit">> THEN 0 ELSE 1)
      BY <3>1, <3>2, <3>3 DEF StreamInv
    <3>6. QED
      BY <3>2, <3>4, <3>5
  <2>2. ASSUME NEW e \in Execs, session[e] = "draining", connected[e], output[e] = "done"
        PROVE  piped[e] = 0
    BY <1>1, <2>2 DEF ProcessesInv, StreamsInv, StreamInv
  <2>3. QED
    BY <2>1, <2>2 DEF OutputBeforeExit
<1>2. ProcessesInv => ExitsReachTheirOwners
  BY <1>1 DEF ProcessesInv, Lives, ExitsInv, ExitOf, ExitsReachTheirOwners
<1>3. QED
  BY <1>2, ProcessesInvariant, PTL
============================================================================

---------------------------- MODULE GuestNetwork ----------------------------
(* The network of a box inside prison-guest.  The resolver gives an allowed  *)
(* name a loopback address of its own, the tunnel finds the name again when  *)
(* a program connects to that address, asks the broker for the name and      *)
(* copies bytes.  The refresher keeps the list of allowed names in line with *)
(* the broker.                                                               *)
EXTENDS Naturals

CONSTANTS
    Programs,      \* programs of the box, each with one connection at a time
    Names,         \* names outside of the zone of the broker
    ZoneNames,     \* names of the zone, allowed without the list
    Ports,
    Lists,         \* the lists that the broker may hold, sets of <<name, port>>
    PoolSize,      \* sentinel addresses
    IdleTicks,     \* ticks of tunnelIdleTimeout
    MaxChunks,     \* pieces that a connection carries
    MaxChanges,    \* changes of the broker's list
    MaxRestarts,   \* restarts of the box
    Unparsable,    \* a list that is not one
    Nobody

ASSUME GuestNetworkBounds ==
    PoolSize \in Nat /\ IdleTicks \in Nat /\ MaxChunks \in Nat /\ Nobody \notin Names \cup ZoneNames

VARIABLES
    addressByName,   \* the sentinel of a name, 0 when it has none
    nameByAddress,
    nextOffset,
    allowList,       \* allowListHolder
    refresher,       \* where brokerRefresher.run is
    firstAnswer,     \* the channel that releases the command of the box
    brokerList, brokerUp,
    tunnel,          \* the connection of each program
    changes, restarts

sentinelVars == <<addressByName, nameByAddress, nextOffset>>
brokerVars == <<brokerList, brokerUp, changes>>
refreshVars == <<refresher, allowList, firstAnswer>>
networkVars == <<sentinelVars, refreshVars, brokerVars, tunnel, restarts>>

Addresses == 1 .. PoolSize
AllNames == Names \cup ZoneNames
Sides == {"client", "upstream"}

Idle == [pc |-> "idle", asked |-> Nobody, address |-> 0, port |-> 0, name |-> Nobody,
         copying |-> {}, deadline |-> [s \in Sides |-> 0],
         quiet |-> 0, chunks |-> 0, timedOut |-> FALSE]

NetworkTypeOK ==
    /\ addressByName \in [AllNames -> 0 .. PoolSize]
    /\ nameByAddress \in [Addresses -> AllNames \cup {Nobody}]
    /\ nextOffset \in 0 .. PoolSize
    /\ allowList \in Lists \cup {{}}
    /\ refresher \in {"stopped", "hosts", "retry", "sleep"}
    /\ brokerList \in Lists \cup {Unparsable}
    /\ firstAnswer \in BOOLEAN /\ brokerUp \in BOOLEAN
    /\ \A p \in Programs :
         /\ tunnel[p].pc \in {"idle", "resolved", "refused", "accepted", "dialling", "spliced", "closed"}
         /\ tunnel[p].copying \subseteq Sides
         /\ tunnel[p].quiet \in 0 .. IdleTicks /\ tunnel[p].chunks \in 0 .. MaxChunks

NetworkInit ==
    /\ addressByName = [n \in AllNames |-> 0]
    /\ nameByAddress = [a \in Addresses |-> Nobody]
    /\ nextOffset = 0
    /\ allowList = {} /\ refresher = "stopped" /\ firstAnswer = FALSE
    /\ brokerList \in Lists /\ brokerUp \in BOOLEAN
    /\ tunnel = [p \in Programs |-> Idle]
    /\ changes = 0 /\ restarts = 0

-----------------------------------------------------------------------------
(* The sentinel addresses and the resolver. *)

AllocateInTurn(name) ==
    LET next == (nextOffset % PoolSize) + 1 IN
    IF addressByName[name] # 0
    THEN UNCHANGED sentinelVars
    ELSE /\ nextOffset' = next
         /\ addressByName' = [n \in AllNames |-> IF n = name THEN next
                                ELSE IF addressByName[n] = next THEN 0 ELSE addressByName[n]]
         /\ nameByAddress' = [nameByAddress EXCEPT ![next] = name]

\* A name keeps its address.  An address is never given to a second name: when
\* there is none left, new names have no answer.
Allocate(name) ==
    IF addressByName[name] # 0 \/ nextOffset = PoolSize
    THEN UNCHANGED sentinelVars
    ELSE /\ nextOffset' = nextOffset + 1
         /\ addressByName' = [addressByName EXCEPT ![name] = nextOffset + 1]
         /\ nameByAddress' = [nameByAddress EXCEPT ![nextOffset + 1] = name]

HostMatches(name) == \E port \in Ports : <<name, port>> \in allowList
resolves(name) == name \in ZoneNames \/ HostMatches(name)

\* answer: a program asks for the address of a name.
Resolve(p, name) ==
    /\ refresher # "stopped" /\ tunnel[p].pc \in {"idle", "refused", "closed"}
    /\ \/ /\ resolves(name)
          /\ Allocate(name)
          /\ tunnel' = [tunnel EXCEPT ![p] =
                IF addressByName'[name] # 0
                THEN [Idle EXCEPT !.pc = "resolved", !.asked = name, !.address = addressByName'[name]]
                ELSE [Idle EXCEPT !.pc = "refused"]]
       \/ /\ ~resolves(name)
          /\ tunnel' = [tunnel EXCEPT ![p] = [Idle EXCEPT !.pc = "refused"]]
          /\ UNCHANGED sentinelVars
    /\ UNCHANGED <<refreshVars, brokerVars, restarts>>

\* Another program of the box resolves a name.
ResolveElsewhere(name) ==
    /\ refresher # "stopped" /\ resolves(name) /\ addressByName[name] = 0
    /\ Allocate(name)
    /\ UNCHANGED <<refreshVars, brokerVars, tunnel, restarts>>

-----------------------------------------------------------------------------
(* The tunnel. *)

\* A program connects to the address that it was given, soon or late, and
\* handle finds the name of the address.
Accept(p, port) ==
    /\ tunnel[p].pc = "resolved"
    /\ LET name == nameByAddress[tunnel[p].address] IN
       tunnel' = [tunnel EXCEPT ![p].pc = IF name = Nobody THEN "closed" ELSE "accepted",
                                ![p].port = port, ![p].name = name]
    /\ UNCHANGED <<sentinelVars, refreshVars, brokerVars, restarts>>

permits(name, port) == name \in ZoneNames \/ <<name, port>> \in allowList

Permit(p) ==
    /\ tunnel[p].pc = "accepted"
    /\ tunnel' = [tunnel EXCEPT ![p].pc =
                    IF permits(tunnel[p].name, tunnel[p].port) THEN "dialling" ELSE "closed"]
    /\ UNCHANGED <<sentinelVars, refreshVars, brokerVars, restarts>>

\* The broker decides by its own list when it reads the CONNECT request.
BrokerAccepts(name, port) ==
    /\ brokerUp
    /\ name \in ZoneNames \/ (brokerList # Unparsable /\ <<name, port>> \in brokerList)

\* A connection that was accepted can still fail: the broker may be gone, and
\* the host of the name may not answer.
Connect(p) ==
    /\ tunnel[p].pc = "dialling"
    /\ \/ /\ BrokerAccepts(tunnel[p].name, tunnel[p].port)
          /\ tunnel' = [tunnel EXCEPT ![p].pc = "spliced", ![p].copying = Sides,
                                      ![p].deadline = [s \in Sides |-> IdleTicks]]
       \/ tunnel' = [tunnel EXCEPT ![p].pc = "closed"]
    /\ UNCHANGED <<sentinelVars, refreshVars, brokerVars, restarts>>

TouchesSource(conn, side) == [conn EXCEPT !.deadline[side] = IdleTicks, !.quiet = 0, !.chunks = @ + 1]

\* touch: a piece from one side extends the deadlines of both.
Touches(conn, side) ==
    [conn EXCEPT !.deadline = [s \in Sides |-> IdleTicks], !.quiet = 0, !.chunks = @ + 1]

Copy(p, side) ==
    /\ tunnel[p].pc = "spliced" /\ side \in tunnel[p].copying
    /\ tunnel[p].chunks < MaxChunks /\ tunnel[p].deadline[side] > 0
    /\ tunnel' = [tunnel EXCEPT ![p] = Touches(@, side)]
    /\ UNCHANGED <<sentinelVars, refreshVars, brokerVars, restarts>>

\* The splice ends when no direction copies any more.
Settled(conn) == IF conn.copying = {} THEN [conn EXCEPT !.pc = "closed"] ELSE conn

\* End of the stream of one side: the other direction goes on.
EndOfStream(p, side) ==
    /\ tunnel[p].pc = "spliced" /\ side \in tunnel[p].copying
    /\ tunnel' = [tunnel EXCEPT ![p] = Settled([tunnel[p] EXCEPT !.copying = @ \ {side}])]
    /\ UNCHANGED <<sentinelVars, refreshVars, brokerVars, restarts>>

\* An error of one direction closes both ends, so the opposite one ends too.
Broken(conn) == [conn EXCEPT !.copying = {}, !.pc = "closed"]

ConnectionError(p, side) ==
    /\ tunnel[p].pc = "spliced" /\ side \in tunnel[p].copying
    /\ tunnel' = [tunnel EXCEPT ![p] = Broken(@)]
    /\ UNCHANGED <<sentinelVars, refreshVars, brokerVars, restarts>>

DeadlinePasses(p, side) ==
    /\ tunnel[p].pc = "spliced" /\ side \in tunnel[p].copying
    /\ tunnel[p].deadline[side] = 0
    /\ tunnel' = [tunnel EXCEPT ![p] = [Broken(@) EXCEPT !.timedOut = TRUE]]
    /\ UNCHANGED <<sentinelVars, refreshVars, brokerVars, restarts>>

Tick(p) ==
    /\ tunnel[p].pc = "spliced"
    /\ \A s \in tunnel[p].copying : tunnel[p].deadline[s] > 0
    /\ tunnel' = [tunnel EXCEPT ![p].deadline = [s \in Sides |-> IF @[s] > 0 THEN @[s] - 1 ELSE 0],
                                ![p].quiet = @ + 1]
    /\ UNCHANGED <<sentinelVars, refreshVars, brokerVars, restarts>>

-----------------------------------------------------------------------------
(* The refresher. *)

ReplaceOnce(list) ==
    /\ allowList' = IF list \in {Unparsable, {}} \/ allowList # {} THEN allowList ELSE list
    /\ refresher' = "sleep" /\ firstAnswer' = TRUE

\* A list that does not parse, or that is empty, is an answer all the same and
\* leaves the last good list in place.  The first answer releases the command
\* of the box.
Replace(list) ==
    /\ allowList' = IF list \in {Unparsable, {}} THEN allowList ELSE list
    /\ refresher' = "sleep" /\ firstAnswer' = TRUE

refreshHosts ==
    /\ refresher = "hosts"
    /\ \/ /\ brokerUp
          /\ Replace(brokerList)
       \/ /\ ~brokerUp
          /\ refresher' = IF firstAnswer THEN "sleep" ELSE "retry"
          /\ UNCHANGED <<allowList, firstAnswer>>
    /\ UNCHANGED <<sentinelVars, brokerVars, tunnel, restarts>>

\* The wait for the broker goes on, or has lasted long enough.
Retry ==
    /\ refresher = "retry"
    /\ \/ refresher' = "hosts" /\ UNCHANGED firstAnswer
       \/ refresher' = "sleep" /\ firstAnswer' = TRUE
    /\ UNCHANGED <<allowList, sentinelVars, brokerVars, tunnel, restarts>>

WakeUp ==
    /\ refresher = "sleep"
    /\ refresher' = "hosts"
    /\ UNCHANGED <<firstAnswer, allowList, sentinelVars, brokerVars, tunnel, restarts>>

-----------------------------------------------------------------------------
(* The broker and the box. *)

BrokerChanges ==
    /\ changes < MaxChanges
    /\ changes' = changes + 1
    /\ brokerList' \in Lists \cup {Unparsable}
    /\ brokerUp' \in BOOLEAN
    /\ UNCHANGED <<sentinelVars, refreshVars, tunnel, restarts>>

BoxStarts ==
    /\ refresher = "stopped"
    /\ refresher' = "hosts"
    /\ UNCHANGED <<allowList, firstAnswer, sentinelVars, brokerVars, tunnel, restarts>>

\* The box stops: nothing of this is on its disk.
BoxStops ==
    /\ refresher # "stopped" /\ restarts < MaxRestarts
    /\ restarts' = restarts + 1
    /\ addressByName' = [n \in AllNames |-> 0]
    /\ nameByAddress' = [a \in Addresses |-> Nobody]
    /\ nextOffset' = 0
    /\ allowList' = {} /\ refresher' = "stopped" /\ firstAnswer' = FALSE
    /\ tunnel' = [p \in Programs |-> Idle]
    /\ UNCHANGED brokerVars

Refresh == refreshHosts \/ Retry \/ WakeUp

Handle(p) ==
    \/ Permit(p) \/ Connect(p)
    \/ \E s \in Sides : DeadlinePasses(p, s)

NetworkNext ==
    \/ Refresh \/ BrokerChanges \/ BoxStarts \/ BoxStops
    \/ \E n \in AllNames : ResolveElsewhere(n)
    \/ \E p \in Programs :
         \/ \E n \in AllNames : Resolve(p, n)
         \/ \E port \in Ports : Accept(p, port)
         \/ Handle(p) \/ Tick(p)
         \/ \E s \in Sides : Copy(p, s) \/ EndOfStream(p, s) \/ ConnectionError(p, s)

NetworkFairness ==
    /\ WF_networkVars(Refresh)
    /\ \A p \in Programs : WF_networkVars(Handle(p)) /\ WF_networkVars(Tick(p))

-----------------------------------------------------------------------------
(* A program is connected to the name that it asked for, however many names  *)
(* were resolved since, and even when the addresses run out (Allocate).      *)
ConnectedAsResolved ==
    \A p \in Programs :
        tunnel[p].name # Nobody => tunnel[p].name = tunnel[p].asked

(* The idle timeout never ends a connection that carried bytes in either     *)
(* direction within the timeout (idleWatch).                                 *)
OnlyIdleTimesOut ==
    \A p \in Programs : tunnel[p].timedOut => tunnel[p].quiet >= IdleTicks

(* A box that stays up comes to hold the last list of a broker that stays    *)
(* reachable, unless that one is empty or does not parse (refreshHosts).     *)
ListCatchesUp ==
    <>[](refresher # "stopped" /\ brokerUp /\ brokerList \notin {Unparsable, {}})
        => <>[](allowList = brokerList)
=============================================================================

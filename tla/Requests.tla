------------------------------ MODULE Requests ------------------------------
(***************************************************************************)
(* The way of a request through the broker (internal/broker): what CONNECT  *)
(* decides about a destination, what a request inside a tunnel is sent with, *)
(* the rate limit (limits), the proxy to the upstream (relay) and the entry  *)
(* of the log that each request leaves.                                     *)
(*                                                                          *)
(* A connection has one request at a time. Its handler loads the snapshot    *)
(* of the project, the vault, the clock and the time stamps one after the    *)
(* other, while commands change the grants and the secrets and other        *)
(* connections go on.                                                       *)
(*                                                                          *)
(* Abstracted: one project and one inmate; a destination is a host with its *)
(* port; a path, a method or a body is acceptable or not; tokens, headers   *)
(* and bytes. The egress lists and the user-wide floor do not change.        *)
(***************************************************************************)
EXTENDS Integers, Sequences, FiniteSetsExt

CONSTANTS
    Connections,
    Secrets,       \* names of secrets
    Destinations,  \* hosts with their ports
    Records,       \* what a secret can be
    Egress,        \* destinations that the lists of the project allow
    Variables,     \* environment variables with credentials of the inmate
    Specs,         \* the credentials that the inmate can use, in their order
    Nothing,       \* no project, no secret, no credential
    Window,        \* rateWindow, in ticks
    MaxTime,       \* bound: ticks of the clock
    MaxEdits       \* bound: changes of the grants, the vault and the credentials

ASSUME RequestsRecords ==
    /\ Records \subseteq [sort : {"route", "sign"}, upstream : Destinations,
                          intercept : BOOLEAN, limit : Nat, hasValue : BOOLEAN]
    /\ Nothing \notin Records /\ Nothing \notin Secrets
    /\ Nothing \notin Destinations /\ Nothing \notin Variables
ASSUME RequestsBounds == Window \in Nat \ {0} /\ MaxTime \in Nat /\ MaxEdits \in Nat
ASSUME RequestsLists == Egress \subseteq Destinations /\ Specs \in Seq(Variables)

VARIABLES
    grants,     \* the secrets of the project's snapshot, Nothing without a project
    unlocked,   \* the broker has an open vault
    secrets,    \* the vault: name -> its record
    held,       \* variables that a `prison up` has given the broker
    clock,
    stamps,     \* secret -> number of a request -> its time, as the limiter keeps them
    conn,       \* connection -> its request and locals
    edits,
    passed      \* history: secret -> the last requests that passed its limit

requestVars == <<grants, unlocked, secrets, held, clock, stamps, conn, edits, passed>>

Conn == [pc : {"idle", "intercept", "allow", "dial", "acknowledge", "splice", "tunnel",
               "project", "secret", "moment", "limit", "forward", "credential",
               "proxy", "upgrade", "body", "ended"},
         kind : {"raw", "uri", "named", "intercepted", "sign", "inmate"},
         to : Destinations \cup {Nothing}, name : Secrets \cup {Nothing},
         snapshot : SUBSET Secrets, rec : Records \cup {Nothing}, moment : 0..MaxTime,
         once : BOOLEAN, tunnel : BOOLEAN,
         \* History: log entries of the request, whether it is one that must be
         \* logged, what its secret was since it began, whether it was granted,
         \* and whether grants or vault changed since the CONNECT.
         entries : 0..2, due : BOOLEAN, seen : SUBSET (Records \cup {Nothing}),
         granted : BOOLEAN, changed : BOOLEAN]
NoConn == [pc |-> "idle", kind |-> "raw", to |-> Nothing, name |-> Nothing, snapshot |-> {},
           rec |-> Nothing, moment |-> 0, once |-> FALSE, tunnel |-> FALSE, entries |-> 0,
           due |-> FALSE, seen |-> {}, granted |-> FALSE, changed |-> FALSE]

RequestsInit ==
    /\ grants \in SUBSET Secrets
    /\ unlocked = FALSE
    /\ secrets \in [Secrets -> Records \cup {Nothing}]
    /\ held = {}
    /\ clock = 0
    /\ stamps = [s \in Secrets |-> <<>>]
    /\ conn = [c \in Connections |-> NoConn]
    /\ edits = 0
    /\ passed = [s \in Secrets |-> <<>>]

----------------------------------------------------------------------------
Doing(c, pc) == conn[c].pc = pc
\* The kinds of names in the zone: routes, the API of the broker, inmates.
ZoneKinds == {"named", "sign", "inmate"}
ToHandler(c) == conn[c].kind \in ZoneKinds \cup {"intercepted"}
Goes(c, pc) == conn' = [conn EXCEPT ![c].pc = pc]

\* The request ends. Its tunnel, if it came in one, is what is left of it.
EndsWith(c, entries) ==
    LET x == conn[c]
        end == [NoConn EXCEPT !.pc = "ended", !.entries = entries, !.due = x.due]
    IN  conn' = [conn EXCEPT ![c] =
                   IF x.tunnel
                   THEN [end EXCEPT !.tunnel = TRUE, !.kind = x.kind, !.to = x.to,
                           !.changed = x.changed,
                           !.name = IF x.kind = "sign" THEN Nothing ELSE x.name]
                   ELSE end]

\* record, and the end of the request.
Logs(c) == EndsWith(c, conn[c].entries + 1)
EndsUnlogged(c) == EndsWith(c, conn[c].entries)

\* Everything but the connection stays.
OnlyConn == UNCHANGED <<grants, unlocked, secrets, held, clock, stamps, edits, passed>>

Vault(s) == IF unlocked THEN secrets[s] ELSE Nothing

\* interceptRoutes, for a snapshot and the vault as it is now.
interceptRoutes(snapshot) ==
    {s \in snapshot : Vault(s) # Nothing /\ Vault(s).sort = "route" /\ Vault(s).intercept}

----------------------------------------------------------------------------
\* serveTCP.

\* A request in a tunnel, or with the absolute URI of a name in the zone.
Asks(c, s, request) ==
    conn' = [conn EXCEPT ![c] = [request EXCEPT !.pc = "project", !.name = s,
                                   !.seen = IF s = Nothing THEN {} ELSE {Vault(s)},
                                   !.granted = grants # Nothing /\ s \in grants]]

\* serveTCP without a token of a project, or with neither of the two kinds.
Refuse(c) ==
    /\ Doing(c, "idle")
    /\ OnlyConn
    /\ Logs(c)

\* serveConnect: the tunnel to a name of the zone is opened at once.
Connect(c) ==
    /\ Doing(c, "idle") /\ grants # Nothing
    /\ OnlyConn
    /\ \/ Logs(c)            \* no host with a port
       \/ \E d \in Destinations :
            conn' = [conn EXCEPT ![c].kind = "raw", ![c].to = d, ![c].snapshot = grants,
                                 ![c].pc = "intercept"]
       \/ \E kind \in ZoneKinds, s \in Secrets :
            conn' = [conn EXCEPT ![c].kind = kind, ![c].pc = "acknowledge",
                                 ![c].name = IF kind = "named" THEN s ELSE Nothing]

\* serveAbsoluteURI: no tunnel, and an entry unless the port is malformed.
AbsoluteURI(c) ==
    /\ Doing(c, "idle") /\ grants # Nothing
    /\ OnlyConn
    /\ \/ EndsUnlogged(c)
       \/ \E d \in Destinations :
            conn' = [conn EXCEPT ![c].kind = "uri", ![c].to = d, ![c].snapshot = grants,
                                 ![c].pc = "allow"]
       \/ \E kind \in ZoneKinds, s \in Secrets :
            Asks(c, IF kind = "inmate" THEN Nothing ELSE s, [conn[c] EXCEPT !.kind = kind])

InterceptAnyPort(c) ==
    LET routes == interceptRoutes(conn[c].snapshot) IN
    /\ Doing(c, "intercept")
    /\ OnlyConn
    /\ \/ routes = {} /\ Goes(c, "allow")
       \/ routes # {} /\ Logs(c)
       \/ \E s \in routes :
            conn' = [conn EXCEPT ![c].kind = "intercepted", ![c].name = s,
                                 ![c].pc = "acknowledge", ![c].snapshot = {}]

\* interceptRouteFor and serveIntercept: a certificate is made, or the CONNECT
\* is refused.
Intercept(c) ==
    LET routes == {s \in interceptRoutes(conn[c].snapshot) : Vault(s).upstream = conn[c].to} IN
    /\ Doing(c, "intercept")
    /\ OnlyConn
    /\ \/ routes = {} /\ Goes(c, "allow")
       \/ routes # {} /\ Logs(c)
       \/ \E s \in routes :
            conn' = [conn EXCEPT ![c].kind = "intercepted", ![c].name = s,
                                 ![c].pc = "acknowledge", ![c].snapshot = {}]

\* allowListFor, with the vault as it is by now: the upstreams of intercepting
\* routes are on the list.
Allow(c) ==
    LET listed == Egress \cup {Vault(s).upstream : s \in interceptRoutes(conn[c].snapshot)} IN
    /\ Doing(c, "allow")
    /\ OnlyConn
    /\ IF conn[c].to \notin listed THEN Logs(c)
       ELSE conn' = [conn EXCEPT ![c].pc = IF conn[c].kind = "raw" THEN "dial" ELSE "proxy",
                                 ![c].due = TRUE]

Dial(c) ==
    /\ Doing(c, "dial")
    /\ OnlyConn
    /\ Logs(c) \/ Goes(c, "acknowledge")

\* acknowledgeTunnel. When the box is gone by then, nothing was moved and
\* nothing is logged.
Acknowledge(c) ==
    /\ Doing(c, "acknowledge")
    /\ OnlyConn
    /\ \/ conn' = [conn EXCEPT ![c] = [NoConn EXCEPT !.pc = "ended"]]
       \/ conn' = [conn EXCEPT ![c].pc = IF ToHandler(c) THEN "tunnel" ELSE "splice",
                               ![c].tunnel = ToHandler(c), ![c].snapshot = {}]

\* Splice has moved what there was to move.
Splice(c) ==
    /\ Doing(c, "splice")
    /\ OnlyConn
    /\ Logs(c)

----------------------------------------------------------------------------
\* serveTunnel, routeHandler, inmateHandler and serveSign.

\* The next request in a tunnel. A CONNECT in it is refused without an entry,
\* and the requests of the agent that read a list are answered without one.
Ask(c) ==
    /\ Doing(c, "tunnel")
    /\ OnlyConn
    /\ \E s \in IF conn[c].kind = "sign" THEN Secrets ELSE {conn[c].name} : Asks(c, s, conn[c])

RefusedByTunnel(c) ==
    /\ Doing(c, "project") /\ conn[c].tunnel
    /\ OnlyConn
    /\ EndsUnlogged(c)

\* broker.snapshot: the project as it is now. From here on every request for a
\* secret, refused or not, leaves an entry.
FindProject(c) ==
    /\ Doing(c, "project")
    /\ OnlyConn
    /\ \/ grants = Nothing /\ IF conn[c].kind = "sign" THEN EndsUnlogged(c) ELSE Logs(c)
       \/ /\ grants # Nothing
          /\ conn' = [conn EXCEPT ![c].due = TRUE, ![c].snapshot = grants,
                        ![c].pc = IF conn[c].kind = "inmate" THEN "credential" ELSE "secret"]

\* grantedSecret, and the checks of mode, path, method and data that come next.
Secret(c) ==
    LET s == conn[c].name
        rec == IF s \in conn[c].snapshot THEN Vault(s) ELSE Nothing
    IN
    /\ Doing(c, "secret")
    /\ OnlyConn
    /\ \/ Logs(c)
       \/ /\ rec # Nothing /\ rec.sort = IF conn[c].kind = "sign" THEN "sign" ELSE "route"
          /\ conn' = [conn EXCEPT ![c].rec = rec, ![c].snapshot = {},
                                  ![c].pc = IF rec.limit = 0 THEN "forward" ELSE "moment"]

\* Allow of the limiter reads the clock before it has the mutex.
Moment(c) ==
    /\ Doing(c, "moment")
    /\ OnlyConn
    /\ conn' = [conn EXCEPT ![c].pc = "limit", ![c].moment = clock]

RecentShort(s, moment) == {n \in DOMAIN stamps[s] : moment - stamps[s][n] < Window - 1}

\* The stamps that count. The list of the code is a function from numbers here,
\* and a stamp keeps its number when the list is compacted.
Recent(s, moment) == {n \in DOMAIN stamps[s] : moment - stamps[s][n] < Window}

\* Allow under the mutex.
Limit(c) ==
    LET s == conn[c].name
        recent == Recent(s, conn[c].moment)
        limit == conn[c].rec.limit
        number == 1 + Max({0} \cup recent)
        pass == [at |-> clock, waited |-> clock - conn[c].moment, limit |-> limit,
                 number |-> number]
        kept == Append(passed[s], pass)
    IN
    /\ Doing(c, "limit")
    /\ UNCHANGED <<grants, unlocked, secrets, held, clock, edits>>
    /\ IF Cardinality(recent) >= limit
       THEN /\ stamps' = [stamps EXCEPT ![s] = [n \in recent |-> @[n]]]
            /\ Logs(c)
            /\ UNCHANGED passed
       ELSE /\ stamps' = [stamps EXCEPT ![s] = [n \in recent \cup {number} |->
                            IF n = number THEN conn[c].moment ELSE @[n]]]
            /\ passed' = [passed EXCEPT ![s] =
                            IF Len(kept) > limit + 1 THEN Tail(kept) ELSE kept]
            /\ conn' = [conn EXCEPT ![c].pc = "forward", ![c].moment = 0]

\* The request goes to its upstream, with the credential of its record.
Sends(c) == Goes(c, "proxy")

\* routeHandler refuses a route that has no value.
Forward(c) ==
    /\ Doing(c, "forward") /\ conn[c].kind # "sign"
    /\ OnlyConn
    /\ IF conn[c].rec.hasValue THEN Sends(c) ELSE Logs(c)

\* serveSign signs, or the agent of the user fails; its entry is written when
\* it returns.
Sign(c) ==
    /\ Doing(c, "forward") /\ conn[c].kind = "sign"
    /\ OnlyConn
    /\ Logs(c)

\* chooseCredential takes the first variable that is there.
chooseCredential ==
    LET usable == {i \in DOMAIN Specs : Specs[i] \in held} IN
    IF usable = {} THEN Nothing ELSE Specs[CHOOSE i \in usable : \A j \in usable : i <= j]

Credential(c) ==
    /\ Doing(c, "credential")
    /\ OnlyConn
    /\ \/ Logs(c)
       \/ chooseCredential # Nothing /\ Sends(c)

----------------------------------------------------------------------------
\* The proxy of relay, for routes, inmates and absolute URIs.

FinishAgain(c) == conn[c].entries + 1

\* exchange.finish calls onDone, which writes the entry, at most once.
Finish(c) == IF conn[c].once THEN conn[c].entries ELSE conn[c].entries + 1

\* The transport fails or the box is gone: exchange.fail.
Fails(c) ==
    /\ Doing(c, "proxy")
    /\ OnlyConn
    /\ EndsWith(c, Finish(c))

\* observeResponse: a switch of protocols is logged at once, any other answer
\* when its body is closed.
Answers(c) ==
    /\ Doing(c, "proxy")
    /\ OnlyConn
    /\ \/ conn' = [conn EXCEPT ![c].pc = "upgrade", ![c].entries = Finish(c), ![c].once = TRUE]
       \/ Goes(c, "body")

\* The upgraded connection ends, or the upgrade fails and fail is called after
\* the response was observed.
UpgradeEnds(c) ==
    /\ Doing(c, "upgrade")
    /\ OnlyConn
    /\ EndsUnlogged(c) \/ EndsWith(c, Finish(c))

\* The reverse proxy closes the body of the answer, however the copy ended.
CloseBody(c) ==
    /\ Doing(c, "body")
    /\ OnlyConn
    /\ EndsWith(c, Finish(c))

\* The request is over: the connection is closed, or its tunnel goes on.
Leave(c) ==
    /\ conn[c].pc \in {"ended", "tunnel"}
    /\ OnlyConn
    /\ \/ conn' = [conn EXCEPT ![c] = NoConn]
       \/ /\ Doing(c, "ended") /\ conn[c].tunnel
          /\ conn' = [conn EXCEPT ![c].pc = "tunnel", ![c].entries = 0, ![c].due = FALSE]

----------------------------------------------------------------------------
\* Commands and time.

\* What a change means for the history of the requests that are under way.
Observed ==
    LET Now(s) == IF unlocked' THEN secrets'[s] ELSE Nothing
        AsksFor(c) == conn[c].seen # {}
    IN  conn' = [c \in Connections |->
                   IF Doing(c, "idle") THEN conn[c]
                   ELSE IF AsksFor(c)
                   THEN [conn[c] EXCEPT !.changed = TRUE, !.seen = @ \cup {Now(conn[c].name)},
                           !.granted = @ \/ (grants' # Nothing /\ conn[c].name \in grants')]
                   ELSE [conn[c] EXCEPT !.changed = TRUE]]

\* The broker has reloaded the project after a grant, a revoke or its removal.
Reloads ==
    /\ edits < MaxEdits /\ edits' = edits + 1
    /\ grants' \in ((SUBSET Secrets) \cup {Nothing}) \ {grants}
    /\ UNCHANGED <<unlocked, secrets, held, clock, stamps, passed>>
    /\ Observed

\* `prison secret unlock`.
Unlocks ==
    /\ ~unlocked /\ unlocked' = TRUE
    /\ UNCHANGED <<grants, secrets, held, clock, stamps, edits, passed>>
    /\ Observed

\* `prison secret add` and `rm`, as the open vault sees them.
EditSecret ==
    /\ edits < MaxEdits /\ edits' = edits + 1
    /\ \E s \in Secrets, r \in Records \cup {Nothing} :
         r # secrets[s] /\ secrets' = [secrets EXCEPT ![s] = r]
    /\ UNCHANGED <<grants, unlocked, held, clock, stamps, passed>>
    /\ Observed

\* mergeCredentials.
mergeCredentials ==
    /\ edits < MaxEdits /\ edits' = edits + 1
    /\ held' \in (SUBSET Variables) \ {held}
    /\ UNCHANGED <<grants, unlocked, secrets, clock, stamps, conn, passed>>

ClockTicks ==
    /\ clock < MaxTime
    /\ clock' = clock + 1
    /\ UNCHANGED <<grants, unlocked, secrets, held, stamps, conn, edits, passed>>

RequestsNext ==
    \/ \E c \in Connections :
         \/ Refuse(c) \/ Connect(c) \/ AbsoluteURI(c)
         \/ Intercept(c) \/ Allow(c) \/ Dial(c) \/ Acknowledge(c) \/ Splice(c)
         \/ Ask(c) \/ RefusedByTunnel(c) \/ FindProject(c) \/ Secret(c) \/ Moment(c)
         \/ Limit(c) \/ Forward(c) \/ Sign(c) \/ Credential(c) \/ Fails(c) \/ Answers(c)
         \/ UpgradeEnds(c) \/ CloseBody(c) \/ Leave(c)
    \/ Reloads \/ Unlocks \/ EditSecret \/ mergeCredentials \/ ClockTicks
----------------------------------------------------------------------------
RequestsTypeOK ==
    /\ grants \in (SUBSET Secrets) \cup {Nothing}
    /\ unlocked \in BOOLEAN
    /\ secrets \in [Secrets -> Records \cup {Nothing}]
    /\ held \in SUBSET Variables
    /\ clock \in 0..MaxTime
    /\ \A s \in Secrets :
         /\ DOMAIN stamps[s] \subseteq Nat \ {0}
         /\ \A n \in DOMAIN stamps[s] : stamps[s][n] \in 0..MaxTime
    /\ conn \in [Connections -> Conn]
    /\ edits \in 0..MaxEdits

(* Every request that asks for a secret, granted or not, and every request   *)
(* that has reached an upstream leaves exactly one entry in the log, on      *)
(* whichever of the ways through the handlers and the reverse proxy it ends  *)
(* (proxy.go:187-199 and its three callers; the deferred entry of serveSign; *)
(* the refusals of routeHandler). No other request leaves more than one.      *)
LoggedOnce ==
    \A c \in Connections :
        Doing(c, "ended") => conn[c].entries = 1 \/ (~conn[c].due /\ conn[c].entries = 0)

(* A rate limit of n lets n requests pass in a window (limits.go), however   *)
(* the requests of several connections interleave between the clock and the  *)
(* mutex: the n+1st passes a window after the first, less the time that one  *)
(* of them waited for the mutex with the clock already read.                 *)
RateHeld ==
    \A s \in Secrets : \A i, j \in DOMAIN passed[s] :
        j = i + passed[s][j].limit =>
            \E k \in i..(j-1) :
                passed[s][j].at - passed[s][i].at + passed[s][k].waited >= Window

(* What leaves the broker is what was decided for the request it serves: a   *)
(* route is used with a record that the vault held for it, and was granted,  *)
(* during that very request; an intercepted request goes to the destination   *)
(* of its CONNECT, and a destination that is on the list only as an upstream *)
(* of an intercepting route is never tunnelled past the interception,        *)
(* unless grants or secrets changed after the CONNECT: its two lookups of    *)
(* the vault (dispatch.go:96 and 100), and that of each later request, are   *)
(* not atomic.                                                               *)
ForwardedAsDecided ==
    \A c \in Connections :
        LET x == conn[c] IN
        /\ (x.kind \in {"named", "intercepted"} /\ x.pc \in {"proxy", "upgrade", "body"})
             => x.granted /\ x.rec \in x.seen \ {Nothing}
        /\ (x.kind = "intercepted" /\ x.pc = "proxy") => x.rec.upstream = x.to \/ x.changed
        /\ x.pc = "splice" => x.to \in Egress \/ x.changed
============================================================================

------------------------------ MODULE HostNetwork ------------------------------
(***************************************************************************)
(* EnsureNetwork of the Firecracker driver (network.go): one network of the *)
(* host with its bridge, its pool of taps and its firewall rules, made by a  *)
(* script that a systemd unit runs, and the NFS helper, a copy of prison     *)
(* that systemd starts on demand from the socket of a user. Several users of *)
(* the host set the same network up, each with a version of prison; a setup  *)
(* may stop after any of its commands, and the host may start again.         *)
(*                                                                          *)
(* Abstracted: addresses, and the texts of the script and the units; a tap    *)
(* is there with the owner that made it. systemd, ip and nft are external.   *)
(***************************************************************************)
EXTENDS Integers, FiniteSets

CONSTANTS
    Owners,     \* users of the host
    NoOwner,
    PoolSize,   \* tapPoolSize
    Versions,   \* of prison
    NoVersion,
    MaxUpgrades, MaxFailures, MaxReboots   \* bounds

ASSUME NetworkConstants ==
    /\ NoOwner \notin Owners /\ NoVersion \notin Versions
    /\ PoolSize \in Nat \ {0}
    /\ MaxUpgrades \in Nat /\ MaxFailures \in Nat /\ MaxReboots \in Nat

Taps == 1..PoolSize

VARIABLES
    bridge,     \* the bridge is there
    taps,       \* tap -> its owner
    rules,      \* the rules against spoofing are loaded
    script,     \* the user for whom the installed script makes taps
    enabled,    \* the unit of the network starts with the host
    unit,       \* the run of the unit: its command, and for whom
    failed,     \* the last run of the unit has failed
    binary,     \* the version of the installed helper
    sockets,    \* users with an enabled socket of the helper
    helper,     \* user -> the version of the helper that runs
    version,    \* user -> the version of prison in use
    setup,      \* user -> the step of its EnsureNetwork
    spent,      \* upgrades, failures and reboots so far
    \* History: users whose helper may be older than the installed binary,
    \* since a setup of theirs has stopped halfway or another user replaced it.
    behind

networkVars == <<bridge, taps, rules, script, enabled, unit, failed, binary, sockets,
                 helper, version, setup, spent, behind>>

Idle == [at |-> 0, owner |-> NoOwner]

NetworkInit ==
    /\ bridge = FALSE /\ taps = [i \in Taps |-> NoOwner] /\ rules = FALSE
    /\ script = NoOwner /\ enabled = FALSE /\ unit = Idle /\ failed = FALSE
    /\ binary = NoVersion /\ sockets = {}
    /\ helper = [u \in Owners |-> NoVersion]
    /\ version \in [Owners -> Versions]
    /\ setup = [u \in Owners |-> "idle"]
    /\ spent = [upgrades |-> 0, failures |-> 0, reboots |-> 0]
    /\ behind = {}

----------------------------------------------------------------------------
AtStep(u, step) == setup[u] = step
GoesTo(u, step) == setup' = [setup EXCEPT ![u] = step]
network == <<bridge, taps, rules, unit, failed>>
helpers == <<binary, sockets, helper, behind>>
installed == <<script, enabled, version>>

networkIsReady(u) == bridge /\ \A i \in Taps : taps[i] = u

\* A connection to the socket of a user starts the helper if none runs.
Activated(u) == IF helper[u] = NoVersion THEN [helper EXCEPT ![u] = binary] ELSE helper

\* nfsHelperIsCurrent compares the binaries, and then asks for any answer.
nfsHelperIsCurrent(u) == binary = version[u] /\ u \in sockets

Check(u, ok, other) ==
    /\ GoesTo(u, IF networkIsReady(u) /\ nfsHelperIsCurrent(u) THEN ok ELSE other)
    /\ helper' = IF networkIsReady(u) /\ nfsHelperIsCurrent(u) THEN Activated(u) ELSE helper
    /\ UNCHANGED <<network, installed, binary, sockets, behind, spent>>

EnsureNetwork(u) == AtStep(u, "idle") /\ Check(u, "ready", "script")

InstallScript(u) ==
    /\ AtStep(u, "script") /\ GoesTo(u, "helper")
    /\ script' = u
    /\ UNCHANGED <<network, helpers, enabled, version, spent>>

\* The helpers of other users that run are not stopped.
InstallHelper(u) ==
    /\ AtStep(u, "helper") /\ GoesTo(u, "enable")
    /\ binary' = version[u]
    /\ behind' = behind \cup {o \in Owners \ {u} : helper[o] # NoVersion}
    /\ UNCHANGED <<network, installed, sockets, helper, spent>>

\* The units are installed, and that of the network is enabled.
EnableNetwork(u) ==
    /\ AtStep(u, "enable") /\ GoesTo(u, "restart")
    /\ enabled' = TRUE
    /\ UNCHANGED <<network, helpers, script, version, spent>>

\* systemctl restart: a run that is under way is stopped.
RestartNetwork(u) ==
    /\ AtStep(u, "restart") /\ GoesTo(u, "wait")
    /\ unit' = [at |-> 1, owner |-> script] /\ failed' = FALSE
    /\ UNCHANGED <<bridge, taps, rules, helpers, installed, spent>>

NetworkStarted(u) ==
    /\ AtStep(u, "wait") /\ unit = Idle /\ ~failed /\ GoesTo(u, "stop")
    /\ UNCHANGED <<network, helpers, installed, spent>>

StopHelperNot(u) ==
    /\ AtStep(u, "stop") /\ GoesTo(u, "socket")
    /\ UNCHANGED <<network, installed, helpers, spent>>

\* The helper that runs is stopped, so that the next one is the new binary.
StopHelper(u) ==
    /\ AtStep(u, "stop") /\ GoesTo(u, "socket")
    /\ helper' = [helper EXCEPT ![u] = NoVersion]
    /\ behind' = behind \ {u}
    /\ UNCHANGED <<network, installed, binary, sockets, spent>>

EnableSocket(u) ==
    /\ AtStep(u, "socket") /\ GoesTo(u, "check")
    /\ sockets' = sockets \cup {u}
    /\ UNCHANGED <<network, installed, binary, helper, behind, spent>>

Checked(u) == AtStep(u, "check") /\ Check(u, "ready", "idle")

\* A command fails, a `systemctl restart` reports a failed unit, or prison dies.
SetupStops(u) ==
    /\ setup[u] \notin {"idle", "ready"}
    /\ \/ AtStep(u, "wait") /\ unit = Idle /\ failed /\ UNCHANGED spent
       \/ spent.failures < MaxFailures /\ spent' = [spent EXCEPT !.failures = @ + 1]
    /\ GoesTo(u, "idle")
    /\ behind' = IF setup[u] \in {"enable", "restart", "wait", "stop"} THEN behind \cup {u}
                 ELSE behind
    /\ UNCHANGED <<network, installed, binary, sockets, helper>>

\* Boxes of the user are started, and their directories shared.
UseNetwork(u) ==
    /\ AtStep(u, "ready") /\ GoesTo(u, "idle")
    /\ helper' = IF u \in sockets THEN Activated(u) ELSE helper
    /\ UNCHANGED <<network, installed, binary, sockets, behind, spent>>

----------------------------------------------------------------------------
\* The script makes what is not there, and leaves what is.
MakeTap ==
    LET i == unit.at IN
    /\ unit # Idle /\ i <= PoolSize
    /\ bridge' = TRUE
    /\ taps' = IF taps[i] = NoOwner THEN [taps EXCEPT ![i] = unit.owner] ELSE taps
    /\ unit' = [unit EXCEPT !.at = i + 1]
    /\ UNCHANGED <<rules, failed, helpers, installed, setup, spent>>

\* spoofingRules: the last command of the script replaces the whole table.
LoadRules ==
    /\ unit.at = PoolSize + 1
    /\ rules' = TRUE /\ unit' = Idle
    /\ UNCHANGED <<bridge, taps, failed, helpers, installed, setup, spent>>

ScriptFails ==
    /\ unit # Idle /\ spent.failures < MaxFailures
    /\ unit' = Idle /\ failed' = TRUE
    /\ spent' = [spent EXCEPT !.failures = @ + 1]
    /\ UNCHANGED <<bridge, taps, rules, helpers, installed, setup>>

\* The host starts again, with the units that are enabled.
Reboot ==
    /\ spent.reboots < MaxReboots /\ spent' = [spent EXCEPT !.reboots = @ + 1]
    /\ bridge' = FALSE /\ taps' = [i \in Taps |-> NoOwner] /\ rules' = FALSE
    /\ unit' = (IF enabled THEN [at |-> 1, owner |-> script] ELSE Idle) /\ failed' = FALSE
    /\ helper' = [u \in Owners |-> NoVersion] /\ behind' = {}
    /\ setup' = [u \in Owners |-> "idle"]
    /\ UNCHANGED <<installed, binary, sockets>>

\* A user installs another version of prison.
UpgradePrison(u) ==
    /\ AtStep(u, "idle")
    /\ spent.upgrades < MaxUpgrades /\ spent' = [spent EXCEPT !.upgrades = @ + 1]
    /\ \E v \in Versions \ {version[u]} : version' = [version EXCEPT ![u] = v]
    /\ UNCHANGED <<network, helpers, script, enabled, setup>>

NetworkNext ==
    \/ \E u \in Owners :
         \/ EnsureNetwork(u) \/ InstallScript(u) \/ InstallHelper(u) \/ EnableNetwork(u)
         \/ RestartNetwork(u) \/ NetworkStarted(u) \/ StopHelper(u) \/ EnableSocket(u)
         \/ Checked(u) \/ SetupStops(u) \/ UseNetwork(u) \/ UpgradePrison(u)
    \/ MakeTap \/ LoadRules \/ ScriptFails \/ Reboot
----------------------------------------------------------------------------
NetworkTypeOK ==
    /\ {bridge, rules, enabled, failed} \subseteq BOOLEAN
    /\ taps \in [Taps -> Owners \cup {NoOwner}]
    /\ script \in Owners \cup {NoOwner}
    /\ unit \in [at : 0..(PoolSize + 1), owner : Owners \cup {NoOwner}]
    /\ binary \in Versions \cup {NoVersion} /\ sockets \subseteq Owners
    /\ helper \in [Owners -> Versions \cup {NoVersion}] /\ version \in [Owners -> Versions]
    /\ setup \in [Owners -> {"idle", "ready", "script", "helper", "enable", "restart",
                             "wait", "stop", "socket", "check"}]
    /\ spent \in [upgrades : 0..MaxUpgrades, failures : 0..MaxFailures, reboots : 0..MaxReboots]
    /\ behind \subseteq Owners

(* Once EnsureNetwork has answered, the network works for the user and not  *)
(* only looks so: the rules are loaded, or the unit still runs or has failed *)
(* (the check sees bridge and taps, which the script makes before it loads   *)
(* them, network.go:182-200); and the helper that answers is of the version  *)
(* of prison that asked, unless a setup of the user stopped between the new  *)
(* binary and the stop of the old helper, or another user installed one      *)
(* (the check compares files, network.go:244-253).                           *)
ReadyNetworkWorks ==
    \A u \in Owners :
        AtStep(u, "ready") =>
            /\ rules \/ unit # Idle \/ failed
            /\ helper[u] = version[u] \/ u \in behind
============================================================================

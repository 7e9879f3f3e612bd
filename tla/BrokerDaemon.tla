---------------------------- MODULE BrokerDaemon ----------------------------
(***************************************************************************)
(* The broker as a process: how `prison up` finds, replaces or starts it    *)
(* (control.EnsureRunning), how it takes and leaves its control socket and   *)
(* pid file (broker.Run), and how it binds the address that the boxes reach  *)
(* it at (internal/broker/listeners.go) while the broker before it still     *)
(* holds that address.                                                       *)
(*                                                                          *)
(* The socket file is a name: it can lead to a broker that listens, to one   *)
(* that is dead, or be gone while its broker still listens.                  *)
(*                                                                          *)
(* Time is counted in rounds of the bind retry (Tick). Abstracted: what the  *)
(* requests of the control socket do apart from listen and shutdown.         *)
(***************************************************************************)
EXTENDS Naturals, FiniteSets

CONSTANTS
    Brokers,       \* broker processes
    Commands,      \* processes of `prison`
    Versions,      \* versions of prison that the commands have
    None,
    Grace,         \* shutdownGrace in rounds
    bindAttempts,  \* rounds that a bind is tried for
    OneStart,      \* TRUE: a command starts no broker while another is being started
    PromptClose    \* TRUE: no broker binds the socket between the two unlinks of another

ASSUME DaemonNone == None \notin Brokers \cup Commands \cup Versions /\ "other" \notin Brokers
ASSUME DaemonTimes == Grace \in Nat /\ bindAttempts \in Nat /\ Grace + 1 < bindAttempts
ASSUME DaemonChoices == OneStart \in BOOLEAN /\ PromptClose \in BOOLEAN

VARIABLES
    socket,    \* the broker whose socket the path names
    pidFile,   \* the broker whose pid the file holds
    broker,    \* process -> its state
    entry,     \* process -> its tcpListener for the address of the boxes
    address,   \* who holds that address: a broker, another program ("other"), nobody
    cmd        \* command -> its step

vars == <<socket, pidFile, broker, entry, address, cmd>>

BrokerPhases == {"none", "spawned", "probing", "binding", "serving", "unlinked", "grace"}
Broker == [pc : BrokerPhases, version : Versions \cup {None}, stop : BOOLEAN, age : 0..Grace]
NoBroker == [pc |-> "none", version |-> None, stop |-> FALSE, age |-> 0]

\* bound and binding of tcpListener. `due` says that tryBind is to run;
\* `foreign`, that a try found the address with another program.
Entry == [is : {"absent", "binding", "bound", "unbound"}, attempts : 0..bindAttempts,
          due : BOOLEAN, foreign : BOOLEAN]
NoEntry == [is |-> "absent", attempts |-> 0, due |-> FALSE, foreign |-> FALSE]

Steps == {"idle", "ensure", "replace", "waitGone", "unlink", "spawn", "waitAlive", "listen", "stop"}
Cmd == [pc : Steps, version : Versions \cup {None}]
NoCmd == [pc |-> "idle", version |-> None]

Init ==
    /\ socket = None
    /\ pidFile = None
    /\ broker = [b \in Brokers |-> NoBroker]
    /\ entry = [b \in Brokers |-> NoEntry]
    /\ address = None
    /\ cmd = [c \in Commands |-> NoCmd]

----------------------------------------------------------------------------
In(b, phase) == broker[b].pc = phase
Step(c, step) == cmd[c].pc = step
Goto(c, step) == cmd' = [cmd EXCEPT ![c].pc = step]
Reach(c, step) == cmd' = [cmd EXCEPT ![c] = [NoCmd EXCEPT !.pc = step]]
End(c) == cmd' = [cmd EXCEPT ![c] = NoCmd]

\* A connection to the socket path is accepted.
Alive == socket # None /\ In(socket, "serving")

Starting == \E b \in Brokers : broker[b].pc \in {"spawned", "probing", "binding"}
Ensuring == \E c \in Commands :
                cmd[c].pc \in {"ensure", "replace", "waitGone", "unlink", "spawn", "waitAlive"}

----------------------------------------------------------------------------
\* EnsureRunning, of a `prison up`.

Up(c) ==
    /\ Step(c, "idle")
    /\ OneStart => ~Ensuring /\ ~Starting
    /\ \E version \in Versions :
         cmd' = [cmd EXCEPT ![c] = [NoCmd EXCEPT !.pc = "ensure", !.version = version]]
    /\ UNCHANGED <<socket, pidFile, broker, entry, address>>

\* A live broker of the same version is used.
Ensure(c) ==
    /\ Step(c, "ensure")
    /\ IF ~Alive THEN Goto(c, "unlink")
       ELSE IF broker[socket].version = cmd[c].version THEN Reach(c, "listen")
       ELSE Goto(c, "replace")
    /\ UNCHANGED <<socket, pidFile, broker, entry, address>>

\* A broker of another version is asked to stop, and so is any broker by
\* `prison broker stop`. The request fails when it is not there any more.
Shutdown(c) ==
    /\ cmd[c].pc \in {"replace", "stop"}
    /\ IF Alive
       THEN /\ broker' = [broker EXCEPT ![socket].stop = TRUE]
            /\ IF Step(c, "replace") THEN Goto(c, "waitGone") ELSE End(c)
       ELSE End(c) /\ UNCHANGED broker
    /\ UNCHANGED <<socket, pidFile, entry, address>>

\* waitUntil no broker answers.
Gone(c) ==
    /\ Step(c, "waitGone") /\ ~Alive
    /\ Goto(c, "unlink")
    /\ UNCHANGED <<socket, pidFile, broker, entry, address>>

\* os.Remove takes away whatever the path names by now.
RemoveStale(c) ==
    /\ Step(c, "unlink")
    /\ socket' = None
    /\ Goto(c, "spawn")
    /\ UNCHANGED <<pidFile, broker, entry, address>>

\* SpawnDetached: `prison broker serve` in a session of its own, with a pid
\* that no file names.
Spawn(c) ==
    /\ Step(c, "spawn")
    /\ \E b \in Brokers :
         /\ In(b, "none") /\ b \notin {socket, pidFile}
         /\ broker' = [broker EXCEPT ![b] = [NoBroker EXCEPT !.pc = "spawned",
                                                             !.version = cmd[c].version]]
    /\ Reach(c, "waitAlive")
    /\ UNCHANGED <<socket, pidFile, entry, address>>

\* waitUntil a broker answers: the command has no other sign of the one that
\* it has started.
Started(c) ==
    /\ Step(c, "waitAlive") /\ Alive
    /\ Reach(c, "listen")
    /\ UNCHANGED <<socket, pidFile, broker, entry, address>>

\* The waits end with an error: startupTimeout, or the user gives up.
GiveUp(c) ==
    /\ cmd[c].pc \in {"waitGone", "waitAlive"}
    /\ End(c)
    /\ UNCHANGED <<socket, pidFile, broker, entry, address>>

\* `prison broker stop`.
Stop(c) ==
    /\ Step(c, "idle") /\ Alive
    /\ Reach(c, "stop")
    /\ UNCHANGED <<socket, pidFile, broker, entry, address>>

\* listen, for the request of `prison up`: an entry that is bound or on its
\* way is left alone.
AskListen(c) ==
    /\ Step(c, "listen")
    /\ IF Alive /\ entry[socket].is \notin {"bound", "binding"}
       THEN entry' = [entry EXCEPT ![socket] =
                        [NoEntry EXCEPT !.is = "binding", !.attempts = 1, !.due = TRUE]]
       ELSE UNCHANGED entry
    /\ End(c)
    /\ UNCHANGED <<socket, pidFile, broker, address>>

----------------------------------------------------------------------------
\* Run.

RemovePIDUnseen(b) == None

\* removePIDFile: only a pid of one's own.
WithoutPID(b) == IF pidFile = b THEN None ELSE pidFile

SavePID(b) ==
    /\ In(b, "spawned")
    /\ pidFile' = b
    /\ broker' = [broker EXCEPT ![b].pc = "probing"]
    /\ UNCHANGED <<socket, entry, address, cmd>>

\* listenControlSocket, up to the removal of a stale socket. A broker that
\* finds another one ends.
Probe(b) ==
    /\ In(b, "probing")
    /\ IF Alive
       THEN /\ broker' = [broker EXCEPT ![b] = NoBroker]
            /\ pidFile' = WithoutPID(b)
            /\ UNCHANGED socket
       ELSE /\ broker' = [broker EXCEPT ![b].pc = "binding"]
            /\ socket' = None
            /\ UNCHANGED pidFile
    /\ UNCHANGED <<entry, address, cmd>>

\* listenControlSocket makes the socket, unless the path was taken since.
BindSocket(b) ==
    /\ In(b, "binding")
    /\ PromptClose => \A other \in Brokers : ~In(other, "unlinked")
    /\ IF socket = None
       THEN /\ socket' = b
            /\ broker' = [broker EXCEPT ![b].pc = "serving"]
            /\ UNCHANGED pidFile
       ELSE /\ broker' = [broker EXCEPT ![b] = NoBroker]
            /\ pidFile' = WithoutPID(b)
            /\ UNCHANGED socket
    /\ UNCHANGED <<entry, address, cmd>>

\* A signal asks a broker to stop as well.
Signal(b) ==
    /\ In(b, "serving") /\ ~broker[b].stop
    /\ broker' = [broker EXCEPT ![b].stop = TRUE]
    /\ UNCHANGED <<socket, pidFile, entry, address, cmd>>

\* Run removes the socket first.
UnlinkSocket(b) ==
    /\ In(b, "serving") /\ broker[b].stop
    /\ socket' = None
    /\ broker' = [broker EXCEPT ![b] = [NoBroker EXCEPT !.pc = "unlinked"]]
    /\ UNCHANGED <<pidFile, entry, address, cmd>>

\* controlServer.Shutdown closes the listener, and a closed unix listener
\* removes its path, whatever that names by now.
CloseSocket(b) ==
    /\ In(b, "unlinked")
    /\ socket' = None
    /\ broker' = [broker EXCEPT ![b].pc = "grace"]
    /\ UNCHANGED <<pidFile, entry, address, cmd>>

\* The requests in progress are over, or shutdownGrace is: closeListeners and
\* the rest of Run.
Exit(b) ==
    /\ In(b, "grace")
    /\ address' = IF address = b THEN None ELSE address
    /\ entry' = [entry EXCEPT ![b] = NoEntry]
    /\ broker' = [broker EXCEPT ![b] = NoBroker]
    /\ pidFile' = WithoutPID(b)
    /\ UNCHANGED <<socket, cmd>>

\* The process dies and leaves its files.
Crash(b) ==
    /\ ~In(b, "none")
    /\ address' = IF address = b THEN None ELSE address
    /\ entry' = [entry EXCEPT ![b] = NoEntry]
    /\ broker' = [broker EXCEPT ![b] = NoBroker]
    /\ UNCHANGED <<socket, pidFile, cmd>>

----------------------------------------------------------------------------
\* listeners.go, in each broker that runs.

TryBindKeepsBinding(b) ==
    /\ entry[b].due
    /\ IF address = None
       THEN /\ address' = b
            /\ entry' = [entry EXCEPT ![b] = [NoEntry EXCEPT !.is = "bound"]]
       ELSE /\ entry' = [entry EXCEPT ![b].due = FALSE, ![b].foreign = @ \/ address = "other"]
            /\ UNCHANGED address
    /\ UNCHANGED <<socket, pidFile, broker, cmd>>

\* tryBind. retryBind gives up after the last attempt.
TryBind(b) ==
    /\ entry[b].due
    /\ IF address = None
       THEN /\ address' = b
            /\ entry' = [entry EXCEPT ![b] = [NoEntry EXCEPT !.is = "bound"]]
       ELSE /\ entry' = [entry EXCEPT
                           ![b].is = IF entry[b].attempts = bindAttempts THEN "unbound" ELSE @,
                           ![b].due = FALSE,
                           ![b].foreign = @ \/ address = "other"]
            /\ UNCHANGED address
    /\ UNCHANGED <<socket, pidFile, broker, cmd>>

ServeListenerKeepsBound(b) ==
    /\ entry[b].is = "bound"
    /\ address' = None
    /\ entry' = [entry EXCEPT ![b].foreign = TRUE]
    /\ UNCHANGED <<socket, pidFile, broker, cmd>>

\* serveListener: the server of an address stops serving.
ServeListener(b) ==
    /\ entry[b].is = "bound"
    /\ address' = None
    /\ entry' = [entry EXCEPT ![b] = [NoEntry EXCEPT !.is = "unbound", !.foreign = TRUE]]
    /\ UNCHANGED <<socket, pidFile, broker, cmd>>

\* Another program takes the address or gives it back.
OtherHolder ==
    /\ \/ address = None /\ address' = "other"
       \/ address = "other" /\ address' = None
    /\ UNCHANGED <<socket, pidFile, broker, entry, cmd>>

\* bindRetryInterval passes: every waiting retryBind tries again. A broker
\* that stops gets no more than its grace, and a try takes no time.
Tick ==
    /\ \A b \in Brokers : ~entry[b].due /\ (In(b, "grace") => broker[b].age < Grace)
                          /\ ~In(b, "unlinked")
    /\ \E b \in Brokers : entry[b].is = "binding"
    /\ entry' = [b \in Brokers |->
                   IF entry[b].is = "binding" /\ entry[b].attempts < bindAttempts
                   THEN [entry[b] EXCEPT !.due = TRUE, !.attempts = @ + 1]
                   ELSE entry[b]]
    /\ broker' = [b \in Brokers |->
                    IF In(b, "grace") THEN [broker[b] EXCEPT !.age = @ + 1] ELSE broker[b]]
    /\ UNCHANGED <<socket, pidFile, address, cmd>>

----------------------------------------------------------------------------
CommandStep(c) ==
    \/ Ensure(c) \/ Shutdown(c) \/ Gone(c) \/ RemoveStale(c) \/ Spawn(c)
    \/ Started(c) \/ AskListen(c)
BrokerStep(b) ==
    \/ SavePID(b) \/ Probe(b) \/ BindSocket(b) \/ UnlinkSocket(b) \/ CloseSocket(b)
    \/ Exit(b) \/ TryBind(b)

Next ==
    \/ \E c \in Commands : Up(c) \/ Stop(c) \/ GiveUp(c)
    \/ \E c \in Commands : CommandStep(c)
    \/ \E b \in Brokers : Signal(b) \/ Crash(b) \/ ServeListener(b)
    \/ \E b \in Brokers : BrokerStep(b)
    \/ OtherHolder \/ Tick

Spec == Init /\ [][Next]_vars

\* A process that can go on does so, and time passes. Nobody has to run a
\* command, send a signal, fail or give up.
Fairness ==
    /\ \A c \in Commands : WF_vars(CommandStep(c))
    /\ \A b \in Brokers : WF_vars(BrokerStep(b))
    /\ WF_vars(Tick)

FairSpec == Spec /\ Fairness
----------------------------------------------------------------------------
TypeOK ==
    /\ socket \in Brokers \cup {None} /\ pidFile \in Brokers \cup {None}
    /\ broker \in [Brokers -> Broker]
    /\ entry \in [Brokers -> Entry]
    /\ address \in Brokers \cup {None, "other"}
    /\ cmd \in [Commands -> Cmd]

(* A broker that serves can be found: the socket path leads to it and the    *)
(* pid file names it, in spite of the brokers before it, which remove both   *)
(* by name while they end (broker.go:113-116, 145-152, 216-220).             *)
ServingIsFound ==
    \A b \in Brokers :
        In(b, "serving") /\ ~broker[b].stop => socket = b /\ pidFile = b

(* What a broker says of the address is true: one entry at most is bound,    *)
(* and it is the entry of the process that holds the address (state). And    *)
(* the retries of a bind outlast the broker that is being replaced: a broker *)
(* gives the address up only when another program had it, or after its own   *)
(* server had failed, never because of the grace of the broker before it      *)
(* (broker.go:38-40).                                                        *)
AddressIsHeld ==
    \A b \in Brokers :
        /\ entry[b].is = "bound" <=> address = b
        /\ In(b, "serving") /\ ~broker[b].stop /\ entry[b].is = "unbound" => entry[b].foreign

(* An address that a broker was asked for is bound in the end, unless the    *)
(* broker stops or another program holds it (listeners.go:118-134).          *)
AddressBound ==
    \A b \in Brokers :
        entry[b].is = "binding" ~> entry[b].is # "binding"
============================================================================

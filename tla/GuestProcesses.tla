--------------------------- MODULE GuestProcesses ---------------------------
(* prison-guest as PID 1 of a box: it boots, starts the command of the box,  *)
(* forwards signals, reaps every child, runs helper programs of its own, and *)
(* serves the exec requests of the host.  The exit status of a child can be  *)
(* collected once: the reaper collects those of everybody, while a helper    *)
(* program wants its own and an exec session must be given the one of the    *)
(* process that it started.                                                  *)
EXTENDS Naturals, Sequences, SequencesExt, FiniteSets

CONSTANTS
    Execs,            \* exec requests of the host, each with its process
    Orphans,          \* processes that a command leaves running, and PID 1 adopts
    Left,             \* the one that the command of an exec may leave
    Main,             \* the command of the box
    Helper,           \* the helper program of the moment
    PidOf,            \* the pid that the kernel gives to a process
    SignalCapacity,   \* places of the channel of signals
    MaxHelperRuns,    \* helper programs that run
    MaxStops,         \* times that somebody signals PID 1
    None

ASSUME GuestProcessesBounds ==
    SignalCapacity \in Nat /\ MaxHelperRuns \in Nat /\ MaxStops \in Nat

(* Two processes may have the same pid, one after the other.                 *)
ASSUME GuestProcessesPids ==
    \A p \in Execs \cup Orphans \cup {Main, Helper} : PidOf[p] \in Nat \ {0}

(* A process is of one kind, and was left running by one exec at most.       *)
ASSUME GuestProcessesApart ==
    /\ Execs \cap Orphans = {} /\ Main # Helper
    /\ {Main, Helper} \cap (Execs \cup Orphans) = {}
    /\ Left \in [Execs -> Orphans] /\ \A d, e \in Execs : Left[d] = Left[e] => d = e

Processes == Execs \cup Orphans \cup {Main, Helper}
Statuses == {"own", "killed"}

\* The kernel goes through the pids in turn: none is given again while somebody
\* still has to do with the process that had it.
DistinctPids == \A p, q \in Processes : PidOf[p] = PidOf[q] => p = q

VARIABLES
    proc,         \* the process in the kernel
    status,       \* how it ended
    signals,      \* the channel of supervise
    stops,        \* signals that were sent to PID 1
    supervisor,   \* what PID 1 is doing
    reaped,       \* reapChildren has met the command of the box
    forceKill,    \* the timer after which the command is killed
    brokerAnswered,
    boxExit,      \* the exit code of PID 1
    helper,       \* commandRunner.run
    helperRuns,
    owned,        \* pids whose owner waits
    unclaimed,    \* exits that nobody waited for, by pid
    session,      \* serveExec
    exited,       \* the channel that register returns
    finished,
    output,       \* the goroutine of copyOutput
    input,        \* the goroutine of copyInput
    piped,        \* output that waits in the pipe
    written,      \* output that the command ever wrote
    cut,          \* closeParentEnds was called
    connected,    \* the connection to the host
    frames        \* what the host has received

kernelVars == <<proc, status>>
signalVars == <<signals, stops>>
superVars == <<supervisor, reaped, forceKill, brokerAnswered, boxExit>>
runnerVars == <<owned, unclaimed>>
helperVars == <<helper, helperRuns>>
streamVars == <<output, input, piped, written, cut, connected, frames>>
execVars == <<session, exited, finished>>
processVars == <<kernelVars, signalVars, superVars, runnerVars, helperVars, streamVars, execVars>>

Pids == {PidOf[p] : p \in Processes}
Exit == [of : Processes, status : Statuses]
\* Exit codes of PID 1 that are its own: 1 or 2, and 128 + the signal.
Failure == [of |-> None, status |-> "failure"]
BySignal == [of |-> None, status |-> "signal"]

(* The state is made of these values. *)
ProcessesTypeOK ==
    /\ proc \in [Processes -> {"none", "running", "zombie", "gone"}]
    /\ status \in [Processes -> Statuses \cup {None}]
    /\ signals \in Seq({"CHLD", "TERM", "INT"}) /\ Len(signals) <= SignalCapacity
    /\ stops \in 0 .. MaxStops
    /\ supervisor \in {"boot", "select", "lock", "reap", "ended"}
    /\ reaped \in Exit \cup {None}
    /\ forceKill \in {"nil", "armed"}
    /\ brokerAnswered \in {"open", "closed", "taken"}
    /\ boxExit \in Exit \cup {None, Failure, BySignal}
    /\ helper \in {"idle", "waits", "holds", "forked", "ok", "failed"}
    /\ helperRuns \in 0 .. MaxHelperRuns
    /\ owned \subseteq Pids
    /\ unclaimed \in [Pids -> Exit \cup {None}]
    /\ session \in [Execs -> {"none", "forked", "waiting", "draining", "cut", "done"}]
    /\ exited \in [Execs -> Exit \cup {None}]
    /\ finished \in [Execs -> BOOLEAN]
    /\ output \in [Execs -> {"off", "reading", "sending", "done"}]
    /\ input \in [Execs -> {"off", "reading", "done"}]
    /\ piped \in [Execs -> 0 .. 1] /\ written \in [Execs -> 0 .. 1]
    /\ cut \in [Execs -> BOOLEAN]
    /\ connected \in [Execs -> BOOLEAN]
    /\ frames \in [Execs -> Seq({"out", "exit", "failure"})]

\* The box is about to boot, or never does.
ProcessesInit ==
    /\ proc = [p \in Processes |-> "none"]
    /\ status = [p \in Processes |-> None]
    /\ signals = <<>> /\ stops = 0
    /\ supervisor \in {"boot", "ended"} /\ reaped = None /\ forceKill = "nil"
    /\ brokerAnswered = "open" /\ boxExit = None
    /\ helper = "idle" /\ helperRuns = 0
    /\ owned = {} /\ unclaimed = [n \in Pids |-> None]
    /\ session = [e \in Execs |-> "none"]
    /\ exited = [e \in Execs |-> None]
    /\ finished = [e \in Execs |-> FALSE]
    /\ output = [e \in Execs |-> "off"]
    /\ input = [e \in Execs |-> "off"]
    /\ piped = [e \in Execs |-> 0]
    /\ written = [e \in Execs |-> 0]
    /\ cut = [e \in Execs |-> FALSE]
    /\ connected = [e \in Execs |-> FALSE]
    /\ frames = [e \in Execs |-> <<>>]

Up == supervisor # "ended"

-----------------------------------------------------------------------------
(* The kernel. *)

\* No two processes have one pid, a zombie included.
Made(p) ==
    /\ \A q \in Processes : proc[q] \in {"running", "zombie"} => PidOf[q] # PidOf[p]
    /\ proc' = [proc EXCEPT ![p] = "running"]
    /\ status' = [status EXCEPT ![p] = None]

\* signal.Notify never blocks: a signal that finds the channel full is lost.
Notified(queue, signal) == IF Len(queue) < SignalCapacity THEN Append(queue, signal) ELSE queue

\* The running processes of S end; each is a zombie until it is waited for.
Ended(S, how, queue) ==
    LET dead == {p \in S : proc[p] = "running"}
    IN  /\ proc' = [p \in Processes |-> IF p \in dead THEN "zombie" ELSE proc[p]]
        /\ status' = [p \in Processes |-> IF p \in dead THEN how ELSE status[p]]
        /\ signals' = IF dead = {} THEN queue ELSE Notified(queue, "CHLD")

\* A process ends by itself.
ProcessEnds(p) ==
    /\ Up
    /\ proc[p] = "running"
    /\ Ended({p}, "own", signals)
    /\ UNCHANGED <<stops, superVars, runnerVars, helperVars, streamVars, execVars>>

\* The command starts a process that goes on after it, in its group.
LeavesRunning(e) ==
    /\ Up
    /\ proc[e] = "running" /\ proc[Left[e]] = "none"
    /\ Made(Left[e])
    /\ UNCHANGED <<signalVars, superVars, runnerVars, helperVars, streamVars, execVars>>

\* The pipe of the output is open as long as one of these runs.
Holders(e) == {p \in {e, Left[e]} : proc[p] = "running"}

ProcessWrites(e) ==
    /\ Up
    /\ Holders(e) # {}
    /\ written[e] = 0 /\ ~cut[e]
    /\ written' = [written EXCEPT ![e] = 1]
    /\ piped' = [piped EXCEPT ![e] = 1]
    /\ UNCHANGED <<output, input, cut, connected, frames>>
    /\ UNCHANGED <<kernelVars, signalVars, superVars, runnerVars, helperVars, execVars>>

\* The host stops the box, or the agent was asked for a shutdown.
Signalled(signal) ==
    /\ Up
    /\ stops < MaxStops
    /\ stops' = stops + 1
    /\ signals' = Notified(signals, signal)
    /\ UNCHANGED <<kernelVars, superVars, runnerVars, helperVars, streamVars, execVars>>

-----------------------------------------------------------------------------
(* runInit and supervise. *)

\* The end of PID 1 is the end of the box: nothing of it is left.
End(code) ==
    /\ supervisor' = "ended" /\ reaped' = None /\ forceKill' = "nil"
    /\ brokerAnswered' = "taken" /\ boxExit' = code
    /\ proc' = [p \in Processes |-> "gone"] /\ UNCHANGED status
    /\ signals' = <<>> /\ UNCHANGED stops
    /\ owned' = {} /\ unclaimed' = [n \in Pids |-> None]
    /\ helper' = "idle" /\ UNCHANGED helperRuns
    /\ session' = [e \in Execs |-> "done"]
    /\ exited' = [e \in Execs |-> None] /\ finished' = [e \in Execs |-> TRUE]
    /\ output' = [e \in Execs |-> "done"] /\ input' = [e \in Execs |-> "done"]
    /\ piped' = [e \in Execs |-> 0] /\ written' = [e \in Execs |-> 0]
    /\ cut' = [e \in Execs |-> TRUE]
    /\ connected' = [e \in Execs |-> FALSE] /\ frames' = [e \in Execs |-> <<>>]

\* runContainerInit: the firewall, the mounts and the name server, in order.
Boot ==
    /\ supervisor = "boot"
    /\ \/ /\ supervisor' = "select"
          /\ UNCHANGED <<kernelVars, streamVars, reaped, forceKill, brokerAnswered, boxExit>>
          /\ UNCHANGED <<signalVars, runnerVars, helperVars, execVars>>
       \/ End(Failure)

\* The refresher has an answer of the broker, or has waited long enough.
CloseFirstAnswer ==
    /\ Up
    /\ supervisor # "boot" /\ brokerAnswered = "open"
    /\ brokerAnswered' = "closed"
    /\ UNCHANGED <<supervisor, reaped, forceKill, boxExit>>
    /\ UNCHANGED <<kernelVars, signalVars, runnerVars, helperVars, streamVars, execVars>>

StartMain ==
    /\ supervisor = "select" /\ brokerAnswered = "closed"
    /\ \/ /\ Made(Main)
          /\ brokerAnswered' = "taken"
          /\ UNCHANGED <<supervisor, reaped, forceKill, boxExit, streamVars>>
          /\ UNCHANGED <<signalVars, runnerVars, helperVars, execVars>>
       \/ End(Failure)

childStarted == brokerAnswered = "taken"

\* A SIGCHLD: supervise waits for the lock of the reaper.
TakeChild ==
    /\ supervisor = "select" /\ signals # <<>> /\ Head(signals) = "CHLD"
    /\ signals' = Tail(signals)
    /\ supervisor' = "lock"
    /\ UNCHANGED <<stops, reaped, forceKill, brokerAnswered, boxExit>>
    /\ UNCHANGED <<kernelVars, runnerVars, helperVars, streamVars, execVars>>

ArmNoTimer(signal) == forceKill

ArmTimer(signal) == IF signal = "TERM" THEN "armed" ELSE forceKill

\* The command of the box may end at the signal, or ignore it.
TakeStop ==
    /\ supervisor = "select" /\ signals # <<>> /\ Head(signals) # "CHLD"
    /\ IF ~childStarted
       THEN End(BySignal)
       ELSE /\ \/ Ended({Main}, "own", Tail(signals))
               \/ signals' = Tail(signals) /\ UNCHANGED kernelVars
            /\ forceKill' = ArmTimer(Head(signals))
            /\ UNCHANGED <<supervisor, reaped, brokerAnswered, boxExit, streamVars>>
            /\ UNCHANGED <<stops, runnerVars, helperVars, execVars>>

ForceKill ==
    /\ supervisor = "select" /\ forceKill = "armed"
    /\ forceKill' = "nil"
    /\ Ended({Main}, "killed", signals)
    /\ UNCHANGED <<supervisor, reaped, brokerAnswered, boxExit, stops>>
    /\ UNCHANGED <<runnerVars, helperVars, streamVars, execVars>>

\* The name server or the tunnel has failed.
Fatal ==
    /\ supervisor = "select"
    /\ End(Failure)

LockReaperAtOnce ==
    /\ supervisor = "lock"
    /\ supervisor' = "reap" /\ reaped' = None
    /\ UNCHANGED <<forceKill, brokerAnswered, boxExit>>
    /\ UNCHANGED <<kernelVars, signalVars, runnerVars, helperVars, streamVars, execVars>>

\* exclusively: the reaper waits until no helper program runs.
LockReaper ==
    /\ supervisor = "lock"
    /\ helper \notin {"holds", "forked"}
    /\ supervisor' = "reap" /\ reaped' = None
    /\ UNCHANGED <<forceKill, brokerAnswered, boxExit>>
    /\ UNCHANGED <<kernelVars, signalVars, runnerVars, helperVars, streamVars, execVars>>

\* The children of PID 1 that wait to be collected.
Zombies ==
    {p \in Processes : /\ proc[p] = "zombie"
                       /\ \A e \in Execs : Left[e] = p => proc[e] # "running"}

\* An unknown exit is kept, and entries older than unclaimedLifetime go.  An
\* exec that has started its process registers it well within that time.
deliverExit(p) ==
    LET n == PidOf[p]
        exit == [of |-> p, status |-> status[p]]
        recent == {PidOf[e] : e \in {x \in Execs : session[x] = "forked"}}
        known == {k \in Pids : unclaimed[k] # None}
    IN  IF n \in owned
        THEN /\ owned' = owned \ {n}
             /\ exited' = [e \in Execs |-> IF session[e] = "waiting" /\ PidOf[e] = n
                                           THEN exit ELSE exited[e]]
             /\ UNCHANGED unclaimed
        ELSE /\ \E stale \in SUBSET (known \ recent) :
                    unclaimed' = [k \in Pids |-> IF k = n THEN exit
                                               ELSE IF k \in stale THEN None ELSE unclaimed[k]]
             /\ UNCHANGED <<owned, exited>>

\* One turn of the loop of reapChildren.
Reap(p) ==
    /\ supervisor = "reap"
    /\ p \in Zombies
    /\ proc' = [proc EXCEPT ![p] = "gone"]
    /\ reaped' = IF childStarted /\ PidOf[p] = PidOf[Main] THEN [of |-> p, status |-> status[p]]
                 ELSE reaped
    /\ deliverExit(p)
    /\ UNCHANGED <<status, supervisor, forceKill, brokerAnswered, boxExit>>
    /\ UNCHANGED <<signalVars, helperVars, streamVars, session, finished>>

ReapEnds ==
    /\ supervisor = "reap"
    /\ Zombies = {}
    /\ \/ /\ reaped # None
          /\ End(reaped)
       \/ /\ reaped = None
          /\ supervisor' = "select"
          /\ UNCHANGED <<kernelVars, streamVars, reaped, forceKill, brokerAnswered, boxExit>>
          /\ UNCHANGED <<signalVars, runnerVars, helperVars, execVars>>

-----------------------------------------------------------------------------
(* commandRunner.run: a helper program under the read lock.  A reaper that   *)
(* waits goes before a new reader.                                           *)

HelperAsks ==
    /\ Up
    /\ supervisor # "boot" /\ helperRuns < MaxHelperRuns
    /\ helper \in {"idle", "ok", "failed"} /\ proc[Helper] \in {"none", "gone"}
    /\ helper' = "waits" /\ helperRuns' = helperRuns + 1
    /\ UNCHANGED <<kernelVars, signalVars, superVars, runnerVars, streamVars, execVars>>

HelperLocks ==
    /\ Up
    /\ helper = "waits" /\ supervisor \notin {"lock", "reap"}
    /\ helper' = "holds"
    /\ UNCHANGED <<kernelVars, signalVars, superVars, runnerVars, helperRuns, streamVars, execVars>>

HelperForks ==
    /\ Up
    /\ helper = "holds"
    /\ Made(Helper)
    /\ helper' = "forked"
    /\ UNCHANGED <<signalVars, superVars, runnerVars, helperRuns, streamVars, execVars>>

\* CombinedOutput waits for its child, and fails when the status is gone.
HelperWaits ==
    /\ Up
    /\ helper = "forked" /\ proc[Helper] \in {"zombie", "gone"}
    /\ helper' = IF proc[Helper] = "zombie" THEN "ok" ELSE "failed"
    /\ proc' = [proc EXCEPT ![Helper] = "gone"]
    /\ UNCHANGED status
    /\ UNCHANGED <<signalVars, superVars, runnerVars, helperRuns, streamVars, execVars>>

-----------------------------------------------------------------------------
(* serveExec. *)

\* The context of the host ends, or the connection fails.
HostLeaves(e) ==
    /\ Up
    /\ connected[e]
    /\ connected' = [connected EXCEPT ![e] = FALSE]
    /\ UNCHANGED <<output, input, piped, written, cut, frames>>
    /\ UNCHANGED <<kernelVars, signalVars, superVars, runnerVars, helperVars, execVars>>

Sent(e, frame) == IF connected[e] THEN [frames EXCEPT ![e] = Append(@, frame)] ELSE frames

\* The host sends a request (Driver.Exec), and its command is not found or
\* cannot be started.
ExecFails(e) ==
    /\ Up
    /\ session[e] = "none"
    /\ session' = [session EXCEPT ![e] = "done"]
    /\ frames' = [frames EXCEPT ![e] = <<"failure">>]
    /\ UNCHANGED <<output, input, piped, written, cut, connected, exited, finished>>
    /\ UNCHANGED <<kernelVars, signalVars, superVars, runnerVars, helperVars>>

\* startOwned starts the process without the lock of the reaper.
ExecForks(e) ==
    /\ Up
    /\ session[e] = "none"
    /\ Made(e)
    /\ session' = [session EXCEPT ![e] = "forked"]
    /\ connected' = [connected EXCEPT ![e] = TRUE]
    /\ UNCHANGED <<exited, finished, output, input, piped, written, cut, frames>>
    /\ UNCHANGED <<signalVars, superVars, runnerVars, helperVars>>

\* register: the reaper may have collected the process already.
Register(e) ==
    /\ Up
    /\ session[e] = "forked"
    /\ session' = [session EXCEPT ![e] = "waiting"]
    /\ output' = [output EXCEPT ![e] = "reading"]
    /\ input' = [input EXCEPT ![e] = "reading"]
    /\ IF unclaimed[PidOf[e]] # None
       THEN /\ exited' = [exited EXCEPT ![e] = unclaimed[PidOf[e]]]
            /\ unclaimed' = [unclaimed EXCEPT ![PidOf[e]] = None]
            /\ UNCHANGED owned
       ELSE /\ owned' = owned \cup {PidOf[e]}
            /\ UNCHANGED <<exited, unclaimed>>
    /\ UNCHANGED <<finished, piped, written, cut, connected, frames>>
    /\ UNCHANGED <<kernelVars, signalVars, superVars, helperVars>>

ExecExited(e) ==
    /\ Up
    /\ session[e] = "waiting" /\ exited[e] # None
    /\ session' = [session EXCEPT ![e] = "draining"]
    /\ finished' = [finished EXCEPT ![e] = TRUE]
    /\ UNCHANGED <<exited, streamVars>>
    /\ UNCHANGED <<kernelVars, signalVars, superVars, runnerVars, helperVars>>

\* outputDrainTimeout: a background process can keep the output open.
DrainTimeout(e) ==
    /\ Up
    /\ session[e] = "draining" /\ output[e] # "done"
    /\ session' = [session EXCEPT ![e] = "cut"]
    /\ cut' = [cut EXCEPT ![e] = TRUE]
    /\ UNCHANGED <<output, input, piped, written, connected, frames, exited, finished>>
    /\ UNCHANGED <<kernelVars, signalVars, superVars, runnerVars, helperVars>>

Drained(e) == session[e] \in {"draining", "cut"} /\ output[e] = "done"

\* The exit frame ends the session, and its connection.
SendExit(e) ==
    /\ Up
    /\ Drained(e)
    /\ session' = [session EXCEPT ![e] = "done"]
    /\ frames' = Sent(e, "exit")
    /\ cut' = [cut EXCEPT ![e] = TRUE]
    /\ connected' = [connected EXCEPT ![e] = FALSE]
    /\ UNCHANGED <<output, input, piped, written, exited, finished>>
    /\ UNCHANGED <<kernelVars, signalVars, superVars, runnerVars, helperVars>>

\* forward: output, the end of the pipe, or an end that was closed.
ReadOutput(e) ==
    /\ Up
    /\ output[e] = "reading"
    /\ \/ /\ ~cut[e] /\ piped[e] > 0
          /\ piped' = [piped EXCEPT ![e] = @ - 1]
          /\ output' = [output EXCEPT ![e] = "sending"]
       \/ /\ cut[e] \/ (piped[e] = 0 /\ Holders(e) = {})
          /\ output' = [output EXCEPT ![e] = "done"]
          /\ UNCHANGED piped
    /\ UNCHANGED <<input, written, cut, connected, frames>>
    /\ UNCHANGED <<kernelVars, signalVars, superVars, runnerVars, helperVars, execVars>>

SendOutput(e) ==
    /\ Up
    /\ output[e] = "sending"
    /\ frames' = Sent(e, "out")
    /\ output' = [output EXCEPT ![e] = IF connected[e] THEN "reading" ELSE "done"]
    /\ UNCHANGED <<input, piped, written, cut, connected>>
    /\ UNCHANGED <<kernelVars, signalVars, superVars, runnerVars, helperVars, execVars>>

\* The host went away.  SIGKILL ends the group of the command; the SIGHUP of
\* a terminal may be ignored.
InputEnds(e) ==
    /\ Up
    /\ input[e] = "reading" /\ ~connected[e]
    /\ input' = [input EXCEPT ![e] = "done"]
    /\ \/ /\ ~finished[e]
          /\ Ended(UNION {Holders(x) : x \in {y \in Execs : PidOf[y] = PidOf[e]}}, "killed", signals)
       \/ UNCHANGED <<kernelVars, signals>>
    /\ UNCHANGED <<output, piped, written, cut, connected, frames, stops>>
    /\ UNCHANGED <<superVars, runnerVars, helperVars, execVars>>

-----------------------------------------------------------------------------
Supervise ==
    \/ Boot \/ StartMain \/ TakeChild \/ TakeStop \/ ForceKill
    \/ LockReaper \/ ReapEnds
    \/ \E p \in Processes : Reap(p)

RunHelper == HelperLocks \/ HelperForks \/ HelperWaits

ServeExec(e) ==
    \/ Register(e) \/ ExecExited(e) \/ DrainTimeout(e) \/ SendExit(e)

CopyOutput(e) == ReadOutput(e) \/ SendOutput(e)

ProcessesNext ==
    \/ Supervise \/ RunHelper \/ HelperAsks
    \/ CloseFirstAnswer \/ Fatal
    \/ \E p \in Processes : ProcessEnds(p)
    \/ \E s \in {"TERM", "INT"} : Signalled(s)
    \/ \E e \in Execs :
         \/ ServeExec(e) \/ CopyOutput(e) \/ InputEnds(e)
         \/ ExecForks(e) \/ ExecFails(e) \/ HostLeaves(e)
         \/ LeavesRunning(e) \/ ProcessWrites(e)

(* The goroutines of the agent run, timers fire, and a helper program ends.  *)
(* Nothing is assumed of the commands of the box, of the host or of the      *)
(* broker.                                                                   *)
ProcessesFairness ==
    /\ WF_processVars(Supervise)
    /\ WF_processVars(ForceKill)
    /\ WF_processVars(RunHelper)
    /\ WF_processVars(ProcessEnds(Helper))
    /\ \A e \in Execs : WF_processVars(ServeExec(e)) /\ WF_processVars(CopyOutput(e)) /\ WF_processVars(InputEnds(e))

-----------------------------------------------------------------------------
OutputBeforeExit ==
    \A e \in Execs :
        /\ \A i \in DOMAIN frames[e] :
            frames[e][i] = "exit" =>
                /\ i = Len(frames[e])
                /\ output[e] = "done"
                /\ \/ piped[e] > 0 /\ cut[e]
                   \/ written[e] = Cardinality({k \in DOMAIN frames[e] : frames[e][k] = "out"})
        /\ session[e] = "draining" /\ connected[e] /\ output[e] = "done" => piped[e] = 0

(* The exit status of a child reaches the one that started it: the host gets *)
(* that of its own command, the exit code of the box is the one of the       *)
(* command of the box, and a helper program finds its own although the       *)
(* reaper collects every child (commandRunner). The exit frame is the last   *)
(* thing that the host receives, and all that the command wrote comes before *)
(* it unless the drain timeout cut the rest off (serveExec waits for         *)
(* copyOutput).                                                              *)
ExitsReachTheirOwners ==
    /\ OutputBeforeExit
    /\ \A e \in Execs : exited[e] # None => exited[e] = [of |-> e, status |-> status[e]]
    /\ boxExit \notin {None, Failure, BySignal} => boxExit = [of |-> Main, status |-> status[Main]]
    /\ helper # "failed"

(* Every wait of the agent ends.  A SIGTERM that reached supervise ends the  *)
(* box, whatever the command of the box, the execs and the helper programs   *)
(* do (childStopTimeout).  An exec whose process has ended is answered, or   *)
(* the box is gone: no exit is lost between the reaper and register, and no  *)
(* process that was left in the background holds the answer back.            *)
WaitsEnd ==
    /\ Contains(signals, "TERM") ~> supervisor = "ended"
    /\ \A e \in Execs :
         (session[e] \in {"forked", "waiting", "draining", "cut"} /\ proc[e] # "running")
             ~> (session[e] = "done" \/ supervisor = "ended")
=============================================================================

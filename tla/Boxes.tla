------------------------------- MODULE Boxes -------------------------------
(***************************************************************************)
(* The box store of the Firecracker driver                                  *)
(* (internal/isolator/firecracker/boxes.go) as the prison commands use it.  *)
(* Every command is a process of its own that works on files, on the export *)
(* table of the NFS helper and on Firecracker processes; the only lock is   *)
(* the flock that lockBoxes takes around the choice of a tap and around the *)
(* removal of a box directory.                                              *)
(*                                                                          *)
(* Abstracted: a box has one mount (a request about several mounts that     *)
(* fails halfway is the "failed, yet it changed the table" outcome), there  *)
(* is one network, and RemoveAll of a box directory is one step.            *)
(***************************************************************************)
EXTENDS Integers, FiniteSets

CONSTANTS
    Procs,        \* prison processes
    Boxes,        \* box names
    NoBox,        \* the box of a process that runs no command
    TapPoolSize,  \* taps of the network (tapPoolSize)
    Pids,         \* bound: process numbers of Firecracker, told apart per box
    MaxCrashes,   \* bound: commands that die between two of their steps
    Exclusive     \* TRUE: no two commands work on the same box at once

ASSUME TapPoolAssumption == TapPoolSize \in Nat \ {0}
ASSUME BoundsAssumption == Pids \subseteq Nat \ {0} /\ MaxCrashes \in Nat
ASSUME NoBoxAssumption == NoBox \notin Boxes
ASSUME ExclusiveAssumption == Exclusive \in BOOLEAN

Taps == 0 .. TapPoolSize - 1
Absent == -1      \* there is no box.json
Torn == -2        \* box.json is there and does not parse
NoProcess == 0

Commands == {"up", "down", "rm"}
\* Phases of a command that hold the flock of lockBoxes.
CreatePhases == {"choose", "write", "copy"}
LockPhases == CreatePhases \cup {"remove"}
Phases == LockPhases \cup
    {"idle", "look", "lock", "cleanup", "start", "export", "spawn", "pid",
     "stop", "kill", "unexport", "lockrm"}

VARIABLES
    record,     \* box -> the tap in its box.json, Absent or Torn
    disk,       \* boxes whose rootfs copy is complete
    pidFile,    \* box -> the process its firecracker.pid names, or NoProcess
    vms,        \* running Firecracker processes [id, box, tap]
    exports,    \* shares of the NFS server [box, tap]: the address is the tap's
    lock,       \* the processes that hold the flock
    crashes,    \* commands that died
    job         \* process -> its command and the locals it carries

files == <<record, disk, pidFile>>
vars == <<record, disk, pidFile, vms, exports, lock, crashes, job>>

Idle == [pc |-> "idle", cmd |-> "up", box |-> NoBox, tap |-> Absent,
         id |-> NoProcess, last |-> FALSE]

Share == [box : Boxes, tap : Taps]
VM == [id : Pids, box : Boxes, tap : Taps]
Job == [pc : Phases, cmd : Commands, box : Boxes \cup {NoBox}, tap : Taps \cup {Absent},
        id : Pids \cup {NoProcess}, last : BOOLEAN]

Init ==
    /\ record = [b \in Boxes |-> Absent]
    /\ disk = {}
    /\ pidFile = [b \in Boxes |-> NoProcess]
    /\ vms = {}
    /\ exports = {}
    /\ lock = {}
    /\ crashes = 0
    /\ job = [p \in Procs |-> Idle]

----------------------------------------------------------------------------
At(p, phase) == job[p].pc = phase
Goto(p, phase) == job' = [job EXCEPT ![p].pc = phase]
Return(p) == job' = [job EXCEPT ![p] = Idle]
Working(b) == {p \in Procs : job[p].pc # "idle" /\ job[p].box = b}

\* processOf: the pid file counts only while it names a live process of the box.
Running(b) == \E v \in vms : v.box = b /\ v.id = pidFile[b]

UsedTapsOfRunning == {record[b] : b \in {c \in Boxes : Running(c)}} \cap Taps

\* freeTapIndex: ListBoxes gives up on the first record that does not parse.
UsedTaps == {record[b] : b \in Boxes} \cap Taps
FreeTap == {t \in Taps \ UsedTaps : \A u \in Taps \ UsedTaps : t <= u}
\* The number of a new process of a box: one that nothing names any more.
\* processOf compares the command line, so boxes need not be told apart.
UnnamedPids(b) ==
    Pids \ ({pidFile[b]} \cup {v.id : v \in {w \in vms : w.box = b}}
                         \cup {job[p].id : p \in Working(b)})
FreshPid(b, i) == i \in UnnamedPids(b) /\ \A j \in UnnamedPids(b) : i <= j

RecordsReadable == \A b \in Boxes : record[b] # Torn

\* os.RemoveAll of the directory of a box.
DirectoryRemoved(b) ==
    /\ record' = [record EXCEPT ![b] = Absent]
    /\ disk' = disk \ {b}
    /\ pidFile' = [pidFile EXCEPT ![b] = NoProcess]

----------------------------------------------------------------------------
(* A command starts: `prison up`, `prison down` or `prison rm` of one box.  *)
Begin(p) ==
    /\ At(p, "idle")
    /\ \E b \in Boxes, c \in Commands :
         /\ Exclusive => Working(b) = {}
         /\ job' = [job EXCEPT ![p] = [Idle EXCEPT !.pc = "look", !.cmd = c, !.box = b]]
    /\ UNCHANGED <<files, vms, exports, lock, crashes>>

(* Box: what the command sees decides where it goes; an unreadable record   *)
(* ends it.                                                                  *)
Look(p) ==
    LET b == job[p].box IN
    /\ At(p, "look")
    /\ \/ record[b] = Torn /\ Return(p)
       \/ record[b] = Absent /\ job[p].cmd = "up" /\ Goto(p, "lock")
       \/ record[b] = Absent /\ job[p].cmd # "up" /\ Return(p)
       \/ record[b] \in Taps /\ job[p].cmd = "up" /\ Running(b) /\ Return(p)
       \/ record[b] \in Taps /\ job[p].cmd = "up" /\ ~Running(b) /\ Goto(p, "start")
       \/ record[b] \in Taps /\ job[p].cmd # "up" /\ Goto(p, "stop")
    /\ UNCHANGED <<files, vms, exports, lock, crashes>>

\* Start: the record is read again, without the lock.
Start(p) ==
    LET b == job[p].box IN
    /\ At(p, "start")
    /\ IF record[b] \in Taps /\ ~Running(b)
       THEN job' = [job EXCEPT ![p].pc = "export", ![p].tap = record[b]]
       ELSE Return(p)
    /\ UNCHANGED <<files, vms, exports, lock, crashes>>

\* lockBoxes, in Create and in Delete.
Lock(p) ==
    /\ lock = {}
    /\ lock' = {p}
    /\ \/ At(p, "lock") /\ Goto(p, "choose")
       \/ At(p, "lockrm") /\ Goto(p, "remove")
    /\ UNCHANGED <<files, vms, exports, crashes>>

\* Create under the lock: the box exists after all, no tap can be chosen, or
\* the lowest free tap is chosen and box.json is created.
Choose(p) ==
    LET b == job[p].box IN
    /\ At(p, "choose")
    /\ \/ /\ record[b] \in Taps
          /\ lock' = {}
          /\ Return(p)
          /\ UNCHANGED record
       \/ /\ record[b] \notin Taps
          /\ lock' = {}
          /\ Goto(p, "cleanup")
          /\ UNCHANGED record
       \/ \E t \in FreeTap :
          /\ record[b] \notin Taps
          /\ RecordsReadable
          /\ record' = [record EXCEPT ![b] = Torn]
          /\ job' = [job EXCEPT ![p].pc = "write", ![p].tap = t]
          /\ UNCHANGED lock
    /\ UNCHANGED <<disk, pidFile, exports, vms, crashes>>

\* writeBox, first half: box.json is whole, or its write failed, as it does
\* when the failed Create of another command removed the directory.
WriteRecord(p) ==
    LET b == job[p].box IN
    /\ At(p, "write")
    /\ \/ /\ record[b] = Torn
          /\ record' = [record EXCEPT ![b] = job[p].tap]
          /\ Goto(p, "copy")
          /\ UNCHANGED lock
       \/ lock' = {} /\ Goto(p, "cleanup") /\ UNCHANGED record
    /\ UNCHANGED <<disk, pidFile, exports, vms, crashes>>

CopyDiskKeepsLock(p) ==
    /\ At(p, "copy")
    /\ \/ disk' = disk \cup {job[p].box} /\ Goto(p, "export") /\ lock' = {}
       \/ UNCHANGED <<disk, lock>> /\ Goto(p, "cleanup")
    /\ UNCHANGED <<record, pidFile, exports, vms, crashes>>

\* writeBox, second half: the configuration disk and the copy of the rootfs.
\* Files that were open when the directory was removed are lost in silence.
CopyDisk(p) ==
    LET b == job[p].box IN
    /\ At(p, "copy")
    /\ lock' = {}
    /\ \/ disk' = disk \cup {c \in {b} : record[c] # Absent} /\ Goto(p, "export")
       \/ UNCHANGED disk /\ Goto(p, "cleanup")
    /\ UNCHANGED <<record, pidFile, exports, vms, crashes>>

CleanupSkipped(p) ==
    At(p, "cleanup") /\ Return(p) /\ UNCHANGED <<files, exports, vms, lock, crashes>>

\* Create failed: the directory is removed after the lock was given back.
Cleanup(p) ==
    /\ At(p, "cleanup")
    /\ DirectoryRemoved(job[p].box)
    /\ Return(p)
    /\ UNCHANGED <<exports, vms, lock, crashes>>

\* boot, exportMounts: the share is made for the address of the record's tap.
Export(p) ==
    LET share == [box |-> job[p].box, tap |-> job[p].tap] IN
    /\ At(p, "export")
    /\ \/ exports' = exports \cup {share} /\ Goto(p, "spawn")
       \/ exports' \in {exports, exports \cup {share}} /\ Return(p)
    /\ UNCHANGED <<record, disk, pidFile, vms, lock, crashes>>

\* boot, process.Start: nothing can be written when the directory is gone;
\* Firecracker exits at once when another process has the tap open or when
\* the rootfs of the box is not there.
Spawn(p) ==
    LET b == job[p].box
        t == job[p].tap
        lives == b \in disk /\ \A v \in vms : v.tap # t IN
    /\ At(p, "spawn")
    /\ \/ record[b] = Absent /\ Return(p) /\ UNCHANGED vms
       \/ \E pid \in Pids :
          /\ record[b] # Absent /\ FreshPid(b, pid)
          /\ vms' = IF lives THEN vms \cup {[id |-> pid, box |-> b, tap |-> t]} ELSE vms
          /\ job' = [job EXCEPT ![p].pc = "pid", ![p].id = pid]
    /\ UNCHANGED <<files, exports, lock, crashes>>

\* boot: the pid is recorded, and Firecracker is killed when it cannot be.
\* What follows, waitForAgent, changes nothing.
WritePid(p) ==
    LET b == job[p].box IN
    /\ At(p, "pid")
    /\ \/ /\ record[b] # Absent
          /\ pidFile' = [pidFile EXCEPT ![b] = job[p].id]
          /\ UNCHANGED vms
       \/ /\ vms' = {v \in vms : v.box # job[p].box \/ v.id # job[p].id}
          /\ UNCHANGED pidFile
    /\ Return(p)
    /\ UNCHANGED <<record, disk, exports, lock, crashes>>

\* The steps that can fail before they touch anything: the flock cannot be
\* opened, the kernel is missing, Firecracker does not start.
GiveUp(p) ==
    /\ job[p].pc \in {"lock", "lockrm", "export", "spawn"}
    /\ Return(p)
    /\ UNCHANGED <<files, vms, exports, lock, crashes>>

\* Stop: stopProcess looks for the process of the box.
Stop(p) ==
    LET b == job[p].box IN
    /\ At(p, "stop")
    /\ job' = [job EXCEPT ![p].pc = IF Running(b) THEN "kill" ELSE "unexport",
                          ![p].id = IF Running(b) THEN pidFile[b] ELSE NoProcess]
    /\ UNCHANGED <<files, vms, exports, lock, crashes>>

AfterStopAnyway(p, succeeded) ==
    IF job[p].cmd = "rm" THEN Goto(p, "lockrm") ELSE Return(p)

\* Where a Stop leads. destroyBox ignores the result of its own Stop; the one
\* in Delete must succeed before anything is deleted. `prison down` returns.
AfterStop(p, succeeded) ==
    \/ /\ job[p].cmd = "rm" /\ ~job[p].last
       /\ job' = [job EXCEPT ![p].pc = "stop", ![p].last = TRUE, ![p].id = NoProcess]
    \/ /\ job[p].cmd = "rm" /\ job[p].last /\ succeeded
       /\ Goto(p, "lockrm")
    \/ /\ job[p].cmd # "rm" \/ (job[p].last /\ ~succeeded)
       /\ Return(p)

KillDoesNotWait(p) ==
    /\ At(p, "kill")
    /\ vms' \in {vms, {v \in vms : v.box # job[p].box \/ v.id # job[p].id}}
    /\ AfterStop(p, TRUE)
    /\ UNCHANGED <<files, exports, lock, crashes>>

\* stopProcess: asked to shut down, then killed; it can outlive the timeouts.
Kill(p) ==
    /\ At(p, "kill")
    /\ \/ vms' = {v \in vms : v.box # job[p].box \/ v.id # job[p].id} /\ Goto(p, "unexport")
       \/ UNCHANGED vms /\ AfterStop(p, FALSE)
    /\ UNCHANGED <<files, exports, lock, crashes>>

UnexportErrorDropped(p) ==
    /\ At(p, "unexport")
    /\ exports' \in {exports, exports \ {[box |-> job[p].box, tap |-> record[job[p].box]]}}
    /\ AfterStop(p, TRUE)
    /\ UNCHANGED <<record, disk, pidFile, vms, lock, crashes>>

\* unexportMounts for the tap that the record holds now. Stop skips it when it
\* cannot read the record.
Unexport(p) ==
    LET b == job[p].box
        fewer == exports \ {[box |-> b, tap |-> record[b]]} IN
    /\ At(p, "unexport")
    /\ \/ exports' = fewer /\ AfterStop(p, TRUE)
       \/ record[b] \in Taps /\ exports' \in {exports, fewer} /\ AfterStop(p, FALSE)
    /\ UNCHANGED <<record, disk, pidFile, vms, lock, crashes>>

\* Delete: the directory goes, which gives the tap back.
RemoveBox(p) ==
    /\ At(p, "remove")
    /\ lock' = {}
    /\ DirectoryRemoved(job[p].box)
    /\ Return(p)
    /\ UNCHANGED <<exports, vms, crashes>>

\* A command dies between two steps. The kernel drops its flock; Firecracker
\* has a session of its own and keeps running.
Crash(p) ==
    /\ crashes < MaxCrashes
    /\ ~At(p, "idle")
    /\ crashes' = crashes + 1
    /\ lock' = lock \ {p}
    /\ Return(p)
    /\ UNCHANGED <<files, vms, exports>>

\* A Firecracker process ends by itself: the guest powered off or panicked.
Exit(v) ==
    /\ vms' = vms \ {v}
    /\ UNCHANGED <<files, exports, lock, crashes, job>>

Step(p) ==
    \/ Look(p) \/ Start(p) \/ Lock(p) \/ Choose(p) \/ WriteRecord(p) \/ CopyDisk(p)
    \/ Cleanup(p) \/ Export(p) \/ Spawn(p) \/ WritePid(p)
    \/ Stop(p) \/ Kill(p) \/ Unexport(p) \/ RemoveBox(p)

Next ==
    \/ \E p \in Procs : Begin(p) \/ Step(p) \/ GiveUp(p) \/ Crash(p)
    \/ \E v \in vms : Exit(v)

Spec == Init /\ [][Next]_vars

\* A command that can take a step takes one, and flock is granted to a waiter
\* in the end: the kernel queues the waiters of a lock.
Fairness == \A p \in Procs : WF_vars(Step(p)) /\ SF_vars(Lock(p))
FairSpec == Spec /\ Fairness
----------------------------------------------------------------------------
TypeOK ==
    /\ record \in [Boxes -> Taps \cup {Absent, Torn}]
    /\ disk \subseteq Boxes
    /\ pidFile \in [Boxes -> Pids \cup {NoProcess}]
    /\ vms \subseteq VM
    /\ exports \subseteq Share
    /\ lock \subseteq Procs
    /\ crashes \in 0 .. MaxCrashes
    /\ job \in [Procs -> Job]

(* Two boxes never have the same tap, hence never the same address: the     *)
(* choice of a tap under the flock (Create, freeTapIndex) is sound even when *)
(* commands overlap and die.                                                 *)
TapsDistinct ==
    \A a, b \in Boxes : record[a] \in Taps /\ record[a] = record[b] => a = b

(* A directory of the host is shared only with the address of the box that  *)
(* has it as a mount. With TapsDistinct: an address that a new box reuses is *)
(* shared with nobody else's directories (unexportMounts comes before the    *)
(* delete), whatever failed and whatever died on the way.                    *)
SharesOwned ==
    \A e \in exports : record[e.box] = e.tap

(* A running box runs on the tap of its record: a directory is deleted, and *)
(* the tap given back, only after the process is gone (Stop in Delete), and  *)
(* boot never uses a record that was read too early. A process that no pid   *)
(* file names because a command died before the write is the exception.      *)
VmKeepsItsRecord ==
    \A v \in vms : crashes = 0 \/ v.id = pidFile[v.box] => record[v.box] = v.tap

(* Between its commands a box is never half there: its record, its disk and *)
(* its process agree, unless a command died. A failed Create, Stop or Delete *)
(* never leaves an unreadable record, a record without its disk, a process   *)
(* that no pid file names, or anything of a box without a record.            *)
QuietBoxWhole ==
    \A b \in Boxes : crashes = 0 /\ Working(b) = {} =>
        /\ record[b] # Torn
        /\ (record[b] = Absent) <=> (b \notin disk)
        /\ \A v \in vms : v.box = b => v.id = pidFile[b]

(* A command that is not killed returns: no path of Create or Delete keeps  *)
(* the flock, so a waiter always gets it.                                    *)
CommandsReturn == \A p \in Procs : ~At(p, "idle") ~> At(p, "idle")

\* The address that a box holds: the one of the tap in its record.
Held == [b \in Boxes |-> IF record[b] \in Taps THEN record[b] ELSE Absent]
Pool == INSTANCE AddressPool WITH
            Addresses <- Taps, None <- Absent, holds <- Held, shared <- exports

(* The store keeps the promise of the pool of addresses, through every       *)
(* failure and every death of a command: an address is assigned only when    *)
(* nothing is shared with it and released only after the last share is gone. *)
ImplementsPool == Pool!Spec
============================================================================

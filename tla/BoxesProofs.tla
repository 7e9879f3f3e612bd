---------------------------- MODULE BoxesProofs ----------------------------
(***************************************************************************)
(* Theorems about Boxes for every number of processes, boxes and taps.       *)
(*                                                                           *)
(* TapsDistinct needs no assumption on how commands overlap: it follows from *)
(* the flock. What is shared with an address, hence the refinement of        *)
(* AddressPool, and which processes and files a box has, need that the       *)
(* commands on one box do not overlap (Exclusive).                           *)
(***************************************************************************)
EXTENDS Boxes, TLAPS

USE TapPoolAssumption, BoundsAssumption, NoBoxAssumption, ExclusiveAssumption

----------------------------------------------------------------------------
(* Type correctness. TypeOK is not inductive: a step uses the locals of its  *)
(* command, which are set only from some phase on.                           *)

WellFormed(j) ==
    /\ j \in Job
    /\ j.pc # "idle" => j.box \in Boxes
    /\ j.pc \in {"write", "copy", "export", "spawn", "pid"} => j.tap \in Taps
    /\ j.pc = "pid" => j.id \in Pids

TypeInv == TypeOK /\ \A p \in Procs : WellFormed(job[p])

\* The initial states are well typed.
LEMMA InitType == Init => TypeInv
BY DEF Init, TypeInv, TypeOK, WellFormed, Idle, Job, Phases, LockPhases, CreatePhases,
       Commands, Absent, Torn, NoProcess, Taps

\* Only the job of the process that takes the step changes.
LEMMA JobStep ==
    ASSUME TypeInv, NEW p \in Procs, NEW j, WellFormed(j), job' = [job EXCEPT ![p] = j]
    PROVE  job' \in [Procs -> Job] /\ \A q \in Procs : WellFormed(job'[q])
BY DEF TypeInv, TypeOK, WellFormed

\* A command that returns is idle.
LEMMA ReturnType ==
    ASSUME TypeInv, NEW p \in Procs, Return(p)
    PROVE  job' \in [Procs -> Job] /\ \A q \in Procs : WellFormed(job'[q])
<1>1. WellFormed(Idle)
  BY DEF WellFormed, Idle, Job, Phases, Commands, Absent, NoProcess
<1>2. QED
  BY <1>1, JobStep DEF Return

\* A command that goes on keeps its locals; they suit its next phase.
LEMMA GotoType ==
    ASSUME TypeInv, NEW p \in Procs, NEW phase \in Phases, Goto(p, phase),
           ~At(p, "idle"),
           phase \in {"copy", "export", "spawn"} =>
               job[p].pc \in {"write", "copy", "export", "spawn"},
           phase \notin {"write", "pid"}
    PROVE  job' \in [Procs -> Job] /\ \A q \in Procs : WellFormed(job'[q])
<1>1. WellFormed([job[p] EXCEPT !.pc = phase])
  BY DEF TypeInv, WellFormed, Job, At
<1>2. job' = [job EXCEPT ![p] = [job[p] EXCEPT !.pc = phase]]
  BY DEF Goto
<1>3. QED
  BY <1>1, <1>2, JobStep

\* The phases that the steps go to are phases.
LEMMA PhaseType ==
    {"idle", "look", "lock", "choose", "write", "copy", "remove", "cleanup", "start",
     "export", "spawn", "pid", "stop", "kill", "unexport", "lockrm"} = Phases
BY DEF Phases, LockPhases, CreatePhases

\* After a Stop the command stops again, deletes or returns.
LEMMA AfterStopType ==
    ASSUME TypeInv, NEW p \in Procs, NEW s \in BOOLEAN, AfterStop(p, s), ~At(p, "idle")
    PROVE  job' \in [Procs -> Job] /\ \A q \in Procs : WellFormed(job'[q])
<1>1. CASE job' = [job EXCEPT ![p].pc = "stop", ![p].last = TRUE, ![p].id = NoProcess]
  <2>1. WellFormed([job[p] EXCEPT !.pc = "stop", !.last = TRUE, !.id = NoProcess])
    BY PhaseType DEF TypeInv, WellFormed, Job, At
  <2>2. job' = [job EXCEPT ![p] = [job[p] EXCEPT !.pc = "stop", !.last = TRUE,
                                                 !.id = NoProcess]]
    BY <1>1
  <2>3. QED
    BY <2>1, <2>2, JobStep
<1>2. CASE Goto(p, "lockrm")
  BY <1>2, GotoType, PhaseType
<1>3. CASE Return(p)
  BY <1>3, ReturnType
<1>4. QED
  BY <1>1, <1>2, <1>3 DEF AfterStop

\* Begin: the command names its box.
LEMMA BeginType == ASSUME TypeInv, NEW p \in Procs, Begin(p) PROVE TypeInv'
<1>1. PICK b \in Boxes, c \in Commands :
          job' = [job EXCEPT ![p] = [Idle EXCEPT !.pc = "look", !.cmd = c, !.box = b]]
  BY DEF Begin
<1>2. WellFormed([Idle EXCEPT !.pc = "look", !.cmd = c, !.box = b])
  BY PhaseType DEF WellFormed, Idle, Job, Absent, NoProcess
<1>3. job' \in [Procs -> Job] /\ \A q \in Procs : WellFormed(job'[q])
  BY <1>1, <1>2, JobStep
<1>4. QED
  BY <1>3 DEF Begin, TypeInv, TypeOK, files

\* Look: nothing but the phase changes.
LEMMA LookType == ASSUME TypeInv, NEW p \in Procs, Look(p) PROVE TypeInv'
<1>1. job[p].box \in Boxes
  BY DEF Look, At, TypeInv, WellFormed
<1>2. job' \in [Procs -> Job] /\ \A q \in Procs : WellFormed(job'[q])
  BY GotoType, ReturnType, PhaseType DEF Look, At
<1>9. QED
  BY <1>1, <1>2 DEF Look, TypeInv, TypeOK, files

\* Start: the tap comes from a complete record.
LEMMA StartType == ASSUME TypeInv, NEW p \in Procs, Start(p) PROVE TypeInv'
<1>1. CASE Return(p)
  BY <1>1, ReturnType DEF Start, TypeInv, TypeOK, files
<1>2. CASE /\ record[job[p].box] \in Taps
           /\ job' = [job EXCEPT ![p].pc = "export", ![p].tap = record[job[p].box]]
  <2>1. WellFormed([job[p] EXCEPT !.pc = "export", !.tap = record[job[p].box]])
    BY <1>2, PhaseType DEF Start, At, TypeInv, WellFormed, Job
  <2>2. job' = [job EXCEPT ![p] = [job[p] EXCEPT !.pc = "export", !.tap = record[job[p].box]]]
    BY <1>2
  <2>3. job' \in [Procs -> Job] /\ \A q \in Procs : WellFormed(job'[q])
    BY <2>1, <2>2, JobStep
  <2>4. QED
    BY <2>3 DEF Start, TypeInv, TypeOK, files
<1>3. QED
  BY <1>1, <1>2 DEF Start

\* Lock: one process holds the flock.
LEMMA LockType == ASSUME TypeInv, NEW p \in Procs, Lock(p) PROVE TypeInv'
<1>1. job[p].box \in Boxes
  BY DEF Lock, At, TypeInv, WellFormed
<1>2. job' \in [Procs -> Job] /\ \A q \in Procs : WellFormed(job'[q])
  BY GotoType, PhaseType DEF Lock, At
<1>9. QED
  BY <1>1, <1>2 DEF Lock, TypeInv, TypeOK, files

\* Choose: the tap is one of the pool.
LEMMA ChooseType == ASSUME TypeInv, NEW p \in Procs, Choose(p) PROVE TypeInv'
<1>b. job[p].box \in Boxes
  BY DEF Choose, At, TypeInv, WellFormed
<1>1. CASE /\ Return(p) \/ Goto(p, "cleanup")
           /\ UNCHANGED record /\ lock' = {}
  <2>1. job' \in [Procs -> Job] /\ \A q \in Procs : WellFormed(job'[q])
    BY <1>1, GotoType, ReturnType, PhaseType DEF Choose, At
  <2>2. QED
    BY <1>1, <2>1 DEF Choose, TypeInv, TypeOK
<1>2. CASE \E t \in FreeTap :
             /\ record' = [record EXCEPT ![job[p].box] = Torn]
             /\ job' = [job EXCEPT ![p].pc = "write", ![p].tap = t]
             /\ UNCHANGED lock
  <2>1. PICK t \in Taps : job' = [job EXCEPT ![p].pc = "write", ![p].tap = t]
    BY <1>2 DEF FreeTap
  <2>2. WellFormed([job[p] EXCEPT !.pc = "write", !.tap = t])
    BY <1>b, PhaseType DEF TypeInv, WellFormed, Job
  <2>3. job' = [job EXCEPT ![p] = [job[p] EXCEPT !.pc = "write", !.tap = t]]
    BY <2>1
  <2>4. job' \in [Procs -> Job] /\ \A q \in Procs : WellFormed(job'[q])
    BY <2>2, <2>3, JobStep
  <2>5. record' \in [Boxes -> Taps \cup {Absent, Torn}]
    BY <1>2 DEF TypeInv, TypeOK
  <2>6. QED
    BY <1>2, <2>4, <2>5 DEF Choose, TypeInv, TypeOK
<1>3. QED
  BY <1>1, <1>2 DEF Choose

\* WriteRecord: the record gets a tap.
LEMMA WriteRecordType == ASSUME TypeInv, NEW p \in Procs, WriteRecord(p) PROVE TypeInv'
<1>1. job[p].box \in Boxes /\ job[p].tap \in Taps
  BY DEF WriteRecord, At, TypeInv, WellFormed
<1>2. job' \in [Procs -> Job] /\ \A q \in Procs : WellFormed(job'[q])
  BY GotoType, PhaseType DEF WriteRecord, At
<1>3. record' \in [Boxes -> Taps \cup {Absent, Torn}]
  BY <1>1 DEF WriteRecord, TypeInv, TypeOK
<1>4. QED
  BY <1>2, <1>3 DEF WriteRecord, TypeInv, TypeOK

\* CopyDisk: the disk belongs to a box.
LEMMA CopyDiskType == ASSUME TypeInv, NEW p \in Procs, CopyDisk(p) PROVE TypeInv'
<1>1. job[p].box \in Boxes
  BY DEF CopyDisk, At, TypeInv, WellFormed
<1>2. job' \in [Procs -> Job] /\ \A q \in Procs : WellFormed(job'[q])
  BY GotoType, PhaseType DEF CopyDisk, At
<1>9. QED
  BY <1>1, <1>2 DEF CopyDisk, TypeInv, TypeOK, files

\* Cleanup: the directory is gone.
LEMMA CleanupType == ASSUME TypeInv, NEW p \in Procs, Cleanup(p) PROVE TypeInv'
<1>1. job[p].box \in Boxes
  BY DEF Cleanup, At, TypeInv, WellFormed
<1>2. job' \in [Procs -> Job] /\ \A q \in Procs : WellFormed(job'[q])
  BY ReturnType DEF Cleanup, At
<1>9. QED
  BY <1>1, <1>2 DEF Cleanup, TypeInv, TypeOK, files, DirectoryRemoved

\* Export: a share names a box and a tap of the pool.
LEMMA ExportType == ASSUME TypeInv, NEW p \in Procs, Export(p) PROVE TypeInv'
<1>1. job[p].box \in Boxes /\ job[p].tap \in Taps
  BY DEF Export, At, TypeInv, WellFormed
<1>2. job' \in [Procs -> Job] /\ \A q \in Procs : WellFormed(job'[q])
  BY GotoType, ReturnType, PhaseType DEF Export, At
<1>3. exports' \subseteq Share
  BY <1>1 DEF Export, TypeInv, TypeOK, Share
<1>4. QED
  BY <1>2, <1>3 DEF Export, TypeInv, TypeOK

\* Spawn: the new process has a number.
LEMMA SpawnType == ASSUME TypeInv, NEW p \in Procs, Spawn(p) PROVE TypeInv'
<1>b. job[p].box \in Boxes /\ job[p].tap \in Taps
  BY DEF Spawn, At, TypeInv, WellFormed
<1>1. CASE Return(p) /\ UNCHANGED vms
  BY <1>1, ReturnType DEF Spawn, TypeInv, TypeOK, files
<1>2. CASE \E i \in Pids :
             /\ vms' \in {vms, vms \cup {[id |-> i, box |-> job[p].box, tap |-> job[p].tap]}}
             /\ job' = [job EXCEPT ![p].pc = "pid", ![p].id = i]
  <2>1. PICK i \in Pids :
             /\ vms' \in {vms, vms \cup {[id |-> i, box |-> job[p].box, tap |-> job[p].tap]}}
             /\ job' = [job EXCEPT ![p].pc = "pid", ![p].id = i]
    BY <1>2
  <2>2. WellFormed([job[p] EXCEPT !.pc = "pid", !.id = i])
    BY <1>b, PhaseType DEF TypeInv, WellFormed, Job
  <2>3. job' = [job EXCEPT ![p] = [job[p] EXCEPT !.pc = "pid", !.id = i]]
    BY <2>1
  <2>4. job' \in [Procs -> Job] /\ \A q \in Procs : WellFormed(job'[q])
    BY <2>2, <2>3, JobStep
  <2>5. vms' \subseteq VM
    BY <1>b, <2>1 DEF TypeInv, TypeOK, VM
  <2>6. QED
    BY <2>4, <2>5 DEF Spawn, TypeInv, TypeOK, files
<1>3. QED
  BY <1>1, <1>2 DEF Spawn

\* WritePid: the pid file names a process.
LEMMA WritePidType == ASSUME TypeInv, NEW p \in Procs, WritePid(p) PROVE TypeInv'
<1>1. job[p].box \in Boxes /\ job[p].id \in Pids
  BY DEF WritePid, At, TypeInv, WellFormed
<1>2. job' \in [Procs -> Job] /\ \A q \in Procs : WellFormed(job'[q])
  BY ReturnType DEF WritePid
<1>3. pidFile' \in [Boxes -> Pids \cup {NoProcess}] /\ vms' \subseteq VM
  BY <1>1 DEF WritePid, TypeInv, TypeOK
<1>4. QED
  BY <1>2, <1>3 DEF WritePid, TypeInv, TypeOK

\* GiveUp: the command returns.
LEMMA GiveUpType == ASSUME TypeInv, NEW p \in Procs, GiveUp(p) PROVE TypeInv'
<1>1. job[p].box \in Boxes
  BY DEF GiveUp, At, TypeInv, WellFormed
<1>2. job' \in [Procs -> Job] /\ \A q \in Procs : WellFormed(job'[q])
  BY ReturnType DEF GiveUp, At
<1>9. QED
  BY <1>1, <1>2 DEF GiveUp, TypeInv, TypeOK, files

\* Stop: a process number or none.
LEMMA StopType == ASSUME TypeInv, NEW p \in Procs, Stop(p) PROVE TypeInv'
<1>b. job[p].box \in Boxes
  BY DEF Stop, At, TypeInv, WellFormed
<1>1. PICK phase \in {"kill", "unexport"}, i \in Pids \cup {NoProcess} :
          job' = [job EXCEPT ![p].pc = phase, ![p].id = i]
  BY <1>b DEF Stop, TypeInv, TypeOK
<1>2. WellFormed([job[p] EXCEPT !.pc = phase, !.id = i])
  BY <1>b, PhaseType DEF TypeInv, WellFormed, Job
<1>3. job' = [job EXCEPT ![p] = [job[p] EXCEPT !.pc = phase, !.id = i]]
  BY <1>1
<1>4. job' \in [Procs -> Job] /\ \A q \in Procs : WellFormed(job'[q])
  BY <1>2, <1>3, JobStep
<1>5. QED
  BY <1>4 DEF Stop, TypeInv, TypeOK, files

\* Kill: processes only go.
LEMMA KillType == ASSUME TypeInv, NEW p \in Procs, Kill(p) PROVE TypeInv'
<1>1. job[p].box \in Boxes
  BY DEF Kill, At, TypeInv, WellFormed
<1>2. job' \in [Procs -> Job] /\ \A q \in Procs : WellFormed(job'[q])
  BY GotoType, AfterStopType, PhaseType DEF Kill, At
<1>9. QED
  BY <1>1, <1>2 DEF Kill, TypeInv, TypeOK, files

\* Unexport: shares only go.
LEMMA UnexportType == ASSUME TypeInv, NEW p \in Procs, Unexport(p) PROVE TypeInv'
<1>1. job[p].box \in Boxes
  BY DEF Unexport, At, TypeInv, WellFormed
<1>2. job' \in [Procs -> Job] /\ \A q \in Procs : WellFormed(job'[q])
  BY AfterStopType DEF Unexport, At
<1>9. QED
  BY <1>1, <1>2 DEF Unexport, TypeInv, TypeOK, files

\* RemoveBox: the directory is gone.
LEMMA RemoveBoxType == ASSUME TypeInv, NEW p \in Procs, RemoveBox(p) PROVE TypeInv'
<1>1. job[p].box \in Boxes
  BY DEF RemoveBox, At, TypeInv, WellFormed
<1>2. job' \in [Procs -> Job] /\ \A q \in Procs : WellFormed(job'[q])
  BY ReturnType DEF RemoveBox, At
<1>9. QED
  BY <1>1, <1>2 DEF RemoveBox, TypeInv, TypeOK, files, DirectoryRemoved

\* Crash: one more death, within the bound.
LEMMA CrashType == ASSUME TypeInv, NEW p \in Procs, Crash(p) PROVE TypeInv'
<1>1. job' \in [Procs -> Job] /\ \A q \in Procs : WellFormed(job'[q])
  BY ReturnType DEF Crash
<1>2. crashes' \in 0 .. MaxCrashes
  BY DEF Crash, TypeInv, TypeOK
<1>3. QED
  BY <1>1, <1>2 DEF Crash, TypeInv, TypeOK, files

\* Every step keeps the types.
LEMMA StepType == TypeInv /\ [Next]_vars => TypeInv'
<1> SUFFICES ASSUME TypeInv, [Next]_vars PROVE TypeInv'
  OBVIOUS
<1>1. CASE UNCHANGED vars
  BY <1>1 DEF TypeInv, TypeOK, vars
<1>2. ASSUME NEW p \in Procs, Begin(p) \/ Step(p) \/ GiveUp(p) \/ Crash(p) PROVE TypeInv'
  BY <1>2, BeginType, LookType, StartType, LockType, ChooseType, WriteRecordType,
     CopyDiskType, CleanupType, ExportType, SpawnType, WritePidType, GiveUpType,
     StopType, KillType, UnexportType, RemoveBoxType, CrashType DEF Step
<1>3. ASSUME NEW v \in vms, Exit(v) PROVE TypeInv'
  BY <1>3 DEF Exit, TypeInv, TypeOK, files
<1>4. QED
  BY <1>1, <1>2, <1>3 DEF Next

(* The box store is type correct, whatever overlaps and whatever dies.       *)
THEOREM TypeCorrect == Spec => []TypeOK
<1>1. TypeInv => TypeOK
  BY DEF TypeInv
<1>2. QED
  BY InitType, StepType, <1>1, PTL DEF Spec

----------------------------------------------------------------------------
(* TapsDistinct. Inductive with it: whoever is in a phase under the flock    *)
(* holds it alone, and the tap that the holder has chosen is in no record.   *)

FlockHeld == \A p \in Procs : job[p].pc \in LockPhases => lock = {p}

ChosenTapFree ==
    \A p \in Procs, b \in Boxes : At(p, "write") => record[b] # job[p].tap

TapInv == TypeInv /\ FlockHeld /\ ChosenTapFree /\ TapsDistinct

\* The locals of the processes that take no step stay as they are.
OthersKeep(p) == \A q \in Procs : q # p => job'[q] = job[q]

\* A step of a process changes only its own job.
LEMMA Locality ==
    ASSUME TypeInv, NEW p \in Procs, Begin(p) \/ Step(p) \/ GiveUp(p) \/ Crash(p)
    PROVE  OthersKeep(p)
<1>1. ASSUME NEW j, job' = [job EXCEPT ![p] = j] PROVE OthersKeep(p)
  BY <1>1 DEF OthersKeep, TypeInv, TypeOK
<1>2. \E j : job' = [job EXCEPT ![p] = j]
  <2>1. ASSUME NEW phase, Goto(p, phase) PROVE \E j : job' = [job EXCEPT ![p] = j]
    BY <2>1 DEF Goto
  <2>2. ASSUME Return(p) PROVE \E j : job' = [job EXCEPT ![p] = j]
    BY <2>2 DEF Return
  <2>3. ASSUME NEW s, AfterStop(p, s) PROVE \E j : job' = [job EXCEPT ![p] = j]
    BY <2>1, <2>2, <2>3 DEF AfterStop
  <2>4. CASE Begin(p) \/ GiveUp(p) \/ Crash(p)
    BY <2>2, <2>4 DEF Begin, GiveUp, Crash
  <2>5. CASE Look(p) \/ Start(p) \/ Lock(p) \/ Choose(p)
    BY <2>1, <2>2, <2>5 DEF Look, Start, Lock, Choose
  <2>6. CASE WriteRecord(p) \/ CopyDisk(p) \/ Cleanup(p) \/ Export(p)
    BY <2>1, <2>2, <2>6 DEF WriteRecord, CopyDisk, Cleanup, Export
  <2>7. CASE Spawn(p) \/ WritePid(p) \/ RemoveBox(p)
    BY <2>2, <2>7 DEF Spawn, WritePid, RemoveBox
  <2>8. CASE Stop(p) \/ Kill(p) \/ Unexport(p)
    BY <2>1, <2>3, <2>8 DEF Stop, Kill, Unexport
  <2>9. QED
    BY <2>4, <2>5, <2>6, <2>7, <2>8 DEF Step
<1>3. QED
  BY <1>1, <1>2

\* Where the moves of a command lead.
LEMMA Moves ==
    ASSUME TypeInv, NEW p \in Procs
    PROVE  /\ \A phase : Goto(p, phase) =>
                 job'[p].pc = phase /\ job'[p].box = job[p].box /\ job'[p].tap = job[p].tap
           /\ Return(p) => job'[p].pc = "idle"
           /\ \A s : AfterStop(p, s) => job'[p].pc \in {"stop", "lockrm", "idle"}
<1>1. job \in [Procs -> Job] /\ job[p] \in Job
  BY DEF TypeInv, TypeOK
<1>2. ASSUME NEW phase, Goto(p, phase)
      PROVE  job'[p].pc = phase /\ job'[p].box = job[p].box /\ job'[p].tap = job[p].tap
  BY <1>1, <1>2 DEF Goto, Job
<1>3. Return(p) => job'[p].pc = "idle"
  BY <1>1 DEF Return, Idle
<1>4. ASSUME NEW s, AfterStop(p, s) PROVE job'[p].pc \in {"stop", "lockrm", "idle"}
  <2>1. CASE job' = [job EXCEPT ![p].pc = "stop", ![p].last = TRUE, ![p].id = NoProcess]
    BY <1>1, <2>1 DEF Job
  <2>2. QED
    BY <1>2, <1>3, <1>4, <2>1 DEF AfterStop
<1>5. QED
  BY <1>2, <1>3, <1>4

\* The control flow of a command: the phase that each step leads to.
LEMMA ControlFlow ==
    ASSUME TypeInv, NEW p \in Procs
    PROVE  /\ Begin(p) => job'[p].pc \in {"look"}
           /\ Look(p) => job'[p].pc \in {"idle", "lock", "start", "stop"}
           /\ Start(p) => job'[p].pc \in {"idle", "export"}
           /\ Lock(p) => job'[p].pc \in {"choose", "remove"}
           /\ Choose(p) => job'[p].pc \in {"idle", "cleanup", "write"}
           /\ WriteRecord(p) => job'[p].pc \in {"copy", "cleanup"}
           /\ CopyDisk(p) => job'[p].pc \in {"export", "cleanup"}
           /\ Cleanup(p) => job'[p].pc \in {"idle"}
           /\ Export(p) => job'[p].pc \in {"spawn", "idle"}
           /\ Spawn(p) => job'[p].pc \in {"pid", "idle"}
           /\ WritePid(p) => job'[p].pc \in {"idle"}
           /\ GiveUp(p) => job'[p].pc \in {"idle"}
           /\ Stop(p) => job'[p].pc \in {"kill", "unexport"}
           /\ Kill(p) => job'[p].pc \in {"unexport", "stop", "lockrm", "idle"}
           /\ Unexport(p) => job'[p].pc \in {"stop", "lockrm", "idle"}
           /\ RemoveBox(p) => job'[p].pc \in {"idle"}
           /\ Crash(p) => job'[p].pc \in {"idle"}
<1>1. job \in [Procs -> Job] /\ job[p] \in Job
  BY DEF TypeInv, TypeOK
<1>2. Begin(p) => job'[p].pc = "look"
  BY <1>1 DEF Begin, Idle
<1>3. Start(p) => job'[p].pc \in {"idle", "export"}
  <2>1. job' = [job EXCEPT ![p].pc = "export", ![p].tap = record[job[p].box]] =>
            job'[p].pc = "export"
    BY <1>1 DEF Job
  <2>2. QED
    BY <2>1, Moves DEF Start
<1>4. Choose(p) => job'[p].pc \in {"idle", "cleanup", "write"}
  <2>1. \A t : job' = [job EXCEPT ![p].pc = "write", ![p].tap = t] => job'[p].pc = "write"
    BY <1>1 DEF Job
  <2>2. QED
    BY <2>1, Moves DEF Choose
<1>5. Spawn(p) => job'[p].pc \in {"pid", "idle"}
  <2>1. \A i : job' = [job EXCEPT ![p].pc = "pid", ![p].id = i] => job'[p].pc = "pid"
    BY <1>1 DEF Job
  <2>2. QED
    BY <2>1, Moves DEF Spawn
<1>6. Stop(p) => job'[p].pc \in {"kill", "unexport"}
  <2>1. \A ph, i : job' = [job EXCEPT ![p].pc = ph, ![p].id = i] => job'[p].pc = ph
    BY <1>1 DEF Job
  <2>2. QED
    BY <2>1 DEF Stop
<1>7. /\ Look(p) => job'[p].pc \in {"idle", "lock", "start", "stop"}
      /\ Lock(p) => job'[p].pc \in {"choose", "remove"}
      /\ WriteRecord(p) => job'[p].pc \in {"copy", "cleanup"}
      /\ CopyDisk(p) => job'[p].pc \in {"export", "cleanup"}
      /\ Export(p) => job'[p].pc \in {"spawn", "idle"}
  BY Moves DEF Look, Lock, WriteRecord, CopyDisk, Export
<1>8. /\ Kill(p) => job'[p].pc \in {"unexport", "stop", "lockrm", "idle"}
      /\ Unexport(p) => job'[p].pc \in {"stop", "lockrm", "idle"}
      /\ Cleanup(p) \/ WritePid(p) \/ GiveUp(p) \/ RemoveBox(p) \/ Crash(p) =>
             job'[p].pc = "idle"
  BY Moves DEF Kill, Unexport, Cleanup, WritePid, GiveUp, RemoveBox, Crash
<1>9. QED
  BY <1>2, <1>3, <1>4, <1>5, <1>6, <1>7, <1>8

\* No step lets two processes into the phases under the flock.
LEMMA FlockStep == TypeInv /\ FlockHeld /\ [Next]_vars => FlockHeld'
<1> SUFFICES ASSUME TypeInv, FlockHeld, [Next]_vars PROVE FlockHeld'
  OBVIOUS
<1> USE DEF LockPhases, CreatePhases
<1>1. CASE UNCHANGED vars
  BY <1>1 DEF FlockHeld, vars
<1>2. ASSUME NEW p \in Procs, OthersKeep(p),
             \/ UNCHANGED lock /\ (job'[p].pc \in LockPhases => job[p].pc \in LockPhases)
             \/ lock = {} /\ lock' = {p}
             \/ lock' = lock \ {p} /\ job'[p].pc \notin LockPhases
             \/ job[p].pc \in LockPhases /\ lock' = {} /\ job'[p].pc \notin LockPhases
      PROVE  FlockHeld'
  BY <1>2 DEF FlockHeld, OthersKeep
<1>3. ASSUME NEW p \in Procs, Begin(p) \/ GiveUp(p) \/ Crash(p) PROVE FlockHeld'
  <2>1. job'[p].pc \notin LockPhases
    BY <1>3, ControlFlow
  <2>2. QED
    BY <1>2, <1>3, <2>1, Locality DEF Begin, GiveUp, Crash
<1>4. ASSUME NEW p \in Procs, Look(p) \/ Start(p) \/ Export(p) PROVE FlockHeld'
  <2>1. job'[p].pc \notin LockPhases
    BY <1>4, ControlFlow
  <2>2. QED
    BY <1>2, <1>4, <2>1, Locality DEF Look, Start, Export, Step
<1>5. ASSUME NEW p \in Procs, Spawn(p) \/ WritePid(p) \/ Cleanup(p) PROVE FlockHeld'
  <2>1. job'[p].pc \notin LockPhases
    BY <1>5, ControlFlow
  <2>2. QED
    BY <1>2, <1>5, <2>1, Locality DEF Spawn, WritePid, Cleanup, Step
<1>6. ASSUME NEW p \in Procs, Stop(p) \/ Kill(p) \/ Unexport(p) PROVE FlockHeld'
  <2>1. job'[p].pc \notin LockPhases
    BY <1>6, ControlFlow
  <2>2. QED
    BY <1>2, <1>6, <2>1, Locality DEF Stop, Kill, Unexport, Step
<1>7. ASSUME NEW p \in Procs, Lock(p) PROVE FlockHeld'
  BY <1>2, <1>7, Locality DEF Lock, Step
<1>8. ASSUME NEW p \in Procs, Choose(p) PROVE FlockHeld'
  <2>1. \/ UNCHANGED lock
        \/ lock' = {} /\ job'[p].pc \notin LockPhases
    BY <1>8, Moves DEF Choose
  <2>2. QED
    BY <1>2, <1>8, <2>1, Locality DEF Choose, Step, At
<1>9. ASSUME NEW p \in Procs, WriteRecord(p) PROVE FlockHeld'
  <2>1. \/ UNCHANGED lock
        \/ lock' = {} /\ job'[p].pc \notin LockPhases
    BY <1>9, Moves DEF WriteRecord
  <2>2. QED
    BY <1>2, <1>9, <2>1, Locality DEF WriteRecord, Step, At
<1>10. ASSUME NEW p \in Procs, CopyDisk(p) \/ RemoveBox(p) PROVE FlockHeld'
  <2>1. lock' = {} /\ job'[p].pc \notin LockPhases
    BY <1>10, ControlFlow DEF CopyDisk, RemoveBox
  <2>2. QED
    BY <1>2, <1>10, <2>1, Locality DEF CopyDisk, RemoveBox, Step, At
<1>11. ASSUME NEW v \in vms, Exit(v) PROVE FlockHeld'
  BY <1>11 DEF Exit, FlockHeld
<1>12. QED
  BY <1>1, <1>3, <1>4, <1>5, <1>6, <1>7, <1>8, <1>9, <1>10, <1>11 DEF Next, Step

\* A record gets a tap only from the holder of the flock, which has chosen one
\* that no record holds; every other change of a record takes a tap away.
LEMMA TapStep == TapInv /\ [Next]_vars => ChosenTapFree' /\ TapsDistinct'
<1> SUFFICES ASSUME TapInv, [Next]_vars PROVE ChosenTapFree' /\ TapsDistinct'
  OBVIOUS
<1> USE DEF LockPhases, CreatePhases
<1>t. TypeInv
  BY DEF TapInv
<1>1. CASE UNCHANGED vars
  BY <1>1 DEF TapInv, ChosenTapFree, TapsDistinct, At, vars
<1>2. ASSUME NEW p \in Procs, OthersKeep(p), job'[p].pc # "write",
             \A b \in Boxes : record'[b] = record[b] \/ record'[b] \in {Absent, Torn}
      PROVE  ChosenTapFree' /\ TapsDistinct'
  <2>1. Absent \notin Taps /\ Torn \notin Taps
    BY DEF Taps, Absent, Torn
  <2>2. \A q \in Procs : At(q, "write") => job[q].tap \in Taps
    BY <1>t DEF At, TypeInv, WellFormed
  <2>3. QED
    BY <1>2, <2>1, <2>2 DEF TapInv, ChosenTapFree, TapsDistinct, OthersKeep, At
<1>3. ASSUME NEW p \in Procs, Begin(p) \/ GiveUp(p) \/ Crash(p)
      PROVE  ChosenTapFree' /\ TapsDistinct'
  <2>1. job'[p].pc # "write"
    BY <1>3, <1>t, ControlFlow
  <2>2. QED
    BY <1>2, <1>3, <1>t, <2>1, Locality DEF Begin, GiveUp, Crash, files
<1>4. ASSUME NEW p \in Procs, Look(p) \/ Start(p) \/ Lock(p) \/ Export(p) \/ Spawn(p)
      PROVE  ChosenTapFree' /\ TapsDistinct'
  <2>1. job'[p].pc # "write"
    BY <1>4, <1>t, ControlFlow
  <2>2. QED
    BY <1>2, <1>4, <1>t, <2>1, Locality DEF Look, Start, Lock, Export, Spawn, Step, files
<1>5. ASSUME NEW p \in Procs,
             WritePid(p) \/ Stop(p) \/ Kill(p) \/ Unexport(p) \/ CopyDisk(p)
      PROVE  ChosenTapFree' /\ TapsDistinct'
  <2>1. job'[p].pc # "write"
    BY <1>5, <1>t, ControlFlow
  <2>2. QED
    BY <1>2, <1>5, <1>t, <2>1, Locality
       DEF WritePid, Stop, Kill, Unexport, CopyDisk, Step, files
<1>6. ASSUME NEW p \in Procs, Cleanup(p) \/ RemoveBox(p)
      PROVE  ChosenTapFree' /\ TapsDistinct'
  <2>1. job'[p].pc # "write"
    BY <1>6, <1>t, ControlFlow
  <2>2. \A b \in Boxes : record'[b] = record[b] \/ record'[b] \in {Absent, Torn}
    BY <1>6, <1>t DEF Cleanup, RemoveBox, DirectoryRemoved, TypeInv, TypeOK
  <2>3. QED
    BY <1>2, <1>6, <1>t, <2>1, <2>2, Locality DEF Step
<1>7. ASSUME NEW p \in Procs, Choose(p) PROVE ChosenTapFree' /\ TapsDistinct'
  <2>1. CASE (Return(p) \/ Goto(p, "cleanup")) /\ UNCHANGED record
    <3>1. job'[p].pc # "write"
      BY <1>7, <1>t, <2>1, Moves
    <3>2. QED
      BY <1>2, <1>7, <1>t, <2>1, <3>1, Locality DEF Step
  <2>2. CASE \E t \in FreeTap :
               /\ record' = [record EXCEPT ![job[p].box] = Torn]
               /\ job' = [job EXCEPT ![p].pc = "write", ![p].tap = t]
    <3>1. PICK t \in FreeTap :
               /\ record' = [record EXCEPT ![job[p].box] = Torn]
               /\ job' = [job EXCEPT ![p].pc = "write", ![p].tap = t]
      BY <2>2
    <3>2. t \in Taps /\ \A b \in Boxes : record[b] # t
      BY DEF FreeTap, UsedTaps
    <3>3. /\ job'[p].tap = t
          /\ \A q \in Procs : q # p => job'[q] = job[q]
      BY <3>1, <1>t DEF TypeInv, TypeOK, Job
    <3>4. \A b \in Boxes : record'[b] = record[b] \/ record'[b] = Torn
      BY <3>1, <1>t DEF TypeInv, TypeOK
    <3>5. Torn \notin Taps
      BY DEF Taps, Torn
    <3>6. \A q \in Procs : At(q, "write") => job[q].tap \in Taps
      BY <1>t DEF At, TypeInv, WellFormed
    <3>7. QED
      BY <3>2, <3>3, <3>4, <3>5, <3>6 DEF TapInv, ChosenTapFree, TapsDistinct, At
  <2>3. QED
    BY <1>7, <2>1, <2>2 DEF Choose
<1>8. ASSUME NEW p \in Procs, WriteRecord(p) PROVE ChosenTapFree' /\ TapsDistinct'
  <2>1. job'[p].pc # "write"
    BY <1>8, <1>t, ControlFlow
  <2>2. CASE UNCHANGED record
    BY <1>2, <1>8, <1>t, <2>1, <2>2, Locality DEF Step
  <2>3. CASE record' = [record EXCEPT ![job[p].box] = job[p].tap]
    <3>1. \A q \in Procs : q # p => ~At(q, "write")
      BY <1>8 DEF TapInv, FlockHeld, WriteRecord, At
    <3>2. \A q \in Procs : job'[q].pc # "write"
      BY <2>1, <3>1, <1>t, <1>8, Locality DEF OthersKeep, At, Step
    <3>3. \A b \in Boxes : record[b] # job[p].tap
      BY <1>8 DEF TapInv, ChosenTapFree, WriteRecord
    <3>4. QED
      BY <2>3, <3>2, <3>3, <1>t
         DEF TapInv, ChosenTapFree, TapsDistinct, At, TypeInv, TypeOK
  <2>4. QED
    BY <1>8, <2>2, <2>3 DEF WriteRecord
<1>9. ASSUME NEW v \in vms, Exit(v) PROVE ChosenTapFree' /\ TapsDistinct'
  BY <1>9 DEF Exit, files, TapInv, ChosenTapFree, TapsDistinct, At
<1>10. QED
  BY <1>1, <1>3, <1>4, <1>5, <1>6, <1>7, <1>8, <1>9 DEF Next, Step

\* The invariant behind TapsDistinct.
LEMMA TapInvariant == Spec => []TapInv
<1>1. Init => TapInv
  <2>1. Init => FlockHeld /\ ChosenTapFree /\ TapsDistinct
    BY DEF Init, FlockHeld, ChosenTapFree, TapsDistinct, At, Idle, LockPhases,
           CreatePhases, Absent, Taps
  <2>2. QED
    BY <2>1, InitType DEF TapInv
<1>2. TapInv /\ [Next]_vars => TapInv'
  BY StepType, FlockStep, TapStep DEF TapInv
<1>3. QED
  BY <1>1, <1>2, PTL DEF Spec

(* Two boxes never hold the same tap: the flock of lockBoxes is enough, even *)
(* when commands on the same box overlap and when they die.                  *)
THEOREM TapsStayDistinct == Spec => []TapsDistinct
<1>1. TapInv => TapsDistinct
  BY DEF TapInv
<1>2. QED
  BY TapInvariant, <1>1, PTL

----------------------------------------------------------------------------
(* SharesOwned, for commands that do not overlap on a box. Inductive with it: *)
(* a box has one command at most; a command that is about to create, give up *)
(* or delete a directory has nothing shared; a command that boots has the    *)
(* tap of the record.                                                         *)

OneJob ==
    \A p, q \in Procs :
        ~At(p, "idle") /\ ~At(q, "idle") /\ job[p].box = job[q].box => p = q

BarePhases == {"lock", "choose", "write", "copy", "cleanup", "lockrm", "remove"}
BootPhases == {"copy", "export", "spawn", "pid"}

Unshared(b) == \A e \in exports : e.box # b
JobShares(p) ==
    /\ job[p].pc \in BarePhases => Unshared(job[p].box)
    /\ job[p].pc \in BootPhases => record[job[p].box] = job[p].tap

ShareInv == TypeInv /\ OneJob /\ (\A p \in Procs : JobShares(p)) /\ SharesOwned

\* What a step of p leaves alone: the records and the shares of other boxes.
BoxLocal(p) ==
    \A c \in Boxes : c # job[p].box =>
        /\ record'[c] = record[c]
        /\ \A e \in Share : e.box = c => (e \in exports' <=> e \in exports)

\* The command of p goes on with its own box or returns.
SameBox(p) == job'[p].pc = "idle" \/ job'[p].box = job[p].box

\* After Begin, a step works on the box of its command and on nothing else.
LEMMA StepIsLocal ==
    ASSUME TypeInv, NEW p \in Procs, Step(p) \/ GiveUp(p) \/ Crash(p)
    PROVE  BoxLocal(p) /\ SameBox(p) /\ ~At(p, "idle")
<1>1. job \in [Procs -> Job] /\ job[p] \in Job
  BY DEF TypeInv, TypeOK
<1>2. ASSUME NEW s, AfterStop(p, s) PROVE SameBox(p)
  <2>1. job' = [job EXCEPT ![p].pc = "stop", ![p].last = TRUE, ![p].id = NoProcess] =>
            job'[p].box = job[p].box
    BY <1>1 DEF Job
  <2>2. QED
    BY <1>2, <2>1, Moves DEF AfterStop, SameBox
<1>3. CASE GiveUp(p) \/ Crash(p)
  BY <1>3, Moves DEF GiveUp, Crash, BoxLocal, SameBox, files, At
<1>4. CASE Look(p) \/ Lock(p) \/ WritePid(p)
  BY <1>4, Moves DEF Look, Lock, WritePid, BoxLocal, SameBox, files, At
<1>5. CASE Start(p)
  <2>1. job' = [job EXCEPT ![p].pc = "export", ![p].tap = record[job[p].box]] =>
            job'[p].box = job[p].box
    BY <1>1 DEF Job
  <2>2. QED
    BY <1>5, <2>1, Moves DEF Start, BoxLocal, SameBox, files, At
<1>6. CASE Choose(p)
  <2>1. \A t : job' = [job EXCEPT ![p].pc = "write", ![p].tap = t] => job'[p].box = job[p].box
    BY <1>1 DEF Job
  <2>2. SameBox(p) /\ ~At(p, "idle")
    BY <1>6, <2>1, Moves DEF Choose, SameBox, At
  <2>3. BoxLocal(p)
    BY <1>6 DEF Choose, BoxLocal, TypeInv, TypeOK
  <2>4. QED
    BY <2>2, <2>3
<1>7. CASE WriteRecord(p) \/ CopyDisk(p)
  <2>1. SameBox(p) /\ ~At(p, "idle")
    BY <1>7, Moves DEF WriteRecord, CopyDisk, SameBox, At
  <2>2. BoxLocal(p)
    BY <1>7 DEF WriteRecord, CopyDisk, BoxLocal, TypeInv, TypeOK
  <2>3. QED
    BY <2>1, <2>2
<1>8. CASE Cleanup(p) \/ RemoveBox(p)
  <2>1. SameBox(p) /\ ~At(p, "idle")
    BY <1>8, Moves DEF Cleanup, RemoveBox, SameBox, At
  <2>2. BoxLocal(p)
    BY <1>8 DEF Cleanup, RemoveBox, DirectoryRemoved, BoxLocal, TypeInv, TypeOK
  <2>3. QED
    BY <2>1, <2>2
<1>9. CASE Export(p)
  BY <1>9, Moves DEF Export, BoxLocal, SameBox, At
<1>10. CASE Spawn(p)
  <2>1. \A i : job' = [job EXCEPT ![p].pc = "pid", ![p].id = i] => job'[p].box = job[p].box
    BY <1>1 DEF Job
  <2>2. QED
    BY <1>10, <2>1, Moves DEF Spawn, BoxLocal, SameBox, files, At
<1>11. CASE Stop(p)
  <2>1. \A ph, i : job' = [job EXCEPT ![p].pc = ph, ![p].id = i] => job'[p].box = job[p].box
    BY <1>1 DEF Job
  <2>2. QED
    BY <1>11, <2>1 DEF Stop, BoxLocal, SameBox, files, At
<1>12. CASE Kill(p)
  BY <1>2, <1>12, Moves DEF Kill, BoxLocal, SameBox, files, At
<1>13. CASE Unexport(p)
  <2>1. SameBox(p) /\ ~At(p, "idle")
    BY <1>2, <1>13 DEF Unexport, At
  <2>2. exports' \in {exports, exports \ {[box |-> job[p].box, tap |-> record[job[p].box]]}}
    BY <1>13 DEF Unexport
  <2>3. BoxLocal(p)
    BY <1>13, <2>2 DEF Unexport, BoxLocal
  <2>4. QED
    BY <2>1, <2>3
<1>14. QED
  BY <1>3, <1>4, <1>5, <1>6, <1>7, <1>8, <1>9, <1>10, <1>11, <1>12, <1>13 DEF Step

\* A step that keeps the promise for its own box keeps it for all of them.
LEMMA OwnBoxSuffices ==
    ASSUME ShareInv, TypeInv', NEW p \in Procs, OthersKeep(p), BoxLocal(p), SameBox(p),
           ~At(p, "idle"), JobShares(p)',
           \A e \in exports' : e.box = job[p].box => record'[e.box] = e.tap
    PROVE  ShareInv'
<1>1. OneJob'
  BY DEF ShareInv, OneJob, OthersKeep, SameBox, At
<1>2. job[p].box \in Boxes /\ exports \subseteq Share /\ exports' \subseteq Share
  BY DEF ShareInv, TypeInv, TypeOK, WellFormed, At
<1>3. SharesOwned'
  BY <1>2 DEF ShareInv, SharesOwned, BoxLocal, Share
<1>4. ASSUME NEW q \in Procs, q # p PROVE JobShares(q)'
  <2>1. job'[q] = job[q]
    BY <1>4 DEF OthersKeep
  <2>2. CASE At(q, "idle")
    BY <2>1, <2>2 DEF JobShares, At, BarePhases, BootPhases
  <2>3. CASE ~At(q, "idle")
    <3>1. job[q].box \in Boxes /\ job[q].box # job[p].box
      BY <1>4, <2>3 DEF ShareInv, OneJob, TypeInv, WellFormed, At
    <3>2. record'[job[q].box] = record[job[q].box]
      BY <3>1 DEF BoxLocal
    <3>3. Unshared(job[q].box) => Unshared(job[q].box)'
      BY <1>2, <2>1, <3>1 DEF BoxLocal, Unshared
    <3>4. QED
      BY <2>1, <3>2, <3>3 DEF ShareInv, JobShares
  <2>4. QED
    BY <2>2, <2>3
<1>5. QED
  BY <1>1, <1>3, <1>4 DEF ShareInv

\* Each step keeps the promise for the box of its command.
LEMMA OwnBoxKept ==
    ASSUME ShareInv, NEW p \in Procs, Step(p) \/ GiveUp(p) \/ Crash(p)
    PROVE  /\ JobShares(p)'
           /\ \A e \in exports' : e.box = job[p].box => record'[e.box] = e.tap
<1> DEFINE b == job[p].box
           Goal == /\ JobShares(p)'
                   /\ \A e \in exports' : e.box = b => record'[e.box] = e.tap
<1> USE DEF BarePhases, BootPhases
<1>t. TypeInv
  BY DEF ShareInv
<1>b. b \in Boxes /\ SameBox(p)
  BY <1>t, StepIsLocal DEF TypeInv, WellFormed, At
<1>s. \A e \in exports : e.box = b => record[e.box] = e.tap
  BY DEF ShareInv, SharesOwned
<1>1. CASE GiveUp(p) \/ Crash(p) \/ WritePid(p)
  BY <1>1, <1>t, <1>s, ControlFlow DEF GiveUp, Crash, WritePid, JobShares, files
<1>2. CASE Look(p)
  <2>1. job'[p].pc \in BarePhases => record[b] = Absent
    BY <1>2, <1>t, Moves DEF Look
  <2>2. Absent \notin Taps /\ \A e \in exports : e.tap \in Taps
    BY <1>t DEF TypeInv, TypeOK, Share, Taps, Absent
  <2>3. job'[p].pc \in BarePhases => Unshared(b)
    BY <1>s, <2>1, <2>2 DEF Unshared
  <2>4. QED
    BY <1>2, <1>t, <1>s, <1>b, <2>3, ControlFlow DEF Look, JobShares, Unshared, SameBox, files
<1>3. CASE Start(p)
  <2>1. job'[p].pc = "export" => job'[p].tap = record[b]
    BY <1>3, <1>t, Moves DEF Start, TypeInv, TypeOK, Job
  <2>2. QED
    BY <1>3, <1>t, <1>s, <1>b, <2>1, ControlFlow DEF Start, JobShares, SameBox, files
<1>4. CASE Lock(p)
  <2>1. Unshared(b)
    BY <1>4 DEF ShareInv, JobShares, Lock, At
  <2>2. QED
    BY <1>4, <1>t, <1>s, <1>b, <2>1, ControlFlow DEF Lock, JobShares, Unshared, SameBox, files
<1>5. CASE Choose(p)
  <2>1. Unshared(b) /\ UNCHANGED exports
    BY <1>5 DEF ShareInv, JobShares, Choose, At
  <2>2. QED
    BY <1>5, <1>t, <1>b, <2>1, ControlFlow DEF JobShares, Unshared, SameBox
<1>6. CASE WriteRecord(p)
  <2>1. Unshared(b) /\ UNCHANGED exports
    BY <1>6 DEF ShareInv, JobShares, WriteRecord, At
  <2>2. job'[p].pc = "copy" => record'[b] = job'[p].tap
    BY <1>6, <1>t, <1>b, Moves DEF WriteRecord, TypeInv, TypeOK
  <2>3. QED
    BY <1>6, <1>t, <1>b, <2>1, <2>2, ControlFlow DEF JobShares, Unshared, SameBox
<1>7. CASE CopyDisk(p)
  <2>1. Unshared(b) /\ UNCHANGED <<exports, record>> /\ record[b] = job[p].tap
    BY <1>7 DEF ShareInv, JobShares, CopyDisk, At
  <2>2. job'[p].tap = job[p].tap
    BY <1>7, <1>t, Moves DEF CopyDisk
  <2>3. QED
    BY <1>7, <1>t, <1>b, <2>1, <2>2, ControlFlow DEF JobShares, Unshared, SameBox
<1>8. CASE Cleanup(p) \/ RemoveBox(p)
  <2>1. Unshared(b) /\ UNCHANGED exports
    BY <1>8 DEF ShareInv, JobShares, Cleanup, RemoveBox, At
  <2>2. QED
    BY <1>8, <1>t, <2>1, ControlFlow DEF JobShares, Unshared
<1>9. CASE Export(p)
  <2>1. UNCHANGED record /\ record[b] = job[p].tap
    BY <1>9 DEF ShareInv, JobShares, Export, At
  <2>2. job'[p].pc = "spawn" => job'[p].tap = job[p].tap
    BY <1>9, <1>t, Moves DEF Export
  <2>3. \A e \in exports' : e.box = b => record[e.box] = e.tap
    BY <1>9, <1>s, <2>1 DEF Export
  <2>4. QED
    BY <1>9, <1>t, <1>b, <2>1, <2>2, <2>3, ControlFlow DEF JobShares, SameBox
<1>10. CASE Spawn(p)
  <2>1. UNCHANGED <<record, exports>> /\ record[b] = job[p].tap
    BY <1>10 DEF ShareInv, JobShares, Spawn, At, files
  <2>2. job'[p].pc = "pid" => job'[p].tap = job[p].tap
    <3>1. \A i : job' = [job EXCEPT ![p].pc = "pid", ![p].id = i] => job'[p].tap = job[p].tap
      BY <1>t DEF TypeInv, TypeOK, Job
    <3>2. QED
      BY <1>10, <1>t, <3>1, Moves DEF Spawn
  <2>3. QED
    BY <1>10, <1>t, <1>s, <1>b, <2>1, <2>2, ControlFlow DEF JobShares, SameBox
<1>11. CASE Stop(p)
  BY <1>11, <1>t, <1>s, ControlFlow DEF Stop, JobShares, files
<1>12. ASSUME AfterStop(p, FALSE) PROVE job'[p].pc \notin BarePhases \cup BootPhases
  <2>1. job' = [job EXCEPT ![p].pc = "stop", ![p].last = TRUE, ![p].id = NoProcess] =>
            job'[p].pc = "stop"
    BY <1>t DEF TypeInv, TypeOK, Job
  <2>2. QED
    BY <1>12, <1>t, <2>1, Moves DEF AfterStop
<1>13. CASE Kill(p)
  <2>1. job'[p].pc \notin BarePhases \cup BootPhases
    <3>1. Goto(p, "unexport") \/ AfterStop(p, FALSE)
      BY <1>13 DEF Kill
    <3>2. Goto(p, "unexport") => job'[p].pc = "unexport"
      BY <1>t, Moves
    <3>3. QED
      BY <1>12, <3>1, <3>2
  <2>2. QED
    BY <1>13, <1>s, <2>1 DEF Kill, JobShares, files
<1>14. CASE Unexport(p)
  <2>1. exports' \subseteq exports /\ UNCHANGED record
    BY <1>14 DEF Unexport
  <2>2. CASE AfterStop(p, FALSE)
    BY <1>12, <1>s, <2>1, <2>2 DEF JobShares
  <2>3. CASE exports' = exports \ {[box |-> b, tap |-> record[b]]} /\ AfterStop(p, TRUE)
    <3>1. \A e \in exports : e = [box |-> e.box, tap |-> e.tap]
      BY <1>t DEF TypeInv, TypeOK, Share
    <3>2. \A e \in exports' : e.box # b
      BY <1>s, <2>3, <3>1
    <3>3. QED
      BY <1>14, <1>t, <1>b, <3>2, ControlFlow DEF JobShares, Unshared, SameBox
  <2>4. QED
    BY <1>14, <2>2, <2>3 DEF Unexport
<1>15. QED
  BY <1>1, <1>2, <1>3, <1>4, <1>5, <1>6, <1>7, <1>8, <1>9, <1>10, <1>11, <1>13, <1>14 DEF Step

\* Begin takes a box that no other command works on.
LEMMA BeginKeepsShares ==
    ASSUME Exclusive, ShareInv, TypeInv', NEW p \in Procs, Begin(p)
    PROVE  ShareInv'
<1>1. TypeInv /\ OthersKeep(p) /\ UNCHANGED <<record, exports>> /\ job'[p].pc = "look"
  BY Locality, ControlFlow DEF Begin, files, ShareInv
<1>2. \A q \in Procs : ~At(q, "idle") => job[q].box # job'[p].box
  BY <1>1 DEF Begin, Working, At, Idle, TypeInv, TypeOK
<1>3. OneJob'
  BY <1>1, <1>2 DEF ShareInv, OneJob, OthersKeep, At
<1>4. \A q \in Procs : JobShares(q)'
  BY <1>1 DEF ShareInv, JobShares, OthersKeep, Unshared, BarePhases, BootPhases
<1>5. QED
  BY <1>1, <1>3, <1>4 DEF ShareInv, SharesOwned

\* The invariant behind SharesOwned.
LEMMA ShareInvariant == ASSUME Exclusive PROVE Spec => []ShareInv
<1>1. Init => ShareInv
  <2>1. Init => OneJob /\ (\A p \in Procs : JobShares(p)) /\ SharesOwned
    BY DEF Init, OneJob, JobShares, SharesOwned, BarePhases, BootPhases, At, Idle
  <2>2. QED
    BY <2>1, InitType DEF ShareInv
<1>2. ShareInv /\ [Next]_vars => ShareInv'
  <2> SUFFICES ASSUME ShareInv, [Next]_vars PROVE ShareInv'
    OBVIOUS
  <2>1. TypeInv /\ TypeInv'
    BY StepType DEF ShareInv
  <2>2. CASE UNCHANGED vars
    BY <2>1, <2>2 DEF ShareInv, OneJob, JobShares, SharesOwned, Unshared, At, vars
  <2>3. ASSUME NEW p \in Procs, Begin(p) PROVE ShareInv'
    BY <2>1, <2>3, BeginKeepsShares
  <2>4. ASSUME NEW p \in Procs, Step(p) \/ GiveUp(p) \/ Crash(p) PROVE ShareInv'
    BY <2>1, <2>4, Locality, StepIsLocal, OwnBoxKept, OwnBoxSuffices
  <2>5. ASSUME NEW v \in vms, Exit(v) PROVE ShareInv'
    BY <2>1, <2>5 DEF Exit, files, ShareInv, OneJob, JobShares, SharesOwned, Unshared, At
  <2>6. QED
    BY <2>2, <2>3, <2>4, <2>5 DEF Next
<1>3. QED
  BY <1>1, <1>2, PTL DEF Spec

(* While the commands on a box do not overlap, what is shared for a box is   *)
(* shared with the address of its record, whatever fails and whatever dies.  *)
THEOREM SharesStayOwned == ASSUME Exclusive PROVE Spec => []SharesOwned
<1>1. ShareInv => SharesOwned
  BY DEF ShareInv
<1>2. QED
  BY ShareInvariant, <1>1, PTL

----------------------------------------------------------------------------
(* The box store implements the pool of addresses.                           *)

\* The initial states are initial states of the pool.
LEMMA PoolInit == Init => Pool!Init
BY DEF Init, Pool!Init, Held, Taps, Absent

\* A step that touches neither a tap nor a share is invisible to the pool.
LEMMA PoolStutter ==
    ASSUME UNCHANGED exports,
           \A b \in Boxes : record'[b] = record[b] \/ {record[b], record'[b]} \cap Taps = {}
    PROVE  UNCHANGED <<Held, exports>>
BY DEF Held

\* Every step is one of the pool's or invisible to it.
LEMMA PoolStep ==
    TapInv /\ ShareInv /\ TypeInv' /\ [Next]_vars => [Pool!Next]_<<Held, exports>>
<1> SUFFICES ASSUME TapInv, ShareInv, TypeInv', [Next]_vars
             PROVE  Pool!Next \/ UNCHANGED <<Held, exports>>
  OBVIOUS
<1>t. TypeInv
  BY DEF TapInv
<1>a. Absent \notin Taps /\ Torn \notin Taps
  BY DEF Taps, Absent, Torn
<1>1. UNCHANGED <<record, exports>> => UNCHANGED <<Held, exports>>
  BY DEF Held
<1>2. ASSUME NEW p \in Procs, Choose(p) PROVE UNCHANGED <<Held, exports>>
  <2>1. record' = record \/
        (record' = [record EXCEPT ![job[p].box] = Torn] /\ record[job[p].box] \notin Taps)
    BY <1>2 DEF Choose
  <2>2. \A b \in Boxes : record'[b] = record[b] \/ {record[b], record'[b]} \cap Taps = {}
    BY <1>a, <1>t, <2>1 DEF TypeInv, TypeOK
  <2>3. QED
    BY <1>2, <2>2, PoolStutter DEF Choose
<1>3. ASSUME NEW p \in Procs, WriteRecord(p) PROVE Pool!Next \/ UNCHANGED <<Held, exports>>
  <2> DEFINE b == job[p].box
             x == job[p].tap
  <2>1. b \in Boxes /\ x \in Taps
    BY <1>3, <1>t DEF WriteRecord, At, TypeInv, WellFormed
  <2>2. CASE record' = [record EXCEPT ![b] = x] /\ record[b] = Torn
    <3>1. Held[b] = Absent /\ Held' = [Held EXCEPT ![b] = x]
      BY <1>a, <1>t, <2>1, <2>2 DEF Held, TypeInv, TypeOK
    <3>2. \A c \in Boxes : record[c] # x
      BY <1>3 DEF TapInv, ChosenTapFree, WriteRecord
    <3>3. \A c \in Boxes : Held[c] # x
      BY <1>a, <2>1, <3>2 DEF Held
    <3>4. \A s \in exports : s.tap # x
      BY <1>t, <3>2 DEF ShareInv, SharesOwned, TypeInv, TypeOK, Share
    <3>5. Pool!Assign(b)
      BY <1>3, <2>1, <3>1, <3>3, <3>4 DEF Pool!Assign, WriteRecord
    <3>6. QED
      BY <2>1, <3>5 DEF Pool!Next
  <2>3. CASE UNCHANGED record
    BY <1>1, <1>3, <2>3 DEF WriteRecord
  <2>4. QED
    BY <1>3, <2>2, <2>3 DEF WriteRecord
<1>4. ASSUME NEW p \in Procs, Cleanup(p) \/ RemoveBox(p) PROVE Pool!Next
  <2> DEFINE b == job[p].box
  <2>1. b \in Boxes /\ \A s \in exports : s.box # b
    BY <1>4, <1>t DEF Cleanup, RemoveBox, At, TypeInv, WellFormed, ShareInv, JobShares,
                      BarePhases, Unshared
  <2>2. Held' = [Held EXCEPT ![b] = Absent] /\ UNCHANGED exports
    BY <1>4, <1>a, <1>t, <2>1 DEF Cleanup, RemoveBox, DirectoryRemoved, Held, TypeInv, TypeOK
  <2>3. Pool!Release(b)
    BY <2>1, <2>2 DEF Pool!Release
  <2>4. QED
    BY <2>1, <2>3 DEF Pool!Next
<1>5. ASSUME NEW p \in Procs, Export(p) PROVE Pool!Next \/ UNCHANGED <<Held, exports>>
  <2> DEFINE b == job[p].box
  <2>1. b \in Boxes /\ job[p].tap \in Taps /\ record[b] = job[p].tap
    BY <1>5, <1>t DEF Export, At, TypeInv, WellFormed, ShareInv, JobShares, BootPhases
  <2>2. Held[b] = job[p].tap /\ Held[b] # Absent /\ UNCHANGED Held
    BY <1>5, <1>a, <2>1 DEF Held, Export
  <2>3. CASE UNCHANGED exports
    BY <2>2, <2>3
  <2>4. CASE exports' = exports \cup {[box |-> b, tap |-> job[p].tap]}
    BY <2>1, <2>2, <2>4 DEF Pool!Share, Pool!Next
  <2>5. QED
    BY <1>5, <2>3, <2>4 DEF Export
<1>6. ASSUME NEW p \in Procs, Unexport(p) PROVE Pool!Next \/ UNCHANGED <<Held, exports>>
  <2> DEFINE b == job[p].box
  <2>1. b \in Boxes /\ UNCHANGED Held
    BY <1>6, <1>t DEF Unexport, At, TypeInv, WellFormed, Held
  <2>2. \A s \in exports : s.box = b <=> s = [box |-> b, tap |-> record[b]]
    BY <1>t DEF ShareInv, SharesOwned, TypeInv, TypeOK, Share
  <2>3. CASE exports' = exports \ {[box |-> b, tap |-> record[b]]}
    <3>1. exports' = {s \in exports : s.box # b}
      BY <2>2, <2>3
    <3>2. QED
      BY <2>1, <3>1 DEF Pool!Withdraw, Pool!Next
  <2>4. CASE UNCHANGED exports
    BY <2>1, <2>4
  <2>5. QED
    BY <1>6, <2>3, <2>4 DEF Unexport
<1>7. ASSUME NEW p \in Procs,
             \/ Begin(p) \/ GiveUp(p) \/ Crash(p) \/ Look(p) \/ Start(p) \/ Lock(p)
             \/ CopyDisk(p) \/ Spawn(p) \/ WritePid(p) \/ Stop(p) \/ Kill(p)
      PROVE  UNCHANGED <<Held, exports>>
  BY <1>1, <1>7 DEF Begin, GiveUp, Crash, Look, Start, Lock, CopyDisk, Spawn, WritePid,
                    Stop, Kill, files
<1>8. CASE UNCHANGED vars
  BY <1>1, <1>8 DEF vars
<1>9. ASSUME NEW v \in vms, Exit(v) PROVE UNCHANGED <<Held, exports>>
  BY <1>1, <1>9 DEF Exit, files
<1>10. QED
  BY <1>2, <1>3, <1>4, <1>5, <1>6, <1>7, <1>8, <1>9 DEF Next, Step

(* While the commands on a box do not overlap, the box store implements the  *)
(* pool of addresses: no tap is given back while something is shared with it. *)
THEOREM BoxesImplementPool == ASSUME Exclusive PROVE Spec => ImplementsPool
<1>1. TapInv => TypeInv
  BY DEF TapInv
<1>2. QED
  BY PoolInit, PoolStep, TapInvariant, ShareInvariant, <1>1, PTL
     DEF Spec, ImplementsPool, Pool!Spec

\* Shares are of holders, at the address they hold; no address has two holders.
Ownership ==
    /\ Pool!TypeOK
    /\ \A s \in exports : Held[s.box] = s.tap
    /\ \A a, b \in Boxes : Held[a] \in Taps /\ Held[a] = Held[b] => a = b

(* What a user of the pool may rely on follows from its actions alone: a     *)
(* directory of one box is never shared with the address of another one,     *)
(* which is what the order "unexport, then delete" in Stop and Delete is for. *)
THEOREM PoolIsolates == Pool!Spec => []Pool!Isolation
<1>a. Absent \notin Taps
  BY DEF Taps, Absent
<1>1. Pool!Init => Ownership
  BY <1>a DEF Pool!Init, Ownership, Pool!TypeOK
<1>2. Ownership /\ [Pool!Next]_<<Held, exports>> => Ownership'
  <2> SUFFICES ASSUME Ownership, [Pool!Next]_<<Held, exports>> PROVE Ownership'
    OBVIOUS
  <2>1. CASE UNCHANGED <<Held, exports>>
    BY <2>1 DEF Ownership, Pool!TypeOK
  <2>2. ASSUME NEW b \in Boxes, Pool!Assign(b) PROVE Ownership'
    <3>1. PICK x \in Taps :
             /\ \A c \in Boxes : Held[c] # x
             /\ Held' = [Held EXCEPT ![b] = x]
      BY <2>2 DEF Pool!Assign
    <3>2. Held[b] = Absent /\ UNCHANGED exports
      BY <2>2 DEF Pool!Assign
    <3>3. \A s \in exports : s.box # b
      BY <1>a, <3>2 DEF Ownership, Pool!TypeOK
    <3>4. QED
      BY <1>a, <3>1, <3>2, <3>3 DEF Ownership, Pool!TypeOK
  <2>3. ASSUME NEW b \in Boxes, Pool!Share(b) PROVE Ownership'
    BY <2>3 DEF Pool!Share, Ownership, Pool!TypeOK
  <2>4. ASSUME NEW b \in Boxes, Pool!Withdraw(b) PROVE Ownership'
    BY <2>4 DEF Pool!Withdraw, Ownership, Pool!TypeOK
  <2>5. ASSUME NEW b \in Boxes, Pool!Release(b) PROVE Ownership'
    <3>1. \A s \in exports : s.box # b
      BY <2>5 DEF Pool!Release
    <3>2. QED
      BY <1>a, <2>5, <3>1 DEF Pool!Release, Ownership, Pool!TypeOK
  <2>6. QED
    BY <2>1, <2>2, <2>3, <2>4, <2>5 DEF Pool!Next
<1>3. Ownership => Pool!Isolation
  BY DEF Ownership, Pool!Isolation, Pool!TypeOK
<1>4. QED
  BY <1>1, <1>2, <1>3, PTL DEF Pool!Spec

(* So in the box store, with the assumption that the refinement needs, a     *)
(* directory is never shared with an address that another box holds (boot,   *)
(* unexportMounts, Delete).                                                   *)
THEOREM BoxesIsolated == ASSUME Exclusive PROVE Spec => []Pool!Isolation
  BY PoolIsolates, BoxesImplementPool DEF ImplementsPool

----------------------------------------------------------------------------
(* VmKeepsItsRecord and QuietBoxWhole, for commands that do not overlap on a *)
(* box. A process that the pid file names runs on the tap of the record, in  *)
(* spite of deaths. Without a death the phase of the one command on a box    *)
(* says which processes the box can have and what there is of its directory. *)

NamedVms(b) == \A v \in vms : v.box = b /\ v.id = pidFile[b] => v.tap = record[b]

\* The process that a command is about to record is the one that it started;
\* the one that it is about to kill is the one that the pid file names.
JobVms(p) ==
    /\ At(p, "pid") =>
         \A v \in vms : v.box = job[p].box /\ v.id = job[p].id => v.tap = job[p].tap
    /\ At(p, "kill") => job[p].id = pidFile[job[p].box]

NoVm(b) == \A v \in vms : v.box # b
AllNamed(b) == \A v \in vms : v.box = b => v.id = pidFile[b]
Whole(b) == record[b] # Torn /\ (record[b] = Absent <=> b \notin disk)
Quiet(b) == AllNamed(b) /\ Whole(b)

LookPhases == {"look", "start", "stop", "kill"}
EmptyPhases == BarePhases \cup {"unexport", "export", "spawn"}
HalfPhases == {"write", "copy", "cleanup"}

\* What a command has in its hands when none has died.
JobWhole(p) ==
    LET b == job[p].box IN
    /\ job[p].pc \in LookPhases => AllNamed(b)
    /\ job[p].pc \in EmptyPhases => NoVm(b)
    /\ At(p, "pid") => \A v \in vms : v.box = b => v.id = job[p].id
    /\ ~At(p, "idle") /\ job[p].pc \notin HalfPhases => Whole(b)
    /\ At(p, "write") => record[b] = Torn
    /\ job[p].pc \in {"write", "copy"} => b \notin disk

AllWhole == (\A p \in Procs : JobWhole(p)) /\ \A b \in Boxes : Working(b) = {} => Quiet(b)

WholeInv ==
    /\ ShareInv
    /\ \A b \in Boxes : NamedVms(b)
    /\ \A p \in Procs : JobVms(p)
    /\ crashes = 0 => AllWhole

\* What a step of p leaves alone of the other boxes, beside records and shares.
FilesLocal(p) ==
    \A c \in Boxes : c # job[p].box =>
        /\ pidFile'[c] = pidFile[c]
        /\ c \in disk' <=> c \in disk
        /\ \A v \in VM : v.box = c => (v \in vms' <=> v \in vms)

\* After Begin, a step touches files and processes of its own box only.
LEMMA FilesAreLocal ==
    ASSUME TypeInv, NEW p \in Procs, Step(p) \/ GiveUp(p) \/ Crash(p)
    PROVE  FilesLocal(p)
<1>1. CASE \/ Look(p) \/ Start(p) \/ Lock(p) \/ Choose(p) \/ WriteRecord(p) \/ Export(p)
           \/ Stop(p) \/ Unexport(p) \/ GiveUp(p) \/ Crash(p)
  BY <1>1 DEF Look, Start, Lock, Choose, WriteRecord, Export, Stop, Unexport, GiveUp, Crash,
              FilesLocal, files
<1>2. CASE CopyDisk(p)
  BY <1>2 DEF CopyDisk, FilesLocal
<1>3. CASE Cleanup(p) \/ RemoveBox(p)
  BY <1>3 DEF Cleanup, RemoveBox, DirectoryRemoved, FilesLocal, TypeInv, TypeOK
<1>4. CASE Spawn(p)
  BY <1>4 DEF Spawn, FilesLocal, files
<1>5. CASE WritePid(p)
  BY <1>5 DEF WritePid, FilesLocal, TypeInv, TypeOK
<1>6. CASE Kill(p)
  BY <1>6 DEF Kill, FilesLocal, files
<1>7. QED
  BY <1>1, <1>2, <1>3, <1>4, <1>5, <1>6 DEF Step

\* What a step has to establish for the box of its command.
OwnWhole(p, b) ==
    /\ NamedVms(b)'
    /\ JobVms(p)'
    /\ crashes' = 0 => crashes = 0 /\ IF At(p, "idle")' THEN Quiet(b)' ELSE JobWhole(p)'

\* A step that does so keeps the rest.
LEMMA OwnWholeSuffices ==
    ASSUME WholeInv, ShareInv', NEW p \in Procs, NEW b \in Boxes, b = job[p].box,
           OthersKeep(p), BoxLocal(p), FilesLocal(p), SameBox(p), ~At(p, "idle"),
           OwnWhole(p, b)
    PROVE  WholeInv'
<1>t. TypeInv /\ TypeInv' /\ OneJob /\ OneJob'
  BY DEF WholeInv, ShareInv
<1>b. vms \subseteq VM /\ vms' \subseteq VM
  BY <1>t DEF TypeInv, TypeOK
<1>1. ASSUME NEW c \in Boxes, c # b
      PROVE  /\ record'[c] = record[c] /\ pidFile'[c] = pidFile[c]
             /\ c \in disk' <=> c \in disk
             /\ \A v : v.box = c => (v \in vms' <=> v \in vms)
  BY <1>1, <1>b DEF BoxLocal, FilesLocal
<1>2. \A c \in Boxes : NamedVms(c)'
  <2>1. NamedVms(b)'
    BY DEF OwnWhole
  <2>2. ASSUME NEW c \in Boxes, c # b PROVE NamedVms(c)'
    BY <1>1, <2>2 DEF WholeInv, NamedVms
  <2>3. QED
    BY <2>1, <2>2
<1>3. ASSUME NEW q \in Procs, q # p
      PROVE  JobVms(q)' /\ (AllWhole => JobWhole(q)')
  <2>1. job'[q] = job[q]
    BY <1>3 DEF OthersKeep
  <2>2. CASE At(q, "idle")
    BY <2>1, <2>2 DEF JobVms, JobWhole, At, LookPhases, EmptyPhases, BarePhases
  <2>3. CASE ~At(q, "idle")
    <3>1. PICK c \in Boxes : c = job[q].box /\ c # b
      BY <1>3, <1>t, <2>3 DEF OneJob, TypeInv, WellFormed, At
    <3>2. JobVms(q) /\ (AllWhole => JobWhole(q))
      BY DEF WholeInv, AllWhole
    <3>3. JobVms(q)'
      BY <1>1, <2>1, <3>1, <3>2 DEF JobVms, At
    <3>4. /\ AllNamed(c) => AllNamed(c)'
          /\ NoVm(c) => NoVm(c)'
          /\ Whole(c) => Whole(c)'
      BY <1>1, <2>1, <3>1 DEF AllNamed, NoVm, Whole
    <3>5. AllWhole => JobWhole(q)'
      BY <1>1, <2>1, <3>1, <3>2, <3>4 DEF JobWhole, At
    <3>6. QED
      BY <3>3, <3>5
  <2>4. QED
    BY <2>2, <2>3
<1>4. ASSUME crashes' = 0 PROVE AllWhole'
  <2>1. AllWhole
    BY <1>4 DEF OwnWhole, WholeInv
  <2>2. \A q \in Procs : JobWhole(q)'
    <3>1. JobWhole(p)'
      BY <1>4 DEF OwnWhole, JobWhole, At, LookPhases, EmptyPhases, BarePhases
    <3>2. QED
      BY <1>3, <2>1, <3>1
  <2>3. ASSUME NEW c \in Boxes, Working(c)' = {} PROVE Quiet(c)'
    <3>1. CASE c = b
      <4>1. At(p, "idle")'
        BY <2>3, <3>1 DEF Working, At, SameBox
      <4>2. QED
        BY <1>4, <3>1, <4>1 DEF OwnWhole
    <3>2. CASE c # b
      <4>1. Working(c) = {}
        BY <2>3, <3>2 DEF Working, OthersKeep
      <4>2. Quiet(c)
        BY <2>1, <4>1 DEF AllWhole
      <4>3. QED
        BY <1>1, <3>2, <4>2 DEF Quiet, AllNamed, Whole
    <3>3. QED
      BY <3>1, <3>2
  <2>4. QED
    BY <2>2, <2>3 DEF AllWhole
<1>5. \A q \in Procs : JobVms(q)'
  BY <1>3 DEF OwnWhole
<1>6. QED
  BY <1>2, <1>4, <1>5 DEF WholeInv

\* What the invariant says of the box of a command that is about to step.
LEMMA OwnBoxBefore ==
    ASSUME WholeInv, NEW p \in Procs, NEW b \in Boxes, b = job[p].box
    PROVE  /\ TypeInv /\ NamedVms(b) /\ JobVms(p) /\ JobShares(p)
           /\ crashes \in Nat /\ (crashes = 0 => JobWhole(p))
           /\ vms \subseteq VM /\ record[b] \in Taps \cup {Absent, Torn}
           /\ Absent \notin Taps /\ Torn \notin Taps /\ Absent # Torn
           /\ \A v \in VM : v.tap \in Taps /\ v.id \in Pids /\ v.id # NoProcess
BY DEF WholeInv, ShareInv, AllWhole, TypeInv, TypeOK, VM, Taps, Absent, Torn, NoProcess

\* A step that changes neither files nor processes.
LEMMA CalmWhole ==
    ASSUME WholeInv, NEW p \in Procs, NEW b \in Boxes, b = job[p].box, SameBox(p),
           UNCHANGED <<record, disk, pidFile, vms, crashes>>,
           job'[p].pc \notin {"pid", "kill", "write", "copy"},
           crashes = 0 =>
               /\ job'[p].pc \in LookPhases \cup {"idle"} => AllNamed(b)
               /\ job'[p].pc \in EmptyPhases => NoVm(b)
               /\ job'[p].pc # "cleanup" => Whole(b)
    PROVE  OwnWhole(p, b)
<1>1. NamedVms(b)'
  BY OwnBoxBefore DEF NamedVms
<1>2. JobVms(p)'
  BY DEF JobVms, At
<1>3. ASSUME crashes = 0, At(p, "idle")' PROVE Quiet(b)'
  BY <1>3 DEF Quiet, AllNamed, Whole, At
<1>4. ASSUME crashes = 0, ~At(p, "idle")' PROVE JobWhole(p)'
  <2>1. job'[p].box = b /\ job'[p].pc # "idle"
    BY <1>4 DEF SameBox, At
  <2>2. /\ AllNamed(b) => AllNamed(b)'
        /\ NoVm(b) => NoVm(b)'
        /\ Whole(b) => Whole(b)'
    BY DEF AllNamed, NoVm, Whole
  <2>3. QED
    BY <1>4, <2>1, <2>2 DEF JobWhole, At, HalfPhases
<1>5. QED
  BY <1>1, <1>2, <1>3, <1>4 DEF OwnWhole

\* The steps of a command that looks, waits, shares or gives up.
LEMMA CalmStepsWhole ==
    ASSUME WholeInv, NEW p \in Procs, NEW b \in Boxes, b = job[p].box,
           \/ Look(p) \/ Start(p) \/ Lock(p) \/ Export(p) \/ GiveUp(p) \/ Unexport(p)
    PROVE  OwnWhole(p, b)
<1> USE DEF LookPhases, EmptyPhases, BarePhases, HalfPhases
<1>t. TypeInv /\ SameBox(p)
  BY OwnBoxBefore, StepIsLocal DEF Step
<1>w. crashes = 0 => JobWhole(p)
  BY OwnBoxBefore
<1>n. NoVm(b) => AllNamed(b)
  BY DEF NoVm, AllNamed
<1>1. CASE Look(p)
  <2>1. UNCHANGED <<record, disk, pidFile, vms, crashes>> /\ job[p].pc = "look"
    BY <1>1 DEF Look, files, At
  <2>2. job'[p].pc \in {"idle", "lock", "start", "stop"}
    BY <1>1, <1>t, ControlFlow
  <2>3. job'[p].pc = "lock" => record[b] = Absent
    BY <1>1, <1>t, Moves DEF Look
  <2>4. crashes = 0 => AllNamed(b) /\ Whole(b)
    BY <1>w, <2>1 DEF JobWhole, At
  <2>5. record[b] = Absent /\ AllNamed(b) => NoVm(b)
    BY OwnBoxBefore DEF NamedVms, AllNamed, NoVm
  <2>6. QED
    BY <1>t, <2>1, <2>2, <2>3, <2>4, <2>5, CalmWhole
<1>2. CASE Start(p)
  <2>1. UNCHANGED <<record, disk, pidFile, vms, crashes>> /\ job[p].pc = "start"
    BY <1>2 DEF Start, files, At
  <2>2. job'[p].pc \in {"idle", "export"}
    BY <1>2, <1>t, ControlFlow
  <2>3. job'[p].pc = "export" => ~Running(b)
    BY <1>2, <1>t, Moves DEF Start
  <2>4. crashes = 0 => AllNamed(b) /\ Whole(b)
    BY <1>w, <2>1 DEF JobWhole, At
  <2>5. ~Running(b) /\ AllNamed(b) => NoVm(b)
    BY DEF Running, AllNamed, NoVm
  <2>6. QED
    BY <1>t, <2>1, <2>2, <2>3, <2>4, <2>5, CalmWhole
<1>3. CASE Lock(p)
  <2>1. UNCHANGED <<record, disk, pidFile, vms, crashes>> /\ job[p].pc \in {"lock", "lockrm"}
    BY <1>3 DEF Lock, files, At
  <2>2. job'[p].pc \in {"choose", "remove"}
    BY <1>3, <1>t, ControlFlow
  <2>3. crashes = 0 => NoVm(b) /\ Whole(b)
    BY <1>w, <2>1 DEF JobWhole, At
  <2>4. QED
    BY <1>t, <2>1, <2>2, <2>3, CalmWhole
<1>4. CASE Export(p) \/ GiveUp(p) \/ Unexport(p)
  <2>1. /\ UNCHANGED <<record, disk, pidFile, vms, crashes>>
        /\ job[p].pc \in {"lock", "lockrm", "export", "spawn", "unexport"}
    BY <1>4 DEF Export, GiveUp, Unexport, files, At
  <2>2. job'[p].pc \in {"idle", "spawn", "stop", "lockrm"}
    BY <1>4, <1>t, ControlFlow
  <2>3. crashes = 0 => NoVm(b) /\ Whole(b)
    BY <1>w, <2>1 DEF JobWhole, At
  <2>4. QED
    BY <1>t, <1>n, <2>1, <2>2, <2>3, CalmWhole
<1>5. QED
  BY <1>1, <1>2, <1>3, <1>4

\* Choose and WriteRecord: the record is torn and then whole, before there is a disk.
LEMMA RecordStepsWhole ==
    ASSUME WholeInv, NEW p \in Procs, NEW b \in Boxes, b = job[p].box,
           Choose(p) \/ WriteRecord(p)
    PROVE  OwnWhole(p, b)
<1> USE DEF LookPhases, EmptyPhases, BarePhases, HalfPhases
<1>t. TypeInv /\ SameBox(p)
  BY OwnBoxBefore, StepIsLocal DEF Step
<1>w. crashes = 0 => JobWhole(p)
  BY OwnBoxBefore
<1>f. record \in [Boxes -> Taps \cup {Absent, Torn}]
  BY <1>t DEF TypeInv, TypeOK
<1>1. /\ UNCHANGED <<disk, pidFile, vms, crashes>> /\ job[p].pc \in {"choose", "write"}
      /\ crashes = 0 => NoVm(b)
  BY <1>w DEF Choose, WriteRecord, JobWhole, At
<1>n. NoVm(b) => NoVm(b)' /\ AllNamed(b)'
  BY <1>1 DEF NoVm, AllNamed
<1>2. CASE Choose(p) /\ UNCHANGED record
  <2>1. job'[p].pc \in {"idle", "cleanup"}
    <3>1. RecordsReadable => record # [record EXCEPT ![b] = Torn]
      BY <1>f DEF RecordsReadable
    <3>2. QED
      BY <1>2, <1>t, <3>1, Moves DEF Choose
  <2>2. crashes = 0 => Whole(b)
    BY <1>2, <1>w DEF Choose, JobWhole, At
  <2>3. NoVm(b) => AllNamed(b)
    BY DEF NoVm, AllNamed
  <2>4. QED
    BY <1>1, <1>2, <1>t, <2>1, <2>2, <2>3, CalmWhole
<1>3. CASE WriteRecord(p) /\ UNCHANGED record /\ Goto(p, "cleanup")
  <2>1. job'[p].pc = "cleanup"
    BY <1>3, <1>t, Moves
  <2>2. QED
    BY <1>1, <1>3, <1>t, <2>1, CalmWhole
<1>4. CASE /\ Choose(p) /\ record[b] \notin Taps /\ record' = [record EXCEPT ![b] = Torn]
           /\ \E t \in FreeTap : job' = [job EXCEPT ![p].pc = "write", ![p].tap = t]
  <2>1. PICK t : job' = [job EXCEPT ![p].pc = "write", ![p].tap = t]
    BY <1>4
  <2>2. job'[p].pc = "write" /\ job'[p].box = b
    BY <1>t, <2>1 DEF TypeInv, TypeOK, Job
  <2>3. NamedVms(b)'
    BY <1>1, <1>4, OwnBoxBefore DEF NamedVms
  <2>4. crashes = 0 => b \notin disk
    BY <1>4, <1>w, OwnBoxBefore DEF Choose, JobWhole, At, Whole, RecordsReadable
  <2>5. record'[b] = Torn
    BY <1>4, <1>f
  <2>6. ASSUME crashes = 0 PROVE JobWhole(p)'
    BY <1>1, <1>n, <2>2, <2>4, <2>5, <2>6 DEF JobWhole, At
  <2>7. QED
    BY <1>1, <2>2, <2>3, <2>6 DEF OwnWhole, JobVms, At
<1>5. CASE /\ WriteRecord(p) /\ record[b] = Torn /\ Goto(p, "copy")
           /\ record' = [record EXCEPT ![b] = job[p].tap]
  <2>1. job'[p].pc = "copy" /\ job'[p].box = b
    BY <1>5, <1>t, Moves
  <2>2. NamedVms(b)'
    BY <1>1, <1>5, OwnBoxBefore DEF NamedVms
  <2>3. crashes = 0 => b \notin disk
    BY <1>5, <1>w DEF WriteRecord, JobWhole, At
  <2>4. ASSUME crashes = 0 PROVE JobWhole(p)'
    BY <1>1, <1>n, <2>1, <2>3, <2>4 DEF JobWhole, At
  <2>5. QED
    BY <1>1, <2>1, <2>2, <2>4 DEF OwnWhole, JobVms, At
<1>6. QED
  <2>1. Choose(p) => (UNCHANGED record \/
            (/\ record[b] \notin Taps /\ record' = [record EXCEPT ![b] = Torn]
             /\ \E t \in FreeTap : job' = [job EXCEPT ![p].pc = "write", ![p].tap = t]))
    BY DEF Choose
  <2>2. WriteRecord(p) =>
            \/ UNCHANGED record /\ Goto(p, "cleanup")
            \/ /\ record[b] = Torn /\ Goto(p, "copy")
               /\ record' = [record EXCEPT ![b] = job[p].tap]
    BY DEF WriteRecord
  <2>3. QED
    BY <1>2, <1>3, <1>4, <1>5, <2>1, <2>2

\* CopyDisk, Cleanup and RemoveBox: the disk of a box comes last and goes with the record.
LEMMA DiskStepsWhole ==
    ASSUME WholeInv, NEW p \in Procs, NEW b \in Boxes, b = job[p].box,
           CopyDisk(p) \/ Cleanup(p) \/ RemoveBox(p)
    PROVE  OwnWhole(p, b)
<1> USE DEF LookPhases, EmptyPhases, BarePhases, HalfPhases
<1>t. TypeInv /\ SameBox(p)
  BY OwnBoxBefore, StepIsLocal DEF Step
<1>w. crashes = 0 => JobWhole(p)
  BY OwnBoxBefore
<1>f. record \in [Boxes -> Taps \cup {Absent, Torn}] /\ pidFile \in [Boxes -> Pids \cup {NoProcess}]
  BY <1>t DEF TypeInv, TypeOK
<1>1. /\ UNCHANGED <<vms, crashes>> /\ job[p].pc \in {"copy", "cleanup", "remove"}
      /\ crashes = 0 => NoVm(b)
  BY <1>w DEF CopyDisk, Cleanup, RemoveBox, JobWhole, At
<1>n. NoVm(b) => NoVm(b)' /\ AllNamed(b)'
  BY <1>1 DEF NoVm, AllNamed
<1>2. CASE CopyDisk(p) /\ Goto(p, "cleanup") /\ UNCHANGED disk
  <2>1. job'[p].pc = "cleanup"
    BY <1>2, <1>t, Moves
  <2>2. QED
    BY <1>1, <1>2, <1>t, <2>1, CalmWhole DEF CopyDisk
<1>3. CASE CopyDisk(p) /\ Goto(p, "export") /\ disk' = disk \cup {c \in {b} : record[c] # Absent}
  <2>1. job'[p].pc = "export" /\ job'[p].box = b
    BY <1>3, <1>t, Moves
  <2>2. UNCHANGED <<record, pidFile>> /\ record[b] \in Taps
    BY <1>3, OwnBoxBefore DEF CopyDisk, JobShares, BootPhases, TypeInv, WellFormed, At
  <2>3. Whole(b)'
    BY <1>3, <2>2, OwnBoxBefore DEF Whole
  <2>4. NamedVms(b)'
    BY <1>1, <2>2, OwnBoxBefore DEF NamedVms
  <2>5. ASSUME crashes = 0 PROVE JobWhole(p)'
    BY <1>1, <1>n, <2>1, <2>3, <2>5 DEF JobWhole, At
  <2>6. QED
    BY <1>1, <2>1, <2>4, <2>5 DEF OwnWhole, JobVms, At
<1>4. CASE Cleanup(p) \/ RemoveBox(p)
  <2>1. job'[p].pc = "idle"
    BY <1>4, <1>t, ControlFlow
  <2>2. record'[b] = Absent /\ b \notin disk' /\ pidFile'[b] = NoProcess
    BY <1>4, <1>f DEF Cleanup, RemoveBox, DirectoryRemoved
  <2>3. NamedVms(b)'
    BY <1>1, <2>2, OwnBoxBefore DEF NamedVms
  <2>4. Whole(b)'
    BY <2>2, OwnBoxBefore DEF Whole
  <2>5. QED
    BY <1>1, <1>n, <2>1, <2>3, <2>4 DEF OwnWhole, JobVms, At, Quiet
<1>5. QED
  BY <1>2, <1>3, <1>4 DEF CopyDisk

\* Spawn: the new process has a number that no other one of the box has.
LEMMA SpawnWhole ==
    ASSUME WholeInv, NEW p \in Procs, NEW b \in Boxes, b = job[p].box, Spawn(p)
    PROVE  OwnWhole(p, b)
<1> USE DEF LookPhases, EmptyPhases, BarePhases, HalfPhases
<1>t. TypeInv /\ SameBox(p)
  BY OwnBoxBefore, StepIsLocal DEF Step
<1>1. /\ UNCHANGED <<record, disk, pidFile, crashes>>
      /\ crashes = 0 => NoVm(b) /\ Whole(b)
  BY OwnBoxBefore DEF Spawn, JobWhole, At, files
<1>n. NoVm(b) => AllNamed(b)
  BY DEF NoVm, AllNamed
<1>2. CASE Return(p) /\ UNCHANGED vms
  <2>1. job'[p].pc = "idle"
    BY <1>2, <1>t, Moves
  <2>2. QED
    BY <1>1, <1>n, <1>2, <1>t, <2>1, CalmWhole
<1>3. ASSUME NEW pid \in Pids, FreshPid(b, pid),
             job' = [job EXCEPT ![p].pc = "pid", ![p].id = pid],
             vms' \in {vms, vms \cup {[id |-> pid, box |-> b, tap |-> job[p].tap]}}
      PROVE  OwnWhole(p, b)
  <2>1. /\ job'[p].pc = "pid" /\ job'[p].box = b /\ job'[p].id = pid
        /\ job'[p].tap = job[p].tap
    BY <1>3, <1>t DEF TypeInv, TypeOK, Job
  <2>2. pid # pidFile[b] /\ \A v \in vms : v.box = b => v.id # pid
    BY <1>3 DEF FreshPid, UnnamedPids
  <2>3. \A v \in vms' : v \in vms \/ (v.id = pid /\ v.box = b /\ v.tap = job[p].tap)
    BY <1>3
  <2>4. NamedVms(b)'
    BY <1>1, <2>2, <2>3, OwnBoxBefore DEF NamedVms
  <2>5. JobVms(p)'
    BY <2>1, <2>2, <2>3 DEF JobVms, At
  <2>6. ASSUME crashes = 0 PROVE JobWhole(p)'
    <3>1. \A v \in vms' : v.box = b => v.id = pid
      BY <1>1, <2>3, <2>6 DEF NoVm
    <3>2. Whole(b)'
      BY <1>1, <2>6 DEF Whole
    <3>3. QED
      BY <2>1, <3>1, <3>2 DEF JobWhole, At
  <2>7. QED
    BY <1>1, <2>1, <2>4, <2>5, <2>6 DEF OwnWhole, At
<1>4. QED
  BY <1>2, <1>3 DEF Spawn

\* WritePid: the process that was started is recorded, or killed.
LEMMA WritePidWhole ==
    ASSUME WholeInv, NEW p \in Procs, NEW b \in Boxes, b = job[p].box, WritePid(p)
    PROVE  OwnWhole(p, b)
<1> USE DEF LookPhases, EmptyPhases, BarePhases, HalfPhases
<1>t. TypeInv /\ NamedVms(b) /\ JobVms(p) /\ record[b] = job[p].tap
  BY OwnBoxBefore DEF WritePid, At, JobShares, BootPhases
<1>1. /\ UNCHANGED <<record, disk, crashes>> /\ job'[p].pc = "idle"
      /\ crashes = 0 => Whole(b) /\ \A v \in vms : v.box = b => v.id = job[p].id
  BY <1>t, OwnBoxBefore, ControlFlow DEF WritePid, JobWhole, At
<1>w. crashes = 0 => Whole(b)'
  BY <1>1 DEF Whole
<1>2. CASE pidFile' = [pidFile EXCEPT ![b] = job[p].id] /\ UNCHANGED vms
  <2>1. pidFile'[b] = job[p].id
    BY <1>2, <1>t DEF TypeInv, TypeOK
  <2>2. NamedVms(b)'
    BY <1>1, <1>2, <1>t, <2>1 DEF NamedVms, JobVms, WritePid
  <2>3. crashes = 0 => AllNamed(b)'
    BY <1>1, <1>2, <2>1 DEF AllNamed
  <2>4. QED
    BY <1>1, <1>w, <2>2, <2>3 DEF OwnWhole, JobVms, At, Quiet
<1>3. CASE vms' = {v \in vms : v.box # b \/ v.id # job[p].id} /\ UNCHANGED pidFile
  <2>1. NamedVms(b)'
    BY <1>1, <1>3, <1>t DEF NamedVms
  <2>2. crashes = 0 => AllNamed(b)'
    BY <1>1, <1>3 DEF AllNamed
  <2>3. QED
    BY <1>1, <1>w, <2>1, <2>2 DEF OwnWhole, JobVms, At, Quiet
<1>4. QED
  BY <1>2, <1>3 DEF WritePid

\* Stop and Kill: the process that the pid file names is gone, or the Stop failed.
LEMMA StopStepsWhole ==
    ASSUME WholeInv, NEW p \in Procs, NEW b \in Boxes, b = job[p].box, Stop(p) \/ Kill(p)
    PROVE  OwnWhole(p, b)
<1> USE DEF LookPhases, EmptyPhases, BarePhases, HalfPhases
<1>t. TypeInv /\ SameBox(p) /\ NamedVms(b) /\ JobVms(p)
  BY OwnBoxBefore, StepIsLocal DEF Step
<1>1. /\ UNCHANGED <<record, disk, pidFile, crashes>>
      /\ crashes = 0 => AllNamed(b) /\ Whole(b)
  BY OwnBoxBefore DEF Stop, Kill, JobWhole, At, files
<1>w. crashes = 0 => Whole(b)'
  BY <1>1 DEF Whole
<1>2. CASE Stop(p) /\ ~Running(b)
  <2>1. job'[p].pc = "unexport" /\ UNCHANGED vms
    BY <1>2, <1>t DEF Stop, TypeInv, TypeOK, Job
  <2>2. AllNamed(b) => NoVm(b)
    BY <1>2 DEF Running, AllNamed, NoVm
  <2>3. QED
    BY <1>1, <1>t, <2>1, <2>2, CalmWhole
<1>3. CASE Stop(p) /\ Running(b)
  <2>1. job'[p].pc = "kill" /\ job'[p].box = b /\ job'[p].id = pidFile[b] /\ UNCHANGED vms
    BY <1>3, <1>t DEF Stop, TypeInv, TypeOK, Job
  <2>2. NamedVms(b)' /\ JobVms(p)'
    BY <1>1, <1>t, <2>1 DEF NamedVms, JobVms, At
  <2>3. ASSUME crashes = 0 PROVE JobWhole(p)'
    <3>1. AllNamed(b)'
      BY SMTT(60), <1>1, <2>1, <2>3 DEF AllNamed
    <3>2. QED
      BY <1>w, <2>1, <2>3, <3>1 DEF JobWhole, At
  <2>4. QED
    BY <1>1, <2>1, <2>2, <2>3 DEF OwnWhole, At
<1>4. CASE Kill(p) /\ UNCHANGED vms /\ AfterStop(p, FALSE)
  <2>1. job'[p].pc \in {"stop", "idle"}
    <3>1. job' = [job EXCEPT ![p].pc = "stop", ![p].last = TRUE, ![p].id = NoProcess] =>
              job'[p].pc = "stop"
      BY <1>t DEF TypeInv, TypeOK, Job
    <3>2. QED
      BY <1>4, <1>t, <3>1, Moves DEF AfterStop
  <2>2. QED
    BY SMTT(60), <1>1, <1>4, <1>t, <2>1, CalmWhole
<1>5. CASE /\ Kill(p) /\ Goto(p, "unexport")
           /\ vms' = {v \in vms : v.box # b \/ v.id # job[p].id}
  <2>1. job'[p].pc = "unexport" /\ job'[p].box = b /\ job[p].id = pidFile[b]
    BY <1>5, <1>t, Moves DEF Kill, JobVms
  <2>2. NamedVms(b)' /\ JobVms(p)'
    BY <1>1, <1>5, <1>t, <2>1 DEF NamedVms, JobVms, At
  <2>3. ASSUME crashes = 0 PROVE JobWhole(p)'
    <3>1. NoVm(b)'
      BY <1>1, <1>5, <2>1, <2>3 DEF AllNamed, NoVm
    <3>2. QED
      BY <1>w, <2>1, <2>3, <3>1 DEF JobWhole, At
  <2>4. QED
    BY <1>1, <2>1, <2>2, <2>3 DEF OwnWhole, At
<1>6. QED
  BY <1>2, <1>3, <1>4, <1>5 DEF Kill

\* Crash: nothing is promised any more of what the command had in its hands.
LEMMA CrashWhole ==
    ASSUME WholeInv, NEW p \in Procs, NEW b \in Boxes, b = job[p].box, Crash(p)
    PROVE  OwnWhole(p, b)
<1>1. /\ UNCHANGED <<record, pidFile, vms>> /\ job'[p].pc = "idle" /\ crashes' # 0
      /\ NamedVms(b)
  BY OwnBoxBefore, ControlFlow DEF Crash, files
<1>2. QED
  BY <1>1 DEF OwnWhole, NamedVms, JobVms, At

\* Begin: between its commands the box is whole.
LEMMA BeginKeepsWhole ==
    ASSUME Exclusive, WholeInv, ShareInv', NEW p \in Procs, Begin(p)
    PROVE  WholeInv'
<1>t. TypeInv /\ OthersKeep(p) /\ At(p, "idle") /\ UNCHANGED <<record, disk, pidFile, vms, crashes>>
  BY Locality DEF Begin, WholeInv, ShareInv, files
<1>1. PICK b \in Boxes : Working(b) = {} /\ job'[p].pc = "look" /\ job'[p].box = b
  BY <1>t DEF Begin, Idle, TypeInv, TypeOK
<1>2. \A c \in Boxes : NamedVms(c)'
  BY <1>t DEF WholeInv, NamedVms
<1>3. \A q \in Procs : JobVms(q)'
  BY <1>t, <1>1 DEF WholeInv, JobVms, OthersKeep, At
<1>4. ASSUME crashes = 0 PROVE AllWhole'
  <2>1. AllWhole
    BY <1>4 DEF WholeInv
  <2>2. \A c \in Boxes : Quiet(c) => Quiet(c)' /\ AllNamed(c)' /\ Whole(c)'
    BY <1>t DEF Quiet, AllNamed, Whole
  <2>3. JobWhole(p)'
    BY <1>1, <2>1, <2>2
       DEF AllWhole, JobWhole, At, LookPhases, EmptyPhases, BarePhases, HalfPhases
  <2>4. ASSUME NEW q \in Procs, q # p PROVE JobWhole(q)'
    <3>1. JobWhole(q) /\ job'[q] = job[q]
      BY <1>t, <2>1, <2>4 DEF AllWhole, OthersKeep
    <3>2. QED
      BY <1>t, <3>1 DEF JobWhole, At, AllNamed, NoVm, Whole
  <2>5. ASSUME NEW c \in Boxes, Working(c)' = {} PROVE Quiet(c)'
    <3>1. Working(c) = {}
      BY <1>t, <2>5 DEF Working, OthersKeep, At
    <3>2. QED
      BY <2>1, <2>2, <3>1 DEF AllWhole
  <2>6. QED
    BY <2>3, <2>4, <2>5 DEF AllWhole
<1>5. QED
  BY <1>t, <1>2, <1>3, <1>4 DEF WholeInv

\* Exit: a process less, and nothing else.
LEMMA ExitKeepsWhole ==
    ASSUME WholeInv, ShareInv', NEW v \in vms, Exit(v)
    PROVE  WholeInv'
<1>1. UNCHANGED <<record, disk, pidFile, crashes, job>> /\ vms' \subseteq vms
  BY DEF Exit, files
<1>2. (\A c \in Boxes : NamedVms(c)') /\ (\A q \in Procs : JobVms(q)')
  BY <1>1 DEF WholeInv, NamedVms, JobVms, At
<1>3. ASSUME crashes = 0 PROVE AllWhole'
  <2>1. AllWhole
    BY <1>3 DEF WholeInv
  <2>2. ASSUME NEW q \in Procs PROVE JobWhole(q)'
    BY <1>1, <2>1 DEF AllWhole, JobWhole, At, AllNamed, NoVm, Whole
  <2>3. ASSUME NEW c \in Boxes, Working(c)' = {} PROVE Quiet(c)'
    <3>1. Working(c) = {}
      BY <1>1, <2>3 DEF Working
    <3>2. QED
      BY <1>1, <2>1, <3>1 DEF AllWhole, Quiet, AllNamed, Whole
  <2>4. QED
    BY <2>2, <2>3 DEF AllWhole
<1>4. QED
  BY <1>1, <1>2, <1>3 DEF WholeInv

\* The invariant behind VmKeepsItsRecord and QuietBoxWhole.
LEMMA WholeInvariant == ASSUME Exclusive PROVE Spec => []WholeInv
<1>1. Init /\ ShareInv => WholeInv
  BY DEF Init, WholeInv, NamedVms, JobVms, AllWhole, JobWhole, Quiet, AllNamed, Whole, At, Idle,
         LookPhases, EmptyPhases, BarePhases, HalfPhases, Absent, Torn
<1>2. WholeInv /\ ShareInv' /\ [Next]_vars => WholeInv'
  <2> SUFFICES ASSUME WholeInv, ShareInv', [Next]_vars PROVE WholeInv'
    OBVIOUS
  <2>t. TypeInv
    BY DEF WholeInv, ShareInv
  <2>1. CASE UNCHANGED vars
    BY <2>1 DEF vars, WholeInv, NamedVms, JobVms, AllWhole, JobWhole, Quiet, AllNamed, NoVm,
                Whole, Working, At
  <2>2. ASSUME NEW p \in Procs, Begin(p) PROVE WholeInv'
    BY <2>2, BeginKeepsWhole
  <2>3. ASSUME NEW p \in Procs, Step(p) \/ GiveUp(p) \/ Crash(p) PROVE WholeInv'
    <3>1. BoxLocal(p) /\ SameBox(p) /\ ~At(p, "idle") /\ FilesLocal(p) /\ OthersKeep(p)
      BY <2>t, <2>3, StepIsLocal, FilesAreLocal, Locality
    <3>2. PICK b \in Boxes : b = job[p].box
      BY <2>t, <3>1 DEF TypeInv, WellFormed, At
    <3>3. OwnWhole(p, b)
      BY <2>3, <3>2, CalmStepsWhole, RecordStepsWhole, DiskStepsWhole, SpawnWhole,
         WritePidWhole, StopStepsWhole, CrashWhole DEF Step
    <3>4. QED
      BY <3>1, <3>2, <3>3, OwnWholeSuffices
  <2>4. ASSUME NEW v \in vms, Exit(v) PROVE WholeInv'
    BY <2>4, ExitKeepsWhole
  <2>5. QED
    BY <2>1, <2>2, <2>3, <2>4 DEF Next
<1>3. QED
  BY <1>1, <1>2, ShareInvariant, PTL DEF Spec

(* While the commands on a box do not overlap, the process that the pid file *)
(* of a box names runs on the tap of its record, whatever fails and whatever *)
(* dies; and without a death every process of the box does (boot, Stop and   *)
(* Delete).                                                                   *)
THEOREM VmsKeepTheirRecord == ASSUME Exclusive PROVE Spec => []VmKeepsItsRecord
<1>1. WholeInv => VmKeepsItsRecord
  <2> SUFFICES ASSUME WholeInv, NEW v \in vms, crashes = 0 \/ v.id = pidFile[v.box]
               PROVE  record[v.box] = v.tap
    BY DEF VmKeepsItsRecord
  <2>1. v.box \in Boxes
    BY DEF WholeInv, ShareInv, TypeInv, TypeOK, VM
  <2>2. CASE v.id = pidFile[v.box]
    BY <2>1, <2>2 DEF WholeInv, NamedVms
  <2>3. CASE crashes = 0 /\ Working(v.box) = {}
    BY <2>1, <2>3 DEF WholeInv, AllWhole, Quiet, AllNamed, NamedVms
  <2>4. ASSUME crashes = 0, NEW p \in Working(v.box) PROVE record[v.box] = v.tap
    <3>1. p \in Procs /\ ~At(p, "idle") /\ job[p].box = v.box /\ JobWhole(p)
      BY <2>4 DEF Working, At, WholeInv, AllWhole
    <3>2. job[p].pc \in LookPhases \cup EmptyPhases \cup {"pid"}
      BY <3>1, PhaseType DEF LookPhases, EmptyPhases, BarePhases, At, WholeInv, ShareInv,
                             TypeInv, WellFormed, Job
    <3>3. v.id = pidFile[v.box] \/ (At(p, "pid") /\ v.id = job[p].id)
      BY <3>1, <3>2 DEF JobWhole, AllNamed, NoVm, At
    <3>4. CASE At(p, "pid") /\ v.id = job[p].id
      <4>1. v.tap = job[p].tap
        BY <3>1, <3>4 DEF WholeInv, JobVms
      <4>2. record[v.box] = job[p].tap
        BY <3>1, <3>4 DEF WholeInv, ShareInv, JobShares, BootPhases, At
      <4>3. QED
        BY <4>1, <4>2
    <3>5. QED
      BY <2>2, <3>3, <3>4
  <2>5. QED
    BY <2>2, <2>3, <2>4
<1>2. QED
  BY <1>1, WholeInvariant, PTL

(* While no command dies and those on a box do not overlap, a box between its *)
(* commands has a readable record and a disk or neither, and no process that *)
(* its pid file does not name, whichever step of Create, Start, Stop or      *)
(* Delete failed.                                                             *)
THEOREM QuietBoxesStayWhole == ASSUME Exclusive PROVE Spec => []QuietBoxWhole
<1>1. WholeInv => QuietBoxWhole
  BY DEF WholeInv, AllWhole, Quiet, AllNamed, Whole, QuietBoxWhole
<1>2. QED
  BY <1>1, WholeInvariant, PTL

============================================================================

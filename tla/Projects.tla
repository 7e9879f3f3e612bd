------------------------------ MODULE Projects ------------------------------
(***************************************************************************)
(* The record of a project (project.json) and the commands that carry it    *)
(* around: `prison up`, `setup`, `down`, `rm`, `rm --state` and `trust`     *)
(* (internal/session, internal/cli). A command reads the record once, when  *)
(* it opens its session, and saves its own copy, whole, several times. No   *)
(* lock is taken: commands about one project can overlap, and die.          *)
(*                                                                          *)
(* Abstracted: prison.toml is the setup commands it holds, and a project    *)
(* without a trusted one has the commands that prison detects; ports are    *)
(* never explicit and a block of ports is one value; a box is whether it    *)
(* runs and which setup commands ran in it (Boxes.tla has its inside).      *)
(***************************************************************************)
EXTENDS Naturals, FiniteSets

CONSTANTS
    Procs,        \* prison processes
    Projects,
    NoProject,    \* the project of an idle process
    Configs,      \* contents of prison.toml
    Missing,      \* there is no prison.toml
    Detected,     \* the setup commands that prison detects
    NoSetup,      \* the record has no setup signature
    MaxBlock,     \* port blocks between PRISON_PORT_BASE and PRISON_PORT_LIMIT
    OtherBlocks,  \* blocks with a port that another program listens on
    MaxEdits      \* bound: changes of prison.toml by the user or the box

ASSUME ProjectsBlocks == MaxBlock \in Nat \ {0}
ASSUME ProjectsBounds == MaxEdits \in Nat
ASSUME ProjectsNames == /\ NoProject \notin Projects
                        /\ {Missing, Detected, NoSetup} \cap Configs = {}
                        /\ Missing # Detected /\ NoSetup # Detected /\ NoSetup # Missing

NoBlock == 0
Blocks == 1 .. MaxBlock
Setups == Configs \cup {Detected}

VARIABLES
    dirs,      \* projects with a state directory
    record,    \* project -> project.json, or NoRecord
    box,       \* project -> its box, or NoBox
    config,    \* project -> prison.toml
    edits,     \* changes of prison.toml so far
    job,       \* process -> the command it runs and its locals
    \* History.
    approved,  \* project -> the contents that the user said yes to
    messy      \* projects with commands that overlapped or died

history == <<approved, messy>>
vars == <<dirs, record, box, config, edits, job, approved, messy>>

Record == [trusted : Configs \cup {Missing}, block : Blocks \cup {NoBlock},
           setup : Setups \cup {NoSetup}, shaped : BOOLEAN, there : BOOLEAN]
NoRecord == [trusted |-> Missing, block |-> NoBlock, setup |-> NoSetup,
             shaped |-> FALSE, there |-> FALSE]

Box == [there : BOOLEAN, running : BOOLEAN, ran : SUBSET Setups]
NoBox == [there |-> FALSE, running |-> FALSE, ran |-> {}]
NewBox == [there |-> TRUE, running |-> TRUE, ran |-> {}]

Commands == {"up", "setup", "down", "rm", "rmstate", "trust"}
Phases == {"idle", "open", "ensure", "alloc", "block", "box", "shape",
           "setup", "run", "signature", "look", "destroy", "forget", "forgotten",
           "remove", "confirm", "approve"}
Job == [pc : Phases, cmd : Commands, of : Projects \cup {NoProject}, rec : Record,
        conf : Configs \cup {Missing}, trusted : BOOLEAN, block : Blocks \cup {NoBlock}]
Idle == [pc |-> "idle", cmd |-> "up", of |-> NoProject, rec |-> NoRecord,
         conf |-> Missing, trusted |-> FALSE, block |-> NoBlock]

Init ==
    /\ dirs = {}
    /\ record = [p \in Projects |-> NoRecord]
    /\ box = [p \in Projects |-> NoBox]
    /\ config \in [Projects -> {Missing} \cup Configs]
    /\ edits = 0
    /\ job = [c \in Procs |-> Idle]
    /\ approved = [p \in Projects |-> {}]
    /\ messy = {}

----------------------------------------------------------------------------
At(c, phase) == job[c].pc = phase
Working(p) == {c \in Procs : job[c].of = p}
Go(c, phase) == job' = [job EXCEPT ![c].pc = phase]
Return(c) == job' = [job EXCEPT ![c] = Idle]

\* SaveRecord: the command's own copy replaces the file, and the command goes on;
\* without the state directory it fails, and so does the command.
Save(c, rec, phase) ==
    LET saved == [rec EXCEPT !.there = TRUE] IN
    IF job[c].of \notin dirs THEN UNCHANGED record /\ Return(c)
    ELSE /\ record' = [record EXCEPT ![job[c].of] = saved]
         /\ IF phase = "idle" THEN Return(c)
            ELSE job' = [job EXCEPT ![c].pc = phase, ![c].rec = saved, ![c].block = NoBlock]

----------------------------------------------------------------------------
Begin(c) ==
    /\ At(c, "idle")
    /\ \E p \in Projects, cmd \in Commands :
         /\ job' = [job EXCEPT ![c] = [Idle EXCEPT !.cmd = cmd, !.of = p,
              !.pc = IF cmd \in {"up", "setup", "trust"} THEN "open" ELSE "look"]]
         /\ messy' = IF Working(p) # {} THEN messy \cup {p} ELSE messy
    /\ UNCHANGED <<dirs, record, box, config, edits, approved>>

\* Where a command goes when its session is open. `setup` needs a running box;
\* `trust` asks about a file that is there and is not trusted.
Opened(cmd, running, there, trusted) ==
    CASE cmd = "up" -> "ensure"
      [] cmd = "setup" -> IF running THEN "setup" ELSE "idle"
      [] OTHER -> IF there /\ ~trusted THEN "confirm" ELSE "idle"

\* Open makes the state directory (Root.Project) and reads the record once;
\* readConfig reads prison.toml once, for the content and for whether it is
\* trusted. (One step: only edits can come in between, and an edit before both
\* reads is the same.)
Open(c) ==
    LET p == job[c].of
        conf == config[p]
        trusted == conf # Missing /\ record[p].there /\ record[p].trusted = conf
        phase == Opened(job[c].cmd, box[p].running, conf # Missing, trusted)
    IN  /\ At(c, "open")
        /\ IF phase = "idle" THEN Return(c)
           ELSE job' = [job EXCEPT ![c].pc = phase, ![c].rec = record[p], ![c].trusted = trusted,
                          ![c].conf = IF trusted \/ phase = "confirm" THEN conf ELSE Missing]
        /\ dirs' = dirs \cup {p}
        /\ UNCHANGED <<record, box, config, edits, history>>

\* ensureRecord.
Ensure(c) ==
    /\ At(c, "ensure")
    /\ Save(c, job[c].rec, "alloc")
    /\ UNCHANGED <<dirs, box, config, edits, history>>

\* allocatePortBlock: the blocks in the records of the other projects are
\* taken; the recorded block of the project is kept when it is not, and else
\* it is the lowest block that is neither taken nor listened on.
TakenByOthers(p) == {record[q].block : q \in Projects \ {p}}
Published == {record[q].block : q \in {r \in Projects : box[r].running}}
Choice(p, own, listened) ==
    LET free == Blocks \ (TakenByOthers(p) \cup listened) IN
    IF own # NoBlock /\ own \notin TakenByOthers(p) THEN {own}
    ELSE IF free = {} THEN {NoBlock}
    ELSE {x \in free : \A y \in free : x <= y}

Alloc(c) ==
    LET p == job[c].of IN
    /\ At(c, "alloc")
    /\ \E x \in Choice(p, job[c].rec.block, Published \cup OtherBlocks) :
         job' = IF x \in {NoBlock, job[c].rec.block} THEN [job EXCEPT ![c].pc = "box"]
                ELSE [job EXCEPT ![c].pc = "block", ![c].block = x]
    /\ UNCHANGED <<dirs, record, box, config, edits, history>>

\* Up: the block is saved at once, in the copy of the record.
SaveBlock(c) ==
    /\ At(c, "block")
    /\ Save(c, [job[c].rec EXCEPT !.block = job[c].block], "box")
    /\ UNCHANGED <<dirs, box, config, edits, history>>

\* createOrStartBox: an existing box is started, else a new one is created. Either
\* can fail; a box whose boot failed is there, and may run.
CreateOrStart(c) ==
    LET p == job[c].of IN
    /\ At(c, "box")
    /\ \/ box[p].there /\ box' = [box EXCEPT ![p].running = TRUE] /\ Go(c, "setup")
       \/ ~box[p].there /\ box' = [box EXCEPT ![p] = NewBox] /\ Go(c, "shape")
       \/ /\ ~box[p].there
          /\ \E runs \in BOOLEAN : box' = [box EXCEPT ![p] = [NewBox EXCEPT !.running = runs]]
          /\ Return(c)
       \/ UNCHANGED box /\ Return(c)
    /\ UNCHANGED <<dirs, record, config, edits, history>>

\* createOrStartBox saves the shape of the box that it created.
SaveShape(c) ==
    /\ At(c, "shape")
    /\ Save(c, [job[c].rec EXCEPT !.shaped = TRUE], "setup")
    /\ UNCHANGED <<dirs, box, config, edits, history>>

\* SetupCommands, of the session and not of the file as it is now.
Signature(c) == IF job[c].trusted THEN job[c].conf ELSE Detected
SignatureNow(c) ==
    IF job[c].trusted /\ config[job[c].of] # Missing THEN config[job[c].of] ELSE Detected

\* runSetup: skipped when the record says that these commands ran, unless the
\* user forces it.
Setup(c) ==
    /\ At(c, "setup")
    /\ \/ job[c].rec.setup = Signature(c) /\ Return(c)
       \/ (job[c].rec.setup # Signature(c) \/ job[c].cmd = "setup") /\ Go(c, "run")
    /\ UNCHANGED <<dirs, record, box, config, edits, history>>

RunSetupOfTheFile(c) ==
    LET p == job[c].of IN
    /\ At(c, "run")
    /\ \/ /\ box[p].running
          /\ box' = [box EXCEPT ![p].ran = @ \cup {SignatureNow(c)}]
          /\ Go(c, "signature")
       \/ UNCHANGED box /\ Return(c)
    /\ UNCHANGED <<dirs, record, config, edits, history>>

\* The commands run in the box, or one fails and the command returns. (What the
\* ones before it did to the box is not kept.)
RunSetup(c) ==
    LET p == job[c].of IN
    /\ At(c, "run")
    /\ \/ /\ box[p].running
          /\ box' = [box EXCEPT ![p].ran = @ \cup {Signature(c)}]
          /\ Go(c, "signature")
       \/ UNCHANGED box /\ Return(c)
    /\ UNCHANGED <<dirs, record, config, edits, history>>

\* runSetup saves the signature, unless the session found no record.
SaveSignature(c) ==
    /\ At(c, "signature")
    /\ IF job[c].rec.there THEN Save(c, [job[c].rec EXCEPT !.setup = Signature(c)], "idle")
       ELSE UNCHANGED record /\ Return(c)
    /\ UNCHANGED <<dirs, box, config, edits, history>>

\* runDown and runRemove find the project, which makes its state directory, and look
\* for the box; without one, only `rm --state` goes on.
Look(c) ==
    /\ At(c, "look")
    /\ \/ box[job[c].of].there /\ Go(c, "destroy")
       \/ ~box[job[c].of].there /\ job[c].cmd = "rmstate" /\ Go(c, "remove")
       \/ ~box[job[c].of].there /\ job[c].cmd # "rmstate" /\ Return(c)
    /\ dirs' = dirs \cup {job[c].of}
    /\ UNCHANGED <<record, box, config, edits, history>>

\* Stop, or destroyBox, which can fail and leave the box there.
Destroy(c) ==
    LET p == job[c].of IN
    /\ At(c, "destroy")
    /\ \/ /\ job[c].cmd = "down"
          /\ box' = [box EXCEPT ![p].running = FALSE]
          /\ Return(c)
       \/ /\ job[c].cmd # "down"
          /\ box' = [box EXCEPT ![p] = NoBox]
          /\ Go(c, IF job[c].cmd = "rm" THEN "forget" ELSE "remove")
       \/ /\ box' \in {box, [box EXCEPT ![p].running = FALSE]}
          /\ Return(c)
    /\ UNCHANGED <<dirs, record, config, edits, history>>

\* forgetBoxShape reads the record again...
ForgetRead(c) ==
    /\ At(c, "forget")
    /\ IF record[job[c].of].there
       THEN job' = [job EXCEPT ![c].pc = "forgotten", ![c].rec = record[job[c].of]]
       ELSE Return(c)
    /\ UNCHANGED <<dirs, record, box, config, edits, history>>

ForgetShapeOnly(c) ==
    /\ At(c, "forgotten")
    /\ Save(c, [job[c].rec EXCEPT !.shaped = FALSE], "idle")
    /\ UNCHANGED <<dirs, box, config, edits, history>>

\* ...and clears what it says of the box.
Forget(c) ==
    /\ At(c, "forgotten")
    /\ Save(c, [job[c].rec EXCEPT !.shaped = FALSE, !.setup = NoSetup], "idle")
    /\ UNCHANGED <<dirs, box, config, edits, history>>

\* Project.Remove.
RemoveState(c) ==
    /\ At(c, "remove")
    /\ dirs' = dirs \ {job[c].of}
    /\ record' = [record EXCEPT ![job[c].of] = NoRecord]
    /\ Return(c)
    /\ UNCHANGED <<box, config, edits, history>>

\* `prison trust` shows what it read, and the user answers.
Confirm(c) ==
    LET p == job[c].of IN
    /\ At(c, "confirm")
    /\ \/ Return(c) /\ UNCHANGED approved
       \/ approved' = [approved EXCEPT ![p] = @ \cup {job[c].conf}] /\ Go(c, "approve")
    /\ UNCHANGED <<dirs, record, box, config, edits, messy>>

\* recordTrustedConfiguration: the hash of the content that was shown goes
\* into the record that was read before the question.
Approve(c) ==
    /\ At(c, "approve")
    /\ Save(c, [job[c].rec EXCEPT !.trusted = job[c].conf], "idle")
    /\ UNCHANGED <<dirs, box, config, edits, history>>

\* The user, or the box, which has the directory as a mount, changes prison.toml.
Edit(p) ==
    /\ edits < MaxEdits
    /\ edits' = edits + 1
    /\ \E conf \in Configs \cup {Missing} : config' = [config EXCEPT ![p] = conf]
    /\ UNCHANGED <<dirs, record, box, job, history>>

\* A command is killed, or a save of it fails.
Crash(c) ==
    /\ ~At(c, "idle")
    /\ messy' = messy \cup {job[c].of}
    /\ Return(c)
    /\ UNCHANGED <<dirs, record, box, config, edits, approved>>

Step(c) ==
    \/ Open(c) \/ Ensure(c) \/ Alloc(c) \/ SaveBlock(c)
    \/ CreateOrStart(c) \/ SaveShape(c) \/ Setup(c) \/ RunSetup(c) \/ SaveSignature(c)
    \/ Look(c) \/ Destroy(c) \/ ForgetRead(c) \/ Forget(c) \/ RemoveState(c)
    \/ Confirm(c) \/ Approve(c)

Next ==
    \/ \E c \in Procs : Begin(c) \/ Step(c) \/ Crash(c)
    \/ \E p \in Projects : Edit(p)

Spec == Init /\ [][Next]_vars
----------------------------------------------------------------------------
TypeOK ==
    /\ dirs \subseteq Projects
    /\ record \in [Projects -> Record]
    /\ box \in [Projects -> Box]
    /\ config \in [Projects -> Configs \cup {Missing}]
    /\ edits \in 0 .. MaxEdits
    /\ job \in [Procs -> Job]
    /\ approved \in [Projects -> SUBSET Configs]
    /\ messy \subseteq Projects

(* Commands of prison.toml run in a box only after the user has seen and    *)
(* approved exactly that content, whatever the box writes to the file        *)
(* between the hash, the question and the run, and however commands overlap  *)
(* or die: readConfig hashes and decodes one read.                           *)
OnlyApprovedCommandsRun ==
    \A p \in Projects : box[p].ran \subseteq approved[p] \cup {Detected}

(* What the record says of a box is said of the box that is there, and not  *)
(* of one that `prison rm` removed: its setup commands ran in this box, so   *)
(* that the next `prison up` skips setup only when it may, and shape drift   *)
(* (DescribeShapeDrift) is reported against this box. Holds while no command *)
(* about the project overlapped with another or died.                        *)
RecordIsOfThisBox ==
    \A p \in Projects : p \notin messy /\ Working(p) = {} =>
        /\ box[p].there => record[p].setup \in box[p].ran \cup {NoSetup}
        /\ record[p].shaped => box[p].there

(* docs/CONFIGURATION.md:135-136 says of the setup commands: "These commands *)
(* only run once per box. [...] They also re-run after a `prison rm`". They  *)
(* do not after one that died, or could not save the record, once the box    *)
(* was gone: the record still has the signature and `prison rm` finds no box *)
(* any more.                                                                  *)
SetupRunsAgainAfterRm ==
    \A p \in Projects : Working(p) = {} /\ box[p].there =>
        record[p].setup \in box[p].ran \cup {NoSetup}

(* session/up.go:82 says of the block that `prison up` chose: "The record   *)
(* saves the block now so that another project cannot take it".              *)
BlocksDistinct ==
    \A p, q \in Projects : record[p].block = record[q].block /\ p # q => record[p].block = NoBlock
============================================================================

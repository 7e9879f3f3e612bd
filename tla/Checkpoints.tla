---------------------------- MODULE Checkpoints ----------------------------
(***************************************************************************)
(* The checkpoints of a project (internal/checkpoint): objects that hold    *)
(* the contents of files, manifests that name them, HEAD, and the commands  *)
(* that record the tree of the project and bring a recorded one back, while *)
(* the box goes on writing the tree. Commands that change something hold    *)
(* the flock of the store from their start to their end.                    *)
(*                                                                          *)
(* Abstracted: a digest is the content; links and modes are contents; every *)
(* path can be read; the walk of a scan is one step; the result of merging  *)
(* two texts is some content; the label and time of a checkpoint are left   *)
(* out. A step that fails ends its command as its death does (Fail).        *)
(***************************************************************************)
EXTENDS Naturals, FiniteSets, FiniteSetsExt

CONSTANTS
    Procs,      \* prison commands
    Paths,      \* paths of the project, none of them ignored
    Inside,     \* path -> the path of its directory, or Top
    Top,        \* the directory of the project
    Contents,   \* contents of files
    MaxId,      \* bound: checkpoints
    MaxWrites   \* bound: changes that the box makes in the tree

Absent == "absent"
Dir == "directory"
Pending == "pending"        \* a scanned file that is not stored yet
Leave == "leave"            \* a plan does not touch the path
RemoveEmpty == "if empty"   \* a plan removes the path unless it is a directory in use

ASSUME CheckpointsPaths ==
    /\ Inside \in [Paths -> Paths \cup {Top}] /\ Top \notin Paths
    /\ \A x \in Paths : Inside[x] # Top => Inside[Inside[x]] = Top
ASSUME CheckpointsContents == Contents \cap {Absent, Dir, Pending, Leave, RemoveEmpty} = {}
ASSUME CheckpointsBounds == MaxId \in Nat \ {0} /\ MaxWrites \in Nat

Ids == 1 .. MaxId
NoHead == 0
Entries == Contents \cup {Absent, Dir}
Manifest == [Paths -> Entries]
NoManifest == <<>>
EmptyTree == [x \in Paths |-> Absent]

VARIABLES
    tree,       \* path -> what is there
    ignored,    \* directories with files in them that checkpoints ignore
    writes,     \* changes of the box so far
    objects,    \* the contents that are stored
    manifests,  \* id -> what it recorded, or NoManifest
    head,       \* HEAD
    lock,       \* commands that hold the flock
    job,        \* command -> its locals
    \* History.
    late,       \* paths that the box wrote after the running command had read them
    exact       \* nothing has touched the tree since HEAD was set

store == <<objects, manifests, head>>
vars == <<tree, ignored, writes, objects, manifests, head, lock, job, late, exact>>

Commands == {"take", "restore", "step", "remove", "prune", "merge"}
Phases == {"idle", "check", "plan", "scan", "store", "head", "present", "apply",
           "done", "forget", "clear", "prune"}
Job == [pc : Phases, cmd : Commands, id : Ids \cup {NoHead},
        base : Manifest, limit : SUBSET Paths,
        data : [Paths -> Entries \cup {Pending}],
        want : [Paths -> Entries \cup {Leave, RemoveEmpty}],
        drop : SUBSET Contents]
Idle == [pc |-> "idle", cmd |-> "take", id |-> NoHead, base |-> EmptyTree, limit |-> {},
         data |-> EmptyTree, want |-> [x \in Paths |-> Leave], drop |-> {}]

Init ==
    /\ tree = EmptyTree
    /\ ignored = {}
    /\ writes = 0
    /\ objects = {}
    /\ manifests = [i \in Ids |-> NoManifest]
    /\ head = NoHead
    /\ lock = {}
    /\ job = [p \in Procs |-> Idle]
    /\ late = {}
    /\ exact = FALSE

----------------------------------------------------------------------------
At(p, phase) == job[p].pc = phase
Recorded == {i \in Ids : manifests[i] # NoManifest}
Latest == IF Recorded = {} THEN NoHead ELSE Max(Recorded)
NextIdByCount == Cardinality(Recorded) + 1
\* Take: one more than the highest id that is there now.
NextId == Latest + 1
Files(manifest) == {manifest[x] : x \in Paths} \cap Contents

InUse(x) == x \in ignored \/ \E y \in Paths : Inside[y] = x /\ tree[y] # Absent
ParentThere(x) == Inside[x] \in {Top} \cup {y \in Paths : tree[y] = Dir}

Return(p) == job' = [job EXCEPT ![p] = Idle] /\ lock' = lock \ {p}
Go(p, phase) == job' = [job EXCEPT ![p].pc = phase] /\ UNCHANGED lock

StartUnlocked(p, new) ==
    /\ At(p, "idle")
    /\ lock' = lock \cup {p}
    /\ job' = [job EXCEPT ![p] = new]
    /\ UNCHANGED <<tree, ignored, writes, store, late, exact>>

\* openLockedCheckpointStore. What a command reads of the store right after
\* it has the flock is part of its start.
Start(p, new) ==
    /\ At(p, "idle")
    /\ lock = {}
    /\ lock' = {p}
    /\ job' = [job EXCEPT ![p] = new]
    /\ UNCHANGED <<tree, ignored, writes, store, late, exact>>

\* restorable: every object that the manifest names is there.
Restorable(i) == i \in Recorded /\ Files(manifests[i]) \subseteq objects

Take(p) ==
    /\ Start(p, [Idle EXCEPT !.pc = "scan"])
    /\ NextId \in Ids

RestoreAtOnce(p) ==
    \E i \in Ids :
        /\ Start(p, [Idle EXCEPT !.pc = "present", !.cmd = "restore", !.id = i,
                       !.want = manifests[i]])
        /\ Restorable(i) /\ NextId \in Ids

\* Restore takes a checkpoint of the tree before it touches it.
Restore(p) ==
    \E i \in Ids :
        /\ Start(p, [Idle EXCEPT !.pc = "scan", !.cmd = "restore", !.id = i,
                       !.want = manifests[i]])
        /\ Restorable(i) /\ NextId \in Ids

\* Step: the checkpoint before or after HEAD, or before the latest one when
\* HEAD names none.
Step(p) ==
    LET here == IF head \in Recorded THEN head ELSE Latest IN
    \E i \in Recorded :
        /\ Start(p, [Idle EXCEPT !.pc = "check", !.cmd = "step", !.id = i,
                       !.want = manifests[i]])
        /\ i # here /\ Restorable(i)
        /\ \A j \in Recorded : j \notin (i + 1) .. (here - 1) /\ j \notin (here + 1) .. (i - 1)

RemoveCheckpoint(p) ==
    \E i \in Recorded : Start(p, [Idle EXCEPT !.pc = "forget", !.cmd = "remove", !.id = i])

Unreferenced == objects \ UNION {Files(manifests[i]) : i \in Recorded}
Prune(p) == Start(p, [Idle EXCEPT !.pc = "prune", !.cmd = "prune", !.drop = Unreferenced])

Others(i) == {manifests[j] : j \in Recorded \ {i}}
StartMerge(p, theirs, base, limit) ==
    /\ Start(p, [Idle EXCEPT !.pc = "plan", !.cmd = "merge", !.id = theirs,
                   !.base = base, !.limit = limit])
    /\ NextId \in Ids

\* Merge: the base is HEAD or the one that --base names.
Merge(p) ==
    \E theirs \in Recorded : \E base \in Others(theirs) : StartMerge(p, theirs, base, Paths)

\* Pick: the base is the previous checkpoint, an empty tree before the first,
\* or the one that --from names; some paths.
Pick(p) ==
    \E theirs \in Recorded, limit \in SUBSET Paths :
        \/ \E base \in Others(theirs) : StartMerge(p, theirs, base, limit)
        \/ (\A i \in Recorded : i >= theirs) /\ StartMerge(p, theirs, EmptyTree, limit)

----------------------------------------------------------------------------
(* Take.                                                                    *)

\* Scan: the paths and their kinds. The contents are read later.
Scan(p) ==
    /\ At(p, "scan")
    /\ job' = [job EXCEPT ![p].pc = "store", ![p].data =
                 [x \in Paths |-> IF tree[x] \in Contents THEN Pending ELSE tree[x]]]
    /\ late' = {}
    /\ UNCHANGED <<tree, ignored, writes, store, lock, exact>>

\* storeEntryContent: the object is what was read and not what was scanned.
\* A path that is no file any more ends the command.
Store(p) ==
    /\ At(p, "store")
    /\ \E x \in Paths :
         /\ job[p].data[x] = Pending
         /\ IF tree[x] \in Contents
            THEN /\ objects' = objects \cup {tree[x]}
                 /\ job' = [job EXCEPT ![p].data[x] = tree[x]]
                 /\ late' = late \ {x}
                 /\ UNCHANGED lock
            ELSE Return(p) /\ UNCHANGED <<objects, late>>
    /\ UNCHANGED <<tree, ignored, writes, manifests, head, exact>>

\* The manifest is written, whole, when every object is stored.
WriteManifest(p) ==
    /\ At(p, "store")
    /\ \A x \in Paths : job[p].data[x] # Pending
    /\ manifests' = [manifests EXCEPT ![NextId] = job[p].data]
    /\ Go(p, "head")
    /\ UNCHANGED <<tree, ignored, writes, objects, head, late, exact>>

\* SetHead. A restore and a merge go on.
TakeHead(p) ==
    /\ At(p, "head")
    /\ head' = Latest
    /\ exact' = (late = {})
    /\ CASE job[p].cmd = "take" -> Return(p)
         [] job[p].cmd = "restore" -> Go(p, "present")
         [] OTHER -> Go(p, "apply")
    /\ UNCHANGED <<tree, ignored, writes, objects, manifests, late>>

----------------------------------------------------------------------------
(* Restore, back, forward, merge and pick.                                  *)

\* RestoreWithoutAutomatic: only from a tree that is the one HEAD names, or
\* the latest checkpoint when there is no HEAD.
Check(p) ==
    LET target == IF head = NoHead THEN Latest ELSE head IN
    /\ At(p, "check")
    /\ IF target \in Recorded /\ manifests[target] = tree
       THEN Go(p, "present") /\ late' = {}
       ELSE Return(p) /\ UNCHANGED late
    /\ UNCHANGED <<tree, ignored, writes, store, exact>>

\* restore scans the tree: what is there and was not recorded is obsolete.
Present(p) ==
    /\ At(p, "present")
    /\ job' = [job EXCEPT ![p].pc = "apply", ![p].want =
          [x \in Paths |-> IF job[p].want[x] # Absent THEN job[p].want[x]
                           ELSE IF tree[x] = Absent THEN Leave ELSE RemoveEmpty]]
    /\ UNCHANGED <<tree, ignored, writes, store, lock, late, exact>>

\* planMergedPath: what each path may become.
Merged(base, ours, theirs) ==
    IF theirs \in {base, ours} THEN {Leave}
    ELSE IF ours = base THEN {IF theirs # Absent THEN theirs
                              ELSE IF ours = Dir THEN RemoveEmpty ELSE Absent}
    ELSE IF ours = Absent THEN {theirs}
    ELSE IF ours \in Contents /\ theirs \in Contents THEN Contents \cup {Leave}
    ELSE {Leave}

\* The plan of a merge, before the automatic checkpoint. Nothing is taken
\* when there is nothing to do.
Plan(p) ==
    LET possible(x) == IF x \in job[p].limit
          THEN Merged(job[p].base[x], tree[x], manifests[job[p].id][x]) ELSE {Leave} IN
    /\ At(p, "plan")
    /\ \E want \in [Paths -> UNION {possible(x) : x \in Paths}] :
         /\ \A x \in Paths : want[x] \in possible(x)
         /\ IF \A x \in Paths : want[x] = Leave THEN Return(p)
            ELSE /\ job' = [job EXCEPT ![p].pc = "scan", ![p].want = want,
                                      ![p].base = EmptyTree, ![p].limit = {}]
                 /\ UNCHANGED lock
    /\ UNCHANGED <<tree, ignored, writes, store, late, exact>>

Removals(p) == {x \in Paths : job[p].want[x] \in {Absent, RemoveEmpty}}
Directories(p) == {x \in Paths : job[p].want[x] = Dir}
Writes(p) == {x \in Paths : job[p].want[x] \in Contents}

\* restore removes first; a merge removes last. Directories come before files.
MayRemove(p) == job[p].cmd # "merge" \/ Directories(p) \cup Writes(p) = {}
MayWrite(p) == job[p].cmd = "merge" \/ Removals(p) = {}

Applied(p, x) == job' = [job EXCEPT ![p].want[x] = Leave]
Put(x, what) == tree' = [tree EXCEPT ![x] = what]

RemoveParentsFirst(p) ==
    /\ At(p, "apply") /\ MayRemove(p)
    /\ \E x \in Removals(p) :
         /\ Inside[x] \notin Removals(p)
         /\ IF tree[x] = Dir /\ InUse(x) THEN UNCHANGED tree ELSE Put(x, Absent)
         /\ Applied(p, x)
    /\ exact' = FALSE
    /\ UNCHANGED <<ignored, writes, store, lock, late>>

\* Deepest first. A directory in use stays; a merge that meets one where it
\* wants to remove a file ends.
RemovePath(p) ==
    /\ At(p, "apply") /\ MayRemove(p)
    /\ \E x \in Removals(p) :
         /\ \A y \in Removals(p) : Inside[y] # x
         /\ IF tree[x] = Dir /\ InUse(x)
            THEN /\ UNCHANGED tree
                 /\ IF job[p].want[x] = Absent THEN Return(p)
                    ELSE Applied(p, x) /\ UNCHANGED lock
            ELSE Put(x, Absent) /\ Applied(p, x) /\ UNCHANGED lock
    /\ exact' = FALSE
    /\ UNCHANGED <<ignored, writes, store, late>>

\* WriteEntry of a directory or a file, under directories that it makes. A
\* directory in use where a file should be, or a file where a directory
\* above it should be, ends the command halfway.
WriteEntry(p) ==
    /\ At(p, "apply") /\ MayWrite(p)
    /\ \E x \in IF Directories(p) # {} THEN Directories(p) ELSE Writes(p) :
       /\ Inside[x] \notin Directories(p)
       /\ LET what == job[p].want[x]
              blocked == \/ what # Dir /\ tree[x] = Dir /\ InUse(x)
                         \/ Inside[x] # Top /\ tree[Inside[x]] \in Contents
          IN  IF blocked THEN Return(p) /\ UNCHANGED tree
              ELSE /\ tree' = [y \in Paths |-> IF y = x THEN what
                                 ELSE IF y = Inside[x] THEN Dir ELSE tree[y]]
                   /\ Applied(p, x) /\ UNCHANGED lock
    /\ exact' = FALSE
    /\ UNCHANGED <<ignored, writes, store, late>>

Settled(p) == At(p, "apply") /\ \A x \in Paths : job[p].want[x] = Leave

\* restore sets HEAD; a merge leaves it at the automatic checkpoint.
Done(p) ==
    /\ Settled(p)
    /\ IF job[p].cmd = "merge" THEN UNCHANGED <<head, exact>>
       ELSE head' = job[p].id /\ exact' = (late = {})
    /\ Return(p)
    /\ UNCHANGED <<tree, ignored, writes, objects, manifests, late>>

----------------------------------------------------------------------------
(* RemoveCheckpoint and Prune.                                              *)

Forget(p) ==
    /\ At(p, "forget")
    /\ manifests' = [manifests EXCEPT ![job[p].id] = NoManifest]
    /\ Go(p, "clear")
    /\ UNCHANGED <<tree, ignored, writes, objects, head, late, exact>>

Clear(p) ==
    /\ At(p, "clear")
    /\ head' = IF head = job[p].id THEN NoHead ELSE head
    /\ Return(p)
    /\ UNCHANGED <<tree, ignored, writes, objects, manifests, late, exact>>

\* One unreferenced object after the other.
Drop(p) ==
    /\ At(p, "prune")
    /\ \/ \E d \in job[p].drop :
            /\ objects' = objects \ {d}
            /\ job' = [job EXCEPT ![p].drop = @ \ {d}]
            /\ UNCHANGED lock
       \/ job[p].drop = {} /\ Return(p) /\ UNCHANGED objects
    /\ UNCHANGED <<tree, ignored, writes, manifests, head, late, exact>>

----------------------------------------------------------------------------
\* The command dies or a step of it fails. HEAD is not replaced atomically:
\* a command that dies while it writes it leaves it empty.
Fail(p) ==
    /\ ~At(p, "idle")
    /\ Return(p)
    /\ \/ head' = NoHead /\ (At(p, "head") \/ (Settled(p) /\ job[p].cmd # "merge"))
       \/ UNCHANGED head
    /\ UNCHANGED <<tree, ignored, writes, objects, manifests, late, exact>>

\* The box, or the user, changes one path of the tree, or puts an ignored
\* file into a directory, or takes it away.
Box ==
    /\ writes < MaxWrites
    /\ writes' = writes + 1
    /\ \E x \in Paths :
       /\ \/ /\ ParentThere(x)
             /\ \E what \in Entries : tree[x] # what /\ Put(x, what)
             /\ tree[x] = Dir => ~InUse(x)
             /\ UNCHANGED ignored
          \/ /\ tree[x] = Dir
             /\ ignored' = IF x \in ignored THEN ignored \ {x} ELSE ignored \cup {x}
             /\ UNCHANGED tree
       /\ late' = late \cup {x}
    /\ exact' = FALSE
    /\ UNCHANGED <<store, lock, job>>

Next ==
    \/ \E p \in Procs :
         \/ Take(p) \/ Restore(p) \/ Step(p) \/ RemoveCheckpoint(p) \/ Prune(p)
         \/ Merge(p) \/ Pick(p)
         \/ Scan(p) \/ Store(p) \/ WriteManifest(p) \/ TakeHead(p)
         \/ Check(p) \/ Present(p) \/ Plan(p)
         \/ RemovePath(p) \/ WriteEntry(p) \/ Done(p)
         \/ Forget(p) \/ Clear(p) \/ Drop(p) \/ Fail(p)
    \/ Box

Spec == Init /\ [][Next]_vars
----------------------------------------------------------------------------
TypeOK ==
    /\ tree \in Manifest
    /\ ignored \subseteq Paths
    /\ writes \in 0 .. MaxWrites
    /\ objects \subseteq Contents
    /\ manifests \in [Ids -> Manifest \cup {NoManifest}]
    /\ head \in Ids \cup {NoHead}
    /\ lock \subseteq Procs
    /\ job \in [Procs -> Job]
    /\ late \subseteq Paths
    /\ exact \in BOOLEAN

(* A checkpoint can always be restored: the objects that its manifest names *)
(* are there, however takes, removals and prunes were interrupted and while  *)
(* the box changed the files under the scan (storeEntryContent hashes what   *)
(* it copies; Prune runs under the flock).                                   *)
ObjectsStored == \A i \in Recorded : Files(manifests[i]) \subseteq objects

(* A checkpoint never changes: an id gets a new manifest only after the old *)
(* one was removed (Take numbers from the highest id).                       *)
CheckpointsKept ==
    [][\A i \in Recorded : manifests'[i] \in {manifests[i], NoManifest}]_vars

\* What a restore of each checkpoint would bring back.
Saved == [i \in Ids |-> IF Restorable(i) THEN manifests[i] ELSE NoManifest]
CheckpointsStore == INSTANCE CheckpointStore WITH
    Last <- MaxId, Trees <- Manifest, None <- NoManifest, saved <- Saved

(* The store keeps the promise of CheckpointStore through every failure and  *)
(* death: what can be restored changes by whole checkpoints, a new one has    *)
(* the highest number (Take), and HEAD is set to what can be restored.       *)
ImplementsStore == CheckpointsStore!Spec

(* A restore, a step or a merge never destroys the only copy of a file: what *)
(* it overwrites or removes is recorded under its path in some checkpoint,   *)
(* unless the box wrote the file after the command had read it.              *)
NothingLost ==
    [][\A x \in Paths :
        tree[x] \in Contents /\ tree'[x] # tree[x] /\ writes' = writes =>
            x \in late \/ \E i \in Recorded : manifests[i][x] = tree[x]]_vars

\* A directory that a restore had to keep for the ignored files in it.
Kept(x) ==
    tree[x] = Dir /\ (x \in ignored \/ \E y \in Paths : Inside[y] = x /\ y \in ignored)

(* HEAD tells the truth: while nothing has touched the tree since HEAD was   *)
(* set, the tree is the one that the checkpoint recorded, so `back` and       *)
(* `forward` may replace it and `merge` may take it as the base. Interrupted *)
(* removals and ids that are used again included.                            *)
HeadIsTree ==
    exact /\ head \in Recorded =>
        \A x \in Paths : tree[x] = manifests[head][x]
                         \/ (manifests[head][x] = Absent /\ Kept(x))
============================================================================

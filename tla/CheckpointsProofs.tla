------------------------- MODULE CheckpointsProofs -------------------------
(***************************************************************************)
(* Checkpoints, for every set of commands, paths and contents: a checkpoint  *)
(* can always be restored, because what a take stores and what a prune drops *)
(* never collide; it never changes; the store implements CheckpointStore;    *)
(* HEAD tells the truth about the tree; and a restore, a step or a merge     *)
(* destroys nothing that is not recorded. And the merge of texts, for texts  *)
(* of every length: it takes the changes of both sides.                      *)
(***************************************************************************)
EXTENDS Checkpoints, TextMerge, FiniteSetTheorems, TLAPS

\* A nonempty set of numbers up to a bound has a greatest one.
LEMMA Greatest ==
    ASSUME NEW n \in Nat, NEW S \in SUBSET (1 .. n), S # {}
    PROVE  \E m \in S : \A k \in S : m >= k
<1>1. PICK T : T = {{j \in 1 .. n : j > k} : k \in S}
  OBVIOUS
<1>2. IsFiniteSet(1 .. n)
  BY FS_Interval
<1>3. IsWellFoundedOn(StrictSubsetOrdering(1 .. n), SUBSET (1 .. n))
  BY <1>2, FS_StrictSubsetOrderingWellFounded, FS_FiniteSubsetsOfFinite
<1>4. T \subseteq SUBSET (1 .. n) /\ T # {}
  BY <1>1
<1>5. PICK x \in T : \A y \in T : <<y, x>> \notin StrictSubsetOrdering(1 .. n)
  BY <1>3, <1>4, WFMin
<1>6. PICK m \in S : x = {j \in 1 .. n : j > m}
  BY <1>1, <1>5
<1>7. ASSUME NEW k \in S, ~(m >= k) PROVE FALSE
  <2>1. PICK y \in T : y = {j \in 1 .. n : j > k}
    BY <1>1
  <2>2. m \in 1 .. n /\ k \in 1 .. n /\ k > m
    BY <1>7
  <2>3. y \subseteq x
    BY <1>6, <2>1, <2>2
  <2>4. k \in x /\ k \notin y
    BY <1>6, <2>1, <2>2
  <2>5. <<y, x>> \in StrictSubsetOrdering(1 .. n)
    BY <1>4, <2>3, <2>4 DEF StrictSubsetOrdering
  <2>6. QED
    BY <1>5, <2>5
<1>8. QED
  BY <1>7

USE CheckpointsPaths, CheckpointsContents, CheckpointsBounds

TypeInv ==
    /\ tree \in Manifest
    /\ objects \subseteq Contents
    /\ manifests \in [Ids -> Manifest \cup {NoManifest}]
    /\ job \in [Procs -> Job]

\* A command that runs holds the flock, and holds it alone.
FlockHeld == \A p \in Procs : ~At(p, "idle") => lock = {p}

\* What a take has read is stored.
TakeStored ==
    \A p \in Procs, x \in Paths :
        At(p, "store") /\ job[p].data[x] \in Contents => job[p].data[x] \in objects

\* No manifest names what a prune is going to drop.
PruneSafe ==
    \A p \in Procs, i \in Ids :
        At(p, "prune") /\ i \in Recorded => job[p].drop \cap Files(manifests[i]) = {}

\* The checkpoint that a merge brings in is there while it plans.
PlanRecorded == \A p \in Procs : At(p, "plan") => job[p].id \in Recorded

StoreInv ==
    TypeInv /\ FlockHeld /\ TakeStored /\ PruneSafe /\ PlanRecorded /\ ObjectsStored

----------------------------------------------------------------------------
\* The idle job is a job.
LEMMA IdleType == Idle \in Job
BY DEF Idle, Job, Phases, Commands, Manifest, EmptyTree, Entries, NoHead

\* Initially nothing is recorded and nobody runs.
LEMMA InitStore == Init => StoreInv
<1> SUFFICES ASSUME Init PROVE StoreInv
  OBVIOUS
<1>1. TypeInv
  BY IdleType DEF Init, TypeInv, Manifest, EmptyTree, Entries
<1>2. \A p \in Procs : job[p].pc = "idle"
  BY DEF Init, Idle
<1>3. Recorded = {}
  BY DEF Init, Recorded
<1>4. QED
  BY <1>1, <1>2, <1>3 DEF StoreInv, FlockHeld, TakeStored, PruneSafe,
                         PlanRecorded, ObjectsStored, At

\* What the new local state of the one command that takes a step must satisfy.
Sound(j) ==
    /\ \A x \in Paths : j.pc = "store" /\ j.data[x] \in Contents => j.data[x] \in objects'
    /\ \A i \in Ids : j.pc = "prune" /\ i \in Recorded' =>
          j.drop \cap Files(manifests'[i]) = {}
    /\ j.pc = "plan" => j.id \in Recorded'

\* A step of the command that holds the flock concerns no other command.
LEMMA OwnStep ==
    ASSUME StoreInv, NEW p \in Procs, NEW j \in Job,
           job' = [job EXCEPT ![p] = j],
           \A q \in Procs : q # p => At(q, "idle"),
           j.pc # "idle" => lock' = {p},
           tree' \in Manifest, objects' \subseteq Contents,
           manifests' \in [Ids -> Manifest \cup {NoManifest}],
           ObjectsStored', Sound(j)
    PROVE  StoreInv'
<1>1. job' \in [Procs -> Job] /\ job'[p] = j /\ \A q \in Procs : q # p => job'[q] = job[q]
  BY DEF StoreInv, TypeInv
<1>2. TypeInv'
  BY <1>1 DEF TypeInv
<1>3. FlockHeld'
  BY <1>1 DEF FlockHeld, At
<1>4. TakeStored'
  BY <1>1 DEF TakeStored, At, Sound
<1>5. PruneSafe'
  BY <1>1 DEF PruneSafe, At, Sound
<1>6. PlanRecorded'
  BY <1>1 DEF PlanRecorded, At, Sound
<1>7. QED
  BY <1>2, <1>3, <1>4, <1>5, <1>6 DEF StoreInv

\* A command starts only when no other one runs.
LEMMA StartKeeps ==
    ASSUME StoreInv, NEW p \in Procs, NEW j \in Job, Start(p, j), Sound(j)
    PROVE  StoreInv'
<1>1. \A q \in Procs : At(q, "idle")
  BY DEF Start, StoreInv, FlockHeld
<1>2. ObjectsStored'
  BY DEF Start, store, StoreInv, ObjectsStored, Recorded, Files
<1>3. tree' = tree /\ objects' = objects /\ manifests' = manifests
  BY DEF Start, store
<1>4. QED
  BY <1>1, <1>2, <1>3, OwnStep DEF Start, StoreInv, TypeInv

\* While a command runs, the others are idle.
LEMMA Alone ==
    ASSUME StoreInv, NEW p \in Procs, ~At(p, "idle")
    PROVE  lock = {p} /\ \A q \in Procs : q # p => At(q, "idle")
BY DEF StoreInv, FlockHeld

\* A command that returns has no local state.
LEMMA ReturnKeeps ==
    ASSUME StoreInv, NEW p \in Procs, ~At(p, "idle"), Return(p),
           tree' \in Manifest, objects' \subseteq Contents,
           manifests' \in [Ids -> Manifest \cup {NoManifest}], ObjectsStored'
    PROVE  StoreInv'
<1>1. Idle.pc = "idle" /\ Sound(Idle)
  BY DEF Idle, Sound
<1>2. QED
  BY <1>1, Alone, IdleType, OwnStep DEF Return

\* A command that goes on to a phase that needs nothing of the store.
LEMMA GoKeeps ==
    ASSUME StoreInv, NEW p \in Procs, ~At(p, "idle"), NEW phase \in Phases,
           Go(p, phase), phase \notin {"store", "prune", "plan"},
           tree' \in Manifest, objects' \subseteq Contents,
           manifests' \in [Ids -> Manifest \cup {NoManifest}], ObjectsStored'
    PROVE  StoreInv'
<1>1. job[p] \in Job
  BY DEF StoreInv, TypeInv
<1> DEFINE j == [job[p] EXCEPT !.pc = phase]
<1>2. j \in Job /\ j.pc = phase
  BY <1>1 DEF Job
<1>3. Sound(j)
  BY <1>2 DEF Sound
<1>4. job' = [job EXCEPT ![p] = j] /\ lock' = lock
  BY DEF Go
<1> HIDE DEF j
<1>5. QED
  BY <1>2, <1>3, <1>4, Alone, OwnStep

\* A step that changes neither the store nor what a manifest names.
LEMMA StoreKept ==
    ASSUME StoreInv, objects' = objects, manifests' = manifests
    PROVE  /\ objects' \subseteq Contents
           /\ manifests' \in [Ids -> Manifest \cup {NoManifest}]
           /\ ObjectsStored'
BY DEF StoreInv, TypeInv, ObjectsStored, Recorded, Files

----------------------------------------------------------------------------
(* The start of each command.                                               *)

\* A command that starts in such a phase.
LEMMA CommandKeeps ==
    ASSUME StoreInv, NEW p \in Procs, NEW j \in Job, Start(p, j),
           j.pc \notin {"store", "prune", "plan"}
    PROVE  StoreInv'
<1>1. Sound(j)
  BY DEF Sound
<1>2. QED
  BY <1>1, StartKeeps

\* What a manifest records, a plan may want.
LEMMA RecordedType ==
    ASSUME StoreInv, NEW i \in Recorded
    PROVE  /\ i \in Ids
           /\ manifests[i] \in Manifest
           /\ manifests[i] \in [Paths -> Entries \cup {Leave, RemoveEmpty}]
<1>1. i \in Ids /\ manifests[i] \in Manifest
  BY DEF StoreInv, TypeInv, Recorded
<1>2. QED
  BY <1>1 DEF Manifest

\* take starts with a scan.
LEMMA TakeKeeps == ASSUME StoreInv, NEW p \in Procs, Take(p) PROVE StoreInv'
<1> DEFINE j == [Idle EXCEPT !.pc = "scan"]
<1>1. j \in Job /\ j.pc = "scan"
  BY IdleType DEF Job, Phases
<1>2. Start(p, j)
  BY DEF Take
<1> HIDE DEF j
<1>3. QED
  BY <1>1, <1>2, CommandKeeps

\* restore starts with the checkpoint of the tree as it is.
LEMMA RestoreKeeps == ASSUME StoreInv, NEW p \in Procs, Restore(p) PROVE StoreInv'
<1>1. PICK i \in Ids : i \in Recorded /\ Start(p,
         [Idle EXCEPT !.pc = "scan", !.cmd = "restore", !.id = i, !.want = manifests[i]])
  BY DEF Restore, Restorable
<1> DEFINE j == [Idle EXCEPT !.pc = "scan", !.cmd = "restore", !.id = i,
                             !.want = manifests[i]]
<1>2. j \in Job /\ j.pc = "scan"
  BY <1>1, IdleType, RecordedType DEF Job, Phases, Commands
<1>3. Start(p, j)
  BY <1>1
<1> HIDE DEF j
<1>4. QED
  BY <1>2, <1>3, CommandKeeps

\* back and forward start with the comparison of the tree and HEAD.
LEMMA StepKeeps == ASSUME StoreInv, NEW p \in Procs, Step(p) PROVE StoreInv'
<1>1. PICK i \in Recorded : Start(p,
         [Idle EXCEPT !.pc = "check", !.cmd = "step", !.id = i, !.want = manifests[i]])
  BY DEF Step
<1> DEFINE j == [Idle EXCEPT !.pc = "check", !.cmd = "step", !.id = i,
                             !.want = manifests[i]]
<1>2. j \in Job /\ j.pc = "check"
  BY IdleType, RecordedType DEF Job, Phases, Commands
<1>3. Start(p, j)
  BY <1>1
<1> HIDE DEF j
<1>4. QED
  BY <1>2, <1>3, CommandKeeps

\* rm starts with the manifest.
LEMMA RemoveKeeps == ASSUME StoreInv, NEW p \in Procs, RemoveCheckpoint(p) PROVE StoreInv'
<1>1. PICK i \in Recorded :
         Start(p, [Idle EXCEPT !.pc = "forget", !.cmd = "remove", !.id = i])
  BY DEF RemoveCheckpoint
<1> DEFINE j == [Idle EXCEPT !.pc = "forget", !.cmd = "remove", !.id = i]
<1>2. j \in Job /\ j.pc = "forget"
  BY IdleType, RecordedType DEF Job, Phases, Commands
<1>3. Start(p, j)
  BY <1>1
<1> HIDE DEF j
<1>4. QED
  BY <1>2, <1>3, CommandKeeps

\* prune starts with the set of what no manifest names.
LEMMA PruneKeeps == ASSUME StoreInv, NEW p \in Procs, Prune(p) PROVE StoreInv'
<1> DEFINE j == [Idle EXCEPT !.pc = "prune", !.cmd = "prune", !.drop = Unreferenced]
<1>1. Unreferenced \subseteq Contents
  BY DEF Unreferenced, StoreInv, TypeInv
<1>2. j \in Job /\ j.pc = "prune" /\ j.drop = Unreferenced
  BY <1>1, IdleType DEF Job, Phases, Commands
<1>3. Start(p, j)
  BY DEF Prune
<1> HIDE DEF j
<1>4. manifests' = manifests /\ Recorded' = Recorded
  BY <1>3 DEF Start, store, Recorded
<1>5. \A i \in Recorded : Unreferenced \cap Files(manifests[i]) = {}
  BY DEF Unreferenced
<1>6. Sound(j)
  BY <1>2, <1>4, <1>5 DEF Sound
<1>7. QED
  BY <1>2, <1>3, <1>6, StartKeeps

\* merge and pick start with the plan.
LEMMA StartMergeKeeps ==
    ASSUME StoreInv, NEW p \in Procs, NEW theirs \in Recorded, NEW base \in Manifest,
           NEW limit \in SUBSET Paths, StartMerge(p, theirs, base, limit)
    PROVE  StoreInv'
<1> DEFINE j == [Idle EXCEPT !.pc = "plan", !.cmd = "merge", !.id = theirs,
                             !.base = base, !.limit = limit]
<1>1. j \in Job /\ j.pc = "plan"
  BY IdleType, RecordedType DEF Job, Phases, Commands
<1>2. Start(p, j)
  BY DEF StartMerge
<1>3. j.id = theirs
  BY IdleType DEF Job
<1> HIDE DEF j
<1>4. Recorded' = Recorded
  BY <1>2 DEF Start, store, Recorded
<1>5. Sound(j)
  BY <1>1, <1>3, <1>4 DEF Sound
<1>6. QED
  BY <1>1, <1>2, <1>5, StartKeeps

\* merge names the base.
LEMMA MergeKeeps == ASSUME StoreInv, NEW p \in Procs, Merge(p) PROVE StoreInv'
<1>1. PICK theirs \in Recorded :
         \E base \in Others(theirs) : StartMerge(p, theirs, base, Paths)
  BY DEF Merge
<1>2. \A base \in Others(theirs) : base \in Manifest
  BY RecordedType DEF Others
<1>3. QED
  BY <1>1, <1>2, StartMergeKeeps

\* pick names it, or takes the empty tree for the first checkpoint.
LEMMA PickKeeps == ASSUME StoreInv, NEW p \in Procs, Pick(p) PROVE StoreInv'
<1>1. PICK theirs \in Recorded, limit \in SUBSET Paths :
         \/ \E base \in Others(theirs) : StartMerge(p, theirs, base, limit)
         \/ StartMerge(p, theirs, EmptyTree, limit)
  BY DEF Pick
<1>2. \A base \in Others(theirs) : base \in Manifest
  BY RecordedType DEF Others
<1>3. EmptyTree \in Manifest
  BY DEF EmptyTree, Manifest, Entries
<1>4. QED
  BY <1>1, <1>2, <1>3, StartMergeKeeps

----------------------------------------------------------------------------
(* take.                                                                    *)

\* What a job consists of.
LEMMA JobFields ==
    ASSUME StoreInv, NEW p \in Procs
    PROVE  /\ job[p] \in Job
           /\ job[p].data \in [Paths -> Entries \cup {Pending}]
           /\ job[p].want \in [Paths -> Entries \cup {Leave, RemoveEmpty}]
           /\ job[p].drop \subseteq Contents
           /\ job[p].id \in Ids \cup {NoHead}
BY DEF StoreInv, TypeInv, Job

\* After the scan nothing has been read yet.
LEMMA ScanKeeps == ASSUME StoreInv, NEW p \in Procs, Scan(p) PROVE StoreInv'
<1> DEFINE seen == [x \in Paths |-> IF tree[x] \in Contents THEN Pending ELSE tree[x]]
           j == [job[p] EXCEPT !.pc = "store", !.data = seen]
<1>1. seen \in [Paths -> Entries \cup {Pending}] /\ \A x \in Paths : seen[x] \notin Contents
  BY DEF StoreInv, TypeInv, Manifest, Entries, Pending
<1>2. job[p] \in Job
  BY JobFields
<1> HIDE DEF seen
<1>3. j \in Job /\ j.pc = "store" /\ j.data = seen
  BY <1>1, <1>2 DEF Job, Phases
<1>4. job' = [job EXCEPT ![p] = j]
  BY DEF Scan, seen
<1>5. ~At(p, "idle") /\ lock' = lock /\ tree' = tree /\ objects' = objects
      /\ manifests' = manifests
  BY DEF Scan, At, store
<1> HIDE DEF j
<1>6. Sound(j)
  BY <1>1, <1>3 DEF Sound
<1>7. QED
  BY <1>3, <1>4, <1>5, <1>6, Alone, StoreKept, OwnStep DEF StoreInv, TypeInv

\* The file that is read is stored under what was read, and not under what
\* was there when it was scanned.
LEMMA StoreKeeps == ASSUME StoreInv, NEW p \in Procs, Store(p) PROVE StoreInv'
<1>1. PICK x \in Paths :
         IF tree[x] \in Contents
         THEN /\ objects' = objects \cup {tree[x]}
              /\ job' = [job EXCEPT ![p].data[x] = tree[x]]
              /\ UNCHANGED lock
         ELSE Return(p) /\ UNCHANGED objects
  BY DEF Store
<1>2. ~At(p, "idle") /\ At(p, "store") /\ tree' = tree /\ manifests' = manifests
  BY DEF Store, At
<1>3. /\ objects' \subseteq Contents /\ objects \subseteq objects' /\ tree' \in Manifest
      /\ manifests' \in [Ids -> Manifest \cup {NoManifest}]
  BY <1>1, <1>2 DEF StoreInv, TypeInv
<1>4. ObjectsStored'
  BY <1>2, <1>3 DEF StoreInv, ObjectsStored, Recorded, Files
<1>5. CASE tree[x] \notin Contents
  BY <1>1, <1>2, <1>3, <1>4, <1>5, ReturnKeeps
<1>6. CASE tree[x] \in Contents
  <2> DEFINE read == [job[p].data EXCEPT ![x] = tree[x]]
             j == [job[p] EXCEPT !.data = read]
  <2>1. /\ read \in [Paths -> Entries \cup {Pending}]
        /\ \A y \in Paths : read[y] = IF y = x THEN tree[x] ELSE job[p].data[y]
    BY <1>6, JobFields DEF Entries
  <2>2. job' = [job EXCEPT ![p] = j]
    BY <1>1, <1>6
  <2> HIDE DEF read
  <2>3. j \in Job /\ j.pc = "store" /\ j.data = read
    BY <1>2, <2>1, JobFields DEF Job, At
  <2> HIDE DEF j
  <2>4. \A y \in Paths : read[y] \in Contents => read[y] \in objects'
    BY <1>1, <1>2, <1>3, <1>6, <2>1 DEF StoreInv, TakeStored
  <2>5. Sound(j)
    BY <2>3, <2>4 DEF Sound
  <2>6. QED
    BY <1>1, <1>2, <1>3, <1>4, <1>6, <2>2, <2>3, <2>5, Alone, OwnStep
<1>7. QED
  BY <1>5, <1>6

\* What a manifest names was read, and so was stored, before it is written.
LEMMA WriteManifestKeeps ==
    ASSUME StoreInv, NEW p \in Procs, WriteManifest(p) PROVE StoreInv'
<1>1. /\ At(p, "store") /\ ~At(p, "idle") /\ Go(p, "head")
      /\ \A x \in Paths : job[p].data[x] # Pending
      /\ manifests' = [manifests EXCEPT ![NextId] = job[p].data]
      /\ tree' = tree /\ objects' = objects
  BY DEF WriteManifest, At
<1>2. job[p].data \in Manifest
  BY <1>1, JobFields DEF Manifest
<1>3. Files(job[p].data) \subseteq objects
  BY <1>1 DEF Files, StoreInv, TakeStored
<1>4. manifests' \in [Ids -> Manifest \cup {NoManifest}]
  BY <1>1, <1>2 DEF StoreInv, TypeInv
<1>5. \A i \in Ids : manifests'[i] \in {manifests[i], job[p].data}
  BY <1>1 DEF StoreInv, TypeInv
<1>6. ObjectsStored'
  BY <1>1, <1>3, <1>5 DEF StoreInv, ObjectsStored, Recorded, Files
<1>7. tree' \in Manifest /\ objects' \subseteq Contents /\ "head" \in Phases
  BY <1>1 DEF StoreInv, TypeInv, Phases
<1>8. QED
  BY <1>1, <1>4, <1>6, <1>7, GoKeeps

\* A step that goes on or ends, and leaves the objects and manifests alone.
LEMMA GoOrReturnKeeps ==
    ASSUME StoreInv, NEW p \in Procs, ~At(p, "idle"), NEW phase \in Phases,
           phase \notin {"store", "prune", "plan"}, Go(p, phase) \/ Return(p),
           tree' \in Manifest, objects' = objects, manifests' = manifests
    PROVE  StoreInv'
BY StoreKept, GoKeeps, ReturnKeeps

\* HEAD is no part of what must be stored.
LEMMA TakeHeadKeeps == ASSUME StoreInv, NEW p \in Procs, TakeHead(p) PROVE StoreInv'
<1>1. /\ ~At(p, "idle") /\ tree' = tree /\ objects' = objects /\ manifests' = manifests
      /\ Return(p) \/ Go(p, "present") \/ Go(p, "apply")
  BY DEF TakeHead, At
<1>2. tree' \in Manifest /\ "present" \in Phases /\ "apply" \in Phases
  BY <1>1 DEF StoreInv, TypeInv, Phases
<1>3. QED
  BY <1>1, <1>2, GoOrReturnKeeps

----------------------------------------------------------------------------
(* restore, back, forward, merge and pick leave the store alone: they change *)
(* their plan and the tree.                                                  *)

\* A step that changes the locals of the command.
LEMMA MoveKeeps ==
    ASSUME StoreInv, NEW p \in Procs, ~At(p, "idle"), NEW j \in Job,
           j.pc \notin {"store", "prune", "plan"}, job' = [job EXCEPT ![p] = j], lock' = lock,
           tree' \in Manifest, objects' = objects, manifests' = manifests
    PROVE  StoreInv'
<1>1. Sound(j)
  BY DEF Sound
<1>2. QED
  BY <1>1, Alone, StoreKept, OwnStep

\* The comparison with HEAD.
LEMMA CheckKeeps == ASSUME StoreInv, NEW p \in Procs, Check(p) PROVE StoreInv'
<1>1. /\ ~At(p, "idle") /\ tree' = tree /\ objects' = objects /\ manifests' = manifests
      /\ Return(p) \/ Go(p, "present")
  BY DEF Check, At, store
<1>2. tree' \in Manifest /\ "present" \in Phases
  BY <1>1 DEF StoreInv, TypeInv, Phases
<1>3. QED
  BY <1>1, <1>2, GoOrReturnKeeps

\* What is obsolete.
LEMMA PresentKeeps == ASSUME StoreInv, NEW p \in Procs, Present(p) PROVE StoreInv'
<1> DEFINE plan == [x \in Paths |-> IF job[p].want[x] # Absent THEN job[p].want[x]
                                    ELSE IF tree[x] = Absent THEN Leave ELSE RemoveEmpty]
           j == [job[p] EXCEPT !.pc = "apply", !.want = plan]
<1>1. plan \in [Paths -> Entries \cup {Leave, RemoveEmpty}]
  BY JobFields
<1> HIDE DEF plan
<1>2. j \in Job /\ j.pc = "apply"
  BY <1>1, JobFields DEF Job, Phases
<1>3. job' = [job EXCEPT ![p] = j]
  BY DEF Present, plan
<1>4. ~At(p, "idle") /\ lock' = lock /\ tree' \in Manifest /\ objects' = objects
      /\ manifests' = manifests
  BY DEF Present, At, store, StoreInv, TypeInv
<1> HIDE DEF j
<1>5. QED
  BY <1>2, <1>3, <1>4, MoveKeeps

\* A plan consists of what there can be, and of what a plan says of it.
LEMMA MergedType ==
    ASSUME NEW base \in Entries, NEW ours \in Entries, NEW theirs \in Entries
    PROVE  Merged(base, ours, theirs) \subseteq Entries \cup {Leave, RemoveEmpty}
BY DEF Merged, Entries

\* The plan of a merge.
LEMMA PlanKeeps == ASSUME StoreInv, NEW p \in Procs, Plan(p) PROVE StoreInv'
<1>1. PICK want :
         IF \A x \in Paths : want[x] = Leave THEN Return(p)
         ELSE /\ job' = [job EXCEPT ![p].pc = "scan", ![p].want = want,
                                   ![p].base = EmptyTree, ![p].limit = {}]
              /\ want \in [Paths -> Entries \cup {Leave, RemoveEmpty}]
              /\ UNCHANGED lock
  <2> DEFINE possible(x) == IF x \in job[p].limit
          THEN Merged(job[p].base[x], tree[x], manifests[job[p].id][x]) ELSE {Leave}
  <2>1. PICK want \in [Paths -> UNION {possible(x) : x \in Paths}] :
           /\ \A x \in Paths : want[x] \in possible(x)
           /\ IF \A x \in Paths : want[x] = Leave THEN Return(p)
              ELSE /\ job' = [job EXCEPT ![p].pc = "scan", ![p].want = want,
                                        ![p].base = EmptyTree, ![p].limit = {}]
                   /\ UNCHANGED lock
    BY DEF Plan
  <2>2. QED
    <3>1. ~At(p, "idle") /\ job[p].id \in Recorded /\ job[p].base \in Manifest
      BY JobFields DEF Plan, StoreInv, PlanRecorded, At, Job
    <3>2. \A x \in Paths : possible(x) \subseteq Entries \cup {Leave, RemoveEmpty}
      BY <3>1, MergedType, RecordedType DEF StoreInv, TypeInv, Manifest
    <3> HIDE DEF possible
    <3>3. want \in [Paths -> Entries \cup {Leave, RemoveEmpty}]
      BY <2>1, <3>2
    <3>4. QED
      BY <2>1, <3>3
<1>2. ~At(p, "idle") /\ tree' \in Manifest /\ objects' = objects /\ manifests' = manifests
  BY DEF Plan, At, store, StoreInv, TypeInv
<1>3. CASE \A x \in Paths : want[x] = Leave
  BY <1>1, <1>2, <1>3, StoreKept, ReturnKeeps
<1>4. CASE ~\A x \in Paths : want[x] = Leave
  <2> DEFINE j == [job[p] EXCEPT !.pc = "scan", !.want = want, !.base = EmptyTree,
                                 !.limit = {}]
  <2>1. EmptyTree \in Manifest
    BY DEF EmptyTree, Manifest, Entries
  <2>2. j \in Job /\ j.pc = "scan"
    BY <1>1, <1>4, <2>1, JobFields DEF Job, Phases
  <2>3. job' = [job EXCEPT ![p] = j] /\ lock' = lock
    BY <1>1, <1>4
  <2> HIDE DEF j
  <2>4. QED
    BY <1>2, <2>2, <2>3, MoveKeeps
<1>5. QED
  BY <1>3, <1>4

\* A removal or a write is struck from the plan.
LEMMA AppliedKeeps ==
    ASSUME StoreInv, NEW p \in Procs, At(p, "apply"), NEW x \in Paths, Applied(p, x),
           lock' = lock, tree' \in Manifest, objects' = objects, manifests' = manifests
    PROVE  StoreInv'
<1> DEFINE plan == [job[p].want EXCEPT ![x] = Leave]
           j == [job[p] EXCEPT !.want = plan]
<1>1. plan \in [Paths -> Entries \cup {Leave, RemoveEmpty}]
  BY JobFields
<1> HIDE DEF plan
<1>2. j \in Job /\ j.pc = "apply"
  BY <1>1, JobFields DEF Job, At
<1>3. job' = [job EXCEPT ![p] = j]
  BY DEF Applied, plan
<1> HIDE DEF j
<1>4. ~At(p, "idle")
  BY DEF At
<1>5. QED
  BY <1>2, <1>3, <1>4, MoveKeeps

\* A path is removed, or the command ends before a directory in use.
LEMMA RemovePathKeeps == ASSUME StoreInv, NEW p \in Procs, RemovePath(p) PROVE StoreInv'
<1>1. PICK x \in Paths :
         /\ tree' = tree \/ tree' = [tree EXCEPT ![x] = Absent]
         /\ Return(p) \/ (Applied(p, x) /\ lock' = lock)
  BY DEF RemovePath, Removals, Put
<1>2. At(p, "apply") /\ ~At(p, "idle") /\ objects' = objects /\ manifests' = manifests
  BY DEF RemovePath, At, store
<1>3. tree' \in Manifest
  BY <1>1 DEF StoreInv, TypeInv, Manifest, Entries
<1>4. QED
  BY <1>1, <1>2, <1>3, StoreKept, ReturnKeeps, AppliedKeeps

\* A directory or a file is written, or the command ends before it.
LEMMA WriteEntryKeeps == ASSUME StoreInv, NEW p \in Procs, WriteEntry(p) PROVE StoreInv'
<1>1. PICK x \in Directories(p) \cup Writes(p) :
         \/ Return(p) /\ tree' = tree
         \/ /\ tree' = [y \in Paths |-> IF y = x THEN job[p].want[x]
                                        ELSE IF y = Inside[x] THEN Dir ELSE tree[y]]
            /\ Applied(p, x) /\ lock' = lock
  BY DEF WriteEntry
<1>2. At(p, "apply") /\ ~At(p, "idle") /\ objects' = objects /\ manifests' = manifests
  BY DEF WriteEntry, At, store
<1>3. x \in Paths /\ job[p].want[x] \in Entries
  BY DEF Directories, Writes, Entries
<1>4. tree' \in Manifest
  BY <1>1, <1>3 DEF StoreInv, TypeInv, Manifest, Entries
<1>5. QED
  BY <1>1, <1>2, <1>3, <1>4, StoreKept, ReturnKeeps, AppliedKeeps

\* The end of a restore, a step or a merge.
LEMMA DoneKeeps == ASSUME StoreInv, NEW p \in Procs, Done(p) PROVE StoreInv'
<1>1. ~At(p, "idle") /\ Return(p) /\ tree' \in Manifest /\ objects' = objects
      /\ manifests' = manifests
  BY DEF Done, Settled, At, StoreInv, TypeInv
<1>2. QED
  BY <1>1, StoreKept, ReturnKeeps

----------------------------------------------------------------------------
(* rm, prune, the end of a command that dies, and the box.                  *)

\* A checkpoint that is gone needs nothing.
LEMMA ForgetKeeps == ASSUME StoreInv, NEW p \in Procs, Forget(p) PROVE StoreInv'
<1>1. /\ ~At(p, "idle") /\ Go(p, "clear") /\ tree' = tree /\ objects' = objects
      /\ manifests' = [manifests EXCEPT ![job[p].id] = NoManifest]
  BY DEF Forget, At
<1>2. manifests' \in [Ids -> Manifest \cup {NoManifest}]
  BY <1>1 DEF StoreInv, TypeInv
<1>3. \A i \in Ids : manifests'[i] \in {manifests[i], NoManifest}
  BY <1>1 DEF StoreInv, TypeInv
<1>4. ObjectsStored'
  BY <1>1, <1>3 DEF StoreInv, ObjectsStored, Recorded, Files
<1>5. tree' \in Manifest /\ objects' \subseteq Contents /\ "clear" \in Phases
  BY <1>1 DEF StoreInv, TypeInv, Phases
<1>6. QED
  BY <1>1, <1>2, <1>4, <1>5, GoKeeps

\* HEAD forgets it too.
LEMMA ClearKeeps == ASSUME StoreInv, NEW p \in Procs, Clear(p) PROVE StoreInv'
<1>1. ~At(p, "idle") /\ Return(p) /\ tree' \in Manifest /\ objects' = objects
      /\ manifests' = manifests
  BY DEF Clear, At, StoreInv, TypeInv
<1>2. QED
  BY <1>1, StoreKept, ReturnKeeps

\* Nobody has written a manifest since the prune read them all, so what it
\* drops is still named by none.
LEMMA DropKeeps == ASSUME StoreInv, NEW p \in Procs, Drop(p) PROVE StoreInv'
<1>1. /\ At(p, "prune") /\ ~At(p, "idle") /\ tree' \in Manifest /\ manifests' = manifests
      /\ manifests' \in [Ids -> Manifest \cup {NoManifest}]
  BY DEF Drop, At, StoreInv, TypeInv
<1>2. CASE Return(p) /\ UNCHANGED objects
  BY <1>1, <1>2, StoreKept, ReturnKeeps
<1>3. ASSUME NEW d \in job[p].drop,
             objects' = objects \ {d},
             job' = [job EXCEPT ![p].drop = @ \ {d}],
             lock' = lock
      PROVE  StoreInv'
  <2> DEFINE j == [job[p] EXCEPT !.drop = job[p].drop \ {d}]
  <2>1. j \in Job /\ j.pc = "prune" /\ j.drop = job[p].drop \ {d}
    BY <1>1, JobFields DEF Job, At
  <2>2. job' = [job EXCEPT ![p] = j]
    BY <1>3
  <2> HIDE DEF j
  <2>3. \A i \in Recorded : job[p].drop \cap Files(manifests[i]) = {}
    BY <1>1 DEF StoreInv, PruneSafe, Recorded
  <2>4. Recorded' = Recorded /\ objects' \subseteq Contents
    BY <1>1, <1>3 DEF Recorded, StoreInv, TypeInv
  <2>5. ObjectsStored'
    BY <1>1, <1>3, <2>3, <2>4 DEF StoreInv, ObjectsStored
  <2>6. Sound(j)
    BY <1>1, <2>1, <2>3, <2>4 DEF Sound
  <2>7. QED
    BY <1>1, <1>3, <2>1, <2>2, <2>4, <2>5, <2>6, Alone, OwnStep
<1>4. QED
  BY <1>2, <1>3 DEF Drop

\* Whatever a command has done when it dies, the store is whole.
LEMMA FailKeeps == ASSUME StoreInv, NEW p \in Procs, Fail(p) PROVE StoreInv'
<1>1. ~At(p, "idle") /\ Return(p) /\ tree' \in Manifest /\ objects' = objects
      /\ manifests' = manifests
  BY DEF Fail, StoreInv, TypeInv
<1>2. QED
  BY <1>1, StoreKept, ReturnKeeps

\* The box changes the tree and nothing of the store.
LEMMA BoxKeeps == ASSUME StoreInv, Box PROVE StoreInv'
<1>1. objects' = objects /\ manifests' = manifests /\ job' = job /\ lock' = lock
  BY DEF Box, store
<1>2. tree' \in Manifest
  BY DEF Box, Put, StoreInv, TypeInv, Manifest
<1>3. QED
  BY <1>1, <1>2 DEF StoreInv, TypeInv, FlockHeld, TakeStored, PruneSafe, PlanRecorded,
                    ObjectsStored, Recorded, Files, At

----------------------------------------------------------------------------
\* Every step keeps the invariant.
LEMMA NextKeeps == StoreInv /\ [Next]_vars => StoreInv'
<1> SUFFICES ASSUME StoreInv, [Next]_vars PROVE StoreInv'
  OBVIOUS
<1>1. ASSUME NEW p \in Procs,
             Take(p) \/ Restore(p) \/ Step(p) \/ RemoveCheckpoint(p) \/ Prune(p) \/ Merge(p) \/ Pick(p)
      PROVE  StoreInv'
  BY <1>1, TakeKeeps, RestoreKeeps, StepKeeps, RemoveKeeps, PruneKeeps, MergeKeeps,
     PickKeeps
<1>2. ASSUME NEW p \in Procs, Scan(p) \/ Store(p) \/ WriteManifest(p) \/ TakeHead(p)
      PROVE  StoreInv'
  BY <1>2, ScanKeeps, StoreKeeps, WriteManifestKeeps, TakeHeadKeeps
<1>3. ASSUME NEW p \in Procs,
             \/ Check(p) \/ Present(p) \/ Plan(p)
             \/ RemovePath(p) \/ WriteEntry(p) \/ Done(p)
      PROVE  StoreInv'
  BY <1>3, CheckKeeps, PresentKeeps, PlanKeeps, RemovePathKeeps, WriteEntryKeeps, DoneKeeps
<1>4. ASSUME NEW p \in Procs, Forget(p) \/ Clear(p) \/ Drop(p) \/ Fail(p)
      PROVE  StoreInv'
  BY <1>4, ForgetKeeps, ClearKeeps, DropKeeps, FailKeeps
<1>5. CASE Box
  BY <1>5, BoxKeeps
<1>6. CASE UNCHANGED vars
  BY <1>6 DEF vars, store, StoreInv, TypeInv, FlockHeld, TakeStored, PruneSafe,
              PlanRecorded, ObjectsStored, Recorded, Files, At
<1>7. QED
  BY <1>1, <1>2, <1>3, <1>4, <1>5, <1>6 DEF Next

(* A checkpoint can always be restored: the objects that its manifest names *)
(* are there, whatever takes, removals, prunes, merges and restores ran,     *)
(* wherever they died, and whatever the box wrote meanwhile.                 *)
THEOREM CheckpointsStayWhole == Spec => []ObjectsStored
<1>1. StoreInv => ObjectsStored
  BY DEF StoreInv
<1>2. QED
  BY <1>1, InitStore, NextKeeps, PTL DEF Spec

----------------------------------------------------------------------------
(* HEAD, the tree and the ids of the checkpoints.                           *)

\* What Max computes of some checkpoints.
LEMMA MaxOfIds ==
    ASSUME NEW S \in SUBSET Ids, S # {}
    PROVE  Max(S) \in S /\ \A i \in S : i <= Max(S)
<1>1. \E m \in S : \A i \in S : m >= i
  BY Greatest DEF Ids
<1>2. Max(S) \in S /\ \A i \in S : Max(S) >= i
  BY <1>1 DEF Max
<1>3. QED
  BY <1>2 DEF Ids

\* The latest checkpoint is the one with the greatest id.
LEMMA LatestIsGreatest ==
    /\ Latest \in Ids \cup {NoHead}
    /\ Recorded # {} => Latest \in Recorded
    /\ \A i \in Recorded : i <= Latest
<1>1. Recorded \in SUBSET Ids
  BY DEF Recorded
<1>2. QED
  BY <1>1, MaxOfIds DEF Latest

\* So the number of a new checkpoint is not in use.
LEMMA NextIdIsNew == NextId \notin Recorded /\ \A i \in Recorded : i < NextId
<1>1. Latest \in Nat /\ \A i \in Recorded : i \in Nat
  BY LatestIsGreatest DEF Ids, NoHead, Recorded
<1>2. QED
  BY <1>1, LatestIsGreatest DEF NextId

----------------------------------------------------------------------------
\* What is there is inside of a directory.
DirsThere(t) == \A x \in Paths : t[x] # Absent => Inside[x] = Top \/ t[Inside[x]] = Dir

\* The file under a path is in a checkpoint, or the box has just written it.
Covered(x) ==
    tree[x] \in Contents => x \in late \/ \E i \in Recorded : manifests[i][x] = tree[x]

\* A path is as the checkpoint that is restored has it.
Presented(i, x) == tree[x] = manifests[i][x] \/ (manifests[i][x] = Absent /\ Kept(x))

\* What restoring a checkpoint plans for a path.
ToDo(i, x) == IF manifests[i][x] = Absent THEN RemoveEmpty ELSE manifests[i][x]

\* A command that takes a checkpoint: the id is free, what it has read is what
\* is there, and a restore still knows where it goes.
TakeFits(j) ==
    /\ j.pc \in {"plan", "scan", "store"} => NextId \in Ids
    /\ j.pc \in {"scan", "store", "head"} => j.cmd \in {"take", "restore", "merge"}
    /\ j.pc = "plan" => j.cmd = "merge"
    /\ j.pc = "store" =>
         /\ DirsThere(j.data) /\ (exact => late = {})
         /\ \A x \in Paths : x \in late \/ j.data[x] \in {Pending, tree[x]}
    /\ j.pc = "head" =>
         Latest \in Recorded /\ \A x \in Paths : x \in late \/ tree[x] = manifests[Latest][x]

\* A command that is going to bring a checkpoint back.
AimFits(j) ==
    /\ (j.pc \in {"scan", "store", "head"} /\ j.cmd = "restore")
         \/ j.pc \in {"check", "present"} =>
         j.id \in Recorded /\ j.want = manifests[j.id]
    /\ j.pc \in {"check", "present"} => j.cmd \in {"restore", "step"}
    /\ j.pc = "present" => \A x \in Paths : Covered(x)

\* A command that changes the tree: what its plan still touches is covered,
\* and what it does not touch any more is as the checkpoint has it.
ApplyFits(j) ==
    j.pc = "apply" =>
         /\ \A x \in Paths : j.want[x] = Leave \/ Covered(x)
         /\ j.cmd # "merge" =>
              /\ j.id \in Recorded
              /\ \A x \in Paths :
                   /\ j.want[x] \in {Leave, ToDo(j.id, x)}
                   /\ j.want[x] = Leave /\ late = {} => Presented(j.id, x)

Fits(j) == TakeFits(j) /\ AimFits(j) /\ ApplyFits(j)

HeadInv ==
    /\ head \in Ids \cup {NoHead}
    /\ DirsThere(tree) /\ \A i \in Recorded : DirsThere(manifests[i])
    /\ \A p \in Procs : Fits(job[p])
    /\ HeadIsTree

----------------------------------------------------------------------------
\* Initially there is nothing, and no HEAD.
LEMMA InitHead == Init => HeadInv
<1> SUFFICES ASSUME Init PROVE HeadInv
  OBVIOUS
<1>1. Recorded = {}
  BY DEF Init, Recorded
<1>2. \A p \in Procs : Fits(job[p])
  BY DEF Init, Idle, Fits, TakeFits, AimFits, ApplyFits
<1>3. DirsThere(tree) /\ head = NoHead /\ HeadIsTree
  BY DEF Init, DirsThere, EmptyTree, HeadIsTree
<1>4. QED
  BY <1>1, <1>2, <1>3 DEF HeadInv

\* A command that does not run fits everything.
LEMMA IdleFits == ASSUME NEW j, j.pc = "idle" PROVE Fits(j)'
BY DEF Fits, TakeFits, AimFits, ApplyFits

\* A step of the command that holds the flock concerns no other command.
LEMMA OwnHead ==
    ASSUME StoreInv, NEW p \in Procs, NEW j,
           job' = [job EXCEPT ![p] = j], Fits(j)',
           \A q \in Procs : q # p => At(q, "idle"),
           head' \in Ids \cup {NoHead}, DirsThere(tree)',
           (\A i \in Recorded : DirsThere(manifests[i]))', HeadIsTree'
    PROVE  HeadInv'
<1>1. ASSUME NEW q \in Procs PROVE Fits(job[q])'
  <2>1. CASE q = p
    <3>1. job'[q] = j
      BY <2>1 DEF StoreInv, TypeInv
    <3>2. QED
      BY <3>1 DEF Fits, TakeFits, AimFits, ApplyFits
  <2>2. CASE q # p
    <3>1. (job[q])'.pc = "idle"
      BY <2>2 DEF StoreInv, TypeInv, At
    <3>2. QED
      BY <3>1 DEF Fits, TakeFits, AimFits, ApplyFits
  <2>3. QED
    BY <2>1, <2>2
<1>2. QED
  BY <1>1 DEF HeadInv

\* A step that leaves the checkpoints, HEAD and the tree alone.
Quiet == UNCHANGED <<tree, ignored, manifests, head, exact>>

\* What such a step keeps.
LEMMA QuietKeeps ==
    ASSUME HeadInv, Quiet
    PROVE  /\ head' \in Ids \cup {NoHead} /\ DirsThere(tree)'
           /\ (\A i \in Recorded : DirsThere(manifests[i]))' /\ HeadIsTree'
           /\ Recorded' = Recorded /\ Latest' = Latest /\ NextId' = NextId
           /\ \A x : Kept(x)' = Kept(x)
<1>1. Recorded' = Recorded
  BY DEF Quiet, Recorded
<1>2. \A x : Kept(x)' = Kept(x)
  BY DEF Quiet, Kept
<1>3. HeadIsTree'
  BY <1>1, <1>2 DEF Quiet, HeadIsTree, HeadInv
<1>4. Latest' = Latest /\ NextId' = NextId
  BY <1>1 DEF Latest, NextId
<1>5. QED
  BY <1>1, <1>2, <1>3, <1>4 DEF Quiet, HeadInv, DirsThere

\* A step after which the command of the step needs only to fit.
LEMMA QuietStep ==
    ASSUME StoreInv, HeadInv, NEW p \in Procs, NEW j, job' = [job EXCEPT ![p] = j],
           \A q \in Procs : q # p => At(q, "idle"), Quiet, Fits(j)'
    PROVE  HeadInv'
BY QuietKeeps, OwnHead

\* The start of a command changes its locals only.
LEMMA StartHead ==
    ASSUME StoreInv, HeadInv, NEW p \in Procs, NEW j, Start(p, j), Fits(j)'
    PROVE  HeadInv'
<1>1. \A q \in Procs : At(q, "idle")
  BY DEF Start, StoreInv, FlockHeld
<1>2. Quiet /\ job' = [job EXCEPT ![p] = j]
  BY DEF Start, Quiet, store
<1>3. QED
  BY <1>1, <1>2, QuietStep

\* The end of a command that leaves the rest alone.
LEMMA QuietReturn ==
    ASSUME StoreInv, HeadInv, NEW p \in Procs, ~At(p, "idle"), Return(p), Quiet
    PROVE  HeadInv'
<1>1. PICK j : j = Idle
  OBVIOUS
<1>2. Fits(j)'
  BY <1>1, IdleFits DEF Idle
<1>3. QED
  BY <1>1, <1>2, Alone, QuietStep DEF Return

\* A command that starts with a scan, the comparison or the plan.
LEMMA CommandHead ==
    ASSUME StoreInv, HeadInv, NEW p \in Procs, NEW j, Start(p, j),
           \/ j.pc \in {"forget", "prune"}
           \/ j.pc = "scan" /\ j.cmd = "take" /\ NextId \in Ids
           \/ j.pc = "plan" /\ j.cmd = "merge" /\ NextId \in Ids
           \/ /\ \/ j.pc = "scan" /\ j.cmd = "restore" /\ NextId \in Ids
                 \/ j.pc = "check" /\ j.cmd = "step"
              /\ j.id \in Recorded /\ j.want = manifests[j.id]
    PROVE  HeadInv'
<1>1. Quiet
  BY DEF Start, Quiet, store
<1>2. Recorded' = Recorded /\ NextId' = NextId /\ manifests' = manifests
  BY <1>1, QuietKeeps DEF Quiet
<1>3. Fits(j)'
  BY <1>2 DEF Fits, TakeFits, AimFits, ApplyFits
<1>4. QED
  BY <1>3, StartHead

\* take.
LEMMA TakeHeads == ASSUME StoreInv, HeadInv, NEW p \in Procs, Take(p) PROVE HeadInv'
<1>1. PICK j : j = [Idle EXCEPT !.pc = "scan"]
  OBVIOUS
<1>2. j.pc = "scan" /\ j.cmd = "take"
  BY <1>1 DEF Idle
<1>3. QED
  BY <1>1, <1>2, CommandHead DEF Take

\* restore.
LEMMA RestoreHeads == ASSUME StoreInv, HeadInv, NEW p \in Procs, Restore(p) PROVE HeadInv'
<1>1. PICK i \in Ids : i \in Recorded /\ NextId \in Ids /\ Start(p,
         [Idle EXCEPT !.pc = "scan", !.cmd = "restore", !.id = i, !.want = manifests[i]])
  BY DEF Restore, Restorable
<1>2. PICK j : j = [Idle EXCEPT !.pc = "scan", !.cmd = "restore", !.id = i,
                                !.want = manifests[i]]
  OBVIOUS
<1>3. j.pc = "scan" /\ j.cmd = "restore" /\ j.id = i /\ j.want = manifests[i]
  BY <1>2 DEF Idle
<1>4. QED
  BY <1>1, <1>2, <1>3, CommandHead

\* back and forward.
LEMMA StepHeads == ASSUME StoreInv, HeadInv, NEW p \in Procs, Step(p) PROVE HeadInv'
<1>1. PICK i \in Recorded : Start(p,
         [Idle EXCEPT !.pc = "check", !.cmd = "step", !.id = i, !.want = manifests[i]])
  BY DEF Step
<1>2. PICK j : j = [Idle EXCEPT !.pc = "check", !.cmd = "step", !.id = i,
                                !.want = manifests[i]]
  OBVIOUS
<1>3. j.pc = "check" /\ j.cmd = "step" /\ j.id = i /\ j.want = manifests[i]
  BY <1>2 DEF Idle
<1>4. QED
  BY <1>1, <1>2, <1>3, CommandHead

\* rm and prune.
LEMMA RemoveHeads ==
    ASSUME StoreInv, HeadInv, NEW p \in Procs, RemoveCheckpoint(p) \/ Prune(p) PROVE HeadInv'
<1>1. CASE RemoveCheckpoint(p)
  <2>1. PICK i \in Recorded :
           Start(p, [Idle EXCEPT !.pc = "forget", !.cmd = "remove", !.id = i])
    BY <1>1 DEF RemoveCheckpoint
  <2>2. PICK j : j = [Idle EXCEPT !.pc = "forget", !.cmd = "remove", !.id = i]
    OBVIOUS
  <2>3. j.pc = "forget"
    BY <2>2 DEF Idle
  <2>4. QED
    BY <2>1, <2>2, <2>3, CommandHead
<1>2. CASE Prune(p)
  <2>1. PICK j : j = [Idle EXCEPT !.pc = "prune", !.cmd = "prune", !.drop = Unreferenced]
    OBVIOUS
  <2>2. j.pc = "prune"
    BY <2>1 DEF Idle
  <2>3. QED
    BY <1>2, <2>1, <2>2, CommandHead DEF Prune
<1>3. QED
  BY <1>1, <1>2

\* merge and pick.
LEMMA MergeHeads ==
    ASSUME StoreInv, HeadInv, NEW p \in Procs, Merge(p) \/ Pick(p) PROVE HeadInv'
<1>1. PICK theirs, base, limit : StartMerge(p, theirs, base, limit)
  BY DEF Merge, Pick
<1>2. PICK j : j = [Idle EXCEPT !.pc = "plan", !.cmd = "merge", !.id = theirs,
                                !.base = base, !.limit = limit]
  OBVIOUS
<1>3. j.pc = "plan" /\ j.cmd = "merge"
  BY <1>2 DEF Idle
<1>4. QED
  BY <1>1, <1>2, <1>3, CommandHead DEF StartMerge

----------------------------------------------------------------------------
\* The scan sees a tree, so it records one.
LEMMA ScanHeads == ASSUME StoreInv, HeadInv, NEW p \in Procs, Scan(p) PROVE HeadInv'
<1>1. PICK seen : seen = [x \in Paths |-> IF tree[x] \in Contents THEN Pending ELSE tree[x]]
  OBVIOUS
<1>2. PICK j : j = [job[p] EXCEPT !.pc = "store", !.data = seen]
  OBVIOUS
<1>3. job' = [job EXCEPT ![p] = j] /\ late' = {} /\ Quiet /\ At(p, "scan")
  BY <1>1, <1>2 DEF Scan, Quiet, store
<1>4. j.pc = "store" /\ j.data = seen /\ j.cmd = job[p].cmd /\ j.id = job[p].id
      /\ j.want = job[p].want
  BY <1>2, JobFields DEF Job
<1>5. Fits(job[p])
  BY DEF HeadInv
<1>6. DirsThere(seen)
  BY <1>1 DEF HeadInv, DirsThere, Absent, Dir, Pending
<1>7. TakeFits(j)'
  <2>1. \A x \in Paths : seen[x] \in {Pending, tree[x]}
    BY <1>1
  <2>2. NextId' \in Ids
    BY <1>3, <1>5, QuietKeeps DEF Fits, TakeFits, At
  <2>3. j.cmd \in {"take", "restore", "merge"}
    BY <1>3, <1>4, <1>5 DEF Fits, TakeFits, At
  <2>4. QED
    BY <1>3, <1>4, <1>6, <2>1, <2>2, <2>3 DEF TakeFits, DirsThere, Quiet
<1>8. AimFits(j)'
  BY <1>3, <1>4, <1>5, QuietKeeps DEF Fits, AimFits, At, Quiet
<1>9. ApplyFits(j)'
  BY <1>4 DEF ApplyFits
<1>10. ~At(p, "idle")
  BY <1>3 DEF At
<1>11. QED
  BY <1>3, <1>7, <1>8, <1>9, <1>10, Alone, QuietStep DEF Fits

\* What is read now is there now.
LEMMA StoreHeads == ASSUME StoreInv, HeadInv, NEW p \in Procs, Store(p) PROVE HeadInv'
<1>1. PICK x \in Paths :
         /\ job[p].data[x] = Pending
         /\ IF tree[x] \in Contents
            THEN /\ job' = [job EXCEPT ![p].data[x] = tree[x]]
                 /\ late' = late \ {x}
            ELSE Return(p)
  BY DEF Store
<1>2. At(p, "store") /\ ~At(p, "idle") /\ Quiet
  BY DEF Store, Quiet, At
<1>3. CASE tree[x] \notin Contents
  BY <1>1, <1>2, <1>3, QuietReturn
<1>4. CASE tree[x] \in Contents
  <2>1. PICK read : read = [job[p].data EXCEPT ![x] = tree[x]]
    OBVIOUS
  <2>2. PICK j : j = [job[p] EXCEPT !.data = read]
    OBVIOUS
  <2>3. job' = [job EXCEPT ![p] = j]
    BY <1>1, <1>4, <2>1, <2>2
  <2>4. j.pc = "store" /\ j.data = read /\ j.cmd = job[p].cmd /\ j.id = job[p].id
        /\ j.want = job[p].want
    BY <1>2, <2>2, JobFields DEF Job, At
  <2>5. \A y \in Paths : read[y] = IF y = x THEN tree[x] ELSE job[p].data[y]
    BY <2>1, JobFields
  <2>6. Fits(job[p])
    BY DEF HeadInv
  <2>7. DirsThere(read)
    BY <1>1, <1>2, <1>4, <2>5, <2>6 DEF Fits, TakeFits, DirsThere, At, Absent, Dir, Pending
  <2>8. TakeFits(j)'
    <3>1. NextId' \in Ids /\ j.cmd \in {"take", "restore", "merge"}
      BY <1>2, <2>4, <2>6, QuietKeeps DEF Fits, TakeFits, At
    <3>2. exact' => late' = {}
      BY <1>1, <1>2, <1>4, <2>6 DEF Fits, TakeFits, At, Quiet
    <3>3. \A y \in Paths : y \in late' \/ read[y] \in {Pending, tree'[y]}
      BY <1>1, <1>2, <1>4, <2>5, <2>6 DEF Fits, TakeFits, At, Quiet
    <3>4. QED
      BY <2>4, <2>7, <3>1, <3>2, <3>3 DEF TakeFits, DirsThere
  <2>9. AimFits(j)'
    BY <1>2, <2>4, <2>6, QuietKeeps DEF Fits, AimFits, At, Quiet
  <2>10. ApplyFits(j)'
    BY <2>4 DEF ApplyFits
  <2>11. QED
    BY <1>2, <2>3, <2>8, <2>9, <2>10, Alone, QuietStep DEF Fits
<1>5. QED
  BY <1>3, <1>4

\* A new checkpoint gets a number that none has. HEAD can only name it when it
\* named none, and then nothing has been written since the scan.
LEMMA WriteManifestHeads ==
    ASSUME StoreInv, HeadInv, NEW p \in Procs, WriteManifest(p), Paths # {} PROVE HeadInv'
<1>1. /\ At(p, "store") /\ ~At(p, "idle") /\ Go(p, "head")
      /\ \A x \in Paths : job[p].data[x] # Pending
      /\ manifests' = [manifests EXCEPT ![NextId] = job[p].data]
      /\ UNCHANGED <<tree, ignored, objects, head, late, exact>>
  BY DEF WriteManifest, At
<1>2. Fits(job[p]) /\ NextId \in Ids
  BY <1>1 DEF HeadInv, Fits, TakeFits, At
<1>3. PICK j : j = [job[p] EXCEPT !.pc = "head"]
  OBVIOUS
<1>4. /\ j.pc = "head" /\ j.cmd = job[p].cmd /\ j.id = job[p].id /\ j.want = job[p].want
      /\ job' = [job EXCEPT ![p] = j]
  BY <1>1, <1>3, JobFields DEF Job, Go
<1>5. manifests'[NextId] = job[p].data /\ \A i \in Ids : i # NextId => manifests'[i] = manifests[i]
  BY <1>1, <1>2 DEF StoreInv, TypeInv
<1>6. job[p].data # NoManifest
  BY <1>1, JobFields DEF NoManifest
<1>7. Recorded' = Recorded \cup {NextId}
  BY <1>2, <1>5, <1>6 DEF Recorded
<1>8. Latest' = NextId
  <2>1. PICK S : S = Recorded \cup {NextId}
    OBVIOUS
  <2>2. Max(S) \in S /\ \A i \in S : i <= Max(S)
    BY <1>2, <2>1, MaxOfIds DEF Recorded
  <2>3. Max(S) = NextId
    BY <1>2, <2>1, <2>2, NextIdIsNew DEF Ids, Recorded
  <2>4. Latest' = Max(S)
    BY <1>7, <2>1 DEF Latest
  <2>5. QED
    BY <2>3, <2>4
<1>9. DirsThere(job[p].data) /\ (exact => late = {})
      /\ \A x \in Paths : x \in late \/ job[p].data[x] = tree[x]
  BY <1>1, <1>2 DEF Fits, TakeFits, At
<1>10. TakeFits(j)'
  <2>1. j.cmd \in {"take", "restore", "merge"}
    BY <1>1, <1>2, <1>4 DEF Fits, TakeFits, At
  <2>2. QED
    BY <1>1, <1>4, <1>5, <1>7, <1>8, <1>9, <2>1 DEF TakeFits
<1>11. AimFits(j)'
  BY <1>1, <1>2, <1>4, <1>5, <1>7, NextIdIsNew DEF Fits, AimFits, At, Recorded
<1>12. ApplyFits(j)'
  BY <1>4 DEF ApplyFits
<1>13. HeadIsTree'
  <2>1. ASSUME exact, head \in Recorded', NEW x \in Paths
        PROVE  tree[x] = manifests'[head][x] \/ (manifests'[head][x] = Absent /\ Kept(x))
    <3>1. CASE head = NextId
      BY <1>5, <1>9, <2>1, <3>1
    <3>2. CASE head # NextId
      BY <1>5, <1>7, <2>1, <3>2 DEF HeadInv, HeadIsTree, Recorded
    <3>3. QED
      BY <3>1, <3>2
  <2>2. \A x : Kept(x)' = Kept(x)
    BY <1>1 DEF Kept
  <2>3. QED
    BY <1>1, <2>1, <2>2 DEF HeadIsTree
<1>14. /\ head' \in Ids \cup {NoHead} /\ DirsThere(tree)'
       /\ (\A i \in Recorded : DirsThere(manifests[i]))'
  <2>1. ASSUME NEW i \in Recorded' PROVE DirsThere(manifests'[i])
    BY <1>5, <1>7, <1>9 DEF HeadInv, Recorded
  <2>2. QED
    BY <1>1, <2>1 DEF HeadInv, DirsThere
<1>15. QED
  BY <1>1, <1>4, <1>10, <1>11, <1>12, <1>13, <1>14, Alone, OwnHead DEF Fits

\* HEAD becomes the checkpoint just taken, which is the tree but for what was
\* written since.
LEMMA TakeHeadHeads ==
    ASSUME StoreInv, HeadInv, NEW p \in Procs, TakeHead(p) PROVE HeadInv'
<1>1. /\ At(p, "head") /\ ~At(p, "idle") /\ head' = Latest /\ exact' = (late = {})
      /\ UNCHANGED <<tree, ignored, objects, manifests, late>>
      /\ CASE job[p].cmd = "take" -> Return(p)
           [] job[p].cmd = "restore" -> Go(p, "present")
           [] OTHER -> Go(p, "apply")
  BY DEF TakeHead, At
<1>2. Fits(job[p])
  BY DEF HeadInv
<1>3. /\ Latest \in Recorded /\ \A x \in Paths : x \in late \/ tree[x] = manifests[Latest][x]
      /\ job[p].cmd \in {"take", "restore", "merge"}
  BY <1>1, <1>2 DEF Fits, TakeFits, At
<1>4. Recorded' = Recorded /\ \A x : Kept(x)' = Kept(x)
  BY <1>1 DEF Recorded, Kept
<1>5. HeadIsTree'
  BY <1>1, <1>3, <1>4 DEF HeadIsTree
<1>6. /\ head' \in Ids \cup {NoHead} /\ DirsThere(tree)'
      /\ (\A i \in Recorded : DirsThere(manifests[i]))'
  BY <1>1, <1>3, <1>4 DEF HeadInv, DirsThere, Recorded
<1>7. \A x \in Paths : Covered(x)'
  BY <1>1, <1>3, <1>4 DEF Covered
<1>8. PICK j : /\ job' = [job EXCEPT ![p] = j]
               /\ \/ j.pc = "idle"
                  \/ /\ j.pc = "present" /\ job[p].cmd = "restore"
                     /\ j.cmd = job[p].cmd /\ j.id = job[p].id /\ j.want = job[p].want
                  \/ j.pc = "apply" /\ job[p].cmd = "merge" /\ j.cmd = job[p].cmd
  <2>1. CASE job[p].cmd = "take"
    <3>1. PICK j : j = Idle
      OBVIOUS
    <3>2. QED
      BY <1>1, <2>1, <3>1 DEF Return, Idle
  <2>2. CASE job[p].cmd = "restore"
    <3>1. PICK j : j = [job[p] EXCEPT !.pc = "present"]
      OBVIOUS
    <3>2. j.pc = "present" /\ j.cmd = job[p].cmd /\ j.id = job[p].id /\ j.want = job[p].want
      BY <3>1, JobFields DEF Job
    <3>3. job' = [job EXCEPT ![p] = j]
      BY <1>1, <2>2, <3>1 DEF Go
    <3>4. QED
      BY <2>2, <3>2, <3>3
  <2>3. CASE job[p].cmd = "merge"
    <3>1. PICK j : j = [job[p] EXCEPT !.pc = "apply"]
      OBVIOUS
    <3>2. j.pc = "apply" /\ j.cmd = job[p].cmd
      BY <3>1, JobFields DEF Job
    <3>3. job' = [job EXCEPT ![p] = j]
      BY <1>1, <2>3, <3>1 DEF Go
    <3>4. QED
      BY <2>3, <3>2, <3>3
  <2>4. QED
    BY <1>3, <2>1, <2>2, <2>3
<1>9. Fits(j)'
  <2>1. CASE j.pc = "idle"
    BY <2>1, IdleFits
  <2>2. CASE j.pc = "present"
    <3>1. j.id \in Recorded /\ j.want = manifests[j.id] /\ j.cmd = "restore"
      BY <1>1, <1>2, <1>8, <2>2 DEF Fits, AimFits, At
    <3>2. QED
      BY <1>1, <1>4, <1>7, <2>2, <3>1 DEF Fits, TakeFits, AimFits, ApplyFits
  <2>3. CASE j.pc = "apply"
    BY <1>7, <1>8, <2>3 DEF Fits, TakeFits, AimFits, ApplyFits
  <2>4. QED
    BY <1>8, <2>1, <2>2, <2>3
<1>10. QED
  BY <1>1, <1>5, <1>6, <1>8, <1>9, Alone, OwnHead

\* back and forward go on when the tree is a checkpoint.
LEMMA CheckHeads == ASSUME StoreInv, HeadInv, NEW p \in Procs, Check(p) PROVE HeadInv'
<1>1. At(p, "check") /\ ~At(p, "idle") /\ Quiet
  BY DEF Check, At, Quiet, store
<1>2. CASE Return(p)
  BY <1>1, <1>2, QuietReturn
<1>3. CASE Go(p, "present") /\ \E i \in Recorded : manifests[i] = tree
  <2>1. Fits(job[p])
    BY DEF HeadInv
  <2>2. PICK j : j = [job[p] EXCEPT !.pc = "present"]
    OBVIOUS
  <2>3. /\ j.pc = "present" /\ j.cmd = job[p].cmd /\ j.id = job[p].id /\ j.want = job[p].want
        /\ job' = [job EXCEPT ![p] = j]
    BY <1>3, <2>2, JobFields DEF Job, Go
  <2>4. /\ j.id \in Recorded /\ j.want = manifests[j.id] /\ j.cmd \in {"restore", "step"}
    BY <1>1, <2>1, <2>3 DEF Fits, AimFits, At
  <2>5. \A x \in Paths : Covered(x)'
    BY <1>1, <1>3, QuietKeeps DEF Covered, Quiet
  <2>6. Fits(j)'
    BY <1>1, <2>3, <2>4, <2>5, QuietKeeps DEF Fits, TakeFits, AimFits, ApplyFits, Quiet
  <2>7. QED
    BY <1>1, <2>3, <2>6, Alone, QuietStep
<1>4. QED
  BY <1>2, <1>3 DEF Check

\* What is left alone is absent, as the checkpoint has it.
LEMMA PresentHeads == ASSUME StoreInv, HeadInv, NEW p \in Procs, Present(p) PROVE HeadInv'
<1>1. PICK plan : plan =
          [x \in Paths |-> IF job[p].want[x] # Absent THEN job[p].want[x]
                           ELSE IF tree[x] = Absent THEN Leave ELSE RemoveEmpty]
  OBVIOUS
<1>2. PICK j : j = [job[p] EXCEPT !.pc = "apply", !.want = plan]
  OBVIOUS
<1>3. job' = [job EXCEPT ![p] = j] /\ late' = late /\ Quiet /\ At(p, "present") /\ ~At(p, "idle")
  BY <1>1, <1>2 DEF Present, Quiet, store, At
<1>4. j.pc = "apply" /\ j.want = plan /\ j.cmd = job[p].cmd /\ j.id = job[p].id
  BY <1>2, JobFields DEF Job
<1>5. Fits(job[p])
  BY DEF HeadInv
<1>6. /\ j.id \in Recorded /\ job[p].want = manifests[j.id] /\ \A x \in Paths : Covered(x)
  BY <1>3, <1>4, <1>5 DEF Fits, AimFits, At
<1>7. Recorded' = Recorded /\ (\A x : Kept(x)' = Kept(x)) /\ tree' = tree
      /\ manifests' = manifests
  BY <1>3, QuietKeeps DEF Quiet
<1>8. \A x \in Paths : Covered(x)'
  BY <1>3, <1>6, <1>7 DEF Covered
<1>9. ASSUME NEW x \in Paths
      PROVE  /\ plan[x] \in {Leave, ToDo(j.id, x)}
             /\ plan[x] = Leave => tree[x] = manifests[j.id][x]
  <2>1. manifests[j.id][x] \in Entries
    BY <1>6, RecordedType DEF Manifest
  <2>2. manifests[j.id][x] # Leave
    BY <2>1 DEF Entries, Leave, Absent, Dir
  <2>3. QED
    BY <1>1, <1>6, <2>2 DEF ToDo, Leave, RemoveEmpty
<1>10. ApplyFits(j)'
  BY <1>4, <1>6, <1>7, <1>8, <1>9 DEF ApplyFits, Presented, ToDo
<1>11. Fits(j)'
  BY <1>4, <1>10 DEF Fits, TakeFits, AimFits
<1>12. QED
  BY <1>3, <1>11, Alone, QuietStep

\* The plan of a merge.
LEMMA PlanHeads == ASSUME StoreInv, HeadInv, NEW p \in Procs, Plan(p) PROVE HeadInv'
<1>1. PICK want :
         \/ Return(p)
         \/ job' = [job EXCEPT ![p].pc = "scan", ![p].want = want,
                              ![p].base = EmptyTree, ![p].limit = {}]
  BY DEF Plan
<1>2. At(p, "plan") /\ ~At(p, "idle") /\ Quiet
  BY DEF Plan, At, Quiet, store
<1>3. CASE Return(p)
  BY <1>2, <1>3, QuietReturn
<1>4. CASE job' = [job EXCEPT ![p].pc = "scan", ![p].want = want,
                             ![p].base = EmptyTree, ![p].limit = {}]
  <2>1. PICK j : j = [job[p] EXCEPT !.pc = "scan", !.want = want, !.base = EmptyTree,
                                    !.limit = {}]
    OBVIOUS
  <2>2. j.pc = "scan" /\ j.cmd = job[p].cmd
    BY <2>1, JobFields DEF Job
  <2>3. job' = [job EXCEPT ![p] = j]
    BY <1>4, <2>1
  <2>4. NextId \in Ids /\ j.cmd = "merge"
    BY <1>2, <2>2 DEF HeadInv, Fits, TakeFits, At
  <2>5. Fits(j)'
    BY <1>2, <2>2, <2>4, QuietKeeps DEF Fits, TakeFits, AimFits, ApplyFits
  <2>6. QED
    BY <1>2, <2>3, <2>5, Alone, QuietStep
<1>5. QED
  BY <1>1, <1>3, <1>4

----------------------------------------------------------------------------
\* A step of a plan: HEAD says nothing any more, and the checkpoints stay.
LEMMA AppliedHeads ==
    ASSUME StoreInv, HeadInv, NEW p \in Procs, At(p, "apply"), NEW x \in Paths,
           Applied(p, x), UNCHANGED <<manifests, head, late>>, exact' = FALSE,
           DirsThere(tree)', NEW i, i = job[p].id,
           \A y \in Paths : y = x \/ job[p].want[y] = Leave \/ Covered(y)',
           job[p].cmd # "merge" /\ late = {} =>
               \A y \in Paths : y = x \/ job[p].want[y] = Leave => Presented(i, y)'
    PROVE  HeadInv'
<1>1. PICK plan : plan = [job[p].want EXCEPT ![x] = Leave]
  OBVIOUS
<1>2. PICK j : j = [job[p] EXCEPT !.want = plan]
  OBVIOUS
<1>3. job' = [job EXCEPT ![p] = j]
  BY <1>1, <1>2 DEF Applied
<1>4. j.pc = "apply" /\ j.want = plan /\ j.cmd = job[p].cmd /\ j.id = i
  BY <1>2, JobFields DEF Job, At
<1>5. \A y \in Paths : plan[y] = IF y = x THEN Leave ELSE job[p].want[y]
  BY <1>1, JobFields
<1>6. Fits(job[p]) /\ ~At(p, "idle")
  BY DEF HeadInv, At
<1>7. Recorded' = Recorded /\ manifests' = manifests
  BY DEF Recorded
<1>8. \A y \in Paths : plan[y] = Leave \/ Covered(y)'
  BY <1>5
<1>9. ASSUME j.cmd # "merge"
      PROVE  /\ j.id \in Recorded
             /\ \A y \in Paths : plan[y] \in {Leave, ToDo(i, y)}
             /\ \A y \in Paths : plan[y] = Leave /\ late = {} => Presented(i, y)'
  BY <1>4, <1>5, <1>6, <1>9 DEF Fits, ApplyFits, At
<1>10. ApplyFits(j)'
  <2>1. \A y \in Paths : ToDo(i, y)' = ToDo(i, y)
    BY <1>7 DEF ToDo
  <2>2. \A y \in Paths : Presented(i, y)' = Presented(j.id, y)' /\ ToDo(j.id, y)' = ToDo(i, y)'
    BY <1>4
  <2>3. QED
    BY <1>4, <1>7, <1>8, <1>9, <2>1, <2>2 DEF ApplyFits
<1>11. Fits(j)'
  BY <1>4, <1>10 DEF Fits, TakeFits, AimFits
<1>12. HeadIsTree' /\ head' \in Ids \cup {NoHead} /\ (\A k \in Recorded : DirsThere(manifests[k]))'
  BY <1>7 DEF HeadInv, HeadIsTree, DirsThere
<1>13. QED
  BY <1>3, <1>6, <1>11, <1>12, Alone, OwnHead

\* A plan ends halfway.
LEMMA HalfwayHeads ==
    ASSUME StoreInv, HeadInv, NEW p \in Procs, ~At(p, "idle"), Return(p), exact' = FALSE,
           UNCHANGED <<tree, manifests, head>>
    PROVE  HeadInv'
<1>1. PICK j : j = Idle
  OBVIOUS
<1>2. Fits(j)'
  BY <1>1, IdleFits DEF Idle
<1>3. Recorded' = Recorded
  BY DEF Recorded
<1>4. /\ HeadIsTree' /\ head' \in Ids \cup {NoHead} /\ DirsThere(tree)'
      /\ (\A k \in Recorded : DirsThere(manifests[k]))'
  BY <1>3 DEF HeadInv, HeadIsTree, DirsThere
<1>5. QED
  BY <1>1, <1>2, <1>4, Alone, OwnHead DEF Return

\* What a command that applies a plan knows of it.
LEMMA ApplyKnows ==
    ASSUME StoreInv, HeadInv, NEW p \in Procs, At(p, "apply")
    PROVE  /\ \A y \in Paths : job[p].want[y] = Leave \/ Covered(y)
           /\ job[p].cmd # "merge" =>
                /\ job[p].id \in Recorded /\ DirsThere(manifests[job[p].id])
                /\ \A y \in Paths : /\ manifests[job[p].id][y] \in Entries
                                    /\ job[p].want[y] \in {Leave, ToDo(job[p].id, y)}
                /\ late = {} => \A y \in Paths :
                      job[p].want[y] = Leave => Presented(job[p].id, y)
<1>1. Fits(job[p])
  BY DEF HeadInv
<1>2. QED
  BY <1>1, RecordedType DEF Fits, ApplyFits, At, HeadInv, Manifest

\* What is removed is in a checkpoint or new; a restore removes what the
\* checkpoint has not, and keeps a directory only for ignored files in it.
LEMMA RemovePathHeads ==
    ASSUME StoreInv, HeadInv, NEW p \in Procs, RemovePath(p) PROVE HeadInv'
<1>1. PICK x \in Removals(p) :
         /\ \A y \in Removals(p) : Inside[y] # x
         /\ IF tree[x] = Dir /\ InUse(x)
            THEN tree' = tree /\ (Return(p) \/ Applied(p, x))
            ELSE Put(x, Absent) /\ Applied(p, x)
  BY DEF RemovePath
<1>2. /\ At(p, "apply") /\ ~At(p, "idle") /\ exact' = FALSE
      /\ UNCHANGED <<ignored, manifests, head, late>>
  BY DEF RemovePath, At, store
<1>3. x \in Paths /\ job[p].want[x] \in {Absent, RemoveEmpty}
  BY DEF Removals
<1>4. PICK i : i = job[p].id
  OBVIOUS
<1>5. Recorded' = Recorded
  BY <1>2 DEF Recorded
<1>6. ASSUME job[p].cmd # "merge" PROVE manifests[i][x] = Absent
  <2>1. manifests[i][x] \in Entries /\ job[p].want[x] \in {Leave, ToDo(i, x)}
    BY <1>2, <1>3, <1>4, <1>6, ApplyKnows
  <2>2. QED
    BY <1>3, <2>1 DEF ToDo, Entries, Leave, RemoveEmpty, Absent, Dir
<1>7. CASE tree[x] = Dir /\ InUse(x)
  <2>1. CASE Return(p)
    BY <1>1, <1>2, <1>7, <2>1, HalfwayHeads
  <2>2. CASE Applied(p, x)
    <3>1. tree' = tree
      BY <1>1, <1>7
    <3>2. \A y \in Paths : job[p].want[y] = Leave \/ Covered(y)'
      BY <1>2, <1>5, <3>1, ApplyKnows DEF Covered
    <3>3. ASSUME job[p].cmd # "merge", late = {}, NEW y \in Paths, job[p].want[y] = Leave
          PROVE  Presented(i, y)'
      BY <1>2, <1>4, <3>1, <3>3, ApplyKnows DEF Presented, Kept
    <3>4. ASSUME job[p].cmd # "merge", late = {} PROVE Presented(i, x)'
      <4>1. CASE x \in ignored
        BY <1>2, <1>6, <1>7, <3>1, <3>4, <4>1 DEF Presented, Kept
      <4>2. CASE x \notin ignored
        <5>1. PICK y \in Paths : Inside[y] = x /\ tree[y] # Absent
          BY <1>7, <4>2 DEF InUse
        <5>2. DirsThere(manifests[i])
          BY <1>2, <1>4, <3>4, ApplyKnows
        <5>3. manifests[i][y] = Absent
          BY <1>3, <1>6, <3>4, <5>1, <5>2 DEF DirsThere, Absent, Dir
        <5>4. job[p].want[y] = Leave
          BY <1>1, <1>2, <1>4, <3>4, <5>1, <5>3, ApplyKnows DEF ToDo, Removals
        <5>5. Presented(i, y)
          BY <1>2, <1>4, <3>4, <5>4, ApplyKnows
        <5>6. y \in ignored
          BY <1>3, <5>1, <5>3, <5>5 DEF Presented, Kept
        <5>7. QED
          BY <1>2, <1>6, <1>7, <3>1, <3>4, <5>1, <5>6 DEF Presented, Kept
      <4>3. QED
        BY <4>1, <4>2
    <3>5. DirsThere(tree)'
      BY <3>1 DEF HeadInv, DirsThere
    <3>6. \A y \in Paths : y = x \/ job[p].want[y] = Leave \/ Covered(y)'
      BY <3>2
    <3>7. job[p].cmd # "merge" /\ late = {} =>
              \A y \in Paths : y = x \/ job[p].want[y] = Leave => Presented(i, y)'
      <4>1. ASSUME job[p].cmd # "merge", late = {}, NEW y \in Paths,
                   y = x \/ job[p].want[y] = Leave
            PROVE  Presented(i, y)'
        <5>1. CASE y = x
          BY <3>4, <4>1, <5>1 DEF Presented, Kept
        <5>2. CASE job[p].want[y] = Leave
          BY <3>3, <4>1, <5>2
        <5>3. QED
          BY <4>1, <5>1, <5>2
      <4>2. QED
        BY <4>1
    <3>8. QED
      BY <1>2, <1>3, <1>4, <2>2, <3>5, <3>6, <3>7, AppliedHeads
  <2>3. QED
    BY <1>1, <1>7, <2>1, <2>2
<1>8. CASE ~(tree[x] = Dir /\ InUse(x))
  <2>1. \A y \in Paths : tree'[y] = IF y = x THEN Absent ELSE tree[y]
    BY <1>1, <1>3, <1>8 DEF Put, StoreInv, TypeInv, Manifest
  <2>2. DirsThere(tree)'
    <3>1. DirsThere(tree)
      BY DEF HeadInv
    <3>2. \A y \in Paths : Inside[y] = x => tree[y] = Absent
      BY <1>3, <1>8, <3>1 DEF DirsThere, InUse
    <3>3. QED
      BY <1>3, <2>1, <3>1, <3>2 DEF DirsThere, Absent, Dir
  <2>3. \A y \in Paths : y = x \/ job[p].want[y] = Leave \/ Covered(y)'
    BY <1>2, <1>5, <2>1, ApplyKnows DEF Covered
  <2>4. job[p].cmd # "merge" /\ late = {} =>
            \A y \in Paths : y = x \/ job[p].want[y] = Leave => Presented(i, y)'
    <3>1. ASSUME job[p].cmd # "merge", late = {}, NEW y \in Paths,
                 y = x \/ job[p].want[y] = Leave
          PROVE  Presented(i, y)'
      <4>1. CASE y = x
        BY <1>2, <1>6, <2>1, <3>1, <4>1 DEF Presented
      <4>2. CASE y # x
        BY <1>2, <1>4, <2>1, <3>1, <4>2, ApplyKnows DEF Presented, Kept
      <4>3. QED
        BY <4>1, <4>2
    <3>2. QED
      BY <3>1
  <2>5. Applied(p, x)
    BY <1>1, <1>8
  <2>6. QED
    BY <1>2, <1>3, <1>4, <2>2, <2>3, <2>4, <2>5, AppliedHeads
<1>9. QED
  BY <1>7, <1>8

\* A write makes what the checkpoint has: a directory above it too, which
\* the checkpoint also has.
LEMMA WriteEntryHeads ==
    ASSUME StoreInv, HeadInv, NEW p \in Procs, WriteEntry(p) PROVE HeadInv'
<1>1. PICK x \in Directories(p) \cup Writes(p) :
         /\ Inside[x] \notin Directories(p)
         /\ IF (job[p].want[x] # Dir /\ tree[x] = Dir /\ InUse(x))
                 \/ (Inside[x] # Top /\ tree[Inside[x]] \in Contents)
            THEN Return(p) /\ tree' = tree
            ELSE /\ tree' = [y \in Paths |-> IF y = x THEN job[p].want[x]
                               ELSE IF y = Inside[x] THEN Dir ELSE tree[y]]
                 /\ Applied(p, x)
  BY DEF WriteEntry
<1> DEFINE what == job[p].want[x]
<1>2. /\ At(p, "apply") /\ ~At(p, "idle") /\ exact' = FALSE
      /\ UNCHANGED <<ignored, manifests, head, late>>
  BY DEF WriteEntry, At, store
<1>3. x \in Paths /\ what \in Contents \cup {Dir} /\ what # Leave /\ what # Absent
  BY <1>1 DEF Directories, Writes, Leave, Absent, Dir
<1>4. PICK i : i = job[p].id
  OBVIOUS
<1>5. Recorded' = Recorded
  BY <1>2 DEF Recorded
<1>6. CASE \/ what # Dir /\ tree[x] = Dir /\ InUse(x)
           \/ Inside[x] # Top /\ tree[Inside[x]] \in Contents
  BY <1>1, <1>2, <1>6, HalfwayHeads
<1>7. CASE ~(\/ what # Dir /\ tree[x] = Dir /\ InUse(x)
             \/ Inside[x] # Top /\ tree[Inside[x]] \in Contents)
  <2>1. Applied(p, x)
    BY <1>1, <1>7
  <2>2. \A y \in Paths : tree'[y] = IF y = x THEN what
                                    ELSE IF y = Inside[x] THEN Dir ELSE tree[y]
    BY <1>1, <1>7
  <2>3. DirsThere(tree)'
    <3>1. DirsThere(tree)
      BY DEF HeadInv
    <3>2. ASSUME NEW y \in Paths, tree'[y] # Absent
          PROVE  Inside[y] = Top \/ tree'[Inside[y]] = Dir
      <4>1. CASE y = x \/ y = Inside[x]
        BY <1>3, <2>2, <4>1
      <4>2. CASE y # x /\ y # Inside[x]
        <5>1. tree[y] # Absent
          BY <2>2, <3>2, <4>2
        <5>2. Inside[y] = Top \/ (Inside[y] \in Paths /\ tree[Inside[y]] = Dir)
          BY <3>1, <5>1 DEF DirsThere
        <5>3. Inside[y] = x => what = Dir
          BY <1>3, <1>7, <5>1, <5>2 DEF InUse
        <5>4. QED
          BY <2>2, <5>2, <5>3
      <4>3. QED
        BY <4>1, <4>2
    <3>3. QED
      BY <3>2 DEF DirsThere
  <2>4. \A y \in Paths : y = x \/ job[p].want[y] = Leave \/ Covered(y)'
    <3>1. ASSUME NEW y \in Paths, y # x, job[p].want[y] # Leave PROVE Covered(y)'
      <4>1. Covered(y)
        BY <1>2, <3>1, ApplyKnows
      <4>2. tree'[y] \in Contents => tree'[y] = tree[y]
        BY <2>2, <3>1
      <4>3. QED
        BY <1>2, <1>5, <4>1, <4>2 DEF Covered
    <3>2. QED
      BY <3>1
  <2>5. job[p].cmd # "merge" /\ late = {} =>
            \A y \in Paths : y = x \/ job[p].want[y] = Leave => Presented(i, y)'
    <3>1. ASSUME job[p].cmd # "merge", late = {}, NEW y \in Paths,
                 y = x \/ job[p].want[y] = Leave
          PROVE  Presented(i, y)'
      <4>1. what = manifests[i][x]
        BY <1>1, <1>2, <1>3, <1>4, <3>1, ApplyKnows DEF ToDo, RemoveEmpty, Dir
      <4>2. CASE y = x
        BY <1>2, <2>2, <4>1, <4>2 DEF Presented
      <4>3. CASE y # x /\ y = Inside[x]
        <5>1. DirsThere(manifests[i])
          BY <1>2, <1>4, <3>1, ApplyKnows
        <5>2. manifests[i][y] = Dir
          BY <1>3, <4>1, <4>3, <5>1 DEF DirsThere
        <5>3. QED
          BY <1>2, <2>2, <4>3, <5>2 DEF Presented
      <4>4. CASE y # x /\ y # Inside[x]
        BY <1>2, <1>4, <2>2, <3>1, <4>4, ApplyKnows DEF Presented, Kept
      <4>5. QED
        BY <4>2, <4>3, <4>4
    <3>2. QED
      BY <3>1
  <2>6. QED
    BY <1>2, <1>3, <1>4, <2>1, <2>3, <2>4, <2>5, AppliedHeads
<1>8. QED
  BY <1>6, <1>7

\* A restore ends when nothing is left to do: HEAD is what it brought back.
LEMMA DoneHeads == ASSUME StoreInv, HeadInv, NEW p \in Procs, Done(p) PROVE HeadInv'
<1>1. /\ At(p, "apply") /\ ~At(p, "idle") /\ Return(p)
      /\ \A x \in Paths : job[p].want[x] = Leave
      /\ UNCHANGED <<tree, ignored, manifests, late>>
      /\ IF job[p].cmd = "merge" THEN UNCHANGED <<head, exact>>
         ELSE head' = job[p].id /\ exact' = (late = {})
  BY DEF Done, Settled, At
<1>2. CASE job[p].cmd = "merge"
  BY <1>1, <1>2, QuietReturn DEF Quiet
<1>3. CASE job[p].cmd # "merge"
  <2>1. PICK j : j = Idle
    OBVIOUS
  <2>2. Fits(j)'
    BY <2>1, IdleFits DEF Idle
  <2>3. Recorded' = Recorded /\ \A x : Kept(x)' = Kept(x)
    BY <1>1 DEF Recorded, Kept
  <2>4. HeadIsTree'
    <3>1. late = {} => \A x \in Paths : Presented(job[p].id, x)
      BY <1>1, <1>3, ApplyKnows
    <3>2. QED
      BY <1>1, <1>3, <2>3, <3>1 DEF HeadIsTree, Presented
  <2>5. /\ head' \in Ids \cup {NoHead} /\ DirsThere(tree)'
        /\ (\A k \in Recorded : DirsThere(manifests[k]))'
    BY <1>1, <1>3, <2>3, JobFields DEF HeadInv, DirsThere
  <2>6. QED
    BY <1>1, <2>1, <2>2, <2>4, <2>5, Alone, OwnHead DEF Return
<1>4. QED
  BY <1>2, <1>3

\* A checkpoint that goes takes nothing with it.
LEMMA ForgetHeads == ASSUME StoreInv, HeadInv, NEW p \in Procs, Forget(p) PROVE HeadInv'
<1>1. /\ At(p, "forget") /\ ~At(p, "idle") /\ Go(p, "clear")
      /\ manifests' = [manifests EXCEPT ![job[p].id] = NoManifest]
      /\ UNCHANGED <<tree, ignored, head, late, exact>>
  BY DEF Forget, At
<1>2. PICK j : j = [job[p] EXCEPT !.pc = "clear"]
  OBVIOUS
<1>3. j.pc = "clear" /\ job' = [job EXCEPT ![p] = j]
  BY <1>1, <1>2, JobFields DEF Job, Go
<1>4. Fits(j)'
  BY <1>3 DEF Fits, TakeFits, AimFits, ApplyFits
<1>5. /\ \A i \in Ids : manifests'[i] \in {manifests[i], NoManifest}
      /\ \A i \in Recorded' : i \in Recorded /\ manifests'[i] = manifests[i]
  BY <1>1 DEF StoreInv, TypeInv, Recorded
<1>6. HeadIsTree'
  <2>1. \A x : Kept(x)' = Kept(x)
    BY <1>1 DEF Kept
  <2>2. QED
    BY <1>1, <1>5, <2>1 DEF HeadInv, HeadIsTree
<1>7. /\ head' \in Ids \cup {NoHead} /\ DirsThere(tree)'
      /\ (\A k \in Recorded : DirsThere(manifests[k]))'
  BY <1>1, <1>5 DEF HeadInv, DirsThere
<1>8. QED
  BY <1>1, <1>3, <1>4, <1>6, <1>7, Alone, OwnHead

\* A HEAD that names nothing says nothing.
LEMMA HeadlessHeads ==
    ASSUME StoreInv, HeadInv, NEW p \in Procs, ~At(p, "idle"), Return(p),
           UNCHANGED <<tree, ignored, manifests, late, exact>>,
           head' \in {head, NoHead}
    PROVE  HeadInv'
<1>1. PICK j : j = Idle
  OBVIOUS
<1>2. Fits(j)'
  BY <1>1, IdleFits DEF Idle
<1>3. Recorded' = Recorded /\ (\A x : Kept(x)' = Kept(x)) /\ NoHead \notin Recorded
  BY DEF Recorded, Kept, NoHead, Ids
<1>4. /\ HeadIsTree' /\ head' \in Ids \cup {NoHead} /\ DirsThere(tree)'
      /\ (\A k \in Recorded : DirsThere(manifests[k]))'
  BY <1>3 DEF HeadInv, HeadIsTree, DirsThere
<1>5. QED
  BY <1>1, <1>2, <1>4, Alone, OwnHead DEF Return

\* The end of rm, and the death of a command.
LEMMA ClearHeads ==
    ASSUME StoreInv, HeadInv, NEW p \in Procs, Clear(p) \/ Fail(p) PROVE HeadInv'
<1>1. /\ ~At(p, "idle") /\ Return(p) /\ head' \in {head, NoHead}
      /\ UNCHANGED <<tree, ignored, manifests, late, exact>>
  BY DEF Clear, Fail, At
<1>2. QED
  BY <1>1, HeadlessHeads

\* A prune is after objects, which no part of this speaks of.
LEMMA DropHeads == ASSUME StoreInv, HeadInv, NEW p \in Procs, Drop(p) PROVE HeadInv'
<1>1. At(p, "prune") /\ ~At(p, "idle") /\ Quiet
  BY DEF Drop, At, Quiet
<1>2. CASE Return(p)
  BY <1>1, <1>2, QuietReturn
<1>3. ASSUME NEW d, job' = [job EXCEPT ![p].drop = @ \ {d}] PROVE HeadInv'
  <2>1. PICK j : j = [job[p] EXCEPT !.drop = job[p].drop \ {d}]
    OBVIOUS
  <2>2. j.pc = "prune" /\ job' = [job EXCEPT ![p] = j]
    BY <1>1, <1>3, <2>1, JobFields DEF Job, At
  <2>3. Fits(j)'
    BY <2>2 DEF Fits, TakeFits, AimFits, ApplyFits
  <2>4. QED
    BY <1>1, <2>2, <2>3, Alone, QuietStep
<1>4. QED
  BY <1>2, <1>3 DEF Drop

\* What the box writes is late for the command that runs, and HEAD says
\* nothing any more.
LEMMA BoxHeads == ASSUME StoreInv, HeadInv, Box PROVE HeadInv'
<1>1. PICK x \in Paths :
         /\ \/ /\ ParentThere(x)
               /\ \E what \in Entries : Put(x, what)
               /\ tree[x] = Dir => ~InUse(x)
            \/ tree' = tree
         /\ late' = late \cup {x}
  BY DEF Box
<1>2. UNCHANGED <<manifests, head, job>> /\ exact' = FALSE
  BY DEF Box, store
<1>3. \A y \in Paths : y # x => tree'[y] = tree[y]
  BY <1>1 DEF Put, StoreInv, TypeInv, Manifest
<1>4. Recorded' = Recorded /\ Latest' = Latest /\ NextId' = NextId
  BY <1>2 DEF Recorded, Latest, NextId
<1>5. DirsThere(tree)'
  <2>1. DirsThere(tree)
    BY DEF HeadInv
  <2>2. CASE tree' = tree
    BY <2>1, <2>2 DEF DirsThere
  <2>3. CASE ParentThere(x) /\ (tree[x] = Dir => ~InUse(x))
    <3>1. \A y \in Paths : Inside[y] = x => tree[y] = Absent
      BY <2>1, <2>3 DEF DirsThere, InUse
    <3>2. Inside[x] = Top \/ (Inside[x] \in Paths /\ tree[Inside[x]] = Dir /\ Inside[x] # x)
      <4>1. Inside[x] = Top \/ (Inside[x] \in Paths /\ tree[Inside[x]] = Dir)
        BY <2>3 DEF ParentThere
      <4>2. Inside[x] # Top => Inside[x] # x
        OBVIOUS
      <4>3. QED
        BY <4>1, <4>2
    <3>3. QED
      BY <1>3, <2>1, <3>1, <3>2 DEF DirsThere
  <2>4. QED
    BY <1>1, <2>2, <2>3
<1>6. \A y \in Paths : Covered(y) => Covered(y)'
  BY <1>1, <1>2, <1>3, <1>4 DEF Covered
<1>7. ASSUME NEW p \in Procs PROVE Fits(job[p])'
  <2>1. PICK j : j = job[p]
    OBVIOUS
  <2>2. Fits(j) /\ job'[p] = j
    BY <1>2, <2>1 DEF HeadInv
  <2>3. TakeFits(j)'
    <3>1. NextId' = NextId /\ Latest' = Latest /\ Recorded' = Recorded /\ manifests' = manifests
      BY <1>2, <1>4
    <3>2. j.pc = "store" => DirsThere(j.data)'
      BY <2>2 DEF Fits, TakeFits, DirsThere
    <3>3. j.pc = "store" =>
             \A y \in Paths : y \in late' \/ j.data[y] \in {Pending, tree'[y]}
      BY <1>1, <1>3, <2>2 DEF Fits, TakeFits
    <3>4. j.pc = "head" => \A y \in Paths : y \in late' \/ tree'[y] = manifests[Latest][y]
      BY <1>1, <1>3, <2>2 DEF Fits, TakeFits
    <3>5. QED
      BY <1>2, <2>2, <3>1, <3>2, <3>3, <3>4 DEF Fits, TakeFits
  <2>4. AimFits(j)'
    BY <1>2, <1>4, <1>6, <2>2 DEF Fits, AimFits
  <2>5. ApplyFits(j)'
    <3>1. late' # {}
      BY <1>1
    <3>2. \A y \in Paths : ToDo(j.id, y)' = ToDo(j.id, y)
      BY <1>2 DEF ToDo
    <3>3. QED
      BY <1>4, <1>6, <2>2, <3>1, <3>2 DEF Fits, ApplyFits
  <2>6. Fits(j)'
    BY <2>3, <2>4, <2>5 DEF Fits
  <2>7. QED
    BY <2>2, <2>6 DEF Fits, TakeFits, AimFits, ApplyFits
<1>8. HeadIsTree' /\ head' \in Ids \cup {NoHead} /\ (\A k \in Recorded : DirsThere(manifests[k]))'
  BY <1>2, <1>4 DEF HeadInv, HeadIsTree, DirsThere
<1>9. QED
  BY <1>5, <1>7, <1>8 DEF HeadInv

----------------------------------------------------------------------------
\* Every step keeps the invariant.
LEMMA NextHeads ==
    ASSUME Paths # {}
    PROVE  StoreInv /\ HeadInv /\ [Next]_vars => HeadInv'
<1> SUFFICES ASSUME StoreInv, HeadInv, [Next]_vars PROVE HeadInv'
  OBVIOUS
<1>1. ASSUME NEW p \in Procs,
             Take(p) \/ Restore(p) \/ Step(p) \/ RemoveCheckpoint(p) \/ Prune(p) \/ Merge(p) \/ Pick(p)
      PROVE  HeadInv'
  BY <1>1, TakeHeads, RestoreHeads, StepHeads, RemoveHeads, MergeHeads
<1>2. ASSUME NEW p \in Procs, Scan(p) \/ Store(p) \/ WriteManifest(p) \/ TakeHead(p)
      PROVE  HeadInv'
  BY <1>2, ScanHeads, StoreHeads, WriteManifestHeads, TakeHeadHeads
<1>3. ASSUME NEW p \in Procs,
             \/ Check(p) \/ Present(p) \/ Plan(p)
             \/ RemovePath(p) \/ WriteEntry(p) \/ Done(p)
      PROVE  HeadInv'
  BY <1>3, CheckHeads, PresentHeads, PlanHeads, RemovePathHeads, WriteEntryHeads, DoneHeads
<1>4. ASSUME NEW p \in Procs, Forget(p) \/ Clear(p) \/ Drop(p) \/ Fail(p)
      PROVE  HeadInv'
  BY <1>4, ForgetHeads, ClearHeads, DropHeads
<1>5. CASE Box
  BY <1>5, BoxHeads
<1>6. CASE UNCHANGED vars
  <2>1. UNCHANGED vars /\ Recorded' = Recorded
    BY <1>6 DEF vars, store, Recorded
  <2>2. Latest' = Latest /\ NextId' = NextId
    BY <2>1 DEF Latest, NextId
  <2>3. QED
    BY <2>1, <2>2 DEF vars, store, HeadInv, Fits, TakeFits, AimFits, ApplyFits, Covered,
                   Presented, ToDo, Kept, DirsThere, HeadIsTree
<1>7. QED
  BY <1>1, <1>2, <1>3, <1>4, <1>5, <1>6 DEF Next

(* HEAD tells the truth: while nothing has touched the tree since HEAD was   *)
(* set, the tree is the one that the checkpoint recorded.                     *)
THEOREM HeadTellsTheTruth == Spec => []HeadIsTree
<1>1. CASE Paths = {}
  <2>1. HeadIsTree
    BY <1>1 DEF HeadIsTree
  <2>2. QED
    BY <2>1, PTL
<1>2. CASE Paths # {}
  <2>1. HeadInv => HeadIsTree
    BY DEF HeadInv
  <2>2. StoreInv /\ HeadInv /\ [Next]_vars => HeadInv'
    BY <1>2, NextHeads
  <2>3. QED
    BY <2>1, <2>2, InitStore, InitHead, NextKeeps, PTL DEF Spec
<1>3. QED
  BY <1>1, <1>2

----------------------------------------------------------------------------
\* What the steps of the commands leave alone: only a plan changes the tree,
\* only a take and rm change manifests.
LEMMA CommandFrame ==
    ASSUME NEW p \in Procs
    PROVE  /\ Take(p) \/ Restore(p) \/ Step(p) \/ RemoveCheckpoint(p) \/ Prune(p) \/ Merge(p) \/ Pick(p) =>
                UNCHANGED <<tree, writes, manifests>>
           /\ Scan(p) \/ Store(p) \/ TakeHead(p) \/ Check(p) \/ Present(p) \/ Plan(p) =>
                UNCHANGED <<tree, writes, manifests>>
           /\ Done(p) \/ Clear(p) \/ Drop(p) \/ Fail(p) => UNCHANGED <<tree, writes, manifests>>
           /\ WriteManifest(p) \/ Forget(p) => UNCHANGED <<tree, writes>>
           /\ RemovePath(p) \/ WriteEntry(p) => UNCHANGED <<writes, manifests>>
<1>1. Take(p) \/ Restore(p) \/ Step(p) \/ RemoveCheckpoint(p) \/ Prune(p) =>
         UNCHANGED <<tree, writes, manifests>>
  BY DEF Take, Restore, Step, RemoveCheckpoint, Prune, Start, store
<1>2. Merge(p) \/ Pick(p) => UNCHANGED <<tree, writes, manifests>>
  BY DEF Merge, Pick, StartMerge, Start, store
<1>3. Scan(p) \/ Store(p) \/ TakeHead(p) => UNCHANGED <<tree, writes, manifests>>
  BY DEF Scan, Store, TakeHead, store
<1>4. Check(p) \/ Present(p) \/ Plan(p) => UNCHANGED <<tree, writes, manifests>>
  BY DEF Check, Present, Plan, store
<1>5. Done(p) \/ Clear(p) \/ Drop(p) \/ Fail(p) => UNCHANGED <<tree, writes, manifests>>
  BY DEF Done, Clear, Drop, Fail
<1>6. WriteManifest(p) \/ Forget(p) => UNCHANGED <<tree, writes>>
  BY DEF WriteManifest, Forget
<1>7. RemovePath(p) \/ WriteEntry(p) => UNCHANGED <<writes, manifests>>
  BY DEF RemovePath, WriteEntry, store
<1>8. QED
  BY <1>1, <1>2, <1>3, <1>4, <1>5, <1>6, <1>7

\* So a step that changes the tree is a step of a plan or of the box.
LEMMA TreeChanges ==
    ASSUME [Next]_vars, tree' # tree
    PROVE  Box \/ \E p \in Procs : (RemovePath(p) \/ WriteEntry(p)) /\ writes' = writes
BY CommandFrame DEF Next, vars

\* The box counts its changes.
LEMMA WritesCounted ==
    /\ Init => writes \in Nat
    /\ writes \in Nat /\ [Next]_vars => writes' \in Nat
<1>1. Box /\ writes \in Nat => writes' \in Nat
  BY DEF Box
<1>2. [Next]_vars /\ ~Box => writes' = writes
  BY CommandFrame DEF Next, vars
<1>3. QED
  BY <1>1, <1>2 DEF Init

\* A removal or a write touches what its plan still has to do, and never
\* replaces a file by the directory of another.
LEMMA PlanTouches ==
    ASSUME StoreInv, NEW p \in Procs, RemovePath(p) \/ WriteEntry(p), NEW x \in Paths,
           tree[x] \in Contents, tree'[x] # tree[x]
    PROVE  At(p, "apply") /\ job[p].want[x] # Leave
<1>1. CASE RemovePath(p)
  <2>1. PICK y \in Removals(p) : tree' = tree \/ tree' = [tree EXCEPT ![y] = Absent]
    BY <1>1 DEF RemovePath, Put
  <2>2. y = x
    BY <2>1 DEF StoreInv, TypeInv, Manifest
  <2>3. QED
    BY <1>1, <2>1, <2>2 DEF RemovePath, Removals, Leave, Absent, RemoveEmpty
<1>2. CASE WriteEntry(p)
  <2>1. PICK y \in Directories(p) \cup Writes(p) :
           \/ tree' = tree
           \/ /\ Inside[y] = Top \/ tree[Inside[y]] \notin Contents
              /\ tree' = [z \in Paths |-> IF z = y THEN job[p].want[y]
                                          ELSE IF z = Inside[y] THEN Dir ELSE tree[z]]
    BY <1>2 DEF WriteEntry
  <2>2. y = x
    BY <2>1
  <2>3. QED
    BY <1>2, <2>1, <2>2 DEF WriteEntry, Directories, Writes, Leave, Dir
<1>3. QED
  BY <1>1, <1>2

\* What a step of a command overwrites or removes is recorded or late.
LEMMA StepLosesNothing ==
    ASSUME StoreInv, HeadInv, writes \in Nat, [Next]_vars
    PROVE  \A x \in Paths :
             tree[x] \in Contents /\ tree'[x] # tree[x] /\ writes' = writes =>
               x \in late \/ \E i \in Recorded : manifests[i][x] = tree[x]
<1> SUFFICES ASSUME NEW x \in Paths, tree[x] \in Contents, tree'[x] # tree[x], writes' = writes
             PROVE  x \in late \/ \E i \in Recorded : manifests[i][x] = tree[x]
  OBVIOUS
<1>1. ~Box
  BY DEF Box
<1>2. PICK p \in Procs : RemovePath(p) \/ WriteEntry(p)
  BY <1>1, TreeChanges
<1>3. At(p, "apply") /\ job[p].want[x] # Leave
  BY <1>2, PlanTouches
<1>4. QED
  BY <1>3, ApplyKnows DEF Covered

(* A restore, a step or a merge never destroys the only copy of a file: what *)
(* it overwrites or removes is recorded under its path in some checkpoint,   *)
(* unless the box wrote the file after the command had read it.              *)
THEOREM NothingIsLost == Spec => NothingLost
<1>1. CASE Paths = {}
  <2>1. \A x \in Paths :
             tree[x] \in Contents /\ tree'[x] # tree[x] /\ writes' = writes =>
               x \in late \/ \E i \in Recorded : manifests[i][x] = tree[x]
    BY <1>1
  <2>2. QED
    BY <2>1, PTL DEF NothingLost
<1>2. CASE Paths # {}
  <2>1. StoreInv /\ HeadInv /\ [Next]_vars => HeadInv'
    BY <1>2, NextHeads
  <2>2. StoreInv /\ HeadInv /\ writes \in Nat /\ [Next]_vars =>
          \A x \in Paths :
             tree[x] \in Contents /\ tree'[x] # tree[x] /\ writes' = writes =>
               x \in late \/ \E i \in Recorded : manifests[i][x] = tree[x]
    BY StepLosesNothing
  <2>3. (Init => writes \in Nat) /\ (writes \in Nat /\ [Next]_vars => (writes \in Nat)')
    BY WritesCounted
  <2>4. QED
    BY <2>1, <2>2, <2>3, InitStore, InitHead, NextKeeps, PTL DEF Spec, NothingLost
<1>3. QED
  BY <1>1, <1>2

----------------------------------------------------------------------------
\* A step leaves a checkpoint as it is or removes it.
LEMMA StepKeepsCheckpoints ==
    ASSUME StoreInv, [Next]_vars
    PROVE  \A i \in Recorded : manifests'[i] \in {manifests[i], NoManifest}
<1>1. ASSUME NEW p \in Procs, WriteManifest(p)
      PROVE  \A i \in Recorded : manifests'[i] = manifests[i]
  BY <1>1, NextIdIsNew DEF WriteManifest, StoreInv, TypeInv, Recorded
<1>2. ASSUME NEW p \in Procs, Forget(p)
      PROVE  \A i \in Recorded : manifests'[i] \in {manifests[i], NoManifest}
  BY <1>2 DEF Forget, StoreInv, TypeInv, Recorded
<1>3. CASE manifests' = manifests
  BY <1>3
<1>4. \/ manifests' = manifests
      \/ \E p \in Procs : WriteManifest(p) \/ Forget(p)
  <2>1. Box => manifests' = manifests
    BY DEF Box, store
  <2>2. QED
    BY <2>1, CommandFrame DEF Next, vars, store
<1>5. QED
  BY <1>1, <1>2, <1>3, <1>4

(* A checkpoint never changes: an id gets a new manifest only after the old *)
(* one was removed, because a take numbers from the greatest id there is.    *)
THEOREM CheckpointsStay == Spec => CheckpointsKept
<1>1. StoreInv /\ [Next]_vars =>
        \A i \in Recorded : manifests'[i] \in {manifests[i], NoManifest}
  BY StepKeepsCheckpoints
<1>2. QED
  BY <1>1, InitStore, NextKeeps, PTL DEF Spec, CheckpointsKept

----------------------------------------------------------------------------
(* The store is the one of CheckpointStore.                                 *)

\* Every checkpoint can be restored, so that what can be restored is what the
\* manifests say.
LEMMA SavedIsRecorded == StoreInv => Saved = manifests
<1> SUFFICES ASSUME StoreInv PROVE Saved = manifests
  OBVIOUS
<1>1. \A i \in Ids : Saved[i] = manifests[i]
  <2>1. \A i \in Recorded : Restorable(i)
    BY DEF StoreInv, ObjectsStored, Restorable
  <2>2. \A i \in Ids : i \notin Recorded => manifests[i] = NoManifest /\ ~Restorable(i)
    BY DEF Recorded, Restorable
  <2>3. QED
    BY <2>1, <2>2 DEF Saved
<1>2. QED
  BY <1>1 DEF Saved, StoreInv, TypeInv

\* The same of the next state.
LEMMA SavedStaysRecorded == StoreInv' => (Saved = manifests)'
BY SavedIsRecorded, PTL

\* Most steps leave manifests alone; HEAD is set by the end of a take and of a
\* restore, and by what clears it.
LEMMA HeadMoves ==
    ASSUME StoreInv, HeadInv, [Next]_vars, head' # head
    PROVE  manifests' = manifests /\ head' \in Recorded \cup {NoHead}
<1>1. ASSUME NEW p \in Procs, TakeHead(p)
      PROVE  head' \in Recorded
  <2>1. At(p, "head") /\ head' = Latest
    BY <1>1 DEF TakeHead
  <2>2. Fits(job[p]) /\ job[p].pc = "head"
    BY <2>1 DEF HeadInv, At
  <2>3. QED
    BY <2>1, <2>2 DEF Fits, TakeFits
<1>2. ASSUME NEW p \in Procs, Done(p)
      PROVE  head' \in Recorded \cup {head}
  <2>1. job[p].pc = "apply" /\ Fits(job[p])
    BY <1>2 DEF Done, Settled, At, HeadInv
  <2>2. CASE job[p].cmd = "merge"
    BY <1>2, <2>2 DEF Done
  <2>3. CASE job[p].cmd # "merge"
    BY <1>2, <2>1, <2>3 DEF Done, Fits, ApplyFits
  <2>4. QED
    BY <2>2, <2>3
<1>3. ASSUME NEW p \in Procs, Clear(p) \/ Fail(p)
      PROVE  head' \in {head, NoHead}
  BY SMTT(60), <1>3 DEF Clear, Fail
<1>4. PICK p \in Procs : TakeHead(p) \/ Done(p) \/ Clear(p) \/ Fail(p)
  <2>1. ASSUME NEW p \in Procs,
               Take(p) \/ Restore(p) \/ Step(p) \/ RemoveCheckpoint(p) \/ Prune(p) \/ Merge(p) \/ Pick(p)
        PROVE  head' = head
    BY ZenonT(60), <2>1 DEF Take, Restore, Step, RemoveCheckpoint, Prune, Merge, Pick, StartMerge, Start, store
  <2>2. ASSUME NEW p \in Procs,
               \/ Scan(p) \/ Store(p) \/ WriteManifest(p) \/ Check(p) \/ Present(p)
               \/ Plan(p) \/ RemovePath(p) \/ WriteEntry(p) \/ Forget(p) \/ Drop(p)
        PROVE  head' = head
    BY <2>2 DEF Scan, Store, WriteManifest, Check, Present, Plan, RemovePath, WriteEntry,
                Forget, Drop, store
  <2>3. Box \/ UNCHANGED vars => head' = head
    BY DEF Box, vars, store
  <2>4. QED
    BY SMTT(60), <2>1, <2>2, <2>3 DEF Next
<1>5. QED
  BY <1>1, <1>2, <1>3, <1>4, CommandFrame

\* A take saves a tree under the number after the highest, rm forgets one.
LEMMA StepOfStore ==
    ASSUME StoreInv, HeadInv, [Next]_vars
    PROVE  [CheckpointsStore!Next]_<<Saved, head>>
<1>1. StoreInv'
  BY NextKeeps
<1>2. Saved = manifests /\ Saved' = manifests'
  BY <1>1, SavedIsRecorded, SavedStaysRecorded
<1> USE DEF CheckpointsStore!Next, CheckpointsStore!Numbers
<1>3. CASE head' # head
  <2>1. Saved' = Saved /\ head' \in Recorded \cup {NoHead}
    BY <1>2, <1>3, HeadMoves
  <2>2. CASE head' = NoHead
    BY <2>1, <2>2 DEF CheckpointsStore!Unpoint, NoHead
  <2>3. CASE head' \in Recorded
    <3>1. head' \in Ids /\ Saved[head'] # NoManifest
      BY <1>2, <2>3 DEF Recorded
    <3>2. CheckpointsStore!PointTo(head')
      BY <2>1, <3>1 DEF CheckpointsStore!PointTo
    <3>3. QED
      BY <3>1, <3>2 DEF Ids
  <2>4. QED
    BY <2>1, <2>2, <2>3
<1>4. ASSUME head' = head, NEW p \in Procs, WriteManifest(p)
      PROVE  CheckpointsStore!Next
  <2>1. /\ job[p].pc = "store" /\ \A x \in Paths : job[p].data[x] # Pending
        /\ manifests' = [manifests EXCEPT ![NextId] = job[p].data]
    BY <1>4 DEF WriteManifest, At
  <2>2. NextId \in Ids /\ \A j \in Ids : manifests[j] # NoManifest => j < NextId
    BY <2>1, NextIdIsNew DEF HeadInv, Fits, TakeFits, Recorded
  <2>3. job[p].data \in Manifest
    BY <2>1, JobFields DEF Manifest
  <2>4. manifests'[NextId] = job[p].data
    BY <2>1, <2>2 DEF StoreInv, TypeInv, Ids
  <2>5. CheckpointsStore!Save(NextId)
    BY <1>2, <1>4, <2>1, <2>2, <2>3, <2>4 DEF CheckpointsStore!Save, Ids
  <2>6. QED
    BY <2>2, <2>5 DEF Ids
<1>5. ASSUME head' = head, NEW p \in Procs, Forget(p)
      PROVE  CheckpointsStore!Next \/ manifests' = manifests
  <2>1. manifests' = [manifests EXCEPT ![job[p].id] = NoManifest]
    BY <1>5 DEF Forget
  <2>2. CASE job[p].id \in Recorded
    <3>1. CheckpointsStore!Forget(job[p].id)
      BY <1>2, <1>5, <2>1, <2>2 DEF CheckpointsStore!Forget, Recorded
    <3>2. QED
      BY <2>2, <3>1 DEF Recorded, Ids
  <2>3. CASE job[p].id \notin Recorded
    BY <2>1, <2>3 DEF Recorded, StoreInv, TypeInv
  <2>4. QED
    BY <2>2, <2>3
<1>6. \/ manifests' = manifests
      \/ \E p \in Procs : WriteManifest(p) \/ Forget(p)
  <2>1. Box => manifests' = manifests
    BY DEF Box, store
  <2>2. QED
    BY <2>1, CommandFrame DEF Next, vars, store
<1>7. QED
  BY <1>2, <1>3, <1>4, <1>5, <1>6

(* The checkpoints keep the promise of CheckpointStore, wherever commands    *)
(* die: what can be restored changes by whole trees, a new one has the        *)
(* highest number, and HEAD is set to one that can be restored.              *)
THEOREM CheckpointsImplementStore == ASSUME Paths # {} PROVE Spec => ImplementsStore
<1>1. Init => CheckpointsStore!Init
  BY InitStore, SavedIsRecorded DEF Init, CheckpointsStore!Init, CheckpointsStore!Numbers, Ids, NoHead
<1>2. StoreInv /\ HeadInv /\ [Next]_vars => [CheckpointsStore!Next]_<<Saved, head>>
  BY SMTT(60), StepOfStore
<1>3. StoreInv /\ HeadInv /\ [Next]_vars => HeadInv'
  BY SMTT(60), NextHeads
<1>4. QED
  BY <1>1, <1>2, <1>3, InitStore, InitHead, NextKeeps, PTL
     DEF Spec, ImplementsStore, CheckpointsStore!Spec

----------------------------------------------------------------------------
(* The types of the other variables.                                        *)

RestTyped ==
    /\ ignored \subseteq Paths
    /\ writes \in 0 .. MaxWrites
    /\ head \in Ids \cup {NoHead}
    /\ lock \subseteq Procs
    /\ late \subseteq Paths
    /\ exact \in BOOLEAN

\* The flock is taken and given back by commands.
LEMMA RestStarts ==
    ASSUME RestTyped, NEW p \in Procs,
           Take(p) \/ Restore(p) \/ Step(p) \/ RemoveCheckpoint(p) \/ Prune(p) \/ Merge(p) \/ Pick(p)
    PROVE  RestTyped'
<1>1. lock' = {p} /\ UNCHANGED <<ignored, writes, head, late, exact>>
  BY DEF Take, Restore, Step, RemoveCheckpoint, Prune, Merge, Pick, StartMerge, Start, store
<1>2. QED
  BY SMTT(60), <1>1 DEF RestTyped

\* take sets HEAD to a checkpoint.
LEMMA RestTakes ==
    ASSUME StoreInv, RestTyped, NEW p \in Procs,
           Scan(p) \/ Store(p) \/ WriteManifest(p) \/ TakeHead(p)
    PROVE  RestTyped'
<1>1. lock' \in {lock, lock \ {p}} /\ late' \in {late, {}} \cup {late \ {x} : x \in Paths}
  BY DEF Scan, Store, WriteManifest, TakeHead, Return, Go
<1>2. UNCHANGED <<ignored, writes>> /\ head' \in {head, Latest} /\ exact' \in {exact} \cup BOOLEAN
  BY DEF Scan, Store, WriteManifest, TakeHead, store
<1>3. QED
  BY <1>1, <1>2, LatestIsGreatest DEF RestTyped

\* The other steps set it to the checkpoint that they brought back, or to none.
LEMMA RestPlans ==
    ASSUME StoreInv, RestTyped, NEW p \in Procs,
           \/ Check(p) \/ Present(p) \/ Plan(p)
           \/ RemovePath(p) \/ WriteEntry(p) \/ Done(p)
           \/ Forget(p) \/ Clear(p) \/ Drop(p) \/ Fail(p)
    PROVE  RestTyped'
<1>1. lock' \in {lock, lock \ {p}}
  <2>1. Check(p) \/ Present(p) \/ Plan(p) => lock' \in {lock, lock \ {p}}
    BY DEF Check, Present, Plan, Return, Go
  <2>2. RemovePath(p) \/ WriteEntry(p) \/ Done(p) => lock' \in {lock, lock \ {p}}
    BY DEF RemovePath, WriteEntry, Done, Return
  <2>3. Forget(p) \/ Clear(p) \/ Drop(p) \/ Fail(p) => lock' \in {lock, lock \ {p}}
    BY SMTT(60) DEF Forget, Clear, Drop, Fail, Return, Go
  <2>4. QED
    BY SMTT(60), <2>1, <2>2, <2>3
<1>2. UNCHANGED <<ignored, writes>> /\ late' \in {late, {}} /\ exact' \in {exact} \cup BOOLEAN
      /\ head' \in {head, NoHead, job[p].id}
  <2>1. Check(p) \/ Present(p) \/ Plan(p) =>
          UNCHANGED <<ignored, writes, head, exact>> /\ late' \in {late, {}}
    BY DEF Check, Present, Plan, store
  <2>2. RemovePath(p) \/ WriteEntry(p) =>
          UNCHANGED <<ignored, writes, head, late>> /\ exact' = FALSE
    BY DEF RemovePath, WriteEntry, store
  <2>3. Done(p) => UNCHANGED <<ignored, writes, late>> /\ head' \in {head, job[p].id}
                   /\ exact' \in {exact} \cup BOOLEAN
    BY DEF Done
  <2>4. Forget(p) \/ Clear(p) \/ Drop(p) \/ Fail(p) =>
          UNCHANGED <<ignored, writes, late, exact>> /\ head' \in {head, NoHead}
    BY DEF Forget, Clear, Drop, Fail
  <2>5. QED
    BY <2>1, <2>2, <2>3, <2>4
<1>3. QED
  BY SMTT(60), <1>1, <1>2, JobFields DEF RestTyped

\* So do the box and a step of nobody.
LEMMA RestKeeps == StoreInv /\ RestTyped /\ [Next]_vars => RestTyped'
<1> SUFFICES ASSUME StoreInv, RestTyped, [Next]_vars PROVE RestTyped'
  OBVIOUS
<1>1. CASE Box
  <2>1. PICK x \in Paths :
           /\ \/ ignored' = ignored
              \/ ignored' = IF x \in ignored THEN ignored \ {x} ELSE ignored \cup {x}
           /\ late' = late \cup {x}
    BY <1>1 DEF Box
  <2>2. writes' = writes + 1 /\ writes < MaxWrites
    BY <1>1 DEF Box
  <2>3. writes \in 0 .. MaxWrites
    BY DEF RestTyped
  <2>4. writes' \in 0 .. MaxWrites
    BY <2>2, <2>3
  <2>5. exact' = FALSE /\ UNCHANGED <<head, lock>>
    BY <1>1 DEF Box, store
  <2>6. QED
    BY <2>1, <2>4, <2>5 DEF RestTyped
<1>2. CASE UNCHANGED vars
  BY <1>2 DEF vars, store, RestTyped
<1>3. ASSUME NEW p \in Procs,
             Take(p) \/ Restore(p) \/ Step(p) \/ RemoveCheckpoint(p) \/ Prune(p) \/ Merge(p) \/ Pick(p)
      PROVE  RestTyped'
  BY <1>3, RestStarts
<1>4. ASSUME NEW p \in Procs, Scan(p) \/ Store(p) \/ WriteManifest(p) \/ TakeHead(p)
      PROVE  RestTyped'
  BY <1>4, RestTakes
<1>5. ASSUME NEW p \in Procs,
             \/ Check(p) \/ Present(p) \/ Plan(p)
             \/ RemovePath(p) \/ WriteEntry(p) \/ Done(p)
             \/ Forget(p) \/ Clear(p) \/ Drop(p) \/ Fail(p)
      PROVE  RestTyped'
  BY <1>5, RestPlans
<1>6. QED
  BY <1>1, <1>2, <1>3, <1>4, <1>5 DEF Next

(* Every variable of the checkpoints keeps its type.                        *)
THEOREM CheckpointsTyped == Spec => []TypeOK
<1>1. Init => RestTyped
  <2> SUFFICES ASSUME Init PROVE RestTyped
    OBVIOUS
  <2>1. ignored = {} /\ lock = {} /\ late = {} /\ exact = FALSE /\ head = NoHead
    BY DEF Init
  <2>2. writes \in 0 .. MaxWrites
    BY DEF Init
  <2>3. QED
    BY <2>1, <2>2 DEF RestTyped
<1>2. StoreInv /\ RestTyped => TypeOK
  BY DEF StoreInv, TypeInv, RestTyped, TypeOK
<1>3. QED
  BY <1>1, <1>2, InitStore, NextKeeps, RestKeeps, PTL DEF Spec

----------------------------------------------------------------------------
(* The merge of texts. A loop of the code is a recursive function of the     *)
(* number of its rounds; Upwards and LoopExists are what is needed to reason *)
(* about one. What a merge does to each line follows from how one round      *)
(* takes the three texts apart, for texts of any length and for any blocks   *)
(* that are stretches of both texts, in the order of both.                   *)

\* Induction over the numbers up to a bound.
LEMMA Upwards ==
    ASSUME NEW n \in Nat, NEW S \in SUBSET (0..n), 0 \in S,
           \A i \in 1..n : i - 1 \in S => i \in S
    PROVE  S = 0..n
<1>1. SUFFICES ASSUME (0..n) \ S # {} PROVE FALSE
  OBVIOUS
<1>2. PICK T : T = (0..n) \ S
  OBVIOUS
<1>3. T \in SUBSET Nat /\ T # {}
  BY <1>1, <1>2
<1>4. PICK least \in T : \A i \in T : <<i, least>> \notin OpToRel(<, Nat)
  BY ONLY <1>3, NatLessThanWellFounded, WFMin
<1>5. \A i \in T : ~(i < least)
  BY <1>3, <1>4 DEF OpToRel
<1>6. least \in 1..n
  <2>1. least \in 0..n /\ least \notin S
    BY <1>2
  <2>2. least # 0
    BY <2>1
  <2>3. QED
    BY <2>1, <2>2
<1>7. least - 1 \in S
  <2>1. least - 1 \in 0..n /\ least - 1 < least
    BY <1>6
  <2>2. least - 1 \notin T
    BY <1>5, <2>1
  <2>3. QED
    BY <1>2, <2>1, <2>2
<1>8. QED
  BY <1>2, <1>4, <1>6, <1>7

\* The states after each of n rounds of a loop.
IsLoop(f, n, V, start, F) ==
    /\ f \in [0..n -> V]
    /\ f[0] = start
    /\ \A i \in 1..n : f[i] = F[<<i, f[i - 1]>>]

\* There is a function that the rounds of a loop define.
LEMMA LoopExists ==
    ASSUME NEW n \in Nat, NEW V, NEW start \in V, NEW F \in [(1..n) \X V -> V]
    PROVE  \E f : IsLoop(f, n, V, start, F)
<1> DEFINE Goes(k, f) == f \in [0..k -> V] /\ f[0] = start
                           /\ \A i \in 1..k : f[i] = F[<<i, f[i - 1]>>]
<1>s. PICK S : S = {k \in 0..n : \E f : Goes(k, f)}
  OBVIOUS
<1>1. 0 \in S
  <2>1. PICK f : f = [i \in 0..0 |-> start]
    OBVIOUS
  <2>2. Goes(0, f)
    BY <2>1
  <2>3. QED
    BY <1>s, <2>2
<1>2. ASSUME NEW k \in 1..n, k - 1 \in S PROVE k \in S
  <2>1. PICK f : Goes(k - 1, f)
    BY <1>2, <1>s
  <2>2. f[k - 1] \in V
    BY <2>1
  <2>3. PICK last : last = F[<<k, f[k - 1]>>]
    OBVIOUS
  <2>a. last \in V
    BY <2>2, <2>3
  <2>4. PICK g : g = [i \in 0..k |-> IF i = k THEN last ELSE f[i]]
    OBVIOUS
  <2>5. g \in [0..k -> V]
    BY <2>1, <2>4, <2>a
  <2>6. g[0] = start
    BY <2>1, <2>4
  <2>7. ASSUME NEW i \in 1..k PROVE g[i] = F[<<i, g[i - 1]>>]
    <3>1. g[i - 1] = f[i - 1]
      BY <2>4
    <3>2. CASE i = k
      <4>1. k \in 0..k /\ g[k] = last
        BY <2>4
      <4>2. QED
        BY <2>3, <3>1, <3>2, <4>1
    <3>3. CASE i # k
      <4>1. i \in 1..(k-1)
        BY <3>3
      <4>2. QED
        BY <2>1, <2>4, <3>1, <4>1, <3>3
    <3>4. QED
      BY <3>2, <3>3
  <2>8. Goes(k, g)
    BY <2>5, <2>6, <2>7
  <2>9. QED
    BY <1>s, <2>8
<1>3. S = 0..n
  BY ONLY <1>s, <1>1, <1>2, Upwards, n \in Nat
<1>5. PICK f : Goes(n, f)
  BY <1>3, <1>s
<1>6. QED
  BY <1>5 DEF IsLoop

\* What a stretch of a text is.
LEMMA Stretch ==
    ASSUME NEW X, NEW s \in Seq(X), NEW i \in 0..Len(s), NEW j \in 0..Len(s)
    PROVE  /\ SubSeq(s, i + 1, j) \in Seq(X)
           /\ Len(SubSeq(s, i + 1, j)) = IF i <= j THEN j - i ELSE 0
           /\ \A l \in 1..(j - i) : SubSeq(s, i + 1, j)[l] = s[i + l]
<1>1. \A l \in 1..(j - i) : i + l \in 1..Len(s) /\ l + (i + 1) - 1 = i + l
  OBVIOUS
<1>2. SubSeq(s, i + 1, j) \in Seq(X)
  OBVIOUS
<1>3. Len(SubSeq(s, i + 1, j)) = IF i <= j THEN j - i ELSE 0
  OBVIOUS
<1>4. \A l \in 1..(j - i) : SubSeq(s, i + 1, j)[l] = s[i + l]
  BY <1>1
<1>5. QED
  BY <1>2, <1>3, <1>4

\* Two texts with the same lines are the same.
LEMMA SameSeq ==
    ASSUME NEW X, NEW s \in Seq(X), NEW t \in Seq(X), Len(s) = Len(t),
           \A l \in 1..Len(s) : s[l] = t[l]
    PROVE  s = t
<1>1. DOMAIN s = 1..Len(s) /\ DOMAIN t = 1..Len(t)
  OBVIOUS
<1>2. s = [l \in DOMAIN s |-> s[l]] /\ t = [l \in DOMAIN t |-> t[l]]
  OBVIOUS
<1>3. QED
  BY <1>1, <1>2

\* The lines up to a place, and those from there to the next.
LEMMA StretchesJoin ==
    ASSUME NEW X, NEW s \in Seq(X), NEW i \in 0..Len(s), NEW j \in i..Len(s)
    PROVE  SubSeq(s, 1, i) \o SubSeq(s, i + 1, j) = SubSeq(s, 1, j)
<1>1. SubSeq(s, 1, i) \in Seq(X) /\ Len(SubSeq(s, 1, i)) = i
      /\ \A l \in 1..i : SubSeq(s, 1, i)[l] = s[l]
  <2>1. 0 \in 0..Len(s) /\ 0 + 1 = 1
    OBVIOUS
  <2>2. QED
    BY <2>1, Stretch
<1>2. SubSeq(s, 1, j) \in Seq(X) /\ Len(SubSeq(s, 1, j)) = j
      /\ \A l \in 1..j : SubSeq(s, 1, j)[l] = s[l]
  <2>1. 0 \in 0..Len(s) /\ 0 + 1 = 1 /\ j \in 0..Len(s)
    OBVIOUS
  <2>2. QED
    BY <2>1, Stretch
<1>3. PICK t : t = SubSeq(s, i + 1, j)
  OBVIOUS
<1>4. t \in Seq(X) /\ Len(t) = j - i /\ \A l \in 1..(j - i) : t[l] = s[i + l]
  BY <1>3, Stretch
<1>5. PICK h : h = SubSeq(s, 1, i)
  OBVIOUS
<1>6. h \o t \in Seq(X) /\ Len(h \o t) = j
  BY <1>1, <1>4, <1>5
<1>7. ASSUME NEW l \in 1..j PROVE (h \o t)[l] = s[l]
  <2>1. CASE l <= i
    BY <1>1, <1>4, <1>5, <2>1
  <2>2. CASE l > i
    <3>1. l - i \in 1..(j - i) /\ i + (l - i) = l
      BY <2>2
    <3>2. (h \o t)[l] = t[l - i]
      BY <1>1, <1>4, <1>5, <2>2
    <3>3. QED
      BY <1>4, <3>1, <3>2
  <2>3. l <= i \/ l > i
    <3>1. Len(s) \in Nat
      OBVIOUS
    <3>2. i \in Int /\ j \in Int
      BY <3>1
    <3>3. QED
      BY ONLY <3>2, l \in 1..j
  <2>4. QED
    BY <2>1, <2>2, <2>3
<1>8. h \o t = SubSeq(s, 1, j)
  BY <1>2, <1>6, <1>7, SameSeq
<1>9. QED
  BY <1>3, <1>5, <1>8

\* Equal stretches of two texts.
LEMMA StretchesEqual ==
    ASSUME NEW X, NEW s \in Seq(X), NEW t \in Seq(X), NEW i \in 0..Len(s), NEW j \in i..Len(s),
           NEW d \in Int, 0 <= i + d, j + d <= Len(t),
           \A l \in (i + 1)..j : s[l] = t[l + d]
    PROVE  SubSeq(s, i + 1, j) = SubSeq(t, i + d + 1, j + d)
<1>1. SubSeq(s, i + 1, j) \in Seq(X) /\ Len(SubSeq(s, i + 1, j)) = j - i
      /\ \A l \in 1..(j - i) : SubSeq(s, i + 1, j)[l] = s[i + l]
  <2>1. j \in 0..Len(s) /\ i <= j
    OBVIOUS
  <2>2. QED
    BY <2>1, Stretch
<1>2. i + d \in 0..Len(t) /\ j + d \in 0..Len(t) /\ (j + d) - (i + d) = j - i /\ i + d <= j + d
  OBVIOUS
<1>3. SubSeq(t, i + d + 1, j + d) \in Seq(X) /\ Len(SubSeq(t, i + d + 1, j + d)) = j - i
      /\ \A l \in 1..(j - i) : SubSeq(t, i + d + 1, j + d)[l] = t[i + d + l]
  BY <1>2, Stretch
<1>4. \A l \in 1..(j - i) : s[i + l] = t[i + d + l]
  <2> SUFFICES ASSUME NEW l \in 1..(j - i) PROVE s[i + l] = t[i + d + l]
    OBVIOUS
  <2>1. i + l \in (i + 1)..j /\ (i + l) + d = i + d + l
    OBVIOUS
  <2>2. QED
    BY <2>1
<1>5. QED
  BY <1>1, <1>3, <1>4, SameSeq

\* Where a line is in a text.
Places(x, s) == {i \in DOMAIN s : s[i] = x}

\* How often a line is in a text is a number, and 0 when it is not there.
LEMMA TimesFinite ==
    ASSUME NEW X, NEW s \in Seq(X), NEW x
    PROVE  /\ IsFiniteSet(Places(x, s)) /\ Times(x, s) = Cardinality(Places(x, s))
           /\ Times(x, s) \in Nat
           /\ Times(x, s) = 0 <=> \A i \in 1..Len(s) : s[i] # x
<1>1. {i \in DOMAIN s : s[i] = x} \in SUBSET (1..Len(s)) /\ DOMAIN s = 1..Len(s)
  OBVIOUS
<1>2. IsFiniteSet({i \in DOMAIN s : s[i] = x})
  <2>1. IsFiniteSet(1..Len(s))
    BY FS_Interval
  <2>2. QED
    BY <1>1, <2>1, FS_Subset
<1>3. Times(x, s) \in Nat
  BY <1>2, FS_CardinalityType DEF Times
<1>4. Times(x, s) = 0 <=> {i \in DOMAIN s : s[i] = x} = {}
  BY <1>2, FS_EmptySet DEF Times
<1>5. Times(x, s) = Cardinality(Places(x, s)) /\ IsFiniteSet(Places(x, s))
  BY <1>2 DEF Times, Places
<1>6. QED
  BY <1>1, <1>2, <1>3, <1>4, <1>5

\* How often a line is in two texts, one after the other.
LEMMA TimesJoin ==
    ASSUME NEW X, NEW s \in Seq(X), NEW t \in Seq(X), NEW x
    PROVE  Times(x, s \o t) = Times(x, s) + Times(x, t)
<1>1. PICK A : A = {i \in DOMAIN s : s[i] = x} /\ A = Places(x, s)
  BY DEF Places
<1>2. PICK B : B = {i \in DOMAIN t : t[i] = x} /\ B = Places(x, t)
  BY DEF Places
<1>3. PICK C : C = {i \in (Len(s) + 1)..(Len(s) + Len(t)) : (s \o t)[i] = x}
  OBVIOUS
<1>4. A \subseteq 1..Len(s) /\ B \subseteq 1..Len(t) /\ Len(s) \in Nat /\ Len(t) \in Nat
  BY <1>1, <1>2
<1>5. IsFiniteSet(A) /\ IsFiniteSet(B) /\ Cardinality(A) \in Nat
  <2>1. IsFiniteSet(A) /\ Times(x, s) \in Nat /\ Times(x, s) = Cardinality(A)
    BY ZenonT(60), <1>1, TimesFinite
  <2>2. IsFiniteSet(B) /\ Times(x, t) \in Nat /\ Times(x, t) = Cardinality(B)
    BY ZenonT(60), <1>2, TimesFinite
  <2>3. QED
    BY <2>1, <2>2
<1>6. PICK f : f = [i \in B |-> Len(s) + i]
  OBVIOUS
<1>7. f \in Bijection(B, C)
  <2>1. ASSUME NEW i \in B PROVE f[i] \in C
    <3>1. i \in 1..Len(t) /\ t[i] = x /\ f[i] = Len(s) + i
      BY <1>2, <1>6
    <3>2. (s \o t)[Len(s) + i] = t[i]
      BY <3>1
    <3>3. QED
      BY <1>3, <1>4, <3>1, <3>2
  <2>2. f \in [B -> C]
    BY <1>6, <2>1
  <2>3. ASSUME NEW i \in B, NEW j \in B, f[i] = f[j] PROVE i = j
    BY <1>4, <1>6, <2>3
  <2>4. ASSUME NEW k \in C PROVE \E i \in B : f[i] = k
    <3>1. k \in (Len(s) + 1)..(Len(s) + Len(t)) /\ (s \o t)[k] = x
      BY <1>3
    <3>2. k - Len(s) \in 1..Len(t) /\ Len(s) + (k - Len(s)) = k /\ t[k - Len(s)] = x
      BY <3>1
    <3>3. QED
      BY <1>2, <1>6, <3>2
  <2>5. QED
    BY <2>2, <2>3, <2>4 DEF Bijection, Injection, Surjection, IsInjective
<1>8. IsFiniteSet(C) /\ Cardinality(C) = Cardinality(B)
  BY <1>5, <1>7, FS_Bijection DEF ExistsBijection
<1>9. {i \in DOMAIN (s \o t) : (s \o t)[i] = x} = A \cup C
  <2>1. DOMAIN (s \o t) = 1..(Len(s) + Len(t))
    OBVIOUS
  <2>2. \A i \in 1..Len(s) : (s \o t)[i] = s[i] /\ i \in DOMAIN s
    OBVIOUS
  <2>3. \A i \in 1..(Len(s) + Len(t)) : i \in 1..Len(s) \/ i \in (Len(s) + 1)..(Len(s) + Len(t))
    BY <1>4
  <2>4. ASSUME NEW i \in 1..(Len(s) + Len(t)) PROVE (s \o t)[i] = x <=> i \in A \cup C
    <3>1. CASE i \in 1..Len(s)
      <4>1. i \notin C
        BY <1>3, <1>4, <3>1
      <4>2. i \in A <=> s[i] = x
        BY <1>1, <2>2, <3>1
      <4>3. QED
        BY <2>2, <3>1, <4>1, <4>2
    <3>2. CASE i \in (Len(s) + 1)..(Len(s) + Len(t))
      <4>1. i \notin A
        BY <1>4, <3>2
      <4>2. QED
        BY <1>3, <3>2, <4>1
    <3>3. QED
      BY <2>3, <3>1, <3>2
  <2>5. A \cup C \subseteq 1..(Len(s) + Len(t))
    <3>1. C \subseteq (Len(s) + 1)..(Len(s) + Len(t))
      BY <1>3
    <3>2. QED
      BY ONLY <1>4, <3>1
  <2>6. PICK D : D = {i \in DOMAIN (s \o t) : (s \o t)[i] = x}
    OBVIOUS
  <2>7. \A i : i \in D <=> i \in 1..(Len(s) + Len(t)) /\ (s \o t)[i] = x
    BY <2>1, <2>6
  <2>8. D = A \cup C
    BY ONLY <2>4, <2>5, <2>7
  <2>9. QED
    BY <2>6, <2>8
<1>10. A \cap C = {}
  <2>1. \A i \in A : i <= Len(s)
    BY <1>4
  <2>2. \A i \in C : ~(i <= Len(s))
    BY <1>3, <1>4
  <2>3. QED
    BY <2>1, <2>2
<1>11. Cardinality(A \cup C) = Cardinality(A) + Cardinality(B)
  <2>1. Cardinality(A \cup C) = Cardinality(A) + Cardinality(C) - Cardinality({})
    BY <1>5, <1>8, <1>10, FS_Union
  <2>2. Cardinality({}) = 0 /\ Cardinality(B) \in Nat
    BY <1>5, FS_EmptySet, FS_CardinalityType
  <2>3. QED
    BY <1>5, <1>8, <2>1, <2>2
<1>12. QED
  BY <1>1, <1>2, <1>9, <1>11 DEF Times

\* Stretches of the base, with the offset of each side in them.
Region == [start : Nat, end : Nat, our : Int, their : Int]

\* A region of the base is in both sides.
RegionFits(base, ours, theirs, r) ==
    /\ r \in Region
    /\ r.start <= r.end /\ r.end <= Len(base)
    /\ 0 <= r.start + r.our /\ r.end + r.our <= Len(ours)
    /\ 0 <= r.start + r.their /\ r.end + r.their <= Len(theirs)
    /\ \A l \in (r.start + 1)..r.end : base[l] = ours[l + r.our] /\ base[l] = theirs[l + r.their]

\* A region comes before another one in all three texts.
Precedes(p, r) ==
    /\ p.end <= r.start
    /\ p.end + p.our <= r.start + r.our
    /\ p.end + p.their <= r.start + r.their

\* Regions are in all three texts, in the order of each.
RegionsFit(base, ours, theirs, regions) ==
    /\ regions \in Seq(Region)
    /\ \A k \in DOMAIN regions : RegionFits(base, ours, theirs, regions[k])
    /\ \A k, l \in DOMAIN regions : k < l => Precedes(regions[k], regions[l])

\* A region is in one block of each side.
InBlocks(r, o, t) ==
    /\ o.aStart <= r.start /\ t.aStart <= r.start /\ r.start < r.end
    /\ r.end <= o.aStart + o.length /\ r.end <= t.aStart + t.length
    /\ r.our = o.bStart - o.aStart /\ r.their = t.bStart - t.aStart

\* What a block of each side has in common is in all three texts.
LEMMA RegionOfBlocks ==
    ASSUME NEW base, NEW ours, NEW theirs, NEW r \in Region,
           NEW bo \in Blocks, NEW bt \in Blocks, BlocksFit(base, ours, bo), BlocksFit(base, theirs, bt),
           Len(base) \in Nat, Len(ours) \in Nat, Len(theirs) \in Nat,
           NEW i \in DOMAIN bo, NEW j \in DOMAIN bt, InBlocks(r, bo[i], bt[j])
    PROVE  RegionFits(base, ours, theirs, r)
<1>1. PICK o : o = bo[i]
  OBVIOUS
<1>2. PICK t : t = bt[j]
  OBVIOUS
<1>3. o \in Block /\ t \in Block
  BY <1>1, <1>2 DEF Blocks
<1>4. o.aStart \in Nat /\ o.bStart \in Nat /\ o.length \in Nat
      /\ t.aStart \in Nat /\ t.bStart \in Nat /\ t.length \in Nat
  BY <1>3 DEF Block
<1>5. r.start \in Nat /\ r.end \in Nat /\ r.our \in Int /\ r.their \in Int
  BY DEF Region
<1>6. /\ o.aStart + o.length <= Len(base) /\ o.bStart + o.length <= Len(ours)
      /\ \A l \in 1..o.length : base[o.aStart + l] = ours[o.bStart + l]
  BY <1>1 DEF BlocksFit
<1>7. /\ t.aStart + t.length <= Len(base) /\ t.bStart + t.length <= Len(theirs)
      /\ \A l \in 1..t.length : base[t.aStart + l] = theirs[t.bStart + l]
  BY <1>2 DEF BlocksFit
<1>8. /\ o.aStart <= r.start /\ t.aStart <= r.start /\ r.start < r.end
      /\ r.end <= o.aStart + o.length /\ r.end <= t.aStart + t.length
      /\ r.our = o.bStart - o.aStart /\ r.their = t.bStart - t.aStart
  BY <1>1, <1>2 DEF InBlocks
<1>9. /\ r.start <= r.end /\ r.end <= Len(base)
      /\ 0 <= r.start + r.our /\ r.end + r.our <= Len(ours)
      /\ 0 <= r.start + r.their /\ r.end + r.their <= Len(theirs)
  <2>1. PICK n \in Nat : n = Len(base)
    OBVIOUS
  <2>2. PICK m \in Nat : m = Len(ours)
    OBVIOUS
  <2>3. PICK k \in Nat : k = Len(theirs)
    OBVIOUS
  <2>4. /\ o.aStart + o.length <= n /\ o.bStart + o.length <= m /\ t.bStart + t.length <= k
    BY <1>6, <1>7, <2>1, <2>2, <2>3
  <2>5. r.start <= r.end /\ r.end <= n
        /\ 0 <= r.start + r.our /\ r.end + r.our <= m
        /\ 0 <= r.start + r.their /\ r.end + r.their <= k
    BY ONLY <1>4, <1>5, <1>8, <2>4, n \in Nat, m \in Nat, k \in Nat
  <2>6. QED
    BY <2>1, <2>2, <2>3, <2>5
<1>10. ASSUME NEW l \in (r.start + 1)..r.end
       PROVE  base[l] = ours[l + r.our] /\ base[l] = theirs[l + r.their]
  <2>1. /\ l - o.aStart \in 1..o.length /\ o.aStart + (l - o.aStart) = l
        /\ o.bStart + (l - o.aStart) = l + r.our
    BY ONLY <1>4, <1>5, <1>8, l \in (r.start + 1)..r.end
  <2>2. /\ l - t.aStart \in 1..t.length /\ t.aStart + (l - t.aStart) = l
        /\ t.bStart + (l - t.aStart) = l + r.their
    BY ONLY <1>4, <1>5, <1>8, l \in (r.start + 1)..r.end
  <2>3. base[l] = ours[l + r.our]
    BY <1>6, <2>1
  <2>4. base[l] = theirs[l + r.their]
    BY <1>7, <2>2
  <2>5. QED
    BY <2>3, <2>4
<1>11. QED
  BY <1>9, <1>10 DEF RegionFits

\* Where a region was found before the blocks of another one, it comes before it.
LEMMA RegionsInOrder ==
    ASSUME NEW base, NEW ours, NEW theirs, NEW p \in Region, NEW r \in Region,
           NEW bo \in Blocks, NEW bt \in Blocks, BlocksFit(base, ours, bo), BlocksFit(base, theirs, bt),
           NEW i \in DOMAIN bo, NEW j \in DOMAIN bt, InBlocks(p, bo[i], bt[j]),
           NEW k \in DOMAIN bo, NEW l \in DOMAIN bt, InBlocks(r, bo[k], bt[l]),
           i <= k, j <= l, i # k \/ j # l
    PROVE  Precedes(p, r)
<1>1. PICK o : o = bo[i]
  OBVIOUS
<1>2. PICK t : t = bt[j]
  OBVIOUS
<1>3. PICK q : q = bo[k]
  OBVIOUS
<1>4. PICK u : u = bt[l]
  OBVIOUS
<1>5. o \in Block /\ t \in Block /\ q \in Block /\ u \in Block
  BY <1>1, <1>2, <1>3, <1>4 DEF Blocks
<1>6. /\ o.aStart \in Nat /\ o.bStart \in Nat /\ o.length \in Nat
      /\ t.aStart \in Nat /\ t.bStart \in Nat /\ t.length \in Nat
      /\ q.aStart \in Nat /\ q.bStart \in Nat /\ q.length \in Nat
      /\ u.aStart \in Nat /\ u.bStart \in Nat /\ u.length \in Nat
  BY <1>5 DEF Block
<1>7. p.start \in Nat /\ p.end \in Nat /\ p.our \in Int /\ p.their \in Int
      /\ r.start \in Nat /\ r.end \in Nat /\ r.our \in Int /\ r.their \in Int
  BY DEF Region
<1>8. i \in Nat /\ j \in Nat /\ k \in Nat /\ l \in Nat
  BY DEF Blocks
<1>9. i = k => o = q
  BY <1>1, <1>3
<1>10. j = l => t = u
  BY <1>2, <1>4
<1>11. i < k => o.aStart + o.length <= q.aStart /\ o.bStart + o.length <= q.bStart
  BY <1>1, <1>3 DEF BlocksFit
<1>12. j < l => t.aStart + t.length <= u.aStart /\ t.bStart + t.length <= u.bStart
  BY <1>2, <1>4 DEF BlocksFit
<1>13. /\ o.aStart <= p.start /\ t.aStart <= p.start /\ p.start < p.end
       /\ p.end <= o.aStart + o.length /\ p.end <= t.aStart + t.length
       /\ p.our = o.bStart - o.aStart /\ p.their = t.bStart - t.aStart
       /\ q.aStart <= r.start /\ u.aStart <= r.start /\ r.start < r.end
       /\ r.end <= q.aStart + q.length /\ r.end <= u.aStart + u.length
       /\ r.our = q.bStart - q.aStart /\ r.their = u.bStart - u.aStart
  BY <1>1, <1>2, <1>3, <1>4 DEF InBlocks
<1>14. (i = k \/ i < k) /\ (j = l \/ j < l) /\ (i < k \/ j < l)
  BY <1>8
<1>15. p.end <= r.start
  BY ONLY <1>6, <1>7, <1>9, <1>10, <1>11, <1>12, <1>13, <1>14
<1>16. p.end + p.our <= r.start + r.our
  <2>1. CASE i = k
    BY ONLY <1>7, <1>9, <1>13, <1>15, <2>1
  <2>2. CASE i < k
    BY ONLY <1>6, <1>7, <1>11, <1>13, <2>2
  <2>3. QED
    BY <1>14, <2>1, <2>2
<1>17. p.end + p.their <= r.start + r.their
  <2>1. CASE j = l
    BY ONLY <1>7, <1>10, <1>13, <1>15, <2>1
  <2>2. CASE j < l
    BY ONLY <1>6, <1>7, <1>12, <1>13, <2>2
  <2>3. QED
    BY <1>14, <2>1, <2>2
<1>18. QED
  BY <1>15, <1>16, <1>17 DEF Precedes

\* Regions in order, and one that comes after all of them.
LEMMA RegionAppended ==
    ASSUME NEW base, NEW ours, NEW theirs, NEW regions, RegionsFit(base, ours, theirs, regions),
           NEW r, RegionFits(base, ours, theirs, r), \A k \in DOMAIN regions : Precedes(regions[k], r)
    PROVE  RegionsFit(base, ours, theirs, Append(regions, r))
<1>1. regions \in Seq(Region) /\ r \in Region
  BY DEF RegionsFit, RegionFits
<1>2. PICK all : all = Append(regions, r)
  OBVIOUS
<1>3. all \in Seq(Region) /\ Len(all) = Len(regions) + 1 /\ Len(regions) \in Nat
      /\ all[Len(regions) + 1] = r
  BY <1>1, <1>2
<1>4. ASSUME NEW k \in 1..Len(regions) PROVE all[k] = regions[k]
  BY <1>1, <1>2
<1>5. DOMAIN all = 1..(Len(regions) + 1) /\ DOMAIN regions = 1..Len(regions)
  BY <1>1, <1>3
<1>6. ASSUME NEW k \in DOMAIN all PROVE RegionFits(base, ours, theirs, all[k])
  <2>1. k \in 1..Len(regions) \/ k = Len(regions) + 1
    BY <1>3, <1>5
  <2>2. CASE k \in 1..Len(regions)
    BY <1>4, <1>5, <2>2 DEF RegionsFit
  <2>3. CASE k = Len(regions) + 1
    BY <1>3, <2>3
  <2>4. QED
    BY <2>1, <2>2, <2>3
<1>7. ASSUME NEW k \in DOMAIN all, NEW l \in DOMAIN all, k < l PROVE Precedes(all[k], all[l])
  <2>1. k \in 1..Len(regions) /\ (l \in 1..Len(regions) \/ l = Len(regions) + 1)
    BY <1>3, <1>5, <1>7
  <2>2. CASE l \in 1..Len(regions)
    BY <1>4, <1>5, <1>7, <2>1, <2>2 DEF RegionsFit
  <2>3. CASE l = Len(regions) + 1
    BY <1>3, <1>4, <1>5, <2>1, <2>3
  <2>4. QED
    BY <2>1, <2>2, <2>3
<1>8. QED
  BY <1>2, <1>3, <1>6, <1>7 DEF RegionsFit

\* A state of the walk over the blocks of both sides.
WalkState(bo, bt) == [our : 1..(Len(bo) + 1), their : 1..(Len(bt) + 1), regions : Seq(Region)]

\* What the walk makes of two blocks.
LEMMA RegionOfWalk ==
    ASSUME NEW o \in Block, NEW t \in Block, NEW r,
           r = [start |-> Bigger(o.aStart, t.aStart),
                end |-> Smaller(o.aStart + o.length, t.aStart + t.length),
                our |-> o.bStart - o.aStart, their |-> t.bStart - t.aStart]
    PROVE  r \in Region /\ (r.start < r.end => InBlocks(r, o, t))
<1>1. /\ o.aStart \in Nat /\ o.bStart \in Nat /\ o.length \in Nat
      /\ t.aStart \in Nat /\ t.bStart \in Nat /\ t.length \in Nat
  BY DEF Block
<1>2. /\ Bigger(o.aStart, t.aStart) \in Nat
      /\ Smaller(o.aStart + o.length, t.aStart + t.length) \in Nat
      /\ o.bStart - o.aStart \in Int /\ t.bStart - t.aStart \in Int
  BY <1>1 DEF Bigger, Smaller
<1>3. r \in Region
  BY <1>2 DEF Region
<1>4. /\ o.aStart <= r.start /\ t.aStart <= r.start
      /\ r.end <= o.aStart + o.length /\ r.end <= t.aStart + t.length
  BY <1>1 DEF Bigger, Smaller
<1>5. QED
  BY <1>3, <1>4 DEF InBlocks

\* A round of the walk ends in a state of the walk.
LEMMA WalkTyped ==
    ASSUME NEW bo \in Blocks, NEW bt \in Blocks, NEW at \in WalkState(bo, bt)
    PROVE  Walk(bo, bt, at) \in WalkState(bo, bt)
<1>1. Len(bo) \in Nat /\ Len(bt) \in Nat
  BY DEF Blocks
<1>2. at.our \in 1..(Len(bo) + 1) /\ at.their \in 1..(Len(bt) + 1) /\ at.regions \in Seq(Region)
  BY DEF WalkState
<1>3. CASE at.our > Len(bo) \/ at.their > Len(bt)
  BY <1>3 DEF Walk
<1>4. CASE ~(at.our > Len(bo) \/ at.their > Len(bt))
  <2>1. at.our \in DOMAIN bo /\ at.their \in DOMAIN bt
    <3>1. at.our \in 1..Len(bo) /\ at.their \in 1..Len(bt)
      BY <1>1, <1>2, <1>4
    <3>2. QED
      BY <3>1 DEF Blocks
  <2>2. PICK o \in Block : o = bo[at.our]
    BY <2>1 DEF Blocks
  <2>3. PICK t \in Block : t = bt[at.their]
    BY <2>1 DEF Blocks
  <2>4. PICK r : r = [start |-> Bigger(o.aStart, t.aStart),
                end |-> Smaller(o.aStart + o.length, t.aStart + t.length),
                our |-> o.bStart - o.aStart, their |-> t.bStart - t.aStart]
    OBVIOUS
  <2>5. r \in Region
    BY <2>4, RegionOfWalk
  <2>6. PICK x : x = IF o.aStart + o.length < t.aStart + t.length THEN at.our + 1 ELSE at.our
    OBVIOUS
  <2>7. PICK y : y = IF o.aStart + o.length < t.aStart + t.length THEN at.their ELSE at.their + 1
    OBVIOUS
  <2>8. PICK found : found = IF r.start < r.end THEN Append(at.regions, r) ELSE at.regions
    OBVIOUS
  <2>9. Walk(bo, bt, at) = [our |-> x, their |-> y, regions |-> found]
    BY <1>4, <2>2, <2>3, <2>4, <2>6, <2>7, <2>8 DEF Walk
  <2>10. x \in 1..(Len(bo) + 1) /\ y \in 1..(Len(bt) + 1)
    BY <1>1, <1>2, <1>4, <2>6, <2>7
  <2>11. found \in Seq(Region)
    BY <1>2, <2>5, <2>8
  <2>12. QED
    BY <2>9, <2>10, <2>11 DEF WalkState
<1>5. QED
  BY <1>3, <1>4

\* The walk is the loop it is written as.
LEMMA WalksLoop ==
    ASSUME NEW bo \in Blocks, NEW bt \in Blocks
    PROVE  LET rounds == Len(bo) + Len(bt)
               walk == Walks(bo, bt)
           IN  /\ walk \in [0..rounds -> WalkState(bo, bt)]
               /\ walk[0] = [our |-> 1, their |-> 1, regions |-> <<>>]
               /\ \A n \in 1..rounds : walk[n] = Walk(bo, bt, walk[n - 1])
<1>1. PICK rounds : rounds = Len(bo) + Len(bt)
  OBVIOUS
<1>2. rounds \in Nat /\ Len(bo) \in Nat /\ Len(bt) \in Nat
  BY <1>1 DEF Blocks
<1>3. PICK V : V = WalkState(bo, bt)
  OBVIOUS
<1>4. PICK start : start = [our |-> 1, their |-> 1, regions |-> <<>>]
  OBVIOUS
<1>5. start \in V
  BY <1>2, <1>3, <1>4 DEF WalkState
<1>6. PICK F : F = [p \in (1..rounds) \X V |-> Walk(bo, bt, p[2])]
  OBVIOUS
<1>7. F \in [(1..rounds) \X V -> V]
  <2>1. \A p \in (1..rounds) \X V : Walk(bo, bt, p[2]) \in V
    BY <1>3, WalkTyped
  <2>2. QED
    BY <1>6, <2>1
<1>a. PICK f : IsLoop(f, rounds, V, start, F)
  BY <1>2, <1>5, <1>7, LoopExists
<1>8. /\ f \in [0..rounds -> V] /\ f[0] = start
      /\ \A n \in 1..rounds : f[n] = F[<<n, f[n - 1]>>]
  BY <1>a DEF IsLoop
<1>9. f = [n \in 0..rounds |-> IF n = 0 THEN start ELSE Walk(bo, bt, f[n - 1])]
  <2>1. ASSUME NEW n \in 1..rounds PROVE F[<<n, f[n - 1]>>] = Walk(bo, bt, f[n - 1])
    <3>1. n - 1 \in 0..rounds
      BY <1>2
    <3>2. f[n - 1] \in V
      BY <1>8, <3>1
    <3>3. QED
      BY <1>6, <3>2
  <2>2. \A n \in 0..rounds : f[n] = IF n = 0 THEN start ELSE Walk(bo, bt, f[n - 1])
    <3>1. ASSUME NEW n \in 0..rounds, n # 0 PROVE f[n] = Walk(bo, bt, f[n - 1])
      <4>1. n \in 1..rounds
        BY <1>2, <3>1
      <4>2. QED
        BY <1>8, <2>1, <4>1
    <3>2. QED
      BY <1>8, <3>1
  <2>3. QED
    BY <1>8, <2>2
<1>10. Walks(bo, bt) = [n \in 0..rounds |-> IF n = 0 THEN start ELSE Walk(bo, bt, Walks(bo, bt)[n - 1])]
  BY ONLY <1>1, <1>4, <1>9 DEF Walks
<1>11. PICK walk : walk = Walks(bo, bt)
  OBVIOUS
<1>12. walk = [n \in 0..rounds |-> IF n = 0 THEN start ELSE Walk(bo, bt, walk[n - 1])]
  BY <1>10, <1>11
<1>13. walk[0] = start /\ \A n \in 1..rounds : walk[n] = Walk(bo, bt, walk[n - 1])
  <2>1. 0 \in 0..rounds /\ \A n \in 1..rounds : n \in 0..rounds /\ n # 0
    BY <1>2
  <2>2. QED
    BY <1>12, <2>1
<1>14. \A n \in 0..rounds : walk[n] \in V
  <2>1. PICK S : S = {n \in 0..rounds : walk[n] \in V}
    OBVIOUS
  <2>2. 0 \in S
    BY <1>2, <1>5, <1>13, <2>1
  <2>3. ASSUME NEW n \in 1..rounds, n - 1 \in S PROVE n \in S
    BY <1>3, <1>13, <2>1, <2>3, WalkTyped
  <2>4. S = 0..rounds
    <3>1. S \in SUBSET (0..rounds)
      BY <2>1
    <3>2. QED
      BY ONLY <1>2, <2>2, <2>3, <3>1, Upwards
  <2>5. QED
    BY <2>1, <2>4
<1>15. walk \in [0..rounds -> V]
  BY <1>12, <1>14
<1>16. QED
  BY <1>1, <1>3, <1>4, <1>11, <1>13, <1>15

\* Every region was found in a pair of blocks that the walk has left.
Found(bo, bt, at) ==
    \A k \in DOMAIN at.regions : \E i \in DOMAIN bo, j \in DOMAIN bt :
        /\ i <= at.our /\ j <= at.their /\ (i # at.our \/ j # at.their)
        /\ InBlocks(at.regions[k], bo[i], bt[j])

\* A round of the walk adds a region that all three texts have, behind the others.
LEMMA WalkKeeps ==
    ASSUME NEW base, NEW ours, NEW theirs,
           Len(base) \in Nat, Len(ours) \in Nat, Len(theirs) \in Nat,
           NEW bo \in Blocks, NEW bt \in Blocks, BlocksFit(base, ours, bo), BlocksFit(base, theirs, bt),
           NEW at \in WalkState(bo, bt), RegionsFit(base, ours, theirs, at.regions), Found(bo, bt, at)
    PROVE  LET next == Walk(bo, bt, at)
           IN  RegionsFit(base, ours, theirs, next.regions) /\ Found(bo, bt, next)
<1>1. Len(bo) \in Nat /\ Len(bt) \in Nat /\ DOMAIN bo = 1..Len(bo) /\ DOMAIN bt = 1..Len(bt)
  BY DEF Blocks
<1>2. at.our \in 1..(Len(bo) + 1) /\ at.their \in 1..(Len(bt) + 1) /\ at.regions \in Seq(Region)
  BY DEF WalkState
<1>3. CASE at.our > Len(bo) \/ at.their > Len(bt)
  BY <1>3 DEF Walk
<1>4. CASE ~(at.our > Len(bo) \/ at.their > Len(bt))
  <2>1. at.our \in DOMAIN bo /\ at.their \in DOMAIN bt
    BY <1>1, <1>2, <1>4
  <2>2. PICK o \in Block : o = bo[at.our]
    BY <2>1 DEF Blocks
  <2>3. PICK t \in Block : t = bt[at.their]
    BY <2>1 DEF Blocks
  <2>4. PICK r : r = [start |-> Bigger(o.aStart, t.aStart),
                end |-> Smaller(o.aStart + o.length, t.aStart + t.length),
                our |-> o.bStart - o.aStart, their |-> t.bStart - t.aStart]
    OBVIOUS
  <2>5. r \in Region /\ (r.start < r.end => InBlocks(r, o, t))
    BY <2>4, RegionOfWalk
  <2>6. PICK x : x = IF o.aStart + o.length < t.aStart + t.length THEN at.our + 1 ELSE at.our
    OBVIOUS
  <2>7. PICK y : y = IF o.aStart + o.length < t.aStart + t.length THEN at.their ELSE at.their + 1
    OBVIOUS
  <2>8. PICK found : found = IF r.start < r.end THEN Append(at.regions, r) ELSE at.regions
    OBVIOUS
  <2>9. PICK next : next = [our |-> x, their |-> y, regions |-> found]
    OBVIOUS
  <2>10. Walk(bo, bt, at) = next
    BY <1>4, <2>2, <2>3, <2>4, <2>6, <2>7, <2>8, <2>9 DEF Walk
  <2>11. next.our = x /\ next.their = y /\ next.regions = found
    BY <2>9
  <2>12. x \in Int /\ y \in Int /\ at.our <= x /\ at.their <= y /\ (at.our # x \/ at.their # y)
    BY SMTT(60), <1>2, <2>6, <2>7
  <2>13. ASSUME NEW k \in DOMAIN at.regions
         PROVE  \E i \in DOMAIN bo, j \in DOMAIN bt :
                  /\ i <= x /\ j <= y /\ (i # x \/ j # y) /\ InBlocks(at.regions[k], bo[i], bt[j])
    <3>1. PICK i \in DOMAIN bo, j \in DOMAIN bt :
             /\ i <= at.our /\ j <= at.their /\ (i # at.our \/ j # at.their)
             /\ InBlocks(at.regions[k], bo[i], bt[j])
      BY DEF Found
    <3>2. i \in Int /\ j \in Int /\ at.our \in Int /\ at.their \in Int
      BY <1>1, <1>2
    <3>3. i <= x /\ j <= y /\ (i # x \/ j # y)
      BY ONLY <2>12, <3>1, <3>2
    <3>4. QED
      BY <3>1, <3>3
  <2>14. CASE ~(r.start < r.end)
    <3>1. found = at.regions
      BY <2>8, <2>14
    <3>2. Found(bo, bt, next)
      BY <2>11, <2>13, <3>1 DEF Found
    <3>3. QED
      BY <2>10, <2>11, <3>1, <3>2
  <2>15. CASE r.start < r.end
    <3>1. found = Append(at.regions, r) /\ InBlocks(r, bo[at.our], bt[at.their])
      BY <2>2, <2>3, <2>5, <2>8, <2>15
    <3>2. RegionFits(base, ours, theirs, r)
      BY <2>1, <2>5, <3>1, RegionOfBlocks
    <3>3. ASSUME NEW k \in DOMAIN at.regions PROVE Precedes(at.regions[k], r)
      <4>1. PICK i \in DOMAIN bo, j \in DOMAIN bt :
               /\ i <= at.our /\ j <= at.their /\ (i # at.our \/ j # at.their)
               /\ InBlocks(at.regions[k], bo[i], bt[j])
        BY DEF Found
      <4>2. at.regions[k] \in Region
        BY <1>2
      <4>3. QED
        BY <2>1, <2>5, <3>1, <4>1, <4>2, RegionsInOrder
    <3>4. RegionsFit(base, ours, theirs, found)
      BY <3>1, <3>2, <3>3, RegionAppended
    <3>5. ASSUME NEW k \in DOMAIN found
          PROVE  \E i \in DOMAIN bo, j \in DOMAIN bt :
                  /\ i <= x /\ j <= y /\ (i # x \/ j # y) /\ InBlocks(found[k], bo[i], bt[j])
      <4>1. DOMAIN found = 1..(Len(at.regions) + 1) /\ DOMAIN at.regions = 1..Len(at.regions)
            /\ Len(at.regions) \in Nat
        BY <1>2, <2>5, <3>1
      <4>2. CASE k = Len(at.regions) + 1
        <5>1. found[k] = r
          BY <1>2, <2>5, <3>1, <4>2
        <5>2. QED
          BY <2>1, <2>12, <3>1, <5>1
      <4>3. CASE k # Len(at.regions) + 1
        <5>1. k \in DOMAIN at.regions
          BY <4>1, <4>3
        <5>2. found[k] = at.regions[k]
          BY <1>2, <2>5, <3>1, <4>1, <5>1
        <5>3. QED
          BY <2>13, <5>1, <5>2
      <4>4. QED
        BY <4>2, <4>3
    <3>6. Found(bo, bt, next)
      BY <2>11, <3>5 DEF Found
    <3>7. QED
      BY <2>10, <2>11, <3>4, <3>6
  <2>16. QED
    BY <2>14, <2>15
<1>5. QED
  BY <1>3, <1>4

\* What syncRegions finds, all three texts have, in the order of each.
LEMMA SyncRegionsFit ==
    ASSUME NEW base, NEW ours, NEW theirs,
           Len(base) \in Nat, Len(ours) \in Nat, Len(theirs) \in Nat,
           NEW bo \in Blocks, NEW bt \in Blocks, BlocksFit(base, ours, bo), BlocksFit(base, theirs, bt)
    PROVE  /\ RegionsFit(base, ours, theirs, syncRegions(bo, bt))
           /\ \A k \in DOMAIN syncRegions(bo, bt) : \E i \in DOMAIN bo, j \in DOMAIN bt :
                InBlocks(syncRegions(bo, bt)[k], bo[i], bt[j])
<1>1. PICK rounds : rounds = Len(bo) + Len(bt)
  OBVIOUS
<1>2. rounds \in Nat
  BY <1>1 DEF Blocks
<1>3. PICK walk : walk = Walks(bo, bt)
  OBVIOUS
<1>4. /\ walk \in [0..rounds -> WalkState(bo, bt)]
      /\ walk[0] = [our |-> 1, their |-> 1, regions |-> <<>>]
      /\ \A n \in 1..rounds : walk[n] = Walk(bo, bt, walk[n - 1])
  BY <1>1, <1>3, WalksLoop
<1>5. PICK S : S = {n \in 0..rounds : /\ RegionsFit(base, ours, theirs, walk[n].regions)
                                       /\ Found(bo, bt, walk[n])}
  OBVIOUS
<1>6. 0 \in S
  <2>1. walk[0].regions = <<>> /\ DOMAIN <<>> = {} /\ <<>> \in Seq(Region)
    BY <1>4
  <2>2. RegionsFit(base, ours, theirs, walk[0].regions) /\ Found(bo, bt, walk[0])
    BY <2>1 DEF RegionsFit, Found
  <2>3. QED
    BY <1>2, <1>5, <2>2
<1>7. ASSUME NEW n \in 1..rounds, n - 1 \in S PROVE n \in S
  <2>1. n - 1 \in 0..rounds /\ n \in 0..rounds
    BY <1>2
  <2>2. PICK at \in WalkState(bo, bt) : at = walk[n - 1]
    BY <1>4, <2>1
  <2>3. RegionsFit(base, ours, theirs, at.regions) /\ Found(bo, bt, at)
    BY <1>5, <1>7, <2>2
  <2>4. walk[n] = Walk(bo, bt, at)
    BY <1>4, <2>2
  <2>5. RegionsFit(base, ours, theirs, walk[n].regions) /\ Found(bo, bt, walk[n])
    BY <2>3, <2>4, WalkKeeps
  <2>6. QED
    BY <1>5, <2>1, <2>5
<1>8. S = 0..rounds
  <2>1. S \in SUBSET (0..rounds)
    BY <1>5
  <2>2. QED
    BY <1>2, <1>6, <1>7, <2>1, Upwards
<1>9. RegionsFit(base, ours, theirs, walk[rounds].regions) /\ Found(bo, bt, walk[rounds])
  BY <1>2, <1>5, <1>8
<1>10. syncRegions(bo, bt) = walk[rounds].regions
  BY <1>1, <1>3 DEF syncRegions
<1>11. QED
  BY <1>9, <1>10 DEF Found

\* The same with the empty region at the end of the texts.
LEMMA RegionsAreFit ==
    ASSUME NEW base, NEW ours, NEW theirs,
           Len(base) \in Nat, Len(ours) \in Nat, Len(theirs) \in Nat,
           NEW bo \in Blocks, NEW bt \in Blocks, BlocksFit(base, ours, bo), BlocksFit(base, theirs, bt)
    PROVE  LET regions == Regions(base, ours, theirs, bo, bt)
               found == syncRegions(bo, bt)
               last == regions[Len(regions)]
           IN  /\ RegionsFit(base, ours, theirs, regions)
               /\ Len(regions) = Len(found) + 1 /\ Len(found) \in Nat
               /\ \A k \in 1..Len(found) : regions[k] = found[k] /\ k \in DOMAIN found
               /\ last.end = Len(base) /\ last.our = Len(ours) - Len(base)
               /\ last.their = Len(theirs) - Len(base)
<1>1. PICK found : found = syncRegions(bo, bt)
  OBVIOUS
<1>2. RegionsFit(base, ours, theirs, found)
  BY <1>1, SyncRegionsFit
<1>3. found \in Seq(Region)
  BY <1>2 DEF RegionsFit
<1>4. PICK last : last = [start |-> Len(base), end |-> Len(base),
                          our |-> Len(ours) - Len(base), their |-> Len(theirs) - Len(base)]
  OBVIOUS
<1>5. /\ last.start = Len(base) /\ last.end = Len(base) /\ last.our = Len(ours) - Len(base)
      /\ last.their = Len(theirs) - Len(base) /\ last \in Region
  BY <1>4 DEF Region
<1>6. RegionFits(base, ours, theirs, last)
  BY <1>5 DEF RegionFits
<1>7. ASSUME NEW k \in DOMAIN found PROVE Precedes(found[k], last)
  <2>1. found[k] \in Region
    BY <1>3
  <2>2. found[k].end \in Nat /\ found[k].our \in Int /\ found[k].their \in Int
    BY <2>1 DEF Region
  <2>3. /\ found[k].end <= Len(base) /\ found[k].end + found[k].our <= Len(ours)
        /\ found[k].end + found[k].their <= Len(theirs)
    BY <1>2 DEF RegionsFit, RegionFits
  <2>4. /\ last.start + last.our = Len(ours) /\ last.start + last.their = Len(theirs)
    BY <1>5
  <2>5. QED
    BY <1>5, <2>3, <2>4 DEF Precedes
<1>8. PICK regions : regions = Append(found, last)
  OBVIOUS
<1>9. RegionsFit(base, ours, theirs, regions)
  BY <1>2, <1>6, <1>7, <1>8, RegionAppended
<1>10. /\ Len(regions) = Len(found) + 1 /\ Len(found) \in Nat /\ regions[Len(regions)] = last
       /\ \A k \in 1..Len(found) : regions[k] = found[k] /\ k \in DOMAIN found
  BY <1>3, <1>5, <1>8
<1>11. Regions(base, ours, theirs, bo, bt) = regions
  BY <1>1, <1>4, <1>8 DEF Regions
<1>12. QED
  BY <1>1, <1>5, <1>9, <1>10, <1>11

\* A state of the merge, of texts with lines in X.
MergeState(X, base, ours, theirs) ==
    [lines : Seq(X), conflicts : Nat, at : 0..Len(base), our : 0..Len(ours), their : 0..Len(theirs)]

\* A resolved stretch is made of lines and markers.
LEMMA ResolveTyped ==
    ASSUME NEW X, Markers \subseteq X, NEW b \in Seq(X), NEW o \in Seq(X), NEW t \in Seq(X)
    PROVE  Resolve(b, o, t) \in Seq(X)
<1>1. <<"ours:">> \in Seq(X) /\ <<"base:">> \in Seq(X) /\ <<"theirs:">> \in Seq(X) /\ <<"end">> \in Seq(X)
  BY DEF Markers
<1>2. <<"ours:">> \o o \o <<"base:">> \o b \o <<"theirs:">> \o t \o <<"end">> \in Seq(X)
  BY <1>1
<1>3. QED
  BY <1>2 DEF Resolve

\* A round of the merge ends in a state of the merge.
LEMMA NextTyped ==
    ASSUME NEW X, Markers \subseteq X, NEW base \in Seq(X), NEW ours \in Seq(X), NEW theirs \in Seq(X),
           NEW p \in MergeState(X, base, ours, theirs),
           NEW r, RegionFits(base, ours, theirs, r)
    PROVE  Next3(base, ours, theirs, p, r) \in MergeState(X, base, ours, theirs)
<1>1. /\ p.lines \in Seq(X) /\ p.conflicts \in Nat /\ p.at \in 0..Len(base)
      /\ p.our \in 0..Len(ours) /\ p.their \in 0..Len(theirs)
  BY DEF MergeState
<1>2. /\ r.start \in 0..Len(base) /\ r.end \in 0..Len(base)
      /\ r.start + r.our \in 0..Len(ours) /\ r.end + r.our \in 0..Len(ours)
      /\ r.start + r.their \in 0..Len(theirs) /\ r.end + r.their \in 0..Len(theirs)
  <2>1. /\ r.start \in Nat /\ r.end \in Nat /\ r.our \in Int /\ r.their \in Int
    BY DEF RegionFits, Region
  <2>2. /\ r.start <= r.end /\ r.end <= Len(base)
        /\ 0 <= r.start + r.our /\ r.end + r.our <= Len(ours)
        /\ 0 <= r.start + r.their /\ r.end + r.their <= Len(theirs)
    BY DEF RegionFits
  <2>3. Len(base) \in Nat /\ Len(ours) \in Nat /\ Len(theirs) \in Nat
    OBVIOUS
  <2>4. QED
    <3>1. r.start \in 0..Len(base) /\ r.end \in 0..Len(base)
      BY <2>1, <2>2, <2>3
    <3>2. r.start + r.our \in 0..Len(ours) /\ r.end + r.our \in 0..Len(ours)
      BY <2>1, <2>2, <2>3
    <3>3. r.start + r.their \in 0..Len(theirs) /\ r.end + r.their \in 0..Len(theirs)
      BY SMTT(60), <2>1, <2>2, <2>3
    <3>4. QED
      BY <3>1, <3>2, <3>3
<1>3. PICK b \in Seq(X) : b = SubSeq(base, p.at + 1, r.start)
  BY <1>1, <1>2, Stretch
<1>4. PICK o \in Seq(X) : o = SubSeq(ours, p.our + 1, r.start + r.our)
  BY <1>1, <1>2, Stretch
<1>5. PICK t \in Seq(X) : t = SubSeq(theirs, p.their + 1, r.start + r.their)
  BY <1>1, <1>2, Stretch
<1>6. PICK m \in Seq(X) : m = SubSeq(base, r.start + 1, r.end)
  BY <1>1, <1>2, Stretch
<1>c. PICK resolved \in Seq(X) : resolved = Resolve(b, o, t)
  BY ResolveTyped
<1>7. PICK lines : lines = p.lines \o resolved \o m
  OBVIOUS
<1>8. lines \in Seq(X)
  BY <1>1, <1>7
<1>9. PICK conflicts : conflicts = p.conflicts + IF Clashes(b, o, t) THEN 1 ELSE 0
  OBVIOUS
<1>10. conflicts \in Nat
  BY <1>1, <1>9, SMTT(30)
<1>11. Next3(base, ours, theirs, p, r) =
         [lines |-> lines, conflicts |-> conflicts, at |-> r.end, our |-> r.end + r.our,
          their |-> r.end + r.their]
  BY <1>3, <1>4, <1>5, <1>6, <1>7, <1>9, <1>c DEF Next3
<1>12. QED
  BY <1>2, <1>8, <1>10, <1>11 DEF MergeState

\* The merge is the loop it is written as.
LEMMA MergingLoop ==
    ASSUME NEW X, Markers \subseteq X, NEW base \in Seq(X), NEW ours \in Seq(X), NEW theirs \in Seq(X),
           NEW regions, RegionsFit(base, ours, theirs, regions)
    PROVE  LET done == Merging(base, ours, theirs, regions)
           IN  /\ done \in [0..Len(regions) -> MergeState(X, base, ours, theirs)]
               /\ done[0] = [lines |-> <<>>, conflicts |-> 0, at |-> 0, our |-> 0, their |-> 0]
               /\ \A n \in 1..Len(regions) :
                    done[n] = Next3(base, ours, theirs, done[n - 1], regions[n])
<1>1. PICK rounds : rounds = Len(regions)
  OBVIOUS
<1>2. rounds \in Nat /\ \A n \in 1..rounds : RegionFits(base, ours, theirs, regions[n])
  BY SMTT(60), <1>1 DEF RegionsFit
<1>3. PICK V : V = MergeState(X, base, ours, theirs)
  OBVIOUS
<1>4. PICK start : start = [lines |-> <<>>, conflicts |-> 0, at |-> 0, our |-> 0, their |-> 0]
  OBVIOUS
<1>5. start \in V
  <2>1. <<>> \in Seq(X) /\ 0 \in Nat /\ 0 \in 0..Len(base) /\ 0 \in 0..Len(ours) /\ 0 \in 0..Len(theirs)
    OBVIOUS
  <2>2. QED
    BY <1>3, <1>4, <2>1 DEF MergeState
<1>6. PICK F : F = [p \in (1..rounds) \X V |-> Next3(base, ours, theirs, p[2], regions[p[1]])]
  OBVIOUS
<1>b. \A n \in 1..rounds, v \in V : Next3(base, ours, theirs, v, regions[n]) \in V
  BY <1>2, <1>3, NextTyped
<1>7. F \in [(1..rounds) \X V -> V]
  <2>1. \A p \in (1..rounds) \X V : Next3(base, ours, theirs, p[2], regions[p[1]]) \in V
    BY <1>b
  <2>2. QED
    BY <1>6, <2>1
<1>a. PICK f : IsLoop(f, rounds, V, start, F)
  BY <1>2, <1>5, <1>7, LoopExists
<1>8. /\ f \in [0..rounds -> V] /\ f[0] = start
      /\ \A n \in 1..rounds : f[n] = F[<<n, f[n - 1]>>]
  BY <1>a DEF IsLoop
<1>9. f = [n \in 0..rounds |-> IF n = 0 THEN start ELSE Next3(base, ours, theirs, f[n - 1], regions[n])]
  <2>1. ASSUME NEW n \in 1..rounds PROVE F[<<n, f[n - 1]>>] = Next3(base, ours, theirs, f[n - 1], regions[n])
    <3>1. n - 1 \in 0..rounds
      BY <1>2
    <3>2. f[n - 1] \in V
      BY <1>8, <3>1
    <3>3. QED
      BY <1>6, <3>2
  <2>2. \A n \in 0..rounds :
          f[n] = IF n = 0 THEN start ELSE Next3(base, ours, theirs, f[n - 1], regions[n])
    <3>1. ASSUME NEW n \in 0..rounds, n # 0 PROVE f[n] = Next3(base, ours, theirs, f[n - 1], regions[n])
      <4>1. n \in 1..rounds
        BY <1>2, <3>1
      <4>2. QED
        BY <1>8, <2>1, <4>1
    <3>2. QED
      BY <1>8, <3>1
  <2>3. QED
    BY <1>8, <2>2
<1>11. PICK done : done = Merging(base, ours, theirs, regions)
  OBVIOUS
<1>12. done = [n \in 0..rounds |->
                 IF n = 0 THEN start ELSE Next3(base, ours, theirs, done[n - 1], regions[n])]
  BY ONLY <1>1, <1>4, <1>9, <1>11 DEF Merging
<1>13. done[0] = start /\ \A n \in 1..rounds : done[n] = Next3(base, ours, theirs, done[n - 1], regions[n])
  <2>1. 0 \in 0..rounds /\ \A n \in 1..rounds : n \in 0..rounds /\ n # 0
    BY <1>2
  <2>2. QED
    BY <1>12, <2>1
<1>14. \A n \in 0..rounds : done[n] \in V
  <2>1. PICK S : S = {n \in 0..rounds : done[n] \in V}
    OBVIOUS
  <2>2. 0 \in S
    BY <1>2, <1>5, <1>13, <2>1
  <2>3. ASSUME NEW n \in 1..rounds, n - 1 \in S PROVE n \in S
    <3>1. done[n - 1] \in V /\ n \in 0..rounds
      BY <1>2, <2>1, <2>3
    <3>2. QED
      BY <1>13, <1>b, <2>1, <3>1
  <2>4. S = 0..rounds
    <3>1. S \in SUBSET (0..rounds)
      BY <2>1
    <3>2. QED
      BY ONLY <1>2, <2>2, <2>3, <3>1, Upwards
  <2>5. QED
    BY <2>1, <2>4
<1>15. done \in [0..rounds -> V]
  BY <1>12, <1>14
<1>16. QED
  BY <1>1, <1>3, <1>4, <1>11, <1>13, <1>15

\* A round of the merge starts where the one before has ended, which is never
\* behind the start of its region, in none of the three texts.
LEMMA MergeAhead ==
    ASSUME NEW X, Markers \subseteq X, NEW base \in Seq(X), NEW ours \in Seq(X), NEW theirs \in Seq(X),
           NEW regions, RegionsFit(base, ours, theirs, regions),
           NEW done, done = Merging(base, ours, theirs, regions),
           NEW n \in 1..Len(regions)
    PROVE  LET p == done[n - 1]
               r == regions[n]
           IN  /\ p \in MergeState(X, base, ours, theirs) /\ RegionFits(base, ours, theirs, r)
               /\ done[n] = Next3(base, ours, theirs, p, r)
               /\ p.at <= r.start /\ p.our <= r.start + r.our /\ p.their <= r.start + r.their
<1>1. /\ done \in [0..Len(regions) -> MergeState(X, base, ours, theirs)]
      /\ done[0] = [lines |-> <<>>, conflicts |-> 0, at |-> 0, our |-> 0, their |-> 0]
      /\ \A k \in 1..Len(regions) : done[k] = Next3(base, ours, theirs, done[k - 1], regions[k])
  BY MergingLoop, SMTT(60)
<1>2. Len(regions) \in Nat /\ DOMAIN regions = 1..Len(regions)
  BY DEF RegionsFit
<1>3. n - 1 \in 0..Len(regions)
  BY <1>2
<1>4. done[n - 1] \in MergeState(X, base, ours, theirs) /\ RegionFits(base, ours, theirs, regions[n])
  BY <1>1, <1>2, <1>3 DEF RegionsFit
<1>5. CASE n = 1
  <2>1. done[n - 1].at = 0 /\ done[n - 1].our = 0 /\ done[n - 1].their = 0
    BY <1>1, <1>5
  <2>2. 0 <= regions[n].start /\ 0 <= regions[n].start + regions[n].our
        /\ 0 <= regions[n].start + regions[n].their
    BY <1>4 DEF RegionFits, Region
  <2>3. QED
    BY <1>1, <1>4, <2>1, <2>2
<1>6. CASE n # 1
  <2>1. n - 1 \in 1..Len(regions) /\ n - 1 < n
    BY <1>2, <1>6
  <2>2. Precedes(regions[n - 1], regions[n])
    BY <1>2, <2>1 DEF RegionsFit
  <2>3. done[n - 1] = Next3(base, ours, theirs, done[(n - 1) - 1], regions[n - 1])
    BY <1>1, <2>1
  <2>4. /\ done[n - 1].at = regions[n - 1].end
        /\ done[n - 1].our = regions[n - 1].end + regions[n - 1].our
        /\ done[n - 1].their = regions[n - 1].end + regions[n - 1].their
    BY <2>3 DEF Next3
  <2>5. QED
    BY <1>1, <1>4, <2>2, <2>4 DEF Precedes
<1>7. QED
  BY <1>5, <1>6

\* What a round of the merge reads and writes: the changed stretches b, o and t,
\* and the lines m that all three texts have after them.
Parts(base, ours, theirs, p, q, b, o, t, m) ==
    /\ q.lines = p.lines \o Resolve(b, o, t) \o m
    /\ q.conflicts = p.conflicts + IF Clashes(b, o, t) THEN 1 ELSE 0
    /\ SubSeq(base, 1, q.at) = SubSeq(base, 1, p.at) \o b \o m
    /\ SubSeq(ours, 1, q.our) = SubSeq(ours, 1, p.our) \o o \o m
    /\ SubSeq(theirs, 1, q.their) = SubSeq(theirs, 1, p.their) \o t \o m

\* Three texts, one after the other.
Joined(x, y, z) == x \o y \o z

\* A text up to a place, in three parts.
LEMMA ThreeStretches ==
    ASSUME NEW X, NEW s \in Seq(X), NEW i \in 0..Len(s), NEW j \in i..Len(s), NEW k \in j..Len(s)
    PROVE  SubSeq(s, 1, k) = Joined(SubSeq(s, 1, i), SubSeq(s, i + 1, j), SubSeq(s, j + 1, k))
<1>1. SubSeq(s, 1, i) \o SubSeq(s, i + 1, j) = SubSeq(s, 1, j)
  BY StretchesJoin
<1>2. j \in 0..Len(s)
  OBVIOUS
<1>3. SubSeq(s, 1, j) \o SubSeq(s, j + 1, k) = SubSeq(s, 1, k)
  BY <1>2, StretchesJoin
<1>4. QED
  BY <1>1, <1>3 DEF Joined

\* The lines of s behind the first i, up to those that it has from the base.
SideFits(base, s, i, start, end, d) ==
    /\ start <= end /\ end <= Len(base) /\ i <= start + d /\ end + d <= Len(s)
    /\ \A l \in (start + 1)..end : base[l] = s[l + d]

\* Such a side up to there, in three parts.
SideJoined(X, base, s, i, start, end, d) ==
    /\ SubSeq(s, i + 1, start + d) \in Seq(X) /\ SubSeq(base, start + 1, end) \in Seq(X)
    /\ SubSeq(s, 1, end + d) = Joined(SubSeq(s, 1, i), SubSeq(s, i + 1, start + d),
                                       SubSeq(base, start + 1, end))

\* A side up to the end of a region: what was before, what the side has changed,
\* and the lines of the region, which are those of the base.
LEMMA SideParts ==
    ASSUME NEW X, NEW base \in Seq(X), NEW s \in Seq(X), NEW i \in Nat,
           NEW start \in Nat, NEW end \in Nat, NEW d \in Int,
           SideFits(base, s, i, start, end, d)
    PROVE  SideJoined(X, base, s, i, start, end, d)
<1>1. Len(base) \in Nat /\ Len(s) \in Nat
  OBVIOUS
<1>2. PICK j \in Int : j = start + d
  OBVIOUS
<1>3. PICK k \in Int : k = end + d
  OBVIOUS
<1>a. /\ start <= end /\ end <= Len(base) /\ i <= start + d /\ end + d <= Len(s)
      /\ \A l \in (start + 1)..end : base[l] = s[l + d]
  BY DEF SideFits
<1>4. /\ i \in 0..Len(s) /\ j \in i..Len(s) /\ k \in j..Len(s) /\ j \in 0..Len(s)
      /\ start \in 0..Len(base) /\ end \in start..Len(base) /\ end \in 0..Len(base) /\ 0 <= start + d
  BY <1>1, <1>2, <1>3, <1>a
<1>5. SubSeq(s, i + 1, j) \in Seq(X) /\ SubSeq(base, start + 1, end) \in Seq(X)
  BY <1>4, Stretch
<1>6. SubSeq(s, 1, k) = Joined(SubSeq(s, 1, i), SubSeq(s, i + 1, j), SubSeq(s, j + 1, k))
  BY <1>4, ThreeStretches
<1>7. SubSeq(base, start + 1, end) = SubSeq(s, j + 1, k)
  BY <1>2, <1>3, <1>4, <1>a, StretchesEqual
<1>8. QED
  BY <1>2, <1>3, <1>5, <1>6, <1>7 DEF SideJoined

\* The round from p to q has such parts for region r.
HasParts(X, base, ours, theirs, p, q, r) ==
    \E b, o, t, m \in Seq(X) :
             /\ b = SubSeq(base, p.at + 1, r.start)
             /\ o = SubSeq(ours, p.our + 1, r.start + r.our)
             /\ t = SubSeq(theirs, p.their + 1, r.start + r.their)
             /\ Parts(base, ours, theirs, p, q, b, o, t, m)

\* A round of the merge takes all three texts apart in the same way.
LEMMA NextParts ==
    ASSUME NEW X, Markers \subseteq X, NEW base \in Seq(X), NEW ours \in Seq(X), NEW theirs \in Seq(X),
           NEW p \in MergeState(X, base, ours, theirs), NEW r, RegionFits(base, ours, theirs, r),
           p.at <= r.start, p.our <= r.start + r.our, p.their <= r.start + r.their,
           NEW q, q = Next3(base, ours, theirs, p, r)
    PROVE  HasParts(X, base, ours, theirs, p, q, r)
<1>1. PICK start \in Nat : start = r.start
  BY DEF RegionFits, Region
<1>2. PICK end \in Nat : end = r.end
  BY DEF RegionFits, Region
<1>3. PICK c \in Int : c = r.our
  BY DEF RegionFits, Region
<1>4. PICK d \in Int : d = r.their
  BY DEF RegionFits, Region
<1>5. PICK i \in Nat : i = p.at
  BY DEF MergeState
<1>6. PICK j \in Nat : j = p.our
  BY DEF MergeState
<1>7. PICK k \in Nat : k = p.their
  BY DEF MergeState
<1>8. /\ start <= end /\ end <= Len(base) /\ end + c <= Len(ours) /\ end + d <= Len(theirs)
      /\ \A l \in (start + 1)..end : base[l] = ours[l + c] /\ base[l] = theirs[l + d]
  BY <1>1, <1>2, <1>3, <1>4 DEF RegionFits
<1>9. i <= start /\ j <= start + c /\ k <= start + d
  BY <1>1, <1>3, <1>4, <1>5, <1>6, <1>7
<1>10. PICK m : m = SubSeq(base, start + 1, end)
  OBVIOUS
<1>11. PICK b : b = SubSeq(base, i + 1, start)
  OBVIOUS
<1>12. PICK o : o = SubSeq(ours, j + 1, start + c)
  OBVIOUS
<1>13. PICK t : t = SubSeq(theirs, k + 1, start + d)
  OBVIOUS
<1>14. b \in Seq(X) /\ m \in Seq(X) /\ SubSeq(base, 1, end) = SubSeq(base, 1, i) \o b \o m
  <2>1. start + 0 = start /\ end + 0 = end /\ \A l \in (start + 1)..end : base[l] = base[l + 0]
    OBVIOUS
  <2>2. SideFits(base, base, i, start, end, 0)
    BY <1>8, <1>9, <2>1 DEF SideFits
  <2>3. SideJoined(X, base, base, i, start, end, 0)
    BY <2>2, 0 \in Int, SideParts
  <2>4. QED
    BY <1>10, <1>11, <2>1, <2>3 DEF SideJoined, Joined
<1>15. o \in Seq(X) /\ SubSeq(ours, 1, end + c) = SubSeq(ours, 1, j) \o o \o m
  <2>1. SideFits(base, ours, j, start, end, c)
    BY <1>8, <1>9 DEF SideFits
  <2>2. SideJoined(X, base, ours, j, start, end, c)
    BY <2>1, SideParts
  <2>3. QED
    BY <1>10, <1>12, <2>2 DEF SideJoined, Joined
<1>16. t \in Seq(X) /\ SubSeq(theirs, 1, end + d) = SubSeq(theirs, 1, k) \o t \o m
  <2>1. SideFits(base, theirs, k, start, end, d)
    BY <1>8, <1>9 DEF SideFits
  <2>2. SideJoined(X, base, theirs, k, start, end, d)
    BY <2>1, SideParts
  <2>3. QED
    BY <1>10, <1>13, <2>2 DEF SideJoined, Joined
<1>17. /\ q.lines = p.lines \o Resolve(b, o, t) \o m
       /\ q.conflicts = p.conflicts + IF Clashes(b, o, t) THEN 1 ELSE 0
       /\ q.at = end /\ q.our = end + c /\ q.their = end + d
  BY <1>1, <1>2, <1>3, <1>4, <1>5, <1>6, <1>7, <1>10, <1>11, <1>12, <1>13 DEF Next3
<1>18. Parts(base, ours, theirs, p, q, b, o, t, m)
  BY <1>5, <1>6, <1>7, <1>14, <1>15, <1>16, <1>17 DEF Parts
<1>19. QED
  BY <1>1, <1>3, <1>4, <1>5, <1>6, <1>7, <1>11, <1>12, <1>13, <1>14, <1>15, <1>16, <1>18 DEF HasParts

\* How often a line is in three texts, one after the other.
LEMMA TimesJoinThree ==
    ASSUME NEW X, NEW r \in Seq(X), NEW s \in Seq(X), NEW t \in Seq(X), NEW x
    PROVE  /\ Joined(r, s, t) \in Seq(X)
           /\ Times(x, Joined(r, s, t)) = Times(x, r) + Times(x, s) + Times(x, t)
<1>1. r \o s \in Seq(X)
  OBVIOUS
<1>a. (r \o s) \o t \in Seq(X)
  BY <1>1
<1>2. Times(x, (r \o s) \o t) = Times(x, r \o s) + Times(x, t)
  BY <1>1, TimesJoin
<1>3. Times(x, r \o s) = Times(x, r) + Times(x, s)
  BY TimesJoin
<1>4. QED
  BY <1>2, <1>3, <1>a DEF Joined

\* A line that is not in a text is not in the start of it.
LEMMA NoneUpTo ==
    ASSUME NEW X, NEW s \in Seq(X), NEW i \in 0..Len(s), NEW x, Times(x, s) = 0
    PROVE  Times(x, To0(s, i)) = 0
<1>1. SubSeq(s, 1, i) \in Seq(X) /\ Len(SubSeq(s, 1, i)) = i
      /\ \A l \in 1..i : SubSeq(s, 1, i)[l] = s[l]
  <2>1. 0 \in 0..Len(s) /\ 0 + 1 = 1
    OBVIOUS
  <2>2. QED
    BY <2>1, Stretch
<1>2. \A l \in 1..Len(s) : s[l] # x
  BY TimesFinite
<1>3. \A l \in 1..i : l \in 1..Len(s)
  OBVIOUS
<1>4. PICK h \in Seq(X) : h = SubSeq(s, 1, i)
  BY <1>1
<1>5. \A l \in 1..Len(h) : h[l] # x
  BY <1>1, <1>2, <1>3, <1>4
<1>6. Times(x, h) = 0
  BY <1>5, TimesFinite
<1>7. QED
  BY <1>4, <1>6 DEF To0

\* A line that is no marker is not among them.
LEMMA MarkersApart ==
    ASSUME NEW X, Markers \subseteq X, NEW x, x \notin Markers, NEW y \in Markers
    PROVE  <<y>> \in Seq(X) /\ Times(x, <<y>>) = 0
<1>1. <<y>> \in Seq(X) /\ Len(<<y>>) = 1 /\ <<y>>[1] = y
  OBVIOUS
<1>2. \A l \in 1..Len(<<y>>) : <<y>>[l] # x
  BY <1>1
<1>3. QED
  BY <1>1, <1>2, TimesFinite

\* A conflict, between its markers.
Marked(b, o, t) == <<"ours:">> \o o \o <<"base:">> \o b \o <<"theirs:">> \o t \o <<"end">>

\* Markers do not change how often a line is there.
LEMMA MarkedTimes ==
    ASSUME NEW X, Markers \subseteq X, NEW b \in Seq(X), NEW o \in Seq(X), NEW t \in Seq(X),
           NEW x, x \notin Markers
    PROVE  Times(x, Marked(b, o, t)) = Times(x, o) + Times(x, b) + Times(x, t)
<1>1. PICK m1 \in Seq(X) : m1 = <<"ours:">> /\ Times(x, m1) = 0
  BY MarkersApart DEF Markers
<1>2. PICK m2 \in Seq(X) : m2 = <<"base:">> /\ Times(x, m2) = 0
  BY MarkersApart DEF Markers
<1>3. PICK m3 \in Seq(X) : m3 = <<"theirs:">> /\ Times(x, m3) = 0
  BY MarkersApart DEF Markers
<1>4. PICK m4 \in Seq(X) : m4 = <<"end">> /\ Times(x, m4) = 0
  BY MarkersApart DEF Markers
<1>5. PICK p \in Seq(X) : p = Joined(m1, o, m2)
  BY TimesJoinThree
<1>6. PICK q \in Seq(X) : q = Joined(p, b, m3)
  BY TimesJoinThree
<1>7. Times(x, p) = Times(x, m1) + Times(x, o) + Times(x, m2)
  BY <1>5, TimesJoinThree
<1>8. Times(x, q) = Times(x, p) + Times(x, b) + Times(x, m3)
  BY <1>6, TimesJoinThree
<1>9. Times(x, Joined(q, t, m4)) = Times(x, q) + Times(x, t) + Times(x, m4)
  BY TimesJoinThree
<1>10. Times(x, o) \in Nat /\ Times(x, b) \in Nat /\ Times(x, t) \in Nat
  BY TimesFinite
<1>11. Times(x, Joined(q, t, m4)) = Times(x, o) + Times(x, b) + Times(x, t)
  BY <1>1, <1>2, <1>3, <1>4, <1>7, <1>8, <1>9, <1>10
<1>12. Joined(q, t, m4) = Marked(b, o, t)
  BY <1>1, <1>2, <1>3, <1>4, <1>5, <1>6 DEF Joined, Marked
<1>13. QED
  BY <1>11, <1>12

\* How often a line is in a stretch r that was resolved.
TimesResolved(x, b, o, t, r) ==
    /\ Times(x, b) = 0 /\ Times(x, t) = 0 => Times(x, r) = Times(x, o)
    /\ Times(x, b) = 0 /\ Times(x, o) = 0 => Times(x, r) = Times(x, t)
    /\ ~Clashes(b, o, t) /\ Times(x, o) = 0 /\ Times(x, t) = 0 => Times(x, r) = 0

\* A line that only one side has is in a resolved stretch as often as there.
LEMMA ResolveTimes ==
    ASSUME NEW X, Markers \subseteq X, NEW b \in Seq(X), NEW o \in Seq(X), NEW t \in Seq(X),
           NEW x, x \notin Markers
    PROVE  TimesResolved(x, b, o, t, Resolve(b, o, t))
<1>1. Times(x, o) \in Nat /\ Times(x, b) \in Nat /\ Times(x, t) \in Nat
  BY TimesFinite
<1>2. CASE ~Clashes(b, o, t)
  <2>1. \/ Resolve(b, o, t) = o /\ (o = t \/ t = b)
        \/ Resolve(b, o, t) = t /\ o = b
    BY <1>2 DEF Clashes, Resolve
  <2>2. QED
    BY <1>2, <2>1 DEF TimesResolved
<1>3. CASE Clashes(b, o, t)
  <2>1. Resolve(b, o, t) = Marked(b, o, t)
    BY <1>3 DEF Clashes, Resolve, Marked
  <2>2. Times(x, Resolve(b, o, t)) = Times(x, o) + Times(x, b) + Times(x, t)
    BY <2>1, MarkedTimes
  <2>3. QED
    BY <1>1, <1>3, <2>2 DEF TimesResolved
<1>4. QED
  BY <1>2, <1>3

\* Arithmetic of three numbers.
LEMMA NoneOfSum ==
    ASSUME NEW a \in Nat, NEW b \in Nat, NEW c \in Nat, a + b + c = 0
    PROVE  b = 0 /\ c = 0
  OBVIOUS

\* The start of a text is a text.
LEMMA Upto ==
    ASSUME NEW X, NEW s \in Seq(X), NEW i \in 0..Len(s)
    PROVE  To0(s, i) \in Seq(X)
<1>1. 0 \in 0..Len(s) /\ 0 + 1 = 1
  OBVIOUS
<1>2. SubSeq(s, 0 + 1, i) \in Seq(X)
  BY <1>1, Stretch
<1>3. QED
  BY <1>1, <1>2 DEF To0

\* What has become of a line of one side only, or of none, so far.
TimesTaken(base, ours, theirs, p, x) ==
    /\ Times(x, base) = 0 /\ Times(x, theirs) = 0
         => Times(x, p.lines) = Times(x, To0(ours, p.our))
    /\ Times(x, base) = 0 /\ Times(x, ours) = 0
         => Times(x, p.lines) = Times(x, To0(theirs, p.their))
    /\ p.conflicts = 0 /\ Times(x, ours) = 0 /\ Times(x, theirs) = 0 => Times(x, p.lines) = 0

\* A round between states of the merge, with its parts.
RoundOf(X, base, ours, theirs, p, q, b, o, t, m) ==
    /\ p \in MergeState(X, base, ours, theirs) /\ q \in MergeState(X, base, ours, theirs)
    /\ b \in Seq(X) /\ o \in Seq(X) /\ t \in Seq(X) /\ m \in Seq(X)
    /\ Parts(base, ours, theirs, p, q, b, o, t, m)

\* A round takes a line as often as the side that has it.
LEMMA TimesKept ==
    ASSUME NEW X, Markers \subseteq X, NEW base \in Seq(X), NEW ours \in Seq(X), NEW theirs \in Seq(X),
           NEW p, NEW q, NEW b, NEW o, NEW t, NEW m,
           RoundOf(X, base, ours, theirs, p, q, b, o, t, m),
           NEW x, x \notin Markers, TimesTaken(base, ours, theirs, p, x)
    PROVE  TimesTaken(base, ours, theirs, q, x)
<1>0. /\ p \in MergeState(X, base, ours, theirs) /\ q \in MergeState(X, base, ours, theirs)
      /\ b \in Seq(X) /\ o \in Seq(X) /\ t \in Seq(X) /\ m \in Seq(X)
      /\ Parts(base, ours, theirs, p, q, b, o, t, m)
  BY DEF RoundOf
<1>1. /\ p.lines \in Seq(X) /\ p.conflicts \in Nat /\ p.at \in 0..Len(base)
      /\ p.our \in 0..Len(ours) /\ p.their \in 0..Len(theirs)
      /\ q.lines \in Seq(X) /\ q.at \in 0..Len(base)
      /\ q.our \in 0..Len(ours) /\ q.their \in 0..Len(theirs)
  BY <1>0 DEF MergeState
<1>a. PICK taken \in Seq(X) : taken = p.lines
  BY <1>1
<1>b. PICK i \in 0..Len(base) : i = q.at
  BY <1>1
<1>c. PICK j \in 0..Len(ours) : j = q.our
  BY <1>1
<1>d. PICK k \in 0..Len(theirs) : k = q.their
  BY <1>1
<1>2. PICK u \in Seq(X) : u = To0(base, p.at)
  BY <1>1, Upto
<1>3. PICK v \in Seq(X) : v = To0(ours, p.our)
  BY <1>1, Upto
<1>4. PICK w \in Seq(X) : w = To0(theirs, p.their)
  BY <1>1, Upto
<1>5. PICK r \in Seq(X) : r = Resolve(b, o, t)
  BY <1>0, ResolveTyped
<1>6. /\ q.lines = Joined(taken, r, m)
      /\ To0(base, q.at) = Joined(u, b, m)
      /\ To0(ours, q.our) = Joined(v, o, m)
      /\ To0(theirs, q.their) = Joined(w, t, m)
  BY <1>0, <1>a, <1>2, <1>3, <1>4, <1>5 DEF Parts, To0, Joined
<1>7. Times(x, q.lines) = Times(x, taken) + Times(x, r) + Times(x, m)
  BY <1>0, <1>6, TimesJoinThree
<1>8. Times(x, To0(base, q.at)) = Times(x, u) + Times(x, b) + Times(x, m)
  BY <1>0, <1>6, TimesJoinThree
<1>9. Times(x, To0(ours, q.our)) = Times(x, v) + Times(x, o) + Times(x, m)
  BY <1>0, <1>6, TimesJoinThree
<1>10. Times(x, To0(theirs, q.their)) = Times(x, w) + Times(x, t) + Times(x, m)
  BY <1>0, <1>6, TimesJoinThree
<1>11. /\ Times(x, u) \in Nat /\ Times(x, v) \in Nat /\ Times(x, w) \in Nat
       /\ Times(x, b) \in Nat /\ Times(x, o) \in Nat /\ Times(x, t) \in Nat
       /\ Times(x, r) \in Nat /\ Times(x, m) \in Nat
  BY <1>0, TimesFinite
<1>12. Times(x, taken) \in Nat
  BY <1>0, TimesFinite
<1>13. Times(x, base) = 0 => Times(x, To0(base, q.at)) = 0
  BY <1>b, NoneUpTo
<1>14. Times(x, ours) = 0 => Times(x, To0(ours, q.our)) = 0
  BY <1>c, NoneUpTo
<1>15. Times(x, theirs) = 0 => Times(x, To0(theirs, q.their)) = 0
  BY <1>d, NoneUpTo
<1>16. Times(x, base) = 0 => Times(x, b) = 0 /\ Times(x, m) = 0
  BY <1>8, <1>11, <1>13, NoneOfSum
<1>17. Times(x, ours) = 0 => Times(x, o) = 0 /\ Times(x, m) = 0
  BY <1>9, <1>11, <1>14, NoneOfSum
<1>18. Times(x, theirs) = 0 => Times(x, t) = 0 /\ Times(x, m) = 0
  BY <1>10, <1>11, <1>15, NoneOfSum
<1>e. TimesResolved(x, b, o, t, r)
  BY <1>0, <1>5, ResolveTimes
<1>19. /\ Times(x, b) = 0 /\ Times(x, t) = 0 => Times(x, r) = Times(x, o)
       /\ Times(x, b) = 0 /\ Times(x, o) = 0 => Times(x, r) = Times(x, t)
       /\ ~Clashes(b, o, t) /\ Times(x, o) = 0 /\ Times(x, t) = 0 => Times(x, r) = 0
  BY <1>e DEF TimesResolved
<1>20. /\ Times(x, base) = 0 /\ Times(x, theirs) = 0 => Times(x, taken) = Times(x, v)
       /\ Times(x, base) = 0 /\ Times(x, ours) = 0 => Times(x, taken) = Times(x, w)
       /\ p.conflicts = 0 /\ Times(x, ours) = 0 /\ Times(x, theirs) = 0 => Times(x, taken) = 0
  BY <1>a, <1>3, <1>4 DEF TimesTaken
<1>21. ASSUME Times(x, base) = 0, Times(x, theirs) = 0
       PROVE  Times(x, q.lines) = Times(x, To0(ours, q.our))
  BY ONLY <1>7, <1>9, <1>16, <1>18, <1>19, <1>20, <1>21
<1>22. ASSUME Times(x, base) = 0, Times(x, ours) = 0
       PROVE  Times(x, q.lines) = Times(x, To0(theirs, q.their))
  BY ONLY <1>7, <1>10, <1>16, <1>17, <1>19, <1>20, <1>22
<1>23. ASSUME q.conflicts = 0, Times(x, ours) = 0, Times(x, theirs) = 0
       PROVE  Times(x, q.lines) = 0
  <2>1. q.conflicts = p.conflicts + IF Clashes(b, o, t) THEN 1 ELSE 0
    BY <1>0 DEF Parts
  <2>2. p.conflicts = 0 /\ ~Clashes(b, o, t)
    BY SMTT(60), <1>1, <1>23, <2>1
  <2>3. QED
    BY ONLY <1>7, <1>17, <1>18, <1>19, <1>20, <1>23, <2>2
<1>24. QED
  BY <1>21, <1>22, <1>23 DEF TimesTaken

\* What has become of the sides so far, where one has changed nothing or both
\* have changed the same.
OursGivesWay(theirs, p) == p.our = p.at /\ p.conflicts = 0 /\ p.lines = To0(theirs, p.their)
TheirsGivesWay(ours, p) == p.their = p.at /\ p.conflicts = 0 /\ p.lines = To0(ours, p.our)
ChangedAlike(ours, p) == p.our = p.their /\ p.conflicts = 0 /\ p.lines = To0(ours, p.our)

\* Where our side has changed nothing, a round takes what theirs has.
LEMMA OursKeepsGivingWay ==
    ASSUME NEW base, NEW ours, NEW theirs, NEW p, NEW q, NEW r, NEW b, NEW o, NEW t, NEW m,
           b = SubSeq(base, p.at + 1, r.start),
           o = SubSeq(ours, p.our + 1, r.start + r.our),
           Parts(base, ours, theirs, p, q, b, o, t, m),
           q.at = r.end, q.our = r.end + r.our, r.start \in Nat, r.end \in Nat,
           base = ours, r.our = 0, OursGivesWay(theirs, p)
    PROVE  OursGivesWay(theirs, q)
<1>1. p.our = p.at /\ p.conflicts = 0 /\ p.lines = To0(theirs, p.their)
  BY DEF OursGivesWay
<1>2. r.start + r.our = r.start /\ r.end + r.our = r.end
  OBVIOUS
<1>3. o = b
  BY <1>1, <1>2
<1>4. Resolve(b, o, t) = t /\ ~Clashes(b, o, t)
  BY <1>3 DEF Resolve, Clashes
<1>5. /\ q.lines = p.lines \o Resolve(b, o, t) \o m
      /\ q.conflicts = p.conflicts + IF Clashes(b, o, t) THEN 1 ELSE 0
      /\ SubSeq(theirs, 1, q.their) = SubSeq(theirs, 1, p.their) \o t \o m
  BY DEF Parts
<1>6. q.conflicts = 0
  BY <1>1, <1>4, <1>5
<1>7. q.lines = To0(theirs, q.their)
  BY <1>1, <1>4, <1>5 DEF To0
<1>8. q.our = q.at
  BY <1>2
<1>9. QED
  BY <1>6, <1>7, <1>8 DEF OursGivesWay

\* Where their side has changed nothing, a round takes what ours has.
LEMMA TheirsKeepsGivingWay ==
    ASSUME NEW base, NEW ours, NEW theirs, NEW p, NEW q, NEW r, NEW b, NEW o, NEW t, NEW m,
           b = SubSeq(base, p.at + 1, r.start),
           t = SubSeq(theirs, p.their + 1, r.start + r.their),
           Parts(base, ours, theirs, p, q, b, o, t, m),
           q.at = r.end, q.their = r.end + r.their, r.start \in Nat, r.end \in Nat,
           base = theirs, r.their = 0, TheirsGivesWay(ours, p)
    PROVE  TheirsGivesWay(ours, q)
<1>1. p.their = p.at /\ p.conflicts = 0 /\ p.lines = To0(ours, p.our)
  BY DEF TheirsGivesWay
<1>2. r.start + r.their = r.start /\ r.end + r.their = r.end
  OBVIOUS
<1>3. t = b
  BY <1>1, <1>2
<1>4. Resolve(b, o, t) = o /\ ~Clashes(b, o, t)
  BY <1>3 DEF Resolve, Clashes
<1>5. /\ q.lines = p.lines \o Resolve(b, o, t) \o m
      /\ q.conflicts = p.conflicts + IF Clashes(b, o, t) THEN 1 ELSE 0
      /\ SubSeq(ours, 1, q.our) = SubSeq(ours, 1, p.our) \o o \o m
  BY DEF Parts
<1>6. q.conflicts = 0
  BY <1>1, <1>4, <1>5
<1>7. q.lines = To0(ours, q.our)
  BY <1>1, <1>4, <1>5 DEF To0
<1>8. q.their = q.at
  BY <1>2
<1>9. QED
  BY <1>6, <1>7, <1>8 DEF TheirsGivesWay

\* Where the sides are the same, a round takes what they have.
LEMMA AlikeIsKept ==
    ASSUME NEW base, NEW ours, NEW theirs, NEW p, NEW q, NEW r, NEW b, NEW o, NEW t, NEW m,
           o = SubSeq(ours, p.our + 1, r.start + r.our),
           t = SubSeq(theirs, p.their + 1, r.start + r.their),
           Parts(base, ours, theirs, p, q, b, o, t, m),
           q.our = r.end + r.our, q.their = r.end + r.their,
           ours = theirs, r.our = r.their, ChangedAlike(ours, p)
    PROVE  ChangedAlike(ours, q)
<1>1. p.our = p.their /\ p.conflicts = 0 /\ p.lines = To0(ours, p.our)
  BY DEF ChangedAlike
<1>3. t = o
  BY <1>1
<1>4. Resolve(b, o, t) = o /\ ~Clashes(b, o, t)
  BY <1>3 DEF Resolve, Clashes
<1>5. /\ q.lines = p.lines \o Resolve(b, o, t) \o m
      /\ q.conflicts = p.conflicts + IF Clashes(b, o, t) THEN 1 ELSE 0
      /\ SubSeq(ours, 1, q.our) = SubSeq(ours, 1, p.our) \o o \o m
  BY DEF Parts
<1>6. q.conflicts = 0
  BY <1>1, <1>4, <1>5
<1>7. q.lines = To0(ours, q.our)
  BY <1>1, <1>4, <1>5 DEF To0
<1>8. q.our = q.their
  OBVIOUS
<1>9. QED
  BY <1>6, <1>7, <1>8 DEF ChangedAlike

\* What the blocks mean for the offsets of the regions.
OffsetsFit(base, ours, theirs, regions) ==
    \A k \in DOMAIN regions :
      /\ base = ours => regions[k].our = 0
      /\ base = theirs => regions[k].their = 0
      /\ ours = theirs => regions[k].our = regions[k].their

\* What the rounds so far have made of the sides.
TakenSoFar(base, ours, theirs, p) ==
    /\ base = ours => OursGivesWay(theirs, p)
    /\ base = theirs => TheirsGivesWay(ours, p)
    /\ ours = theirs => ChangedAlike(ours, p)
    /\ \A x : x \notin Markers => TimesTaken(base, ours, theirs, p, x)

\* One round of the merge.
LEMMA RoundKeeps ==
    ASSUME NEW X, Markers \subseteq X, NEW base \in Seq(X), NEW ours \in Seq(X), NEW theirs \in Seq(X),
           NEW regions, RegionsFit(base, ours, theirs, regions),
           OffsetsFit(base, ours, theirs, regions),
           NEW done, done = Merging(base, ours, theirs, regions),
           NEW n \in 1..Len(regions), TakenSoFar(base, ours, theirs, done[n - 1])
    PROVE  TakenSoFar(base, ours, theirs, done[n])
<1>1. PICK p \in MergeState(X, base, ours, theirs) : p = done[n - 1]
  BY MergeAhead
<1>2. PICK r : r = regions[n]
  OBVIOUS
<1>3. PICK q : q = done[n]
  OBVIOUS
<1>4. /\ RegionFits(base, ours, theirs, r) /\ q = Next3(base, ours, theirs, p, r)
      /\ p.at <= r.start /\ p.our <= r.start + r.our /\ p.their <= r.start + r.their
  BY <1>1, <1>2, <1>3, MergeAhead
<1>5. q \in MergeState(X, base, ours, theirs)
  BY <1>4, NextTyped
<1>6. PICK b, o, t, m \in Seq(X) :
             /\ b = SubSeq(base, p.at + 1, r.start)
             /\ o = SubSeq(ours, p.our + 1, r.start + r.our)
             /\ t = SubSeq(theirs, p.their + 1, r.start + r.their)
             /\ Parts(base, ours, theirs, p, q, b, o, t, m)
  <2>1. HasParts(X, base, ours, theirs, p, q, r)
    BY <1>4, NextParts
  <2>2. QED
    BY <2>1, Zenon DEF HasParts
<1>7. /\ q.at = r.end /\ q.our = r.end + r.our /\ q.their = r.end + r.their
      /\ r.start \in Nat /\ r.end \in Nat
  BY <1>4 DEF Next3, RegionFits, Region
<1>8. /\ base = ours => r.our = 0
      /\ base = theirs => r.their = 0
      /\ ours = theirs => r.our = r.their
  BY <1>2 DEF OffsetsFit, RegionsFit
<1>9. TakenSoFar(base, ours, theirs, p)
  BY <1>1
<1>10. base = ours => OursGivesWay(theirs, q)
  <2>1. SUFFICES ASSUME base = ours PROVE OursGivesWay(theirs, q)
    OBVIOUS
  <2>2. OursGivesWay(theirs, p) /\ r.our = 0
    BY <1>8, <1>9, <2>1 DEF TakenSoFar
  <2>3. QED
    BY <1>6, <1>7, <2>1, <2>2, OursKeepsGivingWay
<1>11. base = theirs => TheirsGivesWay(ours, q)
  <2>1. SUFFICES ASSUME base = theirs PROVE TheirsGivesWay(ours, q)
    OBVIOUS
  <2>2. TheirsGivesWay(ours, p) /\ r.their = 0
    BY <1>8, <1>9, <2>1 DEF TakenSoFar
  <2>3. QED
    BY <1>6, <1>7, <2>1, <2>2, TheirsKeepsGivingWay
<1>12. ours = theirs => ChangedAlike(ours, q)
  <2>1. SUFFICES ASSUME ours = theirs PROVE ChangedAlike(ours, q)
    OBVIOUS
  <2>2. ChangedAlike(ours, p) /\ r.our = r.their
    BY <1>8, <1>9, <2>1 DEF TakenSoFar
  <2>3. QED
    BY <1>6, <1>7, <2>1, <2>2, AlikeIsKept
<1>13. ASSUME NEW x, x \notin Markers PROVE TimesTaken(base, ours, theirs, q, x)
  <2>1. TimesTaken(base, ours, theirs, p, x)
    BY <1>9, <1>13 DEF TakenSoFar
  <2>2. RoundOf(X, base, ours, theirs, p, q, b, o, t, m)
    BY <1>5, <1>6 DEF RoundOf
  <2>3. QED
    BY <1>13, <2>1, <2>2, TimesKept
<1>14. TakenSoFar(base, ours, theirs, q)
  BY <1>10, <1>11, <1>12, <1>13 DEF TakenSoFar
<1>15. QED
  BY <1>3, <1>14

\* All the rounds, one after the other.
LEMMA AllRoundsKeep ==
    ASSUME NEW X, Markers \subseteq X, NEW base \in Seq(X), NEW ours \in Seq(X), NEW theirs \in Seq(X),
           NEW regions, RegionsFit(base, ours, theirs, regions),
           OffsetsFit(base, ours, theirs, regions)
    PROVE  TakenSoFar(base, ours, theirs, Merging(base, ours, theirs, regions)[Len(regions)])
<1>1. PICK done : done = Merging(base, ours, theirs, regions)
  OBVIOUS
<1>2. PICK rounds \in Nat : rounds = Len(regions)
  BY DEF RegionsFit
<1>3. PICK S : S = {n \in 0..rounds : TakenSoFar(base, ours, theirs, done[n])}
  OBVIOUS
<1>4. 0 \in S
  <2>1. PICK p : p = done[0]
    OBVIOUS
  <2>2. p = [lines |-> <<>>, conflicts |-> 0, at |-> 0, our |-> 0, their |-> 0]
    BY <1>1, <2>1, MergingLoop
  <2>3. p.lines = <<>> /\ p.conflicts = 0 /\ p.at = 0 /\ p.our = 0 /\ p.their = 0
    BY <2>2
  <2>4. To0(base, 0) = <<>> /\ To0(ours, 0) = <<>> /\ To0(theirs, 0) = <<>>
    BY DEF To0
  <2>5. ASSUME NEW x PROVE Times(x, <<>>) = 0
    <3>1. <<>> \in Seq(X) /\ \A i \in 1..Len(<<>>) : <<>>[i] # x
      OBVIOUS
    <3>2. QED
      BY <3>1, TimesFinite
  <2>6. \A x : TimesTaken(base, ours, theirs, p, x)
    BY <2>3, <2>4, <2>5 DEF TimesTaken
  <2>7. OursGivesWay(theirs, p) /\ TheirsGivesWay(ours, p) /\ ChangedAlike(ours, p)
    BY <2>3, <2>4 DEF OursGivesWay, TheirsGivesWay, ChangedAlike
  <2>8. TakenSoFar(base, ours, theirs, p)
    BY <2>6, <2>7 DEF TakenSoFar
  <2>9. QED
    BY <1>2, <1>3, <2>1, <2>8
<1>5. ASSUME NEW n \in 1..rounds, n - 1 \in S PROVE n \in S
  <2>1. TakenSoFar(base, ours, theirs, done[n - 1])
    BY <1>3, <1>5
  <2>2. TakenSoFar(base, ours, theirs, done[n])
    BY <1>1, <1>2, <2>1, RoundKeeps
  <2>3. QED
    BY <1>2, <1>3, <2>2
<1>6. S = 0..rounds
  <2>1. S \in SUBSET (0..rounds)
    BY <1>3
  <2>2. QED
    BY ONLY <1>2, <1>4, <1>5, <2>1, Upwards
<1>7. TakenSoFar(base, ours, theirs, done[rounds])
  BY <1>2, <1>3, <1>6
<1>8. QED
  BY <1>1, <1>2, <1>7

\* A side that is the base has no offset in any region, and two sides that are
\* the same have the same one.
LEMMA RegionsKeepOffsets ==
    ASSUME NEW base, NEW ours, NEW theirs,
           Len(base) \in Nat, Len(ours) \in Nat, Len(theirs) \in Nat,
           NEW bo \in Blocks, NEW bt \in Blocks, BlocksFit(base, ours, bo), BlocksFit(base, theirs, bt),
           ours = theirs => bo = bt
    PROVE  OffsetsFit(base, ours, theirs, Regions(base, ours, theirs, bo, bt))
<1>1. PICK regions : regions = Regions(base, ours, theirs, bo, bt)
  OBVIOUS
<1>2. PICK found : found = syncRegions(bo, bt)
  OBVIOUS
<1>3. PICK n \in Nat : n = Len(found)
  BY <1>2, RegionsAreFit
<1>a. PICK last : last = regions[Len(regions)]
  OBVIOUS
<1>b. /\ RegionsFit(base, ours, theirs, regions)
      /\ last.our = Len(ours) - Len(base) /\ last.their = Len(theirs) - Len(base)
  BY <1>1, <1>a, RegionsAreFit
<1>c. Len(regions) = Len(found) + 1
  <2>1. Len(Regions(base, ours, theirs, bo, bt)) = Len(syncRegions(bo, bt)) + 1
    BY RegionsAreFit
  <2>2. QED
    BY <1>1, <1>2, <2>1
<1>d. ASSUME NEW k \in 1..Len(found) PROVE regions[k] = found[k] /\ k \in DOMAIN found
  <2>1. \A l \in 1..Len(syncRegions(bo, bt)) :
          /\ Regions(base, ours, theirs, bo, bt)[l] = syncRegions(bo, bt)[l]
          /\ l \in DOMAIN syncRegions(bo, bt)
    BY RegionsAreFit
  <2>2. QED
    BY <1>1, <1>2, <2>1
<1>4. /\ RegionsFit(base, ours, theirs, regions) /\ Len(regions) = n + 1
      /\ \A k \in 1..n : regions[k] = found[k] /\ k \in DOMAIN found
      /\ regions[n + 1].our = Len(ours) - Len(base) /\ regions[n + 1].their = Len(theirs) - Len(base)
  BY <1>3, <1>a, <1>b, <1>c, <1>d
<1>5. DOMAIN regions = 1..(n + 1)
  BY <1>4 DEF RegionsFit
<1>6. ASSUME NEW k \in 1..n
      PROVE  /\ base = ours => regions[k].our = 0
             /\ base = theirs => regions[k].their = 0
             /\ ours = theirs => regions[k].our = regions[k].their
  <2>1. PICK r \in Region : r = regions[k]
    BY <1>4, <1>5 DEF RegionsFit
  <2>2. PICK i \in DOMAIN bo, j \in DOMAIN bt : InBlocks(r, bo[i], bt[j])
    BY <1>2, <1>4, <2>1, SyncRegionsFit
  <2>3. PICK o \in Block : o = bo[i]
    BY DEF Blocks
  <2>4. PICK t \in Block : t = bt[j]
    BY DEF Blocks
  <2>5. /\ o.aStart \in Nat /\ o.bStart \in Nat /\ o.length \in Nat
        /\ t.aStart \in Nat /\ t.bStart \in Nat /\ t.length \in Nat
        /\ r.start \in Nat /\ r.end \in Nat
    BY DEF Block, Region
  <2>6. /\ o.aStart <= r.start /\ t.aStart <= r.start /\ r.start < r.end
        /\ r.end <= o.aStart + o.length /\ r.end <= t.aStart + t.length
        /\ r.our = o.bStart - o.aStart /\ r.their = t.bStart - t.aStart
    BY <2>2, <2>3, <2>4 DEF InBlocks
  <2>7. base = ours => r.our = 0
    <3>1. base = ours => o.aStart = o.bStart
      BY <2>3 DEF BlocksFit
    <3>2. QED
      BY <2>5, <2>6, <3>1
  <2>8. base = theirs => r.their = 0
    <3>1. base = theirs => t.aStart = t.bStart
      BY <2>4 DEF BlocksFit
    <3>2. QED
      BY <2>5, <2>6, <3>1
  <2>9. ASSUME ours = theirs PROVE r.our = r.their
    <3>1. bo = bt /\ i \in Int /\ j \in Int
      BY <2>9 DEF Blocks
    <3>2. ~(i < j)
      <4>1. i < j => o.aStart + o.length <= t.aStart
        BY <2>3, <2>4, <3>1 DEF BlocksFit
      <4>2. QED
        BY ONLY <2>5, <2>6, <4>1
    <3>3. ~(j < i)
      <4>1. j < i => t.aStart + t.length <= o.aStart
        BY <2>3, <2>4, <3>1 DEF BlocksFit
      <4>2. QED
        BY ONLY <2>5, <2>6, <4>1
    <3>4. i = j
      BY ONLY <3>1, <3>2, <3>3
    <3>5. o = t
      BY <2>3, <2>4, <3>1, <3>4
    <3>6. QED
      BY <2>6, <3>5
  <2>10. QED
    BY <2>1, <2>7, <2>8, <2>9
<1>7. /\ base = ours => regions[n + 1].our = 0
      /\ base = theirs => regions[n + 1].their = 0
      /\ ours = theirs => regions[n + 1].our = regions[n + 1].their
  BY <1>4
<1>8. ASSUME NEW k \in DOMAIN regions
      PROVE  /\ base = ours => regions[k].our = 0
             /\ base = theirs => regions[k].their = 0
             /\ ours = theirs => regions[k].our = regions[k].their
  <2>1. k \in 1..n \/ k = n + 1
    BY <1>5
  <2>2. QED
    BY <1>6, <1>7, <2>1
<1>9. QED
  BY <1>1, <1>8 DEF OffsetsFit

\* The lines up to the end are the whole text.
LEMMA WholeText ==
    ASSUME NEW X, NEW s \in Seq(X)
    PROVE  To0(s, Len(s)) = s
<1>1. PICK n \in Nat : n = Len(s)
  OBVIOUS
<1>2. 0 \in 0..Len(s) /\ n \in 0..Len(s) /\ 0 + 1 = 1 /\ n - 0 = n /\ 0 <= n
  BY <1>1
<1>3. PICK h : h = SubSeq(s, 1, n)
  OBVIOUS
<1>4. h \in Seq(X) /\ Len(h) = n /\ \A l \in 1..n : h[l] = s[0 + l]
  BY <1>1, <1>2, <1>3, Stretch
<1>5. \A l \in 1..n : h[l] = s[l]
  BY <1>4
<1>6. h = s
  BY <1>1, <1>4, <1>5, SameSeq
<1>7. QED
  BY <1>1, <1>3, <1>6 DEF To0

\* The last region of a merge is empty and at the end of the three texts.
EndsAt(base, ours, theirs, regions) ==
    /\ Len(regions) \in Nat \ {0}
    /\ regions[Len(regions)].end = Len(base)
    /\ regions[Len(regions)].our = Len(ours) - Len(base)
    /\ regions[Len(regions)].their = Len(theirs) - Len(base)

\* Where the last round of a merge has left the three texts.
LEMMA MergeEnds ==
    ASSUME NEW X, Markers \subseteq X, NEW base \in Seq(X), NEW ours \in Seq(X), NEW theirs \in Seq(X),
           NEW regions, RegionsFit(base, ours, theirs, regions), EndsAt(base, ours, theirs, regions),
           NEW p, p = Merging(base, ours, theirs, regions)[Len(regions)]
    PROVE  p.at = Len(base) /\ p.our = Len(ours) /\ p.their = Len(theirs) /\ p.lines \in Seq(X)
<1>1. PICK done : done = Merging(base, ours, theirs, regions)
  OBVIOUS
<1>2. PICK n : n = Len(regions)
  OBVIOUS
<1>c. PICK last : last = regions[Len(regions)]
  OBVIOUS
<1>3. n \in 1..Len(regions) /\ n \in 0..Len(regions)
  BY <1>2 DEF EndsAt
<1>4. /\ done \in [0..Len(regions) -> MergeState(X, base, ours, theirs)]
      /\ \A k \in 1..Len(regions) : done[k] = Next3(base, ours, theirs, done[k - 1], regions[k])
  BY <1>1, MergingLoop
<1>5. p = Next3(base, ours, theirs, done[n - 1], last)
  BY <1>1, <1>2, <1>3, <1>4, <1>c
<1>a. p = done[n]
  BY SMTT(60), <1>1, <1>2
<1>b. done[n] \in MergeState(X, base, ours, theirs)
  BY SMTT(60), <1>3, <1>4
<1>6. p \in MergeState(X, base, ours, theirs)
  BY SMTT(60), <1>a, <1>b
<1>7. p.at = last.end /\ p.our = last.end + last.our /\ p.their = last.end + last.their
  BY <1>5 DEF Next3
<1>8. Len(base) \in Nat /\ Len(ours) \in Nat /\ Len(theirs) \in Nat
  OBVIOUS
<1>9. last.end = Len(base) /\ last.our = Len(ours) - Len(base) /\ last.their = Len(theirs) - Len(base)
  BY <1>c DEF EndsAt
<1>10. QED
  BY <1>6, <1>7, <1>8, <1>9 DEF MergeState

\* A line is not in a text when it is there no time.
LEMMA Missing ==
    ASSUME NEW X, NEW s \in Seq(X), NEW x
    PROVE  Times(x, s) = 0 <=> ~Contains(s, x)
  BY TimesFinite DEF Contains

\* Whatever sound blocks the comparisons find, a merge takes both sides.
LEMMA MergeTakesSides ==
    ASSUME NEW base \in Texts, NEW ours \in Texts, NEW theirs \in Texts,
           NEW bo, NEW bt, BlocksFit(base, ours, bo), BlocksFit(base, theirs, bt),
           ours = theirs => bo = bt,
           NEW regions, regions = Regions(base, ours, theirs, bo, bt),
           NEW p, p = Merging(base, ours, theirs, regions)[Len(regions)]
    PROVE  SidesAreTaken(base, ours, theirs, p.lines, p.conflicts)
<1>1. PICK X : X = Lines \cup Markers
  OBVIOUS
<1>2. Markers \subseteq X /\ base \in Seq(X) /\ ours \in Seq(X) /\ theirs \in Seq(X)
  BY <1>1 DEF Texts
<1>3. bo \in Blocks /\ bt \in Blocks
  BY DEF BlocksFit
<1>4. Len(base) \in Nat /\ Len(ours) \in Nat /\ Len(theirs) \in Nat
  BY <1>2
<1>5. PICK last : last = regions[Len(regions)]
  OBVIOUS
<1>a. /\ RegionsFit(base, ours, theirs, regions) /\ Len(regions) \in Nat \ {0}
      /\ last.end = Len(base) /\ last.our = Len(ours) - Len(base)
      /\ last.their = Len(theirs) - Len(base)
  BY <1>3, <1>4, <1>5, RegionsAreFit, SMTT(30)
<1>6. RegionsFit(base, ours, theirs, regions) /\ EndsAt(base, ours, theirs, regions)
  BY <1>5, <1>a DEF EndsAt
<1>7. OffsetsFit(base, ours, theirs, regions)
  BY <1>3, <1>4, RegionsKeepOffsets
<1>8. TakenSoFar(base, ours, theirs, p)
  BY <1>2, <1>6, <1>7, AllRoundsKeep
<1>9. p.at = Len(base) /\ p.our = Len(ours) /\ p.their = Len(theirs) /\ p.lines \in Seq(X)
  BY <1>2, <1>6, MergeEnds
<1>10. To0(ours, p.our) = ours /\ To0(theirs, p.their) = theirs
  BY <1>2, <1>9, WholeText
<1>11. base = ours => p.conflicts = 0 /\ p.lines = theirs
  BY <1>8, <1>10 DEF TakenSoFar, OursGivesWay
<1>12. base = theirs \/ ours = theirs => p.conflicts = 0 /\ p.lines = ours
  BY <1>8, <1>10 DEF TakenSoFar, TheirsGivesWay, ChangedAlike
<1>13. ASSUME NEW line \in Lines \ Markers
       PROVE  /\ ~Contains(base, line) =>
                   /\ ~Contains(theirs, line) => Times(line, p.lines) = Times(line, ours)
                   /\ ~Contains(ours, line) => Times(line, p.lines) = Times(line, theirs)
              /\ p.conflicts = 0 /\ ~Contains(ours, line) /\ ~Contains(theirs, line)
                   => ~Contains(p.lines, line)
  <2>1. TimesTaken(base, ours, theirs, p, line)
    BY <1>8 DEF TakenSoFar
  <2>2. PICK lines \in Seq(X) : lines = p.lines
    BY <1>9
  <2>3. /\ Times(line, base) = 0 <=> ~Contains(base, line)
        /\ Times(line, ours) = 0 <=> ~Contains(ours, line)
        /\ Times(line, theirs) = 0 <=> ~Contains(theirs, line)
        /\ Times(line, lines) = 0 <=> ~Contains(lines, line)
    BY <1>2, Missing
  <2>4. /\ Times(line, base) = 0 /\ Times(line, theirs) = 0
             => Times(line, lines) = Times(line, ours)
        /\ Times(line, base) = 0 /\ Times(line, ours) = 0
             => Times(line, lines) = Times(line, theirs)
        /\ p.conflicts = 0 /\ Times(line, ours) = 0 /\ Times(line, theirs) = 0
             => Times(line, lines) = 0
    BY <1>10, <2>1, <2>2 DEF TimesTaken
  <2>5. QED
    BY <2>2, <2>3, <2>4
<1>14. QED
  BY <1>11, <1>12, <1>13 DEF SidesAreTaken

\* The three texts are texts.
TextsTyped == texts \in [Sides -> Texts]

\* While the comparisons find sound blocks, every merge takes the changes of both
\* sides, whatever the texts and however long they are (merge.go).
THEOREM MergesTakeBoth == TextsSpec /\ []AlignmentFits => []MergeTakesBoth
<1>1. TextsInit => TextsTyped /\ MergeTakesBoth
  <2>1. SUFFICES ASSUME TextsInit PROVE TextsTyped /\ MergeTakesBoth
    OBVIOUS
  <2>2. texts = [side \in Sides |-> <<>>] /\ answer = [sort |-> "none"]
    BY <2>1 DEF TextsInit, NoAnswer
  <2>3. <<>> \in Texts
    BY DEF Texts
  <2>4. TextsTyped
    BY <2>2, <2>3 DEF TextsTyped
  <2>5. answer.sort # "merge"
    BY <2>2
  <2>6. QED
    BY <2>4, <2>5 DEF MergeTakesBoth
<1>2. TextsTyped /\ MergeTakesBoth /\ AlignmentFits /\ [TextsNext]_textVars
        => TextsTyped' /\ MergeTakesBoth'
  <2>1. SUFFICES ASSUME TextsTyped, MergeTakesBoth, AlignmentFits, [TextsNext]_textVars
                 PROVE  TextsTyped' /\ MergeTakesBoth'
    OBVIOUS
  <2>2. CASE EditText
    <3>1. answer' = [sort |-> "none"]
      BY <2>2 DEF EditText, NoAnswer
    <3>2. MergeTakesBoth'
      <4>1. answer'.sort # "merge"
        BY <3>1
      <4>2. QED
        BY <4>1 DEF MergeTakesBoth
    <3>3. PICK side \in Sides :
             \/ \E line \in Lines : texts' = [texts EXCEPT ![side] = Append(@, line)]
             \/ texts[side] # <<>> /\ texts' = [texts EXCEPT ![side] = Tail(@)]
      BY <2>2 DEF EditText
    <3>4. texts[side] \in Texts
      BY <2>1 DEF TextsTyped
    <3>5. CASE \E line \in Lines : texts' = [texts EXCEPT ![side] = Append(@, line)]
      <4>1. PICK line \in Lines : texts' = [texts EXCEPT ![side] = Append(@, line)]
        BY <3>5
      <4>2. Append(texts[side], line) \in Texts
        BY <3>4 DEF Texts
      <4>3. QED
        BY <2>1, <3>2, <4>1, <4>2 DEF TextsTyped
    <3>6. CASE texts[side] # <<>> /\ texts' = [texts EXCEPT ![side] = Tail(@)]
      <4>1. Tail(texts[side]) \in Texts
        BY <3>4, <3>6 DEF Texts
      <4>2. QED
        BY <2>1, <3>2, <3>6, <4>1 DEF TextsTyped
    <3>7. QED
      BY <3>3, <3>5, <3>6
  <2>3. CASE Unified
    <3>1. texts' = texts /\ answer'.sort = "diff"
      BY <2>3 DEF Unified
    <3>2. answer'.sort # "merge"
      BY <3>1
    <3>3. QED
      BY <2>1, <3>1, <3>2 DEF TextsTyped, MergeTakesBoth
  <2>4. CASE MergeFile
    <3>1. PICK base \in Texts : base = texts["base"]
      BY <2>1 DEF TextsTyped, Sides
    <3>2. PICK ours \in Texts : ours = texts["ours"]
      BY <2>1 DEF TextsTyped, Sides
    <3>3. PICK theirs \in Texts : theirs = texts["theirs"]
      BY <2>1 DEF TextsTyped, Sides
    <3>4. PICK bo : bo = commonBlocks(base, ours)
      OBVIOUS
    <3>5. PICK bt : bt = commonBlocks(base, theirs)
      OBVIOUS
    <3>6. PICK regions : regions = Regions(base, ours, theirs, bo, bt)
      OBVIOUS
    <3>7. PICK p : p = Merging(base, ours, theirs, regions)[Len(regions)]
      OBVIOUS
    <3>8. p = Merge3(base, ours, theirs)
      BY <3>4, <3>5, <3>6, <3>7 DEF Merge3
    <3>9. /\ texts' = texts
          /\ answer' = [sort |-> "merge", lines |-> p.lines, conflicts |-> p.conflicts]
      BY <2>4, <3>1, <3>2, <3>3, <3>8 DEF MergeFile
    <3>10. BlocksFit(base, ours, bo) /\ BlocksFit(base, theirs, bt)
      BY <2>1, <3>1, <3>2, <3>3, <3>4, <3>5 DEF AlignmentFits
    <3>11. ours = theirs => bo = bt
      BY <3>4, <3>5
    <3>12. SidesAreTaken(base, ours, theirs, p.lines, p.conflicts)
      BY <3>6, <3>7, <3>10, <3>11, MergeTakesSides
    <3>13. answer'.lines = p.lines /\ answer'.conflicts = p.conflicts
      BY <3>9
    <3>14. SidesAreTaken(texts["base"], texts["ours"], texts["theirs"], answer.lines, answer.conflicts)'
      BY <3>1, <3>2, <3>3, <3>9, <3>12, <3>13
    <3>15. QED
      BY <2>1, <3>9, <3>14 DEF TextsTyped, MergeTakesBoth
  <2>5. CASE UNCHANGED textVars
    BY <2>1, <2>5 DEF textVars, TextsTyped, MergeTakesBoth, SidesAreTaken
  <2>6. QED
    BY <2>1, <2>2, <2>3, <2>4, <2>5 DEF TextsNext
<1>3. QED
  BY <1>1, <1>2, PTL DEF TextsSpec
============================================================================

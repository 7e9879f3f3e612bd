------------------------------- MODULE Inmates -------------------------------
(* The registry of inmates and the images that are built from them.  An      *)
(* inmate is a directory that was cloned from somewhere; a record beside it  *)
(* holds the hash of the tree that the user has approved.  The commands of   *)
(* the user (install, update, remove, trust, and every command that builds   *)
(* the image of a box) take no lock, can fail and can be interrupted.        *)
EXTENDS FiniteSets, Naturals

CONSTANTS
    Procs,          \* commands that run at the same time
    Names,          \* names of inmates
    Trees,          \* contents that a directory may have
    Shipped,        \* the content of a bundled inmate
    None,
    EditsAtRest,    \* the user edits no inmate that a command is working on
    MaxPublished,   \* changes of the repository that is cloned
    MaxEdits, MaxFaults, MaxCrashes

ASSUME InmatesConstants ==
    /\ None \notin Trees
    /\ EditsAtRest \in BOOLEAN
    /\ {MaxPublished, MaxEdits, MaxFaults, MaxCrashes} \subseteq Nat

VARIABLES
    upstream,   \* what a clone brings
    bundled,    \* the names that this version of prison ships
    dir,        \* the tree in the directory of each inmate
    record,     \* its TrustRecord
    images,     \* what the image of each tag was built from
    pc, name, inmate, tree, hash, retired, origin,   \* locals of the commands
    published, edits, faults, crashes,
    approved,   \* trees whose description the user has accepted
    present     \* names whose inmate is installed and was not removed

files == <<dir, record, images>>
locals == <<pc, name, inmate, tree, hash, retired, origin>>
counts == <<published, edits, faults, crashes>>
inmateVars == <<upstream, bundled, files, locals, counts, approved, present>>

NoRecord == [hash |-> None, origin |-> FALSE]
AnyTree == Trees \cup {Shipped}

(* The values that the state is made of.                                     *)
InmatesTypeOK ==
    /\ upstream \in Trees /\ bundled \subseteq Names
    /\ dir \in [Names -> Trees \cup {None}]
    /\ record \in [Names -> [hash : Trees \cup {None}, origin : BOOLEAN]]
    /\ images \in [AnyTree -> AnyTree \cup {None}]
    /\ pc \in [Procs -> {"idle", "compare", "ask", "retire", "place", "hash", "record",
                         "askTrust", "removeDir", "removeRecord", "plan", "build"}]
    /\ name \in [Procs -> Names]
    /\ {inmate, tree, hash, retired} \subseteq [Procs -> AnyTree \cup {None}]
    /\ origin \in [Procs -> BOOLEAN]
    /\ approved \subseteq Names \X Trees /\ present \subseteq Names

InmatesInit ==
    /\ upstream \in Trees /\ bundled = {}
    /\ dir = [n \in Names |-> None]
    /\ record = [n \in Names |-> NoRecord]
    /\ images = [t \in AnyTree |-> None]
    /\ pc = [c \in Procs |-> "idle"]
    /\ name \in [Procs -> Names]
    /\ inmate = [c \in Procs |-> None] /\ tree = [c \in Procs |-> None]
    /\ hash = [c \in Procs |-> None] /\ retired = [c \in Procs |-> None]
    /\ origin = [c \in Procs |-> FALSE]
    /\ published = 0 /\ edits = 0 /\ faults = 0 /\ crashes = 0
    /\ approved = {} /\ present = {}

Go(c, to) == pc' = [pc EXCEPT ![c] = to]

\* The command returns, with or without an error.
Return(c) ==
    /\ Go(c, "idle")
    /\ inmate' = [inmate EXCEPT ![c] = None] /\ tree' = [tree EXCEPT ![c] = None]
    /\ hash' = [hash EXCEPT ![c] = None] /\ retired' = [retired EXCEPT ![c] = None]
    /\ name' = [name EXCEPT ![c] = CHOOSE n \in Names : TRUE]
    /\ origin' = [origin EXCEPT ![c] = FALSE]

Fail(c) ==
    /\ Return(c)
    /\ UNCHANGED <<upstream, bundled, files, counts, approved, present>>

-----------------------------------------------------------------------------
(* The registry. *)

\* Get: the bundled copy of a name comes first.
Installed(n) == n \notin bundled /\ dir[n] # None

TrustedIfRecorded(n) == record[n].hash # None

Trusted(n) == record[n].hash # None /\ record[n].hash = dir[n]

\* refuseUnusableNames: a bundled inmate keeps its name.
Usable(n) == n \notin bundled

Install(c, n) ==
    /\ pc[c] = "idle"
    /\ Usable(n)
    /\ name' = [name EXCEPT ![c] = n]
    /\ tree' = [tree EXCEPT ![c] = upstream]
    /\ origin' = [origin EXCEPT ![c] = TRUE]
    /\ Go(c, "ask")
    /\ UNCHANGED <<inmate, hash, retired>>
    /\ UNCHANGED <<upstream, bundled, files, counts, approved, present>>

\* The origin of the clone is in the record.
Update(c, n) ==
    /\ pc[c] = "idle"
    /\ Installed(n) /\ record[n].origin
    /\ name' = [name EXCEPT ![c] = n]
    /\ Go(c, "compare")
    /\ UNCHANGED <<inmate, tree, hash, retired, origin>>
    /\ UNCHANGED <<upstream, bundled, files, counts, approved, present>>

\* A tree that is the installed one is up to date, approved or not.
Compare(c) ==
    /\ pc[c] = "compare"
    /\ \/ /\ dir[name[c]] \notin {None, upstream} /\ Usable(name[c])
          /\ tree' = [tree EXCEPT ![c] = upstream]
          /\ origin' = [origin EXCEPT ![c] = TRUE]
          /\ Go(c, "ask")
          /\ UNCHANGED <<name, inmate, hash, retired>>
          /\ UNCHANGED <<upstream, bundled, files, counts, approved, present>>
       \/ /\ dir[name[c]] \in {None, upstream} \/ ~Usable(name[c])
          /\ Fail(c)

\* approve shows what was cloned.
Approve(c) ==
    /\ pc[c] = "ask"
    /\ approved' = approved \cup {<<name[c], tree[c]>>}
    /\ Go(c, "retire")
    /\ UNCHANGED <<name, inmate, tree, hash, retired, origin>>
    /\ UNCHANGED <<upstream, bundled, files, counts, present>>

Decline(c) == pc[c] \in {"ask", "askTrust"} /\ Fail(c)

\* copyPluginTree: the clone was copied beside, and the old tree goes away.
Retire(c) ==
    /\ pc[c] = "retire"
    /\ \/ /\ retired' = [retired EXCEPT ![c] = dir[name[c]]]
          /\ dir' = [dir EXCEPT ![name[c]] = None]
          /\ Go(c, "place")
          /\ UNCHANGED <<name, inmate, tree, hash, origin>>
          /\ UNCHANGED <<upstream, bundled, record, images, counts, approved, present>>
       \/ Fail(c)

NotRestored(c) == dir' = dir

\* The second rename has failed: the old tree comes back if its place is free.
Restored(c) ==
    dir' = IF dir[name[c]] = None THEN [dir EXCEPT ![name[c]] = retired[c]] ELSE dir

Place(c) ==
    /\ pc[c] = "place" /\ dir[name[c]] = None
    /\ dir' = [dir EXCEPT ![name[c]] = tree[c]]
    /\ present' = present \cup {name[c]}
    /\ Go(c, "hash")
    /\ UNCHANGED <<name, inmate, tree, hash, retired, origin>>
    /\ UNCHANGED <<upstream, bundled, record, images, counts, approved>>

\* Another command has filled the place, or the disk fails.
PlaceFails(c) ==
    /\ pc[c] = "place"
    /\ \/ dir[name[c]] # None /\ UNCHANGED faults
       \/ faults < MaxFaults /\ faults' = faults + 1
    /\ Restored(c)
    /\ Return(c)
    /\ UNCHANGED <<upstream, bundled, record, images, published, edits, crashes, approved, present>>

\* What is recorded is the hash of the directory, as it is now.
Hash(c) ==
    /\ pc[c] = "hash"
    /\ \/ /\ dir[name[c]] # None
          /\ hash' = [hash EXCEPT ![c] = dir[name[c]]]
          /\ Go(c, "record")
          /\ UNCHANGED <<name, inmate, tree, retired, origin>>
          /\ UNCHANGED <<upstream, bundled, files, counts, approved, present>>
       \/ dir[name[c]] = None /\ Fail(c)

\* A Trust writes the origin of the record that it read.
writeTrustRecord(c) ==
    /\ pc[c] = "record"
    /\ record' = [record EXCEPT ![name[c]] = [hash |-> hash[c], origin |-> origin[c]]]
    /\ Return(c)
    /\ UNCHANGED <<upstream, bundled, dir, images, counts, approved, present>>

Remove(c, n) ==
    /\ pc[c] = "idle"
    /\ Installed(n)
    /\ name' = [name EXCEPT ![c] = n]
    /\ Go(c, "removeDir")
    /\ UNCHANGED <<inmate, tree, hash, retired, origin>>
    /\ UNCHANGED <<upstream, bundled, files, counts, approved, present>>

RemoveDir(c) ==
    /\ pc[c] = "removeDir"
    /\ dir' = [dir EXCEPT ![name[c]] = None]
    /\ present' = present \ {name[c]}
    /\ Go(c, "removeRecord")
    /\ UNCHANGED <<name, inmate, tree, hash, retired, origin>>
    /\ UNCHANGED <<upstream, bundled, record, images, counts, approved>>

removeTrustRecord(c) ==
    /\ pc[c] = "removeRecord"
    /\ record' = [record EXCEPT ![name[c]] = NoRecord]
    /\ Return(c)
    /\ UNCHANGED <<upstream, bundled, dir, images, counts, approved, present>>

\* Trust shows the installed tree.
Trust(c, n) ==
    /\ pc[c] = "idle"
    /\ Installed(n) /\ ~Trusted(n)
    /\ name' = [name EXCEPT ![c] = n]
    /\ origin' = [origin EXCEPT ![c] = record[n].origin]
    /\ hash' = [hash EXCEPT ![c] = dir[n]]
    /\ Go(c, "askTrust")
    /\ UNCHANGED <<inmate, tree, retired>>
    /\ UNCHANGED <<upstream, bundled, files, counts, approved, present>>

ApproveTrust(c) ==
    /\ pc[c] = "askTrust"
    /\ approved' = approved \cup {<<name[c], hash[c]>>}
    /\ Go(c, "hash")
    /\ UNCHANGED <<name, inmate, tree, hash, retired, origin>>
    /\ UNCHANGED <<upstream, bundled, files, counts, present>>

-----------------------------------------------------------------------------
(* The image of a box. *)

\* Load refuses a tree that is not the approved one.  The inmate that it
\* returns is a directory, read again later, or the tree that prison ships.
Load(c, n) ==
    /\ pc[c] = "idle"
    /\ n \in bundled \/ (dir[n] # None /\ Trusted(n))
    /\ name' = [name EXCEPT ![c] = n]
    /\ inmate' = [inmate EXCEPT ![c] = IF n \in bundled THEN Shipped ELSE None]
    /\ Go(c, "plan")
    /\ UNCHANGED <<tree, hash, retired, origin>>
    /\ UNCHANGED <<upstream, bundled, files, counts, approved, present>>

Context(c) == IF inmate[c] = Shipped THEN Shipped ELSE dir[name[c]]

\* NewPlan: the tag is a hash of the tree.
NewPlan(c) ==
    /\ pc[c] = "plan"
    /\ \/ /\ Context(c) # None
          /\ hash' = [hash EXCEPT ![c] = Context(c)]
          /\ Go(c, "build")
          /\ UNCHANGED <<name, inmate, tree, retired, origin>>
          /\ UNCHANGED <<upstream, bundled, files, counts, approved, present>>
       \/ Context(c) = None /\ Fail(c)

\* An image that is there is not built again.
Ensure(c) ==
    /\ pc[c] = "build"
    /\ \/ /\ images[hash[c]] = None /\ Context(c) # None
          /\ images' = [images EXCEPT ![hash[c]] = Context(c)]
          /\ Return(c)
          /\ UNCHANGED <<upstream, bundled, dir, record, counts, approved, present>>
       \/ Fail(c)

-----------------------------------------------------------------------------
(* The world around the commands. *)

Publish ==
    /\ published < MaxPublished
    /\ published' = published + 1
    /\ upstream' \in Trees \ {upstream}
    /\ UNCHANGED <<bundled, files, locals, edits, faults, crashes, approved, present>>

Edit(n) ==
    /\ edits < MaxEdits
    /\ dir[n] # None
    /\ EditsAtRest => \A c \in Procs : pc[c] = "idle" \/ name[c] # n
    /\ edits' = edits + 1
    /\ \E t \in Trees \ {dir[n]} : dir' = [dir EXCEPT ![n] = t]
    /\ UNCHANGED <<upstream, bundled, record, images, locals, published, faults, crashes,
                   approved, present>>

\* A newer prison ships an inmate with this name.
Upgrade(n) ==
    /\ n \notin bundled
    /\ bundled' = bundled \cup {n}
    /\ UNCHANGED <<upstream, files, locals, counts, approved, present>>

\* A command is interrupted, and what it had put aside is never looked at again.
Crash(c) ==
    /\ pc[c] # "idle" /\ crashes < MaxCrashes
    /\ crashes' = crashes + 1
    /\ present' = IF pc[c] = "place" THEN present \ {name[c]} ELSE present
    /\ Return(c)
    /\ UNCHANGED <<upstream, bundled, files, published, edits, faults, approved>>

InmatesNext ==
    \/ \E c \in Procs :
         \/ Compare(c) \/ Approve(c) \/ Decline(c)
         \/ Retire(c) \/ Place(c) \/ PlaceFails(c) \/ Hash(c) \/ writeTrustRecord(c)
         \/ RemoveDir(c) \/ removeTrustRecord(c) \/ ApproveTrust(c)
         \/ NewPlan(c) \/ Ensure(c) \/ Crash(c)
         \/ \E n \in Names :
              Install(c, n) \/ Update(c, n) \/ Remove(c, n) \/ Trust(c, n) \/ Load(c, n)
    \/ Publish
    \/ \E n \in Names : Edit(n) \/ Upgrade(n)

-----------------------------------------------------------------------------
(* What an image was built from is bundled, or its description was accepted  *)
(* for that inmate: the approval covers the whole build, whatever commands   *)
(* replaced the directory after Load has compared its hash (Load, Ensure).   *)
(* The one way around it takes three commands, an edit by hand and a failed  *)
(* rename, which puts back the edited tree.                                  *)
ImagesWereApproved ==
    \A t \in AnyTree :
        images[t] \in {None, Shipped} \cup {a[2] : a \in approved}

(* An inmate that nobody removed is still there when no command is at work   *)
(* on it: an update that fails puts back what it has retired, and two of     *)
(* them do not lose the inmate between them (copyPluginTree).                *)
KeptUnlessRemoved ==
    \A n \in present :
        (\A c \in Procs : pc[c] = "idle" \/ name[c] # n) => dir[n] # None

(* Each tag holds a hash of its inputs: an image with the tag of a tree was  *)
(* built from that tree (NewPlan, Ensure).                                   *)
TagsNameTheirInputs ==
    \A t \in AnyTree : images[t] \in {None, t}
=============================================================================

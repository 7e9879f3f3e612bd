-------------------------------- MODULE Images --------------------------------
(***************************************************************************)
(* The images and the kernel of the Firecracker driver                      *)
(* (internal/isolator/firecracker: images.go, kernel.go, and the reads of    *)
(* both in Create). A build of a tag writes an OCI layout next to its place  *)
(* and moves it there; the first box of an image packs the layout into a     *)
(* disk, which every box copies; the first boot unpacks the kernel. Nothing  *)
(* of this takes a lock, and a command can die anywhere.                     *)
(*                                                                          *)
(* Abstracted: the content of an image is the number of its build. A layout  *)
(* is an index, which names a build, and the blobs of builds; buildctl is    *)
(* external: it reads the blobs that a digest names and writes the blobs of  *)
(* its result before the index. A file of the kernel has two parts. A child  *)
(* process ends with its command.                                           *)
(***************************************************************************)
EXTENDS Integers, FiniteSets

CONSTANTS
    Users,      \* prison processes
    Tags,       \* images
    Base,       \* tag -> the tag that its Dockerfile names, NoTag for none
    NoTag,
    MaxBuilds,  \* bound: runs of a build
    MaxDeaths   \* bound: commands that die

ASSUME ImagesConstants ==
    /\ Base \in [Tags -> Tags \cup {NoTag}] /\ NoTag \notin Tags
    /\ MaxBuilds \in Nat \ {0} /\ MaxDeaths \in Nat
    /\ IsFiniteSet(Users)

BuildIds == 1..MaxBuilds
Nowhere == 0                           \* no build, no disk, no file
HalfDisk == -1
Empty == [index |-> Nowhere, blobs |-> {}]
Parts == {1, 2}
Inodes == 1..(Cardinality(Users) + 2)

VARIABLES
    layout,     \* tag -> what its directory holds
    partial,    \* tag -> what is next to it, oci.partial
    disk,       \* tag -> the build that rootfs.ext4 was packed from
    content,    \* inode -> the parts of the kernel that are written
    unpacked,   \* the inode of linux.partial
    kernel,     \* the inode of linux
    user,       \* process -> its step and locals
    builds,
    deaths,
    \* History.
    overlapped, \* tags with two builds at a time
    twice       \* two unpackings of the kernel at a time

imageVars == <<layout, partial, disk, content, unpacked, kernel, user, builds, deaths,
               overlapped, twice>>

Layout == [index : {Nowhere} \cup BuildIds, blobs : SUBSET BuildIds]
Building == {"contexts", "clear", "blobs", "index", "unlayout", "rename"}
Unpacking == {"create", "first", "second", "move"}
User == [pc : {"idle", "pack", "store", "config", "copy", "kernel", "run", "undisk"}
              \cup Building \cup Unpacking,
         tag : Tags \cup {NoTag},
         build : {Nowhere} \cup BuildIds,    \* what it builds
         digest : {Nowhere} \cup BuildIds,   \* the image that buildctl reads
         config : {Nowhere} \cup BuildIds, disk : {HalfDisk, Nowhere} \cup BuildIds,
         file : {Nowhere} \cup Inodes]       \* the open linux.partial
Rest == [pc |-> "idle", tag |-> NoTag, build |-> Nowhere, digest |-> Nowhere,
         config |-> Nowhere, disk |-> Nowhere, file |-> Nowhere]

ImagesInit ==
    /\ layout = [t \in Tags |-> Empty] /\ partial = [t \in Tags |-> Empty]
    /\ disk = [t \in Tags |-> Nowhere]
    /\ content = [i \in Inodes |-> {}] /\ unpacked = Nowhere /\ kernel = Nowhere
    /\ user = [p \in Users |-> Rest]
    /\ builds = 0 /\ deaths = 0
    /\ overlapped = {} /\ twice = FALSE

----------------------------------------------------------------------------
At(p, pc) == user[p].pc = pc
Goes(p, pc) == user' = [user EXCEPT ![p].pc = pc]
Ends(p) == user' = [user EXCEPT ![p] = Rest]
kernelVars == <<content, unpacked, kernel, twice>>
OthersAt(p, t, pcs) == \E q \in Users \ {p} : user[q].pc \in pcs /\ user[q].tag = t

ImageExists(t) == layout[t].index # Nowhere
\* buildctl finds the image that a digest names.
Readable(t, digest) == digest = Nowhere \/ (t # NoTag /\ digest \in layout[t].blobs)

----------------------------------------------------------------------------
\* Ensure looks for the image, and builds what is not there.
Build(p, t) ==
    /\ At(p, "idle") /\ ~ImageExists(t) /\ builds < MaxBuilds
    /\ user' = [user EXCEPT ![p] = [Rest EXCEPT !.pc = "contexts", !.tag = t, !.build = builds + 1]]
    /\ builds' = builds + 1
    /\ overlapped' = IF OthersAt(p, t, Building) THEN overlapped \cup {t} ELSE overlapped
    /\ UNCHANGED <<layout, partial, disk, kernelVars, deaths>>

\* localImageContexts: without the image it names no context, and the build
\* fails later.
localImageContexts(p) ==
    LET base == Base[user[p].tag] IN
    /\ At(p, "contexts")
    /\ IF base = NoTag THEN Goes(p, "clear")
       ELSE IF ~ImageExists(base) THEN Ends(p)
       ELSE user' = [user EXCEPT ![p].pc = "clear", ![p].digest = layout[base].index]
    /\ UNCHANGED <<layout, partial, disk, kernelVars, builds, deaths, overlapped>>

ClearPartial(p) ==
    /\ At(p, "clear")
    /\ partial' = [partial EXCEPT ![user[p].tag] = Empty]
    /\ Goes(p, "blobs")
    /\ UNCHANGED <<layout, disk, kernelVars, builds, deaths, overlapped>>

\* runBuild for Build, in two steps.
WriteBlobs(p) ==
    /\ At(p, "blobs") /\ Readable(Base[user[p].tag], user[p].digest)
    /\ partial' = [partial EXCEPT ![user[p].tag].blobs = @ \cup {user[p].build}]
    /\ Goes(p, "index")
    /\ UNCHANGED <<layout, disk, kernelVars, builds, deaths, overlapped>>

WriteIndex(p) ==
    /\ At(p, "index")
    /\ partial' = [partial EXCEPT ![user[p].tag].index = user[p].build]
    /\ Goes(p, IF layout[user[p].tag] = Empty THEN "rename" ELSE "unlayout")
    /\ UNCHANGED <<layout, disk, kernelVars, builds, deaths, overlapped>>

\* The build fails, perhaps because its base was replaced.
BuildFails(p) ==
    /\ user[p].pc \in {"blobs", "index"}
    /\ partial' = [partial EXCEPT ![user[p].tag] = Empty]
    /\ Ends(p)
    /\ UNCHANGED <<layout, disk, kernelVars, builds, deaths, overlapped>>

\* RemoveAll of the layout removes its files in some order.
RemoveLayout(p) ==
    LET t == user[p].tag IN
    /\ At(p, "unlayout")
    /\ \E left \in {Empty, [layout[t] EXCEPT !.index = Nowhere], [layout[t] EXCEPT !.blobs = {}]} :
         /\ layout' = [layout EXCEPT ![t] = left]
         /\ Goes(p, IF left = Empty THEN "rename" ELSE "unlayout")
    /\ UNCHANGED <<partial, disk, kernelVars, builds, deaths, overlapped>>

\* The layout is moved to its place, unless another build has done so.
RenameLayout(p) ==
    LET t == user[p].tag IN
    /\ At(p, "rename")
    /\ IF partial[t] # Empty /\ layout[t] = Empty
       THEN /\ layout' = [layout EXCEPT ![t] = partial[t]]
            /\ partial' = [partial EXCEPT ![t] = Empty]
            /\ Goes(p, "undisk")
       ELSE Ends(p) /\ UNCHANGED <<layout, partial>>
    /\ UNCHANGED <<disk, kernelVars, builds, deaths, overlapped>>

RemoveDisk(p) ==
    /\ At(p, "undisk")
    /\ disk' = [disk EXCEPT ![user[p].tag] = Nowhere]
    /\ Ends(p)
    /\ UNCHANGED <<layout, partial, kernelVars, builds, deaths, overlapped>>

----------------------------------------------------------------------------
\* Create: ensureDisk, which packs an image that has no disk yet.
ensureDisk(p, t) ==
    /\ At(p, "idle")
    /\ \/ disk[t] # Nowhere
          /\ user' = [user EXCEPT ![p] = [Rest EXCEPT !.pc = "config", !.tag = t]]
       \/ disk[t] = Nowhere /\ ImageExists(t)
          /\ user' = [user EXCEPT ![p] =
                        [Rest EXCEPT !.pc = "pack", !.tag = t, !.digest = layout[t].index]]
    /\ UNCHANGED <<layout, partial, disk, kernelVars, builds, deaths, overlapped>>

PackInPlace(p) ==
    LET t == user[p].tag IN
    /\ At(p, "pack")
    /\ disk' = [disk EXCEPT ![t] = HalfDisk]
    /\ IF Readable(t, user[p].digest) THEN Goes(p, "store") ELSE Ends(p)
    /\ UNCHANGED <<layout, partial, kernelVars, builds, deaths, overlapped>>

\* runBuild for ensureDisk, in a directory of its own.
Pack(p) ==
    LET t == user[p].tag IN
    /\ At(p, "pack")
    /\ IF Readable(t, user[p].digest) THEN Goes(p, "store") \/ Ends(p) ELSE Ends(p)
    /\ UNCHANGED <<layout, partial, disk, kernelVars, builds, deaths, overlapped>>

StoreDisk(p) ==
    /\ At(p, "store")
    /\ disk' = [disk EXCEPT ![user[p].tag] = user[p].digest]
    /\ user' = [user EXCEPT ![p].pc = "config", ![p].digest = Nowhere]
    /\ UNCHANGED <<layout, partial, kernelVars, builds, deaths, overlapped>>

\* readImageConfig, in writeBox.
readImageConfig(p) ==
    LET stored == layout[user[p].tag] IN
    /\ At(p, "config")
    /\ IF stored.index \in stored.blobs
       THEN user' = [user EXCEPT ![p].pc = "copy", ![p].config = stored.index]
       ELSE Ends(p)
    /\ UNCHANGED <<layout, partial, disk, kernelVars, builds, deaths, overlapped>>

CopyToBox(p) ==
    /\ At(p, "copy")
    /\ IF disk[user[p].tag] = Nowhere THEN Ends(p)
       ELSE user' = [user EXCEPT ![p].pc = "kernel", ![p].disk = disk[user[p].tag]]
    /\ UNCHANGED <<layout, partial, disk, kernelVars, builds, deaths, overlapped>>

----------------------------------------------------------------------------
imagesAlone == UNCHANGED <<layout, partial, disk, builds, deaths, overlapped>>

\* boot: kernelPath.
kernelPath(p) ==
    /\ At(p, "kernel")
    /\ Goes(p, IF kernel # Nowhere THEN "run" ELSE "create")
    /\ twice' = (twice \/ (kernel = Nowhere /\ \E q \in Users : user[q].pc \in Unpacking))
    /\ UNCHANGED <<content, unpacked, kernel>> /\ imagesAlone

\* unpackKernel: Create cuts the file that is there.
CreatePartial(p) ==
    LET inUse == {unpacked, kernel} \cup {user[q].file : q \in Users}
        i == IF unpacked # Nowhere THEN unpacked
             ELSE CHOOSE n \in Inodes \ inUse : TRUE
    IN
    /\ At(p, "create")
    /\ content' = [content EXCEPT ![i] = {}]
    /\ unpacked' = i
    /\ user' = [user EXCEPT ![p].pc = "first", ![p].file = i]
    /\ UNCHANGED <<kernel, twice>> /\ imagesAlone

WritePart(p) ==
    /\ user[p].pc \in {"first", "second"}
    /\ content' = [content EXCEPT ![user[p].file] = @ \cup {IF At(p, "first") THEN 1 ELSE 2}]
    /\ Goes(p, IF At(p, "first") THEN "second" ELSE "move")
    /\ UNCHANGED <<unpacked, kernel, twice>> /\ imagesAlone

\* A write fails, and linux.partial is removed, whoever made it.
UnpackFails(p) ==
    /\ user[p].pc \in {"first", "second"}
    /\ unpacked' = Nowhere
    /\ Ends(p)
    /\ UNCHANGED <<content, kernel, twice>> /\ imagesAlone

MoveKernel(p) ==
    /\ At(p, "move")
    /\ IF unpacked = Nowhere THEN Ends(p) /\ UNCHANGED <<unpacked, kernel>>
       ELSE /\ kernel' = unpacked /\ unpacked' = Nowhere
            /\ user' = [user EXCEPT ![p].pc = "run", ![p].file = Nowhere]
    /\ UNCHANGED <<content, twice>> /\ imagesAlone

\* Firecracker starts.
Run(p) ==
    /\ At(p, "run")
    /\ Ends(p)
    /\ UNCHANGED <<kernelVars>> /\ imagesAlone

\* The death of a prison process.
UserDies(p) ==
    /\ ~At(p, "idle") /\ deaths < MaxDeaths /\ deaths' = deaths + 1
    /\ Ends(p)
    /\ UNCHANGED <<layout, partial, disk, kernelVars, builds, overlapped>>

ImagesNext ==
    \E p \in Users :
      \/ \E t \in Tags : Build(p, t) \/ ensureDisk(p, t)
      \/ localImageContexts(p) \/ ClearPartial(p) \/ WriteBlobs(p) \/ WriteIndex(p)
      \/ BuildFails(p) \/ RemoveLayout(p) \/ RenameLayout(p) \/ RemoveDisk(p)
      \/ Pack(p) \/ StoreDisk(p) \/ readImageConfig(p) \/ CopyToBox(p)
      \/ kernelPath(p) \/ CreatePartial(p) \/ WritePart(p) \/ UnpackFails(p)
      \/ MoveKernel(p) \/ Run(p) \/ UserDies(p)
----------------------------------------------------------------------------
ImagesTypeOK ==
    /\ layout \in [Tags -> Layout] /\ partial \in [Tags -> Layout]
    /\ disk \in [Tags -> {HalfDisk, Nowhere} \cup BuildIds]
    /\ content \in [Inodes -> SUBSET Parts]
    /\ unpacked \in {Nowhere} \cup Inodes /\ kernel \in {Nowhere} \cup Inodes
    /\ user \in [Users -> User]
    /\ builds \in 0..MaxBuilds /\ deaths \in 0..MaxDeaths
    /\ overlapped \subseteq Tags /\ twice \in BOOLEAN

(* Wherever builds, packs and unpackings fail or die, and however they       *)
(* overlap, a box boots from a whole disk. While no two builds of an image    *)
(* overlap, the image is whole as soon as ImageExists finds its index, and   *)
(* the disk of a box is packed from the build whose configuration the box is  *)
(* given (images.go:127-133, boxes.go:156 and 213). While no two unpackings  *)
(* overlap, every boot has the whole kernel: linux.partial is one name for    *)
(* all of them (kernel.go:70).                                               *)
BoxesBootWhole ==
    /\ \A t \in Tags \ overlapped : ImageExists(t) => layout[t].index \in layout[t].blobs
    /\ \A p \in Users :
         At(p, "run") =>
           /\ user[p].disk \in BuildIds
           /\ user[p].tag \notin overlapped => user[p].disk = user[p].config
           /\ ~twice => content[kernel] = Parts
============================================================================

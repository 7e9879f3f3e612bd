----------------------------- MODULE HostProofs -----------------------------
(***************************************************************************)
(* Theorems about what commands keep on the host: the inmates (Inmates), the *)
(* images and the kernel (Images), and the network (HostNetwork), for every  *)
(* number of commands, names, trees, tags, builds and users. The three share *)
(* no variable; each is taken with its own initial states and steps.         *)
(***************************************************************************)
EXTENDS Inmates, Images, HostNetwork, FiniteSetTheorems, TLAPS

InmatesSpec == InmatesInit /\ [][InmatesNext]_inmateVars
ImagesSpec == ImagesInit /\ [][ImagesNext]_imageVars
NetworkSpec == NetworkInit /\ [][NetworkNext]_networkVars

\* A rename that fails puts back the tree that it had retired. While the user
\* edits nothing by hand such a tree is approved like every other one.
ApprovedOnceRetired == EditsAtRest /\ (MaxEdits = 0 \/ MaxFaults = 0)

Accepted(n) == {t \in Trees : <<n, t>> \in approved}
Fits(n, t) == t = None \/ t \in Accepted(n)

\* What a command is going to place, record or build was approved; so is the
\* directory that it found, whoever replaces it meanwhile.
CommandApproved(c) ==
    LET n == name[c] IN
    /\ pc[c] \in {"ask", "retire", "place"} => tree[c] \in Trees
    /\ pc[c] \in {"retire", "place"} => tree[c] \in Accepted(n)
    /\ pc[c] = "place" => retired[c] \in Trees \cup {None}
    /\ pc[c] = "place" /\ MaxEdits = 0 => Fits(n, retired[c])
    /\ pc[c] = "askTrust" => hash[c] \in Trees /\ (dir[n] = hash[c] \/ Fits(n, dir[n]))
    /\ pc[c] = "hash" => Fits(n, dir[n])
    /\ pc[c] = "record" => hash[c] \in Accepted(n)
    /\ pc[c] \in {"plan", "build"} /\ inmate[c] # Shipped => Fits(n, dir[n])
    /\ pc[c] = "build" => hash[c] \in AnyTree

CommandLocals ==
    /\ name \in [Procs -> Names]
    /\ \A f \in {pc, inmate, tree, hash, retired, origin} : DOMAIN f = Procs

ApprovedFiles ==
    /\ upstream \in Trees
    /\ dir \in [Names -> Trees \cup {None}]
    /\ DOMAIN record = Names /\ DOMAIN images = AnyTree /\ faults \in 0 .. MaxFaults /\ edits \in 0 .. MaxEdits
    /\ \A n \in Names : Fits(n, record[n].hash) /\ (MaxEdits = 0 => Fits(n, dir[n]))
    /\ ImagesWereApproved

ApprovalInv == CommandLocals /\ ApprovedFiles /\ \A c \in Procs : CommandApproved(c)

\* An inmate that is present is in its place, or in the hands of an update.
Held(n) == \E c \in Procs : pc[c] = "place" /\ name[c] = n /\ retired[c] # None

CommandTrees(c) ==
    /\ pc[c] \in {"ask", "retire", "place"} => tree[c] \in Trees
    /\ pc[c] = "place" => retired[c] \in Trees \cup {None}

KeptInv ==
    /\ CommandLocals
    /\ dir \in [Names -> Trees \cup {None}] /\ upstream \in Trees /\ present \subseteq Names
    /\ \A c \in Procs : CommandTrees(c)
    /\ \A n \in present : dir[n] # None \/ Held(n)

\* While no two builds of a tag overlapped, its layout gets an index once.
\* A build that is under way finds none, and a disk is of the build of the index.
Handing == {"pack", "store"}
Booting == {"kernel", "run"} \cup Unpacking

Builds(p, t) == user[p].pc \in Building /\ user[p].tag = t

BuildInv(t) ==
    /\ \A p, q \in Users : Builds(p, t) /\ Builds(q, t) => p = q
    /\ layout[t].index # Nowhere => layout[t].index \in layout[t].blobs
    /\ disk[t] \in {Nowhere, layout[t].index}
    /\ \A p \in Users : user[p].tag = t =>
         /\ user[p].pc \in Building => layout[t].index = Nowhere
         /\ user[p].pc \in {"index", "unlayout", "rename"} => user[p].build \in partial[t].blobs
         /\ user[p].pc \in {"unlayout", "rename"} => partial[t].index = user[p].build
         /\ user[p].pc \in Handing => user[p].digest = layout[t].index
         /\ At(p, "copy") => user[p].config = layout[t].index
         /\ user[p].pc \in Booting => user[p].disk = user[p].config

UserInv(p) ==
    /\ ~At(p, "idle") => user[p].tag \in Tags
    /\ user[p].pc \in Building => user[p].build \in BuildIds
    /\ user[p].pc \in Handing => user[p].digest \in BuildIds
    /\ At(p, "copy") => user[p].config \in BuildIds
    /\ user[p].pc \in Booting => user[p].disk \in BuildIds

\* While no two unpackings overlapped, the file under linux is whole.
KernelInv ==
    /\ \A p, q \in Users : user[p].pc \in Unpacking /\ user[q].pc \in Unpacking => p = q
    /\ kernel # Nowhere => content[kernel] = Parts
    /\ \A p \in Users :
         /\ user[p].pc \in Unpacking => kernel = Nowhere
         /\ user[p].pc \in {"first", "second", "move"} =>
              unpacked = user[p].file /\ unpacked # Nowhere
         /\ At(p, "second") => 1 \in content[unpacked]
         /\ At(p, "move") => content[unpacked] = Parts
         /\ At(p, "run") => kernel # Nowhere

ImagesInv ==
    /\ ImagesTypeOK
    /\ \A t \in Tags : disk[t] # HalfDisk
    /\ \A p \in Users : UserInv(p)
    /\ \A t \in Tags \ overlapped : BuildInv(t)
    /\ ~twice => KernelInv

\* The bridge is there only if the rules are, or a run of the unit is to load
\* them, or has failed. A helper that runs and is not the installed binary is
\* one that a setup of the user is going to stop, or is known to be behind.
NetworkInv ==
    /\ NetworkTypeOK
    /\ bridge => rules \/ unit # Idle \/ failed
    /\ \A u \in Owners :
         /\ helper[u] \in {NoVersion, binary} \/ u \in behind
              \/ setup[u] \in {"enable", "restart", "wait", "stop"}
         /\ AtStep(u, "ready") => bridge /\ (helper[u] = version[u] \/ u \in behind)

----------------------------------------------------------------------------
(* HostNetwork. *)

\* The steps of a setup that leave the network and the helpers alone.
LEMMA SetupKeeps ==
    ASSUME NetworkInv, NEW u \in Owners,
           \/ InstallScript(u) \/ EnableNetwork(u) \/ NetworkStarted(u)
           \/ EnableSocket(u) \/ RestartNetwork(u)
    PROVE  NetworkInv'
<1> USE DEF NetworkInv, NetworkTypeOK, AtStep, GoesTo, network, helpers, installed
<1>1. CASE InstallScript(u)
  BY <1>1 DEF InstallScript
<1>2. CASE EnableNetwork(u)
  BY <1>2 DEF EnableNetwork
<1>3. CASE NetworkStarted(u)
  BY <1>3 DEF NetworkStarted
<1>4. CASE EnableSocket(u)
  BY <1>4 DEF EnableSocket
<1>5. CASE RestartNetwork(u)
  <2>1. unit' \in [at : 0..(PoolSize + 1), owner : Owners \cup {NoOwner}] /\ unit' # Idle
    <3>1. [at |-> 1, owner |-> script] \in [at : 0..(PoolSize + 1), owner : Owners \cup {NoOwner}]
      BY NetworkConstants
    <3>2. [at |-> 1, owner |-> script] # Idle
      <4>1. [at |-> 1, owner |-> script].at # Idle.at
        BY DEF Idle
      <4>2. QED
        BY <4>1
    <3>3. QED
      BY <1>5, <3>1, <3>2 DEF RestartNetwork
  <2>2. QED
    BY <1>5, <2>1 DEF RestartNetwork
<1>6. QED
  BY <1>1, <1>2, <1>3, <1>4, <1>5

\* The binary is replaced: whoever has a helper is behind, or is going to stop it.
LEMMA InstallHelperKeeps ==
    ASSUME NetworkInv, NEW u \in Owners, InstallHelper(u) PROVE NetworkInv'
BY DEF InstallHelper, NetworkInv, NetworkTypeOK, AtStep, GoesTo, network, installed

LEMMA StopHelperKeeps ==
    ASSUME NetworkInv, NEW u \in Owners, StopHelper(u) PROVE NetworkInv'
BY DEF StopHelper, NetworkInv, NetworkTypeOK, AtStep, GoesTo, network, installed

\* A network that looks ready has its bridge, and a helper that is compared is the binary.
LEMMA CheckKeeps ==
    ASSUME NetworkInv, NEW u \in Owners, setup[u] \in {"idle", "check"},
           NEW other \in {"script", "idle"}, Check(u, "ready", other)
    PROVE  NetworkInv'
<1> USE DEF NetworkInv, NetworkTypeOK, AtStep, network, installed
<1>1. CASE networkIsReady(u) /\ nfsHelperIsCurrent(u)
  <2>1. bridge /\ binary = version[u]
    BY <1>1 DEF networkIsReady, nfsHelperIsCurrent
  <2>2. setup' = [setup EXCEPT ![u] = "ready"] /\ helper' = Activated(u)
        /\ UNCHANGED <<bridge, taps, rules, unit, failed, script, enabled, version, binary,
                       sockets, behind, spent>>
    BY <1>1 DEF Check, GoesTo
  <2>3. /\ helper' \in [Owners -> Versions \cup {NoVersion}]
        /\ helper'[u] = (IF helper[u] = NoVersion THEN binary ELSE helper[u])
        /\ \A o \in Owners : o # u => helper'[o] = helper[o]
    BY <2>2 DEF Activated
  <2>4. helper'[u] = binary \/ u \in behind
    BY <2>3
  <2>5. QED
    BY <2>1, <2>2, <2>3, <2>4
<1>2. CASE ~(networkIsReady(u) /\ nfsHelperIsCurrent(u))
  BY <1>2 DEF Check, GoesTo
<1>3. QED
  BY <1>1, <1>2

\* A setup that stops half way leaves its user behind.
LEMMA SetupStopsKeeps ==
    ASSUME NetworkInv, NEW u \in Owners, SetupStops(u) PROVE NetworkInv'
<1>1. spent' \in [upgrades : 0..MaxUpgrades, failures : 0..MaxFailures, reboots : 0..MaxReboots]
  <2>1. CASE UNCHANGED spent
    BY <2>1 DEF NetworkInv, NetworkTypeOK
  <2>2. CASE spent.failures < MaxFailures /\ spent' = [spent EXCEPT !.failures = @ + 1]
    BY <2>2, NetworkConstants DEF NetworkInv, NetworkTypeOK
  <2>3. QED
    BY <2>1, <2>2 DEF SetupStops
<1>2. QED
  BY <1>1 DEF SetupStops, NetworkInv, NetworkTypeOK, AtStep, GoesTo, network, installed

LEMMA UseNetworkKeeps ==
    ASSUME NetworkInv, NEW u \in Owners, UseNetwork(u) PROVE NetworkInv'
<1> USE DEF NetworkInv, NetworkTypeOK, AtStep, GoesTo, network, installed
<1>1. /\ helper' \in [Owners -> Versions \cup {NoVersion}]
      /\ helper'[u] \in {helper[u], binary}
      /\ \A o \in Owners : o # u => helper'[o] = helper[o]
  BY DEF UseNetwork, Activated
<1>2. QED
  BY <1>1 DEF UseNetwork

LEMMA UpgradeKeeps ==
    ASSUME NetworkInv, NEW u \in Owners, UpgradePrison(u) PROVE NetworkInv'
<1>1. spent' \in [upgrades : 0..MaxUpgrades, failures : 0..MaxFailures, reboots : 0..MaxReboots]
  BY NetworkConstants DEF UpgradePrison, NetworkInv, NetworkTypeOK
<1>2. PICK v \in Versions : version' = [version EXCEPT ![u] = v]
  BY DEF UpgradePrison
<1>3. QED
  BY <1>1, <1>2 DEF UpgradePrison, NetworkInv, NetworkTypeOK, AtStep, network, helpers

\* The script: the bridge comes first and the rules last.
LEMMA ScriptKeeps ==
    ASSUME NetworkInv, MakeTap \/ LoadRules \/ ScriptFails
    PROVE  NetworkInv'
<1> USE DEF NetworkInv, NetworkTypeOK, AtStep, helpers, installed
<1>1. CASE MakeTap
  <2>1. unit \in [at : 0..(PoolSize + 1), owner : Owners \cup {NoOwner}] /\ unit.at <= PoolSize
    BY <1>1 DEF MakeTap
  <2>2. PICK k \in 1..(PoolSize + 1) : k = unit.at + 1
    BY <2>1, NetworkConstants
  <2>3. unit' = [unit EXCEPT !.at = k]
    BY <1>1, <2>2 DEF MakeTap
  <2>4. unit' \in [at : 0..(PoolSize + 1), owner : Owners \cup {NoOwner}] /\ unit'.at = k
    BY <2>1, <2>3, NetworkConstants
  <2>5. unit' # Idle
    BY <2>4 DEF Idle
  <2>6. taps' \in [Taps -> Owners \cup {NoOwner}]
    BY <1>1, <2>1 DEF MakeTap
  <2>7. QED
    BY <1>1, <2>4, <2>5, <2>6 DEF MakeTap
<1>2. CASE LoadRules
  BY <1>2, NetworkConstants DEF LoadRules, Idle
<1>3. CASE ScriptFails
  <2>1. spent' \in [upgrades : 0..MaxUpgrades, failures : 0..MaxFailures, reboots : 0..MaxReboots]
    BY <1>3, NetworkConstants DEF ScriptFails
  <2>2. unit' \in [at : 0..(PoolSize + 1), owner : Owners \cup {NoOwner}]
    BY <1>3, NetworkConstants DEF ScriptFails, Idle
  <2>3. QED
    BY <1>3, <2>1, <2>2 DEF ScriptFails
<1>4. QED
  BY <1>1, <1>2, <1>3

LEMMA RebootKeeps == ASSUME NetworkInv, Reboot PROVE NetworkInv'
<1> USE DEF NetworkInv, NetworkTypeOK, AtStep, installed
<1>1. spent' \in [upgrades : 0..MaxUpgrades, failures : 0..MaxFailures, reboots : 0..MaxReboots]
  BY NetworkConstants DEF Reboot
<1>2. unit' \in [at : 0..(PoolSize + 1), owner : Owners \cup {NoOwner}]
  BY NetworkConstants DEF Reboot, Idle
<1>3. QED
  BY <1>1, <1>2 DEF Reboot

LEMMA NetworkStep ==
    ASSUME NetworkInv, [NetworkNext]_networkVars
    PROVE  NetworkInv'
<1>1. CASE UNCHANGED networkVars
  BY <1>1 DEF networkVars, NetworkInv, NetworkTypeOK, AtStep
<1>2. ASSUME NEW u \in Owners, EnsureNetwork(u) \/ Checked(u) PROVE NetworkInv'
  BY <1>2, CheckKeeps DEF EnsureNetwork, Checked, AtStep
<1>3. QED
  BY <1>1, <1>2, SetupKeeps, InstallHelperKeeps, StopHelperKeeps, SetupStopsKeeps,
     UseNetworkKeeps, UpgradeKeeps, ScriptKeeps, RebootKeeps DEF NetworkNext

(* A network that EnsureNetwork calls ready is not just half of one: its     *)
(* rules are there, or a run of the unit is loading them or has failed, and  *)
(* its helper is the version that was asked for unless it is known to be     *)
(* behind, however setups of several users stop and overlap (network.go).    *)
THEOREM ReadyNetworksWork == NetworkSpec => []ReadyNetworkWorks
<1>1. NetworkInit => NetworkInv
  <2>1. Idle \in [at : 0..(PoolSize + 1), owner : Owners \cup {NoOwner}]
    BY NetworkConstants DEF Idle
  <2>2. [upgrades |-> 0, failures |-> 0, reboots |-> 0] \in
            [upgrades : 0..MaxUpgrades, failures : 0..MaxFailures, reboots : 0..MaxReboots]
    BY NetworkConstants
  <2>3. QED
    BY <2>1, <2>2, NetworkConstants DEF NetworkInit, NetworkInv, NetworkTypeOK, AtStep
<1>2. NetworkInv => ReadyNetworkWorks
  BY DEF NetworkInv, ReadyNetworkWorks
<1>3. QED
  BY <1>1, <1>2, NetworkStep, PTL DEF NetworkSpec

----------------------------------------------------------------------------
(* Inmates. *)

\* The locals of the commands that take no step stay as they are.
OthersStay(c) ==
    \A d \in Procs \ {c} :
        /\ pc'[d] = pc[d] /\ name'[d] = name[d] /\ inmate'[d] = inmate[d]
        /\ tree'[d] = tree[d] /\ hash'[d] = hash[d] /\ retired'[d] = retired[d]

InmateStep(c) ==
    \/ Compare(c) \/ Approve(c) \/ Decline(c)
    \/ Retire(c) \/ Place(c) \/ PlaceFails(c) \/ Hash(c) \/ writeTrustRecord(c)
    \/ RemoveDir(c) \/ removeTrustRecord(c) \/ ApproveTrust(c)
    \/ NewPlan(c) \/ Ensure(c) \/ Crash(c)

LEMMA ReturnLocals ==
    ASSUME CommandLocals, NEW c \in Procs, Return(c)
    PROVE  CommandLocals' /\ OthersStay(c) /\ pc'[c] = "idle"
<1>1. PICK n : name' = [name EXCEPT ![c] = n] /\ n \in Names
  <2>1. (CHOOSE n \in Names : TRUE) \in Names
    BY DEF CommandLocals
  <2>2. QED
    BY <2>1 DEF Return
<1>2. QED
  BY <1>1 DEF Return, Go, CommandLocals, OthersStay

\* A step of a command changes its own locals.
LEMMA LocalsStep ==
    ASSUME CommandLocals, NEW c \in Procs,
           \/ InmateStep(c)
           \/ \E n \in Names :
                Install(c, n) \/ Update(c, n) \/ Remove(c, n) \/ Trust(c, n) \/ Load(c, n)
    PROVE  CommandLocals' /\ OthersStay(c)
<1>1. CASE Return(c)
  BY <1>1, ReturnLocals
<1>2. CASE ~Return(c)
  <2> USE DEF CommandLocals, OthersStay, Go
  <2>1. CASE Compare(c) \/ Approve(c) \/ Decline(c) \/ Retire(c)
    BY <1>2, <2>1 DEF Compare, Approve, Decline, Retire, Fail
  <2>2. CASE Place(c) \/ PlaceFails(c) \/ Hash(c) \/ writeTrustRecord(c)
    BY <1>2, <2>2 DEF Place, PlaceFails, Hash, writeTrustRecord, Fail
  <2>3. CASE RemoveDir(c) \/ removeTrustRecord(c) \/ ApproveTrust(c)
    BY <1>2, <2>3 DEF RemoveDir, removeTrustRecord, ApproveTrust
  <2>4. CASE NewPlan(c) \/ Ensure(c) \/ Crash(c)
    BY <1>2, <2>4 DEF NewPlan, Ensure, Crash, Fail
  <2>5. ASSUME NEW n \in Names, Install(c, n) \/ Update(c, n) \/ Remove(c, n)
        PROVE  CommandLocals' /\ OthersStay(c)
    BY <2>5 DEF Install, Update, Remove
  <2>6. ASSUME NEW n \in Names, Trust(c, n) \/ Load(c, n)
        PROVE  CommandLocals' /\ OthersStay(c)
    BY <2>6 DEF Trust, Load
  <2>7. QED
    BY <2>1, <2>2, <2>3, <2>4, <2>5, <2>6 DEF InmateStep
<1>3. QED
  BY <1>1, <1>2

\* A directory that changes becomes empty or gets a tree that was approved.
NewDirsFit ==
    \A n \in Names : dir'[n] = dir[n] \/ dir'[n] = None \/ dir'[n] \in Accepted(n)'

\* Then what the other commands are about to do is still approved.
LEMMA OthersApproved ==
    ASSUME ApprovalInv, NEW c \in Procs, OthersStay(c), approved \subseteq approved', NewDirsFit
    PROVE  \A d \in Procs \ {c} : CommandApproved(d)'
<1> SUFFICES ASSUME NEW d \in Procs \ {c} PROVE CommandApproved(d)'
  OBVIOUS
<1>1. PICK n \in Names : n = name[d] /\ n = name'[d]
  BY DEF ApprovalInv, CommandLocals, OthersStay
<1>2. Accepted(n) \subseteq Accepted(n)'
  BY DEF Accepted
<1>3. CommandApproved(d)
  BY DEF ApprovalInv
<1>4. /\ dir'[n] = dir[n] \/ dir'[n] = None \/ dir'[n] \in Accepted(n)'
      /\ \A x : Fits(n, x) => x = None \/ x \in Accepted(n)'
  BY <1>2 DEF NewDirsFit, Fits
<1>5. \A x : x = None \/ x \in Accepted(n)' <=> Fits(n, x)'
  BY DEF Fits
<1>6. QED
  BY <1>1, <1>2, <1>3, <1>4, <1>5 DEF CommandApproved, OthersStay


\* Files that stay, while more is accepted, are still approved.
LEMMA FilesStay ==
    ASSUME ApprovedFiles, approved \subseteq approved',
           UNCHANGED <<upstream, files, faults, edits>>
    PROVE  ApprovedFiles' /\ NewDirsFit
<1>1. \A n \in Names : Accepted(n) \subseteq Accepted(n)'
  BY DEF Accepted
<1>2. \A n \in Names : \A x : Fits(n, x) => x = None \/ x \in Accepted(n)'
  BY <1>1 DEF Fits
<1>3. \A n \in Names : Fits(n, record[n].hash)' /\ (MaxEdits = 0 => Fits(n, dir[n]))'
  BY <1>2 DEF ApprovedFiles, Fits, files
<1>4. ImagesWereApproved'
  BY DEF ApprovedFiles, ImagesWereApproved, files
<1>5. QED
  BY <1>3, <1>4 DEF ApprovedFiles, NewDirsFit, files

LEMMA AcceptedTrees == \A n, t : t \in Accepted(n) => t \in {a[2] : a \in approved}
<1> SUFFICES ASSUME NEW n, NEW t, t \in Accepted(n) PROVE t \in {a[2] : a \in approved}
  OBVIOUS
<1>1. <<n, t>> \in approved /\ <<n, t>>[2] = t
  BY DEF Accepted
<1>2. QED
  BY <1>1

\* A step of one command keeps the invariant if it keeps the files and its own part.
LEMMA ApprovalStep ==
    ASSUME ApprovalInv, NEW c \in Procs, CommandLocals' /\ OthersStay(c),
           approved \subseteq approved', ApprovedFiles' /\ NewDirsFit, CommandApproved(c)'
    PROVE  ApprovalInv'
BY OthersApproved DEF ApprovalInv

\* A command that returns and leaves the files alone.
LEMMA ReturnApproved ==
    ASSUME ApprovalInv, NEW c \in Procs, Return(c),
           UNCHANGED <<upstream, files, faults, edits, approved>>
    PROVE  ApprovalInv'
<1>1. CommandLocals' /\ OthersStay(c) /\ pc'[c] = "idle"
  BY ReturnLocals DEF ApprovalInv
<1>2. ApprovedFiles' /\ NewDirsFit
  BY FilesStay DEF ApprovalInv
<1>3. CommandApproved(c)'
  BY <1>1 DEF CommandApproved
<1>4. QED
  BY <1>1, <1>2, <1>3, ApprovalStep

\* The first steps: what was cloned is a tree, and what is loaded was trusted.
LEMMA CommandsStart ==
    ASSUME ApprovalInv, NEW c \in Procs, NEW n \in Names,
           Install(c, n) \/ Update(c, n) \/ Remove(c, n) \/ Trust(c, n) \/ Load(c, n)
    PROVE  ApprovalInv'
<1>1. CommandLocals' /\ OthersStay(c)
  BY LocalsStep DEF ApprovalInv
<1>2. UNCHANGED <<upstream, files, faults, edits, approved>>
  BY DEF Install, Update, Remove, Trust, Load, counts
<1>3. ApprovedFiles' /\ NewDirsFit
  BY <1>2, FilesStay DEF ApprovalInv
<1>4. CommandApproved(c)'
  <2> USE DEF ApprovalInv, CommandLocals, Go
  <2>1. CASE Install(c, n)
    <3>1. pc'[c] = "ask" /\ tree'[c] \in Trees
      BY <2>1 DEF Install, ApprovedFiles
    <3>2. QED
      BY <3>1 DEF CommandApproved
  <2>2. CASE Update(c, n) \/ Remove(c, n)
    <3>1. pc'[c] \in {"compare", "removeDir"}
      BY <2>2 DEF Update, Remove
    <3>2. QED
      BY <3>1 DEF CommandApproved
  <2>3. CASE Trust(c, n)
    <3>1. pc'[c] = "askTrust" /\ name'[c] = n /\ hash'[c] = dir[n] /\ dir[n] # None
      BY <2>3 DEF Trust, Installed
    <3>2. dir[n] \in Trees /\ dir'[n] = dir[n]
      BY <3>1, <1>2 DEF ApprovedFiles, files
    <3>3. QED
      BY <3>1, <3>2 DEF CommandApproved
  <2>4. CASE Load(c, n)
    <3>1. pc'[c] = "plan" /\ name'[c] = n /\ (inmate'[c] = Shipped \/ dir[n] = record[n].hash)
      BY <2>4 DEF Load, Trusted
    <3>2. inmate'[c] # Shipped => Fits(n, dir[n])'
      BY <3>1, <1>2 DEF ApprovedFiles, Fits, Accepted, files
    <3>3. QED
      BY <3>1, <3>2 DEF CommandApproved
  <2>5. QED
    BY <2>1, <2>2, <2>3, <2>4
<1>5. QED
  BY <1>1, <1>2, <1>3, <1>4, ApprovalStep

\* The steps in between that change no file.
LEMMA CommandsGoOn ==
    ASSUME ApprovalInv, NEW c \in Procs,
           Compare(c) \/ Approve(c) \/ Decline(c) \/ Hash(c) \/ ApproveTrust(c) \/ NewPlan(c)
    PROVE  ApprovalInv'
<1>1. UNCHANGED <<upstream, files, faults, edits>> /\ approved \subseteq approved'
  BY DEF Compare, Approve, Decline, Hash, ApproveTrust, NewPlan, Fail, counts
<1>2. CASE Fail(c)
  BY <1>2, ReturnApproved DEF Fail, counts
<1>3. CASE ~Fail(c)
  <2>1. CommandLocals' /\ OthersStay(c)
    BY LocalsStep DEF ApprovalInv, InmateStep
  <2>2. ApprovedFiles' /\ NewDirsFit
    BY <1>1, FilesStay DEF ApprovalInv
  <2>3. PICK n \in Names : n = name[c] /\ n = name'[c]
    BY <1>3 DEF ApprovalInv, CommandLocals, Compare, Approve, Decline, Hash, ApproveTrust, NewPlan
  <2>4. dir[n] \in Trees \cup {None} /\ dir'[n] = dir[n] /\ upstream \in Trees
    BY <1>1 DEF ApprovalInv, ApprovedFiles, files
  <2>5. CommandApproved(c)
    BY DEF ApprovalInv
  <2>6. Accepted(n) \subseteq Accepted(n)'
    BY <1>1 DEF Accepted
  <2>7. CommandApproved(c)'
    <3> USE DEF ApprovalInv, CommandLocals, Go
    <3>1. CASE Compare(c)
      <4>1. pc'[c] = "ask" /\ tree'[c] = upstream
        BY <1>3, <3>1 DEF Compare
      <4>2. QED
        BY <4>1, <2>4 DEF CommandApproved
    <3>2. CASE Approve(c)
      <4>1. pc'[c] = "retire" /\ tree'[c] = tree[c] /\ tree[c] \in Trees
        BY <3>2, <2>5 DEF Approve, CommandApproved
      <4>2. tree[c] \in Accepted(n)'
        BY <3>2, <4>1, <2>3 DEF Approve, Accepted
      <4>3. QED
        BY <4>1, <4>2, <2>3 DEF CommandApproved
    <3>3. CASE Hash(c)
      <4>1. pc[c] = "hash" /\ pc'[c] = "record" /\ hash'[c] = dir[n] /\ dir[n] # None
        BY <1>3, <3>3, <2>3 DEF Hash
      <4>2. dir[n] \in Accepted(n)'
        BY <4>1, <2>3, <2>5, <2>6 DEF CommandApproved, Fits
      <4>3. QED
        BY <4>1, <4>2, <2>3 DEF CommandApproved
    <3>4. CASE ApproveTrust(c)
      <4>1. pc[c] = "askTrust" /\ pc'[c] = "hash"
        BY <3>4 DEF ApproveTrust
      <4>2. hash[c] \in Trees /\ (dir[n] = hash[c] \/ Fits(n, dir[n]))
        BY <4>1, <2>3, <2>5 DEF CommandApproved
      <4>3. hash[c] \in Accepted(n)'
        BY <3>4, <4>2, <2>3 DEF ApproveTrust, Accepted
      <4>4. Fits(n, dir[n])'
        BY <4>2, <4>3, <2>4, <2>6 DEF Fits
      <4>5. QED
        BY <4>1, <4>4, <2>3 DEF CommandApproved
    <3>5. CASE NewPlan(c)
      <4>1. /\ pc[c] = "plan" /\ pc'[c] = "build" /\ inmate'[c] = inmate[c]
            /\ hash'[c] = Context(c) /\ Context(c) # None
        BY <1>3, <3>5 DEF NewPlan
      <4>2. Context(c) \in AnyTree
        BY <4>1, <2>3, <2>4 DEF Context, AnyTree
      <4>3. inmate[c] # Shipped => Fits(n, dir[n])
        BY <4>1, <2>3, <2>5 DEF CommandApproved
      <4>4. inmate[c] # Shipped => Fits(n, dir[n])'
        BY <4>3, <2>4, <2>6 DEF Fits
      <4>5. QED
        BY <4>1, <4>2, <4>4, <2>3 DEF CommandApproved
    <3>6. QED
      BY <1>3, <3>1, <3>2, <3>3, <3>4, <3>5 DEF Decline
  <2>8. QED
    BY <1>1, <2>1, <2>2, <2>7, ApprovalStep
<1>4. QED
  BY <1>2, <1>3


\* A directory that is emptied, or gets a tree that was accepted for it.
LEMMA DirApproved ==
    ASSUME ApprovedFiles, NEW n \in Names, NEW t \in Trees \cup {None}, Fits(n, t),
           dir' = [dir EXCEPT ![n] = t], faults' \in 0 .. MaxFaults,
           UNCHANGED <<upstream, record, images, edits, approved>>
    PROVE  ApprovedFiles' /\ NewDirsFit
<1>1. \A m : Accepted(m)' = Accepted(m)
  BY DEF Accepted
<1>2. NewDirsFit
  BY <1>1 DEF NewDirsFit, ApprovedFiles, Fits
<1>3. \A m \in Names : Fits(m, record[m].hash)' /\ (MaxEdits = 0 => Fits(m, dir[m])')
  BY <1>1 DEF ApprovedFiles, Fits
<1>4. ImagesWereApproved'
  BY DEF ApprovedFiles, ImagesWereApproved
<1>5. QED
  BY <1>2, <1>3, <1>4 DEF ApprovedFiles

\* An update, a removal: the directory goes away, and what was approved takes its place.
LEMMA PlacesApproved ==
    ASSUME ApprovalInv, NEW c \in Procs, Retire(c) \/ Place(c) \/ RemoveDir(c)
    PROVE  ApprovalInv'
<1>1. CASE Fail(c)
  BY <1>1, ReturnApproved DEF Fail, counts
<1>2. CASE ~Fail(c)
  <2>1. CommandLocals' /\ OthersStay(c)
    BY LocalsStep DEF ApprovalInv, InmateStep
  <2>2. PICK n \in Names : n = name[c] /\ n = name'[c]
    BY <1>2 DEF ApprovalInv, CommandLocals, Retire, Place, RemoveDir
  <2>3. CommandApproved(c)
    BY DEF ApprovalInv
  <2>4. dir[n] \in Trees \cup {None} /\ dir \in [Names -> Trees \cup {None}]
        /\ (MaxEdits = 0 => Fits(n, dir[n])) /\ faults \in 0 .. MaxFaults
    BY DEF ApprovalInv, ApprovedFiles
  <2>5. UNCHANGED <<upstream, record, images, edits, faults, approved>>
    BY <1>2 DEF Retire, Place, RemoveDir, counts
  <2>6. \A m : Accepted(m)' = Accepted(m)
    BY <2>5 DEF Accepted
  <2>7. CASE Retire(c)
    <3>1. /\ pc[c] = "retire" /\ pc'[c] = "place" /\ tree'[c] = tree[c]
          /\ retired'[c] = dir[n] /\ dir' = [dir EXCEPT ![n] = None]
      BY <1>2, <2>2, <2>7 DEF Retire, Go, ApprovalInv, CommandLocals
    <3>2. ApprovedFiles' /\ NewDirsFit
      BY <3>1, <2>4, <2>5, DirApproved DEF ApprovalInv, Fits
    <3>3. tree[c] \in Trees /\ tree[c] \in Accepted(n)
      BY <3>1, <2>2, <2>3 DEF CommandApproved
    <3>4. MaxEdits = 0 => Fits(n, retired[c])'
      BY <3>1, <2>4, <2>6 DEF Fits
    <3>5. CommandApproved(c)'
      BY <3>1, <3>3, <3>4, <2>2, <2>4, <2>6 DEF CommandApproved
    <3>6. QED
      BY <3>2, <3>5, <2>1, <2>5, ApprovalStep
  <2>8. CASE Place(c)
    <3>1. pc[c] = "place" /\ pc'[c] = "hash" /\ dir' = [dir EXCEPT ![n] = tree[c]]
      BY <2>2, <2>8 DEF Place, Go, ApprovalInv, CommandLocals
    <3>2. tree[c] \in Trees /\ tree[c] \in Accepted(n)
      BY <3>1, <2>2, <2>3 DEF CommandApproved
    <3>3. ApprovedFiles' /\ NewDirsFit
      <4>1. PICK t \in Trees : t = tree[c]
        BY <3>2
      <4>2. QED
        BY <4>1, <3>1, <3>2, <2>4, <2>5, DirApproved DEF ApprovalInv, Fits
    <3>4. Fits(n, dir[n])'
      BY <3>1, <3>2, <2>4, <2>6 DEF Fits
    <3>5. CommandApproved(c)'
      BY <3>1, <3>4, <2>2 DEF CommandApproved
    <3>6. QED
      BY <3>3, <3>5, <2>1, <2>5, ApprovalStep
  <2>9. CASE RemoveDir(c)
    <3>1. pc'[c] = "removeRecord" /\ dir' = [dir EXCEPT ![n] = None]
      BY <2>2, <2>9 DEF RemoveDir, Go, ApprovalInv, CommandLocals
    <3>2. ApprovedFiles' /\ NewDirsFit
      BY <3>1, <2>4, <2>5, DirApproved DEF ApprovalInv, Fits
    <3>3. CommandApproved(c)'
      BY <3>1 DEF CommandApproved
    <3>4. QED
      BY <3>2, <3>3, <2>1, <2>5, ApprovalStep
  <2>10. QED
    BY <2>7, <2>8, <2>9
<1>3. QED
  BY <1>1, <1>2

\* The tree that a failed rename puts back was approved before it was retired,
\* or the rename fails only because another command has filled the place.
LEMMA PlaceFailsApproved ==
    ASSUME ApprovedOnceRetired, ApprovalInv, NEW c \in Procs, PlaceFails(c)
    PROVE  ApprovalInv'
<1>1. CommandLocals' /\ OthersStay(c) /\ pc'[c] = "idle"
  BY ReturnLocals DEF ApprovalInv, PlaceFails
<1>2. /\ UNCHANGED <<upstream, record, images, edits, approved>>
      /\ pc[c] = "place" /\ CommandApproved(c)
  BY DEF PlaceFails, ApprovalInv
<1>3. PICK n \in Names : n = name[c]
  BY DEF ApprovalInv, CommandLocals
<1>4. faults \in 0 .. MaxFaults /\ MaxFaults \in Nat
  BY InmatesConstants DEF ApprovalInv, ApprovedFiles
<1>5. faults' \in 0 .. MaxFaults /\ (MaxFaults = 0 => dir[n] # None)
  BY <1>3, <1>4 DEF PlaceFails
<1>6. dir \in [Names -> Trees \cup {None}]
  BY DEF ApprovalInv, ApprovedFiles
<1>7. ApprovedFiles' /\ NewDirsFit
  <2>1. CASE dir[n] = None
    <3>1. PICK t \in Trees \cup {None} : t = retired[c] /\ Fits(n, t)
      BY <1>2, <1>3, <1>5, <2>1 DEF CommandApproved, ApprovedOnceRetired
    <3>2. dir' = [dir EXCEPT ![n] = t]
      BY <1>3, <2>1, <3>1 DEF PlaceFails, Restored
    <3>3. QED
      BY <3>1, <3>2, <1>2, <1>5, DirApproved DEF ApprovalInv
  <2>2. CASE dir[n] # None
    <3>1. dir' = dir
      BY <1>3, <2>2 DEF PlaceFails, Restored
    <3>2. \A m : Accepted(m)' = Accepted(m)
      BY <1>2 DEF Accepted
    <3>3. \A m \in Names : Fits(m, record[m].hash)' /\ (MaxEdits = 0 => Fits(m, dir[m])')
      BY <1>2, <3>1, <3>2 DEF ApprovalInv, ApprovedFiles, Fits
    <3>4. ImagesWereApproved'
      BY <1>2 DEF ApprovalInv, ApprovedFiles, ImagesWereApproved
    <3>5. QED
      BY <1>2, <1>5, <3>1, <3>3, <3>4 DEF ApprovalInv, ApprovedFiles, NewDirsFit
  <2>3. QED
    BY <2>1, <2>2
<1>8. CommandApproved(c)'
  BY <1>1 DEF CommandApproved
<1>9. QED
  BY <1>1, <1>2, <1>7, <1>8, ApprovalStep

\* What is recorded was approved, and so was what an image is built from.
LEMMA RecordsApproved ==
    ASSUME ApprovalInv, NEW c \in Procs, writeTrustRecord(c) \/ removeTrustRecord(c)
    PROVE  ApprovalInv'
<1>1. CommandLocals' /\ OthersStay(c) /\ pc'[c] = "idle"
  BY ReturnLocals DEF ApprovalInv, writeTrustRecord, removeTrustRecord
<1>2. UNCHANGED <<upstream, dir, images, faults, edits, approved>>
  BY DEF writeTrustRecord, removeTrustRecord, counts
<1>3. PICK n \in Names : n = name[c]
  BY DEF ApprovalInv, CommandLocals
<1>4. DOMAIN record = Names
  BY DEF ApprovalInv, ApprovedFiles
<1>5. PICK t, b : record' = [record EXCEPT ![n] = [hash |-> t, origin |-> b]] /\ Fits(n, t)
  <2>1. CASE writeTrustRecord(c)
    <3>1. Fits(n, hash[c])
      BY <1>3, <2>1 DEF writeTrustRecord, ApprovalInv, CommandApproved, Fits
    <3>2. record' = [record EXCEPT ![n] = [hash |-> hash[c], origin |-> origin[c]]]
      BY <1>3, <2>1 DEF writeTrustRecord
    <3>3. QED
      BY <3>1, <3>2
  <2>2. CASE removeTrustRecord(c)
    BY <1>3, <2>2 DEF removeTrustRecord, NoRecord, Fits
  <2>3. QED
    BY <2>1, <2>2
<1>6. [hash |-> t, origin |-> b].hash = t
  OBVIOUS
<1>7. DOMAIN record' = Names
  BY <1>4, <1>5, <1>6
<1>8. \A m : Accepted(m)' = Accepted(m)
  BY <1>2 DEF Accepted
<1>9. \A m \in Names : Fits(m, record[m].hash)' /\ (MaxEdits = 0 => Fits(m, dir[m])')
  BY <1>2, <1>4, <1>5, <1>6, <1>8 DEF ApprovalInv, ApprovedFiles, Fits
<1>10. ImagesWereApproved'
  BY <1>2 DEF ApprovalInv, ApprovedFiles, ImagesWereApproved
<1>11. ApprovedFiles' /\ NewDirsFit
  BY <1>2, <1>7, <1>9, <1>10 DEF ApprovalInv, ApprovedFiles, NewDirsFit
<1>12. CommandApproved(c)'
  BY <1>1 DEF CommandApproved
<1>13. QED
  BY <1>1, <1>2, <1>11, <1>12, ApprovalStep


\* An image is built from a tree that prison ships, or from the directory as it
\* is now: whoever has replaced it since Load, its tree was approved.
LEMMA EnsureApproved ==
    ASSUME ApprovalInv, NEW c \in Procs, Ensure(c)
    PROVE  ApprovalInv'
<1>1. CASE Fail(c)
  BY <1>1, ReturnApproved DEF Fail, counts
<1>2. CASE ~Fail(c)
  <2>1. /\ Return(c) /\ pc[c] = "build" /\ Context(c) # None
        /\ images' = [images EXCEPT ![hash[c]] = Context(c)]
        /\ UNCHANGED <<upstream, dir, record, faults, edits, approved>>
    BY <1>2 DEF Ensure, counts
  <2>2. CommandLocals' /\ OthersStay(c) /\ pc'[c] = "idle"
    BY <2>1, ReturnLocals DEF ApprovalInv
  <2>3. CommandApproved(c) /\ name[c] \in Names
    BY DEF ApprovalInv, CommandLocals
  <2>4. Context(c) \in {Shipped} \cup {a[2] : a \in approved}
    BY <2>1, <2>3, AcceptedTrees DEF Context, CommandApproved, Fits
  <2>5. \A m : Accepted(m)' = Accepted(m)
    BY <2>1 DEF Accepted
  <2>6. \A m \in Names : Fits(m, record[m].hash)' /\ (MaxEdits = 0 => Fits(m, dir[m])')
    BY <2>1, <2>5 DEF ApprovalInv, ApprovedFiles, Fits
  <2>7. PICK x \in {None, Shipped} \cup {a[2] : a \in approved} :
          images' = [images EXCEPT ![hash[c]] = x]
    BY <2>1, <2>4
  <2>8. DOMAIN images' = AnyTree /\ ImagesWereApproved'
    BY <2>1, <2>7 DEF ApprovalInv, ApprovedFiles, ImagesWereApproved
  <2>9. ApprovedFiles' /\ NewDirsFit
    BY <2>1, <2>6, <2>8 DEF ApprovalInv, ApprovedFiles, NewDirsFit
  <2>10. CommandApproved(c)'
    BY <2>2 DEF CommandApproved
  <2>11. QED
    BY <2>1, <2>2, <2>9, <2>10, ApprovalStep
<1>3. QED
  BY <1>1, <1>2

\* The world: an edit is of an inmate at rest, which no command is going to use.
LEMMA WorldApproved ==
    ASSUME ApprovedOnceRetired, ApprovalInv,
           Publish \/ \E n \in Names : Edit(n) \/ Upgrade(n)
    PROVE  ApprovalInv'
<1>1. CASE Publish
  BY <1>1 DEF Publish, ApprovalInv, CommandLocals, CommandApproved, ApprovedFiles,
     ImagesWereApproved, Fits, Accepted, files, locals
<1>2. ASSUME NEW n \in Names, Edit(n) PROVE ApprovalInv'
  <2>1. PICK t \in Trees : dir' = [dir EXCEPT ![n] = t]
    BY <1>2 DEF Edit
  <2>2. UNCHANGED <<upstream, record, images, locals, faults, approved>>
    BY <1>2 DEF Edit
  <2>3. edits' \in 0 .. MaxEdits /\ MaxEdits # 0
    BY <1>2, InmatesConstants DEF Edit, ApprovalInv, ApprovedFiles
  <2>4. \A m : Accepted(m)' = Accepted(m)
    BY <2>2 DEF Accepted
  <2>5. ApprovedFiles'
    BY <2>1, <2>2, <2>3, <2>4 DEF ApprovalInv, ApprovedFiles, ImagesWereApproved, Fits
  <2>6. ASSUME NEW c \in Procs PROVE CommandApproved(c)'
    <3>1. CASE pc[c] = "idle"
      BY <3>1, <2>2 DEF CommandApproved, locals
    <3>2. CASE pc[c] # "idle"
      <4>1. PICK m \in Names : m = name[c] /\ m = name'[c] /\ m # n
        BY <1>2, <2>2, <3>2 DEF Edit, ApprovedOnceRetired, ApprovalInv, CommandLocals, locals
      <4>2. dir'[m] = dir[m]
        BY <2>1, <4>1 DEF ApprovalInv, ApprovedFiles
      <4>3. CommandApproved(c)
        BY DEF ApprovalInv
      <4>4. QED
        BY <2>2, <2>4, <4>1, <4>2, <4>3 DEF CommandApproved, Fits, locals
    <3>3. QED
      BY <3>1, <3>2
  <2>7. QED
    BY <2>2, <2>5, <2>6 DEF ApprovalInv, CommandLocals, locals
<1>3. ASSUME NEW n \in Names, Upgrade(n) PROVE ApprovalInv'
  BY <1>3 DEF Upgrade, ApprovalInv, CommandLocals, CommandApproved, ApprovedFiles,
     ImagesWereApproved, Fits, Accepted, files, locals, counts
<1>4. QED
  BY <1>1, <1>2, <1>3

\* What was built was approved, however many commands overlap, fail or are
\* interrupted (Load, Ensure, copyPluginTree): as long as the user edits no inmate
\* that a command is working on, and no edited tree comes back from a failed rename.
THEOREM BuiltAsApproved ==
    ASSUME ApprovedOnceRetired
    PROVE  InmatesSpec => []ImagesWereApproved
<1>1. InmatesInit => ApprovalInv
  BY InmatesConstants DEF InmatesInit, ApprovalInv, CommandLocals, CommandApproved,
     ApprovedFiles, ImagesWereApproved, Fits, NoRecord
<1>2. ApprovalInv /\ [InmatesNext]_inmateVars => ApprovalInv'
  <2> SUFFICES ASSUME ApprovalInv, [InmatesNext]_inmateVars PROVE ApprovalInv'
    OBVIOUS
  <2>1. CASE UNCHANGED inmateVars
    BY <2>1 DEF inmateVars, ApprovalInv, CommandLocals, CommandApproved, ApprovedFiles,
       ImagesWereApproved, Fits, Accepted, files, locals, counts
  <2>2. ASSUME NEW c \in Procs, Crash(c) PROVE ApprovalInv'
    BY <2>2, ReturnApproved DEF Crash
  <2>3. QED
    BY <2>1, <2>2, CommandsStart, CommandsGoOn, PlacesApproved, PlaceFailsApproved,
       RecordsApproved, EnsureApproved, WorldApproved DEF InmatesNext
<1>3. ApprovalInv => ImagesWereApproved
  BY DEF ApprovalInv, ApprovedFiles
<1>4. QED
  BY <1>1, <1>2, <1>3, PTL DEF InmatesSpec


\* A step of one command keeps what the others hold.
LEMMA KeptStep ==
    ASSUME KeptInv, NEW c \in Procs, CommandLocals' /\ OthersStay(c),
           dir' \in [Names -> Trees \cup {None}], upstream' \in Trees, present' \subseteq Names,
           CommandTrees(c)',
           \A n \in present' : dir'[n] # None \/ Held(n)'
    PROVE  KeptInv'
<1>1. ASSUME NEW d \in Procs \ {c} PROVE CommandTrees(d)'
  BY DEF KeptInv, CommandTrees, OthersStay
<1>2. QED
  BY <1>1 DEF KeptInv

LEMMA OthersHold ==
    ASSUME KeptInv, NEW c \in Procs, OthersStay(c), NEW n \in present,
           dir[n] = None, pc[c] # "place" \/ name[c] # n \/ retired[c] = None
    PROVE  Held(n)'
<1>1. PICK d \in Procs : pc[d] = "place" /\ name[d] = n /\ retired[d] # None
  BY DEF KeptInv, Held
<1>2. d # c
  BY <1>1
<1>3. pc'[d] = "place" /\ name'[d] = n /\ retired'[d] # None
  BY <1>1, <1>2 DEF OthersStay
<1>4. QED
  BY <1>3 DEF Held

\* The steps that neither move a directory nor give one up.
LEMMA QuietCommandsKeep ==
    ASSUME KeptInv, NEW c \in Procs, CommandLocals' /\ OthersStay(c),
           pc[c] # "place", UNCHANGED <<upstream, dir, present>>, CommandTrees(c)'
    PROVE  KeptInv'
<1>1. \A n \in present' : dir'[n] # None \/ Held(n)'
  BY OthersHold
<1>2. QED
  BY <1>1, KeptStep DEF KeptInv

LEMMA CommandsKeep ==
    ASSUME KeptInv, NEW c \in Procs,
           \/ Compare(c) \/ Approve(c) \/ Decline(c) \/ Hash(c) \/ writeTrustRecord(c)
           \/ removeTrustRecord(c) \/ ApproveTrust(c) \/ NewPlan(c) \/ Ensure(c)
           \/ Retire(c) /\ Fail(c)
           \/ \E n \in Names :
                Install(c, n) \/ Update(c, n) \/ Remove(c, n) \/ Trust(c, n) \/ Load(c, n)
    PROVE  KeptInv'
<1> USE DEF CommandTrees
<1>1. CommandLocals' /\ OthersStay(c)
  BY LocalsStep DEF KeptInv, InmateStep
<1>2. CASE Return(c)
  <2>1. pc'[c] = "idle"
    BY <1>2, ReturnLocals DEF KeptInv
  <2>2. pc[c] # "place" /\ UNCHANGED <<upstream, dir, present>>
    <3>1. CASE \E n \in Names :
                 Install(c, n) \/ Update(c, n) \/ Remove(c, n) \/ Trust(c, n) \/ Load(c, n)
      BY <3>1 DEF Install, Update, Remove, Trust, Load, files
    <3>2. CASE Retire(c) /\ Fail(c)
      BY <3>2 DEF Retire, Fail, files
    <3>3. CASE Compare(c) \/ Approve(c) \/ Decline(c) \/ Hash(c) \/ NewPlan(c) \/ ApproveTrust(c)
      BY <3>3 DEF Compare, Approve, Decline, Hash, NewPlan, ApproveTrust, Fail, files
    <3>4. CASE writeTrustRecord(c) \/ removeTrustRecord(c) \/ Ensure(c)
      BY <3>4 DEF writeTrustRecord, removeTrustRecord, Ensure, Fail, files
    <3>5. QED
      BY <3>1, <3>2, <3>3, <3>4
  <2>3. QED
    BY <1>1, <2>1, <2>2, QuietCommandsKeep
<1>3. CASE ~Return(c)
  <2> USE DEF KeptInv, CommandLocals, Go
  <2>1. CASE Compare(c) \/ Approve(c)
    <3>1. pc[c] # "place" /\ UNCHANGED <<upstream, dir, present>>
          /\ pc'[c] \in {"ask", "retire"} /\ tree'[c] \in Trees
      BY <1>3, <2>1 DEF Compare, Approve, Fail, files
    <3>2. QED
      BY <1>1, <3>1, QuietCommandsKeep
  <2>2. CASE Hash(c) \/ ApproveTrust(c) \/ NewPlan(c)
    <3>1. pc[c] # "place" /\ UNCHANGED <<upstream, dir, present>>
          /\ pc'[c] \in {"record", "hash", "build"}
      BY <1>3, <2>2 DEF Hash, ApproveTrust, NewPlan, Fail, files
    <3>2. QED
      BY <1>1, <3>1, QuietCommandsKeep
  <2>3. ASSUME NEW n \in Names,
               Install(c, n) \/ Update(c, n) \/ Remove(c, n) \/ Trust(c, n) \/ Load(c, n)
        PROVE  KeptInv'
    <3>1. pc[c] # "place" /\ UNCHANGED <<upstream, dir, present>>
      BY <2>3 DEF Install, Update, Remove, Trust, Load, files
    <3>2. pc'[c] \in {"compare", "removeDir", "askTrust", "plan"} \/ (pc'[c] = "ask" /\ tree'[c] \in Trees)
      BY <2>3 DEF Install, Update, Remove, Trust, Load
    <3>3. QED
      BY <1>1, <3>1, <3>2, QuietCommandsKeep
  <2>4. QED
    BY <1>3, <2>1, <2>2, <2>3 DEF Decline, writeTrustRecord, removeTrustRecord, Ensure, Fail
<1>4. QED
  BY <1>2, <1>3

\* copyPluginTree: what is retired is held, and comes back or is replaced.
LEMMA UpdatesKeep ==
    ASSUME KeptInv, NEW c \in Procs, (Retire(c) /\ ~Fail(c)) \/ Place(c) \/ PlaceFails(c)
    PROVE  KeptInv'
<1> USE DEF CommandTrees
<1>1. CommandLocals' /\ OthersStay(c)
  BY LocalsStep DEF KeptInv, InmateStep
<1>2. PICK n \in Names : n = name[c]
  BY DEF KeptInv, CommandLocals
<1>3. dir \in [Names -> Trees \cup {None}] /\ upstream \in Trees /\ present \subseteq Names
      /\ \A m \in present : dir[m] # None \/ Held(m)
  BY DEF KeptInv
<1>4. CommandTrees(c)
  BY DEF KeptInv
<1>5. CASE Retire(c) /\ ~Fail(c)
  <2>1. /\ pc[c] = "retire" /\ pc'[c] = "place" /\ name'[c] = n /\ tree'[c] = tree[c]
        /\ retired'[c] = dir[n] /\ dir' = [dir EXCEPT ![n] = None]
        /\ UNCHANGED <<upstream, present>>
    BY <1>2, <1>5 DEF Retire, Go, KeptInv, CommandLocals
  <2>2. ASSUME NEW m \in present' PROVE dir'[m] # None \/ Held(m)'
    <3>1. CASE dir[m] = None
      BY <2>1, <2>2, <3>1, <1>1, OthersHold
    <3>2. CASE dir[m] # None /\ m = n
      BY <2>1, <3>2 DEF Held
    <3>3. CASE dir[m] # None /\ m # n
      BY <2>1, <2>2, <3>3, <1>3
    <3>4. QED
      BY <3>1, <3>2, <3>3
  <2>3. dir' \in [Names -> Trees \cup {None}]
    BY <2>1, <1>3
  <2>4. CommandTrees(c)'
    BY <2>1, <1>3, <1>4
  <2>5. QED
    BY <2>1, <2>2, <2>3, <2>4, <1>1, <1>3, KeptStep
<1>6. CASE Place(c)
  <2>1. /\ pc[c] = "place" /\ pc'[c] = "hash" /\ dir' = [dir EXCEPT ![n] = tree[c]]
        /\ present' = present \cup {n} /\ upstream' = upstream
    BY <1>2, <1>6 DEF Place, Go, KeptInv, CommandLocals
  <2>2. tree[c] \in Trees /\ tree[c] # None
    BY <2>1, <1>4, InmatesConstants
  <2>3. ASSUME NEW m \in present' PROVE dir'[m] # None \/ Held(m)'
    <3>1. CASE m = n
      BY <2>1, <2>2, <3>1, <1>3
    <3>2. CASE m # n
      <4>1. m \in present /\ dir'[m] = dir[m]
        BY <2>1, <2>3, <3>2, <1>3
      <4>2. QED
        BY <3>2, <4>1, <1>1, <1>2, OthersHold
    <3>3. QED
      BY <3>1, <3>2
  <2>4. dir' \in [Names -> Trees \cup {None}]
    BY <2>1, <2>2, <1>3
  <2>5. QED
    BY <2>1, <2>3, <2>4, <1>1, <1>3, KeptStep
<1>7. CASE PlaceFails(c)
  <2>1. pc[c] = "place" /\ UNCHANGED <<upstream, present>>
        /\ dir' = IF dir[n] = None THEN [dir EXCEPT ![n] = retired[c]] ELSE dir
    BY <1>2, <1>7 DEF PlaceFails, Restored
  <2>2. pc'[c] = "idle"
    BY <1>7, ReturnLocals DEF PlaceFails, KeptInv
  <2>3. retired[c] \in Trees \cup {None}
    BY <2>1, <1>4
  <2>4. ASSUME NEW m \in present' PROVE dir'[m] # None \/ Held(m)'
    <3>1. CASE m = n /\ retired[c] # None
      BY <2>1, <3>1, <1>3
    <3>2. CASE m # n \/ retired[c] = None
      <4>1. m \in present /\ (dir[m] # None => dir'[m] # None)
        BY <2>1, <2>4, <3>2, <1>3
      <4>2. QED
        BY <3>2, <4>1, <1>1, <1>2, OthersHold
    <3>3. QED
      BY <3>1, <3>2
  <2>5. dir' \in [Names -> Trees \cup {None}]
    BY <2>1, <2>3, <1>3
  <2>6. QED
    BY <2>1, <2>2, <2>4, <2>5, <1>1, <1>3, KeptStep
<1>8. QED
  BY <1>5, <1>6, <1>7

\* A removal, and an interrupted update, give up the inmate that they hold.
LEMMA GivenUpKeeps ==
    ASSUME KeptInv, NEW c \in Procs, RemoveDir(c) \/ Crash(c)
    PROVE  KeptInv'
<1> USE DEF CommandTrees
<1>1. CommandLocals' /\ OthersStay(c)
  BY LocalsStep DEF KeptInv, InmateStep
<1>2. PICK n \in Names : n = name[c]
  BY DEF KeptInv, CommandLocals
<1>3. dir \in [Names -> Trees \cup {None}] /\ upstream \in Trees /\ present \subseteq Names
  BY DEF KeptInv
<1>4. CASE RemoveDir(c)
  <2>1. /\ pc[c] = "removeDir" /\ pc'[c] = "removeRecord" /\ dir' = [dir EXCEPT ![n] = None]
        /\ present' = present \ {n} /\ upstream' = upstream
    BY <1>2, <1>4 DEF RemoveDir, Go, KeptInv, CommandLocals
  <2>2. ASSUME NEW m \in present' PROVE dir'[m] # None \/ Held(m)'
    <3>1. m \in present /\ m # n /\ dir'[m] = dir[m]
      BY <2>1, <2>2, <1>3
    <3>2. QED
      BY <2>1, <3>1, <1>1, OthersHold
  <2>3. dir' \in [Names -> Trees \cup {None}]
    BY <2>1, <1>3
  <2>4. QED
    BY <2>1, <2>2, <2>3, <1>1, <1>3, KeptStep
<1>5. CASE Crash(c)
  <2>1. /\ UNCHANGED <<upstream, dir>>
        /\ present' = IF pc[c] = "place" THEN present \ {n} ELSE present
    BY <1>2, <1>5 DEF Crash, files
  <2>2. pc'[c] = "idle"
    BY <1>5, ReturnLocals DEF Crash, KeptInv
  <2>3. ASSUME NEW m \in present' PROVE dir'[m] # None \/ Held(m)'
    <3>1. m \in present /\ (pc[c] # "place" \/ name[c] # m) /\ dir'[m] = dir[m]
      BY <2>1, <2>3, <1>2
    <3>2. QED
      BY <3>1, <1>1, OthersHold
  <2>4. QED
    BY <2>1, <2>2, <2>3, <1>1, <1>3, KeptStep
<1>6. QED
  BY <1>4, <1>5

LEMMA WorldKeeps ==
    ASSUME KeptInv, Publish \/ (\E n \in Names : Edit(n) \/ Upgrade(n)) \/ UNCHANGED inmateVars
    PROVE  KeptInv'
<1> USE DEF KeptInv, CommandLocals, CommandTrees, Held, locals
<1>1. CASE Publish
  BY <1>1 DEF Publish, files
<1>2. ASSUME NEW n \in Names, Edit(n) PROVE KeptInv'
  <2>1. PICK t \in Trees : dir' = [dir EXCEPT ![n] = t]
    BY <1>2 DEF Edit
  <2>2. t # None
    BY InmatesConstants
  <2>3. QED
    BY <1>2, <2>1, <2>2 DEF Edit
<1>3. ASSUME NEW n \in Names, Upgrade(n) PROVE KeptInv'
  BY <1>3 DEF Upgrade, files
<1>4. CASE UNCHANGED inmateVars
  BY <1>4 DEF inmateVars, files
<1>5. QED
  BY <1>1, <1>2, <1>3, <1>4

(* An inmate that nobody removed is in its place whenever no command is at   *)
(* work on it, however updates of it overlap and fail: what one has put aside *)
(* is in its hands until it is back or another tree has the place            *)
(* (copyPluginTree).                                                         *)
THEOREM InmatesAreKept == InmatesSpec => []KeptUnlessRemoved
<1>1. InmatesInit => KeptInv
  BY InmatesConstants DEF InmatesInit, KeptInv, CommandLocals, CommandTrees
<1>2. KeptInv /\ [InmatesNext]_inmateVars => KeptInv'
  BY CommandsKeep, UpdatesKeep, GivenUpKeeps, WorldKeeps DEF InmatesNext
<1>3. KeptInv => KeptUnlessRemoved
  BY DEF KeptInv, KeptUnlessRemoved, Held
<1>4. QED
  BY <1>1, <1>2, <1>3, PTL DEF InmatesSpec


----------------------------------------------------------------------------
(* Images. *)

OthersWait(p) == \A q \in Users \ {p} : user'[q] = user[q]

Steps == {"idle", "pack", "store", "config", "copy", "kernel", "run", "undisk"}
             \cup Building \cup Unpacking

\* A command goes to its next step with its locals as they are, or ends.
LEMMA UserGoes ==
    ASSUME user \in [Users -> User], NEW p \in Users, NEW x \in Steps, Goes(p, x)
    PROVE  /\ user' \in [Users -> User] /\ OthersWait(p)
           /\ user'[p].pc = x /\ user'[p].tag = user[p].tag /\ user'[p].build = user[p].build
           /\ user'[p].digest = user[p].digest /\ user'[p].config = user[p].config
           /\ user'[p].disk = user[p].disk /\ user'[p].file = user[p].file
<1>1. user[p] \in User
  OBVIOUS
<1>2. PICK r : r = [user[p] EXCEPT !.pc = x]
  OBVIOUS
<1>3. r \in User
  BY <1>1, <1>2 DEF User, Steps
<1>4. /\ r.pc = x /\ r.tag = user[p].tag /\ r.build = user[p].build /\ r.digest = user[p].digest
      /\ r.config = user[p].config /\ r.disk = user[p].disk /\ r.file = user[p].file
  BY <1>1, <1>2 DEF User
<1>5. user' = [user EXCEPT ![p] = r]
  BY <1>2 DEF Goes
<1>6. user' \in [Users -> User] /\ OthersWait(p) /\ user'[p] = r
  BY <1>3, <1>5 DEF OthersWait
<1>7. QED
  BY <1>4, <1>6

LEMMA RestIsUser == Rest \in User /\ Rest.pc = "idle" /\ Rest.tag = NoTag
BY DEF Rest, User

LEMMA UserEnds ==
    ASSUME user \in [Users -> User], NEW p \in Users, Ends(p)
    PROVE  /\ user' \in [Users -> User] /\ OthersWait(p)
           /\ user'[p].pc = "idle" /\ user'[p].tag = NoTag
<1>1. user' \in [Users -> User] /\ OthersWait(p) /\ user'[p] = Rest
  BY RestIsUser DEF Ends, OthersWait
<1>2. QED
  BY <1>1, RestIsUser

\* A step of one command keeps the invariant if it keeps its own part.
LEMMA ImagesStep ==
    ASSUME ImagesInv, NEW p \in Users, OthersWait(p), ImagesTypeOK', UserInv(p)',
           \A t \in Tags : disk'[t] # HalfDisk,
           \A t \in Tags \ overlapped' : BuildInv(t)',
           ~twice' => KernelInv'
    PROVE  ImagesInv'
<1>1. ASSUME NEW q \in Users \ {p} PROVE UserInv(q)'
  BY DEF ImagesInv, UserInv, OthersWait, At
<1>2. QED
  BY <1>1 DEF ImagesInv

\* The kernel does not notice a command that neither unpacks it nor runs it.
LEMMA KernelWaits ==
    ASSUME KernelInv, NEW p \in Users, OthersWait(p), UNCHANGED <<content, unpacked, kernel>>,
           user'[p].pc \notin Unpacking \cup {"run"}
    PROVE  KernelInv'
BY DEF KernelInv, OthersWait, Unpacking, At

\* A tag does not notice a command of another one.
LEMMA TagWaits ==
    ASSUME NEW t \in Tags, BuildInv(t), NEW p \in Users, OthersWait(p), user'[p].tag # t,
           layout'[t] = layout[t], partial'[t] = partial[t], disk'[t] = disk[t]
    PROVE  BuildInv(t)'
BY DEF BuildInv, Builds, OthersWait, At

\* The end, or the death, of a command that leaves the files alone.
LEMMA EndsKeep ==
    ASSUME ImagesInv, NEW p \in Users, Ends(p), deaths' \in 0 .. MaxDeaths,
           UNCHANGED <<layout, partial, disk, kernelVars, builds, overlapped>>
    PROVE  ImagesInv'
<1>1. user' \in [Users -> User] /\ OthersWait(p) /\ user'[p].pc = "idle" /\ user'[p].tag = NoTag
  BY UserEnds DEF ImagesInv, ImagesTypeOK
<1>2. UserInv(p)'
  BY <1>1 DEF UserInv, At, Building, Handing, Booting, Unpacking
<1>3. \A t \in Tags \ overlapped' : BuildInv(t)'
  BY <1>1, TagWaits, ImagesConstants DEF ImagesInv
<1>4. ~twice' => KernelInv'
  BY <1>1, KernelWaits DEF ImagesInv, kernelVars, Unpacking
<1>5. ImagesTypeOK' /\ \A t \in Tags : disk'[t] # HalfDisk
  BY <1>1 DEF ImagesInv, ImagesTypeOK, kernelVars
<1>6. QED
  BY <1>1, <1>2, <1>3, <1>4, <1>5, ImagesStep


\* A step of a command that builds or takes the image of a tag.
LEMMA TagStep ==
    ASSUME ImagesInv, NEW p \in Users, OthersWait(p), user' \in [Users -> User],
           NEW t \in Tags, user'[p].tag = t, user'[p].pc \notin Unpacking \cup {"run"},
           UNCHANGED kernelVars, UNCHANGED deaths, builds' \in 0 .. MaxBuilds,
           overlapped \subseteq overlapped', overlapped' \subseteq Tags,
           layout' \in [Tags -> Layout], partial' \in [Tags -> Layout],
           disk' \in [Tags -> {HalfDisk, Nowhere} \cup BuildIds],
           \A s \in Tags \ {t} : layout'[s] = layout[s] /\ partial'[s] = partial[s]
                                   /\ disk'[s] = disk[s],
           disk'[t] # HalfDisk, UserInv(p)',
           t \notin overlapped' => BuildInv(t)'
    PROVE  ImagesInv'
<1>1. \A s \in Tags \ overlapped' : BuildInv(s)'
  BY TagWaits DEF ImagesInv
<1>2. ~twice' => KernelInv'
  BY KernelWaits DEF ImagesInv, kernelVars
<1>3. ImagesTypeOK'
  BY DEF ImagesInv, ImagesTypeOK, kernelVars
<1>4. \A s \in Tags : disk'[s] # HalfDisk
  BY DEF ImagesInv
<1>5. QED
  BY <1>1, <1>2, <1>3, <1>4, ImagesStep

\* Ensure: a build starts only where no index is.
LEMMA BuildKeeps ==
    ASSUME ImagesInv, NEW p \in Users, NEW t \in Tags, Build(p, t)
    PROVE  ImagesInv'
<1>1. builds \in 0 .. MaxBuilds /\ MaxBuilds \in Nat /\ builds < MaxBuilds
      /\ user \in [Users -> User] /\ overlapped \subseteq Tags
  BY ImagesConstants DEF Build, ImagesInv, ImagesTypeOK
<1>2. PICK b \in BuildIds : b = builds + 1
  BY <1>1 DEF BuildIds
<1>3. builds' \in 0 .. MaxBuilds
  BY <1>1 DEF Build
<1>4. PICK r : r = [Rest EXCEPT !.pc = "contexts", !.tag = t, !.build = b]
  OBVIOUS
<1>5. r.pc = "contexts" /\ r.tag = t /\ r.build = b /\ r \in User
  BY <1>4, RestIsUser DEF User, Building
<1>6. user' = [user EXCEPT ![p] = r]
  BY <1>2, <1>4 DEF Build
<1>7. user' \in [Users -> User] /\ user'[p] = r /\ OthersWait(p)
  BY <1>1, <1>5, <1>6 DEF OthersWait
<1>8. /\ overlapped \subseteq overlapped' /\ overlapped' \subseteq Tags
      /\ UNCHANGED <<layout, partial, disk, kernelVars, deaths>> /\ ~ImageExists(t)
      /\ t \notin overlapped' => ~OthersAt(p, t, Building) /\ t \notin overlapped
  BY <1>1 DEF Build
<1>9. t \notin overlapped' => BuildInv(t)'
  <2> SUFFICES ASSUME t \notin overlapped' PROVE BuildInv(t)'
    OBVIOUS
  <2>1. BuildInv(t) /\ layout[t].index = Nowhere
    BY <1>8 DEF ImagesInv, ImageExists
  <2>2. \A q \in Users \ {p} : ~Builds(q, t)
    BY <1>8 DEF OthersAt, Builds
  <2>3. QED
    BY <2>1, <2>2, <1>5, <1>7, <1>8
       DEF BuildInv, Builds, OthersWait, At, Building, Handing, Booting, Unpacking
<1>10. UserInv(p)'
  BY <1>5, <1>7 DEF UserInv, At, Building, Handing, Booting, Unpacking
<1>11. /\ layout' \in [Tags -> Layout] /\ partial' \in [Tags -> Layout]
       /\ disk' \in [Tags -> {HalfDisk, Nowhere} \cup BuildIds] /\ disk'[t] # HalfDisk
  BY <1>8 DEF ImagesInv, ImagesTypeOK
<1>12. user'[p].tag = t /\ user'[p].pc \notin Unpacking \cup {"run"}
  BY <1>5, <1>7 DEF Unpacking
<1>13. QED
  BY <1>3, <1>7, <1>8, <1>9, <1>10, <1>11, <1>12, TagStep

\* What a command of a tag knows before its step.
LEMMA TagOf ==
    ASSUME ImagesInv, NEW p \in Users, ~At(p, "idle")
    PROVE  /\ user[p].tag \in Tags /\ UserInv(p)
           /\ user[p].tag \notin overlapped => BuildInv(user[p].tag)
           /\ layout \in [Tags -> Layout] /\ partial \in [Tags -> Layout]
           /\ disk \in [Tags -> {HalfDisk, Nowhere} \cup BuildIds]
           /\ disk[user[p].tag] # HalfDisk /\ user \in [Users -> User]
           /\ builds \in 0 .. MaxBuilds /\ overlapped \subseteq Tags
BY DEF ImagesInv, UserInv, ImagesTypeOK

\* The steps of a build up to the index, with the directory next to the layout.
LEMMA BuilderGoes ==
    ASSUME ImagesInv, NEW p \in Users, NEW t \in Tags, t = user[p].tag, OthersWait(p),
           user[p].pc \in Building, user' \in [Users -> User],
           user'[p].pc \in Building, user'[p].tag = t, user'[p].build = user[p].build,
           UNCHANGED <<disk, kernelVars, builds, deaths, overlapped>>,
           layout' \in [Tags -> Layout], partial' \in [Tags -> Layout],
           \A s \in Tags \ {t} : layout'[s] = layout[s] /\ partial'[s] = partial[s],
           t \notin overlapped => layout'[t].index = layout[t].index,
           t \notin overlapped /\ user'[p].pc \in {"index", "unlayout", "rename"} =>
               user[p].build \in partial'[t].blobs,
           t \notin overlapped /\ user'[p].pc \in {"unlayout", "rename"} =>
               partial'[t].index = user[p].build
    PROVE  ImagesInv'
<1>1. /\ UserInv(p) /\ (t \notin overlapped => BuildInv(t)) /\ builds \in 0 .. MaxBuilds
      /\ disk \in [Tags -> {HalfDisk, Nowhere} \cup BuildIds] /\ disk[t] # HalfDisk
      /\ overlapped \subseteq Tags
  BY TagOf DEF At, Building
<1>2. UserInv(p)'
  BY <1>1 DEF UserInv, At, Building, Handing, Booting, Unpacking
<1>3. t \notin overlapped' => BuildInv(t)'
  <2> SUFFICES ASSUME t \notin overlapped PROVE BuildInv(t)'
    OBVIOUS
  <2>1. \A q \in Users \ {p} : ~Builds(q, t)
    BY <1>1 DEF BuildInv, Builds
  <2>2. layout[t].index = Nowhere /\ layout'[t].index = Nowhere
    BY <1>1 DEF BuildInv
  <2>3. QED
    BY <1>1, <2>1, <2>2 DEF BuildInv, Builds, OthersWait, At, Building, Handing, Booting, Unpacking
<1>4. user'[p].pc \notin Unpacking \cup {"run"}
  BY DEF Building, Unpacking
<1>5. QED
  BY <1>1, <1>2, <1>3, <1>4, TagStep


\* localImageContexts pins the image of the base.
LEMMA ContextsKeep ==
    ASSUME ImagesInv, NEW p \in Users, localImageContexts(p)
    PROVE  ImagesInv'
<1>1. At(p, "contexts") /\ UNCHANGED <<layout, partial, disk, kernelVars, builds, deaths, overlapped>>
  BY DEF localImageContexts
<1>2. PICK t \in Tags : t = user[p].tag
  BY <1>1, TagOf DEF At
<1>3. /\ user[p].pc \in Building /\ user \in [Users -> User]
      /\ layout \in [Tags -> Layout] /\ partial \in [Tags -> Layout]
  BY <1>1, TagOf DEF At, Building
<1>4. CASE Ends(p)
  BY <1>1, <1>4, EndsKeep DEF ImagesInv, ImagesTypeOK
<1>5. CASE Goes(p, "clear")
  <2>1. user' \in [Users -> User] /\ OthersWait(p) /\ user'[p].pc = "clear"
        /\ user'[p].tag = t /\ user'[p].build = user[p].build
    BY <1>2, <1>3, <1>5, UserGoes DEF Steps, Building
  <2>2. QED
    BY <1>1, <1>2, <1>3, <2>1, BuilderGoes DEF Building
<1>6. CASE ~Ends(p) /\ ~Goes(p, "clear")
  <2>1. PICK base \in Tags :
          user' = [user EXCEPT ![p].pc = "clear", ![p].digest = layout[base].index]
    BY <1>2, <1>6, ImagesConstants DEF localImageContexts
  <2>2. PICK d \in {Nowhere} \cup BuildIds : d = layout[base].index
    BY <1>3 DEF Layout
  <2>3. PICK r : r = [user[p] EXCEPT !.pc = "clear", !.digest = d]
    OBVIOUS
  <2>4. user[p] \in User
    BY <1>3
  <2>5. r \in User
    BY <2>3, <2>4 DEF User, Building
  <2>6. r.pc = "clear" /\ r.tag = t /\ r.build = user[p].build
    BY <1>2, <2>3, <2>4 DEF User
  <2>7. user' = [user EXCEPT ![p] = r]
    BY <2>1, <2>2, <2>3
  <2>8. user' \in [Users -> User] /\ OthersWait(p) /\ user'[p] = r
    BY <1>3, <2>5, <2>7 DEF OthersWait
  <2>9. QED
    BY <1>1, <1>2, <1>3, <2>6, <2>8, BuilderGoes DEF Building
<1>7. QED
  BY <1>4, <1>5, <1>6

\* The directory next to the layout is cleared; the blobs come before the index.
LEMMA PartialKeeps ==
    ASSUME ImagesInv, NEW p \in Users, ClearPartial(p) \/ WriteBlobs(p) \/ WriteIndex(p)
    PROVE  ImagesInv'
<1>1. /\ user[p].pc \in {"clear", "blobs", "index"}
      /\ UNCHANGED <<layout, disk, kernelVars, builds, deaths, overlapped>>
  BY DEF ClearPartial, WriteBlobs, WriteIndex, At
<1>2. PICK t \in Tags : t = user[p].tag
  BY <1>1, TagOf DEF At
<1>3. PICK b \in BuildIds : b = user[p].build
  BY <1>1, TagOf DEF At, UserInv, Building
<1>4. /\ user[p].pc \in Building /\ user \in [Users -> User] /\ partial[t] \in Layout
      /\ layout \in [Tags -> Layout] /\ partial \in [Tags -> Layout]
      /\ (t \notin overlapped => BuildInv(t))
  BY <1>1, <1>2, TagOf DEF At, Building
<1>5. PICK x \in {"blobs", "index", "rename", "unlayout"} : Goes(p, x)
        /\ (x = "blobs" => ClearPartial(p)) /\ (x = "index" => WriteBlobs(p))
        /\ (x \in {"rename", "unlayout"} => WriteIndex(p))
  BY DEF ClearPartial, WriteBlobs, WriteIndex
<1>6. user' \in [Users -> User] /\ OthersWait(p) /\ user'[p].pc = x
      /\ user'[p].tag = t /\ user'[p].build = b
  BY <1>2, <1>3, <1>4, <1>5, UserGoes DEF Steps, Building
<1>7. CASE x = "blobs"
  <2>1. partial' = [partial EXCEPT ![t] = Empty] /\ Empty \in Layout
    BY <1>2, <1>5, <1>7 DEF ClearPartial, Empty, Layout
  <2>2. partial' \in [Tags -> Layout] /\ \A s \in Tags \ {t} : partial'[s] = partial[s]
    BY <1>4, <2>1
  <2>3. QED
    BY <1>1, <1>2, <1>3, <1>4, <1>6, <1>7, <2>2, BuilderGoes DEF Building
<1>8. CASE x = "index"
  <2>1. PICK l : l = [partial[t] EXCEPT !.blobs = @ \cup {b}]
    OBVIOUS
  <2>2. l \in Layout /\ b \in l.blobs
    BY <1>4, <2>1 DEF Layout
  <2>3. partial' = [partial EXCEPT ![t] = l]
    BY <1>2, <1>3, <1>5, <1>8, <2>1 DEF WriteBlobs
  <2>4. partial' \in [Tags -> Layout] /\ partial'[t] = l
        /\ \A s \in Tags \ {t} : partial'[s] = partial[s]
    BY <1>4, <2>2, <2>3
  <2>5. QED
    BY <1>1, <1>2, <1>3, <1>4, <1>6, <1>8, <2>2, <2>4, BuilderGoes DEF Building
<1>9. CASE x \in {"rename", "unlayout"}
  <2>1. PICK l : l = [partial[t] EXCEPT !.index = b]
    OBVIOUS
  <2>2. l \in Layout /\ l.index = b /\ l.blobs = partial[t].blobs
    BY <1>4, <2>1 DEF Layout
  <2>3. partial' = [partial EXCEPT ![t] = l] /\ At(p, "index")
    BY <1>2, <1>3, <1>5, <1>9, <2>1 DEF WriteIndex
  <2>4. partial' \in [Tags -> Layout] /\ partial'[t] = l
        /\ \A s \in Tags \ {t} : partial'[s] = partial[s]
    BY <1>4, <2>2, <2>3
  <2>5. t \notin overlapped => b \in l.blobs
    BY <1>2, <1>3, <1>4, <2>2, <2>3 DEF BuildInv, At
  <2>6. QED
    BY <1>1, <1>2, <1>3, <1>4, <1>6, <1>9, <2>2, <2>4, <2>5, BuilderGoes DEF Building
<1>10. QED
  BY <1>7, <1>8, <1>9

\* A build clears what it has written, or drops the old disk, and ends.
LEMMA BuildEndsKeeps ==
    ASSUME ImagesInv, NEW p \in Users, BuildFails(p) \/ RemoveDisk(p)
    PROVE  ImagesInv'
<1>1. /\ user[p].pc \in {"blobs", "index", "undisk"} /\ Ends(p)
      /\ UNCHANGED <<layout, kernelVars, builds, deaths, overlapped>>
  BY DEF BuildFails, RemoveDisk, At
<1>2. PICK t \in Tags : t = user[p].tag
  BY <1>1, TagOf DEF At
<1>3. /\ partial \in [Tags -> Layout] /\ disk \in [Tags -> {HalfDisk, Nowhere} \cup BuildIds]
      /\ (t \notin overlapped => BuildInv(t)) /\ disk[t] # HalfDisk
  BY <1>1, <1>2, TagOf DEF At
<1>4. \/ /\ partial' = [partial EXCEPT ![t] = Empty] /\ Empty \in Layout /\ disk' = disk
         /\ user[p].pc \in Building
      \/ disk' = [disk EXCEPT ![t] = Nowhere] /\ partial' = partial
  BY <1>2 DEF BuildFails, RemoveDisk, Empty, Layout, Building
<1>5. /\ partial' \in [Tags -> Layout] /\ disk' \in [Tags -> {HalfDisk, Nowhere} \cup BuildIds]
      /\ disk'[t] \in {disk[t], Nowhere}
      /\ \A s \in Tags \ {t} : partial'[s] = partial[s] /\ disk'[s] = disk[s]
  BY <1>3, <1>4
<1>6. user' \in [Users -> User] /\ OthersWait(p) /\ user'[p].pc = "idle" /\ user'[p].tag = NoTag
  BY <1>1, UserEnds DEF ImagesInv, ImagesTypeOK
<1>7. ASSUME NEW s \in Tags \ overlapped' PROVE BuildInv(s)'
  <2>1. CASE s # t
    BY <1>1, <1>5, <1>6, <1>7, <2>1, TagWaits, ImagesConstants DEF ImagesInv
  <2>2. CASE s = t
    <3>1. partial'[t] = partial[t] \/ \A q \in Users \ {p} : ~Builds(q, t)
      BY <1>1, <1>2, <1>3, <1>4, <1>7, <2>2 DEF BuildInv, Builds
    <3>2. QED
      BY <1>1, <1>3, <1>5, <1>6, <1>7, <2>2, <3>1, ImagesConstants
         DEF BuildInv, Builds, OthersWait, At, Building, Handing, Booting, Unpacking
  <2>3. QED
    BY <2>1, <2>2
<1>8. UserInv(p)'
  BY <1>6 DEF UserInv, At, Building, Handing, Booting, Unpacking
<1>9. ~twice' => KernelInv'
  BY <1>1, <1>6, KernelWaits DEF ImagesInv, kernelVars, Unpacking
<1>10. ImagesTypeOK' /\ \A s \in Tags : disk'[s] # HalfDisk
  BY <1>1, <1>3, <1>5, <1>6 DEF ImagesInv, ImagesTypeOK, kernelVars, Nowhere, HalfDisk
<1>11. QED
  BY <1>6, <1>7, <1>8, <1>9, <1>10, ImagesStep


\* The old layout goes away, and with it no index that anyone reads.
LEMMA RemoveLayoutKeeps ==
    ASSUME ImagesInv, NEW p \in Users, RemoveLayout(p)
    PROVE  ImagesInv'
<1>1. /\ At(p, "unlayout") /\ UNCHANGED <<partial, disk, kernelVars, builds, deaths, overlapped>>
  BY DEF RemoveLayout
<1>2. PICK t \in Tags : t = user[p].tag
  BY <1>1, TagOf DEF At
<1>3. PICK left \in {Empty, [layout[t] EXCEPT !.index = Nowhere], [layout[t] EXCEPT !.blobs = {}]} :
        /\ layout' = [layout EXCEPT ![t] = left]
        /\ Goes(p, IF left = Empty THEN "rename" ELSE "unlayout")
  BY <1>2 DEF RemoveLayout
<1>4. /\ user[p].pc \in Building /\ user \in [Users -> User] /\ layout[t] \in Layout
      /\ layout \in [Tags -> Layout] /\ partial \in [Tags -> Layout]
      /\ (t \notin overlapped => BuildInv(t))
  BY <1>1, <1>2, TagOf DEF At, Building
<1>5. left \in Layout /\ left.index \in {Nowhere, layout[t].index}
  BY <1>3, <1>4 DEF Layout, Empty
<1>6. layout' \in [Tags -> Layout] /\ layout'[t] = left
      /\ \A s \in Tags \ {t} : layout'[s] = layout[s]
  BY <1>3, <1>4, <1>5
<1>7. t \notin overlapped => /\ layout'[t].index = layout[t].index
                             /\ user[p].build \in partial[t].blobs
                             /\ partial[t].index = user[p].build
  BY <1>1, <1>2, <1>4, <1>5, <1>6 DEF BuildInv, At
<1>8. PICK x \in {"rename", "unlayout"} : Goes(p, x)
  BY <1>3
<1>9. user' \in [Users -> User] /\ OthersWait(p) /\ user'[p].pc = x
      /\ user'[p].tag = t /\ user'[p].build = user[p].build
  BY <1>2, <1>4, <1>8, UserGoes DEF Steps, Building
<1>10. QED
  BY <1>1, <1>2, <1>4, <1>6, <1>7, <1>8, <1>9, BuilderGoes DEF Building

\* The layout moves to its place: its index names the build whose blobs it holds.
LEMMA RenameLayoutKeeps ==
    ASSUME ImagesInv, NEW p \in Users, RenameLayout(p)
    PROVE  ImagesInv'
<1>1. At(p, "rename") /\ UNCHANGED <<disk, kernelVars, builds, deaths, overlapped>>
  BY DEF RenameLayout
<1>2. PICK t \in Tags : t = user[p].tag
  BY <1>1, TagOf DEF At
<1>3. /\ user \in [Users -> User] /\ layout \in [Tags -> Layout] /\ partial \in [Tags -> Layout]
      /\ disk \in [Tags -> {HalfDisk, Nowhere} \cup BuildIds] /\ disk[t] # HalfDisk
      /\ (t \notin overlapped => BuildInv(t)) /\ overlapped \subseteq Tags /\ builds \in 0 .. MaxBuilds
  BY <1>1, <1>2, TagOf DEF At
<1>4. CASE Ends(p) /\ UNCHANGED <<layout, partial>>
  BY <1>1, <1>4, EndsKeep DEF ImagesInv, ImagesTypeOK
<1>5. CASE ~(Ends(p) /\ UNCHANGED <<layout, partial>>)
  <2>1. /\ layout' = [layout EXCEPT ![t] = partial[t]] /\ partial' = [partial EXCEPT ![t] = Empty]
        /\ Goes(p, "undisk") /\ Empty \in Layout
    BY <1>2, <1>5 DEF RenameLayout, Empty, Layout
  <2>2. /\ layout' \in [Tags -> Layout] /\ partial' \in [Tags -> Layout] /\ layout'[t] = partial[t]
        /\ \A s \in Tags \ {t} : layout'[s] = layout[s] /\ partial'[s] = partial[s]
    BY <1>3, <2>1
  <2>3. user' \in [Users -> User] /\ OthersWait(p) /\ user'[p].pc = "undisk" /\ user'[p].tag = t
    BY <1>2, <1>3, <2>1, UserGoes DEF Steps
  <2>4. UserInv(p)'
    BY <2>3 DEF UserInv, At, Building, Handing, Booting, Unpacking
  <2>5. t \notin overlapped' => BuildInv(t)'
    <3> SUFFICES ASSUME t \notin overlapped PROVE BuildInv(t)'
      BY <1>1
    <3>1. \A q \in Users \ {p} : ~Builds(q, t)
      BY <1>1, <1>2, <1>3 DEF BuildInv, Builds, At, Building
    <3>2. layout[t].index = Nowhere /\ disk[t] = Nowhere /\ layout'[t].index \in layout'[t].blobs
      BY <1>1, <1>2, <1>3, <2>2 DEF BuildInv, At, Building
    <3>3. \A q \in Users : user[q].tag = t => user[q].pc \notin Handing /\ ~At(q, "copy")
      <4>1. \A q \in Users : UserInv(q)
        BY DEF ImagesInv
      <4>2. Nowhere \notin BuildIds
        BY ImagesConstants DEF BuildIds, Nowhere
      <4>3. QED
        BY <1>3, <3>2, <4>1, <4>2 DEF BuildInv, UserInv
    <3>4. QED
      BY <1>1, <1>3, <2>2, <2>3, <3>1, <3>2, <3>3
         DEF BuildInv, Builds, OthersWait, At, Building, Handing, Booting, Unpacking
  <2>6. user'[p].pc \notin Unpacking \cup {"run"}
    BY <2>3 DEF Unpacking
  <2>7. QED
    BY <1>1, <1>3, <2>2, <2>3, <2>4, <2>5, <2>6, TagStep
<1>6. QED
  BY <1>4, <1>5

\* Create: the steps that take an image, up to the copy of its disk.
LEMMA TakerGoes ==
    ASSUME ImagesInv, NEW p \in Users, NEW t \in Tags, OthersWait(p), user' \in [Users -> User],
           user'[p].tag = t, user'[p].pc \in {"pack", "store", "config", "copy", "kernel"},
           UNCHANGED <<layout, partial, kernelVars, builds, deaths, overlapped>>,
           disk' \in [Tags -> {HalfDisk, Nowhere} \cup BuildIds], disk'[t] # HalfDisk,
           \A s \in Tags \ {t} : disk'[s] = disk[s],
           UserInv(p)',
           t \notin overlapped => disk'[t] \in {disk[t], layout[t].index},
           t \notin overlapped =>
               /\ user'[p].pc \in Handing => user'[p].digest = layout[t].index
               /\ user'[p].pc = "copy" => user'[p].config = layout[t].index
               /\ user'[p].pc = "kernel" => user'[p].disk = user'[p].config
    PROVE  ImagesInv'
<1>1. t \notin overlapped' => BuildInv(t)'
  BY DEF ImagesInv, BuildInv, Builds, OthersWait, At, Building, Handing, Booting, Unpacking
<1>2. /\ user'[p].pc \notin Unpacking \cup {"run"} /\ builds \in 0 .. MaxBuilds
      /\ overlapped \subseteq Tags /\ layout \in [Tags -> Layout] /\ partial \in [Tags -> Layout]
  BY DEF ImagesInv, ImagesTypeOK, Unpacking
<1>3. QED
  BY <1>1, <1>2, TagStep


LEMMA BuildsAreNumbered == Nowhere \notin BuildIds /\ HalfDisk \notin BuildIds
BY ImagesConstants DEF BuildIds, Nowhere, HalfDisk

\* ensureDisk: what has no disk is packed from the image that is there.
LEMMA EnsureDiskKeeps ==
    ASSUME ImagesInv, NEW p \in Users, NEW t \in Tags, ensureDisk(p, t)
    PROVE  ImagesInv'
<1>1. UNCHANGED <<layout, partial, disk, kernelVars, builds, deaths, overlapped>>
  BY DEF ensureDisk
<1>2. /\ user \in [Users -> User] /\ layout[t] \in Layout
      /\ disk \in [Tags -> {HalfDisk, Nowhere} \cup BuildIds] /\ disk[t] # HalfDisk
  BY DEF ImagesInv, ImagesTypeOK
<1>3. PICK r : /\ user' = [user EXCEPT ![p] = r]
               /\ \/ r = [Rest EXCEPT !.pc = "config", !.tag = t]
                  \/ /\ r = [Rest EXCEPT !.pc = "pack", !.tag = t, !.digest = layout[t].index]
                     /\ layout[t].index # Nowhere
  BY DEF ensureDisk, ImageExists
<1>4. layout[t].index \in {Nowhere} \cup BuildIds
  BY <1>2 DEF Layout
<1>5. /\ r \in User /\ r.tag = t /\ r.pc \in {"config", "pack"}
      /\ r.pc = "pack" => r.digest = layout[t].index /\ r.digest \in BuildIds
  BY <1>3, <1>4, RestIsUser DEF User
<1>6. user' \in [Users -> User] /\ OthersWait(p) /\ user'[p] = r
  BY <1>2, <1>3, <1>5 DEF OthersWait
<1>7. UserInv(p)'
  BY <1>5, <1>6 DEF UserInv, At, Building, Handing, Booting, Unpacking
<1>8. QED
  BY <1>1, <1>2, <1>5, <1>6, <1>7, TakerGoes DEF Handing

\* runBuild for ensureDisk, and the disk that it moves to its place.
LEMMA PackKeeps ==
    ASSUME ImagesInv, NEW p \in Users, Pack(p) \/ StoreDisk(p)
    PROVE  ImagesInv'
<1>1. /\ user[p].pc \in Handing
      /\ UNCHANGED <<layout, partial, kernelVars, builds, deaths, overlapped>>
  BY DEF Pack, StoreDisk, At, Handing
<1>2. PICK t \in Tags : t = user[p].tag
  BY <1>1, TagOf DEF At, Handing
<1>3. /\ user \in [Users -> User] /\ UserInv(p)
      /\ disk \in [Tags -> {HalfDisk, Nowhere} \cup BuildIds] /\ disk[t] # HalfDisk
      /\ (t \notin overlapped => BuildInv(t))
  BY <1>1, <1>2, TagOf DEF At, Handing
<1>4. PICK d \in BuildIds : d = user[p].digest
  BY <1>1, <1>3 DEF UserInv
<1>5. t \notin overlapped => d = layout[t].index
  BY <1>1, <1>2, <1>3, <1>4 DEF BuildInv
<1>6. CASE Pack(p)
  <2>1. CASE Ends(p)
    BY <1>1, <1>6, <2>1, EndsKeep DEF Pack, ImagesInv, ImagesTypeOK
  <2>2. CASE Goes(p, "store")
    <3>1. user' \in [Users -> User] /\ OthersWait(p) /\ user'[p].pc = "store"
          /\ user'[p].tag = t /\ user'[p].digest = d /\ disk' = disk
      BY <1>2, <1>3, <1>4, <1>6, <2>2, UserGoes DEF Steps, Pack
    <3>2. UserInv(p)'
      BY <3>1 DEF UserInv, At, Building, Handing, Booting, Unpacking
    <3>3. QED
      BY <1>1, <1>3, <1>5, <3>1, <3>2, TakerGoes
  <2>3. QED
    BY <1>6, <2>1, <2>2 DEF Pack
<1>7. CASE StoreDisk(p)
  <2>1. /\ disk' = [disk EXCEPT ![t] = d]
        /\ user' = [user EXCEPT ![p].pc = "config", ![p].digest = Nowhere]
    BY <1>2, <1>4, <1>7 DEF StoreDisk
  <2>2. PICK r : r = [user[p] EXCEPT !.pc = "config", !.digest = Nowhere]
    OBVIOUS
  <2>3. user[p] \in User
    BY <1>3
  <2>4. r \in User /\ r.pc = "config" /\ r.tag = t
    BY <1>2, <2>2, <2>3 DEF User
  <2>5. user' = [user EXCEPT ![p] = r]
    BY <2>1, <2>2
  <2>6. user' \in [Users -> User] /\ OthersWait(p) /\ user'[p] = r
    BY <1>3, <2>4, <2>5 DEF OthersWait
  <2>7. /\ disk' \in [Tags -> {HalfDisk, Nowhere} \cup BuildIds] /\ disk'[t] = d /\ d # HalfDisk
        /\ \A s \in Tags \ {t} : disk'[s] = disk[s]
    BY <1>3, <2>1, BuildsAreNumbered
  <2>8. UserInv(p)'
    BY <2>4, <2>6 DEF UserInv, At, Building, Handing, Booting, Unpacking
  <2>9. QED
    BY <1>1, <1>5, <2>4, <2>6, <2>7, <2>8, TakerGoes DEF Handing
<1>8. QED
  BY <1>6, <1>7

\* The configuration of the box is of the index, and so is the disk that it copies.
LEMMA TakeKeeps ==
    ASSUME ImagesInv, NEW p \in Users, readImageConfig(p) \/ CopyToBox(p)
    PROVE  ImagesInv'
<1>1. /\ user[p].pc \in {"config", "copy"}
      /\ UNCHANGED <<layout, partial, disk, kernelVars, builds, deaths, overlapped>>
  BY DEF readImageConfig, CopyToBox, At
<1>2. PICK t \in Tags : t = user[p].tag
  BY <1>1, TagOf DEF At
<1>3. /\ user \in [Users -> User] /\ UserInv(p) /\ layout[t] \in Layout
      /\ disk \in [Tags -> {HalfDisk, Nowhere} \cup BuildIds] /\ disk[t] # HalfDisk
      /\ (t \notin overlapped => BuildInv(t))
  BY <1>1, <1>2, TagOf DEF At
<1>4. user[p] \in User
  BY <1>3
<1>5. CASE Ends(p)
  BY <1>1, <1>5, EndsKeep DEF ImagesInv, ImagesTypeOK
<1>6. CASE readImageConfig(p) /\ ~Ends(p)
  <2>1. PICK b : b = layout[t].index
    OBVIOUS
  <2>2. b \in BuildIds /\ user' = [user EXCEPT ![p].pc = "copy", ![p].config = b]
    BY <1>2, <1>3, <1>6, <2>1 DEF readImageConfig, Layout
  <2>3. PICK r : r = [user[p] EXCEPT !.pc = "copy", !.config = b]
    OBVIOUS
  <2>4. r \in User /\ r.pc = "copy" /\ r.tag = t /\ r.config = b
    BY <1>2, <1>4, <2>2, <2>3 DEF User
  <2>5. user' = [user EXCEPT ![p] = r]
    BY <2>2, <2>3
  <2>6. user' \in [Users -> User] /\ OthersWait(p) /\ user'[p] = r
    BY <1>3, <2>4, <2>5 DEF OthersWait
  <2>7. UserInv(p)'
    BY <2>2, <2>4, <2>6 DEF UserInv, At, Building, Handing, Booting, Unpacking
  <2>8. QED
    BY <1>1, <1>3, <2>1, <2>4, <2>6, <2>7, TakerGoes DEF Handing
<1>7. CASE CopyToBox(p) /\ ~Ends(p)
  <2>1. PICK d : d = disk[t]
    OBVIOUS
  <2>2. d \in BuildIds /\ user' = [user EXCEPT ![p].pc = "kernel", ![p].disk = d] /\ At(p, "copy")
    BY <1>2, <1>3, <1>7, <2>1 DEF CopyToBox
  <2>3. PICK r : r = [user[p] EXCEPT !.pc = "kernel", !.disk = d]
    OBVIOUS
  <2>4. r \in User /\ r.pc = "kernel" /\ r.tag = t /\ r.disk = d /\ r.config = user[p].config
    BY <1>2, <1>4, <2>2, <2>3 DEF User
  <2>5. user' = [user EXCEPT ![p] = r]
    BY <2>2, <2>3
  <2>6. user' \in [Users -> User] /\ OthersWait(p) /\ user'[p] = r
    BY <1>3, <2>4, <2>5 DEF OthersWait
  <2>7. UserInv(p)'
    BY <2>2, <2>4, <2>6 DEF UserInv, At, Building, Handing, Booting, Unpacking
  <2>8. t \notin overlapped => d = user[p].config
    BY <1>2, <1>3, <2>1, <2>2, BuildsAreNumbered DEF BuildInv
  <2>9. QED
    BY <1>1, <1>3, <2>4, <2>6, <2>7, <2>8, TakerGoes DEF Handing
<1>8. QED
  BY <1>5, <1>6, <1>7


\* There is a file that no name and no command has.
LEMMA FreeInode ==
    ASSUME NEW k, NEW f
    PROVE  \E i \in Inodes : i \notin {Nowhere, k} \cup {f[q] : q \in Users}
<1> DEFINE F == {f[q] : q \in Users}
           U == {k} \cup F
<1>1. IsFiniteSet(Users) /\ Cardinality(Users) \in Nat
  BY ImagesConstants, FS_CardinalityType
<1>2. IsFiniteSet(F) /\ Cardinality(F) \in Nat /\ Cardinality(F) <= Cardinality(Users)
  <2>1. [q \in Users |-> f[q]] \in Surjection(Users, F)
    BY DEF Surjection
  <2>2. QED
    BY <1>1, <2>1, FS_Surjection, FS_CardinalityType
<1>3. IsFiniteSet(U) /\ Cardinality(U) \in Nat /\ Cardinality(U) <= Cardinality(Users) + 1
  <2>1. U = F \cup {k}
    OBVIOUS
  <2>2. IsFiniteSet(U) /\ Cardinality(U) = (IF k \in F THEN Cardinality(F) ELSE Cardinality(F) + 1)
    BY <1>2, <2>1, FS_AddElement
  <2>3. QED
    BY <1>1, <1>2, <2>2
<1>4. IsFiniteSet(Inodes) /\ Cardinality(Inodes) = Cardinality(Users) + 2
  <2>1. Cardinality(Users) + 2 \in Int /\ Cardinality(Users) + 2 - 1 + 1 = Cardinality(Users) + 2
    BY <1>1
  <2>2. QED
    BY <1>1, <2>1, FS_Interval DEF Inodes
<1>5. ~(Inodes \subseteq U)
  <2>1. SUFFICES ASSUME Inodes \subseteq U PROVE FALSE
    OBVIOUS
  <2>2. Cardinality(Inodes) <= Cardinality(U)
    BY <1>3, <2>1, FS_Subset
  <2>3. QED
    BY <1>1, <1>3, <1>4, <2>2
<1>6. Nowhere \notin Inodes
  BY <1>1 DEF Inodes, Nowhere
<1>7. QED
  BY <1>5, <1>6


\* A step of a command that boots leaves the images alone.
LEMMA BootStep ==
    ASSUME ImagesInv, NEW p \in Users, OthersWait(p), user' \in [Users -> User], imagesAlone,
           \/ user'[p].pc = "idle" /\ user'[p].tag = NoTag
           \/ /\ user[p].pc \in Booting /\ user'[p].pc \in Booting
              /\ user'[p].tag = user[p].tag /\ user'[p].config = user[p].config
              /\ user'[p].disk = user[p].disk,
           content' \in [Inodes -> SUBSET Parts], unpacked' \in {Nowhere} \cup Inodes,
           kernel' \in {Nowhere} \cup Inodes, twice' \in BOOLEAN,
           ~twice' => KernelInv'
    PROVE  ImagesInv'
<1>1. UserInv(p) /\ \A t \in Tags \ overlapped : BuildInv(t)
  BY DEF ImagesInv
<1>2. UserInv(p)'
  BY <1>1 DEF UserInv, At, Building, Handing, Booting, Unpacking
<1>3. ASSUME NEW t \in Tags \ overlapped' PROVE BuildInv(t)'
  BY <1>1, <1>3, ImagesConstants
     DEF BuildInv, Builds, OthersWait, At, Building, Handing, Booting, Unpacking, imagesAlone
<1>4. ImagesTypeOK' /\ \A t \in Tags : disk'[t] # HalfDisk
  BY DEF ImagesInv, ImagesTypeOK, imagesAlone
<1>5. QED
  BY <1>2, <1>3, <1>4, ImagesStep

\* kernelPath: an unpacking starts only where no kernel is.
LEMMA KernelPathKeeps ==
    ASSUME ImagesInv, NEW p \in Users, kernelPath(p)
    PROVE  ImagesInv'
<1>1. /\ At(p, "kernel") /\ UNCHANGED <<content, unpacked, kernel>> /\ imagesAlone
      /\ user \in [Users -> User] /\ content \in [Inodes -> SUBSET Parts]
      /\ unpacked \in {Nowhere} \cup Inodes /\ kernel \in {Nowhere} \cup Inodes
      /\ twice \in BOOLEAN /\ (~twice => KernelInv)
  BY DEF kernelPath, ImagesInv, ImagesTypeOK
<1>2. PICK x \in {"run", "create"} : Goes(p, x) /\ (x = "run" <=> kernel # Nowhere)
  BY DEF kernelPath
<1>3. /\ user' \in [Users -> User] /\ OthersWait(p) /\ user'[p].pc = x
      /\ user'[p].tag = user[p].tag /\ user'[p].config = user[p].config
      /\ user'[p].disk = user[p].disk
  BY <1>1, <1>2, UserGoes DEF Steps, Unpacking
<1>4. /\ twice' \in BOOLEAN
      /\ ~twice' => ~twice /\ (kernel = Nowhere => \A q \in Users : user[q].pc \notin Unpacking)
  BY <1>1 DEF kernelPath
<1>5. ~twice' => KernelInv'
  <2> SUFFICES ASSUME ~twice' PROVE KernelInv'
    OBVIOUS
  <2>1. CASE x = "run"
    BY <1>1, <1>2, <1>3, <1>4, <2>1 DEF KernelInv, OthersWait, Unpacking, At
  <2>2. CASE x = "create"
    BY <1>1, <1>2, <1>3, <1>4, <2>2 DEF KernelInv, OthersWait, Unpacking, At
  <2>3. QED
    BY <2>1, <2>2
<1>6. user[p].pc \in Booting /\ user'[p].pc \in Booting
  BY <1>1, <1>3 DEF At, Booting, Unpacking
<1>7. QED
  BY <1>1, <1>3, <1>4, <1>5, <1>6, BootStep

\* Create cuts the file that is there, or makes a new one.
LEMMA CreatePartialKeeps ==
    ASSUME ImagesInv, NEW p \in Users, CreatePartial(p)
    PROVE  ImagesInv'
<1>1. /\ At(p, "create") /\ UNCHANGED <<kernel, twice>> /\ imagesAlone
      /\ user \in [Users -> User] /\ content \in [Inodes -> SUBSET Parts]
      /\ unpacked \in {Nowhere} \cup Inodes /\ kernel \in {Nowhere} \cup Inodes
      /\ twice \in BOOLEAN /\ (~twice => KernelInv)
  BY DEF CreatePartial, ImagesInv, ImagesTypeOK
<1>2. PICK i \in Inodes :
        /\ content' = [content EXCEPT ![i] = {}] /\ unpacked' = i
        /\ user' = [user EXCEPT ![p].pc = "first", ![p].file = i]
  <2>1. CASE unpacked # Nowhere
    BY <1>1, <2>1 DEF CreatePartial
  <2>2. CASE unpacked = Nowhere
    <3> DEFINE inUse == {unpacked, kernel} \cup {user[q].file : q \in Users}
    <3>1. PICK f : f = [q \in Users |-> user[q].file]
      OBVIOUS
    <3>2. PICK j \in Inodes : j \notin {Nowhere, kernel} \cup {f[q] : q \in Users}
      BY FreeInode
    <3>3. {f[q] : q \in Users} = {user[q].file : q \in Users}
      BY <3>1
    <3>4. j \in Inodes \ inUse
      BY <3>2, <3>3, <2>2
    <3>5. (CHOOSE n \in Inodes \ inUse : TRUE) \in Inodes
      BY <3>4
    <3>6. QED
      BY <2>2, <3>5 DEF CreatePartial
  <2>3. QED
    BY <2>1, <2>2
<1>3. PICK r : r = [user[p] EXCEPT !.pc = "first", !.file = i]
  OBVIOUS
<1>4. user[p] \in User
  BY <1>1
<1>5. /\ r \in User /\ r.pc = "first" /\ r.file = i /\ r.tag = user[p].tag
      /\ r.config = user[p].config /\ r.disk = user[p].disk
  BY <1>3, <1>4 DEF User, Unpacking
<1>6. user' = [user EXCEPT ![p] = r]
  BY <1>2, <1>3
<1>7. user' \in [Users -> User] /\ OthersWait(p) /\ user'[p] = r
  BY <1>1, <1>5, <1>6 DEF OthersWait
<1>8. i # Nowhere
  BY ImagesConstants, FS_CardinalityType DEF Inodes, Nowhere
<1>9. ~twice' => KernelInv'
  <2> SUFFICES ASSUME ~twice PROVE KernelInv'
    BY <1>1
  <2>1. kernel = Nowhere /\ \A q \in Users \ {p} : user[q].pc \notin Unpacking \cup {"run"}
    BY <1>1 DEF KernelInv, At, Unpacking
  <2>2. QED
    BY <1>1, <1>2, <1>5, <1>7, <1>8, <2>1 DEF KernelInv, OthersWait, At, Unpacking
<1>10. content' \in [Inodes -> SUBSET Parts]
  BY <1>1, <1>2
<1>11. user[p].pc \in Booting /\ user'[p].pc \in Booting
  BY <1>1, <1>5, <1>7 DEF At, Booting, Unpacking
<1>12. QED
  BY <1>1, <1>2, <1>5, <1>7, <1>9, <1>10, <1>11, BootStep


\* The only unpacking: no kernel is there yet, and nobody runs one.
LEMMA UnpacksAlone ==
    ASSUME KernelInv, NEW p \in Users, user[p].pc \in Unpacking
    PROVE  /\ kernel = Nowhere
           /\ \A q \in Users \ {p} : user[q].pc \notin Unpacking \cup {"run"}
BY DEF KernelInv, At

LEMMA WritePartKeeps ==
    ASSUME ImagesInv, NEW p \in Users, WritePart(p)
    PROVE  ImagesInv'
<1>1. /\ user[p].pc \in {"first", "second"} /\ UNCHANGED <<unpacked, kernel, twice>>
      /\ imagesAlone
      /\ user \in [Users -> User] /\ content \in [Inodes -> SUBSET Parts]
      /\ unpacked \in {Nowhere} \cup Inodes /\ kernel \in {Nowhere} \cup Inodes
      /\ twice \in BOOLEAN /\ (~twice => KernelInv)
  BY DEF WritePart, ImagesInv, ImagesTypeOK
<1>2. PICK i \in {Nowhere} \cup Inodes : i = user[p].file
  <2>1. user[p] \in User
    BY <1>1
  <2>2. QED
    BY <2>1 DEF User
<1>3. PICK part \in Parts, x \in {"second", "move"} :
        /\ content' = [content EXCEPT ![i] = @ \cup {part}]
        /\ Goes(p, x)
        /\ \/ At(p, "first") /\ x = "second" /\ part = 1
           \/ At(p, "second") /\ x = "move" /\ part = 2
  <2>1. CASE At(p, "first")
    BY <1>2, <2>1 DEF WritePart, Parts
  <2>2. CASE ~At(p, "first")
    BY <1>1, <1>2, <2>2 DEF WritePart, Parts, At
  <2>3. QED
    BY <2>1, <2>2
<1>4. /\ user' \in [Users -> User] /\ OthersWait(p) /\ user'[p].pc = x
      /\ user'[p].tag = user[p].tag /\ user'[p].config = user[p].config
      /\ user'[p].disk = user[p].disk /\ user'[p].file = i
  BY <1>1, <1>2, <1>3, UserGoes DEF Steps, Unpacking
<1>5. content' \in [Inodes -> SUBSET Parts]
  BY <1>1, <1>3
<1>6. user[p].pc \in Unpacking /\ x \in Unpacking
  BY <1>1 DEF Unpacking
<1>7. ~twice' => KernelInv'
  <2> SUFFICES ASSUME ~twice PROVE KernelInv'
    BY <1>1
  <2>1. kernel = Nowhere /\ \A q \in Users \ {p} : user[q].pc \notin Unpacking \cup {"run"}
    BY <1>1, <1>6, UnpacksAlone
  <2>2. i = unpacked /\ i \in Inodes /\ (At(p, "second") => 1 \in content[i])
    BY <1>1, <1>2 DEF KernelInv
  <2>3. content'[i] = content[i] \cup {part} /\ content[i] \subseteq {1, 2}
    BY <1>1, <1>3, <2>2 DEF Parts
  <2>4. (x = "second" => 1 \in content'[i]) /\ (x = "move" => content'[i] = Parts)
    BY <1>3, <2>2, <2>3 DEF Parts, At
  <2>5. i # Nowhere
    BY <2>2, ImagesConstants, FS_CardinalityType DEF Inodes, Nowhere
  <2>6. QED
    BY <1>1, <1>4, <2>1, <2>2, <2>4, <2>5 DEF KernelInv, OthersWait, At, Unpacking
<1>8. user[p].pc \in Booting /\ user'[p].pc \in Booting
  BY <1>4, <1>6 DEF Booting
<1>9. QED
  BY <1>1, <1>4, <1>5, <1>7, <1>8, BootStep

\* A failed write removes the file, whoever made it.
LEMMA UnpackFailsKeeps ==
    ASSUME ImagesInv, NEW p \in Users, UnpackFails(p)
    PROVE  ImagesInv'
<1>1. /\ user[p].pc \in Unpacking /\ UNCHANGED <<content, kernel, twice>> /\ unpacked' = Nowhere
      /\ imagesAlone /\ Ends(p)
      /\ user \in [Users -> User] /\ content \in [Inodes -> SUBSET Parts]
      /\ kernel \in {Nowhere} \cup Inodes /\ twice \in BOOLEAN /\ (~twice => KernelInv)
  BY DEF UnpackFails, Unpacking, ImagesInv, ImagesTypeOK
<1>2. user' \in [Users -> User] /\ OthersWait(p) /\ user'[p].pc = "idle" /\ user'[p].tag = NoTag
  BY <1>1, UserEnds
<1>3. ~twice' => KernelInv'
  BY <1>1, <1>2, UnpacksAlone DEF KernelInv, OthersWait, At, Unpacking
<1>4. QED
  BY <1>1, <1>2, <1>3, BootStep

\* The file that is moved to linux is whole.
LEMMA MoveKernelKeeps ==
    ASSUME ImagesInv, NEW p \in Users, MoveKernel(p)
    PROVE  ImagesInv'
<1>1. /\ At(p, "move") /\ UNCHANGED <<content, twice>> /\ imagesAlone
      /\ user \in [Users -> User] /\ content \in [Inodes -> SUBSET Parts]
      /\ unpacked \in {Nowhere} \cup Inodes /\ kernel \in {Nowhere} \cup Inodes
      /\ twice \in BOOLEAN /\ (~twice => KernelInv)
  BY DEF MoveKernel, ImagesInv, ImagesTypeOK
<1>2. CASE unpacked = Nowhere
  BY <1>1, <1>2, EndsKeep DEF MoveKernel, imagesAlone, kernelVars, ImagesInv, ImagesTypeOK
<1>3. CASE unpacked # Nowhere
  <2>1. /\ kernel' = unpacked /\ unpacked' = Nowhere
        /\ user' = [user EXCEPT ![p].pc = "run", ![p].file = Nowhere]
    BY <1>3 DEF MoveKernel
  <2>2. PICK r : r = [user[p] EXCEPT !.pc = "run", !.file = Nowhere]
    OBVIOUS
  <2>3. user[p] \in User
    BY <1>1
  <2>4. /\ r \in User /\ r.pc = "run" /\ r.tag = user[p].tag
        /\ r.config = user[p].config /\ r.disk = user[p].disk
    BY <2>2, <2>3 DEF User
  <2>5. user' = [user EXCEPT ![p] = r]
    BY <2>1, <2>2
  <2>6. user' \in [Users -> User] /\ OthersWait(p) /\ user'[p] = r
    BY <1>1, <2>4, <2>5 DEF OthersWait
  <2>7. user[p].pc \in Booting /\ user'[p].pc \in Booting /\ user[p].pc \in Unpacking
    BY <1>1, <2>4, <2>6 DEF At, Booting, Unpacking
  <2>8. ~twice' => KernelInv'
    <3> SUFFICES ASSUME ~twice PROVE KernelInv'
      BY <1>1
    <3>1. \A q \in Users \ {p} : user[q].pc \notin Unpacking \cup {"run"}
      BY <1>1, <2>7, UnpacksAlone
    <3>2. content[unpacked] = Parts
      BY <1>1 DEF KernelInv
    <3>3. QED
      BY <1>1, <1>3, <2>1, <2>4, <2>6, <3>1, <3>2 DEF KernelInv, OthersWait, At, Unpacking
  <2>9. QED
    BY <1>1, <2>1, <2>4, <2>6, <2>7, <2>8, BootStep
<1>4. QED
  BY <1>2, <1>3

(* However builds, packs and unpackings fail, die and overlap, a box boots   *)
(* from a whole disk; while no two builds of its image overlap, that disk is  *)
(* of the build whose configuration the box has; and while no two unpackings  *)
(* of the kernel overlap, it boots the whole kernel (images.go, kernel.go,    *)
(* boxes.go). Any number of commands, tags and builds.                       *)
THEOREM BootsAreWhole == ImagesSpec => []BoxesBootWhole
<1>1. ImagesInit => ImagesInv
  <2> SUFFICES ASSUME ImagesInit PROVE ImagesInv
    OBVIOUS
  <2>1. Empty \in Layout /\ Empty.index = Nowhere
    BY DEF Empty, Layout
  <2>2. ImagesTypeOK
    <3>1. 0 \in 0 .. MaxBuilds /\ 0 \in 0 .. MaxDeaths
      BY ImagesConstants
    <3>2. QED
      BY <2>1, <3>1, RestIsUser DEF ImagesInit, ImagesTypeOK
  <2>3. \A p \in Users : user[p].pc = "idle" /\ user[p].tag = NoTag
    BY RestIsUser DEF ImagesInit
  <2>4. \A t \in Tags : layout[t].index = Nowhere /\ disk[t] = Nowhere /\ Nowhere # HalfDisk
    BY <2>1 DEF ImagesInit, Nowhere, HalfDisk
  <2>5. \A p \in Users : UserInv(p)
    BY <2>3 DEF UserInv, At, Building, Handing, Booting, Unpacking
  <2>6. \A t \in Tags : BuildInv(t)
    BY <2>3, <2>4, ImagesConstants DEF BuildInv, Builds, At, Building
  <2>7. KernelInv
    BY <2>3 DEF ImagesInit, KernelInv, At, Unpacking
  <2>8. QED
    BY <2>2, <2>4, <2>5, <2>6, <2>7 DEF ImagesInv
<1>2. ImagesInv /\ [ImagesNext]_imageVars => ImagesInv'
  <2> SUFFICES ASSUME ImagesInv, [ImagesNext]_imageVars PROVE ImagesInv'
    OBVIOUS
  <2>1. CASE UNCHANGED imageVars
    BY <2>1 DEF imageVars, ImagesInv, ImagesTypeOK, UserInv, BuildInv, Builds, KernelInv, At
  <2>2. ASSUME NEW p \in Users, Run(p) \/ UserDies(p) PROVE ImagesInv'
    <3>1. Ends(p) /\ deaths' \in 0 .. MaxDeaths
          /\ UNCHANGED <<layout, partial, disk, kernelVars, builds, overlapped>>
      BY <2>2, ImagesConstants
         DEF Run, UserDies, imagesAlone, ImagesInv, ImagesTypeOK
    <3>2. QED
      BY <3>1, EndsKeep
  <2>3. QED
    BY <2>1, <2>2, BuildKeeps, ContextsKeep, PartialKeeps, BuildEndsKeeps, RemoveLayoutKeeps,
       RenameLayoutKeeps, EnsureDiskKeeps, PackKeeps, TakeKeeps, KernelPathKeeps,
       CreatePartialKeeps, WritePartKeeps, UnpackFailsKeeps, MoveKernelKeeps DEF ImagesNext
<1>3. ImagesInv => BoxesBootWhole
  <2> SUFFICES ASSUME ImagesInv PROVE BoxesBootWhole
    OBVIOUS
  <2>1. \A t \in Tags \ overlapped : ImageExists(t) => layout[t].index \in layout[t].blobs
    BY DEF ImagesInv, BuildInv, ImageExists
  <2>2. ASSUME NEW p \in Users, At(p, "run")
        PROVE  /\ user[p].disk \in BuildIds
               /\ user[p].tag \notin overlapped => user[p].disk = user[p].config
               /\ ~twice => content[kernel] = Parts
    BY <2>2 DEF ImagesInv, UserInv, BuildInv, KernelInv, At, Booting
  <2>3. QED
    BY <2>1, <2>2 DEF BoxesBootWhole
<1>4. QED
  BY <1>1, <1>2, <1>3, PTL DEF ImagesSpec
============================================================================

----------------------------- MODULE Snapshots -----------------------------
(***************************************************************************)
(* The project table of the broker (internal/broker/projects.go): snapshots *)
(* of the state files of every project, replaced by reloads and by the poll *)
(* while the prison commands change the files under it, and read by the     *)
(* requests that boxes send through their tunnels. And the floor, the       *)
(* user-wide list of allowed hosts, which is loaded without the mutex.      *)
(*                                                                          *)
(* Abstracted: a file is its last change and what that change left there;   *)
(* every change has a modification time of its own; egress-allow and        *)
(* profile.json are one file, "rules"; a box asks for one secret. Watched   *)
(* files go away with the whole project directory, as in Project.Remove.    *)
(***************************************************************************)
EXTENDS Naturals, Sequences

CONSTANTS
    Projects,
    Poller,       \* the goroutine that starts the broker and then polls
    Handlers,     \* goroutines that serve the control socket
    Tunnels,      \* connections of boxes to a zone host
    Unreadable,   \* projects whose rules do not parse when the broker starts
    MaxChanges    \* bound: changes to the state files

ASSUME PollerAssumption == Poller \notin Handlers
ASSUME ChangesAssumption == MaxChanges \in Nat

Threads == Handlers \cup {Poller}

\* The watched files, in the order in which loadProject reads them.
Token == 1
Grants == 2
Rules == 3
Files == Token .. Rules

VARIABLES
    dirs,      \* projects that have a state directory
    disk,      \* project -> file -> its last change
    clock,     \* changes so far; the number of a change is its modification time
    table,     \* broker.projects: project -> its snapshot
    hosts,     \* the user-wide egress-allow file: its last change
    floor,     \* broker.floor: the stamp of that file and the list of hosts
    mutex,     \* threads that hold reloadMutex
    job,       \* thread -> what it is doing
    tunnel,    \* tunnel -> its project and the request in it
    \* History: what the last successful reload of a project had to see.
    promised,  \* project -> the changes that were on disk when it was asked for
    served     \* projects that such a reload found and nobody removed since

state == <<dirs, disk, clock, hosts>>
history == <<promised, served>>
vars == <<dirs, disk, clock, hosts, floor, table, mutex, job, tunnel, promised, served>>

Contents == {"absent", "off", "on", "bad"}
File == [at : 0 .. MaxChanges, is : Contents]
Times == UNION {[set -> 0 .. MaxChanges] : set \in SUBSET Files}
Reads == UNION {[1 .. n -> File] : n \in 0 .. Rules}
NoSnapshot == [mod |-> <<>>, data |-> <<>>]
Snapshot == {NoSnapshot} \cup [mod : Times, data : [Files -> File]]
Table == [Projects -> Snapshot]
Seen == [Projects -> [Files -> 0 .. MaxChanges]]
NoTable == [p \in Projects |-> NoSnapshot]
NothingSeen == [p \in Projects |-> [f \in Files |-> 0]]

\* floorState: a list is the change that wrote it; 0 is the default floor.
Floor == [loaded : BOOLEAN, stamp : 0 .. MaxChanges, patterns : 0 .. MaxChanges]
NoFloor == [loaded |-> FALSE, stamp |-> 0, patterns |-> 0]

Phases == {"idle", "floor", "hosts", "swap", "poll", "table", "pass", "lock", "list", "next", "stat", "read", "store"}
Tasks == {"all", "one", "poll"}

Job == [pc : Phases, task : Tasks, of : SUBSET Projects, todo : SUBSET Projects,
        gone : SUBSET Projects, mod : Times, data : Reads, tab : Table,
        base : Seen, failed : SUBSET Projects, floor : Floor]
NoJob == [pc |-> "idle", task |-> "one", of |-> {}, todo |-> {}, gone |-> {},
          mod |-> <<>>, data |-> <<>>, tab |-> NoTable, base |-> NothingSeen,
          failed |-> {}, floor |-> NoFloor]

Tunnel == [pc : {"closed", "open", "asked", "reply"}, of : SUBSET Projects,
           snap : Snapshot, seen : [Files -> 0 .. MaxChanges]]
Closed == [pc |-> "closed", of |-> {}, snap |-> NoSnapshot,
           seen |-> [f \in Files |-> 0]]

Init ==
    /\ dirs = Projects
    /\ disk = [p \in Projects |-> [f \in Files |->
                 [at |-> 0, is |-> IF f # Rules THEN "on"
                               ELSE IF p \in Unreadable THEN "bad" ELSE "absent"]]]
    /\ clock = 0
    /\ table = NoTable
    /\ hosts = [at |-> 0, is |-> "absent"]
    /\ floor = NoFloor
    /\ mutex = {}
    \* Run loads the floor and every project before it serves or polls.
    /\ job = [t \in Threads |-> IF t = Poller
                THEN [NoJob EXCEPT !.pc = "floor", !.task = "all"] ELSE NoJob]
    /\ tunnel = [c \in Tunnels |-> Closed]
    /\ promised = NothingSeen
    /\ served = {}

----------------------------------------------------------------------------
(* The state files as the prison commands and the user change them.         *)

At(t, phase) == job[t].pc = phase
Serving == job[Poller].task # "all"
Stamp(file) == IF file.is = "absent" THEN 0 ELSE file.at
Stamps == [p \in Projects |-> [f \in Files |-> Stamp(disk[p][f])]]

Changed(p, f, content) ==
    /\ clock < MaxChanges
    /\ p \in dirs
    /\ clock' = clock + 1
    /\ disk' = [disk EXCEPT ![p][f] = [at |-> clock', is |-> content]]
    /\ UNCHANGED <<dirs, hosts>>

\* Token (made once), SetGrants, and egress-allow edited by hand.
Change(p) ==
    /\ \/ disk[p][Token].is = "absent" /\ Changed(p, Token, "on")
       \/ \E content \in {"on", "off"} : Changed(p, Grants, content)
       \/ \E content \in {"on", "bad"} : Changed(p, Rules, content)
    /\ UNCHANGED <<floor, table, mutex, job, tunnel, history>>

\* The user edits, breaks or removes the user-wide list of hosts.
ChangeHosts ==
    /\ clock < MaxChanges
    /\ clock' = clock + 1
    /\ \E content \in {"on", "bad", "absent"} \ {hosts.is} : hosts' = [at |-> clock', is |-> content]
    /\ UNCHANGED <<dirs, disk, floor, table, mutex, job, tunnel, history>>

\* Root.Project makes the directory; the files come later.
Create(p) ==
    /\ p \notin dirs
    /\ dirs' = dirs \cup {p}
    /\ UNCHANGED <<disk, clock, hosts, floor, table, mutex, job, tunnel, history>>

\* Project.Remove. What was promised of the project no longer holds.
Remove(p) ==
    /\ clock < MaxChanges
    /\ p \in dirs
    /\ clock' = clock + 1
    /\ dirs' = dirs \ {p}
    /\ disk' = [disk EXCEPT ![p] = [f \in Files |-> [at |-> clock', is |-> "absent"]]]
    /\ promised' = [promised EXCEPT ![p] = [f \in Files |-> 0]]
    /\ served' = served \ {p}
    /\ job' = [t \in Threads |-> IF At(t, "idle") THEN job[t]
                  ELSE [job[t] EXCEPT !.base[p] = [f \in Files |-> 0], !.failed = @ \cup {p}]]
    /\ UNCHANGED <<hosts, floor, table, mutex, tunnel>>

----------------------------------------------------------------------------
(* Reloads. The thread that asked for one goes on (the poll) or is done.    *)

ModTimes(p) ==
    [f \in {g \in Files : disk[p][g].is # "absent"} |-> disk[p][f].at]

\* Where a thread goes when its reload of a project is over.
After(t, next) ==
    IF job[t].task = "poll" THEN [next EXCEPT !.pc = "pass", !.of = {}, !.mod = <<>>, !.data = <<>>]
    ELSE NoJob

\* A reload of the projects ps succeeded.
Promise(t, ps) ==
    promised' = [p \in Projects |-> IF p \in ps
          THEN [f \in Files |-> IF job[t].base[p][f] > promised[p][f]
                                THEN job[t].base[p][f] ELSE promised[p][f]]
          ELSE promised[p]]
Keep(t, ps) == Promise(t, ps) /\ served' = served \cup ps

\* handleReload.
Reload(t) ==
    /\ At(t, "idle") /\ t # Poller /\ Serving
    /\ job' = [job EXCEPT ![t] = [NoJob EXCEPT !.pc = "floor", !.task = "all", !.base = Stamps]]
    /\ UNCHANGED <<state, floor, table, mutex, tunnel, history>>

\* reloadFloor, which takes no mutex: the stamp of the file first...
AfterFloor(t) == IF job[t].task = "poll" THEN "poll" ELSE "lock"
FloorIs(stamp) == floor.loaded /\ floor.stamp = stamp
StampFloor(t) ==
    /\ At(t, "floor")
    /\ job' = IF FloorIs(Stamp(hosts)) THEN [job EXCEPT ![t].pc = AfterFloor(t)]
              ELSE [job EXCEPT ![t].pc = "hosts", ![t].floor.stamp = Stamp(hosts)]
    /\ UNCHANGED <<state, floor, table, mutex, tunnel, history>>

\* ...then its content; a list that cannot be read leaves the floor as it is,
\* and the first one is then the default...
Patterns == IF hosts.is = "on" THEN hosts.at ELSE 0
ReadFloor(t) ==
    /\ At(t, "hosts")
    /\ job' = IF hosts.is = "bad" /\ floor.loaded
              THEN [job EXCEPT ![t].pc = AfterFloor(t), ![t].floor = NoFloor]
              ELSE [job EXCEPT ![t].pc = "swap", ![t].floor.patterns = Patterns]
    /\ UNCHANGED <<state, floor, table, mutex, tunnel, history>>

\* ...and the floor is replaced.
StoreFloor(t) ==
    /\ At(t, "swap")
    /\ floor' = [job[t].floor EXCEPT !.loaded = TRUE]
    /\ job' = [job EXCEPT ![t].pc = AfterFloor(t), ![t].floor = NoFloor]
    /\ UNCHANGED <<state, table, mutex, tunnel, history>>

\* handleUpdateProject: the profile, if there is one, is saved before the reload.
UpdateProject(t) ==
    /\ At(t, "idle") /\ t # Poller /\ Serving
    /\ \E p \in dirs :
         /\ Changed(p, Rules, "on") \/ UNCHANGED state
         /\ job' = [job EXCEPT ![t] = [NoJob EXCEPT !.pc = "lock", !.of = {p},
                       !.base[p] = [f \in Files |-> Stamp(disk'[p][f])]]]
    /\ UNCHANGED <<floor, table, mutex, tunnel, history>>

Lock(t) ==
    /\ At(t, "lock")
    /\ mutex = {}
    /\ mutex' = {t}
    /\ job' = [job EXCEPT ![t].pc = IF job[t].task = "all" THEN "list" ELSE "stat"]
    /\ UNCHANGED <<state, floor, table, tunnel, history>>

\* reloadAll lists the projects; tab is the table that it builds.
List(t) ==
    /\ At(t, "list")
    /\ job' = [job EXCEPT ![t].pc = "next", ![t].todo = dirs, ![t].gone = dirs, ![t].tab = NoTable]
    /\ UNCHANGED <<state, floor, table, mutex, tunnel, history>>

\* reloadAll goes on with the next project, or swaps the new table in. It is
\* an error when any project could not be loaded.
NextProject(t) ==
    /\ At(t, "next")
    /\ UNCHANGED <<state, floor, tunnel>>
    /\ \/ \E p \in job[t].todo :
            /\ job' = [job EXCEPT ![t].pc = "stat", ![t].of = {p}, ![t].todo = @ \ {p}]
            /\ UNCHANGED <<table, mutex, history>>
       \/ /\ job[t].todo = {}
          /\ table' = job[t].tab
          /\ mutex' = {}
          /\ job' = [job EXCEPT ![t] = NoJob]
          /\ IF job[t].gone \cap job[t].failed = {}
             THEN Keep(t, job[t].gone) ELSE UNCHANGED history

\* ProjectByID (reloadProject only: a project without a directory leaves the
\* table), then the modification times, before anything is read.
Stat(t) ==
    /\ At(t, "stat")
    /\ UNCHANGED <<state, floor, tunnel, history>>
    /\ \E p \in job[t].of :
       \/ /\ job[t].task # "all" /\ p \notin dirs
          /\ table' = [table EXCEPT ![p] = NoSnapshot]
          /\ mutex' = {}
          /\ job' = [job EXCEPT ![t] = After(t, job[t])]
       \/ /\ job[t].task = "all" \/ p \in dirs
          /\ job' = [job EXCEPT ![t].pc = "read", ![t].mod = ModTimes(p), ![t].data = <<>>]
          /\ UNCHANGED <<table, mutex>>

StatAfterRead(t) ==
    /\ At(t, "read")
    /\ \E p \in job[t].of : LET file == disk[p][Len(job[t].data) + 1] IN
         /\ file.is # "bad"
         /\ job' = [job EXCEPT ![t].data = Append(@, file), ![t].mod = ModTimes(p),
                               ![t].pc = IF Len(job[t].data) + 1 = Rules THEN "store" ELSE "read"]
    /\ UNCHANGED <<state, floor, table, mutex, tunnel, history>>

\* The files, one after the other.
Read(t) ==
    /\ At(t, "read")
    /\ \E p \in job[t].of : LET file == disk[p][Len(job[t].data) + 1] IN
         /\ file.is # "bad"
         /\ job' = [job EXCEPT ![t].data = Append(@, file),
                               ![t].pc = IF Len(job[t].data) + 1 = Rules THEN "store" ELSE "read"]
    /\ UNCHANGED <<state, floor, table, mutex, tunnel, history>>

ReadFailsDropsSnapshot(t) ==
    /\ At(t, "read")
    /\ UNCHANGED <<state, floor, tunnel, history>>
    /\ \E p \in job[t].of :
         /\ disk[p][Len(job[t].data) + 1].is = "bad"
         /\ \/ /\ job[t].task = "all"
               /\ job' = [job EXCEPT ![t].pc = "next", ![t].of = {}, ![t].failed = @ \cup {p}]
               /\ UNCHANGED <<table, mutex>>
            \/ /\ job[t].task # "all"
               /\ table' = [table EXCEPT ![p] = NoSnapshot]
               /\ mutex' = {}
               /\ job' = [job EXCEPT ![t] = After(t, [job[t] EXCEPT !.failed = @ \cup {p}])]

\* A file cannot be read or parsed: the last good snapshot stays.
ReadFails(t) ==
    /\ At(t, "read")
    /\ UNCHANGED <<state, floor, table, tunnel, history>>
    /\ \E p \in job[t].of :
         /\ disk[p][Len(job[t].data) + 1].is = "bad"
         /\ \/ /\ job[t].task = "all"
               /\ job' = [job EXCEPT ![t].pc = "next", ![t].of = {}, ![t].tab[p] = table[p],
                                     ![t].failed = @ \cup {p}]
               /\ UNCHANGED mutex
            \/ /\ job[t].task # "all"
               /\ mutex' = {}
               /\ job' = [job EXCEPT ![t] = After(t, [job[t] EXCEPT !.failed = @ \cup {p}])]

\* The new snapshot is in the table that reloadAll builds, or in the table
\* that everybody reads.
Store(t) ==
    LET snapshot == [mod |-> job[t].mod, data |-> job[t].data] IN
    /\ At(t, "store")
    /\ UNCHANGED <<state, floor, tunnel>>
    /\ \E p \in job[t].of :
       \/ /\ job[t].task = "all"
          /\ job' = [job EXCEPT ![t].pc = "next", ![t].of = {}, ![t].tab[p] = snapshot]
          /\ UNCHANGED <<table, mutex, history>>
       \/ /\ job[t].task # "all"
          /\ table' = [table EXCEPT ![p] = snapshot]
          /\ mutex' = {}
          /\ job' = [job EXCEPT ![t] = After(t, job[t])]
          /\ IF job[t].task = "one" /\ p \notin job[t].failed THEN Keep(t, {p})
             ELSE UNCHANGED history

----------------------------------------------------------------------------
(* pollOnce.                                                                *)

\* The ticker fires: the floor comes first.
PollStarts ==
    /\ At(Poller, "idle")
    /\ job' = [job EXCEPT ![Poller] = [NoJob EXCEPT !.pc = "floor", !.task = "poll"]]
    /\ UNCHANGED <<state, floor, table, mutex, tunnel, history>>

\* The poll lists the projects.
PollList ==
    /\ At(Poller, "poll")
    /\ job' = [job EXCEPT ![Poller].pc = "table", ![Poller].todo = dirs, ![Poller].base = Stamps,
                          ![Poller].failed = {}]
    /\ UNCHANGED <<state, floor, table, mutex, tunnel, history>>

PollTableOfListed ==
    /\ At(Poller, "table")
    /\ job' = [job EXCEPT ![Poller].pc = "pass", ![Poller].tab = table]
    /\ UNCHANGED <<state, floor, table, mutex, tunnel, history>>

\* Then it loads the table that it compares them with. Projects of the table
\* that were not listed come last.
PollTable ==
    /\ At(Poller, "table")
    /\ job' = [job EXCEPT ![Poller].pc = "pass", ![Poller].tab = table,
                          ![Poller].gone = {p \in Projects \ job[Poller].todo : table[p] # NoSnapshot}]
    /\ UNCHANGED <<state, floor, table, mutex, tunnel, history>>

\* One listed project: nothing changed since its snapshot, or it is reloaded.
PollProject ==
    /\ At(Poller, "pass")
    /\ \E p \in job[Poller].todo :
       LET existing == job[Poller].tab[p] IN
       \/ /\ existing # NoSnapshot /\ existing.mod = ModTimes(p)
          /\ job' = [job EXCEPT ![Poller].todo = @ \ {p}]
          /\ IF p \notin job[Poller].failed THEN Promise(Poller, {p}) ELSE UNCHANGED promised
       \/ /\ existing = NoSnapshot \/ existing.mod # ModTimes(p)
          /\ job' = [job EXCEPT ![Poller].pc = "lock", ![Poller].of = {p}, ![Poller].todo = @ \ {p}]
          /\ UNCHANGED promised
    /\ UNCHANGED <<state, floor, table, mutex, tunnel, served>>

\* A project that is in the table and was not listed.
PollGone ==
    /\ At(Poller, "pass")
    /\ job[Poller].todo = {}
    /\ \E p \in job[Poller].gone :
         job' = [job EXCEPT ![Poller].pc = "lock", ![Poller].of = {p}, ![Poller].gone = @ \ {p}]
    /\ UNCHANGED <<state, floor, table, mutex, tunnel, history>>

PollEnds ==
    /\ At(Poller, "pass")
    /\ job[Poller].todo = {} /\ job[Poller].gone = {}
    /\ job' = [job EXCEPT ![Poller] = NoJob]
    /\ UNCHANGED <<state, floor, table, mutex, tunnel, history>>

----------------------------------------------------------------------------
(* Requests of a box. A CONNECT to a zone host is authenticated once; every *)
(* request inside the tunnel looks its project up again.                    *)

Connect(c) ==
    /\ tunnel[c].pc = "closed" /\ Serving
    /\ \E p \in Projects :
         /\ table[p] # NoSnapshot /\ table[p].data[Token].is = "on"
         /\ tunnel' = [tunnel EXCEPT ![c] = [Closed EXCEPT !.pc = "open", !.of = {p}, !.snap = table[p]]]
    /\ UNCHANGED <<state, floor, table, mutex, job, history>>

Ask(c) ==
    /\ tunnel[c].pc = "open"
    /\ \E p \in tunnel[c].of :
         tunnel' = [tunnel EXCEPT ![c].pc = "asked", ![c].seen = promised[p]]
    /\ UNCHANGED <<state, floor, table, mutex, job, history>>

LookupAtConnect(c) ==
    /\ tunnel[c].pc = "asked"
    /\ tunnel' = [tunnel EXCEPT ![c].pc = "reply"]
    /\ UNCHANGED <<state, floor, table, mutex, job, history>>

\* brokerAPIHandler, routeHandler and inmateHandler: the snapshot of now.
Lookup(c) ==
    /\ tunnel[c].pc = "asked"
    /\ \E p \in tunnel[c].of :
         tunnel' = [tunnel EXCEPT ![c].pc = "reply", ![c].snap = table[p]]
    /\ UNCHANGED <<state, floor, table, mutex, job, history>>

\* The request is answered: with the secret when the snapshot grants it.
Reply(c) ==
    /\ tunnel[c].pc = "reply"
    /\ tunnel' = [tunnel EXCEPT ![c] = [Closed EXCEPT !.pc = "open", !.of = tunnel[c].of,
                                                     !.snap = tunnel[c].snap]]
    /\ UNCHANGED <<state, floor, table, mutex, job, history>>

Close(c) ==
    /\ tunnel[c].pc = "open"
    /\ tunnel' = [tunnel EXCEPT ![c] = Closed]
    /\ UNCHANGED <<state, floor, table, mutex, job, history>>

----------------------------------------------------------------------------
Polling == PollStarts \/ PollList \/ PollTable \/ PollProject \/ PollGone \/ PollEnds
Work(t) ==
    \/ StampFloor(t) \/ ReadFloor(t) \/ StoreFloor(t)
    \/ List(t) \/ NextProject(t) \/ Stat(t) \/ Read(t) \/ ReadFails(t) \/ Store(t)

Next ==
    \/ \E p \in Projects : Change(p) \/ Create(p) \/ Remove(p)
    \/ ChangeHosts
    \/ \E t \in Threads : Reload(t) \/ UpdateProject(t) \/ Lock(t) \/ Work(t)
    \/ Polling
    \/ \E c \in Tunnels : Connect(c) \/ Ask(c) \/ Lookup(c) \/ Reply(c) \/ Close(c)

Spec == Init /\ [][Next]_vars

\* The ticker keeps firing, goroutines run, and a sync.Mutex is handed to a
\* waiter that has waited for long.
Fairness ==
    /\ WF_vars(Polling)
    /\ \A t \in Threads : WF_vars(Work(t)) /\ SF_vars(Lock(t))
FairSpec == Spec /\ Fairness
----------------------------------------------------------------------------
TypeOK ==
    /\ dirs \subseteq Projects
    /\ disk \in [Projects -> [Files -> File]]
    /\ clock \in 0 .. MaxChanges
    /\ hosts \in File /\ floor \in Floor
    /\ \A p \in Projects : table[p] \in Snapshot
    /\ mutex \subseteq Threads
    /\ DOMAIN job = Threads
    /\ \A t \in Threads : job[t].pc \in Phases /\ job[t].data \in Reads /\ job[t].mod \in Times
    /\ tunnel \in [Tunnels -> Tunnel]
    /\ promised \in Seen
    /\ served \subseteq Projects

\* A file that the load found missing, read a moment later, and that is gone
\* again: the one change that the comparison of the poll cannot see.
CameAndWent(p, f) ==
    /\ f \notin DOMAIN table[p].mod
    /\ table[p].data[f].is # "absent"
    /\ disk[p][f].is = "absent"

(* A snapshot that is not what the disk holds can be told from the disk by  *)
(* its modification times, however the load was interleaved with changes:   *)
(* loadProject takes the times before it reads. Otherwise no poll would ever *)
(* replace it. So does the floor, although nothing orders two loads of it.   *)
StaleIsVisible ==
    /\ FloorIs(Stamp(hosts)) /\ hosts.is = "on" => floor.patterns = Patterns
    /\ \A p \in Projects : table[p] # NoSnapshot /\ table[p].mod = ModTimes(p) =>
         \A f \in Files : \/ table[p].data[f].is = disk[p][f].is
                          \/ CameAndWent(p, f)

(* A reload that was answered with success, and a poll that is over, stay in *)
(* effect: what was on disk when they began is in the table, or something    *)
(* newer is, and the project is still served. Concurrent reloads of one      *)
(* project and of all projects never bring an older snapshot back, and a     *)
(* file that cannot be read never takes a project away.                      *)
ReloadsTakeEffect ==
    \A p \in Projects :
        /\ p \in served => table[p] # NoSnapshot
        /\ table[p] # NoSnapshot =>
             \A f \in Files : table[p].data[f].at >= promised[p][f]

(* A request in a tunnel is decided with what a poll or reload that was over *)
(* before the request has seen, even when the tunnel is older: a revoked     *)
(* secret stops working inside the tunnels that are open.                    *)
RequestsSeeReloads ==
    \A c \in Tunnels : tunnel[c].pc = "reply" /\ tunnel[c].snap # NoSnapshot =>
        \A f \in Files : tunnel[c].snap.data[f].at >= tunnel[c].seen[f]

\* The table does not show what the disk holds, though it could be loaded.
Stale(p) ==
    \/ p \notin dirs /\ table[p] # NoSnapshot
    \/ /\ p \in dirs
       /\ \A f \in Files : disk[p][f].is # "bad"
       /\ \/ table[p] = NoSnapshot
          \/ \E f \in Files : table[p].data[f].is # disk[p][f].is /\ ~CameAndWent(p, f)

\* The floor is not the list that the user wrote.
FloorStale == hosts.is = "on" /\ floor.patterns # Patterns

(* The poll finds every change in the end without being told: files, new     *)
(* projects, removed projects, files that could not be read before, and the  *)
(* hosts that the user allows everywhere.                                    *)
TableCatchesUp ==
    /\ \A p \in Projects : Stale(p) ~> ~Stale(p)
    /\ FloorStale ~> ~FloorStale
============================================================================

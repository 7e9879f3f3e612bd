-------------------------- MODULE SnapshotsProofs ---------------------------
(***************************************************************************)
(* The project table of the broker never hides that it is stale, and never  *)
(* goes back behind a reload that was answered, for every number of         *)
(* projects, handlers, tunnels and changes of the files.                    *)
(***************************************************************************)
EXTENDS Snapshots, SequenceTheorems, TLAPS

TypeInv ==
    /\ dirs \subseteq Projects
    /\ disk \in [Projects -> [Files -> File]]
    /\ clock \in 0 .. MaxChanges
    /\ hosts \in File /\ floor \in Floor
    /\ table \in Table
    /\ mutex \subseteq Threads
    /\ job \in [Threads -> Job]
    /\ tunnel \in [Tunnels -> Tunnel]
    /\ promised \in Seen
    /\ served \subseteq Projects

Loading == {"list", "next", "stat", "read", "store"}
Reading == {"read", "store"}

\* The thread has listed all projects, and builds a table of them.
Builds(j) == j.task = "all" /\ j.pc \in Loading \ {"list"}

\* The poll has loaded the table that it compares the files with.
Compares(j) == j.task = "poll" /\ j.pc \notin {"floor", "hosts", "swap", "poll", "table"}

\* What each phase of a thread is about; only the poller polls.
Formed(j, t) ==
    /\ j.pc = "idle" => j = NoJob
    /\ j.pc \in {"floor", "hosts", "swap"} => j.task # "one" /\ j.of = {}
    /\ j.pc \in {"list", "next"} => j.task = "all" /\ j.of = {}
    /\ j.pc \in {"stat", "read", "store"} => \E p \in Projects : j.of = {p}
    /\ j.pc \in {"poll", "table", "pass"} => j.task = "poll"
    /\ j.task = "poll" => t = Poller
    /\ j.task = "one" => j.pc \in {"idle", "lock", "stat", "read", "store"}
    /\ j.pc = "lock" /\ j.task = "all" => j.of = {}
    /\ j.pc = "lock" /\ j.task # "all" => \E p \in Projects : j.of = {p}
    /\ j.pc = "read" => Len(j.data) < Rules
    /\ j.pc = "store" => Len(j.data) = Rules

ThreadsFormed ==
    /\ \A t \in Threads : Formed(job[t], t)
    /\ \A c \in Tunnels : tunnel[c].pc # "closed" => \E p \in Projects : tunnel[c].of = {p}

\* Whoever loads holds the mutex.
MutexHeld == \A t \in Threads : job[t].pc \in Loading => mutex = {t}

\* Every change has a number of its own, later than all before.
Clocked ==
    /\ hosts.at <= clock
    /\ \A p \in Projects : \A f \in Files : disk[p][f].at <= clock

\* What was read of a file is not newer than the file, and when it is as new it
\* is the same; the time that was taken before is not newer than either.
Fits(mod, f, read, now) ==
    /\ f \in DOMAIN mod => mod[f] <= read.at
    /\ read.at <= now.at
    /\ read.at = now.at => read = now

SnapshotFits(s, files) ==
    s # NoSnapshot => \A f \in Files : Fits(s.mod, f, s.data[f], files[f])

LoadFits(j, files) ==
    j.pc \in Reading =>
      \A f \in Files :
        /\ f \in DOMAIN j.mod => j.mod[f] <= files[f].at
        /\ f <= Len(j.data) => Fits(j.mod, f, j.data[f], files[f])

SnapshotsFit ==
    \A p \in Projects :
        /\ SnapshotFits(table[p], disk[p])
        /\ \A t \in Threads :
             /\ SnapshotFits(job[t].tab[p], disk[p])
             /\ p \in job[t].of => LoadFits(job[t], disk[p])

\* The same of the floor: its stamp is the older half.
FloorFits(x, file) == x.stamp = file.at /\ file.is = "on" => x.patterns = file.at
FloorsFit ==
    /\ floor.stamp <= hosts.at /\ (floor.loaded => FloorFits(floor, hosts))
    /\ \A t \in Threads :
         /\ job[t].floor.stamp <= hosts.at
         /\ job[t].pc = "swap" => FloorFits(job[t].floor, hosts)

\* What is loaded of a project from now on, or is in a table already, is at
\* least as new as `low`.
Covers(s, low) == s # NoSnapshot => \A f \in Files : low[f] <= s.data[f].at
LoadCovers(j, low) ==
    j.pc \in Reading => \A f \in Files : f <= Len(j.data) => low[f] <= j.data[f].at
Above(p, low) ==
    /\ \A f \in Files : low[f] <= disk[p][f].at
    /\ Covers(table[p], low)
    /\ \A t \in Threads :
         /\ p \in job[t].of => LoadCovers(job[t], low)
         /\ Builds(job[t]) => Covers(job[t].tab[p], low)

\* The bounds that stay: what was promised, the times in the snapshot, those
\* in the table that the poll compares with, and what a request was promised.
Low(mod) == [f \in Files |-> IF f \in DOMAIN mod THEN mod[f] ELSE 0]
IsBound(low, p) ==
    \/ low = promised[p]
    \/ table[p] # NoSnapshot /\ low = Low(table[p].mod)
    \/ \E t \in Threads :
         Compares(job[t]) /\ job[t].tab[p] # NoSnapshot /\ low = Low(job[t].tab[p].mod)
    \/ \E c \in Tunnels : tunnel[c].pc = "asked" /\ p \in tunnel[c].of /\ low = tunnel[c].seen
Lows == [Files -> 0 .. MaxChanges]
BoundsKept == \A p \in Projects, low \in Lows : IsBound(low, p) => Above(p, low)

\* What was on disk when a load was asked for is in what it has read.
BaseFits(base, now) ==
    \A p \in Projects : \A f \in Files :
        /\ base[p][f] <= now[p][f].at
        /\ now[p][f].is = "absent" => base[p][f] = 0
BaseKept(j, now) ==
    j.pc # "idle" =>
      /\ BaseFits(j.base, now)
      /\ \A p \in Projects :
           /\ p \in j.of => LoadCovers(j, j.base[p])
           /\ Builds(j) /\ p \notin j.failed => Covers(j.tab[p], j.base[p])
BasesKept == \A t \in Threads : BaseKept(job[t], disk)

\* A project that is served is there and in the table, and a load of all
\* projects has it in the table that it builds.
ServedBy(j, ds, sv) ==
    /\ j.task = "one" => j.of \subseteq ds \cup j.failed
    /\ Builds(j) =>
         /\ sv \subseteq j.gone /\ j.todo \subseteq j.gone
         /\ j.gone \subseteq ds \cup j.failed
         /\ \A p \in j.gone \ (j.todo \cup j.of) :
              p \in sv \/ p \notin j.failed => j.tab[p] # NoSnapshot
ServedKept ==
    /\ served \subseteq dirs
    /\ \A p \in served : table[p] # NoSnapshot
    /\ \A t \in Threads : ServedBy(job[t], dirs, served)

Answered ==
    \A c \in Tunnels : tunnel[c].pc = "reply" => Covers(tunnel[c].snap, tunnel[c].seen)

SnapInv ==
    /\ TypeInv /\ ThreadsFormed /\ MutexHeld /\ Clocked
    /\ SnapshotsFit /\ FloorsFit /\ BoundsKept /\ BasesKept /\ ServedKept /\ Answered

----------------------------------------------------------------------------
LEMMA FilesAre == Files = {1, 2, 3} /\ Token = 1 /\ Grants = 2 /\ Rules = 3
BY DEF Files, Token, Grants, Rules

\* What a thread has read is a sequence of at most three files.
LEMMA ReadsFacts ==
    /\ <<>> \in Reads /\ Len(<<>>) = 0
    /\ \A d \in Reads :
         /\ Len(d) \in 0 .. 3
         /\ \A f \in Files : f <= Len(d) => d[f] \in File
         /\ Len(d) = 3 => d \in [Files -> File] /\ d # <<>>
         /\ \A x \in File : Len(d) < 3 =>
              /\ Append(d, x) \in Reads
              /\ Len(Append(d, x)) = Len(d) + 1
              /\ \A f \in Files : f <= Len(d) => Append(d, x)[f] = d[f]
              /\ Append(d, x)[Len(d) + 1] = x
<1>1. <<>> \in Reads /\ Len(<<>>) = 0
  <2>1. <<>> \in [1 .. 0 -> File]
    OBVIOUS
  <2>2. 0 \in 0 .. Rules
    BY FilesAre
  <2>3. QED
    BY <2>1, <2>2 DEF Reads
<1>2. SUFFICES ASSUME NEW d \in Reads
               PROVE  /\ Len(d) \in 0 .. 3
                      /\ \A f \in Files : f <= Len(d) => d[f] \in File
                      /\ Len(d) = 3 => d \in [Files -> File] /\ d # <<>>
                      /\ \A x \in File : Len(d) < 3 =>
                           /\ Append(d, x) \in Reads
                           /\ Len(Append(d, x)) = Len(d) + 1
                           /\ \A f \in Files : f <= Len(d) => Append(d, x)[f] = d[f]
                           /\ Append(d, x)[Len(d) + 1] = x
  BY <1>1
<1>3. PICK n \in 0 .. 3 : d \in [1 .. n -> File]
  BY FilesAre DEF Reads
<1>4. d \in Seq(File) /\ Len(d) = n
  BY <1>3
<1>5. \A f \in Files : f <= Len(d) => d[f] \in File
  BY <1>3, <1>4, FilesAre
<1>6. Len(d) = 3 => d \in [Files -> File] /\ d # <<>>
  BY <1>1, <1>3, <1>4 DEF Files, Token, Rules
<1>7. ASSUME NEW x \in File, n < 3
      PROVE  /\ Append(d, x) \in Reads
             /\ Len(Append(d, x)) = Len(d) + 1
             /\ \A f \in Files : f <= Len(d) => Append(d, x)[f] = d[f]
             /\ Append(d, x)[Len(d) + 1] = x
  <2>1. Append(d, x) \in Seq(File) /\ Len(Append(d, x)) = n + 1
    BY <1>4
  <2>2. Append(d, x) \in [1 .. n + 1 -> File]
    BY <2>1, LenProperties
  <2>3. n + 1 \in 0 .. Rules
    BY <1>3, <1>7, FilesAre
  <2>4. QED
    BY <1>4, <2>1, <2>2, <2>3, FilesAre DEF Reads
<1>8. QED
  BY <1>4, <1>5, <1>6, <1>7

LEMMA NoJobFields ==
    /\ NoJob \in Job /\ NoTable \in Table /\ NothingSeen \in Seen /\ NoSnapshot \in Snapshot
    /\ <<>> \in Times /\ NoFloor \in Floor /\ NoFloor.stamp = 0 /\ NoFloor.loaded = FALSE
    /\ \A p \in Projects : NoTable[p] = NoSnapshot /\ \A f \in Files : NothingSeen[p][f] = 0
    /\ NoJob.pc = "idle" /\ NoJob.task = "one" /\ NoJob.of = {} /\ NoJob.tab = NoTable
    /\ NoJob.base = NothingSeen /\ NoJob.floor = NoFloor /\ NoJob.failed = {} /\ NoJob.gone = {}
    /\ NoJob.todo = {} /\ NoJob.data = <<>> /\ NoJob.mod = <<>>
<1>1. NoSnapshot \in Snapshot /\ NoTable \in Table
  BY DEF Snapshot, NoTable, Table
<1>2. NothingSeen \in Seen /\ NoFloor \in Floor
  BY ChangesAssumption DEF NothingSeen, Seen, NoFloor, Floor
<1>3. <<>> \in Times
  <2>1. <<>> \in [{} -> 0 .. MaxChanges]
    OBVIOUS
  <2>2. {} \in SUBSET Files
    OBVIOUS
  <2>3. QED
    BY <2>1, <2>2 DEF Times
<1>4. NoJob \in Job
  BY <1>1, <1>2, <1>3, ReadsFacts DEF NoJob, Job, Phases, Tasks
<1>5. QED
  BY <1>1, <1>2, <1>3, <1>4 DEF NoJob, NoTable, NothingSeen, NoFloor

\* The types of what is looked up most.
LEMMA Typed ==
    ASSUME TypeInv
    PROVE  /\ \A p \in Projects :
                /\ table[p] \in Snapshot
                /\ \A f \in Files : disk[p][f] \in File /\ disk[p][f].at \in Nat
           /\ \A t \in Threads :
                /\ job[t] \in Job /\ job[t].data \in Reads /\ job[t].of \subseteq Projects
                /\ job[t].mod \in Times
                /\ \A p \in Projects : job[t].tab[p] \in Snapshot
                /\ \A f \in Files : f <= Len(job[t].data) => job[t].data[f] \in File
           /\ hosts.at \in Nat
<1>1. \A t \in Threads : job[t] \in Job
  BY DEF TypeInv
<1>2. \A t \in Threads : job[t].data \in Reads /\ job[t].of \subseteq Projects
                           /\ job[t].tab \in Table /\ job[t].mod \in Times
  BY <1>1 DEF Job
<1>3. QED
  BY <1>1, <1>2, ReadsFacts, ChangesAssumption DEF TypeInv, Table, File

LEMMA SnapshotTypes ==
    \A s \in Snapshot : s # NoSnapshot =>
      /\ s.mod \in Times
      /\ \A f \in Files : s.data[f] \in File /\ s.data[f].at \in Nat
      /\ \A f \in Files : f \in DOMAIN s.mod => s.mod[f] \in 0 .. MaxChanges
BY ChangesAssumption DEF Snapshot, File, Times

----------------------------------------------------------------------------
\* The files after a step: each is what it was, or a later change.
FilesGrow(old, new) ==
    \A p \in Projects : \A f \in Files :
        new[p][f] = old[p][f] \/ old[p][f].at < new[p][f].at
NoneLost(old, new) ==
    \A p \in Projects : \A f \in Files :
        new[p][f].is = "absent" => new[p][f] = old[p][f]
Grows ==
    /\ disk' \in [Projects -> [Files -> File]] /\ dirs' \subseteq Projects
    /\ clock' \in 0 .. MaxChanges
    /\ dirs \subseteq dirs' /\ FilesGrow(disk, disk') /\ NoneLost(disk, disk')
    /\ Clocked'

LEMMA SameGrows ==
    ASSUME TypeInv, Clocked, UNCHANGED state
    PROVE  Grows
<1>1. dirs' = dirs /\ disk' = disk /\ clock' = clock /\ hosts' = hosts
  BY DEF state
<1>2. Clocked'
  BY <1>1 DEF Clocked
<1>3. QED
  BY <1>1, <1>2 DEF Grows, TypeInv, FilesGrow, NoneLost

\* What fits the files fits them after a change too.
LEMMA FitsGrow ==
    ASSUME TypeInv, SnapshotsFit, disk' \in [Projects -> [Files -> File]], FilesGrow(disk, disk')
    PROVE  \A p \in Projects :
             /\ \A s \in Snapshot : SnapshotFits(s, disk[p]) => SnapshotFits(s, disk'[p])
             /\ SnapshotFits(table[p], disk'[p])
             /\ \A t \in Threads :
                  /\ SnapshotFits(job[t].tab[p], disk'[p])
                  /\ p \in job[t].of => LoadFits(job[t], disk'[p])
             /\ \A low \in Lows : Above(p, low) => \A f \in Files : low[f] <= disk'[p][f].at
<1>1. \A p \in Projects : \A f \in Files :
        /\ disk[p][f] \in File /\ disk'[p][f] \in File
        /\ disk[p][f].at \in Nat /\ disk'[p][f].at \in Nat
        /\ disk[p][f].at <= disk'[p][f].at
        /\ disk'[p][f] = disk[p][f] \/ disk[p][f].at < disk'[p][f].at
  BY ChangesAssumption DEF TypeInv, FilesGrow, File
<1>2. ASSUME NEW p \in Projects, NEW f \in Files, NEW mod, NEW read \in File,
             Fits(mod, f, read, disk[p][f])
      PROVE  Fits(mod, f, read, disk'[p][f])
  <2>1. read.at \in Nat
    BY ChangesAssumption DEF File
  <2>2. QED
    BY <1>1, <1>2, <2>1 DEF Fits
<1>3. ASSUME NEW p \in Projects, NEW s \in Snapshot, SnapshotFits(s, disk[p])
      PROVE  SnapshotFits(s, disk'[p])
  BY <1>2, <1>3, SnapshotTypes DEF SnapshotFits
<1>4. ASSUME NEW p \in Projects, NEW t \in Threads, p \in job[t].of
      PROVE  LoadFits(job[t], disk'[p])
  <2>1. LoadFits(job[t], disk[p])
    BY <1>4 DEF SnapshotsFit
  <2>2. SUFFICES ASSUME job[t].pc \in Reading, NEW f \in Files
                 PROVE  /\ f \in DOMAIN job[t].mod => job[t].mod[f] <= disk'[p][f].at
                        /\ f <= Len(job[t].data) => Fits(job[t].mod, f, job[t].data[f], disk'[p][f])
    BY DEF LoadFits
  <2>3. f \in DOMAIN job[t].mod => job[t].mod[f] <= disk[p][f].at /\ job[t].mod[f] \in Nat
    BY <2>1, <2>2, Typed, ChangesAssumption DEF LoadFits, Times
  <2>4. f <= Len(job[t].data) => Fits(job[t].mod, f, job[t].data[f], disk'[p][f])
    BY <1>2, <2>1, <2>2, Typed DEF LoadFits
  <2>5. QED
    BY <1>1, <2>3, <2>4
<1>5. ASSUME NEW p \in Projects, NEW low \in Lows, Above(p, low), NEW f \in Files
      PROVE  low[f] <= disk'[p][f].at
  BY <1>1, <1>5, ChangesAssumption DEF Above, Lows
<1>6. QED
  BY <1>3, <1>4, <1>5, Typed DEF SnapshotsFit

\* What a load was asked for stays within the files as they grow.
LEMMA BaseGrows ==
    ASSUME TypeInv, Grows, NEW base \in Seen, BaseFits(base, disk)
    PROVE  BaseFits(base, disk')
<1>1. SUFFICES ASSUME NEW p \in Projects, NEW f \in Files
               PROVE  /\ base[p][f] <= disk'[p][f].at
                      /\ disk'[p][f].is = "absent" => base[p][f] = 0
  BY DEF BaseFits
<1>2. base[p][f] \in Nat /\ disk[p][f].at \in Nat /\ disk'[p][f].at \in Nat
  BY ChangesAssumption DEF TypeInv, Grows, Seen, File
<1>3. base[p][f] <= disk[p][f].at /\ (disk[p][f].is = "absent" => base[p][f] = 0)
  BY DEF BaseFits
<1>4. disk[p][f].at <= disk'[p][f].at
  BY <1>2 DEF Grows, FilesGrow
<1>5. disk'[p][f].is = "absent" => disk'[p][f] = disk[p][f]
  BY DEF Grows, NoneLost
<1>6. QED
  BY <1>2, <1>3, <1>4, <1>5

LEMMA BaseStarts ==
    ASSUME TypeInv
    PROVE  /\ Stamps \in Seen /\ BaseFits(Stamps, disk)
           /\ \A files \in [Projects -> [Files -> File]] : BaseFits(NothingSeen, files)
<1>1. Stamps \in Seen /\ BaseFits(Stamps, disk)
  <2>1. \A p \in Projects : \A f \in Files :
          /\ disk[p][f].at \in 0 .. MaxChanges
          /\ Stamps[p][f] = IF disk[p][f].is = "absent" THEN 0 ELSE disk[p][f].at
    BY ChangesAssumption DEF TypeInv, File, Stamps, Stamp
  <2>2. Stamps \in Seen
    BY <2>1, ChangesAssumption DEF Stamps, Stamp, Seen
  <2>3. QED
    BY <2>1, <2>2, ChangesAssumption DEF BaseFits
<1>2. ASSUME NEW files \in [Projects -> [Files -> File]]
      PROVE  BaseFits(NothingSeen, files)
  BY NoJobFields, ChangesAssumption DEF BaseFits, File
<1>3. QED
  BY <1>1, <1>2

----------------------------------------------------------------------------
\* What a thread has after a step that changes neither the table nor what
\* was served, `files` and `ds` being the files and directories then.
Carried(next, files, ds) ==
    /\ \A p \in Projects :
         /\ SnapshotFits(next.tab[p], files[p])
         /\ p \in next.of => LoadFits(next, files[p])
         /\ \A low \in Lows : Above(p, low) =>
              /\ p \in next.of => LoadCovers(next, low)
              /\ Builds(next) => Covers(next.tab[p], low)
    /\ BaseKept(next, files)
    /\ ServedBy(next, ds, served)
PromisesKept ==
    promised' \in Seen /\ \A p \in Projects, low \in Lows : low = promised'[p] => Above(p, low)
FloorHolds ==
    /\ floor' \in Floor /\ floor'.stamp <= hosts.at
    /\ floor'.loaded => FloorFits(floor', hosts)

LEMMA SameKept ==
    ASSUME SnapInv
    PROVE  /\ promised' = promised => PromisesKept
           /\ floor' = floor => FloorHolds
<1>1. \A p \in Projects : promised[p] \in Lows /\ IsBound(promised[p], p)
  BY DEF SnapInv, TypeInv, Seen, Lows, IsBound
<1>2. promised' = promised => PromisesKept
  BY <1>1 DEF PromisesKept, SnapInv, BoundsKept, TypeInv
<1>3. QED
  BY <1>2 DEF FloorHolds, SnapInv, TypeInv, FloorsFit

\* A step of one thread that leaves the table alone.
LEMMA QuietStep ==
    ASSUME SnapInv, NEW t \in Threads, NEW next \in Job,
           job' = [job EXCEPT ![t] = next],
           table' = table, tunnel' = tunnel, served' = served, hosts' = hosts,
           Grows, PromisesKept, FloorHolds,
           mutex' \subseteq Threads, mutex' = mutex \/ mutex = {} \/ mutex = {t},
           next.pc \in Loading => mutex' = {t},
           Formed(next, t),
           next.floor.stamp <= hosts.at, next.pc = "swap" => FloorFits(next.floor, hosts),
           Compares(next) => next.tab = table \/ (Compares(job[t]) /\ next.tab = job[t].tab),
           Carried(next, disk', dirs')
    PROVE  SnapInv'
<1>0. /\ job'[t] = next
      /\ \A u \in Threads : u # t => job'[u] = job[u]
      /\ job' \in [Threads -> Job]
  BY DEF SnapInv, TypeInv
<1>1. TypeInv'
  BY <1>0 DEF SnapInv, TypeInv, Grows, PromisesKept, FloorHolds, Clocked
<1>2. ThreadsFormed'
  BY <1>0 DEF SnapInv, ThreadsFormed
<1>3. MutexHeld'
  BY <1>0 DEF SnapInv, MutexHeld
<1>4. Clocked'
  BY DEF Grows
<1>5. /\ \A p \in Projects :
           /\ SnapshotFits(table[p], disk'[p])
           /\ \A u \in Threads :
                /\ SnapshotFits(job[u].tab[p], disk'[p])
                /\ p \in job[u].of => LoadFits(job[u], disk'[p])
           /\ \A low \in Lows : Above(p, low) => \A f \in Files : low[f] <= disk'[p][f].at
  BY FitsGrow DEF SnapInv, Grows
<1>6. SnapshotsFit'
  BY <1>0, <1>5 DEF SnapshotsFit, Carried
<1>7. FloorsFit'
  BY <1>0 DEF SnapInv, FloorsFit, FloorHolds
<1>8. ASSUME NEW p \in Projects, NEW low \in Lows, Above(p, low)
      PROVE  Above(p, low)'
  <2>1. /\ \A f \in Files : low[f] <= disk'[p][f].at
        /\ Covers(table[p], low)
        /\ \A u \in Threads : p \in job[u].of => LoadCovers(job[u], low)
        /\ \A u \in Threads : Builds(job[u]) => Covers(job[u].tab[p], low)
    BY <1>5, <1>8 DEF Above
  <2>2. /\ p \in next.of => LoadCovers(next, low)
        /\ Builds(next) => Covers(next.tab[p], low)
    BY <1>8 DEF Carried
  <2>3. ASSUME NEW u \in Threads
        PROVE  /\ p \in job'[u].of => LoadCovers(job'[u], low)
               /\ Builds(job'[u]) => Covers(job'[u].tab[p], low)
    BY <1>0, <2>1, <2>2
  <2>4. QED
    BY <2>1, <2>3 DEF Above
<1>9. ASSUME NEW p \in Projects, NEW low \in Lows, IsBound(low, p)'
      PROVE  Above(p, low)
  <2>1. ASSUME IsBound(low, p) PROVE Above(p, low)
    BY <2>1 DEF SnapInv, BoundsKept
  <2>2. CASE low = promised'[p]
    BY <2>2 DEF PromisesKept
  <2>3. CASE table'[p] # NoSnapshot /\ low = Low(table'[p].mod)
    BY <2>1, <2>3 DEF IsBound
  <2>4. CASE \E c \in Tunnels : tunnel'[c].pc = "asked" /\ p \in tunnel'[c].of /\ low = tunnel'[c].seen
    BY <2>1, <2>4 DEF IsBound
  <2>5. ASSUME NEW u \in Threads, Compares(job'[u]), job'[u].tab[p] # NoSnapshot,
               low = Low(job'[u].tab[p].mod)
        PROVE  Above(p, low)
    BY <1>0, <2>1, <2>5 DEF IsBound
  <2>6. QED
    BY <1>9, <2>2, <2>3, <2>4, <2>5 DEF IsBound
<1>10. BoundsKept'
  BY <1>8, <1>9 DEF BoundsKept
<1>11. \A u \in Threads : BaseKept(job[u], disk')
  <2>1. ASSUME NEW u \in Threads, job[u].pc # "idle"
        PROVE  BaseFits(job[u].base, disk')
    BY <2>1, BaseGrows DEF SnapInv, TypeInv, BasesKept, BaseKept, Job
  <2>2. QED
    BY <2>1 DEF SnapInv, BasesKept, BaseKept
<1>12. BasesKept'
  BY <1>0, <1>11 DEF BasesKept, Carried
<1>13. ASSUME NEW u \in Threads PROVE ServedBy(job'[u], dirs', served)
  <2>1. ServedBy(job[u], dirs', served)
    BY DEF SnapInv, ServedKept, ServedBy, Grows
  <2>2. QED
    BY <1>0, <2>1 DEF Carried
<1>14. ServedKept'
  BY <1>13 DEF SnapInv, ServedKept, Grows
<1>15. Answered'
  BY DEF SnapInv, Answered
<1>16. QED
  BY <1>1, <1>2, <1>3, <1>4, <1>6, <1>7, <1>10, <1>12, <1>14, <1>15 DEF SnapInv

\* A step after which the thread loads nothing.
LEMMA OutsideStep ==
    ASSUME SnapInv, NEW t \in Threads, NEW next \in Job,
           job' = [job EXCEPT ![t] = next],
           table' = table, tunnel' = tunnel, served' = served, hosts' = hosts,
           Grows, PromisesKept, FloorHolds,
           mutex' = mutex \/ (mutex = {t} /\ mutex' = {}),
           Formed(next, t), next.pc \notin Loading,
           next.floor.stamp <= hosts.at, next.pc = "swap" => FloorFits(next.floor, hosts),
           next.tab = job[t].tab \/ next.tab = NoTable \/ next.tab = table,
           Compares(next) => next.tab = table \/ (Compares(job[t]) /\ next.tab = job[t].tab),
           next.pc # "idle" => BaseFits(next.base, disk'),
           next.task = "one" => next.of \subseteq dirs' \cup next.failed
    PROVE  SnapInv'
<1>1. next.pc \notin Reading /\ ~Builds(next)
  BY DEF Loading, Reading, Builds
<1>2. ASSUME NEW p \in Projects PROVE SnapshotFits(next.tab[p], disk'[p])
  <2>1. SnapshotFits(table[p], disk'[p]) /\ SnapshotFits(job[t].tab[p], disk'[p])
    BY FitsGrow DEF SnapInv, Grows
  <2>2. SnapshotFits(NoTable[p], disk'[p])
    BY NoJobFields DEF SnapshotFits
  <2>3. QED
    BY <2>1, <2>2
<1>3. \A p \in Projects : LoadFits(next, disk'[p]) /\ \A low \in Lows : LoadCovers(next, low)
  BY <1>1 DEF LoadFits, LoadCovers
<1>4. BaseKept(next, disk')
  <2>1. \A p \in Projects : LoadCovers(next, next.base[p])
    BY <1>1 DEF LoadCovers
  <2>2. QED
    BY <1>1, <2>1 DEF BaseKept
<1>5. ServedBy(next, dirs', served)
  BY <1>1 DEF ServedBy
<1>6. Carried(next, disk', dirs')
  BY <1>1, <1>2, <1>3, <1>4, <1>5 DEF Carried
<1>7. mutex' \subseteq Threads
  BY DEF SnapInv, TypeInv
<1>8. mutex' = mutex \/ mutex = {} \/ mutex = {t}
  OBVIOUS
<1>9. next.pc \in Loading => mutex' = {t}
  OBVIOUS
<1>10. QED
  BY <1>6, <1>7, <1>8, <1>9, QuietStep

\* Most of the facts about a step outside are facts about NoJob, or about
\* what the thread was doing.
LEMMA ThreadFacts ==
    ASSUME SnapInv, NEW t \in Threads
    PROVE  /\ job[t] \in Job /\ Formed(job[t], t)
           /\ job[t].pc \in Loading => mutex = {t}
           /\ job[t].floor \in Floor /\ job[t].floor.stamp <= hosts.at /\ 0 <= hosts.at
           /\ job[t].pc = "swap" => FloorFits(job[t].floor, hosts)
           /\ job[t].pc # "idle" => BaseFits(job[t].base, disk)
           /\ job[t].task = "one" => job[t].of \subseteq dirs \cup job[t].failed
           /\ (UNCHANGED state) => Grows /\ disk' = disk /\ dirs' = dirs /\ hosts' = hosts
           /\ (UNCHANGED history) => promised' = promised /\ served' = served
           /\ promised' = promised => PromisesKept
           /\ floor' = floor => FloorHolds
<1>1. job[t] \in Job /\ Formed(job[t], t)
  BY DEF SnapInv, TypeInv, ThreadsFormed
<1>2. job[t].pc \in Loading => mutex = {t}
  BY DEF SnapInv, MutexHeld
<1>3. /\ job[t].floor \in Floor /\ job[t].floor.stamp <= hosts.at
      /\ job[t].pc = "swap" => FloorFits(job[t].floor, hosts)
  BY <1>1 DEF SnapInv, FloorsFit, Job
<1>4. 0 <= hosts.at
  BY ChangesAssumption DEF SnapInv, TypeInv, File
<1>5. job[t].pc # "idle" => BaseFits(job[t].base, disk)
  BY DEF SnapInv, BasesKept, BaseKept
<1>6. job[t].task = "one" => job[t].of \subseteq dirs \cup job[t].failed
  BY DEF SnapInv, ServedKept, ServedBy
<1>7. (UNCHANGED state) => Grows /\ disk' = disk /\ dirs' = dirs /\ hosts' = hosts
  BY SameGrows DEF SnapInv, state
<1>8. (UNCHANGED history) => promised' = promised /\ served' = served
  BY DEF history
<1>9. QED
  BY <1>1, <1>2, <1>3, <1>4, <1>5, <1>6, <1>7, <1>8, SameKept

\* handleReload and the ticker.
LEMMA ReloadKeeps ==
    ASSUME SnapInv, NEW t \in Threads, Reload(t) \/ (t = Poller /\ PollStarts)
    PROVE  SnapInv'
<1>1. PICK next \in Job :
        /\ job' = [job EXCEPT ![t] = next]
        /\ next.pc = "floor" /\ next.of = {} /\ next.floor = NoFloor /\ next.tab = NoTable
        /\ next.task = "all" \/ (t = Poller /\ next.task = "poll")
        /\ next.base = Stamps \/ next.base = NothingSeen
  <2>1. CASE Reload(t)
    <3>1. PICK next : next = [NoJob EXCEPT !.pc = "floor", !.task = "all", !.base = Stamps]
      OBVIOUS
    <3>2. Stamps \in Seen
      BY BaseStarts DEF SnapInv
    <3>3. next \in Job
      BY ONLY <3>1, <3>2, NoJobFields DEF Job, Phases, Tasks
    <3>4. /\ next.pc = "floor" /\ next.of = {} /\ next.floor = NoFloor /\ next.tab = NoTable
          /\ next.task = "all" /\ next.base = Stamps
      BY ONLY <3>1, NoJobFields DEF Job
    <3>5. job' = [job EXCEPT ![t] = next]
      BY <2>1, <3>1 DEF Reload
    <3>6. QED
      BY <3>3, <3>4, <3>5
  <2>2. CASE t = Poller /\ PollStarts
    <3>1. PICK next : next = [NoJob EXCEPT !.pc = "floor", !.task = "poll"]
      OBVIOUS
    <3>3. next \in Job
      BY ONLY <3>1, NoJobFields DEF Job, Phases, Tasks
    <3>4. /\ next.pc = "floor" /\ next.of = {} /\ next.floor = NoFloor /\ next.tab = NoTable
          /\ next.task = "poll" /\ next.base = NothingSeen
      BY ONLY <3>1, NoJobFields DEF Job
    <3>5. job' = [job EXCEPT ![t] = next]
      BY <2>2, <3>1 DEF PollStarts
    <3>6. QED
      BY <2>2, <3>3, <3>4, <3>5
  <2>3. QED
    BY <2>1, <2>2
<1>2. /\ UNCHANGED state /\ UNCHANGED history
      /\ table' = table /\ tunnel' = tunnel /\ floor' = floor /\ mutex' = mutex
  BY DEF Reload, PollStarts
<1>3. Formed(next, t) /\ next.pc \notin Loading /\ ~Compares(next)
  BY <1>1 DEF Formed, Loading, Compares
<1>4. BaseFits(next.base, disk')
  BY <1>1, <1>2, BaseStarts DEF SnapInv, TypeInv, state
<1>5. next.floor.stamp <= hosts.at
  BY <1>1, NoJobFields, ThreadFacts
<1>6. QED
  BY <1>1, <1>2, <1>3, <1>4, <1>5, ThreadFacts, OutsideStep

\* The floor is loaded in three steps, without the mutex.
LEMMA FloorKeeps ==
    ASSUME SnapInv, NEW t \in Threads, StampFloor(t) \/ ReadFloor(t) \/ StoreFloor(t)
    PROVE  SnapInv'
<1>0. PICK old \in Job : old = job[t]
  BY ThreadFacts
<1>a. /\ old.pc \in {"floor", "hosts", "swap"} /\ old.task \in {"all", "poll"} /\ old.of = {}
      /\ old.task = "poll" => t = Poller
  BY <1>0, ThreadFacts DEF StampFloor, ReadFloor, StoreFloor, At, Formed, Job, Tasks
<1>b. PICK stamp \in 0 .. MaxChanges : stamp = Stamp(hosts) /\ stamp <= hosts.at
  BY ChangesAssumption DEF SnapInv, TypeInv, File, Stamp
<1>c. PICK list \in 0 .. MaxChanges : list = Patterns /\ (hosts.is = "on" => list = hosts.at)
  BY ChangesAssumption DEF SnapInv, TypeInv, File, Patterns
<1>d. PICK after \in {"poll", "lock"} : after = AfterFloor(t) /\ (after = "poll" <=> old.task = "poll")
  BY <1>0 DEF AfterFloor
<1>e. old.floor \in Floor /\ old.floor.stamp <= hosts.at
  BY <1>0, ThreadFacts
<1>1. PICK next \in Job :
        /\ job' = [job EXCEPT ![t] = next]
        /\ next.pc \in {"hosts", "swap", after}
        /\ next.task = old.task /\ next.of = {} /\ next.tab = old.tab /\ next.base = old.base
        /\ next.floor.stamp <= hosts.at
        /\ next.pc = "swap" => FloorFits(next.floor, hosts)
  <2>1. CASE StampFloor(t)
    <3>1. PICK one : one = [old EXCEPT !.pc = after]
      OBVIOUS
    <3>2. PICK two : two = [old EXCEPT !.pc = "hosts", !.floor.stamp = stamp]
      OBVIOUS
    <3>3. one \in Job /\ two \in Job
      BY ONLY <3>1, <3>2, <1>b, <1>d DEF Job, Phases, Floor
    <3>4. /\ one.pc = after /\ one.task = old.task /\ one.of = old.of /\ one.tab = old.tab
          /\ one.base = old.base /\ one.floor = old.floor
          /\ two.pc = "hosts" /\ two.task = old.task /\ two.of = old.of /\ two.tab = old.tab
          /\ two.base = old.base /\ two.floor.stamp = stamp
      BY ONLY <3>1, <3>2 DEF Job, Floor
    <3>5. job' = [job EXCEPT ![t] = one] \/ job' = [job EXCEPT ![t] = two]
      BY ZenonT(60), <1>0, <1>b, <1>d, <2>1, <3>1, <3>2 DEF StampFloor, SnapInv, TypeInv
    <3>6. QED
      BY <1>a, <1>b, <1>d, <1>e, <3>3, <3>4, <3>5
  <2>2. CASE ReadFloor(t)
    <3>1. PICK one : one = [old EXCEPT !.pc = after, !.floor = NoFloor]
      OBVIOUS
    <3>2. PICK two : two = [old EXCEPT !.pc = "swap", !.floor.patterns = list]
      OBVIOUS
    <3>3. one \in Job /\ two \in Job
      BY ONLY ZenonT(60), <3>1, <3>2, <1>c, <1>d, NoJobFields DEF Job, Phases, Floor
    <3>4. /\ one.pc = after /\ one.task = old.task /\ one.of = old.of /\ one.tab = old.tab
          /\ one.base = old.base /\ one.floor = NoFloor
          /\ two.pc = "swap" /\ two.task = old.task /\ two.of = old.of /\ two.tab = old.tab
          /\ two.base = old.base /\ two.floor.stamp = old.floor.stamp /\ two.floor.patterns = list
      BY ONLY <3>1, <3>2 DEF Job, Floor
    <3>5. job' = [job EXCEPT ![t] = one] \/ job' = [job EXCEPT ![t] = two]
      <4>1. job \in [Threads -> Job]
        BY DEF SnapInv, TypeInv
      <4>2. CASE hosts.is = "bad" /\ floor.loaded
        BY <1>0, <1>d, <2>2, <3>1, <4>1, <4>2 DEF ReadFloor
      <4>3. CASE ~(hosts.is = "bad" /\ floor.loaded)
        BY <1>0, <1>c, <2>2, <3>2, <4>1, <4>3 DEF ReadFloor
      <4>4. QED
        BY <4>2, <4>3
    <3>6. FloorFits(two.floor, hosts)
      BY <1>c, <3>4 DEF FloorFits
    <3>7. QED
      BY <1>a, <1>c, <1>d, <1>e, <3>3, <3>4, <3>5, <3>6, NoJobFields, ThreadFacts
  <2>3. CASE StoreFloor(t)
    <3>1. PICK one : one = [old EXCEPT !.pc = after, !.floor = NoFloor]
      OBVIOUS
    <3>3. one \in Job
      BY ONLY <3>1, <1>d, NoJobFields DEF Job, Phases
    <3>4. /\ one.pc = after /\ one.task = old.task /\ one.of = old.of /\ one.tab = old.tab
          /\ one.base = old.base /\ one.floor = NoFloor
      BY ONLY <3>1 DEF Job
    <3>5. job' = [job EXCEPT ![t] = one]
      BY <1>0, <1>d, <2>3, <3>1 DEF StoreFloor, SnapInv, TypeInv
    <3>7. QED
      BY <1>a, <1>d, <3>3, <3>4, <3>5, NoJobFields, ThreadFacts
  <2>4. QED
    BY <2>1, <2>2, <2>3
<1>2. /\ UNCHANGED state /\ UNCHANGED history
      /\ table' = table /\ tunnel' = tunnel /\ mutex' = mutex
  BY DEF StampFloor, ReadFloor, StoreFloor
<1>3. Formed(next, t) /\ next.pc \notin Loading /\ ~Compares(next)
  BY <1>1, <1>a, <1>d DEF Formed, Loading, Compares
<1>4. BaseFits(next.base, disk')
  BY <1>0, <1>a, <1>1, <1>2, ThreadFacts DEF state
<1>5. FloorHolds
  <2>1. CASE StampFloor(t) \/ ReadFloor(t)
    BY <2>1, ThreadFacts DEF StampFloor, ReadFloor
  <2>2. CASE StoreFloor(t)
    <3>1. PICK new : new = [old.floor EXCEPT !.loaded = TRUE]
      OBVIOUS
    <3>2. new \in Floor /\ new.stamp = old.floor.stamp /\ new.patterns = old.floor.patterns
      BY <1>e, <3>1 DEF Floor
    <3>3. FloorFits(old.floor, hosts)
      BY <1>0, <2>2, ThreadFacts DEF StoreFloor, At
    <3>4. FloorFits(new, hosts)
      BY <3>2, <3>3 DEF FloorFits
    <3>5. floor' = new
      BY <1>0, <2>2, <3>1 DEF StoreFloor
    <3>6. QED
      BY <1>e, <3>2, <3>4, <3>5 DEF FloorHolds
  <2>3. QED
    BY <2>1, <2>2
<1>6. QED
  BY <1>0, <1>a, <1>1, <1>2, <1>3, <1>4, <1>5, ThreadFacts, OutsideStep

----------------------------------------------------------------------------
(* The poll.                                                                *)

LEMMA LowTypes ==
    \A mod \in Times : Low(mod) \in Lows
BY ChangesAssumption DEF Low, Lows, Times

\* A bound that is at each file one of two bounds.
LEMMA AboveBoth ==
    ASSUME TypeInv, NEW p \in Projects, NEW a \in Lows, NEW b \in Lows, NEW low \in Lows,
           Above(p, a), Above(p, b), \A f \in Files : low[f] <= a[f] \/ low[f] <= b[f]
    PROVE  Above(p, low)
<1>1. \A f \in Files : low[f] \in Nat /\ a[f] \in Nat /\ b[f] \in Nat /\ disk[p][f].at \in Nat
  BY Typed, ChangesAssumption DEF Lows
<1>2. \A f \in Files : low[f] <= disk[p][f].at
  BY <1>1 DEF Above
<1>3. ASSUME NEW s \in Snapshot, Covers(s, a), Covers(s, b) PROVE Covers(s, low)
  BY <1>1, <1>3, SnapshotTypes DEF Covers
<1>4. Covers(table[p], low)
  BY <1>3, Typed DEF Above
<1>5. ASSUME NEW t \in Threads, Builds(job[t]) PROVE Covers(job[t].tab[p], low)
  BY <1>3, <1>5, Typed DEF Above
<1>6. ASSUME NEW t \in Threads, p \in job[t].of PROVE LoadCovers(job[t], low)
  <2>1. \A f \in Files : f <= Len(job[t].data) => job[t].data[f].at \in Nat
    BY Typed, ChangesAssumption DEF File
  <2>2. LoadCovers(job[t], a) /\ LoadCovers(job[t], b)
    BY <1>6 DEF Above
  <2>3. QED
    BY <1>1, <2>1, <2>2 DEF LoadCovers
<1>7. QED
  BY <1>2, <1>4, <1>5, <1>6 DEF Above

LEMMA PromiseFacts ==
    ASSUME TypeInv, NEW t \in Threads, NEW ps \in SUBSET Projects, Promise(t, ps)
    PROVE  /\ promised' \in Seen
           /\ \A p \in Projects : \A f \in Files :
                /\ p \notin ps => promised'[p][f] = promised[p][f]
                /\ promised'[p][f] = promised[p][f] \/ promised'[p][f] = job[t].base[p][f]
           /\ \A p \in Projects : p \notin ps => promised'[p] = promised[p]
<1>1. job[t].base \in Seen /\ promised \in Seen
  BY Typed DEF Job, TypeInv
<1>2. QED
  BY <1>1 DEF Promise, Seen

\* What the poll finds unchanged is as new as when it began.
LEMMA UnchangedIsKept ==
    ASSUME SnapInv, Poller \in Threads, NEW p \in Projects, job[Poller].pc = "pass",
           job[Poller].tab[p] # NoSnapshot, job[Poller].tab[p].mod = ModTimes(p),
           Promise(Poller, {p})
    PROVE  PromisesKept
<1>1. TypeInv /\ job[Poller].base \in Seen
  BY Typed DEF SnapInv, Job
<1>2. PICK low \in Lows : low = Low(job[Poller].tab[p].mod)
  BY Typed, SnapshotTypes, LowTypes DEF SnapInv
<1>3. Compares(job[Poller])
  BY ThreadFacts DEF Formed, Compares
<1>4. Above(p, low)
  BY <1>2, <1>3 DEF SnapInv, BoundsKept, IsBound
<1>5. \A q \in Projects : promised[q] \in Lows /\ Above(q, promised[q])
  BY DEF SnapInv, BoundsKept, IsBound, TypeInv, Seen, Lows
<1>6. BaseFits(job[Poller].base, disk)
  BY ThreadFacts
<1>7. ASSUME NEW f \in Files PROVE job[Poller].base[p][f] <= low[f]
  <2>1. job[Poller].base[p][f] \in Nat /\ disk[p][f].at \in Nat
    BY <1>1, Typed, ChangesAssumption DEF Seen
  <2>2. CASE disk[p][f].is = "absent"
    <3>1. f \notin DOMAIN ModTimes(p)
      BY <2>2 DEF ModTimes
    <3>2. low[f] = 0
      BY <1>2, <3>1 DEF Low
    <3>3. QED
      BY <1>6, <2>2, <3>2 DEF BaseFits
  <2>3. CASE disk[p][f].is # "absent"
    <3>1. f \in DOMAIN ModTimes(p) /\ ModTimes(p)[f] = disk[p][f].at
      BY <2>3 DEF ModTimes
    <3>2. low[f] = disk[p][f].at
      BY <1>2, <3>1 DEF Low
    <3>3. QED
      BY <1>6, <3>2 DEF BaseFits
  <2>4. QED
    BY <2>2, <2>3
<1>8. /\ promised' \in Seen
      /\ \A f \in Files :
           promised'[p][f] = promised[p][f] \/ promised'[p][f] = job[Poller].base[p][f]
      /\ \A q \in Projects : q # p => promised'[q] = promised[q]
  BY <1>1, PromiseFacts
<1>9. PICK new \in Lows : new = promised'[p]
  BY <1>8 DEF Seen, Lows
<1>10. \A f \in Files : new[f] <= promised[p][f] \/ new[f] <= low[f]
  BY <1>5, <1>7, <1>8, <1>9, ChangesAssumption DEF Lows
<1>11. Above(p, new)
  BY <1>1, <1>4, <1>5, <1>10, AboveBoth
<1>12. QED
  BY <1>5, <1>8, <1>9, <1>11 DEF PromisesKept

LEMMA PollKeeps ==
    ASSUME SnapInv, PollList \/ PollTable \/ PollProject \/ PollGone \/ PollEnds
    PROVE  SnapInv'
<1>p. Poller \in Threads
  BY DEF Threads
<1>0. PICK old \in Job : old = job[Poller]
  BY <1>p, ThreadFacts
<1>a. /\ job \in [Threads -> Job] /\ table \in Table /\ dirs \subseteq Projects
      /\ Stamps \in Seen /\ BaseFits(Stamps, disk)
  BY SMTT(60), BaseStarts DEF SnapInv, TypeInv
<1>b. old.pc \in {"poll", "table", "pass"} /\ old.task = "poll"
  BY <1>0, <1>p, ThreadFacts DEF PollList, PollTable, PollProject, PollGone, PollEnds, At, Formed
<1>1. PICK next \in Job :
        /\ job' = [job EXCEPT ![Poller] = next]
        /\ next.floor \in {old.floor, NoFloor} /\ next.base \in {old.base, Stamps, NothingSeen}
        /\ \/ next.pc \in {"table", "pass"} /\ next.task = "poll"
           \/ next.pc = "lock" /\ next.task = "poll" /\ \E p \in Projects : next.of = {p}
           \/ next = NoJob
        /\ \/ next.pc = "table" /\ next.tab = old.tab
           \/ next.tab = table
           \/ next.tab = old.tab /\ old.pc = "pass"
           \/ next = NoJob
        /\ PromisesKept
  <2>1. CASE PollList
    <3>1. PICK next : next = [old EXCEPT !.pc = "table", !.todo = dirs, !.base = Stamps, !.failed = {}]
      OBVIOUS
    <3>2. next \in Job
      BY ONLY <3>1, <1>a DEF Job, Phases
    <3>3. /\ next.pc = "table" /\ next.task = old.task /\ next.tab = old.tab
          /\ next.base = Stamps /\ next.floor = old.floor
      BY ONLY <3>1 DEF Job
    <3>4. job' = [job EXCEPT ![Poller] = next]
      BY <1>0, <1>a, <1>p, <2>1, <3>1 DEF PollList
    <3>5. PromisesKept
      BY <1>p, <2>1, ThreadFacts DEF PollList
    <3>6. QED
      BY <1>b, <3>2, <3>3, <3>4, <3>5
  <2>2. CASE PollTable
    <3>a. PICK gone \in SUBSET Projects : gone = {p \in Projects \ old.todo : table[p] # NoSnapshot}
      OBVIOUS
    <3>1. PICK next : next = [old EXCEPT !.pc = "pass", !.tab = table, !.gone = gone]
      OBVIOUS
    <3>2. next \in Job
      BY ONLY <3>1, <3>a, <1>a DEF Job, Phases
    <3>3. /\ next.pc = "pass" /\ next.task = old.task /\ next.tab = table
          /\ next.base = old.base /\ next.floor = old.floor
      BY ONLY <3>1 DEF Job
    <3>4. job' = [job EXCEPT ![Poller] = next]
      BY <1>0, <1>a, <1>p, <2>2, <3>a, <3>1 DEF PollTable
    <3>5. PromisesKept
      BY <1>p, <2>2, ThreadFacts DEF PollTable
    <3>6. QED
      BY <1>b, <3>2, <3>3, <3>4, <3>5
  <2>3. CASE PollProject
    <3>a. PICK p \in old.todo :
            \/ /\ old.tab[p] # NoSnapshot /\ old.tab[p].mod = ModTimes(p)
               /\ job' = [job EXCEPT ![Poller].todo = @ \ {p}]
               /\ IF p \notin old.failed THEN Promise(Poller, {p}) ELSE UNCHANGED promised
            \/ /\ job' = [job EXCEPT ![Poller].pc = "lock", ![Poller].of = {p}, ![Poller].todo = @ \ {p}]
               /\ UNCHANGED promised
      BY <1>0, <2>3 DEF PollProject
    <3>b. old.pc = "pass" /\ p \in Projects
      BY <1>0, <2>3 DEF PollProject, At, Job
    <3>1. PICK one : one = [old EXCEPT !.todo = old.todo \ {p}]
      OBVIOUS
    <3>2. PICK two : two = [old EXCEPT !.pc = "lock", !.of = {p}, !.todo = old.todo \ {p}]
      OBVIOUS
    <3>3. one \in Job /\ two \in Job
      BY ONLY <3>1, <3>2, <3>b DEF Job, Phases
    <3>4. /\ one.pc = old.pc /\ one.task = old.task /\ one.tab = old.tab
          /\ one.base = old.base /\ one.floor = old.floor
          /\ two.pc = "lock" /\ two.of = {p} /\ two.task = old.task /\ two.tab = old.tab
          /\ two.base = old.base /\ two.floor = old.floor
      BY ONLY <3>1, <3>2 DEF Job
    <3>5. job' = [job EXCEPT ![Poller] = one] \/ job' = [job EXCEPT ![Poller] = two]
      BY <1>0, <1>a, <1>p, <3>a, <3>1, <3>2
    <3>6. PromisesKept
      <4>1. CASE promised' = promised
        BY <1>p, <4>1, ThreadFacts
      <4>2. CASE old.tab[p] # NoSnapshot /\ old.tab[p].mod = ModTimes(p) /\ Promise(Poller, {p})
        BY <1>0, <1>p, <3>b, <4>2, UnchangedIsKept
      <4>3. QED
        BY <3>a, <4>1, <4>2
    <3>7. QED
      BY <1>b, <3>b, <3>3, <3>4, <3>5, <3>6
  <2>4. CASE PollGone
    <3>a. PICK p \in old.gone :
            job' = [job EXCEPT ![Poller].pc = "lock", ![Poller].of = {p}, ![Poller].gone = @ \ {p}]
      BY <1>0, <2>4 DEF PollGone
    <3>b. old.pc = "pass" /\ p \in Projects
      BY <1>0, <2>4 DEF PollGone, At, Job
    <3>2. PICK two : two = [old EXCEPT !.pc = "lock", !.of = {p}, !.gone = old.gone \ {p}]
      OBVIOUS
    <3>3. two \in Job
      BY ONLY <3>2, <3>b DEF Job, Phases
    <3>4. /\ two.pc = "lock" /\ two.of = {p} /\ two.task = old.task /\ two.tab = old.tab
          /\ two.base = old.base /\ two.floor = old.floor
      BY ONLY <3>2 DEF Job
    <3>5. job' = [job EXCEPT ![Poller] = two]
      BY <1>0, <1>a, <1>p, <3>a, <3>2
    <3>6. PromisesKept
      BY <1>p, <2>4, ThreadFacts DEF PollGone
    <3>7. QED
      BY <1>b, <3>b, <3>3, <3>4, <3>5, <3>6
  <2>5. CASE PollEnds
    BY <1>p, <2>5, NoJobFields, ThreadFacts DEF PollEnds
  <2>6. QED
    BY <2>1, <2>2, <2>3, <2>4, <2>5
<1>2. /\ UNCHANGED state /\ served' = served
      /\ table' = table /\ tunnel' = tunnel /\ mutex' = mutex /\ floor' = floor
  BY DEF PollList, PollTable, PollProject, PollGone, PollEnds, history
<1>3. Formed(next, Poller) /\ next.pc \notin Loading
  BY <1>1, NoJobFields DEF Formed, Loading
<1>4. Compares(next) => next.tab = table \/ (Compares(job[Poller]) /\ next.tab = job[Poller].tab)
  BY <1>0, <1>1, <1>b, NoJobFields DEF Compares
<1>5. BaseFits(next.base, disk')
  BY <1>0, <1>1, <1>2, <1>a, <1>b, <1>p, BaseStarts, ThreadFacts DEF SnapInv, TypeInv
<1>6. next.floor.stamp <= hosts.at
  BY <1>0, <1>1, <1>p, NoJobFields, ThreadFacts
<1>7. next.tab = job[Poller].tab \/ next.tab = NoTable \/ next.tab = table
  BY <1>0, <1>1, NoJobFields
<1>8. next.pc # "swap" /\ (next.task = "one" => next.of = {})
  BY <1>1, NoJobFields
<1>9. Grows /\ FloorHolds /\ hosts' = hosts
  BY <1>2, <1>p, ThreadFacts
<1>10. QED
  BY <1>1, <1>2, <1>3, <1>4, <1>5, <1>6, <1>7, <1>8, <1>9, <1>p, OutsideStep

----------------------------------------------------------------------------
(* A load of one project after the other, by whoever holds the mutex.       *)

LEMMA ThreadCarries ==
    ASSUME SnapInv, NEW t \in Threads
    PROVE  Carried(job[t], disk, dirs)
BY DEF SnapInv, SnapshotsFit, BasesKept, ServedKept, Carried, Above

\* What was read of a project when the last file was read.
LEMMA LoadedFacts ==
    ASSUME SnapInv, NEW t \in Threads, NEW p \in job[t].of, job[t].pc = "store",
           NEW s, s = [mod |-> job[t].mod, data |-> job[t].data]
    PROVE  /\ s \in Snapshot /\ s # NoSnapshot
           /\ SnapshotFits(s, disk[p])
           /\ \A low \in Lows : Above(p, low) => Covers(s, low)
           /\ Covers(s, job[t].base[p])
<1>1. /\ job[t].mod \in Times /\ job[t].data \in Reads /\ job[t].of \subseteq Projects
      /\ p \in Projects
  BY Typed DEF SnapInv
<1>2. Len(job[t].data) = 3
  BY ThreadFacts, FilesAre DEF Formed
<1>3. job[t].data \in [Files -> File] /\ job[t].data # <<>>
  BY <1>1, <1>2, ReadsFacts
<1>4. s \in Snapshot /\ s # NoSnapshot /\ s.mod = job[t].mod /\ s.data = job[t].data
  BY <1>1, <1>3 DEF Snapshot, NoSnapshot
<1>5. job[t].pc \in Reading /\ \A f \in Files : f <= Len(job[t].data)
  BY <1>2, FilesAre DEF Reading
<1>6. Carried(job[t], disk, dirs)
  BY ThreadCarries
<1>7. SnapshotFits(s, disk[p])
  BY <1>1, <1>4, <1>5, <1>6 DEF Carried, LoadFits, SnapshotFits
<1>8. ASSUME NEW low, LoadCovers(job[t], low) PROVE Covers(s, low)
  BY <1>4, <1>5, <1>8 DEF LoadCovers, Covers
<1>9. \A low \in Lows : Above(p, low) => Covers(s, low)
  BY <1>1, <1>6, <1>8 DEF Carried
<1>10. Covers(s, job[t].base[p])
  BY <1>1, <1>5, <1>6, <1>8 DEF Carried, BaseKept, Reading
<1>11. QED
  BY <1>4, <1>7, <1>9, <1>10

\* A step of whoever loads, before anything of it is in the table.
LEMMA LoadStep ==
    ASSUME SnapInv, NEW t \in Threads, NEW next \in Job,
           job' = [job EXCEPT ![t] = next],
           UNCHANGED state, UNCHANGED history,
           table' = table, tunnel' = tunnel, floor' = floor,
           mutex = {} \/ mutex = {t}, mutex' = {t},
           next.pc \in Loading, next.task = job[t].task, next.floor = job[t].floor,
           next.tab = job[t].tab \/ next.task = "all", job[t].pc \in Loading \cup {"lock"},
           Formed(next, t), Carried(next, disk, dirs)
    PROVE  SnapInv'
<1>1. /\ Grows /\ disk' = disk /\ dirs' = dirs /\ hosts' = hosts
      /\ PromisesKept /\ FloorHolds /\ served' = served
  BY ThreadFacts
<1>2. next.floor.stamp <= hosts.at /\ next.pc # "swap"
  BY ThreadFacts DEF Loading
<1>3. Compares(next) => Compares(job[t]) /\ next.tab = job[t].tab
  BY DEF Compares, Loading
<1>4. Carried(next, disk', dirs')
  BY <1>1
<1>5. mutex' \subseteq Threads
  OBVIOUS
<1>6. QED
  BY <1>1, <1>2, <1>3, <1>4, <1>5, QuietStep

\* sync.Mutex.
LEMMA LockKeeps ==
    ASSUME SnapInv, NEW t \in Threads, Lock(t)
    PROVE  SnapInv'
<1>0. PICK old \in Job : old = job[t]
  BY ThreadFacts
<1>a. old.pc = "lock" /\ Formed(old, t) /\ Carried(old, disk, dirs)
  BY <1>0, ThreadFacts, ThreadCarries DEF Lock, At
<1>1. PICK pc \in {"list", "stat"} : pc = IF old.task = "all" THEN "list" ELSE "stat"
  OBVIOUS
<1>2. PICK next : next = [old EXCEPT !.pc = pc]
  OBVIOUS
<1>3. /\ next \in Job
      /\ next.pc = pc /\ next.task = old.task /\ next.of = old.of /\ next.todo = old.todo
      /\ next.gone = old.gone /\ next.mod = old.mod /\ next.data = old.data /\ next.tab = old.tab
      /\ next.base = old.base /\ next.failed = old.failed /\ next.floor = old.floor
  BY ONLY <1>2 DEF Job, Phases
<1>4. job' = [job EXCEPT ![t] = next]
  BY <1>0, <1>1, <1>2 DEF Lock, SnapInv, TypeInv
<1>5. Formed(next, t)
  BY <1>1, <1>3, <1>a DEF Formed
<1>6. next.pc \in Loading /\ next.pc \notin Reading /\ ~Builds(next)
  BY <1>1, <1>3 DEF Loading, Reading, Builds
<1>7. Carried(next, disk, dirs)
  BY <1>3, <1>6, <1>a DEF Carried, LoadFits, LoadCovers, BaseKept, ServedBy
<1>8. QED
  BY <1>0, <1>3, <1>4, <1>5, <1>6, <1>7, <1>a, LoadStep DEF Lock

LEMMA ListKeeps ==
    ASSUME SnapInv, NEW t \in Threads, List(t)
    PROVE  SnapInv'
<1>0. PICK old \in Job : old = job[t]
  BY ThreadFacts
<1>a. /\ old.pc = "list" /\ old.task = "all" /\ old.of = {} /\ mutex = {t}
      /\ Formed(old, t) /\ Carried(old, disk, dirs)
  BY <1>0, ThreadFacts, ThreadCarries DEF List, At, Formed, Loading
<1>b. dirs \subseteq Projects /\ served \subseteq dirs
  BY DEF SnapInv, TypeInv, ServedKept
<1>2. PICK next : next = [old EXCEPT !.pc = "next", !.todo = dirs, !.gone = dirs, !.tab = NoTable]
  OBVIOUS
<1>3. /\ next \in Job
      /\ next.pc = "next" /\ next.task = old.task /\ next.of = old.of /\ next.todo = dirs
      /\ next.gone = dirs /\ next.mod = old.mod /\ next.data = old.data /\ next.tab = NoTable
      /\ next.base = old.base /\ next.failed = old.failed /\ next.floor = old.floor
  BY ONLY <1>2, <1>b, NoJobFields DEF Job, Phases
<1>4. job' = [job EXCEPT ![t] = next]
  BY <1>0, <1>2 DEF List, SnapInv, TypeInv
<1>5. Formed(next, t)
  BY <1>3, <1>a DEF Formed
<1>6. next.pc \in Loading /\ next.pc \notin Reading
  BY <1>3 DEF Loading, Reading
<1>7. \A p \in Projects : /\ SnapshotFits(next.tab[p], disk[p])
                          /\ \A low : Covers(next.tab[p], low)
  BY <1>3, NoJobFields DEF SnapshotFits, Covers
<1>8. ServedBy(next, dirs, served)
  BY <1>3, <1>a, <1>b DEF ServedBy
<1>9. Carried(next, disk, dirs)
  BY <1>3, <1>6, <1>7, <1>8, <1>a DEF Carried, LoadFits, LoadCovers, BaseKept
<1>10. QED
  BY <1>0, <1>3, <1>4, <1>5, <1>6, <1>9, <1>a, LoadStep DEF List, Loading

\* reloadAll takes the next project.
LEMMA TakeKeeps ==
    ASSUME SnapInv, NEW t \in Threads, At(t, "next"), NEW p \in job[t].todo,
           job' = [job EXCEPT ![t].pc = "stat", ![t].of = {p}, ![t].todo = @ \ {p}],
           UNCHANGED <<state, floor, tunnel, table, mutex, history>>
    PROVE  SnapInv'
<1>0. PICK old \in Job : old = job[t]
  BY ThreadFacts
<1>a. /\ old.pc = "next" /\ old.task = "all" /\ old.of = {} /\ mutex = {t}
      /\ Formed(old, t) /\ Carried(old, disk, dirs)
  BY <1>0, ThreadFacts, ThreadCarries DEF At, Formed, Loading
<1>b. p \in old.todo /\ p \in Projects
  BY <1>0 DEF Job
<1>2. PICK next : next = [old EXCEPT !.pc = "stat", !.of = {p}, !.todo = old.todo \ {p}]
  OBVIOUS
<1>3. /\ next \in Job
      /\ next.pc = "stat" /\ next.task = old.task /\ next.of = {p} /\ next.todo = old.todo \ {p}
      /\ next.gone = old.gone /\ next.mod = old.mod /\ next.data = old.data /\ next.tab = old.tab
      /\ next.base = old.base /\ next.failed = old.failed /\ next.floor = old.floor
  BY ONLY <1>2, <1>b DEF Job, Phases
<1>4. job' = [job EXCEPT ![t] = next]
  BY <1>0, <1>2 DEF SnapInv, TypeInv
<1>5. Formed(next, t)
  BY <1>3, <1>a, <1>b DEF Formed
<1>6. next.pc \in Loading /\ next.pc \notin Reading /\ Builds(old) /\ Builds(next)
  BY <1>3, <1>a DEF Loading, Reading, Builds
<1>7. BaseKept(next, disk)
  BY <1>3, <1>6, <1>a DEF Carried, BaseKept, LoadCovers
<1>8. ServedBy(next, dirs, served)
  <2>1. next.gone \ (next.todo \cup next.of) = old.gone \ (old.todo \cup old.of)
    BY <1>3, <1>a, <1>b
  <2>2. QED
    BY <1>3, <1>6, <1>a, <2>1 DEF Carried, ServedBy
<1>9. Carried(next, disk, dirs)
  BY <1>3, <1>6, <1>7, <1>8, <1>a DEF Carried, LoadFits, LoadCovers
<1>10. QED
  BY <1>0, <1>3, <1>4, <1>5, <1>6, <1>9, <1>a, LoadStep DEF Loading

\* loadProject takes the modification times first.
LEMMA StatKeeps ==
    ASSUME SnapInv, NEW t \in Threads, At(t, "stat"), NEW p \in job[t].of,
           job' = [job EXCEPT ![t].pc = "read", ![t].mod = ModTimes(p), ![t].data = <<>>],
           UNCHANGED <<state, floor, tunnel, table, mutex, history>>
    PROVE  SnapInv'
<1>0. PICK old \in Job : old = job[t]
  BY ThreadFacts
<1>a. /\ old.pc = "stat" /\ mutex = {t} /\ p \in Projects /\ old.of = {p}
      /\ Formed(old, t) /\ Carried(old, disk, dirs)
  BY <1>0, ThreadFacts, ThreadCarries DEF At, Formed, Loading, Job
<1>b. PICK mod \in Times :
        mod = ModTimes(p) /\ \A f \in Files : f \in DOMAIN mod => mod[f] <= disk[p][f].at
  <2>1. \A f \in Files : disk[p][f].at \in 0 .. MaxChanges /\ disk[p][f].at <= disk[p][f].at
    BY <1>a, ChangesAssumption DEF SnapInv, TypeInv, File
  <2>2. ModTimes(p) \in Times
    <3>1. PICK set \in SUBSET Files : set = {g \in Files : disk[p][g].is # "absent"}
      OBVIOUS
    <3>2. ModTimes(p) \in [set -> 0 .. MaxChanges]
      BY <2>1, <3>1 DEF ModTimes
    <3>3. QED
      BY <3>2 DEF Times
  <2>3. QED
    BY <2>1, <2>2 DEF ModTimes
<1>2. PICK next : next = [old EXCEPT !.pc = "read", !.mod = mod, !.data = <<>>]
  OBVIOUS
<1>3. /\ next \in Job
      /\ next.pc = "read" /\ next.task = old.task /\ next.of = old.of /\ next.todo = old.todo
      /\ next.gone = old.gone /\ next.mod = mod /\ next.data = <<>> /\ next.tab = old.tab
      /\ next.base = old.base /\ next.failed = old.failed /\ next.floor = old.floor
  BY ONLY <1>2, ReadsFacts DEF Job, Phases
<1>4. job' = [job EXCEPT ![t] = next]
  BY <1>0, <1>2, <1>b DEF SnapInv, TypeInv
<1>5. Formed(next, t)
  BY <1>3, <1>a, ReadsFacts, FilesAre DEF Formed
<1>6. next.pc \in Loading /\ Builds(next) = Builds(old)
  BY <1>3, <1>a DEF Loading, Builds
<1>7. \A f \in Files : ~(f <= Len(next.data))
  BY <1>3, ReadsFacts, FilesAre
<1>8. LoadFits(next, disk[p]) /\ \A low : LoadCovers(next, low)
  BY <1>3, <1>7, <1>b DEF LoadFits, LoadCovers
<1>9. BaseKept(next, disk) /\ ServedBy(next, dirs, served)
  BY <1>3, <1>6, <1>8, <1>a DEF Carried, BaseKept, ServedBy
<1>10. Carried(next, disk, dirs)
  BY <1>3, <1>6, <1>8, <1>9, <1>a DEF Carried
<1>11. QED
  BY <1>0, <1>3, <1>4, <1>5, <1>6, <1>10, <1>a, LoadStep DEF Loading

\* Then it reads one file after the other.
LEMMA ReadKeeps ==
    ASSUME SnapInv, NEW t \in Threads, Read(t)
    PROVE  SnapInv'
<1>0. PICK old \in Job : old = job[t]
  BY ThreadFacts
<1>p. PICK p \in old.of :
        job' = [job EXCEPT ![t].data = Append(@, disk[p][Len(old.data) + 1]),
                           ![t].pc = IF Len(old.data) + 1 = Rules THEN "store" ELSE "read"]
  BY <1>0 DEF Read
<1>a. /\ old.pc = "read" /\ mutex = {t} /\ p \in Projects /\ old.of = {p}
      /\ Formed(old, t) /\ Carried(old, disk, dirs) /\ Len(old.data) < Rules
  BY <1>0, <1>p, ThreadFacts, ThreadCarries DEF Read, At, Formed, Loading, Job
<1>b. PICK d \in Reads : d = old.data /\ Len(d) < Rules
  BY <1>a DEF Job
<1>c. PICK f \in Files : f = Len(d) + 1
  <2>1. Len(d) \in 0 .. 3 /\ Len(d) < 3
    BY <1>b, ReadsFacts, FilesAre
  <2>2. Len(d) + 1 \in {1, 2, 3}
    BY ONLY <2>1
  <2>3. QED
    BY <2>2, FilesAre
<1>d. PICK file \in File : file = disk[p][f] /\ file.at \in Nat
  BY <1>a, Typed DEF SnapInv
<1>e. PICK data \in Reads :
        /\ data = Append(d, file) /\ Len(data) = f
        /\ \A g \in Files : g <= Len(d) => data[g] = d[g]
        /\ data[f] = file
  <2>1. /\ Append(d, file) \in Reads
        /\ Len(Append(d, file)) = Len(d) + 1
        /\ \A g \in Files : g <= Len(d) => Append(d, file)[g] = d[g]
        /\ Append(d, file)[Len(d) + 1] = file
    BY <1>b, <1>d, ReadsFacts, FilesAre
  <2>2. QED
    BY <1>c, <2>1
<1>f. PICK pc \in {"store", "read"} : pc = IF f = Rules THEN "store" ELSE "read"
  OBVIOUS
<1>2. PICK next : next = [old EXCEPT !.data = data, !.pc = pc]
  OBVIOUS
<1>3. /\ next \in Job
      /\ next.pc = pc /\ next.task = old.task /\ next.of = old.of /\ next.todo = old.todo
      /\ next.gone = old.gone /\ next.mod = old.mod /\ next.data = data /\ next.tab = old.tab
      /\ next.base = old.base /\ next.failed = old.failed /\ next.floor = old.floor
  BY ONLY <1>2 DEF Job, Phases
<1>4. job' = [job EXCEPT ![t] = next]
  BY <1>0, <1>p, <1>2, <1>b, <1>c, <1>d, <1>e, <1>f DEF SnapInv, TypeInv
<1>5. Formed(next, t)
  BY <1>3, <1>a, <1>b, <1>c, <1>e, <1>f, FilesAre DEF Formed
<1>6. next.pc \in Loading /\ Builds(next) = Builds(old) /\ old.pc \in Reading
  BY <1>3, <1>a, <1>f DEF Loading, Reading, Builds
<1>7. \A g \in Files : g <= Len(next.data) => g <= Len(old.data) \/ g = f
  <2>1. \A g \in Files : g <= Len(data) => g <= Len(d) \/ g = f
    BY <1>b, <1>c, <1>e, ReadsFacts, FilesAre
  <2>2. QED
    BY <1>3, <1>b, <2>1
<1>8. LoadFits(next, disk[p])
  <2>1. LoadFits(old, disk[p])
    BY <1>a DEF Carried
  <2>2. Fits(old.mod, f, file, disk[p][f])
    BY <1>6, <1>d, <2>1 DEF LoadFits, Fits
  <2>3. QED
    BY <1>3, <1>6, <1>7, <1>b, <1>e, <2>1, <2>2 DEF LoadFits
<1>9. ASSUME NEW low, LoadCovers(old, low), low[f] <= disk[p][f].at
      PROVE  LoadCovers(next, low)
  BY <1>3, <1>6, <1>7, <1>9, <1>b, <1>d, <1>e DEF LoadCovers
<1>10. \A low \in Lows : Above(p, low) => LoadCovers(next, low)
  BY <1>9, <1>a DEF Carried, Above
<1>11. BaseKept(next, disk)
  <2>1. BaseFits(old.base, disk) /\ LoadCovers(old, old.base[p])
    BY <1>a, <1>6 DEF Carried, BaseKept
  <2>2. LoadCovers(next, old.base[p])
    BY <1>9, <1>a, <2>1 DEF BaseFits
  <2>3. QED
    BY <1>3, <1>6, <1>a, <2>1, <2>2 DEF Carried, BaseKept
<1>12. ServedBy(next, dirs, served)
  BY <1>3, <1>6, <1>a DEF Carried, ServedBy
<1>13. Carried(next, disk, dirs)
  BY <1>3, <1>6, <1>8, <1>10, <1>11, <1>12, <1>a DEF Carried
<1>14. QED
  BY <1>0, <1>3, <1>4, <1>5, <1>6, <1>13, <1>a, LoadStep DEF Read, Loading

\* Where a thread goes after its reload of one project.
LEMMA AfterFacts ==
    ASSUME NEW t \in Threads, NEW next, NEW old \in Job, old = job[t], NEW now \in Job,
           now.task = old.task, now.tab = old.tab, now.base = old.base, now.floor = old.floor,
           old.pc \in Loading, old.task = "poll" => t = Poller,
           next = After(t, now)
    PROVE  /\ next \in Job /\ Formed(next, t) /\ next.pc \notin Loading /\ next.pc # "swap"
           /\ next.floor \in {old.floor, NoFloor} /\ next.tab \in {old.tab, NoTable}
           /\ next.pc # "idle" => next.base = old.base
           /\ Compares(next) => Compares(old) /\ next.tab = old.tab
           /\ next.task = "one" => next.of = {}
<1>1. CASE old.task = "poll"
  <2>1. next = [now EXCEPT !.pc = "pass", !.of = {}, !.mod = <<>>, !.data = <<>>]
    BY <1>1 DEF After
  <2>2. /\ next \in Job /\ next.pc = "pass" /\ next.task = "poll" /\ next.of = {}
        /\ next.tab = now.tab /\ next.base = now.base /\ next.floor = now.floor
    BY ONLY <1>1, <2>1, now.task = old.task, NoJobFields, ReadsFacts DEF Job, Phases
  <2>3. Formed(next, t)
    BY <1>1, <2>2 DEF Formed
  <2>4. QED
    BY <1>1, <2>2, <2>3 DEF Compares, Loading
<1>2. CASE old.task # "poll"
  BY <1>2, NoJobFields DEF After, Formed, Loading, Compares
<1>3. QED
  BY <1>1, <1>2

\* A file that cannot be read: the last good snapshot stays.
LEMMA ReadFailsKeeps ==
    ASSUME SnapInv, NEW t \in Threads, ReadFails(t)
    PROVE  SnapInv'
<1>0. PICK old \in Job : old = job[t]
  BY ThreadFacts
<1>p. PICK p \in old.of :
        \/ /\ old.task = "all"
           /\ job' = [job EXCEPT ![t].pc = "next", ![t].of = {}, ![t].tab[p] = table[p],
                                 ![t].failed = @ \cup {p}]
           /\ UNCHANGED mutex
        \/ /\ old.task # "all"
           /\ mutex' = {}
           /\ job' = [job EXCEPT ![t] = After(t, [old EXCEPT !.failed = @ \cup {p}])]
  BY <1>0 DEF ReadFails
<1>a. /\ old.pc = "read" /\ mutex = {t} /\ p \in Projects /\ old.of = {p}
      /\ Formed(old, t) /\ Carried(old, disk, dirs)
  BY <1>0, <1>p, ThreadFacts, ThreadCarries DEF ReadFails, At, Formed, Loading, Job
<1>b. /\ job \in [Threads -> Job] /\ table \in Table /\ table[p] \in Snapshot
  BY <1>a, Typed DEF SnapInv, TypeInv
<1>c. PICK failed \in SUBSET Projects : failed = old.failed \cup {p}
  BY <1>a DEF Job
<1>d. UNCHANGED state /\ UNCHANGED history /\ table' = table /\ tunnel' = tunnel /\ floor' = floor
  BY DEF ReadFails
<1>1. CASE /\ old.task = "all"
           /\ job' = [job EXCEPT ![t].pc = "next", ![t].of = {}, ![t].tab[p] = table[p],
                                 ![t].failed = @ \cup {p}]
           /\ UNCHANGED mutex
  <2>a. PICK tab \in Table : tab = [old.tab EXCEPT ![p] = table[p]]
    BY <1>b DEF Job, Table
  <2>b. \A q \in Projects : tab[q] = IF q = p THEN table[p] ELSE old.tab[q]
    BY <2>a DEF Job, Table
  <2>2. PICK next : next = [old EXCEPT !.pc = "next", !.of = {}, !.tab = tab, !.failed = failed]
    OBVIOUS
  <2>3. /\ next \in Job
        /\ next.pc = "next" /\ next.task = old.task /\ next.of = {} /\ next.todo = old.todo
        /\ next.gone = old.gone /\ next.mod = old.mod /\ next.data = old.data /\ next.tab = tab
        /\ next.base = old.base /\ next.failed = failed /\ next.floor = old.floor
    BY ONLY <2>2 DEF Job, Phases
  <2>4. job' = [job EXCEPT ![t] = next]
    BY <1>0, <1>1, <1>b, <1>c, <2>2, <2>a DEF Job
  <2>5. Formed(next, t)
    BY <2>3, <1>1 DEF Formed
  <2>6. next.pc \in Loading /\ Builds(next) /\ Builds(old) /\ next.pc \notin Reading
    BY <1>1, <1>a, <2>3 DEF Loading, Builds, Reading
  <2>7. SnapshotFits(table[p], disk[p]) /\ \A low \in Lows : Above(p, low) => Covers(table[p], low)
    BY <1>a DEF SnapInv, SnapshotsFit, Above
  <2>8. BaseKept(next, disk)
    BY <1>a, <1>c, <2>b, <2>3, <2>6 DEF Carried, BaseKept
  <2>9. ServedBy(next, dirs, served)
    <3>1. ServedBy(old, dirs, served)
      BY <1>a DEF Carried
    <3>2. p \in served => table[p] # NoSnapshot
      BY DEF SnapInv, ServedKept
    <3>3. \A q \in next.gone \ (next.todo \cup next.of) :
            q # p => q \in old.gone \ (old.todo \cup old.of)
      BY <1>a, <2>3
    <3>4. next.gone \subseteq Projects
      BY <2>3 DEF Job
    <3>5. ASSUME NEW q \in next.gone \ (next.todo \cup next.of),
                 q \in served \/ q \notin next.failed
          PROVE  next.tab[q] # NoSnapshot
      BY <1>c, <2>b, <2>3, <2>6, <3>1, <3>2, <3>3, <3>4, <3>5 DEF ServedBy
    <3>6. /\ served \subseteq next.gone /\ next.todo \subseteq next.gone
          /\ next.gone \subseteq dirs \cup next.failed
      BY <1>c, <2>3, <2>6, <3>1 DEF ServedBy
    <3>7. QED
      BY <1>1, <2>3, <3>5, <3>6 DEF ServedBy
  <2>10. Carried(next, disk, dirs)
    BY <1>a, <2>b, <2>3, <2>6, <2>7, <2>8, <2>9 DEF Carried
  <2>11. mutex' = {t}
    BY <1>1, <1>a
  <2>12. QED
    BY <1>0, <1>1, <1>a, <1>d, <2>3, <2>4, <2>5, <2>6, <2>10, <2>11, LoadStep DEF Loading
<1>2. CASE /\ old.task # "all"
           /\ mutex' = {}
           /\ job' = [job EXCEPT ![t] = After(t, [old EXCEPT !.failed = @ \cup {p}])]
  <2>1. PICK now : now = [old EXCEPT !.failed = failed]
    OBVIOUS
  <2>2. /\ now \in Job /\ now.task = old.task /\ now.tab = old.tab /\ now.base = old.base
        /\ now.floor = old.floor
    BY ONLY <2>1 DEF Job
  <2>3. PICK next : next = After(t, now)
    OBVIOUS
  <2>4. old.pc \in Loading /\ (old.task = "poll" => t = Poller)
    BY <1>a DEF Loading, Formed
  <2>5. /\ next \in Job /\ Formed(next, t) /\ next.pc \notin Loading /\ next.pc # "swap"
        /\ next.floor \in {old.floor, NoFloor} /\ next.tab \in {old.tab, NoTable}
        /\ next.pc # "idle" => next.base = old.base
        /\ Compares(next) => Compares(old) /\ next.tab = old.tab
        /\ next.task = "one" => next.of = {}
    BY <1>0, <2>2, <2>3, <2>4, AfterFacts
  <2>6. job' = [job EXCEPT ![t] = next]
    BY <1>2, <1>c, <2>1, <2>3
  <2>7. next.floor.stamp <= hosts.at
    BY <1>0, <2>5, NoJobFields, ThreadFacts
  <2>8. /\ Grows /\ disk' = disk /\ hosts' = hosts /\ served' = served
        /\ PromisesKept /\ FloorHolds
    BY <1>d, ThreadFacts
  <2>9. next.pc # "idle" => BaseFits(next.base, disk')
    BY <1>0, <1>a, <2>5, <2>8, ThreadFacts
  <2>10. QED
    BY <1>0, <1>2, <1>a, <1>d, <2>5, <2>6, <2>7, <2>8, <2>9, OutsideStep
<1>3. QED
  BY <1>p, <1>1, <1>2

----------------------------------------------------------------------------
(* What a load puts into the table that everybody reads.                    *)

Published ==
    /\ table' \in Table /\ promised' \in Seen /\ served' \subseteq dirs
    /\ \A p \in served' : table'[p] # NoSnapshot
    /\ \A p \in Projects :
         /\ SnapshotFits(table'[p], disk[p])
         /\ \A low \in Lows : Above(p, low) => Covers(table'[p], low)
         /\ \A low \in Lows : low = promised'[p] =>
              Covers(table'[p], low) /\ \A f \in Files : low[f] <= disk[p][f].at

\* A snapshot that fits is as new as its own modification times.
LEMMA LowOfFits ==
    ASSUME NEW s \in Snapshot, NEW files \in [Files -> File], SnapshotFits(s, files), s # NoSnapshot
    PROVE  /\ Low(s.mod) \in Lows /\ Covers(s, Low(s.mod))
           /\ \A f \in Files : Low(s.mod)[f] <= files[f].at
<1>1. ASSUME NEW f \in Files
      PROVE  Low(s.mod)[f] <= s.data[f].at /\ Low(s.mod)[f] <= files[f].at
  <2>1. s.data[f].at \in Nat /\ files[f].at \in Nat
    BY SnapshotTypes, ChangesAssumption DEF File
  <2>2. Fits(s.mod, f, s.data[f], files[f])
    BY DEF SnapshotFits
  <2>3. CASE f \in DOMAIN s.mod
    <3>1. s.mod[f] \in Nat /\ Low(s.mod)[f] = s.mod[f]
      BY <2>3, SnapshotTypes, ChangesAssumption DEF Low
    <3>2. QED
      BY <2>1, <2>2, <2>3, <3>1 DEF Fits
  <2>4. CASE f \notin DOMAIN s.mod
    BY <2>1, <2>4 DEF Low
  <2>5. QED
    BY <2>3, <2>4
<1>2. QED
  BY <1>1, SnapshotTypes, LowTypes DEF Covers

LEMMA PublishStep ==
    ASSUME SnapInv, NEW t \in Threads, NEW next \in Job,
           job' = [job EXCEPT ![t] = next],
           UNCHANGED state, floor' = floor, tunnel' = tunnel,
           job[t].pc \in Loading, mutex' = {}, Published,
           Formed(next, t), next.pc \notin Loading, next.pc # "swap",
           next.floor \in {job[t].floor, NoFloor}, next.tab \in {job[t].tab, NoTable},
           next.pc # "idle" => next.base = job[t].base,
           Compares(next) => Compares(job[t]) /\ next.tab = job[t].tab,
           next.task = "one" => next.of = {}
    PROVE  SnapInv'
<1>0. /\ job'[t] = next
      /\ \A u \in Threads : u # t => job'[u] = job[u]
      /\ job' \in [Threads -> Job]
      /\ dirs' = dirs /\ disk' = disk /\ hosts' = hosts /\ clock' = clock
  BY DEF SnapInv, TypeInv, state
<1>a. \A u \in Threads : job'[u].pc \notin Loading
  BY <1>0 DEF SnapInv, MutexHeld
<1>b. \A u \in Threads : ~Builds(job'[u]) /\ job'[u].pc \notin Reading
  BY <1>a DEF Builds, Reading, Loading
<1>1. TypeInv'
  BY <1>0 DEF SnapInv, TypeInv, Published
<1>2. ThreadsFormed'
  BY <1>0 DEF SnapInv, ThreadsFormed
<1>3. MutexHeld'
  BY <1>a DEF MutexHeld
<1>4. Clocked'
  BY <1>0 DEF SnapInv, Clocked
<1>5. SnapshotsFit'
  <2>1. ASSUME NEW p \in Projects, NEW u \in Threads PROVE SnapshotFits(job'[u].tab[p], disk[p])
    <3>1. SnapshotFits(job[u].tab[p], disk[p])
      BY DEF SnapInv, SnapshotsFit
    <3>2. SnapshotFits(NoTable[p], disk[p])
      BY NoJobFields DEF SnapshotFits
    <3>3. QED
      BY <1>0, <3>1, <3>2
  <2>2. ASSUME NEW p \in Projects, NEW u \in Threads PROVE LoadFits(job'[u], disk[p])
    BY <1>b DEF LoadFits
  <2>3. QED
    BY <1>0, <2>1, <2>2 DEF SnapshotsFit, Published
<1>6. FloorsFit'
  <2>1. next.floor.stamp <= hosts.at
    BY NoJobFields, ThreadFacts
  <2>2. QED
    BY <1>0, <2>1 DEF SnapInv, FloorsFit
<1>7. ASSUME NEW p \in Projects, NEW low \in Lows, Covers(table'[p], low),
             \A f \in Files : low[f] <= disk[p][f].at
      PROVE  Above(p, low)'
  <2>1. \A u \in Threads : LoadCovers(job'[u], low)
    BY <1>b DEF LoadCovers
  <2>2. QED
    BY <1>0, <1>7, <1>b, <2>1 DEF Above
<1>8. ASSUME NEW p \in Projects, NEW low \in Lows, IsBound(low, p)'
      PROVE  Above(p, low)'
  <2>1. ASSUME IsBound(low, p) PROVE Above(p, low)'
    <3>1. Above(p, low)
      BY <2>1 DEF SnapInv, BoundsKept
    <3>2. QED
      BY <1>7, <3>1 DEF Published, Above
  <2>2. CASE low = promised'[p]
    BY <1>7, <2>2 DEF Published
  <2>3. CASE table'[p] # NoSnapshot /\ low = Low(table'[p].mod)
    <3>1. table'[p] \in Snapshot /\ disk[p] \in [Files -> File]
      BY DEF Published, Table, SnapInv, TypeInv
    <3>2. QED
      BY <1>7, <2>3, <3>1, LowOfFits DEF Published
  <2>4. CASE \E c \in Tunnels : tunnel'[c].pc = "asked" /\ p \in tunnel'[c].of /\ low = tunnel'[c].seen
    BY <2>1, <2>4 DEF IsBound
  <2>5. ASSUME NEW u \in Threads, Compares(job'[u]), job'[u].tab[p] # NoSnapshot,
               low = Low(job'[u].tab[p].mod)
        PROVE  Above(p, low)'
    BY <1>0, <2>1, <2>5 DEF IsBound
  <2>6. QED
    BY <1>8, <2>2, <2>3, <2>4, <2>5 DEF IsBound
<1>9. BoundsKept'
  BY <1>8 DEF BoundsKept
<1>10. ASSUME NEW u \in Threads PROVE BaseKept(job'[u], disk)
  <2>1. job'[u].pc # "idle" => BaseFits(job'[u].base, disk)
    BY <1>0, ThreadFacts DEF Loading
  <2>2. \A low : LoadCovers(job'[u], low)
    BY <1>b DEF LoadCovers
  <2>3. QED
    BY <1>b, <2>1, <2>2 DEF BaseKept
<1>11. BasesKept'
  BY <1>0, <1>10 DEF BasesKept
<1>12. ASSUME NEW u \in Threads PROVE ServedBy(job'[u], dirs, served')
  <2>1. job'[u].task = "one" => job'[u].of \subseteq dirs \cup job'[u].failed
    BY <1>0, ThreadFacts
  <2>2. QED
    BY <1>b, <2>1 DEF ServedBy
<1>13. ServedKept'
  BY <1>0, <1>12 DEF ServedKept, Published
<1>14. Answered'
  BY DEF SnapInv, Answered
<1>15. QED
  BY <1>1, <1>2, <1>3, <1>4, <1>5, <1>6, <1>9, <1>11, <1>13, <1>14 DEF SnapInv

LEMMA CoversBoth ==
    ASSUME NEW s \in Snapshot, NEW a \in Lows, NEW b \in Lows, NEW low \in Lows,
           Covers(s, a), Covers(s, b), \A f \in Files : low[f] <= a[f] \/ low[f] <= b[f]
    PROVE  Covers(s, low)
<1>1. \A f \in Files : low[f] \in Nat /\ a[f] \in Nat /\ b[f] \in Nat
  BY ChangesAssumption DEF Lows
<1>2. QED
  BY <1>1, SnapshotTypes DEF Covers

\* What was promised before, and what a reload that is over promises.
LEMMA NewPromise ==
    ASSUME SnapInv, NEW t \in Threads, NEW ps \in SUBSET Projects, job[t].pc # "idle",
           promised' = promised \/ Promise(t, ps)
    PROVE  /\ promised' \in Seen
           /\ \A p \in Projects, low \in Lows : low = promised'[p] =>
                /\ \A f \in Files : low[f] <= disk[p][f].at
                /\ \A s \in Snapshot :
                     /\ Covers(s, promised[p])
                     /\ Covers(s, job[t].base[p]) \/ promised' = promised \/ p \notin ps
                     => Covers(s, low)
<1>1. TypeInv /\ promised \in Seen /\ job[t].base \in Seen
  BY Typed DEF SnapInv, TypeInv, Job
<1>2. \A p \in Projects : promised[p] \in Lows /\ job[t].base[p] \in Lows
  BY <1>1 DEF Seen, Lows
<1>3. \A p \in Projects : \A f \in Files :
        promised[p][f] <= disk[p][f].at /\ job[t].base[p][f] <= disk[p][f].at
  <2>1. \A p \in Projects : Above(p, promised[p])
    BY <1>2 DEF SnapInv, BoundsKept, IsBound
  <2>2. BaseFits(job[t].base, disk)
    BY ThreadFacts
  <2>3. QED
    BY <2>1, <2>2 DEF Above, BaseFits
<1>4. /\ promised' \in Seen
      /\ \A p \in Projects : \A f \in Files :
           promised'[p][f] = promised[p][f] \/ promised'[p][f] = job[t].base[p][f]
      /\ \A p \in Projects : promised' = promised \/ p \notin ps => promised'[p] = promised[p]
  BY <1>1, PromiseFacts
<1>5. ASSUME NEW p \in Projects, NEW low \in Lows, low = promised'[p]
      PROVE  \A f \in Files : low[f] <= disk[p][f].at
  BY <1>3, <1>4, <1>5
<1>6. ASSUME NEW p \in Projects, NEW low \in Lows, low = promised'[p], NEW s \in Snapshot,
             Covers(s, promised[p]),
             Covers(s, job[t].base[p]) \/ promised' = promised \/ p \notin ps
      PROVE  Covers(s, low)
  <2>1. CASE promised'[p] = promised[p]
    BY <1>6, <2>1
  <2>2. CASE Covers(s, job[t].base[p])
    <3>1. \A f \in Files : low[f] <= promised[p][f] \/ low[f] <= job[t].base[p][f]
      BY <1>2, <1>4, <1>6, ChangesAssumption DEF Lows
    <3>2. QED
      BY <1>2, <1>6, <2>2, <3>1, CoversBoth
  <2>3. QED
    BY <1>4, <1>6, <2>1, <2>2
<1>7. QED
  BY <1>4, <1>5, <1>6

\* reloadAll swaps the new table in.
LEMMA SwapKeeps ==
    ASSUME SnapInv, NEW t \in Threads, At(t, "next"), job[t].todo = {},
           UNCHANGED <<state, floor, tunnel>>,
           table' = job[t].tab, mutex' = {}, job' = [job EXCEPT ![t] = NoJob],
           IF job[t].gone \cap job[t].failed = {} THEN Keep(t, job[t].gone) ELSE UNCHANGED history
    PROVE  SnapInv'
<1>1. PICK old \in Job : old = job[t]
  BY ThreadFacts
<1>2. /\ old.pc = "next" /\ old.task = "all" /\ old.of = {} /\ old.todo = {}
      /\ Formed(old, t) /\ Carried(old, disk, dirs) /\ Builds(old)
      /\ old.gone \subseteq Projects /\ old.tab \in Table
  BY <1>1, ThreadFacts, ThreadCarries DEF At, Formed, Loading, Builds, Job
<1>3. ServedBy(old, dirs, served)
  BY <1>2 DEF Carried
<1>4. PICK ps \in SUBSET Projects :
        /\ promised' = promised \/ Promise(t, ps)
        /\ served' \subseteq served \cup ps /\ ps \subseteq old.gone /\ ps \cap old.failed = {}
  <2>1. CASE old.gone \cap old.failed = {}
    BY <1>1, <1>2, <2>1 DEF Keep
  <2>2. CASE old.gone \cap old.failed # {}
    BY <1>1, <2>2 DEF history
  <2>3. QED
    BY <2>1, <2>2
<1>5. /\ promised' \in Seen
      /\ \A p \in Projects, low \in Lows : low = promised'[p] =>
           /\ \A f \in Files : low[f] <= disk[p][f].at
           /\ \A s \in Snapshot :
                /\ Covers(s, promised[p])
                /\ Covers(s, old.base[p]) \/ promised' = promised \/ p \notin ps
                => Covers(s, low)
  BY <1>1, <1>2, <1>4, NewPromise
<1>6. served' \subseteq dirs
  BY <1>2, <1>3, <1>4 DEF ServedBy, SnapInv, ServedKept
<1>7. \A p \in served' : old.tab[p] # NoSnapshot
  BY <1>2, <1>3, <1>4 DEF ServedBy
<1>8. ASSUME NEW p \in Projects
      PROVE  /\ SnapshotFits(old.tab[p], disk[p])
             /\ \A low \in Lows : Above(p, low) => Covers(old.tab[p], low)
             /\ \A low \in Lows : low = promised'[p] =>
                  Covers(old.tab[p], low) /\ \A f \in Files : low[f] <= disk[p][f].at
  <2>1. SnapshotFits(old.tab[p], disk[p]) /\ old.tab[p] \in Snapshot
    BY <1>2 DEF Carried, Table
  <2>2. \A low \in Lows : Above(p, low) => Covers(old.tab[p], low)
    BY <1>2 DEF Carried
  <2>3. promised[p] \in Lows /\ Above(p, promised[p])
    BY DEF SnapInv, BoundsKept, IsBound, TypeInv, Seen, Lows
  <2>4. p \in ps => Covers(old.tab[p], old.base[p])
    BY <1>2, <1>4 DEF Carried, BaseKept
  <2>5. QED
    BY <1>5, <2>1, <2>2, <2>3, <2>4
<1>9. Published
  BY <1>1, <1>2, <1>5, <1>6, <1>7, <1>8 DEF Published
<1>10. /\ NoJob \in Job /\ Formed(NoJob, t) /\ ~Compares(NoJob) /\ NoJob.pc = "idle"
       /\ NoJob.floor = NoFloor /\ NoJob.tab = NoTable /\ NoJob.of = {}
  BY NoJobFields DEF Formed, Compares
<1>11. job[t].pc \in Loading /\ NoJob.pc \notin Loading
  BY <1>1, <1>2, <1>10 DEF Loading
<1>12. UNCHANGED state /\ floor' = floor /\ tunnel' = tunnel
  OBVIOUS
<1>13. QED
  BY <1>9, <1>10, <1>11, <1>12, PublishStep

\* A project without a directory leaves the table.
LEMMA GoneKeeps ==
    ASSUME SnapInv, NEW t \in Threads, At(t, "stat"), NEW p \in job[t].of,
           p \notin dirs, UNCHANGED <<state, floor, tunnel, history>>,
           table' = [table EXCEPT ![p] = NoSnapshot], mutex' = {},
           job' = [job EXCEPT ![t] = After(t, job[t])]
    PROVE  SnapInv'
<1>1. PICK old \in Job : old = job[t]
  BY ThreadFacts
<1>2. /\ old.pc \in Loading /\ Formed(old, t) /\ p \in Projects
      /\ old.task = "poll" => t = Poller
  BY <1>1, ThreadFacts DEF At, Formed, Loading, Job
<1>3. PICK next : next = After(t, old)
  OBVIOUS
<1>4. /\ next \in Job /\ Formed(next, t) /\ next.pc \notin Loading /\ next.pc # "swap"
      /\ next.floor \in {old.floor, NoFloor} /\ next.tab \in {old.tab, NoTable}
      /\ next.pc # "idle" => next.base = old.base
      /\ Compares(next) => Compares(old) /\ next.tab = old.tab
      /\ next.task = "one" => next.of = {}
  BY <1>1, <1>2, <1>3, AfterFacts
<1>5. /\ table \in Table /\ table' \in Table
      /\ \A q \in Projects : table'[q] = IF q = p THEN NoSnapshot ELSE table[q]
  BY <1>2, NoJobFields DEF SnapInv, TypeInv, Table
<1>6. promised' = promised /\ served' = served
  BY DEF history
<1>7. \A q \in served' : table'[q] # NoSnapshot /\ q \in dirs
  BY <1>5, <1>6 DEF SnapInv, ServedKept, TypeInv
<1>8. ASSUME NEW q \in Projects
      PROVE  /\ SnapshotFits(table'[q], disk[q])
             /\ \A low \in Lows : Above(q, low) => Covers(table'[q], low)
             /\ \A low \in Lows : low = promised'[q] =>
                  Covers(table'[q], low) /\ \A f \in Files : low[f] <= disk[q][f].at
  <2>1. SnapshotFits(NoSnapshot, disk[q]) /\ \A low \in Lows : Covers(NoSnapshot, low)
    BY DEF SnapshotFits, Covers
  <2>2. SnapshotFits(table[q], disk[q])
    BY DEF SnapInv, SnapshotsFit
  <2>3. promised[q] \in Lows /\ Above(q, promised[q])
    BY DEF SnapInv, BoundsKept, IsBound, TypeInv, Seen, Lows
  <2>4. \A low \in Lows : Above(q, low) => Covers(table'[q], low) /\ \A f \in Files : low[f] <= disk[q][f].at
    BY <1>5, <2>1 DEF Above
  <2>5. QED
    BY <1>5, <1>6, <2>1, <2>2, <2>3, <2>4
<1>9. Published
  BY <1>5, <1>6, <1>7, <1>8 DEF Published, SnapInv, TypeInv
<1>10. UNCHANGED state /\ floor' = floor /\ tunnel' = tunnel /\ job' = [job EXCEPT ![t] = next]
  BY <1>1, <1>3
<1>11. QED
  BY <1>1, <1>2, <1>4, <1>9, <1>10, PublishStep

\* The snapshot goes into the table that reloadAll builds...
LEMMA GatherKeeps ==
    ASSUME SnapInv, NEW t \in Threads, At(t, "store"), NEW p \in job[t].of,
           NEW s, s = [mod |-> job[t].mod, data |-> job[t].data],
           job[t].task = "all",
           job' = [job EXCEPT ![t].pc = "next", ![t].of = {}, ![t].tab[p] = s],
           UNCHANGED <<state, floor, tunnel, table, mutex, history>>
    PROVE  SnapInv'
<1>0. PICK old \in Job : old = job[t]
  BY ThreadFacts
<1>a. /\ old.pc = "store" /\ mutex = {t} /\ p \in Projects /\ old.of = {p} /\ old.task = "all"
      /\ Formed(old, t) /\ Carried(old, disk, dirs)
  BY <1>0, ThreadFacts, ThreadCarries DEF At, Formed, Loading, Job
<1>b. /\ s \in Snapshot /\ s # NoSnapshot /\ SnapshotFits(s, disk[p])
      /\ \A low \in Lows : Above(p, low) => Covers(s, low)
      /\ Covers(s, old.base[p])
  BY <1>0, <1>a, LoadedFacts
<1>1. PICK tab \in Table : tab = [old.tab EXCEPT ![p] = s]
  BY <1>b DEF Job, Table
<1>c. \A q \in Projects : tab[q] = IF q = p THEN s ELSE old.tab[q]
  BY <1>1 DEF Job, Table
<1>2. PICK next : next = [old EXCEPT !.pc = "next", !.of = {}, !.tab = tab]
  OBVIOUS
<1>3. /\ next \in Job
      /\ next.pc = "next" /\ next.task = old.task /\ next.of = {} /\ next.todo = old.todo
      /\ next.gone = old.gone /\ next.mod = old.mod /\ next.data = old.data /\ next.tab = tab
      /\ next.base = old.base /\ next.failed = old.failed /\ next.floor = old.floor
  BY ONLY <1>2 DEF Job, Phases
<1>4. job' = [job EXCEPT ![t] = next]
  BY <1>0, <1>1, <1>2 DEF SnapInv, TypeInv, Job
<1>5. Formed(next, t)
  BY <1>3, <1>a DEF Formed
<1>6. next.pc \in Loading /\ Builds(next) /\ Builds(old) /\ next.pc \notin Reading
  BY <1>a, <1>3 DEF Loading, Builds, Reading
<1>7. BaseKept(next, disk)
  BY <1>a, <1>b, <1>c, <1>3, <1>6 DEF Carried, BaseKept
<1>8. ServedBy(next, dirs, served)
  <2>1. ServedBy(old, dirs, served)
    BY <1>a DEF Carried
  <2>2. next.gone \subseteq Projects
    BY <1>3 DEF Job
  <2>3. ASSUME NEW q \in next.gone \ (next.todo \cup next.of), q \in served \/ q \notin next.failed
        PROVE  next.tab[q] # NoSnapshot
    BY <1>a, <1>b, <1>c, <1>3, <1>6, <2>1, <2>2, <2>3 DEF ServedBy
  <2>4. QED
    BY <1>a, <1>3, <1>6, <2>1, <2>3 DEF ServedBy
<1>9. Carried(next, disk, dirs)
  BY <1>a, <1>b, <1>c, <1>3, <1>6, <1>7, <1>8 DEF Carried
<1>10. UNCHANGED state /\ UNCHANGED history /\ mutex' = {t}
  BY <1>a
<1>11. QED
  BY ZenonT(60), <1>0, <1>3, <1>4, <1>5, <1>6, <1>9, <1>10, <1>a, LoadStep DEF Loading

\* ...or into the table that everybody reads.
LEMMA PutKeeps ==
    ASSUME SnapInv, NEW t \in Threads, At(t, "store"), NEW p \in job[t].of,
           NEW s, s = [mod |-> job[t].mod, data |-> job[t].data],
           job[t].task # "all",
           UNCHANGED <<state, floor, tunnel>>,
           table' = [table EXCEPT ![p] = s], mutex' = {},
           job' = [job EXCEPT ![t] = After(t, job[t])],
           IF job[t].task = "one" /\ p \notin job[t].failed THEN Keep(t, {p}) ELSE UNCHANGED history
    PROVE  SnapInv'
<1>1. PICK old \in Job : old = job[t]
  BY ThreadFacts
<1>2. /\ old.pc \in Loading /\ Formed(old, t) /\ p \in Projects /\ old.pc = "store"
      /\ old.task = "poll" => t = Poller
  BY <1>1, ThreadFacts DEF At, Formed, Loading, Job
<1>b. /\ s \in Snapshot /\ s # NoSnapshot /\ SnapshotFits(s, disk[p])
      /\ \A low \in Lows : Above(p, low) => Covers(s, low)
      /\ Covers(s, old.base[p])
  BY <1>1, <1>2, LoadedFacts
<1>3. PICK next : next = After(t, old)
  OBVIOUS
<1>4. /\ next \in Job /\ Formed(next, t) /\ next.pc \notin Loading /\ next.pc # "swap"
      /\ next.floor \in {old.floor, NoFloor} /\ next.tab \in {old.tab, NoTable}
      /\ next.pc # "idle" => next.base = old.base
      /\ Compares(next) => Compares(old) /\ next.tab = old.tab
      /\ next.task = "one" => next.of = {}
  BY <1>1, <1>2, <1>3, AfterFacts
<1>5. /\ table \in Table /\ table' \in Table
      /\ \A q \in Projects : table'[q] = IF q = p THEN s ELSE table[q]
  BY <1>2, <1>b DEF SnapInv, TypeInv, Table
<1>6. /\ promised' = promised \/ Promise(t, {p})
      /\ served' \subseteq dirs /\ served' \subseteq served \cup {p}
  <2>1. CASE old.task = "one" /\ p \notin old.failed
    <3>1. p \in dirs
      BY <1>1, <2>1, ThreadFacts
    <3>2. QED
      BY <1>1, <2>1, <3>1 DEF Keep, SnapInv, ServedKept
  <2>2. CASE ~(old.task = "one" /\ p \notin old.failed)
    BY <1>1, <2>2 DEF history, SnapInv, ServedKept
  <2>3. QED
    BY <2>1, <2>2
<1>7. \A q \in served' : table'[q] # NoSnapshot
  BY <1>5, <1>6, <1>b DEF SnapInv, ServedKept, TypeInv
<1>8. /\ promised' \in Seen
      /\ \A q \in Projects, low \in Lows : low = promised'[q] =>
           /\ \A f \in Files : low[f] <= disk[q][f].at
           /\ \A x \in Snapshot :
                /\ Covers(x, promised[q])
                /\ Covers(x, old.base[q]) \/ promised' = promised \/ q \notin {p}
                => Covers(x, low)
  <2>1. job[t].pc # "idle" /\ {p} \in SUBSET Projects
    BY <1>1, <1>2 DEF Loading
  <2>2. QED
    BY <1>1, <1>6, <2>1, NewPromise
<1>9. ASSUME NEW q \in Projects
      PROVE  /\ SnapshotFits(table'[q], disk[q])
             /\ \A low \in Lows : Above(q, low) => Covers(table'[q], low)
             /\ \A low \in Lows : low = promised'[q] =>
                  Covers(table'[q], low) /\ \A f \in Files : low[f] <= disk[q][f].at
  <2>1. SnapshotFits(table'[q], disk[q])
    BY <1>5, <1>b DEF SnapInv, SnapshotsFit
  <2>2. \A low \in Lows : Above(q, low) => Covers(table'[q], low)
    BY <1>5, <1>b DEF Above
  <2>3. promised[q] \in Lows /\ Above(q, promised[q]) /\ table'[q] \in Snapshot
    BY <1>5 DEF SnapInv, BoundsKept, IsBound, TypeInv, Seen, Lows, Table
  <2>4. q = p => Covers(table'[q], old.base[q])
    BY <1>5, <1>b
  <2>5. QED
    BY <1>8, <2>1, <2>2, <2>3, <2>4
<1>10. Published
  BY <1>5, <1>6, <1>7, <1>8, <1>9 DEF Published
<1>11. UNCHANGED state /\ floor' = floor /\ tunnel' = tunnel /\ job' = [job EXCEPT ![t] = next]
  BY <1>1, <1>3
<1>12. QED
  BY <1>1, <1>2, <1>4, <1>10, <1>11, PublishStep

LEMMA WorkKeeps ==
    ASSUME SnapInv, NEW t \in Threads, Work(t)
    PROVE  SnapInv'
<1>1. CASE StampFloor(t) \/ ReadFloor(t) \/ StoreFloor(t)
  BY <1>1, FloorKeeps
<1>2. CASE List(t)
  BY <1>2, ListKeeps
<1>3. CASE NextProject(t)
  BY <1>3, TakeKeeps, SwapKeeps DEF NextProject
<1>4. CASE Stat(t)
  BY <1>4, StatKeeps, GoneKeeps DEF Stat
<1>5. CASE Read(t)
  BY <1>5, ReadKeeps
<1>6. CASE ReadFails(t)
  BY <1>6, ReadFailsKeeps
<1>7. CASE Store(t)
  BY <1>7, GatherKeeps, PutKeeps DEF Store
<1>8. QED
  BY <1>1, <1>2, <1>3, <1>4, <1>5, <1>6, <1>7 DEF Work

----------------------------------------------------------------------------
(* The prison commands and the user change the files meanwhile.             *)

LEMMA GrowthKeeps ==
    ASSUME SnapInv, Grows, UNCHANGED <<hosts, floor, table, mutex, job, tunnel, history>>
    PROVE  SnapInv'
<1>1. PICK t \in Threads : t = Poller
  BY DEF Threads
<1>2. PICK next \in Job : next = job[t]
  BY ThreadFacts
<1>3. job' = [job EXCEPT ![t] = next]
  BY <1>2 DEF SnapInv, TypeInv
<1>4. /\ Carried(next, disk, dirs) /\ Formed(next, t)
      /\ next.floor.stamp <= hosts.at /\ (next.pc = "swap" => FloorFits(next.floor, hosts))
      /\ next.pc \in Loading => mutex = {t}
      /\ PromisesKept /\ FloorHolds /\ served' = served
  BY <1>2, ThreadCarries, ThreadFacts
<1>5. \A p \in Projects : /\ SnapshotFits(next.tab[p], disk'[p])
                          /\ p \in next.of => LoadFits(next, disk'[p])
  BY <1>2, FitsGrow DEF SnapInv, Grows
<1>6. BaseKept(next, disk')
  <2>1. next.pc # "idle" => BaseFits(next.base, disk')
    BY <1>4, BaseGrows DEF Carried, BaseKept, SnapInv, Job
  <2>2. QED
    BY <1>4, <2>1 DEF Carried, BaseKept
<1>7. ServedBy(next, dirs', served)
  BY <1>4 DEF Carried, ServedBy, Grows
<1>8. Carried(next, disk', dirs')
  BY <1>4, <1>5, <1>6, <1>7 DEF Carried
<1>9. mutex' \subseteq Threads /\ mutex' = mutex /\ table' = table /\ tunnel' = tunnel /\ hosts' = hosts
  BY DEF SnapInv, TypeInv
<1>10. QED
  BY <1>2, <1>3, <1>4, <1>8, <1>9, QuietStep

LEMMA ChangedGrows ==
    ASSUME SnapInv, NEW p \in Projects, NEW f \in Files, NEW content \in {"off", "on", "bad"},
           Changed(p, f, content)
    PROVE  Grows /\ hosts' = hosts
<1>1. /\ disk \in [Projects -> [Files -> File]] /\ dirs \subseteq Projects
      /\ clock \in 0 .. MaxChanges /\ clock < MaxChanges
      /\ clock' = clock + 1 /\ dirs' = dirs /\ hosts' = hosts
      /\ disk' = [disk EXCEPT ![p][f] = [at |-> clock', is |-> content]]
  BY DEF Changed, SnapInv, TypeInv
<1>2. clock \in Nat /\ clock' \in 0 .. MaxChanges /\ clock < clock'
  BY <1>1, ChangesAssumption
<1>3. PICK file \in File : file = [at |-> clock', is |-> content]
  BY <1>2 DEF File, Contents
<1>4. /\ disk' \in [Projects -> [Files -> File]]
      /\ \A q \in Projects : \A g \in Files :
           disk'[q][g] = IF q = p /\ g = f THEN file ELSE disk[q][g]
  BY <1>1, <1>3
<1>5. file.at = clock' /\ file.is # "absent"
  BY <1>3
<1>6. /\ hosts.at <= clock /\ hosts.at \in Nat
      /\ \A q \in Projects : \A g \in Files : disk[q][g].at <= clock /\ disk[q][g].at \in Nat
  BY ChangesAssumption DEF SnapInv, TypeInv, Clocked, File
<1>7. FilesGrow(disk, disk')
  BY <1>2, <1>4, <1>5, <1>6 DEF FilesGrow
<1>8. NoneLost(disk, disk')
  BY <1>4, <1>5 DEF NoneLost
<1>9. Clocked'
  <2>1. hosts'.at <= clock'
    BY <1>1, <1>2, <1>6
  <2>2. \A q \in Projects : \A g \in Files : disk'[q][g].at <= clock'
    BY <1>2, <1>4, <1>5, <1>6
  <2>3. QED
    BY <2>1, <2>2 DEF Clocked
<1>10. QED
  BY <1>1, <1>2, <1>4, <1>7, <1>8, <1>9 DEF Grows

LEMMA ChangeKeeps ==
    ASSUME SnapInv, NEW p \in Projects, Change(p) \/ Create(p)
    PROVE  SnapInv'
<1>1. CASE Change(p)
  <2>1. UNCHANGED <<floor, table, mutex, job, tunnel, history>>
    BY <1>1 DEF Change
  <2>2. Token \in Files /\ Grants \in Files /\ Rules \in Files
    BY FilesAre
  <2>3. PICK f \in Files, content \in {"off", "on", "bad"} : Changed(p, f, content)
    BY <1>1, <2>2 DEF Change
  <2>4. Grows /\ hosts' = hosts
    BY <2>3, ChangedGrows
  <2>5. QED
    BY <2>1, <2>4, GrowthKeeps
<1>2. CASE Create(p)
  <2>1. /\ dirs' = dirs \cup {p} /\ disk' = disk /\ clock' = clock /\ hosts' = hosts
        /\ UNCHANGED <<hosts, floor, table, mutex, job, tunnel, history>>
    BY <1>2 DEF Create
  <2>2. Clocked'
    BY SMTT(60), <2>1 DEF SnapInv, Clocked
  <2>3. Grows
    BY SMTT(60), <2>1, <2>2 DEF Grows, SnapInv, TypeInv, FilesGrow, NoneLost
  <2>4. QED
    BY <2>1, <2>3, GrowthKeeps
<1>3. QED
  BY <1>1, <1>2

\* handleUpdateProject may save the profile first.
LEMMA UpdateKeeps ==
    ASSUME SnapInv, NEW t \in Threads, UpdateProject(t)
    PROVE  SnapInv'
<1>1. PICK p \in dirs :
        /\ Changed(p, Rules, "on") \/ UNCHANGED state
        /\ job' = [job EXCEPT ![t] = [NoJob EXCEPT !.pc = "lock", !.of = {p},
                       !.base[p] = [f \in Files |-> Stamp(disk'[p][f])]]]
  BY DEF UpdateProject
<1>2. /\ p \in Projects /\ table' = table /\ tunnel' = tunnel /\ mutex' = mutex
      /\ served' = served /\ PromisesKept /\ FloorHolds
  BY ThreadFacts DEF UpdateProject, SnapInv, TypeInv
<1>3. Grows /\ hosts' = hosts
  <2>1. CASE UNCHANGED state
    BY <2>1, ThreadFacts
  <2>2. CASE Changed(p, Rules, "on")
    BY <1>2, <2>2, ChangedGrows, FilesAre
  <2>3. QED
    BY <1>1, <2>1, <2>2
<1>4. PICK stamps \in [Files -> 0 .. MaxChanges] :
        /\ stamps = [f \in Files |-> Stamp(disk'[p][f])]
        /\ \A f \in Files : /\ stamps[f] <= disk'[p][f].at
                            /\ disk'[p][f].is = "absent" => stamps[f] = 0
  <2>1. \A f \in Files : disk'[p][f].at \in 0 .. MaxChanges
    BY <1>2, <1>3 DEF Grows, File
  <2>2. \A f \in Files :
          Stamp(disk'[p][f]) = IF disk'[p][f].is = "absent" THEN 0 ELSE disk'[p][f].at
    BY DEF Stamp
  <2>3. PICK stamps : stamps = [f \in Files |-> Stamp(disk'[p][f])]
    OBVIOUS
  <2>4. ASSUME NEW f \in Files
        PROVE  /\ stamps[f] \in 0 .. MaxChanges
               /\ stamps[f] <= disk'[p][f].at
               /\ disk'[p][f].is = "absent" => stamps[f] = 0
    <3>1. stamps[f] = IF disk'[p][f].is = "absent" THEN 0 ELSE disk'[p][f].at
      BY <2>2, <2>3
    <3>2. QED
      BY <2>1, <3>1, ChangesAssumption
  <2>5. stamps \in [Files -> 0 .. MaxChanges]
    BY <2>3, <2>4
  <2>6. QED
    BY <2>3, <2>4, <2>5
<1>5. PICK base \in Seen : base = [NothingSeen EXCEPT ![p] = stamps]
  BY <1>2, NoJobFields DEF Seen
<1>6. BaseFits(base, disk')
  <2>1. BaseFits(NothingSeen, disk')
    BY <1>3, BaseStarts DEF Grows, SnapInv
  <2>2. \A q \in Projects : base[q] = IF q = p THEN stamps ELSE NothingSeen[q]
    BY <1>2, <1>5, NoJobFields DEF Seen
  <2>3. QED
    BY SMTT(60), <1>4, <2>1, <2>2 DEF BaseFits
<1>7. PICK next : next = [NoJob EXCEPT !.pc = "lock", !.of = {p}, !.base = base]
  OBVIOUS
<1>8. /\ next \in Job /\ next.pc = "lock" /\ next.of = {p} /\ next.base = base
      /\ next.task = "one" /\ next.tab = NoTable /\ next.floor = NoFloor
  BY ONLY <1>2, <1>7, NoJobFields DEF Job, Phases
<1>9. job' = [job EXCEPT ![t] = next]
  BY <1>1, <1>4, <1>5, <1>7, NoJobFields
<1>10. Formed(next, t) /\ next.pc \notin Loading /\ ~Compares(next)
  BY <1>2, <1>8 DEF Formed, Loading, Compares
<1>11. next.floor.stamp <= hosts.at /\ next.of \subseteq dirs'
  BY <1>3, <1>8, NoJobFields, ThreadFacts DEF Grows
<1>12. QED
  BY <1>2, <1>3, <1>6, <1>8, <1>9, <1>10, <1>11, OutsideStep

\* The user-wide list of hosts changes: a load of it that is under way, and the
\* floor, can be told from it by the stamp.
LEMMA ChangeHostsKeeps ==
    ASSUME SnapInv, ChangeHosts
    PROVE  SnapInv'
<1>1. /\ clock \in 0 .. MaxChanges /\ clock < MaxChanges /\ clock' = clock + 1
      /\ dirs' = dirs /\ disk' = disk /\ floor' = floor /\ table' = table /\ mutex' = mutex
      /\ job' = job /\ tunnel' = tunnel /\ promised' = promised /\ served' = served
  BY DEF ChangeHosts, history, SnapInv, TypeInv
<1>2. PICK content \in {"on", "bad", "absent"} : hosts' = [at |-> clock', is |-> content]
  BY DEF ChangeHosts
<1>3. clock' \in 0 .. MaxChanges /\ clock < clock' /\ clock' \in Nat /\ clock \in Nat
  BY <1>1, ChangesAssumption
<1>4. hosts' \in File /\ hosts'.at = clock'
  BY <1>2, <1>3 DEF File, Contents
<1>5. TypeInv'
  BY <1>1, <1>3, <1>4 DEF SnapInv, TypeInv
<1>6. ThreadsFormed' /\ MutexHeld'
  BY <1>1 DEF SnapInv, ThreadsFormed, MutexHeld
<1>7. \A q \in Projects : \A f \in Files : disk[q][f].at <= clock /\ disk[q][f].at \in Nat
  BY Typed DEF SnapInv, Clocked
<1>8. Clocked'
  BY <1>1, <1>3, <1>4, <1>7 DEF Clocked
<1>9. FloorsFit'
  <2>1. hosts.at < hosts'.at /\ hosts.at \in Nat
    BY <1>3, <1>4, Typed DEF SnapInv, Clocked
  <2>2. ASSUME NEW x \in Floor, x.stamp <= hosts.at
        PROVE  x.stamp <= hosts'.at /\ FloorFits(x, hosts')
    BY <1>3, <1>4, <2>1, <2>2, ChangesAssumption DEF FloorFits, Floor
  <2>3. floor.stamp <= hosts.at /\ floor \in Floor
    BY DEF SnapInv, FloorsFit, TypeInv
  <2>4. \A t \in Threads : job[t].floor.stamp <= hosts.at /\ job[t].floor \in Floor
    BY ThreadFacts
  <2>5. QED
    BY <1>1, <2>2, <2>3, <2>4 DEF FloorsFit
<1>10. SnapshotsFit' /\ BoundsKept' /\ BasesKept'
  BY <1>1 DEF SnapInv, SnapshotsFit, BoundsKept, BasesKept, IsBound, Above
<1>11. ServedKept' /\ Answered'
  BY <1>1 DEF SnapInv, ServedKept, Answered
<1>12. QED
  BY <1>5, <1>6, <1>8, <1>9, <1>10, <1>11 DEF SnapInv

\* Project.Remove: the loads under way owe nothing to the project any more.
LEMMA RemoveKeeps ==
    ASSUME SnapInv, NEW p \in Projects, Remove(p)
    PROVE  SnapInv'
<1>a. clock \in 0 .. MaxChanges /\ clock < MaxChanges /\ clock' = clock + 1
  BY DEF Remove, SnapInv, TypeInv
<1>1. /\ dirs' = dirs \ {p} /\ hosts' = hosts /\ floor' = floor /\ table' = table /\ mutex' = mutex
      /\ tunnel' = tunnel /\ served' = served \ {p}
  BY DEF Remove
<1>d. /\ disk' = [disk EXCEPT ![p] = [f \in Files |-> [at |-> clock', is |-> "absent"]]]
      /\ promised' = [promised EXCEPT ![p] = [f \in Files |-> 0]]
      /\ job' = [t \in Threads |-> IF At(t, "idle") THEN job[t]
                    ELSE [job[t] EXCEPT !.base[p] = [f \in Files |-> 0], !.failed = @ \cup {p}]]
  BY DEF Remove
<1>2. clock' \in 0 .. MaxChanges /\ clock < clock' /\ clock' \in Nat /\ clock \in Nat
  BY <1>a, ChangesAssumption
<1>3. PICK zero \in Lows : zero = [f \in Files |-> 0]
  <2>1. [f \in Files |-> 0] \in Lows
    BY ChangesAssumption DEF Lows
  <2>2. QED
    BY <2>1
<1>b. \A f \in Files : zero[f] = 0
  BY <1>3
<1>4. PICK lost \in File : lost = [at |-> clock', is |-> "absent"]
  BY <1>2 DEF File, Contents
<1>c. lost.at = clock' /\ lost.is = "absent"
  BY <1>4
<1>5. /\ disk' \in [Projects -> [Files -> File]]
      /\ \A q \in Projects : q # p => disk'[q] = disk[q]
      /\ \A f \in Files : disk'[p][f] = lost
  BY <1>d, <1>4 DEF SnapInv, TypeInv
<1>6. /\ promised' \in Seen /\ promised'[p] = zero
      /\ \A q \in Projects : q # p => promised'[q] = promised[q]
  BY <1>d, <1>3 DEF SnapInv, TypeInv, Seen, Lows
<1>7. ASSUME NEW t \in Threads
      PROVE  /\ job'[t] \in Job
             /\ job'[t].pc = job[t].pc /\ job'[t].task = job[t].task /\ job'[t].of = job[t].of
             /\ job'[t].todo = job[t].todo /\ job'[t].gone = job[t].gone /\ job'[t].mod = job[t].mod
             /\ job'[t].data = job[t].data /\ job'[t].tab = job[t].tab
             /\ job'[t].floor = job[t].floor
             /\ job[t].pc = "idle" => job'[t] = job[t]
             /\ job[t].pc # "idle" =>
                  /\ job'[t].failed = job[t].failed \cup {p} /\ job'[t].base[p] = zero
                  /\ \A q \in Projects : q # p => job'[t].base[q] = job[t].base[q]
  <2>1. PICK old \in Job : old = job[t]
    BY ThreadFacts
  <2>2. CASE old.pc = "idle"
    BY <1>d, <2>1, <2>2 DEF At
  <2>3. CASE old.pc # "idle"
    <3>1. PICK base \in Seen : base = [old.base EXCEPT ![p] = zero]
      BY <1>3 DEF Job, Seen, Lows
    <3>2. base[p] = zero /\ \A q \in Projects : q # p => base[q] = old.base[q]
      BY <3>1 DEF Job, Seen
    <3>3. PICK failed \in SUBSET Projects : failed = old.failed \cup {p}
      BY DEF Job
    <3>4. PICK next : next = [old EXCEPT !.base = base, !.failed = failed]
      OBVIOUS
    <3>5. /\ next \in Job
          /\ next.pc = old.pc /\ next.task = old.task /\ next.of = old.of /\ next.todo = old.todo
          /\ next.gone = old.gone /\ next.mod = old.mod /\ next.data = old.data /\ next.tab = old.tab
          /\ next.base = base /\ next.failed = failed /\ next.floor = old.floor
      BY ONLY <3>4 DEF Job
    <3>6. job'[t] = next
      BY <1>d, <1>3, <2>1, <2>3, <3>1, <3>3, <3>4 DEF At, Job
    <3>7. QED
      BY <2>1, <2>3, <3>2, <3>3, <3>5, <3>6
  <2>4. QED
    BY <2>2, <2>3
<1>8. \A q \in Projects : \A f \in Files :
        disk[q][f].at <= clock /\ disk[q][f].at \in Nat /\ disk'[q][f].at \in Nat
  BY <1>2, <1>c, <1>5, Typed DEF SnapInv, Clocked
<1>9. FilesGrow(disk, disk')
  BY <1>2, <1>c, <1>5, <1>8 DEF FilesGrow
<1>10. TypeInv'
  <2>1. DOMAIN job' = Threads /\ \A t \in Threads : job'[t] \in Job
    BY <1>d, <1>7
  <2>2. job' \in [Threads -> Job]
    BY <1>d, <1>7
  <2>3. QED
    BY <1>1, <1>2, <1>5, <1>6, <2>2 DEF SnapInv, TypeInv
<1>11. ThreadsFormed'
  <2>1. ASSUME NEW t \in Threads PROVE Formed(job'[t], t)
    BY <1>7, ThreadFacts DEF Formed
  <2>2. QED
    BY <1>1, <2>1 DEF SnapInv, ThreadsFormed
<1>12. MutexHeld'
  BY <1>1, <1>7 DEF SnapInv, MutexHeld
<1>13. Clocked'
  <2>1. hosts.at <= clock /\ hosts.at \in Nat
    BY Typed DEF SnapInv, Clocked
  <2>2. \A q \in Projects : \A f \in Files : disk'[q][f].at <= clock'
    BY <1>2, <1>c, <1>5, <1>8
  <2>3. QED
    BY <1>1, <1>2, <2>1, <2>2 DEF Clocked
<1>14. SnapshotsFit'
  <2>1. \A q \in Projects :
          /\ SnapshotFits(table[q], disk'[q])
          /\ \A t \in Threads : /\ SnapshotFits(job[t].tab[q], disk'[q])
                                /\ q \in job[t].of => LoadFits(job[t], disk'[q])
    BY <1>5, <1>9, FitsGrow DEF SnapInv
  <2>2. \A t \in Threads, q \in Projects : LoadFits(job[t], disk'[q]) => LoadFits(job'[t], disk'[q])
    BY <1>7 DEF LoadFits
  <2>3. QED
    BY <1>1, <1>7, <2>1, <2>2 DEF SnapshotsFit
<1>15. FloorsFit'
  BY <1>1, <1>7 DEF SnapInv, FloorsFit
<1>16. ASSUME NEW t \in Threads
       PROVE  /\ Builds(job'[t]) = Builds(job[t]) /\ Compares(job'[t]) = Compares(job[t])
              /\ \A low : LoadCovers(job[t], low) => LoadCovers(job'[t], low)
  BY <1>7 DEF Builds, Compares, LoadCovers
<1>17. ASSUME NEW q \in Projects, NEW low \in Lows, Above(q, low) PROVE Above(q, low)'
  <2>1. \A f \in Files : low[f] <= disk'[q][f].at
    BY <1>5, <1>9, <1>17, FitsGrow DEF SnapInv
  <2>2. QED
    BY <1>1, <1>7, <1>16, <1>17, <2>1 DEF Above
<1>18. Above(p, zero)'
  <2>1. ASSUME NEW s \in Snapshot PROVE Covers(s, zero)
    BY <1>b, SnapshotTypes DEF Covers
  <2>2. ASSUME NEW t \in Threads PROVE LoadCovers(job'[t], zero)
    <3>1. \A f \in Files : f <= Len(job[t].data) => job[t].data[f].at \in Nat
      BY Typed, ChangesAssumption DEF SnapInv, File
    <3>2. QED
      BY <1>b, <1>7, <3>1 DEF LoadCovers
  <2>3. \A f \in Files : zero[f] <= disk'[p][f].at
    BY <1>b, <1>8
  <2>4. Covers(table'[p], zero) /\ \A t \in Threads : Covers(job'[t].tab[p], zero)
    BY <1>1, <1>7, <2>1, Typed DEF SnapInv
  <2>5. QED
    BY <2>2, <2>3, <2>4 DEF Above
<1>19. BoundsKept'
  <2>1. ASSUME NEW q \in Projects, NEW low \in Lows, IsBound(low, q)' PROVE Above(q, low)'
    <3>1. CASE IsBound(low, q)
      BY <1>17, <3>1 DEF SnapInv, BoundsKept
    <3>2. CASE low = promised'[q]
      BY <1>6, <1>18, <3>1, <3>2 DEF IsBound
    <3>3. ASSUME NEW t \in Threads, Compares(job'[t]), job'[t].tab[q] # NoSnapshot,
                 low = Low(job'[t].tab[q].mod)
          PROVE  IsBound(low, q)
      BY <1>7, <1>16, <3>3 DEF IsBound
    <3>4. QED
      BY <1>1, <2>1, <3>1, <3>2, <3>3 DEF IsBound
  <2>2. QED
    BY <2>1 DEF BoundsKept
<1>20. BasesKept'
  <2>1. ASSUME NEW t \in Threads, job[t].pc # "idle" PROVE BaseKept(job'[t], disk')
    <3>1. BaseKept(job[t], disk) /\ BaseFits(job[t].base, disk)
      BY <2>1 DEF SnapInv, BasesKept, BaseKept
    <3>2. BaseFits(job'[t].base, disk')
      BY <1>b, <1>c, <1>5, <1>7, <1>8, <2>1, <3>1 DEF BaseFits
    <3>3. ASSUME NEW q \in Projects, q \in job'[t].of PROVE LoadCovers(job'[t], job'[t].base[q])
      <4>1. LoadCovers(job'[t], zero)
        BY <1>7, <1>b, Typed, ChangesAssumption DEF SnapInv, LoadCovers, File
      <4>2. QED
        BY <1>7, <1>16, <2>1, <3>1, <3>3, <4>1 DEF BaseKept
    <3>4. ASSUME NEW q \in Projects, Builds(job'[t]), q \notin job'[t].failed
          PROVE  Covers(job'[t].tab[q], job'[t].base[q])
      BY <1>7, <1>16, <2>1, <3>1, <3>4 DEF BaseKept
    <3>5. QED
      BY <3>2, <3>3, <3>4 DEF BaseKept
  <2>2. QED
    BY <1>7, <2>1 DEF BasesKept, BaseKept
<1>21. ServedKept'
  <2>1. ASSUME NEW t \in Threads PROVE ServedBy(job'[t], dirs', served')
    <3>1. ServedBy(job[t], dirs, served)
      BY DEF SnapInv, ServedKept
    <3>2. CASE job[t].pc = "idle"
      BY <1>7, <3>2, NoJobFields, ThreadFacts DEF Formed, ServedBy, Builds, Loading
    <3>3. CASE job[t].pc # "idle"
      <4>1. job'[t].task = "one" => job'[t].of \subseteq dirs' \cup job'[t].failed
        BY <1>1, <1>7, <3>1, <3>3 DEF ServedBy
      <4>2. ASSUME Builds(job'[t])
            PROVE  /\ served' \subseteq job'[t].gone /\ job'[t].todo \subseteq job'[t].gone
                   /\ job'[t].gone \subseteq dirs' \cup job'[t].failed
                   /\ \A q \in job'[t].gone \ (job'[t].todo \cup job'[t].of) :
                        q \in served' \/ q \notin job'[t].failed => job'[t].tab[q] # NoSnapshot
        BY <1>1, <1>7, <1>16, <3>1, <3>3, <4>2 DEF ServedBy
      <4>3. QED
        BY <4>1, <4>2 DEF ServedBy
    <3>4. QED
      BY <3>2, <3>3
  <2>2. QED
    BY <1>1, <2>1 DEF SnapInv, ServedKept
<1>22. Answered'
  BY <1>1 DEF SnapInv, Answered
<1>23. QED
  BY <1>10, <1>11, <1>12, <1>13, <1>14, <1>15, <1>19, <1>20, <1>21, <1>22 DEF SnapInv

----------------------------------------------------------------------------
(* Requests.                                                                *)

TunnelFits(next) ==
    /\ next.pc # "closed" => \E p \in Projects : next.of = {p}
    /\ next.pc = "asked" => \A p \in next.of, low \in Lows : low = next.seen => Above(p, low)
    /\ next.pc = "reply" => Covers(next.snap, next.seen)

LEMMA TunnelStep ==
    ASSUME SnapInv, NEW c \in Tunnels, NEW next \in Tunnel,
           tunnel' = [tunnel EXCEPT ![c] = next],
           UNCHANGED <<state, floor, table, mutex, job, history>>, TunnelFits(next)
    PROVE  SnapInv'
<1>1. /\ dirs' = dirs /\ disk' = disk /\ clock' = clock /\ hosts' = hosts /\ floor' = floor
      /\ table' = table /\ mutex' = mutex /\ job' = job /\ promised' = promised /\ served' = served
  BY DEF state, history
<1>2. /\ tunnel' \in [Tunnels -> Tunnel] /\ tunnel'[c] = next
      /\ \A d \in Tunnels : d # c => tunnel'[d] = tunnel[d]
  BY DEF SnapInv, TypeInv
<1>3. TypeInv'
  BY <1>1, <1>2 DEF SnapInv, TypeInv
<1>4. ThreadsFormed'
  BY <1>1, <1>2 DEF SnapInv, ThreadsFormed, TunnelFits
<1>5. MutexHeld' /\ Clocked' /\ FloorsFit'
  BY <1>1 DEF SnapInv, MutexHeld, Clocked, FloorsFit
<1>6. SnapshotsFit' /\ BasesKept' /\ ServedKept'
  BY <1>1 DEF SnapInv, SnapshotsFit, BasesKept, ServedKept
<1>7. ASSUME NEW p \in Projects, NEW low \in Lows, IsBound(low, p)' PROVE Above(p, low)'
  <2>1. ASSUME IsBound(low, p) PROVE Above(p, low)
    BY <2>1 DEF SnapInv, BoundsKept
  <2>2. ASSUME NEW d \in Tunnels, tunnel'[d].pc = "asked", p \in tunnel'[d].of, low = tunnel'[d].seen
        PROVE  Above(p, low)
    BY <1>2, <2>1, <2>2 DEF IsBound, TunnelFits
  <2>3. Above(p, low)
    BY <1>1, <1>7, <2>1, <2>2 DEF IsBound
  <2>4. QED
    BY <1>1, <2>3 DEF Above
<1>8. BoundsKept'
  BY <1>7 DEF BoundsKept
<1>9. Answered'
  BY <1>2 DEF SnapInv, Answered, TunnelFits
<1>10. QED
  BY <1>3, <1>4, <1>5, <1>6, <1>8, <1>9 DEF SnapInv

LEMMA TunnelKeeps ==
    ASSUME SnapInv, NEW c \in Tunnels,
           Connect(c) \/ Ask(c) \/ Lookup(c) \/ Reply(c) \/ Close(c)
    PROVE  SnapInv'
<1>1. PICK old \in Tunnel : old = tunnel[c]
  BY DEF SnapInv, TypeInv
<1>2. old.pc # "closed" => \E p \in Projects : old.of = {p}
  BY <1>1 DEF SnapInv, ThreadsFormed
<1>3. tunnel \in [Tunnels -> Tunnel] /\ UNCHANGED <<state, floor, table, mutex, job, history>>
  BY DEF Connect, Ask, Lookup, Reply, Close, SnapInv, TypeInv
<1>c. Closed \in Tunnel /\ Closed.pc = "closed"
  BY NoJobFields, ChangesAssumption DEF Closed, Tunnel
<1>4. PICK none \in Tunnel : none = Closed /\ none.pc = "closed"
  BY <1>c
<1>5. CASE Connect(c)
  <2>1. PICK p \in Projects :
          tunnel' = [tunnel EXCEPT ![c] = [Closed EXCEPT !.pc = "open", !.of = {p}, !.snap = table[p]]]
    BY <1>5 DEF Connect
  <2>2. PICK snap \in Snapshot : snap = table[p]
    BY Typed DEF SnapInv
  <2>3. PICK next : next = [none EXCEPT !.pc = "open", !.of = {p}, !.snap = snap]
    OBVIOUS
  <2>4. next \in Tunnel /\ next.pc = "open" /\ next.of = {p}
    BY ONLY <2>3 DEF Tunnel
  <2>5. tunnel' = [tunnel EXCEPT ![c] = next]
    BY <1>4, <2>1, <2>2, <2>3
  <2>6. TunnelFits(next)
    BY <2>4 DEF TunnelFits
  <2>7. QED
    BY <1>3, <2>4, <2>5, <2>6, TunnelStep
<1>6. CASE Ask(c)
  <2>1. PICK p \in old.of : tunnel' = [tunnel EXCEPT ![c].pc = "asked", ![c].seen = promised[p]]
    BY <1>1, <1>6 DEF Ask
  <2>2. p \in Projects /\ old.of = {p}
    BY <1>1, <1>2, <1>6, <2>1 DEF Ask
  <2>3. PICK seen \in Lows : seen = promised[p] /\ Above(p, seen)
    BY <2>2 DEF SnapInv, TypeInv, Seen, Lows, BoundsKept, IsBound
  <2>4. PICK next : next = [old EXCEPT !.pc = "asked", !.seen = seen]
    OBVIOUS
  <2>5. next \in Tunnel /\ next.pc = "asked" /\ next.of = old.of /\ next.seen = seen
    BY ONLY <2>4 DEF Tunnel, Lows
  <2>6. tunnel' = [tunnel EXCEPT ![c] = next]
    BY <1>1, <1>3, <2>1, <2>3, <2>4
  <2>7. TunnelFits(next)
    BY <2>2, <2>3, <2>5 DEF TunnelFits
  <2>8. QED
    BY <1>3, <2>5, <2>6, <2>7, TunnelStep
<1>7. CASE Lookup(c)
  <2>1. PICK p \in old.of : tunnel' = [tunnel EXCEPT ![c].pc = "reply", ![c].snap = table[p]]
    BY <1>1, <1>7 DEF Lookup
  <2>2. p \in Projects /\ old.of = {p} /\ old.pc = "asked"
    BY <1>1, <1>2, <1>7, <2>1 DEF Lookup
  <2>3. PICK snap \in Snapshot : snap = table[p]
    BY <2>2, Typed DEF SnapInv
  <2>4. PICK next : next = [old EXCEPT !.pc = "reply", !.snap = snap]
    OBVIOUS
  <2>5. /\ next \in Tunnel /\ next.pc = "reply" /\ next.of = old.of /\ next.seen = old.seen
        /\ next.snap = snap
    BY ONLY <2>4 DEF Tunnel
  <2>6. tunnel' = [tunnel EXCEPT ![c] = next]
    BY <1>1, <1>3, <2>1, <2>3, <2>4
  <2>7. old.seen \in Lows /\ IsBound(old.seen, p)
    BY <1>1, <2>2 DEF Tunnel, Lows, IsBound
  <2>8. Covers(snap, old.seen)
    BY <2>2, <2>3, <2>7 DEF SnapInv, BoundsKept, Above
  <2>9. TunnelFits(next)
    BY <2>2, <2>5, <2>8 DEF TunnelFits
  <2>10. QED
    BY <1>3, <2>5, <2>6, <2>9, TunnelStep
<1>8. CASE Reply(c)
  <2>1. tunnel' = [tunnel EXCEPT ![c] = [Closed EXCEPT !.pc = "open", !.of = old.of, !.snap = old.snap]]
    BY <1>1, <1>8 DEF Reply
  <2>2. \E p \in Projects : old.of = {p}
    BY <1>1, <1>2, <1>8 DEF Reply
  <2>3. PICK next : next = [none EXCEPT !.pc = "open", !.of = old.of, !.snap = old.snap]
    OBVIOUS
  <2>4. next \in Tunnel /\ next.pc = "open" /\ next.of = old.of
    BY ONLY <2>3 DEF Tunnel
  <2>5. tunnel' = [tunnel EXCEPT ![c] = next]
    BY <1>4, <2>1, <2>3
  <2>6. TunnelFits(next)
    BY <2>2, <2>4 DEF TunnelFits
  <2>7. QED
    BY <1>3, <2>4, <2>5, <2>6, TunnelStep
<1>9. CASE Close(c)
  <2>1. tunnel' = [tunnel EXCEPT ![c] = none]
    BY <1>4, <1>9 DEF Close
  <2>2. TunnelFits(none)
    BY <1>4 DEF TunnelFits
  <2>3. QED
    BY <1>3, <2>1, <2>2, TunnelStep
<1>10. QED
  BY <1>5, <1>6, <1>7, <1>8, <1>9

----------------------------------------------------------------------------
LEMMA SnapInit ==
    ASSUME Init
    PROVE  SnapInv
<1>1. PICK first \in Job :
        /\ first.pc = "floor" /\ first.task = "all" /\ first.of = {} /\ first.tab = NoTable
        /\ first.base = NothingSeen /\ first.floor = NoFloor
        /\ job = [t \in Threads |-> IF t = Poller THEN first ELSE NoJob]
  <2>1. PICK first : first = [NoJob EXCEPT !.pc = "floor", !.task = "all"]
    OBVIOUS
  <2>2. /\ first \in Job
        /\ first.pc = "floor" /\ first.task = "all" /\ first.of = {} /\ first.tab = NoTable
        /\ first.base = NothingSeen /\ first.floor = NoFloor
    BY ONLY <2>1, NoJobFields DEF Job, Phases, Tasks
  <2>3. QED
    BY <2>1, <2>2 DEF Init
<1>2. /\ dirs = Projects /\ clock = 0 /\ table = NoTable /\ hosts = [at |-> 0, is |-> "absent"]
      /\ floor = NoFloor /\ mutex = {} /\ tunnel = [c \in Tunnels |-> Closed]
      /\ promised = NothingSeen /\ served = {}
  BY DEF Init
<1>3. /\ disk \in [Projects -> [Files -> File]]
      /\ \A p \in Projects : \A f \in Files : disk[p][f].at = 0
  BY ChangesAssumption DEF Init, File, Contents
<1>4. hosts \in File /\ hosts.at = 0
  BY <1>2, ChangesAssumption DEF File, Contents
<1>5. /\ job \in [Threads -> Job]
      /\ \A t \in Threads :
           /\ job[t] = NoJob \/ (t = Poller /\ job[t] = first)
           /\ job[t].pc \in {"idle", "floor"} /\ job[t].of = {} /\ job[t].tab = NoTable
           /\ job[t].base = NothingSeen /\ job[t].floor = NoFloor
  BY <1>1, NoJobFields
<1>6. Closed \in Tunnel /\ Closed.pc = "closed"
  BY NoJobFields, ChangesAssumption DEF Closed, Tunnel
<1>7. TypeInv
  BY <1>2, <1>3, <1>4, <1>5, <1>6, NoJobFields, ChangesAssumption DEF TypeInv
<1>8. ThreadsFormed
  <2>1. Formed(NoJob, Poller) /\ Formed(first, Poller) /\ \A t \in Threads : Formed(NoJob, t)
    BY <1>1, NoJobFields DEF Formed
  <2>2. QED
    BY <1>2, <1>5, <1>6, <2>1 DEF ThreadsFormed
<1>9. \A t \in Threads : job[t].pc \notin Loading /\ ~Builds(job[t]) /\ ~Compares(job[t])
  BY <1>1, <1>5, NoJobFields DEF Loading, Builds, Compares
<1>10. MutexHeld /\ Clocked
  BY <1>2, <1>3, <1>4, <1>9 DEF MutexHeld, Clocked
<1>11. SnapshotsFit
  BY <1>2, <1>5, NoJobFields DEF SnapshotsFit, SnapshotFits
<1>12. FloorsFit
  BY <1>2, <1>4, <1>5, NoJobFields DEF FloorsFit
<1>13. BoundsKept
  <2>1. ASSUME NEW p \in Projects, NEW low \in Lows, IsBound(low, p) PROVE Above(p, low)
    <3>1. low = NothingSeen[p]
      BY <1>2, <1>6, <1>9, <2>1, NoJobFields DEF IsBound
    <3>2. QED
      BY <1>2, <1>3, <1>5, <1>9, <3>1, NoJobFields DEF Above, Covers
  <2>2. QED
    BY <2>1 DEF BoundsKept
<1>14. BasesKept
  <2>1. BaseFits(NothingSeen, disk)
    BY <1>3, <1>7, BaseStarts
  <2>2. QED
    BY <1>5, <1>9, <2>1 DEF BasesKept, BaseKept
<1>15. ServedKept
  BY <1>2, <1>5, <1>9 DEF ServedKept, ServedBy
<1>16. Answered
  BY <1>2, <1>6 DEF Answered
<1>17. QED
  BY <1>7, <1>8, <1>10, <1>11, <1>12, <1>13, <1>14, <1>15, <1>16 DEF SnapInv

LEMMA NextKeeps ==
    ASSUME SnapInv, [Next]_vars
    PROVE  SnapInv'
<1>1. ASSUME NEW p \in Projects, Change(p) \/ Create(p) \/ Remove(p) PROVE SnapInv'
  BY <1>1, ChangeKeeps, RemoveKeeps
<1>2. CASE ChangeHosts
  BY <1>2, ChangeHostsKeeps
<1>3. ASSUME NEW t \in Threads, Reload(t) \/ UpdateProject(t) \/ Lock(t) \/ Work(t) PROVE SnapInv'
  BY <1>3, ReloadKeeps, UpdateKeeps, LockKeeps, WorkKeeps
<1>4. CASE Polling
  <2>1. Poller \in Threads
    BY DEF Threads
  <2>2. QED
    BY <1>4, <2>1, ReloadKeeps, PollKeeps DEF Polling
<1>5. ASSUME NEW c \in Tunnels, Connect(c) \/ Ask(c) \/ Lookup(c) \/ Reply(c) \/ Close(c)
      PROVE  SnapInv'
  BY <1>5, TunnelKeeps
<1>6. CASE UNCHANGED vars
  <2>1. Grows
    BY <1>6, SameGrows DEF vars, SnapInv, state
  <2>2. UNCHANGED <<hosts, floor, table, mutex, job, tunnel, history>>
    BY <1>6 DEF vars, history
  <2>3. QED
    BY <2>1, <2>2, GrowthKeeps
<1>7. QED
  BY <1>1, <1>2, <1>3, <1>4, <1>5, <1>6 DEF Next

(* The inductive invariant of the table, the threads that load it and the     *)
(* tunnels (loadProject, reloadAll, reloadProject, pollOnce, reloadFloor).    *)
THEOREM SnapshotsInvariant == Spec => []SnapInv
<1>1. Init => SnapInv
  BY SnapInit
<1>2. SnapInv /\ [Next]_vars => SnapInv'
  BY NextKeeps
<1>3. QED
  BY <1>1, <1>2, PTL DEF Spec

(* A snapshot that differs from the files differs in its modification times,  *)
(* which loadProject takes before it reads, and so does the floor.            *)
THEOREM StaleStaysVisible == Spec => []StaleIsVisible
<1>1. SnapInv => StaleIsVisible
  <2>1. ASSUME SnapInv, FloorIs(Stamp(hosts)), hosts.is = "on" PROVE floor.patterns = Patterns
    <3>1. FloorFits(floor, hosts) /\ floor.stamp = hosts.at
      BY <2>1 DEF SnapInv, FloorsFit, FloorIs, Stamp
    <3>2. QED
      BY <2>1, <3>1 DEF FloorFits, Patterns
  <2>2. ASSUME SnapInv, NEW p \in Projects, table[p] # NoSnapshot, table[p].mod = ModTimes(p),
               NEW f \in Files
        PROVE  table[p].data[f].is = disk[p][f].is \/ CameAndWent(p, f)
    <3>1. Fits(table[p].mod, f, table[p].data[f], disk[p][f])
      BY <2>2 DEF SnapInv, SnapshotsFit, SnapshotFits
    <3>2. CASE disk[p][f].is = "absent"
      <4>1. f \notin DOMAIN table[p].mod
        BY <2>2, <3>2 DEF ModTimes
      <4>2. QED
        BY <3>2, <4>1 DEF CameAndWent
    <3>3. CASE disk[p][f].is # "absent"
      <4>1. f \in DOMAIN table[p].mod /\ table[p].mod[f] = disk[p][f].at
        BY <2>2, <3>3 DEF ModTimes
      <4>2. table[p].data[f].at \in Nat /\ disk[p][f].at \in Nat
        BY <2>2, Typed, SnapshotTypes DEF SnapInv
      <4>3. table[p].data[f] = disk[p][f]
        BY <3>1, <4>1, <4>2 DEF Fits
      <4>4. QED
        BY <4>3
    <3>4. QED
      BY <3>2, <3>3
  <2>3. QED
    BY <2>1, <2>2 DEF StaleIsVisible
<1>2. QED
  BY <1>1, SnapshotsInvariant, PTL

(* What a reload that was answered with success, or a poll that is over, has  *)
(* seen stays in the table (handleReload, handleUpdateProject, pollOnce).     *)
THEOREM ReloadsStayInEffect == Spec => []ReloadsTakeEffect
<1>1. SnapInv => ReloadsTakeEffect
  <2>1. ASSUME SnapInv, NEW p \in Projects
        PROVE  /\ p \in served => table[p] # NoSnapshot
               /\ table[p] # NoSnapshot =>
                    \A f \in Files : table[p].data[f].at >= promised[p][f]
    <3>1. promised[p] \in Lows
      BY <2>1 DEF SnapInv, TypeInv, Seen, Lows
    <3>2. Covers(table[p], promised[p])
      BY <2>1, <3>1 DEF SnapInv, BoundsKept, IsBound, Above
    <3>3. table[p] # NoSnapshot =>
            \A f \in Files : table[p].data[f].at \in Nat /\ promised[p][f] \in Nat
      BY <2>1, <3>1, Typed, SnapshotTypes, ChangesAssumption DEF SnapInv, Lows
    <3>4. QED
      BY <2>1, <3>2, <3>3 DEF SnapInv, ServedKept, Covers
  <2>2. QED
    BY <2>1 DEF ReloadsTakeEffect
<1>2. QED
  BY <1>1, SnapshotsInvariant, PTL

(* A request in a tunnel is decided with what a poll or reload that was over  *)
(* before it has seen, however old the tunnel is (routeHandler).              *)
THEOREM RequestsSeeWhatWasReloaded == Spec => []RequestsSeeReloads
<1>1. SnapInv => RequestsSeeReloads
  <2>1. ASSUME SnapInv, NEW c \in Tunnels, tunnel[c].pc = "reply", tunnel[c].snap # NoSnapshot,
               NEW f \in Files
        PROVE  tunnel[c].snap.data[f].at >= tunnel[c].seen[f]
    <3>1. tunnel[c].snap \in Snapshot /\ tunnel[c].seen \in Lows
      BY <2>1 DEF SnapInv, TypeInv, Tunnel, Lows
    <3>2. tunnel[c].seen[f] <= tunnel[c].snap.data[f].at
      BY <2>1 DEF SnapInv, Answered, Covers
    <3>3. QED
      BY <2>1, <3>1, <3>2, SnapshotTypes, ChangesAssumption DEF Lows
  <2>2. QED
    BY <2>1 DEF RequestsSeeReloads
<1>2. QED
  BY <1>1, SnapshotsInvariant, PTL
==============================================================================

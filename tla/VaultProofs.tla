----------------------------- MODULE VaultProofs -----------------------------
(***************************************************************************)
(* The vault keeps its promises for every number of commands, requests,     *)
(* open vaults, secrets, hosts and writes. All writers of a vault hold the  *)
(* flock from their read to their write, so what they have read is what was *)
(* last written with that key. Inside the broker the mutexes of an open     *)
(* vault, and the order in which an unlock replaces one, do the rest.       *)
(***************************************************************************)
EXTENDS Vault, TLAPS

USE VaultNone, VaultBounds, VaultNoDocument

Working == {"authority", "reload", "read", "set", "flock", "write"}
Creating == {"set", "flock", "write"}

\* Which locals each phase has set.
WellFormed ==
    /\ \A h \in Handlers :
         /\ job[h].pc \in Working \cup {"done"} =>
              /\ job[h].v \in Instances /\ job[h].key \in Keys
              /\ job[h].op = IF job[h].key \in Names THEN "secret" ELSE "authority"
         /\ job[h].pc \in Creating \cup {"authority"} => job[h].key \in Hosts
         /\ job[h].pc \in Creating => job[h].new \in CAs
         /\ job[h].pc \in {"swap", "lock"} => job[h].v \in Instances
         /\ job[h].pc \in {"swap", "lock"} <=> job[h].op = "unlock" /\ job[h].pc # "idle"
    /\ \A c \in Commands :
         /\ cmd[c].pc \in {"flock", "write"} => cmd[c].key \in Names
         /\ cmd[c].pc = "write" => cmd[c].salt \in Salts

TypeInv == TypeOK /\ WellFormed

\* Who is between a lock and an unlock holds the lock.
LocksHeld ==
    /\ \A h \in Handlers :
         /\ job[h].pc \in {"read", "flock", "write"} => inst[job[h].v].mutex = h
         /\ job[h].op = "authority" /\ job[h].pc \in Working \ {"authority"}
              => inst[job[h].v].caMutex = h
         /\ job[h].pc = "write" => flock = h
    /\ \A c \in Commands : cmd[c].pc = "write" => flock = c

\* The file is the last document of the vault that it shows, and no vault was
\* made by a write that is still to come.
FileIsKept ==
    /\ \A s \in Salts : kept[s] # None => s <= Stamp
    /\ file # None => file.salt <= file.stamp /\ file.doc = kept[file.salt]

\* What a writer is about to change is what was written last with its key.
WritersCurrent ==
    /\ \A c \in Commands :
         cmd[c].pc = "write" => cmd[c].doc \in Document /\ cmd[c].doc = kept[cmd[c].salt]
    /\ \A h \in Handlers :
         job[h].pc = "write" =>
           /\ inst[job[h].v].salt \in Salts
           /\ inst[job[h].v].doc \in Document
           /\ inst[job[h].v].doc = kept[inst[job[h].v].salt]

\* A cached document with the stamp of the file is the document of the file.
CacheStamped ==
    \A v \in Instances :
        /\ inst[v].stamp <= Stamp
        /\ inst[v].doc # None =>
             /\ inst[v].stamp # 0 /\ inst[v].salt # 0
             /\ inst[v].stamp = Stamp => inst[v].doc = file.doc /\ inst[v].salt = file.salt

\* The vault of the broker has its key. One that an unlock has opened is in
\* nobody else's hands, and one that is being locked is not the broker's.
VaultsApart ==
    /\ vault # None => inst[vault].salt # 0
    /\ \A h \in Handlers :
         /\ job[h].pc = "swap" =>
              /\ job[h].v # vault /\ inst[job[h].v].salt # 0
              /\ \A other \in Handlers : other # h => job[other].v # job[h].v
         /\ job[h].pc = "lock" => job[h].v # vault

\* A request whose answer is not in doubt is at work with the vault of the
\* broker, and so is every other request.
NoDoubt ==
    \A h \in Handlers :
        job[h].pc \in Working /\ ~job[h].doubt =>
            \A other \in Handlers : job[other].pc \in Working => job[other].v = vault

\* A key that a request has taken is that of its vault, until it is zeroed.
KeyTaken ==
    \A h \in Handlers :
        job[h].pc \in Working /\ job[h].op = "secret" => inst[job[h].v].salt \in {0, job[h].salt}

\* A request that creates an authority, and is not in doubt, replaces none.
NoneToReplace ==
    \A h \in Handlers :
        job[h].pc \in Creating /\ ~job[h].doubt =>
            /\ inst[job[h].v].salt \in Salts
            /\ kept[inst[job[h].v].salt] # None
            /\ kept[inst[job[h].v].salt][job[h].key] = None

MapInv == TypeInv /\ LocksHeld /\ FileIsKept /\ WritersCurrent
VaultInv ==
    /\ MapInv /\ CacheStamped /\ VaultsApart /\ KeysHeld
    /\ NoDoubt /\ KeyTaken /\ NoneToReplace /\ ReadsAreCurrent

----------------------------------------------------------------------------
LEMMA EmptyRecords ==
    /\ NoInstance \in Instance /\ NoJob \in Job /\ NoCmd \in Cmd
    /\ emptyDocument \in Document /\ NoJob.pc = "idle" /\ NoCmd.pc = "idle"
BY DEF NoInstance, Instance, NoJob, Job, NoCmd, Cmd, emptyDocument, Document

LEMMA InitVaultInv == Init => VaultInv
<1> SUFFICES ASSUME Init PROVE VaultInv
  OBVIOUS
<1> USE EmptyRecords
<1>1. TypeInv
  BY DEF Init, TypeInv, TypeOK, WellFormed, NoJob, NoCmd, Working, Creating
<1>2. LocksHeld /\ FileIsKept /\ WritersCurrent
  BY DEF Init, LocksHeld, FileIsKept, WritersCurrent, NoJob, NoCmd, Working
<1>3. CacheStamped /\ VaultsApart /\ KeysHeld
  BY DEF Init, CacheStamped, VaultsApart, KeysHeld, NoInstance, NoJob, Stamp
<1>4. NoDoubt /\ KeyTaken /\ NoneToReplace /\ ReadsAreCurrent
  BY DEF Init, NoDoubt, KeyTaken, NoneToReplace, ReadsAreCurrent, NoJob, Working, Creating, At
<1>5. QED
  BY <1>1, <1>2, <1>3, <1>4 DEF VaultInv, MapInv

----------------------------------------------------------------------------
\* What a file that is written is.
LEMMA WrittenFile ==
    ASSUME TypeOK, CanWrite, NEW salt \in Salts, NEW doc \in Document
    PROVE  /\ Written(salt, doc) \in File
           /\ Written(salt, doc).stamp = Stamp + 1
           /\ Written(salt, doc).salt = salt /\ Written(salt, doc).doc = doc
           /\ Stamp \in Nat /\ Stamp + 1 \in Salts /\ Written(salt, doc) # file
BY DEF TypeOK, CanWrite, Written, File, Stamp, Salts

LEMMA StampType == TypeOK => Stamp \in 0..MaxWrites
BY DEF TypeOK, Stamp, File, Salts

LEMMA SeenType ==
    ASSUME TypeOK, Watch, file' \in File \cup {None}, job' \in [Handlers -> Job],
           WellFormed, WellFormed',
           file' # file => file' \in File
    PROVE  /\ seen' \in [Handlers -> SUBSET (Values \cup {None})]
           /\ kept' \in [Salts -> Document \cup {None}]
<1>1. kept' \in [Salts -> Document \cup {None}]
  BY DEF TypeOK, Watch, File
<1>2. ASSUME NEW j \in Job, j.key \in Names, file \in File \cup {None}
      PROVE  Visible(j) \in Values \cup {None}
  BY <1>2 DEF Visible, Opens, File, Document, Keys, Record
<1>3. ASSUME NEW j \in Job, j.key \in Names
      PROVE  Visible(j)' \in Values \cup {None}
  BY <1>3 DEF Visible, Opens, File, Document, Keys, Record
<1>4. ASSUME NEW h \in Handlers, job'[h].pc # "idle", job'[h].op = "secret"
      PROVE  job'[h] \in Job /\ job'[h].key \in Names
  BY <1>4 DEF WellFormed, Job, Working
<1>5. QED
  BY <1>1, <1>2, <1>3, <1>4 DEF TypeOK, Watch

----------------------------------------------------------------------------
\* The types without the history, which SeenType adds.
BareTypes ==
    /\ file \in File \cup {None}
    /\ flock \in Commands \cup Handlers \cup {None}
    /\ inst \in [Instances -> Instance]
    /\ vault \in Instances \cup {None}
    /\ job \in [Handlers -> Job]
    /\ cmd \in [Commands -> Cmd]
    /\ minted \in 0..MaxCAs
    /\ WellFormed

CommandStep(c) ==
    InitVault(c) \/ Create(c) \/ OpenVault(c) \/ LockAndReload(c) \/ WriteSecret(c) \/ Die(c)

LEMMA CommandTypes ==
    ASSUME MapInv, NEW c \in Commands, CommandStep(c)
    PROVE  BareTypes' /\ Watch /\ (file' # file => file' \in File)
<1> USE EmptyRecords, StampType DEF MapInv, TypeInv, BareTypes
<1>1. CASE InitVault(c)
  BY <1>1 DEF InitVault, TypeOK, WellFormed, Cmd
<1>2. CASE Create(c)
  <2>1. Stamp + 1 \in Salts
    BY <1>2 DEF Create, CanWrite, Salts
  <2>2. file' \in File
    BY <1>2, <2>1, WrittenFile DEF Create
  <2>3. QED
    BY <1>2, <2>2 DEF Create, TypeOK, WellFormed
<1>3. CASE OpenVault(c)
  <2>1. PICK n \in Names, x \in Values \cup {None} :
          cmd' = [cmd EXCEPT ![c] = [NoCmd EXCEPT !.pc = "flock", !.key = n, !.value = x,
                                                  !.salt = file.salt]]
    BY <1>3 DEF OpenVault
  <2> DEFINE opened == [NoCmd EXCEPT !.pc = "flock", !.key = n, !.value = x,
                                     !.salt = file.salt]
  <2>2. file.salt \in 0..MaxWrites
    BY <1>3 DEF OpenVault, TypeOK, File, Salts
  <2>3. opened \in Cmd /\ opened.pc = "flock" /\ opened.key = n
    BY <2>2 DEF Cmd, NoCmd
  <2> HIDE DEF opened
  <2>4. QED
    BY <1>3, <2>1, <2>3 DEF OpenVault, opened, TypeOK, WellFormed
<1>4. CASE LockAndReload(c)
  <2>1. CASE cmd' = [cmd EXCEPT ![c] = NoCmd] /\ UNCHANGED flock
    BY <1>4, <2>1 DEF LockAndReload, TypeOK, WellFormed
  <2>2. CASE /\ Opens(cmd[c].salt) /\ flock' = c
             /\ cmd' = [cmd EXCEPT ![c].pc = "write", ![c].doc = file.doc]
    <3>1. cmd[c] \in Cmd /\ file.doc \in Document /\ cmd[c].salt \in Salts
      BY <2>2 DEF TypeOK, File, Opens
    <3>2. cmd' \in [Commands -> Cmd]
      BY <2>2, <3>1 DEF TypeOK, Cmd
    <3>3. WellFormed'
      BY <1>4, <2>2, <3>1 DEF LockAndReload, TypeOK, WellFormed, Cmd
    <3>4. QED
      BY <1>4, <2>2, <3>2, <3>3 DEF LockAndReload, TypeOK
  <2>3. QED
    BY <1>4, <2>1, <2>2 DEF LockAndReload
<1>5. CASE WriteSecret(c)
  <2> DEFINE doc == [cmd[c].doc EXCEPT ![cmd[c].key] = cmd[c].value]
  <2>1. doc \in Document
    BY <1>5 DEF WriteSecret, WritersCurrent, WellFormed, TypeOK, Cmd, Document, Keys, Record
  <2>2. file' # file => file' \in File
    BY <1>5, <2>1, WrittenFile DEF WriteSecret, WellFormed
  <2>3. QED
    BY <1>5, <2>2 DEF WriteSecret, TypeOK, WellFormed
<1>6. CASE Die(c)
  BY <1>6 DEF Die, TypeOK, WellFormed
<1>7. QED
  BY <1>1, <1>2, <1>3, <1>4, <1>5, <1>6 DEF CommandStep

\* The record of an authority, or nothing.
LEMMA DocumentRecord ==
    ASSUME NEW doc \in Document, NEW k \in Keys
    PROVE  /\ doc[k] \in Record(k) \cup {None}
           /\ doc[k] \in Values \cup CAs \cup {None}
           /\ \A r \in Record(k) \cup {None} : [doc EXCEPT ![k] = r] \in Document
BY DEF Document, Record

LEMMA FoundTypes ==
    ASSUME MapInv, NEW h \in Handlers, job[h].pc \in {"reload", "read"},
           NEW next \in Instance, NEW r \in Record(job[h].key) \cup {None},
           NEW doubt \in BOOLEAN, Found(h, next, r, doubt)
    PROVE  /\ inst' \in [Instances -> Instance]
           /\ job' \in [Handlers -> Job]
           /\ minted' \in 0..MaxCAs
           /\ (UNCHANGED cmd => WellFormed')
<1> DEFINE v == job[h].v
<1> USE DEF MapInv, TypeInv
<1>1. /\ v \in Instances /\ job[h].key \in Keys /\ job[h] \in Job
      /\ job[h].op = IF job[h].key \in Names THEN "secret" ELSE "authority"
  BY DEF TypeOK, WellFormed, Working
<1>2. job[h].op = "authority" => job[h].key \in Hosts /\ r \in CAs \cup {None}
  BY <1>1 DEF Record, Keys
<1>3. inst' \in [Instances -> Instance]
  BY <1>1, <1>2 DEF Found, TypeOK, Instance
<1>4. minted' \in 0..MaxCAs /\ (minted < MaxCAs => minted + 1 \in CAs)
  BY DEF Found, CreateAuthority, TypeOK, CAs
<1>5. job' \in [Handlers -> Job]
  BY <1>1, <1>2, <1>4 DEF Found, CreateAuthority, TypeOK, Job, Record
<1>6. UNCHANGED cmd => WellFormed'
  BY <1>1, <1>2, <1>4 DEF Found, CreateAuthority, TypeOK, WellFormed, Working, Creating, Job
<1>7. QED
  BY <1>3, <1>4, <1>5, <1>6

HandlerStep(h) ==
    \/ Begin(h) \/ AuthorityLocked(h) \/ ReloadLocked(h) \/ ReadContainer(h)
    \/ ReadFails(h) \/ SetAuthority(h) \/ LockAuthority(h) \/ WriteAuthority(h)
    \/ Return(h) \/ Unlock(h) \/ Swap(h) \/ LockVault(h) \/ Lock(h)

\* What a working request has in its hands.
LEMMA Hands ==
    ASSUME TypeInv, NEW h \in Handlers, job[h].pc \in Working
    PROVE  /\ job[h] \in Job /\ job[h].v \in Instances /\ job[h].key \in Keys
           /\ inst[job[h].v] \in Instance
           /\ job[h].pc \in Creating \cup {"authority"} => job[h].key \in Hosts
           /\ job[h].pc \in Creating => job[h].new \in CAs
BY DEF TypeInv, TypeOK, WellFormed, Working

LEMMA LoadedInstance ==
    ASSUME TypeOK, NEW v \in Instances
    PROVE  /\ LoadedFrom(inst[v], Stamp) \in Instance
           /\ LoadedFrom(inst[v], Stamp).doc \in Document \cup {None}
           /\ LoadedFrom(inst[v], Stamp).salt = inst[v].salt
<1>1. inst[v] \in Instance /\ (file # None => file.doc \in Document)
  BY DEF TypeOK, File
<1>2. QED
  BY <1>1, StampType DEF LoadedFrom, Opens, Instance

\* The mutexes of an instance, and what Lock leaves of one.
LEMMA InstanceFields ==
    ASSUME NEW i \in Instance, NEW h \in Handlers
    PROVE  /\ [i EXCEPT !.mutex = h] \in Instance /\ [i EXCEPT !.mutex = None] \in Instance
           /\ [i EXCEPT !.caMutex = h] \in Instance /\ [i EXCEPT !.caMutex = None] \in Instance
           /\ [[i EXCEPT !.mutex = None] EXCEPT !.caMutex = None] \in Instance
           /\ [i EXCEPT !.salt = 0, !.doc = None, !.stamp = 0] \in Instance
<1>1. [i EXCEPT !.mutex = h] \in Instance /\ [i EXCEPT !.mutex = None] \in Instance
  BY DEF Instance
<1>2. [i EXCEPT !.caMutex = h] \in Instance /\ [i EXCEPT !.caMutex = None] \in Instance
  BY DEF Instance
<1>3. [[i EXCEPT !.mutex = None] EXCEPT !.caMutex = None] \in Instance
  BY DEF Instance
<1>4. [i EXCEPT !.salt = 0, !.doc = None, !.stamp = 0] \in Instance
  <2>1. 0 \in 0..MaxWrites
    OBVIOUS
  <2>2. QED
    BY <2>1 DEF Instance
<1>5. QED
  BY <1>1, <1>2, <1>3, <1>4

LEMMA WrittenInstance ==
    ASSUME NEW i \in Instance, NEW doc \in Document, NEW stamp \in 0..MaxWrites,
           NEW k \in Hosts, NEW ca \in CAs
    PROVE  [i EXCEPT !.doc = doc, !.stamp = stamp, !.mutex = None, !.caMutex = None,
                     !.loaded[k] = ca] \in Instance
<1>1. [i.loaded EXCEPT ![k] = ca] \in [Hosts -> CAs \cup {None}]
  BY DEF Instance
<1>2. QED
  BY <1>1 DEF Instance

LEMMA ReplaceTypes ==
    ASSUME TypeInv, NEW h \in Handlers, NEW v \in Instances \cup {None}, Replace(h, v),
           UNCHANGED cmd
    PROVE  job' \in [Handlers -> Job] /\ vault' \in Instances \cup {None} /\ WellFormed'
<1> DEFINE mine == [NoJob EXCEPT !.op = "unlock", !.v = vault,
                                 !.pc = IF vault = None THEN "idle" ELSE "lock"]
<1>1. mine \in Job /\ mine.op = "unlock" /\ mine.v = vault
      /\ mine.pc = IF vault = None THEN "idle" ELSE "lock"
  <2>1. vault \in Instances \cup {None}
    BY DEF TypeInv, TypeOK
  <2>2. mine.op = "unlock" /\ mine.v = vault
        /\ mine.pc = IF vault = None THEN "idle" ELSE "lock"
    BY DEF NoJob
  <2>3. mine \in Job
    <3>1. NoJob \in Job /\ mine.pc \in {"idle", "lock"}
      BY <2>2, EmptyRecords
    <3>2. \A j \in Job, pc \in {"idle", "lock"} :
            [j EXCEPT !.op = "unlock", !.v = vault, !.pc = pc] \in Job
      BY <2>1 DEF Job
    <3>3. QED
      BY <3>1, <3>2
  <2>4. QED
    BY <2>2, <2>3
<1> HIDE DEF mine
<1>2. ASSUME NEW j \in Job, NEW b \in BOOLEAN
      PROVE  [j EXCEPT !.doubt = @ \/ b] \in Job
  BY DEF Job
<1>3. \A other \in Handlers : Busy(other) \in BOOLEAN
  BY DEF Busy
<1>4. job' \in [Handlers -> Job]
  BY <1>1, <1>2, <1>3 DEF Replace, mine, TypeInv, TypeOK
<1>5. ASSUME NEW other \in Handlers, other # h
      PROVE  /\ job'[other].pc = job[other].pc /\ job'[other].op = job[other].op
             /\ job'[other].v = job[other].v /\ job'[other].key = job[other].key
             /\ job'[other].new = job[other].new
  BY <1>5 DEF Replace, TypeInv, TypeOK, Job
<1>6. job'[h] = mine
  BY DEF Replace, mine
<1>7. WellFormed'
  BY <1>1, <1>5, <1>6 DEF WellFormed, TypeInv, TypeOK, Working, Creating
<1>8. QED
  BY <1>4, <1>7 DEF Replace

LEMMA HandlerTypes ==
    ASSUME MapInv, NEW h \in Handlers, HandlerStep(h)
    PROVE  BareTypes' /\ Watch /\ (file' # file => file' \in File)
<1> USE EmptyRecords, StampType DEF MapInv, TypeInv, BareTypes
<1>1. CASE Begin(h)
  <2>1. PICK k \in Keys :
          job' = [job EXCEPT ![h] =
                    [NoJob EXCEPT !.key = k, !.v = vault,
                                  !.salt = inst[vault].salt, !.doubt = Overlap,
                                  !.op = IF k \in Names THEN "secret" ELSE "authority",
                                  !.pc = IF k \in Names THEN "reload" ELSE "authority"]]
    BY <1>1 DEF Begin
  <2>2. inst[vault].salt \in 0..MaxWrites /\ vault \in Instances /\ Overlap \in BOOLEAN
    BY <1>1 DEF Begin, TypeOK, Instance, Overlap
  <2>3. job'[h] \in Job /\ job'[h].key = k /\ job'[h].v = vault
        /\ job'[h].op = (IF k \in Names THEN "secret" ELSE "authority")
        /\ job'[h].pc = (IF k \in Names THEN "reload" ELSE "authority")
    BY <2>1, <2>2 DEF NoJob, Job, TypeOK
  <2>4. \A other \in Handlers : other # h => job'[other] = job[other]
    BY <2>1 DEF TypeOK
  <2>5. job' \in [Handlers -> Job]
    BY <2>1, <2>3, <2>4 DEF TypeOK
  <2>6. WellFormed'
    BY <1>1, <2>2, <2>3, <2>4 DEF Begin, WellFormed, Working, Creating, Keys
  <2>7. QED
    BY <1>1, <2>5, <2>6 DEF Begin, TypeOK
<1>2. CASE AuthorityLocked(h)
  <2>1. job[h].pc \in Working /\ job[h].pc = "authority"
    BY <1>2 DEF AuthorityLocked, At, Working
  <2>2. inst[job[h].v].loaded[job[h].key] \in CAs \cup {None}
    BY <2>1, Hands DEF Instance
  <2>3. inst' \in [Instances -> Instance] /\ job' \in [Handlers -> Job]
    <3>1. inst' = inst \/ inst' = [inst EXCEPT ![job[h].v] = [@ EXCEPT !.caMutex = h]]
      BY <1>2, <2>1, Hands DEF AuthorityLocked, TypeOK
    <3>2. [inst[job[h].v] EXCEPT !.caMutex = h] \in Instance
      BY <2>1, Hands DEF Instance
    <3>3. inst' \in [Instances -> Instance]
      BY <2>1, <3>1, <3>2, Hands DEF TypeOK
    <3>4. job' \in [Handlers -> Job]
      BY <1>2, <2>1, <2>2, Hands DEF AuthorityLocked, TypeOK, Job
    <3>5. QED
      BY <3>3, <3>4
  <2>4. WellFormed'
    BY SMTT(60), <1>2, <2>1, Hands DEF AuthorityLocked, TypeOK, WellFormed, Working, Creating, Job
  <2>5. QED
    BY <1>2, <2>3, <2>4 DEF AuthorityLocked, TypeOK
<1>3. CASE ReloadLocked(h)
  <2>1. job[h].pc = "reload" /\ job[h].pc \in Working
    BY <1>3 DEF ReloadLocked, At, Working
  <2>2. CASE Found(h, inst[job[h].v], None, FALSE)
    BY <1>3, <2>1, <2>2, Hands, FoundTypes DEF ReloadLocked, TypeOK
  <2>3. CASE /\ inst[job[h].v].doc # None
             /\ Found(h, inst[job[h].v], inst[job[h].v].doc[job[h].key], FALSE)
    <3>1. inst[job[h].v].doc[job[h].key] \in Record(job[h].key) \cup {None}
      BY <2>1, <2>3, Hands, DocumentRecord DEF Instance
    <3>2. QED
      BY <1>3, <2>1, <2>3, <3>1, Hands, FoundTypes DEF ReloadLocked, TypeOK
  <2>4. CASE /\ inst' = [inst EXCEPT ![job[h].v].mutex = h]
             /\ job' = [job EXCEPT ![h].pc = "read"] /\ UNCHANGED minted
    <3>1. inst' \in [Instances -> Instance] /\ job' \in [Handlers -> Job]
      <4>1. inst' \in [Instances -> Instance]
        BY <2>1, <2>4, Hands, InstanceFields DEF TypeOK
      <4>2. job' \in [Handlers -> Job]
        BY <2>1, <2>4, Hands DEF TypeOK, Job
      <4>3. QED
        BY <4>1, <4>2
    <3>2. WellFormed'
      BY <1>3, <2>1, <2>4, Hands DEF ReloadLocked, TypeOK, WellFormed, Working, Creating, Job
    <3>3. QED
      BY SMTT(60), <1>3, <2>4, <3>1, <3>2 DEF ReloadLocked, TypeOK
  <2>5. QED
    BY <1>3, <2>2, <2>3, <2>4 DEF ReloadLocked
<1>4. CASE ReadContainer(h)
  <2> DEFINE next == LoadedFrom(inst[job[h].v], Stamp)
             r == IF next.doc = None THEN None ELSE next.doc[job[h].key]
  <2>1. job[h].pc = "read" /\ job[h].pc \in Working
    BY <1>4 DEF ReadContainer, At, Working
  <2>2. next \in Instance /\ next.doc \in Document \cup {None}
    BY <2>1, Hands, LoadedInstance
  <2>3. r \in Record(job[h].key) \cup {None}
    BY <2>1, <2>2, Hands, DocumentRecord
  <2>4. Found(h, next, r, next.doc = None) /\ (next.doc = None) \in BOOLEAN
    BY <1>4 DEF ReadContainer
  <2> HIDE DEF next, r
  <2>5. QED
    BY <1>4, <2>1, <2>2, <2>3, <2>4, FoundTypes DEF ReadContainer, TypeOK
<1>5. CASE ReadFails(h)
  <2>1. job[h].pc = "read" /\ job[h].pc \in Working
    BY <1>5 DEF ReadFails, At, Working
  <2>2. [inst[job[h].v] EXCEPT !.doc = None] \in Instance
    BY <2>1, Hands DEF Instance
  <2>3. QED
    BY <1>5, <2>1, <2>2, FoundTypes DEF ReadFails, TypeOK
<1>6. CASE SetAuthority(h)
  <2>1. job[h].pc = "set" /\ job[h].pc \in Working
    BY <1>6 DEF SetAuthority, At, Working
  <2>2. inst' \in [Instances -> Instance] /\ job' \in [Handlers -> Job]
    <3>1. inst' \in [Instances -> Instance]
      <4>1. /\ [inst[job[h].v] EXCEPT !.mutex = h] \in Instance
            /\ [inst[job[h].v] EXCEPT !.caMutex = None] \in Instance
        BY <2>1, Hands DEF Instance
      <4>2. QED
        BY <1>6, <2>1, <4>1, Hands DEF SetAuthority, TypeOK
    <3>2. job' \in [Handlers -> Job]
      <4>1. /\ [job EXCEPT ![h].pc = "done"] \in [Handlers -> Job]
            /\ [job EXCEPT ![h].pc = "flock"] \in [Handlers -> Job]
        BY SMTT(60) DEF TypeOK, Job
      <4>2. QED
        BY <1>6, <4>1 DEF SetAuthority
    <3>3. QED
      BY <3>1, <3>2
  <2>3. WellFormed'
    BY SMTT(60), <1>6, <2>1, Hands DEF SetAuthority, TypeOK, WellFormed, Working, Creating, Job
  <2>4. QED
    BY <1>6, <2>2, <2>3 DEF SetAuthority, TypeOK
<1>7. CASE LockAuthority(h)
  <2>1. job[h].pc = "flock" /\ job[h].pc \in Working
    BY <1>7 DEF LockAuthority, At, Working
  <2> DEFINE next == LoadedFrom(inst[job[h].v], Stamp)
  <2>2. next \in Instance
    BY <2>1, Hands, LoadedInstance
  <2>3. [next EXCEPT !.mutex = None, !.caMutex = None] \in Instance
    BY <2>2 DEF Instance
  <2>4. /\ job' = [job EXCEPT ![h].pc = "done"] \/ job' = [job EXCEPT ![h].pc = "write"]
        /\ \/ inst' = [inst EXCEPT ![job[h].v] = [next EXCEPT !.mutex = None, !.caMutex = None]]
           \/ inst' = [inst EXCEPT ![job[h].v] = next]
        /\ flock' \in {flock, h}
    BY <1>7 DEF LockAuthority
  <2> HIDE DEF next
  <2>5. inst' \in [Instances -> Instance] /\ job' \in [Handlers -> Job]
    BY <2>1, <2>2, <2>3, <2>4, Hands DEF TypeOK, Job
  <2>6. WellFormed'
    <3>1. /\ job'[h].pc \in {"done", "write"} /\ job'[h].v = job[h].v
          /\ job'[h].key = job[h].key /\ job'[h].op = job[h].op /\ job'[h].new = job[h].new
      BY <2>1, <2>4, Hands DEF TypeOK, Job
    <3>2. \A other \in Handlers : other # h => job'[other] = job[other]
      BY <2>4 DEF TypeOK
    <3>3. cmd' = cmd
      BY <1>7 DEF LockAuthority
    <3>4. QED
      BY <2>1, <3>1, <3>2, <3>3 DEF WellFormed, Working, Creating
  <2>7. QED
    BY <1>7, <2>4, <2>5, <2>6 DEF LockAuthority, TypeOK
<1>8. CASE WriteAuthority(h)
  <2>1. job[h].pc = "write" /\ job[h].pc \in Working /\ job[h].pc \in Creating
    BY <1>8 DEF WriteAuthority, At, Working, Creating
  <2> DEFINE doc == [inst[job[h].v].doc EXCEPT ![job[h].key] = job[h].new]
  <2>2. doc \in Document /\ inst[job[h].v].salt \in Salts
    BY <2>1, Hands, DocumentRecord DEF WritersCurrent, Record, Keys
  <2>3. WellFormed'
    BY <1>8, <2>1, Hands DEF WriteAuthority, TypeOK, WellFormed, Working, Creating, Job
  <2>4. job' \in [Handlers -> Job]
    BY SMTT(60), <1>8, <2>1, Hands DEF WriteAuthority, TypeOK, Job
  <2>5. CASE /\ CanWrite /\ file' = Written(inst[job[h].v].salt, doc)
             /\ inst' = [inst EXCEPT ![job[h].v] =
                           [@ EXCEPT !.doc = doc, !.stamp = Stamp + 1,
                                     !.mutex = None, !.caMutex = None,
                                     !.loaded[job[h].key] = job[h].new]]
    <3>1. file' \in File /\ Stamp + 1 \in 0..MaxWrites
      BY <2>2, <2>5, WrittenFile DEF Salts
    <3>2. inst' \in [Instances -> Instance]
      BY <2>1, <2>2, <2>5, <3>1, Hands, WrittenInstance DEF TypeOK
    <3>3. QED
      BY <1>8, <2>3, <2>4, <3>1, <3>2 DEF WriteAuthority, TypeOK
  <2>6. CASE /\ inst' = [inst EXCEPT ![job[h].v].mutex = None, ![job[h].v].caMutex = None]
             /\ UNCHANGED file
    <3>1. inst' \in [Instances -> Instance]
      BY ZenonT(60), <2>1, <2>6, Hands DEF TypeOK, Instance
    <3>2. QED
      BY <1>8, <2>3, <2>4, <2>6, <3>1 DEF WriteAuthority, TypeOK
  <2>7. QED
    BY <1>8, <2>5, <2>6 DEF WriteAuthority
<1>9. CASE Return(h)
  BY <1>9 DEF Return, TypeOK, WellFormed, NoJob, Working, Creating
<1>10. CASE Unlock(h)
  <2>1. PICK v \in Instances :
          /\ inst' = [inst EXCEPT ![v] = [NoInstance EXCEPT !.salt = file.salt, !.doc = file.doc,
                                                            !.stamp = Stamp]]
          /\ job' = [job EXCEPT ![h] = [NoJob EXCEPT !.pc = "swap", !.op = "unlock", !.v = v]]
    BY <1>10 DEF Unlock
  <2>2. file.salt \in 0..MaxWrites /\ file.doc \in Document
    BY <1>10 DEF Unlock, TypeOK, File, Salts
  <2>3. inst' \in [Instances -> Instance]
    BY <2>1, <2>2 DEF TypeOK, NoInstance, Instance
  <2>4. job'[h] \in Job /\ job'[h].pc = "swap" /\ job'[h].op = "unlock" /\ job'[h].v = v
    BY <2>1 DEF TypeOK, NoJob, Job
  <2>5. \A other \in Handlers : other # h => job'[other] = job[other]
    BY <2>1 DEF TypeOK
  <2>6. job' \in [Handlers -> Job]
    BY <2>1, <2>4, <2>5 DEF TypeOK
  <2>7. WellFormed'
    BY <1>10, <2>4, <2>5 DEF Unlock, WellFormed, Working, Creating
  <2>8. QED
    BY <1>10, <2>3, <2>6, <2>7 DEF Unlock, TypeOK
<1>11. CASE Swap(h)
  <2>1. job[h].v \in Instances
    BY <1>11 DEF Swap, At, WellFormed
  <2>2. QED
    BY <1>11, <2>1, ReplaceTypes DEF Swap, TypeOK
<1>12. CASE LockVault(h)
  BY <1>12, ReplaceTypes DEF LockVault, TypeOK
<1>13. CASE Lock(h)
  <2>1. job[h].v \in Instances
    BY SMTT(60), <1>13 DEF Lock, At, WellFormed
  <2>2. inst' \in [Instances -> Instance]
    BY ZenonT(60), <1>13, <2>1, InstanceFields DEF Lock, TypeOK
  <2>3. QED
    BY <1>13, <2>2 DEF Lock, TypeOK, WellFormed, NoJob, Working, Creating
<1>14. QED
  BY <1>1, <1>2, <1>3, <1>4, <1>5, <1>6, <1>7, <1>8, <1>9, <1>10, <1>11, <1>12, <1>13
     DEF HandlerStep

LEMMA TypeStep ==
    ASSUME MapInv, Next
    PROVE  TypeInv' /\ Watch /\ (file' # file => file' \in File)
<1>1. BareTypes' /\ Watch /\ (file' # file => file' \in File)
  BY CommandTypes, HandlerTypes DEF Next, CommandStep, HandlerStep
<1>2. seen' \in [Handlers -> SUBSET (Values \cup {None})]
      /\ kept' \in [Salts -> Document \cup {None}]
  BY SMTT(60), <1>1, SeenType DEF MapInv, TypeInv, BareTypes
<1>3. QED
  BY <1>1, <1>2 DEF TypeInv, TypeOK, BareTypes

----------------------------------------------------------------------------
\* What a step does to a request: nobody changes the request of another, but
\* for the doubt that the replacement of the vault adds.
LEMMA OthersJob ==
    ASSUME TypeInv, NEW h \in Handlers, HandlerStep(h), NEW other \in Handlers, other # h
    PROVE  /\ job'[other].pc = job[other].pc /\ job'[other].op = job[other].op
           /\ job'[other].v = job[other].v /\ job'[other].key = job[other].key
           /\ job'[other].new = job[other].new /\ job'[other].salt = job[other].salt
           /\ job'[other].answer = job[other].answer
           /\ job[other].doubt => job'[other].doubt
<1> USE DEF TypeInv, TypeOK
<1>1. CASE \E v : Replace(h, v)
  BY <1>1 DEF Replace, Job
<1>2. CASE job'[other] = job[other]
  BY <1>2
<1>3. QED
  BY ZenonT(60), <1>1, <1>2 DEF HandlerStep, Begin, AuthorityLocked, ReloadLocked, ReadContainer, ReadFails,
       Found, SetAuthority, LockAuthority, WriteAuthority, Return, Unlock, Swap, LockVault, Lock

\* Nor does anybody change an open vault but the one in his hands.
LEMMA OthersInstance ==
    ASSUME TypeInv, NEW h \in Handlers, HandlerStep(h), NEW w \in Instances,
           w # job[h].v, w # job'[h].v
    PROVE  inst'[w] = inst[w]
<1> USE DEF TypeInv, TypeOK
<1>1. CASE Unlock(h)
  BY <1>1 DEF Unlock, NoJob
<1>3. CASE Begin(h) \/ Return(h) \/ Swap(h) \/ LockVault(h)
  BY <1>3 DEF Begin, Return, Swap, LockVault
<1>4. CASE AuthorityLocked(h) \/ SetAuthority(h) \/ LockAuthority(h)
  BY <1>4 DEF AuthorityLocked, SetAuthority, LockAuthority
<1>5. CASE WriteAuthority(h) \/ Lock(h)
  BY <1>5 DEF WriteAuthority, Lock
<1>6. CASE ReloadLocked(h)
  BY <1>6 DEF ReloadLocked, Found
<1>7. CASE ReadContainer(h) \/ ReadFails(h)
  BY <1>7 DEF ReadContainer, ReadFails, Found
<1>8. QED
  BY <1>1, <1>3, <1>4, <1>5, <1>6, <1>7 DEF HandlerStep

\* Each action in terms of the fields that the invariants speak of.
Request(h) == /\ job'[h].op = job[h].op /\ job'[h].key = job[h].key
              /\ job'[h].v = job[h].v /\ job'[h].salt = job[h].salt
Holds(v, i) == inst'[v].salt = i.salt /\ inst'[v].doc = i.doc /\ inst'[v].stamp = i.stamp
Mutexes(v, mutex, caMutex) == inst'[v].mutex = mutex /\ inst'[v].caMutex = caMutex

LEMMA BeginEffect ==
    ASSUME TypeInv, NEW h \in Handlers, Begin(h)
    PROVE  /\ vault \in Instances /\ job'[h].v = vault /\ job'[h].key \in Keys
           /\ job'[h].salt = inst[vault].salt /\ job'[h].doubt = Overlap
           /\ job'[h].op = (IF job'[h].key \in Names THEN "secret" ELSE "authority")
           /\ job'[h].pc = (IF job'[h].key \in Names THEN "reload" ELSE "authority")
           /\ job[h].pc = "idle"
BY DEF Begin, At, TypeInv, TypeOK, NoJob

LEMMA AuthorityEffect ==
    ASSUME TypeInv, NEW h \in Handlers, AuthorityLocked(h)
    PROVE  LET v == job[h].v IN
           /\ job[h].pc = "authority" /\ inst[v].caMutex = None /\ Request(h)
           /\ job'[h].doubt = job[h].doubt
           /\ Holds(v, inst[v])
           /\ \/ job'[h].pc = "done" /\ Mutexes(v, inst[v].mutex, None)
              \/ job'[h].pc = "reload" /\ Mutexes(v, inst[v].mutex, h)
<1>1. /\ job[h].pc = "authority" /\ inst[job[h].v].caMutex = None
      /\ job[h] \in Job /\ job[h].v \in Instances /\ inst[job[h].v] \in Instance
  BY Hands DEF AuthorityLocked, At, Working
<1>2. CASE /\ UNCHANGED inst
           /\ job' = [job EXCEPT ![h].pc = "done",
                                 ![h].answer = inst[job[h].v].loaded[job[h].key]]
  BY <1>1, <1>2 DEF TypeInv, TypeOK, Job, Request, Holds, Mutexes
<1>3. CASE /\ inst' = [inst EXCEPT ![job[h].v].caMutex = h]
           /\ job' = [job EXCEPT ![h].pc = "reload"]
  BY <1>1, <1>3 DEF TypeInv, TypeOK, Job, Instance, Request, Holds, Mutexes
<1>4. QED
  BY <1>1, <1>2, <1>3 DEF AuthorityLocked

LEMMA FoundEffect ==
    ASSUME MapInv, NEW h \in Handlers, job[h].pc \in {"reload", "read"},
           NEW next \in Instance, NEW r, NEW doubt \in BOOLEAN, Found(h, next, r, doubt)
    PROVE  LET v == job[h].v IN
           /\ Request(h) /\ job'[h].doubt = (job[h].doubt \/ doubt)
           /\ Holds(v, next) /\ inst'[v].mutex = None
           /\ \/ /\ job'[h].pc = "set" /\ job[h].op = "authority" /\ r = None
                 /\ inst'[v].caMutex = next.caMutex
              \/ /\ job'[h].pc = "done" /\ job'[h].answer = r
                 /\ job[h].op = "secret" => inst'[v].caMutex = next.caMutex
<1>1. job[h] \in Job /\ job[h].v \in Instances /\ job[h].op \in {"secret", "authority"}
  BY Hands DEF Working, MapInv, TypeInv, WellFormed
<1>2. Holds(job[h].v, next) /\ inst'[job[h].v].mutex = None
  BY <1>1 DEF Found, Holds, MapInv, TypeInv, TypeOK, Instance
<1>3. job[h].op = "secret" \/ r = None => inst'[job[h].v].caMutex = next.caMutex
  BY <1>1 DEF Found, MapInv, TypeInv, TypeOK, Instance
<1>4. CASE job[h].op = "authority" /\ r = None
  BY <1>1, <1>2, <1>3, <1>4 DEF Found, Request, MapInv, TypeInv, TypeOK, Job
<1>5. CASE ~(job[h].op = "authority" /\ r = None)
  BY <1>1, <1>2, <1>3, <1>5 DEF Found, Request, MapInv, TypeInv, TypeOK, Job
<1>6. QED
  BY <1>4, <1>5

LEMMA ReloadEffect ==
    ASSUME MapInv, NEW h \in Handlers, ReloadLocked(h)
    PROVE  LET v == job[h].v IN
           /\ job[h].pc = "reload" /\ inst[v].mutex = None
           /\ \/ /\ inst[v].salt = 0 /\ Found(h, inst[v], None, FALSE)
              \/ /\ inst[v].salt # 0 /\ inst[v].doc # None /\ inst[v].stamp = Stamp
                 /\ Found(h, inst[v], inst[v].doc[job[h].key], FALSE)
              \/ /\ inst[v].salt # 0 /\ job'[h].pc = "read"
                 /\ Request(h) /\ job'[h].doubt = job[h].doubt
                 /\ Holds(v, inst[v]) /\ Mutexes(v, h, inst[v].caMutex)
<1>1. /\ job[h].pc = "reload" /\ inst[job[h].v].mutex = None
      /\ job[h] \in Job /\ job[h].v \in Instances /\ inst[job[h].v] \in Instance
  BY SMTT(60), Hands DEF ReloadLocked, At, Working, MapInv
<1>2. CASE /\ inst' = [inst EXCEPT ![job[h].v].mutex = h]
           /\ job' = [job EXCEPT ![h].pc = "read"]
  <2>1. Request(h) /\ job'[h].doubt = job[h].doubt /\ job'[h].pc = "read"
    BY <1>1, <1>2 DEF MapInv, TypeInv, TypeOK, Job, Request
  <2>2. Holds(job[h].v, inst[job[h].v]) /\ Mutexes(job[h].v, h, inst[job[h].v].caMutex)
    BY <1>1, <1>2 DEF MapInv, TypeInv, TypeOK, Instance, Holds, Mutexes
  <2>3. QED
    BY <1>1, <1>2, <2>1, <2>2 DEF ReloadLocked, Found
<1>3. QED
  BY <1>1, <1>2 DEF ReloadLocked

\* What a read of the file gives.
LEMMA LoadedEffect ==
    ASSUME TypeOK, NEW v \in Instances
    PROVE  LET next == LoadedFrom(inst[v], Stamp) IN
           /\ next \in Instance /\ next.salt = inst[v].salt
           /\ next.mutex = inst[v].mutex /\ next.caMutex = inst[v].caMutex
           /\ \/ /\ file # None /\ file.salt = inst[v].salt
                 /\ next.doc = file.doc /\ next.stamp = Stamp /\ next.doc # None
              \/ next.doc = None /\ next.stamp = inst[v].stamp
<1>1. inst[v] \in Instance /\ (file # None => file.doc \in Document)
  BY DEF TypeOK, File
<1>2. QED
  BY <1>1, LoadedInstance DEF LoadedFrom, Opens, Instance

LEMMA ReadEffect ==
    ASSUME MapInv, NEW h \in Handlers, ReadContainer(h) \/ ReadFails(h)
    PROVE  /\ job[h].pc = "read" /\ job[h].v \in Instances
           /\ \E next \in Instance :
                /\ next.salt = inst[job[h].v].salt /\ next.caMutex = inst[job[h].v].caMutex
                /\ \/ /\ next.doc = None /\ next.stamp = inst[job[h].v].stamp
                      /\ Found(h, next, None, TRUE)
                   \/ /\ file # None /\ file.salt = next.salt
                      /\ next.doc = file.doc /\ next.stamp = Stamp /\ next.doc # None
                      /\ Found(h, next, next.doc[job[h].key], FALSE)
<1> DEFINE v == job[h].v
           next == LoadedFrom(inst[v], Stamp)
<1>1. job[h].pc = "read" /\ v \in Instances /\ inst[v] \in Instance
  BY Hands DEF ReadContainer, ReadFails, At, Working, MapInv
<1>2. CASE ReadContainer(h)
  <2>1. Found(h, next, IF next.doc = None THEN None ELSE next.doc[job[h].key], next.doc = None)
    BY <1>2 DEF ReadContainer
  <2>2. /\ next \in Instance /\ next.salt = inst[v].salt /\ next.caMutex = inst[v].caMutex
        /\ \/ /\ file # None /\ file.salt = inst[v].salt
              /\ next.doc = file.doc /\ next.stamp = Stamp /\ next.doc # None
           \/ next.doc = None /\ next.stamp = inst[v].stamp
    BY <1>1, LoadedEffect DEF MapInv, TypeInv
  <2> HIDE DEF next
  <2>3. CASE next.doc = None
    <3>1. Found(h, next, None, TRUE)
      BY <2>1, <2>3
    <3>2. QED
      BY <1>1, <2>2, <2>3, <3>1
  <2>4. CASE next.doc # None
    <3>1. Found(h, next, next.doc[job[h].key], FALSE)
      <4>1. (next.doc = None) = FALSE
        BY <2>4
      <4>2. QED
        BY <2>1, <2>4, <4>1
    <3>2. QED
      BY <1>1, <2>2, <2>4, <3>1
  <2>5. QED
    BY <2>3, <2>4
<1>3. CASE ReadFails(h)
  <2> DEFINE failed == [inst[v] EXCEPT !.doc = None]
  <2>1. /\ failed \in Instance /\ failed.doc = None /\ failed.stamp = inst[v].stamp
        /\ failed.salt = inst[v].salt /\ failed.caMutex = inst[v].caMutex
    BY <1>1 DEF Instance
  <2>2. Found(h, failed, None, TRUE)
    BY <1>3 DEF ReadFails
  <2> HIDE DEF failed
  <2>3. QED
    BY <1>1, <2>1, <2>2
<1>4. QED
  BY <1>2, <1>3

LEMMA SetEffect ==
    ASSUME MapInv, NEW h \in Handlers, SetAuthority(h)
    PROVE  LET v == job[h].v IN
           /\ job[h].pc = "set" /\ inst[v].mutex = None /\ Holds(v, inst[v])
           /\ Request(h) /\ job'[h].doubt = job[h].doubt
           /\ \/ job'[h].pc = "done" /\ Mutexes(v, None, None)
              \/ /\ inst[v].salt # 0 /\ job'[h].pc = "flock"
                 /\ Mutexes(v, h, inst[v].caMutex)
<1>1. /\ job[h].pc = "set" /\ inst[job[h].v].mutex = None
      /\ job[h] \in Job /\ job[h].v \in Instances /\ inst[job[h].v] \in Instance
  BY Hands DEF SetAuthority, At, Working, MapInv
<1>2. CASE /\ job' = [job EXCEPT ![h].pc = "done"]
           /\ inst' = [inst EXCEPT ![job[h].v].caMutex = None]
  <2>1. Request(h) /\ job'[h].doubt = job[h].doubt /\ job'[h].pc = "done"
    BY <1>1, <1>2 DEF MapInv, TypeInv, TypeOK, Job, Request
  <2>2. Holds(job[h].v, inst[job[h].v]) /\ Mutexes(job[h].v, None, None)
    BY <1>1, <1>2 DEF MapInv, TypeInv, TypeOK, Instance, Holds, Mutexes
  <2>3. QED
    BY <1>1, <2>1, <2>2
<1>3. CASE /\ inst[job[h].v].salt # 0
           /\ job' = [job EXCEPT ![h].pc = "flock"]
           /\ inst' = [inst EXCEPT ![job[h].v].mutex = h]
  <2>1. Request(h) /\ job'[h].doubt = job[h].doubt /\ job'[h].pc = "flock"
    BY <1>1, <1>3 DEF MapInv, TypeInv, TypeOK, Job, Request
  <2>2. Holds(job[h].v, inst[job[h].v]) /\ Mutexes(job[h].v, h, inst[job[h].v].caMutex)
    BY <1>1, <1>3 DEF MapInv, TypeInv, TypeOK, Instance, Holds, Mutexes
  <2>3. QED
    BY <1>1, <1>3, <2>1, <2>2
<1>4. QED
  BY <1>1, <1>2, <1>3 DEF SetAuthority

LEMMA LockAuthorityEffect ==
    ASSUME MapInv, NEW h \in Handlers, LockAuthority(h)
    PROVE  LET v == job[h].v IN
           /\ job[h].pc = "flock" /\ flock = None /\ inst'[v].salt = inst[v].salt
           /\ Request(h) /\ job'[h].doubt = job[h].doubt
           /\ \/ /\ job'[h].pc = "done" /\ Mutexes(v, None, None) /\ flock' = None
                 /\ inst'[v].doc = None /\ inst'[v].stamp = inst[v].stamp
              \/ /\ job'[h].pc = "write" /\ flock' = h
                 /\ Mutexes(v, inst[v].mutex, inst[v].caMutex)
                 /\ file # None /\ file.salt = inst[v].salt
                 /\ inst'[v].doc = file.doc /\ inst'[v].stamp = Stamp
<1> DEFINE v == job[h].v
           next == LoadedFrom(inst[v], Stamp)
<1>1. /\ job[h].pc = "flock" /\ flock = None
      /\ job[h] \in Job /\ v \in Instances /\ inst[v] \in Instance
  BY Hands DEF LockAuthority, At, Working, MapInv
<1>2. /\ next \in Instance /\ next.salt = inst[v].salt
      /\ next.mutex = inst[v].mutex /\ next.caMutex = inst[v].caMutex
      /\ \/ /\ file # None /\ file.salt = inst[v].salt
            /\ next.doc = file.doc /\ next.stamp = Stamp /\ next.doc # None
         \/ next.doc = None /\ next.stamp = inst[v].stamp
  BY <1>1, LoadedEffect DEF MapInv, TypeInv
<1>3. \/ /\ next.doc = None /\ job' = [job EXCEPT ![h].pc = "done"]
         /\ inst' = [inst EXCEPT ![v] = [next EXCEPT !.mutex = None, !.caMutex = None]]
         /\ UNCHANGED flock
      \/ /\ next.doc # None /\ job' = [job EXCEPT ![h].pc = "write"]
         /\ inst' = [inst EXCEPT ![v] = next] /\ flock' = h
  BY DEF LockAuthority
<1> HIDE DEF next
<1>4. CASE /\ next.doc = None /\ job' = [job EXCEPT ![h].pc = "done"]
           /\ inst' = [inst EXCEPT ![v] = [next EXCEPT !.mutex = None, !.caMutex = None]]
           /\ UNCHANGED flock
  <2>1. Request(h) /\ job'[h].doubt = job[h].doubt /\ job'[h].pc = "done"
    BY <1>1, <1>4 DEF MapInv, TypeInv, TypeOK, Job, Request
  <2>2. inst'[v].salt = next.salt /\ inst'[v].doc = next.doc /\ inst'[v].stamp = next.stamp
        /\ Mutexes(v, None, None)
    BY <1>1, <1>2, <1>4 DEF MapInv, TypeInv, TypeOK, Instance, Mutexes
  <2>3. QED
    BY <1>1, <1>2, <1>4, <2>1, <2>2
<1>5. CASE /\ next.doc # None /\ job' = [job EXCEPT ![h].pc = "write"]
           /\ inst' = [inst EXCEPT ![v] = next] /\ flock' = h
  <2>1. Request(h) /\ job'[h].doubt = job[h].doubt /\ job'[h].pc = "write"
    BY <1>1, <1>5 DEF MapInv, TypeInv, TypeOK, Job, Request
  <2>2. inst'[v] = next
    BY <1>1, <1>5 DEF MapInv, TypeInv, TypeOK
  <2>3. QED
    BY <1>1, <1>2, <1>5, <2>1, <2>2 DEF Mutexes
<1>6. QED
  BY <1>3, <1>4, <1>5

LEMMA WriteEffect ==
    ASSUME MapInv, NEW h \in Handlers, WriteAuthority(h)
    PROVE  LET v == job[h].v
               doc == [inst[v].doc EXCEPT ![job[h].key] = job[h].new]
           IN
           /\ job[h].pc = "write" /\ flock' = None /\ inst'[v].salt = inst[v].salt
           /\ Request(h) /\ job'[h].pc = "done" /\ Mutexes(v, None, None)
           /\ \/ /\ CanWrite /\ file' = Written(inst[v].salt, doc)
                 /\ inst'[v].doc = doc /\ inst'[v].stamp = Stamp + 1
              \/ file' = file /\ Holds(v, inst[v])
<1> DEFINE v == job[h].v
           doc == [inst[v].doc EXCEPT ![job[h].key] = job[h].new]
<1>1. /\ job[h].pc = "write" /\ flock' = None
      /\ job[h] \in Job /\ v \in Instances /\ inst[v] \in Instance
  BY Hands DEF WriteAuthority, At, Working, MapInv
<1>2. Request(h) /\ job'[h].pc = "done"
  BY <1>1 DEF WriteAuthority, MapInv, TypeInv, TypeOK, Job, Request
<1>3. CASE /\ CanWrite /\ file' = Written(inst[v].salt, doc)
           /\ inst' = [inst EXCEPT ![v] = [@ EXCEPT !.doc = doc, !.stamp = Stamp + 1,
                                                    !.mutex = None, !.caMutex = None,
                                                    !.loaded[job[h].key] = job[h].new]]
  <2>1. /\ inst'[v].salt = inst[v].salt /\ inst'[v].doc = doc /\ inst'[v].stamp = Stamp + 1
        /\ Mutexes(v, None, None)
    BY <1>1, <1>3 DEF MapInv, TypeInv, TypeOK, Instance, Mutexes
  <2>2. QED
    BY <1>1, <1>2, <1>3, <2>1
<1>4. CASE /\ inst' = [inst EXCEPT ![v].mutex = None, ![v].caMutex = None]
           /\ UNCHANGED file
  <2>1. Holds(v, inst[v]) /\ Mutexes(v, None, None)
    BY <1>1, <1>4 DEF MapInv, TypeInv, TypeOK, Instance, Holds, Mutexes
  <2>2. QED
    BY <1>1, <1>2, <1>4, <2>1 DEF Holds
<1>5. QED
  BY <1>3, <1>4 DEF WriteAuthority

LEMMA ReturnEffect ==
    ASSUME TypeInv, NEW h \in Handlers, Return(h)
    PROVE  /\ job[h].pc = "done" /\ job'[h].pc = "idle" /\ job'[h].v = None
           /\ job'[h].op = "secret"
BY DEF Return, At, TypeInv, TypeOK, NoJob

LEMMA UnlockEffect ==
    ASSUME TypeInv, NEW h \in Handlers, Unlock(h)
    PROVE  LET v == job'[h].v IN
           /\ job[h].pc = "idle" /\ file # None /\ v \in Instances /\ Unused(v)
           /\ job'[h].pc = "swap" /\ job'[h].op = "unlock"
           /\ inst'[v].salt = file.salt /\ inst'[v].doc = file.doc /\ inst'[v].stamp = Stamp
           /\ Mutexes(v, None, None)
<1>1. PICK v \in Instances :
        /\ Unused(v)
        /\ inst' = [inst EXCEPT ![v] = [NoInstance EXCEPT !.salt = file.salt, !.doc = file.doc,
                                                          !.stamp = Stamp]]
        /\ job' = [job EXCEPT ![h] = [NoJob EXCEPT !.pc = "swap", !.op = "unlock", !.v = v]]
  BY DEF Unlock
<1>2. job'[h].v = v /\ job'[h].pc = "swap" /\ job'[h].op = "unlock"
  BY <1>1 DEF TypeInv, TypeOK, NoJob
<1>3. inst'[v].salt = file.salt /\ inst'[v].doc = file.doc /\ inst'[v].stamp = Stamp
      /\ Mutexes(v, None, None)
  BY <1>1 DEF TypeInv, TypeOK, NoInstance, Mutexes
<1>4. QED
  BY <1>1, <1>2, <1>3 DEF Unlock, At

LEMMA ReplaceEffect ==
    ASSUME TypeInv, NEW h \in Handlers, NEW v, Replace(h, v)
    PROVE  /\ vault' = v /\ job'[h].v = vault /\ job'[h].op = "unlock"
           /\ job'[h].pc = (IF vault = None THEN "idle" ELSE "lock")
           /\ \A other \in Handlers \ {h} : Busy(other) => job'[other].doubt
BY ZenonT(60) DEF Replace, TypeInv, TypeOK, NoJob, Job, Busy

LEMMA LockEffect ==
    ASSUME TypeInv, NEW h \in Handlers, Lock(h)
    PROVE  LET v == job[h].v IN
           /\ job[h].pc = "lock" /\ v \in Instances /\ inst[v].mutex = None
           /\ job'[h].pc = "idle" /\ job'[h].op = "secret" /\ job'[h].v = None
           /\ inst'[v].salt = 0 /\ inst'[v].doc = None /\ inst'[v].stamp = 0
           /\ Mutexes(v, None, inst[v].caMutex)
<1>1. job[h].pc = "lock" /\ job[h].v \in Instances /\ inst[job[h].v].mutex = None
  BY DEF Lock, At, TypeInv, WellFormed
<1>2. job'[h].pc = "idle" /\ job'[h].op = "secret" /\ job'[h].v = None
  BY DEF Lock, TypeInv, TypeOK, NoJob
<1>3. /\ inst'[job[h].v].salt = 0 /\ inst'[job[h].v].doc = None /\ inst'[job[h].v].stamp = 0
      /\ Mutexes(job[h].v, None, inst[job[h].v].caMutex)
  BY SMTT(60), <1>1 DEF Lock, TypeInv, TypeOK, Instance, Mutexes
<1>4. QED
  BY <1>1, <1>2, <1>3

LEMMA HandlerFrame ==
    ASSUME NEW h \in Handlers, HandlerStep(h)
    PROVE  /\ cmd' = cmd
           /\ file' = file \/ WriteAuthority(h)
           /\ flock' = flock \/ WriteAuthority(h) \/ LockAuthority(h)
           /\ \/ vault' = vault
              \/ Swap(h) /\ Replace(h, job[h].v)
              \/ LockVault(h) /\ Replace(h, None)
           /\ Begin(h) \/ Return(h) \/ Swap(h) \/ LockVault(h) => inst' = inst
BY DEF HandlerStep, Begin, AuthorityLocked, ReloadLocked, ReadContainer, ReadFails,
       SetAuthority, LockAuthority, WriteAuthority, Return, Unlock, Swap, LockVault, Lock

LEMMA CommandEffect ==
    ASSUME TypeInv, NEW c \in Commands, CommandStep(c)
    PROVE  /\ UNCHANGED <<inst, vault, job, minted>>
           /\ \A other \in Commands \ {c} : cmd'[other] = cmd[other]
           /\ \/ /\ file' = file /\ flock' = flock /\ cmd'[c].pc # "write"
                 /\ cmd[c].pc # "write"
              \/ /\ Create(c) /\ CanWrite /\ file' = Written(Stamp + 1, emptyDocument)
                 /\ flock' = flock /\ cmd'[c].pc = "idle"
              \/ /\ file' = file /\ file # None /\ flock = None /\ flock' = c
                 /\ cmd'[c].pc = "write" /\ cmd'[c].salt = file.salt /\ cmd'[c].doc = file.doc
              \/ /\ cmd[c].pc = "write" /\ flock' = None /\ cmd'[c].pc = "idle"
                 /\ \/ file' = file
                    \/ /\ CanWrite
                       /\ cmd[c].value # None \/ cmd[c].doc[cmd[c].key] # None
                       /\ file' = Written(cmd[c].salt,
                                          [cmd[c].doc EXCEPT ![cmd[c].key] = cmd[c].value])
              \/ /\ file' = file /\ cmd'[c].pc = "idle" /\ Die(c)
                 /\ flock' = IF flock = c THEN None ELSE flock
<1> USE DEF TypeInv, TypeOK
<1>1. CASE InitVault(c)
  BY <1>1 DEF InitVault, NoCmd
<1>2. CASE Create(c)
  BY <1>2 DEF Create, NoCmd
<1>3. CASE OpenVault(c)
  BY <1>3 DEF OpenVault, NoCmd
<1>4. CASE LockAndReload(c)
  BY <1>4 DEF LockAndReload, Opens, NoCmd, Cmd
<1>5. CASE WriteSecret(c)
  BY <1>5 DEF WriteSecret, NoCmd
<1>6. CASE Die(c)
  BY <1>6 DEF Die, NoCmd
<1>7. QED
  BY <1>1, <1>2, <1>3, <1>4, <1>5, <1>6 DEF CommandStep

----------------------------------------------------------------------------
\* The steps that lead to each phase, and what stays of the request.
LEMMA Arrives ==
    ASSUME MapInv, NEW h \in Handlers, HandlerStep(h)
    PROVE  /\ job'[h].pc = "authority" => Begin(h)
           /\ job'[h].pc = "reload" => Begin(h) \/ AuthorityLocked(h)
           /\ job'[h].pc = "read" => ReloadLocked(h)
           /\ job'[h].pc = "set" => ReloadLocked(h) \/ ReadContainer(h) \/ ReadFails(h)
           /\ job'[h].pc = "flock" => SetAuthority(h)
           /\ job'[h].pc = "write" => LockAuthority(h)
           /\ job'[h].pc = "done" => job[h].pc \in Working
           /\ job'[h].pc = "swap" => Unlock(h)
           /\ job'[h].pc = "lock" => Swap(h) \/ LockVault(h)
           /\ job'[h].pc \in Working => job[h].pc \in Working \/ Begin(h)
           /\ job'[h].pc \in Working \cup {"done"} => Request(h) \/ Begin(h)
<1>1. CASE Begin(h)
  BY <1>1, BeginEffect DEF MapInv
<1>2. CASE AuthorityLocked(h)
  BY <1>2, AuthorityEffect DEF MapInv, Working
<1>3. CASE ReloadLocked(h)
  BY <1>3, ReloadEffect, FoundEffect, Hands DEF MapInv, Working
<1>4. CASE ReadContainer(h) \/ ReadFails(h)
  BY ZenonT(60), <1>4, ReadEffect, FoundEffect DEF Working
<1>5. CASE SetAuthority(h)
  BY <1>5, SetEffect DEF Working
<1>6. CASE LockAuthority(h)
  BY <1>6, LockAuthorityEffect DEF Working
<1>7. CASE WriteAuthority(h)
  BY <1>7, WriteEffect DEF Working
<1>8. CASE Return(h)
  BY <1>8, ReturnEffect DEF MapInv, Working
<1>9. CASE Unlock(h)
  BY <1>9, UnlockEffect DEF MapInv, Working
<1>10. CASE Swap(h) \/ LockVault(h)
  BY <1>10, ReplaceEffect DEF Swap, LockVault, MapInv, Working
<1>11. CASE Lock(h)
  BY <1>11, LockEffect DEF MapInv, Working
<1>12. QED
  BY <1>1, <1>2, <1>3, <1>4, <1>5, <1>6, <1>7, <1>8, <1>9, <1>10, <1>11 DEF HandlerStep

\* A mutex that is held is given back by its holder and taken by nobody else.
LEMMA MutexEffect ==
    ASSUME MapInv, NEW h \in Handlers, HandlerStep(h), NEW w \in Instances
    PROVE  /\ \/ inst'[w].mutex = inst[w].mutex
              \/ inst[w].mutex \in {None, h} \/ Unused(w)
           /\ \/ inst'[w].caMutex = inst[w].caMutex
              \/ inst[w].caMutex \in {None, h} \/ Unused(w)
<1>1. CASE w # job[h].v /\ w # job'[h].v
  BY <1>1, OthersInstance DEF MapInv
<1>2. ASSUME job[h].pc \in Creating
      PROVE  inst[job[h].v].caMutex = h
  BY <1>2 DEF MapInv, TypeInv, WellFormed, LocksHeld, Creating, Working
<1>3. CASE Begin(h) \/ Return(h) \/ Swap(h) \/ LockVault(h)
  BY <1>3, HandlerFrame
<1>4. CASE AuthorityLocked(h)
  BY <1>1, <1>4, AuthorityEffect DEF MapInv, Request, Mutexes
<1>5. ASSUME job[h].pc \in {"reload", "read"}, w = job[h].v,
             inst[w].mutex \in {None, h},
             NEW next \in Instance, next.caMutex = inst[w].caMutex,
             NEW r, NEW doubt \in BOOLEAN, Found(h, next, r, doubt)
      PROVE  /\ inst[w].mutex \in {None, h}
             /\ inst'[w].caMutex = inst[w].caMutex \/ inst[w].caMutex = h
  <2>1. job[h].op = "authority" => inst[w].caMutex = h
    BY <1>5 DEF MapInv, LocksHeld, Working
  <2>2. job[h].op \in {"secret", "authority"}
    BY <1>5 DEF MapInv, TypeInv, WellFormed, Working
  <2>3. QED
    BY <1>5, <2>1, <2>2, FoundEffect
<1>6. CASE ReloadLocked(h)
  <2>1. job[h].pc = "reload" /\ inst[job[h].v].mutex = None /\ job'[h].v = job[h].v
        /\ job[h].v \in Instances /\ inst[job[h].v] \in Instance
    <3>1. job[h].pc = "reload" /\ inst[job[h].v].mutex = None
          /\ job[h].v \in Instances /\ inst[job[h].v] \in Instance
      BY <1>6, ReloadEffect, Hands DEF MapInv, Working
    <3>2. job'[h].v = job[h].v
      BY <1>6, <3>1, ReloadEffect, FoundEffect DEF Request
    <3>3. QED
      BY <3>1, <3>2
  <2>2. CASE w = job[h].v
    BY <1>5, <1>6, <2>1, <2>2, ReloadEffect DEF Mutexes
  <2>3. QED
    BY <1>1, <2>1, <2>2
<1>7. CASE ReadContainer(h) \/ ReadFails(h)
  <2>1. job[h].pc = "read" /\ job[h].v \in Instances
    BY <1>7, ReadEffect
  <2>2. PICK next \in Instance :
          /\ next.caMutex = inst[job[h].v].caMutex
          /\ Found(h, next, None, TRUE) \/ Found(h, next, next.doc[job[h].key], FALSE)
    BY <1>7, ReadEffect
  <2>3. inst[job[h].v].mutex = h /\ job'[h].v = job[h].v
    BY <2>1, <2>2, FoundEffect DEF MapInv, LocksHeld, Request
  <2>4. CASE w = job[h].v
    BY <1>5, <2>1, <2>2, <2>3, <2>4
  <2>5. QED
    BY <1>1, <2>3, <2>4
<1>8. CASE SetAuthority(h)
  BY <1>1, <1>2, <1>8, SetEffect DEF MapInv, Request, Creating
<1>9. CASE LockAuthority(h)
  BY <1>1, <1>2, <1>9, LockAuthorityEffect DEF MapInv, Request, Creating, LocksHeld
<1>10. CASE WriteAuthority(h)
  BY <1>1, <1>2, <1>10, WriteEffect DEF MapInv, Request, Creating, LocksHeld
<1>11. CASE Unlock(h)
  <2>1. w # job'[h].v => inst'[w] = inst[w]
    BY <1>11 DEF Unlock, NoJob, MapInv, TypeInv, TypeOK
  <2>2. QED
    BY <1>11, <2>1, UnlockEffect DEF MapInv
<1>12. CASE Lock(h)
  BY <1>1, <1>12, LockEffect DEF MapInv, Mutexes
<1>13. QED
  BY <1>3, <1>4, <1>6, <1>7, <1>8, <1>9, <1>10, <1>11, <1>12 DEF HandlerStep

HasLocks(h) ==
    /\ job[h].pc \in {"read", "flock", "write"} => inst[job[h].v].mutex = h
    /\ job[h].op = "authority" /\ job[h].pc \in Working \ {"authority"}
         => inst[job[h].v].caMutex = h
    /\ job[h].pc = "write" => flock = h

LEMMA LocksStep ==
    ASSUME MapInv, Next
    PROVE  LocksHeld'
<1>1. ASSUME NEW c \in Commands, CommandStep(c) PROVE LocksHeld'
  <2>1. inst' = inst /\ job' = job
    BY <1>1, CommandEffect DEF MapInv
  <2>2. ASSUME NEW h \in Handlers, job[h].pc = "write" PROVE flock' = flock
    <3>1. flock = h /\ flock # c /\ flock # None
      BY <2>2 DEF MapInv, LocksHeld
    <3>2. cmd[c].pc # "write"
      BY <3>1 DEF MapInv, LocksHeld
    <3>3. QED
      BY <1>1, <3>1, <3>2, CommandEffect DEF MapInv
  <2>3. ASSUME NEW other \in Commands, cmd'[other].pc = "write" PROVE flock' = other
    <3>1. CASE other = c
      BY <1>1, <2>3, <3>1, CommandEffect DEF MapInv
    <3>2. CASE other # c
      <4>1. cmd[other].pc = "write"
        BY <1>1, <2>3, <3>2, CommandEffect DEF MapInv
      <4>2. flock = other /\ flock # None /\ flock # c
        BY <3>2, <4>1, VaultNone DEF MapInv, LocksHeld
      <4>3. cmd[c].pc # "write"
        BY <4>2 DEF MapInv, LocksHeld
      <4>4. QED
        BY <1>1, <4>2, <4>3, CommandEffect DEF MapInv
    <3>3. QED
      BY <3>1, <3>2
  <2>4. QED
    BY <2>1, <2>2, <2>3 DEF LocksHeld, MapInv
<1>2. ASSUME NEW h \in Handlers, HandlerStep(h) PROVE LocksHeld'
  <2>1. ASSUME flock # None, flock # h PROVE flock' = flock
    <3>1. ~LockAuthority(h)
      BY <2>1 DEF LockAuthority
    <3>2. ~WriteAuthority(h)
      BY <2>1 DEF WriteAuthority, At, MapInv, LocksHeld
    <3>3. QED
      BY <1>2, <3>1, <3>2, HandlerFrame
  <2>2. ASSUME NEW c \in Commands, cmd'[c].pc = "write" PROVE flock' = c
    BY <1>2, <2>1, <2>2, HandlerFrame DEF MapInv, LocksHeld
  <2>3. ASSUME NEW o \in Handlers, o # h PROVE HasLocks(o)'
    <3>1. /\ job'[o].pc = job[o].pc /\ job'[o].op = job[o].op /\ job'[o].v = job[o].v
      BY <1>2, <2>3, OthersJob DEF MapInv
    <3>2. job[o].pc = "write" => flock' = o
      BY <2>1, <2>3 DEF MapInv, LocksHeld
    <3>3. CASE job[o].pc \in Working
      <4>1. job[o].v \in Instances /\ ~Unused(job[o].v)
        BY <3>3, Hands DEF MapInv, Unused
      <4>2. job[o].pc \in {"read", "flock", "write"} => inst'[job[o].v].mutex = o
        BY <1>2, <2>3, <4>1, MutexEffect DEF MapInv, LocksHeld
      <4>3. job[o].op = "authority" /\ job[o].pc \in Working \ {"authority"}
              => inst'[job[o].v].caMutex = o
        BY <1>2, <2>3, <4>1, MutexEffect DEF MapInv, LocksHeld
      <4>4. QED
        BY <3>1, <3>2, <4>2, <4>3 DEF HasLocks
    <3>4. CASE job[o].pc \notin Working
      BY <3>1, <3>4 DEF HasLocks, Working
    <3>5. QED
      BY <3>3, <3>4
  <2>4. HasLocks(h)'
    <3>1. CASE job'[h].pc = "authority" \/ job'[h].pc \notin Working
      BY <3>1 DEF HasLocks, Working
    <3>2. CASE job'[h].pc = "reload"
      <4>1. CASE Begin(h)
        BY <3>2, <4>1, BeginEffect DEF HasLocks, MapInv
      <4>2. CASE AuthorityLocked(h)
        BY <3>2, <4>2, AuthorityEffect DEF HasLocks, Mutexes, Request, MapInv
      <4>3. QED
        BY <1>2, <3>2, <4>1, <4>2, Arrives
    <3>3. CASE job'[h].pc = "read"
      <4>1. ReloadLocked(h)
        BY <1>2, <3>3, Arrives
      <4>2. /\ job[h].pc = "reload" /\ Request(h) /\ Mutexes(job[h].v, h, inst[job[h].v].caMutex)
        <5>1. job[h].pc = "reload" /\ job[h].v \in Instances /\ inst[job[h].v] \in Instance
          BY <4>1, ReloadEffect, Hands DEF MapInv, Working
        <5>2. QED
          BY <3>3, <4>1, <5>1, ReloadEffect, FoundEffect
      <4>3. QED
        BY <3>3, <4>2 DEF HasLocks, Mutexes, Request, MapInv, LocksHeld, Working
    <3>4. CASE job'[h].pc = "set"
      <4>1. job[h].pc \in {"reload", "read"} /\ job[h].v \in Instances /\ Request(h)
            /\ inst'[job[h].v].caMutex = inst[job[h].v].caMutex
        <5>1. CASE ReloadLocked(h)
          <6>1. job[h].pc = "reload" /\ job[h].v \in Instances /\ inst[job[h].v] \in Instance
            BY <5>1, ReloadEffect, Hands DEF MapInv, Working
          <6>2. QED
            BY <3>4, <5>1, <6>1, ReloadEffect, FoundEffect
        <5>2. CASE ReadContainer(h) \/ ReadFails(h)
          BY ZenonT(60), <3>4, <5>2, ReadEffect, FoundEffect
        <5>3. QED
          BY <1>2, <3>4, <5>1, <5>2, Arrives
      <4>2. QED
        BY <3>4, <4>1 DEF HasLocks, Request, MapInv, LocksHeld, Working
    <3>5. CASE job'[h].pc = "flock"
      <4>1. SetAuthority(h)
        BY <1>2, <3>5, Arrives
      <4>2. QED
        BY <3>5, <4>1, SetEffect DEF HasLocks, Mutexes, Request, MapInv, LocksHeld, Working
    <3>6. CASE job'[h].pc = "write"
      <4>1. LockAuthority(h)
        BY <1>2, <3>6, Arrives
      <4>2. QED
        BY <3>6, <4>1, LockAuthorityEffect DEF HasLocks, Mutexes, Request, MapInv, LocksHeld, Working
    <3>7. QED
      BY <3>1, <3>2, <3>3, <3>4, <3>5, <3>6 DEF Working
  <2>5. QED
    BY <2>2, <2>3, <2>4 DEF LocksHeld, HasLocks
<1>3. QED
  BY <1>1, <1>2 DEF Next, CommandStep, HandlerStep

----------------------------------------------------------------------------
\* What a step does to an open vault. Only the holder of its mutex changes
\* what is cached in it, but for an unlock, which takes a vault nobody has.
LEMMA InstanceEffect ==
    ASSUME MapInv, NEW h \in Handlers, HandlerStep(h), NEW w \in Instances
    PROVE  /\ \/ Holds(w, inst[w])
              \/ inst'[w].salt = inst[w].salt /\ inst'[w].doc = None
                 /\ inst'[w].stamp = inst[w].stamp
              \/ /\ file' = file /\ file # None
                 /\ inst'[w].salt = file.salt /\ inst'[w].doc = file.doc
                 /\ inst'[w].stamp = Stamp
                 /\ inst[w].salt = file.salt \/ (Unlock(h) /\ Unused(w))
              \/ /\ WriteAuthority(h) /\ w = job[h].v /\ inst'[w].salt = inst[w].salt
                 /\ file' = Written(inst[w].salt, inst'[w].doc) /\ CanWrite
                 /\ inst'[w].doc = [inst[w].doc EXCEPT ![job[h].key] = job[h].new]
                 /\ inst'[w].stamp = Stamp + 1
              \/ /\ Lock(h) /\ w = job[h].v /\ inst'[w].doc = None
                 /\ inst'[w].salt = 0 /\ inst'[w].stamp = 0
           /\ \A other \in Handlers \ {h} :
                job[other].pc \in {"read", "flock", "write"} /\ job[other].v = w
                  => Holds(w, inst[w])
<1>1. CASE w # job[h].v /\ w # job'[h].v
  BY <1>1, OthersInstance DEF MapInv, Holds
<1>2. ASSUME NEW other \in Handlers \ {h}, job[other].pc \in {"read", "flock", "write"},
             job[other].v = w
      PROVE  inst[w].mutex = other /\ other # None
  BY <1>2 DEF MapInv, LocksHeld
<1>3. CASE Begin(h) \/ Return(h) \/ Swap(h) \/ LockVault(h)
  BY <1>3, HandlerFrame DEF Holds
<1>4. CASE AuthorityLocked(h)
  BY <1>1, <1>4, AuthorityEffect DEF MapInv, Request
<1>5. CASE ReloadLocked(h)
  <2>1. job[h].v \in Instances /\ inst[job[h].v] \in Instance /\ job[h].pc = "reload"
    BY <1>5, ReloadEffect, Hands DEF MapInv, Working
  <2>2. Holds(job[h].v, inst[job[h].v]) /\ job'[h].v = job[h].v
    BY <1>5, <2>1, ReloadEffect, FoundEffect DEF Request
  <2>3. QED
    BY <1>1, <2>2
<1>6. CASE ReadContainer(h) \/ ReadFails(h)
  <2>1. file' = file /\ job[h].pc = "read" /\ inst[job[h].v].mutex = h
    BY <1>6, ReadEffect DEF ReadContainer, ReadFails, MapInv, LocksHeld
  <2>2. PICK next \in Instance :
          /\ next.salt = inst[job[h].v].salt
          /\ \/ /\ next.doc = None /\ next.stamp = inst[job[h].v].stamp
                /\ Found(h, next, None, TRUE)
             \/ /\ file # None /\ file.salt = next.salt
                /\ next.doc = file.doc /\ next.stamp = Stamp
                /\ Found(h, next, next.doc[job[h].key], FALSE)
    BY <1>6, ReadEffect
  <2>3. Holds(job[h].v, next) /\ job'[h].v = job[h].v
    BY <2>1, <2>2, FoundEffect DEF Request
  <2>4. CASE w # job[h].v
    BY <1>1, <2>3, <2>4
  <2>5. CASE w = job[h].v
    <3>1. \A other \in Handlers \ {h} :
            job[other].pc \in {"read", "flock", "write"} => job[other].v # w
      BY <1>2, <2>1, <2>5
    <3>2. inst'[w].salt = next.salt /\ inst'[w].doc = next.doc /\ inst'[w].stamp = next.stamp
      BY <2>3, <2>5 DEF Holds
    <3>3. CASE next.doc = None /\ next.stamp = inst[job[h].v].stamp
      BY <2>2, <2>5, <3>1, <3>2, <3>3
    <3>4. CASE file # None /\ file.salt = next.salt /\ next.doc = file.doc /\ next.stamp = Stamp
      BY <2>1, <2>2, <2>5, <3>1, <3>2, <3>4
    <3>5. QED
      BY <2>2, <3>3, <3>4
  <2>6. QED
    BY <2>4, <2>5
<1>7. CASE SetAuthority(h)
  BY SMTT(60), <1>1, <1>7, SetEffect DEF MapInv, Request
<1>8. CASE LockAuthority(h)
  <2>1. inst[job[h].v].mutex = h /\ file' = file /\ job'[h].v = job[h].v
    BY <1>8, LockAuthorityEffect DEF LockAuthority, MapInv, LocksHeld, Request
  <2>2. QED
    BY SMTT(60), <1>1, <1>2, <1>8, <2>1, LockAuthorityEffect
<1>9. CASE WriteAuthority(h)
  <2>1. inst[job[h].v].mutex = h /\ job'[h].v = job[h].v
    BY <1>9, WriteEffect DEF MapInv, LocksHeld, Request
  <2>2. QED
    BY <1>1, <1>2, <1>9, <2>1, WriteEffect
<1>10. CASE Unlock(h)
  <2>1. job[h].pc = "idle" /\ file' = file
    BY <1>10 DEF Unlock, At
  <2>2. CASE w = job'[h].v
    BY <1>10, <2>1, <2>2, UnlockEffect DEF Unused, MapInv
  <2>3. CASE w # job'[h].v
    <3>1. inst'[w] = inst[w]
      BY <1>10, <2>3 DEF Unlock, NoJob, MapInv, TypeInv, TypeOK
    <3>2. QED
      BY <3>1 DEF Holds
  <2>4. QED
    BY <2>2, <2>3
<1>11. CASE Lock(h)
  <2>1. inst[job[h].v].mutex = None /\ job'[h].v = None /\ job[h].v \in Instances
    BY <1>11, LockEffect DEF MapInv
  <2>2. QED
    BY <1>1, <1>2, <1>11, <2>1, LockEffect DEF MapInv
<1>12. QED
  BY <1>3, <1>4, <1>5, <1>6, <1>7, <1>8, <1>9, <1>10, <1>11 DEF HandlerStep

\* What a step does to the file: nothing, or a new vault, or the change of one
\* record in what was written last with that key.
Changes(k, r, s) ==
    /\ kept[s] # None /\ s <= Stamp /\ flock' = None
    /\ r # None \/ kept[s][k] # None
    /\ file' = Written(s, [kept[s] EXCEPT ![k] = r])
    /\ kept' = [kept EXCEPT ![s] = [kept[s] EXCEPT ![k] = r]]
    /\ k \in Hosts => \E h \in Handlers : /\ WriteAuthority(h) /\ job[h].key = k
                                         /\ inst[job[h].v].salt = s
Creates(c) ==
    /\ Create(c) /\ kept[Stamp + 1] = None
    /\ file' = Written(Stamp + 1, emptyDocument)
    /\ kept' = [kept EXCEPT ![Stamp + 1] = emptyDocument]

LEMMA FileEffect ==
    ASSUME MapInv, Next
    PROVE  \/ file' = file /\ kept' = kept
           \/ /\ CanWrite
              /\ \/ \E c \in Commands : Creates(c)
                 \/ \E k \in Keys, s \in Salts : \E r \in Record(k) \cup {None} : Changes(k, r, s)
<1>1. Watch
  BY TypeStep
<1>2. ASSUME NEW s \in Salts, NEW d \in Document, CanWrite, file' = Written(s, d)
      PROVE  kept' = [kept EXCEPT ![s] = d]
  BY <1>1, <1>2, WrittenFile DEF Watch, MapInv, TypeInv
<1>3. ASSUME NEW k \in Keys, NEW s \in Salts, NEW r \in Record(k) \cup {None},
             NEW d \in Document, d = kept[s], CanWrite, flock' = None,
             r # None \/ d[k] # None,
             file' = Written(s, [d EXCEPT ![k] = r]),
             k \in Hosts => \E h \in Handlers : /\ WriteAuthority(h) /\ job[h].key = k
                                               /\ inst[job[h].v].salt = s
      PROVE  Changes(k, r, s)
  <2>1. [d EXCEPT ![k] = r] \in Document
    BY DocumentRecord
  <2>2. kept[s] # None /\ s <= Stamp
    BY <1>3 DEF MapInv, FileIsKept
  <2>3. QED
    BY <1>2, <1>3, <2>1, <2>2 DEF Changes
<1>4. ASSUME NEW c \in Commands, CommandStep(c), file' # file
      PROVE  /\ CanWrite
             /\ \/ Creates(c)
                \/ \E k \in Keys, s \in Salts : \E r \in Record(k) \cup {None} : Changes(k, r, s)
  <2>1. CASE Create(c) /\ CanWrite /\ file' = Written(Stamp + 1, emptyDocument)
    <3>1. Stamp + 1 \in Salts /\ Stamp \in Nat
      BY <2>1, StampType DEF CanWrite, Salts, MapInv, TypeInv
    <3>2. kept[Stamp + 1] = None
      BY <3>1 DEF MapInv, FileIsKept, Salts
    <3>3. QED
      BY <1>2, <2>1, <3>1, <3>2, EmptyRecords DEF Creates
  <2>2. CASE /\ cmd[c].pc = "write" /\ CanWrite /\ flock' = None
             /\ cmd[c].value # None \/ cmd[c].doc[cmd[c].key] # None
             /\ file' = Written(cmd[c].salt, [cmd[c].doc EXCEPT ![cmd[c].key] = cmd[c].value])
    <3>1. /\ cmd[c].salt \in Salts /\ cmd[c].key \in Names /\ cmd[c].key \in Keys
          /\ cmd[c].key \notin Hosts
          /\ cmd[c].value \in Record(cmd[c].key) \cup {None}
      BY <2>2 DEF MapInv, TypeInv, TypeOK, WellFormed, Keys, Record, Cmd
    <3>2. cmd[c].doc \in Document /\ cmd[c].doc = kept[cmd[c].salt]
      BY <2>2 DEF MapInv, WritersCurrent
    <3>3. Changes(cmd[c].key, cmd[c].value, cmd[c].salt)
      BY <1>3, <2>2, <3>1, <3>2
    <3>4. QED
      BY <2>2, <3>1, <3>3
  <2>3. QED
    BY <1>4, <2>1, <2>2, CommandEffect DEF MapInv
<1>5. ASSUME NEW h \in Handlers, HandlerStep(h), file' # file
      PROVE  /\ CanWrite
             /\ \E k \in Keys, s \in Salts : \E r \in Record(k) \cup {None} : Changes(k, r, s)
  <2> DEFINE v == job[h].v
  <2>1. WriteAuthority(h)
    BY <1>5, HandlerFrame
  <2>2. /\ job[h].pc = "write" /\ CanWrite /\ flock' = None
        /\ file' = Written(inst[v].salt, [inst[v].doc EXCEPT ![job[h].key] = job[h].new])
    BY <1>5, <2>1, WriteEffect
  <2>3. /\ job[h].key \in Keys /\ job[h].key \in Hosts /\ job[h].key \notin Names
        /\ job[h].new \in Record(job[h].key) \cup {None} /\ job[h].new # None
    BY <2>2, Hands DEF MapInv, Creating, Working, Record
  <2>4. inst[v].salt \in Salts /\ inst[v].doc \in Document /\ inst[v].doc = kept[inst[v].salt]
    BY <2>2 DEF MapInv, WritersCurrent
  <2>5. Changes(job[h].key, job[h].new, inst[v].salt)
    BY <1>3, <2>1, <2>2, <2>3, <2>4
  <2>6. QED
    BY <2>2, <2>3, <2>4, <2>5
<1>6. file' = file => kept' = kept
  BY <1>1 DEF Watch
<1>7. QED
  BY <1>4, <1>5, <1>6 DEF Next, CommandStep, HandlerStep

----------------------------------------------------------------------------
\* A write that is seen, in the terms of the invariants.
LEMMA WriteSeen ==
    ASSUME MapInv, Next, file' # file
    PROVE  /\ Stamp \in Nat /\ Stamp' = Stamp + 1 /\ file' \in File /\ file' # None
           /\ file'.stamp = Stamp + 1 /\ file'.salt \in Salts /\ file'.salt <= Stamp + 1
           /\ file'.doc = kept'[file'.salt]
           /\ \A s \in Salts \ {file'.salt} : kept'[s] = kept[s]
           /\ \/ file'.salt = Stamp + 1 /\ kept[file'.salt] = None
              \/ flock' = None
<1>1. Stamp \in Nat /\ file' \in File /\ file' # None /\ file'.salt \in Salts
  BY TypeStep, StampType DEF MapInv, TypeInv, File
<1>2. Stamp' = file'.stamp
  BY <1>1 DEF Stamp
<1>3. CASE CanWrite /\ \E c \in Commands : Creates(c)
  BY <1>1, <1>2, <1>3 DEF Creates, Written, MapInv, TypeInv, TypeOK
<1>4. CASE CanWrite /\ \E k \in Keys, s \in Salts : \E r \in Record(k) \cup {None} : Changes(k, r, s)
  <2>1. PICK k \in Keys, s \in Salts : \E r \in Record(k) \cup {None} : Changes(k, r, s)
    BY <1>4
  <2>2. PICK r \in Record(k) \cup {None} : Changes(k, r, s)
    BY <2>1
  <2>3. file'.stamp = Stamp + 1 /\ file'.salt = s /\ file'.doc = [kept[s] EXCEPT ![k] = r]
    BY <2>2 DEF Changes, Written
  <2>4. s <= Stamp /\ flock' = None /\ kept'[s] = [kept[s] EXCEPT ![k] = r]
        /\ \A t \in Salts \ {s} : kept'[t] = kept[t]
    BY <2>2 DEF Changes, MapInv, TypeInv, TypeOK
  <2>5. QED
    BY <1>1, <1>2, <2>3, <2>4 DEF Salts
<1>5. QED
  BY <1>3, <1>4, FileEffect

LEMMA FileStep ==
    ASSUME MapInv, Next
    PROVE  FileIsKept'
<1>1. CASE file' = file
  BY <1>1, TypeStep DEF Watch, FileIsKept, MapInv, Stamp
<1>2. CASE file' # file
  BY <1>2, WriteSeen DEF MapInv, FileIsKept, Salts
<1>3. QED
  BY <1>1, <1>2

LEMMA WritersStep ==
    ASSUME MapInv, Next
    PROVE  WritersCurrent'
<1>1. TypeInv' /\ LocksHeld'
  BY TypeStep, LocksStep
<1>2. ASSUME NEW s \in Salts, kept[s] \in Document, file' # file, flock' # None
      PROVE  kept'[s] = kept[s]
  BY <1>2, WriteSeen DEF MapInv, TypeInv
<1>3. ASSUME NEW s \in Salts, file' = file PROVE kept'[s] = kept[s]
  <2>1. kept' = kept
    BY <1>3, TypeStep DEF Watch
  <2>2. QED
    BY <2>1
<1>4. ASSUME NEW c \in Commands, cmd'[c].pc = "write", cmd'[c] = cmd[c]
      PROVE  cmd'[c].doc \in Document /\ cmd'[c].doc = kept'[cmd'[c].salt]
  <2>1. flock' = c /\ flock' # None /\ cmd[c].pc = "write" /\ cmd[c].salt \in Salts
    BY <1>1, <1>4 DEF LocksHeld, MapInv, TypeInv, WellFormed
  <2>2. QED
    BY <1>2, <1>3, <1>4, <2>1 DEF MapInv, WritersCurrent
<1>5. ASSUME NEW h \in Handlers, job[h].pc = "write", job'[h].pc = "write",
             job'[h].v = job[h].v, Holds(job[h].v, inst[job[h].v])
      PROVE  /\ inst'[job'[h].v].salt \in Salts
             /\ inst'[job'[h].v].doc \in Document
             /\ inst'[job'[h].v].doc = kept'[inst'[job'[h].v].salt]
  <2>1. flock' = h /\ flock' # None
    BY <1>1, <1>5 DEF LocksHeld
  <2>2. QED
    BY <1>2, <1>3, <1>5, <2>1 DEF MapInv, WritersCurrent, Holds
<1>6. ASSUME file # None, file' = file
      PROVE  file.doc \in Document /\ file.salt \in Salts /\ file.doc = kept'[file.salt]
  BY <1>3, <1>6 DEF MapInv, TypeInv, TypeOK, File, FileIsKept
<1>7. ASSUME NEW c \in Commands, CommandStep(c) PROVE WritersCurrent'
  <2>1. \A h \in Handlers : job'[h] = job[h] /\ inst' = inst
    BY <1>7, CommandEffect DEF MapInv
  <2>2. ASSUME NEW h \in Handlers, job'[h].pc = "write"
        PROVE  /\ inst'[job'[h].v].salt \in Salts
               /\ inst'[job'[h].v].doc \in Document
               /\ inst'[job'[h].v].doc = kept'[inst'[job'[h].v].salt]
    BY <1>5, <2>1, <2>2 DEF Holds
  <2>3. ASSUME NEW other \in Commands, cmd'[other].pc = "write"
        PROVE  cmd'[other].doc \in Document /\ cmd'[other].doc = kept'[cmd'[other].salt]
    <3>1. CASE other # c
      BY <1>4, <1>7, <2>3, <3>1, CommandEffect DEF MapInv
    <3>2. CASE other = c
      BY <1>6, <1>7, <2>3, <3>2, CommandEffect DEF MapInv
    <3>3. QED
      BY <3>1, <3>2
  <2>4. QED
    BY <2>2, <2>3 DEF WritersCurrent
<1>8. ASSUME NEW h \in Handlers, HandlerStep(h) PROVE WritersCurrent'
  <2>1. ASSUME NEW c \in Commands, cmd'[c].pc = "write"
        PROVE  cmd'[c].doc \in Document /\ cmd'[c].doc = kept'[cmd'[c].salt]
    BY <1>4, <1>8, <2>1, HandlerFrame
  <2>2. ASSUME NEW other \in Handlers, job'[other].pc = "write"
        PROVE  /\ inst'[job'[other].v].salt \in Salts
               /\ inst'[job'[other].v].doc \in Document
               /\ inst'[job'[other].v].doc = kept'[inst'[job'[other].v].salt]
    <3>1. CASE other # h
      <4>1. job[other].pc = "write" /\ job'[other].v = job[other].v
        BY SMTT(60), <1>8, <2>2, <3>1, OthersJob DEF MapInv
      <4>2. job[other].v \in Instances
        BY SMTT(60), <4>1, Hands DEF MapInv, Working
      <4>3. Holds(job[other].v, inst[job[other].v])
        BY ZenonT(60), <1>8, <3>1, <4>1, <4>2, InstanceEffect
      <4>4. QED
        BY <1>5, <2>2, <4>1, <4>3
    <3>2. CASE other = h
      <4>1. LockAuthority(h)
        BY <1>8, <2>2, <3>2, Arrives DEF MapInv
      <4>2. QED
        BY ZenonT(60), <1>6, <2>2, <3>2, <4>1, LockAuthorityEffect DEF LockAuthority, Request
    <3>3. QED
      BY <3>1, <3>2
  <2>3. QED
    BY <2>1, <2>2 DEF WritersCurrent
<1>9. QED
  BY <1>7, <1>8 DEF Next, CommandStep, HandlerStep

----------------------------------------------------------------------------
LEMMA MapStep ==
    ASSUME MapInv, Next
    PROVE  MapInv'
BY TypeStep, LocksStep, FileStep, WritersStep DEF MapInv

LEMMA CacheStep ==
    ASSUME MapInv, CacheStamped, Next
    PROVE  CacheStamped'
<1>1. file' = file => Stamp' = Stamp
  BY DEF Stamp
<1>2. Stamp \in Nat /\ (file # None => Stamp # 0 /\ file.salt # 0)
  BY StampType DEF MapInv, TypeInv, TypeOK, File, Stamp, Salts
<1>3. ASSUME NEW w \in Instances, Holds(w, inst[w])
      PROVE  /\ inst'[w].stamp <= Stamp'
             /\ inst'[w].doc # None =>
                  /\ inst'[w].stamp # 0 /\ inst'[w].salt # 0
                  /\ inst'[w].stamp = Stamp' => inst'[w].doc = file'.doc /\ inst'[w].salt = file'.salt
  <2>1. inst[w].stamp \in Nat
    BY DEF MapInv, TypeInv, TypeOK, Instance
  <2>2. CASE file' = file
    BY <1>1, <1>3, <2>2 DEF CacheStamped, Holds
  <2>3. CASE file' # file
    BY <1>2, <1>3, <2>1, <2>3, WriteSeen DEF CacheStamped, Holds
  <2>4. QED
    BY <2>2, <2>3
<1>4. ASSUME NEW c \in Commands, CommandStep(c) PROVE CacheStamped'
  <2>1. inst' = inst
    BY <1>4, CommandEffect DEF MapInv
  <2>2. QED
    BY <1>3, <2>1 DEF CacheStamped, Holds
<1>5. ASSUME NEW h \in Handlers, HandlerStep(h), NEW w \in Instances
      PROVE  /\ inst'[w].stamp <= Stamp'
             /\ inst'[w].doc # None =>
                  /\ inst'[w].stamp # 0 /\ inst'[w].salt # 0
                  /\ inst'[w].stamp = Stamp' => inst'[w].doc = file'.doc /\ inst'[w].salt = file'.salt
  <2>1. inst[w].stamp \in Nat /\ inst[w].stamp <= Stamp
    BY DEF MapInv, TypeInv, TypeOK, Instance, CacheStamped
  <2>2. Stamp' = Stamp \/ Stamp' = Stamp + 1
    BY <1>1, WriteSeen
  <2>3. CASE Holds(w, inst[w])
    BY <1>3, <2>3
  <2>4. CASE inst'[w].doc = None /\ inst'[w].stamp = inst[w].stamp
    BY <1>2, <2>1, <2>2, <2>4
  <2>5. CASE /\ file' = file /\ file # None
             /\ inst'[w].salt = file.salt /\ inst'[w].doc = file.doc
             /\ inst'[w].stamp = Stamp
    BY <1>1, <1>2, <2>5
  <2>6. CASE /\ WriteAuthority(h) /\ w = job[h].v /\ inst'[w].salt = inst[w].salt
             /\ file' = Written(inst[w].salt, inst'[w].doc) /\ CanWrite
             /\ inst'[w].doc = [inst[w].doc EXCEPT ![job[h].key] = job[h].new]
             /\ inst'[w].stamp = Stamp + 1
    <3>1. inst[w].salt \in Salts
      BY <1>5, <2>6, WriteEffect DEF MapInv, WritersCurrent
    <3>2. file'.stamp = Stamp + 1 /\ file'.salt = inst[w].salt /\ file'.doc = inst'[w].doc
      BY <2>6 DEF Written
    <3>3. inst'[w].doc \in Document
      <4>1. job[h].pc = "write" /\ inst[w].doc \in Document
        BY <2>6, WriteEffect DEF MapInv, WritersCurrent
      <4>2. job[h].key \in Hosts /\ job[h].key \in Keys /\ job[h].new \in Record(job[h].key)
        BY <4>1, Hands DEF MapInv, Working, Creating, Record, Keys
      <4>3. QED
        BY SMTT(60), <2>6, <4>1, <4>2, DocumentRecord
    <3>4. Stamp' = Stamp + 1
      <4>1. file' # file
        BY <2>6, <3>1, <3>3, WrittenFile DEF MapInv, TypeInv
      <4>2. QED
        BY <4>1, WriteSeen
    <3>5. QED
      BY SMTT(60), <1>2, <2>6, <3>1, <3>2, <3>4 DEF Salts
  <2>7. CASE inst'[w].doc = None /\ inst'[w].stamp = 0
    BY <1>2, <2>2, <2>7
  <2>8. QED
    BY <1>5, <2>3, <2>4, <2>5, <2>6, <2>7, InstanceEffect
<1>6. QED
  BY <1>4, <1>5 DEF Next, CommandStep, HandlerStep, CacheStamped

\* Which vault a step leaves in the hands of a request.
LEMMA VaultInHands ==
    ASSUME MapInv, NEW h \in Handlers, HandlerStep(h)
    PROVE  /\ job'[h].v \in {job[h].v, vault, None} \/ Unlock(h)
           /\ job[h].pc = "swap" => Swap(h)
           /\ job[h].pc = "lock" => Lock(h)
           /\ job'[h].pc \in Working /\ job[h].doubt => job'[h].doubt \/ Begin(h)
<1>1. CASE Begin(h)
  BY <1>1, BeginEffect DEF MapInv
<1>2. CASE AuthorityLocked(h)
  BY <1>2, AuthorityEffect DEF MapInv, Request
<1>3. CASE ReloadLocked(h)
  BY <1>3, ReloadEffect, FoundEffect, Hands DEF MapInv, Working, Request
<1>4. CASE ReadContainer(h) \/ ReadFails(h)
  BY <1>4, ReadEffect, FoundEffect DEF Request
<1>5. CASE SetAuthority(h)
  BY <1>5, SetEffect DEF Request
<1>6. CASE LockAuthority(h)
  BY <1>6, LockAuthorityEffect DEF Request
<1>7. CASE WriteAuthority(h)
  BY <1>7, WriteEffect DEF Request, Working
<1>8. CASE Return(h)
  BY <1>8, ReturnEffect DEF MapInv, Working
<1>9. CASE Unlock(h)
  BY <1>9, UnlockEffect DEF MapInv, Working
<1>10. CASE Swap(h)
  BY <1>10, ReplaceEffect DEF Swap, At, MapInv, Working
<1>11. CASE LockVault(h)
  BY <1>11, ReplaceEffect DEF LockVault, At, MapInv, Working
<1>12. CASE Lock(h)
  BY <1>12, LockEffect DEF MapInv, Working
<1>13. QED
  BY <1>1, <1>2, <1>3, <1>4, <1>5, <1>6, <1>7, <1>8, <1>9, <1>10, <1>11, <1>12 DEF HandlerStep

LEMMA ApartStep ==
    ASSUME MapInv, VaultsApart, Next
    PROVE  VaultsApart'
<1>1. ASSUME NEW c \in Commands, CommandStep(c) PROVE VaultsApart'
  BY <1>1, CommandEffect DEF MapInv, VaultsApart
<1>2. ASSUME NEW h \in Handlers, HandlerStep(h) PROVE VaultsApart'
  <2>1. ASSUME NEW w \in Instances, inst[w].salt # 0, inst'[w].salt = 0
        PROVE  Lock(h) /\ w = job[h].v
    <3>1. file # None => file.salt # 0
      BY DEF MapInv, TypeInv, TypeOK, File, Salts
    <3>2. QED
      BY <1>2, <2>1, <3>1, InstanceEffect DEF Holds
  <2>2. job[h].pc = "lock" => job[h].v # vault
    BY DEF VaultsApart
  <2>3. /\ vault' = vault \/ Swap(h) \/ LockVault(h)
        /\ Swap(h) => inst' = inst /\ vault' = job[h].v /\ job[h].pc = "swap"
        /\ LockVault(h) => inst' = inst /\ vault' = None
    <3>1. vault' = vault \/ Swap(h) \/ LockVault(h)
      BY <1>2, HandlerFrame
    <3>2. Swap(h) => inst' = inst /\ vault' = job[h].v /\ job[h].pc = "swap"
      BY DEF Swap, Replace, At
    <3>3. LockVault(h) => inst' = inst /\ vault' = None
      BY DEF LockVault, Replace
    <3>4. QED
      BY <3>1, <3>2, <3>3
  <2>4. ASSUME vault' # None PROVE inst'[vault'].salt # 0
    <3>1. CASE vault' = vault
      <4>1. vault \in Instances /\ inst[vault].salt # 0
        BY <2>4, <3>1 DEF VaultsApart, MapInv, TypeInv, TypeOK
      <4>2. QED
        BY <2>1, <2>2, <3>1, <4>1, LockEffect DEF MapInv
    <3>2. CASE Swap(h)
      BY <2>3, <3>2 DEF VaultsApart
    <3>3. QED
      BY <2>3, <2>4, <3>1, <3>2
  <2>5. ASSUME NEW o \in Handlers, o # h
        PROVE  job'[o].pc = job[o].pc /\ job'[o].v = job[o].v
    BY <1>2, <2>5, OthersJob DEF MapInv
  <2>6. ASSUME NEW o \in Handlers, job'[o].pc = "swap"
        PROVE  /\ job'[o].v # vault' /\ inst'[job'[o].v].salt # 0
               /\ \A other \in Handlers : other # o => job'[other].v # job'[o].v
    <3>1. CASE o = h
      <4>1. Unlock(h) /\ vault' = vault
        BY <1>2, <2>6, <3>1, Arrives DEF Unlock
      <4>2. /\ file # None /\ Unused(job'[h].v) /\ inst'[job'[h].v].salt = file.salt
        BY <4>1, UnlockEffect DEF MapInv
      <4>3. file.salt # 0
        BY <4>2 DEF MapInv, TypeInv, TypeOK, File, Salts
      <4>4. QED
        BY <2>5, <3>1, <4>1, <4>2, <4>3 DEF Unused
    <3>2. CASE o # h
      <4>1. job[o].pc = "swap" /\ job'[o].v = job[o].v /\ job[o].v \in Instances
        BY <2>5, <2>6, <3>2 DEF MapInv, TypeInv, WellFormed
      <4>2. /\ job[o].v # vault /\ inst[job[o].v].salt # 0 /\ job[h].v # job[o].v
            /\ \A other \in Handlers : other # o => job[other].v # job[o].v
        BY <3>2, <4>1 DEF VaultsApart
      <4>3. job'[o].v # vault' /\ inst'[job'[o].v].salt # 0
        BY <2>1, <2>3, <4>1, <4>2
      <4>4. job'[h].v # job[o].v
        BY <1>2, <4>1, <4>2, VaultInHands, UnlockEffect DEF Unused, MapInv
      <4>5. QED
        BY <2>5, <4>1, <4>2, <4>3, <4>4
    <3>3. QED
      BY <3>1, <3>2
  <2>7. ASSUME NEW o \in Handlers, job'[o].pc = "lock" PROVE job'[o].v # vault'
    <3>1. CASE o = h
      <4>1. Swap(h) \/ LockVault(h)
        BY <1>2, <2>7, <3>1, Arrives
      <4>2. job'[h].v = vault /\ vault # None
        BY <2>7, <3>1, <4>1, ReplaceEffect DEF Swap, LockVault, MapInv, TypeInv, TypeOK
      <4>3. QED
        BY <2>3, <3>1, <4>1, <4>2 DEF VaultsApart
    <3>2. CASE o # h
      <4>1. job[o].pc = "lock" /\ job'[o].v = job[o].v /\ job[o].v \in Instances
        BY <2>5, <2>7, <3>2 DEF MapInv, TypeInv, WellFormed
      <4>2. QED
        BY <2>3, <3>2, <4>1 DEF VaultsApart
    <3>3. QED
      BY <3>1, <3>2
  <2>8. QED
    BY <2>4, <2>6, <2>7 DEF VaultsApart
<1>3. QED
  BY <1>1, <1>2 DEF Next, CommandStep, HandlerStep

LEMMA KeysStep ==
    ASSUME MapInv, VaultsApart, KeysHeld, Next
    PROVE  KeysHeld'
<1>1. ASSUME NEW c \in Commands, CommandStep(c) PROVE KeysHeld'
  <2>1. inst' = inst /\ vault' = vault /\ job' = job
    BY <1>1, CommandEffect DEF MapInv
  <2>2. QED
    BY <2>1 DEF KeysHeld
<1>2. ASSUME NEW h \in Handlers, HandlerStep(h), NEW w \in Instances, inst'[w].salt # 0
      PROVE  w = vault' \/ \E o \in Handlers : job'[o].v = w /\ job'[o].pc \in {"swap", "lock"}
  <2>1. ASSUME NEW o \in Handlers, o # h
        PROVE  job'[o].pc = job[o].pc /\ job'[o].v = job[o].v
    BY <1>2, <2>1, OthersJob DEF MapInv
  <2>2. CASE inst[w].salt = 0
    <3>1. Unlock(h) /\ Unused(w)
      BY <1>2, <2>2, InstanceEffect DEF Holds
    <3>2. w = job'[h].v
      BY <1>2, <2>2, <3>1, OthersInstance DEF Unused, MapInv
    <3>3. QED
      BY <3>1, <3>2, UnlockEffect DEF MapInv
  <2>3. CASE inst[w].salt # 0 /\ w = vault
    <3>1. CASE vault' = vault
      BY <2>3, <3>1
    <3>2. CASE vault' # vault
      <4>1. job'[h].v = vault /\ job'[h].pc = "lock"
        BY <1>2, <2>3, <3>2, HandlerFrame, ReplaceEffect DEF MapInv, TypeInv, TypeOK
      <4>2. QED
        BY <2>3, <4>1
    <3>3. QED
      BY <3>1, <3>2
  <2>4. CASE inst[w].salt # 0 /\ \E o \in Handlers : job[o].v = w /\ job[o].pc \in {"swap", "lock"}
    <3>1. PICK o \in Handlers : job[o].v = w /\ job[o].pc \in {"swap", "lock"}
      BY <2>4
    <3>2. CASE o # h
      BY <2>1, <3>1, <3>2
    <3>3. CASE o = h
      <4>1. Swap(h)
        BY <1>2, <3>1, <3>3, VaultInHands, LockEffect DEF MapInv
      <4>2. QED
        BY <3>1, <3>3, <4>1 DEF Swap, Replace
    <3>4. QED
      BY <3>2, <3>3
  <2>5. QED
    BY <2>2, <2>3, <2>4 DEF KeysHeld
<1>3. QED
  BY <1>1, <1>2 DEF Next, CommandStep, HandlerStep, KeysHeld

LEMMA DoubtStep ==
    ASSUME MapInv, NoDoubt, Next
    PROVE  NoDoubt'
<1>1. ASSUME NEW c \in Commands, CommandStep(c) PROVE NoDoubt'
  BY <1>1, CommandEffect DEF MapInv, NoDoubt
<1>2. ASSUME NEW h \in Handlers, HandlerStep(h) PROVE NoDoubt'
  <2>1. SUFFICES ASSUME NEW o \in Handlers, job'[o].pc \in Working, ~job'[o].doubt,
                        NEW other \in Handlers, job'[other].pc \in Working
                 PROVE  job'[other].v = vault'
    BY DEF NoDoubt
  <2>2. ASSUME NEW k \in Handlers, k # h
        PROVE  /\ job'[k].pc = job[k].pc /\ job'[k].v = job[k].v
               /\ job[k].doubt => job'[k].doubt
    BY <1>2, <2>2, OthersJob DEF MapInv
  <2>3. vault' = vault
    <3>1. CASE \E v : Replace(h, v)
      <4>1. job'[h].pc \notin Working /\ \A k \in Handlers \ {h} : Busy(k) => job'[k].doubt
        BY <3>1, ReplaceEffect DEF MapInv, Working
      <4>2. QED
        BY <2>1, <2>2, <4>1 DEF Busy, Working
    <3>2. QED
      BY <1>2, <3>1, HandlerFrame
  <2>4. CASE o = h /\ Begin(h)
    <3>1. job'[h].v = vault /\ ~Overlap
      BY <2>1, <2>4, BeginEffect DEF MapInv
    <3>2. ASSUME other # h PROVE job[other].v = vault
      <4>1. Busy(other) /\ job[other].v \in Instances
        BY <2>1, <2>2, <3>2, Hands DEF Busy, Working, MapInv
      <4>2. QED
        BY <3>1, <4>1 DEF Overlap
    <3>3. QED
      BY <2>2, <2>3, <3>1, <3>2
  <2>5. CASE ~(o = h /\ Begin(h))
    <3>1. job[o].pc \in Working /\ ~job[o].doubt
      BY <1>2, <2>1, <2>2, <2>5, Arrives, VaultInHands
    <3>2. CASE other = h /\ Begin(h)
      BY <2>3, <3>2, BeginEffect DEF MapInv
    <3>3. CASE ~(other = h /\ Begin(h))
      <4>1. job[other].pc \in Working /\ job'[other].v = job[other].v
        BY <1>2, <2>1, <2>2, <3>3, Arrives DEF Request
      <4>2. QED
        BY <2>3, <3>1, <4>1 DEF NoDoubt
    <3>4. QED
      BY <3>2, <3>3
  <2>6. QED
    BY <2>4, <2>5
<1>3. QED
  BY <1>1, <1>2 DEF Next, CommandStep, HandlerStep

LEMMA KeyStep ==
    ASSUME MapInv, KeyTaken, Next
    PROVE  KeyTaken'
<1>1. ASSUME NEW c \in Commands, CommandStep(c) PROVE KeyTaken'
  BY <1>1, CommandEffect DEF MapInv, KeyTaken
<1>2. ASSUME NEW h \in Handlers, HandlerStep(h),
             NEW o \in Handlers, job'[o].pc \in Working, job'[o].op = "secret"
      PROVE  inst'[job'[o].v].salt \in {0, job'[o].salt}
  <2>1. CASE o = h /\ Begin(h)
    BY <2>1, BeginEffect, HandlerFrame DEF MapInv, HandlerStep
  <2>2. CASE ~(o = h /\ Begin(h))
    <3>1. /\ job[o].pc \in Working /\ job[o].op = "secret"
          /\ job'[o].v = job[o].v /\ job'[o].salt = job[o].salt
      BY <1>2, <2>2, Arrives, OthersJob DEF Request, MapInv
    <3>2. job[o].v \in Instances /\ ~Unused(job[o].v)
      BY <3>1, Hands DEF MapInv, Unused
    <3>3. inst[job[o].v].salt \in {0, job[o].salt}
      BY <3>1 DEF KeyTaken
    <3>4. inst'[job[o].v].salt \in {0, inst[job[o].v].salt}
      BY <1>2, <3>2, InstanceEffect DEF Holds
    <3>5. QED
      BY <3>1, <3>3, <3>4
  <2>3. QED
    BY <2>1, <2>2
<1>3. QED
  BY <1>1, <1>2 DEF Next, CommandStep, HandlerStep, KeyTaken

\* What Secret and Authority find is what the file holds, or nothing and then
\* the request is in doubt.
LEMMA Lookup ==
    ASSUME VaultInv, NEW h \in Handlers, ReloadLocked(h) \/ ReadContainer(h) \/ ReadFails(h),
           job'[h].pc # "read"
    PROVE  /\ job[h].pc \in {"reload", "read"} /\ Request(h) /\ file' = file
           /\ inst'[job[h].v].salt = inst[job[h].v].salt
           /\ \E r : /\ \/ job'[h].pc = "set" /\ r = None
                        \/ job'[h].pc = "done" /\ job'[h].answer = r
                     /\ \/ r = None /\ job'[h].doubt
                        \/ /\ file # None /\ file.salt = inst[job[h].v].salt
                           /\ r = file.doc[job[h].key]
<1> USE DEF VaultInv
<1>1. file' = file
  BY DEF ReloadLocked, ReadContainer, ReadFails
<1>2. ASSUME job[h].pc \in {"reload", "read"}, NEW next \in Instance,
             next.salt = inst[job[h].v].salt, NEW r, NEW doubt \in BOOLEAN,
             Found(h, next, r, doubt),
             \/ r = None /\ (job[h].doubt \/ doubt)
             \/ /\ file # None /\ file.salt = inst[job[h].v].salt
                /\ r = file.doc[job[h].key]
      PROVE  /\ Request(h) /\ inst'[job[h].v].salt = inst[job[h].v].salt
             /\ \/ job'[h].pc = "set" /\ r = None
                \/ job'[h].pc = "done" /\ job'[h].answer = r
             /\ \/ r = None /\ job'[h].doubt
                \/ /\ file # None /\ file.salt = inst[job[h].v].salt
                   /\ r = file.doc[job[h].key]
  <2>1. /\ Request(h) /\ job'[h].doubt = (job[h].doubt \/ doubt)
        /\ inst'[job[h].v].salt = inst[job[h].v].salt
        /\ \/ job'[h].pc = "set" /\ r = None
           \/ job'[h].pc = "done" /\ job'[h].answer = r
    BY <1>2, FoundEffect DEF Holds
  <2>2. QED
    BY <1>2, <2>1
<1>3. CASE ReloadLocked(h)
  <2>1. job[h].pc = "reload" /\ job[h].v \in Instances /\ inst[job[h].v] \in Instance
    BY <1>3, ReloadEffect, Hands DEF MapInv, Working
  <2>2. CASE inst[job[h].v].salt = 0 /\ Found(h, inst[job[h].v], None, FALSE)
    <3>1. job[h].doubt
      BY <2>1, <2>2 DEF NoDoubt, VaultsApart, Working, MapInv, TypeInv, TypeOK
    <3>2. QED
      BY <1>1, <1>2, <2>1, <2>2, <3>1
  <2>3. CASE /\ inst[job[h].v].doc # None /\ inst[job[h].v].stamp = Stamp
             /\ Found(h, inst[job[h].v], inst[job[h].v].doc[job[h].key], FALSE)
    <3>1. /\ inst[job[h].v].doc = file.doc /\ file.salt = inst[job[h].v].salt
          /\ file # None
      BY <2>1, <2>3 DEF CacheStamped, Stamp
    <3>2. QED
      BY <1>1, <1>2, <2>1, <2>3, <3>1
  <2>4. QED
    BY <1>3, <2>2, <2>3, ReloadEffect
<1>4. CASE ReadContainer(h) \/ ReadFails(h)
  <2>1. job[h].pc = "read"
    BY <1>4, ReadEffect
  <2>2. PICK next \in Instance :
          /\ next.salt = inst[job[h].v].salt
          /\ \/ next.doc = None /\ Found(h, next, None, TRUE)
             \/ /\ file # None /\ file.salt = next.salt /\ next.doc = file.doc
                /\ Found(h, next, next.doc[job[h].key], FALSE)
    BY <1>4, ReadEffect
  <2>3. CASE Found(h, next, None, TRUE)
    BY <1>1, <1>2, <2>1, <2>2, <2>3
  <2>4. CASE /\ file # None /\ file.salt = next.salt /\ next.doc = file.doc
             /\ Found(h, next, next.doc[job[h].key], FALSE)
    BY <1>1, <1>2, <2>1, <2>2, <2>4
  <2>5. QED
    BY <2>2, <2>3, <2>4
<1>5. QED
  BY <1>3, <1>4

LEMMA CreatorsStep ==
    ASSUME VaultInv, Next
    PROVE  NoneToReplace'
<1> USE DEF VaultInv
<1>1. SUFFICES ASSUME NEW h \in Handlers, job'[h].pc \in Creating, ~job'[h].doubt
               PROVE  /\ inst'[job'[h].v].salt \in Salts
                      /\ kept'[inst'[job'[h].v].salt] # None
                      /\ kept'[inst'[job'[h].v].salt][job'[h].key] = None
  BY DEF NoneToReplace
<1>2. CASE job[h].pc \in Creating /\ ~job[h].doubt /\ Request(h)
  <2> DEFINE v == job[h].v
             s == inst[v].salt
  <2>1. /\ v \in Instances /\ job[h].key \in Hosts /\ s \in Salts
        /\ kept[s] # None /\ kept[s][job[h].key] = None
    BY <1>2, Hands DEF MapInv, Working, Creating, NoneToReplace
  <2>2. \A o \in Handlers : job[o].pc \in Working => job[o].v = v
    BY <1>2 DEF NoDoubt, Working, Creating
  <2>3. v = vault /\ ~Unused(v)
    BY <1>2 DEF NoDoubt, Working, Creating, Unused
  <2>4. inst'[v].salt = s
    <3>1. CASE \E c \in Commands : CommandStep(c)
      BY <3>1, CommandEffect DEF MapInv
    <3>2. CASE \E o \in Handlers : HandlerStep(o)
      <4>1. PICK o \in Handlers : HandlerStep(o)
        BY <3>2
      <4>2. ~(Lock(o) /\ v = job[o].v)
        BY <2>3, LockEffect DEF MapInv, VaultsApart
      <4>3. QED
        BY ZenonT(60), <2>1, <2>3, <4>1, <4>2, InstanceEffect DEF Holds
    <3>3. QED
      BY <3>1, <3>2 DEF Next, CommandStep, HandlerStep
  <2>5. ASSUME NEW o \in Handlers, WriteAuthority(o) PROVE FALSE
    <3>1. job[o].pc = "write" /\ job'[o].pc = "done"
      BY <2>5, WriteEffect
    <3>2. job[o].v = v /\ job[o].op = "authority" /\ job[h].op = "authority"
      BY <1>2, <2>2, <3>1, <2>1, Hands
         DEF Working, Creating, MapInv, TypeInv, WellFormed
    <3>3. inst[v].caMutex = o /\ inst[v].caMutex = h
      BY <1>2, <3>1, <3>2 DEF MapInv, LocksHeld, Working, Creating
    <3>4. QED
      BY <1>1, <3>1, <3>3 DEF Creating
  <2>6. kept'[s] # None /\ kept'[s][job[h].key] = None
    <3>1. kept \in [Salts -> Document \cup {None}] /\ kept[s] \in Document
      BY <2>1 DEF MapInv, TypeInv, TypeOK
    <3>2. CASE kept' = kept
      BY <2>1, <3>2
    <3>3. CASE CanWrite /\ \E c \in Commands : Creates(c)
      BY <2>1, <3>1, <3>3 DEF Creates
    <3>4. CASE \E k \in Keys, t \in Salts : \E r \in Record(k) \cup {None} : Changes(k, r, t)
      <4>1. PICK k \in Keys, t \in Salts : \E r \in Record(k) \cup {None} : Changes(k, r, t)
        BY <3>4
      <4>2. PICK r \in Record(k) \cup {None} : Changes(k, r, t)
        BY <4>1
      <4>3. k \notin Hosts /\ kept' = [kept EXCEPT ![t] = [kept[t] EXCEPT ![k] = r]]
        BY <2>5, <4>2 DEF Changes
      <4>4. CASE t = s
        <5>1. [kept[s] EXCEPT ![k] = r] \in Document
          BY <3>1, DocumentRecord
        <5>2. [kept[s] EXCEPT ![k] = r][job[h].key] = kept[s][job[h].key]
          BY <2>1, <3>1, <4>3 DEF Document, Keys
        <5>3. QED
          BY <2>1, <3>1, <4>3, <4>4, <5>1, <5>2
      <4>5. CASE t # s
        BY <2>1, <3>1, <4>3, <4>5
      <4>6. QED
        BY <4>4, <4>5
    <3>5. QED
      BY <3>2, <3>3, <3>4, FileEffect
  <2>7. QED
    BY <1>2, <2>1, <2>4, <2>6 DEF Request
<1>3. CASE ReloadLocked(h) \/ ReadContainer(h) \/ ReadFails(h)
  <2>1. PICK r : /\ job'[h].pc = "set" /\ r = None
                 /\ file # None /\ file.salt = inst[job[h].v].salt
                 /\ r = file.doc[job[h].key]
    BY <1>1, <1>3, Lookup DEF Creating
  <2>2. /\ Request(h) /\ file' = file /\ inst'[job[h].v].salt = inst[job[h].v].salt
    BY <1>1, <1>3, Lookup DEF Creating
  <2>3. file.salt \in Salts /\ file.doc \in Document /\ file.doc = kept[file.salt] /\ kept' = kept
    BY <2>1, <2>2, TypeStep DEF Watch, MapInv, TypeInv, TypeOK, File, FileIsKept
  <2>4. QED
    BY <2>1, <2>2, <2>3 DEF Request
<1>4. CASE \E c \in Commands : CommandStep(c)
  BY <1>1, <1>2, <1>4, CommandEffect DEF MapInv, Request
<1>5. ASSUME NEW o \in Handlers, HandlerStep(o)
      PROVE  /\ inst'[job'[h].v].salt \in Salts
             /\ kept'[inst'[job'[h].v].salt] # None
             /\ kept'[inst'[job'[h].v].salt][job'[h].key] = None
  <2>1. CASE o # h
    BY <1>1, <1>2, <1>5, <2>1, OthersJob DEF MapInv, Request
  <2>2. CASE o = h
    <3>1. CASE job'[h].pc = "set"
      BY <1>3, <1>5, <2>2, <3>1, Arrives
    <3>2. CASE job'[h].pc = "flock"
      BY <1>1, <1>2, <1>5, <2>2, <3>2, Arrives, SetEffect DEF Creating
    <3>3. CASE job'[h].pc = "write"
      BY <1>1, <1>2, <1>5, <2>2, <3>3, Arrives, LockAuthorityEffect DEF Creating
    <3>4. QED
      BY <1>1, <3>1, <3>2, <3>3 DEF Creating
  <2>3. QED
    BY <2>1, <2>2
<1>6. QED
  BY <1>4, <1>5 DEF Next, CommandStep, HandlerStep

LEMMA ReadsStep ==
    ASSUME VaultInv, Next
    PROVE  ReadsAreCurrent'
<1> USE DEF VaultInv
<1>1. SUFFICES ASSUME NEW h \in Handlers, job'[h].pc = "done", job'[h].op = "secret"
               PROVE  job'[h].answer \in seen'[h] \/ (job'[h].answer = None /\ job'[h].doubt)
  BY DEF ReadsAreCurrent, At
<1>2. Watch
  BY TypeStep
<1>3. CASE /\ job[h].pc = "done" /\ job[h].op = "secret" /\ job'[h].answer = job[h].answer
           /\ job[h].doubt => job'[h].doubt
  BY <1>1, <1>2, <1>3 DEF ReadsAreCurrent, At, Watch
<1>4. CASE \E c \in Commands : CommandStep(c)
  BY <1>1, <1>3, <1>4, CommandEffect DEF MapInv
<1>5. ASSUME NEW o \in Handlers, HandlerStep(o), o # h
      PROVE  job'[h].answer \in seen'[h] \/ (job'[h].answer = None /\ job'[h].doubt)
  BY <1>1, <1>3, <1>5, OthersJob DEF MapInv
<1>6. ASSUME HandlerStep(h)
      PROVE  job'[h].answer \in seen'[h] \/ (job'[h].answer = None /\ job'[h].doubt)
  <2>1. job[h].pc \in Working /\ Request(h)
    BY <1>1, <1>6, Arrives, BeginEffect DEF MapInv
  <2>2. job[h].pc \in {"reload", "read"} /\ job[h].op = "secret"
    BY <1>1, <2>1 DEF Request, MapInv, TypeInv, WellFormed, Working, Creating
  <2>3. ReloadLocked(h) \/ ReadContainer(h) \/ ReadFails(h)
    BY ZenonT(60), <1>6, <2>2, BeginEffect, AuthorityEffect, SetEffect, LockAuthorityEffect, WriteEffect,
       ReturnEffect, UnlockEffect, LockEffect
       DEF HandlerStep, Swap, LockVault, At, MapInv
  <2>4. CASE job'[h].answer = None /\ job'[h].doubt
    BY <2>4
  <2>5. CASE /\ file # None /\ file.salt = inst[job[h].v].salt
             /\ job'[h].answer = file.doc[job[h].key]
    <3>1. file' = file
      BY <1>1, <2>3, Lookup
    <3>2. file.salt = job[h].salt
      BY <2>1, <2>2, <2>5 DEF KeyTaken, MapInv, TypeInv, TypeOK, File, Salts
    <3>3. Visible(job[h])' = file.doc[job[h].key]
      BY <2>1, <2>5, <3>1, <3>2 DEF Visible, Opens, Request
    <3>4. Visible(job[h])' \in seen'[h]
      BY <1>1, <1>2, <2>2 DEF Watch
    <3>5. QED
      BY <2>5, <3>3, <3>4
  <2>6. QED
    BY <1>1, <2>3, <2>4, <2>5, Lookup
<1>7. QED
  BY <1>4, <1>5, <1>6 DEF Next, CommandStep, HandlerStep

----------------------------------------------------------------------------
LEMMA VaultStep == VaultInv /\ [Next]_vars => VaultInv'
<1>1. ASSUME VaultInv, Next PROVE VaultInv'
  BY <1>1, MapStep, CacheStep, ApartStep, KeysStep, DoubtStep, KeyStep, CreatorsStep, ReadsStep
     DEF VaultInv
<1>2. ASSUME VaultInv, UNCHANGED vars PROVE VaultInv'
  <2> USE DEF vars
  <2>1. MapInv'
    BY <1>2 DEF VaultInv, MapInv, TypeInv, TypeOK, WellFormed, LocksHeld, FileIsKept,
                WritersCurrent, Stamp
  <2>2. CacheStamped' /\ VaultsApart' /\ KeysHeld'
    BY <1>2 DEF VaultInv, CacheStamped, VaultsApart, KeysHeld, Stamp
  <2>3. NoDoubt' /\ KeyTaken' /\ NoneToReplace' /\ ReadsAreCurrent'
    BY <1>2 DEF VaultInv, NoDoubt, KeyTaken, NoneToReplace, ReadsAreCurrent, At
  <2>4. QED
    BY <2>1, <2>2, <2>3 DEF VaultInv
<1>3. QED
  BY <1>1, <1>2

LEMMA VaultAlways == Spec => []VaultInv
BY InitVaultInv, VaultStep, PTL DEF Spec

(* The state of the vault file, of the open vaults, of the requests and of   *)
(* the commands has its types (internal/vault, internal/broker).             *)
THEOREM VaultTypeCorrect == Spec => []TypeOK
<1>1. VaultInv => TypeOK
  BY DEF VaultInv, MapInv, TypeInv
<1>2. QED
  BY <1>1, VaultAlways, PTL

(* A vault that an unlock or the end of the broker has replaced keeps its    *)
(* key no longer than that unlock runs (secrets.go:27-29, 39-41).            *)
THEOREM KeysStayHeld == Spec => []KeysHeld
<1>1. VaultInv => KeysHeld
  BY DEF VaultInv
<1>2. QED
  BY <1>1, VaultAlways, PTL

(* A request that looks up a secret gets what the vault held at a moment of  *)
(* the request, in spite of the cache and of the writers that do not know of *)
(* the broker (vault.go:69-70), or nothing and then for the reasons that     *)
(* `doubt` records.                                                          *)
THEOREM ReadsStayCurrent == Spec => []ReadsAreCurrent
<1>1. VaultInv => ReadsAreCurrent
  BY DEF VaultInv
<1>2. QED
  BY <1>1, VaultAlways, PTL

LEMMA AuthorityStays ==
    ASSUME VaultInv, Next, file' # file, NEW k \in Hosts,
           file # None, file.doc[k] # None, file'.salt = file.salt
    PROVE  \/ file'.doc[k] = file.doc[k]
           \/ \E h \in Handlers : At(h, "write") /\ job[h].key = k /\ job[h].doubt
<1> USE DEF VaultInv, MapInv, TypeInv, TypeOK
<1>1. file.salt \in Salts /\ file.doc \in Document /\ file.doc = kept[file.salt]
  BY DEF File, FileIsKept
<1>2. CASE CanWrite /\ \E c \in Commands : Creates(c)
  <2>1. file.salt = Stamp + 1 /\ kept[Stamp + 1] = None
    BY <1>2 DEF Creates, Written
  <2>2. QED
    BY <1>1, <2>1
<1>3. CASE \E l \in Keys, s \in Salts : \E r \in Record(l) \cup {None} : Changes(l, r, s)
  <2>1. PICK l \in Keys, s \in Salts : \E r \in Record(l) \cup {None} : Changes(l, r, s)
    BY <1>3
  <2>2. PICK r \in Record(l) \cup {None} : Changes(l, r, s)
    BY <2>1
  <2>3. file.salt = s /\ file'.doc = [file.doc EXCEPT ![l] = r]
    BY <1>1, <2>2 DEF Changes, Written
  <2>4. CASE l # k
    BY <1>1, <2>3, <2>4 DEF Document, Keys
  <2>5. CASE l = k
    <3>1. PICK h \in Handlers : /\ WriteAuthority(h) /\ job[h].key = k /\ inst[job[h].v].salt = s
      BY <2>2, <2>5 DEF Changes
    <3>2. job[h].pc = "write" /\ job[h].pc \in Creating
      BY <3>1, WriteEffect DEF Creating
    <3>3. job[h].doubt
      BY <1>1, <2>3, <3>1, <3>2 DEF NoneToReplace
    <3>4. QED
      BY <3>1, <3>2, <3>3 DEF At
  <2>6. QED
    BY <2>4, <2>5
<1>4. QED
  BY <1>2, <1>3, FileEffect

(* The authority of a host is replaced only by a request that overlapped an  *)
(* unlock or a failed read, and so did not find it (ca.go:141-147): commands *)
(* and other requests that change the vault at the same time never lose it.  *)
THEOREM AuthoritiesStay == Spec => AuthorityKept
<1> DEFINE A == \A k \in Hosts :
         (file # None /\ file.doc[k] # None /\ file'.salt = file.salt)
           => \/ file'.doc[k] = file.doc[k]
              \/ \E h \in Handlers : At(h, "write") /\ job[h].key = k /\ job[h].doubt
<1>1. VaultInv /\ [Next]_vars => [A]_file
  BY AuthorityStays DEF vars
<1>2. AuthorityKept <=> [][A]_file
  BY DEF AuthorityKept
<1> HIDE DEF A
<1>3. Spec => [][A]_file
  BY <1>1, VaultAlways, PTL DEF Spec
<1>4. QED
  BY <1>2, <1>3

----------------------------------------------------------------------------
\* The file as a map.
LEMMA MapOf ==
    /\ Map!Init <=> kept = [v \in Salts |-> None] /\ (IF file = None THEN 0 ELSE file.salt) = 0
    /\ Map!Next <=>
         \E v \in Salts :
           \/ Map!Create(v)
           \/ \E k \in Keys : Map!Delete(v, k) \/ Map!Put(v, k)
BY DEF Map!Init, Map!Next

LEMMA MapInit == Init => Map!Init
BY MapOf DEF Init

LEMMA MapNext ==
    ASSUME VaultInv, Next
    PROVE  Map!Next \/ UNCHANGED <<kept, IF file = None THEN 0 ELSE file.salt>>
<1> USE DEF VaultInv, MapInv, TypeInv, TypeOK
<1>1. CASE file' = file /\ kept' = kept
  BY <1>1
<1>2. CASE CanWrite /\ \E c \in Commands : Creates(c)
  <2>1. Stamp + 1 \in Salts
    BY <1>2, StampType DEF CanWrite, Salts
  <2>2. file' # None /\ file'.salt = Stamp + 1
    <3>1. file' # file
      BY <1>2, <2>1, EmptyRecords, WrittenFile DEF Creates
    <3>2. QED
      BY <1>2, <3>1, WriteSeen DEF Creates, Written
  <2>3. Map!Create(Stamp + 1)
    BY <1>2, <2>1, <2>2 DEF Creates, Map!Create, Map!Empty, emptyDocument
  <2>4. QED
    BY <2>1, <2>3, MapOf
<1>3. CASE CanWrite /\ \E k \in Keys, s \in Salts : \E r \in Record(k) \cup {None} : Changes(k, r, s)
  <2>1. PICK k \in Keys, s \in Salts : \E r \in Record(k) \cup {None} : Changes(k, r, s)
    BY <1>3
  <2>2. PICK r \in Record(k) \cup {None} : Changes(k, r, s)
    BY <2>1
  <2>3. kept[s] \in Document /\ [kept[s] EXCEPT ![k] = r] \in Document
    <3>1. kept[s] \in Document
      BY <2>2 DEF Changes
    <3>2. QED
      BY <3>1, DocumentRecord
  <2>4. file' # file
    BY <1>3, <2>2, <2>3, WrittenFile DEF Changes
  <2>5. file' # None /\ file'.salt = s
    BY <2>2, <2>4, WriteSeen DEF Changes, Written
  <2>6. CASE r = None
    <3>1. Map!Delete(s, k)
      BY <2>2, <2>5, <2>6 DEF Changes, Map!Delete
    <3>2. QED
      BY <3>1, MapOf
  <2>7. CASE r # None
    <3>1. r \in Values \cup CAs
      BY <2>7 DEF Record
    <3>2. kept'[s][k] = r
      BY <2>2, <2>3 DEF Changes, Document
    <3>3. Map!Put(s, k)
      BY <2>2, <2>5, <3>1, <3>2 DEF Changes, Map!Put
    <3>4. QED
      BY <3>3, MapOf
  <2>8. QED
    BY <2>6, <2>7
<1>4. QED
  BY <1>1, <1>2, <1>3, FileEffect

(* The vault file is the map of VaultMap: the broker's writes of authorities *)
(* and the commands' writes of secrets each change one record of what is     *)
(* there, and none undoes or loses another.                                  *)
THEOREM VaultImplementsMap == Spec => ImplementsMap
<1>1. VaultInv /\ [Next]_vars => [Map!Next]_<<kept, IF file = None THEN 0 ELSE file.salt>>
  BY MapNext DEF vars
<1>2. QED
  BY <1>1, MapInit, VaultAlways, PTL DEF Spec, ImplementsMap, Map!Spec
==============================================================================

-------------------------------- MODULE Vault --------------------------------
(***************************************************************************)
(* The vault file (internal/vault), the commands that write it             *)
(* (`prison secret init, add, rm`), and the broker that reads it, adds      *)
(* certificate authorities to it (internal/broker/ca) and lets an unlock    *)
(* replace its open vault while requests use the old one                    *)
(* (internal/broker/secrets.go).                                            *)
(*                                                                          *)
(* A vault that is open in the broker is an instance: its key, the document *)
(* it has cached, the stamp of the file the document came from, its mutex,  *)
(* and the authorities of the Authorities that was made for it.             *)
(*                                                                          *)
(* Abstracted: cryptography (a key is the number of the `init` that made    *)
(* the salt, and opens exactly the files with that salt), the fields of a   *)
(* secret, leaf certificates. Every write gives the file a stamp of its own *)
(* (its size and modification time).                                        *)
(***************************************************************************)
EXTENDS Naturals

CONSTANTS
    Commands,    \* processes of `prison secret`
    Handlers,    \* requests inside the broker
    Instances,   \* vaults that were opened in the broker
    Names,       \* secrets
    Values,      \* what a secret can be
    Hosts,       \* hosts of intercepting routes
    None,        \* no process, no instance, no value, no document
    MaxWrites,   \* bound: writes of the file
    MaxCAs       \* bound: authorities that are created

ASSUME VaultNone ==
    /\ None \notin Commands \cup Handlers \cup Instances \cup Names \cup Values \cup Hosts
    /\ Commands \cap Handlers = {} /\ Names \cap Hosts = {}
    /\ Values \cap Nat = {}
ASSUME VaultBounds == MaxWrites \in Nat /\ MaxCAs \in Nat

VARIABLES
    file,     \* the vault file, None while there is none
    flock,    \* who holds the lock next to the file
    inst,     \* the instances
    vault,    \* broker.vault, and with it broker.authorities
    job,      \* handler -> its request and locals
    cmd,      \* command -> its step and locals
    minted,   \* authorities created so far
    seen,     \* history: handler -> what its secret was while it looked
    kept      \* history: salt -> the document last written with it

vars == <<file, flock, inst, vault, job, cmd, minted, seen, kept>>

CAs == 1..MaxCAs
Salts == 1..MaxWrites   \* the number of the write that made the vault
Keys == Names \cup Hosts
Record(k) == IF k \in Names THEN Values ELSE CAs
Document == {d \in [Keys -> Values \cup CAs \cup {None}] :
                \A k \in Keys : d[k] \in Record(k) \cup {None}}
File == [stamp : Salts, salt : Salts, doc : Document]
ASSUME VaultNoDocument == None \notin Document \cup File \cup CAs
emptyDocument == [k \in Keys |-> None]

\* `salt` 0 stands for a key that is zeroed, or not there yet.
Instance == [salt : 0..MaxWrites, doc : Document \cup {None}, stamp : 0..MaxWrites,
             mutex : Handlers \cup {None}, caMutex : Handlers \cup {None},
             loaded : [Hosts -> CAs \cup {None}]]
NoInstance == [salt |-> 0, doc |-> None, stamp |-> 0, mutex |-> None,
               caMutex |-> None, loaded |-> [h \in Hosts |-> None]]

Job == [pc : {"idle", "authority", "reload", "read", "set", "flock", "write",
              "swap", "lock", "done"},
        op : {"secret", "authority", "unlock"}, key : Keys \cup {None},
        v : Instances \cup {None}, salt : 0..MaxWrites, new : CAs \cup {None},
        answer : Values \cup CAs \cup {None}, doubt : BOOLEAN]
NoJob == [pc |-> "idle", op |-> "secret", key |-> None, v |-> None, salt |-> 0,
          new |-> None, answer |-> None, doubt |-> FALSE]

Cmd == [pc : {"idle", "create", "flock", "write"}, key : Names \cup {None},
        value : Values \cup {None}, salt : 0..MaxWrites, doc : Document \cup {None}]
NoCmd == [pc |-> "idle", key |-> None, value |-> None, salt |-> 0, doc |-> None]

Init ==
    /\ file = None
    /\ flock = None
    /\ inst = [v \in Instances |-> NoInstance]
    /\ vault = None
    /\ job = [h \in Handlers |-> NoJob]
    /\ cmd = [c \in Commands |-> NoCmd]
    /\ minted = 0
    /\ seen = [h \in Handlers |-> {}]
    /\ kept = [salt \in Salts |-> None]

----------------------------------------------------------------------------
At(h, pc) == job[h].pc = pc
Busy(h) == job[h].pc \notin {"idle", "done"}
Stamp == IF file = None THEN 0 ELSE file.stamp

\* decryptDocument: the salt is part of what the cipher authenticates, so a
\* key opens the files that were written with its own salt and no other.
Opens(salt) == file # None /\ file.salt = salt

\* What the file holds for a request, through the key that it has taken.
Visible(request) == IF Opens(request.salt) THEN file.doc[request.key] ELSE None

\* The history: conjunct of every action.
Watch ==
    /\ seen' = [h \in Handlers |->
                  IF job'[h].pc = "idle" \/ job'[h].op # "secret" THEN {}
                  ELSE IF job[h].pc = "done" THEN seen[h]
                  ELSE IF job[h].pc = "idle" THEN {Visible(job'[h])}
                  ELSE seen[h] \cup {Visible(job[h])'}]
    /\ kept' = IF file' = file THEN kept ELSE [kept EXCEPT ![file'.salt] = file'.doc]

\* writeLocked and replaceFile: the file is complete before a rename shows it.
CanWrite == Stamp < MaxWrites
Written(salt, doc) == [stamp |-> Stamp + 1, salt |-> salt, doc |-> doc]

----------------------------------------------------------------------------
\* The commands.

\* runSecretInit and Create: the check that there is no vault. The write
\* comes later and without the lock.
InitVault(c) ==
    /\ cmd[c] = NoCmd /\ file = None
    /\ cmd' = [cmd EXCEPT ![c].pc = "create"]
    /\ UNCHANGED <<file, flock, inst, vault, job, minted>> /\ Watch

\* Create writes an empty vault with a salt of its own.
Create(c) ==
    /\ cmd[c].pc = "create" /\ CanWrite
    /\ file' = Written(Stamp + 1, emptyDocument)
    /\ cmd' = [cmd EXCEPT ![c] = NoCmd]
    /\ UNCHANGED <<flock, inst, vault, job, minted>> /\ Watch

\* openSecretVault, of `prison secret add` (a value) and `rm` (None).
OpenVault(c) ==
    /\ cmd[c] = NoCmd /\ file # None
    /\ \E n \in Names, x \in Values \cup {None} :
         cmd' = [cmd EXCEPT ![c] = [NoCmd EXCEPT !.pc = "flock", !.key = n, !.value = x,
                                                 !.salt = file.salt]]
    /\ UNCHANGED <<file, flock, inst, vault, job, minted>> /\ Watch

\* lockAndReload of PutSecret and DeleteSecret: the lock, then the file as it
\* is now. It fails when the file has another salt by then.
LockAndReload(c) ==
    /\ cmd[c].pc = "flock" /\ flock = None
    /\ \/ /\ Opens(cmd[c].salt)
          /\ flock' = c
          /\ cmd' = [cmd EXCEPT ![c].pc = "write", ![c].doc = file.doc]
       \/ /\ ~Opens(cmd[c].salt)
          /\ cmd' = [cmd EXCEPT ![c] = NoCmd]
          /\ UNCHANGED flock
    /\ UNCHANGED <<file, inst, vault, job, minted>> /\ Watch

\* PutSecret and DeleteSecret write the changed copy; DeleteSecret does not
\* write when there is no such secret.
WriteSecret(c) ==
    /\ cmd[c].pc = "write"
    /\ IF cmd[c].value = None /\ cmd[c].doc[cmd[c].key] = None
       THEN UNCHANGED file
       ELSE /\ CanWrite
            /\ file' = Written(cmd[c].salt, [cmd[c].doc EXCEPT ![cmd[c].key] = cmd[c].value])
    /\ flock' = None
    /\ cmd' = [cmd EXCEPT ![c] = NoCmd]
    /\ UNCHANGED <<inst, vault, job, minted>> /\ Watch

\* A command ends with an error or is killed: the kernel drops its lock.
Die(c) ==
    /\ cmd[c] # NoCmd
    /\ flock' = IF flock = c THEN None ELSE flock
    /\ cmd' = [cmd EXCEPT ![c] = NoCmd]
    /\ UNCHANGED <<file, inst, vault, job, minted>> /\ Watch

----------------------------------------------------------------------------
\* Requests in the broker that read a secret or need an authority.

\* A request of before an unlock is still at work with the vault of then.
Overlap == \E h \in Handlers : Busy(h) /\ job[h].v \notin {vault, None}

\* currentVault or currentAuthorities.
Begin(h) ==
    /\ At(h, "idle") /\ vault # None
    /\ \E k \in Keys :
         job' = [job EXCEPT ![h] =
                   [NoJob EXCEPT !.key = k, !.v = vault,
                                 !.salt = inst[vault].salt, !.doubt = Overlap,
                                 !.op = IF k \in Names THEN "secret" ELSE "authority",
                                 !.pc = IF k \in Names THEN "reload" ELSE "authority"]]
    /\ UNCHANGED <<file, flock, inst, vault, cmd, minted>> /\ Watch

AuthorityUnlocked(h) ==
    LET v == job[h].v
        known == inst[v].loaded[job[h].key]
    IN
    /\ At(h, "authority")
    /\ job' = [job EXCEPT ![h].pc = IF known # None THEN "done" ELSE "reload",
                          ![h].answer = known]
    /\ UNCHANGED <<file, flock, inst, vault, cmd, minted>> /\ Watch

\* authorityLocked under the mutex of the Authorities: what is loaded is
\* served without a look at the vault.
AuthorityLocked(h) ==
    LET v == job[h].v
        known == inst[v].loaded[job[h].key]
    IN
    /\ At(h, "authority") /\ inst[v].caMutex = None
    /\ IF known # None
       THEN /\ job' = [job EXCEPT ![h].pc = "done", ![h].answer = known]
            /\ UNCHANGED inst
       ELSE /\ job' = [job EXCEPT ![h].pc = "reload"]
            /\ inst' = [inst EXCEPT ![v].caMutex = h]
    /\ UNCHANGED <<file, flock, vault, cmd, minted>> /\ Watch

\* createAuthority makes a certificate that no other is.
CreateAuthority ==
    /\ minted < MaxCAs
    /\ minted' = minted + 1

\* The end of Secret or Authority: the vault's mutex is given back. What is
\* not found is the answer for a secret; for an authority, authorityLocked
\* creates one. `next` is the instance as the reload left it.
Found(h, next, r, doubt) ==
    LET v == job[h].v IN
    /\ inst' = [inst EXCEPT ![v] =
                  IF job[h].op = "authority" /\ r # None
                  THEN [next EXCEPT !.mutex = None, !.caMutex = None, !.loaded[job[h].key] = r]
                  ELSE [next EXCEPT !.mutex = None]]
    /\ IF job[h].op = "authority" /\ r = None
       THEN /\ CreateAuthority
            /\ job' = [job EXCEPT ![h].pc = "set", ![h].new = minted + 1,
                                  ![h].doubt = @ \/ doubt]
       ELSE /\ job' = [job EXCEPT ![h].pc = "done", ![h].answer = r, ![h].doubt = @ \/ doubt]
            /\ UNCHANGED minted

ReloadTrustsCache(h) ==
    LET v == job[h].v IN
    /\ At(h, "reload") /\ inst[v].mutex = None
    /\ \/ /\ inst[v].salt = 0
          /\ Found(h, inst[v], None, FALSE)
       \/ /\ inst[v].salt # 0 /\ inst[v].doc # None
          /\ Found(h, inst[v], inst[v].doc[job[h].key], FALSE)
       \/ /\ inst[v].salt # 0 /\ inst[v].doc = None
          /\ inst' = [inst EXCEPT ![v].mutex = h]
          /\ job' = [job EXCEPT ![h].pc = "read"]
          /\ UNCHANGED minted
    /\ UNCHANGED <<file, flock, vault, cmd>> /\ Watch

\* reloadLocked under the vault's mutex, up to its Stat: a zeroed key is an
\* error, a file with the stamp of the cached document is not read again.
ReloadLocked(h) ==
    LET v == job[h].v IN
    /\ At(h, "reload") /\ inst[v].mutex = None
    /\ \/ /\ inst[v].salt = 0
          /\ Found(h, inst[v], None, FALSE)
       \/ /\ inst[v].salt # 0 /\ inst[v].doc # None /\ inst[v].stamp = Stamp
          /\ Found(h, inst[v], inst[v].doc[job[h].key], FALSE)
       \/ /\ inst[v].salt # 0 /\ (inst[v].doc = None \/ inst[v].stamp # Stamp)
          /\ inst' = [inst EXCEPT ![v].mutex = h]
          /\ job' = [job EXCEPT ![h].pc = "read"]
          /\ UNCHANGED minted
    /\ UNCHANGED <<file, flock, vault, cmd>> /\ Watch

\* readContainer takes the stamp from the file that it has open. A file that
\* another key wrote cannot be decrypted.
LoadedFrom(instance, stamp) ==
    IF Opens(instance.salt)
    THEN [instance EXCEPT !.doc = file.doc, !.stamp = stamp]
    ELSE [instance EXCEPT !.doc = None]

ReadContainer(h) ==
    LET next == LoadedFrom(inst[job[h].v], Stamp) IN
    /\ At(h, "read")
    /\ Found(h, next, IF next.doc = None THEN None ELSE next.doc[job[h].key], next.doc = None)
    /\ UNCHANGED <<file, flock, vault, cmd>> /\ Watch

\* The file cannot be read for the moment, which Secret and Authority do not
\* tell from a record that is not there.
ReadFails(h) ==
    /\ At(h, "read")
    /\ Found(h, [inst[job[h].v] EXCEPT !.doc = None], None, TRUE)
    /\ UNCHANGED <<file, flock, vault, cmd>> /\ Watch

\* SetAuthority takes the vault's mutex; lockAndReload looks at the key.
SetAuthority(h) ==
    LET v == job[h].v IN
    /\ At(h, "set") /\ inst[v].mutex = None
    /\ IF inst[v].salt = 0
       THEN /\ job' = [job EXCEPT ![h].pc = "done"]
            /\ inst' = [inst EXCEPT ![v].caMutex = None]
       ELSE /\ job' = [job EXCEPT ![h].pc = "flock"]
            /\ inst' = [inst EXCEPT ![v].mutex = h]
    /\ UNCHANGED <<file, flock, vault, cmd, minted>> /\ Watch

LockAuthorityKeepsCache(h) ==
    LET v == job[h].v
        next == IF inst[v].doc # None THEN inst[v] ELSE LoadedFrom(inst[v], Stamp)
    IN
    /\ At(h, "flock") /\ flock = None
    /\ IF next.doc = None
       THEN /\ job' = [job EXCEPT ![h].pc = "done"]
            /\ inst' = [inst EXCEPT ![v] = [next EXCEPT !.mutex = None, !.caMutex = None]]
            /\ UNCHANGED flock
       ELSE /\ job' = [job EXCEPT ![h].pc = "write"]
            /\ inst' = [inst EXCEPT ![v] = next]
            /\ flock' = h
    /\ UNCHANGED <<file, vault, cmd, minted>> /\ Watch

\* lockAndReload waits for the lock, and reads the file whatever its stamp.
LockAuthority(h) ==
    LET v == job[h].v
        next == LoadedFrom(inst[v], Stamp)
    IN
    /\ At(h, "flock") /\ flock = None
    /\ IF next.doc = None
       THEN /\ job' = [job EXCEPT ![h].pc = "done"]
            /\ inst' = [inst EXCEPT ![v] = [next EXCEPT !.mutex = None, !.caMutex = None]]
            /\ UNCHANGED flock
       ELSE /\ job' = [job EXCEPT ![h].pc = "write"]
            /\ inst' = [inst EXCEPT ![v] = next]
            /\ flock' = h
    /\ UNCHANGED <<file, vault, cmd, minted>> /\ Watch

\* writeLocked puts the authority into the document, and authorityLocked
\* keeps it as loaded; or the write fails and the request with it.
WriteAuthority(h) ==
    LET v == job[h].v
        k == job[h].key
        doc == [inst[v].doc EXCEPT ![k] = job[h].new]
    IN
    /\ At(h, "write")
    /\ flock' = None
    /\ \/ /\ CanWrite
          /\ file' = Written(inst[v].salt, doc)
          /\ inst' = [inst EXCEPT ![v] = [@ EXCEPT !.doc = doc, !.stamp = Stamp + 1,
                                            !.mutex = None, !.caMutex = None,
                                            !.loaded[k] = job[h].new]]
          /\ job' = [job EXCEPT ![h].pc = "done", ![h].answer = job[h].new]
       \/ /\ inst' = [inst EXCEPT ![v].mutex = None, ![v].caMutex = None]
          /\ job' = [job EXCEPT ![h].pc = "done"]
          /\ UNCHANGED file
    /\ UNCHANGED <<vault, cmd, minted>> /\ Watch

Return(h) ==
    /\ At(h, "done")
    /\ job' = [job EXCEPT ![h] = NoJob]
    /\ UNCHANGED <<file, flock, inst, vault, cmd, minted>> /\ Watch

----------------------------------------------------------------------------
\* `prison secret unlock`, and the end of the broker.

Unused(v) == v # vault /\ inst[v].salt = 0 /\ \A h \in Handlers : job[h].v # v

\* unlockVault opens the vault before it takes the mutex of broker.vault.
Unlock(h) ==
    /\ At(h, "idle") /\ file # None
    /\ \E v \in Instances :
         /\ Unused(v)
         /\ inst' = [inst EXCEPT ![v] = [NoInstance EXCEPT !.salt = file.salt, !.doc = file.doc,
                                                           !.stamp = Stamp]]
         /\ job' = [job EXCEPT ![h] = [NoJob EXCEPT !.pc = "swap", !.op = "unlock", !.v = v]]
    /\ UNCHANGED <<file, flock, vault, cmd, minted>> /\ Watch

ReplaceKeepsKey(h, v) ==
    /\ vault' = v
    /\ job' = [other \in Handlers |->
                 IF other = h THEN NoJob ELSE [job[other] EXCEPT !.doubt = @ \/ Busy(other)]]

\* broker.vault becomes `v`, and job `h` holds the vault that it was.
Replace(h, v) ==
    /\ vault' = v
    /\ job' = [other \in Handlers |->
                 IF other = h
                 THEN [NoJob EXCEPT !.op = "unlock", !.v = vault,
                                    !.pc = IF vault = None THEN "idle" ELSE "lock"]
                 ELSE [job[other] EXCEPT !.doubt = @ \/ Busy(other)]]

\* unlockVault under the mutex of broker.vault.
Swap(h) ==
    /\ At(h, "swap")
    /\ Replace(h, job[h].v)
    /\ UNCHANGED <<file, flock, inst, cmd, minted>> /\ Watch

\* lockVault, when the broker stops: a new broker has no open vault.
LockVault(h) ==
    /\ At(h, "idle") /\ vault # None
    /\ Replace(h, None)
    /\ UNCHANGED <<file, flock, inst, cmd, minted>> /\ Watch

\* Lock zeroes the key of the vault that was replaced, as soon as no request
\* holds its mutex.
Lock(h) ==
    LET v == job[h].v IN
    /\ At(h, "lock") /\ inst[v].mutex = None
    /\ inst' = [inst EXCEPT ![v].salt = 0, ![v].doc = None, ![v].stamp = 0]
    /\ job' = [job EXCEPT ![h] = NoJob]
    /\ UNCHANGED <<file, flock, vault, cmd, minted>> /\ Watch

----------------------------------------------------------------------------
Next ==
    \/ \E c \in Commands :
         \/ InitVault(c) \/ Create(c) \/ OpenVault(c)
         \/ LockAndReload(c) \/ WriteSecret(c) \/ Die(c)
    \/ \E h \in Handlers :
         \/ Begin(h) \/ AuthorityLocked(h) \/ ReloadLocked(h) \/ ReadContainer(h)
         \/ ReadFails(h) \/ SetAuthority(h) \/ LockAuthority(h) \/ WriteAuthority(h)
         \/ Return(h) \/ Unlock(h) \/ Swap(h) \/ LockVault(h) \/ Lock(h)

Spec == Init /\ [][Next]_vars
----------------------------------------------------------------------------
TypeOK ==
    /\ file \in File \cup {None}
    /\ flock \in Commands \cup Handlers \cup {None}
    /\ inst \in [Instances -> Instance]
    /\ vault \in Instances \cup {None}
    /\ job \in [Handlers -> Job]
    /\ cmd \in [Commands -> Cmd]
    /\ minted \in 0..MaxCAs
    /\ seen \in [Handlers -> SUBSET (Values \cup {None})]
    /\ kept \in [Salts -> Document \cup {None}]

(* A request that looks up a secret gets what the vault held at some moment  *)
(* of the request, in spite of the cached document and of writers that do    *)
(* not know of the broker (vault.go:69-70). It may get nothing although the  *)
(* secret was there all the time only when an unlock replaced the vault in    *)
(* its hands, or the file could not be read.                                 *)
ReadsAreCurrent ==
    \A h \in Handlers :
        At(h, "done") /\ job[h].op = "secret" =>
            \/ job[h].answer \in seen[h]
            \/ job[h].answer = None /\ job[h].doubt

(* A vault that an unlock or the end of the broker has replaced keeps its    *)
(* key no longer than that unlock runs (secrets.go:27-29, 39-41): outside of *)
(* them only the vault of broker.vault can be used.                          *)
KeysHeld ==
    \A v \in Instances :
        inst[v].salt # 0 =>
            v = vault \/ \E h \in Handlers : job[h].v = v /\ job[h].pc \in {"swap", "lock"}

(* The authority of a host, which boxes have in their trust stores, is       *)
(* replaced only by a request that did not find it because it overlapped an  *)
(* unlock or a failed read (ca.go:141-147 takes both for a host without an   *)
(* authority). Otherwise it stays, whatever other requests and commands do.  *)
AuthorityKept ==
    [][\A k \in Hosts :
         (file # None /\ file.doc[k] # None /\ file'.salt = file.salt)
           => \/ file'.doc[k] = file.doc[k]
              \/ \E h \in Handlers : At(h, "write") /\ job[h].key = k /\ job[h].doubt]_file

(* Each vault is the map that VaultMap promises, and the file is one of      *)
(* them: the broker and the commands never undo each other's writes of it.   *)
Map == INSTANCE VaultMap WITH
    Vaults <- Salts,
    NoVault <- 0,
    Records <- Values \cup CAs,
    Nothing <- None,
    held <- kept,
    shown <- IF file = None THEN 0 ELSE file.salt
ImplementsMap == Map!Spec
============================================================================

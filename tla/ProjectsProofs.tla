--------------------------- MODULE ProjectsProofs ---------------------------
(***************************************************************************)
(* What the record of a project says of trust, of setup and of the box is   *)
(* true, for every set of processes, projects and contents of prison.toml.  *)
(***************************************************************************)
EXTENDS Projects, TLAPS

\* A command that runs is about a project, and what it goes by when it runs
\* or approves commands of prison.toml is a content of that file.
Formed(j) ==
    /\ j.pc = "idle" => j = Idle
    /\ j.pc # "idle" => j.of \in Projects
    /\ j.trusted \/ j.pc \in {"confirm", "approve"} => j.conf \in Configs

\* What a command takes for trusted is among the contents that were approved.
Honest(j, yes) ==
    /\ j.rec.trusted \in yes \cup {Missing}
    /\ j.trusted \/ j.pc = "approve" => j.conf \in yes

HonestRecord(r, yes) == r.trusted \in yes \cup {Missing} /\ (~r.there => r = NoRecord)
HonestBox(x, yes) == x.ran \subseteq yes \cup {Detected} /\ (x.running => x.there)

\* What a record says of a box when nobody is at work with them.
Settled(r, x) ==
    IF x.there THEN r.setup \in x.ran \cup {NoSetup}
    ELSE r.setup = NoSetup /\ ~r.shaped

\* The same while a command is at work.
Underway(j, r, x) ==
    /\ j.pc \notin {"forget", "forgotten", "remove"} => Settled(r, x)
    /\ j.pc \notin {"open", "look", "destroy", "forget", "remove"} => j.rec = r
    /\ j.pc \in {"shape", "setup", "run", "signature", "destroy"} => x.there
    /\ j.pc \in {"forget", "forgotten", "remove"} => ~x.there
    /\ j.pc = "signature" => (IF j.trusted THEN j.conf ELSE Detected) \in x.ran

JobsFormed == \A c \in Procs : Formed(job[c])

Approvals ==
    /\ \A p \in Projects : HonestRecord(record[p], approved[p]) /\ HonestBox(box[p], approved[p])
    /\ \A c \in Procs : job[c].pc # "idle" => Honest(job[c], approved[job[c].of])

\* Of a project whose commands never overlapped and never died.
TidyProjects ==
    \A p \in Projects \ messy :
        /\ \A c, d \in Procs : job[c].of = p /\ job[d].of = p => c = d
        /\ (\A c \in Procs : job[c].of # p) => Settled(record[p], box[p])
        /\ \A c \in Procs : job[c].of = p =>
             /\ Underway(job[c], record[p], box[p])
             /\ job[c].pc \in {"open", "look"} \/ p \in dirs

ProjectsInv == TypeOK /\ JobsFormed /\ Approvals /\ TidyProjects

----------------------------------------------------------------------------
LEMMA IdleFields ==
    /\ Idle \in Job /\ Idle.pc = "idle" /\ Idle.of = NoProject /\ Idle.trusted = FALSE
    /\ Idle.rec = NoRecord
    /\ NoRecord \in Record /\ NoRecord.trusted = Missing /\ NoRecord.setup = NoSetup
    /\ NoRecord.shaped = FALSE /\ NoRecord.there = FALSE
    /\ NoBox \in Box /\ NoBox.there = FALSE /\ NoBox.running = FALSE /\ NoBox.ran = {}
    /\ NewBox \in Box /\ NewBox.there = TRUE /\ NewBox.running = TRUE /\ NewBox.ran = {}
<1>1. NoRecord \in Record
  BY DEF NoRecord, Record
<1>2. Idle \in Job
  BY <1>1 DEF Idle, Job, Phases, Commands
<1>3. QED
  BY <1>1, <1>2 DEF Idle, NoRecord, NoBox, NewBox, Box

LEMMA InitKeeps == Init => ProjectsInv
<1> SUFFICES ASSUME Init PROVE ProjectsInv
  OBVIOUS
<1>1. TypeOK
  BY IdleFields, ProjectsBounds DEF Init, TypeOK
<1>2. JobsFormed
  BY IdleFields DEF Init, JobsFormed, Formed
<1>3. Approvals
  BY IdleFields DEF Init, Approvals, HonestRecord, HonestBox, Honest
<1>4. TidyProjects
  BY IdleFields, ProjectsNames DEF Init, TidyProjects, Settled
<1>5. QED
  BY <1>1, <1>2, <1>3, <1>4 DEF ProjectsInv

\* A step of a command changes nothing of another project; and of its own,
\* when it is tidy, nobody else knows anything.
LEMMA OwnProject ==
    ASSUME ProjectsInv, NEW c \in Procs, NEW p \in Projects, NEW next \in Job,
           job[c].pc # "idle", job[c].of = p, job' = [job EXCEPT ![c] = next],
           UNCHANGED <<config, edits, messy>>,
           dirs' \subseteq Projects, record' \in [Projects -> Record], box' \in [Projects -> Box],
           approved' \in [Projects -> SUBSET Configs], approved[p] \subseteq approved'[p],
           \A q \in Projects \ {p} :
             /\ q \in dirs' <=> q \in dirs
             /\ record'[q] = record[q] /\ box'[q] = box[q] /\ approved'[q] = approved[q],
           HonestRecord(record'[p], approved'[p]), HonestBox(box'[p], approved'[p]),
           \/ next = Idle
           \/ /\ next.pc # "idle" /\ next.of = p
              /\ Formed(next) /\ Honest(next, approved'[p]),
           p \notin messy =>
             IF next = Idle THEN Settled(record'[p], box'[p])
             ELSE Underway(next, record'[p], box'[p])
                    /\ (next.pc \in {"open", "look"} \/ p \in dirs')
    PROVE  ProjectsInv'
<1>1. /\ job' \in [Procs -> Job] /\ job'[c] = next
      /\ \A d \in Procs \ {c} : job'[d] = job[d]
  BY DEF ProjectsInv, TypeOK
<1>2. TypeOK'
  BY <1>1 DEF ProjectsInv, TypeOK
<1>3. JobsFormed'
  BY <1>1, IdleFields DEF ProjectsInv, JobsFormed, Formed
<1>4. Approvals'
  <2>1. \A q \in Projects : HonestRecord(record'[q], approved'[q])
                          /\ HonestBox(box'[q], approved'[q])
    BY DEF ProjectsInv, Approvals
  <2>2. SUFFICES ASSUME NEW d \in Procs, job'[d].pc # "idle"
                 PROVE  Honest(job'[d], approved'[job'[d].of])
    BY <2>1 DEF Approvals
  <2>3. CASE d = c
    BY <1>1, <2>2, <2>3, IdleFields
  <2>4. CASE d # c
    <3>1. job'[d] = job[d] /\ job[d].of \in Projects /\ Honest(job[d], approved[job[d].of])
      BY <1>1, <2>2, <2>4 DEF ProjectsInv, Approvals, JobsFormed, Formed
    <3>2. approved[job[d].of] \subseteq approved'[job[d].of]
      BY <3>1
    <3>3. QED
      BY <3>1, <3>2 DEF Honest
  <2>5. QED
    BY <2>3, <2>4
<1>5. TidyProjects'
  <2>1. SUFFICES ASSUME NEW q \in Projects \ messy
                 PROVE  /\ \A a, b \in Procs : job'[a].of = q /\ job'[b].of = q => a = b
                        /\ (\A a \in Procs : job'[a].of # q) => Settled(record'[q], box'[q])
                        /\ \A a \in Procs : job'[a].of = q
                             => Underway(job'[a], record'[q], box'[q])
                                  /\ (job'[a].pc \in {"open", "look"} \/ q \in dirs')
    BY DEF TidyProjects
  <2>2. next.of \in {p, NoProject} /\ (next = Idle <=> next.of = NoProject)
    BY IdleFields, ProjectsNames
  <2>3. CASE q = p
    <3>1. \A d \in Procs \ {c} : job[d].of # p
      BY <2>1, <2>3 DEF ProjectsInv, TidyProjects
    <3>2. QED
      BY <1>1, <2>1, <2>2, <2>3, <3>1, ProjectsNames
  <2>4. CASE q # p
    <3>1. job'[c].of # q /\ job[c].of # q
      BY <1>1, <2>1, <2>2, <2>4, ProjectsNames
    <3>2. record'[q] = record[q] /\ box'[q] = box[q] /\ (q \in dirs' <=> q \in dirs)
      BY <2>4
    <3>3. \A d \in Procs : job'[d].of = q => job'[d] = job[d]
      BY <1>1, <3>1
    <3>4. (\A a \in Procs : job'[a].of # q) => \A a \in Procs : job[a].of # q
      BY <1>1, <3>1
    <3>5. QED
      BY <2>1, <3>2, <3>3, <3>4 DEF ProjectsInv, TidyProjects, Underway
  <2>5. QED
    BY <2>3, <2>4
<1>6. QED
  BY <1>2, <1>3, <1>4, <1>5 DEF ProjectsInv

----------------------------------------------------------------------------
\* The records that the steps write.
LEMMA MovedJob ==
    ASSUME NEW j \in Job, NEW phase \in Phases, NEW next, next = [j EXCEPT !.pc = phase]
    PROVE  /\ next \in Job /\ next.pc = phase /\ next.rec = j.rec /\ next.cmd = j.cmd
           /\ next.of = j.of /\ next.conf = j.conf /\ next.trusted = j.trusted
BY DEF Job

\* What is known of a command that is at work.
LEMMA AtWork ==
    ASSUME ProjectsInv, NEW c \in Procs, job[c].pc # "idle"
    PROVE  /\ job[c] \in Job /\ job[c].of \in Projects /\ job[c].rec \in Record
           /\ Formed(job[c]) /\ Honest(job[c], approved[job[c].of])
           /\ HonestRecord(record[job[c].of], approved[job[c].of])
           /\ HonestBox(box[job[c].of], approved[job[c].of])
           /\ record[job[c].of] \in Record /\ box[job[c].of] \in Box
           /\ approved[job[c].of] \subseteq Configs
           /\ job[c].of \notin messy =>
                Underway(job[c], record[job[c].of], box[job[c].of])
                  /\ (job[c].pc \in {"open", "look"} \/ job[c].of \in dirs)
<1>1. job[c] \in Job /\ Formed(job[c]) /\ job[c].of \in Projects
  BY DEF ProjectsInv, TypeOK, JobsFormed, Formed
<1>2. QED
  BY <1>1 DEF ProjectsInv, TypeOK, Approvals, TidyProjects, Job

\* A command that returns or goes on without a change of the record or the box.
LEMMA MoveKeeps ==
    ASSUME ProjectsInv, NEW c \in Procs, job[c].pc # "idle", NEW next \in Job,
           job' = [job EXCEPT ![c] = next],
           UNCHANGED <<record, box, config, edits, history>>,
           dirs' \in {dirs, dirs \cup {job[c].of}},
           \/ next = Idle
           \/ /\ next.pc # "idle" /\ next.of = job[c].of
              /\ Formed(next) /\ Honest(next, approved[job[c].of]),
           job[c].of \notin messy =>
             IF next = Idle THEN Settled(record[job[c].of], box[job[c].of])
             ELSE Underway(next, record[job[c].of], box[job[c].of])
                    /\ (next.pc \in {"open", "look"} \/ job[c].of \in dirs')
    PROVE  ProjectsInv'
<1>1. PICK p \in Projects : p = job[c].of
  BY AtWork
<1>2. /\ HonestRecord(record[p], approved[p]) /\ HonestBox(box[p], approved[p])
      /\ dirs \subseteq Projects /\ TypeOK
  BY <1>1, AtWork DEF ProjectsInv, TypeOK
<1>3. /\ dirs' \subseteq Projects /\ \A q \in Projects \ {p} : q \in dirs' <=> q \in dirs
  BY <1>1, <1>2
<1>4. UNCHANGED <<record, box, config, edits, approved, messy>>
  BY DEF history
<1>5. QED
  BY <1>1, <1>2, <1>3, <1>4, OwnProject DEF TypeOK

\* A command that saves its copy of the record.
LEMMA SaveKeeps ==
    ASSUME ProjectsInv, NEW c \in Procs, job[c].pc # "idle", NEW rec \in Record,
           NEW phase \in {"idle", "alloc", "box", "setup"}, Save(c, rec, phase),
           UNCHANGED <<dirs, box, config, edits, history>>,
           rec.trusted \in approved[job[c].of] \cup {Missing},
           job[c].of \notin messy =>
             /\ job[c].of \in dirs /\ Settled(rec, box[job[c].of])
             /\ phase = "setup" => box[job[c].of].there
    PROVE  ProjectsInv'
<1>1. PICK p \in Projects : p = job[c].of
  BY AtWork
<1>2. /\ HonestRecord(record[p], approved[p]) /\ HonestBox(box[p], approved[p]) /\ TypeOK
      /\ job[c] \in Job /\ Formed(job[c]) /\ Honest(job[c], approved[p])
  BY <1>1, AtWork DEF ProjectsInv
<1>3. UNCHANGED <<dirs, box, config, edits, approved, messy>>
  BY DEF history
<1>4. CASE p \notin dirs
  <2>1. job' = [job EXCEPT ![c] = Idle] /\ UNCHANGED record
    BY <1>1, <1>4 DEF Save, Return
  <2>2. QED
    BY <1>1, <1>3, <1>4, <2>1, IdleFields, MoveKeeps
<1>5. CASE p \in dirs
  <2>1. PICK saved : saved = [rec EXCEPT !.there = TRUE]
    OBVIOUS
  <2>2. /\ saved \in Record /\ saved.there = TRUE /\ saved.trusted = rec.trusted
        /\ saved.setup = rec.setup /\ saved.shaped = rec.shaped
    BY <2>1 DEF Record
  <2>3. record' = [record EXCEPT ![p] = saved]
    BY <1>1, <1>5, <2>1 DEF Save
  <2>4. /\ record' \in [Projects -> Record] /\ record'[p] = saved
        /\ \A q \in Projects \ {p} : record'[q] = record[q]
    BY <1>2, <2>2, <2>3 DEF TypeOK
  <2>5. HonestRecord(saved, approved[p])
    BY <1>1, <2>2 DEF HonestRecord
  <2>6. p \notin messy => Settled(saved, box[p])
    BY <1>1, <2>2 DEF Settled
  <2>7. CASE phase = "idle"
    <3>1. job' = [job EXCEPT ![c] = Idle]
      BY <1>1, <1>5, <2>7 DEF Save, Return
    <3>2. QED
      BY <1>1, <1>2, <1>3, <2>4, <2>5, <2>6, <3>1, IdleFields, OwnProject DEF TypeOK
  <2>8. CASE phase # "idle"
    <3>1. PICK old \in Job : old = job[c]
      BY <1>2
    <3>2. PICK next : next = [old EXCEPT !.pc = phase, !.rec = saved, !.block = NoBlock]
      OBVIOUS
    <3>3. job' = [job EXCEPT ![c] = next]
      <4>1. job' = [job EXCEPT ![c].pc = phase, ![c].rec = saved, ![c].block = NoBlock]
        BY <1>1, <1>5, <2>1, <2>8 DEF Save
      <4>2. QED
        BY <1>2, <3>1, <3>2, <4>1 DEF TypeOK
    <3>4. phase \in Phases
      BY DEF Phases
    <3>5. /\ next \in Job /\ next.pc = phase /\ next.rec = saved /\ next.of = old.of
          /\ next.conf = old.conf /\ next.trusted = old.trusted
      <4>1. saved \in Record
        BY <2>2
      <4>2. QED
        BY ONLY <3>2, <3>4, <4>1 DEF Job
    <3>6. Formed(next) /\ Honest(next, approved[p])
      BY <1>1, <1>2, <2>2, <2>8, <3>1, <3>5 DEF Formed, Honest
    <3>7. p \notin messy => Underway(next, saved, box[p])
                              /\ (next.pc \in {"open", "look"} \/ p \in dirs)
      BY <1>1, <1>5, <2>6, <2>8, <3>5 DEF Underway
    <3>8. QED
      BY ZenonT(60), <1>1, <1>2, <1>3, <2>4, <2>5, <2>8, <3>1, <3>3, <3>5, <3>6, <3>7, IdleFields,
         OwnProject DEF TypeOK
  <2>9. QED
    BY <2>7, <2>8
<1>6. QED
  BY <1>4, <1>5

----------------------------------------------------------------------------
LEMMA BeginKeeps == ASSUME ProjectsInv, NEW c \in Procs, Begin(c) PROVE ProjectsInv'
<1>1. job[c] = Idle
  BY DEF Begin, At, ProjectsInv, JobsFormed, Formed
<1>2. PICK p \in Projects, cmd \in Commands :
        /\ job' = [job EXCEPT ![c] = [Idle EXCEPT !.cmd = cmd, !.of = p,
             !.pc = IF cmd \in {"up", "setup", "trust"} THEN "open" ELSE "look"]]
        /\ messy' = IF Working(p) # {} THEN messy \cup {p} ELSE messy
  BY DEF Begin
<1>3. PICK next : next = [Idle EXCEPT !.cmd = cmd, !.of = p,
        !.pc = IF cmd \in {"up", "setup", "trust"} THEN "open" ELSE "look"]
  OBVIOUS
<1>4. /\ next.pc \in {"open", "look"} /\ next.of = p /\ next.trusted = FALSE
      /\ next.rec = NoRecord
  BY <1>3 DEF Idle
<1>5. next \in Job
  BY ONLY <1>3, IdleFields DEF Idle, Job, Phases
<1>6. /\ job' \in [Procs -> Job] /\ job'[c] = next
      /\ \A d \in Procs \ {c} : job'[d] = job[d]
  BY <1>2, <1>3, <1>5 DEF ProjectsInv, TypeOK
<1>7. UNCHANGED <<dirs, record, box, config, edits, approved>>
  BY DEF Begin
<1>8. TypeOK'
  BY <1>2, <1>6, <1>7 DEF ProjectsInv, TypeOK
<1>9. JobsFormed'
  BY <1>4, <1>6 DEF ProjectsInv, JobsFormed, Formed
<1>10. Approvals'
  BY <1>4, <1>6, <1>7, IdleFields DEF ProjectsInv, Approvals, Honest
<1>11. TidyProjects'
  <2>1. SUFFICES ASSUME NEW q \in Projects \ messy'
                 PROVE  /\ \A a, b \in Procs : job'[a].of = q /\ job'[b].of = q => a = b
                        /\ (\A a \in Procs : job'[a].of # q) => Settled(record[q], box[q])
                        /\ \A a \in Procs : job'[a].of = q
                             => Underway(job'[a], record[q], box[q])
                                  /\ (job'[a].pc \in {"open", "look"} \/ q \in dirs)
    BY <1>7 DEF TidyProjects
  <2>2. q \notin messy
    BY <1>2, <2>1
  <2>3. CASE q = p
    <3>1. \A d \in Procs : job[d].of # p
      BY <1>2, <2>1, <2>3 DEF Working
    <3>2. Settled(record[p], box[p])
      BY <2>2, <2>3, <3>1 DEF ProjectsInv, TidyProjects
    <3>3. QED
      BY <1>4, <1>6, <2>3, <3>1, <3>2 DEF Underway
  <2>4. CASE q # p
    <3>1. job'[c].of # q /\ job[c].of # q
      BY <1>1, <1>4, <1>6, <2>1, <2>4, IdleFields, ProjectsNames
    <3>2. \A d \in Procs : (job'[d].of = q <=> job[d].of = q)
                             /\ (job'[d].of = q => job'[d] = job[d])
      BY <1>6, <3>1
    <3>3. QED
      BY <2>1, <2>2, <3>2 DEF ProjectsInv, TidyProjects
  <2>5. QED
    BY <2>3, <2>4
<1>12. QED
  BY <1>8, <1>9, <1>10, <1>11 DEF ProjectsInv

\* A command that died can leave its project in disorder, and only its own.
LEMMA CrashKeeps == ASSUME ProjectsInv, NEW c \in Procs, Crash(c) PROVE ProjectsInv'
<1>1. /\ job' = [job EXCEPT ![c] = Idle] /\ messy' = messy \cup {job[c].of}
      /\ UNCHANGED <<dirs, record, box, config, edits, approved>>
      /\ job[c].pc # "idle"
  BY DEF Crash, Return, At
<1>2. job[c].of \in Projects
  BY <1>1, AtWork
<1>3. /\ job' \in [Procs -> Job] /\ job'[c] = Idle
      /\ \A d \in Procs \ {c} : job'[d] = job[d]
  BY <1>1, IdleFields DEF ProjectsInv, TypeOK
<1>4. TypeOK' /\ JobsFormed'
  BY <1>1, <1>2, <1>3, IdleFields DEF ProjectsInv, TypeOK, JobsFormed, Formed
<1>5. Approvals'
  BY <1>1, <1>3, IdleFields DEF ProjectsInv, Approvals
<1>6. TidyProjects'
  <2>1. SUFFICES ASSUME NEW q \in Projects \ messy'
                 PROVE  /\ \A a, b \in Procs : job'[a].of = q /\ job'[b].of = q => a = b
                        /\ (\A a \in Procs : job'[a].of # q) => Settled(record[q], box[q])
                        /\ \A a \in Procs : job'[a].of = q
                             => Underway(job'[a], record[q], box[q])
                                  /\ (job'[a].pc \in {"open", "look"} \/ q \in dirs)
    BY <1>1 DEF TidyProjects
  <2>2. q \notin messy /\ job[c].of # q /\ job'[c].of # q
    BY <1>1, <1>3, <2>1, IdleFields, ProjectsNames
  <2>3. \A d \in Procs : (job'[d].of = q <=> job[d].of = q)
                           /\ (job'[d].of = q => job'[d] = job[d])
    BY <1>3, <2>2
  <2>4. QED
    BY <2>1, <2>2, <2>3 DEF ProjectsInv, TidyProjects
<1>7. QED
  BY <1>4, <1>5, <1>6 DEF ProjectsInv

LEMMA EditKeeps == ASSUME ProjectsInv, NEW p \in Projects, Edit(p) PROVE ProjectsInv'
<1>1. PICK conf \in Configs \cup {Missing} : config' = [config EXCEPT ![p] = conf]
  BY DEF Edit
<1>2. edits' \in 0 .. MaxEdits
  BY ProjectsBounds DEF Edit, ProjectsInv, TypeOK
<1>3. UNCHANGED <<dirs, record, box, job, approved, messy>>
  BY DEF Edit, history
<1>4. QED
  BY <1>1, <1>2, <1>3 DEF ProjectsInv, TypeOK, JobsFormed, Approvals, TidyProjects

LEMMA OpenKeeps == ASSUME ProjectsInv, NEW c \in Procs, Open(c) PROVE ProjectsInv'
<1>1. job[c].pc = "open"
  BY DEF Open, At
<1>2. PICK old \in Job : old = job[c]
  BY <1>1, AtWork
<1>3. PICK p \in Projects : p = old.of
  BY <1>1, <1>2, AtWork
<1>4. PICK conf \in Configs \cup {Missing} : conf = config[p]
  BY DEF ProjectsInv, TypeOK
<1>5. PICK trusted \in BOOLEAN :
        trusted = (conf # Missing /\ record[p].there /\ record[p].trusted = conf)
  OBVIOUS
<1>6. PICK phase : phase = Opened(old.cmd, box[p].running, conf # Missing, trusted)
  OBVIOUS
<1>7. UNCHANGED <<record, box, config, edits, history>> /\ dirs' = dirs \cup {p}
  BY <1>2, <1>3 DEF Open
<1>8. /\ HonestRecord(record[p], approved[p]) /\ HonestBox(box[p], approved[p])
      /\ record[p] \in Record
      /\ p \notin messy => Settled(record[p], box[p])
  BY SMTT(60), <1>1, <1>2, <1>3, AtWork DEF Underway
<1>9. CASE phase = "idle"
  <2>1. job' = [job EXCEPT ![c] = Idle]
    BY <1>2, <1>3, <1>4, <1>5, <1>6, <1>9 DEF Open, Return
  <2>2. QED
    BY <1>1, <1>2, <1>3, <1>7, <1>8, <2>1, IdleFields, MoveKeeps
<1>10. CASE phase # "idle"
  <2>1. /\ phase \in {"ensure", "setup", "confirm"}
        /\ phase = "setup" => box[p].running
        /\ phase = "confirm" => conf # Missing
    BY <1>6, <1>10 DEF Opened
  <2>2. PICK shown \in Configs \cup {Missing} :
          shown = IF trusted \/ phase = "confirm" THEN conf ELSE Missing
    OBVIOUS
  <2>3. PICK rec \in Record : rec = record[p]
    BY <1>8
  <2>4. PICK next : next = [old EXCEPT !.pc = phase, !.rec = rec, !.trusted = trusted,
                                       !.conf = shown]
    OBVIOUS
  <2>5. job' = [job EXCEPT ![c] = next]
    <3>1. job' = [job EXCEPT ![c].pc = phase, ![c].rec = rec, ![c].trusted = trusted,
                             ![c].conf = shown]
      BY <1>2, <1>3, <1>4, <1>5, <1>6, <1>10, <2>2, <2>3 DEF Open
    <3>2. QED
      BY <1>2, <2>4, <3>1 DEF ProjectsInv, TypeOK
  <2>6. /\ next.pc = phase /\ next.rec = rec /\ next.trusted = trusted /\ next.conf = shown
        /\ next.of = p
    BY ONLY <2>4, <1>3 DEF Job
  <2>7. next \in Job
    BY ONLY <2>1, <2>4 DEF Job, Phases
  <2>8. Formed(next) /\ Honest(next, approved[p])
    BY <1>5, <1>8, <2>1, <2>2, <2>3, <2>6 DEF Formed, Honest, HonestRecord
  <2>9. p \notin messy => Underway(next, record[p], box[p])
                            /\ (next.pc \in {"open", "look"} \/ p \in dirs')
    BY <1>7, <1>8, <2>1, <2>3, <2>6 DEF Underway, HonestBox
  <2>10. QED
    BY <1>1, <1>2, <1>3, <1>7, <2>1, <2>5, <2>6, <2>7, <2>8, <2>9, IdleFields, MoveKeeps
<1>11. QED
  BY <1>9, <1>10

\* The steps that save the record: what they save of the box is true of it.
LEMMA SavesKeep ==
    ASSUME ProjectsInv, NEW c \in Procs,
           Ensure(c) \/ SaveBlock(c) \/ SaveShape(c) \/ SaveSignature(c) \/ Forget(c) \/ Approve(c)
    PROVE  ProjectsInv'
<1> DEFINE p == job[c].of
<1>1. job[c].pc \in {"ensure", "block", "shape", "signature", "forgotten", "approve"}
  BY DEF Ensure, SaveBlock, SaveShape, SaveSignature, Forget, Approve, At
<1>2. /\ p \in Projects /\ job[c] \in Job /\ job[c].rec \in Record
      /\ Formed(job[c]) /\ Honest(job[c], approved[p])
      /\ p \notin messy => Underway(job[c], record[p], box[p])
                             /\ (job[c].pc \in {"open", "look"} \/ p \in dirs)
  BY <1>1, AtWork
<1>3. /\ job[c].block \in Blocks \cup {NoBlock} /\ job[c].conf \in Configs \cup {Missing}
      /\ job[c].trusted => job[c].conf \in Configs
  BY <1>2 DEF Job, Formed
<1>4. job[c].rec.trusted \in approved[p] \cup {Missing}
  BY <1>2 DEF Honest
<1>5. p \notin messy => p \in dirs
  BY <1>1, <1>2 DEF Underway
<1>6. PICK old \in Record : old = job[c].rec
  BY <1>2
<1>7. UNCHANGED <<dirs, box, config, edits, history>>
  BY DEF Ensure, SaveBlock, SaveShape, SaveSignature, Forget, Approve
<1>8. CASE Ensure(c)
  <2>1. Save(c, old, "alloc") /\ job[c].pc = "ensure"
    BY <1>6, <1>8 DEF Ensure, At
  <2>2. p \notin messy => Settled(old, box[p])
    BY <1>2, <1>6, <2>1 DEF Underway
  <2>3. QED
    BY <1>1, <1>4, <1>5, <1>6, <1>7, <2>1, <2>2, SaveKeeps
<1>9. CASE SaveBlock(c)
  <2>1. PICK rec : rec = [old EXCEPT !.block = job[c].block]
    OBVIOUS
  <2>2. Save(c, rec, "box") /\ job[c].pc = "block"
    BY <1>6, <1>9, <2>1 DEF SaveBlock, At
  <2>3. /\ rec \in Record /\ rec.trusted = old.trusted /\ rec.setup = old.setup
        /\ rec.shaped = old.shaped
    BY <1>3, <2>1 DEF Record
  <2>4. p \notin messy => Settled(rec, box[p])
    BY <1>2, <1>6, <2>2, <2>3 DEF Underway, Settled
  <2>5. QED
    BY <1>1, <1>4, <1>5, <1>6, <1>7, <2>2, <2>3, <2>4, SaveKeeps
<1>10. CASE SaveShape(c)
  <2>1. PICK rec : rec = [old EXCEPT !.shaped = TRUE]
    OBVIOUS
  <2>2. Save(c, rec, "setup") /\ job[c].pc = "shape"
    BY <1>6, <1>10, <2>1 DEF SaveShape, At
  <2>3. rec \in Record /\ rec.trusted = old.trusted /\ rec.setup = old.setup
    BY <2>1 DEF Record
  <2>4. p \notin messy => box[p].there /\ Settled(rec, box[p])
    BY <1>2, <1>6, <2>2, <2>3 DEF Underway, Settled
  <2>5. QED
    BY <1>1, <1>4, <1>5, <1>6, <1>7, <2>2, <2>3, <2>4, SaveKeeps
<1>11. CASE SaveSignature(c)
  <2>1. job[c].pc = "signature"
    BY <1>11 DEF SaveSignature, At
  <2>2. CASE ~old.there
    <3>1. job' = [job EXCEPT ![c] = Idle] /\ UNCHANGED record
      BY <1>6, <1>11, <2>2 DEF SaveSignature, Return
    <3>2. p \notin messy => Settled(record[p], box[p])
      BY <1>2, <2>1 DEF Underway
    <3>3. QED
      BY <1>1, <1>7, <3>1, <3>2, IdleFields, MoveKeeps
  <2>3. CASE old.there
    <3>1. PICK signature \in Setups : signature = Signature(c)
      BY <1>3 DEF Setups, Signature
    <3>2. PICK rec : rec = [old EXCEPT !.setup = signature]
      OBVIOUS
    <3>3. Save(c, rec, "idle")
      BY <1>6, <1>11, <2>3, <3>1, <3>2 DEF SaveSignature
    <3>4. rec \in Record /\ rec.trusted = old.trusted /\ rec.setup = signature
      BY <3>2 DEF Record
    <3>5. p \notin messy => Settled(rec, box[p])
      BY <1>2, <2>1, <3>1, <3>4 DEF Underway, Settled, Signature
    <3>6. QED
      BY <1>1, <1>4, <1>5, <1>6, <1>7, <3>3, <3>4, <3>5, SaveKeeps
  <2>4. QED
    BY <2>2, <2>3
<1>12. CASE Forget(c)
  <2>1. PICK rec : rec = [old EXCEPT !.shaped = FALSE, !.setup = NoSetup]
    OBVIOUS
  <2>2. Save(c, rec, "idle") /\ job[c].pc = "forgotten"
    BY <1>6, <1>12, <2>1 DEF Forget, At
  <2>3. rec.trusted = old.trusted /\ rec.setup = NoSetup /\ rec.shaped = FALSE
    BY <2>1 DEF Record
  <2>4. rec \in Record
    BY ONLY <2>1 DEF Record
  <2>5. p \notin messy => Settled(rec, box[p])
    BY <1>2, <2>2, <2>3 DEF Underway, Settled
  <2>6. QED
    BY <1>1, <1>4, <1>5, <1>6, <1>7, <2>2, <2>3, <2>4, <2>5, SaveKeeps
<1>13. CASE Approve(c)
  <2>1. PICK rec : rec = [old EXCEPT !.trusted = job[c].conf]
    OBVIOUS
  <2>2. Save(c, rec, "idle") /\ job[c].pc = "approve"
    BY <1>6, <1>13, <2>1 DEF Approve, At
  <2>3. /\ rec \in Record /\ rec.trusted = job[c].conf /\ rec.setup = old.setup
        /\ rec.shaped = old.shaped
    BY <1>3, <2>1 DEF Record
  <2>4. job[c].conf \in approved[p]
    BY <1>2, <2>2 DEF Honest
  <2>5. p \notin messy => Settled(rec, box[p])
    BY <1>2, <1>6, <2>2, <2>3 DEF Underway, Settled
  <2>6. QED
    BY <1>1, <1>5, <1>6, <1>7, <2>2, <2>3, <2>4, <2>5, SaveKeeps
<1>14. QED
  BY <1>8, <1>9, <1>10, <1>11, <1>12, <1>13

LEMMA ReturnKeeps ==
    ASSUME ProjectsInv, NEW c \in Procs, job[c].pc # "idle", Return(c),
           UNCHANGED <<record, box, config, edits, history>>,
           dirs' \in {dirs, dirs \cup {job[c].of}},
           job[c].of \notin messy => Settled(record[job[c].of], box[job[c].of])
    PROVE  ProjectsInv'
BY IdleFields, MoveKeeps DEF Return

\* The phase is one in which the command may find the record as it is, and the
\* box as x.
Reaches(c, phase, x) ==
    job[c].of \notin messy =>
      \A next \in Job :
        next.pc = phase /\ next.rec = job[c].rec
          /\ next.conf = job[c].conf /\ next.trusted = job[c].trusted
        => Underway(next, record[job[c].of], x)

LEMMA GoKeeps ==
    ASSUME ProjectsInv, NEW c \in Procs, job[c].pc # "idle",
           NEW phase \in Phases \ {"idle", "confirm", "approve"}, Go(c, phase),
           UNCHANGED <<record, box, config, edits, history>>,
           dirs' \in {dirs, dirs \cup {job[c].of}},
           job[c].of \in dirs' \/ job[c].of \in messy, Reaches(c, phase, box[job[c].of])
    PROVE  ProjectsInv'
<1>1. PICK old \in Job : old = job[c]
  BY AtWork
<1>2. PICK next : next = [old EXCEPT !.pc = phase]
  OBVIOUS
<1>3. /\ next \in Job /\ next.pc = phase /\ next.rec = old.rec /\ next.of = old.of
      /\ next.conf = old.conf /\ next.trusted = old.trusted
  BY <1>2, MovedJob
<1>4. job' = [job EXCEPT ![c] = next]
  BY <1>1, <1>2 DEF Go, ProjectsInv, TypeOK
<1>5. Formed(next) /\ Honest(next, approved[job[c].of])
  BY <1>1, <1>3, AtWork DEF Formed, Honest
<1>6. job[c].of \notin messy =>
        Underway(next, record[job[c].of], box[job[c].of])
          /\ (next.pc \in {"open", "look"} \/ job[c].of \in dirs')
  BY <1>1, <1>3 DEF Reaches, Underway
<1>7. QED
  BY <1>1, <1>3, <1>4, <1>5, <1>6, IdleFields, MoveKeeps

\* The steps that look, choose or ask, and write nothing.
LEMMA AllocKeeps == ASSUME ProjectsInv, NEW c \in Procs, Alloc(c) PROVE ProjectsInv'
<1> DEFINE p == job[c].of
<1>1. job[c].pc = "alloc" /\ UNCHANGED <<dirs, record, box, config, edits, history>>
  BY DEF Alloc, At
<1>2. /\ p \in Projects /\ job[c] \in Job /\ Formed(job[c]) /\ Honest(job[c], approved[p])
      /\ p \notin messy => Underway(job[c], record[p], box[p])
                             /\ (job[c].pc \in {"open", "look"} \/ p \in dirs)
  BY <1>1, AtWork
<1>3. PICK x \in Choice(p, job[c].rec.block, Published \cup OtherBlocks) :
         job' = IF x \in {NoBlock, job[c].rec.block} THEN [job EXCEPT ![c].pc = "box"]
                ELSE [job EXCEPT ![c].pc = "block", ![c].block = x]
  BY DEF Alloc
<1>4. CASE Go(c, "box")
  <2>1. Reaches(c, "box", box[p]) /\ (p \in dirs' \/ p \in messy)
    BY <1>1, <1>2 DEF Reaches, Underway
  <2>2. "box" \in Phases \ {"idle", "confirm", "approve"}
    BY DEF Phases
  <2>3. QED
    BY <1>1, <1>4, <2>1, <2>2, GoKeeps
<1>5. CASE job' = [job EXCEPT ![c].pc = "block", ![c].block = x]
  <2>1. x \in Blocks \cup {NoBlock}
    BY <1>2, <1>3 DEF Choice, Job, Record
  <2>2. PICK old \in Job : old = job[c]
    BY <1>2
  <2>3. PICK next : next = [old EXCEPT !.pc = "block", !.block = x]
    OBVIOUS
  <2>4. job' = [job EXCEPT ![c] = next]
    BY <1>5, <2>2, <2>3 DEF ProjectsInv, TypeOK
  <2>5. /\ next.pc = "block" /\ next.rec = old.rec /\ next.of = old.of
        /\ next.conf = old.conf /\ next.trusted = old.trusted
    BY ONLY <2>3 DEF Job
  <2>6. next \in Job
    BY ONLY <2>1, <2>3 DEF Job, Phases
  <2>7. Formed(next) /\ Honest(next, approved[p])
    BY <1>2, <2>2, <2>5 DEF Formed, Honest
  <2>8. p \notin messy => Underway(next, record[p], box[p])
                            /\ (next.pc \in {"open", "look"} \/ p \in dirs')
    BY <1>1, <1>2, <2>2, <2>5 DEF Underway
  <2>9. QED
    BY <1>1, <2>2, <2>4, <2>5, <2>6, <2>7, <2>8, IdleFields, MoveKeeps
<1>6. QED
  BY <1>3, <1>4, <1>5 DEF Go

LEMMA SetupKeeps == ASSUME ProjectsInv, NEW c \in Procs, Setup(c) PROVE ProjectsInv'
<1> DEFINE p == job[c].of
<1>1. job[c].pc = "setup" /\ UNCHANGED <<dirs, record, box, config, edits, history>>
  BY DEF Setup, At
<1>2. p \notin messy => Underway(job[c], record[p], box[p])
                          /\ (job[c].pc \in {"open", "look"} \/ p \in dirs)
  BY <1>1, AtWork
<1>3. CASE Return(c)
  <2>1. p \notin messy => Settled(record[p], box[p])
    BY <1>1, <1>2 DEF Underway
  <2>2. QED
    BY <1>1, <1>3, <2>1, ReturnKeeps
<1>4. CASE Go(c, "run")
  <2>1. Reaches(c, "run", box[p]) /\ (p \in dirs' \/ p \in messy)
    BY <1>1, <1>2 DEF Reaches, Underway
  <2>2. "run" \in Phases \ {"idle", "confirm", "approve"}
    BY DEF Phases
  <2>3. QED
    BY <1>1, <1>4, <2>1, <2>2, GoKeeps
<1>5. QED
  BY <1>3, <1>4 DEF Setup

LEMMA LookKeeps == ASSUME ProjectsInv, NEW c \in Procs, Look(c) PROVE ProjectsInv'
<1> DEFINE p == job[c].of
<1>1. job[c].pc = "look" /\ UNCHANGED <<record, box, config, edits, history>>
      /\ dirs' = dirs \cup {p}
  BY DEF Look, At
<1>2. p \notin messy => Settled(record[p], box[p])
  BY <1>1, AtWork DEF Underway
<1>3. CASE Return(c)
  BY <1>1, <1>2, <1>3, ReturnKeeps
<1>4. CASE box[p].there /\ Go(c, "destroy")
  <2>1. Reaches(c, "destroy", box[p]) /\ (p \in dirs' \/ p \in messy)
    BY <1>1, <1>2, <1>4 DEF Reaches, Underway
  <2>2. "destroy" \in Phases \ {"idle", "confirm", "approve"}
    BY DEF Phases
  <2>3. QED
    BY <1>1, <1>4, <2>1, <2>2, GoKeeps
<1>5. CASE ~box[p].there /\ Go(c, "remove")
  <2>1. Reaches(c, "remove", box[p]) /\ (p \in dirs' \/ p \in messy)
    BY <1>1, <1>2, <1>5 DEF Reaches, Underway
  <2>2. "remove" \in Phases \ {"idle", "confirm", "approve"}
    BY DEF Phases
  <2>3. QED
    BY <1>1, <1>5, <2>1, <2>2, GoKeeps
<1>6. QED
  BY <1>3, <1>4, <1>5 DEF Look

LEMMA ForgetReadKeeps == ASSUME ProjectsInv, NEW c \in Procs, ForgetRead(c) PROVE ProjectsInv'
<1> DEFINE p == job[c].of
<1>1. job[c].pc = "forget" /\ UNCHANGED <<dirs, record, box, config, edits, history>>
  BY DEF ForgetRead, At
<1>2. /\ p \in Projects /\ job[c] \in Job /\ Formed(job[c]) /\ Honest(job[c], approved[p])
      /\ HonestRecord(record[p], approved[p]) /\ record[p] \in Record
      /\ p \notin messy => Underway(job[c], record[p], box[p])
                             /\ (job[c].pc \in {"open", "look"} \/ p \in dirs)
  BY <1>1, AtWork
<1>3. CASE ~record[p].there
  <2>1. Return(c) /\ record[p] = NoRecord
    BY <1>2, <1>3 DEF ForgetRead, HonestRecord
  <2>2. p \notin messy => Settled(record[p], box[p])
    BY <1>1, <1>2, <2>1, IdleFields DEF Underway, Settled
  <2>3. QED
    BY <1>1, <2>1, <2>2, ReturnKeeps
<1>4. CASE record[p].there
  <2>1. PICK rec \in Record : rec = record[p]
    BY <1>2
  <2>2. PICK old \in Job : old = job[c]
    BY <1>2
  <2>3. PICK next : next = [old EXCEPT !.pc = "forgotten", !.rec = rec]
    OBVIOUS
  <2>4. job' = [job EXCEPT ![c] = next]
    <3>1. job' = [job EXCEPT ![c].pc = "forgotten", ![c].rec = rec]
      BY <1>4, <2>1 DEF ForgetRead
    <3>2. QED
      BY <2>2, <2>3, <3>1 DEF ProjectsInv, TypeOK
  <2>5. /\ next.pc = "forgotten" /\ next.rec = rec /\ next.of = old.of
        /\ next.trusted = old.trusted /\ next.conf = old.conf
    BY ONLY <2>3 DEF Job
  <2>6. next \in Job
    BY ONLY <2>3 DEF Job, Phases
  <2>7. Formed(next) /\ Honest(next, approved[p])
    BY <1>2, <2>1, <2>2, <2>5 DEF Formed, Honest, HonestRecord
  <2>8. p \notin messy => Underway(next, record[p], box[p])
                            /\ (next.pc \in {"open", "look"} \/ p \in dirs')
    BY <1>1, <1>2, <2>1, <2>5 DEF Underway
  <2>9. QED
    BY <1>1, <2>2, <2>4, <2>5, <2>6, <2>7, <2>8, IdleFields, MoveKeeps
<1>5. QED
  BY <1>3, <1>4

----------------------------------------------------------------------------
\* The steps that change the box of a project, and the removal of its state.

\* A command that changes the box and returns or goes on.
LEMMA BoxKeeps ==
    ASSUME ProjectsInv, NEW c \in Procs, job[c].pc # "idle", NEW p \in Projects, job[c].of = p,
           NEW x \in Box, box' = [box EXCEPT ![p] = x],
           UNCHANGED <<dirs, record, config, edits, history>>,
           HonestBox(x, approved[p]),
           \/ /\ Return(c)
              /\ p \notin messy => Settled(record[p], x)
           \/ \E phase \in Phases \ {"idle", "confirm", "approve"} :
                Go(c, phase) /\ Reaches(c, phase, x) /\ (p \notin messy => p \in dirs)
    PROVE  ProjectsInv'
<1>1. /\ HonestRecord(record[p], approved[p]) /\ TypeOK
      /\ UNCHANGED <<dirs, record, config, edits, approved, messy>>
  BY AtWork DEF ProjectsInv, history
<1>2. /\ box' \in [Projects -> Box] /\ box'[p] = x
      /\ \A q \in Projects \ {p} : box'[q] = box[q]
  BY <1>1 DEF TypeOK
<1>3. /\ dirs' \subseteq Projects /\ record' \in [Projects -> Record]
      /\ approved' \in [Projects -> SUBSET Configs] /\ approved[p] \subseteq approved'[p]
      /\ HonestRecord(record'[p], approved'[p]) /\ HonestBox(box'[p], approved'[p])
      /\ \A q \in Projects \ {p} :
           /\ q \in dirs' <=> q \in dirs
           /\ record'[q] = record[q] /\ box'[q] = box[q] /\ approved'[q] = approved[q]
  BY <1>1, <1>2 DEF TypeOK
<1>4. CASE Return(c) /\ (p \notin messy => Settled(record[p], x))
  BY <1>1, <1>2, <1>4, <1>3, IdleFields, OwnProject DEF Return
<1>5. ASSUME NEW phase \in Phases \ {"idle", "confirm", "approve"}, Go(c, phase),
             Reaches(c, phase, x), p \notin messy => p \in dirs
      PROVE  ProjectsInv'
  <2>1. PICK old \in Job : old = job[c]
    BY AtWork
  <2>2. PICK next : next = [old EXCEPT !.pc = phase]
    OBVIOUS
  <2>3. /\ next \in Job /\ next.pc = phase /\ next.rec = old.rec /\ next.of = old.of
        /\ next.conf = old.conf /\ next.trusted = old.trusted
    BY <2>2, MovedJob
  <2>4. job' = [job EXCEPT ![c] = next]
    BY <1>1, <1>5, <2>1, <2>2 DEF Go, TypeOK
  <2>5. Formed(next) /\ Honest(next, approved'[p])
    BY <1>1, <1>5, <2>1, <2>3, AtWork DEF Formed, Honest
  <2>6. p \notin messy => Underway(next, record'[p], box'[p]) /\ p \in dirs'
    BY <1>1, <1>2, <1>5, <2>1, <2>3 DEF Reaches
  <2>7. next.pc # "idle" /\ next.of = p /\ next # Idle
    BY <1>5, <2>1, <2>3, IdleFields
  <2>8. UNCHANGED <<config, edits, messy>>
    BY <1>1
  <2>9. QED
    BY <1>2, <1>3, <2>1, <2>3, <2>4, <2>5, <2>6, <2>7, <2>8, OwnProject
<1>6. QED
  BY <1>4, <1>5

LEMMA CreateOrStartKeeps ==
    ASSUME ProjectsInv, NEW c \in Procs, CreateOrStart(c) PROVE ProjectsInv'
<1>1. job[c].pc = "box" /\ UNCHANGED <<dirs, record, config, edits, history>>
  BY DEF CreateOrStart, At
<1>2. PICK p \in Projects : p = job[c].of
  BY <1>1, AtWork
<1>3. /\ box[p] \in Box /\ HonestBox(box[p], approved[p])
      /\ p \notin messy => Underway(job[c], record[p], box[p]) /\ p \in dirs
  BY <1>1, <1>2, AtWork
<1>4. PICK old \in Box : old = box[p]
  BY <1>3
<1>5. CASE box[p].there /\ box' = [box EXCEPT ![p].running = TRUE] /\ Go(c, "setup")
  <2>1. PICK x : x = [old EXCEPT !.running = TRUE]
    OBVIOUS
  <2>2. x \in Box /\ x.there = old.there /\ x.ran = old.ran
    BY <2>1 DEF Box
  <2>3. box' = [box EXCEPT ![p] = x]
    BY <1>4, <1>5, <2>1 DEF ProjectsInv, TypeOK
  <2>4. HonestBox(x, approved[p])
    BY <1>3, <1>4, <1>5, <2>2 DEF HonestBox
  <2>5. Reaches(c, "setup", x)
    BY <1>1, <1>2, <1>3, <1>4, <1>5, <2>2 DEF Reaches, Underway, Settled
  <2>6. "setup" \in Phases \ {"idle", "confirm", "approve"}
    BY DEF Phases
  <2>7. QED
    BY <1>1, <1>2, <1>3, <1>5, <2>2, <2>3, <2>4, <2>5, <2>6, BoxKeeps
<1>6. CASE ~box[p].there /\ box' = [box EXCEPT ![p] = NewBox] /\ Go(c, "shape")
  <2>1. HonestBox(NewBox, approved[p])
    BY IdleFields DEF HonestBox
  <2>2. Reaches(c, "shape", NewBox)
    BY <1>1, <1>2, <1>3, <1>6, IdleFields DEF Reaches, Underway, Settled
  <2>3. "shape" \in Phases \ {"idle", "confirm", "approve"}
    BY DEF Phases
  <2>4. QED
    BY <1>1, <1>2, <1>3, <1>6, <2>1, <2>2, <2>3, IdleFields, BoxKeeps
<1>7. ASSUME ~box[p].there, NEW runs \in BOOLEAN, Return(c),
             box' = [box EXCEPT ![p] = [NewBox EXCEPT !.running = runs]]
      PROVE  ProjectsInv'
  <2>1. PICK x : x = [NewBox EXCEPT !.running = runs]
    OBVIOUS
  <2>2. x \in Box /\ x.there = TRUE /\ x.ran = {}
    BY <2>1 DEF NewBox, Box
  <2>3. HonestBox(x, approved[p])
    BY <2>2 DEF HonestBox
  <2>4. p \notin messy => Settled(record[p], x)
    BY <1>1, <1>3, <1>7, <2>2 DEF Underway, Settled
  <2>5. QED
    BY <1>1, <1>2, <1>7, <2>1, <2>2, <2>3, <2>4, BoxKeeps
<1>8. CASE UNCHANGED box /\ Return(c)
  <2>1. p \notin messy => Settled(record[p], box[p])
    BY <1>1, <1>3 DEF Underway
  <2>2. QED
    BY <1>1, <1>2, <1>8, <2>1, ReturnKeeps
<1>9. QED
  BY <1>2, <1>5, <1>6, <1>7, <1>8 DEF CreateOrStart

LEMMA RunSetupKeeps == ASSUME ProjectsInv, NEW c \in Procs, RunSetup(c) PROVE ProjectsInv'
<1>1. job[c].pc = "run" /\ UNCHANGED <<dirs, record, config, edits, history>>
  BY DEF RunSetup, At
<1>2. PICK p \in Projects : p = job[c].of
  BY <1>1, AtWork
<1>3. /\ box[p] \in Box /\ HonestBox(box[p], approved[p])
      /\ Formed(job[c]) /\ Honest(job[c], approved[p])
      /\ p \notin messy => Underway(job[c], record[p], box[p]) /\ p \in dirs
  BY <1>1, <1>2, AtWork
<1>4. CASE /\ box[p].running
           /\ box' = [box EXCEPT ![p].ran = @ \cup {Signature(c)}]
           /\ Go(c, "signature")
  <2>1. PICK old \in Box : old = box[p]
    BY <1>3
  <2>2. PICK ran : ran = old.ran \cup {Signature(c)}
    OBVIOUS
  <2>3. PICK x : x = [old EXCEPT !.ran = ran]
    OBVIOUS
  <2>4. ran \subseteq Setups /\ ran \subseteq approved[p] \cup {Detected}
    BY <1>3, <2>1, <2>2 DEF Formed, Honest, HonestBox, Signature, Setups, Box
  <2>5. x \in Box /\ x.there = old.there /\ x.ran = ran /\ x.running = old.running
    BY <2>3, <2>4 DEF Box
  <2>6. box' = [box EXCEPT ![p] = x]
    BY <1>4, <2>1, <2>2, <2>3 DEF ProjectsInv, TypeOK
  <2>7. HonestBox(x, approved[p])
    BY <1>3, <2>1, <2>4, <2>5 DEF HonestBox
  <2>8. Reaches(c, "signature", x)
    BY <1>1, <1>2, <1>3, <2>1, <2>2, <2>5 DEF Reaches, Underway, Settled, Signature
  <2>9. "signature" \in Phases \ {"idle", "confirm", "approve"}
    BY DEF Phases
  <2>10. QED
    BY <1>1, <1>2, <1>3, <1>4, <2>5, <2>6, <2>7, <2>8, <2>9, BoxKeeps
<1>5. CASE UNCHANGED box /\ Return(c)
  <2>1. p \notin messy => Settled(record[p], box[p])
    BY <1>1, <1>3 DEF Underway
  <2>2. QED
    BY <1>1, <1>2, <1>5, <2>1, ReturnKeeps
<1>6. QED
  BY <1>2, <1>4, <1>5 DEF RunSetup

LEMMA DestroyKeeps == ASSUME ProjectsInv, NEW c \in Procs, Destroy(c) PROVE ProjectsInv'
<1>1. job[c].pc = "destroy" /\ UNCHANGED <<dirs, record, config, edits, history>>
  BY DEF Destroy, At
<1>2. PICK p \in Projects : p = job[c].of
  BY <1>1, AtWork
<1>3. /\ box[p] \in Box /\ HonestBox(box[p], approved[p])
      /\ p \notin messy => Underway(job[c], record[p], box[p]) /\ p \in dirs
  BY <1>1, <1>2, AtWork
<1>4. p \notin messy => Settled(record[p], box[p])
  BY <1>1, <1>3 DEF Underway
<1>5. CASE box' = [box EXCEPT ![p].running = FALSE] /\ Return(c)
  <2>1. PICK old \in Box : old = box[p]
    BY <1>3
  <2>2. PICK x : x = [old EXCEPT !.running = FALSE]
    OBVIOUS
  <2>3. x \in Box /\ x.there = old.there /\ x.ran = old.ran /\ x.running = FALSE
    BY <2>2 DEF Box
  <2>4. box' = [box EXCEPT ![p] = x]
    BY <1>5, <2>1, <2>2 DEF ProjectsInv, TypeOK
  <2>5. HonestBox(x, approved[p]) /\ (p \notin messy => Settled(record[p], x))
    BY <1>3, <1>4, <2>1, <2>3 DEF HonestBox, Settled
  <2>6. QED
    BY <1>1, <1>2, <1>5, <2>3, <2>4, <2>5, BoxKeeps
<1>6. CASE UNCHANGED box /\ Return(c)
  BY <1>1, <1>2, <1>4, <1>6, ReturnKeeps
<1>7. CASE /\ box' = [box EXCEPT ![p] = NoBox]
           /\ Go(c, IF job[c].cmd = "rm" THEN "forget" ELSE "remove")
  <2>1. PICK phase \in {"forget", "remove"} : Go(c, phase)
    BY <1>7
  <2>2. Reaches(c, phase, NoBox)
    BY <1>2, IdleFields DEF Reaches, Underway
  <2>3. phase \in Phases \ {"idle", "confirm", "approve"}
    BY DEF Phases
  <2>4. HonestBox(NoBox, approved[p])
    BY IdleFields DEF HonestBox
  <2>5. QED
    BY <1>1, <1>2, <1>3, <1>7, <2>1, <2>2, <2>3, <2>4, IdleFields, BoxKeeps
<1>8. QED
  BY <1>2, <1>5, <1>6, <1>7 DEF Destroy

LEMMA RemoveStateKeeps == ASSUME ProjectsInv, NEW c \in Procs, RemoveState(c) PROVE ProjectsInv'
<1>1. /\ job[c].pc = "remove" /\ job' = [job EXCEPT ![c] = Idle]
      /\ UNCHANGED <<box, config, edits, approved, messy>>
  BY DEF RemoveState, At, Return, history
<1>2. PICK p \in Projects : p = job[c].of
  BY <1>1, AtWork
<1>3. dirs' = dirs \ {p} /\ record' = [record EXCEPT ![p] = NoRecord]
  BY <1>2 DEF RemoveState
<1>4. HonestBox(box[p], approved[p]) /\ TypeOK /\ (p \notin messy => ~box[p].there)
  BY <1>1, <1>2, AtWork DEF ProjectsInv, Underway
<1>5. /\ record' \in [Projects -> Record] /\ record'[p] = NoRecord
      /\ \A q \in Projects \ {p} : record'[q] = record[q] /\ (q \in dirs' <=> q \in dirs)
      /\ dirs' \subseteq Projects
  BY <1>3, <1>4, IdleFields DEF TypeOK
<1>6. HonestRecord(NoRecord, approved[p]) /\ (p \notin messy => Settled(NoRecord, box[p]))
  BY <1>4, IdleFields DEF HonestRecord, Settled
<1>7. QED
  BY <1>1, <1>2, <1>4, <1>5, <1>6, IdleFields, OwnProject DEF TypeOK

\* The user says yes to what was shown, which is what will be recorded.
LEMMA ConfirmKeeps == ASSUME ProjectsInv, NEW c \in Procs, Confirm(c) PROVE ProjectsInv'
<1>1. job[c].pc = "confirm" /\ UNCHANGED <<dirs, record, box, config, edits, messy>>
  BY DEF Confirm, At
<1>2. PICK p \in Projects : p = job[c].of
  BY <1>1, AtWork
<1>3. /\ Formed(job[c]) /\ Honest(job[c], approved[p]) /\ approved[p] \subseteq Configs
      /\ HonestRecord(record[p], approved[p]) /\ HonestBox(box[p], approved[p]) /\ TypeOK
      /\ p \notin messy => Underway(job[c], record[p], box[p]) /\ p \in dirs
  BY <1>1, <1>2, AtWork DEF ProjectsInv
<1>4. CASE Return(c) /\ UNCHANGED approved
  <2>1. p \notin messy => Settled(record[p], box[p])
    BY <1>1, <1>3 DEF Underway
  <2>2. QED
    BY <1>1, <1>2, <1>4, <2>1, ReturnKeeps DEF history
<1>5. CASE approved' = [approved EXCEPT ![p] = @ \cup {job[c].conf}] /\ Go(c, "approve")
  <2>1. PICK old \in Job : old = job[c]
    BY <1>1, AtWork
  <2>2. PICK next : next = [old EXCEPT !.pc = "approve"]
    OBVIOUS
  <2>3. "approve" \in Phases
    BY DEF Phases
  <2>4. /\ next \in Job /\ next.pc = "approve" /\ next.rec = old.rec /\ next.of = old.of
        /\ next.conf = old.conf /\ next.trusted = old.trusted
    BY <2>2, <2>3, MovedJob
  <2>5. job' = [job EXCEPT ![c] = next]
    BY <1>3, <1>5, <2>1, <2>2 DEF Go, TypeOK
  <2>6. job[c].conf \in Configs
    BY <1>1, <1>3 DEF Formed
  <2>7. /\ approved' \in [Projects -> SUBSET Configs]
        /\ approved'[p] = approved[p] \cup {old.conf}
        /\ \A q \in Projects \ {p} : approved'[q] = approved[q]
    BY <1>3, <1>5, <2>1, <2>6 DEF TypeOK
  <2>8. HonestRecord(record[p], approved'[p]) /\ HonestBox(box[p], approved'[p])
    BY <1>3, <2>7 DEF HonestRecord, HonestBox
  <2>9. Formed(next) /\ Honest(next, approved'[p])
    BY <1>2, <1>3, <2>1, <2>4, <2>6, <2>7 DEF Formed, Honest
  <2>10. p \notin messy => Underway(next, record[p], box[p]) /\ p \in dirs
    BY <1>1, <1>3, <2>1, <2>4 DEF Underway
  <2>11. QED
    BY <1>1, <1>2, <1>3, <2>1, <2>4, <2>5, <2>7, <2>8, <2>9, <2>10, IdleFields, OwnProject
       DEF TypeOK
<1>6. QED
  BY <1>2, <1>4, <1>5 DEF Confirm

----------------------------------------------------------------------------
LEMMA ProjectsStep == ProjectsInv /\ [Next]_vars => ProjectsInv'
<1> SUFFICES ASSUME ProjectsInv, [Next]_vars PROVE ProjectsInv'
  OBVIOUS
<1>1. CASE UNCHANGED vars
  BY <1>1 DEF vars, ProjectsInv, TypeOK, JobsFormed, Approvals, TidyProjects
<1>2. ASSUME NEW c \in Procs, Begin(c) \/ Step(c) \/ Crash(c) PROVE ProjectsInv'
  BY <1>2, BeginKeeps, CrashKeeps, OpenKeeps, SavesKeep, AllocKeeps, SetupKeeps, LookKeeps,
     ForgetReadKeeps, CreateOrStartKeeps, RunSetupKeeps, DestroyKeeps, RemoveStateKeeps,
     ConfirmKeeps DEF Step
<1>3. ASSUME NEW p \in Projects, Edit(p) PROVE ProjectsInv'
  BY <1>3, EditKeeps
<1>4. QED
  BY <1>1, <1>2, <1>3 DEF Next

\* The fields of records, jobs and boxes are what the code can put there, and the
\* invariant that the theorems below rest on holds, however commands overlap or die.
THEOREM ProjectsInvariant == Spec => []ProjectsInv
<1>1. Init => ProjectsInv
  BY InitKeeps
<1>2. ProjectsInv /\ [Next]_vars => ProjectsInv'
  BY ProjectsStep
<1>3. QED
  BY <1>1, <1>2, PTL DEF Spec

\* readConfig hashes and decodes one read of prison.toml, and recordTrustedConfiguration
\* saves the hash of what was shown: no command runs in a box that the user did not
\* approve, whatever writes to the file and however commands overlap or die.
THEOREM OnlyApprovedEverRun == Spec => []OnlyApprovedCommandsRun
<1>1. ProjectsInv => OnlyApprovedCommandsRun
  BY DEF ProjectsInv, Approvals, HonestBox, OnlyApprovedCommandsRun
<1>2. QED
  BY <1>1, ProjectsInvariant, PTL

\* Setup and shape in the record are about the box that is there: `prison up` saves
\* them after what they say happened, and `prison rm` clears them after the box is gone,
\* while no two commands about the project overlapped and none died.
THEOREM RecordStaysOfThisBox == Spec => []RecordIsOfThisBox
<1>1. ProjectsInv => RecordIsOfThisBox
  <2>1. SUFFICES ASSUME ProjectsInv, NEW p \in Projects, p \notin messy, Working(p) = {}
                 PROVE  /\ box[p].there => record[p].setup \in box[p].ran \cup {NoSetup}
                        /\ record[p].shaped => box[p].there
    BY DEF RecordIsOfThisBox
  <2>2. \A c \in Procs : job[c].of # p
    BY <2>1 DEF Working
  <2>3. Settled(record[p], box[p])
    BY <2>1, <2>2 DEF ProjectsInv, TidyProjects
  <2>4. QED
    BY <2>3 DEF Settled
<1>2. QED
  BY <1>1, ProjectsInvariant, PTL
==============================================================================

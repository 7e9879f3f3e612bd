------------------------------ MODULE BrokerLog ------------------------------
(***************************************************************************)
(* The log of the broker (internal/broker/brokerlog): a file that grows to   *)
(* its limit and is then rotated, path -> path.1 -> ... -> path.keep. The    *)
(* writer holds its mutex for a whole Write. Readers, in the broker and in  *)
(* commands, hold nothing: they look which files there are, and then open    *)
(* them one after the other.                                                *)
(*                                                                          *)
(* Abstracted: an entry is its number, in the order of the writes, and a     *)
(* file can take MaxLines lines. A file is the entries that can be read from *)
(* it, the number of its lines, and whether the last of these is torn: was   *)
(* not written to its end. The line that is appended to a torn one cannot be *)
(* read either. Reading a file is one step: it can only grow, and keeps its  *)
(* content when it is renamed.                                              *)
(***************************************************************************)
EXTENDS Integers, Sequences, SequencesExt

CONSTANTS
    Readers,
    Keep,        \* rotated files that are kept
    MaxLines,    \* maxBytes, in lines
    MaxEntries,  \* bound: calls of Write
    MaxFaults    \* bound: calls that fail, and deaths of the broker

ASSUME LogBounds ==
    /\ Keep \in Nat \ {0} /\ MaxLines \in Nat \ {0}
    /\ MaxEntries \in Nat /\ MaxFaults \in Nat

Numbers == 0..Keep       \* 0 is the file that is written
File == [there : BOOLEAN, entries : Seq(1..MaxEntries), lines : Nat, torn : BOOLEAN]
NoFile == [there |-> FALSE, entries |-> <<>>, lines |-> 0, torn |-> FALSE]
NewFile == [NoFile EXCEPT !.there = TRUE]

VARIABLES
    logs,      \* number -> the file
    writer,    \* the writer: its step, and whether writer.file is open
    next,      \* the entry of the next Write
    reader,    \* reader -> its step, the files it has seen, what it has read
    faults,
    \* History.
    acked,     \* the entries whose Write reported no failure to write
    hurt,      \* entries that were appended to a torn line
    cut        \* a rotation has failed or was cut short by a death

logVars == <<logs, writer, next, reader, faults, acked, hurt, cut>>

Writer == [pc : {"idle", "rotate", "shift", "open", "append", "dead"},
           open : BOOLEAN, number : Numbers]
Reader == [pc : {"idle", "stat", "read", "done"}, number : 0..(Keep + 1),
           found : Seq(1..MaxEntries), from : 0..MaxEntries, disturbed : BOOLEAN]
NoReader == [pc |-> "idle", number |-> 0, found |-> <<>>, from |-> 0, disturbed |-> FALSE]

LogInit ==
    /\ logs = [n \in Numbers |-> IF n = 0 THEN NewFile ELSE NoFile]
    /\ writer = [pc |-> "idle", open |-> TRUE, number |-> 0]
    /\ next = 1
    /\ reader = [r \in Readers |-> NoReader]
    /\ faults = 0
    /\ acked = {} /\ hurt = {} /\ cut = FALSE

----------------------------------------------------------------------------
Writing(pc) == writer.pc = pc
Exists(n) == logs[n].there
Fault == faults < MaxFaults /\ faults' = faults + 1

\* The readers that are at work when a rotation takes a step.
Disturbed ==
    reader' = [r \in Readers |->
                 IF reader[r].pc \in {"stat", "read"} THEN [reader[r] EXCEPT !.disturbed = TRUE]
                 ELSE reader[r]]

\* Write has the mutex. A file that would become too long is rotated first;
\* after a failed open there is no file, and every Write is an error.
Write ==
    /\ Writing("idle") /\ next <= MaxEntries
    /\ IF ~writer.open
       THEN /\ next' = next + 1
            /\ UNCHANGED writer
       ELSE /\ writer' = [writer EXCEPT !.pc = IF logs[0].lines > 0 /\ logs[0].lines + 1 > MaxLines
                                               THEN "rotate" ELSE "append"]
            /\ UNCHANGED next
    /\ UNCHANGED <<logs, reader, faults, acked, hurt, cut>>

\* shiftFiles closes the file and removes the oldest.
RemoveOldest ==
    /\ Writing("rotate")
    /\ \/ /\ logs' = [logs EXCEPT ![Keep] = NoFile]
          /\ writer' = [writer EXCEPT !.pc = "shift", !.number = Keep - 1, !.open = FALSE]
          /\ UNCHANGED <<faults, cut>>
       \/ /\ Fault
          /\ writer' = [writer EXCEPT !.pc = "open", !.open = FALSE]
          /\ cut' = TRUE
          /\ UNCHANGED logs
    /\ UNCHANGED <<next, acked, hurt>> /\ Disturbed

ShiftUpwards ==
    /\ Writing("shift")
    /\ LET n == Keep - 1 - writer.number IN
       /\ logs' = IF Exists(n) THEN [logs EXCEPT ![n + 1] = logs[n], ![n] = NoFile] ELSE logs
       /\ writer' = [writer EXCEPT !.pc = IF writer.number = 0 THEN "open" ELSE "shift",
                                   !.number = IF writer.number = 0 THEN 0 ELSE writer.number - 1]
       /\ UNCHANGED <<faults, cut>>
    /\ UNCHANGED <<next, acked, hurt>> /\ Disturbed

\* shiftFiles renames the files, the oldest first and the log itself last. A
\* file that is not there is no failure.
Shift ==
    LET n == writer.number IN
    /\ Writing("shift")
    /\ \/ /\ logs' = IF Exists(n) THEN [logs EXCEPT ![n + 1] = logs[n], ![n] = NoFile] ELSE logs
          /\ writer' = [writer EXCEPT !.pc = IF n = 0 THEN "open" ELSE "shift",
                                      !.number = IF n = 0 THEN 0 ELSE n - 1]
          /\ UNCHANGED <<faults, cut>>
       \/ /\ Fault
          /\ writer' = [writer EXCEPT !.pc = "open", !.number = 0]
          /\ cut' = TRUE
          /\ UNCHANGED logs
    /\ UNCHANGED <<next, acked, hurt>> /\ Disturbed

\* rotate opens the log again, whether or not the files were renamed.
Reopen ==
    /\ Writing("open")
    /\ \/ /\ logs' = [logs EXCEPT ![0] = IF Exists(0) THEN @ ELSE NewFile]
          /\ writer' = [writer EXCEPT !.pc = "append", !.open = TRUE]
          /\ UNCHANGED <<next, faults, cut>>
       \/ /\ Fault
          /\ writer' = [writer EXCEPT !.pc = "idle"]
          /\ next' = next + 1
          /\ cut' = TRUE
          /\ UNCHANGED logs
    /\ UNCHANGED <<acked, hurt>> /\ Disturbed

With(file, entry) ==
    IF file.torn THEN [file EXCEPT !.torn = FALSE]
    ELSE [file EXCEPT !.entries = Append(@, entry), !.lines = @ + 1]
Torn(file) == IF file.torn THEN file ELSE [file EXCEPT !.torn = TRUE, !.lines = @ + 1]

\* The line is written, or only a part of it.
AppendLine ==
    /\ Writing("append")
    /\ \/ /\ logs' = [logs EXCEPT ![0] = With(@, next)]
          /\ acked' = acked \cup {next}
          /\ hurt' = IF logs[0].torn THEN hurt \cup {next} ELSE hurt
          /\ UNCHANGED faults
       \/ /\ Fault
          /\ logs' = [logs EXCEPT ![0] = Torn(@)]
          /\ UNCHANGED <<acked, hurt>>
    /\ writer' = [writer EXCEPT !.pc = "idle"]
    /\ next' = next + 1
    /\ UNCHANGED <<reader, cut>>

\* The broker dies, perhaps in the middle of a line.
BrokerDies ==
    /\ ~Writing("dead") /\ Fault
    /\ writer' = [writer EXCEPT !.pc = "dead", !.open = FALSE, !.number = 0]
    /\ logs' = IF Writing("append") THEN [logs EXCEPT ![0] = Torn(@)] ELSE logs
    /\ cut' = (cut \/ writer.pc \in {"shift", "open"})
    /\ next' = IF Writing("idle") \/ next > MaxEntries THEN next ELSE next + 1
    /\ UNCHANGED <<reader, acked, hurt>>

\* OpenWriter of the next broker.
OpenWriter ==
    /\ Writing("dead")
    /\ logs' = [logs EXCEPT ![0] = IF Exists(0) THEN @ ELSE NewFile]
    /\ writer' = [writer EXCEPT !.pc = "idle", !.open = TRUE]
    /\ UNCHANGED <<next, reader, faults, acked, hurt, cut>>

----------------------------------------------------------------------------
Begins(r) ==
    /\ reader[r].pc = "idle"
    /\ reader' = [reader EXCEPT ![r] =
                    [NoReader EXCEPT !.pc = "stat", !.number = 1, !.from = next - 1,
                       !.disturbed = writer.pc \in {"rotate", "shift", "open"}]]
    /\ UNCHANGED <<logs, writer, next, faults, acked, hurt, cut>>

\* The broker reads its own log for a command.
handleLog(r) == ~Writing("dead") /\ Begins(r)

\* `prison broker log` reads the files itself when it has found no broker, or
\* none any more. The next one may have come up since.
readBrokerLogEntries(r) == Begins(r)

\* readOrder: the rotated files, up to the first that is not there.
StatRotated(r) ==
    LET n == reader[r].number IN
    /\ reader[r].pc = "stat"
    /\ reader' = [reader EXCEPT ![r] = IF n \in Numbers /\ Exists(n)
                                       THEN [@ EXCEPT !.number = n + 1]
                                       ELSE [@ EXCEPT !.pc = "read", !.number = n - 1]]
    /\ UNCHANGED <<logs, writer, next, faults, acked, hurt, cut>>

\* readFile: the entries that can be parsed, none when the file is gone.
readFile(r) ==
    LET n == reader[r].number IN
    /\ reader[r].pc = "read"
    /\ reader' = [reader EXCEPT ![r].found = @ \o logs[n].entries,
                    ![r].pc = IF n = 0 THEN "done" ELSE "read",
                    ![r].number = IF n = 0 THEN 0 ELSE n - 1]
    /\ UNCHANGED <<logs, writer, next, faults, acked, hurt, cut>>

Answer(r) ==
    /\ reader[r].pc = "done"
    /\ reader' = [reader EXCEPT ![r] = NoReader]
    /\ UNCHANGED <<logs, writer, next, faults, acked, hurt, cut>>

LogNext ==
    \/ Write \/ RemoveOldest \/ Shift \/ Reopen \/ AppendLine \/ BrokerDies \/ OpenWriter
    \/ \E r \in Readers :
         \/ handleLog(r) \/ readBrokerLogEntries(r)
         \/ StatRotated(r) \/ readFile(r) \/ Answer(r)
----------------------------------------------------------------------------
LogTypeOK ==
    /\ logs \in [Numbers -> File]
    /\ writer \in Writer
    /\ next \in 1..(MaxEntries + 1)
    /\ reader \in [Readers -> Reader]
    /\ faults \in 0..MaxFaults
    /\ acked \subseteq 1..MaxEntries /\ hurt \subseteq acked
    /\ cut \in BOOLEAN

(* A read returns the entries oldest first and none twice, even when         *)
(* rotations move the files under it, fail halfway or are cut short by a      *)
(* death (reader.go:42-43). It misses an entry that was written before it    *)
(* began, and is not yet rotated out, only when a rotation ran at the same    *)
(* time, when an earlier one was cut short (readOrder stops at the gap), or  *)
(* when the entry was appended to the line of a failed write.                *)
LogReadsInOrder ==
    \A r \in Readers :
        LET x == reader[r] IN
        /\ \A i \in 1..(Len(x.found) - 1) : x.found[i] < x.found[i + 1]
        /\ (x.pc = "done" /\ ~x.disturbed /\ ~cut)
             => \A e \in acked \ hurt :
                  (e <= x.from /\ next - e <= Keep * MaxLines) => Contains(x.found, e)
============================================================================

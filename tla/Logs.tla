--------------------------------- MODULE Logs ---------------------------------
(***************************************************************************)
(* A bounded log with its writers and its reader: ChildLogStore of          *)
(* src/process/logs.rs (TlscopeLogStore of src/diagnostics/logs.rs is the   *)
(* same), the tasks of spawn_child_output_reader that fill it, and the      *)
(* interface that copies it while they go on.                               *)
(***************************************************************************)
EXTENDS Naturals, Sequences

CONSTANTS
  Streams,   \* the child's output streams, one reader task each
  Sizes,     \* what max_lines may be (0 keeps nothing)
  MaxRead    \* bound on the lines a stream has, for TLC

Failed == MaxRead + 1     \* the line that tells of a failed read

ASSUME LogsAssumption == Sizes \subseteq Nat /\ MaxRead \in Nat

VARIABLES
  max_lines, lines, dropped, total,  \* ChildLogStore
  read,                   \* how many lines of a stream its reader has read
  reading,                \* the streams whose reader still runs
  shown,                  \* the snapshot that the interface holds
  written                 \* history: everything that was pushed

logVars == <<max_lines, lines, dropped, total>>
logsVars == <<logVars, read, reading, shown, written>>

Line == [stream : Streams, number : 1 .. Failed]

LogsInit ==
  /\ max_lines \in Sizes /\ lines = <<>> /\ dropped = 0 /\ total = 0
  /\ read = [s \in Streams |-> 0] /\ reading = Streams
  /\ shown = [lines |-> <<>>, dropped |-> 0, total |-> 0]
  /\ written = <<>>

-----------------------------------------------------------------------------
\* The oldest line goes only when there is one too many already.
PushMutantOneTooMany(line) ==
  /\ lines' = Append(IF Len(lines) > max_lines THEN Tail(lines) ELSE lines, line)
  /\ dropped' = IF Len(lines) > max_lines THEN dropped + 1 ELSE dropped
  /\ total' = total + 1 /\ UNCHANGED max_lines
  /\ written' = Append(written, line)

\* A log without room does not count what it drops.
PushMutantUncounted(line) ==
  /\ IF max_lines = 0
       THEN UNCHANGED <<lines, dropped>>
       ELSE /\ lines' = Append(IF Len(lines) = max_lines THEN Tail(lines) ELSE lines, line)
            /\ dropped' = dropped
  /\ total' = total + 1 /\ UNCHANGED max_lines
  /\ written' = Append(written, line)

\* ChildLogStore::push, under the lock.
Push(line) ==
  /\ \/ /\ max_lines = 0
        /\ dropped' = dropped + 1 /\ lines' = lines
     \/ /\ max_lines > 0 /\ Len(lines) = max_lines
        /\ dropped' = dropped + 1 /\ lines' = Append(Tail(lines), line)
     \/ /\ Len(lines) < max_lines
        /\ dropped' = dropped /\ lines' = Append(lines, line)
  /\ total' = total + 1 /\ UNCHANGED max_lines
  /\ written' = Append(written, line)

ReadLine(s) ==
  /\ s \in reading /\ read[s] < MaxRead
  /\ read' = [read EXCEPT ![s] = @ + 1]
  /\ Push([stream |-> s, number |-> read[s] + 1])
  /\ UNCHANGED <<reading, shown>>

ReadFails(s) ==
  /\ s \in reading
  /\ reading' = reading \ {s}
  /\ Push([stream |-> s, number |-> Failed])
  /\ UNCHANGED <<read, shown>>

ReadEnds(s) ==
  /\ s \in reading
  /\ reading' = reading \ {s}
  /\ UNCHANGED <<logVars, read, shown, written>>

\* The interface copies the log under its lock, once in each round of its loop.
Snapshot ==
  /\ shown' = [lines |-> lines, dropped |-> dropped, total |-> total]
  /\ UNCHANGED <<logVars, read, reading, written>>

LogsNext == Snapshot \/ \E s \in Streams : ReadLine(s) \/ ReadFails(s) \/ ReadEnds(s)

LogsSpec == LogsInit /\ [][LogsNext]_logsVars

-----------------------------------------------------------------------------
LogsTypeOK ==
  /\ max_lines \in Sizes /\ lines \in Seq(Line) /\ dropped \in Nat /\ total \in Nat
  /\ read \in [Streams -> 0 .. MaxRead] /\ reading \subseteq Streams
  /\ shown \in [lines : Seq(Line), dropped : Nat, total : Nat]
  /\ written \in Seq(Line)

\* What ls, with d lines dropped, says of t lines: they are the ones after those
\* that were dropped, up to the last.
Tells(ls, d, t) ==
  /\ d + Len(ls) = t
  /\ \A i \in 1 .. Len(ls) : ls[i] = written[d + i]

\* The log holds the newest lines, as many as it may, and its counts say which
\* ones they are, whoever wrote them (process/logs.rs 79-94).
KeepsTheNewest ==
  /\ total = Len(written)
  /\ Tells(lines, dropped, total)
  /\ Len(lines) = (IF total < max_lines THEN total ELSE max_lines)

\* What the interface shows and copies to the clipboard is a stretch of the output
\* without gaps, and "n older lines dropped" is true of it, although readers go on
\* meanwhile (process/logs.rs 42-58, 96-102).
SnapshotIsTrue ==
  /\ shown.total <= Len(written)
  /\ Tells(shown.lines, shown.dropped, shown.total)
=============================================================================

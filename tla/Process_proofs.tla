---------------------------- MODULE Process_proofs ----------------------------
(***************************************************************************)
(* Proofs about the parts of src/process that are modelled on their own.    *)
(*                                                                         *)
(* Logs, for any streams, sizes and amounts of output: the log keeps the    *)
(* newest lines, and every snapshot tells the truth about them.             *)
(*                                                                         *)
(* Tracking, for any finite set of pids: climbing the parents finds the     *)
(* descendants, and what is taken for the application is the application.   *)
(* The climb is defined by recursion; Turn is its body, and ClimbsSolves    *)
(* shows that the definition has a solution.                                *)
(***************************************************************************)
EXTENDS Logs, Tracking, FiniteSetTheorems, WellFoundedInduction, TLAPS

-------------------------------------------------------------------------------
(* The log.                                                                    *)

LogsInv == LogsTypeOK /\ KeepsTheNewest /\ SnapshotIsTrue

LEMMA LogsInitially == LogsInit => LogsInv
BY LogsAssumption
   DEF LogsInit, LogsInv, LogsTypeOK, KeepsTheNewest, SnapshotIsTrue, Tells, Line

\* One push keeps the types of the log.
LEMMA PushTypes ==
  ASSUME LogsInv, NEW line \in Line, Push(line)
  PROVE  /\ max_lines' \in Sizes /\ lines' \in Seq(Line)
         /\ dropped' \in Nat /\ total' \in Nat /\ written' \in Seq(Line)
<1>0. /\ lines \in Seq(Line) /\ dropped \in Nat /\ total \in Nat /\ written \in Seq(Line)
      /\ max_lines \in Sizes /\ max_lines \in Nat
  BY LogsAssumption DEF LogsInv, LogsTypeOK
<1>1. max_lines' = max_lines /\ total' = total + 1 /\ written' = Append(written, line)
  BY DEF Push
<1>2. CASE max_lines > 0 /\ Len(lines) = max_lines /\ dropped' = dropped + 1
           /\ lines' = Append(Tail(lines), line)
  <2>1. Tail(lines) \in Seq(Line) BY <1>0, <1>2
  <2> QED BY <1>0, <1>1, <1>2, <2>1
<1>3. CASE ~(max_lines > 0 /\ Len(lines) = max_lines /\ dropped' = dropped + 1
             /\ lines' = Append(Tail(lines), line))
  <2>1. (dropped' = dropped + 1 /\ lines' = lines)
        \/ (dropped' = dropped /\ lines' = Append(lines, line))
    BY <1>3 DEF Push
  <2>2. lines' \in Seq(Line) BY <1>0, <2>1
  <2>3. dropped' \in Nat BY <1>0, <2>1
  <2>4. written' \in Seq(Line) BY <1>0, <1>1
  <2> QED BY <1>0, <1>1, <2>2, <2>3, <2>4
<1> QED BY <1>2, <1>3

\* One push keeps the newest lines.
LEMMA PushKeeps ==
  ASSUME LogsInv, NEW line \in Line, Push(line)
  PROVE  KeepsTheNewest'
<1>0. /\ lines \in Seq(Line) /\ dropped \in Nat /\ total \in Nat /\ written \in Seq(Line)
      /\ max_lines \in Nat
  BY LogsAssumption DEF LogsInv, LogsTypeOK
<1>1. max_lines' = max_lines /\ total' = total + 1 /\ written' = Append(written, line)
  BY DEF Push
<1>2. /\ total = Len(written) /\ dropped + Len(lines) = total
      /\ Len(lines) = (IF total < max_lines THEN total ELSE max_lines)
  BY DEF LogsInv, KeepsTheNewest, Tells
<1>3. \A i \in 1 .. Len(lines) : lines[i] = written[dropped + i]
  BY DEF LogsInv, KeepsTheNewest, Tells
<1>4. Len(written') = Len(written) + 1 /\ written'[Len(written) + 1] = line
  BY <1>0, <1>1
<1>5. \A k \in 1 .. Len(written) : written'[k] = written[k]
  BY <1>0, <1>1
<1>6. CASE max_lines = 0 /\ dropped' = dropped + 1 /\ lines' = lines
  <2>1. Len(lines) = 0 BY <1>0, <1>2, <1>6
  <2> QED BY <1>0, <1>1, <1>2, <1>4, <1>6, <2>1 DEF KeepsTheNewest, Tells
<1>7. CASE max_lines > 0 /\ Len(lines) = max_lines /\ dropped' = dropped + 1
           /\ lines' = Append(Tail(lines), line)
  <2>1. lines # <<>> BY <1>0, <1>7
  <2>2. Tail(lines) \in Seq(Line) /\ Len(Tail(lines)) = Len(lines) - 1
    BY <1>0, <2>1
  <2>3. \A i \in 1 .. Len(lines) - 1 : Tail(lines)[i] = lines[i + 1]
    BY <1>0, <2>1
  <2>4. Len(lines') = Len(lines) BY <1>7, <2>2, <1>0
  <2>5. ASSUME NEW i \in 1 .. Len(lines') PROVE lines'[i] = written'[dropped' + i]
    <3>1. CASE i = Len(lines)
      <4>1. lines'[i] = line BY <1>7, <2>2, <3>1, <1>0
      <4>2. dropped' + i = Len(written) + 1 BY <1>0, <1>2, <1>7, <3>1
      <4> QED BY <4>1, <4>2, <1>4
    <3>2. CASE i # Len(lines)
      <4>1. i \in 1 .. Len(lines) - 1 /\ i + 1 \in 1 .. Len(lines)
        BY <1>0, <2>4, <3>2
      <4>2. lines'[i] = Tail(lines)[i] BY <1>7, <2>2, <4>1, <1>0
      <4>3. lines'[i] = lines[i + 1] BY <4>1, <4>2, <2>3
      <4>4. lines'[i] = written[dropped + (i + 1)] BY <4>3, <4>1, <1>3
      <4>5. dropped + (i + 1) = dropped' + i /\ dropped + (i + 1) \in 1 .. Len(written)
        BY <1>0, <1>2, <1>7, <4>1
      <4> QED BY <4>4, <4>5, <1>5
    <3> QED BY <3>1, <3>2
  <2>6. total' = Len(written') /\ dropped' + Len(lines') = total'
    <3>1. Len(lines) \in Nat /\ dropped \in Nat /\ dropped' = dropped + 1 BY <1>0, <1>7
    <3>2. dropped' + Len(lines') = (dropped + Len(lines)) + 1 BY <2>4, <3>1
    <3>3. total' = total + 1 /\ Len(written') = total + 1 BY <1>1, <1>2, <1>4
    <3> QED BY <1>2, <3>2, <3>3
  <2>7. Len(lines') = (IF total' < max_lines' THEN total' ELSE max_lines')
    BY <1>0, <1>1, <1>2, <1>7, <2>4
  <2> QED BY <2>5, <2>6, <2>7 DEF KeepsTheNewest, Tells
<1>8. CASE Len(lines) < max_lines /\ dropped' = dropped /\ lines' = Append(lines, line)
  <2>1. Len(lines') = Len(lines) + 1 /\ lines'[Len(lines) + 1] = line
        /\ \A i \in 1 .. Len(lines) : lines'[i] = lines[i]
    BY <1>0, <1>8
  <2>2. ASSUME NEW i \in 1 .. Len(lines') PROVE lines'[i] = written'[dropped' + i]
    <3>1. CASE i = Len(lines) + 1
      <4>1. dropped' + i = Len(written) + 1 BY <1>0, <1>2, <1>8, <3>1
      <4> QED BY <4>1, <2>1, <3>1, <1>4
    <3>2. CASE i # Len(lines) + 1
      <4>1. i \in 1 .. Len(lines) /\ dropped + i \in 1 .. Len(written)
        BY <1>0, <1>2, <2>1, <3>2
      <4> QED BY <4>1, <2>1, <1>3, <1>5, <1>8
    <3> QED BY <3>1, <3>2
  <2>3. total' = Len(written') /\ dropped' + Len(lines') = total'
    BY <1>0, <1>1, <1>2, <1>4, <1>8, <2>1
  <2>4. Len(lines') = (IF total' < max_lines' THEN total' ELSE max_lines')
    BY <1>0, <1>1, <1>2, <1>8, <2>1
  <2> QED BY <2>2, <2>3, <2>4 DEF KeepsTheNewest, Tells
<1> QED BY <1>6, <1>7, <1>8 DEF Push

\* A snapshot stays true of what was written, for that only grows.
LEMMA PushKeepsSnapshot ==
  ASSUME LogsInv, NEW line \in Line, Push(line), shown' = shown
  PROVE  SnapshotIsTrue'
<1>0. /\ written \in Seq(Line) /\ shown.lines \in Seq(Line)
      /\ shown.dropped \in Nat /\ shown.total \in Nat
  BY DEF LogsInv, LogsTypeOK
<1>1. written' = Append(written, line) BY DEF Push
<1>2. shown.total <= Len(written) /\ shown.dropped + Len(shown.lines) = shown.total
  BY DEF LogsInv, SnapshotIsTrue, Tells
<1>3. \A i \in 1 .. Len(shown.lines) : shown.lines[i] = written[shown.dropped + i]
  BY DEF LogsInv, SnapshotIsTrue, Tells
<1>4. Len(written') = Len(written) + 1
  BY <1>0, <1>1
<1>5. \A k \in 1 .. Len(written) : written'[k] = written[k]
  BY <1>0, <1>1
<1>6. \A i \in 1 .. Len(shown.lines) : shown.dropped + i \in 1 .. Len(written)
  BY <1>0, <1>2
<1>7. \A i \in 1 .. Len(shown.lines) : shown.lines[i] = written'[shown.dropped + i]
  BY <1>3, <1>5, <1>6
<1>8. shown.total <= Len(written') BY <1>0, <1>2, <1>4
<1> QED BY <1>2, <1>7, <1>8 DEF SnapshotIsTrue, Tells

LEMMA LogsStep == LogsInv /\ [LogsNext]_logsVars => LogsInv'
<1> SUFFICES ASSUME LogsInv, [LogsNext]_logsVars PROVE LogsInv'
  OBVIOUS
<1>1. CASE UNCHANGED logsVars
  BY <1>1 DEF logsVars, logVars, LogsInv, LogsTypeOK, KeepsTheNewest, SnapshotIsTrue, Tells
<1>2. CASE Snapshot
  <2>1. LogsTypeOK' BY <1>2 DEF Snapshot, logVars, LogsInv, LogsTypeOK
  <2>2. KeepsTheNewest' BY <1>2 DEF Snapshot, logVars, LogsInv, KeepsTheNewest, Tells
  <2>3. total \in Nat /\ total = Len(written) BY DEF LogsInv, LogsTypeOK, KeepsTheNewest
  <2>4. SnapshotIsTrue'
    BY <1>2, <2>3 DEF Snapshot, logVars, LogsInv, KeepsTheNewest, SnapshotIsTrue, Tells
  <2> QED BY <2>1, <2>2, <2>4 DEF LogsInv
<1>3. CASE \E s \in Streams : ReadLine(s)
  <2>1. PICK s \in Streams : ReadLine(s) BY <1>3
  <2>2. read[s] \in Nat /\ read[s] < MaxRead /\ MaxRead \in Nat
    BY <2>1, LogsAssumption DEF ReadLine, LogsInv, LogsTypeOK
  <2>3. [stream |-> s, number |-> read[s] + 1] \in Line BY <2>2 DEF Line, Failed
  <2>4. Push([stream |-> s, number |-> read[s] + 1]) /\ shown' = shown /\ reading' = reading
    BY <2>1 DEF ReadLine
  <2>5. read' \in [Streams -> 0 .. MaxRead]
    BY <2>1, <2>2 DEF ReadLine, LogsInv, LogsTypeOK
  <2>6. LogsTypeOK' BY <2>3, <2>4, <2>5, PushTypes DEF LogsInv, LogsTypeOK
  <2> QED BY <2>3, <2>4, <2>6, PushKeeps, PushKeepsSnapshot DEF LogsInv
<1>4. CASE \E s \in Streams : ReadFails(s)
  <2>1. PICK s \in Streams : ReadFails(s) BY <1>4
  <2>2. [stream |-> s, number |-> Failed] \in Line BY LogsAssumption DEF Line, Failed
  <2>3. Push([stream |-> s, number |-> Failed]) /\ shown' = shown /\ read' = read
        /\ reading' \subseteq reading
    BY <2>1 DEF ReadFails
  <2>4. LogsTypeOK' BY <2>2, <2>3, PushTypes DEF LogsInv, LogsTypeOK
  <2> QED BY <2>2, <2>3, <2>4, PushKeeps, PushKeepsSnapshot DEF LogsInv
<1>5. CASE \E s \in Streams : ReadEnds(s)
  <2>1. logVars' = logVars /\ read' = read /\ shown' = shown /\ written' = written
        /\ reading' \subseteq reading
    BY <1>5 DEF ReadEnds
  <2> QED
    BY <2>1 DEF logVars, LogsInv, LogsTypeOK, KeepsTheNewest, SnapshotIsTrue, Tells
<1> QED BY <1>1, <1>2, <1>3, <1>4, <1>5 DEF LogsNext

THEOREM LogsInvariant == LogsSpec => []LogsInv
BY LogsInitially, LogsStep, PTL DEF LogsSpec

\* For any size, streams and output, the log holds the newest lines and its counts
\* say which (process/logs.rs 79-94).
THEOREM LogsKeepTheNewest == LogsSpec => []KeepsTheNewest
<1>1. LogsInv => KeepsTheNewest BY DEF LogsInv
<1> QED BY <1>1, LogsInvariant, PTL

\* What the interface shows or copies has no gaps, and its count of dropped lines
\* is right (process/logs.rs 42-58, 96-102).
THEOREM LogsSnapshotIsTrue == LogsSpec => []SnapshotIsTrue
<1>1. LogsInv => SnapshotIsTrue BY DEF LogsInv
<1> QED BY <1>1, LogsInvariant, PTL

-------------------------------------------------------------------------------
(* The tracker.                                                                *)

LEMMA TrackingInitially == TrackingInit => TrackingTypeOK
<1> SUFFICES ASSUME TrackingInit PROVE TrackingTypeOK OBVIOUS
<1>1. Live = {} /\ DOMAIN mother = {} BY DEF TrackingInit, Live
<1>2. snapshot \in [{} -> [parent_pid : Pids \cup {None}, matches : BOOLEAN]]
      /\ mother \in [{} -> Pids \cup {None}]
  BY DEF TrackingInit
<1>3. started \in 0 .. MaxStarts BY TrackingAssumption DEF TrackingInit
<1> QED BY <1>1, <1>2, <1>3 DEF TrackingInit, TrackingTypeOK

\* A process that starts keeps the types, whoever starts it.
LEMMA RunTypes ==
  ASSUME TrackingTypeOK, NEW p \in Pids, NEW by \in Pids \cup {None}, NEW matches \in BOOLEAN,
         Run(p, by, matches)
  PROVE  /\ snapshot' \in [Live' -> [parent_pid : Pids \cup {None}, matches : BOOLEAN]]
         /\ mother' \in [DOMAIN mother' -> Pids \cup {None}]
         /\ Live' = Live \cup {p} /\ DOMAIN mother' = DOMAIN mother \cup {p}
         /\ Live' \cup DOMAIN mother' \subseteq Pids
         /\ reused' \in BOOLEAN /\ started' \in 0 .. MaxStarts
<1>1. snapshot' \in [Live' -> [parent_pid : Pids \cup {None}, matches : BOOLEAN]]
      /\ Live' = Live \cup {p}
  BY DEF TrackingTypeOK, Run, Live
<1>2. mother' \in [DOMAIN mother' -> Pids \cup {None}] /\ DOMAIN mother' = DOMAIN mother \cup {p}
  BY DEF TrackingTypeOK, Run
<1>3. started' \in 0 .. MaxStarts BY TrackingAssumption DEF TrackingTypeOK, Run
<1>4. reused' \in BOOLEAN BY DEF TrackingTypeOK, Run
<1> QED BY <1>1, <1>2, <1>3, <1>4 DEF TrackingTypeOK

LEMMA TrackingTypeKept ==
  ASSUME TrackingTypeOK, [TrackingNext]_trackingVars
  PROVE  TrackingTypeOK'
<1>1. CASE Starts
  <2>1. PICK p \in Pids, by \in Live \cup {None}, matches \in BOOLEAN : Run(p, by, matches)
    BY <1>1 DEF Starts
  <2>2. by \in Pids \cup {None} BY DEF TrackingTypeOK
  <2>3. /\ snapshot' \in [Live' -> [parent_pid : Pids \cup {None}, matches : BOOLEAN]]
        /\ mother' \in [DOMAIN mother' -> Pids \cup {None}]
        /\ Live' \cup DOMAIN mother' \subseteq Pids
        /\ reused' \in BOOLEAN /\ started' \in 0 .. MaxStarts
    BY <2>1, <2>2, RunTypes
  <2>4. /\ baseline_pids' \cup seen' \subseteq Pids /\ adopted' \in BOOLEAN
        /\ stage' \in {"start", "prepared", "degraded", "launched"}
        /\ child_pid' \in IF stage' = "launched" THEN Pids ELSE {None}
    BY <1>1 DEF Starts, TrackingTypeOK
  <2> QED BY <2>3, <2>4 DEF TrackingTypeOK
<1>2. CASE Stops
  <2>1. snapshot' \in [Live' -> [parent_pid : Pids \cup {None}, matches : BOOLEAN]] /\ Live' \subseteq Live
    BY <1>2 DEF Stops, TrackingTypeOK, Live
  <2> QED BY <1>2, <2>1 DEF Stops, TrackingTypeOK
<1>3. CASE Prepare
  BY <1>3 DEF Prepare, TrackingTypeOK, matching_processes, Live
<1>4. CASE PrepareFails
  BY <1>4 DEF PrepareFails, TrackingTypeOK, Live
<1>5. CASE Launch
  <2>1. PICK p \in Pids, matches \in BOOLEAN : Run(p, None, matches) /\ child_pid' = p
    BY <1>5 DEF Launch
  <2>2. /\ snapshot' \in [Live' -> [parent_pid : Pids \cup {None}, matches : BOOLEAN]]
        /\ mother' \in [DOMAIN mother' -> Pids \cup {None}]
        /\ Live' \cup DOMAIN mother' \subseteq Pids
        /\ reused' \in BOOLEAN /\ started' \in 0 .. MaxStarts
    BY <2>1, RunTypes
  <2>3. /\ baseline_pids' \cup seen' \subseteq Pids /\ adopted' \in BOOLEAN
        /\ stage' = "launched" /\ child_pid' \in Pids
    BY <1>5, <2>1 DEF Launch, TrackingTypeOK
  <2> QED BY <2>2, <2>3 DEF TrackingTypeOK
<1>6. CASE UNCHANGED trackingVars
  BY <1>6 DEF trackingVars, TrackingTypeOK, Live
<1> QED BY <1>1, <1>2, <1>3, <1>4, <1>5, <1>6 DEF TrackingNext

\* For any finite set of pids, the tracker has a child pid exactly from the launch on
\* (app.rs 85-98).
THEOREM TrackingTypeCorrect == TrackingSpec => []TrackingTypeOK
BY TrackingInitially, TrackingTypeKept, PTL DEF TrackingSpec

-------------------------------------------------------------------------------
(* Climbing.                                                                   *)

\* What one turn of the loop adds, if the rest of the climb is known.
Turn(rest, visited, ancestor) ==
  {current \in DOMAIN Parents :
     \/ Parents[current] = ancestor
     \/ current \notin visited /\ Parents[current] \in rest[visited \cup {current}]}

\* The definition by recursion does define: the least fixed point solves it.
LEMMA ClimbsSolves ==
  ASSUME TrackingTypeOK, NEW a
  PROVE  Climbs(a) = [visited \in SUBSET Pids |-> Turn(Climbs(a), visited, a)]
<1> DEFINE Open(f) == \A v \in SUBSET Pids : Turn(f, v, a) \subseteq f[v]
           All == [SUBSET Pids -> SUBSET DOMAIN Parents]
           least == [v \in SUBSET Pids |-> {c \in DOMAIN Parents : \A f \in All : Open(f) => c \in f[v]}]
           next == [v \in SUBSET Pids |-> Turn(least, v, a)]
<1>0. DOMAIN Parents \subseteq Pids BY DEF Parents, TrackingTypeOK
<1>1. least \in All /\ next \in All BY DEF Turn
<1>2. \A v \in SUBSET Pids : next[v] \subseteq least[v]
  <2> SUFFICES ASSUME NEW v \in SUBSET Pids, NEW c \in next[v], NEW f \in All, Open(f)
               PROVE  c \in f[v]
    BY DEF Turn
  <2>1. \A w \in SUBSET Pids : least[w] \subseteq f[w] OBVIOUS
  <2>2. c \in Turn(least, v, a) OBVIOUS
  <2>3. c \in Turn(f, v, a) BY <1>0, <2>1, <2>2 DEF Turn
  <2> QED BY <2>3
<1>3. Open(next)
  <2> SUFFICES ASSUME NEW v \in SUBSET Pids, NEW c \in Turn(next, v, a)
               PROVE  c \in Turn(least, v, a)
    OBVIOUS
  <2> HIDE DEF least, next
  <2> QED BY <1>0, <1>2 DEF Turn
<1>4. \A v \in SUBSET Pids : least[v] \subseteq next[v]
  BY <1>1, <1>3
<1>5. least = [v \in SUBSET Pids |-> Turn(least, v, a)]
  BY <1>1, <1>2, <1>4
<1> HIDE DEF least
<1> QED BY <1>5 DEF Climbs, Turn

\* Visiting ends: of a collection of visited sets, some cannot be extended within it.
LEMMA VisitingEnds ==
  ASSUME NEW V \in SUBSET SUBSET Pids, V # {}
  PROVE  \E v \in V : \A c \in Pids \ v : v \cup {c} \notin V
<1> DEFINE T == {Pids \ v : v \in V}
           F == FiniteSubsetsOf(Pids)
<1>1. T \subseteq F /\ T # {}
  <2>1. F = SUBSET Pids BY FS_FiniteSubsetsOfFinite, TrackingAssumption
  <2>2. T \subseteq SUBSET Pids OBVIOUS
  <2>3. T # {}
    <3>1. PICK v : v \in V OBVIOUS
    <3>2. Pids \ v \in T BY <3>1
    <3> QED BY <3>2
  <2> QED BY <2>1, <2>2, <2>3
<1>2. PICK u \in T : \A w \in T : <<w, u>> \notin StrictSubsetOrdering(Pids)
  <2> HIDE DEF T, F
  <2>1. IsWellFoundedOn(StrictSubsetOrdering(Pids), F)
    BY FS_StrictSubsetOrderingWellFounded DEF F
  <2> QED BY <1>1, <2>1, WFMin
<1>3. PICK v \in V : u = Pids \ v OBVIOUS
<1>4. ASSUME NEW c \in Pids \ v, v \cup {c} \in V PROVE FALSE
  <2>1. Pids \ (v \cup {c}) \in T BY <1>4
  <2>2. Pids \ (v \cup {c}) \subseteq u /\ c \in u /\ c \notin Pids \ (v \cup {c}) BY <1>3
  <2>3. <<Pids \ (v \cup {c}), u>> \in StrictSubsetOrdering(Pids)
    BY <1>3, <2>2 DEF StrictSubsetOrdering
  <2> QED BY <1>2, <2>1, <2>3
<1> QED BY <1>4

\* A process from which the climb comes to the ancestor has it above it.
LEMMA FoundIsReached ==
  ASSUME TrackingTypeOK, NEW p \in Pids, NEW a \in Pids, is_descendant_of(p, a),
         NEW S \in SUBSET Pids,
         \A r, t \in Pids : (r = p \/ r \in S) /\ r \in DOMAIN Parents /\ Parents[r] = t => t \in S
  PROVE  a \in S
<1> DEFINE V == {v \in SUBSET Pids : \E c \in {p} \cup S : c \in Climbs(a)[v]}
<1>0. \A c \in DOMAIN Parents : c \in Pids /\ Parents[c] \in Pids
  BY DEF Parents, TrackingTypeOK
<1>1. {} \in V BY DEF is_descendant_of
<1>2. PICK v \in V : \A c \in Pids \ v : v \cup {c} \notin V
  <2> V \in SUBSET SUBSET Pids OBVIOUS
  <2> HIDE DEF V
  <2> QED BY <1>1, VisitingEnds
<1>3. PICK c \in {p} \cup S : c \in Climbs(a)[v] OBVIOUS
<1>4. c \in Turn(Climbs(a), v, a) BY <1>3, ClimbsSolves
<1>5. CASE Parents[c] = a BY <1>0, <1>4, <1>5 DEF Turn
<1>6. CASE c \notin v /\ Parents[c] \in Climbs(a)[v \cup {c}]
  <2>1. c \in Pids /\ Parents[c] \in S BY <1>0, <1>4 DEF Turn
  <2>2. v \cup {c} \in V BY <1>6, <2>1
  <2> QED BY <1>2, <1>6, <2>1, <2>2
<1> QED BY <1>4, <1>5, <1>6 DEF Turn

\* The visited processes are above p, one above the other, and none is below the ancestor.
Way(p, a, v, c) ==
  /\ c \in Pids /\ p \in v \cup {c}
  /\ \A r \in v : r \in DOMAIN Parents /\ Parents[r] # a /\ Parents[r] \in v \cup {c}

\* If the climb does not come to the ancestor, then all that is above the process is
\* what was visited, and the ancestor is not among it.
LEMMA NotFoundIsNotReached ==
  ASSUME TrackingTypeOK, NEW p \in Pids, NEW a \in Pids, ~is_descendant_of(p, a)
  PROVE  \E S \in SUBSET Pids :
           /\ a \notin S
           /\ \A r, t \in Pids :
                (r = p \/ r \in S) /\ r \in DOMAIN Parents /\ Parents[r] = t => t \in S
<1> DEFINE V == {v \in SUBSET Pids : \E c \in Pids : Way(p, a, v, c) /\ c \notin Climbs(a)[v]}
<1>0. \A c \in DOMAIN Parents : c \in Pids /\ Parents[c] \in Pids
  BY DEF Parents, TrackingTypeOK
<1>1. {} \in V BY DEF is_descendant_of, Way
<1>2. PICK v \in V : \A c \in Pids \ v : v \cup {c} \notin V
  <2> V \in SUBSET SUBSET Pids OBVIOUS
  <2> HIDE DEF V
  <2> QED BY <1>1, VisitingEnds
<1>3. PICK c \in Pids : Way(p, a, v, c) /\ c \notin Climbs(a)[v] OBVIOUS
<1>4. c \notin Turn(Climbs(a), v, a) BY <1>3, ClimbsSolves
<1>5. c \notin DOMAIN Parents \/ c \in v
  <2> SUFFICES ASSUME c \in DOMAIN Parents, c \notin v PROVE FALSE OBVIOUS
  <2>1. Parents[c] # a /\ Parents[c] \notin Climbs(a)[v \cup {c}] BY <1>4 DEF Turn
  <2>2. Way(p, a, v \cup {c}, Parents[c]) BY <1>0, <1>3, <2>1 DEF Way
  <2>3. v \cup {c} \in V BY <1>0, <2>1, <2>2
  <2> QED BY <1>2, <2>3
<1> DEFINE S == {Parents[r] : r \in v}
<1>6. S \in SUBSET Pids /\ S \subseteq v \cup {c} /\ a \notin S BY <1>0, <1>3 DEF Way
<1>7. ASSUME NEW r \in Pids, r = p \/ r \in S, r \in DOMAIN Parents PROVE Parents[r] \in S
  BY <1>3, <1>5, <1>6, <1>7 DEF Way
<1> HIDE DEF S
<1> QED BY <1>6, <1>7

\* The two lemmas together are the property: the ancestor is found exactly if it is
\* in every set that has all that is above the process.
LEMMA TypesMakeFound == TrackingTypeOK => DescendantsAreFound
<1> SUFFICES ASSUME TrackingTypeOK PROVE DescendantsAreFound OBVIOUS
<1> DEFINE Above(p, q) == p \in DOMAIN Parents /\ Parents[p] = q
<1>1. ASSUME NEW p \in Live, NEW q \in Pids
      PROVE  is_descendant_of(p, q) <=> Reached(p, q, Above)
  <2>0. p \in Pids BY DEF TrackingTypeOK
  <2>1. is_descendant_of(p, q) => Reached(p, q, Above)
    BY <2>0, FoundIsReached DEF Reached
  <2>2. ~is_descendant_of(p, q) => ~Reached(p, q, Above)
    BY <2>0, NotFoundIsNotReached DEF Reached
  <2> QED BY <2>1, <2>2
<1> QED BY <1>1 DEF DescendantsAreFound

\* For any parents, also those that pids given again have closed to a cycle, the climb
\* ends and has found the ancestor exactly if it is above (tracking.rs 277-290).
THEOREM TrackingDescendants == TrackingSpec => []DescendantsAreFound
BY TrackingTypeCorrect, TypesMakeFound, PTL

-------------------------------------------------------------------------------
(* The application.                                                            *)

\* While no pid was given twice: a process has the parent that started it, or none
\* if that has gone and orphans are adopted; and of the matching processes, those of
\* the baseline are those that were there when it was captured.
HistoryInv ==
  ~reused =>
    /\ Live \cup seen \subseteq DOMAIN mother /\ baseline_pids \subseteq seen
    /\ stage = "start" => seen = {}
    /\ \A p \in DOMAIN mother : mother[p] \in DOMAIN mother \cup {None}
    /\ \A p \in Live :
         /\ snapshot[p].parent_pid = IF adopted /\ mother[p] \notin Live THEN None ELSE mother[p]
         /\ snapshot[p].matches /\ p \in seen => p \in baseline_pids

TrackingInv == TrackingTypeOK /\ HistoryInv

\* A process whose pid is new is the parent of none: it changes no other's history.
LEMMA RunKeepsHistory ==
  ASSUME TrackingInv, NEW p \in Pids, NEW by \in Live \cup {None}, NEW matches \in BOOLEAN,
         Run(p, by, matches), UNCHANGED <<baseline_pids, adopted, seen>>,
         stage' \in {stage, "launched"}
  PROVE  HistoryInv'
<1> SUFFICES ASSUME ~reused' PROVE HistoryInv' BY DEF HistoryInv
<1>1. ~reused /\ p \notin DOMAIN mother BY DEF Run, TrackingInv, TrackingTypeOK
<1>2. by \in Pids \cup {None} BY DEF TrackingInv, TrackingTypeOK
<1>3. /\ Live' = Live \cup {p} /\ DOMAIN mother' = DOMAIN mother \cup {p}
  <2> HIDE DEF TrackingTypeOK
  <2>1. TrackingTypeOK BY DEF TrackingInv
  <2> QED BY <1>2, <2>1, RunTypes, SMTT(30)
<1>4. /\ snapshot'[p] = [parent_pid |-> by, matches |-> matches] /\ mother'[p] = by
      /\ \A q \in Live : q # p => snapshot'[q] = snapshot[q]
      /\ \A q \in DOMAIN mother : mother'[q] = mother[q]
  BY <1>1 DEF Run
<1>5. /\ Live \cup seen \subseteq DOMAIN mother /\ baseline_pids \subseteq seen
      /\ stage = "start" => seen = {}
      /\ \A q \in DOMAIN mother : mother[q] \in DOMAIN mother \cup {None}
  BY <1>1 DEF TrackingInv, HistoryInv
<1>6. /\ Live' \cup seen' \subseteq DOMAIN mother' /\ baseline_pids' \subseteq seen'
      /\ stage' = "start" => seen' = {}
      /\ \A q \in DOMAIN mother' : mother'[q] \in DOMAIN mother' \cup {None}
  BY <1>3, <1>4, <1>5
<1>7. ASSUME NEW q \in Live'
      PROVE  /\ snapshot'[q].parent_pid
                  = IF adopted' /\ mother'[q] \notin Live' THEN None ELSE mother'[q]
             /\ snapshot'[q].matches /\ q \in seen' => q \in baseline_pids'
  <2>1. CASE q = p BY <1>1, <1>3, <1>4, <1>5, <2>1
  <2>2. CASE q # p
    <3>1. q \in Live /\ q \in DOMAIN mother /\ mother'[q] = mother[q] /\ snapshot'[q] = snapshot[q]
      BY <1>3, <1>4, <1>5, <2>2
    <3>2. mother[q] # p BY <1>1, <1>5, <3>1, TrackingAssumption
    <3>3. mother'[q] \in Live' <=> mother[q] \in Live BY <1>3, <3>1, <3>2
    <3> QED BY <1>1, <3>1, <3>3 DEF TrackingInv, HistoryInv
  <2> QED BY <2>1, <2>2
<1> QED BY <1>6, <1>7 DEF HistoryInv

LEMMA HistoryKept ==
  ASSUME TrackingInv, [TrackingNext]_trackingVars
  PROVE  HistoryInv'
<1>1. CASE Starts BY <1>1, RunKeepsHistory DEF Starts
<1>2. CASE Stops
  <2> SUFFICES ASSUME ~reused' PROVE HistoryInv' BY DEF HistoryInv
  <2>1. PICK p \in Live :
          snapshot' = [q \in Live \ {p} |->
            IF adopted /\ snapshot[q].parent_pid = p
              THEN [snapshot[q] EXCEPT !.parent_pid = None] ELSE snapshot[q]]
    BY <1>2 DEF Stops
  <2>2. Live' = Live \ {p} BY <2>1 DEF Live
  <2>3. UNCHANGED <<baseline_pids, stage, adopted, mother, seen, reused>> BY <1>2 DEF Stops
  <2>4. ASSUME NEW q \in Live'
        PROVE  /\ snapshot'[q].parent_pid
                    = IF adopted' /\ mother'[q] \notin Live' THEN None ELSE mother'[q]
               /\ snapshot'[q].matches /\ q \in seen' => q \in baseline_pids'
    <3>1. q \in Live /\ q # p /\ snapshot[q] \in [parent_pid : Pids \cup {None}, matches : BOOLEAN]
      BY <2>2 DEF TrackingInv, TrackingTypeOK
    <3>2. /\ snapshot[q].parent_pid = IF adopted /\ mother[q] \notin Live THEN None ELSE mother[q]
          /\ snapshot[q].matches /\ q \in seen => q \in baseline_pids
      BY <2>3, <3>1 DEF TrackingInv, HistoryInv
    <3>3. p # None BY TrackingAssumption DEF TrackingInv, TrackingTypeOK
    <3>4. CASE adopted /\ snapshot[q].parent_pid = p
      <4>1. snapshot'[q].parent_pid = None /\ snapshot'[q].matches = snapshot[q].matches
        BY <2>1, <2>2, <3>1, <3>4
      <4>2. mother[q] = p BY <3>2, <3>3, <3>4
      <4> QED BY <2>2, <2>3, <3>2, <3>4, <4>1, <4>2
    <3>5. CASE ~(adopted /\ snapshot[q].parent_pid = p)
      <4>1. snapshot'[q] = snapshot[q] BY <2>1, <2>2, <3>5
      <4>2. adopted => (mother[q] \notin Live' <=> mother[q] \notin Live)
        BY <2>2, <3>2, <3>5
      <4> QED BY <2>3, <3>2, <4>1, <4>2
    <3> QED BY <3>4, <3>5
  <2> QED BY <2>2, <2>3, <2>4 DEF TrackingInv, HistoryInv
<1>3. CASE Prepare
  <2> SUFFICES ASSUME ~reused' PROVE HistoryInv' BY DEF HistoryInv
  <2>1. UNCHANGED <<snapshot, adopted, mother, reused, Live>> /\ stage' = "prepared"
    BY <1>3 DEF Prepare, Live
  <2>2. seen' = Live /\ baseline_pids' \subseteq Live BY <1>3 DEF Prepare, matching_processes
  <2>3. \A p \in Live : snapshot[p].matches => p \in baseline_pids'
    BY <1>3 DEF Prepare, matching_processes
  <2> QED BY <2>1, <2>2, <2>3 DEF TrackingInv, HistoryInv
<1>4. CASE PrepareFails
  BY <1>4 DEF PrepareFails, TrackingInv, TrackingTypeOK, HistoryInv, Live
<1>5. CASE Launch BY <1>5, RunKeepsHistory DEF Launch
<1>6. CASE UNCHANGED trackingVars
  BY <1>6 DEF trackingVars, TrackingInv, HistoryInv, Live
<1> QED BY <1>1, <1>2, <1>3, <1>4, <1>5, <1>6 DEF TrackingNext

\* Climbing the parents and following the starts lead to the same child.
LEMMA ParentsAreStarters ==
  ASSUME TrackingInv, stage = "launched", ~reused, NEW p \in Live
  PROVE  LET Above(q, r) == q \in DOMAIN Parents /\ Parents[q] = r
             Started(q, r) == q \in Live /\ mother[q] = r
                              /\ (r \in Live \/ (r = child_pid /\ ~adopted))
         IN  Reached(p, child_pid, Above) <=> Reached(p, child_pid, Started)
<1> DEFINE Above(q, r) == q \in DOMAIN Parents /\ Parents[q] = r
           Started(q, r) == q \in Live /\ mother[q] = r
                            /\ (r \in Live \/ (r = child_pid /\ ~adopted))
<1>1. \A q, r \in Pids : Above(q, r) <=> q \in Live /\ snapshot[q].parent_pid = r
  BY TrackingAssumption DEF Parents
<1>2. \A q \in Live : snapshot[q].parent_pid
                        = IF adopted /\ mother[q] \notin Live THEN None ELSE mother[q]
  BY DEF TrackingInv, HistoryInv
<1>3. \A q, r \in Pids : Started(q, r) => Above(q, r)
  BY <1>1, <1>2
<1>4. \A q, r \in Pids : Above(q, r) /\ (r \in Live \/ r = child_pid) => Started(q, r)
  BY <1>1, <1>2, TrackingAssumption
<1> HIDE DEF Above, Started
<1>5. Reached(p, child_pid, Started) => Reached(p, child_pid, Above)
  BY <1>3 DEF Reached
<1>6. ASSUME Reached(p, child_pid, Above), NEW S \in SUBSET Pids,
             \A r, t \in Pids : (r = p \/ r \in S) /\ Started(r, t) => t \in S
      PROVE  child_pid \in S
  <2> DEFINE gone == {q \in Pids : q \notin Live /\ q # child_pid}
  <2>1. ASSUME NEW r \in Pids, NEW t \in Pids, r = p \/ r \in S \cup gone, Above(r, t)
        PROVE  t \in S \cup gone
    <3>1. r = p \/ r \in S BY <1>1, <2>1
    <3> QED BY <1>4, <1>6, <2>1, <3>1
  <2>2. S \cup gone \in SUBSET Pids OBVIOUS
  <2>3. child_pid \in S \cup gone BY <1>6, <2>1, <2>2 DEF Reached
  <2> QED BY <2>3
<1>7. Reached(p, child_pid, Above) => Reached(p, child_pid, Started)
  BY <1>6 DEF Reached
<1> QED BY <1>5, <1>7 DEF Above, Started

LEMMA HistoryMakesActive == TrackingInv => ActiveIsTheApplication
<1> SUFFICES ASSUME TrackingInv, stage = "launched", ~reused, NEW p \in Live
             PROVE  LET Started(q, r) == q \in Live /\ mother[q] = r
                                         /\ (r \in Live \/ (r = child_pid /\ ~adopted))
                    IN p \in matching_processes(baseline_pids) <=>
                         \/ p = child_pid \/ Reached(p, child_pid, Started)
                         \/ snapshot[p].matches /\ p \notin seen
  BY DEF ActiveIsTheApplication
<1>1. child_pid \in Pids /\ child_pid # None
  BY TrackingAssumption DEF TrackingInv, TrackingTypeOK
<1> DEFINE Above(q, r) == q \in DOMAIN Parents /\ Parents[q] = r
<1>2. is_descendant_of(p, child_pid) <=> Reached(p, child_pid, Above)
  BY <1>1, TypesMakeFound DEF DescendantsAreFound, TrackingInv
<1>3. snapshot[p].matches => (p \in baseline_pids <=> p \in seen)
  BY DEF TrackingInv, HistoryInv
<1> HIDE DEF Above
<1>4. p \in matching_processes(baseline_pids) <=>
        \/ p = child_pid \/ Reached(p, child_pid, Above)
        \/ snapshot[p].matches /\ p \notin seen
  BY <1>1, <1>2, <1>3 DEF matching_processes
<1> QED BY <1>4, ParentsAreStarters DEF Above

\* For any number of processes, what is taken for the application is the child, what it
\* started and what matches and is new, as long as no pid is given twice
\* (tracking.rs 193-208, 254-275).
THEOREM TrackingActive == TrackingSpec => []ActiveIsTheApplication
<1>1. TrackingInit => HistoryInv
  BY DEF TrackingInit, HistoryInv, Live
<1>2. TrackingInv /\ [TrackingNext]_trackingVars => TrackingInv'
  BY TrackingTypeKept, HistoryKept DEF TrackingInv
<1> QED BY <1>1, <1>2, TrackingInitially, HistoryMakesActive, PTL DEF TrackingSpec, TrackingInv
=============================================================================

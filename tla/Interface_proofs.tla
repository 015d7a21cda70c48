--------------------------- MODULE Interface_proofs ---------------------------
(***************************************************************************)
(* Proofs about Interface, for any hosts, logs and page sizes: a scrolled   *)
(* log shows a line, leaving is an answer to a dialog that was drawn, the   *)
(* highlight stays on its entry, the details and the suggestions are never  *)
(* scrolled out of sight.                                                   *)
(***************************************************************************)
EXTENDS Interface, FiniteSetTheorems, FunctionTheorems, TLAPS

\* The log part: what was drawn of a log is still there, for a log never shrinks.
LogInv ==
  /\ lines \in [LogTabs -> Nat]
  /\ frame.lines \in [LogTabs -> Nat]
  /\ \A t \in LogTabs : frame.lines[t] <= lines[t]
  /\ logTab \in LogTabs
  /\ logOffset \in Nat
  /\ logOffset <= Minus(lines[logTab], 1)

\* The dialog part: a key meets the dialog that its frame showed.
DialogInv == pc = "key" /\ confirmQuit => frame.dialog

\* The keys that leave the logs, their tab and their offset alone.
OtherKeys ==
  \/ AnswerQuit \/ AskToQuit \/ ShowHelp \/ Escape
  \/ \E key \in MoveKeys : SelectRequest(key) \/ ScrollDetails(key)
  \/ OpenDetails \/ SwitchTab \/ Export
  \/ BeginEdit \/ CancelEdit \/ ApplyFilter \/ RefuseFilter \/ Type
  \/ ChooseSuggestion \/ AcceptSuggestion

LogsUntouched == lines' = lines /\ logTab' = logTab /\ logOffset' = logOffset

LEMMA BlankFrame == Blank.lines \in [LogTabs -> Nat] /\ \A t \in LogTabs : Blank.lines[t] = 0
BY DEF Blank, LogTabs

LEMMA HandledFrame ==
  ASSUME Handled
  PROVE  frame' = Blank /\ lines' = lines /\ pc' = "check" /\ exit' = exit
BY DEF Handled

\* Every key ends the round of its frame, and leaves the logs as they are.
LEMMA KeysDropTheFrame ==
  ASSUME Keys
  PROVE  /\ frame' = Blank /\ lines' = lines /\ pc' # "key"
         /\ \/ exit' = exit
            \/ exit' = "error"
            \/ AnswerQuit /\ pc = "key" /\ confirmQuit
<1>1. CASE AnswerQuit BY <1>1 DEF AnswerQuit, Exit, Handled
<1>2. CASE AskToQuit \/ ShowHelp \/ ToggleLogs \/ Escape
  BY <1>2, HandledFrame DEF AskToQuit, ShowHelp, ToggleLogs, Escape
<1>3. CASE \E key \in MoveKeys : SelectRequest(key) \/ ScrollDetails(key) \/ ScrollLogs(key)
  BY <1>3, HandledFrame DEF SelectRequest, ScrollDetails, ScrollLogs
<1>4. CASE OpenDetails \/ SwitchTab \/ SwitchLog \/ ClearSession
  BY <1>4, HandledFrame DEF OpenDetails, SwitchTab, SwitchLog, ClearSession
<1>5. CASE Export BY <1>5 DEF Export, Exit, worldVars
<1>6. CASE BeginEdit \/ CancelEdit \/ ApplyFilter \/ RefuseFilter \/ Type
  BY <1>6, HandledFrame DEF BeginEdit, CancelEdit, ApplyFilter, RefuseFilter, Type, Editing
<1>7. CASE ChooseSuggestion \/ AcceptSuggestion
  BY <1>7, HandledFrame DEF ChooseSuggestion, AcceptSuggestion, Editing
<1> QED BY <1>1, <1>2, <1>3, <1>4, <1>5, <1>6, <1>7 DEF Keys

LEMMA OtherKeysLeaveLogs == ASSUME OtherKeys PROVE LogsUntouched
<1>1. CASE AnswerQuit
  BY <1>1 DEF AnswerQuit, Exit, Handled, logVars, LogsUntouched
<1>2. CASE AskToQuit \/ ShowHelp \/ Escape
  BY <1>2, HandledFrame DEF AskToQuit, ShowHelp, Escape, logVars, LogsUntouched
<1>3. CASE \E key \in MoveKeys : SelectRequest(key) \/ ScrollDetails(key)
  BY <1>3, HandledFrame DEF SelectRequest, ScrollDetails, logVars, LogsUntouched
<1>4. CASE OpenDetails \/ SwitchTab
  BY <1>4, HandledFrame DEF OpenDetails, SwitchTab, logVars, LogsUntouched
<1>5. CASE Export
  BY <1>5 DEF Export, worldVars, stateVars, logVars, LogsUntouched
<1>6. CASE BeginEdit \/ CancelEdit \/ ApplyFilter \/ RefuseFilter \/ Type
  BY <1>6, HandledFrame
     DEF BeginEdit, CancelEdit, ApplyFilter, RefuseFilter, Type, Editing, logVars, LogsUntouched
<1>7. CASE ChooseSuggestion \/ AcceptSuggestion
  BY <1>7, HandledFrame DEF ChooseSuggestion, AcceptSuggestion, Editing, logVars, LogsUntouched
<1> QED BY <1>1, <1>2, <1>3, <1>4, <1>5, <1>6, <1>7 DEF OtherKeys

-----------------------------------------------------------------------------
LEMMA LogInit == InterfaceInit => LogInv
BY BlankFrame DEF InterfaceInit, LogInv, LogTabs, Minus

\* Where the offset goes when a log is scrolled: inside the log that was drawn.
LEMMA ScrollStaysInside ==
  ASSUME LogInv, NEW key \in MoveKeys, ScrollLogs(key)
  PROVE  logOffset' \in Nat /\ logOffset' <= Minus(lines[logTab], 1)
<1> DEFINE count == frame.lines[logTab]
           held == lines[logTab]
<1>1. count \in Nat /\ held \in Nat /\ count <= held /\ logOffset \in Nat
      /\ logOffset <= Minus(held, 1) /\ Page \in Nat \ {0}
  BY InterfaceAssumption DEF LogInv
<1> DEFINE older(n) == IF logOffset < Minus(count, 1) THEN Least(logOffset + n, count - 1)
                                                      ELSE logOffset
<1>2. \A n \in Nat : older(n) \in Nat /\ older(n) <= Minus(held, 1)
  BY <1>1 DEF Minus, Least
<1>3. CASE key = "up"
  <2>1. logOffset' = older(1) BY <1>3 DEF ScrollLogs
  <2> QED BY <2>1, <1>2
<1>4. CASE key = "page up"
  <2>1. logOffset' = older(Page) BY <1>4 DEF ScrollLogs
  <2> QED BY <2>1, <1>1, <1>2
<1>5. CASE key = "down"
  <2>1. logOffset' = Minus(logOffset, 1) BY <1>5 DEF ScrollLogs
  <2> QED BY <2>1, <1>1 DEF Minus
<1>6. CASE key = "page down"
  <2>1. logOffset' = Minus(logOffset, Page) BY <1>6 DEF ScrollLogs
  <2> QED BY <2>1, <1>1 DEF Minus
<1>7. CASE key = "home"
  <2>1. logOffset' = IF count = 0 THEN logOffset ELSE count - 1 BY <1>7 DEF ScrollLogs
  <2> QED BY <2>1, <1>1 DEF Minus
<1>8. CASE key = "end"
  <2>1. logOffset' = 0 BY <1>8 DEF ScrollLogs
  <2> QED BY <2>1, <1>1 DEF Minus
<1> QED BY <1>3, <1>4, <1>5, <1>6, <1>7, <1>8 DEF MoveKeys

LEMMA LogStep == LogInv /\ [InterfaceNext]_interfaceVars => LogInv'
<1> SUFFICES ASSUME LogInv, [InterfaceNext]_interfaceVars PROVE LogInv'
  OBVIOUS
<1>z. \A t \in LogTabs : lines[t] \in Nat /\ 0 <= Minus(lines[t], 1)
  BY DEF LogInv, Minus
<1>1. CASE Capture \/ ChildEnds \/ UNCHANGED interfaceVars
  <2>1. /\ lines' = lines /\ frame' = frame /\ logTab' = logTab /\ logOffset' = logOffset
    BY <1>1 DEF Capture, ChildEnds, interfaceVars, worldVars, loopVars, stateVars, logVars
  <2> QED BY <2>1 DEF LogInv
<1>2. CASE \E t \in LogTabs : LogLine(t)
  <2>1. PICK t \in LogTabs : LogLine(t) BY <1>2
  <2>2. frame' = frame /\ logTab' = logTab /\ logOffset' = logOffset
    BY <2>1 DEF LogLine, loopVars, stateVars, logVars
  <2>3. lines' = [lines EXCEPT ![t] = @ + 1] BY <2>1 DEF LogLine
  <2>4. lines' \in [LogTabs -> Nat] /\ \A u \in LogTabs : lines[u] <= lines'[u]
    BY <2>3 DEF LogInv
  <2> QED BY <2>2, <2>4 DEF LogInv, Minus
<1>3. CASE Check
  <2>1. lines' = lines /\ logTab' = logTab /\ logOffset' = logOffset
    BY <1>3 DEF Check, worldVars, stateVars, logVars
  <2>2. frame' = frame \/ frame' = Blank BY <1>3 DEF Check, Exit
  <2> QED BY <2>1, <2>2, <1>z, BlankFrame DEF LogInv
<1>4. CASE Draw
  <2>1. lines' = lines /\ logTab' = logTab /\ logOffset' = logOffset
    BY <1>4 DEF Draw, worldVars, logVars
  <2>2. frame'.lines = lines \/ frame' = Blank BY <1>4 DEF Draw, Exit
  <2> QED BY <2>1, <2>2, <1>z, BlankFrame DEF LogInv
<1>5. CASE NoKey
  <2>1. lines' = lines /\ logTab' = logTab /\ logOffset' = logOffset /\ frame' = Blank
    BY <1>5 DEF NoKey, worldVars, stateVars, logVars
  <2> QED BY <2>1, <1>z, BlankFrame DEF LogInv
<1>6. CASE Keys
  <2>1. frame' = Blank /\ lines' = lines BY <1>6, KeysDropTheFrame
  <2>2. /\ lines' \in [LogTabs -> Nat] /\ frame'.lines \in [LogTabs -> Nat]
        /\ \A t \in LogTabs : frame'.lines[t] <= lines'[t]
    BY <2>1, BlankFrame, <1>z DEF LogInv
  <2>3. logTab' \in LogTabs /\ logOffset' \in Nat /\ logOffset' <= Minus(lines[logTab'], 1)
    <3>1. CASE OtherKeys BY <3>1, OtherKeysLeaveLogs DEF LogsUntouched, LogInv
    <3>2. CASE ToggleLogs
      <4>1. logTab' = logTab /\ logOffset' \in {logOffset, 0} BY <3>2 DEF ToggleLogs
      <4> QED BY <4>1, <1>z DEF LogInv
    <3>3. CASE \E key \in MoveKeys : ScrollLogs(key)
      <4>1. PICK key \in MoveKeys : ScrollLogs(key) BY <3>3
      <4>2. logTab' = logTab BY <4>1 DEF ScrollLogs
      <4> QED BY <4>1, <4>2, ScrollStaysInside DEF LogInv
    <3>4. CASE SwitchLog
      <4>1. logTab' \in LogTabs /\ logOffset' = 0 BY <3>4 DEF SwitchLog
      <4> QED BY <4>1, <1>z
    <3>5. CASE ClearSession
      <4>1. logTab' = logTab /\ logOffset' = 0 BY <3>5 DEF ClearSession
      <4> QED BY <4>1, <1>z DEF LogInv
    <3> QED BY <1>6, <3>1, <3>2, <3>3, <3>4, <3>5 DEF Keys, OtherKeys
  <2> QED BY <2>1, <2>2, <2>3 DEF LogInv
<1> QED BY <1>1, <1>2, <1>3, <1>4, <1>5, <1>6 DEF InterfaceNext, World, Loop

\* A scrolled log always shows a line of its own: the offset is inside the log that
\* is shown, however lines come in and logs are switched (events.rs 441-498).
THEOREM InterfaceLogOffset == InterfaceSpec => []LogOffsetInRange
<1>1. LogInv => LogOffsetInRange BY DEF LogInv, LogOffsetInRange
<1> QED BY <1>1, LogInit, LogStep, PTL DEF InterfaceSpec

-----------------------------------------------------------------------------
LEMMA DialogInit == InterfaceInit => DialogInv
BY DEF InterfaceInit, DialogInv

LEMMA DialogStep == DialogInv /\ [InterfaceNext]_interfaceVars => DialogInv'
<1> SUFFICES ASSUME DialogInv, [InterfaceNext]_interfaceVars PROVE DialogInv'
  OBVIOUS
<1>1. CASE World \/ UNCHANGED interfaceVars
  <2>1. pc' = pc /\ frame' = frame /\ confirmQuit' = confirmQuit
    BY <1>1 DEF World, Capture, LogLine, ChildEnds, interfaceVars, loopVars, stateVars
  <2> QED BY <2>1 DEF DialogInv
<1>2. CASE Check BY <1>2 DEF Check, Exit, DialogInv
<1>3. CASE Draw
  <2>1. confirmQuit' = confirmQuit BY <1>3 DEF Draw
  <2>2. pc' # "key" \/ frame'.dialog = confirmQuit BY <1>3 DEF Draw, Exit
  <2> QED BY <2>1, <2>2 DEF DialogInv
<1>4. CASE NoKey BY <1>4 DEF NoKey, DialogInv
<1>5. CASE Keys BY <1>5, KeysDropTheFrame DEF DialogInv
<1> QED BY <1>1, <1>2, <1>3, <1>4, <1>5 DEF InterfaceNext, Loop

\* A key that ends the session answers a dialog that was on the frame the user
\* saw (events.rs 32-34, 42-45; mod.rs 95-131).
THEOREM InterfaceLeaving == InterfaceSpec => LeavingWasAsked
<1>1. DialogInv /\ [InterfaceNext]_interfaceVars
        => [exit' \in {"terminate", "leave"} /\ exit = None => frame.dialog]_exit
  <2> SUFFICES ASSUME DialogInv, [InterfaceNext]_interfaceVars, exit' # exit,
                      exit' \in {"terminate", "leave"}
               PROVE  frame.dialog
    OBVIOUS
  <2>1. ~(World \/ UNCHANGED interfaceVars)
    BY DEF World, Capture, LogLine, ChildEnds, interfaceVars, loopVars
  <2>2. ~Check /\ ~Draw /\ ~NoKey BY DEF Check, Draw, NoKey, Exit
  <2>3. Keys BY <2>1, <2>2 DEF InterfaceNext, Loop
  <2> QED BY <2>3, KeysDropTheFrame DEF DialogInv
<1> QED BY <1>1, DialogInit, DialogStep, PTL DEF InterfaceSpec, LeavingWasAsked

-----------------------------------------------------------------------------
(* Sorted sets of integers, and the list that a filter leaves.              *)

LEMMA RankInside ==
  ASSUME NEW S \in SUBSET Int, IsFiniteSet(S), NEW x \in S
  PROVE  /\ Cardinality(S) \in Nat
         /\ Rank(S, x) \in 1 .. Cardinality(S)
<1> DEFINE below == {y \in S : y <= x}
<1>1. x \in below /\ below \in SUBSET S OBVIOUS
<1>2. IsFiniteSet(below) /\ Cardinality(below) <= Cardinality(S) BY <1>1, FS_Subset
<1>3. Cardinality(below) \in Nat /\ Cardinality(S) \in Nat BY <1>2, FS_CardinalityType
<1>4. Cardinality(below) # 0 BY <1>1, <1>2, FS_EmptySet
<1> QED BY <1>2, <1>3, <1>4 DEF Rank

LEMMA RankIncreases ==
  ASSUME NEW S \in SUBSET Int, IsFiniteSet(S), NEW x \in S, NEW y \in S, x < y
  PROVE  Rank(S, x) # Rank(S, y)
<1> DEFINE below(z) == {v \in S : v <= z}
<1>0. x \in Int /\ y \in Int /\ \A v \in S : v \in Int OBVIOUS
<1>1. y \in below(y) /\ y \notin below(x) BY <1>0
<1>4. ASSUME NEW v \in below(x) PROVE v \in below(y) BY <1>0
<1>2. IsFiniteSet(below(y)) BY FS_Subset
<1>3. Cardinality(below(y)) = Cardinality(below(x)) => below(y) = below(x)
  BY <1>2, <1>4, FS_Subset
<1> QED BY <1>1, <1>3 DEF Rank

\* The elements of a set are counted by their ranks, without a gap.
LEMMA NthIsThere ==
  ASSUME NEW S \in SUBSET Int, IsFiniteSet(S), NEW n \in 1 .. Cardinality(S)
  PROVE  Nth(S, n) \in S /\ Rank(S, Nth(S, n)) = n
<1> DEFINE c == Cardinality(S)
           rank == [x \in S |-> Rank(S, x)]
<1>1. c \in Nat BY FS_CardinalityType
<1>2. rank \in [S -> 1 .. c] BY RankInside
<1>3. \A a, b \in S : rank[a] = rank[b] => a = b BY RankIncreases
<1>4. rank \in Injection(S, 1 .. c) BY <1>2, <1>3, Fun_IsInj
<1>5. IsFiniteSet(1 .. c) /\ Cardinality(1 .. c) = c BY <1>1, FS_Interval
<1>6. rank \in Surjection(S, 1 .. c) BY <1>4, <1>5, FS_Injection
<1>7. \E x \in S : rank[x] = n
  <2> HIDE DEF rank
  <2> QED BY <1>6 DEF Surjection
<1>8. \E x \in S : Rank(S, x) = n BY <1>7
<1> QED BY <1>8 DEF Nth

LEMMA NthOfRank ==
  ASSUME NEW S \in SUBSET Int, IsFiniteSet(S), NEW x \in S
  PROVE  Nth(S, Rank(S, x)) = x
<1>1. Rank(S, x) \in 1 .. Cardinality(S) BY RankInside
<1>2. Nth(S, Rank(S, x)) \in S /\ Rank(S, Nth(S, Rank(S, x))) = Rank(S, x)
  BY <1>1, NthIsThere
<1>3. Nth(S, Rank(S, x)) \in Int /\ x \in Int BY <1>2
<1>4. ~(Nth(S, Rank(S, x)) < x) /\ ~(x < Nth(S, Rank(S, x))) BY <1>2, RankIncreases
<1> QED BY <1>3, <1>4

LEMMA KeptIsFinite ==
  ASSUME NEW entries \in Seq(Entries), NEW filter
  PROVE  /\ Kept(entries, filter) \in SUBSET (1 .. Len(entries))
         /\ Kept(entries, filter) \in SUBSET Int
         /\ IsFiniteSet(Kept(entries, filter))
         /\ Cardinality(Kept(entries, filter)) \in Nat
<1>1. Len(entries) \in Nat /\ Kept(entries, filter) \in SUBSET (1 .. Len(entries))
  BY DEF Kept
<1>2. IsFiniteSet(1 .. Len(entries)) BY <1>1, FS_Interval
<1>3. IsFiniteSet(Kept(entries, filter)) BY <1>1, <1>2, FS_Subset
<1> QED BY <1>1, <1>3, FS_CardinalityType

LEMMA FilteredType ==
  ASSUME NEW entries \in Seq(Entries), NEW filter
  PROVE  /\ Filtered(entries, filter) \in Seq(Entries)
         /\ Len(Filtered(entries, filter)) = Cardinality(Kept(entries, filter))
<1> DEFINE K == Kept(entries, filter)
<1>1. K \in SUBSET (1 .. Len(entries)) /\ Cardinality(K) \in Nat BY KeptIsFinite
<1>2. \A n \in 1 .. Cardinality(K) : Nth(K, n) \in K BY KeptIsFinite, NthIsThere
<1>3. \A n \in 1 .. Cardinality(K) : entries[Nth(K, n)] \in Entries BY <1>1, <1>2
<1> HIDE DEF K
<1>4. [n \in 1 .. Cardinality(K) |-> entries[Nth(K, n)]] \in Seq(Entries)
      /\ Len([n \in 1 .. Cardinality(K) |-> entries[Nth(K, n)]]) = Cardinality(K)
  BY <1>1, <1>3
<1> QED BY <1>4 DEF K, Filtered

Prefix(s, t) == Len(s) <= Len(t) /\ \A i \in 1 .. Len(s) : s[i] = t[i]

\* A new entry goes to the end of the list, whatever the filter.
LEMMA FilteredGrows ==
  ASSUME NEW entries \in Seq(Entries), NEW e \in Entries, NEW filter
  PROVE  Prefix(Filtered(entries, filter), Filtered(Push(entries, e), filter))
<1> DEFINE more == Push(entries, e)
           K == Kept(entries, filter)
           M == Kept(more, filter)
<1>1. /\ more \in Seq(Entries) /\ Len(more) = Len(entries) + 1
      /\ \A i \in 1 .. Len(entries) : more[i] = entries[i]
  BY DEF Push
<1>2. K \in SUBSET (1 .. Len(entries)) /\ IsFiniteSet(K) /\ Cardinality(K) \in Nat
  BY KeptIsFinite
<1>3. M \in SUBSET Int /\ IsFiniteSet(M) /\ Cardinality(M) \in Nat BY <1>1, KeptIsFinite
<1>4. K = M \cap (1 .. Len(entries)) BY <1>1 DEF Kept
<1>5. Cardinality(K) <= Cardinality(M) BY <1>3, <1>4, FS_Subset
<1>6. ASSUME NEW n \in 1 .. Cardinality(K)
      PROVE  Nth(M, n) = Nth(K, n) /\ Nth(K, n) \in 1 .. Len(entries)
  <2> DEFINE x == Nth(K, n)
  <2>1. x \in K /\ Rank(K, x) = n BY <1>2, NthIsThere
  <2>2. {y \in M : y <= x} = {y \in K : y <= x}
    <3>1. \A y \in M : y <= x => y \in 1 .. Len(entries)
      <4>1. M \in SUBSET (1 .. Len(more)) BY <1>1, KeptIsFinite
      <4> HIDE DEF x, K, M, more
      <4> QED BY <1>1, <1>2, <2>1, <4>1
    <3> HIDE DEF x, K, M, more
    <3> QED BY <1>4, <3>1
  <2>3. Rank(M, x) = n BY <2>1, <2>2 DEF Rank
  <2>4. x \in M BY <1>4, <2>1
  <2> QED BY <1>2, <1>3, <2>1, <2>3, <2>4, NthOfRank
<1>7. Len(Filtered(entries, filter)) = Cardinality(K) BY FilteredType
<1>8. Len(Filtered(more, filter)) = Cardinality(M) BY <1>1, FilteredType
<1>9. ASSUME NEW n \in 1 .. Cardinality(K)
      PROVE  Filtered(entries, filter)[n] = Filtered(more, filter)[n]
  <2>1. Filtered(entries, filter)[n] = entries[Nth(K, n)] BY DEF Filtered
  <2>2. n \in 1 .. Cardinality(M) BY <1>2, <1>3, <1>5
  <2>3. Filtered(more, filter)[n] = more[Nth(M, n)] BY <2>2 DEF Filtered
  <2> QED BY <1>1, <1>6, <2>1, <2>3
<1> HIDE DEF more, K, M
<1> QED BY <1>5, <1>7, <1>8, <1>9 DEF more, Prefix

-----------------------------------------------------------------------------
(* The highlight and the details.                                           *)

\* The entries that the applied filter leaves of the store, and the highlighted one.
List == Filtered(store, applied)

\* The user has seen the highlighted entry, or nothing is scrolled or selected.
HighlightInv ==
  /\ store \in Seq(Entries)
  /\ selected \in Nat
  /\ mark = None => selected = 0
  /\ mark # None => selected < Len(List) /\ List[selected + 1].id = mark

\* The frame holds the beginning of the list, for entries are only added to it
\* while a key is awaited.
FrameInv ==
  pc = "key" =>
    /\ frame.entries \in Seq(Entries) /\ Prefix(frame.entries, List)
    /\ mark = None => frame.entries = <<>>
    /\ mark # None => selected < Len(frame.entries)

\* Only the details of the highlighted entry are scrolled.
DetailInv ==
  /\ tab \in 0 .. NumTabs - 1
  /\ detailOffset \in Nat
  /\ detailOffset # 0 =>
       mark # None /\ detailOffset <= ScrollLimit[<<List[selected + 1].host, tab>>]

ListInv == HighlightInv /\ FrameInv /\ DetailInv

\* The keys that leave the list, the highlight and the details alone.
QuietKeys ==
  \/ AnswerQuit \/ AskToQuit \/ ShowHelp \/ ToggleLogs \/ Escape
  \/ \E key \in MoveKeys : ScrollLogs(key)
  \/ SwitchLog \/ Export \/ BeginEdit \/ CancelEdit \/ RefuseFilter \/ Type
  \/ ChooseSuggestion \/ AcceptSuggestion

ListUntouched == UNCHANGED <<store, applied, selected, mark, detailOffset, tab>>

LEMMA QuietKeysLeaveTheList == ASSUME QuietKeys PROVE ListUntouched
<1> USE DEF listVars, detailVars, filterVars, ListUntouched
<1>1. CASE AnswerQuit \/ AskToQuit
  BY <1>1 DEF AnswerQuit, AskToQuit
<1>2. CASE ShowHelp \/ ToggleLogs \/ Escape
  BY <1>2 DEF ShowHelp, ToggleLogs, Escape
<1>3. CASE (\E key \in MoveKeys : ScrollLogs(key)) \/ SwitchLog
  BY <1>3 DEF ScrollLogs, SwitchLog
<1>4. CASE Export BY <1>4 DEF Export, worldVars, stateVars
<1>5. CASE BeginEdit \/ CancelEdit \/ RefuseFilter \/ Type
  BY <1>5 DEF BeginEdit, CancelEdit, RefuseFilter, Type, Editing
<1>6. CASE ChooseSuggestion \/ AcceptSuggestion
  BY <1>6 DEF ChooseSuggestion, AcceptSuggestion, Editing
<1> QED BY <1>1, <1>2, <1>3, <1>4, <1>5, <1>6 DEF QuietKeys

LEMMA ListInit == InterfaceInit => ListInv
<1> SUFFICES ASSUME InterfaceInit PROVE ListInv OBVIOUS
<1>1. store = <<>> /\ selected = 0 /\ mark = None /\ tab = 0 /\ detailOffset = 0 /\ pc = "check"
  BY DEF InterfaceInit
<1> QED BY <1>1, InterfaceAssumption DEF ListInv, HighlightInv, FrameInv, DetailInv

\* What the highlighted entry of a frame is while a key is handled.
LEMMA HighlightedEntry ==
  ASSUME ListInv, pc = "key", frame.entries # <<>>
  PROVE  /\ mark # None /\ LastRow \in Nat /\ Len(frame.entries) = LastRow + 1
         /\ selected \in 0 .. LastRow /\ Clamped = selected
         /\ Highlighted(frame.entries, selected) = frame.entries[selected + 1]
         /\ frame.entries[selected + 1] = List[selected + 1]
         /\ List[selected + 1].id = mark
         /\ List[selected + 1].host \in Hosts
<1>1. frame.entries \in Seq(Entries) /\ mark # None /\ selected \in Nat
      /\ selected < Len(frame.entries) /\ Prefix(frame.entries, List)
  BY DEF ListInv, HighlightInv, FrameInv
<1>2. Len(frame.entries) \in Nat BY <1>1
<1>3. LastRow \in Nat /\ Len(frame.entries) = LastRow + 1 /\ selected \in 0 .. LastRow
      /\ Clamped = selected
  BY <1>1, <1>2 DEF LastRow, Clamped, Least
<1>4. Highlighted(frame.entries, selected) = frame.entries[selected + 1]
  BY <1>1, <1>2 DEF Highlighted, Least
<1>5. selected + 1 \in 1 .. Len(frame.entries) BY <1>1, <1>2
<1>6. frame.entries[selected + 1] = List[selected + 1] /\ frame.entries[selected + 1] \in Entries
  BY <1>1, <1>5 DEF Prefix
<1>7. List[selected + 1].id = mark BY <1>1 DEF ListInv, HighlightInv
<1> QED BY <1>1, <1>3, <1>4, <1>6, <1>7 DEF Entries

\* A row of the frame that the highlight moves to.
LEMMA RowOfTheList ==
  ASSUME ListInv, pc = "key", NEW row \in 0 .. Len(frame.entries) - 1
  PROVE  /\ row \in Nat /\ row < Len(List)
         /\ List[row + 1].id = frame.entries[row + 1].id
         /\ frame.entries[row + 1].id # None
<1>1. frame.entries \in Seq(Entries) /\ Prefix(frame.entries, List) /\ store \in Seq(Entries)
  BY DEF ListInv, HighlightInv, FrameInv
<1>2. Len(frame.entries) \in Nat /\ Len(List) \in Nat BY <1>1, FilteredType DEF List
<1>3. row \in Nat /\ row + 1 \in 1 .. Len(frame.entries) BY <1>2
<1>4. frame.entries[row + 1] = List[row + 1] /\ row + 1 <= Len(List) BY <1>1, <1>2, <1>3 DEF Prefix
<1>5. frame.entries[row + 1].id \in EntryIds
  <2>1. frame.entries[row + 1] \in Entries BY <1>1, <1>3
  <2> QED BY <2>1 DEF Entries
<1> QED BY <1>2, <1>3, <1>4, <1>5, InterfaceAssumption

LEMMA TargetIsARow ==
  ASSUME ListInv, pc = "key", frame.entries # <<>>, NEW key \in MoveKeys
  PROVE  Target(key) \in 0 .. LastRow
<1>1. LastRow \in Nat /\ Clamped \in 0 .. LastRow BY HighlightedEntry
<1>2. Page \in Nat \ {0} BY InterfaceAssumption
<1>3. CASE key = "down"
  <2>1. Target(key) = Least(Clamped + 1, LastRow) BY <1>3 DEF Target
  <2> QED BY <1>1, <2>1 DEF Least
<1>4. CASE key = "page down"
  <2>1. Target(key) = Least(Clamped + Page, LastRow) BY <1>4 DEF Target
  <2> QED BY <1>1, <1>2, <2>1 DEF Least
<1>5. CASE key = "up"
  <2>1. Target(key) = Minus(Clamped, 1) BY <1>5 DEF Target
  <2> QED BY <1>1, <2>1 DEF Minus
<1>6. CASE key = "page up"
  <2>1. Target(key) = Minus(Clamped, Page) BY <1>6 DEF Target
  <2> QED BY <1>1, <1>2, <2>1 DEF Minus
<1>7. CASE key \in {"home", "end"}
  <2>1. Target(key) \in {0, LastRow} BY <1>7 DEF Target
  <2> QED BY <1>1, <2>1
<1> QED BY <1>3, <1>4, <1>5, <1>6, <1>7 DEF MoveKeys

\* A captured entry changes nothing that is highlighted or drawn.
LEMMA CaptureStep == ASSUME ListInv, Capture PROVE ListInv'
<1>1. PICK e \in Entries : store' = Push(store, e) BY DEF Capture
<1>2. UNCHANGED <<pc, frame, selected, mark, detailOffset, tab, applied>>
  BY DEF Capture, loopVars, stateVars, listVars, detailVars, filterVars
<1>3. store \in Seq(Entries) /\ selected \in Nat BY DEF ListInv, HighlightInv
<1>4. store' \in Seq(Entries) BY <1>1, <1>3 DEF Push
<1>5. List' = Filtered(Push(store, e), applied) BY <1>1, <1>2 DEF List
<1>6. Prefix(List, List') BY <1>3, <1>5, FilteredGrows DEF List
<1>7. Len(List) \in Nat /\ Len(List') \in Nat /\ Len(List) <= Len(List')
  BY <1>3, <1>4, <1>6, FilteredType DEF List, Prefix
<1>8. mark # None => selected < Len(List') /\ List'[selected + 1] = List[selected + 1]
  <2> SUFFICES ASSUME mark # None
               PROVE  selected < Len(List') /\ List'[selected + 1] = List[selected + 1]
    OBVIOUS
  <2>1. selected < Len(List) BY DEF ListInv, HighlightInv
  <2>2. selected + 1 \in 1 .. Len(List) BY <1>3, <1>7, <2>1
  <2> QED BY <1>3, <1>6, <1>7, <2>1, <2>2 DEF Prefix
<1>9. HighlightInv' BY <1>2, <1>4, <1>8 DEF ListInv, HighlightInv
<1>10. FrameInv'
  <2> SUFFICES ASSUME pc = "key" PROVE Prefix(frame.entries, List')
    BY <1>2 DEF ListInv, FrameInv
  <2>1. frame.entries \in Seq(Entries) /\ Prefix(frame.entries, List) BY DEF ListInv, FrameInv
  <2> QED BY <1>6, <1>7, <2>1 DEF Prefix
<1>11. DetailInv' BY <1>2, <1>8 DEF ListInv, DetailInv
<1> QED BY <1>9, <1>10, <1>11 DEF ListInv

LEMMA DrawStep == ASSUME ListInv, Draw PROVE ListInv'
<1>1. UNCHANGED <<store, applied, selected, detailOffset, tab>>
  BY DEF Draw, worldVars, detailVars
<1>2. List' = List BY <1>1 DEF List
<1>3. store \in Seq(Entries) /\ selected \in Nat /\ List \in Seq(Entries) /\ Len(List) \in Nat
  BY FilteredType DEF ListInv, HighlightInv, List
<1>4. CASE pc' # "key"
  <2>1. mark' = mark BY <1>4 DEF Draw
  <2> QED BY <1>1, <1>2, <1>4, <2>1 DEF ListInv, HighlightInv, FrameInv, DetailInv
<1>5. CASE pc' = "key"
  <2>1. frame'.entries = List
    BY <1>5 DEF Draw, Exit, List
  <2>2. mark' = IF mark = None /\ frame'.entries # <<>>
                  THEN Highlighted(frame'.entries, selected).id ELSE mark
    BY <1>5 DEF Draw, Exit
  <2>3. Prefix(List, List) BY <1>3 DEF Prefix
  <2>4. CASE mark # None
    <3>1. mark' = mark BY <2>2, <2>4
    <3> QED BY <1>1, <1>2, <1>3, <2>1, <2>3, <2>4, <3>1
            DEF ListInv, HighlightInv, FrameInv, DetailInv
  <2>5. CASE mark = None /\ List = <<>>
    <3>1. mark' = mark BY <2>1, <2>2, <2>5
    <3> QED BY <1>1, <1>2, <1>3, <2>1, <2>3, <2>5, <3>1
            DEF ListInv, HighlightInv, FrameInv, DetailInv
  <2>6. CASE mark = None /\ List # <<>>
    <3>1. selected = 0 /\ detailOffset = 0 BY <2>6 DEF ListInv, HighlightInv, DetailInv
    <3>2. Len(List) > 0 /\ List[1] \in Entries BY <1>3, <2>6
    <3>3. Highlighted(List, selected) = List[selected + 1]
      BY <1>3, <3>1, <3>2 DEF Highlighted, Least
    <3>4. mark' = List[selected + 1].id BY <2>1, <2>2, <2>6, <3>3
    <3>5. List[selected + 1].id # None
      <4>1. List[selected + 1] \in Entries BY <3>1, <3>2
      <4>2. List[selected + 1].id \in EntryIds BY <4>1 DEF Entries
      <4> QED BY <4>2, InterfaceAssumption
    <3>6. HighlightInv'
      BY <1>1, <1>2, <1>3, <3>1, <3>2, <3>4, <3>5 DEF HighlightInv
    <3>7. FrameInv'
      BY <1>1, <1>2, <1>3, <2>1, <2>3, <3>1, <3>2, <3>4, <3>5 DEF FrameInv
    <3>8. DetailInv' BY <1>1, <3>1 DEF ListInv, DetailInv
    <3> QED BY <3>6, <3>7, <3>8 DEF ListInv
  <2> QED BY <2>4, <2>5, <2>6
<1> QED BY <1>4, <1>5

\* The steps that only end a frame or leave the list as it is.
LEMMA QuietStep ==
  ASSUME ListInv, ListUntouched, pc' # "key" \/ UNCHANGED <<pc, frame>>
  PROVE  ListInv'
<1>1. List' = List BY DEF ListUntouched, List
<1> QED BY <1>1 DEF ListUntouched, ListInv, HighlightInv, FrameInv, DetailInv

LEMMA SelectStep ==
  ASSUME ListInv, NEW key \in MoveKeys, SelectRequest(key)
  PROVE  ListInv'
<1>1. pc = "key" /\ pc' = "check" /\ frame.entries # <<>> BY DEF SelectRequest, Handled
<1>2. UNCHANGED <<store, applied, tab>> BY DEF SelectRequest, filterVars
<1>3. selected' = Target(key) /\ mark' = frame.entries[selected' + 1].id
      /\ (detailOffset' = 0 \/ (detailOffset' = detailOffset /\ selected' = Clamped))
  BY DEF SelectRequest
<1>4. selected' \in 0 .. Len(frame.entries) - 1
  BY <1>1, <1>3, TargetIsARow DEF LastRow
<1>5. /\ selected' \in Nat /\ selected' < Len(List)
      /\ List[selected' + 1].id = frame.entries[selected' + 1].id
      /\ frame.entries[selected' + 1].id # None
  BY <1>1, <1>4, RowOfTheList
<1>6. List' = List BY <1>2 DEF List
<1>7. HighlightInv' BY <1>2, <1>3, <1>5, <1>6 DEF ListInv, HighlightInv
<1>8. DetailInv'
  <2>1. CASE detailOffset' = 0 BY <1>2, <2>1 DEF ListInv, DetailInv
  <2>2. CASE detailOffset' = detailOffset /\ selected' = Clamped
    <3>1. selected' = selected BY <1>1, <2>2, HighlightedEntry
    <3> QED BY <1>2, <1>3, <1>5, <1>6, <2>2, <3>1 DEF ListInv, DetailInv
  <2> QED BY <1>3, <2>1, <2>2
<1> QED BY <1>1, <1>7, <1>8 DEF ListInv, FrameInv

LEMMA OpenStep == ASSUME ListInv, OpenDetails PROVE ListInv'
<1>1. pc = "key" /\ pc' = "check" /\ frame.entries # <<>> BY DEF OpenDetails, Handled
<1>2. UNCHANGED <<store, applied, tab, mark>> /\ selected' = Clamped /\ detailOffset' = 0
  BY DEF OpenDetails, filterVars
<1>3. selected' = selected BY <1>1, <1>2, HighlightedEntry
<1>4. List' = List BY <1>2 DEF List
<1> QED BY <1>1, <1>2, <1>3, <1>4 DEF ListInv, HighlightInv, FrameInv, DetailInv

LEMMA DetailLimitType ==
  ASSUME ListInv, pc = "key"
  PROVE  /\ DetailLimit \in Nat
         /\ detailOffset \in Nat /\ detailOffset <= DetailLimit
         /\ DetailLimit # 0 =>
              /\ mark # None
              /\ DetailLimit = ScrollLimit[<<List[selected + 1].host, tab>>]
<1>1. CASE frame.entries = <<>>
  <2>1. mark = None BY <1>1 DEF ListInv, HighlightInv, FrameInv
  <2> QED BY <1>1, <2>1 DEF DetailLimit, ListInv, DetailInv
<1>2. CASE frame.entries # <<>>
  <2>1. DetailLimit = ScrollLimit[<<List[selected + 1].host, tab>>]
        /\ List[selected + 1].host \in Hosts /\ mark # None
    BY <1>2, HighlightedEntry DEF DetailLimit
  <2>2. <<List[selected + 1].host, tab>> \in Hosts \X (0 .. NumTabs - 1)
    BY <2>1 DEF ListInv, DetailInv
  <2>3. DetailLimit \in Nat BY <2>1, <2>2, InterfaceAssumption
  <2> QED BY <2>1, <2>3 DEF ListInv, DetailInv
<1> QED BY <1>1, <1>2

LEMMA ScrollStep ==
  ASSUME ListInv, NEW key \in MoveKeys, ScrollDetails(key)
  PROVE  ListInv'
<1>1. pc = "key" /\ pc' = "check" BY DEF ScrollDetails, Handled
<1>2. UNCHANGED <<store, applied, selected, mark, tab>>
  BY DEF ScrollDetails, listVars, filterVars
<1> DEFINE further(n) == IF detailOffset < DetailLimit THEN Least(detailOffset + n, DetailLimit)
                                                       ELSE detailOffset
<1>3. \/ detailOffset' \in {further(1), further(Page), 0, DetailLimit}
      \/ detailOffset' \in {Minus(detailOffset, 1), Minus(detailOffset, Page)}
  BY DEF ScrollDetails
<1>4. DetailLimit \in Nat /\ detailOffset \in Nat /\ detailOffset <= DetailLimit
      /\ Page \in Nat \ {0}
  BY <1>1, DetailLimitType, InterfaceAssumption
<1>5. detailOffset' \in Nat /\ detailOffset' <= DetailLimit
  <2> HIDE DEF DetailLimit
  <2> QED BY <1>3, <1>4 DEF Least, Minus
<1>6. List' = List BY <1>2 DEF List
<1>7. DetailInv'
  <2> HIDE DEF DetailLimit
  <2> QED BY <1>1, <1>2, <1>4, <1>5, <1>6, DetailLimitType DEF ListInv, DetailInv
<1> QED BY <1>1, <1>2, <1>6, <1>7 DEF ListInv, HighlightInv, FrameInv

LEMMA ListStep == ListInv /\ [InterfaceNext]_interfaceVars => ListInv'
<1> SUFFICES ASSUME ListInv, [InterfaceNext]_interfaceVars PROVE ListInv' OBVIOUS
<1> USE DEF listVars, detailVars, filterVars
<1>1. CASE Capture BY <1>1, CaptureStep
<1>2. CASE (\E t \in LogTabs : LogLine(t)) \/ ChildEnds \/ UNCHANGED interfaceVars
  <2>1. ListUntouched /\ UNCHANGED <<pc, frame>>
    BY <1>2 DEF LogLine, ChildEnds, interfaceVars, worldVars, loopVars, stateVars, ListUntouched
  <2> QED BY <2>1, QuietStep
<1>3. CASE Check \/ NoKey
  <2>1. ListUntouched /\ pc' # "key"
    BY <1>3 DEF Check, NoKey, Exit, worldVars, stateVars, ListUntouched
  <2> QED BY <2>1, QuietStep
<1>4. CASE Draw BY <1>4, DrawStep
<1>5. CASE Keys
  <2>1. pc' # "key" BY <1>5, KeysDropTheFrame
  <2>2. CASE QuietKeys BY <2>1, <2>2, QuietKeysLeaveTheList, QuietStep
  <2>3. CASE \E key \in MoveKeys : SelectRequest(key) BY <2>3, SelectStep
  <2>4. CASE \E key \in MoveKeys : ScrollDetails(key) BY <2>4, ScrollStep
  <2>5. CASE OpenDetails BY <2>5, OpenStep
  <2>6. CASE SwitchTab
    <3>1. UNCHANGED <<store, applied, selected, mark>> /\ detailOffset' = 0
          /\ \E step \in {1, NumTabs - 1} : tab' = (tab + step) % NumTabs
      BY <2>6 DEF SwitchTab
    <3>2. tab' \in 0 .. NumTabs - 1
      BY <3>1, InterfaceAssumption DEF ListInv, DetailInv
    <3>3. List' = List BY <3>1 DEF List
    <3> QED BY <2>1, <3>1, <3>2, <3>3 DEF ListInv, HighlightInv, FrameInv, DetailInv
  <2>7. CASE ClearSession
    <3>1. store' = <<>> /\ selected' = 0 /\ mark' = None /\ detailOffset' = 0 /\ tab' = tab
      BY <2>7 DEF ClearSession
    <3> QED BY <2>1, <3>1 DEF ListInv, HighlightInv, FrameInv, DetailInv
  <2>8. CASE ApplyFilter
    <3>1. store' = store /\ selected' = 0 /\ mark' = None /\ detailOffset' = 0 /\ tab' = tab
      BY <2>8 DEF ApplyFilter
    <3> QED BY <2>1, <3>1 DEF ListInv, HighlightInv, FrameInv, DetailInv
  <2> QED BY <1>5, <2>2, <2>3, <2>4, <2>5, <2>6, <2>7, <2>8 DEF Keys, QuietKeys
<1> QED BY <1>1, <1>2, <1>3, <1>4, <1>5 DEF InterfaceNext, World, Loop

\* The highlight stays on its entry, whatever is captured meanwhile (events.rs
\* 319-367, request_list.rs 13, store.rs 11-14).
THEOREM InterfaceHighlight == InterfaceSpec => []HighlightStays
<1>1. ListInv => HighlightStays
  <2> SUFFICES ASSUME ListInv, pc = "key", mark # None
               PROVE  frame.entries # <<>> /\ Highlighted(frame.entries, selected).id = mark
    BY DEF HighlightStays
  <2>1. frame.entries # <<>>
    BY DEF ListInv, HighlightInv, FrameInv
  <2> QED BY <2>1, HighlightedEntry
<1> QED BY <1>1, ListInit, ListStep, PTL DEF InterfaceSpec

\* The details are never scrolled past the end of what they show (events.rs 369-412).
THEOREM InterfaceDetailScroll == InterfaceSpec => []DetailScrollInRange
<1>1. ListInv => DetailScrollInRange
  BY DetailLimitType DEF DetailScrollInRange
<1> QED BY <1>1, ListInit, ListStep, PTL DEF InterfaceSpec

-----------------------------------------------------------------------------
(* The filter editor.                                                       *)

EditorStates == [text : Texts, offered : Seq(Texts), chosen : Nat, scroll : Nat, error : BOOLEAN]

\* The chosen suggestion is one of those that the window over them shows.
InWindow(e) ==
  e.offered # <<>> =>
    e.chosen \in e.scroll .. Least(e.scroll + Visible, Len(e.offered)) - 1

LEMMA HostIndexType ==
  ASSUME store \in Seq(Entries)
  PROVE  HostIndex \in Seq(Hosts)
<1> DEFINE hosts == {store[i].host : i \in 1 .. Len(store)}
           host == [i \in 1 .. Len(store) |-> store[i].host]
<1>1. Len(store) \in Nat /\ \A i \in 1 .. Len(store) : store[i] \in Entries OBVIOUS
<1>2. \A i \in 1 .. Len(store) : store[i].host \in Hosts BY <1>1 DEF Entries
<1>3. hosts \in SUBSET Hosts /\ hosts \in SUBSET Int BY <1>2, InterfaceAssumption
<1>4. host \in Surjection(1 .. Len(store), hosts) BY DEF Surjection
<1>5. IsFiniteSet(1 .. Len(store)) BY <1>1, FS_Interval
<1>6. IsFiniteSet(hosts) BY <1>4, <1>5, FS_Surjection
<1>7. Cardinality(hosts) \in Nat BY <1>6, FS_CardinalityType
<1>8. \A n \in 1 .. Cardinality(hosts) : Nth(hosts, n) \in hosts BY <1>3, <1>6, NthIsThere
<1>9. HostIndex = [n \in 1 .. Cardinality(hosts) |-> Nth(hosts, n)] BY DEF HostIndex, Sorted
<1>10. \A n \in 1 .. Cardinality(hosts) : Nth(hosts, n) \in Hosts BY <1>3, <1>8
<1> HIDE DEF hosts
<1>11. [n \in 1 .. Cardinality(hosts) |-> Nth(hosts, n)] \in Seq(Hosts) BY <1>7, <1>10
<1> QED BY <1>9, <1>11

LEMMA SuggestionsType ==
  ASSUME store \in Seq(Entries), NEW text \in Texts
  PROVE  Suggestions(text) \in Seq(Texts)
<1>1. CASE text = <<>> BY <1>1 DEF Suggestions, Texts
<1>2. CASE text = HostKey /\ text # <<>>
  <2>1. HostIndex \in Seq(Hosts) BY HostIndexType
  <2>2. Len(HostIndex) \in Nat /\ \A i \in 1 .. Len(HostIndex) : HostIndex[i] \in Hosts BY <2>1
  <2>3. \A h \in Hosts : HostIs(h) \in Texts BY DEF Texts, Filters
  <2>4. Suggestions(text) = [i \in 1 .. Len(HostIndex) |-> HostIs(HostIndex[i])]
    BY <1>2 DEF Suggestions
  <2> QED BY <2>2, <2>3, <2>4
<1>3. CASE text # <<>> /\ text # HostKey
  <2>1. Suggestions(text) = <<text>> \/ Suggestions(text) = <<>> BY <1>3 DEF Suggestions
  <2>2. <<text>> \in Seq(Texts) /\ <<>> \in Seq(Texts) OBVIOUS
  <2> QED BY <2>1, <2>2
<1> QED BY <1>1, <1>2, <1>3

LEMMA ChooseType ==
  ASSUME NEW e \in EditorStates, NEW n \in Nat, e.offered # <<>> => n < Len(e.offered)
  PROVE  /\ Choose(e, n) \in EditorStates
         /\ Choose(e, n).text = e.text
         /\ InWindow(Choose(e, n))
<1>1. /\ e.text \in Texts /\ e.offered \in Seq(Texts) /\ e.scroll \in Nat
      /\ e.error \in BOOLEAN /\ Len(e.offered) \in Nat
      /\ Visible \in Nat \ {0}
  BY InterfaceAssumption DEF EditorStates
<1> DEFINE s == KeepVisible(e.scroll, n)
<1>2. s \in Nat /\ n \in s .. s + Visible - 1 BY <1>1 DEF KeepVisible
<1>3. Choose(e, n) = [text |-> e.text, offered |-> e.offered, chosen |-> n,
                      scroll |-> s, error |-> e.error]
  <2>1. Choose(e, n) = [e EXCEPT !.chosen = n, !.scroll = s] BY DEF Choose
  <2> HIDE DEF s
  <2> QED BY <2>1 DEF EditorStates
<1>4. Choose(e, n) \in EditorStates BY <1>1, <1>2, <1>3 DEF EditorStates
<1>5. e.offered # <<>> => n \in s .. Least(s + Visible, Len(e.offered)) - 1
  BY <1>1, <1>2 DEF Least
<1>6. Choose(e, n).text = e.text /\ Choose(e, n).offered = e.offered
      /\ Choose(e, n).chosen = n /\ Choose(e, n).scroll = s
  BY <1>3
<1> HIDE DEF s
<1> QED BY <1>4, <1>5, <1>6 DEF InWindow

LEMMA RefreshType ==
  ASSUME store \in Seq(Entries), NEW e \in EditorStates
  PROVE  /\ Refresh(e) \in EditorStates
         /\ Refresh(e).text = e.text
         /\ InWindow(Refresh(e))
<1> DEFINE offered == Suggestions(e.text)
           fresh == [e EXCEPT !.offered = offered]
<1>1. /\ e.text \in Texts /\ e.chosen \in Nat /\ e.scroll \in Nat /\ e.error \in BOOLEAN
  BY DEF EditorStates
<1>2. offered \in Seq(Texts) BY <1>1, SuggestionsType
<1>3. fresh = [text |-> e.text, offered |-> offered, chosen |-> e.chosen,
               scroll |-> e.scroll, error |-> e.error]
  BY DEF EditorStates
<1>4. fresh \in EditorStates /\ fresh.offered = offered /\ fresh.text = e.text
  <2> HIDE DEF offered
  <2> QED BY <1>1, <1>2, <1>3 DEF EditorStates
<1>5. CASE offered = <<>>
  <2>1. Refresh(e) = [fresh EXCEPT !.chosen = 0, !.scroll = 0] BY <1>5 DEF Refresh
  <2>2. Refresh(e) = [text |-> e.text, offered |-> offered, chosen |-> 0,
                      scroll |-> 0, error |-> e.error]
    BY <1>3, <2>1
  <2> HIDE DEF offered
  <2> QED BY <1>1, <1>2, <1>5, <2>2 DEF EditorStates, InWindow
<1>6. CASE offered # <<>>
  <2>1. Refresh(e) = Choose(fresh, Least(e.chosen, Len(offered) - 1)) BY <1>6 DEF Refresh
  <2>2. Least(e.chosen, Len(offered) - 1) \in Nat
        /\ Least(e.chosen, Len(offered) - 1) < Len(offered)
    <3> HIDE DEF offered
    <3> QED BY <1>1, <1>2, <1>6 DEF Least
  <2> HIDE DEF offered, fresh
  <2> QED BY <1>4, <2>1, <2>2, ChooseType
<1> QED BY <1>5, <1>6

LEMMA RetypeType ==
  ASSUME store \in Seq(Entries), NEW e \in EditorStates, NEW text \in Texts
  PROVE  Retype(e, text) \in EditorStates
<1>1. [e EXCEPT !.text = text, !.error = FALSE] \in EditorStates BY DEF EditorStates
<1> QED BY <1>1, RefreshType DEF Retype

\* The editor is drawn with a refreshed window, and only keys change it after that.
EditorInv ==
  /\ editor \in EditorStates /\ applied \in Filters /\ entering \in BOOLEAN
  /\ pc = "key" /\ entering => InWindow(editor)

LEMMA EditorInit == InterfaceInit => EditorInv
<1> SUFFICES ASSUME InterfaceInit PROVE EditorInv OBVIOUS
<1>1. applied = <<>> /\ entering = FALSE /\ pc = "check"
      /\ editor = [text |-> <<>>, offered |-> <<>>, chosen |-> 0, scroll |-> 0, error |-> FALSE]
  BY DEF InterfaceInit
<1>2. <<>> \in Filters /\ <<>> \in Texts /\ <<>> \in Seq(Texts) BY DEF Filters, Texts
<1> QED BY <1>1, <1>2 DEF EditorInv, EditorStates

\* Keys of the editor, one step per function of handle_filter_key.
LEMMA EditorKeyTypes ==
  ASSUME store \in Seq(Entries), EditorInv,
         \/ BeginEdit \/ CancelEdit \/ ApplyFilter \/ RefuseFilter \/ Type
         \/ ChooseSuggestion \/ AcceptSuggestion
  PROVE  editor' \in EditorStates /\ applied' \in Filters /\ entering' \in BOOLEAN
<1> DEFINE e == Refresh(editor)
<1>1. editor \in EditorStates /\ applied \in Filters /\ applied \in Texts /\ entering \in BOOLEAN
  BY DEF EditorInv, Texts
<1>2. e \in EditorStates /\ InWindow(e) BY <1>1, RefreshType
<1>3. \A text \in Texts : Retype(editor, text) \in EditorStates /\ Retype(e, text) \in EditorStates
  BY <1>1, <1>2, RetypeType
<1>4. \A b \in BOOLEAN : [e EXCEPT !.error = b] \in EditorStates
  <2> HIDE DEF e
  <2> QED BY <1>2 DEF EditorStates
<1>5. CASE BeginEdit BY <1>1, <1>3, <1>5 DEF BeginEdit
<1>6. CASE CancelEdit BY <1>1, <1>3, <1>6 DEF CancelEdit
<1>7. CASE ApplyFilter BY <1>4, <1>7 DEF ApplyFilter
<1>8. CASE RefuseFilter BY <1>1, <1>4, <1>8 DEF RefuseFilter
<1>9. CASE Type
  <2>1. PICK text \in Typed : editor' = Retype(e, text) BY <1>9 DEF Type
  <2>2. text \in Texts BY InterfaceAssumption
  <2> QED BY <1>1, <1>3, <1>9, <2>1, <2>2 DEF Type
<1>10. ASSUME e.offered # <<>>
       PROVE  /\ Len(e.offered) \in Nat /\ e.chosen \in Nat /\ e.chosen < Len(e.offered)
              /\ e.offered[e.chosen + 1] \in Texts
  <2> HIDE DEF e
  <2>1. e.offered \in Seq(Texts) /\ e.chosen \in Nat /\ e.scroll \in Nat
    BY <1>2 DEF EditorStates
  <2>2. Len(e.offered) \in Nat /\ Visible \in Nat BY <2>1, InterfaceAssumption
  <2>3. e.chosen < Len(e.offered) BY <1>2, <1>10, <2>1, <2>2 DEF InWindow, Least
  <2> QED BY <2>1, <2>2, <2>3
<1>11. CASE ChooseSuggestion
  <2>1. e.offered # <<>>
        /\ \/ editor' = Choose(e, Least(e.chosen + 1, Len(e.offered) - 1))
           \/ editor' = Choose(e, Minus(e.chosen, 1))
    BY <1>11 DEF ChooseSuggestion
  <2>2. /\ Least(e.chosen + 1, Len(e.offered) - 1) \in Nat
        /\ Least(e.chosen + 1, Len(e.offered) - 1) < Len(e.offered)
        /\ Minus(e.chosen, 1) \in Nat /\ Minus(e.chosen, 1) < Len(e.offered)
    <3> HIDE DEF e
    <3> QED BY <1>10, <2>1 DEF Least, Minus
  <2>3. editor' \in EditorStates
    <3> HIDE DEF e
    <3> QED BY <1>2, <2>1, <2>2, ChooseType
  <2> QED BY <1>1, <1>11, <2>3 DEF ChooseSuggestion
<1>12. CASE AcceptSuggestion
  <2>1. e.offered # <<>> /\ editor' = Retype(e, e.offered[e.chosen + 1])
    BY <1>12 DEF AcceptSuggestion
  <2>2. editor' \in EditorStates BY <1>3, <1>10, <2>1
  <2> QED BY <1>1, <1>12, <2>2 DEF AcceptSuggestion
<1> QED BY <1>5, <1>6, <1>7, <1>8, <1>9, <1>11, <1>12

LEMMA OtherKeysLeaveEditor ==
  ASSUME Keys
  PROVE  \/ UNCHANGED filterVars
         \/ BeginEdit \/ CancelEdit \/ ApplyFilter \/ RefuseFilter \/ Type
         \/ ChooseSuggestion \/ AcceptSuggestion
<1>1. CASE AnswerQuit \/ AskToQuit \/ ShowHelp \/ ToggleLogs \/ Escape
  BY <1>1 DEF AnswerQuit, AskToQuit, ShowHelp, ToggleLogs, Escape
<1>2. CASE \E key \in MoveKeys : SelectRequest(key) \/ ScrollDetails(key) \/ ScrollLogs(key)
  BY <1>2 DEF SelectRequest, ScrollDetails, ScrollLogs
<1>3. CASE OpenDetails \/ SwitchTab \/ SwitchLog \/ ClearSession \/ Export
  BY <1>3 DEF OpenDetails, SwitchTab, SwitchLog, ClearSession, Export, stateVars
<1> QED BY <1>1, <1>2, <1>3 DEF Keys

LEMMA EditorStep ==
  store \in Seq(Entries) /\ EditorInv /\ [InterfaceNext]_interfaceVars => EditorInv'
<1> SUFFICES ASSUME store \in Seq(Entries), EditorInv, [InterfaceNext]_interfaceVars
             PROVE  EditorInv'
  OBVIOUS
<1>0. ASSUME UNCHANGED filterVars, pc' # "key" \/ pc' = pc PROVE EditorInv'
  BY <1>0 DEF filterVars, EditorInv
<1>1. CASE World \/ UNCHANGED interfaceVars
  BY <1>0, <1>1 DEF World, Capture, LogLine, ChildEnds, interfaceVars, loopVars, stateVars
<1>2. CASE Check \/ NoKey
  BY <1>0, <1>2 DEF Check, NoKey, Exit, stateVars
<1>3. CASE Draw
  <2>1. UNCHANGED <<applied, entering>> BY <1>3 DEF Draw
  <2>2. CASE pc' = "key"
    <3>1. editor' = IF entering THEN Refresh(editor) ELSE editor
      BY <1>3, <2>2 DEF Draw, Exit
    <3>2. Refresh(editor) \in EditorStates /\ InWindow(Refresh(editor))
      BY RefreshType DEF EditorInv
    <3> QED BY <2>1, <3>1, <3>2 DEF EditorInv
  <2>3. CASE pc' # "key"
    <3>1. editor' = editor BY <1>3, <2>3 DEF Draw
    <3> QED BY <1>0, <2>1, <2>3, <3>1 DEF filterVars
  <2> QED BY <2>2, <2>3
<1>4. CASE Keys
  <2>1. pc' # "key" BY <1>4, KeysDropTheFrame
  <2> QED BY <1>0, <1>4, <2>1, OtherKeysLeaveEditor, EditorKeyTypes DEF EditorInv
<1> QED BY <1>1, <1>2, <1>3, <1>4 DEF InterfaceNext, Loop

\* The chosen suggestion is among those that are drawn (filter.rs 188-205,
\* layout.rs 138-145).
THEOREM InterfaceChosenIsVisible == InterfaceSpec => []ChosenIsVisible
<1>1. EditorInv => ChosenIsVisible BY DEF EditorInv, InWindow, ChosenIsVisible
<1>2. ListInv => store \in Seq(Entries) BY DEF ListInv, HighlightInv
<1> QED
  BY <1>1, <1>2, ListInit, ListStep, EditorInit, EditorStep, PTL DEF InterfaceSpec

-----------------------------------------------------------------------------
(* The types.                                                               *)

Frames == [entries : Seq(Entries), lines : [LogTabs -> Nat], offered : Seq(Texts),
           chosen : Nat, dialog : BOOLEAN]

ControlTypeOK ==
  /\ childRunning \in BOOLEAN /\ autoExit \in BOOLEAN /\ confirmQuit \in BOOLEAN
  /\ pc \in {"check", "draw", "key", "exited"}
  /\ exit \in {None, "quit", "error", "terminate", "leave"}
  /\ screen \in {"list", "details", "logs", "help"}
  /\ frame \in Frames

InterfaceTypeOK ==
  /\ ControlTypeOK
  /\ store \in Seq(Entries) /\ mark \in EntryIds \cup {None}
  /\ selected \in Nat /\ detailOffset \in Nat /\ tab \in 0 .. NumTabs - 1
  /\ applied \in Filters /\ entering \in BOOLEAN /\ editor \in EditorStates
  /\ lines \in [LogTabs -> Nat] /\ logTab \in LogTabs /\ logOffset \in Nat

TypeParts == LogInv /\ ListInv /\ EditorInv /\ ControlTypeOK

LEMMA BlankType == Blank \in Frames
<1>1. Blank.lines \in [LogTabs -> Nat] BY BlankFrame
<1>2. <<>> \in Seq(Entries) /\ <<>> \in Seq(Texts) OBVIOUS
<1>3. [t \in LogTabs |-> 0] \in [LogTabs -> Nat] OBVIOUS
<1> QED BY <1>2, <1>3 DEF Blank, Frames

LEMMA ControlInit == InterfaceInit => ControlTypeOK
BY BlankType DEF InterfaceInit, ControlTypeOK

LEMMA ControlStep == TypeParts /\ [InterfaceNext]_interfaceVars => ControlTypeOK'
<1> SUFFICES ASSUME TypeParts, [InterfaceNext]_interfaceVars PROVE ControlTypeOK' OBVIOUS
<1>0. ControlTypeOK BY DEF TypeParts
<1>1. CASE World \/ UNCHANGED interfaceVars
  <2>1. UNCHANGED <<autoExit, confirmQuit, pc, exit, screen, frame>>
        /\ (childRunning' = childRunning \/ childRunning' = FALSE)
    BY <1>1 DEF World, Capture, LogLine, ChildEnds, interfaceVars, worldVars, loopVars, stateVars
  <2> QED BY <1>0, <2>1 DEF ControlTypeOK
<1>2. CASE Check \/ NoKey
  <2>1. UNCHANGED <<autoExit, confirmQuit, screen, childRunning>>
        /\ pc' \in {"draw", "check", "exited"} /\ (exit' = exit \/ exit' = "quit")
        /\ frame' \in {frame, Blank}
    BY <1>2 DEF Check, NoKey, Exit, worldVars, stateVars
  <2> QED BY <1>0, <2>1, BlankType DEF ControlTypeOK
<1>3. CASE Draw
  <2>1. UNCHANGED <<autoExit, confirmQuit, screen, childRunning>>
        /\ pc' \in {"key", "exited"} /\ (exit' = exit \/ exit' = "error")
    BY <1>3 DEF Draw, Exit, worldVars
  <2>2. CASE pc' = "key"
    <3>1. frame' = [entries |-> Filtered(store, applied), lines |-> lines,
                    offered |-> IF entering THEN editor'.offered ELSE <<>>,
                    chosen |-> IF entering THEN editor'.chosen ELSE 0,
                    dialog |-> confirmQuit]
          /\ editor' = IF entering THEN Refresh(editor) ELSE editor
      BY <1>3, <2>2 DEF Draw, Exit
    <3>2. editor' \in EditorStates
      BY <3>1, RefreshType DEF TypeParts, EditorInv, ListInv, HighlightInv
    <3>3. editor'.offered \in Seq(Texts) /\ editor'.chosen \in Nat /\ <<>> \in Seq(Texts)
      BY <3>2 DEF EditorStates
    <3>4. Filtered(store, applied) \in Seq(Entries) /\ lines \in [LogTabs -> Nat]
          /\ confirmQuit \in BOOLEAN
      BY FilteredType DEF TypeParts, ListInv, HighlightInv, LogInv, ControlTypeOK
    <3>5. frame' \in Frames BY <3>1, <3>3, <3>4 DEF Frames
    <3> QED BY <1>0, <2>1, <3>5 DEF ControlTypeOK
  <2>3. CASE pc' # "key"
    <3>1. frame' = Blank BY <1>3, <2>3 DEF Draw, Exit
    <3> QED BY <1>0, <2>1, <3>1, BlankType DEF ControlTypeOK
  <2> QED BY <2>2, <2>3
<1>4. CASE Keys
  <2>1. frame' = Blank BY <1>4, KeysDropTheFrame
  <2>2. /\ UNCHANGED <<autoExit, childRunning>>
        /\ pc' \in {"check", "exited"}
        /\ exit' = exit \/ exit' \in {"terminate", "leave", "error"}
        /\ screen' = screen \/ screen' \in {"list", "details", "logs", "help"}
        /\ confirmQuit' = confirmQuit \/ confirmQuit' = TRUE \/ confirmQuit' = FALSE
    <3>1. CASE AnswerQuit BY <3>1 DEF AnswerQuit, Exit, Handled
    <3>2. CASE AskToQuit \/ ShowHelp \/ ToggleLogs \/ Escape
      BY <3>2 DEF AskToQuit, ShowHelp, ToggleLogs, Escape, Handled
    <3>3. CASE \E key \in MoveKeys : SelectRequest(key) \/ ScrollDetails(key) \/ ScrollLogs(key)
      BY <3>3 DEF SelectRequest, ScrollDetails, ScrollLogs, Handled
    <3>4. CASE OpenDetails \/ SwitchTab \/ SwitchLog \/ ClearSession
      BY <3>4 DEF OpenDetails, SwitchTab, SwitchLog, ClearSession, Handled
    <3>5. CASE Export BY <3>5 DEF Export, Exit, worldVars, stateVars
    <3>6. CASE BeginEdit \/ CancelEdit \/ ApplyFilter \/ RefuseFilter \/ Type
      BY <3>6 DEF BeginEdit, CancelEdit, ApplyFilter, RefuseFilter, Type, Editing, Handled
    <3>7. CASE ChooseSuggestion \/ AcceptSuggestion
      BY <3>7 DEF ChooseSuggestion, AcceptSuggestion, Editing, Handled
    <3> QED BY <1>4, <3>1, <3>2, <3>3, <3>4, <3>5, <3>6, <3>7 DEF Keys
  <2> QED BY <1>0, <2>1, <2>2, BlankType DEF ControlTypeOK
<1> QED BY <1>1, <1>2, <1>3, <1>4 DEF InterfaceNext, Loop

\* Every variable of the interface keeps its type, for any hosts, texts and limits
\* (tui/mod.rs 60-131, tui/events.rs).
THEOREM InterfaceTypeCorrect == InterfaceSpec => []InterfaceTypeOK
<1>1. TypeParts => InterfaceTypeOK
  <2> SUFFICES ASSUME TypeParts PROVE InterfaceTypeOK OBVIOUS
  <2>1. mark \in EntryIds \cup {None}
    <3> SUFFICES ASSUME mark # None PROVE mark \in EntryIds OBVIOUS
    <3>1. selected \in Nat /\ selected < Len(List) /\ List[selected + 1].id = mark
          /\ List \in Seq(Entries)
      BY FilteredType DEF TypeParts, ListInv, HighlightInv, List
    <3>2. List[selected + 1] \in Entries BY <3>1
    <3> QED BY <3>1, <3>2 DEF Entries
  <2> QED
    BY <2>1
    DEF TypeParts, LogInv, ListInv, HighlightInv, DetailInv, EditorInv, InterfaceTypeOK
<1>2. InterfaceInit => TypeParts BY LogInit, ListInit, EditorInit, ControlInit DEF TypeParts
<1>3. TypeParts /\ [InterfaceNext]_interfaceVars => TypeParts'
  BY LogStep, ListStep, EditorStep, ControlStep DEF TypeParts, ListInv, HighlightInv
<1> QED BY <1>1, <1>2, <1>3, PTL DEF InterfaceSpec
=============================================================================

------------------------------ MODULE Interface -------------------------------
(***************************************************************************)
(* The terminal interface: run_loop of src/tui/mod.rs and handle_key of     *)
(* src/tui/events.rs, while exchanges are recorded, log lines arrive and    *)
(* the child ends. Each round of the loop looks at the child, draws a frame *)
(* from a copy of the store and the logs, and handles at most one key with  *)
(* the entries of that frame. A filter is the text of one "host:" token;    *)
(* messages are left out, with the keys and the pausing that change only    *)
(* what they say.                                                           *)
(***************************************************************************)
EXTENDS Integers, Sequences, FiniteSets

CONSTANTS
  Hosts,        \* hosts of captured entries, numbered in their sort order
  EntryIds,     \* identifiers of entries: the store holds each once at most
  Typed,        \* the texts that the user types
  MaxLines,     \* max_lines of each log
  NumTabs,      \* how many detail tabs there are
  ScrollLimit,  \* detail_scroll_limit of an entry of a host in a tab
  Page,         \* how far a page key goes
  Visible,      \* MAX_VISIBLE of keep_selected_visible
  None          \* Option::None

LogTabs == {"process", "tlscope"}
Entries == [id : EntryIds, host : Hosts]

\* The texts a filter editor can hold: empty, "host:", "host:h" and one that
\* TrafficFilter::parse refuses.
Unparsable == <<"invalid">>
HostKey == <<"host">>
HostIs(h) == <<"host", h>>
Filters == {<<>>} \cup {HostIs(h) : h \in Hosts}
Texts == Filters \cup {HostKey, Unparsable}

ASSUME InterfaceAssumption ==
  /\ Hosts \subseteq Int
  /\ None \notin EntryIds /\ Typed \subseteq Texts /\ MaxLines \in [LogTabs -> Nat]
  /\ NumTabs \in Nat \ {0} /\ Page \in Nat \ {0} /\ Visible \in Nat \ {0}
  /\ ScrollLimit \in [Hosts \X (0 .. NumTabs - 1) -> Nat]

VARIABLES
  store,         \* the entries of TrafficStore
  lines,         \* how many lines each of the two logs holds
  childRunning,  \* the flag that the supervisor clears; read with autoExit only
  autoExit,      \* auto_exit_when_child_done
  pc,            \* "check", "draw", "key" or "exited"
  exit,          \* what run_loop returned
  frame,         \* what was drawn, for the round of the loop that drew it
  selected, detailOffset, tab, screen, confirmQuit, logTab, logOffset,
  applied,       \* applied_filter and its text
  entering,      \* entering_filter
  editor,        \* filter_editor
  mark           \* history: the entry the user saw highlighted or went to

worldVars == <<store, lines, childRunning>>
loopVars == <<pc, exit, frame, autoExit>>
listVars == <<selected, mark>>
detailVars == <<detailOffset, tab>>
filterVars == <<applied, entering, editor>>
logVars == <<logTab, logOffset>>
stateVars == <<listVars, detailVars, screen, filterVars, logVars, confirmQuit>>
interfaceVars == <<worldVars, loopVars, stateVars>>

Least(m, n) == IF m < n THEN m ELSE n
Minus(m, n) == IF m < n THEN 0 ELSE m - n      \* saturating_sub

Ids(entries) == {entries[i].id : i \in 1 .. Len(entries)}

\* A finite set of integers from its least element on.
Rank(S, x) == Cardinality({y \in S : y <= x})
Nth(S, n) == CHOOSE x \in S : Rank(S, x) = n
Sorted(S) == [n \in 1 .. Cardinality(S) |-> Nth(S, n)]

Matches(filter, entry) == filter = <<>> \/ filter = HostIs(entry.host)

Kept(entries, filter) == {i \in 1 .. Len(entries) : Matches(filter, entries[i])}
Filtered(entries, filter) ==
  [n \in 1 .. Cardinality(Kept(entries, filter)) |-> entries[Nth(Kept(entries, filter), n)]]

\* selected_entry, and the row that is drawn as selected.
Highlighted(entries, n) == entries[Least(n + 1, Len(entries))]

-----------------------------------------------------------------------------
(* The filter editor.                                                        *)

\* The hosts of the filter index, in their order.
HostIndex == Sorted({store[i].host : i \in 1 .. Len(store)})

\* "host:" stands for the keys that an empty text is completed to.
Suggestions(text) ==
  IF text = <<>> THEN <<HostKey>>
  ELSE IF text = HostKey THEN [i \in 1 .. Len(HostIndex) |-> HostIs(HostIndex[i])]
  ELSE IF \E i \in 1 .. Len(store) : text = HostIs(store[i].host) THEN <<text>> ELSE <<>>

\* Off by one at the lower end of the window.
KeepVisibleMutantLate(scroll, chosen) ==
  IF chosen < scroll THEN chosen
  ELSE IF chosen > scroll + Visible THEN chosen + 1 - Visible
  ELSE scroll

KeepVisible(scroll, chosen) ==
  IF chosen < scroll THEN chosen
  ELSE IF chosen >= scroll + Visible THEN chosen + 1 - Visible
  ELSE scroll

Choose(e, n) == [e EXCEPT !.chosen = n, !.scroll = KeepVisible(e.scroll, n)]

\* filter::refresh: new suggestions, the selection clamped to them.
Refresh(e) ==
  LET offered == Suggestions(e.text)
      fresh == [e EXCEPT !.offered = offered]
  IN IF offered = <<>> THEN [fresh EXCEPT !.chosen = 0, !.scroll = 0]
     ELSE Choose(fresh, Least(e.chosen, Len(offered) - 1))

\* The text replaced: by a key, by a suggestion or by reset_to.
Retype(e, text) == Refresh([e EXCEPT !.text = text, !.error = FALSE])

-----------------------------------------------------------------------------
Blank == [entries |-> <<>>, lines |-> [t \in LogTabs |-> 0], offered |-> <<>>,
          chosen |-> 0, dialog |-> FALSE]

InterfaceInit ==
  /\ store = <<>> /\ lines = [t \in LogTabs |-> 0]
  /\ autoExit \in BOOLEAN /\ childRunning = autoExit
  /\ pc = "check" /\ exit = None
  /\ frame = Blank
  /\ selected = 0 /\ mark = None
  /\ detailOffset = 0 /\ tab = 0
  /\ screen = "list"
  /\ applied = <<>> /\ entering = FALSE
  /\ editor = [text |-> <<>>, offered |-> <<>>, chosen |-> 0, scroll |-> 0, error |-> FALSE]
  /\ confirmQuit = FALSE
  /\ logTab = "process" /\ logOffset = 0

-----------------------------------------------------------------------------
(* The tasks around the loop.                                                *)

\* The newest entry comes first.
PushMutantNewestFirst(entries, entry) == <<entry>> \o entries

\* TrafficStore::push. Identifiers are given out when an exchange begins, so the
\* entries come in any order of them; after `c' they may be used again here.
Push(entries, entry) == Append(entries, entry)

Capture ==
  /\ \E e \in Entries :
       /\ e.id \notin Ids(store)
       /\ store' = Push(store, e)
  /\ UNCHANGED <<lines, childRunning, loopVars, stateVars>>

LogLine(t) ==
  /\ lines[t] < MaxLines[t]
  /\ lines' = [lines EXCEPT ![t] = @ + 1]
  /\ UNCHANGED <<store, childRunning, loopVars, stateVars>>

ChildEnds ==
  /\ childRunning
  /\ childRunning' = FALSE
  /\ UNCHANGED <<store, lines, loopVars, stateVars>>

-----------------------------------------------------------------------------
(* The loop.                                                                 *)

Exit(how) == exit' = how /\ pc' = "exited" /\ frame' = Blank

\* The end of the child waits for the dialog to be answered.
CheckMutantDialogFirst ==
  /\ pc = "check"
  /\ IF autoExit /\ ~childRunning /\ ~confirmQuit
       THEN Exit("quit")
       ELSE pc' = "draw" /\ UNCHANGED <<exit, frame>>
  /\ UNCHANGED <<autoExit, worldVars, stateVars>>

Check ==
  /\ pc = "check"
  /\ IF autoExit /\ ~childRunning
       THEN Exit("quit")
       ELSE pc' = "draw" /\ UNCHANGED <<exit, frame>>
  /\ UNCHANGED <<autoExit, worldVars, stateVars>>

\* The snapshots are taken one after the other; nothing below relates them.
Draw ==
  /\ pc = "draw"
  /\ \/ /\ editor' = IF entering THEN Refresh(editor) ELSE editor
        /\ frame' = [entries |-> Filtered(store, applied), lines |-> lines,
                     offered |-> IF entering THEN editor'.offered ELSE <<>>,
                     chosen |-> IF entering THEN editor'.chosen ELSE 0,
                     dialog |-> confirmQuit]
        /\ mark' = IF mark = None /\ frame'.entries # <<>>
                     THEN Highlighted(frame'.entries, selected).id ELSE mark
        /\ pc' = "key" /\ UNCHANGED exit
     \/ /\ Exit("error") /\ UNCHANGED <<editor, mark>>
  /\ UNCHANGED <<autoExit, worldVars, selected, detailVars, screen, applied,
                 entering, logVars, confirmQuit>>

\* No key within the poll, or one that does not count here.
NoKey ==
  /\ pc = "key" /\ pc' = "check" /\ frame' = Blank
  /\ UNCHANGED <<exit, autoExit, worldVars, stateVars>>

-----------------------------------------------------------------------------
(* Keys. Handled is what all handlers have in common that return None.       *)

Handled ==
  /\ pc = "key" /\ pc' = "check" /\ frame' = Blank
  /\ UNCHANGED <<exit, autoExit, lines, childRunning>>

Free == ~confirmQuit /\ ~entering

\* handle_quit_choice.
AnswerQuit ==
  /\ confirmQuit
  /\ \/ /\ pc = "key"
        /\ \E how \in {"terminate", "leave"} : Exit(how)
        /\ UNCHANGED <<autoExit, lines, childRunning, confirmQuit>>
     \/ Handled /\ confirmQuit' = FALSE
  /\ UNCHANGED <<store, listVars, detailVars, screen, filterVars, logVars>>

\* The next key is read without drawing the dialog.
AskToQuitMutantKeyAhead ==
  /\ Free /\ pc = "key"
  /\ confirmQuit' = TRUE
  /\ UNCHANGED <<worldVars, loopVars, listVars, detailVars, screen, filterVars, logVars>>

AskToQuit ==
  /\ Free /\ Handled
  /\ confirmQuit' = TRUE
  /\ UNCHANGED <<store, listVars, detailVars, screen, filterVars, logVars>>

ShowHelp ==
  /\ Free /\ Handled
  /\ screen' = "help"
  /\ UNCHANGED <<store, listVars, detailVars, filterVars, logVars, confirmQuit>>

ToggleLogs ==
  /\ Free /\ Handled
  /\ IF screen = "logs" THEN screen' = "list" /\ UNCHANGED logOffset
                        ELSE screen' = "logs" /\ logOffset' = 0
  /\ UNCHANGED <<store, listVars, detailVars, filterVars, logTab, confirmQuit>>

Escape ==
  /\ Free /\ Handled
  /\ screen # "list"
  /\ screen' = "list"
  /\ UNCHANGED <<store, listVars, detailVars, filterVars, logVars, confirmQuit>>

\* select_next_request and the functions after it.
LastRow == Len(frame.entries) - 1
Clamped == Least(selected, LastRow)

Target(key) ==
  CASE key = "down" -> Least(Clamped + 1, LastRow)
    [] key = "page down" -> Least(Clamped + Page, LastRow)
    [] key = "up" -> Minus(Clamped, 1)
    [] key = "page up" -> Minus(Clamped, Page)
    [] key = "home" -> 0
    [] key = "end" -> LastRow

MoveKeys == {"down", "page down", "up", "page up", "home", "end"}

\* At either end the offset of the details stays; Home and End always reset it.
SelectRequest(key) ==
  /\ Free /\ Handled
  /\ screen = "list" /\ frame.entries # <<>>
  /\ selected' = Target(key)
  /\ mark' = frame.entries[selected' + 1].id
  /\ detailOffset' = IF key \in {"home", "end"} \/ selected' # Clamped
                       THEN 0 ELSE detailOffset
  /\ UNCHANGED <<store, tab, screen, filterVars, logVars, confirmQuit>>

OpenDetails ==
  /\ Free /\ Handled
  /\ screen = "list" /\ frame.entries # <<>>
  /\ selected' = Clamped
  /\ detailOffset' = 0
  /\ screen' = "details"
  /\ UNCHANGED <<store, mark, tab, filterVars, logVars, confirmQuit>>

DetailLimit ==
  IF frame.entries = <<>> THEN 0
  ELSE ScrollLimit[<<Highlighted(frame.entries, selected).host, tab>>]

ScrollDetails(key) ==
  LET further(n) == IF detailOffset < DetailLimit THEN Least(detailOffset + n, DetailLimit)
                                                  ELSE detailOffset
  IN
  /\ Free /\ Handled
  /\ screen = "details"
  /\ \/ key = "down" /\ detailOffset' = further(1)
     \/ key = "page down" /\ detailOffset' = further(Page)
     \/ key = "up" /\ detailOffset' = Minus(detailOffset, 1)
     \/ key = "page up" /\ detailOffset' = Minus(detailOffset, Page)
     \/ key = "home" /\ detailOffset' = 0
     \/ key = "end" /\ detailOffset' = DetailLimit
  /\ UNCHANGED <<store, listVars, tab, screen, filterVars, logVars, confirmQuit>>

SwitchTab ==
  /\ Free /\ Handled
  /\ screen = "details"
  /\ \E step \in {1, NumTabs - 1} : tab' = (tab + step) % NumTabs
  /\ detailOffset' = 0
  /\ UNCHANGED <<store, listVars, screen, filterVars, logVars, confirmQuit>>

ScrollLogs(key) ==
  LET count == frame.lines[logTab]
      older(n) == IF logOffset < Minus(count, 1) THEN Least(logOffset + n, count - 1)
                                                 ELSE logOffset
  IN
  /\ Free /\ Handled
  /\ screen = "logs"
  /\ \/ key = "up" /\ logOffset' = older(1)
     \/ key = "page up" /\ logOffset' = older(Page)
     \/ key = "down" /\ logOffset' = Minus(logOffset, 1)
     \/ key = "page down" /\ logOffset' = Minus(logOffset, Page)
     \/ key = "home" /\ logOffset' = IF count = 0 THEN logOffset ELSE count - 1
     \/ key = "end" /\ logOffset' = 0
  /\ UNCHANGED <<store, listVars, detailVars, screen, filterVars, logTab, confirmQuit>>

\* next and previous are the same with two logs.
SwitchLogMutantKeepsOffset ==
  /\ Free /\ Handled
  /\ screen = "logs"
  /\ logTab' \in LogTabs \ {logTab}
  /\ UNCHANGED <<store, listVars, detailVars, screen, filterVars, logOffset, confirmQuit>>

SwitchLog ==
  /\ Free /\ Handled
  /\ screen = "logs"
  /\ logTab' \in LogTabs \ {logTab}
  /\ logOffset' = 0
  /\ UNCHANGED <<store, listVars, detailVars, screen, filterVars, confirmQuit>>

ClearSession ==
  /\ Free /\ Handled
  /\ screen # "help"
  /\ store' = <<>>
  /\ selected' = 0 /\ mark' = None
  /\ detailOffset' = 0 /\ logOffset' = 0
  /\ UNCHANGED <<tab, screen, filterVars, logTab, confirmQuit>>

\* Writing TLScope-export.json; a failure ends the interface.
Export ==
  /\ Free /\ pc = "key" /\ screen # "help"
  /\ \/ pc' = "check" /\ frame' = Blank /\ UNCHANGED exit
     \/ Exit("error")
  /\ UNCHANGED <<autoExit, worldVars, stateVars>>

-----------------------------------------------------------------------------
(* Keys of the filter editor: handle_filter_key refreshes it first.          *)

Editing ==
  /\ entering /\ ~confirmQuit /\ Handled
  /\ UNCHANGED <<store, detailVars, screen, logVars, confirmQuit>>

BeginEdit ==
  /\ Free /\ Handled
  /\ screen \in {"list", "details"}
  /\ editor' = Retype(editor, applied)
  /\ entering' = TRUE
  /\ UNCHANGED <<store, listVars, detailVars, screen, applied, logVars, confirmQuit>>

CancelEdit ==
  /\ Editing
  /\ editor' = Retype(Refresh(editor), applied)
  /\ entering' = FALSE
  /\ UNCHANGED <<listVars, applied>>

\* The details stay scrolled as they were for the entry shown before.
ApplyFilterMutantKeepsScroll ==
  /\ entering /\ ~confirmQuit /\ Handled
  /\ editor.text \in Filters
  /\ applied' = editor.text /\ entering' = FALSE
  /\ editor' = [Refresh(editor) EXCEPT !.error = FALSE]
  /\ selected' = 0 /\ mark' = None
  /\ UNCHANGED <<store, detailVars, screen, logVars, confirmQuit>>

\* apply_filter on a text that parses, and on one that does not.
ApplyFilter ==
  /\ entering /\ ~confirmQuit /\ Handled
  /\ editor.text \in Filters
  /\ applied' = editor.text /\ entering' = FALSE
  /\ editor' = [Refresh(editor) EXCEPT !.error = FALSE]
  /\ selected' = 0 /\ mark' = None
  /\ detailOffset' = 0
  /\ UNCHANGED <<store, tab, screen, logVars, confirmQuit>>

RefuseFilter ==
  /\ Editing
  /\ editor.text \notin Filters
  /\ editor' = [Refresh(editor) EXCEPT !.error = TRUE]
  /\ UNCHANGED <<listVars, applied, entering>>

\* Any editing key: the text becomes another one.
Type ==
  /\ Editing
  /\ \E text \in Typed \ {editor.text} : editor' = Retype(Refresh(editor), text)
  /\ UNCHANGED <<listVars, applied, entering>>

ChooseSuggestion ==
  LET e == Refresh(editor) IN
  /\ Editing
  /\ e.offered # <<>>
  /\ \/ editor' = Choose(e, Least(e.chosen + 1, Len(e.offered) - 1))
     \/ editor' = Choose(e, Minus(e.chosen, 1))
  /\ UNCHANGED <<listVars, applied, entering>>

AcceptSuggestion ==
  LET e == Refresh(editor) IN
  /\ Editing
  /\ e.offered # <<>>
  /\ editor' = Retype(e, e.offered[e.chosen + 1])
  /\ UNCHANGED <<listVars, applied, entering>>

-----------------------------------------------------------------------------
World == Capture \/ (\E t \in LogTabs : LogLine(t)) \/ ChildEnds

Keys ==
  \/ AnswerQuit \/ AskToQuit \/ ShowHelp \/ ToggleLogs \/ Escape
  \/ \E key \in MoveKeys : SelectRequest(key) \/ ScrollDetails(key) \/ ScrollLogs(key)
  \/ OpenDetails \/ SwitchTab \/ SwitchLog \/ ClearSession \/ Export
  \/ BeginEdit \/ CancelEdit \/ ApplyFilter \/ RefuseFilter \/ Type
  \/ ChooseSuggestion \/ AcceptSuggestion

Loop == Check \/ Draw \/ NoKey \/ Keys

InterfaceNext == World \/ Loop

\* The main task runs, and poll returns after 100 ms at the latest.
InterfaceSpec == InterfaceInit /\ [][InterfaceNext]_interfaceVars /\ WF_interfaceVars(Loop)

-----------------------------------------------------------------------------
\* The highlight stays on the entry the user saw it on or moved it to, whatever is
\* captured meanwhile; only a new filter and a cleared session lose it
\* (events.rs 319-367, request_list.rs 13, store.rs 11-14).
HighlightStays ==
  pc = "key" /\ mark # None =>
    frame.entries # <<>> /\ Highlighted(frame.entries, selected).id = mark

\* The details are never scrolled past the end of the entry and the tab they show
\* (events.rs 369-412), although both change while other screens are open.
DetailScrollInRange ==
  pc = "key" /\ screen = "details" => detailOffset <= DetailLimit

\* A scrolled log shows at least one line: the offset belongs to the log that is
\* shown, not to the other one (events.rs 441-449, 470-498).
LogOffsetInRange == logOffset <= Minus(lines[logTab], 1)

\* The selected suggestion is among those that are drawn while there is no error
\* to draw above them (filter.rs 188-205, layout.rs 138-145).
ChosenIsVisible ==
  entering /\ pc = "key" /\ ~editor.error /\ editor.offered # <<>> =>
    editor.chosen \in editor.scroll .. Least(editor.scroll + Visible, Len(editor.offered)) - 1

\* A session is left by a key only from a frame that showed the quit dialog
\* (events.rs 32-34, 42-45): no key is read ahead of the frame it answers.
LeavingWasAsked == [][exit' \in {"terminate", "leave"} /\ exit = None => frame.dialog]_exit

\* With auto_exit_when_child_done the interface ends after the child, whatever
\* screen, dialog or editor is open (mod.rs 72-78).
EndsWithChild == autoExit /\ ~childRunning ~> pc = "exited"
=============================================================================

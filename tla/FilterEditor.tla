---------------------------- MODULE FilterEditor -----------------------------
(***************************************************************************)
(* The filter editor while it is open: src/tui/filter.rs, with the          *)
(* suggestions of src/capture/filter_suggestions.rs and the sorted index of *)
(* src/capture/store.rs that they come from. Exchanges are recorded between *)
(* the frame and the key that answers it. A text is a sequence of           *)
(* characters, an offset into it counts bytes, and characters take one byte *)
(* or more. How the editor is opened, applied and left is in Interface.     *)
(***************************************************************************)
EXTENDS Integers, SequencesExt

CONSTANTS
  Bytes,       \* len_utf8 of each character
  Rank,        \* the order of the characters
  Lower,       \* to_ascii_lowercase of each character
  Space,       \* the characters that are white space
  Typed,       \* the characters that the user types
  Keys,        \* FILTER_KEYS, each with its colon
  HostKey,     \* the keys whose values are captured, and "duration:"
  StatusKey,
  TypeKey,
  DurationKey,
  Fixed,       \* the values of each other key: none for "path:"
  Operators,   \* OPERATORS
  Presets,     \* DURATION_PRESETS
  Aliases,     \* CONTENT_TYPE_ALIASES
  Buckets,     \* COMMON_STATUS_BUCKETS
  Entries,     \* what is captured: a status or a type that is missing is empty
  Starts,      \* texts of the applied filter that the editor is opened with
  Widths,      \* columns that the text is drawn in
  MaxOffered,  \* the limit of prefix_suggestions
  MaxTyped,    \* the user types on in shorter texts only
  MaxLength    \* and accepts no suggestion that makes the text longer

Chars == DOMAIN Bytes

ASSUME FilterEditorAssumption ==
  /\ Bytes \in [Chars -> Nat \ {0}] /\ Rank \in [Chars -> Nat]
  /\ \A c, d \in Chars : Rank[c] = Rank[d] => c = d
  /\ Lower \in [Chars -> Chars]
  /\ Space \subseteq Chars /\ Typed \subseteq Chars /\ ":" \in Chars \ Space
  /\ Starts \subseteq Seq(Chars)
  /\ \A e \in Entries :
       /\ e.host \in Seq(Chars) /\ e.status \in Seq(Chars)
       /\ e.request_type \in Seq(Chars) /\ e.response_type \in Seq(Chars)
  /\ Keys \in Seq(Seq(Chars)) /\ <<>> \notin ToSet(Keys)
  /\ {HostKey, StatusKey, TypeKey, DurationKey} \subseteq ToSet(Keys)
  /\ HostKey \notin {StatusKey, TypeKey, DurationKey}
  /\ StatusKey \notin {TypeKey, DurationKey} /\ TypeKey # DurationKey
  /\ \A i \in 1 .. Len(HostKey) :
       HostKey[i] \notin Space /\ (HostKey[i] = ":" <=> i = Len(HostKey))
  /\ Fixed \in [ToSet(Keys) \ {HostKey, StatusKey, TypeKey, DurationKey} -> Seq(Seq(Chars))]
  /\ Operators \in Seq(Seq(Chars)) /\ Presets \in Seq(Seq(Chars))
  /\ Aliases \in Seq(Seq(Chars)) /\ Buckets \in Seq(Seq(Chars))
  /\ Widths \subseteq Nat \ {0} /\ MaxOffered \in Nat \ {0} /\ {MaxTyped, MaxLength} \subseteq Nat

VARIABLES
  captured,  \* the entries in the store
  index,     \* FilterIndex
  editor,    \* FilterEditorState
  width,     \* the columns of the text's area
  pc,        \* "draw", "key" or "panicked"
  frame      \* what was drawn, and from which entries

editorVars == <<captured, index, editor, width, pc, frame>>

-----------------------------------------------------------------------------
(* Texts and offsets.                                                        *)

\* The offset behind each number of characters.
Offsets(text) ==
  LET at[n \in 0 .. Len(text)] == IF n = 0 THEN 0 ELSE at[n - 1] + Bytes[text[n]] IN at

Offset(text, n) == Offsets(text)[n]
Size(text) == Offset(text, Len(text))

\* The whole characters before an offset.
Count(text, cursor) ==
  CHOOSE n \in 0 .. Len(text) :
    /\ Offset(text, n) <= cursor
    /\ n = Len(text) \/ Offset(text, n + 1) > cursor

clamp_to_char_boundary(text, cursor) == Offset(text, Count(text, cursor))

Slice(text, from, to) == SubSeq(text, Count(text, from) + 1, Count(text, to))

replace_range(text, from, to, new) ==
  Slice(text, 0, from) \o new \o Slice(text, to, Size(text))

\* The order of strings.
Less(s, t) ==
  \/ s # t /\ IsPrefix(s, t)
  \/ \E i \in 1 .. Len(s) :
       /\ i <= Len(t) /\ Rank[s[i]] < Rank[t[i]]
       /\ \A j \in 1 .. i - 1 : s[j] = t[j]

-----------------------------------------------------------------------------
(* The index. The statuses are in the order of their texts, not of their      *)
(* numbers: every offer of them is sorted again, by its text.                *)

\* partition_point, and where binary_search finds a value or its place.
FirstNotBelow(values, value) ==
  Cardinality({i \in DOMAIN values : Less(values[i], value)})

insert_sorted_unique(values, value) ==
  IF value \in ToSet(values) THEN values
  ELSE InsertAt(values, FirstNotBelow(values, value) + 1, value)

Lowered(text) == [i \in DOMAIN text |-> Lower[text[i]]]

\* Without the white space at both ends.
Trim(text) ==
  LET solid == {i \in DOMAIN text : text[i] \notin Space}
  IN IF solid = {} THEN <<>> ELSE SubSeq(text, Min(solid), Max(solid))

\* A content type without its parameters.
insert_content_type(values, content_type) ==
  LET stop == SelectInSeq(content_type, LAMBDA c : c = ";")
      kind == IF stop = 0 THEN content_type ELSE SubSeq(content_type, 1, stop - 1)
      value == Lowered(Trim(kind))
  IN IF value = <<>> THEN values ELSE insert_sorted_unique(values, value)

NoIndex == [hosts |-> <<>>, statuses |-> <<>>, content_types |-> <<>>]

\* Mutant: hosts are kept as they are written.
InsertMutantKeepsCase(known, e) ==
  [hosts |-> insert_sorted_unique(known.hosts, e.host),
   statuses |-> IF e.status = <<>> THEN known.statuses
                ELSE insert_sorted_unique(known.statuses, e.status),
   content_types |-> insert_content_type(
                       insert_content_type(known.content_types, e.request_type),
                       e.response_type)]

insert_entry(known, e) ==
  [hosts |-> insert_sorted_unique(known.hosts, Lowered(e.host)),
   statuses |-> IF e.status = <<>> THEN known.statuses
                ELSE insert_sorted_unique(known.statuses, e.status),
   content_types |-> insert_content_type(
                       insert_content_type(known.content_types, e.request_type),
                       e.response_type)]

-----------------------------------------------------------------------------
(* The suggestions: what replaces the token.                                 *)

prefix_suggestions(values, prefix) ==
  LET start == FirstNotBelow(values, prefix)
      from == SubSeq(values, start + 1, Len(values))
      matching == Max({n \in 0 .. Len(from) : \A i \in 1 .. n : IsPrefix(prefix, from[i])})
  IN SubSeq(from, 1, Min({matching, MaxOffered}))

current_token(text, cursor) ==
  LET here == Count(text, cursor)
      spaces == {n \in DOMAIN text : text[n] \in Space}
  IN [start |-> Max({0} \cup {Offset(text, n - 1) + Bytes[text[n]] :
                                n \in {m \in spaces : m <= here}}),
      end |-> Min({Size(text)} \cup {Offset(text, n - 1) :
                                n \in {m \in spaces : m > here}})]

\* The values whose names begin with the prefix, in their order.
Beginning(values, names, prefix) ==
  LET kept[n \in 0 .. Len(values)] ==
        IF n = 0 THEN <<>>
        ELSE IF IsPrefix(prefix, names[n]) THEN Append(kept[n - 1], values[n])
        ELSE kept[n - 1]
  IN kept[Len(values)]

\* Each value once, sorted.
sort_and_dedup(values) ==
  LET sorted[n \in 0 .. Len(values)] ==
        IF n = 0 THEN <<>> ELSE insert_sorted_unique(sorted[n - 1], values[n])
  IN sorted[Len(values)]

key_suggestions(prefix) == Beginning(Keys, Keys, Lowered(prefix))

value_suggestions(key, values) == [i \in DOMAIN values |-> key \o values[i]]

static_values(values, prefix) ==
  Beginning(values, [i \in DOMAIN values |-> Lowered(values[i])], Lowered(prefix))

\* The longest operator that the text begins with.
split_operator_prefix(text) ==
  SubSeq(text, 1, Max({n \in 0 .. Len(text) : n = 0 \/ SubSeq(text, 1, n) \in ToSet(Operators)}))

\* The values of "status:" and "duration:", and operators in front of a number.
compared_values(values, prefix) ==
  LET operator == split_operator_prefix(prefix)
      number == SubSeq(prefix, Len(operator) + 1, Len(prefix))
      operators == IF number = <<>> THEN Beginning(Operators, Operators, prefix) ELSE <<>>
  IN sort_and_dedup(operators \o value_suggestions(operator, Beginning(values, values, number)))

status_values(prefix, statuses) ==
  compared_values(IF statuses = <<>> THEN Buckets ELSE statuses, prefix)

content_type_values(prefix, content_types) ==
  sort_and_dedup(static_values(Aliases, prefix)
                   \o prefix_suggestions(content_types, Lowered(prefix)))

build_filter_suggestions(text, cursor, known) ==
  LET before == Slice(text, current_token(text, cursor).start, cursor)
      colon == SelectInSeq(before, LAMBDA c : c = ":")
      key == SubSeq(before, 1, colon)
      prefix == SubSeq(before, colon + 1, Len(before))
      offer(values) == value_suggestions(key, values)
  IN CASE colon = 0 -> key_suggestions(before)
       [] key = HostKey -> offer(prefix_suggestions(known.hosts, Lowered(prefix)))
       [] key = StatusKey -> offer(status_values(prefix, known.statuses))
       [] key = TypeKey -> offer(content_type_values(prefix, known.content_types))
       [] key = DurationKey -> offer(compared_values(Presets, prefix))
       [] key \in DOMAIN Fixed -> offer(static_values(Fixed[key], prefix))
       [] OTHER -> key_suggestions(SubSeq(key, 1, colon - 1))

refresh(e) ==
  LET cursor == clamp_to_char_boundary(e.text, e.cursor)
      offered == build_filter_suggestions(e.text, cursor, index)
  IN [e EXCEPT !.cursor = cursor, !.suggestions = offered,
               !.selected_suggestion =
                  IF offered = <<>> THEN 0 ELSE Min({@, Len(offered) - 1})]

-----------------------------------------------------------------------------
(* The view.                                                                 *)

\* One column too many is kept to the left of the cursor.
VisibleTextMutantStart(text, cursor) ==
  LET here == Count(text, cursor)
      start == IF here < width THEN 0 ELSE here - width
      end == Min({start + width, Len(text)})
      cut == IF start = 0 THEN SubSeq(text, 1, end) ELSE <<"<">> \o SubSeq(text, start + 2, end)
  IN [text |-> cut, cursor_column |-> Min({here - start, width - 1}), panics |-> FALSE]

\* The first byte of what is visible is replaced by "<": this panics unless it
\* is the whole first character.
visible_text(text, cursor) ==
  LET here == Count(text, cursor)
      start == IF Len(text) <= width \/ here < width THEN 0 ELSE here - (width - 1)
      end == Min({start + width, Len(text)})
      visible == SubSeq(text, start + 1, end)
      headed == IF start > 0 /\ visible # <<>> THEN <<"<">> \o Tail(visible) ELSE visible
  IN [text |-> IF end < Len(text) /\ visible # <<>> THEN Front(headed) \o <<">">> ELSE headed,
      cursor_column |-> Min({here - start, width - 1}),
      panics |-> start > 0 /\ visible # <<>> /\ Bytes[visible[1]] # 1]

-----------------------------------------------------------------------------
NoView == [text |-> <<>>, cursor_column |-> 0, panics |-> FALSE]
NoFrame == [view |-> NoView, suggestions |-> <<>>, selected |-> 0, captured |-> {}]

\* reset_to: the applied filter, with the cursor at its end.
FilterEditorInit ==
  /\ captured = {} /\ index = NoIndex
  /\ \E text \in Starts :
       editor = [text |-> text, cursor |-> Size(text),
                 suggestions |-> build_filter_suggestions(text, Size(text), NoIndex),
                 selected_suggestion |-> 0]
  /\ width \in Widths
  /\ pc = "draw" /\ frame = NoFrame

\* TrafficStore::push.
Capture ==
  /\ \E e \in Entries \ captured :
       /\ captured' = captured \cup {e}
       /\ index' = insert_entry(index, e)
  /\ UNCHANGED <<editor, width, pc, frame>>

Draw ==
  LET e == refresh(editor)
      view == visible_text(e.text, e.cursor)
  IN
  /\ pc = "draw" /\ pc' = IF view.panics THEN "panicked" ELSE "key"
  /\ editor' = e
  /\ frame' = [view |-> view, suggestions |-> e.suggestions,
               selected |-> e.selected_suggestion, captured |-> captured]
  /\ UNCHANGED <<captured, index, width>>

\* No key within the poll, or one that the editor does not know.
NoKey ==
  /\ pc = "key" /\ pc' = "draw" /\ frame' = NoFrame
  /\ UNCHANGED <<captured, index, editor, width>>

-----------------------------------------------------------------------------
(* Keys: handle_filter_key refreshes with the store of now, then calls the   *)
(* function of the key on what it got, e. A new text is refreshed again.     *)

Becomes(e) ==
  /\ editor' = e
  /\ pc' = "draw" /\ frame' = NoFrame
  /\ UNCHANGED <<captured, index, width>>

Retyped(e, text, cursor) == refresh([e EXCEPT !.text = text, !.cursor = cursor])

\* previous_boundary and next_boundary, where there is one.
Previous(e) == Offset(e.text, Count(e.text, e.cursor) - 1)
Following(e) == Offset(e.text, Count(e.text, e.cursor) + 1)

InsertChar(e) ==
  /\ Len(e.text) < MaxTyped
  /\ \E c \in Typed :
       Becomes(Retyped(e, replace_range(e.text, e.cursor, e.cursor, <<c>>),
                          e.cursor + Bytes[c]))

Backspace(e) ==
  /\ e.cursor > 0
  /\ Becomes(Retyped(e, replace_range(e.text, Previous(e), e.cursor, <<>>), Previous(e)))

Delete(e) ==
  /\ e.cursor < Size(e.text)
  /\ Becomes(Retyped(e, replace_range(e.text, e.cursor, Following(e), <<>>), e.cursor))

\* The cursor moves, and the suggestions stay until the next frame.
MoveCursor(e) ==
  \/ e.cursor > 0 /\ Becomes([e EXCEPT !.cursor = Previous(e)])
  \/ e.cursor < Size(e.text) /\ Becomes([e EXCEPT !.cursor = Following(e)])
  \/ Becomes([e EXCEPT !.cursor = 0])
  \/ Becomes([e EXCEPT !.cursor = Size(e.text)])

Clear(e) == Becomes(Retyped(e, <<>>, 0))

DeleteCurrentToken(e) ==
  LET token == current_token(e.text, e.cursor) IN
  /\ token.start # token.end
  /\ Becomes(Retyped(e, replace_range(e.text, token.start, token.end, <<>>), token.start))

SelectSuggestion(e) ==
  /\ e.suggestions # <<>>
  /\ \/ Becomes([e EXCEPT !.selected_suggestion = Min({@ + 1, Len(e.suggestions) - 1})])
     \/ Becomes([e EXCEPT !.selected_suggestion = IF @ = 0 THEN 0 ELSE @ - 1])

\* What follows the cursor stays.
ApplyMutantToCursor(e) ==
  LET token == current_token(e.text, e.cursor)
      chosen == e.suggestions[e.selected_suggestion + 1]
      text == replace_range(e.text, token.start, e.cursor, chosen)
  IN
  /\ e.suggestions # <<>>
  /\ Len(text) <= MaxLength
  /\ Becomes(Retyped(e, text, token.start + Size(chosen)))

ApplySelectedSuggestion(e) ==
  LET token == current_token(e.text, e.cursor)
      chosen == e.suggestions[e.selected_suggestion + 1]
      text == replace_range(e.text, token.start, token.end, chosen)
  IN
  /\ e.suggestions # <<>>
  /\ Len(text) <= MaxLength
  /\ Becomes(Retyped(e, text, token.start + Size(chosen)))

Key ==
  /\ pc = "key"
  /\ \E e \in {refresh(editor)} :
       \/ InsertChar(e) \/ Backspace(e) \/ Delete(e) \/ MoveCursor(e) \/ Clear(e)
       \/ DeleteCurrentToken(e) \/ SelectSuggestion(e) \/ ApplySelectedSuggestion(e)

-----------------------------------------------------------------------------
FilterEditorNext == Capture \/ Draw \/ NoKey \/ Key

FilterEditorSpec == FilterEditorInit /\ [][FilterEditorNext]_editorVars

-----------------------------------------------------------------------------
(* Properties.                                                               *)

\* The cursor stands between two characters, and what is highlighted is offered.
FilterEditorTypeOK ==
  /\ captured \subseteq Entries
  /\ index \in [hosts : Seq(Seq(Chars)), statuses : Seq(Seq(Chars)),
                content_types : Seq(Seq(Chars))]
  /\ editor \in [text : Seq(Chars), cursor : Nat, suggestions : Seq(Seq(Chars)),
                 selected_suggestion : Nat]
  /\ \E n \in 0 .. Len(editor.text) : editor.cursor = Offset(editor.text, n)
  /\ editor.selected_suggestion = 0 \/ editor.selected_suggestion < Len(editor.suggestions)
  /\ width \in Widths /\ pc \in {"draw", "key", "panicked"}
  /\ frame \in [view : [text : Seq(Chars \cup {"<", ">"}), cursor_column : Nat, panics : BOOLEAN],
                suggestions : Seq(Seq(Chars)), selected : Nat, captured : SUBSET Entries]

\* Behind "host:" the editor offers the captured hosts that begin with what is
\* typed up to the cursor, whichever case either is in, each once in small
\* letters and sorted, in whatever order they were captured
\* (store.rs 65-66, 102-107, filter_suggestions.rs 56-104, 148-158, 246-254).
OffersTheHosts ==
  LET here == Count(editor.text, editor.cursor) IN
  \A n \in 0 .. here - Len(HostKey) :
    LET start == here - Len(HostKey) - n
        prefix == SubSeq(editor.text, here - n + 1, here)
        hosts == {h \in {Lowered(e.host) : e \in frame.captured} : IsPrefix(Lowered(prefix), h)}
        offered == frame.suggestions
    IN (/\ pc = "key"
        /\ start = 0 \/ editor.text[start] \in Space
        /\ ToSet(prefix) \cap Space = {}
        /\ SubSeq(editor.text, start + 1, here - n) = HostKey)
         => /\ Len(offered) = Min({Cardinality(hosts), MaxOffered})
            /\ \A i \in DOMAIN offered : \E h \in hosts :
                 offered[i] = HostKey \o h /\ Cardinality({g \in hosts : Less(g, h)}) = i - 1

\* What is drawn left of the cursor's column is what is left of the cursor, with
\* "<" for all that does not fit, and a text of one-byte characters can always be
\* drawn. A text that fills the area exactly is left out: its end has no column
\* (filter.rs 150-186, layout.rs 97-118).
ViewFollowsCursor ==
  LET here == Count(editor.text, editor.cursor)
      column == frame.view.cursor_column
      drawn == frame.view.text
  IN /\ pc = "panicked" => \E i \in DOMAIN editor.text : Bytes[editor.text[i]] > 1
     /\ pc = "key" => column < width /\ Len(drawn) <= width
     /\ pc = "key" /\ ~(here = width /\ Len(editor.text) = width) =>
          \A k \in 1 .. column : \/ drawn[k] = editor.text[here - column + k]
                                 \/ k = 1 /\ drawn[k] = "<" /\ column < here

\* Tab puts the suggestion that the frame highlighted in the place of the token
\* under the cursor and touches nothing else, unless an exchange was recorded after
\* the frame (events.rs 81-82, 103-105, filter.rs 136-148).
TabTakesTheShown ==
  [][pc = "key" /\ captured = frame.captured /\ ApplySelectedSuggestion(refresh(editor)) =>
       LET text == editor.text
           here == Count(text, editor.cursor)
           shown == frame.suggestions[frame.selected + 1]
       IN \E i \in 0 .. here, j \in here .. Len(text) :
            /\ i = 0 \/ text[i] \in Space
            /\ j = Len(text) \/ text[j + 1] \in Space
            /\ ToSet(SubSeq(text, i + 1, j)) \cap Space = {}
            /\ editor'.text = SubSeq(text, 1, i) \o shown \o SubSeq(text, j + 1, Len(text))
            /\ editor'.cursor = Size(SubSeq(text, 1, i) \o shown)]_editorVars
=============================================================================

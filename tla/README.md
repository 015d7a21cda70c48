# TLScope in TLA+

TLScope is an explicit HTTP/HTTPS debugging proxy: it starts a program with proxy
variables in its environment, relays what the program sends through the proxy, and
shows the exchanges in a terminal interface. This directory holds TLA+ models of the
parts of it that run concurrently or that can fail half-way, the TLC configurations
that check them, and proofs of their main invariants for every value of the constants.
Line numbers are those of `src/`.

## Inventory

| Component | State | Operations | Hard behaviour | What makes it correct |
| --- | --- | --- | --- | --- |
| Session control (`app.rs`) | the store, the logs, the proxy handle, the control channel, the `child_running` flag | `run_child`, `run_proxy_only`: start, run the interface, leave, join, shut down, save | `?` at every step; tasks go on while the main task leaves | success means complete; the quit dialog keeps its word; what was captured is saved |
| Child supervision (`app.rs` 437-522, `process/launcher.rs`) | the child, the result, the flag | wait, terminate (SIGTERM, grace, SIGKILL), detach, watch | two `select!`s over the same receiver, races of exit, timeout and message | only the live child is signalled, the flag is honest, the task always returns |
| Process tracking (`process/tracking.rs`) | baseline, child pid, observed pids, `quiet_since` | capture the baseline, snapshot, match, wait for quiet | snapshots are stale when judged; restarts; orphans and pids that are given again | quiet means seen quiet; what is tracked is the application |
| Proxy server (`proxy/server.rs`, `connect.rs`) | one task per connection, ids | accept, read, CONNECT, tunnel, exchange, record | peers stall, close and fail in any order; no timeouts | entries tell what was on the wire; nothing passes unseen; failures are told |
| HTTP/1.1 (`proxy/http.rs`, `capture/model.rs`) | a body's remaining length, a `CapturedBody` | header block, forward with capture | early bytes, partial reads, partial writes, full capture | bytes in order, none lost, capture is a prefix |
| Upstream (`proxy/upstream.rs`, `tls.rs`) | none | target, header rewriting, TLS | refusal of targets | unsupported requests stay here |
| HTTP/2 (`proxy/h2.rs`) | one task per stream | request body, response, error | half-closed streams, resets, order request/response | as for HTTP/1.1 |
| Store and filter (`capture/store.rs`, `filter_suggestions.rs`) | entries, sorted index | push, clear, filter, suggest | binary search needs the order it keeps | index agrees with entries |
| Export, redaction, decoding (`capture/*.rs`) | files | export, redact, decode | partial writes, truncated bodies | saved means whole |
| Authority (`certificates/*.rs`) | two files, the leaf cache | load or create, remove, leaf | crashes between files, two starts | certificate and key belong together |
| Interface (`tui/*.rs`) | `TuiState`, the frame's snapshot | one loop: drain, snapshot, draw, handle a key | keys act on the frame, captures go on | the selection stays with what the user saw |
| Logs (`process/logs.rs`, `diagnostics/logs.rs`) | two rings | push, snapshot | two readers and the loop | the newest lines, with a true count |
| Launcher form (`interactive.rs`) | the form, the remembered trust status, a filtered list in columns | keys; check, create, install and remove the authority | long sequences of keys, actions that fail half-way | an authority that is called trusted is the one drawn beside it; what is chosen is listed |
| CLI and configuration (`cli.rs`, `config.rs`) | none | parse, validate | none | - |

**Interactions.** `run_child` starts the proxy's accept loop (a task), the child and its
supervisor (a task), then runs the interface in the main task. The proxy's tasks write
into the store (a mutex) and send events; the interface reads the store, the logs and the
flag that the supervisor clears; its result goes to the supervisor through a oneshot
channel. Leaving joins the supervisor, then the accept loop, then saves the store. The
tasks of open connections are never joined: they die with the runtime.

## Modules

| Module | Models | Checked by |
| --- | --- | --- |
| `ChildSupervisor` | the supervisor's task, the child, the polling of the process table | `MCSession`, as a part of `Session` |
| `Session` (extends `ChildSupervisor`) | `run_child` / `run_proxy_only`, the interface's exits, the accept loop, recording, saving | `MCSession` (two configurations) |
| `Session_proofs` | proofs about both | - |
| `Delivery` | what a relay of a body promises (abstract) | through `BodyRelay` |
| `BodyRelay` | `forward_known_body`, `forward_response_body`, `push_capture` | `MCBodyRelay` |
| `Preview` (extends `BodyRelay`) | the preview of a captured body in chunks: `body_preview`, `decode_chunked` | `MCBodyRelay` |
| `BodyRelay_proofs` | proofs about both, with the refinement | - |
| `Exchange` | one connection: `handle_client` to `error_entry` | `MCExchange` (two configurations) |
| `Connection` (extends `Exchange`) | what goes through a tunnel, and what is read along with a header | `MCExchange` |
| `Exchange_proofs` | proofs about both | - |
| `H2Stream` | one HTTP/2 stream: `handle_h2_stream`, `try_h2_stream`, `send_h2_error` | `MCH2Stream` |
| `H2Stream_proofs` | proofs about it | - |
| `Interface` | `run_loop`, the key handlers, the filter and its list, the store they look at | `MCInterface` |
| `Interface_proofs` | proofs about it | - |
| `FilterEditor` | the line of the filter editor: text, cursor, view, suggestions, and the index of hosts, statuses and content types | `MCFilterEditor` |
| `Logs` | `ChildLogStore`, the readers that fill it, the interface that copies it | `MCLogs` |
| `Authority` | `LocalAuthority` on disk: load, create, replace, remove, by several processes | `MCAuthority` |
| `Authority_proofs` | proofs about it | - |
| `Launcher` | the launcher's form, its actions on the authority, the list of launch options | `MCLauncher` |
| `Forms_proofs` | proofs about `Launcher` and `FilterEditor` | - |
| `Tracking` | `ProcessTracker` above a process table: baseline, descendants, matches | `MCTracking` |
| `Process_proofs` | proofs about `Logs` and `Tracking` | - |

Definitions named *Mutant* are faulty versions of an operation. They are not part of any
specification; each one shows that a property would notice that fault.

### ChildSupervisor

`pc` is the position in `child_supervisor`: `wait` is the first `select!`, `grace` and
`killed` are inside `terminate_child`, `snapshot`, `judge` and `sleep` are the loop of
`wait_for_quiet_after_exit` under the second `select!`. `control` is the oneshot channel
and `rxDone` says that its receiver has completed; polling it again panics (`Repoll`).
Time exists only as the units between polls: `Sleep(d)` lets `d` of them pass, because a
poll may be slow, and `quiet` counts them from the first quiet poll up to `Settle`. `calm`
is a history variable that measures the same time from the polls themselves. Which
processes belong to the application is the set `tracked`, which changes at will; a relative
that is reparented out of sight has left that set. Every system call that the code checks
may fail (`Fail`), and `Fail` leaves the flag set, as the `?` in the code does.

No run checks this module alone: those of `Session`, in which the task runs, check its properties.

### Session

`main` is the position of the main task: `tui` while the interface runs, then `join`,
`stop`, `save`, `write`. `Leave` joins what the interface returned with what `run_child`
sends to the supervisor. Exchanges are tasks that end with an entry or without one, at any
time until the main task ends. `WriteFile` may fail and leave a part of the file. The
configuration `MCSessionTerminate` looks at a promise of the documentation that the code
does not keep; it is listed in `PROJECT.json` with the lines.

### BodyRelay and Delivery

A byte is its position in what the sender sends, so that losing, repeating or reordering
bytes shows. `initial` bytes came with the header; `ForwardRead` takes any number of the
bytes that are there, up to the buffer and to what remains. Both functions of the code
have the same shape and are one model: `length = Close` is the `None` branch of
`forward_response_body`, a number is `forward_known_body` and the `Some` branch. A write
may fail after any part of its chunk.

### Preview

A relayed body that came in chunks is kept as it was on the wire, and `decode_chunked` takes it
apart only to show it. `message` is what the sender means to send, `Wire` its bytes (as their
ASCII codes), and `Captured` the ones that `BodyRelay` kept. So every capture that the relay can
make of a message goes through the decoder, under every limit of the preview: cut inside a size,
inside a line ending, inside data, between chunks, in front of the last one. Sizes have decimal
digits only, and lines have no white space, but an extension is any bytes: a line that is not
UTF-8 (`Utf8`) fails. `body_preview` shows `N/A` where nothing was forwarded, and decodes otherwise. A content encoding is decoded by `flate2` and is left
out. The loop is a recursive function of the number of its turns (`Turns`): a turn that goes on
has read at least a byte, so as many turns as there are bytes are enough.

### Exchange

One client, one upstream server, both free to send, stall and close. Bodies are counted in
pieces: how a piece is copied is `BodyRelay`'s matter, and what `BodyRelay` proves is what
this module uses (pieces arrive in order, no more than announced, and a complete relay was
complete). `pc` is the position in the code, `entry` what `record_entry` got, `own` the
response of the proxy's own, `head` the upstream header that went to the client. The task
of an HTTP/2 connection ends here without an entry: its streams have entries of their own.
With inspection on there is always an authority (`prepare_authority`), so the branch for a
missing one (`server.rs` 190-210) cannot be reached and is left out. Interim (1xx)
responses are not modelled: the code takes them for final ones.

### Connection

Each step of `Connection` is a step of `Exchange`, or leaves the variables of `Exchange` alone;
so what is proved of `Exchange` holds here, and the runs check `Connection`. A direction of a tunnel
counts the pieces that its side has `sent`, those that were read with a header and dropped
(`lost`), those that were read with one and written on (`first`), all that was written on
(`passed`), and whether its end was passed on (`done`). `copy_bidirectional` belongs to tokio and
is modelled as its documentation describes it: the directions are independent, it returns when
both are done, or with an error and without its counts. The client may send before it has the
answer to CONNECT or to its upgrade, which is where pieces are lost.

### H2Stream

The task that relays one stream, with both peers. A body is counted in pieces, one for each
chunk that `data()` returns. `asked` and `passed` are the request on the client's side and on
the server's, `answer` and `given` the response the other way, each with a mark that says
whether it has ended. The task passes the whole request before it looks at the response,
as the code does; it has no timeouts, so it waits for as long as a peer does. What the
`h2` library does is assumed: `data()` returns what has arrived, then fails if the stream
was reset, then is over if it has ended; sending to a peer that has reset the stream fails
from some time on; a stream that is dropped before its end is reset. Flow control is the
library's. Trailers are dropped by the code and have no place in the model. A server that
answers early and then resets the request with `NO_ERROR`, as HTTP/2 allows, makes the code
fail and lose the answer: the model shows this as `RequestFails`.

### Interface

`pc` is the position in `run_loop`: `check` (drain the events, look at the flag), `draw`
(copy store and logs, draw), `key` (poll for up to 100 ms). What a key acts on is the copy in
`frame`, while `store` and `lines` go on growing; only the suggestions of the filter editor
are refreshed from the store before a key is handled. `selected` counts rows from the top of
the list, which the store keeps in the order of arrival: captures go to its end, and only a
filter, or clearing the session, moves the entries above a row. `mark` is a history variable
that holds the entry the user sees highlighted. `Filtered` picks the places of the entries that
the filter keeps, in their order. Entries have a
host, filters are a host or everything, the logs are lengths. The scroll limit of the details
depends on the entry and the tab and is a parameter (`ScrollLimit`). Space changes the message
line only and is left out, as is the clipboard; the cursor inside the filter text is
`FilterEditor`'s.

### FilterEditor

The editor while it is open. A text is a sequence of characters, and `cursor` counts bytes as the
code does; `Bytes` gives each character its width, `Rank` its place in the order of strings.
`Lower` makes small letters of the ASCII ones. `index` holds the sorted vectors that `TrafficStore` keeps
of the hosts and content types, in small letters, and of the statuses, all filled by `insert_entry`
while the user types. Statuses are texts here, ordered as such: the code orders them as numbers and
sorts every offer again by its text (`sort_and_dedup`). `prefix_suggestions` finds its answer by
`partition_point` and stops at the first host that does not match, so an index that is out of
order would lose suggestions. `Beginning` keeps the values whose names begin with a prefix. `frame` is
what was drawn and from which entries; a key refreshes the editor before it acts. The keys of the
filter, the fixed values, operators, duration presets, aliases of content types, common statuses and
the entries are parameters. Where
`replace_range` would cut a character, `pc` becomes `panicked`.

### Logs

`lines`, `dropped` and `total` are the fields of `ChildLogStore`, whose lock makes `push` and
`snapshot` atomic; `written` is a history of everything that was pushed. `TlscopeLogStore` is
the same code.

### Authority

The files are `cert`, `key` and `marker`; a file holds the number of the authority it belongs to,
and 0 is the pair that the user put there. Each file operation is a step, so that other
processes and crashes (`Stop`) come between any two. `calm` is a history variable: no process
has crashed, failed or overlapped with another. It separates what holds always
(`ForeignPairIsKept`) from what the code keeps only in calm times (`CalmPairMatches`,
`CalmRemovalIsComplete`). The leaf cache is left out: two connections that miss it for one host
sign a leaf each, both are good, and the later one stays. A certificate of the user's without a
key is not among the initial states: the code takes it for none and writes its own over it
(`certificates/authority.rs` 51-58).

### Launcher

`screen`, `field` (`selected`), `editing`, `confirm_remove_ca`, `chosen` (`launch_selected`)
and `ca_trust_status` are the fields of `LauncherState`; `target` is what its text names.
`shown` is what the filter leaves: typing may remove options, deleting may bring some back,
and which ones is a choice. `alone` says that the list was opened by
`choose_launch_target_loop`, without a form. The authority's files are `cert`, `keys` and
`ours` (the marker) for each directory, and `roots` is the trust store. `Installed` is
what the launcher is told of it: off Windows nothing is asked and the answer is `not trusted`, and a
`certutil` that fails for any reason gives the same answer, or an error. So `not trusted` only says
that there is a certificate, and `StatusIsOfThisAuthority` asks no more of it. `load_or_create` and
`remove_created_files` are single steps that may fail at each of their writes; how they meet
other processes is `Authority`'s matter, and nothing but the launcher changes the files or
the store here. The toggles, the shortcuts and the completion of paths change nothing that
this state depends on.

### Tracking

`snapshot` is the process table: parent pid and whether the configuration matches.
`adopted` chooses the system: orphans are given a new parent (Unix) or keep the pid of the
one that is gone (Windows), and that pid may be given again, so that parents can form a
cycle. `mother`, `seen` and `reused` are history variables: who really started a process,
what was alive when the baseline was captured, and whether a pid was given twice. Where
orphans are adopted, what a child leaves behind is only found by its name; this is why
`ActiveIsTheApplication` asks for the parents in between to live. `Climbs` is the loop of
`is_descendant_of`: for each set of visited pids, the pids from which the climb still reaches
the ancestor.

## Runs and bounds

| Run | Bounds | Why they are enough |
| --- | --- | --- |
| `session` | 2 relatives, `Settle` = 3, 2 exchanges | a restart may overlap another process; 3 units separate first, middle and last quiet poll; one exchange is recorded before leaving and one after |
| `session_terminate` | the same | the counterexample is short |
| `body_relay` | up to 14 bytes, buffer 2, lengths 0, 2, 4 or unknown, captures of 0, 7 and 20; messages of no chunk, one and two | early bytes inside, at and past the length; the capture fills at and inside a chunk, and is whole; line endings with and without a carriage return, extensions that are text, with a character of two bytes, and one that is not, a line feed and a digit as data; every message may be sent and captured whole |
| `exchange` | bodies and tunnels of up to 2 pieces in each direction | one piece passed and one missing, lost or early, on both sides |
| `exchange_head` | the same | the counterexample is short |
| `h2_stream` | bodies of up to 3 pieces | none, one and several pieces missing when a peer resets |
| `interface` | 2 entries, 2 hosts, every text of the editor, 2 tabs, logs of 2 and 0 lines, a window of one suggestion | a list that grows under a selection, a filter that hides an entry, limits that differ between entries, tabs and logs |
| `filter_editor` | texts of up to 2 typed characters and 3 in all after a suggestion, opened with a filter of each kind, 2 entries with hosts, statuses and content types, 1 captured value offered (all of the fixed ones, and all statuses), an area of 2 columns, two characters of two bytes, one of them white space, one capital letter | a prefix shared by two hosts, in either case, more hosts than are offered, a status or type that comes between frame and key, several tokens, a view that begins and ends inside the text |
| `logs` | 2 streams of up to 3 lines and a failure each, logs of 0 and 2 lines | more is written than is kept, with and without room |
| `authority` | 2 processes, up to 3 authorities created | one process can overtake the other at every step, and crash |
| `launcher` | 3 files of 2 formats, 2 interchangeable directories, up to 2 authorities created | columns of one and two files, an authority that is replaced, a directory with and one without |
| `tracking` | 4 interchangeable pids, 5 processes | a process of before, a child, two generations below it, and a pid that is given again |

The bounds are the constants of the `.cfg` files and the definitions of the `MC` modules that they
name.

Deadlock is checked in the session runs, where the child, the clients or the user can always do
something or the specification has ended with a relative still changing; it is not checked in
the other runs, where everything may be over: bodies sent and connections closed, the interface
left, an editor that has panicked, the logs' readers ended, the processes stopped, a program
launched.

### Fairness

* A task that can move is run (`WF` of its steps): tokio polls what is ready.
* `select!` takes a ready message in the end, though each branch may win a few times.
* SIGKILL ends the child. Nothing is assumed of SIGTERM, nor of the user.
* In `BodyRelay` the sender closes in the end, and in `Connection` the upstream server closes
  the connection of an exchange (the proxy always sends `Connection: close`) and the client sends
  the body it announced. The code has no timeouts, so without these the relay really waits for
  ever. The sides of a tunnel close when they like, or never: `EndsArePassedOn` starts from
  their ends.
* In `H2Stream` only the task is fair; `H2Settles` asks for peers that end or reset.
* In `Interface` the loop is fair: `poll` returns after 100 ms at the latest. No key is ever
  assumed. `FilterEditor`, `Logs`, `Authority`, `Launcher` and `Tracking` have no liveness properties and no
  fairness.

## Proofs

| Theorem | Says | Argument |
| --- | --- | --- |
| `SessionFlagIsHonest`, `SessionQuietIsObserved`, `SessionSignals` | the safety properties of the supervisor inside a session, for any `Procs` and `Settle` > 0 | `SupInv`: each position of `pc` fixes what is known of the child, the channel and the result; `quiet` never runs ahead of `calm` |
| `SessionTypeCorrect`, `SessionQuitDialog`, `SessionSuccess` | the safety properties of a session | the supervisor's invariant carried along, with what `main` and `choice` say about `control` |
| `RelayTypeCorrect`, `RelayCapture`, `RelayDelivers` | types, the capture, and the refinement of `Delivery` | what was written is the first bytes of the body, `remaining` is what is left of the length, the capture is their beginning |
| `PreviewHonest`, `PreviewRelays` | the preview shows the payload and says what it lacks, for any chunks, line ending, extension, limit and capture; what is proved of the relay holds in `Preview` | `WireHolds` says where each chunk stands on the wire. `DecodeInv`: after `n` turns the decoder holds `n` chunks, or has stopped at the limit, or has ended with all of them, or has failed because the capture is cut or a size line is not text (`TurnOnBadLine`; `LineIsText` reduces a line's text to its extension's); `TurnTakesChunk` and `TurnTakesLast` are its two kinds of turns, cut or whole |
| `ExchangeTypeCorrect`, `ExchangeEntryTellsWire`, `ExchangeNothingUnseen`, `ExchangeFailureIsTold`, `ExchangeResponseOrder` | the safety properties of an exchange, for bodies of any length | `ExchangeInv`: what is already written and recorded at each position; `FailInv`: a client that is there when its request is over, without a header of the upstream server, has been answered by the proxy alone; the steps of `Connection` map to steps of `Exchange` |
| `ConnectionTypeCorrect`, `ConnectionTunnelIsWhole` | types and the promise of a tunnel, for tunnels of any length | `TunnelInv`: a direction that is done has a sender that has ended and nothing waiting, and the counts of an entry without an error are those of two directions that are done |
| `H2CutIsNotTheEnd`, `H2EntryIsTrue` | the safety properties of an HTTP/2 stream, for bodies of any length | `H2Inv` adds what has been passed at each position, and that the client's half is open until the end |
| `InterfaceLogOffset`, `InterfaceLeaving` | the log's offset and the quit dialog, for logs and pages of any length | the frame's lengths never exceed the logs', and a dialog that is open when a key is read was drawn |
| `InterfaceHighlight`, `InterfaceDetailScroll` | what the highlight and the scrolled details are of, for any entries and filters | `ListInv`: the list of the frame is the beginning of the list of now (`FilteredGrows`: a capture adds at most one entry at the end of any filtered list), `mark` is the entry at `selected` in both, and the offset is inside the details of that entry |
| `InterfaceChosenIsVisible` | the chosen suggestion is in the window, for any hosts and window | `EditorInv`: every way to change the suggestions clamps the choice and then moves the window to it |
| `LogsKeepTheNewest`, `LogsSnapshotIsTrue` | what a log and its snapshot say, for any sizes, streams and outputs | pushed lines are only appended, so a snapshot that was true stays true |
| `AuthorityTypeCorrect` | the types of the authority's files, for any number of processes | one file changes in a step, to what its process made or to nothing |
| `AuthorityCalmPair`, `AuthorityCalmRemoval` | what is loaded matches and a removal is complete in calm times, for any number of processes and any history | `CalmInv`: at most one process is active; how far it has come says what the files are (`Stands`); with none active, both files are of one authority or neither is there, and what is there has a marker or is the user's (`Rest`) |
| `AuthorityKeepsForeignPair` | a pair of the user's is never touched, for any number of processes | while the pair is foreign there is no marker, so no process is at a step that writes or removes |
| `LauncherChosenIsListed` | there is an option behind Enter as long as the filter leaves one, for any folder | the choice is below the number of options whenever the list is on the screen; every way to filter or move clamps it |
| `LauncherStatus` | an authority that is called trusted is the one in the directory and in the store, and where none is said to be created TLScope has none of its own, on Windows and off it, for any directories and any number of authorities made | `CaInv`: whatever changes the certificate or the directory resets the status in the same step |
| `FilterEditorView` | the cursor's column and what is left of it, for any texts and areas | `ViewShows` computes the view column by column; only `Draw` makes one |
| `FilterEditorOffers` | behind `host:` all captured hosts with the prefix, in either case, sorted, for any entries in any order of arrival | `IndexInv`: the index is sorted and holds what is captured (`InsertSorts`). The order of texts is total, transitive and strict, and what begins with a prefix is one interval of it (`NotBeforePrefix`, `AfterPrefix`), so `partition_point` finds its start and the first host that does not match is its end (`FirstWithPrefix`) |
| `FilterEditorTab` | Tab takes what was drawn and touches nothing else | `ShownInv`: until an exchange is recorded, the editor is up to date and equal to its frame, so the refresh before the key changes nothing (`FreshStays`); offsets and places correspond in both directions (`CountOfOffset`, `OffsetsInSecond`) |
| `TrackingDescendants` | the climb finds exactly the descendants, in any table, with cycles and reused pids | `Climbs` is the least solution over sets of visited pids; the induction is on the finite set of pids that are not visited yet |
| `TrackingActive` | while no pid is given twice, what is taken for the application is exactly the child, what descends from it and what matches and is new | `HistoryInv`: as long as no pid was given twice, the parents in the table are the mothers of the history, or gone; what matches and was there before is in the baseline |
| `SessionSavesTheCaptured` | what was captured before the user left is saved | `MainStateInv` with what each position of `main` has already put into the file |
| `LauncherTypeCorrect`, `InterfaceTypeCorrect`, `TrackingTypeCorrect`, `FilterEditorTypeCorrect` | types; in `FilterEditor` also that the cursor never stands inside a character | parts of the invariants above |

Assumptions are those named in the modules (`SettleAssumption`, `RelayAssumption`,
`PreviewAssumption`, `ExchangeAssumption`, `ConnectionAssumption`, `H2Assumption`, `LogsAssumption`,
`TrackingAssumption`, `FilterEditorAssumption` and those of `Interface`, `Launcher` and
`Authority`). The type invariants are parts of the inductive invariants and are proved, not run.
Hardly any of the safety properties is inductive by itself: they do not say where the task
stands, so each proof adds what is true at each position of `pc`.

The prover has no induction over data: the induction theorems of its library take an operator
as a parameter. Where a definition recurs over numbers or sets (`Offsets`, `Beginning`, `sort_and_dedup`,
`Joins`, `Value`, `Turns`, `Climbs`), it is a recursive function; that such a function exists is proved once
(`StepsDefine`, or a least solution for `Climbs`), and what it gives follows from the least
number, or the smallest set, for which it would be wrong. A filtered list is not recursive at all:
its places are ordered by how many are before them (`Rank`, `Nth`).

Only model-checked are the liveness properties (`LeavingEnds`, `SessionEndsWithItsChild`,
`RelayEnds`, `ExchangeEnds`, `EndsArePassedOn`, `EndsWithChild`, `H2Settles`), whose fairness is
out of the prover's reach. Every safety property that a passing run checks has a theorem.

## Where the code and its documentation differ

Two differences are runs that TLC finds violated (`session_terminate`, `exchange_head`);
`PROJECT.json` quotes both sides. These others were met while modelling and are not runs:

* One failed `accept()` ends the accept loop without a word (`proxy/server.rs` 101); its error
  comes back from `shutdown` and the `?` (`app.rs` 183) skips the save that `--save-session`
  promises (`docs/locales/en-US/README.md` 160).
* The authority's marker is written after its certificate and key (`certificates/authority.rs`
  85-93): after a start that stopped in between, `ca remove` removes nothing, though it
  "removes local CA files created by TLScope when confirmed" (the same README, 242).
* Space only keeps the message "captured" back (`tui/mod.rs` 66-70); the list goes on
  changing. The key table (`docs/locales/en-US/README.md` 285) says "pause or resume live
  updates".
* Esc goes to the request list from every screen (`tui/events.rs` 264-268, 303-306), not to
  "the previous screen" (the same file, 279), when logs or help were opened from the details.
* `visible_text` replaces the first byte of what it shows by `<` (`tui/filter.rs` 170): where the
  text is wider than its area and the first character shown has several bytes, `replace_range`
  panics. The run reaches this as `panicked`; `ViewFollowsCursor` asks that nothing else leads
  there.
* A filter that fills its area exactly has its cursor drawn on its last character, not behind it
  (`tui/filter.rs` 159-163).
* What a client sends behind the header of CONNECT, before it has the answer, is dropped: the
  call of `handle_connect` does not pass it on (`proxy/server.rs` 149). So is what comes behind
  the body of an upgrade (`proxy/http.rs` 156). `TunnelIsWhole` counts both as lost.
* A tunnel that ends with an error is recorded with sizes that leave out all that was copied
  before the error (`proxy/server.rs` 318-380, 512-560).
* Tab in the filter editor accepts the suggestion that is at the selected place now, which
  may not be the one that was drawn, when an exchange with another host, status or content type
  was recorded since (`tui/events.rs` 81-82).
* An exchange that fails after the upstream header was forwarded writes a 502 head into the
  response that has begun (`proxy/server.rs` 415): the client may read it as more of the body.
* The launcher says "CA exists but is not trusted" (`interactive.rs` 731) of a trusted authority
  off Windows, where nothing is asked, and whenever `certutil` fails (`certificates/trust_store.rs`
  11, 15-17); off Windows its installation ends in an error (36-40).
* A start that is stopped between writing the certificate and the key of an authority it
  replaces leaves a pair that does not match and that later starts load
  (`certificates/authority.rs` 85-119).
* While the filter editor shows an error, its popup draws one row less than the window that
  `keep_selected_visible` assumes (`tui/layout.rs` 139); `ChosenIsVisible` excludes it.
* Removing an authority that TLScope did not create leaves it where it is and sets the trust
  status to "not created" (`interactive.rs` 854-857).
* Enter in the list of launch options replaces the form's target by the file also when the
  launch then fails, and Esc does not bring it back (`interactive.rs` 563-577).

## Plan

Done: `ChildSupervisor`, `Session`, `BodyRelay` with `Delivery` and `Preview`, `Exchange` with
`Connection`, `H2Stream`, `Interface`, `FilterEditor`, `Logs`, `Authority`, `Launcher`, `Tracking`,
and the proofs above. To come, in this order:

1. One promise for `Exchange` and `H2Stream` (what a recorded exchange says of the wire) as an
   abstract specification that both implement.
2. The loop that accepts HTTP/2 streams (`handle_h2_connection`) around `H2Stream`.
3. The slot of the active log of `diagnostics/logs.rs`, beside the ring that `Logs` models.

## What is not modelled

Drawing and formatting, the parsing of headers and URLs as text, TLS and HTTP/2 as
protocols (they belong to rustls and h2), what `certutil` does in the trust store, command line
definitions, and the components listed as not modelled in `PROJECT.json`. The formats of exports,
the redaction of header values, the cleaning of output lines and the completion of paths map a
text to a text and keep no state.

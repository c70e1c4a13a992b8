# deco in TLA+

A verification development for **deco**, a terminal editor in Rust: TLA+ modules
translated from its source, TLC configurations that check them on small
instances, and proofs that TLAPS checks. All paths below are paths of the
repository; line numbers are those of the modelled commit.

- [The system](#the-system)
- [What is modelled, and where](#what-is-modelled-and-where)
- [The runs](#the-runs)
- [What the code does against what it says](#what-the-code-does-against-what-it-says)
- [Fairness](#fairness)
- [The proofs](#the-proofs)
- [Limits](#limits)
- [Plan](#plan)
- [Checking it](#checking-it)

## The system

deco is one process with one thread that does everything the user sees
(`crates/deco-tui/src/app.rs`, `Driver::key` for a key, `Driver::idle` for an
interval without one), around it threads that only read (a language server's two
outputs, an extension host's output, a remote connection, a terminal's pty) or
run Git, and child processes. Nothing is locked but a log; what is concurrent is
the order of messages, of answers, and of other programs' writes.

| Component | State | Operations | Talks to | What is hard |
|---|---|---|---|---|
| **LSP client** `deco-lsp/client.rs` | phase, next id, pending table, queue of the handshake | initialize, request, notify, cancel, shutdown, exit, handle a message | returns messages and events to the supervisor | replies in any order, cancellations that cross them, requests during the handshake, requests of the server |
| **Supervisor** `deco-lsp/supervisor.rs` | process, client, sync, diagnostics | did_open, did_change, requests, poll, stop | frontend (calls, updates), process | a server that dies, a write that fails, answers of a dead server |
| **Server process** `deco-lsp/process.rs` | child, stdin, two reading threads, channel, log of stderr | spawn, send, poll, stop, drop | operating system | full pipes, death during a call, threads that outlive it |
| **Frontend LSP** `deco-tui/lsp.rs` | the document the server has, the text last sent, one slot for each kind of request | attach, changed, saved, poll, requests | session, supervisor | which document and which text an answer is about |
| **Document** `deco-editor/document.rs` | text, history, journal of unsent edits | apply, undo, reload, take_sync_changes | frontend LSP | journal and text apart |
| **Editing model** `deco-core` | rope, selections, undo and redo stacks | transactions and their inverses, cursors that merge, coalescing, groups | document | several changes in one transaction that move each other; long sequences of edits and undos |
| **Commands** `deco-editor/commands.rs` | | typing, deleting, lines, comments, motions, matches | document, view | many cursors at once, a command pressed twice |
| **Session** `deco-editor/session.rs` | tabs, views, prompts, markers | open, switch, close, revert, reload, save bookkeeping, workspace edits | frontend | a file reached by several ways, several documents in one edit |
| **Disk watch** `deco-tui/disk.rs`, `app.rs` | last known and last reported state of each file, armed save | remember, check, may_overwrite | file system, session | other programs writing between any two calls |
| **Source control** `deco-tui/scm.rs`, `deco-scm` | threads or one worker, what waits for it, the status shown, the committed texts | status, checkout, compare, stage, commit, discard | Git, remote connection, session | results that are late, a worktree that changes under open files |
| **Extension hosts** `deco-tui/extensions.rs`, `deco-ext`, `extension-host` | a host for each extension, queued commands, the question on screen, decisions | activate, execute, consent, revoke, mediated calls | Node child process, session (prompts) | a host that dies while a question or a command waits, a question that outlives its prompt |
| **Remote** `deco-remote` | connection, files served, forwarded ports, ptys | request, serve, resolve | transport | silence, a connection that closes in the middle |
| **Terminal** `deco-term`, `deco-tui/terminal.rs` | screen, pty, reader | input, resize, close | shell | a reader that outlives its panel |
| **File tree** `deco-editor/explorer.rs`, `files.rs`, `deco-remote/file_ops.rs` | listings, expanded folders, selection, undo of operations | expand, reveal, refresh, create, rename, delete, undo | file system, session (tabs) | a listing that is older than the disk, tabs whose file moves |
| **Keymap** `deco-keymap` | chord state | resolve | driver | the first key of a chord under a changed context |
| **Prompts, find, completion list** | lists | navigation | driver | a list computed from something that has changed |
| **Settings, encodings, highlighting, themes, start-up, GUI, tasks** | little or none | parsing, lookup, drawing | | sequential, data only |

What makes each of them correct, in one line:

- *client*: the server never sees a request before the handshake or after the
  shutdown; every reply is used once, for what it was asked for; every request
  of the server is answered.
- *synchronisation*: the server's copy is a text the editor had, and after each
  key the one on screen; what is asked or saved is about the server's text.
- *answers*: an answer acts on what it was computed from, or not at all.
- *process*: no call hangs on a server that works, nothing outlives a stop, and
  the last words of a dead server are read.
- *files*: no write of another program is lost without the user having been told
  of exactly that write; unsaved work is lost by nothing but the user's own
  commands; a clean document shows its file or is about to be read again.
- *extensions*: a request of a host is answered once and lost never; no
  capability is used against the user's last word; a queued command is run in
  order or goes with its host; one question at a time, and it can be answered.
- *source control*: a request is answered once; the status catches up with what
  was noticed; the gutter compares with the commit the status is of.
- *editing model and commands*: an inverse takes its edit back; a server that
  replays the journal has the text on screen; cursors stay apart and each follows
  what is typed at it; a second press takes the first back.
- *history*: an undo fits the text it meets and brings back one the document had;
  typing that was interrupted is never joined; a shared edit is taken back in
  every document that still has it on top.
- *file tree*: no operation takes away an entry nobody asked about; an undo is of
  the entry it was recorded for; tabs go with their files; the rows come to be
  the entries.

## What is modelled, and where

| Module | Models | State, in the code's words |
|---|---|---|
| `LspClient` | `client.rs`, whole | `state`, `nextId`, `pending`, `queued`, `initializeId`, `shutdownId` are the fields of `Client`; `wire` is everything its calls returned to be written, `delivered` the events with an id, `asked` the requests of the server |
| `RequestTable` | what a conversation promises of each request | `session`, and what has become of each id: held, awaited, cancelled, delivered, over |
| `LspSync` | `sync.rs`; `attach`, `sync_open`, `changed`, `saved`, `close_deleted` of `lsp.rs`; the journal of `document.rs`; the keys and polls of `app.rs` that reach them | `text`, `language`, `journal` of each document, `shown`; `running`, `open`, `sent`, `wholeNext` of `Lsp`; `version` of `DocumentSync`; the pipe (`channel`), the server's own `copy`; `stage`, how far a key has been handled; `replaced` is history: the open document was given another text while it was not on screen |
| `LspAnswers` | the requests of `lsp.rs`, their answers, the version check of `workspace.rs` | `slot` is one field of `Lsp` for each kind (`hover_request`, `rename_request`, ...), `symbolsFor` the path beside one of them, `pending` the client's table with what each request is about |
| `LspProcess` | `process.rs`, and the poll, writes and stop of `supervisor.rs` | `pc` is where the editor's thread is; the three pipes; the two threads; `inbox` is the channel, `logged` the length of the log |
| `DiskWatch` | `disk.rs`; open, save, save-as, revert, auto-save and the reload after Git in `app.rs` | `known`, `reported`, `armed` of `DiskWatch`; `tab`, the documents; `disk`, the files; `pc`, the handler between two of its file-system calls; `base`, `refused`, `between` and `apart` are history: what a document's text came from, what the user was last told, whether a save was made since, and whose record is of another text |
| `Extensions` | `extensions.rs`, `connection.rs` and the broker of `capability.rs`; at the other end `bootstrap.js`, `rpc.js`, `vscode.js` | `host` is `Hosts::running` with each broker's grants, `asking` and `permissions` the fields of `Hosts`, `prompt` the kind of `Session::prompt`; `turn` and `drain` are the local variables of `poll` and `poll_one`; `proc` the Node processes; `toHost`, `toEditor` the pipes; `said` and `misled` are history: the user's last word on each capability, and the requests another's reply was taken for |
| `SourceControl` | `scm.rs`; what `session.rs` keeps of its answers and its prompts; the re-reading of open files in `app.rs` | `jobs` and `pending` are the threads or the worker of `Scm` and what waits for it, `alive` and `unavailable` whether it still is; `wanted`, `shown`, `committed`, `reread` the session's fields; `head`, `work`, `era` the repository, `owed`, `noticed`, `recent`, `returned` history: what the user asked, what the session saw change, and which committed texts were read before `HEAD` went to another commit and came back |
| `History` | `history.rs`; `apply_workspace_edit`, `undo_group`, `take_group`, reloads and tabs of `session.rs` | `undo`, `redo` are the two stacks of each document, an entry with its steps, kind, group and two selections; `stops`, `shared` and `lately` (whether the caret moved, or a paste was made, just now) are history |
| `Buffer` | `edit.rs`, `Buffer::apply`, the journal of `document.rs` | none: operators on texts, changes and transactions |
| `Lines` | the line and column arithmetic of `buffer.rs`, the words of `movement.rs`, the literal search of `search.rs` | none: operators |
| `Selections` | `selection.rs`, and the lines cursors touch | none: operators on sets of cursors |
| `Edits` | `commands.rs` from typing to matches, `Session::apply_edits` | `text`, `cursors`, `primary`; `typed` is `Document::auto_whitespace`; `journal` and the server's copy; `inverse` is what the last `Buffer::apply` returned |
| `Explorer` | `explorer.rs` | none: a tree is a value (`listings`, `expanded`, `selected`, `revealing`), each method an operator |
| `FileTree` | the operations of `files.rs` as `session.rs` decides on them, `app.rs` carries them out and `file_ops.rs` does them; the tabs and the tree they change; the passes that read again | `disk`; `tree`, `from` (where the next pass starts); `undos` is `explorer_undo`; `tabs`, the path of each tab and the file its text is of; `asked`, what the question before a delete names |
| `MC...` | | instances of the module they extend |
| `..._proofs` | | theorems about the module they extend ([below](#the-proofs)) |

Correspondence of actions: every action carries the name of the function or
match arm it translates, or says in its comment which one it is; `PROJECT.json`
gives the lines of each definition. Some notes on the larger steps:

- A key in `LspSync` goes through the stages `typed` (a character that may
  trigger completion), `attach` and `changed`, as `Driver::key` does; server and
  pipe steps interleave between them. A rename, a code action or the disk check
  edits inside the poll and calls `changed` there (`PollEdits`); the answer to a
  formatting request edits and does not (`AnswerEdits`), and `behind` remembers it.
- A document's edits are pairs of texts: the text a range was computed against
  and the text it gives. `Apply` turns an edit of a text the server does not have
  into `Garbage`. That is what "every range means the text the previous one left"
  (`docs/language-servers.md:235`) amounts to, without positions. Where the code
  itself gives an open document another text and loses its journal (`replaced`), the
  ranges that follow leave a copy that is `Misread` instead, and it stays so until
  the text is sent whole: what the server does with them is known to be wrong, and
  everything else is still judged.
- `LspAnswers` counts texts by edits. A request carries, as history, the text the
  server held when it was asked; the code sees an id and a version.
- `LspProcess` lets a deadline pass at any moment of a bounded wait, the server
  exit at any moment, and a process it started keep both output pipes.
- In `DiskWatch` every write has a new stamp. A stamp is a modification time and
  a size, so this excludes what `docs/tabs.md:116` excludes: a change that keeps
  both, or one that is made and undone between two checks. `SaveCheck(t, FALSE)`
  is auto-save and also a file's turn in `SaveAll`, which saves one file after
  another. The pass over all open files is one check for each file, in any
  order. The throttle of one second is left out: a check may come at any time
  without a key. Another program may write between any two calls of a handler, and
  `raced` in `pc` says that it did. Git writes and the open files are read again in
  one step. An undo after a reload is an edit; opening over an unedited preview is a
  `Close` and an open.
- A record of `DiskWatch` is per path, and made in many places. `apart` marks the
  documents on a path whose record was made, or not made, without them: the file was
  recorded or reported for another document, or recorded while the document went on
  showing what it showed; nothing was recorded; or another program wrote between the
  read or the write and the record. The mark goes with the next record that is of
  the document's own text.
- `Extensions` takes the arms of `poll_one`'s loop one at a time, so that
  processes write, exit and read in between, and what follows the loop as one
  action in the order of the code: activation, the queue, the time-out, the
  question, the stop. The pipe to a host holds `PipeSize` messages; a write to a
  full one waits, and the editor's thread with it (`Room`), until the host reads or
  ends. A message carries its process, which the code does not send. A request is a
  sequence of capabilities; what each covers is a constant. The list of decisions
  and the choice from it are one step.
- In `SourceControl` the two shapes of `Scm` are one set of actions with a
  constant mode: a local session gives every status, comparison and query a
  thread and writes inside the key; a remote one has one worker and a place for
  one waiting request of each sort. A poll is three steps in the order of
  `Scm::poll` and what `app.rs` does after it, between which Git and other
  programs go on. `era` counts the times the checked-out commit changed, so that
  a status can be told from one taken before.
- `History` numbers texts as they come about. A transaction is a pair of numbers
  and makes `Garbled` of any other text; an entry of typing is a sequence of
  them. Whether two keys were close enough to be one step is a choice.
  A paste is an edit of the kind of typing, as the code makes it; a motion ends a
  group and the other ways to move the caret (`Jump`) do not.
- `Edits` has real texts, short ones: letters, the blank, the line break, a pair of
  brackets that close themselves, and the comment tokens of one language, each of
  one character. A position is an offset; what line and column clamp to is computed
  from it (`At`, `Column`). Every command is one action, and a run has at most
  `MaxEdits` of them with one cursor, one fewer for each further cursor.
- In `FileTree` a key is one step, with everything `app.rs` does after it: the
  file operation, the tabs, the listings it makes invalid and the reading of
  those that are wanted. Each creation and each write has a moment of its own as
  its stamp; a folder's stamp is that of the last entry that came or went.
- An error of the file system other than a text the encoding cannot hold ends the
  editor and is left out of `save`.

`LspClient` implements `RequestTable` (property `RequestTableKept`): `StatusOf`
reads the state of a request off the queue, the pending table, the wire and what
was delivered, and every step of the client is a step of the table or none.

The other modules are separate, each with the part of the neighbour's state it needs:
`LspSync` assumes of the client what `LspClient` shows (messages are written in
the order of the calls), `LspAnswers` assumes what both show (one answer for
each id; the server holds `sent`), and `LspProcess` what none of them looks at.
Through the supervisor the client is always `Ready` before the frontend can ask
for anything, so the queue of the handshake is exercised in `LspClient` only; it
is the documented contract of `Client::request`.

`Edits` extends `Selections`, `Lines` and `Buffer`; `FileTree` extends `Explorer`.
The journal is in two modules: `Edits` shows that its changes, replayed one by
one, are the edit; `LspSync` shows when it is sent, dropped or lost.

## The runs

Each run is one question. Deadlock is checked in `History` and `Edits`; in the
others an editor that is told nothing more, a server that has exited, and a
counter at its bound are states in which the system may stop. Liveness is stated
where something must happen. The types of a module's state are the first conjunct
of its first property (`TypeOK`, `ProcessTypeOK`), except in `Edits`, whose state is values of the
operators it is built from.

| Run | Properties | Instance | Distinct states |
|---|---|---|---|
| `LspClient` | `HandshakeFirst`, `RequestsInOrder`, `NothingAfterShutdown`, `EveryRequestAnswered`, `RequestTableKept` | 2 methods, 3 ids, 1 notification, 2 requests of the server | 0.34 M |
| `LspSync` | `NeverGarbage`, `ServerHoldsWhatWasSent`, `KeysAreSent`, `RequestsAboutServerText` | 2 documents, 3 texts, 2 languages, 3 kinds of sync, a journal of 1 edit, 3 versions | 1.4 M |
| `LspAnswers` | `SlotsMatchRequests`, `CurrentVersionIsCurrentText` | 2 documents, 2 edits each, 4 ids, 2 pending, 2 servers | 1.8 M |
| `LspProcess` | `NothingLeftBehind`, `TailIsComplete`, `CallsReturn` | pipes of 1, 2 notifications, 3 outputs, a child that keeps both pipes | 48 k |
| `DiskWatch` | `CleanIsWatched`, `NoLostWrite`, `RefusalsAreForeign`, `UnsavedWorkKept`, `FilesOpenOnce` | 2 files, 2 tabs, 4 writes or edits | 0.84 M |
| `DiskWatchDiscard` | `GitKeepsUnsavedWork`, violated | the same | |
| `Extensions` | `EachRequestHeldOnce`, `UsesHaveLeave` | 2 extensions, 2 commands, 2 capabilities of which one covers the other, pipes of 2 messages, 1 request of each process, 2 commands run | 0.26 M |
| `ExtensionsLive` | `CommandsAreSettled`, `PollReturns` | 1 extension that logs without end and reads its input, pipes of 1 message, 2 requests, 1 command run | 23 k |
| `SourceControl` | `GutterMatchesStatus`, `RequestsAccounted`, `StatusCatchesUp`, `RequestsSettled` | a local, a remote and a rootless session; 1 file; 1 change of the repository and the writes asked for; 1 failure | 0.29 M |
| `History` | `HistoriesFit`, `StopsAreKept`, `TimelineKept`, `SharedMovesTogether` | 2 documents, histories of 2 steps, 4 texts, 2 shared edits | 0.78 M |
| `Edits` | `JournalReplays`, `CursorsApart`, `InverseRestores`, `CaretsFollow`, `TakenBack` | 3 texts of 0 to 3 characters, 3 things typed, 12 batches of a server, 2 edits or 1 edit with 2 cursors | 32 k |
| `FileTree` | `NothingOverwritten`, `TabsFollowFiles`, `NoGhostRows`, `TreeCatchesUp` | a folder, a file, or two files at the start; 4 paths, 2 tabs, up to 3 changes of the disk, passes of 1 directory | 0.15 M |

Why the bounds are enough for the cases that matter:

- *LspClient*: three ids are the handshake and two requests on either side of it,
  or one request and the shutdown: what an order, a cancellation of one of two and
  a crossing reply need. Two requests of the server, in any phase, let one be
  answered at once while the editor still owes the answer to an `applyEdit`.
- *LspSync*: with three texts an edit can return to an earlier text, which is
  where "nothing has changed" and "nothing is recorded" differ; a journal of one
  edit overflows at the second; two languages move a document from one server to
  another and back. Documents, texts and languages are told apart only by
  equality, so the model is symmetric in all three.
- *LspAnswers*: two edits, two tabs, and a second server let an answer outlive an
  edit, a switch and a return, and its server; four ids include one that both
  servers have used.
- *LspProcess*: with pipes of one message every writer can meet a full pipe.
- *DiskWatch*: one conflict is an open, an edit, a foreign write, a refused save
  and a second foreign write before the confirmation; four writes or edits allow
  it, with a save of another file in between. They also allow a file that is opened
  twice, one that is saved under the name of another, and a writer that is still at
  work while a handler reads. Files and tabs are symmetric.

- *Extensions*: two commands start a host, kill it and start it again, or start
  two hosts, whose questions compete; a call that needs the smaller capability
  and then the larger one is asked about twice, and a decision can be withdrawn
  or the other host polled in between. A poll handles at most two events instead
  of 64: a second request in the same drain, and a drain that ends with more to
  read, need no more. A pipe of two messages is full with what a start and a command
  put in it. In `ExtensionsLive` the two requests of one process meet in one
  drain. There is no symmetry: hosts are polled in the order of their names.
- *SourceControl*: one change of the repository by another program beside the
  write the user asked for lets a commit be left, a status be late by it, and an
  answer cross it; one failure is a run that fails or a worker that stops, at any
  place. One file has every state of its committed text.
- *History*: with histories of two steps the third edit pushes the first out;
  four texts let typing be joined, undone, done again differently and pushed out,
  and two shared edits can lie on top of each other in different orders in two
  documents.
- *Edits*: the texts have an empty line, an indented line, a commented line and a
  last line without a break; what a command leaves is the input of the next. Two
  cursors meet, touch, and lie on one line or two. A text of three characters is
  the longest a key is pressed on; what it makes may be twice as long. A journal
  of three changes overflows at the fourth.
- *FileTree*: an operation, its undo and one change of another program before or
  between them; or two operations and an undo that finds the older one; a folder
  and another folder of its name. `OthersUntil` lets the others change the disk
  early only, so that the last change is always deco's. With two files at the start a
  rename or its undo can meet another entry, and with two tabs another tab's path.

Each property has been shown to depend on the code: for each there is an operator
under *Faults* in its module, a variant of one action with a plausible mistake,
with which TLC finds it violated.

## What the code does against what it says

Some promises of the documentation, and of comments in the code, the code does not
keep. Each is stated as a property of the module below, next to the weaker one that
holds, and TLC finds it violated when it takes the place of the properties in the
configuration named. `DiskWatchDiscard` is kept as a run; `ExtensionsPipe.cfg` and
`ExtensionsQuestion.cfg` are configurations of their own because they state liveness.

| Property, configuration | The promise | What happens | What holds instead |
|---|---|---|---|
| `GitKeepsUnsavedWork`, `DiskWatchDiscard` | `docs/tabs.md:112` unsaved changes are kept; `app.rs:1557` all buffers are clean | a discard asks about its own file only (`session.rs:5304`), then every open file is read again, unsaved or not (`app.rs:1561`, `session.rs:4038`) | `UnsavedWorkKept` |
| `OnlyExitFollowsShutdown`, `LspClient` | `client.rs:53` after `shutdown` only `exit` | `cancel` does not look at the state (`client.rs:337`). `Supervisor::stop` writes the two in one call (`supervisor.rs:1014`), so no cancellation falls between them today | `NothingAfterShutdown`: besides `exit`, only cancellations of what was asked before |
| `RangesMeanTheirText`, `LspSync` | `docs/language-servers.md:235` | a checkout replaces a file that is open on the server but not on screen together with its journal (`session.rs:4038`); its next edits are ranges of a text the server does not have (`lsp.rs:1445`) | `NeverGarbage`: nothing else makes such ranges |
| `TokensDescribeTheirText`, `LspAnswers` | `docs/language-servers.md:124` tokens describe the text they were computed from | no second request is raised while one is outstanding (`lsp.rs:1123`), and its answer is always used (`lsp.rs:1640`) | |
| `EditsMeetTheirText`, `LspAnswers` | `docs/language-servers.md:176` an edit for a version that is not current is refused | a document the server does not have open is not checked; one that was opened again is at version one again (`workspace.rs:143`); the edit of a formatting answer is not in the version yet (`lsp.rs:1673`) | `CurrentVersionIsCurrentText` |
| `SavesAskFirst`, `DiskWatch` | `docs/tabs.md:113` a save over a changed file asks | opening a file that is open records its new state beside the old text (`app.rs:1369`); a definition in another file is opened with no record, so the record is made later, of what is there by then (`lsp.rs:1779`); and another program may write between the look and the save (`app.rs:2193`) | `NoLostWrite` |
| `SaveAsAsksFirst`, `DiskWatch` | the same | Save As writes wherever it is told (`app.rs:1000`), to the document's own name too | |
| `ConfirmedAtOnce`, `DiskWatch` | `disk.rs:103` confirmed with no other save in between | an auto-save, Save All or Save As leaves the confirmation armed (`app.rs:811`, `app.rs:1000`) | `NoLostWrite`: it is still of exactly the state that was refused |
| `GitIsNotForeign`, `DiskWatch` | `app.rs:767` a save after a checkout is not refused as another program's | the record is renewed where a remote checkout ends, and there only for a local session (`app.rs:772`); where a local one ends it is not (`app.rs:1472`) | `RefusalsAreForeign`: never for what deco itself wrote |
| `PollReturns`, `ExtensionsPipe` | `extensions.rs:772` a poll ends however much a host writes | a reply is written to the host inside the poll (`extensions.rs:832`) with a blocking `write_all` (`connection.rs:370`): a host that does not read its input holds the editor | the same of hosts that read (`ExtensionsLive`) |
| `QuestionsComeBack`, `ExtensionsQuestion` | `session.rs:2686` a question that was closed is opened again | nothing opens it (`extensions.rs:1078`): the extension waits for ever, and every later question of any extension is refused | `EachRequestHeldOnce`: the request is still held |
| `RepliesFindTheirRequests`, `Extensions` | `extensions.rs:948` of a host that has exited there is no request left to answer | its question stays on the screen; the extension's next host is given the decision and the reply (`extensions.rs:1086`), which it takes for that of its own request of the same number (`rpc.js:66`) | `EachRequestHeldOnce`, which follows a request that was misled until its own reply |
| `GutterMatchesCommit`, `SourceControl` | `docs/git.md:38` a cached text is discarded when the commit changes | the texts are keyed on the commit a status names (`session.rs:5638`): one read while `HEAD` was elsewhere between two statuses is kept | `GutterMatchesStatus` |
| `CheckoutKeepsUnsavedWork`, `SourceControl` | `docs/git.md:109` a checkout is refused while a file has unsaved changes | a text typed while the worker checks out, or an answer of a server between the plan and the key, is replaced when the tabs are read again (`session.rs:5437`, `app.rs:1561`) | `UnsavedWorkKept` of `DiskWatch` |
| `CaretMovesStop`, `History` | `history.rs:117` a group ends when the cursor moves or the focus changes | a jump to a match or a line, selecting everything and switching tabs do not end it | `StopsAreKept` |
| `PastesAreSteps`, `History` | `history.rs:16` a paste is a step of its own | a paste is applied as typing is (`commands.rs:664`, `commands.rs:1235`) and joins it | `StopsAreKept` |
| `DeletesWhatItNamed`, `FileTree` | `docs/files.md:92` the confirmation names what goes | the answer removes the row that is selected by then (`session.rs:4510`, `session.rs:4673`), which a pass may have moved to another entry while the question was open | `NothingOverwritten`, for every other operation |

Read in the code; the models do what the code does:

- `Supervisor::poll`, documented never to block (`supervisor.rs:937`), answers
  the server with a blocking write on the editor's thread (`process.rs:342`):
  `Answer` waits for the pipe, and `CallsReturn` needs the fairness of the
  server's reading.
- An `activate` that fails is sent again in the same poll, because nothing is then
  outstanding (`extensions.rs:903`); the host answers `alreadyActive`
  (`bootstrap.js:88`) and becomes `Active`, "the extension's `activate` returned"
  (`extensions.rs:178`).
- A worker of a remote session that stops strands what waits for it without a
  report, and every later poll empties the view (`scm.rs:332`). A write that was
  done and reported as failed does not have the files read again. A committed text
  that could not be read is kept as "not in the commit" until the commit changes.
- An undo does not end a group of typing: type, make another step, undo it, type
  again soon, and the last joins the first.
- `delete_lines` (`commands.rs:1432`) of the last line and the one before it plans
  two changes that overlap, and nothing is deleted, where its comment says "Deletes
  every line any cursor touches"; cut has copied them by then.
- `move_lines` and `copy_lines` take everything between the first and the last
  line a cursor touches, the lines no cursor touches included. A selection that
  ends in column 0 is clamped when its lines come to the end of the text, and then
  touches fewer lines: moving back is another move.
- A line commented without a blank behind the token is uncommented, and commented
  again with one; the comment at the command says that pressing it twice restores
  the original.
- `auto_whitespace` is cleared by what is typed, but not by the commands on whole
  lines, by undo or by a server's edits; the blanks it names may be the user's own
  by then, and the next edit takes them (`commands.rs:960` says a stale entry has no
  effect). Between two brackets, Enter records the line of the closing one.
- After an edit at several cursors the first is the primary one, and a cursor
  whose edit changes nothing is gone (`commands.rs:946`).
- The stamp of a folder changes with every operation of deco's in it, so that an
  undo of its creation is refused after an undo within it, and the refused entry
  stays in front of all older ones (`session.rs:4970`).
- A rename takes the tabs along, but not what `DiskWatch` knows of the files, and
  a created file is opened without a record.
- A refresh forgets the listing of a folder that went only if no entry has its
  name: a folder that became a file and a folder again shows its old rows until the
  next pass (`explorer.rs:202`).
- A publication of diagnostics for a document that is not open is accepted
  whatever its version (`diagnostics.rs:190`), and shown when it is opened again.

## Fairness

- `LspClient`: an edit passed to the frontend is answered, because `Lsp::poll`
  answers it in the call that received it. Nothing is assumed of the server.
- `LspProcess`: the operating system runs the editor's thread and the two
  reading threads (weak fairness of each thread's next step). `WorkingSpec` adds
  a server that keeps reading its input and finishes what it writes, which
  `CallsReturn` needs. A process the server
  leaves behind is not assumed to end.
- `Extensions`: the event loop polls, and a poll that has begun goes on (weak
  fairness of `Poll`, the arms and the steps after them: they are one thread);
  time passes, so a host that is polled again and again without becoming active
  is stopped (strong fairness of `TimeOut` for each extension); and the user
  answers a question that is on the screen again and again (strong fairness of
  `AnswerConsent`): `EditorFairSpec`, which assumes nothing of the host processes.
  `FairSpec` adds that each reads its input (weak fairness of `Receive`), which
  `PollReturns` needs, since the editor writes to it from the poll; the bootstrap
  reads as long as no extension blocks its process.
- `SourceControl`: the event loop polls (weak fairness of `Poll`), and a run of Git
  that has begun ends (weak fairness of each `Run`), as a success or a failure.
  `Driver` polls before each key (`app.rs:447`); the model lets keys come without a
  poll between them, which is weaker. In a remote session what waits goes in a
  fixed order, so a status or a comparison may wait as long as the user keeps
  asking: `KeptWaiting` in the two properties.
- `FileTree`: a pass is made again and again while no key is pressed
  (`app.rs:801`), which is weak fairness of the steps that change `pass`;
  `TreeCatchesUp` has as its premise that only such steps are taken from some time on.
- `LspSync`, `LspAnswers`, `DiskWatch`, `History` and `Edits` state safety only.

## The proofs

Each of `LspClient`, `LspSync`, `DiskWatch`, `Extensions`, `SourceControl`,
`History` and `Edits` has a module `..._proofs` that extends it; `LspAnswers` and
`LspProcess`, the two ends of a session, share `LspSession_proofs`, which extends
both. Together they prove every invariant, and every action property but one, that a
run checks of these nine modules, for every value of the constants: any sets of
methods, documents, files, tabs, extensions, capabilities or texts, and any bounds.
The runs keep their own work: they show that the cases arise, and that the
invariants the proofs rest on hold in an instance (each was checked by TLC before it
was proved).

| Module | Theorem | States |
|---|---|---|
| `LspClient_proofs` | `HandshakeIsFirst`, `OrderIsKept`, `NothingFollowsTheEnd` | `HandshakeFirst`, `RequestsInOrder`, `NothingAfterShutdown` |
| | `ImplementsTable` | `RequestTableKept`: the client implements `RequestTable` |
| `LspSession_proofs` | `LeavesNothingBehind`, `LogIsComplete` | `NothingLeftBehind`, `TailIsComplete` |
| | `AnswersFindTheirRequests`, `VersionCheckSuffices` | `SlotsMatchRequests`, `CurrentVersionIsCurrentText` |
| `LspSync_proofs` | `NeverSpoiled`, `ServerFollows`, `KeysReachTheServer`, `RequestsMatchTheServer` | `NeverGarbage`, `ServerHoldsWhatWasSent`, `KeysAreSent`, `RequestsAboutServerText` |
| `DiskWatch_proofs` | `RefusalsBlameOthers`, `UnsavedWorkStays`, `OneTabToAFile`, `NoWriteIsLost` | `RefusalsAreForeign`, `UnsavedWorkKept`, `FilesOpenOnce`, `NoLostWrite` |
| | `CleanShowOrAreRead` | `CleanIsWatched` |
| `Extensions_proofs` | `UsesAreGranted`, `RequestsAreKept` | `UsesHaveLeave`, `EachRequestHeldOnce` |
| | `NothingWaits` | between two polls an active host has no queued command: the safety half of `CommandsAreSettled` |
| `SourceControl_proofs` | `RequestsAreAccounted`, `GutterIsOfTheStatus` | `RequestsAccounted`, `GutterMatchesStatus` |
| `History_proofs` | `EveryStepFits`, `InterruptionsStop`, `NothingIsLost`, `RenamesMoveAsOne` | `HistoriesFit`, `StopsAreKept`, `TimelineKept`, `SharedMovesTogether` |
| `Edits_proofs` | `CursorsStayApart`, `JournalIsTheText` | `CursorsApart`, `JournalReplays` |
| | `EditsAreTakenBack`, `TypedAtEveryCaret` | `InverseRestores`, `CaretsFollow` |

Each module has a theorem `Invariance` besides (`ProcessInvariance` for the process):
the inductive invariant holds.
Where the properties of a module are invariants, `TypeOK` is the first conjunct of
one of them, or of the inductive invariant.

### What is assumed

Of the constants, the assumption each module names: bounds are natural numbers,
a few particular methods, files or capabilities belong to their sets, and markers
such as `LspSync`'s "no path" are none of the values they stand beside.
`DiskWatch` has a clock that may tick at least once; the extensions are numbered
from one, in the order in which a poll visits them. `Edits` has any set of
characters that contains those the code itself looks for or puts in, texts and
pastes made of them, and batches whose edits end no earlier than they start: a
transaction with one that does is refused (`EditError::InvalidRange`).

No theorem has a hypothesis beyond these. What a property excuses, it excuses in its
own words, and [the table above](#what-the-code-does-against-what-it-says) has the
property without the excuse.

### Along which arguments

*Client.* None of the safety properties is inductive. That a request is not sent
before `initialized` depends on nothing but `initialize` and the queue being
pending before it is (`Phases`): otherwise an answer could open the session, or a
cancellation be sent, early. That the order is kept when the queue is sent depends
on every id that waits being larger than every id on the wire and on the queue
being increasing (`QueueWaits`, `QueueOrdered`), hence on the ids having been
allocated (`IdsAllocated`) and on a queue existing only during the handshake or
after an exit (`QueueDrained`). The refinement needs a second invariant, `FInv`, of
what has become of each request: `StatusOf` puts the milestones of a request in an
order, and the steps of the table need that one milestone implies the ones before.

*Process.* `LinesAccounted` says that every line of stderr is in the pipe or in the
log, `PumpEnds` that the thread ends with the pipe empty and the process gone, and
`DrainedLog` that a complete tail is read after that. `Joins` puts the steps of a
stop in order: after the exit of the process, and each after the join before it.

*Answers.* A slot may hold an id that another server's table has for something
else. `SlotsMatch` relates slots to the table of the server that runs, and
`VersionNamesText` a version to the text sent under it.

*Synchronisation.* The properties are about the pipe, and the invariant is about
what the pipe will do. `ServerFits`: there is a trail that takes the server's copy
through all that is in the pipe, without garbage, to what was last sent.
`JournalFits`: the edits of the journal lead from there to the text on screen. A
step puts one message in the pipe or takes one out, and keeps both. `Drained` and
`Edited` are functions computed message by message; that they depend only on the
messages up to an index is proved by the least index at which two of them differ
(`StepAlike`).

*Files.* Stamps rise (`StampsRise`), and of a file that deco wrote last the record
is of that write, or that the file is gone, except between the write and its record
(`DecoKnown`). `NoLostWrite` compares a write with where the document came from:
while the record of a file agrees with the disk, so does what a document that is not
`apart` started from (`RecordIsBase`), and a save that goes ahead finds them so, or
has been confirmed for the very file that was refused, or another program wrote
since it looked (`SaveAllowed`). For `CleanIsWatched` a second invariant says that a
clean document has the text it started from (`BaseIsText`), that a handler holds
what it read (`HandlerAgrees`), and that a state which was reported, and is not read
again, is not one a clean document on that path still has to show
(`ReportedIsShown`).

*Extensions.* The invariant of `UsesAreGranted` relates a running host's grants,
the decisions that are remembered and what the user last said, through the middle
of a poll. `EachRequestHeldOnce` counts the places a request may be in, so its
invariant (`Once`) is that count for every number, those that were never used
included, and those among them that another's reply was taken for (`misled`), which
keep their place until their own reply comes. The proof has lemmas on how often a
kind of message is in a sequence after one is added or taken (`Hits`).

*Source control.* A request of a sort is owed exactly while it is with its thread or
in a lane of the worker. For the gutter, a status carries the commit it was taken
of and the `era` in which it was taken, and one of the present era names what is
checked out (`OfThePast`). So a text that was kept through a status that named its
commit is of that commit, one that was read since, or is on its way, is of the
commit that is checked out for as long as the status is current (`TextsClean`,
`WireClean`), and the texts of which neither can be said are those that `returned`.

*History.* Texts are numbered as they come about, so every undo entry falls and
every redo entry rises, through all its steps (`Falls`, `Rises`); an entry begins
where the one above it arrives (`Leads`). A text that was a stop stays one, so the
proof has to exclude that an entry passes a stop of another document: no two
documents have met a text in common but the first (`MetBy`). An entry that typing
may still join does not begin at a stop. `Joint` says of documents that moved
together that one group is on top of their stacks, which is why an undo from any of
them finds the others. `NothingIsLost` then compares the lines of texts before and
after entry by entry.

*Editing.* The invariant (`IInv`) is short: the text is of its characters, the
cursors are as `SelectionSet` keeps them (`Kept`), and there is a path of texts from
the server's to the one on screen on which each recorded change is in place when its
turn comes (`JournalGoes`). The work is in the operators.

- A transaction that fits (`Fits`: changes one behind the other) is taken apart
  from its end. `Restores` says of its first `n` changes, on the text up to the end
  of the last of them, everything at once: they lead to a text, `Inverted` is what
  leads back, that fits again, and the text has grown by `Delta`. One change more
  leaves all of it as it is and puts its own text behind (`RestoresAppend`). The
  induction is made with the least number for which the claim fails, since the
  induction theorems of the library cannot be used.
- What every command applies is sorted. `SortedPermutes` says that sorting returns
  the same ranges in order, so that what does not overlap fits (`FitsIf`),
  and that a caret can be followed from the change its cursor planned to where the
  change came to lie (`Follows`).
- Normalization puts together one cursor after another in the order of their
  starts; each keeps those before it apart (`AddingKeeps`).
- The carets of an edit that puts something in at every cursor rise strictly, so
  none is merged (`CaretsStay`), and what was put in stands before each
  (`CaretsStand`). For a bracket that closes itself every caret then goes back by
  one, which leaves them apart, since every pair is of two characters.
- The commands need little besides: that what they plan lies in the text, which is
  the arithmetic of lines (`Lined`: the lines of a text lie one behind the other).

### Only model-checked

- Liveness under fairness (`EveryRequestAnswered`, `CallsReturn`,
  `CommandsAreSettled`, `PollReturns`, `StatusCatchesUp`, `RequestsSettled`,
  `TreeCatchesUp`), and `ENABLED`: out of reach of the proof system.
- `TakenBack` of `Edits`: that a second press finds exactly the tokens the first
  one put in is a fact about several cursors on texts that may hold such tokens
  already, and about the selections that are left around them, not about positions
  alone.
- The properties of `FileTree`: a tree is walked by recursive operators, which the
  proof system cannot see through.

## Limits

What is excluded, by name, so that a reader can put it back:

- `DiskWatch`: `NoLostWrite` and `CleanIsWatched` excuse a document that is `apart`,
  and `NoLostWrite` a save during which another program wrote (`raced`); no sequence
  of file-system calls the code makes is atomic. `SavesAskFirst` excuses neither. A
  document on a path that has two tabs, which only Save As gives it, is read again
  in one of them. What is edited while a checkout waits for the worker is in
  `SourceControl`; what renames or deletes an open file from the tree is in
  `FileTree`. A write of another program between Git's own and the reading of the
  open files is left out.
- A process that inherits a server's pipes delays the join of its threads for as
  long as it lives (`process.rs:472`); `CallsReturn` excuses calls meanwhile.
- Completions of a trigger character are asked for before the character is sent;
  `RequestsAboutServerText` leaves completion requests out.
- Only one document is open on the server at a time in the frontend, as in the
  code; positions, encodings and the conversion of ranges are not modelled.
- A workspace edit without a version, or to a document the server does not have
  open, is applied unchecked (`workspace.rs:127`): `CurrentVersionIsCurrentText`
  speaks of edits whose document stayed open.
- `Extensions`: the policy is `"prompt"`, the default. Decisions are kept in
  memory across the starts of a host and there is a file for them; its loss,
  damage and versions are left out, and so is a second editor that writes it. A
  served call is its reply: the file operations of
  `mediated` and `workspace.applyEdit` are not composed with `DiskWatch`. What a
  host writes that is not a message is a line of the log. A host that cannot be
  spawned is reported and changes nothing.

- `SourceControl`: `GutterMatchesStatus` excuses the texts that `returned`: `HEAD`
  went from a commit to another and back between two statuses, with no file read
  again, and the text was read in that time. A server too old for a request, Git
  switched off in the settings, and a workspace whose repository cannot be found are
  left out, and so is everything Git prints: a status is what it was taken of.
- `History`: the dirty flag, the text on disk, and a workspace edit that is refused
  as a whole are left out. Whether an edit is refused is `LspAnswers`' question.
- `Edits`: characters of two units, tabs, wrapped rows, brackets that open and close
  alike, word wrap of motions, folding, and undo (`History`) are left out. A command
  that plans no change, or changes that overlap, is no step.
- `FileTree`: one local session; links, excluded entries, names that are paths and
  file systems without case are left out. The look and the change of an operation
  are one step (`file_ops.rs` names the window between them). Previews, scrolling and
  the focus are left out; a tab whose file goes loses its path and leaves the model;
  the name a create or a rename asks for is chosen in the step. A stamp names one
  moment, as in `DiskWatch`.

### Not modelled

Not modelled, and why, is listed for each component in `PROJECT.json`: pure
functions of text or settings, drawing, start-up, build tasks; and what the plan
has left.

## Plan

Modelled and checked: the client and the table it implements, synchronisation,
answers, the process, files on disk, extension hosts, source control, histories,
the editing commands, the file tree; proved: the safety of all but the last, and
all but one property of the last but one.
What is left, in this order:

1. Proofs: `TakenBack` for one cursor, and `FileTree` with its walks as recursive
   functions.
2. Diagnostics and their versions, in a run of their own or in place of one whose
   question is settled: beside `LspAnswers` they are more than its run can hold.
3. The remote client and server over a transport that closes, forwarded ports, and
   the file operations of `FileTree` through it.
4. Prompts, find and snippets beside `Edits`; tabs and groups; the terminal's reader.

## Checking it

    tlc -workers 2 -config LspSync.cfg MCLspSync.tla
    tlapm LspSync_proofs.tla

The module of a run is the `MC` module of the same component;
`DiskWatchDiscard.cfg` and `ExtensionsLive.cfg` are the second configurations of two of
them, and `ExtensionsPipe.cfg` and `ExtensionsQuestion.cfg` further ones of
`MCExtensions`, in which TLC finds the property violated, as it does in
`DiskWatchDiscard`. Each run ends within a few minutes with two workers.

------------------------------- MODULE LspSync -------------------------------
(***************************************************************************)
(* Keeping a language server's copy of the open document equal to the      *)
(* editor's: the journal of a document (deco-editor/src/document.rs), the  *)
(* frontend that decides when to notify (deco-tui/src/lsp.rs, app.rs), the *)
(* versions of a server's documents (deco-lsp/src/sync.rs) and the server. *)
(*                                                                         *)
(* A text is an element of Texts: its fingerprint is itself.  An edit the  *)
(* journal records is the pair of the text it was made to and the text it  *)
(* made; a server that applies one to any other text ends with a copy that *)
(* is Garbage.  The texts of two documents are never compared.  The one   *)
(* way the code itself has to that end is kept apart: the document that a  *)
(* server has open is given another text while one without a server is     *)
(* shown (`replaced'), the ranges of its next edits speak of that text, and*)
(* the server is left with a copy that is Misread.                         *)
(*                                                                         *)
(* A key is handled in the order of Driver::key: its command, then a typed *)
(* trigger character's request, then `attach' if another document is       *)
(* shown, then `changed'.  `stage' is how far the key has got.  The server *)
(* is another process and reads its pipe at any moment.                    *)
(***************************************************************************)
EXTENDS Integers, Sequences

CONSTANTS Paths,          \* documents open in tabs
          Texts,          \* the texts a document can hold
          Languages,      \* languages with a server of their own
          Lost,           \* a journal that an edit did not enter
          SyncKinds,      \* change notifications a server may ask for
          MaxJournal,     \* MAX_SYNC_CHANGES
          MaxVersion,     \* bound on the version of a document
          MaxChannel      \* bound on unread messages when a key arrives

NoPath     == "no path"
NoServer   == "no server"
NoLanguage == "no language"
NoText     == "no text"
Garbage    == "garbage"    \* a copy no document holds
Misread    == "misread"    \* a copy that ranges of a replaced text were applied to

ASSUME SyncAssumption ==
  /\ NoPath \notin Paths /\ {NoServer, NoLanguage} \cap Languages = {}
  /\ {NoText, Garbage, Misread} \cap Texts = {}
  /\ MaxJournal \in Nat /\ MaxVersion \in Nat \ {0} /\ MaxChannel \in Nat
  /\ SyncKinds \subseteq {"incremental", "full", "none"}

VARIABLES
  text,       \* what each document holds
  language,   \* the language of each document, or none
  journal,    \* the edits of each document since the last notification
  shown,      \* the document on screen, or an untitled one
  running,    \* the language of the running server, or none
  open,       \* Lsp::open, the document the server was told about
  sent,       \* Lsp::sent, the text last sent
  wholeNext,  \* Lsp::whole_next
  version,    \* DocumentSync: versions last sent, 0 when not open
  kind,       \* what the running server negotiated
  pipe,       \* whether a write to the server succeeds
  channel,    \* messages written and not read
  copy,       \* the server's documents
  stage,      \* how far the handling of an event has got
  behind,     \* an answer edited the shown text and no key came since
  replaced    \* the open document was given another text, and that was not
              \* sent: it was not on screen

docVars    == <<text, language, journal, shown>>
lspVars    == <<running, open, sent, wholeNext, version, kind>>
serverVars == <<pipe, channel, copy>>
histories  == <<behind, replaced>>
vars == <<docVars, lspVars, serverVars, stage, histories>>

NotOpen    == [version |-> 0, text |-> NoText]

Stages == {"idle", "typed", "attach", "changed"}

Init ==
  /\ text \in [Paths -> Texts]
  /\ language \in [Paths -> Languages]
  /\ journal = [p \in Paths |-> <<>>]
  /\ shown = NoPath /\ running = NoServer /\ open = NoPath /\ sent = NoText
  /\ wholeNext = FALSE
  /\ version = [p \in Paths |-> 0]
  /\ kind \in SyncKinds
  /\ pipe = "open" /\ channel = <<>>
  /\ copy = [p \in Paths |-> NotOpen]
  /\ stage = "idle" /\ behind = FALSE /\ replaced = FALSE

(***************************************************************************)
(* Messages.  A change carries the edits, or the whole text when there are *)
(* none, and whether the edits are of a text the document was given.  A    *)
(* request carries the text it was raised about, and whether that text     *)
(* held an answer's edit that had not been sent.                           *)
(***************************************************************************)
Message(type, p, v, changes, t) ==
  [type |-> type, path |-> p, version |-> v, changes |-> changes, text |-> t,
   stale |-> behind, replaced |-> replaced /\ changes # <<>>]

\* What a write leaves in the pipe: nothing once the server has closed it.
Written(messages) == IF pipe = "open" THEN channel \o messages ELSE channel

(***************************************************************************)
(* Faults: variants of the operators below that a plausible mistake would  *)
(* give.  No specification uses them; they show what the properties catch. *)
(***************************************************************************)

\* An undo leaves the journal as it is.
UndoUnmarked(t) ==
  /\ stage = "idle" /\ shown # NoPath
  /\ Len(channel) <= MaxChannel /\ \A p \in Paths : version[p] < MaxVersion
  /\ text' = [text EXCEPT ![shown] = t]
  /\ stage' = "changed"
  /\ UNCHANGED <<language, journal, shown, lspVars, serverVars, histories>>

\* The previous document is not closed when another is opened.
OpenDocumentUnclosed(p) ==
  /\ version' = [version EXCEPT ![p] = 1]
  /\ channel' = Written(<<Message("didOpen", p, 1, <<>>, text[p])>>)
  /\ open' = p /\ sent' = text[p] /\ wholeNext' = FALSE /\ replaced' = FALSE
  /\ journal' = [journal EXCEPT ![p] = <<>>]
  /\ UNCHANGED <<running, kind, behind>>

\* No journal, no change: a text replaced whole is taken for an unchanged one.
ChangedNothingByJournal ==
  /\ stage = "changed"
  /\ (shown # NoPath /\ running # NoServer /\ open = shown)
        => (sent = text[shown] \/ (journal[shown] # Lost /\ Len(journal[shown]) = 0))
  /\ stage' = "idle" /\ behind' = FALSE /\ UNCHANGED replaced
  /\ UNCHANGED <<docVars, lspVars, serverVars>>

(***************************************************************************)
(* The journal of a document.                                              *)
(***************************************************************************)
Recorded(p, t) ==
  IF journal[p] = Lost \/ Len(journal[p]) >= MaxJournal
    THEN Lost
    ELSE Append(journal[p], [from |-> text[p], to |-> t])

\* A fault: the poll applies an edit and leaves `changed' to the next key.
PollEditsUnsent(p, t) ==
  /\ stage = "idle" /\ t # text[p]
  /\ Len(channel) <= MaxChannel /\ \A q \in Paths : version[q] < MaxVersion
  /\ text' = [text EXCEPT ![p] = t]
  /\ journal' = [journal EXCEPT ![p] = Recorded(p, t)]
  /\ UNCHANGED <<language, shown, lspVars, serverVars, stage, histories>>

(***************************************************************************)
(* Commands of a key.                                                      *)
(***************************************************************************)
KeyArrives ==
  /\ stage = "idle"
  /\ Len(channel) <= MaxChannel /\ \A p \in Paths : version[p] < MaxVersion

\* Document::apply: typing, deleting, pasting, reverting.  The typed character
\* may be one the server asked to be a trigger.
Edit(t) ==
  /\ KeyArrives /\ shown # NoPath
  /\ text' = [text EXCEPT ![shown] = t]
  /\ journal' = [journal EXCEPT ![shown] = Recorded(shown, t)]
  /\ stage' \in {"typed", "changed"}
  /\ UNCHANGED <<language, shown, lspVars, serverVars, histories>>

\* Undo and redo change the text inside the history, past the journal.
Undo(t) ==
  /\ KeyArrives /\ shown # NoPath
  /\ text' = [text EXCEPT ![shown] = t]
  /\ journal' = [journal EXCEPT ![shown] = Lost]
  /\ stage' = "changed"
  /\ UNCHANGED <<language, shown, lspVars, serverVars, histories>>

\* Shows another tab, or an untitled document.
Switch(p) ==
  /\ KeyArrives /\ p # shown
  /\ shown' = p
  /\ stage' = "attach"
  /\ UNCHANGED <<text, language, journal, lspVars, serverVars, histories>>

\* Changes the language of the document shown, or takes it away.
SetLanguage(l) ==
  /\ KeyArrives /\ shown # NoPath /\ l # language[shown]
  /\ language' = [language EXCEPT ![shown] = l]
  /\ stage' = "attach"
  /\ UNCHANGED <<text, journal, shown, lspVars, serverVars, histories>>

\* A file opened again after its tab was closed: a new document, whose journal
\* starts empty whatever the server was told of the old one, and whose language
\* is detected again.
Reopen(p, t) ==
  /\ KeyArrives /\ p # shown
  /\ shown' = p
  /\ text' = [text EXCEPT ![p] = t]
  /\ \E l \in Languages : language' = [language EXCEPT ![p] = l]
  /\ journal' = [journal EXCEPT ![p] = <<>>]
  /\ stage' = "attach"
  /\ UNCHANGED <<lspVars, serverVars, histories>>

\* The text of an open document is replaced by a new document that holds what
\* is on disk, after a checkout; `attach' and `changed' follow, for the document
\* shown.
Reload(p, t) ==
  /\ KeyArrives
  /\ text' = [text EXCEPT ![p] = t]
  /\ journal' = [journal EXCEPT ![p] = <<>>]
  /\ stage' = "attach"
  /\ replaced' = (replaced \/ (p = open /\ p # shown))
  /\ UNCHANGED <<language, shown, lspVars, serverVars, behind>>

\* Lsp::close_deleted: a document loses its path, because its file was deleted
\* or is missing after a checkout, or was renamed to one of another language.
\* Its text stays, in a document that is untitled until a key names it again.
\* A checkout calls `attach'; a key that deletes does when the document shown
\* has lost its path.
CloseDeleted(p) ==
  /\ KeyArrives
  /\ shown' = IF shown = p THEN NoPath ELSE shown
  /\ version' = [version EXCEPT ![p] = 0]
  /\ channel' = IF version[p] # 0
                  THEN Written(<<Message("didClose", p, 0, <<>>, NoText)>>)
                  ELSE channel
  /\ IF open = p THEN open' = NoPath /\ sent' = NoText /\ replaced' = FALSE
                 ELSE UNCHANGED <<open, sent, replaced>>
  /\ stage' \in {"attach", "changed"}
  /\ UNCHANGED <<text, language, journal, running, wholeNext, kind, pipe, copy, behind>>

\* Supervisor requests and didSave are sent for a document the server has.
Tell(type) ==
  /\ shown # NoPath /\ running # NoServer /\ version[shown] # 0
  /\ channel' = Written(<<Message(type, shown, 0, <<>>, text[shown])>>)

\* A key that asks about the text, or saves it.
Ask  == KeyArrives /\ Tell("request") /\ stage' = "changed"
        /\ UNCHANGED <<docVars, lspVars, pipe, copy, histories>>
Save == KeyArrives /\ Tell("didSave") /\ stage' = "changed"
        /\ UNCHANGED <<docVars, lspVars, pipe, copy, histories>>

\* A typed trigger character asks for completions before `changed' is called.
TriggerCompletion ==
  /\ stage = "typed" /\ Tell("completion")
  /\ stage' = "changed"
  /\ UNCHANGED <<docVars, lspVars, pipe, copy, histories>>

TypedNothing ==
  /\ stage = "typed" /\ stage' = "changed"
  /\ UNCHANGED <<docVars, lspVars, serverVars, histories>>

(***************************************************************************)
(* attach: the right server for the document shown, and the document.      *)
(***************************************************************************)
\* Lsp::sync_open, for a document that is not the one open already.  An open
\* whose write fails leaves the server's entry for it and `open' empty.
OpenDocument(p) ==
  /\ version' = [q \in Paths |->
        IF q = p THEN IF version[p] = 0 THEN 1 ELSE version[p]
        ELSE IF q = open THEN 0 ELSE version[q]]
  /\ channel' = Written(
        (IF open # NoPath THEN <<Message("didClose", open, 0, <<>>, NoText)>>
                          ELSE <<>>)
        \o (IF version[p] = 0 THEN <<Message("didOpen", p, 1, <<>>, text[p])>>
                              ELSE <<>>))
  /\ journal' = [journal EXCEPT ![p] = <<>>]
  /\ replaced' = FALSE
  /\ IF pipe = "open" /\ version[p] = 0
       THEN open' = p /\ sent' = text[p] /\ wholeNext' = FALSE
       ELSE open' = NoPath /\ UNCHANGED <<sent, wholeNext>>
  /\ UNCHANGED <<running, kind>>

\* The running server serves this language already.
AttachOpen ==
  /\ stage = "attach" /\ shown # NoPath /\ running = language[shown]
  /\ open # shown
  /\ OpenDocument(shown)
  /\ stage' = "changed"
  /\ UNCHANGED <<text, language, shown, pipe, copy, behind>>

\* Already open there, or a document without a path or a language: then the
\* server that runs goes on with what it has.
AttachNothing ==
  /\ stage = "attach"
  /\ shown # NoPath /\ language[shown] # NoLanguage
       => (running = language[shown] /\ open = shown)
  /\ stage' = "changed"
  /\ UNCHANGED <<docVars, lspVars, serverVars, histories>>

\* Another language: the old server is stopped, a new one is started, told of
\* this document, and reads it in its own pipe.  It may fail to start, or answer
\* the handshake and end before it is told: then nothing is open, though the
\* document counts as one it was sent.
AttachStart ==
  /\ stage = "attach" /\ shown # NoPath
  /\ language[shown] \notin {NoLanguage, running}
  /\ stage' = "changed" /\ kind' \in SyncKinds
  /\ copy' = [p \in Paths |-> NotOpen]
  /\ replaced' = FALSE
  /\ \/ /\ running' = language[shown] /\ open' = shown /\ pipe' = "open"
        /\ sent' = text[shown] /\ wholeNext' = FALSE
        /\ version' = [p \in Paths |-> IF p = shown THEN 1 ELSE 0]
        /\ channel' = <<Message("didOpen", shown, 1, <<>>, text[shown])>>
        /\ journal' = [journal EXCEPT ![shown] = <<>>]
     \/ /\ running' = language[shown] /\ open' = NoPath /\ pipe' = "broken"
        /\ version' = [p \in Paths |-> IF p = shown THEN 1 ELSE 0]
        /\ channel' = <<>>
        /\ journal' = [journal EXCEPT ![shown] = <<>>]
        /\ UNCHANGED <<sent, wholeNext>>
     \/ /\ running' = NoServer /\ open' = NoPath /\ pipe' = "open"
        /\ version' = [p \in Paths |-> 0] /\ channel' = <<>>
        /\ UNCHANGED <<sent, wholeNext, journal>>
  /\ UNCHANGED <<text, language, shown, behind>>

(***************************************************************************)
(* changed: the end of every key.                                          *)
(***************************************************************************)
Watched == shown # NoPath /\ running # NoServer /\ open = shown

\* The edits to send, or none for the whole text.
Taken == IF journal[shown] = Lost \/ wholeNext \/ kind = "full"
           THEN <<>> ELSE journal[shown]

ChangedNothing ==
  /\ stage = "changed"
  /\ Watched => sent = text[shown]
  /\ IF Watched
       THEN /\ journal' = [journal EXCEPT ![shown] = <<>>]
            /\ wholeNext' = FALSE /\ replaced' = FALSE
       ELSE UNCHANGED <<journal, wholeNext, replaced>>
  /\ stage' = "idle" /\ behind' = FALSE
  /\ UNCHANGED <<text, language, shown, running, open, sent, version, kind, serverVars>>

ChangedSend ==
  /\ stage = "changed" /\ Watched /\ sent # text[shown]
  /\ journal' = [journal EXCEPT ![shown] = <<>>]
  /\ version' = [version EXCEPT ![shown] = @ + 1]
  /\ IF kind = "none" \/ pipe = "open"
       THEN sent' = text[shown] /\ wholeNext' = FALSE
       ELSE wholeNext' = TRUE /\ sent' = sent
  /\ channel' = IF kind = "none" THEN channel
                ELSE Written(<<Message("didChange", shown, version[shown] + 1,
                                       Taken, text[shown])>>)
  /\ stage' = "idle" /\ behind' = FALSE /\ replaced' = FALSE
  /\ UNCHANGED <<text, language, shown, running, open, kind, pipe, copy>>

(***************************************************************************)
(* Between keys.                                                           *)
(***************************************************************************)
\* The answer to a formatting request, or an extension's edit, is applied to
\* the shown document by the poll; nothing is sent.
AnswerEdits(t) ==
  /\ KeyArrives /\ shown # NoPath /\ running # NoServer /\ t # text[shown]
  /\ text' = [text EXCEPT ![shown] = t]
  /\ journal' = [journal EXCEPT ![shown] = Recorded(shown, t)]
  /\ behind' = TRUE
  /\ UNCHANGED <<language, shown, lspVars, serverVars, stage, replaced>>

\* A rename, a code action, or the check of the disk edits any of the open
\* documents, and the poll itself calls `changed'.
PollEdits(p, t) ==
  /\ KeyArrives /\ t # text[p]
  /\ text' = [text EXCEPT ![p] = t]
  /\ journal' = [journal EXCEPT ![p] = Recorded(p, t)]
  /\ stage' = "changed"
  /\ UNCHANGED <<language, shown, lspVars, serverVars, histories>>

\* Auto-save, after an interval without a key.
AutoSave ==
  /\ KeyArrives /\ Tell("didSave")
  /\ UNCHANGED <<docVars, lspVars, pipe, copy, stage, histories>>

\* The poll reads the end of the server's output.
Stopped ==
  /\ stage = "idle" /\ running # NoServer /\ pipe = "broken"
  /\ running' = NoServer /\ open' = NoPath
  /\ version' = [p \in Paths |-> 0] /\ replaced' = FALSE
  /\ UNCHANGED <<docVars, sent, wholeNext, kind, serverVars, stage, behind>>

(***************************************************************************)
(* The server.                                                             *)
(***************************************************************************)
\* Each edit replaces a range of the text the previous one left.
Apply(t, change) == IF t = change.from THEN change.to ELSE Garbage

Edited(t, changes) ==
  LET left[i \in 0..Len(changes)] ==
        IF i = 0 THEN t ELSE Apply(left[i - 1], changes[i])
  IN  left[Len(changes)]

\* A server holds one copy of a document, opened once and changed in the order
\* of the versions; anything else leaves it with a text nobody has.  Ranges of
\* a text the document was given, or of a copy already misread, say nothing of
\* the copy; a whole text mends it.
Changed(c, m) ==
  IF m.version <= c.version \/ c = NotOpen THEN Garbage
  ELSE IF m.changes = <<>> THEN m.text
  ELSE IF m.replaced \/ c.text = Misread THEN Misread
  ELSE Edited(c.text, m.changes)

Receive(c, m) ==
  CASE m.type = "didOpen" ->
         [c EXCEPT ![m.path] =
            [version |-> m.version,
             text |-> IF @ = NotOpen THEN m.text ELSE Garbage]]
    [] m.type = "didClose" ->
         [c EXCEPT ![m.path] =
            IF @ = NotOpen THEN [version |-> 0, text |-> Garbage] ELSE NotOpen]
    [] m.type = "didChange" ->
         [c EXCEPT ![m.path] = [version |-> m.version, text |-> Changed(@, m)]]
    [] OTHER -> c

ServerReads ==
  /\ pipe = "open" /\ channel # <<>>
  /\ copy' = Receive(copy, Head(channel))
  /\ channel' = Tail(channel)
  /\ UNCHANGED <<docVars, lspVars, pipe, stage, histories>>

\* What it held goes with it.
ServerExits ==
  /\ running # NoServer /\ pipe = "open"
  /\ pipe' = "broken" /\ channel' = <<>> /\ copy' = [p \in Paths |-> NotOpen]
  /\ UNCHANGED <<docVars, lspVars, stage, histories>>

Command ==
  \/ \E t \in Texts :
       \/ shown # NoPath /\ t # text[shown] /\ (Edit(t) \/ Undo(t))
       \/ \E p \in Paths : Reopen(p, t) \/ Reload(p, t)
  \/ \E p \in Paths : CloseDeleted(p)
  \/ \E p \in Paths \cup {NoPath} : Switch(p)
  \/ \E l \in Languages \cup {NoLanguage} : SetLanguage(l)
  \/ Ask \/ Save

KeyContinues ==
  \/ TriggerCompletion \/ TypedNothing
  \/ AttachOpen \/ AttachNothing \/ AttachStart
  \/ ChangedNothing \/ ChangedSend

Idle ==
  \/ \E t \in Texts :
       \/ AnswerEdits(t)
       \/ \E p \in Paths : PollEdits(p, t)
  \/ AutoSave \/ Stopped

Next == Command \/ KeyContinues \/ Idle \/ ServerReads \/ ServerExits

Spec == Init /\ [][Next]_vars

(***************************************************************************)
(* Properties.                                                             *)
(***************************************************************************)
Change == [from : Texts, to : Texts]

TypeOK ==
  /\ text \in [Paths -> Texts]
  /\ language \in [Paths -> Languages \cup {NoLanguage}]
  /\ \A p \in Paths :
        journal[p] = Lost \/ (journal[p] \in Seq(Change) /\ Len(journal[p]) <= MaxJournal)
  /\ shown \in Paths \cup {NoPath} /\ open \in Paths \cup {NoPath}
  /\ sent \in Texts \cup {NoText} /\ wholeNext \in BOOLEAN
  /\ version \in [Paths -> 0..(MaxVersion + 1)]
  /\ kind \in SyncKinds /\ pipe \in {"open", "broken"}
  /\ stage \in Stages /\ behind \in BOOLEAN /\ replaced \in BOOLEAN

\* The server's documents once it has read everything written to it.
Drained ==
  LET documents[i \in 0..Len(channel)] ==
        IF i = 0 THEN copy ELSE Receive(documents[i - 1], channel[i])
  IN  documents[Len(channel)]

\* The server is never sent an edit of a text it does not have, a version that
\* is not newer, a change of a document it was not told of, or a second open.
\* The ranges of a document that was given another text while it was not on
\* screen are told apart: they leave a copy Misread.
NeverGarbage == \A p \in Paths : copy[p].text # Garbage

\* What docs/language-servers.md:235 says of the ranges: every one means the
\* text the previous one left.  The code violates it (session.rs:4038): see
\* `replaced'.
RangesMeanTheirText ==
  \A p \in Paths : copy[p].text \notin {Garbage, Misread}

\* Once it has read its pipe, a running server has the open document, at the
\* version and with the text last sent, and no other document, however tabs
\* were switched, closed, deleted or reloaded.  Only a copy that was Misread,
\* and has not been sent whole since, has another text.
ServerHoldsWhatWasSent ==
  /\ TypeOK
  /\ (running # NoServer /\ pipe = "open") =>
       \A p \in Paths :
          IF p # open THEN Drained[p] = NotOpen
          ELSE kind # "none" => /\ Drained[p].version = version[p]
                                /\ Drained[p].text \in {sent, Misread}

\* When a key has been handled, the server that serves the language of the
\* document on screen has been sent that document as it is on screen, however
\* the key changed it: typing, undo, another tab, a reopened or replaced file.
ServedAsShown ==
  stage = "idle" /\ shown # NoPath /\ pipe = "open" /\ running = language[shown]
     => open = shown /\ sent = text[shown]

KeysAreSent == ~behind => ServedAsShown

\* What a save and a request are about is what the server has when it reads
\* them, unless they were raised over an answer's edit that was not sent, or
\* its copy is Misread.  The completions of a typed trigger are not among them:
\* they are asked for before the key is sent.
AboutServerText(types) ==
  (pipe = "open" /\ channel # <<>> /\ kind # "none") =>
     LET m == Head(channel) IN
     (m.type \in types /\ ~m.stale) => copy[m.path].text \in {m.text, Misread}

RequestsAboutServerText == AboutServerText({"request", "didSave"})
=============================================================================

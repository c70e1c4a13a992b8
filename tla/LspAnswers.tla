----------------------------- MODULE LspAnswers -----------------------------
(***************************************************************************)
(* The requests the frontend raises about the document on screen, and what *)
(* it does with their answers when they arrive, later and in any order:    *)
(* deco-tui/src/lsp.rs, with the version check of a workspace edit in      *)
(* deco-editor/src/workspace.rs.                                           *)
(*                                                                         *)
(* A document's text is the number of edits made to it.  A request is      *)
(* computed from the text the server holds when it is raised (`sent'),     *)
(* which the answer carries here as history; the code sees only an id, and *)
(* for a workspace edit the version that was sent with that text.  Ids     *)
(* start again with each server.                                           *)
(***************************************************************************)
EXTENDS Integers, FiniteSets

CONSTANTS Paths,       \* documents open in tabs
          AskedKinds,  \* requests a key may raise
          MaxText,     \* bound on the edits of a document
          MaxId,       \* bound on the requests of one server
          MaxPending,  \* bound on the requests awaiting an answer
          MaxServers   \* bound on the servers started

ASSUME AnswersAssumption ==
  /\ {MaxText, MaxId, MaxPending, MaxServers} \subseteq Nat
  /\ AskedKinds \subseteq {"hover", "definition", "format", "rename", "symbols"}

VARIABLES
  text,        \* each document, as a number of edits
  shown,       \* the document on screen
  tokens,      \* what each tab's semantic tokens describe
  running,     \* whether a server is running
  servers,     \* how many have been started
  open,        \* the document the server has, or none
  sent,        \* the text last sent of it
  version,     \* its version
  nextId,      \* Client::next_id
  pending,     \* requests not answered: what each is about
  slot,        \* the id each kind of request is outstanding under
  symbolsFor,  \* the document a symbols request is for
  stage        \* "idle", or "changed" before a key's final notification

docVars    == <<text, shown, tokens>>
serverVars == <<running, servers, open, sent, version, nextId, pending>>
slotVars   == <<slot, symbolsFor>>
vars == <<docVars, serverVars, slotVars, stage>>

NoPath == "no path"
NoId   == 0
NoText == [path |-> NoPath, text |-> 0]

\* The kinds whose answer is kept apart: each is one field of struct Lsp.
Kinds == {"hover", "definition", "format", "rename", "symbols", "semantic"}

Init ==
  /\ text = [p \in Paths |-> 0] /\ shown \in Paths
  /\ tokens = [p \in Paths |-> NoText]
  /\ running = FALSE /\ servers = 0 /\ open = NoPath /\ sent = 0 /\ version = 0
  /\ nextId = 1 /\ pending = [i \in {} |-> NoText]
  /\ slot = [k \in Kinds |-> NoId] /\ symbolsFor = NoPath
  /\ stage = "idle"

(***************************************************************************)
(* Requests.  `text' is history, the text the server holds of the path,    *)
(* and so is `held', whether the server has kept the document open since.  *)
(***************************************************************************)
About(kind, p, t, v) ==
  [kind |-> kind, path |-> p, text |-> t, version |-> v, held |-> TRUE]

Closed(table) == [i \in DOMAIN table |-> [table[i] EXCEPT !.held = FALSE]]

Raised(table, id, about) ==
  [i \in DOMAIN table \cup {id} |-> IF i = id THEN about ELSE table[i]]

Answered(id) == [i \in DOMAIN pending \ {id} |-> pending[i]]

CanRaise == nextId <= MaxId /\ Cardinality(DOMAIN pending) < MaxPending

(***************************************************************************)
(* Faults: variants of the operators below that a plausible mistake would  *)
(* give.  No specification uses them; they show what the properties catch. *)
(***************************************************************************)
\* The slots survive the start of another server.
SwitchStartsKept(p) ==
  /\ stage = "idle" /\ ~running /\ servers < MaxServers
  /\ shown' = p
  /\ running' = TRUE /\ servers' = servers + 1
  /\ open' = p /\ sent' = text[p] /\ version' = 1
  /\ slot' = [slot EXCEPT !["semantic"] = 2]
  /\ pending' = [i \in {2} |-> About("semantic", p, text[p], 1)]
  /\ nextId' = 3 /\ stage' = "changed"
  /\ UNCHANGED <<text, tokens, symbolsFor>>

\* A workspace edit is applied whatever version it states.
VersionIgnored(id) == id \in DOMAIN pending

(***************************************************************************)
(* Keys.  Every key ends with `changed'.                                   *)
(***************************************************************************)
Edit ==
  /\ stage = "idle" /\ text[shown] < MaxText
  /\ text' = [text EXCEPT ![shown] = @ + 1]
  /\ stage' = "changed"
  /\ UNCHANGED <<shown, tokens, serverVars, slotVars>>

\* The request goes out before the key's `changed', about the text the server
\* has.  A second hover cancels the first; the others leave theirs to answer.
Ask(kind) ==
  /\ stage = "idle" /\ running /\ open = shown /\ CanRaise
  /\ LET about == About(kind, shown, sent, version)
         rest  == IF kind = "hover" THEN Answered(slot["hover"]) ELSE pending
     IN pending' = Raised(rest, nextId, about)
  /\ nextId' = nextId + 1
  /\ slot' = [slot EXCEPT ![kind] = nextId]
  /\ symbolsFor' = IF kind = "symbols" THEN shown ELSE symbolsFor
  /\ stage' = "changed"
  /\ UNCHANGED <<docVars, running, servers, open, sent, version>>

\* Asks for the tokens of the open document, unless an answer is awaited.
\* `p', `t' and `v' are what the caller has just told the server.
RequestTokens(p, t, v, base) ==
  IF slot["semantic"] = NoId /\ CanRaise
    THEN /\ pending' = Raised(base, nextId, About("semantic", p, t, v))
         /\ nextId' = nextId + 1
         /\ slot' = [slot EXCEPT !["semantic"] = nextId, !["hover"] =
                       IF p = open THEN @ ELSE NoId]
    ELSE /\ pending' = base /\ UNCHANGED nextId
         /\ slot' = [slot EXCEPT !["hover"] = IF p = open THEN @ ELSE NoId]

\* sync_open: the document shown replaces the one the server had, at version
\* one.  The hover of the old document is cancelled.
OpenShown(p) ==
  /\ open' = p /\ sent' = text[p] /\ version' = 1
  /\ RequestTokens(p, text[p], 1, Closed(Answered(slot["hover"])))
  /\ UNCHANGED <<running, servers>>

\* Another tab is shown; attach opens it on the running server.
Switch(p) ==
  /\ stage = "idle" /\ running /\ p # shown
  /\ shown' = p
  /\ OpenShown(p)
  /\ stage' = "changed"
  /\ UNCHANGED <<text, tokens, symbolsFor>>

\* attach with no server: one is started, whose ids start again at one.  The
\* handshake used the first, and the tokens are asked for under the second.
SwitchStarts(p) ==
  /\ stage = "idle" /\ ~running /\ servers < MaxServers
  /\ shown' = p
  /\ running' = TRUE /\ servers' = servers + 1
  /\ open' = p /\ sent' = text[p] /\ version' = 1
  /\ slot' = [k \in Kinds |-> IF k = "semantic" THEN 2 ELSE NoId]
  /\ symbolsFor' = NoPath
  /\ pending' = [i \in {2} |-> About("semantic", p, text[p], 1)]
  /\ nextId' = 3
  /\ stage' = "changed"
  /\ UNCHANGED <<text, tokens>>

\* changed: an edited text is sent, its tokens dropped and asked for again.
Changed ==
  /\ stage = "changed" /\ stage' = "idle"
  /\ IF running /\ open = shown /\ sent # text[shown]
       THEN /\ sent' = text[shown] /\ version' = version + 1
            /\ tokens' = [tokens EXCEPT ![shown] = NoText]
            /\ RequestTokens(open, text[shown], version + 1, pending)
       ELSE UNCHANGED <<sent, version, tokens, pending, nextId, slot>>
  /\ UNCHANGED <<text, shown, running, servers, open, symbolsFor>>

(***************************************************************************)
(* Answers.  Only the one its slot waits for is used.                      *)
(***************************************************************************)
Awaited(id, kind) == pending[id].kind = kind /\ slot[kind] = id

AnswerUnawaited(id) ==
  /\ slot[pending[id].kind] # id
  /\ UNCHANGED <<docVars, slotVars, stage>>

AnswerTokens(id) ==
  /\ Awaited(id, "semantic")
  /\ slot' = [slot EXCEPT !["semantic"] = NoId]
  /\ tokens' = [tokens EXCEPT ![shown] =
                  [path |-> pending[id].path, text |-> pending[id].text]]
  /\ UNCHANGED <<text, shown, symbolsFor, stage>>

AnswerHover(id) ==
  /\ Awaited(id, "hover")
  /\ slot' = [slot EXCEPT !["hover"] = NoId]
  /\ UNCHANGED <<docVars, symbolsFor, stage>>

\* The edits are applied to the document on screen; nothing is sent.
AnswerFormat(id) ==
  /\ Awaited(id, "format") /\ text[shown] < MaxText
  /\ slot' = [slot EXCEPT !["format"] = NoId]
  /\ text' = [text EXCEPT ![shown] = @ + 1]
  /\ UNCHANGED <<shown, tokens, symbolsFor, stage>>

\* The edit is refused when the version it states is not the one last sent.  A
\* document the server does not have open states none.
VersionHolds(id) == open = pending[id].path => version = pending[id].version

AnswerRename(id) ==
  /\ Awaited(id, "rename")
  /\ slot' = [slot EXCEPT !["rename"] = NoId]
  /\ LET p == pending[id].path IN
     IF VersionHolds(id) /\ text[p] < MaxText
       THEN /\ text' = [text EXCEPT ![p] = @ + 1]
            /\ stage' = "changed"
       ELSE UNCHANGED <<text, stage>>
  /\ UNCHANGED <<shown, tokens, symbolsFor>>

\* The list navigates the document it was asked for.
AnswerSymbols(id) ==
  /\ Awaited(id, "symbols")
  /\ slot' = [slot EXCEPT !["symbols"] = NoId]
  /\ UNCHANGED <<docVars, symbolsFor, stage>>

\* A definition in the document on screen; the other slots are cleared.
AnswerDefinition(id) ==
  /\ Awaited(id, "definition")
  /\ slot' = [slot EXCEPT !["definition"] = NoId, !["semantic"] = NoId]
  /\ UNCHANGED <<docVars, symbolsFor, stage>>

\* An error the protocol expects is dropped by the supervisor, and another one
\* is only reported.
AnswerError(id) == UNCHANGED <<docVars, slotVars, stage>>

Answer ==
  /\ stage = "idle" /\ running
  /\ \E id \in DOMAIN pending :
       /\ pending' = Answered(id)
       /\ \/ AnswerUnawaited(id) \/ AnswerTokens(id) \/ AnswerHover(id)
          \/ AnswerFormat(id) \/ AnswerRename(id) \/ AnswerSymbols(id)
          \/ AnswerDefinition(id) \/ AnswerError(id)
  /\ UNCHANGED <<running, servers, open, sent, version, nextId>>

\* Update::Stopped: forget_requests clears every slot but the symbols'.
Stopped ==
  /\ stage = "idle" /\ running
  /\ running' = FALSE /\ open' = NoPath
  /\ pending' = [i \in {} |-> NoText]
  /\ slot' = [k \in Kinds |-> IF k = "symbols" THEN slot[k] ELSE NoId]
  /\ UNCHANGED <<docVars, servers, sent, version, nextId, symbolsFor,
                 stage>>

Next ==
  \/ Edit \/ Changed \/ Answer \/ Stopped
  \/ \E kind \in AskedKinds : Ask(kind)
  \/ \E p \in Paths : Switch(p) \/ SwitchStarts(p)

Spec == Init /\ [][Next]_vars

(***************************************************************************)
(* Properties.                                                             *)
(***************************************************************************)
Description == [path : Paths \cup {NoPath}, text : 0..MaxText]

TypeOK ==
  /\ text \in [Paths -> 0..MaxText] /\ shown \in Paths
  /\ tokens \in [Paths -> Description]
  /\ open \in Paths \cup {NoPath} /\ sent \in 0..MaxText /\ version \in Nat
  /\ DOMAIN pending \subseteq 1..(nextId - 1)
  /\ \A id \in DOMAIN pending : pending[id].kind \in Kinds
  /\ slot \in [Kinds -> 0..(nextId - 1)]
  /\ symbolsFor \in Paths \cup {NoPath}
  /\ stage \in {"idle", "changed"}

\* A slot never holds the id of a request of another kind, although every
\* server counts its ids from one: what was asked of a server that stopped is
\* not taken for an answer of the next.  And the list of symbols navigates the
\* document it was asked for, whichever one is on screen when the answer comes.
SlotsMatchRequests ==
  /\ TypeOK
  /\ \A k \in Kinds : slot[k] \in DOMAIN pending => pending[slot[k]].kind = k
  /\ slot["symbols"] \in DOMAIN pending =>
       symbolsFor = pending[slot["symbols"]].path

\* The version check: while a document has stayed open on the server and holds
\* nothing unsent, an edit that passes it was computed from the text it is
\* applied to.
CurrentVersionIsCurrentText ==
  [][\A id \in DOMAIN pending :
       AnswerRename(id) /\ text' # text =>
          LET p == pending[id].path IN
          open = p /\ pending[id].held /\ sent = text[p] =>
             pending[id].text = text[p]]_vars

\* docs/language-servers.md:176: an edit whose version is no longer current is
\* refused, so what is applied was computed from the text it is applied to.  The
\* code violates it: a document the server does not have open is not checked, one
\* that was opened again is at version one again, and the edit of an answered
\* formatting request is not in the version yet (workspace.rs:143).
EditsMeetTheirText ==
  [][\A id \in DOMAIN pending :
       AnswerRename(id) /\ text' # text => pending[id].text = text[pending[id].path]]_vars

\* docs/language-servers.md:124: the tokens kept for a tab describe its text, and
\* an edit discards them.  The code violates it: an answer is kept whatever was
\* typed since it was asked for (lsp.rs:1640).
TokensDescribeTheirText ==
  stage = "idle" =>
     \A p \in Paths : tokens[p] \in {NoText, [path |-> p, text |-> text[p]]}
=============================================================================

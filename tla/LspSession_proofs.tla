-------------------------- MODULE LspSession_proofs --------------------------
(***************************************************************************)
(* A session with a language server, seen from its two ends.               *)
(*                                                                         *)
(* Why an answer is taken for what it is, for any documents, any number of *)
(* requests and of servers.  Ids start again with each server, so nothing  *)
(* outlives one but the slot of the symbols, and its table is empty by     *)
(* then.  And a request that was raised since the document was opened      *)
(* states the version of the text it was computed from.                    *)
(*                                                                         *)
(* What a stopped server leaves behind, and what its log holds, for pipes  *)
(* of any size and any amount of output.  The invariant says what the end  *)
(* of a thread means: the pump of stderr ends only when the server has     *)
(* exited and nothing is left in the pipe, so a log that was waited for is *)
(* complete; and the editor joins a thread only after the exit.            *)
(***************************************************************************)
EXTENDS LspAnswers, LspProcess, SequenceTheorems, TLAPS

(***************************************************************************)
(* The frontend's end: what the invariant says of its requests.            *)
(***************************************************************************)
Requests ==
  [kind : Kinds, path : Paths, text : 0..MaxText, version : Nat, held : BOOLEAN]

\* What the types leave out: a server that is not running is owed nothing.
Serving ==
  /\ nextId \in Nat \ {0} /\ running \in BOOLEAN
  /\ \A id \in DOMAIN pending : pending[id] \in Requests
  /\ ~running => DOMAIN pending = {}

SlotsMatch ==
  /\ \A k \in Kinds : slot[k] \in DOMAIN pending => pending[slot[k]].kind = k
  /\ slot["symbols"] \in DOMAIN pending =>
       symbolsFor = pending[slot["symbols"]].path

\* While the document stays open its version only grows, and names one text.
VersionNamesText ==
  \A id \in DOMAIN pending : pending[id].held =>
    /\ pending[id].path = open
    /\ pending[id].version <= version
    /\ pending[id].version = version => pending[id].text = sent

IInv == TypeOK /\ Serving /\ SlotsMatch /\ VersionNamesText

(***************************************************************************)
(* Lemmas on the table of requests.                                        *)
(***************************************************************************)
\* The table is well formed on its own, whatever the slots hold: `base' is the
\* table before a request is raised under the next id.
Base(table) ==
  /\ DOMAIN table \subseteq 1..(nextId - 1)
  /\ \A id \in DOMAIN table : table[id] \in Requests
  /\ \A k \in Kinds : slot[k] \in DOMAIN table => table[slot[k]].kind = k
  /\ slot["symbols"] \in DOMAIN table => symbolsFor = table[slot["symbols"]].path

\* Taking an answer out of the table leaves the others as they were.
LEMMA AnsweredDomain ==
  ASSUME NEW id
  PROVE  /\ DOMAIN Answered(id) = DOMAIN pending \ {id}
         /\ \A i \in DOMAIN Answered(id) : Answered(id)[i] = pending[i]
BY DEF Answered

LEMMA AnsweredBase ==
  ASSUME IInv, NEW id PROVE Base(Answered(id))
BY AnsweredDomain DEF IInv, TypeOK, Serving, SlotsMatch, Base

\* Another document is opened: what was asked before is history.
LEMMA ClosedBase ==
  ASSUME NEW table, Base(table)
  PROVE  /\ Base(Closed(table)) /\ DOMAIN Closed(table) = DOMAIN table
         /\ \A id \in DOMAIN table : ~Closed(table)[id].held
<1>1. /\ DOMAIN Closed(table) = DOMAIN table
      /\ \A id \in DOMAIN table : Closed(table)[id] = [table[id] EXCEPT !.held = FALSE]
  BY DEF Closed
<1>2. ASSUME NEW id \in DOMAIN table
      PROVE  /\ Closed(table)[id] \in Requests /\ ~Closed(table)[id].held
             /\ Closed(table)[id].kind = table[id].kind
             /\ Closed(table)[id].path = table[id].path
  <2>1. table[id] \in Requests /\ Closed(table)[id] = [table[id] EXCEPT !.held = FALSE]
    BY <1>1 DEF Base
  <2> QED
    BY <2>1 DEF Requests
<1> QED
  BY <1>1, <1>2 DEF Base

\* A request raised under the next id, with its slot, keeps the slots right.
LEMMA RaisedKeeps ==
  ASSUME IInv, NEW table, Base(table), NEW about \in Requests,
         pending' = Raised(table, nextId, about), nextId' = nextId + 1,
         slot' \in [Kinds -> {NoId, nextId} \cup {slot[k] : k \in Kinds}],
         \A k \in Kinds : slot'[k] \in {NoId, slot[k]} \/ (slot'[k] = nextId /\ about.kind = k),
         slot'["symbols"] = nextId => symbolsFor' = about.path,
         slot'["symbols"] = slot["symbols"] => symbolsFor' = symbolsFor
  PROVE  /\ DOMAIN pending' = DOMAIN table \cup {nextId} /\ pending'[nextId] = about
         /\ nextId \notin DOMAIN table
         /\ \A id \in DOMAIN table : pending'[id] = table[id]
         /\ DOMAIN pending' \subseteq 1..(nextId' - 1)
         /\ \A id \in DOMAIN pending' : pending'[id] \in Requests
         /\ nextId' \in Nat \ {0}
         /\ slot' \in [Kinds -> 0..(nextId' - 1)]
         /\ SlotsMatch'
<1>1. nextId \in Nat \ {0} /\ slot \in [Kinds -> 0..(nextId - 1)]
  BY DEF IInv, TypeOK, Serving
<1>2. /\ DOMAIN pending' = DOMAIN table \cup {nextId} /\ pending'[nextId] = about
      /\ \A id \in DOMAIN table : id # nextId => pending'[id] = table[id]
  BY DEF Raised
<1>3. nextId \notin DOMAIN table /\ 0 \notin DOMAIN table
  BY <1>1 DEF Base
<1>4. \A id \in DOMAIN table : pending'[id] = table[id]
  BY <1>2, <1>3
<1>5. DOMAIN pending' \subseteq 1..(nextId' - 1)
  BY <1>1, <1>2 DEF Base
<1>6. \A id \in DOMAIN pending' : pending'[id] \in Requests
  BY <1>2, <1>4 DEF Base
<1>7. slot' \in [Kinds -> 0..(nextId' - 1)]
  BY <1>1 DEF NoId
<1>8. ASSUME NEW k \in Kinds, slot'[k] \in DOMAIN pending'
      PROVE  /\ pending'[slot'[k]].kind = k
             /\ k = "symbols" => symbolsFor' = pending'[slot'[k]].path
  <2>1. slot[k] # nextId /\ slot'[k] # NoId
    BY <1>1, <1>2, <1>3, <1>8 DEF NoId
  <2>2. CASE slot'[k] = nextId
    BY <1>2, <2>1, <2>2
  <2>3. CASE slot'[k] = slot[k]
    <3>1. slot[k] \in DOMAIN table /\ pending'[slot[k]] = table[slot[k]]
      BY <1>2, <1>4, <1>8, <2>1, <2>3
    <3> QED
      BY <2>3, <3>1 DEF Base
  <2> QED
    BY <2>1, <2>2, <2>3
<1>9. SlotsMatch'
  BY <1>8 DEF SlotsMatch, Kinds
<1> QED
  BY <1>1, <1>2, <1>3, <1>4, <1>5, <1>6, <1>7, <1>9

(***************************************************************************)
(* The initial states and each step.                                       *)
(***************************************************************************)
\* Nothing has been asked.
LEMMA InitIInv == Init => IInv
<1> SUFFICES ASSUME Init PROVE IInv
  OBVIOUS
<1>1. /\ nextId = 1 /\ running = FALSE /\ DOMAIN pending = {}
      /\ slot = [k \in Kinds |-> NoId]
  BY DEF Init
<1>2. NoText \in Description
  BY AnswersAssumption DEF NoText, Description
<1>3. TypeOK
  BY <1>1, <1>2, AnswersAssumption DEF Init, TypeOK, NoId
<1> QED
  <2>1. Serving
    <3>1. nextId \in Nat \ {0}
      BY <1>1
    <3>2. running \in BOOLEAN
      BY <1>1, Zenon
    <3> QED
      BY <1>1, <3>1, <3>2 DEF Serving
  <2>2. SlotsMatch
    BY <1>1 DEF SlotsMatch
  <2>3. VersionNamesText
    BY <1>1 DEF VersionNamesText
  <2> QED
    BY <1>3, <2>1, <2>2, <2>3 DEF IInv

\* The text of a document, and the tabs, change: the requests do not.
LEMMA EditStep == ASSUME IInv, Edit PROVE IInv'
<1>1. /\ text[shown] < MaxText /\ text' = [text EXCEPT ![shown] = @ + 1]
      /\ stage' = "changed"
      /\ UNCHANGED <<shown, tokens, running, servers, open, sent, version, nextId,
                     pending, slot, symbolsFor>>
  BY DEF Edit, serverVars, slotVars
<1>2. text' \in [Paths -> 0..MaxText]
  BY <1>1, AnswersAssumption DEF IInv, TypeOK
<1>3. TypeOK'
  BY <1>1, <1>2 DEF IInv, TypeOK
<1> QED
  BY <1>1, <1>3 DEF IInv, Serving, SlotsMatch, VersionNamesText

\* A key asks about the document on screen, which the server has open.
LEMMA AskStep == ASSUME IInv, NEW kind \in AskedKinds, Ask(kind) PROVE IInv'
<1> DEFINE about == About(kind, shown, sent, version)
           rest == IF kind = "hover" THEN Answered(slot["hover"]) ELSE pending
<1>1. /\ running /\ open = shown /\ pending' = Raised(rest, nextId, about)
      /\ nextId' = nextId + 1 /\ slot' = [slot EXCEPT ![kind] = nextId]
      /\ symbolsFor' = (IF kind = "symbols" THEN shown ELSE symbolsFor)
      /\ stage' = "changed"
      /\ UNCHANGED <<text, shown, tokens, running, servers, open, sent, version>>
  BY DEF Ask, docVars
<1>2. kind \in Kinds
  BY AnswersAssumption DEF Kinds
<1>3. /\ about \in Requests /\ about.kind = kind /\ about.path = shown /\ about.held
      /\ about.text = sent /\ about.version = version
  BY <1>2 DEF About, Requests, IInv, TypeOK
<1>4. Base(rest)
  <2>1. Base(pending)
    BY DEF IInv, TypeOK, Serving, SlotsMatch, Base
  <2> QED
    BY <2>1, AnsweredBase
<1>5. DOMAIN rest \subseteq DOMAIN pending /\ \A id \in DOMAIN rest : rest[id] = pending[id]
  BY AnsweredDomain
<1> HIDE DEF about, rest
<1>6. /\ slot \in [Kinds -> 0..(nextId - 1)] /\ nextId \in Nat \ {0}
      /\ slot' \in [Kinds -> {NoId, nextId} \cup {slot[k] : k \in Kinds}]
      /\ \A k \in Kinds : slot'[k] \in {NoId, slot[k]} \/ (slot'[k] = nextId /\ kind = k)
      /\ "symbols" \in Kinds /\ slot["symbols"] # nextId
  BY <1>1, <1>2 DEF IInv, TypeOK, Serving, Kinds
<1>7. /\ slot'["symbols"] = nextId => symbolsFor' = shown
      /\ slot'["symbols"] = slot["symbols"] => symbolsFor' = symbolsFor
  BY <1>1, <1>2, <1>6
<1>8. /\ DOMAIN pending' = DOMAIN rest \cup {nextId} /\ pending'[nextId] = about
      /\ \A id \in DOMAIN rest : pending'[id] = rest[id]
      /\ DOMAIN pending' \subseteq 1..(nextId' - 1)
      /\ \A id \in DOMAIN pending' : pending'[id] \in Requests
      /\ nextId' \in Nat \ {0}
      /\ slot' \in [Kinds -> 0..(nextId' - 1)]
      /\ SlotsMatch'
  BY <1>1, <1>3, <1>4, <1>6, <1>7, RaisedKeeps
<1>9. symbolsFor' \in Paths \cup {NoPath}
  BY <1>1 DEF IInv, TypeOK
<1>10. TypeOK'
  BY <1>1, <1>8, <1>9 DEF IInv, TypeOK, Requests
<1>11. Serving'
  BY <1>1, <1>8 DEF IInv, Serving
<1>12. VersionNamesText'
  <2>1. version \in Nat
    BY DEF IInv, TypeOK
  <2> QED
    BY <1>1, <1>3, <1>5, <1>8, <2>1 DEF IInv, VersionNamesText
<1> QED
  BY <1>8, <1>10, <1>11, <1>12 DEF IInv

\* The tokens of the document are asked for, or were already.
LEMMA TokensKeep ==
  ASSUME IInv, NEW p \in Paths, NEW t \in 0..MaxText, NEW v \in Nat,
         NEW base, Base(base), RequestTokens(p, t, v, base), symbolsFor' = symbolsFor
  PROVE  /\ DOMAIN pending' \subseteq 1..(nextId' - 1)
         /\ \A id \in DOMAIN pending' : pending'[id] \in Requests
         /\ nextId' \in Nat \ {0}
         /\ slot' \in [Kinds -> 0..(nextId' - 1)]
         /\ SlotsMatch'
         /\ \A id \in DOMAIN pending' :
              \/ id \in DOMAIN base /\ pending'[id] = base[id]
              \/ pending'[id] = About("semantic", p, t, v)
<1> DEFINE about == About("semantic", p, t, v)
<1>1. slot \in [Kinds -> 0..(nextId - 1)] /\ nextId \in Nat \ {0}
  BY DEF IInv, TypeOK, Serving
<1>2. about \in Requests /\ about.kind = "semantic"
  BY DEF About, Requests, Kinds
<1> HIDE DEF about
<1>3. CASE slot["semantic"] = NoId /\ CanRaise
  <2>1. /\ pending' = Raised(base, nextId, about) /\ nextId' = nextId + 1
        /\ slot' = [slot EXCEPT !["semantic"] = nextId, !["hover"] =
                      IF p = open THEN @ ELSE NoId]
    BY <1>3 DEF RequestTokens, about
  <2>2. /\ slot' \in [Kinds -> {NoId, nextId} \cup {slot[k] : k \in Kinds}]
        /\ \A k \in Kinds :
             slot'[k] \in {NoId, slot[k]} \/ (slot'[k] = nextId /\ k = "semantic")
        /\ slot'["symbols"] = slot["symbols"] /\ slot["symbols"] # nextId
    BY <1>1, <2>1 DEF Kinds
  <2>3. /\ DOMAIN pending' = DOMAIN base \cup {nextId} /\ pending'[nextId] = about
        /\ \A id \in DOMAIN base : pending'[id] = base[id]
        /\ DOMAIN pending' \subseteq 1..(nextId' - 1)
        /\ \A id \in DOMAIN pending' : pending'[id] \in Requests
        /\ nextId' \in Nat \ {0}
        /\ slot' \in [Kinds -> 0..(nextId' - 1)]
        /\ SlotsMatch'
    BY <1>2, <2>1, <2>2, RaisedKeeps
  <2> QED
    BY <2>3 DEF about
<1>4. CASE ~(slot["semantic"] = NoId /\ CanRaise)
  <2>1. /\ pending' = base /\ nextId' = nextId
        /\ slot' = [slot EXCEPT !["hover"] = IF p = open THEN @ ELSE NoId]
    BY <1>4 DEF RequestTokens
  <2>2. /\ slot' \in [Kinds -> 0..(nextId' - 1)]
        /\ \A k \in Kinds : slot'[k] \in {NoId, slot[k]}
        /\ slot'["symbols"] = slot["symbols"]
    BY <1>1, <2>1 DEF Kinds, NoId
  <2>3. NoId \notin DOMAIN base
    BY <1>1 DEF Base, NoId
  <2>4. SlotsMatch'
    BY <2>1, <2>2, <2>3 DEF SlotsMatch, Base
  <2> QED
    BY <1>1, <2>1, <2>2, <2>4 DEF Base
<1> QED
  BY <1>3, <1>4

\* Another document is opened at version one: nothing that was asked before is
\* held against it.
LEMMA SwitchStep == ASSUME IInv, NEW p \in Paths, Switch(p) PROVE IInv'
<1> DEFINE base == Closed(Answered(slot["hover"]))
           about == About("semantic", p, text[p], 1)
<1>1. /\ running /\ shown' = p /\ open' = p /\ sent' = text[p] /\ version' = 1
      /\ RequestTokens(p, text[p], 1, base) /\ stage' = "changed"
      /\ UNCHANGED <<text, tokens, symbolsFor, running, servers>>
  BY DEF Switch, OpenShown
<1>2. Base(base) /\ \A id \in DOMAIN base : ~base[id].held
  BY AnsweredBase, ClosedBase
<1>3. text[p] \in 0..MaxText /\ 1 \in Nat
  BY DEF IInv, TypeOK
<1> HIDE DEF base
<1>4. /\ DOMAIN pending' \subseteq 1..(nextId' - 1)
      /\ \A id \in DOMAIN pending' : pending'[id] \in Requests
      /\ nextId' \in Nat \ {0}
      /\ slot' \in [Kinds -> 0..(nextId' - 1)]
      /\ SlotsMatch'
      /\ \A id \in DOMAIN pending' :
           (id \in DOMAIN base /\ pending'[id] = base[id]) \/ pending'[id] = about
  BY <1>1, <1>2, <1>3, TokensKeep
<1>5. about.path = p /\ about.text = text[p] /\ about.version = 1
  BY DEF About
<1> HIDE DEF about
<1>6. TypeOK'
  BY <1>1, <1>3, <1>4 DEF IInv, TypeOK, Requests
<1>7. Serving'
  BY <1>1, <1>4 DEF IInv, Serving
<1>8. VersionNamesText'
  BY <1>1, <1>2, <1>4, <1>5 DEF VersionNamesText
<1> QED
  BY <1>4, <1>6, <1>7, <1>8 DEF IInv

\* A server is started: its ids start again, and every slot is cleared.
LEMMA SwitchStartsStep == ASSUME IInv, NEW p \in Paths, SwitchStarts(p) PROVE IInv'
<1> DEFINE about == About("semantic", p, text[p], 1)
<1>1. /\ shown' = p /\ running' = TRUE /\ open' = p /\ sent' = text[p] /\ version' = 1
      /\ slot' = [k \in Kinds |-> IF k = "semantic" THEN 2 ELSE NoId]
      /\ symbolsFor' = NoPath /\ pending' = [i \in {2} |-> about] /\ nextId' = 3
      /\ stage' = "changed" /\ UNCHANGED <<text, tokens>>
  BY DEF SwitchStarts
<1>2. text[p] \in 0..MaxText
  BY DEF IInv, TypeOK
<1>3. /\ about \in Requests /\ about.kind = "semantic" /\ about.path = p
      /\ about.text = text[p] /\ about.version = 1
  BY <1>2 DEF About, Requests, Kinds
<1> HIDE DEF about
<1>4. DOMAIN pending' = {2} /\ pending'[2] = about
  BY <1>1
<1>5. /\ slot' \in [Kinds -> 0..2] /\ slot'["symbols"] = 0
      /\ \A k \in Kinds : slot'[k] = 2 => k = "semantic"
  BY <1>1 DEF Kinds, NoId
<1>6. TypeOK'
  BY <1>1, <1>2, <1>3, <1>4, <1>5 DEF IInv, TypeOK, Requests
<1>7. Serving' /\ VersionNamesText'
  BY <1>1, <1>3, <1>4 DEF Serving, VersionNamesText
<1>8. SlotsMatch'
  BY <1>3, <1>4, <1>5 DEF SlotsMatch
<1> QED
  BY <1>6, <1>7, <1>8 DEF IInv

\* A changed text is sent under the next version.
LEMMA ChangedStep == ASSUME IInv, Changed PROVE IInv'
<1>1. /\ stage' = "idle"
      /\ UNCHANGED <<text, shown, running, servers, open, symbolsFor>>
  BY DEF Changed
<1>2. CASE running /\ open = shown /\ sent # text[shown]
  <2> DEFINE about == About("semantic", open, text[shown], version + 1)
  <2>1. /\ sent' = text[shown] /\ version' = version + 1
        /\ tokens' = [tokens EXCEPT ![shown] = NoText]
        /\ RequestTokens(open, text[shown], version + 1, pending)
    BY <1>2 DEF Changed
  <2>2. /\ open \in Paths /\ text[shown] \in 0..MaxText /\ version \in Nat
        /\ version + 1 \in Nat
    BY <1>2 DEF IInv, TypeOK
  <2>3. Base(pending)
    BY DEF IInv, TypeOK, Serving, SlotsMatch, Base
  <2>4. /\ DOMAIN pending' \subseteq 1..(nextId' - 1)
        /\ \A id \in DOMAIN pending' : pending'[id] \in Requests
        /\ nextId' \in Nat \ {0}
        /\ slot' \in [Kinds -> 0..(nextId' - 1)]
        /\ SlotsMatch'
        /\ \A id \in DOMAIN pending' :
             (id \in DOMAIN pending /\ pending'[id] = pending[id]) \/ pending'[id] = about
    <3> DEFINE t == text[shown]
               v == version + 1
    <3>1. open \in Paths /\ t \in 0..MaxText /\ v \in Nat
      BY <2>2
    <3>2. RequestTokens(open, t, v, pending) /\ symbolsFor' = symbolsFor
      BY <1>1, <2>1
    <3>3. about = About("semantic", open, t, v)
      OBVIOUS
    <3> HIDE DEF t, v, about
    <3> QED
      BY <2>3, <3>1, <3>2, <3>3, TokensKeep
  <2>5. about.path = open /\ about.text = text[shown] /\ about.version = version + 1
    BY DEF About
  <2> HIDE DEF about
  <2>6. tokens' \in [Paths -> Description]
    <3>1. NoText \in Description
      BY AnswersAssumption DEF NoText, Description
    <3> QED
      BY <2>1, <3>1 DEF IInv, TypeOK
  <2>7. TypeOK'
    BY <1>1, <2>1, <2>2, <2>4, <2>6 DEF IInv, TypeOK, Requests
  <2>8. Serving'
    BY <1>1, <1>2, <2>4 DEF IInv, Serving
  <2>9. VersionNamesText'
    <3> SUFFICES ASSUME NEW id \in DOMAIN pending', pending'[id].held
                 PROVE  /\ pending'[id].path = open
                        /\ pending'[id].version <= version + 1
                        /\ pending'[id].version = version + 1 =>
                             pending'[id].text = text[shown]
      BY <1>1, <2>1 DEF VersionNamesText
    <3>1. CASE pending'[id] = about
      BY <2>2, <2>5, <3>1
    <3>2. CASE id \in DOMAIN pending /\ pending'[id] = pending[id]
      <4>1. /\ pending[id].path = open /\ pending[id].version <= version
            /\ pending[id].version \in Nat
        BY <3>2 DEF IInv, VersionNamesText, Serving, Requests
      <4> QED
        BY <2>2, <3>2, <4>1
    <3> QED
      BY <2>4, <3>1, <3>2
  <2> QED
    BY <2>4, <2>7, <2>8, <2>9 DEF IInv
<1>3. CASE ~(running /\ open = shown /\ sent # text[shown])
  <2>1. UNCHANGED <<sent, version, tokens, pending, nextId, slot>>
    BY <1>3 DEF Changed
  <2>2. TypeOK'
    BY <1>1, <2>1 DEF IInv, TypeOK
  <2> QED
    BY <1>1, <2>1, <2>2 DEF IInv, Serving, SlotsMatch, VersionNamesText
<1> QED
  BY <1>2, <1>3

\* An answer takes its request out of the table, and may clear slots.
LEMMA AnswerStep == ASSUME IInv, Answer PROVE IInv'
<1>1. PICK id \in DOMAIN pending :
         /\ pending' = Answered(id)
         /\ \/ AnswerUnawaited(id) \/ AnswerTokens(id) \/ AnswerHover(id)
            \/ AnswerFormat(id) \/ AnswerRename(id) \/ AnswerSymbols(id)
            \/ AnswerDefinition(id) \/ AnswerError(id)
  BY DEF Answer
<1>2. UNCHANGED <<running, servers, open, sent, version, nextId>> /\ running
  BY DEF Answer
<1>3. /\ DOMAIN pending' = DOMAIN pending \ {id}
      /\ \A i \in DOMAIN pending' : pending'[i] = pending[i]
  BY <1>1, AnsweredDomain
<1>4. /\ text \in [Paths -> 0..MaxText] /\ shown \in Paths
      /\ tokens \in [Paths -> Description] /\ stage \in {"idle", "changed"}
      /\ slot \in [Kinds -> 0..(nextId - 1)] /\ nextId \in Nat \ {0}
      /\ pending[id] \in Requests
  BY DEF IInv, TypeOK, Serving
<1>5. /\ text' \in [Paths -> 0..MaxText] /\ shown' = shown
      /\ symbolsFor' = symbolsFor /\ stage' \in {"idle", "changed"}
  <2>1. CASE AnswerFormat(id)
    BY <1>4, <2>1, AnswersAssumption DEF AnswerFormat
  <2>2. CASE AnswerRename(id)
    <3>1. shown' = shown /\ symbolsFor' = symbolsFor
      BY <2>2 DEF AnswerRename
    <3>2. \/ UNCHANGED <<text, stage>>
          \/ \E p \in Paths : /\ text[p] < MaxText /\ text' = [text EXCEPT ![p] = @ + 1]
                              /\ stage' = "changed"
      BY <1>4, <2>2 DEF AnswerRename, Requests
    <3> QED
      BY <1>4, <3>1, <3>2, AnswersAssumption
  <2>3. CASE AnswerUnawaited(id) \/ AnswerTokens(id) \/ AnswerHover(id)
             \/ AnswerSymbols(id) \/ AnswerDefinition(id) \/ AnswerError(id)
    BY <1>4, <2>3 DEF AnswerUnawaited, AnswerTokens, AnswerHover, AnswerSymbols,
                      AnswerDefinition, AnswerError, docVars, slotVars
  <2> QED
    BY <1>1, <2>1, <2>2, <2>3
<1>6. tokens' \in [Paths -> Description]
  <2>1. CASE AnswerTokens(id)
    <3>1. [path |-> pending[id].path, text |-> pending[id].text] \in Description
      BY <1>4 DEF Requests, Description
    <3> QED
      BY <1>4, <2>1, <3>1 DEF AnswerTokens
  <2>2. CASE ~AnswerTokens(id)
    BY <1>1, <1>4, <2>2
       DEF AnswerUnawaited, AnswerHover, AnswerFormat, AnswerRename, AnswerSymbols,
           AnswerDefinition, AnswerError, docVars
  <2> QED
    BY <2>1, <2>2
<1>7. /\ slot' \in [Kinds -> 0..(nextId - 1)]
      /\ \A k \in Kinds : slot'[k] \in {NoId, slot[k]}
  <2>1. slot' = slot \/ \E k \in Kinds : \/ slot' = [slot EXCEPT ![k] = NoId]
                                         \/ slot' = [slot EXCEPT ![k] = NoId,
                                                                 !["semantic"] = NoId]
    BY <1>1 DEF AnswerUnawaited, AnswerTokens, AnswerHover, AnswerFormat, AnswerRename,
                AnswerSymbols, AnswerDefinition, AnswerError, slotVars, Kinds
  <2> QED
    BY <1>4, <2>1 DEF NoId
<1>8. TypeOK'
  BY <1>2, <1>3, <1>5, <1>6, <1>7 DEF IInv, TypeOK
<1>9. Serving'
  BY <1>2, <1>3 DEF IInv, Serving
<1>10. SlotsMatch'
  <2>1. NoId \notin DOMAIN pending
    BY <1>4 DEF IInv, TypeOK, NoId
  <2>2. "symbols" \in Kinds
    BY DEF Kinds
  <2> QED
    BY <1>3, <1>5, <1>7, <2>1, <2>2 DEF IInv, SlotsMatch
<1>11. VersionNamesText'
  BY <1>2, <1>3 DEF IInv, VersionNamesText
<1> QED
  BY <1>8, <1>9, <1>10, <1>11 DEF IInv

\* A server that stops owes nothing.
LEMMA StoppedStep == ASSUME IInv, Stopped PROVE IInv'
<1>1. /\ running' = FALSE /\ open' = NoPath /\ DOMAIN pending' = {}
      /\ slot' = [k \in Kinds |-> IF k = "symbols" THEN slot[k] ELSE NoId]
      /\ UNCHANGED <<text, shown, tokens, servers, sent, version, nextId, symbolsFor, stage>>
  BY DEF Stopped, docVars
<1>2. slot' \in [Kinds -> 0..(nextId - 1)]
  BY <1>1 DEF IInv, TypeOK, Serving, NoId
<1>3. TypeOK'
  BY <1>1, <1>2 DEF IInv, TypeOK
<1> QED
  BY <1>1, <1>3 DEF IInv, Serving, SlotsMatch, VersionNamesText

\* Every key, answer, start and stop preserves the invariant.
LEMMA NextIInv == IInv /\ [Next]_vars => IInv'
<1> SUFFICES ASSUME IInv, [Next]_vars PROVE IInv'
  OBVIOUS
<1>1. CASE UNCHANGED vars
  <2>1. UNCHANGED <<text, shown, tokens, running, servers, open, sent, version, nextId,
                    pending, slot, symbolsFor, stage>>
    BY <1>1 DEF vars, docVars, serverVars, slotVars
  <2>2. TypeOK'
    BY <2>1 DEF IInv, TypeOK
  <2> QED
    BY <2>1, <2>2 DEF IInv, Serving, SlotsMatch, VersionNamesText
<1> QED
  BY <1>1, EditStep, ChangedStep, AnswerStep, StoppedStep, AskStep, SwitchStep,
     SwitchStartsStep DEF Next

(***************************************************************************)
(* The theorems.                                                           *)
(***************************************************************************)
\* The inductive invariant holds whatever order the answers come in.
THEOREM Invariance == Spec => []IInv
<1> QED
  BY InitIInv, NextIInv, PTL DEF Spec

\* No answer is taken for one of another kind, of another server, or about
\* another document.
THEOREM AnswersFindTheirRequests == Spec => []SlotsMatchRequests
<1>1. IInv => SlotsMatchRequests
  BY DEF IInv, SlotsMatch, SlotsMatchRequests
<1> QED
  BY Invariance, <1>1, PTL

\* A rename is applied to the text it was computed from, for as long as the
\* document has stayed open and holds nothing unsent.
THEOREM VersionCheckSuffices == Spec => CurrentVersionIsCurrentText
<1> DEFINE Step ==
      \A id \in DOMAIN pending :
        AnswerRename(id) /\ text' # text =>
          LET p == pending[id].path IN
          open = p /\ pending[id].held /\ sent = text[p] =>
             pending[id].text = text[p]
<1>1. IInv => Step
  <2> SUFFICES ASSUME IInv, NEW id \in DOMAIN pending, AnswerRename(id), text' # text,
                      open = pending[id].path, pending[id].held,
                      sent = text[pending[id].path]
               PROVE  pending[id].text = text[pending[id].path]
    OBVIOUS
  <2>1. VersionHolds(id)
    BY DEF AnswerRename
  <2>2. version = pending[id].version
    BY <2>1 DEF VersionHolds
  <2> QED
    BY <2>2 DEF IInv, VersionNamesText
<1>2. IInv /\ [Next]_vars => [Step]_vars
  BY <1>1
<1> QED
  BY Invariance, <1>2, PTL DEF Spec, CurrentVersionIsCurrentText

(***************************************************************************)
(* The process's end: what the invariant says of its pipes and threads.    *)
(***************************************************************************)
\* Every line written is in the pipe or in the log.
LinesAccounted == wrote = logged + err /\ wrote <= output

\* What the server has begun to write is within the bound.
OutputBounded == child \in {"writing", "logging"} => output < MaxOutput

\* A pump that has ended has read all there will ever be.
PumpEnds == errPump = "done" => err = 0 /\ Exited

DrainedLog == tail = "complete" => errPump = "done"

\* The joins come after the exit, and in their order.
Joins ==
  /\ pc \in {"join out", "join err", "gone"} => Exited
  /\ pc \in {"join err", "gone"} => outPump = "done"
  /\ pc = "gone" => errPump = "done"

PInv ==
  ProcessTypeOK /\ LinesAccounted /\ OutputBounded /\ PumpEnds /\ DrainedLog /\ Joins

(***************************************************************************)
(* Lemmas on the pipes.                                                    *)
(***************************************************************************)
\* One more message in a pipe that is not full.
LEMMA PipeAppend ==
  ASSUME NEW S, NEW s \in Seq(S), NEW e \in S
  PROVE  Append(s, e) \in Seq(S) /\ Len(Append(s, e)) = Len(s) + 1 /\ Len(s) \in Nat
BY AppendProperties, LenProperties

\* The message at the head of a pipe is taken out.
LEMMA PipeTail ==
  ASSUME NEW S, NEW s \in Seq(S), s # <<>>
  PROVE  /\ Tail(s) \in Seq(S) /\ Head(s) \in S
         /\ Len(Tail(s)) = Len(s) - 1 /\ Len(s) \in Nat
BY HeadTailProperties, LenProperties

\* What a call of the editor writes, if it goes through.
LEMMA SendKeeps ==
  ASSUME ProcessTypeOK,
         NEW message \in {"message", "exit"}, Send(message)
  PROVE  stdin' \in Seq({"message", "exit"}) /\ Len(stdin') <= MaxPipe
<1>1. stdin \in Seq({"message", "exit"}) /\ Len(stdin) <= MaxPipe
  BY DEF ProcessTypeOK
<1>2. CASE stdin' = stdin
  BY <1>1, <1>2
<1>3. CASE Len(stdin) < MaxPipe /\ stdin' = Append(stdin, message)
  <2>1. stdin' \in Seq({"message", "exit"}) /\ Len(stdin') = Len(stdin) + 1
        /\ Len(stdin) \in Nat
    BY <1>1, <1>3, PipeAppend
  <2> QED
    BY ProcessAssumption, <1>3, <2>1
<1> QED
  BY <1>2, <1>3 DEF Send

(***************************************************************************)
(* The initial states and each step.                                       *)
(***************************************************************************)
\* The server has just been started, with its two pumps.
LEMMA InitPInv == ProcessInit => PInv
<1> SUFFICES ASSUME ProcessInit PROVE PInv
  OBVIOUS
<1>1. /\ <<>> \in Seq({"message", "exit"})
      /\ <<>> \in Seq({"frame", "request", "bad"})
      /\ <<>> \in Seq({"frame", "request", "closed", "failed"})
      /\ Len(<<>>) = 0
  BY EmptySeq
<1>2. ProcessTypeOK
  BY ProcessAssumption, <1>1 DEF ProcessInit, ProcessTypeOK, Calls
<1> QED
  BY <1>2 DEF PInv, ProcessInit, LinesAccounted, OutputBounded, PumpEnds,
              DrainedLog, Joins

\* The editor's thread moves on without touching the server's output.
LEMMA EditorMoves ==
  ASSUME PInv, pc' \in Calls \cup {"idle"},
         writes' \in 0..MaxWrites,
         pc' = "join out" => Exited,
         pc' = "join err" => Exited /\ outPump = "done",
         stdin' \in Seq({"message", "exit"}), Len(stdin') <= MaxPipe,
         stdinOpen' \in BOOLEAN,
         inbox' \in Seq({"frame", "request", "closed", "failed"}),
         tail' \in {"unread", "partial", "complete"},
         tail' = "complete" => errPump = "done",
         UNCHANGED <<out, err, childVars, outPump, errPump, logged>>
  PROVE  PInv'
<1>1. UNCHANGED <<out, err, child, output, wrote, holds, outPump, errPump, logged>>
  BY DEF childVars
<1>2. ProcessTypeOK'
  BY <1>1 DEF PInv, ProcessTypeOK
<1>3. LinesAccounted' /\ OutputBounded' /\ PumpEnds' /\ DrainedLog'
  BY <1>1 DEF PInv, LinesAccounted, OutputBounded, PumpEnds, DrainedLog,
              Exited
<1>4. Joins'
  BY <1>1 DEF Joins, Exited, Calls
<1> QED
  BY <1>2, <1>3, <1>4 DEF PInv

\* A call begins.
LEMMA CallStep == ASSUME PInv, Call PROVE PInv'
<1>1. UNCHANGED <<stdin, stdinOpen, out, err, childVars, outPump,
                  errPump, inbox, logged, tail>>
  BY DEF Call, pipes, pumpVars
<1>2. pc' \in Calls \cup {"idle"} /\ pc' \notin {"join out", "join err"}
  BY DEF Call, Calls
<1>3. writes' \in 0..MaxWrites
  BY ProcessAssumption DEF Call, PInv, ProcessTypeOK
<1>4. /\ stdin' \in Seq({"message", "exit"}) /\ Len(stdin') <= MaxPipe
      /\ stdinOpen' \in BOOLEAN
      /\ inbox' \in Seq({"frame", "request", "closed", "failed"})
      /\ tail' \in {"unread", "partial", "complete"}
      /\ (tail' = "complete" => errPump = "done")
  BY <1>1 DEF PInv, ProcessTypeOK, DrainedLog
<1> QED
  BY <1>1, <1>2, <1>3, <1>4, EditorMoves

\* A step of the editor's thread other than the last, and the kill.
LEMMA EditorStepKeeps ==
  ASSUME PInv, EditorStep, ~WaitKill, ~JoinErr
  PROVE  PInv'
<1>1. /\ stdin \in Seq({"message", "exit"}) /\ Len(stdin) <= MaxPipe
      /\ stdinOpen \in BOOLEAN /\ writes \in 0..MaxWrites
      /\ inbox \in Seq({"frame", "request", "closed", "failed"})
      /\ tail \in {"unread", "partial", "complete"}
      /\ (tail = "complete" => errPump = "done")
  BY DEF PInv, ProcessTypeOK, DrainedLog
<1>2. CASE Write
  <2>1. stdin' \in Seq({"message", "exit"}) /\ Len(stdin') <= MaxPipe
    BY <1>2, SendKeeps DEF Write, PInv
  <2>2. /\ pc' = "idle"
        /\ UNCHANGED <<writes, stdinOpen, out, err, childVars, outPump,
                       errPump, inbox, logged, tail>>
    BY <1>2 DEF Write, pumpVars
  <2> QED
    BY <1>1, <2>1, <2>2, EditorMoves
<1>3. CASE PollEvent
  <2>1. inbox' \in Seq({"frame", "request", "closed", "failed"})
    BY <1>1, <1>3, PipeTail DEF PollEvent
  <2>2. pc' \in {"poll", "answer", "drain exit"}
    BY <1>3 DEF PollEvent
  <2>3. UNCHANGED <<writes, stdin, stdinOpen, out, err, childVars,
                    outPump, errPump, logged, tail>>
    BY <1>3 DEF PollEvent, pipes
  <2> QED
    BY <1>1, <2>1, <2>2, <2>3, EditorMoves DEF Calls
<1>4. CASE PollEnd \/ DrainExit \/ WaitExit
             \/ JoinOut
  <2>1. /\ pc' \in {"drain exit", "idle", "drain pump", "join out", "join err"}
        /\ pc' = "join out" => Exited
        /\ pc' = "join err" => pc = "join out" /\ outPump = "done"
    BY <1>4 DEF PollEnd, DrainExit, WaitExit,
                JoinOut, Goto
  <2>2. UNCHANGED <<writes, stdin, stdinOpen, out, err, childVars,
                    outPump, errPump, inbox, logged, tail>>
    BY <1>4 DEF PollEnd, DrainExit, WaitExit,
                JoinOut, Goto, pipes, pumpVars
  <2>3. pc = "join out" => Exited
    BY DEF PInv, Joins
  <2> QED
    BY <1>1, <2>1, <2>2, <2>3, EditorMoves DEF Calls
<1>5. CASE AnswerServer
  <2>1. stdin' \in Seq({"message", "exit"}) /\ Len(stdin') <= MaxPipe
    BY <1>5, SendKeeps DEF AnswerServer, PInv
  <2>2. /\ pc' \in {"drain exit", "poll"}
        /\ UNCHANGED <<writes, stdinOpen, out, err, childVars, outPump,
                       errPump, inbox, logged, tail>>
    BY <1>5 DEF AnswerServer, pumpVars
  <2> QED
    BY <1>1, <2>1, <2>2, EditorMoves DEF Calls
<1>6. CASE Drained \/ DrainTimeout
  <2>1. /\ pc' = "drop" /\ tail' \in {"partial", "complete"}
        /\ tail' = "complete" => errPump = "done"
        /\ UNCHANGED <<writes, stdin, stdinOpen, out, err, childVars,
                       outPump, errPump, inbox, logged>>
    BY <1>6 DEF Drained, DrainTimeout, pipes,
                pumpVars
  <2> QED
    BY <1>1, <2>1, EditorMoves DEF Calls
<1>7. CASE Drop
  <2>1. /\ pc' \in {"join out", "wait"} /\ (pc' = "join out" => Exited)
        /\ stdinOpen' \in BOOLEAN
    BY <1>1, <1>7 DEF Drop
  <2>2. UNCHANGED <<writes, stdin, out, err, childVars, outPump,
                    errPump, inbox, logged, tail>>
    BY <1>7 DEF Drop, pumpVars
  <2> QED
    BY <1>1, <2>1, <2>2, EditorMoves DEF Calls
<1>8. CASE BeginStop \/ EndStop
  <2>1. stdin' \in Seq({"message", "exit"}) /\ Len(stdin') <= MaxPipe
    BY <1>8, SendKeeps DEF BeginStop, EndStop, PInv
  <2>2. /\ pc' \in {"exit", "wait"} /\ stdinOpen' \in BOOLEAN
        /\ UNCHANGED <<writes, out, err, childVars, outPump, errPump,
                       inbox, logged, tail>>
    BY <1>1, <1>8 DEF BeginStop, EndStop, pumpVars
  <2> QED
    BY <1>1, <2>1, <2>2, EditorMoves DEF Calls
<1> QED
  BY <1>2, <1>3, <1>4, <1>5, <1>6, <1>7, <1>8 DEF EditorStep

\* A server that does not end in time is killed: that is an exit too.
LEMMA WaitKillStep ==
  ASSUME PInv, WaitKill
  PROVE  PInv'
<1>1. /\ pc = "wait" /\ pc' = "join out" /\ child' = "exited"
      /\ UNCHANGED <<writes, stdin, stdinOpen, out, err, output, wrote, holds,
                     outPump, errPump, inbox, logged, tail>>
  BY DEF WaitKill, pipes, pumpVars
<1>2. ProcessTypeOK'
  BY <1>1 DEF PInv, ProcessTypeOK, Calls
<1> QED
  BY <1>1, <1>2 DEF PInv, LinesAccounted, OutputBounded, PumpEnds, DrainedLog,
                    Joins, Exited

\* The last thread has been joined.
LEMMA JoinErrStep ==
  ASSUME PInv, JoinErr
  PROVE  PInv'
<1>1. /\ pc = "join err" /\ errPump = "done" /\ pc' = "gone"
      /\ UNCHANGED <<writes, stdin, stdinOpen, out, err, child, output, wrote,
                     holds, outPump, errPump, inbox, logged, tail>>
  BY DEF JoinErr, Goto, pipes, childVars,
         pumpVars
<1>2. ProcessTypeOK'
  BY <1>1 DEF PInv, ProcessTypeOK
<1> QED
  BY <1>1, <1>2 DEF PInv, LinesAccounted, OutputBounded, PumpEnds, DrainedLog,
                    Joins, Exited

\* The thread that reads the messages.
LEMMA PumpOutStep ==
  ASSUME PInv, PumpMessage \/ PumpClosed
  PROVE  PInv'
<1> DEFINE Events == {"frame", "request", "closed", "failed"}
           Frames == {"frame", "request", "bad"}
<1>1. UNCHANGED <<pc, writes, stdin, stdinOpen, err, child, output, wrote, holds,
                  errPump, logged, tail>>
  BY DEF PumpMessage, PumpClosed, pipes,
         childVars
<1>2. inbox \in Seq(Events) /\ out \in Seq(Frames) /\ Len(out) <= MaxPipe
  BY DEF PInv, ProcessTypeOK
<1>3. /\ inbox' \in Seq(Events) /\ out' \in Seq(Frames) /\ Len(out') <= MaxPipe
      /\ outPump' \in {"running", "done"} /\ (outPump = "done" => outPump' = "done")
  <2>1. CASE PumpClosed
    <3>1. inbox' \in Seq(Events)
      BY <1>2, <2>1, PipeAppend DEF PumpClosed
    <3> QED
      BY <1>2, <2>1, <3>1 DEF PumpClosed, pipes
  <2>2. CASE PumpMessage /\ Head(out) = "bad"
    <3>1. inbox' \in Seq(Events)
      BY <1>2, <2>2, PipeAppend DEF PumpMessage
    <3>2. out' \in Seq(Frames) /\ Len(out') = 0
      BY <2>2, EmptySeq DEF PumpMessage
    <3> QED
      BY ProcessAssumption, <2>2, <3>1, <3>2 DEF PumpMessage
  <2>3. CASE PumpMessage /\ Head(out) # "bad"
    <3>1. /\ Tail(out) \in Seq(Frames) /\ Head(out) \in Frames
          /\ Len(Tail(out)) = Len(out) - 1 /\ Len(out) \in Nat
      BY <1>2, <2>3, PipeTail DEF PumpMessage
    <3>2. Head(out) \in Events
      BY <2>3, <3>1
    <3>3. inbox' = Append(inbox, Head(out)) /\ out' = Tail(out)
      BY <2>3 DEF PumpMessage
    <3>4. inbox' \in Seq(Events)
      BY <1>2, <3>2, <3>3, PipeAppend
    <3>5. Len(out') <= MaxPipe
      BY ProcessAssumption, <1>2, <3>1, <3>3
    <3> QED
      BY <2>3, <3>1, <3>3, <3>4, <3>5 DEF PumpMessage
  <2> QED
    BY <2>1, <2>2, <2>3
<1>4. ProcessTypeOK'
  BY <1>1, <1>3 DEF PInv, ProcessTypeOK
<1>5. LinesAccounted' /\ OutputBounded' /\ PumpEnds' /\ DrainedLog'
  BY <1>1 DEF PInv, LinesAccounted, OutputBounded, PumpEnds, DrainedLog,
              Exited
<1>6. Joins'
  BY <1>1, <1>3 DEF PInv, Joins, Exited
<1> QED
  BY <1>4, <1>5, <1>6 DEF PInv

\* The thread that reads the log ends when nothing is left, and nobody writes.
LEMMA PumpErrStep ==
  ASSUME PInv, PumpErrLine \/ PumpErrClosed
  PROVE  PInv'
<1>1. /\ UNCHANGED <<pc, writes, stdin, stdinOpen, out, child, output, wrote,
                     holds, outPump, inbox, tail>>
      /\ errPump = "running"
      /\ \/ err > 0 /\ err' = err - 1 /\ logged' = logged + 1 /\ errPump' = errPump
         \/ err = 0 /\ Exited /\ errPump' = "done" /\ UNCHANGED <<err,
                                                                          logged>>
  BY DEF PumpErrLine, PumpErrClosed, PipeClosed, pipes,
         childVars
<1>2. /\ err \in 0..MaxPipe /\ logged \in 0..MaxOutput /\ wrote \in 0..MaxOutput
      /\ wrote = logged + err
  BY DEF PInv, ProcessTypeOK, LinesAccounted
<1>3. /\ err' \in 0..MaxPipe /\ logged' \in 0..MaxOutput /\ wrote = logged' + err'
  BY ProcessAssumption, <1>1, <1>2
<1>4. ProcessTypeOK'
  BY <1>1, <1>3 DEF PInv, ProcessTypeOK
<1>5. LinesAccounted' /\ OutputBounded'
  BY <1>1, <1>3 DEF PInv, LinesAccounted, OutputBounded
<1>6. PumpEnds' /\ DrainedLog' /\ Joins'
  BY <1>1 DEF PInv, PumpEnds, DrainedLog, Joins, Exited
<1> QED
  BY <1>4, <1>5, <1>6 DEF PInv

\* The server does not come back from its exit, and logs only before it.
LEMMA ServerStepKeeps ==
  ASSUME PInv, ServerStep
  PROVE  PInv'
<1> DEFINE Frames == {"frame", "request", "bad"}
<1>1. UNCHANGED <<pc, writes, stdinOpen, outPump, errPump, inbox, logged, tail>>
  BY DEF ServerStep, ServerReads, ServerSpeaks,
         ServerWrites, ServerLogs, ServerExits,
         ServerStartsProcess, ProcessEnds, editorVars,
         pipes, pumpVars
<1>2. /\ stdin \in Seq({"message", "exit"}) /\ Len(stdin) <= MaxPipe
      /\ out \in Seq(Frames) /\ Len(out) <= MaxPipe
      /\ err \in 0..MaxPipe /\ output \in 0..MaxOutput /\ wrote \in 0..MaxOutput
      /\ child \in {"reading", "writing", "logging", "exited"}
      /\ holds \in {{}, Inherited}
  BY DEF PInv, ProcessTypeOK
<1>3. /\ stdin' \in Seq({"message", "exit"}) /\ Len(stdin') <= MaxPipe
      /\ out' \in Seq(Frames) /\ Len(out') <= MaxPipe
      /\ holds' \in {{}, Inherited}
      /\ child' \in {"reading", "writing", "logging", "exited"}
      /\ Exited => child' = "exited"
  <2>1. CASE ServerReads
    <3>1. /\ Tail(stdin) \in Seq({"message", "exit"})
          /\ Len(Tail(stdin)) = Len(stdin) - 1 /\ Len(stdin) \in Nat
      BY <1>2, <2>1, PipeTail DEF ServerReads
    <3>2. stdin' = Tail(stdin) /\ Len(stdin') <= MaxPipe
      BY ProcessAssumption, <1>2, <2>1, <3>1 DEF ServerReads
    <3> QED
      BY <1>2, <2>1, <3>1, <3>2 DEF ServerReads, MayWrite,
                                    Exited
  <2>2. CASE ServerWrites
    <3>1. out' \in Seq(Frames) /\ Len(out') <= MaxPipe
      <4>1. CASE out' = out
        BY <1>2, <4>1
      <4>2. CASE Len(out) < MaxPipe /\ \E frame \in Frames : out' = Append(out,
      frame)
        <5>1. PICK frame \in Frames : out' = Append(out, frame)
          BY <4>2
        <5>2. out' \in Seq(Frames) /\ Len(out') = Len(out) + 1 /\ Len(out) \in Nat
          BY <1>2, <5>1, PipeAppend
        <5> QED
          BY ProcessAssumption, <4>2, <5>2
      <4> QED
        BY <2>2, <4>1, <4>2 DEF ServerWrites
    <3> QED
      BY <1>2, <2>2, <3>1 DEF ServerWrites, Exited
  <2>3. CASE ServerSpeaks \/ ServerLogs
             \/ ServerExits \/ ServerStartsProcess
             \/ ProcessEnds
    BY <1>2, <2>3 DEF ServerSpeaks, ServerLogs,
                      ServerExits, ServerStartsProcess,
                      ProcessEnds, MayWrite, Exited,
                      pipes
  <2> QED
    BY <2>1, <2>2, <2>3 DEF ServerStep
<1>4. /\ err' \in 0..MaxPipe /\ output' \in 0..MaxOutput /\ wrote' \in 0..MaxOutput
      /\ LinesAccounted' /\ (Exited => err' = err)
  <2>1. CASE ServerLogs
    <3>1. /\ child = "logging" /\ output' = output + 1 /\ err < MaxPipe
          /\ err' = err + 1 /\ wrote' = wrote + 1
      BY <2>1 DEF ServerLogs
    <3>2. output < MaxOutput /\ wrote = logged + err /\ wrote <= output
      BY <3>1 DEF PInv, OutputBounded, LinesAccounted
    <3>3. logged \in Nat
      BY ProcessAssumption DEF PInv, ProcessTypeOK
    <3> QED
      BY ProcessAssumption, <1>1, <1>2, <3>1, <3>2, <3>3 DEF LinesAccounted, Exited
  <2>2. CASE ServerWrites
    <3>1. child = "writing" /\ output' = output + 1 /\ err' = err /\ wrote' = wrote
      BY <2>2 DEF ServerWrites
    <3>2. output < MaxOutput
      BY <3>1 DEF PInv, OutputBounded
    <3> QED
      BY ProcessAssumption, <1>1, <1>2, <3>1, <3>2 DEF PInv, LinesAccounted
  <2>3. CASE ServerReads \/ ServerSpeaks
             \/ ServerExits \/ ServerStartsProcess
             \/ ProcessEnds
    <3>1. UNCHANGED <<err, output, wrote>>
      BY <2>3 DEF ServerReads, ServerSpeaks, ServerExits,
                  ServerStartsProcess, ProcessEnds, pipes
    <3> QED
      BY <1>1, <1>2, <3>1 DEF PInv, LinesAccounted
  <2> QED
    BY <2>1, <2>2, <2>3 DEF ServerStep
<1>5. OutputBounded'
  <2>1. CASE ServerReads \/ ServerSpeaks
    <3>1. output' = output /\ child' \in {"exited", "reading"} \cup MayWrite
      BY <2>1 DEF ServerReads, ServerSpeaks
    <3> QED
      BY <3>1 DEF MayWrite, OutputBounded
  <2>2. CASE ServerWrites \/ ServerLogs \/ ServerExits
    BY <2>2 DEF ServerWrites, ServerLogs, ServerExits,
                OutputBounded
  <2>3. CASE ServerStartsProcess \/ ProcessEnds
    BY <2>3 DEF ServerStartsProcess, ProcessEnds, PInv,
                OutputBounded
  <2> QED
    BY <2>1, <2>2, <2>3 DEF ServerStep
<1>6. ProcessTypeOK'
  BY <1>1, <1>3, <1>4 DEF PInv, ProcessTypeOK
<1>7. PumpEnds' /\ DrainedLog' /\ Joins'
  BY <1>1, <1>3, <1>4 DEF PInv, PumpEnds, DrainedLog, Joins, Exited
<1> QED
  BY <1>4, <1>5, <1>6, <1>7 DEF PInv

\* Every step of the three threads and of the server preserves the invariant.
LEMMA NextPInv ==
  PInv /\ [ProcessNext]_processVars => PInv'
<1> SUFFICES ASSUME PInv, [ProcessNext]_processVars PROVE PInv'
  OBVIOUS
<1>1. CASE Call
  BY <1>1, CallStep
<1>2. CASE EditorStep
  BY <1>2, EditorStepKeeps, WaitKillStep, JoinErrStep
<1>3. CASE Pumps
  BY <1>3, PumpOutStep, PumpErrStep DEF Pumps
<1>4. CASE ServerStep
  BY <1>4, ServerStepKeeps
<1>5. CASE UNCHANGED processVars
  <2>1. UNCHANGED <<pc, writes, stdin, stdinOpen, out, err, child, output, wrote,
                    holds, outPump, errPump, inbox, logged, tail>>
    BY <1>5 DEF processVars, pipes, childVars, pumpVars
  <2>2. ProcessTypeOK'
    BY <2>1 DEF PInv, ProcessTypeOK
  <2> QED
    BY <2>1, <2>2 DEF PInv, LinesAccounted, OutputBounded, PumpEnds, DrainedLog,
                      Joins, Exited
<1> QED
  BY <1>1, <1>2, <1>3, <1>4, <1>5 DEF ProcessNext

(***************************************************************************)
(* The theorems.                                                           *)
(***************************************************************************)
\* The inductive invariant holds however the threads interleave.
THEOREM ProcessInvariance == ProcessSpec => []PInv
<1> QED
  BY InitPInv, NextPInv, PTL DEF ProcessSpec

\* Whether it exits, is stopped or is killed, a server that is gone has exited
\* and both its threads have ended.
THEOREM LeavesNothingBehind == ProcessSpec => []NothingLeftBehind
<1>1. PInv => NothingLeftBehind
  BY DEF PInv, Joins, NothingLeftBehind
<1> QED
  BY ProcessInvariance, <1>1, PTL

\* A log whose two waits were not cut short holds every line that was written.
THEOREM LogIsComplete == ProcessSpec => []TailIsComplete
<1>1. PInv => TailIsComplete
  <2> SUFFICES ASSUME PInv, tail = "complete" PROVE logged = wrote
    BY DEF TailIsComplete
  <2>1. err = 0
    BY DEF PInv, DrainedLog, PumpEnds
  <2>2. wrote = logged + err /\ logged \in Nat
    BY ProcessAssumption DEF PInv, LinesAccounted, ProcessTypeOK
  <2> QED
    BY <2>1, <2>2
<1> QED
  BY ProcessInvariance, <1>1, PTL
=============================================================================

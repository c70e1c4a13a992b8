----------------------------- MODULE RequestTable -----------------------------
(***************************************************************************)
(* What a conversation with a language server promises about the requests  *)
(* of the editor, without saying how: a request is held until the session  *)
(* is open, then awaits its reply; it is given to the editor once, or      *)
(* never if it was cancelled first or the session ended.  No other history *)
(* of a request is possible.  LspClient implements this.                   *)
(***************************************************************************)
EXTENDS Integers

CONSTANT Ids            \* the ids a request may be given, integers

VARIABLES session,      \* "opening", "open", "closing" or "over"
          status        \* what has become of each id

tableVars == <<session, status>>

Statuses == {"new", "held", "awaiting", "cancelled", "delivered", "over"}

TableInit == session = "opening" /\ status = [id \in Ids |-> "new"]

\* Ids rise: a request is raised under an id above all those raised before.
Raise(id) ==
  /\ session \in {"opening", "open"}
  /\ status[id] = "new"
  /\ \A other \in Ids : status[other] # "new" => other < id
  /\ status' = [status EXCEPT ![id] =
                  IF session = "opening" THEN "held" ELSE "awaiting"]
  /\ UNCHANGED session

\* What was never sent is over at once; what was sent still has a reply coming.
Abandon(id) ==
  /\ session # "over"
  /\ status[id] \in {"held", "awaiting"}
  /\ status' = [status EXCEPT ![id] =
                  IF status[id] = "held" THEN "over" ELSE "cancelled"]
  /\ UNCHANGED session

\* Only what was sent is answered, and only what nobody cancelled is delivered.
Answer(id) ==
  /\ session \in {"open", "closing"}
  /\ status[id] \in {"awaiting", "cancelled"}
  /\ status' = [status EXCEPT ![id] =
                  IF status[id] = "awaiting" THEN "delivered" ELSE "over"]
  /\ UNCHANGED session

\* The session opens for all that were held, together.
Open ==
  /\ session = "opening" /\ session' = "open"
  /\ status' = [id \in Ids |->
                  IF status[id] = "held" THEN "awaiting" ELSE status[id]]

Close == session = "open" /\ session' = "closing" /\ UNCHANGED status

\* The end of the session leaves nothing that could still be answered.
End ==
  /\ session # "over" /\ session' = "over"
  /\ status' = [id \in Ids |->
                  IF status[id] \in {"new", "delivered"} THEN status[id] ELSE "over"]

TableNext ==
  \/ Open \/ Close \/ End
  \/ \E id \in Ids : Raise(id) \/ Abandon(id) \/ Answer(id)

TableSpec == TableInit /\ [][TableNext]_tableVars
=============================================================================

---------------------------- MODULE MCLspProcess ----------------------------
(* Pipes of one message: every writer meets a full pipe.                      *)
EXTENDS LspProcess

Nothing    == {}
BothPipes  == {"out", "err"}
=============================================================================

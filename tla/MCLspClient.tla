---------------------------- MODULE MCLspClient ----------------------------
(* A small instance of LspClient: three ids leave room for the handshake and  *)
(* two requests raised before or after it, or one and the shutdown.           *)
EXTENDS LspClient

MCMethods == {"textDocument/hover", ExecuteCommand}
=============================================================================

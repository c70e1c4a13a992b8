---------------------------- MODULE MCLspAnswers ----------------------------
(* Two documents, two edits each and a second server: enough for an answer    *)
(* to outlive an edit, a switch of tabs and back, or the server it was asked  *)
(* of.                                                                        *)
EXTENDS LspAnswers, TLC

CONSTANTS a, b

MCPaths   == {a, b}
TwoPaths  == Permutations(MCPaths)
AllKinds  == {"hover", "definition", "format", "rename", "symbols"}
=============================================================================

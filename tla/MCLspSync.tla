------------------------------ MODULE MCLspSync ------------------------------
(* Two documents and three texts: an edit can return to an earlier text and a *)
(* journal can overflow.  With two languages either document can be moved     *)
(* from one server to another, or from both.  The specification tells texts,  *)
(* documents and languages apart only by equality.                            *)
EXTENDS LspSync, TLC

CONSTANTS a, b, t1, t2, t3, rust, toml

MCPaths     == {a, b}
MCTexts     == {t1, t2, t3}
MCLanguages == {rust, toml}

Symmetric == {f @@ g @@ h : f \in Permutations(MCPaths),
                            g \in Permutations(MCTexts),
                            h \in Permutations(MCLanguages)}
=============================================================================

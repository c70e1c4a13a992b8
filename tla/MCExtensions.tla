----------------------------- MODULE MCExtensions -----------------------------
(* Two extensions.  The first makes a call that needs a file and then a       *)
(* directory the file is in, and registers its command; the second asks for   *)
(* the directory, and calls a method the editor does not know.                *)
EXTENDS Extensions

Both    == 1..2
One     == {1}
Nobody  == {}
Names   == {"command 1", "command 2"}
OneName == {"command 1"}
Owners  == [c \in Commands |-> IF c = "command 1" THEN 1 ELSE 2]

Scopes   == {"dir", "file"}
Covers   == [dir |-> {"dir", "file"}, file |-> {"file"}]
Declares == [e \in Extensions |-> {"dir"}]

Call(method, needs) == [method |-> method, needs |-> needs]
Made == [e \in Extensions |->
           IF e = 1 THEN {Call("call", <<"file", "dir">>), Call("command 1", <<>>)}
           ELSE {Call("call", <<"dir">>), Call("unknown", <<>>)}]
=============================================================================

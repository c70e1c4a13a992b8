------------------------------ MODULE MCFileTree ------------------------------
(* A folder, room for a second entry beside it and for a file in each; or one *)
(* or two files beside each other, so that a rename can meet another entry.   *)
EXTENDS FileTree

MCNames == <<"a", "b", "x">>
MCPaths == {<<"a">>, <<"b">>, <<"a", "x">>, <<"b", "x">>}

FileEntry(moment) == [dir |-> FALSE, id |-> moment, stamp |-> moment, written |-> TRUE]
FolderEntry(moment) == [dir |-> TRUE, id |-> moment, stamp |-> moment, written |-> FALSE]
MCStarts == {<<"a">> :> FolderEntry(1), <<"a">> :> FileEntry(1),
             (<<"a">> :> FileEntry(1)) @@ (<<"b">> :> FileEntry(2))}
=============================================================================

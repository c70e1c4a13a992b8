------------------------------- MODULE Explorer -------------------------------
(***************************************************************************)
(* The tree of files in the side bar, crates/deco-editor/src/explorer.rs:  *)
(* what it remembers of each directory, which of them are expanded, the    *)
(* rows it shows and the row that is selected.  It never reads a           *)
(* directory: it says which it wants, and is told.                         *)
(*                                                                         *)
(* A tree is a value and an operation of the code an operator from tree    *)
(* to tree.  A path is the sequence of names below the workspace, which is *)
(* itself the empty path.  Scrolling is left out.                          *)
(***************************************************************************)
EXTENDS Integers, Sequences, FiniteSets, SequencesExt, Functions

CONSTANT Names      \* the names of entries, in the order of the alphabet

Root == <<>>
NoPath == <<"none">>      \* no reveal waits
Parent(path) == Front(path)
Under(path, prefix) == IsPrefix(prefix, path)

Pending == [known |-> FALSE, files |-> {}, dirs |-> {}]

Known(tree, dir)    == dir \in DOMAIN tree.listings /\ tree.listings[dir].known
Awaited(tree, dir)  == dir \in DOMAIN tree.listings /\ ~tree.listings[dir].known
Holds(listing, name) == name \in listing.files \cup listing.dirs

NewTree == [listings |-> [d \in {Root} |-> Pending], expanded |-> {},
            selected |-> 1, revealing |-> NoPath]

-----------------------------------------------------------------------------
(* Rows: directories first, each followed by its own if it is expanded.    *)

Sorted(listing) == SelectSeq(Names, LAMBDA n : n \in listing.dirs)
                     \o SelectSeq(Names, LAMBDA n : n \in listing.files)

RECURSIVE Walk(_, _, _)
Walk(tree, dir, names) ==
  IF names = <<>> THEN <<>>
  ELSE LET path == Append(dir, Head(names))
           open == Last(path) \in tree.listings[dir].dirs /\ path \in tree.expanded
       IN <<path>>
          \o (IF open /\ Known(tree, path) THEN Walk(tree, path, Sorted(tree.listings[path])) ELSE <<>>)
          \o Walk(tree, dir, Tail(names))

Rows(tree) == IF Known(tree, Root) THEN Walk(tree, Root, Sorted(tree.listings[Root])) ELSE <<>>
IsDirRow(tree, path) == Last(path) \in tree.listings[Parent(path)].dirs

\* The selected row, in a sequence that is empty when nothing is selected.
Selection(tree) ==
  LET rows == Rows(tree) IN
  IF tree.selected \in DOMAIN rows THEN <<rows[tree.selected]>> ELSE <<>>

IsRow(tree, path) == path \in Range(Rows(tree))

Clamp(tree) ==
  LET len == Len(Rows(tree)) IN
  [tree EXCEPT !.selected = IF len = 0 THEN 1 ELSE IF @ > len THEN len ELSE @]

Select(tree, path) ==
  LET rows == Rows(tree) IN
  [tree EXCEPT !.selected = CHOOSE i \in DOMAIN rows : rows[i] = path]

-----------------------------------------------------------------------------
(* Listings that are asked for, and come.                                  *)

\* The directories that are shown and were not read, the first wanted first.
Wanted(tree) ==
  SelectSeq(<<Root>> \o Rows(tree),
            LAMBDA d : /\ Awaited(tree, d)
                       /\ d = Root \/ (d \in tree.expanded /\ IsDirRow(tree, d)))

\* The directories a refresh reads again: the shown ones that were read.
ShownDirectories(tree) ==
  IF ~Known(tree, Root) THEN <<>>
  ELSE SelectSeq(<<Root>> \o Rows(tree),
                 LAMBDA d : /\ Known(tree, d)
                            /\ d = Root \/ (d \in tree.expanded /\ IsDirRow(tree, d)))

\* A reveal ends when its row is there, or when the listing that would hold
\* the row came without it.
LandReveal(tree) ==
  IF tree.revealing = NoPath THEN tree
  ELSE IF IsRow(tree, tree.revealing) THEN [Select(tree, tree.revealing) EXCEPT !.revealing = NoPath]
  ELSE IF Known(tree, Parent(tree.revealing)) THEN [tree EXCEPT !.revealing = NoPath]
  ELSE tree

Listed(tree, dir, listing) ==
  [tree EXCEPT !.listings = [d \in DOMAIN @ \cup {dir} |-> IF d = dir THEN listing ELSE @[d]]]

Fill(tree, dir, listing) == Clamp(LandReveal(Listed(tree, dir, listing)))

\* Fault: what is below the prefix is forgotten, and not what is known of it.
ForgetBelow(tree, prefix) ==
  Clamp([tree EXCEPT !.listings = Restrict(@, {d \in DOMAIN @ : ~Under(d, prefix) \/ d = prefix}),
                     !.expanded = {d \in @ : ~Under(d, prefix) \/ d = prefix},
                     !.revealing = IF Under(@, prefix) THEN NoPath ELSE @])

ForgetUnder(tree, prefix) ==
  Clamp([tree EXCEPT !.listings = Restrict(@, {d \in DOMAIN @ : ~Under(d, prefix)}),
                     !.expanded = {d \in @ : ~Under(d, prefix)},
                     !.revealing = IF Under(@, prefix) THEN NoPath ELSE @])

\* A newer listing of a directory: the selection stays on its path if the path
\* is still a row, and on its number otherwise.
Refresh(tree, dir, listing) ==
  IF ~Known(tree, dir) \/ tree.listings[dir] = listing THEN tree
  ELSE LET removed == {n \in tree.listings[dir].dirs : ~Holds(listing, n)}
           forgotten == FoldSet(LAMBDA n, t : ForgetUnder(t, Append(dir, n)),
                                Listed(tree, dir, listing), removed)
           kept == Selection(tree)
       IN IF kept # <<>> /\ IsRow(forgotten, kept[1])
          THEN Clamp(Select(forgotten, kept[1])) ELSE Clamp(forgotten)

Invalidate(tree, dir) ==
  IF dir \in DOMAIN tree.listings THEN Listed(tree, dir, Pending) ELSE tree

InvalidateUnder(tree, prefix) ==
  [tree EXCEPT !.listings = [d \in DOMAIN @ |-> IF Under(d, prefix) THEN Pending ELSE @[d]]]

-----------------------------------------------------------------------------
(* Expanding, revealing, and a directory that has moved.                   *)

SetExpanded(tree, dir, open) ==
  Clamp(IF ~open THEN [tree EXCEPT !.expanded = @ \ {dir}]
        ELSE IF dir \in tree.expanded THEN tree
        ELSE LET asked == IF dir \in DOMAIN tree.listings THEN tree
                          ELSE Listed(tree, dir, Pending)
             IN [asked EXCEPT !.expanded = @ \cup {dir}])

Reveal(tree, path) ==
  LET above == [i \in 1..(Len(path) - 1) |-> SubSeq(path, 1, i)]
      opened == FoldLeft(LAMBDA t, d : SetExpanded(t, d, TRUE), tree, above)
  IN LandReveal([opened EXCEPT !.revealing = path])

\* The path an entry at or under `from' has once `from' is called `to'.
Moved(path, from, to) == to \o SubSeq(path, Len(from) + 1, Len(path))

RekeyUnder(tree, from, to) ==
  LET old == DOMAIN tree.listings
      new == {IF Under(d, from) THEN Moved(d, from, to) ELSE d : d \in old}
      Was(d) == IF Under(d, to) /\ Moved(d, to, from) \in old THEN Moved(d, to, from) ELSE d
  IN Clamp([tree EXCEPT
       !.listings = [d \in new |-> tree.listings[Was(d)]],
       !.expanded = {IF Under(d, from) THEN Moved(d, from, to) ELSE d : d \in @}])

KnownPathsUnder(tree, prefix) ==
  UNION {({d} \ {prefix}) \cup
         (IF Known(tree, d)
          THEN {Append(d, n) : n \in tree.listings[d].files \cup tree.listings[d].dirs}
          ELSE {}) : d \in {e \in DOMAIN tree.listings : Under(e, prefix)}}
=============================================================================

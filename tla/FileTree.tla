------------------------------- MODULE FileTree -------------------------------
(***************************************************************************)
(* Creating, renaming and deleting files from the tree, and undoing it:    *)
(* the operations of crates/deco-editor/src/files.rs, which the session    *)
(* decides on (session.rs) from the rows of its tree, app.rs carries out   *)
(* with crates/deco-remote/src/file_ops.rs, and both then bring the tree,  *)
(* the open tabs and the tree's own undo in line with what happened.       *)
(*                                                                         *)
(* Other programs create, write and remove entries at any moment between   *)
(* two keys; the tree reads its directories again only while no key is     *)
(* pressed, a few at a time.  A key is one step: what a change looks at    *)
(* and does in several calls of the file system is not torn apart here.    *)
(*                                                                         *)
(* The session is a local one.  Names that are paths, links, excluded      *)
(* entries and file systems without case are left out.                     *)
(***************************************************************************)
EXTENDS Explorer

CONSTANTS Paths,         \* the paths entries may have
          Tabs,          \* the tabs that may be open
          Starts,        \* the files there may be at the start
          RefreshLimit,  \* TREE_REFRESH_LIMIT: directories one pass reads
          MaxClock,      \* bound on the changes of the disk
          OthersUntil    \* bound: after this many, other programs make none

ASSUME FileTreeAssumption ==
  /\ \A p \in Paths : p # Root /\ Parent(p) \in Paths \cup {Root}
  /\ RefreshLimit \in Nat \ {0} /\ MaxClock \in Nat
  /\ OthersUntil \in 0..MaxClock

VARIABLES disk, clock,   \* the file system
          tree, from, pass,      \* the tree, where its next refresh starts, and
                                 \* which of two the last was: fairness reads it
          undos,                 \* the operations that undo, the latest last
          tabs,                  \* the path each tab has, and the file its text is of
          asked                  \* what the question before a delete names, or Root
vars == <<disk, clock, tree, from, pass, undos, tabs, asked>>

(***************************************************************************)
(* The disk is a map from paths to entries.  Each creation and each write  *)
(* has a moment of its own, which stands for the time and the size that    *)
(* make a stamp; a directory's is when an entry of it last came or went.   *)
(* `id' tells one entry from the next at its path, and nothing reads it.   *)
(***************************************************************************)
Entry(dir, now, written) == [dir |-> dir, id |-> now, stamp |-> now, written |-> written]

Exists(path) == path = Root \/ path \in DOMAIN disk
IsDir(path)  == path = Root \/ (path \in DOMAIN disk /\ disk[path].dir)
Below(d, path) == {p \in DOMAIN d : Under(p, path) /\ p # path}
Children(path) == {p \in DOMAIN disk : Parent(p) = path}

Touch(d, path, now) ==
  [p \in DOMAIN d |-> IF p = path THEN [d[p] EXCEPT !.stamp = now] ELSE d[p]]
With(d, path, entry) == [p \in DOMAIN d \cup {path} |-> IF p = path THEN entry ELSE d[p]]
Without(d, gone) == Restrict(d, DOMAIN d \ gone)

\* list_dir: what cannot be read, or is no directory, is empty.
ListDir(d, dir) ==
  LET within == {p \in DOMAIN d : Parent(p) = dir} IN
  [known |-> TRUE, files |-> {Last(p) : p \in {q \in within : ~d[q].dir}},
                   dirs  |-> {Last(p) : p \in {q \in within : d[q].dir}}]

RECURSIVE FillTree(_, _)
FillTree(t, d) ==
  LET wanted == Wanted(t) IN
  IF wanted = <<>> THEN t ELSE FillTree(Fill(t, wanted[1], ListDir(d, wanted[1])), d)

NoTab == [path |-> Root, of |-> 0]
TabsUnder(path) == {t \in Tabs : tabs[t] # NoTab /\ Under(tabs[t].path, path)}
TabOf(path) == {t \in Tabs : tabs[t].path = path}

Init ==
  /\ disk \in Starts /\ clock = Max({disk[p].id : p \in DOMAIN disk})
  /\ tree = FillTree(NewTree, disk) /\ from = 0 /\ pass = 0
  /\ undos = <<>> /\ asked = Root
  /\ tabs = [t \in Tabs |-> NoTab]

-----------------------------------------------------------------------------
(***************************************************************************)
(* Operations.  `from' is what is removed or moved, `to' where something   *)
(* is put, and Root stands for neither.  `dir' is what the tree showed and *)
(* `expect' the stamp the entry must still have; `id' is history, the      *)
(* entry that was made or moved.                                           *)
(***************************************************************************)
NoStamp == 0
Operation(does, source, to, dir) ==
  [does |-> does, from |-> source, to |-> to, dir |-> dir, expect |-> NoStamp, id |-> 0]

CreateOp(path, dir)     == Operation("create", Root, path, dir)
RenameOp(source, to, dir) == Operation("rename", source, to, dir)
DeleteOp(path, dir)     == Operation("delete", path, Root, dir)

InverseOf(op) ==
  IF op.does = "create" THEN Operation("undo create", op.to, Root, op.dir)
  ELSE RenameOp(op.to, op.from, op.dir)
HasInverse(op) == op.does \in {"create", "rename"}

Removes(op) == op.does \in {"delete", "undo create"}
Arriving(op) == op.to
ParentOf(op) == Parent(IF op.to # Root THEN op.to ELSE op.from)

\* Fault: an undone rename is of whatever has the name by then.
UnchangedIfCreated(op) ==
  op.does = "rename" \/ op.expect = NoStamp \/ op.expect = disk[op.from].stamp

Unchanged(op) == op.expect = NoStamp \/ op.expect = disk[op.from].stamp

\* What file_ops looks at, at the moment of the change.
Possible(op) ==
  /\ IsDir(ParentOf(op))
  /\ op.from # Root => Exists(op.from) /\ disk[op.from].dir = op.dir /\ Unchanged(op)
  /\ op.to # Root => ~Exists(op.to)
  /\ op.does = "undo create" =>
       IF op.dir THEN Children(op.from) = {} ELSE ~disk[op.from].written

Changed(op, now) ==
  LET subtree == {op.from} \cup Below(disk, op.from)
      rest == Without(disk, subtree)
      New(p) == IF Under(p, op.to) THEN Moved(p, op.to, op.from) ELSE p
  IN Touch(CASE op.does = "create" -> With(disk, op.to, Entry(op.dir, now, FALSE))
             [] op.does = "rename" ->
                  [p \in DOMAIN rest \cup {Moved(q, op.from, op.to) : q \in subtree} |->
                     disk[New(p)]]
             [] OTHER -> rest,
           ParentOf(op), now)

-----------------------------------------------------------------------------
(* Session::file_operation_done, and what app.rs does around it.           *)

\* The stamp of what an operation made goes to the entry that undoes it, which
\* is the last one, unless the operation was itself an undo.
StampLast(stack, op, undoing) ==
  IF undoing \/ op.to = Root THEN stack
  ELSE [stack EXCEPT ![Len(stack)].expect = disk'[op.to].stamp, ![Len(stack)].id = disk'[op.to].id]

DetachUnder(gone) == [t \in Tabs |-> IF t \in gone THEN NoTab ELSE tabs[t]]

TabsDone(op) ==
  CASE Removes(op) -> DetachUnder(TabsUnder(op.from))
    [] op.does = "rename" ->
         [t \in Tabs |-> IF t \in TabsUnder(op.from)
                         THEN [tabs[t] EXCEPT !.path = Moved(@, op.from, op.to)] ELSE tabs[t]]
    [] OTHER -> tabs

\* A new file is opened at once.
TabsOpened(path) ==
  IF TabOf(path) # {} THEN tabs
  ELSE [tabs EXCEPT ![CHOOSE t \in TabOf(Root) : TRUE] = [path |-> path, of |-> disk'[path].id]]

TreeDone(op) ==
  LET refreshed == Invalidate(tree, ParentOf(op))
      left == IF Removes(op) /\ op.dir THEN ForgetUnder(refreshed, op.from) ELSE refreshed
      arrived == IF op.to # Root THEN ForgetUnder(left, Arriving(op)) ELSE left
  IN CASE op.does = "create" -> Reveal(arrived, op.to)
       [] op.does = "rename" -> Reveal(RekeyUnder(arrived, op.from, op.to), op.to)
       [] OTHER -> arrived

Done(op, stack, undoing) ==
  /\ Possible(op) /\ clock' = clock + 1 /\ disk' = Changed(op, clock + 1)
  /\ undos' = IF op.does = "delete" THEN <<>> ELSE StampLast(stack, op, undoing)
  /\ tabs' = IF op.does = "create" /\ ~op.dir THEN TabsOpened(op.to) ELSE TabsDone(op)
  /\ tree' = FillTree(TreeDone(op), disk')
  /\ UNCHANGED <<from, pass>>

-----------------------------------------------------------------------------
(* Session::file_operation_failed, and the reconciliation of app.rs.  Any  *)
(* operation may be refused: by what file_ops looks at, or by the system.  *)

\* A recursive delete that stops may have removed some of what is below.
PartlyRemoved(op) ==
  IF op.does # "delete" \/ ~op.dir \/ ~IsDir(op.from) THEN {{}}
  ELSE {gone \in SUBSET Below(disk, op.from) : \A p \in gone : Below(disk, p) \subseteq gone}

Missing(d, paths) == \E p \in paths : p # Root /\ p \notin DOMAIN d

\* The directory of the entry is read again; if it is none any more, so is the one
\* above it, and nothing is known below it.
Reparented(t, op, d) ==
  LET parent == ParentOf(op)
      above == Invalidate(t, parent)
  IN IF parent = Root \/ (parent \in DOMAIN d /\ d[parent].dir) THEN above
     ELSE ForgetUnder(Invalidate(above, Parent(parent)), parent)

Failed(op, stack, undoing) ==
  /\ \E gone \in PartlyRemoved(op) :
       /\ clock' = IF gone = {} THEN clock ELSE clock + 1
       /\ disk' = [p \in DOMAIN disk \ gone |->
                     IF Children(p) \cap gone # {} THEN [disk[p] EXCEPT !.stamp = clock']
                     ELSE disk[p]]
  /\ LET forgotten == IF op.to # Root THEN ForgetUnder(tree, Arriving(op)) ELSE tree
         kept == Reparented(forgotten, op, disk')
         reread == IF op.from # Root THEN InvalidateUnder(kept, op.from) ELSE kept
         lost == IF Removes(op) THEN {t \in TabsUnder(op.from) : Missing(disk', {tabs[t].path})}
                 ELSE {}
         went == /\ op.does = "delete" /\ op.dir
                 /\ lost # {} \/ Missing(disk', KnownPathsUnder(kept, op.from))
         restored == IF undoing THEN Append(stack, op)
                     ELSE IF HasInverse(op) THEN Front(stack) ELSE stack
     IN /\ tree' = FillTree(reread, disk')
        /\ tabs' = DetachUnder(lost)
        /\ undos' = IF went THEN <<>> ELSE restored
  /\ UNCHANGED <<from, pass>>

Carried(op, stack, undoing) ==
  clock < MaxClock /\ (Done(op, stack, undoing) \/ Failed(op, stack, undoing))

-----------------------------------------------------------------------------
(* The keys.                                                               *)

Recorded(op) == IF HasInverse(op) THEN Append(undos, InverseOf(op)) ELSE undos

TargetDir ==
  CASE Selection(tree) = <<>> -> Root
    [] IsDirRow(tree, Selection(tree)[1]) -> Selection(tree)[1]
    [] OTHER -> Parent(Selection(tree)[1])

\* A name is typed before a file is created or renamed, but nothing is read until
\* it is accepted, so that is one step with the change.  The question before a
\* delete names the row that is selected when it is asked.
AskDelete ==
  /\ asked = Root /\ Selection(tree) # <<>> /\ asked' = Selection(tree)[1]
  /\ UNCHANGED <<disk, clock, tree, from, pass, undos, tabs>>

\* Escape, and an answer other than `y'.
Dismiss ==
  /\ asked # Root /\ asked' = Root
  /\ UNCHANGED <<disk, clock, tree, from, pass, undos, tabs>>

CreateInTree(name, dir) ==
  LET path == Append(TargetDir, name) IN
  /\ asked = Root /\ UNCHANGED asked
  /\ path \in Paths /\ ~IsRow(tree, path) /\ TabOf(path) = {}
  /\ ~dir => TabOf(Root) # {}
  /\ LET op == CreateOp(path, dir) IN Carried(op, Recorded(op), FALSE)

\* Fault: a tab that has the new path is not looked for.
RenameOntoTab(name) ==
  /\ asked = Root /\ Selection(tree) # <<>> /\ UNCHANGED asked
  /\ LET row == Selection(tree)[1]
         to == Append(Parent(row), name)
         op == RenameOp(row, to, IsDirRow(tree, row))
     IN /\ to \in Paths /\ ~IsRow(tree, to)
        /\ Carried(op, Append(undos, InverseOf(op)), FALSE)

RenameInTree(name) ==
  /\ asked = Root /\ Selection(tree) # <<>> /\ UNCHANGED asked
  /\ LET row == Selection(tree)[1]
         to == Append(Parent(row), name)
         op == RenameOp(row, to, IsDirRow(tree, row))
     IN /\ to \in Paths /\ ~IsRow(tree, to) /\ TabsUnder(to) = {}
        /\ Carried(op, Recorded(op), FALSE)

DeleteInTree ==
  /\ asked # Root /\ asked' = Root /\ Selection(tree) # <<>>
  /\ LET row == Selection(tree)[1]
         op == DeleteOp(row, IsDirRow(tree, row))
     IN Carried(op, Recorded(op), FALSE)

UndoFileOperation ==
  /\ asked = Root /\ undos # <<>> /\ UNCHANGED asked
  /\ LET op == Last(undos)
     IN /\ op.does = "rename" => TabsUnder(op.to) = {}
        /\ Carried(op, Front(undos), TRUE)

\* Arrows, home and end; a folder opened or closed; revealInExplorer.
SelectRow ==
  /\ asked = Root
  /\ \E i \in DOMAIN Rows(tree) : tree' = [tree EXCEPT !.selected = i]
  /\ UNCHANGED <<disk, clock, from, pass, undos, tabs, asked>>

ToggleSelected ==
  /\ asked = Root /\ Selection(tree) # <<>>
  /\ LET row == Selection(tree)[1] IN
     /\ IsDirRow(tree, row)
     /\ tree' = FillTree(SetExpanded(tree, row, row \notin tree.expanded), disk)
  /\ UNCHANGED <<disk, clock, from, pass, undos, tabs, asked>>

RevealActiveFile(t) ==
  /\ asked = Root /\ tabs[t] # NoTab
  /\ tree' = FillTree(Reveal(tree, tabs[t].path), disk)
  /\ UNCHANGED <<disk, clock, from, pass, undos, tabs, asked>>

OpenFromTree ==
  /\ asked = Root /\ Selection(tree) # <<>>
  /\ LET row == Selection(tree)[1] IN
     /\ ~IsDirRow(tree, row) /\ Exists(row) /\ ~IsDir(row)
     /\ TabOf(row) = {} /\ TabOf(Root) # {}
     /\ tabs' = [tabs EXCEPT ![CHOOSE t \in TabOf(Root) : TRUE] =
                   [path |-> row, of |-> disk[row].id]]
  /\ UNCHANGED <<disk, clock, tree, from, pass, undos, asked>>

CloseTab(t) ==
  /\ asked = Root /\ tabs[t] # NoTab /\ tabs' = [tabs EXCEPT ![t] = NoTab]
  /\ UNCHANGED <<disk, clock, tree, from, pass, undos, asked>>

\* A save writes the file of a tab, or makes it again.  Whether one that another
\* program has replaced may be written is the business of DiskWatch.
SaveTab(t) ==
  LET path == tabs[t].path IN
  /\ asked = Root /\ tabs[t] # NoTab /\ clock < MaxClock /\ clock' = clock + 1
  /\ IsDir(Parent(path)) /\ ~IsDir(path)
  /\ IF Exists(path)
     THEN /\ disk[path].id = tabs[t].of
          /\ disk' = [disk EXCEPT ![path].stamp = clock', ![path].written = TRUE]
     ELSE disk' = Touch(With(disk, path, Entry(FALSE, clock', TRUE)), Parent(path), clock')
  /\ tabs' = [tabs EXCEPT ![t].of = disk'[path].id]
  /\ UNCHANGED <<tree, from, pass, undos, asked>>

-----------------------------------------------------------------------------
(* Between the keys.                                                       *)

\* A clean tab whose file another program replaced takes the new text.
Reload(t) ==
  /\ tabs[t] # NoTab /\ Exists(tabs[t].path) /\ ~IsDir(tabs[t].path)
  /\ tabs' = [tabs EXCEPT ![t].of = disk[tabs[t].path].id]
  /\ UNCHANGED <<disk, clock, tree, from, pass, undos, asked>>

Batch(shown) ==
  IF shown <= RefreshLimit THEN [i \in 1..shown |-> i]
  ELSE [i \in 1..RefreshLimit |-> ((from + i - 1) % shown) + 1]
\* Fault: every pass starts with the first.
NextStartFirst(shown) == 0

NextStart(shown) ==
  IF shown <= RefreshLimit THEN 0 ELSE (from + RefreshLimit) % shown

RefreshTree ==
  LET shown == ShownDirectories(tree)
      read == FoldLeft(LAMBDA t, i : Refresh(t, shown[i], ListDir(disk, shown[i])),
                       tree, Batch(Len(shown)))
  IN /\ tree' = IF read # tree THEN FillTree(read, disk) ELSE tree
     /\ from' = NextStart(Len(shown)) /\ pass' = 1 - pass
     /\ UNCHANGED <<disk, clock, undos, tabs, asked>>

\* Other programs.
Elsewhere(d) ==
  /\ clock < OthersUntil /\ clock' = clock + 1 /\ disk' = d
  /\ UNCHANGED <<tree, from, pass, undos, tabs, asked>>

OthersCreate(path, dir) ==      \* a file may be put in the place of another
  /\ IsDir(Parent(path)) /\ (Exists(path) => ~dir /\ ~IsDir(path))
  /\ Elsewhere(Touch(With(disk, path, Entry(dir, clock + 1, FALSE)), Parent(path), clock + 1))
OthersWrite(path) ==
  /\ Exists(path) /\ ~IsDir(path)
  /\ Elsewhere([disk EXCEPT ![path].stamp = clock + 1, ![path].written = TRUE])
OthersRemove(path) ==
  /\ Exists(path)
  /\ Elsewhere(Touch(Without(disk, {path} \cup Below(disk, path)), Parent(path), clock + 1))

NameSet == Range(Names)
TreeOperation ==
  \/ \E n \in NameSet : RenameInTree(n) \/ \E dir \in BOOLEAN : CreateInTree(n, dir)
  \/ DeleteInTree \/ UndoFileOperation

Key ==
  \/ TreeOperation \/ AskDelete \/ Dismiss \/ SelectRow \/ ToggleSelected \/ OpenFromTree
  \/ \E t \in Tabs : RevealActiveFile(t) \/ CloseTab(t) \/ SaveTab(t)

Next ==
  \/ Key \/ RefreshTree \/ \E t \in Tabs : Reload(t)
  \/ \E p \in Paths : \/ OthersWrite(p) \/ OthersRemove(p)
                      \/ \E dir \in BOOLEAN : OthersCreate(p, dir)

Spec == Init /\ [][Next]_vars
FairSpec == Spec /\ WF_pass(pass' = 1 - pass)
(***************************************************************************)
(* Properties.                                                             *)
(***************************************************************************)
TypeOK ==
  /\ DOMAIN disk \subseteq Paths /\ clock \in 0..MaxClock
  /\ \A p \in DOMAIN disk : /\ IsDir(Parent(p)) /\ disk[p].id <= disk[p].stamp
                            /\ disk[p].stamp <= clock
  /\ DOMAIN tree.listings \subseteq Paths \cup {Root} /\ tree.expanded \subseteq Paths
  /\ tree.expanded \subseteq DOMAIN tree.listings
  /\ tree.selected \in Nat \ {0} /\ from \in Nat /\ pass \in {0, 1}
  /\ \A t \in Tabs : tabs[t].path \in Paths \cup {Root} /\ tabs[t].of \in 0..clock

Ids(d) == {d[p].id : p \in DOMAIN d}

\* Whether a step answered the question, or created, renamed or undid something.
Operated == undos' # undos \/ (asked # Root /\ asked' = Root)

\* What tells whether an undo is of the entry it was recorded for is recorded
\* with it, and an entry nobody has changed can be told.
UndoKnowsItsEntry ==
  \A i \in DOMAIN undos :
    LET op == undos[i] IN
    /\ op.expect # NoStamp
    /\ (op.from \in DOMAIN disk /\ disk[op.from].id = op.id) => op.expect <= disk[op.from].stamp

\* Creating, renaming and undoing take no entry away, with one exception: what
\* undoes the creation of an entry removes that entry, if it is still empty.  An
\* undo that is carried out is of the very entry it was recorded for: what another
\* program put in its place, or in the way, is neither removed nor moved, and what
\* was renamed is what is back under its old name.
Undone == Len(undos') < Len(undos)

NothingOverwritten ==
  /\ [](TypeOK /\ UndoKnowsItsEntry)
  /\ [][undos' # undos /\ asked = Root =>
          /\ \A p \in DOMAIN disk :
               \/ disk[p].id \in Ids(disk')
               \/ /\ Undone /\ Last(undos).does = "undo create"
                  /\ disk[p].id = Last(undos).id /\ ~disk[p].written /\ Children(p) = {}
          /\ Undone =>
               LET op == Last(undos) IN
               /\ op.from \in DOMAIN disk /\ disk[op.from].id = op.id
               /\ op.does = "rename" => /\ op.to \in DOMAIN disk' /\ disk'[op.to].id = op.id
                                        /\ op.from \notin DOMAIN disk']_vars

Shows(t)   == tabs[t] # NoTab /\ Exists(tabs[t].path) /\ disk[tabs[t].path].id = tabs[t].of
Strays(t)  == tabs[t] # NoTab /\ Exists(tabs[t].path) /\ disk[tabs[t].path].id # tabs[t].of

\* An operation of the tree takes every tab along with its file: a tab that shows
\* its file shows it afterwards, or has no path any more, and no tab comes to have
\* the path of another file or of another tab.
TabsFollowFiles ==
  [][(Operated \/ tabs' # tabs) =>
       /\ \A t \in Tabs : /\ Shows(t) => (Shows(t)' \/ tabs'[t] = NoTab)
                          /\ ~Strays(t) => ~Strays(t)'
       /\ \A t, u \in Tabs : t # u /\ tabs'[t] # NoTab => tabs'[t].path # tabs'[u].path]_vars

Accurate(t, d, dir) == t.listings[dir] = ListDir(d, dir)

\* A folder an operation made or moved shows its own entries.  Rows that a folder
\* of its name once had do not come back; only what was on the screen and already
\* wrong under its old name may move with it.
Shown(t) == Range(ShownDirectories(t))
Arrived(dir) == dir \in DOMAIN disk' /\ (dir \in DOMAIN disk => disk[dir].id # disk'[dir].id)

NoGhostRows ==
  [][Operated =>
       \A dir \in {d \in Shown(tree') : Arrived(d)} :
         \/ Accurate(tree', disk', dir)
         \/ \E was \in Shown(tree) : /\ tree.listings[was] = tree'.listings[dir]
                                    /\ ~Accurate(tree, disk, was)]_vars

\* A delete removes what its question named, and what is below it, and nothing
\* else (delete_in_tree takes the row that is selected when the answer comes).
DeletesWhatItNamed ==
  [][asked # Root /\ asked' = Root =>
       \A p \in DOMAIN disk : p \in DOMAIN disk' \/ Under(p, asked)]_vars

\* Once the user leaves the tree alone and other programs the files, every row on
\* the screen comes to be an entry on the disk, and stays one, however many folders
\* are open.
TreeCatchesUp ==
  <>[][pass' # pass]_<<tree, disk>> =>
    <>[](\A dir \in Shown(tree) : Accurate(tree, disk, dir))
=============================================================================

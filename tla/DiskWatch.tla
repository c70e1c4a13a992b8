------------------------------ MODULE DiskWatch ------------------------------
(***************************************************************************)
(* Open files and the disk under them: deco-tui/src/disk.rs, and the       *)
(* callers in app.rs that open, save, revert and switch branches.          *)
(*                                                                         *)
(* The editor's thread makes one file-system call at a time, and another   *)
(* program may write between two of them: `pc' holds a handler that is     *)
(* between its calls.  A stamp is a modification time and a size; every    *)
(* write gives a new one.                                                  *)
(*                                                                         *)
(* The record of a file can come apart from what a document on it shows:   *)
(* the file is recorded or reported for another document, or recorded      *)
(* while one goes on showing what it showed (opening a file that is open); *)
(* nothing is recorded (following a definition into a file); or another    *)
(* program writes between a handler's read or write and its record.        *)
(* `apart' keeps which documents that has happened to.                     *)
(***************************************************************************)
EXTENDS Integers

CONSTANTS Tab, File,
          NoFile,    \* the path of an untitled document
          MaxClock   \* bound on writes and edits

ASSUME DiskAssumption == NoFile \notin File /\ MaxClock \in Nat \ {0}

VARIABLES
  disk,      \* every file's stamp, text, and who wrote it
  clock,     \* the last stamp or text used
  tab,       \* the documents
  known, reported, armed,  \* DiskWatch
  pc,        \* the handler between two of its calls
  base,      \* the stamp of the text each document started from
  apart,     \* documents whose file's record is of another text, or is not made
  refused,   \* the save the user was last told was refused
  between    \* whether another file was written by a save since

watch == <<known, reported>>
told  == <<refused, between>>
vars == <<disk, clock, tab, watch, armed, pc, base, apart, told>>

Gone == 0          \* the stamp, and the text, of a file that is not there
Unreadable == -1   \* a text that is not valid in the encoding
NoReport == -1     \* nothing was reported
NoSave == <<NoFile, Gone>>
Idle == [at |-> "idle"]
Closed == [open |-> FALSE, path |-> NoFile, text |-> Gone, dirty |-> FALSE]

Document(path, text, dirty) ==
  [open |-> TRUE, path |-> path, text |-> text, dirty |-> dirty]

TabsOf(file) == {t \in Tab : tab[t].path = file}
Free == {t \in Tab : ~tab[t].open}
Readable(file) == disk[file].text \notin {Gone, Unreadable}

Init ==
  /\ disk = [f \in File |-> [stamp |-> 1, text |-> 1, by |-> "other"]] /\ clock = 1
  /\ tab = [t \in Tab |-> Closed]
  /\ known = [f \in File |-> Gone] /\ reported = [f \in File |-> NoReport]
  /\ armed = NoSave /\ pc = Idle
  /\ base = [t \in Tab |-> Gone] /\ apart = [t \in Tab |-> FALSE]
  /\ refused = NoSave /\ between = FALSE

\* changed_since_known: a file never recorded is recorded now.
Changed(file) == known[file] # Gone /\ known[file] # disk[file].stamp
Recorded(file) == [known EXCEPT ![file] = IF @ = Gone THEN disk[file].stamp ELSE @]

\* remember_as
Remember(file, stamp) ==
  /\ known' = [known EXCEPT ![file] = stamp]
  /\ reported' = [reported EXCEPT ![file] = NoReport]

\* The record or report made of a file is of what `shows' shows, but for a race;
\* another document on the file keeps what it showed.
Parted(file, shows, raced) ==
  [t \in Tab |-> IF t \in shows THEN raced
                 ELSE apart[t] \/ (t \in TabsOf(file) /\ base[t] # disk[file].stamp)]

\* A record made for the first time, without a read: it is of what a document
\* shows if the file has not changed since.
Noticed(file) ==
  /\ known' = Recorded(file)
  /\ apart' = [t \in Tab |->
        apart[t] /\ ~(/\ known[file] = Gone /\ tab[t].path = file
                     /\ base[t] = disk[file].stamp /\ base[t] # Gone)]

(***************************************************************************)
(* Faults: variants of the operators below that a plausible mistake would  *)
(* give.  No specification uses them; they show what the properties catch. *)
(***************************************************************************)
\* The confirmation is for the file, whatever it has become since.
ConfirmedFile(file) == armed[1] = file

\* A save does not record what it wrote.
SaveDoneUnrecorded ==
  /\ pc.at = "written" /\ pc' = Idle
  /\ \E t \in TabsOf(pc.file) : tab' = [tab EXCEPT ![t].dirty = FALSE]
  /\ UNCHANGED <<disk, clock, watch, armed, base, apart, told>>

\* A changed file replaces the document, unsaved or not.
CheckDoneAnyway ==
  /\ pc.at = "checked" /\ pc' = Idle
  /\ \E t \in TabsOf(pc.file) :
       /\ tab' = [tab EXCEPT ![t].text = pc.text, ![t].dirty = FALSE]
       /\ base' = [base EXCEPT ![t] = pc.stamp]
       /\ apart' = Parted(pc.file, {t}, FALSE)
  /\ Remember(pc.file, pc.stamp)
  /\ UNCHANGED <<disk, clock, armed, told>>

\* What is recorded is the file's state after the read, whatever was read.
CheckDoneLater ==
  /\ pc.at = "checked" /\ pc' = Idle
  /\ \E t \in TabsOf(pc.file) :
       IF tab[t].dirty
         THEN /\ reported' = [reported EXCEPT ![pc.file] = pc.stamp]
              /\ apart' = Parted(pc.file, {t}, apart[t])
              /\ UNCHANGED <<tab, known, base>>
         ELSE /\ tab' = [tab EXCEPT ![t].text = pc.text]
              /\ Remember(pc.file, disk[pc.file].stamp)
              /\ base' = [base EXCEPT ![t] = pc.stamp]
              /\ apart' = Parted(pc.file, {t}, pc.raced /\ pc.stamp = Gone)
  /\ UNCHANGED <<disk, clock, armed, told>>

\* A tab of its own for every file opened.
OpenedAlways(file, text) ==
  \E t \in Free : tab' = [tab EXCEPT ![t] = Document(file, text, FALSE)]

(***************************************************************************)
(* Opening, editing, closing.                                              *)
(***************************************************************************)
\* Session::open switches to a tab that holds the file already.
Opened(file, text) ==
  IF TabsOf(file) # {}
    THEN tab' = tab
    ELSE \E t \in Free : tab' = [tab EXCEPT ![t] = Document(file, text, FALSE)]

\* Outcome::OpenFile reads the file, records it, and opens it.
OpenRead(file) ==
  /\ pc = Idle /\ Readable(file) /\ TabsOf(file) \cup Free # {}
  /\ pc' = [at |-> "opening", file |-> file, raced |-> FALSE,
            text |-> disk[file].text, stamp |-> disk[file].stamp]
  /\ UNCHANGED <<disk, clock, tab, watch, armed, base, apart, told>>

OpenDone ==
  /\ pc.at = "opening" /\ pc' = Idle
  /\ Remember(pc.file, disk[pc.file].stamp)
  /\ Opened(pc.file, pc.text)
  /\ LET opened == {t \in Tab : tab'[t] # tab[t]} IN
     /\ base' = [t \in Tab |-> IF t \in opened THEN pc.stamp ELSE base[t]]
     /\ apart' = Parted(pc.file, opened, pc.raced)
  /\ UNCHANGED <<disk, clock, armed, told>>

\* A definition in another file, or a workspace edit to one: it is read and
\* opened with nothing recorded.
Jump(file) ==
  /\ pc = Idle /\ Readable(file) /\ TabsOf(file) = {}
  /\ \E t \in Free :
       /\ \/ tab' = [tab EXCEPT ![t] = Document(file, disk[file].text, FALSE)] /\ clock' = clock
          \/ /\ clock < MaxClock /\ clock' = clock + 1
             /\ tab' = [tab EXCEPT ![t] = Document(file, clock', TRUE)]
       /\ base' = [base EXCEPT ![t] = disk[file].stamp]
       /\ apart' = [apart EXCEPT ![t] = known[file] = Gone]
  /\ UNCHANGED <<disk, watch, armed, pc, told>>

Edit(t) ==
  /\ pc = Idle /\ tab[t].open /\ clock < MaxClock /\ clock' = clock + 1
  /\ tab' = [tab EXCEPT ![t].text = clock', ![t].dirty = TRUE]
  /\ UNCHANGED <<disk, watch, armed, pc, base, apart, told>>

\* close_active_tab keeps a document with unsaved changes.
Close(t) ==
  /\ pc = Idle /\ tab[t].open /\ ~tab[t].dirty
  /\ tab' = [tab EXCEPT ![t] = Closed]
  /\ base' = [base EXCEPT ![t] = Gone] /\ apart' = [apart EXCEPT ![t] = FALSE]
  /\ UNCHANGED <<disk, clock, watch, armed, pc, told>>

\* Outcome::Revert, and ReopenWithEncoding for a clean document.
RevertRead(t) ==
  /\ pc = Idle /\ tab[t].path # NoFile /\ Readable(tab[t].path)
  /\ LET file == tab[t].path IN
     pc' = [at |-> "reverting", tab |-> t, file |-> file, raced |-> FALSE,
            text |-> disk[file].text, stamp |-> disk[file].stamp]
  /\ UNCHANGED <<disk, clock, tab, watch, armed, base, apart, told>>

RevertDone ==
  /\ pc.at = "reverting" /\ pc' = Idle
  /\ Remember(pc.file, disk[pc.file].stamp)
  /\ tab' = [tab EXCEPT ![pc.tab].text = pc.text, ![pc.tab].dirty = FALSE]
  /\ base' = [base EXCEPT ![pc.tab] = pc.stamp]
  /\ apart' = Parted(pc.file, {pc.tab}, pc.raced)
  /\ UNCHANGED <<disk, clock, armed, told>>

(***************************************************************************)
(* Saving.                                                                 *)
(***************************************************************************)
\* may_overwrite: the last save was refused for this state of this file.
Confirmed(file) == armed = <<file, disk[file].stamp>>

MayWrite(file, asked) == ~Changed(file) \/ (asked /\ Confirmed(file))

\* `save' looks at the file.  A save nobody asked for, by the timer or as one
\* file's turn of SaveAll, neither asks nor counts as a confirmation.
SaveCheck(t, asked) ==
  LET file == tab[t].path
      save == <<file, disk[file].stamp>>
  IN
  /\ pc = Idle /\ file # NoFile /\ (asked \/ tab[t].dirty) /\ clock < MaxClock
  /\ Noticed(file)
  /\ IF MayWrite(file, asked)
       THEN /\ pc' = [at |-> "writing", tab |-> t, file |-> file, asked |-> asked,
                      raced |-> FALSE]
            /\ armed' = (IF asked THEN NoSave ELSE armed) /\ UNCHANGED told
       ELSE /\ IF asked THEN armed' = save /\ refused' = save /\ between' = FALSE
                        ELSE UNCHANGED <<armed, told>>
            /\ pc' = pc
  /\ UNCHANGED <<disk, clock, tab, reported, base>>

\* A save that is done with, or one nobody asked for: the user, if told of an
\* earlier refusal, was not told of this one.
Answered(asked, wrote) ==
  /\ refused' = (IF asked THEN NoSave ELSE refused)
  /\ between' = (~asked /\ refused # NoSave /\ (between \/ wrote))

\* A text the encoding cannot hold is not written.
SaveFails ==
  /\ pc.at = "writing" /\ pc' = Idle
  /\ Answered(pc.asked, FALSE)
  /\ UNCHANGED <<disk, clock, tab, watch, armed, base, apart>>

Write(file, text) ==
  /\ clock < MaxClock /\ clock' = clock + 1
  /\ disk' = [disk EXCEPT ![file] = [stamp |-> clock', text |-> text, by |-> "deco"]]

SaveWrite ==
  /\ pc.at = "writing" /\ Write(pc.file, tab[pc.tab].text)
  /\ base' = [base EXCEPT ![pc.tab] = clock']
  /\ pc' = [pc EXCEPT !.at = "written", !.raced = FALSE]
  /\ Answered(pc.asked, TRUE)
  /\ UNCHANGED <<tab, watch, armed, apart>>

SaveDone ==
  /\ pc.at = "written" /\ pc' = Idle
  /\ \E t \in IF pc.asked THEN {pc.tab} ELSE TabsOf(pc.file) :
       tab' = [tab EXCEPT ![t].dirty = FALSE]
  /\ Remember(pc.file, disk[pc.file].stamp)
  /\ apart' = Parted(pc.file, {pc.tab}, pc.raced)
  /\ UNCHANGED <<disk, clock, armed, base, told>>

\* Outcome::SaveAs writes wherever it is told, records that, and takes the name.
SaveAs(t, file) ==
  /\ pc = Idle /\ tab[t].open
  /\ Write(file, tab[t].text)
  /\ pc' = [at |-> "copied", tab |-> t, file |-> file, stamp |-> clock', raced |-> FALSE]
  /\ Answered(FALSE, TRUE)
  /\ UNCHANGED <<tab, watch, armed, base, apart>>

SaveAsDone ==
  /\ pc.at = "copied" /\ pc' = Idle
  /\ Remember(pc.file, disk[pc.file].stamp)
  /\ tab' = [tab EXCEPT ![pc.tab].path = pc.file, ![pc.tab].dirty = FALSE]
  /\ base' = [base EXCEPT ![pc.tab] = pc.stamp]
  /\ apart' = Parted(pc.file, {pc.tab}, pc.raced)
  /\ UNCHANGED <<disk, clock, armed, told>>

(***************************************************************************)
(* DiskWatch::check, for one of the open files.                            *)
(***************************************************************************)
CheckRecord(file) ==
  /\ pc = Idle /\ TabsOf(file) # {} /\ ~Changed(file) /\ Noticed(file)
  /\ UNCHANGED <<disk, clock, tab, reported, armed, pc, base, told>>

CheckStart(file) ==
  /\ pc = Idle /\ TabsOf(file) # {}
  /\ Changed(file) /\ reported[file] # disk[file].stamp
  /\ pc' = [at |-> "checking", file |-> file, stamp |-> disk[file].stamp, raced |-> FALSE]
  /\ UNCHANGED <<disk, clock, tab, watch, armed, base, apart, told>>

CheckRead ==
  /\ pc.at = "checking"
  /\ IF Readable(pc.file)
       THEN /\ pc' = [at |-> "checked", file |-> pc.file, stamp |-> pc.stamp,
                      raced |-> pc.raced, text |-> disk[pc.file].text]
            /\ reported' = reported
       ELSE pc' = Idle /\ reported' = [reported EXCEPT ![pc.file] = pc.stamp]
  /\ UNCHANGED <<disk, clock, tab, known, armed, base, apart, told>>

\* A writer still at work: the next check reads the file again.
CheckAgain ==
  /\ pc.at = "checked" /\ disk[pc.file].stamp # pc.stamp /\ pc' = Idle
  /\ UNCHANGED <<disk, clock, tab, watch, armed, base, apart, told>>

\* A file that was gone, was written, was read and is gone again is taken for
\* one that did not change.
CheckDone ==
  /\ pc.at = "checked" /\ disk[pc.file].stamp = pc.stamp /\ pc' = Idle
  /\ \E t \in TabsOf(pc.file) :
       IF tab[t].dirty
         THEN /\ reported' = [reported EXCEPT ![pc.file] = pc.stamp]
              /\ apart' = Parted(pc.file, {t}, apart[t])
              /\ UNCHANGED <<tab, known, base>>
         ELSE /\ tab' = [tab EXCEPT ![t].text = pc.text]
              /\ Remember(pc.file, pc.stamp)
              /\ base' = [base EXCEPT ![t] = pc.stamp]
              /\ apart' = Parted(pc.file, {t}, pc.raced /\ pc.stamp = Gone)
  /\ UNCHANGED <<disk, clock, armed, told>>

Check == CheckRead \/ CheckAgain \/ CheckDone

(***************************************************************************)
(* Git, run on the user's behalf, and other programs.                      *)
(***************************************************************************)
\* reload_after_checkout reads every open file again, unsaved or not, into the
\* first of its tabs; the tabs of a file that cannot be read keep their text, as
\* untitled documents.  Nothing is recorded.
Missing(t) == tab[t].path # NoFile /\ disk'[tab[t].path].text \in {Gone, Unreadable}

Reloaded(t, first) ==
  CASE Missing(t)              -> Document(NoFile, tab[t].text, TRUE)
    [] ~Missing(t) /\ first[t] -> Document(tab[t].path, disk'[tab[t].path].text, FALSE)
    [] OTHER                   -> tab[t]

FirstTabs ==
  {first \in [Tab -> BOOLEAN] :
     /\ \A t \in Tab : first[t] => tab[t].path # NoFile
     /\ \A file \in File : TabsOf(file) # {} =>
          \E t \in TabsOf(file) : \A u \in TabsOf(file) : first[u] <=> u = t}

GitRuns(files) ==
  /\ pc = Idle /\ clock < MaxClock /\ clock' = clock + 1
  /\ \E text \in {Gone, clock'} :
       disk' = [f \in File |-> IF f \notin files THEN disk[f]
                               ELSE [stamp |-> text, text |-> text, by |-> "git"]]
  /\ \E first \in FirstTabs :
       /\ tab' = [t \in Tab |-> Reloaded(t, first)]
       /\ base' = [t \in Tab |-> IF Missing(t) THEN Gone
                                 ELSE IF first[t] THEN disk'[tab[t].path].stamp ELSE base[t]]
       /\ apart' = [t \in Tab |-> IF Missing(t) THEN FALSE
                                  ELSE IF first[t] THEN known[tab[t].path] = Gone
                                  ELSE apart[t]]
  /\ UNCHANGED <<watch, armed, pc, told>>

Unsaved == {t \in Tab : tab[t].dirty}

\* A checkout waits until nothing is unsaved, a discard until its file is not.
Checkout      == Unsaved = {} /\ \E files \in SUBSET File \ {{}} : GitRuns(files)
Discard(file) == TabsOf(file) \cap Unsaved = {} /\ GitRuns({file})

\* A new text, one that cannot be read, the same text again, or a removal, at any
\* moment.
OtherWrites(file) ==
  /\ clock < MaxClock /\ clock' = clock + 1
  /\ \/ \E text \in {clock', Unreadable, disk[file].text} \ {Gone} :
          disk' = [disk EXCEPT ![file] = [stamp |-> clock', text |-> text, by |-> "other"]]
     \/ disk' = [disk EXCEPT ![file] = [stamp |-> Gone, text |-> Gone, by |-> "other"]]
  /\ pc' = IF pc # Idle /\ pc.file = file THEN [pc EXCEPT !.raced = TRUE] ELSE pc
  /\ UNCHANGED <<tab, watch, armed, base, apart, told>>

Handlers == OpenDone \/ RevertDone \/ SaveFails \/ SaveWrite \/ SaveDone \/ SaveAsDone \/ Check

Next ==
  \/ Handlers \/ Checkout
  \/ \E file \in File :
       \/ OpenRead(file) \/ Jump(file) \/ OtherWrites(file) \/ Discard(file)
       \/ CheckRecord(file) \/ CheckStart(file)
  \/ \E t \in Tab :
       \/ Edit(t) \/ Close(t) \/ RevertRead(t)
       \/ \E asked \in BOOLEAN : SaveCheck(t, asked)
       \/ \E file \in File : SaveAs(t, file)

Spec == Init /\ [][Next]_vars

(***************************************************************************)
(* Properties.                                                             *)
(***************************************************************************)
Stamp == 0..MaxClock
Text  == -1..MaxClock

TypeOK ==
  /\ disk \in [File -> [stamp : Stamp, text : Text, by : {"deco", "git", "other"}]]
  /\ clock \in 1..MaxClock
  /\ tab \in [Tab -> [open : BOOLEAN, path : File \cup {NoFile},
                      text : Text, dirty : BOOLEAN]]
  /\ \A t \in Free : tab[t] = Closed
  /\ known \in [File -> Stamp] /\ reported \in [File -> Stamp \cup {NoReport}]
  /\ armed \in (File \cup {NoFile}) \X Stamp /\ refused \in (File \cup {NoFile}) \X Stamp
  /\ pc.at \in {"idle", "opening", "reverting", "writing", "written", "copied",
                "checking", "checked"}
  /\ base \in [Tab -> Stamp] /\ apart \in [Tab -> BOOLEAN] /\ between \in BOOLEAN

\* The save was refused for this very state of the file, and that was the last
\* the user heard of a save of one document.
Insisted == pc.asked /\ refused = <<pc.file, disk[pc.file].stamp>>

\* docs/tabs.md:113: a save writes over nothing but what the document started
\* from, unless the user insists.  Auto-save and SaveAll never do, and a later
\* change asks again.  It says nothing of a document whose record has come apart,
\* of a write that falls between the look and the save, and of Save As, which
\* looks at nothing: SavesAskFirst and SaveAsAsksFirst do.
NoLostWrite ==
  [][SaveWrite => \/ base[pc.tab] = disk[pc.file].stamp
                  \/ Insisted
                  \/ apart[pc.tab] \/ pc.raced]_vars

\* The same with nothing excused but the confirmation, which the code does not
\* keep.
SavesAskFirst ==
  [][SaveWrite => base[pc.tab] = disk[pc.file].stamp \/ Insisted]_vars

\* Save As to the document's own name is a save over it too.
SaveAsAsksFirst ==
  [][\A t \in Tab : SaveAs(t, tab[t].path) => base[t] = disk[tab[t].path].stamp]_vars

\* disk.rs:103: the confirmation has no other save in between.  A save of one
\* document asks again; a Save As, an auto-save or SaveAll does not.
ConfirmedAtOnce ==
  [][SaveWrite /\ Insisted => ~between]_vars

\* A save is not refused for what deco itself wrote, under this name or another,
\* however other programs' writes fall between its calls: the state refused was
\* left by another program, or by Git.
RefusalsAreForeign ==
  [][refused' # refused /\ refused' # NoSave => disk[refused'[1]].by # "deco"]_vars

\* app.rs:767: nor for what Git did on deco's behalf.  Only the path a remote
\* session takes records that, where no files are watched.
GitIsNotForeign ==
  [][refused' # refused /\ refused' # NoSave => disk[refused'[1]].by = "other"]_vars

\* docs/tabs.md:112: unsaved changes are the user's.  An edit, and a revert of
\* that document, replace them; no change that another program makes on disk
\* does, no save under any name, and no checkout that finds nothing unsaved when
\* it runs (SourceControl has what is typed once it was planned).  So does a
\* discard of another file's changes, which GitKeepsUnsavedWork denies.
UnsavedWorkKept ==
  [][\A t \in Tab : tab[t].dirty /\ tab'[t].text # tab[t].text =>
       \/ Edit(t) \/ (RevertDone /\ pc.tab = t)
       \/ \E file \in File \ {tab[t].path} : Discard(file)]_vars

\* app.rs:1553: all buffers are clean before open files are read again.
GitKeepsUnsavedWork ==
  [][\A t \in Tab, file \in File : Discard(file) /\ tab[t].dirty
       => tab'[t].text = tab[t].text]_vars

\* session.rs:856: two tabs for one file would be two divergent copies.  However
\* a file is reached, it is opened once: only saving under the name of an open
\* file gives it a second tab.
OneTabPerFile ==
  \A t, u \in Tab : tab[t].path = tab[u].path /\ tab[t].path # NoFile => t = u

FilesOpenOnce ==
  /\ []TypeOK
  /\ [][OneTabPerFile => OneTabPerFile' \/ SaveAsDone]_vars

Shows(t) == tab[t].text = disk[tab[t].path].text \/ ~Readable(tab[t].path)

\* docs/tabs.md:111: a clean document shows its file, or the next check will read
\* it, however the file changed: by a writer that was still at work, under a
\* conflict that was since resolved, or after it was gone for a while.  Neither a
\* record nor a report is made of a state that is not on the screen, but for the
\* documents whose record came apart.
CleanIsWatched ==
  pc = Idle =>
    \A t \in Tab : tab[t].path # NoFile /\ ~tab[t].dirty =>
      LET file == tab[t].path IN
      \/ Shows(t) \/ apart[t]
      \/ Changed(file) /\ reported[file] # disk[file].stamp
=============================================================================

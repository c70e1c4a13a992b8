-------------------------- MODULE DiskWatch_proofs --------------------------
(***************************************************************************)
(* What a save may write over, who a refusal may blame, and what becomes   *)
(* of unsaved work, for any files and tabs and however long other programs *)
(* write.  The invariants relate three views of a file: what is on disk,   *)
(* what the watch has recorded, and what each document started from.       *)
(***************************************************************************)
EXTENDS DiskWatch, TLAPS

Doc == [open : BOOLEAN, path : File \cup {NoFile}, text : Text, dirty : BOOLEAN]

\* A handler between two of its calls.
Opening   == [at : {"opening"}, file : File, raced : BOOLEAN, text : Text, stamp : Stamp]
Reverting == [at : {"reverting"}, tab : Tab, file : File, raced : BOOLEAN,
              text : Text, stamp : Stamp]
Saving    == [at : {"writing", "written"}, tab : Tab, file : File, asked : BOOLEAN,
              raced : BOOLEAN]
Copying   == [at : {"copied"}, tab : Tab, file : File, stamp : Stamp, raced : BOOLEAN]
Checking  == [at : {"checking"}, file : File, stamp : Stamp, raced : BOOLEAN]
Checked   == [at : {"checked"}, file : File, stamp : Stamp, raced : BOOLEAN, text : Text]

PcOK ==
  /\ pc \in {Idle} \cup Opening \cup Reverting \cup Saving \cup Copying \cup Checking \cup Checked
  /\ pc.at \in {"reverting", "writing", "written"} => tab[pc.tab].path = pc.file
  /\ pc.at = "copied" => tab[pc.tab].open

\* Stamps rise: none is later than the clock, and a file that is not there has
\* no text.
StampsRise ==
  \A f \in File : /\ disk[f].stamp <= clock /\ known[f] <= clock
                  /\ disk[f].stamp = Gone => disk[f].text = Gone

\* Between a write of a file and its record.
Unrecorded(f) == pc.at \in {"written", "copied"} /\ pc.file = f

\* What deco wrote is what it recorded, except between the two.
DecoKnown ==
  \A f \in File : disk[f].by = "deco" /\ ~Unrecorded(f) => known[f] \in {Gone, disk[f].stamp}

DInv == TypeOK /\ PcOK /\ StampsRise /\ DecoKnown

(***************************************************************************)
(* What no lost write rests on.                                            *)
(***************************************************************************)
\* A document whose record has not come apart started from a text, and has its
\* file recorded; while the record agrees with the disk, so does that text.
RecordIsBase ==
  \A t \in Tab : tab[t].path # NoFile /\ ~apart[t] =>
    /\ base[t] # Gone
    /\ \/ Unrecorded(tab[t].path)
       \/ /\ known[tab[t].path] # Gone
          /\ known[tab[t].path] = disk[tab[t].path].stamp => base[t] = disk[tab[t].path].stamp

\* What a handler has seen of the file is still so, unless another program wrote.
HandlerSees ==
  pc.at # "idle" /\ ~pc.raced =>
    /\ pc.at \in {"opening", "reverting", "copied", "checking", "checked"} =>
          pc.stamp = disk[pc.file].stamp
    /\ pc.at \in {"opening", "reverting", "copied", "checked"} => pc.stamp # Gone
    /\ pc.at = "written" => base[pc.tab] = disk[pc.file].stamp /\ base[pc.tab] # Gone

\* A save that waits for its confirmation is the one the user was told of.
ArmedIsRefused ==
  /\ armed \in {NoSave, refused}
  /\ pc.at = "writing" /\ pc.asked => armed = NoSave

\* A save under way writes over what its document started from, or the user
\* insisted.
SaveAllowed ==
  pc.at = "writing" /\ ~pc.raced /\ ~apart[pc.tab] =>
    base[pc.tab] = disk[pc.file].stamp \/ Insisted

JInv == DInv /\ RecordIsBase /\ HandlerSees /\ ArmedIsRefused /\ SaveAllowed

(***************************************************************************)
(* Lemmas on the handlers' state.                                          *)
(***************************************************************************)
\* What a handler holds, by where it is.
LEMMA PcFields ==
  ASSUME PcOK
  PROVE  /\ pc.at = "opening" => pc \in Opening
         /\ pc.at = "reverting" => pc \in Reverting
         /\ pc.at \in {"writing", "written"} => pc \in Saving
         /\ pc.at = "copied" => pc \in Copying
         /\ pc.at = "checking" => pc \in Checking
         /\ pc.at = "checked" => pc \in Checked
         /\ pc = Idle => pc.at = "idle"
BY DEF PcOK, Idle, Opening, Reverting, Saving, Copying, Checking, Checked

\* What is recorded of one file leaves the others'.
LEMMA RememberKeeps ==
  ASSUME TypeOK, NEW file \in File, NEW stamp \in Stamp, Remember(file, stamp)
  PROVE  /\ known' \in [File -> Stamp] /\ reported' \in [File -> Stamp \cup {NoReport}]
         /\ known'[file] = stamp
         /\ \A f \in File : f # file => known'[f] = known[f]
BY DEF TypeOK, Remember

LEMMA NoticedKeeps ==
  ASSUME TypeOK, NEW file \in File, Noticed(file)
  PROVE  /\ known' \in [File -> Stamp] /\ apart' \in [Tab -> BOOLEAN]
         /\ \A f \in File :
              known'[f] = known[f] \/ (known[f] = Gone /\ known'[f] = disk[f].stamp)
BY DEF TypeOK, Noticed, Recorded

\* Whether a document's record has come apart is a truth value.
LEMMA PartedTyped ==
  ASSUME TypeOK, NEW file \in File, NEW shows, NEW raced \in BOOLEAN
  PROVE  Parted(file, shows, raced) \in [Tab -> BOOLEAN]
BY DEF TypeOK, Parted

\* A file is written under the next stamp.
LEMMA WriteKeeps ==
  ASSUME TypeOK, NEW file \in File, NEW text \in Text, Write(file, text)
  PROVE  /\ clock' = clock + 1 /\ clock' \in 1..MaxClock
         /\ disk' \in [File -> [stamp : Stamp, text : Text, by : {"deco", "git", "other"}]]
         /\ disk'[file] = [stamp |-> clock', text |-> text, by |-> "deco"]
         /\ \A f \in File : f # file => disk'[f] = disk[f]
<1>1. clock' = clock + 1 /\ clock' \in 1..MaxClock /\ clock' \in Stamp
  BY DiskAssumption DEF TypeOK, Write, Stamp
<1>2. [stamp |-> clock', text |-> text, by |-> "deco"]
        \in [stamp : Stamp, text : Text, by : {"deco", "git", "other"}]
  BY <1>1
<1> QED
  BY <1>1, <1>2 DEF TypeOK, Write

\* A step from one handler's state to another that leaves the files alone.
LEMMA HandlerMoves ==
  ASSUME DInv, UNCHANGED <<disk, clock, tab>>,
         known' \in [File -> Stamp], reported' \in [File -> Stamp \cup {NoReport}],
         \A f \in File :
            known'[f] = known[f] \/ (known[f] = Gone /\ known'[f] = disk[f].stamp),
         armed' \in (File \cup {NoFile}) \X Stamp,
         refused' \in (File \cup {NoFile}) \X Stamp, between' \in BOOLEAN,
         base' \in [Tab -> Stamp], apart' \in [Tab -> BOOLEAN],
         PcOK', pc.at \notin {"written", "copied"}, pc'.at \notin {"written", "copied"}
  PROVE  DInv'
<1>1. pc'.at \in {"idle", "opening", "reverting", "writing", "written", "copied",
                  "checking", "checked"}
  BY DEF PcOK, Idle, Opening, Reverting, Saving, Copying, Checking, Checked
<1>2. TypeOK'
  BY <1>1 DEF DInv, TypeOK, Free, Closed
<1>3. StampsRise'
  BY DEF DInv, StampsRise, TypeOK
<1>4. DecoKnown'
  BY DEF DInv, DecoKnown, Unrecorded
<1> QED
  BY <1>2, <1>3, <1>4 DEF DInv

\* Between handlers there is nothing to hold.
LEMMA IdlePcOK == ASSUME pc' = Idle PROVE PcOK' /\ pc'.at = "idle"
BY DEF PcOK, Idle

(***************************************************************************)
(* The initial states and each step: types, stamps, and what deco wrote.   *)
(***************************************************************************)
\* Nothing is open, and nothing was recorded.
LEMMA InitDInv == Init => DInv
<1> SUFFICES ASSUME Init PROVE DInv
  OBVIOUS
<1>1. Stamp \subseteq Int /\ 0 \in Stamp /\ 1 \in Stamp /\ {0, 1} \subseteq Text
  BY DiskAssumption DEF Stamp, Text
<1>2. /\ disk = [f \in File |-> [stamp |-> 1, text |-> 1, by |-> "other"]] /\ clock = 1
      /\ tab = [t \in Tab |-> Closed] /\ Closed \in Doc /\ pc = Idle
      /\ known = [f \in File |-> Gone] /\ reported = [f \in File |-> NoReport]
      /\ armed = NoSave /\ refused = NoSave /\ base = [t \in Tab |-> Gone]
      /\ apart = [t \in Tab |-> FALSE] /\ between = FALSE
  BY <1>1 DEF Init, Closed, Doc, Gone
<1>3. TypeOK
  <2>1. disk \in [File -> [stamp : Stamp, text : Text, by : {"deco", "git", "other"}]]
    BY <1>1, <1>2
  <2>2. NoSave \in (File \cup {NoFile}) \X Stamp
    BY <1>1 DEF NoSave, Gone
  <2>3. clock \in 1..MaxClock
    BY <1>2, DiskAssumption
  <2>4. tab \in [Tab -> [open : BOOLEAN, path : File \cup {NoFile},
                         text : Text, dirty : BOOLEAN]]
        /\ \A t \in Free : tab[t] = Closed
    BY <1>2 DEF Doc, Free
  <2> QED
    BY <1>1, <1>2, <2>1, <2>2, <2>3, <2>4 DEF TypeOK, Gone, Idle
<1>4. PcOK
  BY <1>2 DEF PcOK, Idle
<1>5. StampsRise /\ DecoKnown
  BY <1>1, <1>2 DEF StampsRise, DecoKnown, Unrecorded, Gone
<1> QED
  BY <1>3, <1>4, <1>5 DEF DInv

\* The first call of a handler, and those that change nothing but its record.
LEMMA HandlerStep ==
  ASSUME DInv,
         \/ \E file \in File : OpenRead(file) \/ CheckRecord(file) \/ CheckStart(file)
         \/ \E t \in Tab : RevertRead(t) \/ \E asked \in BOOLEAN : SaveCheck(t, asked)
         \/ SaveFails \/ CheckRead \/ CheckAgain
  PROVE  DInv'
<1>1. /\ known \in [File -> Stamp] /\ reported \in [File -> Stamp \cup {NoReport}]
      /\ disk \in [File -> [stamp : Stamp, text : Text, by : {"deco", "git", "other"}]]
      /\ armed \in (File \cup {NoFile}) \X Stamp /\ refused \in (File \cup {NoFile}) \X Stamp
      /\ base \in [Tab -> Stamp] /\ apart \in [Tab -> BOOLEAN] /\ between \in BOOLEAN
      /\ NoSave \in (File \cup {NoFile}) \X Stamp /\ PcOK
  <2>1. 0 \in Stamp
    BY DiskAssumption DEF Stamp
  <2> QED
    BY <2>1 DEF DInv, TypeOK, NoSave, Gone
<1>2. ASSUME NEW file \in File, OpenRead(file) PROVE DInv'
  <2>1. /\ pc = Idle /\ UNCHANGED <<disk, clock, tab, known, reported, armed, base, apart, refused, between>>
        /\ pc' = [at |-> "opening", file |-> file, raced |-> FALSE,
                  text |-> disk[file].text, stamp |-> disk[file].stamp]
    BY <1>2 DEF OpenRead, watch, told
  <2>2. pc' \in Opening /\ pc'.at = "opening" /\ pc.at = "idle"
    BY <1>1, <2>1, PcFields DEF Opening
  <2>3. PcOK'
    BY <2>2 DEF PcOK
  <2> QED
    BY <1>1, <2>1, <2>2, <2>3, HandlerMoves
<1>3. ASSUME NEW file \in File, CheckRecord(file) PROVE DInv'
  <2>1. /\ pc = Idle /\ pc' = Idle /\ Noticed(file)
        /\ UNCHANGED <<disk, clock, tab, reported, armed, base, refused, between>>
    BY <1>3 DEF CheckRecord, told
  <2>2. /\ known' \in [File -> Stamp] /\ apart' \in [Tab -> BOOLEAN]
        /\ \A f \in File :
             known'[f] = known[f] \/ (known[f] = Gone /\ known'[f] = disk[f].stamp)
    BY <2>1, NoticedKeeps DEF DInv
  <2> QED
    BY <1>1, <2>1, <2>2, IdlePcOK, PcFields, HandlerMoves
<1>4. ASSUME NEW file \in File, CheckStart(file) PROVE DInv'
  <2>1. /\ pc = Idle /\ UNCHANGED <<disk, clock, tab, known, reported, armed, base, apart, refused, between>>
        /\ pc' = [at |-> "checking", file |-> file, stamp |-> disk[file].stamp,
                  raced |-> FALSE]
    BY <1>4 DEF CheckStart, watch, told
  <2>2. pc' \in Checking /\ pc'.at = "checking" /\ pc.at = "idle"
    BY <1>1, <2>1, PcFields DEF Checking
  <2>3. PcOK'
    BY <2>2 DEF PcOK
  <2> QED
    BY <1>1, <2>1, <2>2, <2>3, HandlerMoves
<1>5. ASSUME NEW t \in Tab, RevertRead(t) PROVE DInv'
  <2> DEFINE file == tab[t].path
  <2>1. /\ pc = Idle /\ UNCHANGED <<disk, clock, tab, known, reported, armed, base, apart, refused, between>>
        /\ pc' = [at |-> "reverting", tab |-> t, file |-> file, raced |-> FALSE,
                  text |-> disk[file].text, stamp |-> disk[file].stamp]
        /\ file # NoFile
    BY <1>5 DEF RevertRead, watch, told
  <2>2. file \in File
    BY <2>1 DEF DInv, TypeOK
  <2>3. pc' \in Reverting /\ pc'.at = "reverting" /\ pc.at = "idle"
        /\ tab'[pc'.tab].path = pc'.file
    BY <1>1, <2>1, <2>2, PcFields DEF Reverting
  <2>4. PcOK'
    BY <2>3 DEF PcOK
  <2> QED
    BY <1>1, <2>1, <2>3, <2>4, HandlerMoves
<1>6. ASSUME NEW t \in Tab, NEW asked \in BOOLEAN, SaveCheck(t, asked) PROVE DInv'
  <2> DEFINE file == tab[t].path
             save == <<file, disk[file].stamp>>
             Allowed == /\ pc' = [at |-> "writing", tab |-> t, file |-> file, asked |-> asked,
                                  raced |-> FALSE]
                        /\ armed' = (IF asked THEN NoSave ELSE armed)
                        /\ UNCHANGED <<refused, between>>
             Refused == /\ armed' = (IF asked THEN save ELSE armed)
                        /\ refused' = (IF asked THEN save ELSE refused)
                        /\ between' = (IF asked THEN FALSE ELSE between) /\ pc' = pc
  <2>1. /\ pc = Idle /\ file # NoFile /\ Noticed(file)
        /\ UNCHANGED <<disk, clock, tab, reported, base>>
        /\ Allowed \/ Refused
    BY <1>6 DEF SaveCheck, told
  <2>2. file \in File /\ save \in (File \cup {NoFile}) \X Stamp
    BY <1>1, <2>1 DEF DInv, TypeOK
  <2>3. /\ known' \in [File -> Stamp] /\ apart' \in [Tab -> BOOLEAN]
        /\ \A f \in File :
             known'[f] = known[f] \/ (known[f] = Gone /\ known'[f] = disk[f].stamp)
    BY <2>1, <2>2, NoticedKeeps DEF DInv
  <2>4. pc.at = "idle"
    BY <1>1, <2>1, PcFields
  <2>5. CASE Allowed
    <3>1. pc' \in Saving /\ pc'.at = "writing" /\ tab'[pc'.tab].path = pc'.file
      BY <2>1, <2>2, <2>5 DEF Saving
    <3>2. PcOK'
      BY <3>1 DEF PcOK
    <3> QED
      BY <1>1, <2>1, <2>3, <2>4, <2>5, <3>1, <3>2, HandlerMoves
  <2>6. CASE Refused
    <3>1. armed' \in (File \cup {NoFile}) \X Stamp /\ refused' \in (File \cup {NoFile}) \X Stamp
          /\ between' \in BOOLEAN
      BY <1>1, <2>2, <2>6
    <3>2. pc' = Idle
      BY <2>1, <2>6
    <3> QED
      BY <1>1, <2>1, <2>3, <2>4, <3>1, <3>2, IdlePcOK, HandlerMoves
  <2> QED
    BY <2>1, <2>5, <2>6
<1>7. CASE SaveFails
  <2>1. /\ pc.at = "writing" /\ pc' = Idle
        /\ refused' = (IF pc.asked THEN NoSave ELSE refused) /\ between' \in BOOLEAN
        /\ UNCHANGED <<disk, clock, tab, known, reported, armed, base, apart>>
    BY <1>7 DEF SaveFails, watch, Answered
  <2> QED
    BY <1>1, <2>1, IdlePcOK, HandlerMoves
<1>8. CASE CheckRead
  <2>1. /\ pc.at = "checking" /\ UNCHANGED <<disk, clock, tab, known, armed, base, apart, refused, between>>
    BY <1>8 DEF CheckRead, told
  <2>2. pc.file \in File /\ pc.stamp \in Stamp /\ pc.raced \in BOOLEAN
    BY <1>1, <2>1, PcFields DEF Checking
  <2>3. CASE Readable(pc.file)
    <3>1. /\ pc' = [at |-> "checked", file |-> pc.file, stamp |-> pc.stamp,
                    raced |-> pc.raced, text |-> disk[pc.file].text]
          /\ reported' = reported
      BY <1>8, <2>3 DEF CheckRead
    <3>2. pc' \in Checked /\ pc'.at = "checked"
      BY <1>1, <2>2, <3>1 DEF Checked
    <3>3. PcOK'
      BY <3>2 DEF PcOK
    <3> QED
      BY <1>1, <2>1, <3>1, <3>2, <3>3, HandlerMoves
  <2>4. CASE ~Readable(pc.file)
    <3>1. pc' = Idle /\ reported' = [reported EXCEPT ![pc.file] = pc.stamp]
      BY <1>8, <2>4 DEF CheckRead
    <3>2. reported' \in [File -> Stamp \cup {NoReport}]
      BY <1>1, <2>2, <3>1
    <3> QED
      BY <1>1, <2>1, <3>1, <3>2, IdlePcOK, HandlerMoves
  <2> QED
    BY <2>3, <2>4
<1>9. CASE CheckAgain
  <2>1. /\ pc.at = "checked" /\ pc' = Idle
        /\ UNCHANGED <<disk, clock, tab, known, reported, armed, base, apart, refused, between>>
    BY <1>9 DEF CheckAgain, watch, told
  <2> QED
    BY <1>1, <2>1, IdlePcOK, HandlerMoves
<1> QED
  BY <1>2, <1>3, <1>4, <1>5, <1>6, <1>7, <1>8, <1>9

\* A tab that is not open holds nothing.
TabsOK == /\ tab \in [Tab -> Doc]
          /\ \A t \in Free : tab[t] = Closed

\* The end of a handler that records the file as it is.
LEMMA HandlerEnds ==
  ASSUME DInv, UNCHANGED <<disk, clock, armed, refused, between>>, pc' = Idle,
         NEW file \in File, Remember(file, disk[file].stamp),
         pc.at \in {"written", "copied"} => pc.file = file,
         TabsOK', base' \in [Tab -> Stamp], apart' \in [Tab -> BOOLEAN]
  PROVE  DInv'
<1>1. disk[file].stamp \in Stamp
  BY DEF DInv, TypeOK
<1>2. /\ known' \in [File -> Stamp] /\ reported' \in [File -> Stamp \cup {NoReport}]
      /\ known'[file] = disk[file].stamp
      /\ \A f \in File : f # file => known'[f] = known[f]
  BY <1>1, RememberKeeps DEF DInv
<1>3. PcOK' /\ pc'.at = "idle"
  BY IdlePcOK
<1>4. TypeOK'
  BY <1>2, <1>3 DEF DInv, TypeOK, TabsOK, Doc
<1>5. StampsRise'
  BY <1>2 DEF DInv, StampsRise
<1>6. DecoKnown'
  BY <1>2, <1>3 DEF DInv, DecoKnown, Unrecorded
<1> QED
  BY <1>3, <1>4, <1>5, <1>6 DEF DInv

\* A step of the user on the documents alone.
LEMMA TabsMove ==
  ASSUME DInv, UNCHANGED <<disk, known, reported, armed, refused, between, pc>>, pc = Idle,
         clock' \in 1..MaxClock, clock' = clock \/ clock' = clock + 1,
         TabsOK', base' \in [Tab -> Stamp], apart' \in [Tab -> BOOLEAN]
  PROVE  DInv'
<1>1. PcOK' /\ pc'.at = "idle"
  BY IdlePcOK
<1>2. TypeOK'
  BY <1>1 DEF DInv, TypeOK, TabsOK, Doc
<1>3. StampsRise'
  BY DEF DInv, StampsRise, TypeOK, Stamp
<1>4. DecoKnown'
  BY DEF DInv, DecoKnown, Unrecorded
<1> QED
  BY <1>1, <1>2, <1>3, <1>4 DEF DInv

\* The bounds of stamps and texts.
LEMMA Bounds ==
  ASSUME TypeOK
  PROVE  /\ clock \in Stamp /\ clock \in Text /\ clock + 1 \in Int
         /\ clock < MaxClock => clock + 1 \in Stamp /\ clock + 1 \in Text
                                 /\ clock + 1 \in 1..MaxClock
         /\ Gone \in Stamp /\ Gone \in Text /\ Unreadable \in Text
         /\ Stamp \subseteq Int
BY DiskAssumption DEF TypeOK, Stamp, Text, Gone, Unreadable

LEMMA DocumentIsDoc ==
  ASSUME NEW path \in File \cup {NoFile}, NEW text \in Text, NEW dirty \in BOOLEAN
  PROVE  Document(path, text, dirty) \in Doc /\ Document(path, text, dirty).open
BY DEF Document, Doc

\* One document takes the place of another.
LEMMA OneTabMoves ==
  ASSUME TabsOK, NEW t \in Tab, NEW doc \in Doc, doc.open \/ doc = Closed,
         tab' = [tab EXCEPT ![t] = doc]
  PROVE  TabsOK'
<1>1. tab' \in [Tab -> Doc] /\ tab'[t] = doc /\ \A u \in Tab : u # t => tab'[u] = tab[u]
  BY DEF TabsOK
<1> QED
  BY <1>1 DEF TabsOK, Free

\* A field of an open document changes.
LEMMA FieldMoves ==
  ASSUME TabsOK, NEW t \in Tab, tab[t].open,
         NEW text \in Text, NEW dirty \in BOOLEAN, NEW path \in File \cup {NoFile},
         \/ tab' = [tab EXCEPT ![t].text = text, ![t].dirty = dirty]
         \/ tab' = [tab EXCEPT ![t].path = path, ![t].dirty = dirty]
         \/ tab' = [tab EXCEPT ![t].dirty = dirty]
         \/ tab' = [tab EXCEPT ![t].text = text]
  PROVE  TabsOK'
<1>1. tab \in [Tab -> Doc] /\ tab[t] \in Doc
  BY DEF TabsOK
<1>2. tab' \in [Tab -> Doc] /\ \A u \in Tab : u # t => tab'[u] = tab[u]
  BY <1>1 DEF Doc
<1>3. tab'[t].open
  BY <1>1 DEF Doc
<1> QED
  BY <1>2, <1>3 DEF TabsOK, Free

\* A document on a file is open.
LEMMA OnFileOpen ==
  ASSUME TabsOK, NEW t \in Tab, tab[t].path # NoFile
  PROVE  tab[t].open /\ tab[t].path \in File
BY DEF TabsOK, Doc, Free, Closed

LEMMA TypeTabs == ASSUME TypeOK PROVE TabsOK
BY DEF TypeOK, TabsOK, Doc

\* The last step of a handler that opens, reverts, saves or reloads.
LEMMA EndStep ==
  ASSUME DInv, OpenDone \/ RevertDone \/ SaveDone \/ SaveAsDone \/ CheckDone
  PROVE  DInv'
<1>1. TypeOK /\ TabsOK /\ PcOK
  BY TypeTabs DEF DInv
<1>2. /\ disk \in [File -> [stamp : Stamp, text : Text, by : {"deco", "git", "other"}]]
      /\ base \in [Tab -> Stamp] /\ apart \in [Tab -> BOOLEAN] /\ between \in BOOLEAN
      /\ known \in [File -> Stamp] /\ reported \in [File -> Stamp \cup {NoReport}]
  BY <1>1 DEF TypeOK
<1>3. CASE OpenDone
  <2>1. /\ pc.at = "opening" /\ pc' = Idle /\ Remember(pc.file, disk[pc.file].stamp)
        /\ Opened(pc.file, pc.text) /\ UNCHANGED <<disk, clock, armed, refused, between>>
        /\ \E opened \in SUBSET Tab :
             /\ base' = [t \in Tab |-> IF t \in opened THEN pc.stamp ELSE base[t]]
             /\ apart' = Parted(pc.file, opened, pc.raced)
    BY <1>3 DEF OpenDone, told
  <2>2. pc.file \in File /\ pc.text \in Text /\ pc.stamp \in Stamp /\ pc.raced \in BOOLEAN
    BY <1>1, <2>1, PcFields DEF Opening
  <2>3. TabsOK'
    <3>1. CASE tab' = tab
      BY <1>1, <3>1 DEF TabsOK, Free
    <3>2. ASSUME NEW t \in Free, tab' = [tab EXCEPT ![t] = Document(pc.file, pc.text, FALSE)]
          PROVE  TabsOK'
      BY <1>1, <2>2, <3>2, OneTabMoves, DocumentIsDoc DEF Free
    <3> QED
      BY <2>1, <3>1, <3>2 DEF Opened
  <2>4. base' \in [Tab -> Stamp]
    BY <1>2, <2>1, <2>2
  <2>5. apart' \in [Tab -> BOOLEAN]
    BY <1>1, <2>1, <2>2, PartedTyped
  <2> QED
    BY <2>1, <2>2, <2>3, <2>4, <2>5, HandlerEnds
<1>4. CASE RevertDone
  <2>1. /\ pc.at = "reverting" /\ pc' = Idle /\ Remember(pc.file, disk[pc.file].stamp)
        /\ tab' = [tab EXCEPT ![pc.tab].text = pc.text, ![pc.tab].dirty = FALSE]
        /\ base' = [base EXCEPT ![pc.tab] = pc.stamp]
        /\ apart' = Parted(pc.file, {pc.tab}, pc.raced)
        /\ UNCHANGED <<disk, clock, armed, refused, between>>
    BY <1>4 DEF RevertDone, told
  <2>2. /\ pc.file \in File /\ pc.text \in Text /\ pc.stamp \in Stamp /\ pc.tab \in Tab
        /\ pc.raced \in BOOLEAN /\ tab[pc.tab].path = pc.file
    BY <1>1, <2>1, PcFields DEF Reverting, PcOK
  <2>3. tab[pc.tab].open
    BY <1>1, <2>2, OnFileOpen, DiskAssumption
  <2>4. TabsOK'
    BY <1>1, <2>1, <2>2, <2>3, FieldMoves
  <2>5. base' \in [Tab -> Stamp] /\ apart' \in [Tab -> BOOLEAN]
    BY <1>1, <1>2, <2>1, <2>2, PartedTyped
  <2> QED
    BY <2>1, <2>2, <2>4, <2>5, HandlerEnds
<1>5. CASE SaveDone
  <2>1. /\ pc.at = "written" /\ pc' = Idle /\ Remember(pc.file, disk[pc.file].stamp)
        /\ apart' = Parted(pc.file, {pc.tab}, pc.raced)
        /\ UNCHANGED <<disk, clock, armed, base, refused, between>>
    BY <1>5 DEF SaveDone, told
  <2>2. pc.file \in File /\ pc.tab \in Tab /\ pc.raced \in BOOLEAN /\ tab[pc.tab].path = pc.file
    BY <1>1, <2>1, PcFields DEF Saving, PcOK
  <2>3. PICK t \in Tab : tab[t].path = pc.file /\ tab' = [tab EXCEPT ![t].dirty = FALSE]
    BY <1>5, <2>2 DEF SaveDone, TabsOf
  <2>4. tab[t].open
    BY <1>1, <2>2, <2>3, OnFileOpen, DiskAssumption
  <2>5. TabsOK' /\ apart' \in [Tab -> BOOLEAN]
    BY <1>1, <2>1, <2>2, <2>3, <2>4, FieldMoves, Bounds, DiskAssumption, PartedTyped
  <2> QED
    BY <1>2, <2>1, <2>2, <2>5, HandlerEnds
<1>6. CASE SaveAsDone
  <2>1. /\ pc.at = "copied" /\ pc' = Idle /\ Remember(pc.file, disk[pc.file].stamp)
        /\ tab' = [tab EXCEPT ![pc.tab].path = pc.file, ![pc.tab].dirty = FALSE]
        /\ base' = [base EXCEPT ![pc.tab] = pc.stamp]
        /\ apart' = Parted(pc.file, {pc.tab}, pc.raced)
        /\ UNCHANGED <<disk, clock, armed, refused, between>>
    BY <1>6 DEF SaveAsDone, told
  <2>2. /\ pc.file \in File /\ pc.tab \in Tab /\ pc.stamp \in Stamp /\ pc.raced \in BOOLEAN
        /\ tab[pc.tab].open
    BY <1>1, <2>1, PcFields DEF Copying, PcOK
  <2>3. TabsOK'
    BY <1>1, <2>1, <2>2, FieldMoves, Bounds
  <2>4. base' \in [Tab -> Stamp] /\ apart' \in [Tab -> BOOLEAN]
    BY <1>1, <1>2, <2>1, <2>2, PartedTyped
  <2> QED
    BY <2>1, <2>2, <2>3, <2>4, HandlerEnds
<1>7. CASE CheckDone
  <2>1. /\ pc.at = "checked" /\ disk[pc.file].stamp = pc.stamp /\ pc' = Idle
        /\ UNCHANGED <<disk, clock, armed, refused, between>>
    BY <1>7 DEF CheckDone, told
  <2>2. pc.file \in File /\ pc.text \in Text /\ pc.stamp \in Stamp /\ pc.raced \in BOOLEAN
    BY <1>1, <2>1, PcFields DEF Checked
  <2>3. PICK t \in TabsOf(pc.file) :
          IF tab[t].dirty
            THEN /\ reported' = [reported EXCEPT ![pc.file] = pc.stamp]
                 /\ apart' = Parted(pc.file, {t}, apart[t])
                 /\ UNCHANGED <<tab, known, base>>
            ELSE /\ tab' = [tab EXCEPT ![t].text = pc.text]
                 /\ Remember(pc.file, pc.stamp)
                 /\ base' = [base EXCEPT ![t] = pc.stamp]
                 /\ apart' = Parted(pc.file, {t}, pc.raced /\ pc.stamp = Gone)
    BY <1>7 DEF CheckDone
  <2>4. t \in Tab /\ tab[t].open
    BY <1>1, <2>2, <2>3, OnFileOpen, DiskAssumption DEF TabsOf
  <2>5. CASE tab[t].dirty
    <3>1. reported' \in [File -> Stamp \cup {NoReport}]
      BY <1>2, <2>2, <2>3, <2>5
    <3>2. /\ UNCHANGED <<disk, clock, tab, known, armed, base, refused, between>>
          /\ apart' \in [Tab -> BOOLEAN]
      <4>1. apart[t] \in BOOLEAN
        BY <1>1, <2>4 DEF TypeOK
      <4> QED
        BY <1>1, <2>1, <2>2, <2>3, <2>5, <4>1, PartedTyped
    <3>3. /\ armed \in (File \cup {NoFile}) \X Stamp /\ refused \in (File \cup {NoFile}) \X Stamp
      BY <1>1 DEF TypeOK
    <3> QED
      BY <1>2, <2>1, <3>1, <3>2, <3>3, HandlerMoves, IdlePcOK
  <2>6. CASE ~tab[t].dirty
    <3>1. /\ tab' = [tab EXCEPT ![t].text = pc.text] /\ Remember(pc.file, pc.stamp)
          /\ base' = [base EXCEPT ![t] = pc.stamp]
          /\ apart' = Parted(pc.file, {t}, pc.raced /\ pc.stamp = Gone)
      BY <2>3, <2>6
    <3>2. TabsOK'
      BY <1>1, <2>2, <2>4, <3>1, FieldMoves
    <3>3. base' \in [Tab -> Stamp] /\ apart' \in [Tab -> BOOLEAN]
      <4>1. (pc.raced /\ pc.stamp = Gone) \in BOOLEAN
        BY <2>2
      <4> QED
        BY <1>1, <1>2, <2>2, <2>4, <3>1, <4>1, PartedTyped
    <3> QED
      BY <2>1, <2>2, <3>1, <3>2, <3>3, HandlerEnds
  <2> QED
    BY <2>5, <2>6
<1> QED
  BY <1>3, <1>4, <1>5, <1>6, <1>7

\* Following a definition, typing, and closing a clean document.
LEMMA UserStep ==
  ASSUME DInv,
         \/ \E file \in File : Jump(file)
         \/ \E t \in Tab : Edit(t) \/ Close(t)
  PROVE  DInv'
<1>1. TypeOK /\ TabsOK
  BY TypeTabs DEF DInv
<1>2. /\ disk \in [File -> [stamp : Stamp, text : Text, by : {"deco", "git", "other"}]]
      /\ base \in [Tab -> Stamp] /\ apart \in [Tab -> BOOLEAN] /\ clock \in 1..MaxClock
      /\ Gone \in Stamp
      /\ clock < MaxClock => clock + 1 \in 1..MaxClock /\ clock + 1 \in Text
  BY <1>1, Bounds DEF TypeOK
<1>3. ASSUME NEW file \in File, Jump(file) PROVE DInv'
  <2>1. /\ pc = Idle /\ UNCHANGED <<disk, known, reported, armed, pc, refused, between>>
    BY <1>3 DEF Jump, watch, told
  <2>2. PICK t \in Free :
          /\ \/ tab' = [tab EXCEPT ![t] = Document(file, disk[file].text, FALSE)] /\ clock' = clock
             \/ /\ clock < MaxClock /\ clock' = clock + 1
                /\ tab' = [tab EXCEPT ![t] = Document(file, clock', TRUE)]
          /\ base' = [base EXCEPT ![t] = disk[file].stamp]
          /\ apart' = [apart EXCEPT ![t] = known[file] = Gone]
    BY <1>3 DEF Jump
  <2>3. t \in Tab
    BY DEF Free
  <2>4. base' \in [Tab -> Stamp] /\ apart' \in [Tab -> BOOLEAN]
    BY <1>2, <2>2, <2>3
  <2>5. clock' \in 1..MaxClock /\ (clock' = clock \/ clock' = clock + 1)
    BY <1>2, <2>2
  <2>6. TabsOK'
    <3>1. PICK text \in Text, dirty \in BOOLEAN :
            tab' = [tab EXCEPT ![t] = Document(file, text, dirty)]
      BY <1>2, <2>2
    <3> QED
      BY <1>1, <2>3, <3>1, OneTabMoves, DocumentIsDoc
  <2> QED
    BY <2>1, <2>4, <2>5, <2>6, TabsMove
<1>4. ASSUME NEW t \in Tab, Edit(t) PROVE DInv'
  <2>1. /\ pc = Idle /\ UNCHANGED <<disk, known, reported, armed, pc, base, apart, refused, between>>
        /\ tab[t].open /\ clock' = clock + 1 /\ clock' \in Text /\ clock' \in 1..MaxClock
        /\ tab' = [tab EXCEPT ![t].text = clock', ![t].dirty = TRUE]
    BY <1>2, <1>4 DEF Edit, watch, told
  <2>2. TabsOK'
    BY <1>1, <2>1, FieldMoves
  <2> QED
    BY <1>2, <2>1, <2>2, TabsMove
<1>5. ASSUME NEW t \in Tab, Close(t) PROVE DInv'
  <2>1. /\ pc = Idle /\ UNCHANGED <<disk, clock, known, reported, armed, pc, refused, between>>
        /\ tab' = [tab EXCEPT ![t] = Closed] /\ base' = [base EXCEPT ![t] = Gone]
        /\ apart' = [apart EXCEPT ![t] = FALSE]
    BY <1>5 DEF Close, watch, told
  <2>2. Closed \in Doc
    BY <1>1, Bounds DEF Closed, Doc
  <2>3. TabsOK'
    BY <1>1, <2>1, <2>2, OneTabMoves
  <2>4. base' \in [Tab -> Stamp] /\ apart' \in [Tab -> BOOLEAN]
    BY <1>2, <2>1
  <2> QED
    BY <1>2, <2>1, <2>3, <2>4, TabsMove
<1> QED
  BY <1>3, <1>4, <1>5

\* The stamps of one file, as numbers.
StampsAt(f) ==
  /\ disk[f].stamp \in Int /\ known[f] \in Int /\ clock \in Int
  /\ disk[f].stamp <= clock /\ known[f] <= clock
  /\ disk[f].stamp = Gone => disk[f].text = Gone

LEMMA StampsHere == ASSUME DInv, NEW f \in File PROVE StampsAt(f)
BY Bounds DEF DInv, TypeOK, StampsRise, StampsAt

\* The steps that write: deco's own, git's and other programs'.
LEMMA WriteStep ==
  ASSUME DInv,
         \/ SaveWrite \/ \E t \in Tab, file \in File : SaveAs(t, file)
         \/ \E files \in SUBSET File : GitRuns(files)
         \/ \E file \in File : OtherWrites(file)
  PROVE  DInv'
<1> DEFINE Disk == [File -> [stamp : Stamp, text : Text, by : {"deco", "git", "other"}]]
<1>1. TypeOK /\ TabsOK /\ PcOK
  BY TypeTabs DEF DInv
<1>2. /\ disk \in Disk /\ base \in [Tab -> Stamp] /\ apart \in [Tab -> BOOLEAN]
      /\ between \in BOOLEAN
      /\ known \in [File -> Stamp] /\ reported \in [File -> Stamp \cup {NoReport}]
      /\ armed \in (File \cup {NoFile}) \X Stamp /\ refused \in (File \cup {NoFile}) \X Stamp
      /\ NoSave \in (File \cup {NoFile}) \X Stamp
      /\ tab \in [Tab -> Doc] /\ Stamp \subseteq Int /\ clock \in Int
      /\ pc.at \in {"idle", "opening", "reverting", "writing", "written", "copied",
                    "checking", "checked"}
  BY <1>1, Bounds DEF TypeOK, TabsOK, NoSave
<1>3. CASE SaveWrite
  <2>1. /\ pc.at = "writing" /\ Write(pc.file, tab[pc.tab].text)
        /\ base' = [base EXCEPT ![pc.tab] = clock']
        /\ pc' = [pc EXCEPT !.at = "written", !.raced = FALSE]
        /\ refused' = (IF pc.asked THEN NoSave ELSE refused) /\ between' \in BOOLEAN
        /\ UNCHANGED <<tab, known, reported, armed, apart>>
    BY <1>3 DEF SaveWrite, watch, Answered
  <2>2. pc \in Saving /\ tab[pc.tab].path = pc.file
    BY <1>1, <2>1, PcFields DEF PcOK
  <2>3. /\ pc' \in Saving /\ pc'.at = "written" /\ pc'.file = pc.file /\ pc'.tab = pc.tab
        /\ pc.file \in File /\ pc.tab \in Tab
    BY <2>1, <2>2 DEF Saving
  <2>4. tab[pc.tab].text \in Text
    BY <1>2, <2>3 DEF Doc
  <2>5. /\ clock' = clock + 1 /\ clock' \in 1..MaxClock /\ disk' \in Disk
        /\ disk'[pc.file].stamp = clock'
        /\ \A f \in File : f # pc.file => disk'[f] = disk[f]
    <3> DEFINE file == pc.file
               text == tab[pc.tab].text
    <3>1. file \in File /\ text \in Text /\ Write(file, text)
      BY <2>1, <2>3, <2>4
    <3> HIDE DEF file, text
    <3>2. /\ clock' = clock + 1 /\ clock' \in 1..MaxClock /\ disk' \in Disk
          /\ disk'[file] = [stamp |-> clock', text |-> text, by |-> "deco"]
          /\ \A f \in File : f # file => disk'[f] = disk[f]
      BY <1>1, <3>1, WriteKeeps
    <3> QED
      BY <3>2 DEF file
  <2>6. PcOK'
    BY <2>1, <2>2, <2>3 DEF PcOK
  <2>7. clock' \in Stamp /\ clock' # Gone
    BY <1>1, <2>5, DiskAssumption DEF Stamp, Gone
  <2>8. TypeOK'
    <3>1. base' \in [Tab -> Stamp]
      BY <1>2, <2>1, <2>3, <2>7
    <3>2. refused' \in (File \cup {NoFile}) \X Stamp
      BY <1>2, <2>1
    <3>3. TabsOK'
      BY <1>1, <2>1 DEF TabsOK, Free
    <3> QED
      BY <1>2, <2>1, <2>3, <2>5, <3>1, <3>2, <3>3 DEF TypeOK, TabsOK, Doc
  <2>9. StampsRise'
    BY <1>2, <2>1, <2>3, <2>5, <2>7 DEF DInv, StampsRise
  <2>10. DecoKnown'
    BY <2>1, <2>3, <2>5 DEF DInv, DecoKnown, Unrecorded
  <2> QED
    BY <2>6, <2>8, <2>9, <2>10 DEF DInv
<1>4. ASSUME NEW t \in Tab, NEW file \in File, SaveAs(t, file) PROVE DInv'
  <2>1. /\ pc = Idle /\ tab[t].open /\ Write(file, tab[t].text)
        /\ pc' = [at |-> "copied", tab |-> t, file |-> file, stamp |-> clock', raced |-> FALSE]
        /\ UNCHANGED <<tab, known, reported, armed, base, apart, refused>>
        /\ between' \in BOOLEAN
    BY <1>4 DEF SaveAs, watch, Answered
  <2>2. /\ clock' = clock + 1 /\ clock' \in 1..MaxClock /\ disk' \in Disk
        /\ disk'[file].stamp = clock'
        /\ \A f \in File : f # file => disk'[f] = disk[f]
    <3> DEFINE text == tab[t].text
    <3>1. text \in Text /\ Write(file, text)
      BY <1>2, <2>1 DEF Doc
    <3> HIDE DEF text
    <3>2. /\ clock' = clock + 1 /\ clock' \in 1..MaxClock /\ disk' \in Disk
          /\ disk'[file] = [stamp |-> clock', text |-> text, by |-> "deco"]
          /\ \A f \in File : f # file => disk'[f] = disk[f]
      BY <1>1, <3>1, WriteKeeps
    <3> QED
      BY <3>2
  <2>3. clock' \in Stamp /\ clock' # Gone
    BY <1>1, <2>2, DiskAssumption DEF Stamp, Gone
  <2>4. /\ pc' \in Copying /\ pc'.at = "copied" /\ pc'.file = file /\ pc'.tab = t
        /\ pc.at = "idle"
    BY <2>1, <2>3 DEF Copying, Idle
  <2>5. PcOK' /\ TabsOK'
    BY <1>1, <2>1, <2>4 DEF PcOK, TabsOK, Free
  <2>6. TypeOK'
    BY <1>2, <2>1, <2>2, <2>4, <2>5 DEF TypeOK, TabsOK, Doc
  <2>7. StampsRise'
    <3> SUFFICES ASSUME NEW f \in File
                 PROVE  /\ disk'[f].stamp <= clock' /\ known'[f] <= clock'
                        /\ disk'[f].stamp = Gone => disk'[f].text = Gone
      BY DEF StampsRise
    <3>1. StampsAt(f)
      BY StampsHere
    <3> QED
      BY <1>2, <2>1, <2>2, <2>3, <3>1 DEF StampsAt
  <2>8. DecoKnown'
    BY <2>1, <2>2, <2>4 DEF DInv, DecoKnown, Unrecorded
  <2> QED
    BY <2>5, <2>6, <2>7, <2>8 DEF DInv
<1>5. ASSUME NEW files \in SUBSET File, GitRuns(files) PROVE DInv'
  <2>1. /\ pc = Idle /\ clock < MaxClock /\ clock' = clock + 1
        /\ UNCHANGED <<known, reported, armed, pc, refused, between>>
    BY <1>5 DEF GitRuns, watch, told
  <2>2. PICK text \in {Gone, clock'} :
          disk' = [f \in File |->
                     IF f \notin files THEN disk[f]
                     ELSE [stamp |-> text, text |-> text, by |-> "git"]]
    BY <1>5 DEF GitRuns
  <2>2a. PICK first \in FirstTabs :
       /\ tab' = [t \in Tab |-> Reloaded(t, first)]
       /\ base' = [t \in Tab |-> IF Missing(t) THEN Gone
                                 ELSE IF first[t] THEN disk'[tab[t].path].stamp ELSE base[t]]
       /\ apart' = [t \in Tab |-> IF Missing(t) THEN FALSE
                                  ELSE IF first[t] THEN known[tab[t].path] = Gone
                                  ELSE apart[t]]
    BY <1>5 DEF GitRuns
  <2>3. text \in Stamp /\ text \in Text /\ clock' \in 1..MaxClock /\ text <= clock'
    BY <1>1, <2>1, Bounds DEF Gone
  <2>4. disk' \in Disk
    <3>1. [stamp |-> text, text |-> text, by |-> "git"]
            \in [stamp : Stamp, text : Text, by : {"deco", "git", "other"}]
      BY <2>3
    <3> QED
      BY <1>2, <2>2, <3>1
  <2>5. \A t \in Tab : /\ Reloaded(t, first) \in Doc
                       /\ ~Reloaded(t, first).open => Reloaded(t, first) = Closed
    <3> SUFFICES ASSUME NEW t \in Tab
                 PROVE  /\ Reloaded(t, first) \in Doc
                        /\ ~Reloaded(t, first).open => Reloaded(t, first) = Closed
      OBVIOUS
    <3>1. tab[t] \in Doc /\ (~tab[t].open => tab[t] = Closed) /\ tab[t].text \in Text
      BY <1>1 DEF TabsOK, Free, Doc
    <3>2. CASE Missing(t)
      <4>1. Reloaded(t, first) = Document(NoFile, tab[t].text, TRUE)
        BY <3>2 DEF Reloaded
      <4> QED
        BY <3>1, <4>1, DocumentIsDoc
    <3>3. CASE ~Missing(t) /\ first[t]
      <4>1. tab[t].path # NoFile
        BY <2>2a, <3>3 DEF FirstTabs
      <4>2. tab[t].path \in File /\ disk'[tab[t].path].text \in Text
        BY <2>4, <3>1, <4>1 DEF Doc
      <4>3. Reloaded(t, first) = Document(tab[t].path, disk'[tab[t].path].text, FALSE)
        BY <3>3 DEF Reloaded
      <4> QED
        BY <4>2, <4>3, DocumentIsDoc
    <3>4. CASE ~Missing(t) /\ ~first[t]
      BY <3>1, <3>4 DEF Reloaded
    <3> QED
      BY <3>2, <3>3, <3>4
  <2>6. TabsOK'
    BY <2>5, <2>2a DEF TabsOK, Free
  <2>7. base' \in [Tab -> Stamp] /\ apart' \in [Tab -> BOOLEAN]
    <3>1. \A t \in Tab : tab[t].path # NoFile => disk'[tab[t].path].stamp \in Stamp
      BY <1>2, <2>4 DEF Doc
    <3>2. \A t \in Tab : first[t] => tab[t].path # NoFile
      BY <2>2a DEF FirstTabs
    <3>3. Gone \in Stamp
      BY <1>1, Bounds
    <3> QED
      BY <1>2, <2>2a, <3>1, <3>2, <3>3
  <2>8. PcOK' /\ pc'.at = "idle" /\ pc.at = "idle"
    BY <2>1, IdlePcOK DEF Idle
  <2>9. TypeOK'
    BY <1>2, <2>1, <2>3, <2>4, <2>6, <2>7, <2>8 DEF TypeOK, TabsOK, Doc
  <2>10. StampsRise'
    <3> SUFFICES ASSUME NEW f \in File
                 PROVE  /\ disk'[f].stamp <= clock' /\ known'[f] <= clock'
                        /\ disk'[f].stamp = Gone => disk'[f].text = Gone
      BY DEF StampsRise
    <3>1. StampsAt(f)
      BY StampsHere
    <3>2. known'[f] <= clock'
      BY <1>2, <2>1, <3>1 DEF StampsAt
    <3>3. CASE f \in files
      BY <2>2, <2>3, <3>2, <3>3
    <3>4. CASE f \notin files
      BY <1>2, <2>1, <2>2, <3>1, <3>2, <3>4 DEF StampsAt
    <3> QED
      BY <3>3, <3>4
  <2>11. DecoKnown'
    <3> SUFFICES ASSUME NEW f \in File, disk'[f].by = "deco"
                 PROVE  known'[f] \in {Gone, disk'[f].stamp}
      BY DEF DecoKnown
    <3>1. disk'[f] = disk[f]
      BY <2>2
    <3> QED
      BY <2>1, <2>8, <3>1 DEF DInv, DecoKnown, Unrecorded
  <2> QED
    BY <2>8, <2>9, <2>10, <2>11 DEF DInv
<1>6. ASSUME NEW file \in File, OtherWrites(file) PROVE DInv'
  <2>1. /\ clock < MaxClock /\ clock' = clock + 1
        /\ UNCHANGED <<tab, known, reported, armed, base, apart, refused, between>>
        /\ pc' = IF pc # Idle /\ pc.file = file THEN [pc EXCEPT !.raced = TRUE] ELSE pc
        /\ \/ \E text \in {clock', Unreadable, disk[file].text} \ {Gone} :
                disk' = [disk EXCEPT ![file] = [stamp |-> clock', text |-> text, by |-> "other"]]
           \/ disk' = [disk EXCEPT ![file] = [stamp |-> Gone, text |-> Gone, by |-> "other"]]
    BY <1>6 DEF OtherWrites, watch, told
  <2>2. /\ clock' \in 1..MaxClock /\ clock' \in Stamp /\ clock' \in Text /\ clock' # Gone
        /\ Gone \in Stamp /\ Gone \in Text /\ Unreadable \in Text
    BY <1>1, <2>1, Bounds DEF Gone
  <2>3. PICK stamp \in Stamp, text \in Text :
          /\ stamp <= clock' /\ (stamp = Gone => text = Gone)
          /\ disk' = [disk EXCEPT ![file] = [stamp |-> stamp, text |-> text, by |-> "other"]]
    <3>1. disk[file].text \in Text /\ clock' <= clock' /\ Gone <= clock'
      BY <1>2, <2>2 DEF Gone
    <3> QED
      BY <2>1, <2>2, <3>1
  <2>4. disk' \in Disk /\ disk'[file] = [stamp |-> stamp, text |-> text, by |-> "other"]
        /\ \A f \in File : f # file => disk'[f] = disk[f]
    <3>1. [stamp |-> stamp, text |-> text, by |-> "other"]
            \in [stamp : Stamp, text : Text, by : {"deco", "git", "other"}]
      OBVIOUS
    <3> QED
      BY <1>2, <2>3, <3>1
  <2>5. TabsOK' /\ PcOK' /\ pc'.at = pc.at /\ (pc.at # "idle" => pc'.file = pc.file)
    <3>1. pc # Idle => pc \in Opening \cup Reverting \cup Saving \cup Copying
                               \cup Checking \cup Checked
      BY <1>1 DEF PcOK
    <3>2. /\ pc' = pc \/ (pc # Idle /\ pc' = [pc EXCEPT !.raced = TRUE])
      BY <2>1
    <3>3. PcOK' /\ pc'.at = pc.at /\ (pc.at # "idle" => pc'.file = pc.file)
      <4>1. CASE pc' = pc
        BY <1>1, <2>1, <4>1 DEF PcOK
      <4>2. CASE pc \in Opening /\ pc' = [pc EXCEPT !.raced = TRUE]
        BY <1>1, <2>1, <4>2 DEF PcOK, Opening
      <4>3. CASE pc \in Reverting /\ pc' = [pc EXCEPT !.raced = TRUE]
        BY <1>1, <2>1, <4>3 DEF PcOK, Reverting
      <4>4. CASE pc \in Saving /\ pc' = [pc EXCEPT !.raced = TRUE]
        BY <1>1, <2>1, <4>4 DEF PcOK, Saving
      <4>5. CASE pc \in Copying /\ pc' = [pc EXCEPT !.raced = TRUE]
        BY <1>1, <2>1, <4>5 DEF PcOK, Copying
      <4>6. CASE pc \in Checking /\ pc' = [pc EXCEPT !.raced = TRUE]
        BY <1>1, <2>1, <4>6 DEF PcOK, Checking
      <4>7. CASE pc \in Checked /\ pc' = [pc EXCEPT !.raced = TRUE]
        BY <1>1, <2>1, <4>7 DEF PcOK, Checked
      <4> QED
        BY <3>1, <3>2, <4>1, <4>2, <4>3, <4>4, <4>5, <4>6, <4>7
    <3> QED
      BY <1>1, <2>1, <3>3 DEF TabsOK, Free
  <2>6. TypeOK'
    BY <1>2, <2>1, <2>2, <2>4, <2>5 DEF TypeOK, TabsOK, Doc
  <2>7. StampsRise'
    <3> SUFFICES ASSUME NEW f \in File
                 PROVE  /\ disk'[f].stamp <= clock' /\ known'[f] <= clock'
                        /\ disk'[f].stamp = Gone => disk'[f].text = Gone
      BY DEF StampsRise
    <3>1. StampsAt(f)
      BY StampsHere
    <3>2. known'[f] <= clock'
      BY <1>2, <2>1, <3>1 DEF StampsAt
    <3>3. CASE f = file
      BY <2>3, <2>4, <3>2, <3>3
    <3>4. CASE f # file
      BY <1>2, <2>1, <2>4, <3>1, <3>2, <3>4 DEF StampsAt
    <3> QED
      BY <3>3, <3>4
  <2>8. DecoKnown'
    BY <2>1, <2>4, <2>5 DEF DInv, DecoKnown, Unrecorded
  <2> QED
    BY <2>5, <2>6, <2>7, <2>8 DEF DInv
<1> QED
  BY <1>3, <1>4, <1>5, <1>6

LEMMA NextDInv == DInv /\ [Next]_vars => DInv'
<1> SUFFICES ASSUME DInv, [Next]_vars PROVE DInv'
  OBVIOUS
<1>1. CASE UNCHANGED vars
  BY <1>1 DEF vars, watch, told, DInv, TypeOK, Free, PcOK, StampsRise, DecoKnown, Unrecorded
<1>2. CASE Next
  BY <1>2, HandlerStep, EndStep, UserStep, WriteStep
     DEF Next, Handlers, Check, Checkout, Discard
<1> QED
  BY <1>1, <1>2

\* Types, the order of stamps, and what deco knows of its own writes.
THEOREM Invariance == Spec => []DInv
BY InitDInv, NextDInv, PTL DEF Spec

(***************************************************************************)
(* Who a refusal may blame, and what becomes of unsaved work.              *)
(***************************************************************************)
\* A save is refused only for a state of the file that deco's own write did not
\* leave: another program did, or Git.
THEOREM RefusalsBlameOthers == Spec => RefusalsAreForeign
<1>1. ASSUME DInv, [Next]_vars, refused' # refused, refused' # NoSave
      PROVE  disk[refused'[1]].by # "deco"
  <2>1. PICK t \in Tab, asked \in BOOLEAN : SaveCheck(t, asked)
    BY <1>1 DEF Next, Handlers, Check, OpenDone, RevertDone, SaveFails, SaveWrite, SaveDone,
                SaveAsDone, CheckRead, CheckAgain, CheckDone, GitRuns, Checkout, Discard,
                OpenRead, Jump, OtherWrites, CheckRecord, CheckStart, Edit, Close, RevertRead,
                SaveAs, Answered, vars, told
  <2> DEFINE file == tab[t].path
  <2>2. /\ pc = Idle /\ file # NoFile /\ ~MayWrite(file, asked)
        /\ refused' = <<file, disk[file].stamp>>
    BY <1>1, <2>1 DEF SaveCheck, told
  <2>3. file \in File /\ pc.at = "idle"
    BY <1>1, <2>2, PcFields DEF DInv, TypeOK
  <2>4. known[file] \notin {Gone, disk[file].stamp}
    BY <2>2 DEF MayWrite, Changed
  <2> QED
    BY <1>1, <2>2, <2>3, <2>4 DEF DInv, DecoKnown, Unrecorded
<1> QED
  BY <1>1, Invariance, PTL DEF Spec, RefusalsAreForeign

\* Git runs on nothing unsaved, or on a file that no document with unsaved
\* changes is on.
LEMMA GitAsksFirst ==
  ASSUME DInv, Checkout \/ \E file \in File : Discard(file), NEW t \in Tab, tab[t].dirty
  PROVE  \E file \in File \ {tab[t].path} : Discard(file)
<1>1. PICK file \in File : Discard(file)
  BY DEF Checkout, Unsaved
<1>2. file # tab[t].path
  BY <1>1 DEF Discard, TabsOf, Unsaved
<1> QED
  BY <1>1, <1>2

\* No step but an edit, a revert of that document, and a discard of another
\* file's changes, replaces the text of a document with unsaved changes: not a
\* check of the file, not a checkout, and not the opening of it again.
THEOREM UnsavedWorkStays == Spec => UnsavedWorkKept
<1>1. ASSUME DInv, [Next]_vars, NEW t \in Tab, tab[t].dirty, tab'[t].text # tab[t].text
      PROVE  Edit(t) \/ (RevertDone /\ pc.tab = t) \/ Checkout \/ \E file \in File : Discard(file)
  <2>1. /\ TabsOK /\ PcOK /\ tab \in [Tab -> Doc]
    BY <1>1, TypeTabs DEF DInv, TabsOK
  <2>2. t \notin Free
    BY <1>1, <2>1 DEF TabsOK, Closed
  <2>3. CASE OpenDone
    BY <1>1, <2>1, <2>2, <2>3 DEF OpenDone, Opened
  <2>4. ASSUME NEW file \in File, Jump(file) PROVE FALSE
    BY <1>1, <2>1, <2>2, <2>4 DEF Jump
  <2>5. ASSUME NEW u \in Tab, Edit(u) PROVE u = t
    BY <1>1, <2>1, <2>5 DEF Edit
  <2>6. ASSUME NEW u \in Tab, Close(u) PROVE FALSE
    BY <1>1, <2>1, <2>6 DEF Close
  <2>7. CASE RevertDone
    BY <1>1, <2>1, <2>7 DEF RevertDone
  <2>8. CASE SaveDone
    <3>1. PICK u : tab' = [tab EXCEPT ![u].dirty = FALSE]
      BY <2>8 DEF SaveDone
    <3>2. tab'[t].text = tab[t].text
      BY <2>1, <3>1 DEF Doc
    <3> QED
      BY <1>1, <3>2
  <2>9. CASE SaveAsDone
    <3>1. tab' = [tab EXCEPT ![pc.tab].path = pc.file, ![pc.tab].dirty = FALSE]
      BY <2>9 DEF SaveAsDone
    <3>2. tab'[t].text = tab[t].text
      BY <2>1, <3>1 DEF Doc
    <3> QED
      BY <1>1, <3>2
  <2>10. CASE CheckDone
    <3>1. PICK u \in TabsOf(pc.file) :
            IF tab[u].dirty THEN UNCHANGED tab ELSE tab' = [tab EXCEPT ![u].text = pc.text]
      BY <2>10 DEF CheckDone
    <3> QED
      BY <1>1, <2>1, <3>1 DEF Doc
  <2>11. tab' = tab \/ OpenDone \/ RevertDone \/ SaveDone \/ SaveAsDone \/ CheckDone
         \/ Checkout \/ (\E file \in File : Jump(file) \/ Discard(file))
         \/ (\E u \in Tab : Edit(u) \/ Close(u))
    BY <1>1 DEF Next, Handlers, Check, SaveFails, SaveWrite, CheckRead, CheckAgain,
                OpenRead, OtherWrites, CheckRecord, CheckStart, RevertRead, SaveCheck,
                SaveAs, vars
  <2> QED
    BY <1>1, <2>3, <2>4, <2>5, <2>6, <2>7, <2>8, <2>9, <2>10, <2>11
<1>2. ASSUME DInv, [Next]_vars
      PROVE  \A t \in Tab : tab[t].dirty /\ tab'[t].text # tab[t].text =>
               \/ Edit(t) \/ (RevertDone /\ pc.tab = t)
               \/ \E file \in File \ {tab[t].path} : Discard(file)
  BY <1>1, <1>2, GitAsksFirst
<1> QED
  BY <1>2, Invariance, PTL DEF Spec, UnsavedWorkKept

\* A step that gives no document a path keeps one tab to a file, and so does one
\* that gives a path nobody has.
LEMMA PathsKept ==
  ASSUME OneTabPerFile, \A t \in Tab : tab'[t].path \in {tab[t].path, NoFile}
  PROVE  OneTabPerFile'
BY DEF OneTabPerFile

LEMMA NewPath ==
  ASSUME OneTabPerFile, tab \in [Tab -> Doc], NEW file \in File, TabsOf(file) = {},
         NEW t \in Tab, NEW doc, doc.path = file, tab' = [tab EXCEPT ![t] = doc]
  PROVE  OneTabPerFile'
BY DEF OneTabPerFile, TabsOf

\* What Git leaves gives no document another path.
LEMMA GitPaths ==
  ASSUME NEW files \in SUBSET File, GitRuns(files)
  PROVE  \A t \in Tab : tab'[t].path \in {tab[t].path, NoFile}
<1>1. PICK first \in FirstTabs : tab' = [t \in Tab |-> Reloaded(t, first)]
  BY DEF GitRuns
<1>2. ASSUME NEW t \in Tab
      PROVE  \/ Reloaded(t, first) = Document(NoFile, tab[t].text, TRUE)
             \/ Reloaded(t, first) = Document(tab[t].path, disk'[tab[t].path].text, FALSE)
             \/ Reloaded(t, first) = tab[t]
  BY DEF Reloaded
<1> QED
  BY <1>1, <1>2 DEF Document

\* However a file is reached it is opened once: only a save under the name of an
\* open file gives it a second tab.
THEOREM OneTabToAFile == Spec => FilesOpenOnce
<1>1. ASSUME DInv, [Next]_vars, OneTabPerFile
      PROVE  OneTabPerFile' \/ SaveAsDone
  <2>1. tab \in [Tab -> Doc]
    BY <1>1, TypeTabs DEF DInv, TabsOK
  <2>2. CASE OpenDone
    <3> DEFINE file == pc.file
               doc == Document(file, pc.text, FALSE)
    <3>1. \/ tab' = tab
          \/ TabsOf(file) = {} /\ \E t \in Tab : tab' = [tab EXCEPT ![t] = doc]
      BY <2>2 DEF OpenDone, Opened, Free
    <3>2. file \in File /\ doc.path = file
      BY <1>1, <2>2, PcFields DEF DInv, OpenDone, Opening, Document
    <3> HIDE DEF file, doc
    <3>3. CASE tab' = tab
      BY <1>1, <3>3, PathsKept
    <3>4. CASE TabsOf(file) = {} /\ \E t \in Tab : tab' = [tab EXCEPT ![t] = doc]
      BY <1>1, <2>1, <3>2, <3>4, NewPath
    <3> QED
      BY <3>1, <3>3, <3>4
  <2>3. ASSUME NEW file \in File, Jump(file) PROVE OneTabPerFile'
    <3>1. TabsOf(file) = {} /\ \E t \in Free :
             \/ tab' = [tab EXCEPT ![t] = Document(file, disk[file].text, FALSE)]
             \/ tab' = [tab EXCEPT ![t] = Document(file, clock', TRUE)]
      BY <2>3 DEF Jump
    <3>2. PICK t \in Tab :
             \/ tab' = [tab EXCEPT ![t] = Document(file, disk[file].text, FALSE)]
             \/ tab' = [tab EXCEPT ![t] = Document(file, clock', TRUE)]
      BY <3>1 DEF Free
    <3>3. /\ Document(file, disk[file].text, FALSE).path = file
          /\ Document(file, clock', TRUE).path = file
      BY DEF Document
    <3> QED
      BY <1>1, <2>1, <3>1, <3>2, <3>3, NewPath
  <2>4. CASE \/ RevertDone \/ SaveDone \/ CheckDone
             \/ \E t \in Tab : Edit(t)
    <3>1. ASSUME NEW u, NEW text, NEW dirty,
                 \/ tab' = [tab EXCEPT ![u].text = text, ![u].dirty = dirty]
                 \/ tab' = [tab EXCEPT ![u].dirty = dirty]
                 \/ tab' = [tab EXCEPT ![u].text = text]
                 \/ tab' = tab
          PROVE  \A t \in Tab : tab'[t].path = tab[t].path
      BY <2>1, <3>1 DEF Doc
    <3>2. \A t \in Tab : tab'[t].path = tab[t].path
      <4>1. CASE RevertDone
        BY <3>1, <4>1 DEF RevertDone
      <4>2. CASE SaveDone
        BY <3>1, <4>2 DEF SaveDone
      <4>3. CASE CheckDone
        BY <3>1, <4>3 DEF CheckDone
      <4>4. ASSUME NEW t \in Tab, Edit(t) PROVE \A u \in Tab : tab'[u].path = tab[u].path
        BY <3>1, <4>4 DEF Edit
      <4> QED
        BY <2>4, <4>1, <4>2, <4>3, <4>4
    <3> QED
      BY <1>1, <3>2, PathsKept
  <2>5. ASSUME NEW t \in Tab, Close(t) PROVE OneTabPerFile'
    <3>1. \A u \in Tab : tab'[u].path \in {tab[u].path, NoFile}
      BY <2>1, <2>5 DEF Close, Closed
    <3> QED
      BY <1>1, <3>1, PathsKept
  <2>6. ASSUME NEW files \in SUBSET File, GitRuns(files) PROVE OneTabPerFile'
    BY <1>1, <2>6, GitPaths, PathsKept
  <2>7. CASE tab' = tab
    BY <1>1, <2>7, PathsKept
  <2>8. tab' = tab \/ OpenDone \/ RevertDone \/ SaveDone \/ SaveAsDone \/ CheckDone
         \/ (\E files \in SUBSET File : GitRuns(files))
         \/ (\E file \in File : Jump(file)) \/ (\E u \in Tab : Edit(u) \/ Close(u))
    BY <1>1 DEF Next, Handlers, Check, SaveFails, SaveWrite, CheckRead, CheckAgain, Checkout,
                Discard, OpenRead, OtherWrites, CheckRecord, CheckStart, RevertRead,
                SaveCheck, SaveAs, vars
  <2> QED
    BY <2>2, <2>3, <2>4, <2>5, <2>6, <2>7, <2>8
<1>2. DInv => TypeOK
  BY DEF DInv
<1> QED
  BY <1>1, <1>2, Invariance, PTL DEF Spec, FilesOpenOnce

(***************************************************************************)
(* No lost write: the initial states and each step.                        *)
(***************************************************************************)
\* The parts of the invariant beyond the types.
JParts == RecordIsBase /\ HandlerSees /\ ArmedIsRefused /\ SaveAllowed

\* A text that can be read has a stamp.
LEMMA ReadableStamped ==
  ASSUME DInv, NEW file \in File, Readable(file)
  PROVE  disk[file].stamp # Gone
BY DEF DInv, StampsRise, Readable

\* With no handler under way, only the files, the documents and the
\* confirmation matter.
LEMMA AtRest ==
  ASSUME pc' = Idle, armed' = armed, refused' = refused, ArmedIsRefused
  PROVE  HandlerSees' /\ ArmedIsRefused' /\ SaveAllowed'
BY DEF Idle, HandlerSees, ArmedIsRefused, SaveAllowed

\* Nothing that the record of a file is compared with has changed.
LEMMA RecordsStay ==
  ASSUME RecordIsBase, UNCHANGED <<disk, tab, base, known>>,
         \A t \in Tab : ~apart'[t] => ~apart[t],
         pc.at \notin {"written", "copied"}
  PROVE  RecordIsBase'
BY DEF RecordIsBase, Unrecorded

\* A record made for the first time is of what a document shows, or that document
\* stays apart.
LEMMA RecordsComplete ==
  ASSUME JInv, UNCHANGED <<disk, tab, base>>, pc.at \notin {"written", "copied"},
         NEW file \in File, Noticed(file)
  PROVE  RecordIsBase'
<1> SUFFICES ASSUME NEW t \in Tab, tab[t].path # NoFile, ~apart'[t]
             PROVE  /\ base[t] # Gone
                    /\ known'[tab[t].path] # Gone
                    /\ known'[tab[t].path] = disk[tab[t].path].stamp
                          => base[t] = disk[tab[t].path].stamp
  BY DEF RecordIsBase
<1>1. tab[t].path \in File /\ known \in [File -> Stamp] /\ apart \in [Tab -> BOOLEAN]
  BY DEF JInv, DInv, TypeOK
<1>2. known'[tab[t].path] = (IF tab[t].path = file /\ known[file] = Gone
                               THEN disk[file].stamp ELSE known[tab[t].path])
  BY <1>1 DEF Noticed, Recorded
<1>3. \/ ~apart[t]
      \/ known[file] = Gone /\ tab[t].path = file /\ base[t] = disk[file].stamp /\ base[t] # Gone
  BY <1>1 DEF Noticed
<1>4. CASE ~apart[t]
  <2>1. /\ base[t] # Gone /\ known[tab[t].path] # Gone
        /\ known[tab[t].path] = disk[tab[t].path].stamp => base[t] = disk[tab[t].path].stamp
    BY <1>4 DEF JInv, RecordIsBase, Unrecorded
  <2> QED
    BY <1>2, <2>1
<1>5. CASE /\ known[file] = Gone /\ tab[t].path = file
           /\ base[t] = disk[file].stamp /\ base[t] # Gone
  BY <1>2, <1>5
<1> QED
  BY <1>3, <1>4, <1>5

\* Handlers that have not written yet.
LEMMA HandlerJ ==
  ASSUME JInv,
         \/ \E file \in File : OpenRead(file) \/ CheckRecord(file) \/ CheckStart(file)
         \/ \E t \in Tab : RevertRead(t) \/ \E asked \in BOOLEAN : SaveCheck(t, asked)
         \/ SaveFails \/ CheckRead \/ CheckAgain
  PROVE  JParts'
<1>1. /\ DInv /\ TypeOK /\ PcOK /\ RecordIsBase /\ ArmedIsRefused /\ HandlerSees
  BY DEF JInv, DInv
<1>2. ASSUME NEW file \in File, OpenRead(file) PROVE JParts'
  <2>1. /\ pc = Idle /\ Readable(file)
        /\ UNCHANGED <<disk, tab, known, armed, base, apart, refused>>
        /\ pc' = [at |-> "opening", file |-> file, raced |-> FALSE,
                  text |-> disk[file].text, stamp |-> disk[file].stamp]
    BY <1>2 DEF OpenRead, watch, told
  <2>2. HandlerSees' /\ ArmedIsRefused' /\ SaveAllowed'
    BY <1>1, <2>1, ReadableStamped DEF HandlerSees, ArmedIsRefused, SaveAllowed
  <2> QED
    BY <1>1, <2>1, <2>2, PcFields, RecordsStay DEF JParts
<1>3. ASSUME NEW file \in File, CheckRecord(file) PROVE JParts'
  <2>1. /\ pc = Idle /\ pc' = Idle /\ Noticed(file)
        /\ UNCHANGED <<disk, tab, base, armed, refused>>
    BY <1>3 DEF CheckRecord, told
  <2> QED
    BY <1>1, <2>1, AtRest, PcFields, RecordsComplete DEF JParts
<1>4. ASSUME NEW file \in File, CheckStart(file) PROVE JParts'
  <2>1. /\ pc = Idle /\ UNCHANGED <<disk, tab, known, armed, base, apart, refused>>
        /\ pc' = [at |-> "checking", file |-> file, stamp |-> disk[file].stamp,
                  raced |-> FALSE]
    BY <1>4 DEF CheckStart, watch, told
  <2>2. HandlerSees' /\ ArmedIsRefused' /\ SaveAllowed'
    BY <1>1, <2>1 DEF HandlerSees, ArmedIsRefused, SaveAllowed
  <2> QED
    BY <1>1, <2>1, <2>2, PcFields, RecordsStay DEF JParts
<1>5. ASSUME NEW t \in Tab, RevertRead(t) PROVE JParts'
  <2> DEFINE file == tab[t].path
  <2>1. /\ pc = Idle /\ file # NoFile /\ Readable(file)
        /\ UNCHANGED <<disk, tab, known, armed, base, apart, refused>>
        /\ pc' = [at |-> "reverting", tab |-> t, file |-> file, raced |-> FALSE,
                  text |-> disk[file].text, stamp |-> disk[file].stamp]
    BY <1>5 DEF RevertRead, watch, told
  <2>2. file \in File
    BY <1>1, <2>1 DEF TypeOK
  <2> HIDE DEF file
  <2>3. HandlerSees' /\ ArmedIsRefused' /\ SaveAllowed'
    BY <1>1, <2>1, <2>2, ReadableStamped DEF HandlerSees, ArmedIsRefused, SaveAllowed
  <2> QED
    BY <1>1, <2>1, <2>3, PcFields, RecordsStay DEF JParts
<1>6. ASSUME NEW t \in Tab, NEW asked \in BOOLEAN, SaveCheck(t, asked) PROVE JParts'
  <2> DEFINE file == tab[t].path
             save == <<file, disk[file].stamp>>
  <2>1. /\ pc = Idle /\ file # NoFile /\ Noticed(file)
        /\ UNCHANGED <<disk, tab, base>>
        /\ IF MayWrite(file, asked)
             THEN /\ pc' = [at |-> "writing", tab |-> t, file |-> file, asked |-> asked,
                            raced |-> FALSE]
                  /\ armed' = (IF asked THEN NoSave ELSE armed) /\ refused' = refused
             ELSE /\ armed' = (IF asked THEN save ELSE armed)
                  /\ refused' = (IF asked THEN save ELSE refused) /\ pc' = pc
    BY <1>6 DEF SaveCheck, told
  <2>2. file \in File /\ pc.at = "idle"
    BY <1>1, <2>1, PcFields DEF TypeOK
  <2>3. RecordIsBase'
    BY <1>1, <2>1, <2>2, RecordsComplete
  <2>4. CASE MayWrite(file, asked)
    <3>1. ~Changed(file) /\ ~apart'[t] => base[t] = disk[file].stamp
      <4>1. ASSUME ~Changed(file), ~apart'[t] PROVE base[t] = disk[file].stamp
        <5>1. known'[file] = disk[file].stamp
          BY <1>1, <2>1, <2>2, <4>1 DEF Changed, Noticed, Recorded, TypeOK
        <5>2. ~Unrecorded(file)'
          BY <2>1, <2>4 DEF Unrecorded
        <5> QED
          BY <2>1, <2>3, <4>1, <5>1, <5>2 DEF RecordIsBase
      <4> QED
        BY <4>1
    <3>2. asked /\ Confirmed(file) => refused = save
      <4>1. save # NoSave
        BY <2>1 DEF NoSave
      <4> QED
        BY <1>1, <4>1 DEF Confirmed, ArmedIsRefused
    <3>3. SaveAllowed'
      BY <2>1, <2>4, <3>1, <3>2 DEF SaveAllowed, MayWrite, Insisted
    <3>4. HandlerSees' /\ ArmedIsRefused'
      BY <1>1, <2>1, <2>4 DEF HandlerSees, ArmedIsRefused
    <3> QED
      BY <2>3, <3>3, <3>4 DEF JParts
  <2>5. CASE ~MayWrite(file, asked)
    <3>1. ArmedIsRefused'
      BY <1>1, <2>1, <2>2, <2>5 DEF ArmedIsRefused
    <3>2. HandlerSees' /\ SaveAllowed'
      BY <2>1, <2>2, <2>5 DEF HandlerSees, SaveAllowed
    <3> QED
      BY <2>3, <3>1, <3>2 DEF JParts
  <2> QED
    BY <2>4, <2>5
<1>7. CASE SaveFails
  <2>1. /\ pc.at = "writing" /\ pc' = Idle
        /\ refused' = (IF pc.asked THEN NoSave ELSE refused)
        /\ UNCHANGED <<disk, tab, known, armed, base, apart>>
    BY <1>7 DEF SaveFails, watch, Answered
  <2>2. HandlerSees' /\ ArmedIsRefused' /\ SaveAllowed'
    BY <1>1, <2>1 DEF HandlerSees, ArmedIsRefused, SaveAllowed, Idle
  <2> QED
    BY <1>1, <2>1, <2>2, RecordsStay DEF JParts
<1>8. CASE CheckRead
  <2>1. /\ pc.at = "checking" /\ UNCHANGED <<disk, tab, known, armed, base, apart, refused>>
    BY <1>8 DEF CheckRead, told
  <2>2. pc.file \in File
    BY <1>1, <2>1, PcFields DEF Checking
  <2>3. RecordIsBase'
    BY <1>1, <2>1, RecordsStay
  <2>4. CASE Readable(pc.file)
    <3>1. pc' = [at |-> "checked", file |-> pc.file, stamp |-> pc.stamp,
                 raced |-> pc.raced, text |-> disk[pc.file].text]
      BY <1>8, <2>4 DEF CheckRead
    <3>2. disk[pc.file].stamp # Gone
      BY <1>1, <2>2, <2>4, ReadableStamped
    <3>3. HandlerSees' /\ ArmedIsRefused' /\ SaveAllowed'
      BY <1>1, <2>1, <3>1, <3>2 DEF HandlerSees, ArmedIsRefused, SaveAllowed
    <3> QED
      BY <2>3, <3>3 DEF JParts
  <2>5. CASE ~Readable(pc.file)
    BY <1>1, <1>8, <2>1, <2>3, <2>5, AtRest DEF CheckRead, JParts
  <2> QED
    BY <2>4, <2>5
<1>9. CASE CheckAgain
  <2>1. /\ pc.at = "checked" /\ pc' = Idle
        /\ UNCHANGED <<disk, tab, known, armed, base, apart, refused>>
    BY <1>9 DEF CheckAgain, watch, told
  <2> QED
    BY <1>1, <2>1, AtRest, RecordsStay DEF JParts
<1> QED
  BY <1>2, <1>3, <1>4, <1>5, <1>6, <1>7, <1>8, <1>9

\* A handler that ends records the file it worked on: the documents it shows the
\* file in start from what is there, but for a race, and another document on it
\* either starts from the same or is apart.
LEMMA RecordedEnds ==
  ASSUME JInv, UNCHANGED <<disk, armed, refused>>, pc' = Idle, NEW file \in File,
         known'[file] = disk[file].stamp,
         \A f \in File : f # file => known'[f] = known[f],
         pc.at \in {"written", "copied"} => pc.file = file,
         NEW shows \in SUBSET Tab, NEW raced \in BOOLEAN,
         apart' = Parted(file, shows, raced),
         \A t \in Tab \ shows : tab'[t].path = tab[t].path /\ base'[t] = base[t],
         \A t \in shows : /\ tab'[t].path = file
                          /\ ~raced => base'[t] = disk[file].stamp /\ disk[file].stamp # Gone
  PROVE  JParts'
<1>1. RecordIsBase'
  <2> SUFFICES ASSUME NEW t \in Tab, tab'[t].path # NoFile, ~apart'[t]
               PROVE  /\ base'[t] # Gone
                      /\ known'[tab'[t].path] # Gone
                      /\ known'[tab'[t].path] = disk'[tab'[t].path].stamp
                            => base'[t] = disk'[tab'[t].path].stamp
    BY DEF RecordIsBase
  <2>1. CASE t \in shows
    BY <2>1 DEF Parted
  <2>2. CASE t \notin shows /\ tab[t].path = file
    <3>1. ~apart[t] /\ base[t] = disk[file].stamp
      BY <2>2 DEF Parted, TabsOf
    <3>2. base[t] # Gone
      BY <2>2, <3>1, DiskAssumption DEF JInv, RecordIsBase
    <3> QED
      BY <2>2, <3>1, <3>2
  <2>3. CASE t \notin shows /\ tab[t].path # file
    <3>1. ~apart[t] /\ tab[t].path \in File /\ ~Unrecorded(tab[t].path)
      BY <2>3 DEF Parted, Unrecorded, JInv, DInv, TypeOK
    <3>2. /\ base[t] # Gone /\ known[tab[t].path] # Gone
          /\ known[tab[t].path] = disk[tab[t].path].stamp => base[t] = disk[tab[t].path].stamp
      BY <2>3, <3>1 DEF JInv, RecordIsBase
    <3> QED
      BY <2>3, <3>1, <3>2
  <2> QED
    BY <2>1, <2>2, <2>3
<1>2. HandlerSees' /\ ArmedIsRefused' /\ SaveAllowed'
  BY AtRest DEF JInv
<1> QED
  BY <1>1, <1>2 DEF JParts

\* The same of a handler that shows the file in one document.
LEMMA RecordedInOne ==
  ASSUME JInv, UNCHANGED <<disk, armed, refused>>, pc' = Idle, NEW file \in File,
         known'[file] = disk[file].stamp,
         \A f \in File : f # file => known'[f] = known[f],
         pc.at \in {"written", "copied"} => pc.file = file,
         NEW t \in Tab, NEW raced \in BOOLEAN, apart' = Parted(file, {t}, raced),
         tab'[t].path = file, ~raced => base'[t] = disk[file].stamp /\ base'[t] # Gone,
         \A u \in Tab \ {t} : tab'[u].path = tab[u].path /\ base'[u] = base[u]
  PROVE  JParts'
<1> DEFINE shows == {t}
<1>1. /\ shows \in SUBSET Tab /\ apart' = Parted(file, shows, raced)
      /\ \A u \in Tab \ shows : tab'[u].path = tab[u].path /\ base'[u] = base[u]
      /\ \A u \in shows : /\ tab'[u].path = file
                          /\ ~raced => base'[u] = disk[file].stamp /\ disk[file].stamp # Gone
  OBVIOUS
<1> HIDE DEF shows
<1> QED
  BY <1>1, RecordedEnds

\* What is recorded of one file, and the files it leaves.
LEMMA Remembers ==
  ASSUME TypeOK, NEW file \in File, NEW stamp, Remember(file, stamp)
  PROVE  known'[file] = stamp /\ \A f \in File : f # file => known'[f] = known[f]
BY DEF TypeOK, Remember

\* The last step of each handler.
LEMMA EndJ ==
  ASSUME JInv, OpenDone \/ RevertDone \/ SaveDone \/ SaveAsDone \/ CheckDone
  PROVE  JParts'
<1>1. /\ DInv /\ TypeOK /\ PcOK /\ HandlerSees /\ RecordIsBase /\ ArmedIsRefused
      /\ tab \in [Tab -> Doc] /\ base \in [Tab -> Stamp]
  BY TypeTabs DEF JInv, DInv, TabsOK, TypeOK
<1>2. CASE OpenDone
  <2> DEFINE file == pc.file
             opened == {t \in Tab : tab'[t] # tab[t]}
  <2>1. /\ pc.at = "opening" /\ pc' = Idle /\ Remember(file, disk[file].stamp)
        /\ base' = [t \in Tab |-> IF t \in opened THEN pc.stamp ELSE base[t]]
        /\ apart' = Parted(file, opened, pc.raced)
        /\ UNCHANGED <<disk, armed, refused>>
    BY <1>2 DEF OpenDone, told
  <2>2. file \in File /\ pc.raced \in BOOLEAN
    BY <1>1, <2>1, PcFields DEF Opening
  <2>3. ~pc.raced => pc.stamp = disk[file].stamp /\ pc.stamp # Gone
    BY <1>1, <2>1 DEF HandlerSees
  <2>4. \A t \in opened : tab'[t].path = file
    <3>1. tab' = tab \/ \E t \in Free : tab' = [tab EXCEPT ![t] = Document(file, pc.text, FALSE)]
      BY <1>2 DEF OpenDone, Opened
    <3>2. Document(file, pc.text, FALSE).path = file
      BY DEF Document
    <3> QED
      BY <1>1, <3>1, <3>2 DEF Free
  <2>5. /\ opened \in SUBSET Tab
        /\ \A t \in Tab \ opened : tab'[t].path = tab[t].path /\ base'[t] = base[t]
        /\ \A t \in opened : base'[t] = pc.stamp
    BY <2>1
  <2>6. known'[file] = disk[file].stamp /\ \A f \in File : f # file => known'[f] = known[f]
    BY <1>1, <2>1, <2>2, Remembers
  <2> HIDE DEF file, opened
  <2> QED
    BY <2>1, <2>2, <2>3, <2>4, <2>5, <2>6, RecordedEnds
<1>3. CASE RevertDone
  <2> DEFINE file == pc.file
             t == pc.tab
  <2>1. /\ pc.at = "reverting" /\ pc' = Idle /\ Remember(file, disk[file].stamp)
        /\ tab' = [tab EXCEPT ![t].text = pc.text, ![t].dirty = FALSE]
        /\ base' = [base EXCEPT ![t] = pc.stamp]
        /\ apart' = Parted(file, {t}, pc.raced)
        /\ UNCHANGED <<disk, armed, refused>>
    BY <1>3 DEF RevertDone, told
  <2>2. file \in File /\ t \in Tab /\ pc.raced \in BOOLEAN /\ tab[t].path = file
    BY <1>1, <2>1, PcFields DEF Reverting, PcOK
  <2>3. ~pc.raced => pc.stamp = disk[file].stamp /\ pc.stamp # Gone
    BY <1>1, <2>1 DEF HandlerSees
  <2> HIDE DEF file, t
  <2>4. \A u \in Tab : tab'[u].path = tab[u].path
    BY <1>1, <2>1 DEF Doc
  <2>5. base'[t] = pc.stamp /\ \A u \in Tab \ {t} : base'[u] = base[u]
    BY <1>1, <2>1, <2>2
  <2>6. known'[file] = disk[file].stamp /\ \A f \in File : f # file => known'[f] = known[f]
    BY <1>1, <2>1, <2>2, Remembers
  <2>7. pc' = Idle /\ UNCHANGED <<disk, armed, refused>> /\ apart' = Parted(file, {t}, pc.raced)
        /\ (pc.at \in {"written", "copied"} => pc.file = file)
    BY <2>1
  <2>8. tab'[t].path = file /\ \A u \in Tab \ {t} : tab'[u].path = tab[u].path
    BY <2>2, <2>4
  <2> QED
    BY <2>2, <2>3, <2>5, <2>6, <2>7, <2>8, RecordedInOne
<1>4. CASE SaveDone
  <2> DEFINE file == pc.file
             t == pc.tab
  <2>1. /\ pc.at = "written" /\ pc' = Idle /\ Remember(file, disk[file].stamp)
        /\ apart' = Parted(file, {t}, pc.raced)
        /\ \E u : tab' = [tab EXCEPT ![u].dirty = FALSE]
        /\ UNCHANGED <<disk, base, armed, refused>>
    BY <1>4 DEF SaveDone, told
  <2>2. file \in File /\ t \in Tab /\ pc.raced \in BOOLEAN /\ tab[t].path = file
    BY <1>1, <2>1, PcFields DEF Saving, PcOK
  <2>3. ~pc.raced => base[t] = disk[file].stamp /\ base[t] # Gone
    BY <1>1, <2>1 DEF HandlerSees
  <2> HIDE DEF file, t
  <2>4. \A u \in Tab : tab'[u].path = tab[u].path
    BY <1>1, <2>1 DEF Doc
  <2>5. known'[file] = disk[file].stamp /\ \A f \in File : f # file => known'[f] = known[f]
    BY <1>1, <2>1, <2>2, Remembers
  <2> QED
    BY <2>1, <2>2, <2>3, <2>4, <2>5, RecordedEnds DEF file
<1>5. CASE SaveAsDone
  <2> DEFINE file == pc.file
             t == pc.tab
  <2>1. /\ pc.at = "copied" /\ pc' = Idle /\ Remember(file, disk[file].stamp)
        /\ tab' = [tab EXCEPT ![t].path = file, ![t].dirty = FALSE]
        /\ base' = [base EXCEPT ![t] = pc.stamp]
        /\ apart' = Parted(file, {t}, pc.raced)
        /\ UNCHANGED <<disk, armed, refused>>
    BY <1>5 DEF SaveAsDone, told
  <2>2. file \in File /\ t \in Tab /\ pc.raced \in BOOLEAN
    BY <1>1, <2>1, PcFields DEF Copying
  <2>3. ~pc.raced => pc.stamp = disk[file].stamp /\ pc.stamp # Gone
    BY <1>1, <2>1 DEF HandlerSees
  <2>4. pc.file = file
    OBVIOUS
  <2> HIDE DEF file, t
  <2>5. tab'[t].path = file /\ \A u \in Tab \ {t} : tab'[u].path = tab[u].path
    BY <1>1, <2>1, <2>2 DEF Doc
  <2>6. base'[t] = pc.stamp /\ \A u \in Tab \ {t} : base'[u] = base[u]
    BY <1>1, <2>1, <2>2
  <2>7. known'[file] = disk[file].stamp /\ \A f \in File : f # file => known'[f] = known[f]
    BY <1>1, <2>1, <2>2, Remembers
  <2>8. pc' = Idle /\ UNCHANGED <<disk, armed, refused>> /\ apart' = Parted(file, {t}, pc.raced)
    BY <2>1
  <2> QED
    BY <2>2, <2>3, <2>4, <2>5, <2>6, <2>7, <2>8, RecordedInOne
<1>6. CASE CheckDone
  <2> DEFINE file == pc.file
             raced == pc.raced /\ pc.stamp = Gone
  <2>1. /\ pc.at = "checked" /\ disk[file].stamp = pc.stamp /\ pc' = Idle
        /\ UNCHANGED <<disk, armed, refused>>
    BY <1>6 DEF CheckDone, told
  <2>2. file \in File /\ raced \in BOOLEAN /\ (~raced => pc.stamp # Gone)
    BY <1>1, <2>1, PcFields DEF Checked, HandlerSees
  <2>3. PICK t \in TabsOf(file) :
          IF tab[t].dirty
            THEN apart' = Parted(file, {t}, apart[t]) /\ UNCHANGED <<tab, known, base>>
            ELSE /\ tab' = [tab EXCEPT ![t].text = pc.text]
                 /\ Remember(file, pc.stamp)
                 /\ base' = [base EXCEPT ![t] = pc.stamp]
                 /\ apart' = Parted(file, {t}, raced)
    BY <1>6 DEF CheckDone
  <2>4. t \in Tab /\ tab[t].path = file
    BY DEF TabsOf
  <2>5. CASE tab[t].dirty
    <3>1. /\ UNCHANGED <<disk, tab, base, known, armed, refused>>
          /\ \A u \in Tab : ~apart'[u] => ~apart[u]
      BY <2>1, <2>3, <2>5 DEF Parted
    <3> QED
      BY <1>1, <2>1, <3>1, RecordsStay, AtRest DEF JParts
  <2>6. CASE ~tab[t].dirty
    <3>1. /\ tab' = [tab EXCEPT ![t].text = pc.text] /\ Remember(file, pc.stamp)
          /\ base' = [base EXCEPT ![t] = pc.stamp]
          /\ apart' = Parted(file, {t}, raced)
      BY <2>3, <2>6
    <3> HIDE DEF file, raced
    <3>2. known'[file] = pc.stamp /\ \A f \in File : f # file => known'[f] = known[f]
      BY <1>1, <2>2, <3>1, Remembers
    <3>3. \A u \in Tab : tab'[u].path = tab[u].path
      BY <1>1, <3>1 DEF Doc
    <3>4. base'[t] = pc.stamp /\ \A u \in Tab \ {t} : base'[u] = base[u]
      BY <1>1, <2>4, <3>1
    <3> QED
      BY <2>1, <2>2, <2>4, <3>1, <3>2, <3>3, <3>4, RecordedEnds
  <2> QED
    BY <2>5, <2>6
<1> QED
  BY <1>2, <1>3, <1>4, <1>5, <1>6

\* A document opened with nothing recorded is apart; one that is edited is on
\* the file it was on, and one that is closed on none.
LEMMA UserJ ==
  ASSUME JInv,
         \/ \E file \in File : Jump(file)
         \/ \E t \in Tab : Edit(t) \/ Close(t)
  PROVE  JParts'
<1>1. /\ DInv /\ TypeOK /\ RecordIsBase /\ ArmedIsRefused
      /\ tab \in [Tab -> Doc] /\ base \in [Tab -> Stamp] /\ apart \in [Tab -> BOOLEAN]
  BY TypeTabs DEF JInv, DInv, TabsOK, TypeOK
<1>2. ASSUME pc = Idle, UNCHANGED <<disk, known, armed, refused, pc>>,
             NEW t \in Tab,
             \/ tab'[t].path = NoFile
             \/ /\ base'[t] = disk[tab'[t].path].stamp /\ base'[t] # Gone
                /\ apart'[t] = (known[tab'[t].path] = Gone)
             \/ tab'[t].path = tab[t].path /\ base'[t] = base[t] /\ apart'[t] = apart[t],
             \A u \in Tab : u # t => /\ tab'[u] = tab[u]
                                     /\ base'[u] = base[u] /\ apart'[u] = apart[u]
      PROVE  JParts'
  <2>1. HandlerSees' /\ ArmedIsRefused' /\ SaveAllowed'
    BY <1>1, <1>2, AtRest
  <2>2. RecordIsBase'
    <3> SUFFICES ASSUME NEW u \in Tab, tab'[u].path # NoFile, ~apart'[u]
                 PROVE  /\ base'[u] # Gone
                        /\ known[tab'[u].path] # Gone
                        /\ known[tab'[u].path] = disk[tab'[u].path].stamp
                              => base'[u] = disk[tab'[u].path].stamp
      BY <1>2 DEF RecordIsBase
    <3>1. \A v \in Tab : tab[v].path # NoFile /\ ~apart[v] =>
             /\ base[v] # Gone /\ known[tab[v].path] # Gone
             /\ known[tab[v].path] = disk[tab[v].path].stamp => base[v] = disk[tab[v].path].stamp
      BY <1>1, <1>2 DEF RecordIsBase, Unrecorded, Idle
    <3>2. CASE u # t
      <4>1. tab'[u] = tab[u] /\ base'[u] = base[u] /\ apart'[u] = apart[u]
        BY <1>2, <3>2
      <4> QED
        BY <3>1, <4>1
    <3>3. CASE u = t /\ base'[t] = disk[tab'[t].path].stamp /\ base'[t] # Gone
                /\ apart'[t] = (known[tab'[t].path] = Gone)
      BY <3>3
    <3>4. CASE u = t /\ tab'[t].path = tab[t].path /\ base'[t] = base[t] /\ apart'[t] = apart[t]
      <4>1. tab[u].path # NoFile /\ ~apart[u]
        BY <3>4
      <4> QED
        BY <3>1, <3>4, <4>1
    <3> QED
      BY <1>2, <3>2, <3>3, <3>4
  <2> QED
    BY <2>1, <2>2 DEF JParts
<1>3. ASSUME NEW file \in File, Jump(file) PROVE JParts'
  <2>1. PICK t \in Free :
          /\ \/ tab' = [tab EXCEPT ![t] = Document(file, disk[file].text, FALSE)]
             \/ tab' = [tab EXCEPT ![t] = Document(file, clock', TRUE)]
          /\ base' = [base EXCEPT ![t] = disk[file].stamp]
          /\ apart' = [apart EXCEPT ![t] = known[file] = Gone]
    BY <1>3 DEF Jump
  <2>2. /\ t \in Tab /\ tab'[t].path = file /\ base'[t] = disk[file].stamp
        /\ apart'[t] = (known[file] = Gone)
        /\ \A u \in Tab : u # t => /\ tab'[u] = tab[u]
                                   /\ base'[u] = base[u] /\ apart'[u] = apart[u]
    BY <1>1, <2>1 DEF Free, Document
  <2>3. disk[file].stamp # Gone
    BY <1>1, <1>3, ReadableStamped DEF Jump
  <2>4. pc = Idle /\ UNCHANGED <<disk, known, armed, refused, pc>>
    BY <1>3 DEF Jump, watch, told
  <2> QED
    BY <1>2, <2>2, <2>3, <2>4
<1>4. ASSUME NEW t \in Tab, Edit(t) PROVE JParts'
  <2>1. /\ pc = Idle /\ UNCHANGED <<disk, known, armed, pc, base, apart, refused>>
        /\ tab' = [tab EXCEPT ![t].text = clock', ![t].dirty = TRUE]
    BY <1>4 DEF Edit, watch, told
  <2>2. tab'[t].path = tab[t].path /\ \A u \in Tab : u # t => tab'[u] = tab[u]
    BY <1>1, <2>1 DEF Doc
  <2> QED
    BY <1>2, <2>1, <2>2
<1>5. ASSUME NEW t \in Tab, Close(t) PROVE JParts'
  <2>1. /\ pc = Idle /\ UNCHANGED <<disk, known, armed, pc, refused>>
        /\ tab'[t].path = NoFile
        /\ \A u \in Tab : u # t => /\ tab'[u] = tab[u]
                                   /\ base'[u] = base[u] /\ apart'[u] = apart[u]
    BY <1>1, <1>5 DEF Close, watch, told, Closed
  <2> QED
    BY <1>2, <2>1
<1> QED
  BY <1>3, <1>4, <1>5

\* A document keeps its path, its start and its standing, and the file it is on
\* changed, if it did, to a stamp that no record has.
LEMMA NewStamp ==
  ASSUME RecordIsBase, NEW t \in Tab, tab[t].path # NoFile, ~apart[t],
         ~Unrecorded(tab[t].path), known' = known,
         disk'[tab[t].path] = disk[tab[t].path] \/ disk'[tab[t].path].stamp = Gone
            \/ disk'[tab[t].path].stamp # known[tab[t].path]
  PROVE  /\ base[t] # Gone
         /\ known'[tab[t].path] # Gone
         /\ known'[tab[t].path] = disk'[tab[t].path].stamp => base[t] = disk'[tab[t].path].stamp
BY DEF RecordIsBase

\* What is written has a stamp that no record has.
LEMMA WriteJ ==
  ASSUME JInv,
         \/ SaveWrite \/ \E t \in Tab, file \in File : SaveAs(t, file)
         \/ \E files \in SUBSET File : GitRuns(files)
         \/ \E file \in File : OtherWrites(file)
  PROVE  JParts'
<1>1. /\ DInv /\ TypeOK /\ PcOK /\ RecordIsBase /\ HandlerSees /\ ArmedIsRefused /\ SaveAllowed
      /\ tab \in [Tab -> Doc] /\ base \in [Tab -> Stamp] /\ apart \in [Tab -> BOOLEAN]
      /\ disk \in [File -> [stamp : Stamp, text : Text, by : {"deco", "git", "other"}]]
      /\ \A t \in Tab : tab[t].path # NoFile => tab[t].path \in File
  BY TypeTabs DEF JInv, DInv, TabsOK, TypeOK, Doc
<1>2. \A f \in File : StampsAt(f)
  BY <1>1, StampsHere
<1>3. clock \in Int /\ clock >= 1
  BY <1>1 DEF TypeOK
<1>4. CASE SaveWrite
  <2> DEFINE file == pc.file
             t == pc.tab
  <2>1. /\ pc.at = "writing" /\ Write(file, tab[t].text)
        /\ base' = [base EXCEPT ![t] = clock']
        /\ pc' = [pc EXCEPT !.at = "written", !.raced = FALSE]
        /\ refused' = (IF pc.asked THEN NoSave ELSE refused)
        /\ UNCHANGED <<tab, known, armed, apart>>
    BY <1>4 DEF SaveWrite, watch, Answered
  <2>2. /\ file \in File /\ t \in Tab /\ tab[t].path = file
        /\ pc'.at = "written" /\ pc'.file = file /\ pc'.tab = t
    BY <1>1, <2>1, PcFields DEF Saving, PcOK
  <2>3. /\ clock' = clock + 1 /\ disk'[file].stamp = clock'
        /\ \A f \in File : f # file => disk'[f] = disk[f]
    BY <1>1, <2>1, <2>2 DEF Write
  <2>4. base'[t] = clock' /\ \A u \in Tab : u # t => base'[u] = base[u]
    BY <1>1, <2>1, <2>2
  <2>5. clock' # Gone
    BY <1>3, <2>3 DEF Gone
  <2>6. ArmedIsRefused'
    <3>1. pc'.at # "writing"
      BY <2>2
    <3>2. CASE pc.asked
      BY <1>1, <2>1, <3>1, <3>2 DEF ArmedIsRefused
    <3>3. CASE ~pc.asked
      BY <1>1, <2>1, <3>1, <3>3 DEF ArmedIsRefused
    <3> QED
      BY <3>2, <3>3
  <2> HIDE DEF file, t
  <2>7. RecordIsBase'
    <3> SUFFICES ASSUME NEW u \in Tab, tab[u].path # NoFile, ~apart[u]
                 PROVE  /\ base'[u] # Gone
                        /\ \/ tab[u].path = file
                           \/ /\ known'[tab[u].path] # Gone
                              /\ known'[tab[u].path] = disk'[tab[u].path].stamp
                                    => base'[u] = disk'[tab[u].path].stamp
      BY <2>1, <2>2 DEF RecordIsBase, Unrecorded
    <3>1. CASE tab[u].path = file
      BY <1>1, <2>4, <2>5, <3>1 DEF RecordIsBase
    <3>2. CASE tab[u].path # file
      <4>1. u # t /\ disk'[tab[u].path] = disk[tab[u].path] /\ ~Unrecorded(tab[u].path)
        BY <1>1, <2>1, <2>2, <2>3, <3>2 DEF Unrecorded
      <4> QED
        BY <1>1, <2>1, <2>4, <4>1, NewStamp
    <3> QED
      BY <3>1, <3>2
  <2>8. HandlerSees' /\ SaveAllowed'
    BY <2>2, <2>3, <2>4, <2>5 DEF HandlerSees, SaveAllowed
  <2> QED
    BY <2>6, <2>7, <2>8 DEF JParts
<1>5. ASSUME NEW t \in Tab, NEW file \in File, SaveAs(t, file) PROVE JParts'
  <2>1. /\ pc = Idle /\ Write(file, tab[t].text)
        /\ pc' = [at |-> "copied", tab |-> t, file |-> file, stamp |-> clock', raced |-> FALSE]
        /\ UNCHANGED <<tab, known, armed, base, apart, refused>>
    BY <1>5 DEF SaveAs, watch, Answered
  <2>2. /\ clock' = clock + 1 /\ disk'[file].stamp = clock'
        /\ \A f \in File : f # file => disk'[f] = disk[f]
    BY <1>1, <2>1 DEF Write
  <2>3. clock' # Gone
    BY <1>3, <2>2 DEF Gone
  <2>4. RecordIsBase'
    <3> SUFFICES ASSUME NEW u \in Tab, tab[u].path # NoFile, ~apart[u]
                 PROVE  /\ base[u] # Gone
                        /\ \/ tab[u].path = file
                           \/ /\ known'[tab[u].path] # Gone
                              /\ known'[tab[u].path] = disk'[tab[u].path].stamp
                                    => base[u] = disk'[tab[u].path].stamp
      BY <2>1 DEF RecordIsBase, Unrecorded
    <3>1. ~Unrecorded(tab[u].path)
      BY <2>1 DEF Unrecorded, Idle
    <3>2. tab[u].path # file => disk'[tab[u].path] = disk[tab[u].path]
      BY <1>1, <2>2
    <3> QED
      BY <1>1, <2>1, <3>1, <3>2, NewStamp DEF RecordIsBase
  <2>5. HandlerSees' /\ SaveAllowed' /\ ArmedIsRefused'
    BY <1>1, <2>1, <2>2, <2>3 DEF HandlerSees, SaveAllowed, ArmedIsRefused
  <2> QED
    BY <2>4, <2>5 DEF JParts
<1>6. ASSUME NEW files \in SUBSET File, GitRuns(files) PROVE JParts'
  <2>1. /\ pc = Idle /\ UNCHANGED <<known, armed, pc, refused>>
        /\ clock < MaxClock /\ clock' = clock + 1
    BY <1>6 DEF GitRuns, watch, told
  <2>2. PICK text \in {Gone, clock'} :
          disk' = [f \in File |->
                     IF f \notin files THEN disk[f]
                     ELSE [stamp |-> text, text |-> text, by |-> "git"]]
    BY <1>6 DEF GitRuns
  <2>3. PICK first \in FirstTabs :
          /\ tab' = [t \in Tab |-> Reloaded(t, first)]
          /\ base' = [t \in Tab |-> IF Missing(t) THEN Gone
                                    ELSE IF first[t] THEN disk'[tab[t].path].stamp ELSE base[t]]
          /\ apart' = [t \in Tab |-> IF Missing(t) THEN FALSE
                                     ELSE IF first[t] THEN known[tab[t].path] = Gone
                                     ELSE apart[t]]
    BY <1>6 DEF GitRuns
  <2>4. RecordIsBase'
    <3> SUFFICES ASSUME NEW t \in Tab, tab'[t].path # NoFile, ~apart'[t]
                 PROVE  /\ base'[t] # Gone
                        /\ known'[tab'[t].path] # Gone
                        /\ known'[tab'[t].path] = disk'[tab'[t].path].stamp
                              => base'[t] = disk'[tab'[t].path].stamp
      BY DEF RecordIsBase
    <3>1. tab'[t] = Reloaded(t, first) /\ ~Missing(t)
      BY <2>3 DEF Reloaded, Document
    <3>2. tab'[t].path = tab[t].path /\ tab[t].path \in File
      BY <1>1, <3>1 DEF Reloaded, Document
    <3> DEFINE file == tab[t].path
    <3>3. CASE first[t]
      <4>1. base'[t] = disk'[file].stamp /\ known[file] # Gone
        BY <2>3, <3>1, <3>3
      <4>2. disk'[file].text # Gone
        BY <3>1, <3>2 DEF Missing
      <4>3. disk'[file].stamp # Gone
        <5>1. CASE file \in files
          BY <2>2, <3>2, <4>2, <5>1
        <5>2. CASE file \notin files
          BY <1>2, <2>2, <3>2, <4>2, <5>2 DEF StampsAt
        <5> QED
          BY <5>1, <5>2
      <4> QED
        BY <2>1, <3>2, <4>1, <4>3
    <3>4. CASE ~first[t]
      <4>1. base'[t] = base[t] /\ ~apart[t]
        BY <2>3, <3>1, <3>4
      <4>2. ~Unrecorded(file)
        BY <2>1 DEF Unrecorded, Idle
      <4>3. disk'[file] = disk[file] \/ disk'[file].stamp = Gone \/ disk'[file].stamp # known[file]
        <5>1. known[file] \in Int /\ known[file] <= clock
          BY <1>2, <3>2 DEF StampsAt
        <5> QED
          BY <1>3, <2>1, <2>2, <3>2, <5>1
      <4> QED
        BY <1>1, <2>1, <3>2, <4>1, <4>2, <4>3, NewStamp
    <3> QED
      BY <3>3, <3>4
  <2> QED
    BY <1>1, <2>1, <2>4, AtRest DEF JParts
<1>7. ASSUME NEW file \in File, OtherWrites(file) PROVE JParts'
  <2>1. /\ clock' = clock + 1
        /\ UNCHANGED <<tab, known, armed, base, apart, refused>>
        /\ pc' = IF pc # Idle /\ pc.file = file THEN [pc EXCEPT !.raced = TRUE] ELSE pc
        /\ \E stamp \in {clock', Gone} : \E text :
             disk' = [disk EXCEPT ![file] = [stamp |-> stamp, text |-> text, by |-> "other"]]
    BY <1>7 DEF OtherWrites, watch, told
  <2>2. /\ \A f \in File : f # file => disk'[f] = disk[f]
        /\ disk'[file].stamp \in {clock', Gone}
    BY <1>1, <2>1
  <2>3. known[file] # clock'
    BY <1>2, <1>3, <2>1 DEF StampsAt
  <2>4. /\ pc'.at = pc.at
        /\ pc.at # "idle" /\ pc.file = file => pc'.raced
        /\ pc.at # "idle" /\ pc.file # file => pc' = pc
        /\ pc.at = "idle" => pc' = pc
        /\ pc.at = "writing" => pc'.asked = pc.asked /\ pc'.tab = pc.tab /\ pc'.file = pc.file
        /\ pc.at # "idle" => pc'.file = pc.file /\ pc.file \in File
    <3>1. pc # Idle => pc \in Opening \cup Reverting \cup Saving \cup Copying
                               \cup Checking \cup Checked
      BY <1>1 DEF PcOK
    <3>2. CASE pc = Idle
      BY <2>1, <3>2 DEF Idle
    <3>3. CASE pc \in Opening
      BY <2>1, <3>3 DEF Opening, Idle
    <3>4. CASE pc \in Reverting
      BY <2>1, <3>4 DEF Reverting, Idle
    <3>5. CASE pc \in Saving
      BY <2>1, <3>5 DEF Saving, Idle
    <3>6. CASE pc \in Copying
      BY <2>1, <3>6 DEF Copying, Idle
    <3>7. CASE pc \in Checking
      BY <2>1, <3>7 DEF Checking, Idle
    <3>8. CASE pc \in Checked
      BY <2>1, <3>8 DEF Checked, Idle
    <3> QED
      BY <3>1, <3>2, <3>3, <3>4, <3>5, <3>6, <3>7, <3>8
  <2>5. ArmedIsRefused'
    BY <1>1, <2>1, <2>4 DEF ArmedIsRefused
  <2>6. RecordIsBase'
    <3> SUFFICES ASSUME NEW t \in Tab, tab[t].path # NoFile, ~apart[t]
                 PROVE  /\ base[t] # Gone
                        /\ \/ Unrecorded(tab[t].path)
                           \/ /\ known'[tab[t].path] # Gone
                              /\ known'[tab[t].path] = disk'[tab[t].path].stamp
                                    => base[t] = disk'[tab[t].path].stamp
      BY <2>1, <2>4 DEF RecordIsBase, Unrecorded
    <3>1. CASE Unrecorded(tab[t].path)
      BY <1>1, <3>1 DEF RecordIsBase
    <3>2. CASE ~Unrecorded(tab[t].path)
      <4>1. disk'[tab[t].path] = disk[tab[t].path] \/ disk'[tab[t].path].stamp = Gone
              \/ disk'[tab[t].path].stamp # known[tab[t].path]
        BY <1>1, <2>2, <2>3
      <4> QED
        BY <1>1, <2>1, <3>2, <4>1, NewStamp
    <3> QED
      BY <3>1, <3>2
  <2>7. HandlerSees' /\ SaveAllowed'
    <3>1. CASE pc.at = "idle"
      BY <2>4, <3>1 DEF HandlerSees, SaveAllowed
    <3>2. CASE pc.at # "idle" /\ pc.file = file
      BY <2>4, <3>2 DEF HandlerSees, SaveAllowed
    <3>3. CASE pc.at # "idle" /\ pc.file # file
      <4>1. pc' = pc /\ disk'[pc.file] = disk[pc.file]
        BY <2>2, <2>4, <3>3
      <4> QED
        BY <1>1, <2>1, <4>1 DEF HandlerSees, SaveAllowed, Insisted
    <3> QED
      BY <3>1, <3>2, <3>3
  <2> QED
    BY <2>5, <2>6, <2>7 DEF JParts
<1> QED
  BY <1>4, <1>5, <1>6, <1>7

LEMMA NextJInv == JInv /\ [Next]_vars => JInv'
<1> SUFFICES ASSUME JInv, [Next]_vars PROVE JInv'
  OBVIOUS
<1>1. DInv'
  BY NextDInv DEF JInv
<1>2. CASE UNCHANGED vars
  <2>1. JParts'
    BY <1>2 DEF vars, watch, told, JInv, JParts, RecordIsBase, HandlerSees, ArmedIsRefused,
                SaveAllowed, Insisted, Unrecorded
  <2> QED
    BY <1>1, <2>1 DEF JInv, JParts
<1>3. CASE Next
  <2>1. JParts'
    BY <1>3, HandlerJ, EndJ, UserJ, WriteJ DEF Next, Handlers, Check, Checkout, Discard
  <2> QED
    BY <1>1, <2>1 DEF JInv, JParts
<1> QED
  BY <1>2, <1>3

LEMMA InitJInv == Init => JInv
<1> SUFFICES ASSUME Init PROVE JInv
  OBVIOUS
<1>1. DInv
  BY InitDInv
<1>2. \A t \in Tab : tab[t].path = NoFile
  BY DEF Init, Closed
<1>3. pc.at = "idle" /\ armed = NoSave
  BY DEF Init, Idle
<1> QED
  BY <1>1, <1>2, <1>3 DEF JInv, RecordIsBase, HandlerSees, ArmedIsRefused, SaveAllowed

\* However other programs and Git write, a save of a document whose record has
\* not come apart writes over nothing but what that document started from, what
\* the user insisted on, or what fell between the save's look and its write.
THEOREM NoWriteIsLost == Spec => NoLostWrite
<1>1. ASSUME JInv, [Next]_vars, SaveWrite
      PROVE  \/ base[pc.tab] = disk[pc.file].stamp \/ Insisted
             \/ apart[pc.tab] \/ pc.raced
  BY <1>1 DEF JInv, SaveAllowed, SaveWrite
<1>2. Spec => []JInv
  BY InitJInv, NextJInv, PTL DEF Spec
<1> QED
  BY <1>1, <1>2, PTL DEF Spec, NoLostWrite

(***************************************************************************)
(* What is on the screen, and what the next check will read.               *)
(***************************************************************************)
\* Nothing that is held, recorded of a document or reported is of a later stamp.
StampsPast ==
  /\ \A t \in Tab : base[t] <= clock
  /\ \A f \in File : reported[f] <= clock
  /\ pc.at \in {"opening", "reverting", "copied", "checking", "checked"} => pc.stamp <= clock

\* A text that belongs to a stamp of a file is the file's while it has the stamp.
Agree(file, stamp, text) ==
  stamp = disk[file].stamp /\ stamp # Gone => text = disk[file].text

\* The text of a clean document belongs to the stamp it started from.
BaseIsText ==
  \A t \in Tab : tab[t].path # NoFile /\ ~tab[t].dirty =>
    Agree(tab[t].path, base[t], tab[t].text)

\* So does what a handler has read, or a save has written.
HandlerAgrees ==
  /\ pc.at \in {"opening", "reverting", "checked"} => Agree(pc.file, pc.stamp, pc.text)
  /\ pc.at = "copied" => Agree(pc.file, pc.stamp, tab[pc.tab].text)
  /\ pc.at = "written" => \A t \in TabsOf(pc.file) : Agree(pc.file, base[t], tab[t].text)

\* A state of a file is reported while no clean document shows another.
ReportedIsShown ==
  \A t \in Tab :
    /\ tab[t].path # NoFile /\ ~tab[t].dirty /\ ~apart[t]
    /\ reported[tab[t].path] = disk[tab[t].path].stamp
    => Shows(t)

WParts == StampsPast /\ BaseIsText /\ HandlerAgrees /\ ReportedIsShown
WInv   == DInv /\ WParts

\* The stamps of documents, reports and handlers are numbers.
LEMMA PastNumbers ==
  ASSUME DInv
  PROVE  /\ clock \in Int /\ clock >= 1
         /\ \A t \in Tab : base[t] \in Int
         /\ \A f \in File : reported[f] \in Int /\ disk[f].stamp \in Int /\ disk[f].stamp <= clock
         /\ pc.at \in {"opening", "reverting", "copied", "checking", "checked"} =>
              pc.stamp \in Int /\ pc.file \in File
         /\ pc.at \in {"reverting", "copied", "writing", "written"} =>
              pc.tab \in Tab /\ pc.file \in File
         /\ \A t \in Tab : tab[t].path # NoFile => tab[t].path \in File
<1>1. TypeOK /\ PcOK /\ StampsRise
  BY DEF DInv
<1>2. Stamp \subseteq Int
  BY <1>1, Bounds
<1>3. clock \in Int /\ clock >= 1
  BY <1>1 DEF TypeOK
<1>4. \A t \in Tab : base[t] \in Int /\ (tab[t].path # NoFile => tab[t].path \in File)
  BY <1>1, <1>2 DEF TypeOK
<1>5. \A f \in File : reported[f] \in Int /\ disk[f].stamp \in Int /\ disk[f].stamp <= clock
  <2> SUFFICES ASSUME NEW f \in File
               PROVE  reported[f] \in Int /\ disk[f].stamp \in Int /\ disk[f].stamp <= clock
    OBVIOUS
  <2>1. reported[f] \in Stamp \cup {NoReport} /\ disk[f].stamp \in Stamp
    BY <1>1 DEF TypeOK
  <2>2. NoReport \in Int
    BY DEF NoReport
  <2> QED
    BY <1>1, <1>2, <2>1, <2>2 DEF StampsRise
<1>6. /\ pc.at \in {"opening", "reverting", "copied", "checking", "checked"} =>
           pc.stamp \in Int /\ pc.file \in File
      /\ pc.at \in {"reverting", "copied", "writing", "written"} =>
           pc.tab \in Tab /\ pc.file \in File
  BY <1>1, <1>2, PcFields DEF Opening, Reverting, Saving, Copying, Checking, Checked
<1> QED
  BY <1>3, <1>4, <1>5, <1>6

\* The documents and the files as they were: what belonged to them does.
LEMMA BasesStay ==
  ASSUME BaseIsText, UNCHANGED <<disk, tab, base>>
  PROVE  BaseIsText'
BY DEF BaseIsText, Agree

\* A document whose record is put right shows its file.
LEMMA ReportsStay ==
  ASSUME BaseIsText, ReportedIsShown, UNCHANGED <<disk, tab, base, reported>>,
         \A t \in Tab : tab[t].path # NoFile /\ ~apart'[t] =>
            ~apart[t] \/ (base[t] = disk[tab[t].path].stamp /\ base[t] # Gone)
  PROVE  ReportedIsShown'
BY DEF BaseIsText, Agree, ReportedIsShown, Shows, Readable

LEMMA NoticedParts ==
  ASSUME TypeOK, NEW file \in File, Noticed(file), NEW t \in Tab, ~apart'[t]
  PROVE  ~apart[t] \/ (tab[t].path = file /\ base[t] = disk[tab[t].path].stamp /\ base[t] # Gone)
BY DEF TypeOK, Noticed

\* Handlers that have written nothing and shown nothing.
LEMMA HandlerW ==
  ASSUME WInv,
         \/ \E file \in File : OpenRead(file) \/ CheckRecord(file) \/ CheckStart(file)
         \/ \E t \in Tab : RevertRead(t) \/ \E asked \in BOOLEAN : SaveCheck(t, asked)
         \/ SaveFails \/ CheckRead \/ CheckAgain
  PROVE  WParts'
<1>1. /\ DInv /\ TypeOK /\ PcOK
      /\ StampsPast /\ BaseIsText /\ HandlerAgrees /\ ReportedIsShown
  BY DEF WInv, WParts, DInv
<1>2. UNCHANGED <<disk, clock, tab, base>>
  BY DEF OpenRead, CheckRecord, CheckStart, RevertRead, SaveCheck, SaveFails, CheckRead, CheckAgain
<1>3. BaseIsText'
  BY <1>1, <1>2, BasesStay
<1>4. CASE \E file \in File : OpenRead(file) \/ CheckStart(file)
  <2>1. PICK file \in File : OpenRead(file) \/ CheckStart(file)
    BY <1>4
  <2>2. UNCHANGED <<reported, apart>>
    BY <2>1 DEF OpenRead, CheckStart, watch
  <2>3. /\ pc'.at \in {"opening", "checking"} /\ pc'.file = file /\ pc'.stamp = disk[file].stamp
        /\ pc'.at = "opening" => pc'.text = disk[file].text
    BY <2>1 DEF OpenRead, CheckStart
  <2>4. StampsPast' /\ HandlerAgrees'
    BY <1>1, <1>2, <2>2, <2>3, PastNumbers DEF StampsPast, HandlerAgrees, Agree
  <2> QED
    BY <1>1, <1>2, <1>3, <2>2, <2>4, ReportsStay DEF WParts
<1>5. ASSUME NEW t \in Tab, RevertRead(t) PROVE WParts'
  <2>1. UNCHANGED <<reported, apart>> /\ tab[t].path \in File
    BY <1>1, <1>5, PastNumbers DEF RevertRead, watch
  <2>2. /\ pc'.at = "reverting" /\ pc'.file = tab[t].path
        /\ pc'.stamp = disk[pc'.file].stamp /\ pc'.text = disk[pc'.file].text
    BY <1>5 DEF RevertRead
  <2>3. StampsPast' /\ HandlerAgrees'
    BY <1>1, <1>2, <2>1, <2>2, PastNumbers DEF StampsPast, HandlerAgrees, Agree
  <2> QED
    BY <1>1, <1>2, <1>3, <2>1, <2>3, ReportsStay DEF WParts
<1>6. ASSUME NEW file \in File, Noticed(file), UNCHANGED reported,
             pc'.at \in {"idle", "writing"}
      PROVE  WParts'
  <2>1. StampsPast' /\ HandlerAgrees'
    BY <1>1, <1>2, <1>6 DEF StampsPast, HandlerAgrees
  <2>2. ReportedIsShown'
    BY <1>1, <1>2, <1>6, NoticedParts, ReportsStay
  <2> QED
    BY <1>3, <2>1, <2>2 DEF WParts
<1>7. ASSUME NEW file \in File, CheckRecord(file) PROVE WParts'
  BY <1>6, <1>7 DEF CheckRecord, Idle
<1>8. ASSUME NEW t \in Tab, NEW asked \in BOOLEAN, SaveCheck(t, asked) PROVE WParts'
  <2>1. /\ tab[t].path \in File /\ Noticed(tab[t].path) /\ UNCHANGED reported
        /\ pc'.at \in {"idle", "writing"}
    BY <1>1, <1>8, PastNumbers DEF SaveCheck, Idle
  <2> QED
    BY <1>6, <2>1
<1>9. CASE SaveFails \/ CheckAgain
  <2>1. pc' = Idle /\ UNCHANGED <<watch, apart>>
    BY <1>9 DEF SaveFails, CheckAgain
  <2>2. pc'.at = "idle" /\ UNCHANGED <<reported, apart>>
    BY <2>1 DEF watch, Idle
  <2>3. StampsPast' /\ HandlerAgrees'
    BY <1>1, <1>2, <2>2 DEF StampsPast, HandlerAgrees
  <2> QED
    BY <1>1, <1>2, <1>3, <2>2, <2>3, ReportsStay DEF WParts
<1>10. CASE CheckRead
  <2>1. pc.at = "checking" /\ pc.file \in File /\ pc.stamp <= clock /\ UNCHANGED apart
    BY <1>1, <1>10, PastNumbers DEF CheckRead, StampsPast
  <2>2. CASE Readable(pc.file)
    <3>1. /\ pc'.at = "checked" /\ pc'.file = pc.file /\ pc'.stamp = pc.stamp
          /\ pc'.text = disk[pc.file].text /\ UNCHANGED reported
      BY <1>10, <2>2 DEF CheckRead
    <3>2. StampsPast' /\ HandlerAgrees'
      BY <1>1, <1>2, <2>1, <3>1 DEF StampsPast, HandlerAgrees, Agree
    <3> QED
      BY <1>1, <1>2, <1>3, <2>1, <3>1, <3>2, ReportsStay DEF WParts
  <2>3. CASE ~Readable(pc.file)
    <3>1. pc'.at = "idle" /\ reported' = [reported EXCEPT ![pc.file] = pc.stamp]
      BY <1>10, <2>3 DEF CheckRead, Idle
    <3>2. \A f \in File : reported'[f] = IF f = pc.file THEN pc.stamp ELSE reported[f]
      BY <1>1, <2>1, <3>1 DEF TypeOK
    <3>3. StampsPast' /\ HandlerAgrees'
      BY <1>1, <1>2, <2>1, <3>1, <3>2 DEF StampsPast, HandlerAgrees
    <3>4. ReportedIsShown'
      BY <1>1, <1>2, <2>1, <2>3, <3>2, PastNumbers DEF ReportedIsShown, Shows, Readable
    <3> QED
      BY <1>3, <3>3, <3>4 DEF WParts
  <2> QED
    BY <2>2, <2>3
<1> QED
  BY <1>4, <1>5, <1>7, <1>8, <1>9, <1>10

\* A handler that ends with a report of a file leaves clean documents on it that
\* show it, or are apart; the others are as they were.
LEMMA EndsW ==
  ASSUME WInv, UNCHANGED <<disk, clock>>, pc' = Idle, NEW file \in File,
         \A f \in File : f # file => reported'[f] = reported[f],
         \/ reported'[file] = NoReport
         \/ /\ reported'[file] <= clock
            /\ \A t \in Tab : tab'[t].path = file /\ ~tab'[t].dirty /\ ~apart'[t] =>
                 base'[t] = disk[file].stamp,
         \A t \in Tab : base'[t] <= clock,
         \A t \in Tab : tab'[t].path # NoFile /\ ~tab'[t].dirty =>
            Agree(tab'[t].path, base'[t], tab'[t].text),
         \A t \in Tab : tab'[t].path # NoFile /\ tab'[t].path # file /\ ~tab'[t].dirty =>
            tab'[t] = tab[t] /\ (~apart'[t] => ~apart[t]),
         \A t \in Tab : tab'[t].path # NoFile => tab'[t].path \in File
  PROVE  WParts'
<1>1. /\ DInv /\ StampsPast /\ ReportedIsShown /\ BaseIsText
      /\ pc'.at = "idle" /\ NoReport <= clock /\ clock \in Int
  BY PastNumbers DEF WInv, WParts, Idle, NoReport
<1>2. StampsPast' /\ HandlerAgrees'
  BY <1>1 DEF StampsPast, HandlerAgrees
<1>3. BaseIsText'
  BY DEF BaseIsText, Agree
<1>4. ReportedIsShown'
  <2> SUFFICES ASSUME NEW t \in Tab, tab'[t].path # NoFile, ~tab'[t].dirty, ~apart'[t],
                      reported'[tab'[t].path] = disk[tab'[t].path].stamp
               PROVE  tab'[t].text = disk[tab'[t].path].text
                      \/ disk[tab'[t].path].text \in {Gone, Unreadable}
    BY DEF ReportedIsShown, Shows, Readable
  <2>1. CASE tab'[t].path = file
    <3>1. disk[file].stamp \in Stamp /\ NoReport \notin Stamp
      BY <1>1, DiskAssumption DEF DInv, TypeOK, NoReport, Stamp
    <3>2. base'[t] = disk[file].stamp
      BY <2>1, <3>1
    <3>3. disk[file].stamp = Gone => disk[file].text = Gone
      BY <1>1 DEF DInv, StampsRise
    <3> QED
      BY <2>1, <3>2, <3>3 DEF Agree
  <2>2. CASE tab'[t].path # file
    BY <1>1, <2>2 DEF ReportedIsShown, Shows, Readable
  <2> QED
    BY <2>1, <2>2
<1> QED
  BY <1>2, <1>3, <1>4 DEF WParts

\* The last step of each handler.
LEMMA EndW ==
  ASSUME WInv, OpenDone \/ RevertDone \/ SaveDone \/ SaveAsDone \/ CheckDone
  PROVE  WParts'
<1>1. /\ DInv /\ TypeOK /\ PcOK /\ StampsPast /\ BaseIsText /\ HandlerAgrees
      /\ tab \in [Tab -> Doc] /\ base \in [Tab -> Stamp]
      /\ pc.at # "idle" /\ pc.file \in File
  BY PastNumbers, TypeTabs DEF WInv, WParts, DInv, TabsOK, TypeOK,
     OpenDone, RevertDone, SaveDone, SaveAsDone, CheckDone
<1> DEFINE file == pc.file
<1>2. ASSUME NEW stamp, Remember(file, stamp)
      PROVE  reported'[file] = NoReport /\ \A f \in File : f # file => reported'[f] = reported[f]
  BY <1>1, <1>2 DEF TypeOK, Remember
<1>3. \A t \in Tab : tab[t].path # NoFile => tab[t].path \in File
  BY <1>1, PastNumbers
<1>4. \A t \in Tab : tab[t].path # NoFile /\ ~tab[t].dirty =>
         Agree(tab[t].path, base[t], tab[t].text)
  BY <1>1 DEF BaseIsText
<1>5. \A t \in Tab : base[t] <= clock
  BY <1>1 DEF StampsPast
<1>6. CASE OpenDone
  <2>1. /\ pc.at = "opening" /\ pc' = Idle /\ Remember(file, disk[file].stamp)
        /\ Opened(file, pc.text) /\ UNCHANGED <<disk, clock>>
        /\ base' = [t \in Tab |-> IF tab'[t] # tab[t] THEN pc.stamp ELSE base[t]]
        /\ apart' = Parted(file, {t \in Tab : tab'[t] # tab[t]}, pc.raced)
    BY <1>6 DEF OpenDone
  <2>2. Agree(file, pc.stamp, pc.text) /\ pc.stamp <= clock
    BY <1>1, <2>1 DEF HandlerAgrees, StampsPast
  <2>3. \A t \in Tab : tab'[t] # tab[t] => tab'[t] = Document(file, pc.text, FALSE)
    BY <1>1, <2>1 DEF Opened, Free
  <2>4. \A t \in Tab : tab'[t] = tab[t] => base'[t] = base[t] /\ (~apart'[t] => ~apart[t])
    BY <2>1 DEF Parted
  <2>5. \A t \in Tab : tab'[t] # tab[t] => /\ tab'[t].path = file /\ tab'[t].text = pc.text
                                           /\ base'[t] = pc.stamp
    BY <2>1, <2>3 DEF Document
  <2> HIDE DEF file
  <2> QED
    BY <1>1, <1>2, <1>3, <1>4, <1>5, <2>1, <2>2, <2>4, <2>5, EndsW DEF file
<1>7. CASE RevertDone
  <2> DEFINE t == pc.tab
  <2>1. /\ pc.at = "reverting" /\ pc' = Idle /\ Remember(file, disk[file].stamp)
        /\ tab' = [tab EXCEPT ![t].text = pc.text, ![t].dirty = FALSE]
        /\ base' = [base EXCEPT ![t] = pc.stamp]
        /\ apart' = Parted(file, {t}, pc.raced)
        /\ UNCHANGED <<disk, clock>>
    BY <1>7 DEF RevertDone
  <2>2. /\ t \in Tab /\ tab[t].path = file
        /\ Agree(file, pc.stamp, pc.text) /\ pc.stamp <= clock
    BY <1>1, <2>1, PastNumbers DEF PcOK, HandlerAgrees, StampsPast
  <2> HIDE DEF t
  <2>3. /\ tab'[t].path = file /\ tab'[t].text = pc.text /\ base'[t] = pc.stamp
        /\ \A u \in Tab : u # t => /\ tab'[u] = tab[u] /\ base'[u] = base[u]
                                   /\ ~apart'[u] => ~apart[u]
    BY <1>1, <2>1, <2>2 DEF Doc, Parted
  <2> HIDE DEF file
  <2> QED
    BY <1>1, <1>2, <1>3, <1>4, <1>5, <2>1, <2>2, <2>3, EndsW DEF file
<1>8. CASE SaveDone
  <2>1. /\ pc.at = "written" /\ pc' = Idle /\ Remember(file, disk[file].stamp)
        /\ apart' = Parted(file, {pc.tab}, pc.raced)
        /\ UNCHANGED <<disk, clock, base>>
    BY <1>8 DEF SaveDone
  <2>2. PICK t \in TabsOf(file) : tab' = [tab EXCEPT ![t].dirty = FALSE]
    <3>1. pc.tab \in TabsOf(file)
      BY <1>1, <2>1, PastNumbers DEF PcOK, TabsOf
    <3> QED
      BY <1>8, <3>1 DEF SaveDone
  <2>3. t \in Tab /\ tab[t].path = file /\ Agree(file, base[t], tab[t].text)
    BY <1>1, <2>1 DEF TabsOf, HandlerAgrees
  <2>4. /\ tab'[t].path = file /\ tab'[t].text = tab[t].text
        /\ \A u \in Tab : u # t => tab'[u] = tab[u]
    BY <1>1, <2>2, <2>3 DEF Doc
  <2>5. \A u \in Tab : tab[u].path # file => (~apart'[u] => ~apart[u])
    <3>1. pc.tab \in Tab /\ tab[pc.tab].path = file
      BY <1>1, <2>1, PastNumbers DEF PcOK
    <3> QED
      BY <2>1, <3>1 DEF Parted
  <2> HIDE DEF file
  <2> QED
    BY <1>1, <1>2, <1>3, <1>4, <1>5, <2>1, <2>3, <2>4, <2>5, EndsW DEF file
<1>9. CASE SaveAsDone
  <2> DEFINE t == pc.tab
  <2>1. /\ pc.at = "copied" /\ pc' = Idle /\ Remember(file, disk[file].stamp)
        /\ tab' = [tab EXCEPT ![t].path = file, ![t].dirty = FALSE]
        /\ base' = [base EXCEPT ![t] = pc.stamp]
        /\ apart' = Parted(file, {t}, pc.raced)
        /\ UNCHANGED <<disk, clock>>
    BY <1>9 DEF SaveAsDone
  <2>2. t \in Tab /\ Agree(file, pc.stamp, tab[t].text) /\ pc.stamp <= clock
    BY <1>1, <2>1, PastNumbers DEF HandlerAgrees, StampsPast
  <2> HIDE DEF t
  <2>3. /\ tab'[t].path = file /\ tab'[t].text = tab[t].text /\ base'[t] = pc.stamp
        /\ \A u \in Tab : u # t => /\ tab'[u] = tab[u] /\ base'[u] = base[u]
                                   /\ ~apart'[u] => ~apart[u]
    BY <1>1, <2>1, <2>2 DEF Doc, Parted
  <2> HIDE DEF file
  <2> QED
    BY <1>1, <1>2, <1>3, <1>4, <1>5, <2>1, <2>2, <2>3, EndsW DEF file
<1>10. CASE CheckDone
  <2>1. /\ pc.at = "checked" /\ disk[file].stamp = pc.stamp /\ pc' = Idle
        /\ UNCHANGED <<disk, clock>>
    BY <1>10 DEF CheckDone
  <2>2. Agree(file, pc.stamp, pc.text) /\ pc.stamp <= clock
    BY <1>1, <2>1 DEF HandlerAgrees, StampsPast
  <2>3. PICK t \in TabsOf(file) :
          IF tab[t].dirty
            THEN /\ reported' = [reported EXCEPT ![file] = pc.stamp]
                 /\ apart' = Parted(file, {t}, apart[t])
                 /\ UNCHANGED <<tab, base>>
            ELSE /\ tab' = [tab EXCEPT ![t].text = pc.text]
                 /\ Remember(file, pc.stamp)
                 /\ base' = [base EXCEPT ![t] = pc.stamp]
                 /\ apart' = Parted(file, {t}, pc.raced /\ pc.stamp = Gone)
    BY <1>10 DEF CheckDone
  <2>4. t \in Tab /\ tab[t].path = file
    BY DEF TabsOf
  <2>5. CASE tab[t].dirty
    <3>1. /\ reported'[file] = pc.stamp
          /\ \A f \in File : f # file => reported'[f] = reported[f]
          /\ UNCHANGED <<tab, base>>
      BY <1>1, <2>3, <2>5 DEF TypeOK
    <3>2. \A u \in Tab : /\ ~apart'[u] => ~apart[u]
                         /\ tab[u].path = file /\ ~tab[u].dirty /\ ~apart'[u] =>
                              base[u] = disk[file].stamp
      BY <2>3, <2>4, <2>5 DEF Parted, TabsOf
    <3> HIDE DEF file
    <3> QED
      BY <1>1, <1>3, <1>4, <1>5, <2>1, <2>2, <3>1, <3>2, EndsW DEF file
  <2>6. CASE ~tab[t].dirty
    <3>1. /\ tab'[t].path = file /\ tab'[t].text = pc.text /\ base'[t] = pc.stamp
          /\ \A u \in Tab : u # t => /\ tab'[u] = tab[u] /\ base'[u] = base[u]
                                     /\ ~apart'[u] => ~apart[u]
      BY <1>1, <2>3, <2>4, <2>6 DEF Doc, Parted
    <3>2. Remember(file, pc.stamp)
      BY <2>3, <2>6
    <3> HIDE DEF file
    <3> QED
      BY <1>1, <1>2, <1>3, <1>4, <1>5, <2>1, <2>2, <3>1, <3>2, EndsW DEF file
  <2> QED
    BY <2>5, <2>6
<1> QED
  BY <1>6, <1>7, <1>8, <1>9, <1>10

\* A jump shows the file as it is; an edit leaves its document unsaved.
LEMMA UserW ==
  ASSUME WInv,
         \/ \E file \in File : Jump(file)
         \/ \E t \in Tab : Edit(t) \/ Close(t)
  PROVE  WParts'
<1>1. /\ DInv /\ StampsPast /\ BaseIsText /\ ReportedIsShown
      /\ tab \in [Tab -> Doc] /\ base \in [Tab -> Stamp] /\ apart \in [Tab -> BOOLEAN]
      /\ clock \in Int /\ clock >= 1
  BY TypeTabs, PastNumbers DEF WInv, WParts, DInv, TabsOK, TypeOK
<1>2. /\ pc = Idle /\ UNCHANGED <<disk, reported, pc>> /\ clock <= clock'
  <2>1. /\ pc = Idle /\ UNCHANGED <<disk, watch, pc>>
        /\ clock' = clock \/ clock' = clock + 1
    BY DEF Jump, Edit, Close
  <2> QED
    BY <1>1, <2>1 DEF watch
<1>3. ASSUME NEW t \in Tab,
             \A u \in Tab : u # t => tab'[u] = tab[u] /\ base'[u] = base[u] /\ apart'[u] = apart[u],
             base'[t] <= clock', clock' \in Int,
             \/ tab'[t].path = NoFile \/ tab'[t].dirty
             \/ /\ tab'[t].path \in File /\ tab'[t].text = disk[tab'[t].path].text
      PROVE  WParts'
  <2>1. StampsPast'
    <3>1. \A u \in Tab : base'[u] <= clock'
      BY <1>1, <1>2, <1>3, PastNumbers DEF StampsPast
    <3>2. \A f \in File : reported[f] <= clock'
      BY <1>1, <1>2, <1>3, PastNumbers DEF StampsPast
    <3> QED
      BY <1>2, <3>1, <3>2 DEF StampsPast, Idle
  <2>2. BaseIsText' /\ ReportedIsShown'
    BY <1>1, <1>2, <1>3 DEF BaseIsText, Agree, ReportedIsShown, Shows, Readable
  <2>3. HandlerAgrees'
    BY <1>2 DEF HandlerAgrees, Idle
  <2> QED
    BY <2>1, <2>2, <2>3 DEF WParts
<1>4. ASSUME NEW file \in File, Jump(file) PROVE WParts'
  <2>1. PICK t \in Free :
          /\ \/ tab' = [tab EXCEPT ![t] = Document(file, disk[file].text, FALSE)] /\ clock' = clock
             \/ /\ clock' = clock + 1
                /\ tab' = [tab EXCEPT ![t] = Document(file, clock', TRUE)]
          /\ base' = [base EXCEPT ![t] = disk[file].stamp]
          /\ apart' = [apart EXCEPT ![t] = known[file] = Gone]
    BY <1>4 DEF Jump
  <2>2. /\ t \in Tab /\ tab'[t].path = file /\ base'[t] = disk[file].stamp
        /\ tab'[t].dirty \/ tab'[t].text = disk[file].text
        /\ \A u \in Tab : u # t => tab'[u] = tab[u] /\ base'[u] = base[u] /\ apart'[u] = apart[u]
    BY <1>1, <2>1 DEF Free, Document
  <2>3. base'[t] <= clock' /\ clock' \in Int
    <3>1. disk[file].stamp \in Int /\ disk[file].stamp <= clock
      BY <1>1, PastNumbers
    <3>2. clock' = clock \/ clock' = clock + 1
      BY <2>1
    <3> QED
      BY <1>1, <2>2, <3>1, <3>2
  <2> QED
    BY <1>3, <2>2, <2>3
<1>5. ASSUME NEW t \in Tab, Edit(t) PROVE WParts'
  <2>1. /\ UNCHANGED <<base, apart>> /\ clock' = clock + 1
        /\ tab' = [tab EXCEPT ![t].text = clock', ![t].dirty = TRUE]
    BY <1>5 DEF Edit
  <2>2. tab'[t].dirty /\ \A u \in Tab : u # t => tab'[u] = tab[u]
    BY <1>1, <2>1 DEF Doc
  <2>3. base'[t] <= clock' /\ clock' \in Int
    BY <1>1, <2>1, PastNumbers DEF StampsPast
  <2> QED
    BY <1>3, <2>1, <2>2, <2>3
<1>6. ASSUME NEW t \in Tab, Close(t) PROVE WParts'
  <2>1. /\ tab'[t].path = NoFile /\ base'[t] = Gone /\ clock' = clock
        /\ \A u \in Tab : u # t => tab'[u] = tab[u] /\ base'[u] = base[u] /\ apart'[u] = apart[u]
    BY <1>1, <1>6 DEF Close, Closed
  <2>2. base'[t] <= clock' /\ clock' \in Int
    BY <1>1, <2>1 DEF Gone
  <2> QED
    BY <1>3, <2>1, <2>2
<1> QED
  BY <1>4, <1>5, <1>6

\* A file that is written takes a stamp that nothing had, or is gone.
Written(f) == disk'[f] = disk[f] \/ disk'[f].stamp = clock' \/ disk'[f].stamp = Gone

LEMMA AgreeStays ==
  ASSUME NEW f \in File, NEW stamp \in Int, NEW text, Agree(f, stamp, text),
         clock \in Int, stamp <= clock, clock' = clock + 1, Written(f)
  PROVE  stamp = disk'[f].stamp /\ stamp # Gone => text = disk'[f].text
BY DEF Agree, Written

\* The documents that a write leaves alone, under whatever handler.
LEMMA WriteLeaves ==
  ASSUME WInv, clock' = clock + 1, UNCHANGED reported, \A f \in File : Written(f),
         \A f \in File : disk'[f].stamp = Gone => disk'[f].text = Gone,
         NEW t \in Tab, tab[t].path # NoFile, ~tab[t].dirty
  PROVE  /\ base[t] = disk'[tab[t].path].stamp /\ base[t] # Gone
              => tab[t].text = disk'[tab[t].path].text
         /\ ~apart[t] /\ reported[tab[t].path] = disk'[tab[t].path].stamp
              => \/ tab[t].text = disk'[tab[t].path].text
                 \/ disk'[tab[t].path].text \in {Gone, Unreadable}
<1>1. DInv /\ StampsPast /\ BaseIsText /\ ReportedIsShown
  BY DEF WInv, WParts
<1>2. /\ tab[t].path \in File /\ base[t] \in Int /\ base[t] <= clock /\ clock \in Int
      /\ reported[tab[t].path] \in Int /\ reported[tab[t].path] <= clock
      /\ Agree(tab[t].path, base[t], tab[t].text)
  BY <1>1, PastNumbers DEF StampsPast, BaseIsText
<1>3. base[t] = disk'[tab[t].path].stamp /\ base[t] # Gone
        => tab[t].text = disk'[tab[t].path].text
  BY <1>2, AgreeStays
<1>4. CASE disk'[tab[t].path] = disk[tab[t].path]
  BY <1>1, <1>3, <1>4 DEF ReportedIsShown, Shows, Readable
<1>5. CASE disk'[tab[t].path].stamp = clock'
  BY <1>2, <1>3, <1>5
<1>6. CASE disk'[tab[t].path].stamp = Gone
  BY <1>2, <1>3, <1>6
<1> QED
  BY <1>2, <1>4, <1>5, <1>6 DEF Written

\* A write by deco, Git or another program.
LEMMA WriteW ==
  ASSUME WInv,
         \/ SaveWrite \/ \E t \in Tab, file \in File : SaveAs(t, file)
         \/ \E files \in SUBSET File : GitRuns(files)
         \/ \E file \in File : OtherWrites(file)
  PROVE  WParts'
<1>1. /\ DInv /\ TypeOK /\ PcOK /\ StampsPast /\ BaseIsText /\ HandlerAgrees /\ ReportedIsShown
      /\ tab \in [Tab -> Doc] /\ base \in [Tab -> Stamp] /\ clock \in Int /\ clock >= 1
      /\ disk \in [File -> [stamp : Stamp, text : Text, by : {"deco", "git", "other"}]]
      /\ \A f \in File : disk[f].stamp = Gone => disk[f].text = Gone
  BY TypeTabs, PastNumbers DEF WInv, WParts, DInv, TabsOK, TypeOK, StampsRise
<1>2. UNCHANGED reported /\ clock' = clock + 1
  BY DEF SaveWrite, SaveAs, Write, GitRuns, OtherWrites, watch
<1>3. /\ \A f \in File : reported[f] <= clock'
      /\ \A t \in Tab : base[t] <= clock' /\ base[t] \in Int /\ base[t] <= clock
      /\ pc.at \in {"opening", "reverting", "copied", "checking", "checked"} => pc.stamp <= clock'
  BY <1>1, <1>2, PastNumbers DEF StampsPast
<1>4. ASSUME NEW file \in File, NEW text, Write(file, text)
      PROVE  /\ disk'[file].stamp = clock' /\ disk'[file].text = text
             /\ \A f \in File : Written(f) /\ (disk'[f].stamp = Gone => disk'[f].text = Gone)
  BY <1>1, <1>2, <1>4 DEF Write, Written, Gone
<1>5. CASE SaveWrite
  <2> DEFINE t == pc.tab
  <2>1. /\ pc.at = "writing" /\ Write(pc.file, tab[t].text)
        /\ base' = [base EXCEPT ![t] = clock']
        /\ pc' = [pc EXCEPT !.at = "written", !.raced = FALSE]
        /\ UNCHANGED <<tab, apart>>
    BY <1>5 DEF SaveWrite
  <2>2. t \in Tab /\ pc.file \in File /\ tab[t].path = pc.file /\ pc \in Saving
    BY <1>1, <2>1, PastNumbers, PcFields DEF PcOK
  <2>3. pc'.at = "written" /\ pc'.file = pc.file
    BY <2>1, <2>2 DEF Saving
  <2>4. /\ disk'[pc.file].stamp = clock' /\ disk'[pc.file].text = tab[t].text
        /\ \A f \in File : Written(f) /\ (disk'[f].stamp = Gone => disk'[f].text = Gone)
    BY <1>4, <2>1, <2>2
  <2>5. base'[t] = clock' /\ \A u \in Tab : u # t => base'[u] = base[u]
    BY <1>1, <2>1, <2>2
  <2> HIDE DEF t
  <2>6. StampsPast'
    BY <1>1, <1>2, <1>3, <2>3, <2>5 DEF StampsPast
  <2>7. HandlerAgrees'
    <3> SUFFICES ASSUME NEW u \in Tab, tab[u].path = pc.file,
                        base'[u] = disk'[pc.file].stamp
                 PROVE  tab[u].text = disk'[pc.file].text
      BY <2>1, <2>3 DEF HandlerAgrees, TabsOf, Agree
    <3>1. u = t
      BY <1>1, <1>2, <1>3, <2>4, <2>5
    <3> QED
      BY <2>4, <3>1
  <2>8. BaseIsText' /\ ReportedIsShown'
    <3> SUFFICES ASSUME NEW u \in Tab, tab[u].path # NoFile, ~tab[u].dirty
                 PROVE  /\ base'[u] = disk'[tab[u].path].stamp /\ base'[u] # Gone
                             => tab[u].text = disk'[tab[u].path].text
                        /\ ~apart[u] /\ reported[tab[u].path] = disk'[tab[u].path].stamp
                             => \/ tab[u].text = disk'[tab[u].path].text
                                \/ disk'[tab[u].path].text \in {Gone, Unreadable}
      BY <1>2, <2>1 DEF BaseIsText, ReportedIsShown, Agree, Shows, Readable
    <3>1. CASE u = t
      BY <2>2, <2>4, <3>1
    <3>2. CASE u # t
      BY <1>2, <2>4, <2>5, <3>2, WriteLeaves
    <3> QED
      BY <3>1, <3>2
  <2> QED
    BY <2>6, <2>7, <2>8 DEF WParts
<1>6. ASSUME UNCHANGED <<tab, base, apart>>, StampsPast', HandlerAgrees',
             \A f \in File : Written(f) /\ (disk'[f].stamp = Gone => disk'[f].text = Gone)
      PROVE  WParts'
  <2>1. BaseIsText' /\ ReportedIsShown'
    BY <1>2, <1>6, WriteLeaves DEF BaseIsText, ReportedIsShown, Agree, Shows, Readable
  <2> QED
    BY <1>6, <2>1 DEF WParts
<1>7. ASSUME NEW t \in Tab, NEW file \in File, SaveAs(t, file) PROVE WParts'
  <2>1. /\ Write(file, tab[t].text) /\ UNCHANGED <<tab, base, apart>>
        /\ pc'.at = "copied" /\ pc'.tab = t /\ pc'.file = file /\ pc'.stamp = clock'
    BY <1>7 DEF SaveAs
  <2>2. /\ disk'[file].text = tab[t].text
        /\ \A f \in File : Written(f) /\ (disk'[f].stamp = Gone => disk'[f].text = Gone)
    BY <1>4, <2>1
  <2>3. StampsPast'
    BY <1>1, <1>2, <1>3, <2>1 DEF StampsPast
  <2>4. HandlerAgrees'
    BY <2>1, <2>2 DEF HandlerAgrees, Agree
  <2> QED
    BY <1>6, <2>1, <2>2, <2>3, <2>4
<1>8. ASSUME NEW files \in SUBSET File, GitRuns(files) PROVE WParts'
  <2>1. PICK text \in {Gone, clock'} :
          disk' = [f \in File |->
                     IF f \notin files THEN disk[f]
                     ELSE [stamp |-> text, text |-> text, by |-> "git"]]
    BY <1>8 DEF GitRuns
  <2>2. \A f \in File : Written(f) /\ (disk'[f].stamp = Gone => disk'[f].text = Gone)
    BY <1>1, <2>1 DEF Written
  <2>3. PICK first \in FirstTabs :
          /\ tab' = [t \in Tab |-> Reloaded(t, first)]
          /\ base' = [t \in Tab |-> IF Missing(t) THEN Gone
                                    ELSE IF first[t] THEN disk'[tab[t].path].stamp ELSE base[t]]
          /\ apart' = [t \in Tab |-> IF Missing(t) THEN FALSE
                                     ELSE IF first[t] THEN known[tab[t].path] = Gone
                                     ELSE apart[t]]
    BY <1>8 DEF GitRuns
  <2>4. pc'.at = "idle"
    BY <1>8 DEF GitRuns, Idle
  <2>5. \A f \in File : disk'[f].stamp <= clock'
    BY <1>1, <1>2, <2>1, PastNumbers DEF Gone
  <2>6. \A t \in Tab : first[t] => tab[t].path \in File
    BY <1>1, PastNumbers DEF FirstTabs
  <2>7. StampsPast'
    <3>1. \A t \in Tab : base'[t] <= clock'
      <4> SUFFICES ASSUME NEW t \in Tab PROVE base'[t] <= clock'
        OBVIOUS
      <4>1. base'[t] \in {Gone, base[t]} \/ (first[t] /\ base'[t] = disk'[tab[t].path].stamp)
        BY <2>3
      <4> QED
        BY <1>1, <1>2, <1>3, <2>5, <2>6, <4>1 DEF Gone
    <3> QED
      BY <1>2, <1>3, <2>4, <3>1 DEF StampsPast
  <2>8. HandlerAgrees'
    BY <2>4 DEF HandlerAgrees
  <2>9. BaseIsText' /\ ReportedIsShown'
    <3> SUFFICES ASSUME NEW t \in Tab, tab'[t].path # NoFile, ~tab'[t].dirty
                 PROVE  /\ base'[t] = disk'[tab'[t].path].stamp /\ base'[t] # Gone
                             => tab'[t].text = disk'[tab'[t].path].text
                        /\ ~apart'[t] /\ reported[tab'[t].path] = disk'[tab'[t].path].stamp
                             => \/ tab'[t].text = disk'[tab'[t].path].text
                                \/ disk'[tab'[t].path].text \in {Gone, Unreadable}
      BY <1>2 DEF BaseIsText, ReportedIsShown, Agree, Shows, Readable
    <3>1. tab'[t] = Reloaded(t, first) /\ ~Missing(t)
      BY <2>3 DEF Reloaded, Document
    <3>2. CASE first[t]
      BY <3>1, <3>2 DEF Reloaded, Document
    <3>3. CASE ~first[t]
      <4>1. tab'[t] = tab[t] /\ base'[t] = base[t] /\ apart'[t] = apart[t]
        BY <2>3, <3>1, <3>3 DEF Reloaded
      <4> QED
        BY <1>2, <2>2, <4>1, WriteLeaves
    <3> QED
      BY <3>2, <3>3
  <2> QED
    BY <2>7, <2>8, <2>9 DEF WParts
<1>9. ASSUME NEW file \in File, OtherWrites(file) PROVE WParts'
  <2>1. /\ UNCHANGED <<tab, base, apart>>
        /\ pc' = IF pc # Idle /\ pc.file = file THEN [pc EXCEPT !.raced = TRUE] ELSE pc
        /\ \/ \E text : disk' = [disk EXCEPT ![file] = [stamp |-> clock', text |-> text,
                                                        by |-> "other"]]
           \/ disk' = [disk EXCEPT ![file] = [stamp |-> Gone, text |-> Gone, by |-> "other"]]
    BY <1>9 DEF OtherWrites
  <2>2. \A f \in File : Written(f) /\ (disk'[f].stamp = Gone => disk'[f].text = Gone)
    BY <1>1, <1>2, <2>1 DEF Written, Gone
  <2>3. /\ pc'.at = pc.at
        /\ pc.at \in {"opening", "reverting", "copied", "checking", "checked"} =>
             pc'.stamp = pc.stamp /\ pc'.file = pc.file
        /\ pc.at \in {"opening", "reverting", "checked"} => pc'.text = pc.text
        /\ pc.at \in {"copied", "written"} => pc'.tab = pc.tab /\ pc'.file = pc.file
    <3>1. CASE pc' = pc
      BY <3>1
    <3>2. CASE pc # Idle /\ pc' = [pc EXCEPT !.raced = TRUE]
      <4>1. CASE pc \in Opening \cup Reverting \cup Checked
        BY <3>2, <4>1 DEF Opening, Reverting, Checked
      <4>2. CASE pc \in Saving \cup Copying \cup Checking
        BY <3>2, <4>2 DEF Saving, Copying, Checking
      <4> QED
        BY <1>1, <3>2, <4>1, <4>2 DEF PcOK
    <3> QED
      BY <2>1, <3>1, <3>2
  <2>4. StampsPast'
    BY <1>2, <1>3, <2>1, <2>3 DEF StampsPast
  <2>5. HandlerAgrees'
    <3>1. \A f \in File, stamp \in Int : \A text :
             stamp <= clock /\ Agree(f, stamp, text) =>
               (stamp = disk'[f].stamp /\ stamp # Gone => text = disk'[f].text)
      BY <1>1, <1>2, <2>2, AgreeStays
    <3>2. pc.at \in {"opening", "reverting", "checked"} =>
            (pc.stamp = disk'[pc.file].stamp /\ pc.stamp # Gone => pc.text = disk'[pc.file].text)
      BY <1>1, <3>1, PastNumbers DEF HandlerAgrees, StampsPast
    <3>3. pc.at = "copied" =>
            (pc.stamp = disk'[pc.file].stamp /\ pc.stamp # Gone
               => tab[pc.tab].text = disk'[pc.file].text)
      BY <1>1, <3>1, PastNumbers DEF HandlerAgrees, StampsPast
    <3>4. pc.at = "written" => \A t \in TabsOf(pc.file) :
            (base[t] = disk'[pc.file].stamp /\ base[t] # Gone => tab[t].text = disk'[pc.file].text)
      BY <1>1, <1>3, <3>1, PastNumbers DEF HandlerAgrees, TabsOf
    <3> QED
      BY <2>1, <2>3, <3>2, <3>3, <3>4 DEF HandlerAgrees, Agree, TabsOf
  <2> QED
    BY <1>6, <2>1, <2>2, <2>4, <2>5
<1> QED
  BY <1>5, <1>7, <1>8, <1>9

LEMMA NextWInv == WInv /\ [Next]_vars => WInv'
<1> SUFFICES ASSUME WInv, [Next]_vars PROVE WInv'
  OBVIOUS
<1>1. DInv'
  BY NextDInv DEF WInv
<1>2. CASE UNCHANGED vars
  <2>1. WParts'
    BY <1>2 DEF vars, watch, told, WInv, WParts, StampsPast, BaseIsText, HandlerAgrees, Agree,
                ReportedIsShown, Shows, Readable, TabsOf
  <2> QED
    BY <1>1, <2>1 DEF WInv
<1>3. CASE Next
  <2>1. WParts'
    BY <1>3, HandlerW, EndW, UserW, WriteW DEF Next, Handlers, Check, Checkout, Discard
  <2> QED
    BY <1>1, <2>1 DEF WInv
<1> QED
  BY <1>2, <1>3

LEMMA InitWInv == Init => WInv
<1> SUFFICES ASSUME Init PROVE WInv
  OBVIOUS
<1>1. DInv /\ pc.at = "idle" /\ clock = 1
  BY InitDInv DEF Init, Idle
<1>2. StampsPast
  BY <1>1 DEF Init, StampsPast, Gone, NoReport
<1>3. BaseIsText /\ ReportedIsShown
  BY DEF Init, BaseIsText, ReportedIsShown, Closed
<1> QED
  BY <1>1, <1>2, <1>3 DEF WInv, WParts, HandlerAgrees

\* Between two handlers every clean document shows its file, or the next check
\* will read it, however the file changed, unless its record has come apart from
\* it.
THEOREM CleanShowOrAreRead == Spec => []CleanIsWatched
<1>1. ASSUME JInv, WInv PROVE CleanIsWatched
  <2> SUFFICES ASSUME pc = Idle, NEW t \in Tab, tab[t].path # NoFile, ~tab[t].dirty,
                      ~Shows(t), ~apart[t]
               PROVE  /\ Changed(tab[t].path)
                      /\ reported[tab[t].path] # disk[tab[t].path].stamp
    BY DEF CleanIsWatched
  <2>1. tab[t].path \in File /\ DInv
    BY <1>1, PastNumbers DEF WInv
  <2>2. /\ known[tab[t].path] # Gone /\ base[t] # Gone
        /\ known[tab[t].path] = disk[tab[t].path].stamp => base[t] = disk[tab[t].path].stamp
    BY <1>1 DEF JInv, RecordIsBase, Unrecorded, Idle
  <2>3. Agree(tab[t].path, base[t], tab[t].text)
    BY <1>1 DEF WInv, WParts, BaseIsText
  <2>4. Changed(tab[t].path)
    BY <2>2, <2>3 DEF Changed, Agree, Shows
  <2>5. reported[tab[t].path] # disk[tab[t].path].stamp
    BY <1>1 DEF WInv, WParts, ReportedIsShown
  <2> QED
    BY <2>4, <2>5
<1>2. Spec => []JInv
  BY InitJInv, NextJInv, PTL DEF Spec
<1>3. Spec => []WInv
  BY InitWInv, NextWInv, PTL DEF Spec
<1> QED
  BY <1>1, <1>2, <1>3, PTL
=============================================================================

-------------------------- MODULE PackageOpen_proofs --------------------------
(***************************************************************************)
(* The package survives its conversion: proofs for PackageOpen, for any     *)
(* number of wait windows.  Every step of the conversion is one file        *)
(* operation, which may fail and after which the program may be killed; the *)
(* argument is what the three files hold at each of them.                   *)
(*                                                                          *)
(* The other half is about the list of recent packages, which opening a     *)
(* package brings up to date: proofs for RecentFiles, for a list of any     *)
(* length.                                                                  *)
(***************************************************************************)
EXTENDS PackageOpen, RecentFiles, TLAPS, SequenceTheorems, FiniteSetTheorems

\* Between two opens the package is as it was, or converted and renamed, or it
\* is the second renaming that did not happen.
Whole ==
    \/ file["exe"] = "v1"
    \/ file["exe"] = "v2" /\ file["new"] = "none" /\ file["old"] = "v1"
    \/ file["exe"] = "none" /\ file["new"] = "v2" /\ file["old"] = "v1"

\* The thread is on its way to p, perhaps by way of a sleep.
Goes(p) == pc = p \/ (pc = "answered" /\ p = "opened") \/ (pc = "sleep" /\ after = p)

\* The package API has found an old version, and nothing has been renamed yet.
FoundOld ==
    /\ ret = "OLD_VERSION" /\ Goes("opened") => file["exe"] = "v1"
    /\ \/ pc \in {"old", "convert", "overwrite", "exec", "deleteOld", "moveOld", "noOld"}
       \/ Goes("names")
       => file["exe"] = "v1"

\* What the renaming has done so far, and whether it went well.
Renamed ==
    /\ pc \in {"deleteOld", "moveOld", "noOld"} => file["new"] = "v2"
    /\ pc \in {"deleteOld", "moveOld"} => ~trouble
    /\ pc \in {"noOld", "noNew"} => trouble
    /\ pc = "moveNew" =>
           IF trouble THEN file["exe"] = "v1"
           ELSE file["exe"] = "none" /\ file["new"] = "v2" /\ file["old"] = "v1"
    /\ pc = "moved" /\ ~trouble => file["exe"] = "v2" /\ file["old"] = "v1"
    /\ pc = "converted" => file["exe"] = "v2" /\ file["old"] = "v1"

FilesInv == TypeOK /\ Whole /\ FoundOld /\ Renamed

USE DEF Goes, GoTo, Begin, End
-----------------------------------------------------------------------------
(* Types. *)

\* PleaseWaitBegin, PleaseWaitEnd and the end of the sleep keep the types of the
\* wait window.
LEMMA DialogTypes ==
    ASSUME DialogTypeOK,
           PleaseWaitBegin \/ PleaseWaitEnd \/ Slept \/ UNCHANGED dialogVars \/ Collected
           \/ \E d \in Dialog : DialogThread(d)
    PROVE  DialogTypeOK'
  <1>1. CASE PleaseWaitBegin
    BY <1>1 DEF DialogTypeOK, PleaseWaitBegin
  <1>2. CASE PleaseWaitEnd
    BY <1>2 DEF DialogTypeOK, PleaseWaitEnd
  <1>3. CASE Slept \/ UNCHANGED dialogVars
    BY <1>3 DEF DialogTypeOK, Slept, dialogVars
  <1>4. CASE Collected
    BY <1>4 DEF DialogTypeOK, Collected
  <1>5. CASE \E d \in Dialog : DialogThread(d)
    <2>1. PICK d \in Dialog : DialogThread(d)
      BY <1>5
    <2>2. CASE Display(d)
      BY <2>2 DEF DialogTypeOK, Display
    <2>3. CASE Ends(d)
      BY <2>3 DEF DialogTypeOK, Ends
    <2>4. QED
      BY <2>1, <2>2, <2>3 DEF DialogThread
  <1>6. QED
    BY <1>1, <1>2, <1>3, <1>4, <1>5

\* Every file keeps a value of its type when one file is renamed to another.
LEMMA MoveTypes ==
    ASSUME NEW from \in {"exe", "new", "old"}, NEW to \in {"exe", "new", "old"},
           file \in [{"exe", "new", "old"} -> {"none", "v1", "v2", "other"}],
           Move(from, to)
    PROVE  file' \in [{"exe", "new", "old"} -> {"none", "v1", "v2", "other"}]
  BY DEF Move

\* The steps of the UI thread that touch no file keep the types.
LEMMA OpenTypes ==
    ASSUME TypeOK,
           \/ Woken \/ UserOpens \/ Closes \/ AnswersChanges \/ Saves \/ GivesUp \/ Begins
           \/ Opens \/ Asks \/ AnswersPassword \/ Restores \/ OpenEnded \/ AsksConvert
           \/ AnswersConvert \/ Names \/ AnswersOverwrite
    PROVE  TypeOK'
  <1> USE DEF Boxes, openVars
  <1>1. CASE Woken
    BY <1>1, DialogTypes DEF TypeOK, Woken
  <1>2. CASE UserOpens \/ Closes \/ AnswersChanges
    BY <1>2, DialogTypes DEF TypeOK, UserOpens, Closes, AnswersChanges
  <1>3. CASE Saves \/ GivesUp \/ Begins
    BY <1>3, DialogTypes DEF TypeOK, Saves, GivesUp, Begins
  <1>4. CASE Opens \/ AnswersPassword
    BY <1>4, DialogTypes DEF TypeOK, Opens, AnswersPassword, Answers
  <1>5. CASE Asks \/ Restores \/ OpenEnded \/ AsksConvert
    BY <1>5, DialogTypes DEF TypeOK, Asks, Restores, OpenEnded, AsksConvert
  <1>6. CASE AnswersConvert \/ Names \/ AnswersOverwrite
    BY <1>6, DialogTypes DEF TypeOK, AnswersConvert, Names, AnswersOverwrite
  <1>7. QED
    BY <1>1, <1>2, <1>3, <1>4, <1>5, <1>6

\* The steps of the conversion, the end of an open, a kill and the steps of the
\* other threads keep the types.
LEMMA ConvertTypes ==
    ASSUME TypeOK,
           \/ Converts \/ DeletesOld \/ MovesOld \/ MovesNew \/ Moved \/ Retries
           \/ NotConverted \/ Finishes \/ Failed \/ Killed \/ DialogThreads \/ Collects
           \/ UNCHANGED vars
    PROVE  TypeOK'
  <1> USE DEF Boxes, openVars
  <1>1. CASE Converts
    BY <1>1, DialogTypes DEF TypeOK, Converts
  <1>2. CASE DeletesOld
    BY <1>2, DialogTypes DEF TypeOK, DeletesOld
  <1>3. CASE MovesOld
    BY <1>3, DialogTypes, MoveTypes DEF TypeOK, MovesOld
  <1>4. CASE MovesNew
    BY <1>4, DialogTypes, MoveTypes DEF TypeOK, MovesNew
  <1>5. CASE Moved \/ Retries \/ NotConverted \/ Finishes \/ Failed
    BY <1>5, DialogTypes DEF TypeOK, Moved, Retries, NotConverted, Finishes, Failed
  <1>6. CASE Killed
    BY <1>6 DEF TypeOK, Killed, DialogTypeOK
  <1>7. CASE DialogThreads \/ Collects \/ UNCHANGED vars
    BY <1>7, DialogTypes DEF TypeOK, DialogThreads, Collects, vars
  <1>8. QED
    BY <1>1, <1>2, <1>3, <1>4, <1>5, <1>6, <1>7
-----------------------------------------------------------------------------
(* The files. *)

\* An open that has not begun to convert touches no file, and goes on to the
\* conversion only of a package that has been found to be old.
LEMMA OpenKeepsFiles ==
    ASSUME FilesInv,
           \/ Woken \/ UserOpens \/ Closes \/ AnswersChanges \/ Saves \/ GivesUp \/ Begins
           \/ Opens \/ Asks \/ AnswersPassword \/ Restores \/ OpenEnded \/ AsksConvert
           \/ AnswersConvert \/ Names \/ AnswersOverwrite
    PROVE  (Whole /\ FoundOld /\ Renamed)'
  <1> USE DEF FilesInv, TypeOK, Whole, FoundOld, Renamed, openVars
  <1>1. CASE Woken
    BY <1>1 DEF Woken
  <1>2. CASE UserOpens \/ Closes \/ AnswersChanges
    BY <1>2 DEF UserOpens, Closes, AnswersChanges
  <1>3. CASE Saves \/ GivesUp \/ Begins
    BY <1>3 DEF Saves, GivesUp, Begins
  <1>4. CASE Opens \/ AnswersPassword
    BY <1>4 DEF Opens, AnswersPassword, Answers
  <1>5. CASE Asks \/ Restores \/ OpenEnded \/ AsksConvert
    <2>1. CASE Asks
      BY <2>1 DEF Asks
    <2>2. CASE Restores
      BY <2>2 DEF Restores
    <2>3. CASE OpenEnded
      BY <2>3 DEF OpenEnded
    <2>4. CASE AsksConvert
      BY <2>4 DEF AsksConvert
    <2>5. QED
      BY <1>5, <2>1, <2>2, <2>3, <2>4
  <1>6. CASE AnswersConvert \/ Names \/ AnswersOverwrite
    BY <1>6 DEF AnswersConvert, Names, AnswersOverwrite
  <1>7. QED
    BY <1>1, <1>2, <1>3, <1>4, <1>5, <1>6

\* Nor do a failed delete, a failed renaming or a kill lose the package: what the
\* next step finds is one of the three states Whole allows.
LEMMA ConvertKeepsFiles ==
    ASSUME FilesInv,
           \/ Converts \/ DeletesOld \/ MovesOld \/ MovesNew \/ Moved \/ Retries
           \/ NotConverted \/ Finishes \/ Failed \/ Killed \/ DialogThreads \/ Collects
           \/ UNCHANGED vars
    PROVE  (Whole /\ FoundOld /\ Renamed)'
  <1> USE DEF FilesInv, TypeOK, Whole, FoundOld, Renamed, openVars
  <1>1. CASE Converts
    BY <1>1 DEF Converts
  <1>2. CASE DeletesOld
    BY <1>2 DEF DeletesOld
  <1>3. CASE MovesOld
    BY <1>3 DEF MovesOld, Move
  <1>4. CASE MovesNew
    BY <1>4 DEF MovesNew, Move
  <1>5. CASE Moved \/ Retries \/ NotConverted \/ Finishes \/ Failed
    BY <1>5 DEF Moved, Retries, NotConverted, Finishes, Failed
  <1>6. CASE Killed
    BY <1>6 DEF Killed
  <1>7. CASE DialogThreads \/ Collects \/ UNCHANGED vars
    BY <1>7 DEF DialogThreads, Collects, vars
  <1>8. QED
    BY <1>1, <1>2, <1>3, <1>4, <1>5, <1>6, <1>7

\* FilesInv holds in every state: each file operation of PackageOpen finds the
\* three files as the one before it has left them, whatever failed.
THEOREM FilesInvariance == Spec => []FilesInv
  <1>1. Init => FilesInv
    <2> SUFFICES ASSUME Init PROVE FilesInv
      OBVIOUS
    <2>1. DialogTypeOK
      BY DEF Init, DialogInit, DialogTypeOK
    <2>2. PICK n, o \in {"none", "other"} : file = [exe |-> "v1", new |-> n, old |-> o]
      BY DEF Init
    <2>3. /\ file \in [{"exe", "new", "old"} -> {"none", "v1", "v2", "other"}]
          /\ file["exe"] = "v1"
      BY <2>2
    <2>4. QED
      BY <2>1, <2>3 DEF Init, FilesInv, TypeOK, Whole, FoundOld, Renamed
  <1>2. FilesInv /\ [Next]_vars => FilesInv'
    BY OpenTypes, ConvertTypes, OpenKeepsFiles, ConvertKeepsFiles
       DEF Next, Works, User, FilesInv
  <1>3. QED
    BY <1>1, <1>2, PTL DEF Spec

\* The variables of PackageOpen and of its wait window have their types.
THEOREM OpenTypeCorrect == Spec => []TypeOK
  <1>1. FilesInv => TypeOK
    BY DEF FilesInv
  <1>2. QED
    BY <1>1, FilesInvariance, PTL

\* A conversion never loses the package and reports the truth, whichever file
\* operation fails and whenever the program is killed (PackageOpen's delete and
\* its two calls of File.Move).
THEOREM ConversionIsSafe == Spec => []ConversionSafe
  <1>1. FilesInv => OriginalKept
    BY DEF FilesInv, TypeOK, Whole, OriginalKept
  <1>2. FilesInv => Recoverable
    BY DEF FilesInv, Whole, Recoverable
  <1>3. FilesInv => ConvertedTruly
    BY DEF FilesInv, Renamed, ConvertedTruly
  <1>4. FilesInv => ConversionSafe
    BY <1>1, <1>2, <1>3 DEF ConversionSafe
  <1>5. QED
    BY <1>4, FilesInvariance, PTL
-----------------------------------------------------------------------------
(* The wait windows. *)

\* Where the thread is when every window it began has been told to end.
HiddenAt == (Boxes \ {"overwrite"}) \cup
            {"idle", "close", "begin", "answered", "mismatch", "empty", "deleteOld", "moveOld",
             "moveNew", "moved"}

\* The windows that have not ended.
Begun == {d \in Dialog : dialog[d] # "none"}

\* During the sleep of PleaseWaitBegin the window before may still be there, but
\* then it has been told to end: nobody takes the signal meant for it but it or
\* the new one, and one of the two is left.
Sleeping ==
    /\ wait \/ after = "save"
    /\ \A d, e \in Begun : signalled \/ d = e
    /\ \A d, e, f \in Begun : d = e \/ e = f \/ d = f

\* Otherwise there is one window at most, and none where it has to be hidden.
Awake ==
    /\ \A d \in Dialog : dialog[d] # "start"
    /\ \A d, e \in Up : d = e
    /\ pc \in HiddenAt => Hidden
    /\ ~wait /\ pc # "save" => Hidden

WindowsInv ==
    /\ TypeOK
    /\ Begun # {} => exists
    /\ IF pc = "sleep" THEN Sleeping ELSE Awake

USE DEF HiddenAt, Begun, Boxes, Up, Hidden

\* A window is begun only where the ones before have been told to end.
LEMMA BeginKeepsWindows ==
    ASSUME WindowsInv, Hidden, pc # "sleep", PleaseWaitBegin, pc' = "sleep",
           UNCHANGED wait, wait \/ after' = "save"
    PROVE  (Begun # {} => exists)' /\ Sleeping'
  <1>1. PICK n \in Dialog : dialog[n] = "none" /\ dialog' = [dialog EXCEPT ![n] = "start"]
    BY DEF PleaseWaitBegin
  <1>2. \A d \in Dialog : dialog'[d] = IF d = n THEN "start" ELSE dialog[d]
    BY <1>1 DEF WindowsInv, TypeOK, DialogTypeOK
  <1>3. \A d \in Begun' : d = n \/ (d \in Up /\ signalled)
    BY <1>1, <1>2 DEF WindowsInv, TypeOK, DialogTypeOK
  <1>4. QED
    BY <1>1, <1>2, <1>3 DEF PleaseWaitBegin, WindowsInv, Awake, Sleeping

\* After a PleaseWaitEnd a window that is up has been told to end.
LEMMA EndHides ==
    ASSUME WindowsInv, pc # "sleep", PleaseWaitEnd
    PROVE  /\ (Begun # {} => exists)' /\ Hidden'
           /\ (\A d \in Dialog : dialog[d] # "start")' /\ (\A d, e \in Up : d = e)'
  BY DEF WindowsInv, Awake, PleaseWaitEnd

\* The steps of the UI thread up to the conversion.
LEMMA OpenKeepsWindows ==
    ASSUME WindowsInv,
           \/ Woken \/ UserOpens \/ Closes \/ AnswersChanges \/ Saves \/ GivesUp \/ Begins
           \/ Opens \/ Asks \/ AnswersPassword \/ Restores \/ OpenEnded \/ AsksConvert
           \/ AnswersConvert \/ Names \/ AnswersOverwrite
    PROVE  (Begun # {} => exists)' /\ IF pc' = "sleep" THEN Sleeping' ELSE Awake'
  <1> USE DEF openVars, dialogVars
  <1>1. CASE Woken
    BY <1>1 DEF Woken, Slept, WindowsInv, TypeOK, DialogTypeOK, Sleeping, Awake
  <1>2. CASE UserOpens \/ Closes \/ GivesUp
    BY <1>2 DEF UserOpens, Closes, GivesUp, WindowsInv, TypeOK, Awake
  <1>3. CASE AnswersChanges
    BY <1>3, BeginKeepsWindows DEF AnswersChanges, WindowsInv, TypeOK, Awake
  <1>4. CASE Saves
    BY <1>4, EndHides DEF Saves, Awake
  <1>5. CASE Begins
    BY <1>5, BeginKeepsWindows DEF Begins, WindowsInv, TypeOK, Awake
  <1>6. CASE Opens \/ AnswersPassword \/ OpenEnded
    BY <1>6 DEF Opens, AnswersPassword, OpenEnded, WindowsInv, TypeOK, Awake
  <1>7. CASE Asks \/ AsksConvert
    BY <1>7, EndHides DEF Asks, AsksConvert, WindowsInv, TypeOK, Awake
  <1>8. CASE Restores
    BY <1>8, BeginKeepsWindows DEF Restores, WindowsInv, TypeOK, Awake
  <1>9. CASE AnswersConvert
    BY <1>9, BeginKeepsWindows DEF AnswersConvert, WindowsInv, TypeOK, Awake
  <1>10. CASE Names \/ AnswersOverwrite
    BY <1>10 DEF Names, AnswersOverwrite, WindowsInv, TypeOK, Awake
  <1>11. QED
    BY <1>1, <1>2, <1>3, <1>4, <1>5, <1>6, <1>7, <1>8, <1>9, <1>10

\* The conversion and the end of an open, and the other threads.
LEMMA ConvertKeepsWindows ==
    ASSUME WindowsInv,
           \/ Converts \/ DeletesOld \/ MovesOld \/ MovesNew \/ Moved \/ Retries
           \/ NotConverted \/ Finishes \/ Failed \/ Killed \/ DialogThreads \/ Collects
           \/ UNCHANGED vars
    PROVE  (Begun # {} => exists)' /\ IF pc' = "sleep" THEN Sleeping' ELSE Awake'
  <1> USE DEF openVars, dialogVars
  <1>1. CASE Converts
    BY <1>1, EndHides DEF Converts, WindowsInv, TypeOK, Awake
  <1>2. CASE DeletesOld \/ MovesOld \/ MovesNew \/ Moved \/ Retries \/ NotConverted \/ Failed
    BY <1>2 DEF DeletesOld, MovesOld, MovesNew, Moved, Retries, NotConverted, Failed,
                WindowsInv, TypeOK, Awake
  <1>3. CASE Finishes
    BY <1>3, EndHides DEF Finishes, WindowsInv, TypeOK, Awake
  <1>4. CASE Killed
    BY <1>4 DEF Killed, Awake
  <1>5. CASE DialogThreads
    <2>1. PICK d \in Dialog : DialogThread(d)
      BY <1>5 DEF DialogThreads
    <2>2. CASE Display(d)
      <3>1. dialog'[d] = "up" /\ dialog[d] = "start" /\ Begun' = Begun
        BY <2>2 DEF Display, WindowsInv, TypeOK, DialogTypeOK
      <3>2. QED
        BY <1>5, <2>2, <3>1 DEF DialogThreads, Display, WindowsInv, Sleeping, Awake
    <2>3. CASE Ends(d)
      <3>1. Begun' = Begun \ {d} /\ Up' = Up \ {d} /\ d \in Up /\ d \in Begun
        BY <2>3 DEF Ends, WindowsInv, TypeOK, DialogTypeOK
      <3>2. (\A e \in Dialog : dialog[e] # "start") => (\A e \in Dialog : dialog[e] # "start")'
        BY <2>3 DEF Ends, WindowsInv, TypeOK, DialogTypeOK
      <3>3. QED
        BY <1>5, <2>3, <3>1, <3>2 DEF DialogThreads, Ends, WindowsInv, Sleeping, Awake
    <2>4. QED
      BY <2>1, <2>2, <2>3 DEF DialogThread
  <1>6. CASE Collects
    BY <1>6 DEF Collects, Collected, WindowsInv, Sleeping, Awake
  <1>7. CASE UNCHANGED vars
    BY <1>7 DEF vars, WindowsInv, Sleeping, Awake
  <1>8. QED
    BY <1>1, <1>2, <1>3, <1>4, <1>5, <1>6, <1>7

\* As many windows have been told to end as have begun, or one has not and the
\* thread is where it may show one.
THEOREM WindowsInvariance == Spec => []WindowsInv
  <1>1. Init => WindowsInv
    <2> SUFFICES ASSUME Init PROVE WindowsInv
      OBVIOUS
    <2>1. DialogTypeOK /\ Begun = {}
      BY DEF Init, DialogInit, DialogTypeOK
    <2>2. PICK n, o \in {"none", "other"} : file = [exe |-> "v1", new |-> n, old |-> o]
      BY DEF Init
    <2>3. file \in [{"exe", "new", "old"} -> {"none", "v1", "v2", "other"}]
      BY <2>2
    <2>4. QED
      BY <2>1, <2>3 DEF Init, WindowsInv, TypeOK, Awake
  <1>2. WindowsInv /\ [Next]_vars => WindowsInv'
    BY OpenTypes, ConvertTypes, OpenKeepsWindows, ConvertKeepsWindows
       DEF Next, Works, User, WindowsInv
  <1>3. QED
    BY <1>1, <1>2, PTL DEF Spec

\* No wait window stays in front of a message box, but the one that asks whether
\* to overwrite, or of the editor: whichever way an open ends, its PleaseWaitEnd
\* has reached the window, for any number of windows.
THEOREM WindowsHidden == Spec => []HiddenAtTheEnd
  <1>1. WindowsInv => HiddenAtTheEnd
    BY DEF WindowsInv, Awake, HiddenAtTheEnd
  <1>2. QED
    BY <1>1, WindowsInvariance, PTL
-----------------------------------------------------------------------------
(* The recent files.  Each phase of AddFile has its own promise about the    *)
(* slots: browsing leaves the file in no slot it has passed, the search for *)
(* a hole passes taken slots only, and renaming leaves one slot, the i-th,  *)
(* to be overwritten.                                                       *)

\* One editor runs: two may delete a value under each other's hands.
OneEditor == \E e : Editor = {e}

\* No file is in two of the slots in S.
DistinctIn(S) == \A j, k \in S : regKey[j] = regKey[k] /\ regKey[j] # None => j = k

\* The file being added is in none of the slots outside S.
AbsentBut(e, S) == \A k \in Slot : regKey[k] = fileName[e] => k \in S

TakenBelow(n) == \A k \in Slot : k < n => regKey[k] # None

Phases(e) ==
  /\ step[e] = "idle" => DistinctIn(Slot)
  /\ step[e] = "browse" => DistinctIn(Slot) /\ AbsentBut(e, items[e])
  /\ step[e] = "delete" => /\ DistinctIn(Slot) /\ AbsentBut(e, items[e] \cup {i[e]})
                         /\ i[e] \in Slot /\ regKey[i[e]] # None
  /\ step[e] = "max" => DistinctIn(Slot) /\ AbsentBut(e, {})
  /\ step[e] = "holes" => /\ DistinctIn(Slot) /\ AbsentBut(e, {})
                        /\ TakenBelow(i[e]) /\ regKey[maxItems - 1] = None
  /\ step[e] = "rename" => /\ DistinctIn(Slot \ {i[e]}) /\ AbsentBut(e, {})
                         /\ i[e] \in Slot /\ TakenBelow(i[e])
  /\ step[e] = "top" => DistinctIn(Slot \ {0}) /\ AbsentBut(e, {})
  /\ step[e] # "thrown"

RecentInv == MRUTypeOK /\ \A e \in Editor : Phases(e)

LEMMA RecentInit == MRUInit => RecentInv
<1> SUFFICES ASSUME MRUInit PROVE RecentInv
  OBVIOUS
<1> USE RecentAssumption
<1>1. MRUTypeOK
  BY DEF MRUInit, MRUTypeOK, Slot
<1>2. DistinctIn(Slot) /\ \A e \in Editor : step[e] = "idle"
  BY DEF MRUInit, DistinctIn
<1> QED BY <1>1, <1>2 DEF RecentInv, Phases

\* The only editor at work keeps its promises from phase to phase.
LEMMA StepKeepsRecentInv ==
  ASSUME OneEditor, RecentInv, NEW e \in Editor, MRUStep(e) \/ \E f \in File : AddFile(e, f)
  PROVE  RecentInv'
<1> USE RecentAssumption DEF RecentInv, MRUTypeOK, Slot
<1>e. \A d \in Editor : d = e
  BY DEF OneEditor
<1>p. Phases(e)
  OBVIOUS
<1>1. ASSUME NEW f \in File, AddFile(e, f) PROVE RecentInv'
  <2>1. MRUTypeOK'
    BY <1>1 DEF AddFile
  <2>2. DistinctIn(Slot)'
    BY <1>p, <1>1 DEF AddFile, Phases, DistinctIn
  <2>3. AbsentBut(e, items[e])'
    BY <1>1 DEF AddFile, AbsentBut
  <2>4. step'[e] = "browse"
    BY <1>1 DEF AddFile
  <2> QED BY <1>e, <2>1, <2>2, <2>3, <2>4 DEF Phases
<1>2. ASSUME NEW k \in Slot, Browses(e, k) PROVE RecentInv'
  <2>1. MRUTypeOK'
    <3>1. /\ \E s \in {"browse", "delete"} : step' = [step EXCEPT ![e] = s]
          /\ \E n \in 0 .. maxItems : i' = [i EXCEPT ![e] = n]
          /\ items' = [items EXCEPT ![e] = @ \ {k}] /\ UNCHANGED <<regKey, fileName>>
      <4>1. step = [step EXCEPT ![e] = "browse"] /\ i = [i EXCEPT ![e] = i[e]]
        BY <1>2 DEF Browses
      <4> QED BY <1>2, <4>1 DEF Browses
    <3> QED BY <3>1
  <2>2. DistinctIn(Slot)'
    BY <1>p, <1>2 DEF Browses, Phases, DistinctIn
  <2>3. CASE regKey[k] = fileName[e]
    <3>1. /\ step' = [step EXCEPT ![e] = "delete"] /\ i' = [i EXCEPT ![e] = k]
          /\ items' = [items EXCEPT ![e] = @ \ {k}] /\ UNCHANGED <<regKey, fileName>>
      BY <1>2, <2>3 DEF Browses
    <3>2. AbsentBut(e, items[e] \cup {i[e]})'
      BY <1>p, <1>2, <3>1 DEF Browses, Phases, AbsentBut
    <3>3. i'[e] = k /\ step'[e] = "delete" /\ regKey'[k] # None
      BY <2>3, <3>1
    <3> QED BY <1>e, <2>1, <2>2, <3>2, <3>3 DEF Phases
  <2>4. CASE regKey[k] # fileName[e]
    <3>1. AbsentBut(e, items[e])' /\ step'[e] = "browse"
      BY <1>p, <1>2, <2>4 DEF Browses, Phases, AbsentBut
    <3> QED BY <1>e, <2>1, <2>2, <3>1 DEF Phases
  <2> QED BY <2>3, <2>4
<1>3. CASE Deletes(e)
  <2>1. /\ regKey' = [regKey EXCEPT ![i[e]] = None] /\ step' = [step EXCEPT ![e] = "browse"]
        /\ UNCHANGED <<fileName, items, i>> /\ i[e] \in Slot
    BY <1>p, <1>3 DEF Deletes, Phases
  <2>2. DistinctIn(Slot)' /\ AbsentBut(e, items[e])'
    <3>1. step[e] = "delete"
      BY <1>3 DEF Deletes
    <3>2. None # fileName[e]
      OBVIOUS
    <3> QED BY <1>p, <2>1, <3>1, <3>2 DEF Phases, DistinctIn, AbsentBut
  <2>3. MRUTypeOK'
    BY <2>1
  <2> QED BY <1>e, <2>1, <2>2, <2>3 DEF Phases
<1>4. CASE Browsed(e)
  <2>1. MRUTypeOK' /\ step'[e] = "max"
    BY <1>4 DEF Browsed
  <2>2. DistinctIn(Slot)' /\ AbsentBut(e, {})'
    BY <1>p, <1>4 DEF Browsed, Phases, DistinctIn, AbsentBut
  <2> QED BY <1>e, <2>1, <2>2 DEF Phases
<1>5. CASE DeletesMax(e)
  <2>1. /\ step[e] = "max" /\ step' = [step EXCEPT ![e] = "holes"]
        /\ regKey' = [regKey EXCEPT ![maxItems - 1] = None]
        /\ i' = [i EXCEPT ![e] = 0] /\ UNCHANGED <<fileName, items>>
    BY <1>5 DEF DeletesMax
  <2>2. MRUTypeOK'
    BY <2>1
  <2>3. DistinctIn(Slot)' /\ AbsentBut(e, {})'
    BY <1>p, <2>1 DEF Phases, DistinctIn, AbsentBut
  <2>4. TakenBelow(i[e])' /\ regKey'[maxItems - 1] = None /\ step'[e] = "holes"
    BY <2>1 DEF TakenBelow
  <2> QED BY <1>e, <2>2, <2>3, <2>4 DEF Phases
<1>6. CASE LooksForHole(e)
  <2>1. /\ step[e] = "holes" /\ UNCHANGED <<regKey, fileName, items>>
        /\ i[e] # maxItems
    BY <1>p, <1>6 DEF LooksForHole, Phases, TakenBelow
  <2>2. DistinctIn(Slot)' /\ AbsentBut(e, {})'
    BY <1>p, <2>1 DEF Phases, DistinctIn, AbsentBut
  <2>3. CASE regKey[i[e]] = None
    <3>1. step' = [step EXCEPT ![e] = "rename"] /\ i' = i
      BY <1>6, <2>1, <2>3 DEF LooksForHole
    <3>2. TakenBelow(i[e])' /\ i'[e] \in Slot /\ DistinctIn(Slot \ {i[e]})'
      BY <1>p, <2>1, <2>2, <3>1 DEF Phases, TakenBelow, DistinctIn
    <3> QED BY <1>e, <2>1, <2>2, <3>1, <3>2 DEF Phases
  <2>4. CASE regKey[i[e]] # None
    <3>1. i' = [i EXCEPT ![e] = i[e] + 1] /\ step' = step
      BY <1>6, <2>1, <2>4 DEF LooksForHole
    <3>2. TakenBelow(i[e])' /\ regKey'[maxItems - 1] = None
      BY <1>p, <2>1, <2>4, <3>1 DEF Phases, TakenBelow
    <3>3. MRUTypeOK'
      BY <2>1, <3>1
    <3> QED BY <1>e, <2>1, <2>2, <3>1, <3>2, <3>3 DEF Phases
  <2> QED BY <2>3, <2>4
<1>7. CASE Renames(e)
  <2>1. step[e] = "rename" /\ UNCHANGED <<fileName, items>>
    BY <1>7 DEF Renames
  <2>2. CASE i[e] = 0
    <3>1. step' = [step EXCEPT ![e] = "top"] /\ UNCHANGED <<regKey, i>>
      BY <1>7, <2>2 DEF Renames
    <3>2. DistinctIn(Slot \ {0})' /\ AbsentBut(e, {})'
      BY <1>p, <2>1, <2>2, <3>1 DEF Phases, DistinctIn, AbsentBut
    <3> QED BY <1>e, <2>1, <3>1, <3>2 DEF Phases
  <2>3. CASE i[e] # 0
    <3>1. i[e] - 1 \in Slot /\ i[e] \in Slot /\ regKey[i[e] - 1] # None
      BY <1>p, <2>1, <2>3 DEF Phases, TakenBelow
    <3>2. /\ regKey' = [regKey EXCEPT ![i[e]] = regKey[i[e] - 1]]
          /\ i' = [i EXCEPT ![e] = i[e] - 1] /\ step' = step
      BY <1>7, <2>3, <3>1 DEF Renames
    <3>3. MRUTypeOK'
      BY <2>1, <3>1, <3>2
    <3>4. TakenBelow(i[e])' /\ i'[e] \in Slot
      BY <1>p, <2>1, <3>1, <3>2 DEF Phases, TakenBelow
    <3>5. AbsentBut(e, {})'
      BY <1>p, <2>1, <3>1, <3>2 DEF Phases, AbsentBut
    <3>6. DistinctIn(Slot \ {i[e]})'
      BY <1>p, <2>1, <3>1, <3>2 DEF Phases, DistinctIn
    <3> QED BY <1>e, <2>1, <3>2, <3>3, <3>4, <3>5, <3>6 DEF Phases
  <2> QED BY <2>2, <2>3
<1>8. CASE SetsTop(e)
  <2>1. /\ regKey' = [regKey EXCEPT ![0] = fileName[e]] /\ step[e] = "top"
        /\ step' = [step EXCEPT ![e] = "idle"] /\ UNCHANGED <<fileName, items, i>>
    BY <1>8 DEF SetsTop
  <2>2. DistinctIn(Slot)'
    BY <1>p, <2>1 DEF Phases, DistinctIn, AbsentBut
  <2>3. MRUTypeOK'
    BY <2>1
  <2> QED BY <1>e, <2>1, <2>2, <2>3 DEF Phases
<1> QED BY <1>1, <1>2, <1>3, <1>4, <1>5, <1>6, <1>7, <1>8 DEF MRUStep

\* The list, and the promise of the phase each editor is in, hold throughout.
THEOREM RecentInvariance == ASSUME OneEditor PROVE MRUSpec => []RecentInv
<1>1. RecentInv /\ [MRUNext]_mruVars => RecentInv'
  <2> SUFFICES ASSUME RecentInv, [MRUNext]_mruVars PROVE RecentInv'
    OBVIOUS
  <2>1. CASE MRUNext
    BY <2>1, StepKeepsRecentInv DEF MRUNext
  <2>2. CASE UNCHANGED mruVars
    BY <2>2 DEF mruVars, RecentInv, MRUTypeOK, Phases, DistinctIn, AbsentBut, TakenBelow
  <2> QED BY <2>1, <2>2
<1> QED BY RecentInit, <1>1, PTL DEF MRUSpec

\* The slots hold files, and no index leaves the list (MRU.AddFile).
THEOREM RecentTypes == ASSUME OneEditor PROVE MRUSpec => []MRUTypeOK
<1>1. RecentInv => MRUTypeOK
  BY DEF RecentInv
<1> QED BY RecentInvariance, <1>1, PTL

\* With one editor at work, no DeleteValue and no SetValue of MRU.AddFile
\* throws, however long the list and whatever is in it.
THEOREM NothingThrown == ASSUME OneEditor PROVE MRUSpec => []NeverThrows
<1>1. RecentInv => NeverThrows
  BY DEF RecentInv, Phases, NeverThrows
<1> QED BY RecentInvariance, <1>1, PTL

\* No file is in the list twice once AddFile is over: "First browse through MRU
\* items, deleting those that already contain this fileName".
THEOREM ListedOnce == ASSUME OneEditor PROVE MRUSpec => []NoneTwice
<1>1. RecentInv => NoneTwice
  BY OneEditor DEF OneEditor, RecentInv, Phases, NoneTwice, DistinctIn
<1> QED BY RecentInvariance, <1>1, PTL
-----------------------------------------------------------------------------
(* The list of recent files.  While an editor adds a file, the slots are     *)
(* compared with the list as AddFile found it: which of its entries are in   *)
(* their old slot, which have been moved by one.                             *)

\* What the slot k held before AddFile.
Was(k) == IF k < Len(shown) THEN shown[k + 1] ELSE None

\* What it holds when the file and the last entry are deleted.
Room(f, k) == IF Was(k) = f \/ k = maxItems - 1 THEN None ELSE Was(k)

\* The hole up to which the entries are moved, and what they are then.
FirstHole(f, h) == Room(f, h) = None /\ \A k \in Slot : k < h => Room(f, k) # None
Shifted(f, h, k) == IF k <= h THEN Room(f, k - 1) ELSE Room(f, k)

\* An entry is deleted if it is the file that is added, and no other one.
Browsing(f) == \A k \in Slot : regKey[k] = Was(k) \/ (Was(k) = f /\ regKey[k] = None)

\* The entries above the i-th have been moved as far as the hole.
Moving(f, n) ==
  \E h \in Slot : /\ FirstHole(f, h) /\ n <= h
                 /\ \A k \in Slot : /\ k < n => regKey[k] = Room(f, k)
                                    /\ k > n => regKey[k] = Shifted(f, h, k)

Keeps(e) ==
  /\ step[e] = "idle" => \A k \in Slot : regKey[k] = Was(k)
  /\ step[e] \in {"browse", "delete"} => Browsing(fileName[e])
  /\ step[e] = "delete" => regKey[i[e]] = fileName[e]
  /\ step[e] = "max" => \A k \in Slot : regKey[k] = IF Was(k) = fileName[e] THEN None ELSE Was(k)
  /\ step[e] = "holes" => \A k \in Slot : regKey[k] = Room(fileName[e], k)
  /\ step[e] = "rename" => Moving(fileName[e], i[e])
  /\ step[e] = "top" => Moving(fileName[e], 0)

\* A list of the length allowed, no file twice.
ShownOK ==
  /\ shown \in Seq(File) /\ Len(shown) <= maxItems
  /\ \A a, b \in 1 .. Len(shown) : shown[a] = shown[b] => a = b

ListInv == ShownOK /\ \A e \in Editor : Keeps(e)

\* GetItems on a key without holes lists the slots that are taken, from the first.
LEMMA EntriesOf ==
  ASSUME NEW r, NEW m \in 0 .. maxItems, \A k \in Slot : r[k] # None <=> k < m
  PROVE  Entries(r) = [n \in 1 .. m |-> r[n - 1]]
<1> USE RecentAssumption
<1> DEFINE taken == {k \in Slot : r[k] # None}
<1>c. ASSUME NEW n \in Nat PROVE Cardinality(0 .. n - 1) = n
  <2>1. 0 \in Int /\ n - 1 \in Int /\ (0 > n - 1 <=> n = 0)
    OBVIOUS
  <2>2. Cardinality(0 .. n - 1) = IF 0 > n - 1 THEN 0 ELSE (n - 1) - 0 + 1
    BY ONLY <2>1, FS_Interval
  <2> QED BY <2>1, <2>2
<1>1. taken = 0 .. m - 1 /\ m \in Nat
  BY DEF Slot
<1>2. Cardinality(taken) = m
  BY <1>1, <1>c
<1>3. ASSUME NEW n \in 1 .. m
      PROVE  (CHOOSE k \in taken : Cardinality({j \in taken : j < k}) = n - 1) = n - 1
  <2>1. ASSUME NEW k \in taken PROVE Cardinality({j \in taken : j < k}) = k
    <3>1. {j \in taken : j < k} = 0 .. k - 1 /\ k \in Nat
      BY <1>1
    <3> QED BY <3>1, <1>c
  <2>2. n - 1 \in taken /\ Cardinality({j \in taken : j < n - 1}) = n - 1
    <3>1. n - 1 \in taken
      BY <1>1
    <3> QED BY <3>1, <2>1
  <2> HIDE DEF taken
  <2>3. \A k \in taken : Cardinality({j \in taken : j < k}) = n - 1 => k = n - 1
    BY <2>1
  <2> QED BY <2>2, <2>3
<1> HIDE DEF taken
<1>4. Entries(r) = [n \in 1 .. Cardinality(taken) |->
                     r[CHOOSE k \in taken : Cardinality({j \in taken : j < k}) = n - 1]]
  BY DEF Entries, taken
<1> QED BY <1>2, <1>3, <1>4

\* The slots hold the list of their entries, if they are taken from the first.
LEMMA ListOf ==
  ASSUME NEW r \in [Slot -> File \cup {None}], NEW m \in 0 .. maxItems,
         \A k \in Slot : r[k] # None <=> k < m
  PROVE  /\ Entries(r) \in Seq(File) /\ Len(Entries(r)) = m
         /\ \A n \in 1 .. m : Entries(r)[n] = r[n - 1]
<1> USE RecentAssumption
<1>1. Entries(r) = [n \in 1 .. m |-> r[n - 1]]
  BY EntriesOf
<1>2. \A n \in 1 .. m : r[n - 1] \in File
  BY DEF Slot
<1>3. m \in Nat
  OBVIOUS
<1> QED BY <1>1, <1>2, <1>3

\* What the list promises to keep: all of it but the last entry of a full one.
LEMMA KeptIs ==
  ASSUME ShownOK
  PROVE  LET size == IF Len(shown) = maxItems THEN maxItems - 1 ELSE Len(shown)
         IN  /\ Recent!Kept \in Seq(File) /\ Len(Recent!Kept) = size
             /\ \A n \in 1 .. size : Recent!Kept[n] = shown[n]
<1>1. CASE Len(shown) = maxItems
  <2>1. Recent!Kept = SubSeq(shown, 1, maxItems - 1)
    BY <1>1 DEF Recent!Kept
  <2> QED BY <1>1, <2>1, RecentAssumption DEF ShownOK
<1>2. CASE Len(shown) # maxItems
  BY <1>2 DEF Recent!Kept, ShownOK
<1> QED BY <1>1, <1>2

\* The list an editor starts with is what the key holds.
LEMMA ListInit == MRUInit => ListInv /\ Recent!Init
<1> SUFFICES ASSUME MRUInit PROVE ListInv /\ Recent!Init
  OBVIOUS
<1> USE RecentAssumption
<1>1. PICK m \in 0 .. maxItems : \A k \in Slot : regKey[k] # None <=> k < m
  BY DEF MRUInit
<1>2. /\ shown \in Seq(File) /\ Len(shown) = m
      /\ \A n \in 1 .. m : shown[n] = regKey[n - 1]
  BY <1>1, ListOf DEF MRUInit
<1>3. ShownOK
  <2>1. ASSUME NEW a \in 1 .. m, NEW b \in 1 .. m, shown[a] = shown[b] PROVE a = b
    <3>1. a - 1 \in Slot /\ b - 1 \in Slot /\ regKey[a - 1] = regKey[b - 1] /\ regKey[a - 1] # None
      BY <1>1, <1>2, <2>1 DEF Slot
    <3>2. a - 1 = b - 1
      BY <3>1 DEF MRUInit
    <3> QED BY <3>2
  <2> QED BY <1>2, <2>1 DEF ShownOK
<1>4. \A k \in Slot : regKey[k] = Was(k)
  BY <1>1, <1>2 DEF Was, Slot
<1>5. ListInv
  BY <1>3, <1>4 DEF ListInv, Keeps, MRUInit
<1>6. Recent!Init
  <2>1. m \in 0 .. maxItems /\ shown \in [1 .. m -> File]
    BY <1>2
  <2>2. Recent!IsInjective(shown)
    BY <1>2, <1>3 DEF ShownOK, Recent!IsInjective
  <2> QED BY <2>1, <2>2 DEF Recent!Init
<1> QED BY <1>5, <1>6

\* What a list is with one entry more in front, as SetValue("0") makes it.
LEMMA Prepended ==
  ASSUME NEW x \in File, NEW s \in Seq(File)
  PROVE  \E t \in Seq(File) : /\ t = <<x>> \o s /\ Len(t) = Len(s) + 1 /\ t[1] = x
                          /\ \A n \in 1 .. Len(s) : t[n + 1] = s[n]
<1>1. <<x>> \in Seq(File) /\ Len(<<x>>) = 1 /\ <<x>>[1] = x
  OBVIOUS
<1>2. PICK u \in Seq(File) : u = <<x>> /\ Len(u) = 1 /\ u[1] = x
  BY <1>1
<1>c. /\ u \o s \in Seq(File) /\ Len(u \o s) = Len(u) + Len(s)
      /\ \A n \in 1 .. Len(u) + Len(s) :
           (u \o s)[n] = IF n <= Len(u) THEN u[n] ELSE s[n - Len(u)]
  BY ONLY ConcatProperties, u \in Seq(File), s \in Seq(File)
<1>3. PICK t : /\ t = u \o s /\ t \in Seq(File) /\ Len(t) = Len(u) + Len(s)
               /\ \A n \in 1 .. Len(u) + Len(s) :
                    t[n] = IF n <= Len(u) THEN u[n] ELSE s[n - Len(u)]
  BY ONLY <1>c
<1>4. Len(s) \in Nat
  OBVIOUS
<1>5. Len(t) = Len(s) + 1 /\ t[1] = x
  BY <1>2, <1>3, <1>4
<1>6. ASSUME NEW n \in 1 .. Len(s) PROVE t[n + 1] = s[n]
  <2>1. n + 1 \in 1 .. 1 + Len(s) /\ ~(n + 1 <= 1) /\ (n + 1) - 1 = n
    BY <1>4
  <2>2. t[n + 1] = s[(n + 1) - 1]
    BY <1>2, <1>3, <2>1
  <2> QED BY <2>1, <2>2
<1> QED BY <1>2, <1>3, <1>5, <1>6

\* What a list is without its q-th entry, as DeleteValue and the renaming make it.
LEMMA Removed ==
  ASSUME NEW S, NEW s \in Seq(S), NEW q \in 1 .. Len(s)
  PROVE  \E t \in Seq(S) :
            /\ t = SubSeq(s, 1, q - 1) \o SubSeq(s, q + 1, Len(s)) /\ Len(t) = Len(s) - 1
            /\ \A n \in 1 .. Len(s) - 1 : t[n] = IF n < q THEN s[n] ELSE s[n + 1]
<1>0. PICK m \in Nat : m = Len(s) /\ q \in 1 .. m
  OBVIOUS
<1>s. \A n \in 1 .. m : s[n] \in S
  BY <1>0
<1>1. PICK a : /\ a = SubSeq(s, 1, q - 1) /\ a \in Seq(S) /\ Len(a) = q - 1
               /\ \A n \in 1 .. q - 1 : a[n] = s[n]
  <2>1. /\ 1 \in Int /\ q - 1 \in Int /\ \A n \in 1 .. q - 1 : s[n] \in S
        /\ (IF 1 <= q - 1 THEN q - 1 - 1 + 1 ELSE 0) = q - 1 /\ q - 1 - 1 + 1 = q - 1
        /\ \A n \in 1 .. q - 1 : 1 + n - 1 = n
    BY <1>0, <1>s
  <2>2. /\ SubSeq(s, 1, q - 1) \in Seq(S)
        /\ Len(SubSeq(s, 1, q - 1)) = IF 1 <= q - 1 THEN q - 1 - 1 + 1 ELSE 0
        /\ \A n \in 1 .. q - 1 - 1 + 1 : SubSeq(s, 1, q - 1)[n] = s[1 + n - 1]
    BY ONLY <2>1, SubSeqProperties
  <2> QED BY ONLY <2>1, <2>2
<1>2. PICK b : /\ b = SubSeq(s, q + 1, m) /\ b \in Seq(S) /\ Len(b) = m - q
               /\ \A n \in 1 .. m - q : b[n] = s[q + n]
  <2>1. /\ q + 1 \in Int /\ m \in Int /\ \A n \in q + 1 .. m : s[n] \in S
        /\ (IF q + 1 <= m THEN m - (q + 1) + 1 ELSE 0) = m - q
        /\ m - (q + 1) + 1 = m - q
        /\ \A n \in 1 .. m - q : (q + 1) + n - 1 = q + n
    BY <1>0, <1>s
  <2>2. /\ SubSeq(s, q + 1, m) \in Seq(S)
        /\ Len(SubSeq(s, q + 1, m)) = IF q + 1 <= m THEN m - (q + 1) + 1 ELSE 0
        /\ \A n \in 1 .. m - (q + 1) + 1 : SubSeq(s, q + 1, m)[n] = s[(q + 1) + n - 1]
    BY ONLY <2>1, SubSeqProperties
  <2>3. PICK b : b = SubSeq(s, q + 1, m)
    OBVIOUS
  <2>4. /\ b \in Seq(S) /\ Len(b) = m - q
        /\ \A n \in 1 .. m - q : b[n] = s[(q + 1) + n - 1]
    BY ONLY <2>1, <2>2, <2>3
  <2>5. \A n \in 1 .. m - q : b[n] = s[q + n]
    BY ONLY <2>1, <2>4
  <2> QED BY ONLY <2>3, <2>4, <2>5
<1>c. /\ a \o b \in Seq(S) /\ Len(a \o b) = Len(a) + Len(b)
      /\ \A n \in 1 .. Len(a) + Len(b) :
           (a \o b)[n] = IF n <= Len(a) THEN a[n] ELSE b[n - Len(a)]
  <2>1. a \in Seq(S) /\ b \in Seq(S)
    BY ONLY <1>1, <1>2
  <2> QED BY ONLY ConcatProperties, <2>1
<1>3. PICK t : /\ t = a \o b /\ t \in Seq(S) /\ Len(t) = Len(a) + Len(b)
               /\ \A n \in 1 .. Len(a) + Len(b) :
                    t[n] = IF n <= Len(a) THEN a[n] ELSE b[n - Len(a)]
  BY ONLY <1>c
<1>4. Len(a) + Len(b) = m - 1
  <2>1. Len(a) = q - 1 /\ Len(b) = m - q
    BY ONLY <1>1, <1>2
  <2>2. (q - 1) + (m - q) = m - 1
    BY <1>0
  <2> QED BY ONLY <2>1, <2>2
<1>5. ASSUME NEW n \in 1 .. m - 1 PROVE t[n] = IF n < q THEN s[n] ELSE s[n + 1]
  <2>1. t[n] = IF n <= q - 1 THEN a[n] ELSE b[n - (q - 1)]
    BY <1>1, <1>3, <1>4
  <2>2. CASE n < q
    <3>1. n \in 1 .. q - 1 /\ n <= q - 1
      BY <1>0, <2>2
    <3> QED BY <1>1, <2>1, <2>2, <3>1
  <2>3. CASE ~(n < q)
    <3>1. n - (q - 1) \in 1 .. m - q /\ q + (n - (q - 1)) = n + 1 /\ ~(n <= q - 1)
      BY <1>0, <2>3
    <3>2. b[n - (q - 1)] = s[q + (n - (q - 1))]
      BY <1>2, <3>1
    <3> QED BY <2>1, <2>3, <3>1, <3>2
  <2> QED BY <2>2, <2>3
<1>6. t \in Seq(S) /\ Len(t) = m - 1 /\ t = SubSeq(s, 1, q - 1) \o SubSeq(s, q + 1, m)
  BY ONLY <1>1, <1>2, <1>3, <1>4
<1>7. m = Len(s)
  BY <1>0
<1> QED BY ONLY <1>5, <1>6, <1>7

\* The file is in none of the entries that are kept: they are all moved by one.
LEMMA OpenedNew ==
  ASSUME ShownOK, NEW f \in File, NEW r \in [Slot -> File \cup {None}], NEW h \in Slot,
         FirstHole(f, h), r[0] = f, \A k \in Slot \ {0} : r[k] = Shifted(f, h, k),
         \A n \in 1 .. Len(Recent!Kept) : Recent!Kept[n] # f
  PROVE  /\ \A k \in Slot : r[k] # None <=> k < Len(Recent!Kept) + 1
         /\ Len(Recent!Kept) + 1 \in 0 .. maxItems
         /\ Entries(r) = <<f>> \o Recent!Kept
<1> USE RecentAssumption DEF Slot
<1>k. PICK room \in Seq(File) : room = Recent!Kept
  BY KeptIs
<1>1. PICK size \in 0 .. maxItems - 1 :
         /\ size = IF Len(shown) = maxItems THEN maxItems - 1 ELSE Len(shown)
         /\ Len(room) = size /\ \A n \in 1 .. size : room[n] = shown[n]
  BY <1>k, KeptIs DEF ShownOK
<1>2. \A k \in Slot : Room(f, k) = IF k < size THEN shown[k + 1] ELSE None
  <2>1. \A k \in 0 .. size - 1 : shown[k + 1] # f
    BY <1>k, <1>1
  <2> QED BY <1>1, <2>1 DEF Room, Was, ShownOK
<1>3n. \A n \in 1 .. size : shown[n] \in File /\ shown[n] # None
  BY <1>1 DEF ShownOK
<1>3. \A k \in 0 .. size - 1 : shown[k + 1] \in File /\ shown[k + 1] # None
  BY <1>1 DEF ShownOK
<1>4. h = size
  <2>1. size \in Slot /\ Room(f, size) = None
    BY <1>2
  <2>2. \A k \in 0 .. size - 1 : k \in Slot /\ Room(f, k) # None
    BY <1>2, <1>3
  <2> QED BY <2>1, <2>2 DEF FirstHole
<1>5. \A k \in Slot \ {0} : r[k] = IF k <= size THEN shown[k] ELSE None
  <2> TAKE k \in Slot \ {0}
  <2>1. CASE k <= size
    <3>1. k - 1 \in Slot /\ k - 1 < size /\ r[k] = Room(f, k - 1)
      BY <1>4, <2>1 DEF Shifted
    <3> QED BY <1>2, <2>1, <3>1
  <2>2. CASE ~(k <= size)
    BY <1>2, <1>4, <2>2 DEF Shifted
  <2> QED BY <2>1, <2>2
<1>6. \A k \in Slot : r[k] # None <=> k < size + 1
  <2> TAKE k \in Slot
  <2>1. CASE k = 0
    BY <2>1
  <2>2. CASE k # 0
    <3>1. k \in Slot \ {0} /\ (k <= size <=> k < size + 1) /\ (k <= size => shown[k] # None)
      BY <1>3n, <2>2
    <3> QED BY <1>5, <3>1
  <2> QED BY <2>1, <2>2
<1>7. size + 1 \in 0 .. maxItems
  OBVIOUS
<1>8. PICK seq \in Seq(File) : /\ seq = Entries(r) /\ Len(seq) = size + 1
                             /\ \A n \in 1 .. size + 1 : seq[n] = r[n - 1]
  BY <1>6, <1>7, ListOf
<1>9. seq = <<f>> \o room
  <2>1. PICK t \in Seq(File) : /\ t = <<f>> \o room /\ Len(t) = size + 1 /\ t[1] = f
                             /\ \A n \in 1 .. size : t[n + 1] = room[n]
    <3>1. PICK t \in Seq(File) : /\ t = <<f>> \o room /\ Len(t) = Len(room) + 1 /\ t[1] = f
                               /\ \A n \in 1 .. Len(room) : t[n + 1] = room[n]
      <4>1. room \in Seq(File) /\ f \in File
        OBVIOUS
      <4> QED BY ONLY <4>1, Prepended
    <3> QED BY <1>1, <3>1
  <2>2. ASSUME NEW n \in 1 .. size + 1 PROVE seq[n] = t[n]
    <3>1. CASE n = 1
      BY <1>8, <2>1, <3>1
    <3>2. CASE n # 1
      <4>1. n - 1 \in 1 .. size /\ n - 1 \in Slot \ {0}
        BY <3>2
      <4>2. seq[n] = shown[n - 1]
        BY <1>5, <1>8, <4>1
      <4>3. t[(n - 1) + 1] = room[n - 1] /\ (n - 1) + 1 = n
        BY <2>1, <4>1
      <4> QED BY <1>1, <4>1, <4>2, <4>3
    <3> QED BY <3>1, <3>2
  <2>3. Len(seq) = Len(t) /\ \A n \in 1 .. Len(seq) : seq[n] = t[n]
    BY <1>8, <2>1, <2>2
  <2>4. seq = t
    BY <2>3, SeqEqual
  <2> QED BY <2>1, <2>4
<1> QED BY <1>k, <1>1, <1>6, <1>7, <1>8, <1>9

\* The file is one of the entries that are kept: those before it are moved by one.
LEMMA OpenedAgain ==
  ASSUME ShownOK, NEW f \in File, NEW r \in [Slot -> File \cup {None}], NEW h \in Slot,
         FirstHole(f, h), r[0] = f, \A k \in Slot \ {0} : r[k] = Shifted(f, h, k),
         NEW q \in 1 .. Len(Recent!Kept), Recent!Kept[q] = f
  PROVE  /\ \A k \in Slot : r[k] # None <=> k < Len(Recent!Kept)
         /\ Len(Recent!Kept) \in 0 .. maxItems
         /\ Entries(r) = <<f>> \o Recent!RemoveAt(Recent!Kept, q)
<1> USE RecentAssumption DEF Slot
<1>k. PICK room \in Seq(File) : room = Recent!Kept
  BY KeptIs
<1>1. PICK size \in 0 .. maxItems - 1 :
         /\ size = IF Len(shown) = maxItems THEN maxItems - 1 ELSE Len(shown)
         /\ Len(room) = size /\ \A n \in 1 .. size : room[n] = shown[n]
  BY <1>k, KeptIs DEF ShownOK
<1>q. q \in 1 .. size /\ shown[q] = f
  BY <1>k, <1>1
<1>2. \A k \in Slot : Room(f, k) = IF k < size /\ k # q - 1 THEN shown[k + 1] ELSE None
  <2>1. ASSUME NEW k \in 0 .. size - 1 PROVE shown[k + 1] = f <=> k = q - 1
    <3>1. k + 1 \in 1 .. Len(shown) /\ q \in 1 .. Len(shown) /\ (k + 1 = q <=> k = q - 1)
      BY <1>q, <1>1 DEF ShownOK
    <3>2. shown[k + 1] = shown[q] => k + 1 = q
      BY <3>1 DEF ShownOK
    <3> QED BY <1>q, <3>1, <3>2
  <2> QED BY <1>1, <2>1 DEF Room, Was, ShownOK
<1>3n. \A n \in 1 .. size : shown[n] \in File /\ shown[n] # None
  BY <1>1 DEF ShownOK
<1>3. \A k \in 0 .. size - 1 : shown[k + 1] \in File /\ shown[k + 1] # None
  BY <1>1 DEF ShownOK
<1>4. h = q - 1
  <2>1. q - 1 \in Slot /\ Room(f, q - 1) = None
    BY <1>2, <1>q
  <2>2. \A k \in 0 .. q - 2 : k \in Slot /\ Room(f, k) # None
    BY <1>2, <1>3, <1>q
  <2> QED BY <2>1, <2>2, <1>q DEF FirstHole
<1>5. \A k \in Slot \ {0} : r[k] = IF k < q THEN shown[k]
                                    ELSE IF k < size THEN shown[k + 1] ELSE None
  <2> TAKE k \in Slot \ {0}
  <2>1. CASE k < q
    <3>1. k - 1 \in Slot /\ k - 1 < size /\ k - 1 # q - 1 /\ r[k] = Room(f, k - 1)
      BY <1>4, <1>q, <2>1 DEF Shifted
    <3> QED BY <1>2, <2>1, <3>1
  <2>2. CASE ~(k < q)
    <3>1. k # q - 1 /\ r[k] = Room(f, k)
      BY <1>4, <1>q, <2>2 DEF Shifted
    <3> QED BY <1>2, <2>2, <3>1
  <2> QED BY <2>1, <2>2
<1>6. \A k \in Slot : r[k] # None <=> k < size
  <2> TAKE k \in Slot
  <2>1. CASE k = 0
    BY <1>q, <2>1
  <2>2. CASE k # 0
    <3>1. k \in Slot \ {0} /\ (k < q => k < size) /\ (k < q => shown[k] # None)
      BY <1>3n, <1>q, <2>2
    <3>2. k < size => shown[k + 1] # None
      <4>1. k < size => k \in 0 .. size - 1
        OBVIOUS
      <4> QED BY ONLY <1>3, <4>1
    <3> QED BY <1>5, <3>1, <3>2
  <2> QED BY <2>1, <2>2
<1>7. size \in 0 .. maxItems
  OBVIOUS
<1>8. PICK seq \in Seq(File) : /\ seq = Entries(r) /\ Len(seq) = size
                             /\ \A n \in 1 .. size : seq[n] = r[n - 1]
  BY <1>6, <1>7, ListOf
<1>9. PICK rest \in Seq(File) :
         /\ rest = SubSeq(room, 1, q - 1) \o SubSeq(room, q + 1, Len(room))
         /\ Len(rest) = Len(room) - 1
         /\ \A n \in 1 .. Len(room) - 1 : rest[n] = IF n < q THEN room[n] ELSE room[n + 1]
  <2>1. room \in Seq(File) /\ q \in 1 .. Len(room)
    BY <1>1, <1>q
  <2>2. \E t \in Seq(File) :
           /\ t = SubSeq(room, 1, q - 1) \o SubSeq(room, q + 1, Len(room))
           /\ Len(t) = Len(room) - 1
           /\ \A n \in 1 .. Len(room) - 1 : t[n] = IF n < q THEN room[n] ELSE room[n + 1]
    BY ONLY <2>1, Removed, ZenonT(30)
  <2> QED BY ONLY <2>2
<1>10. seq = <<f>> \o rest
  <2>1. PICK t \in Seq(File) : /\ t = <<f>> \o rest /\ Len(t) = size /\ t[1] = f
                             /\ \A n \in 1 .. size - 1 : t[n + 1] = rest[n]
    <3>1. PICK t \in Seq(File) : /\ t = <<f>> \o rest /\ Len(t) = Len(rest) + 1 /\ t[1] = f
                               /\ \A n \in 1 .. Len(rest) : t[n + 1] = rest[n]
      <4>1. rest \in Seq(File) /\ f \in File
        OBVIOUS
      <4> QED BY ONLY <4>1, Prepended
    <3>2. Len(rest) = size - 1 /\ size \in Nat
      <4>1. Len(rest) = Len(room) - 1 /\ Len(room) = size
        BY ONLY <1>1, <1>9
      <4> QED BY <4>1
    <3>3. Len(t) = size
      BY ONLY <3>1, <3>2
    <3> QED BY ONLY <3>1, <3>2, <3>3
  <2>2. ASSUME NEW n \in 1 .. size PROVE seq[n] = t[n]
    <3>1. CASE n = 1
      BY <1>8, <2>1, <3>1
    <3>2. CASE n # 1
      <4>1. n - 1 \in 1 .. size - 1 /\ n - 1 \in Slot \ {0}
        BY <3>2
      <4>2. seq[n] = IF n - 1 < q THEN shown[n - 1] ELSE shown[n]
        <5>1. seq[n] = r[n - 1] /\ n - 1 < size /\ (n - 1) + 1 = n
          BY <1>8, <4>1
        <5> QED BY <1>5, <4>1, <5>1
      <4>3. t[(n - 1) + 1] = rest[n - 1] /\ (n - 1) + 1 = n
        BY <2>1, <4>1
      <4>4. rest[n - 1] = IF n - 1 < q THEN room[n - 1] ELSE room[n]
        <5>1. n - 1 \in 1 .. Len(room) - 1 /\ (n - 1) + 1 = n
          BY <1>1, <4>1
        <5>2. rest[n - 1] = IF n - 1 < q THEN room[n - 1] ELSE room[(n - 1) + 1]
          BY ONLY <1>9, <5>1
        <5> QED BY ONLY <5>1, <5>2
      <4>5. n - 1 < q => room[n - 1] = shown[n - 1]
        BY <1>1, <4>1
      <4> QED BY <1>1, <4>2, <4>3, <4>4, <4>5
    <3> QED BY <3>1, <3>2
  <2>3. Len(seq) = Len(t) /\ \A n \in 1 .. Len(seq) : seq[n] = t[n]
    BY <1>8, <2>1, <2>2
  <2>4. seq = t
    BY <2>3, SeqEqual
  <2> QED BY <2>1, <2>4
<1>11. Recent!RemoveAt(Recent!Kept, q) = rest
  BY <1>k, <1>1, <1>9 DEF Recent!RemoveAt
<1> QED BY <1>k, <1>1, <1>6, <1>7, <1>8, <1>10, <1>11

\* The last call of AddFile gives the key the list that is promised, whatever the
\* entries and the hole are.
LEMMA TopOpens ==
  ASSUME RecentInv, ListInv, NEW e \in Editor, SetsTop(e)
  PROVE  /\ Recent!Opened(fileName[e]) /\ ShownOK'
         /\ \A k \in Slot : regKey'[k] = Was(k)'
<1> USE RecentAssumption
<1> DEFINE f == fileName[e]
<1>1. /\ step[e] = "top" /\ regKey' = [regKey EXCEPT ![0] = f] /\ shown' = Entries(regKey')
      /\ regKey \in [Slot -> File \cup {None}] /\ f \in File /\ 0 \in Slot
  BY DEF SetsTop, RecentInv, MRUTypeOK, Slot
<1>2. PICK h \in Slot : /\ FirstHole(f, h)
                       /\ \A k \in Slot : k > 0 => regKey[k] = Shifted(f, h, k)
  BY <1>1 DEF ListInv, Keeps, Moving
<1>d. DistinctIn(Slot \ {0}) /\ AbsentBut(e, {})
  BY <1>1 DEF RecentInv, Phases
<1>3. PICK r \in [Slot -> File \cup {None}] : r = regKey'
  BY <1>1
<1> HIDE DEF f
<1>4. r[0] = f /\ \A k \in Slot \ {0} : r[k] = Shifted(f, h, k)
  BY <1>1, <1>2, <1>3 DEF Slot
<1>5. \A j, k \in Slot : r[j] = r[k] /\ r[j] # None => j = k
  BY <1>1, <1>3, <1>d DEF DistinctIn, AbsentBut, f
<1>6. ShownOK
  BY DEF ListInv
<1>7. \E m \in 0 .. maxItems : \A k \in Slot : r[k] # None <=> k < m
  <2>1. CASE \A n \in 1 .. Len(Recent!Kept) : Recent!Kept[n] # f
    BY <1>1, <1>2, <1>4, <1>6, <2>1, OpenedNew
  <2>2. CASE \E n \in 1 .. Len(Recent!Kept) : Recent!Kept[n] = f
    <3>1. PICK q \in 1 .. Len(Recent!Kept) : Recent!Kept[q] = f
      BY <2>2
    <3>2. /\ Len(Recent!Kept) \in 0 .. maxItems
          /\ \A k \in Slot : r[k] # None <=> k < Len(Recent!Kept)
      BY <1>1, <1>2, <1>4, <1>6, <3>1, OpenedAgain
    <3> QED BY ONLY <3>2
  <2> QED BY <2>1, <2>2
<1>8. Recent!Opened(f)
  <2>1. CASE \A n \in 1 .. Len(Recent!Kept) : Recent!Kept[n] # f
    <3>1. Entries(r) = <<f>> \o Recent!Kept
      BY <1>1, <1>2, <1>4, <1>6, <2>1, OpenedNew
    <3>2. f \notin Recent!Range(Recent!Kept)
      BY <1>6, <2>1, KeptIs DEF Recent!Range
    <3> QED BY <1>1, <1>3, <3>1, <3>2 DEF Recent!Opened
  <2>2. CASE \E n \in 1 .. Len(Recent!Kept) : Recent!Kept[n] = f
    <3>1. PICK q \in 1 .. Len(Recent!Kept) : Recent!Kept[q] = f
      BY <2>2
    <3>2. Entries(r) = <<f>> \o Recent!RemoveAt(Recent!Kept, q)
      BY <1>1, <1>2, <1>4, <1>6, <3>1, OpenedAgain
    <3> QED BY <1>1, <1>3, <3>1, <3>2 DEF Recent!Opened
  <2> QED BY <2>1, <2>2
<1>9. PICK m \in 0 .. maxItems : \A k \in Slot : r[k] # None <=> k < m
  BY <1>7
<1>10. PICK seq \in Seq(File) : /\ seq = Entries(r) /\ Len(seq) = m
                              /\ \A n \in 1 .. m : seq[n] = r[n - 1]
  BY <1>9, ListOf
<1>11. seq = shown'
  BY <1>1, <1>3, <1>10
<1>12. ASSUME NEW a \in 1 .. m, NEW b \in 1 .. m, seq[a] = seq[b] PROVE a = b
  <2>1. a - 1 \in Slot /\ b - 1 \in Slot /\ r[a - 1] = r[b - 1] /\ r[a - 1] # None
    BY <1>9, <1>10, <1>12 DEF Slot
  <2>2. a - 1 = b - 1
    BY <1>5, <2>1
  <2> QED BY <2>2
<1>13. ShownOK'
  BY <1>10, <1>11, <1>12 DEF ShownOK
<1>14. ASSUME NEW k \in Slot PROVE r[k] = IF k < Len(seq) THEN seq[k + 1] ELSE None
  <2>1. CASE k < m
    <3>1. k + 1 \in 1 .. m /\ (k + 1) - 1 = k
      BY <2>1 DEF Slot
    <3>2. seq[k + 1] = r[(k + 1) - 1]
      BY <1>10, <3>1
    <3> QED BY <1>10, <2>1, <3>1, <3>2
  <2>2. CASE ~(k < m)
    BY <1>9, <1>10, <2>2
  <2> QED BY <2>1, <2>2
<1> QED BY <1>3, <1>8, <1>11, <1>13, <1>14 DEF Was, f

\* Every call of AddFile on the key leaves the entries where they are, or moves one;
\* only the last call changes the list.
LEMMA StepKeepsList ==
  ASSUME OneEditor, RecentInv, ListInv, NEW e \in Editor,
         MRUStep(e) \/ \E f \in File : AddFile(e, f)
  PROVE  ListInv' /\ (UNCHANGED shown \/ \E f \in File : Recent!Opened(f))
<1> USE RecentAssumption
<1>e. \A d \in Editor : d = e
  BY DEF OneEditor
<1>p. Phases(e) /\ Keeps(e) /\ ShownOK
  BY DEF RecentInv, ListInv
<1>t. /\ step \in [Editor -> {"idle", "browse", "delete", "max", "holes", "rename", "top", "thrown"}]
      /\ fileName \in [Editor -> File] /\ i \in [Editor -> 0 .. maxItems]
      /\ regKey \in [Slot -> File \cup {None}]
  BY DEF RecentInv, MRUTypeOK
<1>q. ASSUME UNCHANGED shown, Keeps(e)' PROVE ListInv' /\ UNCHANGED shown
  BY <1>e, <1>p, <1>q DEF ListInv, ShownOK
<1>1. ASSUME NEW f \in File, AddFile(e, f) PROVE ListInv' /\ UNCHANGED shown
  <2>1. step[e] = "idle" /\ step'[e] = "browse" /\ UNCHANGED <<regKey, shown>>
    BY <1>1, <1>t DEF AddFile
  <2> QED BY <1>p, <1>q, <2>1 DEF Keeps, Browsing, Was
<1>2. ASSUME NEW k \in Slot, Browses(e, k) PROVE ListInv' /\ UNCHANGED shown
  <2>1. /\ step[e] = "browse" /\ step'[e] \in {"browse", "delete"}
        /\ UNCHANGED <<regKey, shown, fileName>>
        /\ step'[e] = "delete" => regKey[i'[e]] = fileName[e]
    BY <1>2, <1>t DEF Browses, Slot
  <2> QED BY <1>p, <1>q, <2>1 DEF Keeps, Browsing, Was
<1>3. CASE Deletes(e)
  <2>1. /\ step[e] = "delete" /\ step'[e] = "browse" /\ UNCHANGED <<shown, fileName>>
        /\ i[e] \in Slot /\ regKey' = [regKey EXCEPT ![i[e]] = None]
    BY <1>3, <1>t, <1>p DEF Deletes, Phases
  <2>2. regKey[i[e]] = fileName[e]
    BY <1>p, <2>1 DEF Keeps
  <2> QED BY <1>p, <1>q, <1>t, <2>1, <2>2 DEF Keeps, Browsing, Was
<1>4. CASE Browsed(e)
  <2>1. step[e] = "browse" /\ step'[e] = "max" /\ UNCHANGED <<regKey, shown, fileName>>
        /\ items[e] = {}
    BY <1>4, <1>t DEF Browsed
  <2>2. \A k \in Slot : regKey[k] # fileName[e]
    BY <1>p, <2>1 DEF Phases, AbsentBut
  <2> QED BY <1>p, <1>q, <2>1, <2>2 DEF Keeps, Browsing, Was
<1>5. CASE DeletesMax(e)
  <2>1. /\ step[e] = "max" /\ step'[e] = "holes" /\ UNCHANGED <<shown, fileName>>
        /\ regKey' = [regKey EXCEPT ![maxItems - 1] = None]
    BY <1>5, <1>t DEF DeletesMax
  <2> QED BY <1>p, <1>q, <1>t, <2>1 DEF Keeps, Room, Was, Slot
<1>6. CASE LooksForHole(e)
  <2>1. /\ step[e] = "holes" /\ UNCHANGED <<regKey, shown, fileName>>
        /\ i[e] \in Slot
    BY <1>6, <1>t, <1>p DEF LooksForHole, Phases, TakenBelow, Slot
  <2>2. CASE regKey[i[e]] = None
    <3>1. step'[e] = "rename" /\ i' = i
      BY <1>6, <1>t, <2>1, <2>2 DEF LooksForHole, Slot
    <3>2. FirstHole(fileName[e], i[e])
      BY <1>p, <2>1, <2>2 DEF Phases, TakenBelow, Keeps, FirstHole
    <3>3. Moving(fileName[e], i[e])
      <4>1. ASSUME NEW k \in Slot
            PROVE  /\ k < i[e] => regKey[k] = Room(fileName[e], k)
                   /\ k > i[e] => regKey[k] = Shifted(fileName[e], i[e], k)
        BY <1>p, <2>1 DEF Keeps, Shifted, Slot
      <4> QED BY <2>1, <3>2, <4>1 DEF Moving, Slot
    <3>4. Moving(fileName[e], i[e])'
      BY <2>1, <3>1, <3>3 DEF Moving, FirstHole, Shifted, Room, Was
    <3> QED BY <1>q, <2>1, <3>1, <3>4 DEF Keeps
  <2>3. CASE regKey[i[e]] # None
    <3>1. step'[e] = "holes"
      BY <1>6, <2>1, <2>3 DEF LooksForHole, Slot
    <3> QED BY <1>p, <1>q, <2>1, <3>1 DEF Keeps, Room, Was
  <2> QED BY <2>2, <2>3
<1>7. CASE Renames(e)
  <2>1. /\ step[e] = "rename" /\ UNCHANGED <<shown, fileName>> /\ i[e] \in Slot
    BY <1>7, <1>p DEF Renames, Phases
  <2>2. CASE i[e] = 0
    <3>1. step'[e] = "top" /\ UNCHANGED regKey
      BY <1>7, <1>t, <2>2 DEF Renames
    <3>2. Moving(fileName[e], 0)'
      BY <1>p, <2>1, <2>2, <3>1 DEF Keeps, Moving, FirstHole, Shifted, Room, Was
    <3> QED BY <1>q, <2>1, <3>1, <3>2 DEF Keeps
  <2>3. CASE i[e] # 0
    <3>1. PICK n \in Slot : n = i[e] - 1 /\ n + 1 = i[e] /\ n + 1 \in Slot
      BY <2>1, <2>3 DEF Slot
    <3>2. regKey[n] # None
      BY <1>p, <2>1, <3>1 DEF Phases, TakenBelow, Slot
    <3>3. step'[e] = "rename" /\ i'[e] = n /\ regKey' = [regKey EXCEPT ![n + 1] = regKey[n]]
      BY <1>7, <1>t, <2>1, <2>3, <3>1, <3>2 DEF Renames
    <3>4. PICK h \in Slot : /\ FirstHole(fileName[e], h) /\ n + 1 <= h
                           /\ \A k \in Slot :
                                /\ k < n + 1 => regKey[k] = Room(fileName[e], k)
                                /\ k > n + 1 => regKey[k] = Shifted(fileName[e], h, k)
      BY <1>p, <2>1, <3>1 DEF Keeps, Moving
    <3>5. n <= h
      BY <3>4 DEF Slot
    <3>6. ASSUME NEW k \in Slot
          PROVE  /\ k < n => regKey'[k] = Room(fileName[e], k)
                 /\ k > n => regKey'[k] = Shifted(fileName[e], h, k)
      <4>1. CASE k < n
        BY <1>t, <3>1, <3>3, <3>4, <4>1 DEF Slot
      <4>2. CASE k = n + 1
        <5>1. regKey'[k] = Room(fileName[e], n) /\ k - 1 = n /\ k <= h
          BY <1>t, <3>1, <3>3, <3>4, <4>2 DEF Slot
        <5> QED BY <4>2, <5>1 DEF Shifted, Slot
      <4>3. CASE k > n + 1
        BY <1>t, <3>1, <3>3, <3>4, <4>3 DEF Slot
      <4> QED BY <4>1, <4>2, <4>3 DEF Slot
    <3>7. Moving(fileName[e], i[e])'
      BY <2>1, <3>3, <3>4, <3>5, <3>6 DEF Moving, FirstHole, Shifted, Room, Was
    <3> QED BY <1>q, <2>1, <3>3, <3>7 DEF Keeps
  <2> QED BY <2>2, <2>3
<1>8. CASE SetsTop(e)
  <2>1. step'[e] = "idle" /\ fileName[e] \in File
    BY <1>8, <1>t DEF SetsTop
  <2>2. Recent!Opened(fileName[e]) /\ ShownOK' /\ \A k \in Slot : regKey'[k] = Was(k)'
    BY <1>8, TopOpens
  <2>3. Keeps(e)'
    BY <2>1, <2>2 DEF Keeps
  <2> QED BY <1>e, <2>1, <2>2, <2>3 DEF ListInv
<1> QED BY <1>1, <1>2, <1>3, <1>4, <1>5, <1>6, <1>7, <1>8 DEF MRUStep

\* While an editor adds a file, the slots hold the entries of the list as it was, but
\* for the deleted ones, and those above its index moved by one.
LEMMA ListInvariance ==
  ASSUME OneEditor
  PROVE  MRUSpec => [](RecentInv /\ ListInv)
<1>1. RecentInv /\ ListInv /\ [MRUNext]_mruVars => ListInv'
  <2> SUFFICES ASSUME RecentInv, ListInv, [MRUNext]_mruVars PROVE ListInv'
    OBVIOUS
  <2>1. CASE MRUNext
    BY <2>1, StepKeepsList DEF MRUNext
  <2>2. CASE UNCHANGED mruVars
    BY <2>2 DEF mruVars, ListInv, ShownOK, Keeps, Browsing, Moving, FirstHole, Shifted, Room, Was
  <2> QED BY <2>1, <2>2
<1>2. MRUInit => ListInv
  BY ListInit
<1> QED BY <1>1, <1>2, RecentInvariance, PTL DEF MRUSpec

\* With one editor at work, AddFile keeps the list that RecentList promises: the package
\* just opened comes first and is there once, the others keep their order, and a full
\* list loses its last entry.  The calls on the key before the last one are stutters.
THEOREM RecentImplements == ASSUME OneEditor PROVE MRUSpec => ListImplemented
<1>1. MRUInit => Recent!Init
  BY ListInit
<1>2. RecentInv /\ ListInv /\ [MRUNext]_mruVars => [Recent!Next]_shown
  <2> SUFFICES ASSUME RecentInv, ListInv, [MRUNext]_mruVars PROVE [Recent!Next]_shown
    OBVIOUS
  <2>1. CASE MRUNext
    <3>1. UNCHANGED shown \/ \E f \in File : Recent!Opened(f)
      BY <2>1, StepKeepsList DEF MRUNext
    <3> QED BY <3>1 DEF Recent!Next
  <2>2. CASE UNCHANGED mruVars
    BY <2>2 DEF mruVars
  <2> QED BY <2>1, <2>2
<1> QED BY <1>1, <1>2, ListInvariance, PTL DEF MRUSpec, ListImplemented, Recent!Spec
=============================================================================

----------------------------- MODULE PackageOpen -----------------------------
(***************************************************************************)
(* PackageOpen of the Package Editor (src/PackageEditor/MainForm.cs): the   *)
(* password, the conversion of a package of an older version, with its      *)
(* files, and the wait window around them.                                  *)
(*                                                                         *)
(* File operations fail for reasons of their own (a scanner, a missing      *)
(* right), the program may be killed between any two, and the message       *)
(* boxes wait for the user.                                                 *)
(***************************************************************************)
EXTENDS WaitDialog

VARIABLES
    pc,         \* the next step of the UI thread
    after,      \* where it goes on when a PleaseWaitBegin returns
    wait,       \* displayWaitMsg
    ret,        \* what the last virtPackage.Open returned
    trouble,    \* has a file not been renamed?
    opened,     \* virtPackage.opened
    file        \* the package, its ".new" and its ".old": "none", "v1", "v2",
                \* or "other", left by a conversion of another package

openVars == <<wait, ret, trouble, opened>>
vars == <<dialogVars, pc, after, openVars, file>>

\* Where a message box or a dialog waits for the user.
Boxes == {"changes", "unsaved", "password", "mismatch", "convert", "overwrite", "converted",
          "error", "noOld", "noNew", "failed"}

TypeOK ==
    /\ DialogTypeOK
    /\ pc \in Boxes \cup {"idle", "sleep", "close", "save", "begin", "open", "ask",
                          "empty", "answered", "opened", "old", "names", "exec", "deleteOld",
                          "moveOld", "moveNew", "moved", "tail"}
    /\ after \in {"open", "ask", "opened", "names", "save"}
    /\ wait \in BOOLEAN /\ trouble \in BOOLEAN /\ opened \in BOOLEAN
    /\ ret \in {"SUCCESS", "PASSWORD", "OLD_VERSION", "FAILURE"}
    /\ file \in [{"exe", "new", "old"} -> {"none", "v1", "v2", "other"}]

Init ==
    /\ DialogInit
    /\ pc = "idle" /\ after = "open"
    /\ wait = TRUE /\ ret = "FAILURE" /\ trouble = FALSE /\ opened = FALSE
    /\ \E n, o \in {"none", "other"} : file = [exe |-> "v1", new |-> n, old |-> o]
-----------------------------------------------------------------------------
GoTo(p, q) == pc = p /\ pc' = q

\* if (displayWaitMsg) PleaseWaitBegin
Begin(p, q) ==
    /\ pc = p
    /\ IF wait THEN PleaseWaitBegin /\ pc' = "sleep" /\ after' = q
       ELSE UNCHANGED <<dialogVars, after>> /\ pc' = q

Woken == GoTo("sleep", after) /\ Slept /\ UNCHANGED <<after, openVars, file>>

\* if (displayWaitMsg) PleaseWaitEnd
End(p, q) ==
    /\ GoTo(p, q)
    /\ IF wait THEN PleaseWaitEnd ELSE UNCHANGED dialogVars
    /\ UNCHANGED <<after, openVars, file>>

\* The user opens the package: from the menu, or again after a save (quietly).
UserOpens ==
    /\ GoTo("idle", "close")
    /\ wait' \in BOOLEAN
    /\ UNCHANGED <<dialogVars, after, ret, trouble, opened, file>>

\* PackageClose of the package before, which may have changes to save.
Closes ==
    /\ pc = "close"
    /\ \/ ~opened /\ pc' = "begin" /\ UNCHANGED opened
       \/ opened /\ pc' = "changes" /\ UNCHANGED opened
       \/ opened /\ pc' = "begin" /\ opened' = FALSE
    /\ UNCHANGED <<dialogVars, after, wait, ret, trouble, file>>

AnswersChanges ==
    /\ pc = "changes"
    /\ \/ /\ PleaseWaitBegin
          /\ pc' = "sleep" /\ after' = "save"
          /\ UNCHANGED opened
       \/ /\ pc' = "begin" /\ opened' = FALSE
          /\ UNCHANGED <<dialogVars, after>>
    /\ UNCHANGED <<wait, ret, trouble, file>>

\* PackageSave ends its own wait window, whether it saved or not.
Saves ==
    /\ pc = "save"
    /\ PleaseWaitEnd
    /\ \/ pc' = "begin" /\ opened' = FALSE
       \/ pc' = "unsaved" /\ UNCHANGED opened
    /\ UNCHANGED <<after, wait, ret, trouble, file>>

\* Still not saved: the open is given up.
GivesUp == GoTo("unsaved", "failed") /\ UNCHANGED <<dialogVars, after, openVars, file>>

Begins == Begin("begin", "open") /\ UNCHANGED <<openVars, file>>

\* What the package API may answer to virtPackage.Open.
Answers ==
    {r \in {"SUCCESS", "PASSWORD", "OLD_VERSION", "FAILURE"} :
        /\ r = "SUCCESS" => file["exe"] = "v2"
        /\ r = "OLD_VERSION" => file["exe"] = "v1"
        /\ r = "PASSWORD" => file["exe"] # "none"}

Opens ==
    /\ pc = "open"
    /\ ret' \in Answers
    /\ opened' = (ret' = "SUCCESS")
    /\ pc' = IF ret' = "PASSWORD" THEN "ask" ELSE "opened"
    /\ UNCHANGED <<dialogVars, after, wait, trouble, file>>

Asks == End("ask", "password")

\* The password dialog: cancelled, or a password, of which the API says that it
\* does not match or anything else; an empty one is asked for again whatever it says.
AnswersPassword ==
    /\ pc = "password"
    /\ \/ pc' = "failed" /\ UNCHANGED <<ret, opened>>
       \/ /\ ret' \in Answers
          /\ opened' = (opened \/ ret' = "SUCCESS")
          /\ \/ pc' = "mismatch" /\ ret' = "PASSWORD"
             \/ pc' \in {"empty", "answered"}
    /\ UNCHANGED <<dialogVars, after, wait, trouble, file>>

\* Restore progress window, for another password or the rest of the open.
Restores ==
    /\ \/ Begin("mismatch", "ask") \/ Begin("empty", "ask")
       \/ Begin("answered", "opened")
    /\ UNCHANGED <<openVars, file>>
-----------------------------------------------------------------------------
(* The conversion. *)

OpenEnded ==
    /\ pc = "opened"
    /\ pc' = IF ret = "OLD_VERSION" THEN "old" ELSE "tail"
    /\ UNCHANGED <<dialogVars, after, openVars, file>>

AsksConvert == End("old", "convert")

AnswersConvert ==
    /\ \/ GoTo("convert", "tail") /\ UNCHANGED <<dialogVars, after>>
       \/ Begin("convert", "names")
    /\ UNCHANGED <<openVars, file>>

Names ==
    /\ GoTo("names", IF file["new"] # "none" THEN "overwrite" ELSE "exec")
    /\ UNCHANGED <<dialogVars, after, openVars, file>>

AnswersOverwrite ==
    /\ pc = "overwrite" /\ pc' \in {"exec", "tail"}
    /\ UNCHANGED <<dialogVars, after, openVars, file>>

\* The packager converts into the new file; the window is hidden.
Converts ==
    /\ pc = "exec"
    /\ IF wait THEN PleaseWaitEnd ELSE UNCHANGED dialogVars
    /\ \/ pc' = "deleteOld" /\ file' = [file EXCEPT !["new"] = "v2"]
       \/ pc' = "error" /\ UNCHANGED file
    /\ trouble' = FALSE
    /\ UNCHANGED <<after, wait, ret, opened>>

\* File.Delete of the old file; if it fails it is ignored.
DeletesOld ==
    /\ GoTo("deleteOld", "moveOld")
    /\ file' \in {file, [file EXCEPT !["old"] = "none"]}
    /\ UNCHANGED <<dialogVars, after, openVars>>

\* File.Move: never onto a file, and it may fail.
Move(from, to) ==
    /\ file[from] # "none" /\ file[to] = "none"
    /\ file' = [file EXCEPT ![to] = file[from], ![from] = "none"]

\* faulty variant: the old package is deleted if it cannot be renamed
MovesOld_Deletes ==
    /\ pc = "moveOld"
    /\ \/ Move("exe", "old") /\ pc' = "moveNew" /\ UNCHANGED trouble
       \/ file' = [file EXCEPT !["exe"] = "none"] /\ trouble' = TRUE /\ pc' = "noOld"
    /\ UNCHANGED <<dialogVars, after, wait, ret, opened>>

MovesOld ==
    /\ pc = "moveOld"
    /\ \/ Move("exe", "old") /\ pc' = "moveNew" /\ UNCHANGED trouble
       \/ UNCHANGED file /\ trouble' = TRUE /\ pc' = "noOld"
    /\ UNCHANGED <<dialogVars, after, wait, ret, opened>>

\* It is tried even if the old package could not be renamed.
MovesNew ==
    /\ \/ /\ pc = "moveNew"
          /\ \/ Move("new", "exe") /\ pc' = "moved" /\ UNCHANGED trouble
             \/ UNCHANGED file /\ trouble' = TRUE /\ pc' = "noNew"
       \/ GoTo("noOld", "moveNew") /\ UNCHANGED <<file, trouble>>
       \/ GoTo("noNew", "moved") /\ UNCHANGED <<file, trouble>>
    /\ UNCHANGED <<dialogVars, after, wait, ret, opened>>

Moved == GoTo("moved", IF trouble THEN "tail" ELSE "converted")
         /\ UNCHANGED <<dialogVars, after, openVars, file>>

\* "Package was successfully converted": goto retry.
Retries == GoTo("converted", "close") /\ UNCHANGED <<dialogVars, after, openVars, file>>

NotConverted == GoTo("error", "tail") /\ UNCHANGED <<dialogVars, after, openVars, file>>

\* faulty variant: the window ends only if the package is open
Finishes_Opened ==
    IF ret = "SUCCESS" THEN End("tail", "idle")
    ELSE GoTo("tail", "failed") /\ UNCHANGED <<dialogVars, after, openVars, file>>

\* The last PleaseWaitEnd: also where the window has been hidden before.
Finishes == End("tail", IF ret = "SUCCESS" THEN "idle" ELSE "failed")

Failed == GoTo("failed", "idle") /\ UNCHANGED <<dialogVars, after, openVars, file>>

\* The program is killed, and started again.
Killed ==
    /\ pc' = "idle"
    /\ dialog' = [d \in Dialog |-> "none"]
    /\ exists' = FALSE /\ signalled' = FALSE
    /\ opened' = FALSE
    /\ UNCHANGED <<after, wait, ret, trouble, file>>
-----------------------------------------------------------------------------
Works == \/ Woken \/ Closes \/ Saves \/ Begins \/ Opens \/ Asks \/ Restores \/ OpenEnded
         \/ AsksConvert \/ Names \/ Converts \/ DeletesOld \/ MovesOld \/ MovesNew \/ Moved \/ Finishes

User == \/ UserOpens \/ AnswersChanges \/ GivesUp \/ AnswersPassword \/ AnswersConvert
        \/ AnswersOverwrite \/ Retries \/ NotConverted \/ Failed

DialogThreads == /\ \E d \in Dialog : DialogThread(d)
                 /\ UNCHANGED <<pc, after, openVars, file>>

Collects == Collected /\ UNCHANGED <<pc, after, openVars, file>>

Next == Works \/ User \/ DialogThreads \/ Collects \/ Killed

Spec == Init /\ [][Next]_vars

\* The threads run; when the user answers, and what is killed or collected, is open.
Fairness == WF_vars(Works) /\ WF_vars(DialogThreads)

FairSpec == Spec /\ Fairness
-----------------------------------------------------------------------------
\* No window is up but one that has been told to end.
Hidden ==
    /\ \A d \in Dialog : dialog[d] # "start"
    /\ \A d, e \in Up : signalled /\ d = e

\* The package the user wants to open is under one of the three names.
OriginalKept == \E f \in DOMAIN file : file[f] = "v1"

\* With nothing under its name it is under both other names, converted and not.
Recoverable == file["exe"] = "none" => file["new"] = "v2" /\ file["old"] = "v1"

\* "Package was successfully converted. Your old package was saved in ...".
ConvertedTruly == pc = "converted" => file["exe"] = "v2" /\ file["old"] = "v1"

\* A conversion never loses the package, leaves nothing under its name only where
\* the user can put it back, and reports success only of what took place,
\* whichever of the delete and the two moves fails and whenever the program is
\* killed between them.
ConversionSafe == OriginalKept /\ Recoverable /\ ConvertedTruly

\* Nothing stays in front of the editor, or of the boxes other than the one that
\* asks whether to overwrite: whichever way an open ends, as many windows have
\* been told to end as have begun.
HiddenAtTheEnd == pc \in (Boxes \ {"overwrite"}) \cup {"idle"} => Hidden

\* The windows do end when the user leaves the editor alone.
WindowsEnd == <>[](pc = "idle") => <>[](\A d \in Dialog : dialog[d] = "none")
=============================================================================

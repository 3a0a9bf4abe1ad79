---------------------------- MODULE EditorSession ----------------------------
(***************************************************************************)
(* The editing session of the Package Editor (PackageEditor/MainForm.cs,   *)
(* RegistryEditor.cs and the VirtPackage wrapper in PackageAPI.cs).        *)
(*                                                                         *)
(* Three actors share the fields of MainForm and RegistryEditor:           *)
(*   - the UI thread, which runs one event handler at a time; a handler    *)
(*     that shows a dialog pumps messages, so timer ticks run inside it;   *)
(*   - regProgressTimer, whose ticks run on the UI thread;                 *)
(*   - loader threads, which run ThreadedRegLoad without any lock.         *)
(*                                                                         *)
(* "ui" is the call stack of the running handler: its head names the next  *)
(* step, <<>> is the message loop, and "ret" is the Boolean returned by    *)
(* the last call.  A step reads regLoadThread at most once where another   *)
(* thread may change it between two reads.                                 *)
(*                                                                         *)
(* Abstractions: the contents of a package are reduced to which of its     *)
(* three parts (properties, files, registry) carry edits; the native DLL   *)
(* is external and answers nondeterministically, except that it neither    *)
(* saves nor loads through a closed handle; passwords, icons and the       *)
(* conversion of old packages only decide whether PackageOpen succeeds;    *)
(* the abort event given to VirtRegGetWorkKeyEx only shortens the native   *)
(* call, whose length and outcome are free anyway.                         *)
(***************************************************************************)
EXTENDS Naturals, Sequences, FiniteSets

CONSTANTS
  Loaders,      \* identities of loader threads (a slot is reused once dead)
  NoLoader,     \* the null reference in regLoadThread
  MaxSessions,  \* bound: how many times virtPackage is opened or created
  Elevations,   \* whether the editor is started elevated: a set of Booleans
  EditParts,    \* the parts the user edits in this instance
  ExtraOps      \* the optional user operations of this instance

NoKey == 0
Parts == {"main", "fs", "reg"}

ASSUME EditorAssumption ==
  /\ NoLoader \notin Loaders
  /\ Loaders # {}
  /\ MaxSessions \in Nat \ {0}
  /\ Elevations \subseteq BOOLEAN
  /\ EditParts \subseteq Parts
  /\ ExtraOps \subseteq {"export", "swap", "drop"}

VARIABLES
  ui, ret, form,                    \* UI thread: call stack, result; window
  opened, session, named,           \* virtPackage: opened, hPkg, openedFile # ""
  workKey,                          \* regEditor.workKey: session it belongs to, 0 = null
  regLoaded, regLoadThread,         \* fields of MainForm shared with the loader
  loader, joined,                   \* loader threads; the one Join waits for
  timer, regUI, tab, controls, tree,\* regProgressTimer.Enabled and what is visible
  dirty, unsaved,                   \* dirty flags; edits neither saved nor given up
  elevated                          \* isElevatedProcess

pkg  == <<opened, session, named>>
reg  == <<workKey, regLoaded, regLoadThread>>
view == <<timer, regUI, tab, controls, tree>>
work == <<dirty, unsaved>>
vars == <<ui, ret, form, pkg, reg, loader, joined, view, work, elevated>>

LoaderSteps == {"start", "native", "got", "loaded", "exit"}
Dead == [at |-> "dead", key |-> NoKey, aborted |-> FALSE]

Frames ==
  {"open", "open2", "openPkg", "opened", "close", "ask", "asked", "stopThenShut",
   "shut", "stop", "join", "joining", "stop3s", "alive3s", "joining3s", "abort",
   "save", "saveas", "saved", "reopen", "reopened", "giveup", "new", "create",
   "newload", "exit", "formClosing", "closing", "gone", "elevate", "launch",
   "launched", "regChange", "dropReg", "export", "exportGot", "exportLoaded",
   "swap", "swapNamed", "swapUnnamed", "select", "selectAlive", "fault"}

(* Steps that show, or may show, a modal dialog: they wait for the user.   *)
Dialogs == {"ask", "openPkg", "save", "saveas", "reopened", "create", "elevate",
            "launch", "regChange", "export", "swap", "fault"}

TypeOK ==
  /\ ui \in Seq(Frames)
  /\ ret \in BOOLEAN /\ form \in {"open", "closed"}
  /\ opened \in BOOLEAN /\ session \in 0..MaxSessions /\ named \in BOOLEAN
  /\ workKey \in 0..MaxSessions /\ regLoaded \in BOOLEAN
  /\ regLoadThread \in Loaders \cup {NoLoader}
  /\ joined \in Loaders \cup {NoLoader}
  /\ loader \in [Loaders -> [at: LoaderSteps \cup {"dead"}, key: 0..MaxSessions,
                             aborted: BOOLEAN]]
  /\ timer \in BOOLEAN /\ regUI \in BOOLEAN /\ controls \in BOOLEAN
  /\ tab \in {"general", "registry"} /\ tree \in [fs: BOOLEAN, reg: BOOLEAN]
  /\ dirty \in [Parts -> BOOLEAN] /\ unsaved \subseteq Parts
  /\ elevated \in BOOLEAN

Alive(l) == loader[l].at # "dead"
AnyDirty == \E p \in Parts : dirty[p]
AllClean == [p \in Parts |-> FALSE]

-----------------------------------------------------------------------------
(* The UI thread as a stack of steps.                                      *)

At(f)      == ui # <<>> /\ Head(ui) = f
Idle       == ui = <<>> /\ form = "open"
AwaitsUser == ui # <<>> /\ Head(ui) \in Dialogs
Goto(f)    == ui' = <<f>> \o Tail(ui) /\ UNCHANGED ret
Call(f, k) == ui' = <<f, k>> \o Tail(ui) /\ UNCHANGED ret
Return(v)  == ui' = Tail(ui) /\ ret' = (v /\ Len(ui) > 1)
(* An exception no handler catches unwinds to the message loop, which      *)
(* shows the Application.ThreadException dialog.                           *)
Throw      == ui' = <<"fault">> /\ UNCHANGED ret
Start(s)   == Idle /\ ui' = s /\ UNCHANGED ret

Init ==
  /\ ui \in {<<>>, <<"open">>} /\ ret = FALSE /\ form = "open"
  /\ opened = FALSE /\ session = 0 /\ named = FALSE
  /\ workKey = NoKey /\ regLoaded = FALSE /\ regLoadThread = NoLoader
  /\ loader = [l \in Loaders |-> Dead] /\ joined = NoLoader
  /\ timer = FALSE /\ regUI = TRUE /\ tab = "general" /\ controls = FALSE
  /\ tree = [fs |-> FALSE, reg |-> FALSE]
  /\ dirty = AllClean /\ unsaved = {}
  /\ elevated \in Elevations

-----------------------------------------------------------------------------
(* The loader thread: ThreadedRegLoad.  An aborted thread makes no further *)
(* step in managed code; inside the native call it dies when that returns. *)

LoaderAt(l, s) == loader[l].at = s /\ ~loader[l].aborted

(* OnPackageOpenBeforeUI passes the handle hPkg holds now to the DLL; a    *)
(* handle that was closed yields no key.                                   *)
KeyOfHandle == IF opened THEN session ELSE NoKey

LoaderEnters(l) ==
  /\ LoaderAt(l, "start")
  /\ loader' = [loader EXCEPT ![l] = [@ EXCEPT !.at = "native", !.key = KeyOfHandle]]
  /\ UNCHANGED <<ui, ret, form, pkg, reg, joined, view, work, elevated>>

(* GetRegWorkKeyEx returns the key of that handle, or null.                *)
LoaderReturnsOnNull(l) ==  \* faulty variant: "return" leaves the whole thread
  /\ LoaderAt(l, "native")
  /\ \E key \in {loader[l].key, NoKey} :
       /\ workKey' = key
       /\ loader' = [loader EXCEPT
                        ![l] = IF key = NoKey THEN Dead ELSE [Dead EXCEPT !.at = "got"]]
  /\ UNCHANGED <<ui, ret, form, pkg, regLoaded, regLoadThread, joined, view, work,
                 elevated>>

LoaderStoresKey(l) ==
  /\ LoaderAt(l, "native")
  /\ workKey' \in {loader[l].key, NoKey}
  /\ loader' = [loader EXCEPT ![l] = [Dead EXCEPT !.at = "got"]]
  /\ UNCHANGED <<ui, ret, form, pkg, regLoaded, regLoadThread, joined, view, work,
                 elevated>>

LoaderSetsLoaded(l) ==
  /\ LoaderAt(l, "got")
  /\ regLoaded' = TRUE
  /\ loader' = [loader EXCEPT ![l].at = "loaded"]
  /\ UNCHANGED <<ui, ret, form, pkg, workKey, regLoadThread, joined, view, work,
                 elevated>>

LoaderInvokesUI(l) ==  \* faulty variant: clears the field through Control.Invoke
  /\ LoaderAt(l, "loaded") /\ ui = <<>>
  /\ regLoadThread' = NoLoader
  /\ loader' = [loader EXCEPT ![l].at = "exit"]
  /\ UNCHANGED <<ui, ret, form, pkg, workKey, regLoaded, joined, view, work, elevated>>

LoaderClearsThread(l) ==
  /\ LoaderAt(l, "loaded")
  /\ regLoadThread' = NoLoader
  /\ loader' = [loader EXCEPT ![l].at = "exit"]
  /\ UNCHANGED <<ui, ret, form, pkg, workKey, regLoaded, joined, view, work, elevated>>

LoaderEnds(l) ==
  /\ LoaderAt(l, "exit") \/ (Alive(l) /\ loader[l].aborted)
  /\ loader' = [loader EXCEPT ![l] = Dead]
  /\ UNCHANGED <<ui, ret, form, pkg, reg, joined, view, work, elevated>>

Loader(l) ==
  \/ LoaderEnters(l) \/ LoaderStoresKey(l) \/ LoaderSetsLoaded(l)
  \/ LoaderClearsThread(l) \/ LoaderEnds(l)

-----------------------------------------------------------------------------
(* regEditor.OnPackageOpenUI: rebuild the tree, forget registry edits.     *)
OnPackageOpenUI ==
  /\ tree' = [tree EXCEPT !.reg = TRUE]
  /\ dirty' = [dirty EXCEPT !["reg"] = FALSE]

(* regProgressTimer_Tick; a tick before regLoaded only moves a bar.  Ticks *)
(* run from the message loop or from the loop of a modal dialog.           *)
regProgressTimer_Tick ==
  /\ timer /\ regLoaded /\ form = "open"
  /\ ui = <<>> \/ AwaitsUser
  /\ OnPackageOpenUI
  /\ regUI' = TRUE /\ timer' = FALSE
  /\ UNCHANGED <<ui, ret, form, pkg, reg, loader, joined, tab, controls, unsaved,
                 elevated>>

-----------------------------------------------------------------------------
(* ThreadedRegLoadStop(-1) is "stop"; with a time limit it is "stop3s".    *)

StopBegin(f, next) ==
  /\ At(f)
  /\ IF regLoadThread = NoLoader THEN Return(TRUE) ELSE Goto(next)
  /\ UNCHANGED <<form, pkg, reg, loader, joined, view, work, elevated>>

(* regLoadThread is read again to call Join or IsAlive on it; if the loader *)
(* has cleared it since, the call throws, unless the compiled code kept    *)
(* the reference it had tested, of a thread that is ending.                *)
StopReads(f, next) ==
  /\ At(f)
  /\ \/ /\ regLoadThread = NoLoader
        /\ Throw \/ Return(TRUE)
        /\ UNCHANGED <<regLoadThread, joined>>
     \/ /\ regLoadThread # NoLoader /\ Alive(regLoadThread)
        /\ joined' = regLoadThread
        /\ Goto(next)
        /\ UNCHANGED regLoadThread
     \/ /\ regLoadThread # NoLoader /\ ~Alive(regLoadThread)
        /\ regLoadThread' = NoLoader
        /\ Return(TRUE)
        /\ UNCHANGED joined
  /\ UNCHANGED <<form, pkg, workKey, regLoaded, loader, view, work, elevated>>

StopJoined ==
  /\ At("joining") /\ ~Alive(joined)
  /\ regLoadThread' = NoLoader /\ joined' = NoLoader
  /\ Return(TRUE)
  /\ UNCHANGED <<form, pkg, workKey, regLoaded, loader, view, work, elevated>>

(* Join(timeout) returns when the thread ended or when the time is over.   *)
StopJoined3s ==
  /\ At("joining3s")
  /\ joined' = NoLoader
  /\ Goto("abort")
  /\ UNCHANGED <<form, pkg, reg, loader, view, work, elevated>>

StopWithoutAbort ==  \* faulty variant: gives up on the thread instead of aborting it
  /\ At("abort")
  /\ regLoadThread' = NoLoader
  /\ Return(TRUE)
  /\ UNCHANGED <<form, pkg, workKey, regLoaded, loader, joined, view, work, elevated>>

StopAbort ==
  /\ At("abort")
  /\ IF regLoadThread = NoLoader
     THEN Throw /\ UNCHANGED <<regLoadThread, loader>>
     ELSE /\ loader' = IF Alive(regLoadThread)
                       THEN [loader EXCEPT ![regLoadThread].aborted = TRUE] ELSE loader
          /\ regLoadThread' = NoLoader
          /\ Return(TRUE)
  /\ UNCHANGED <<form, pkg, workKey, regLoaded, joined, view, work, elevated>>

ThreadedRegLoadStop ==
  \/ StopBegin("stop", "join") \/ StopBegin("stop3s", "alive3s")
  \/ StopReads("join", "joining") \/ StopReads("alive3s", "joining3s")
  \/ StopJoined \/ StopJoined3s \/ StopAbort
-----------------------------------------------------------------------------
(* A step that only moves the UI thread.                                   *)
Control == UNCHANGED <<form, pkg, reg, loader, joined, view, work, elevated>>

(* PackageOpen: close what is open, open the file, show it.                *)
OpenBegins ==
  /\ At("open")
  /\ IF opened THEN Call("close", "open2") ELSE Goto("openPkg")
  /\ Control

OpenAfterClose ==
  /\ At("open2")
  /\ IF ret THEN Goto("openPkg") ELSE Return(FALSE)
  /\ Control

OpenFails ==
  /\ At("openPkg")
  /\ Return(FALSE)
  /\ Control

(* virtPackage.Open succeeded, up to the call of ThreadedRegLoadStop(-1).  *)
(* OnPackageOpen fills the controls, which sets dirty, and clears it.      *)
OpenSucceeds ==
  /\ At("openPkg") /\ session < MaxSessions
  /\ opened' = TRUE /\ named' = TRUE /\ session' = session + 1
  /\ regLoaded' = FALSE
  /\ dirty' = [dirty EXCEPT !["main"] = FALSE, !["fs"] = FALSE]
  /\ unsaved' = {}
  /\ tree' = [tree EXCEPT !.fs = TRUE]
  /\ timer' = TRUE /\ regUI' = FALSE
  /\ Call("stop", "opened")
  /\ UNCHANGED <<form, workKey, regLoadThread, loader, joined, tab, controls, elevated>>

OpenShows ==
  /\ At("opened")
  /\ tab' = "general" /\ controls' = TRUE
  /\ Return(TRUE)
  /\ UNCHANGED <<form, pkg, reg, loader, joined, timer, regUI, tree, work, elevated>>

PackageOpen ==
  OpenBegins \/ OpenAfterClose \/ OpenFails \/ OpenSucceeds \/ OpenShows

-----------------------------------------------------------------------------
(* PackageClose(disableControls).  Only saveToolStripMenuItem_Click, whose *)
(* next step is "reopen", asks it to leave the controls enabled.           *)
CloseBegins ==
  /\ At("close")
  /\ IF ~opened THEN Return(TRUE)
     ELSE Goto(IF AnyDirty THEN "ask" ELSE "stopThenShut")
  /\ Control

CloseAnswerYes ==
  /\ At("ask")
  /\ Call("save", "asked")
  /\ Control

(* The user gives the edits up: nothing is reset, the handler goes on.     *)
CloseAnswerNo ==
  /\ At("ask")
  /\ unsaved' = {}
  /\ Goto("stopThenShut")
  /\ UNCHANGED <<form, pkg, reg, loader, joined, view, dirty, elevated>>

CloseUnchecked ==  \* faulty variant: trusts the save it asked for
  /\ At("asked")
  /\ Goto("stopThenShut")
  /\ Control

CloseAfterSave ==
  /\ At("asked")
  /\ IF AnyDirty THEN Return(FALSE) ELSE Goto("stopThenShut")
  /\ Control

CloseStopsLoader ==
  /\ At("stopThenShut")
  /\ Call("stop3s", "shut")
  /\ Control

CloseKeepsKey ==  \* faulty variant: the work key is closed but not set to null
  /\ At("shut")
  /\ dirty' = [dirty EXCEPT !["main"] = TRUE]
  /\ tree' = [fs |-> FALSE, reg |-> FALSE]
  /\ opened' = FALSE /\ named' = (named /\ ~opened)
  /\ controls' = (controls /\ Len(ui) > 1 /\ ui[2] = "reopen")
  /\ Return(TRUE)
  /\ UNCHANGED <<form, session, reg, loader, joined, timer, regUI, tab, unsaved, elevated>>

(* Three OnPackageClose calls and virtPackage.Close.  Emptying the text    *)
(* boxes raises TextChanged, whose handler PropertyChange sets dirty.      *)
CloseShuts ==
  /\ At("shut")
  /\ dirty' = [dirty EXCEPT !["main"] = TRUE]
  /\ tree' = [fs |-> FALSE, reg |-> FALSE]
  /\ workKey' = NoKey
  /\ opened' = FALSE /\ named' = (named /\ ~opened) /\ UNCHANGED session
  /\ controls' = (controls /\ Len(ui) > 1 /\ ui[2] = "reopen")
  /\ Return(TRUE)
  /\ UNCHANGED <<form, regLoaded, regLoadThread, loader, joined, timer, regUI, tab,
                 unsaved, elevated>>

PackageClose ==
  \/ CloseBegins \/ CloseAnswerYes \/ CloseAnswerNo \/ CloseAfterSave
  \/ CloseStopsLoader \/ CloseShuts

-----------------------------------------------------------------------------
(* PackageSave succeeds only through an open handle; its failure, at any   *)
(* of its four steps or before them, leaves every dirty flag as it was.    *)
PackageSave ==
  /\ opened
  /\ dirty' = AllClean /\ unsaved' = {}

SaveFails ==
  /\ (At("save") /\ named) \/ At("saveas")
  /\ Return(FALSE)
  /\ Control

(* A package without a file name is saved as; "save as" does not reopen.   *)
SaveNeedsName ==
  /\ At("save") /\ ~named
  /\ Goto("saveas")
  /\ Control

SaveAs ==
  /\ At("saveas")
  /\ PackageSave
  /\ named' = TRUE
  /\ Return(TRUE)
  /\ UNCHANGED <<form, opened, session, reg, loader, joined, view, elevated>>

(* saveToolStripMenuItem_Click: save, stop the loader, close, open again.  *)
SaveSucceeds ==
  /\ At("save") /\ named
  /\ PackageSave
  /\ Call("stop", "saved")
  /\ UNCHANGED <<form, pkg, reg, loader, joined, view, elevated>>

SaveCloses ==
  /\ At("saved")
  /\ Call("close", "reopen")
  /\ Control

SaveReopens ==
  /\ At("reopen")
  /\ Call("open", "reopened")
  /\ Control

SaveReopened ==
  /\ At("reopened")
  /\ IF ret THEN Return(TRUE) ELSE Call("close", "giveup")
  /\ Control

SaveGivesUp ==
  /\ At("giveup")
  /\ opened' = FALSE
  /\ Return(FALSE)
  /\ UNCHANGED <<form, session, named, reg, loader, joined, view, work, elevated>>

Save ==
  \/ SaveFails \/ SaveNeedsName \/ SaveAs \/ SaveSucceeds \/ SaveCloses
  \/ SaveReopens \/ SaveReopened \/ SaveGivesUp

-----------------------------------------------------------------------------
(* newToolStripMenuItem_Click.                                             *)
NewCloses ==
  /\ At("new")
  /\ Call("close", "create")
  /\ Control

NewFails ==
  /\ At("create")
  /\ Return(FALSE)
  /\ Control

(* virtPackage.Create and the two OnPackageOpen that follow it; checking   *)
(* the radio buttons afterwards may raise PropertyChange.                  *)
NewCreates ==
  /\ At("create") /\ ret /\ session < MaxSessions
  /\ opened' = TRUE /\ session' = session + 1 /\ UNCHANGED named
  /\ \E changed \in BOOLEAN :
       dirty' = [dirty EXCEPT !["main"] = changed, !["fs"] = FALSE]
  /\ unsaved' = {}
  /\ tree' = [tree EXCEPT !.fs = TRUE]
  /\ tab' = "general" /\ controls' = TRUE
  /\ Goto("newload")
  /\ UNCHANGED <<form, reg, loader, joined, timer, regUI, elevated>>

(* OnPackageOpenBeforeUI on the UI thread, then a tick called by hand.     *)
NewLoads ==
  /\ At("newload")
  /\ workKey' \in {KeyOfHandle, NoKey}
  /\ regLoaded' = TRUE
  /\ OnPackageOpenUI
  /\ regUI' = TRUE /\ timer' = FALSE
  /\ Return(TRUE)
  /\ UNCHANGED <<form, pkg, regLoadThread, loader, joined, tab, controls, unsaved,
                 elevated>>

New == NewCloses \/ NewFails \/ NewCreates \/ NewLoads
-----------------------------------------------------------------------------
(* Leaving the editor: File/Exit closes the package and then the window;   *)
(* closing the window closes the package (again) and stops the loader.     *)
ExitCloses ==
  /\ At("exit")
  /\ IF ret THEN Goto("formClosing") ELSE Return(FALSE)
  /\ Control

FormClosing ==
  /\ At("formClosing")
  /\ Call("close", "closing")
  /\ Control

FormClosed ==
  /\ At("closing")
  /\ IF ret THEN form' = "closed" /\ Call("stop3s", "gone")
            ELSE Return(FALSE) /\ UNCHANGED form
  /\ UNCHANGED <<pkg, reg, loader, joined, view, work, elevated>>

FormGone ==
  /\ At("gone")
  /\ Return(FALSE)
  /\ Control

(* RequireElevation, called before the registry is changed.                *)
ElevateDecides ==
  /\ At("elevate")
  /\ \/ elevated /\ Return(TRUE)
     \/ ~elevated /\ Return(FALSE)
     \/ ~elevated /\ ~dirty["main"] /\ Call("close", "launch")
  /\ Control

(* closeToolStripMenuItem_Click drops the result of PackageClose; then     *)
(* ShellExec starts the elevated copy on the same file.                    *)
ElevateLaunches ==
  /\ At("launch")
  /\ Return(FALSE) \/ Goto("launched")
  /\ Control

ElevateExits ==
  /\ At("launched")
  /\ Call("close", "exit")
  /\ Control

Leave ==
  \/ ExitCloses \/ FormClosing \/ FormClosed \/ FormGone
  \/ ElevateDecides \/ ElevateLaunches \/ ElevateExits

-----------------------------------------------------------------------------
(* Edits.  A part is edited through controls that show it.                 *)

Edited(p) ==
  /\ dirty' = [dirty EXCEPT ![p] = TRUE]
  /\ unsaved' = IF opened THEN unsaved \cup {p} ELSE unsaved

(* The property handlers that set dirty (PropertyChange, IsolationChanged, *)
(* the dialogs that report a change); the edits of FileSystemEditor;       *)
(* OnFolderSandboxChange on a node of the registry tree.  Controls with no *)
(* such handler, and the auto-update wizard, change the package unflagged: *)
(* they are not edits of this model.                                       *)
Edit(p) ==
  /\ Idle /\ controls
  /\ CASE p = "main" -> tab = "general"
       [] p = "fs"   -> tree.fs
       [] p = "reg"  -> tree.reg /\ regUI /\ tab = "registry"
  /\ Edited(p)
  /\ UNCHANGED <<ui, ret, form, pkg, reg, loader, joined, view, elevated>>

RegChangeThenReload ==  \* faulty variant: sets dirty before OnPackageOpenUI clears it
  /\ At("regChange") /\ ret /\ workKey # NoKey
  /\ unsaved' = unsaved \cup {"reg"}
  /\ OnPackageOpenUI
  /\ Return(TRUE)
  /\ UNCHANGED <<form, pkg, reg, loader, joined, timer, regUI, tab, controls, elevated>>

(* The user confirms; OnRemoveBtnClick, OnEditClick and RegFileImport      *)
(* change the work key and save it into the package.                       *)
RegChange ==
  /\ At("regChange") /\ ret /\ workKey # NoKey
  /\ Edited("reg")
  /\ tree' = [tree EXCEPT !.reg = TRUE]
  /\ Return(TRUE)
  /\ UNCHANGED <<form, pkg, reg, loader, joined, timer, regUI, tab, controls, elevated>>

RegChangeCancelled ==
  /\ At("regChange")
  /\ Return(FALSE)
  /\ Control

(* Importing without a work key: a .reg file with a supported key          *)
(* dereferences null, one without leaves an empty tree and a dirty flag.   *)
ImportWithoutKey ==
  /\ (At("regChange") /\ ret) \/ At("dropReg")
  /\ workKey = NoKey
  /\ \/ /\ Throw
        /\ UNCHANGED <<tree, dirty>>
     \/ /\ tree' = [tree EXCEPT !.reg = TRUE]
        /\ dirty' = [dirty EXCEPT !["reg"] = TRUE]
        /\ Return(TRUE)
  /\ UNCHANGED <<form, pkg, reg, loader, joined, timer, regUI, tab, controls, unsaved,
                 elevated>>

(* A .reg file dropped on the tab is imported without asking anything.     *)
DropReg ==
  /\ At("dropReg") /\ workKey # NoKey
  /\ tree' = [tree EXCEPT !.reg = TRUE]
  /\ Edited("reg")
  /\ Return(TRUE)
  /\ UNCHANGED <<form, pkg, reg, loader, joined, timer, regUI, tab, controls, elevated>>

(* exportXml: a missing registry is loaded on the UI thread by calling     *)
(* ThreadedRegLoad, the body of the loader thread, whose stores a loader   *)
(* at work on the same fields may run between.                             *)
ExportXml ==
  /\ At("export")
  /\ \/ Return(TRUE) /\ UNCHANGED workKey
     \/ /\ workKey = NoKey
        /\ workKey' \in {KeyOfHandle, NoKey}
        /\ Goto("exportGot")
  /\ UNCHANGED <<form, pkg, regLoaded, regLoadThread, loader, joined, view, work, elevated>>

ExportSetsLoaded ==
  /\ At("exportGot")
  /\ regLoaded' = TRUE
  /\ Goto("exportLoaded")
  /\ UNCHANGED <<form, pkg, workKey, regLoadThread, loader, joined, view, work, elevated>>

ExportClearsThread ==
  /\ At("exportLoaded")
  /\ regLoadThread' = NoLoader
  /\ Return(TRUE)
  /\ UNCHANGED <<form, pkg, workKey, regLoaded, loader, joined, view, work, elevated>>

Export == ExportXml \/ ExportSetsLoaded \/ ExportClearsThread

(* CloseAndReopen_Before: close the file, unless there are edits.          *)
SwapBefore ==
  /\ At("swap")
  /\ IF AnyDirty
     THEN Return(FALSE) /\ UNCHANGED <<opened, named>>
     ELSE /\ Goto(IF named THEN "swapNamed" ELSE "swapUnnamed")
          /\ opened' = FALSE /\ named' = FALSE
  /\ UNCHANGED <<form, session, reg, loader, joined, view, work, elevated>>

(* CloseAndReopn_After: nothing but virtPackage.Open, whose result is      *)
(* dropped; a package without a file cannot be opened again.               *)
SwapAfter ==
  /\ At("swapNamed") \/ At("swapUnnamed")
  /\ \/ UNCHANGED pkg
     \/ /\ At("swapNamed") /\ session < MaxSessions
        /\ opened' = TRUE /\ named' = TRUE /\ session' = session + 1
  /\ Return(TRUE)
  /\ UNCHANGED <<form, reg, loader, joined, view, work, elevated>>

Continue ==
  /\ At("fault")
  /\ Return(FALSE)
  /\ Control

RegistryOps ==
  \/ RegChange \/ RegChangeCancelled \/ ImportWithoutKey \/ DropReg \/ Export
  \/ SwapBefore \/ SwapAfter \/ Continue

-----------------------------------------------------------------------------
(* tabControl_SelectedIndexChanged.  The registry tab without a key looks  *)
(* for a loader; a free slot bounds the live ones.                         *)
SelectTab(t) ==
  /\ Idle /\ controls /\ tab # t
  /\ tab' = t
  /\ ui' = IF t = "registry" /\ workKey = NoKey THEN <<"select">> ELSE ui
  /\ UNCHANGED <<ret, form, pkg, reg, loader, joined, timer, regUI, controls, tree, work,
                 elevated>>

StartsLoader ==
  \E l \in Loaders :
    /\ ~Alive(l)
    /\ loader' = [loader EXCEPT ![l] = [Dead EXCEPT !.at = "start"]]
    /\ regLoadThread' = l

SelectReads ==
  /\ At("select")
  /\ IF regLoadThread = NoLoader
     THEN StartsLoader /\ Return(TRUE)
     ELSE Goto("selectAlive") /\ UNCHANGED <<loader, regLoadThread>>
  /\ UNCHANGED <<form, pkg, workKey, regLoaded, joined, view, work, elevated>>

(* regLoadThread.IsAlive reads the field again, as in StopReads.           *)
SelectReadsAgain ==
  /\ At("selectAlive")
  /\ \/ /\ regLoadThread # NoLoader => ~Alive(regLoadThread)
        /\ StartsLoader
        /\ Return(TRUE)
     \/ /\ regLoadThread # NoLoader => Alive(regLoadThread)
        /\ Return(TRUE)
        /\ UNCHANGED <<loader, regLoadThread>>
     \/ /\ regLoadThread = NoLoader
        /\ Throw
        /\ UNCHANGED <<loader, regLoadThread>>
  /\ UNCHANGED <<form, pkg, workKey, regLoaded, joined, view, work, elevated>>

Select == SelectReads \/ SelectReadsAgain

(* What the user starts from the message loop.                             *)
UserStarts ==
  /\ \/ Start(<<"open">>) \/ Start(<<"new">>) \/ Start(<<"formClosing">>)
     \/ Start(<<"close", "exit">>)
     \/ controls /\ (Start(<<"save">>) \/ Start(<<"saveas">>) \/ Start(<<"close">>))
     \/ /\ controls /\ tab = "registry" /\ regUI
        /\ Start(<<"elevate", "regChange">>)
     \/ "drop" \in ExtraOps /\ controls /\ tab = "registry" /\ Start(<<"dropReg">>)
     \/ "export" \in ExtraOps /\ controls /\ Start(<<"export">>)
     \/ "swap" \in ExtraOps /\ Start(<<"swap">>)
  /\ Control

(* The process ends when the window is gone and every loader has ended.    *)
Terminated ==
  /\ form = "closed" /\ ui = <<>> /\ \A l \in Loaders : ~Alive(l)
  /\ UNCHANGED vars

UIStep ==
  \/ ThreadedRegLoadStop \/ PackageOpen \/ PackageClose \/ Save \/ New \/ Leave
  \/ RegistryOps \/ Select

Next ==
  \/ \E l \in Loaders : Loader(l)
  \/ regProgressTimer_Tick
  \/ UIStep
  \/ \E p \in EditParts : Edit(p)
  \/ \E t \in {"general", "registry"} : SelectTab(t)
  \/ UserStarts
  \/ Terminated

(* Threads are scheduled; a due WM_TIMER is delivered whenever the message *)
(* queue runs empty, which no user prevents for ever (hence SF).  The user *)
(* is never obliged to answer a dialog or to start an operation.           *)
Fairness ==
  /\ \A l \in Loaders : WF_vars(Loader(l))
  /\ SF_vars(regProgressTimer_Tick)
  /\ WF_vars(UIStep /\ ~AwaitsUser)

Spec == Init /\ [][Next]_vars /\ Fairness

-----------------------------------------------------------------------------
(* An edit a handler once flagged, and the user neither saved nor gave up, *)
(* is still flagged, or PackageClose would not ask about it: no failed     *)
(* save, engine swap or reopening in between clears the flag, and no tick  *)
(* as long as no .reg file is dropped.  With the drop among the operations *)
(* it does not hold: the tick that shows the registry, OnPackageOpenUI,    *)
(* also clears the flag of what was dropped before it.                     *)
UnsavedWorkIsFlagged == opened => \A p \in unsaved : dirty[p]

(* No handler ever closes a package over edits the user did not give up:   *)
(* not after a failed save, a reopening or an engine swap; the drop of a   *)
(* .reg file is excepted here too.                                         *)
NoSilentDiscard == [][opened /\ ~opened' => unsaved = {}]_vars

(* The registry work key the editor shows and edits is that of the package *)
(* that is open, never one left from a package that was closed.            *)
KeyOfOpenPackage == workKey # NoKey => opened /\ workKey = session

(* A loader that can still write the shared fields is the one              *)
(* regLoadThread names, so that whoever closes the package waits for it.   *)
SoleLoader ==
  \A l \in Loaders :
    Alive(l) /\ ~loader[l].aborted /\ loader[l].at # "exit" => regLoadThread = l

(* A registry load started for the open package is shown when it is over,  *)
(* whether it found a key or not, unless the package is closed first.      *)
RegistryShown ==
  (opened /\ \E l \in Loaders : LoaderAt(l, "native") /\ loader[l].key = session)
    ~> (regUI \/ ~opened)

(* The UI thread never hangs: a handler returns or asks the user.          *)
UIReturns == (ui # <<>>) ~> (ui = <<>> \/ AwaitsUser)

(* "If regLoadThread is working, wait for it to finish" (PackageClose): no *)
(* loader still works for the package when its handle is given up.         *)
LoaderFinishedBeforeClose ==
  At("shut") => \A l \in Loaders : ~(LoaderAt(l, "native") /\ loader[l].key = session)
=============================================================================

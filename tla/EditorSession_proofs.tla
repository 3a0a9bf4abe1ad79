------------------------- MODULE EditorSession_proofs -------------------------
(***************************************************************************)
(* Proofs about EditorSession, for any loaders and any number of sessions. *)
(*                                                                         *)
(* 1. The loaders (without the export): a loader that can still write the  *)
(*    shared fields is the one regLoadThread names.  The UI thread forgets *)
(*    a loader in three places only.  It aborts it first, or finds it      *)
(*    dead, or has joined it; and nobody starts another one while the UI   *)
(*    thread sits in Join.                                                 *)
(* 2. The types.                                                           *)
(* 3. The session: the work key is that of the open package, unsaved work  *)
(*    stays flagged, and no package is closed over it.  None of it is      *)
(*    inductive by itself: what the fields hold depends on the step the UI *)
(*    thread is at and on the one it returns to.  The invariant relates    *)
(*    the two top steps of the stack to the fields, so that a call and a   *)
(*    return are each reasoned about once.                                 *)
(***************************************************************************)
EXTENDS EditorSession, TLAPS, SequenceTheorems

\* exportXml calls the loader's body on the UI thread, and clears the field
\* under a loader that is still at work.
NoExport == "export" \notin ExtraOps

ExportSteps == {"export", "exportGot", "exportLoaded"}
Plain == Frames \ (ExportSteps \cup {"joining"})

USE DEF ExportSteps

\* Join is on top of the stack or nowhere: it calls nothing.
Stack(s) ==
  /\ s \in Seq(Frames)
  /\ \A n \in 1 .. Len(s) : s[n] \notin ExportSteps /\ (n > 1 => s[n] # "joining")

\* The UI thread goes on, to a step that is not Join.
Moves ==
  /\ ui # <<>>
  /\ \/ \E f \in Plain : Goto(f)
     \/ \E f, k \in Plain : Call(f, k)
     \/ \E v : Return(v)
     \/ Throw

Works(l) == Alive(l) /\ ~loader[l].aborted /\ loader[l].at # "exit"

LoaderInv ==
  /\ loader \in [Loaders -> [at : LoaderSteps \cup {"dead"}, key : Nat, aborted : BOOLEAN]]
  /\ session \in Nat
  /\ regLoadThread \in Loaders \cup {NoLoader}
  /\ \A l \in Loaders : Works(l) => regLoadThread = l
  /\ At("joining") => regLoadThread \in {joined, NoLoader}
  /\ Stack(ui)

\* The next step replaces the one on top.
LEMMA GotoStack ==
  ASSUME Stack(ui), ui # <<>>, NEW f \in Plain \cup {"joining"}, Goto(f)
  PROVE  Stack(ui)' /\ Head(ui') = f
<1>1. /\ Tail(ui) \in Seq(Frames) /\ Len(Tail(ui)) \in Nat
      /\ \A n \in 1 .. Len(Tail(ui)) : Tail(ui)[n] \in Plain
  BY DEF Stack, Plain
<1>2. <<f>> \in Seq(Frames) /\ Len(<<f>>) = 1 /\ <<f>>[1] = f
  BY DEF Plain, Frames
<1>3. /\ ui' \in Seq(Frames) /\ Len(ui') = 1 + Len(Tail(ui))
      /\ \A n \in 1 .. 1 + Len(Tail(ui)) : ui'[n] = IF n <= 1 THEN <<f>>[n] ELSE Tail(ui)[n - 1]
  BY <1>1, <1>2, ConcatProperties DEF Goto
<1>4. ui'[1] = f /\ \A n \in 1 .. Len(ui') : n > 1 => ui'[n] \in Plain
  BY <1>1, <1>2, <1>3
<1> QED BY <1>3, <1>4 DEF Stack, Plain

\* A stack of plain steps on top of the rest of the old one.
LEMMA MovesStack ==
  ASSUME Stack(ui), Moves
  PROVE  Stack(ui)' /\ ~At("joining")'
<1>1. /\ Tail(ui) \in Seq(Frames) /\ Len(Tail(ui)) \in Nat
      /\ \A n \in 1 .. Len(Tail(ui)) : Tail(ui)[n] \in Plain
  BY DEF Stack, Moves, Plain
<1>2. ASSUME NEW f \in Plain, ui' = <<f>> \o Tail(ui) PROVE Stack(ui)' /\ ~At("joining")'
  <2>1. <<f>> \in Seq(Frames) /\ Len(<<f>>) = 1 /\ <<f>>[1] = f
    BY DEF Plain
  <2>2. /\ ui' \in Seq(Frames) /\ Len(ui') = 1 + Len(Tail(ui))
        /\ \A n \in 1 .. 1 + Len(Tail(ui)) : ui'[n] = IF n <= 1 THEN <<f>>[n] ELSE Tail(ui)[n - 1]
    BY <1>1, <1>2, <2>1, ConcatProperties
  <2>3. ASSUME NEW n \in 1 .. Len(ui') PROVE ui'[n] \in Plain
    <3>1. CASE n <= 1
      <4>1. n = 1
        BY <3>1
      <4> QED BY <4>1, <2>1, <2>2
    <3>2. CASE ~(n <= 1)
      <4>1. n - 1 \in 1 .. Len(Tail(ui))
        BY <1>1, <2>2, <3>2
      <4> QED BY <1>1, <2>2, <3>2, <4>1
    <3> QED BY <3>1, <3>2
  <2> QED BY <2>2, <2>3 DEF Stack, At, Plain
<1>3. CASE \E f \in Plain : Goto(f)
  BY <1>2, <1>3 DEF Goto
<1>4. ASSUME NEW f \in Plain, NEW k \in Plain, ui' = <<f, k>> \o Tail(ui)
      PROVE  Stack(ui)' /\ ~At("joining")'
  <2>1. <<f, k>> \in Seq(Frames) /\ Len(<<f, k>>) = 2 /\ <<f, k>>[1] = f /\ <<f, k>>[2] = k
    BY DEF Plain
  <2>2. /\ ui' \in Seq(Frames) /\ Len(ui') = 2 + Len(Tail(ui))
        /\ \A n \in 1 .. 2 + Len(Tail(ui)) : ui'[n] = IF n <= 2 THEN <<f, k>>[n] ELSE Tail(ui)[n - 2]
    BY <1>1, <1>4, <2>1, ConcatProperties
  <2>3. ASSUME NEW n \in 1 .. Len(ui') PROVE ui'[n] \in Plain
    <3>1. CASE n \in {1, 2}
      BY <2>1, <2>2, <3>1
    <3>2. CASE n \notin {1, 2}
      <4>1. n - 2 \in 1 .. Len(Tail(ui)) /\ ~(n <= 2)
        BY <1>1, <2>2, <3>2
      <4> QED BY <1>1, <2>2, <4>1
    <3> QED BY <3>1, <3>2
  <2> QED BY <2>2, <2>3 DEF Stack, At, Plain
<1>5. CASE \E f, k \in Plain : Call(f, k)
  BY <1>4, <1>5 DEF Call
<1>6. CASE \E v : Return(v)
  BY <1>1, <1>6 DEF Return, Stack, At, Plain
<1>7. CASE Throw
  BY <1>7 DEF Throw, Stack, At, Frames
<1> QED BY <1>3, <1>5, <1>6, <1>7 DEF Moves

\* A step that leaves the loaders and their field alone.
LEMMA MovesKeepLoaderInv ==
  ASSUME LoaderInv, Moves, UNCHANGED <<loader, regLoadThread>>, session' \in Nat
  PROVE  LoaderInv'
BY MovesStack DEF LoaderInv, Works, Alive

\* One loader is started while none works.
LEMMA StartsOne ==
  ASSUME LoaderInv, \A k \in Loaders : ~Works(k), StartsLoader,
         session' = session, Stack(ui)', ~At("joining")'
  PROVE  LoaderInv'
<1> USE DEF Works, Alive
<1>1. PICK l \in Loaders : /\ regLoadThread' = l
                           /\ loader' = [loader EXCEPT ![l] = [Dead EXCEPT !.at = "start"]]
  BY DEF StartsLoader
<1>2. loader' \in [Loaders -> [at : LoaderSteps \cup {"dead"}, key : Nat, aborted : BOOLEAN]]
  BY <1>1 DEF LoaderInv, Dead, NoKey, LoaderSteps
<1>3. \A k \in Loaders : Works(k)' => k = l
  BY <1>1 DEF LoaderInv
<1> QED BY <1>1, <1>2, <1>3 DEF LoaderInv

\* The registry tab looks for a loader, and starts one when it finds none.
LEMMA SelectKeepsLoaderInv ==
  ASSUME LoaderInv, Select
  PROVE  LoaderInv'
<1> USE DEF At, Moves, Plain, Frames, pkg, reg
<1>1. Moves /\ session' = session /\ session \in Nat
  BY DEF Select, SelectReads, SelectReadsAgain, LoaderInv
<1>2. Stack(ui)' /\ ~At("joining")'
  BY <1>1, MovesStack DEF LoaderInv
<1>3. CASE UNCHANGED <<loader, regLoadThread>>
  BY <1>1, <1>3, MovesKeepLoaderInv
<1>4. CASE StartsLoader /\ (regLoadThread # NoLoader => ~Alive(regLoadThread))
  <2>1. \A k \in Loaders : ~Works(k)
    BY <1>4, EditorAssumption DEF LoaderInv, Works
  <2> HIDE DEF At
  <2> QED BY <1>1, <1>2, <1>4, <2>1, StartsOne
<1> QED BY <1>3, <1>4 DEF Select, SelectReads, SelectReadsAgain

\* The steps of the UI thread that have nothing to do with the loaders.
LEMMA HandlersKeepLoaderInv ==
  ASSUME LoaderInv,
         \/ PackageOpen \/ PackageClose \/ Save \/ New \/ Leave
         \/ RegChange \/ RegChangeCancelled \/ ImportWithoutKey \/ DropReg
         \/ SwapBefore \/ SwapAfter \/ Continue
  PROVE  LoaderInv'
<1> USE DEF At, Moves, Plain, Frames, Control, pkg, reg
<1>n. session \in Nat
  BY DEF LoaderInv
<1>1. CASE PackageOpen
  <2>1. CASE OpenBegins \/ OpenAfterClose \/ OpenFails
    <3>1. Moves /\ UNCHANGED <<loader, regLoadThread, session>>
      BY <2>1 DEF OpenBegins, OpenAfterClose, OpenFails
    <3> QED BY <1>n, <3>1, MovesKeepLoaderInv
  <2>2. CASE OpenSucceeds
    <3>1. Moves /\ UNCHANGED <<loader, regLoadThread>> /\ session' = session + 1
      BY <2>2 DEF OpenSucceeds
    <3> QED BY <1>n, <3>1, MovesKeepLoaderInv
  <2>3. CASE OpenShows
    <3>1. Moves /\ UNCHANGED <<loader, regLoadThread, session>>
      BY <2>3 DEF OpenShows
    <3> QED BY <1>n, <3>1, MovesKeepLoaderInv
  <2> QED BY <1>1, <2>1, <2>2, <2>3 DEF PackageOpen
<1>2. CASE PackageClose
  <2>1. Moves /\ UNCHANGED <<loader, regLoadThread, session>>
    BY <1>2 DEF PackageClose, CloseBegins, CloseAnswerYes, CloseAnswerNo, CloseAfterSave,
         CloseStopsLoader, CloseShuts
  <2> QED BY <1>n, <2>1, MovesKeepLoaderInv
<1>3. CASE Save
  <2>1. Moves /\ UNCHANGED <<loader, regLoadThread, session>>
    BY <1>3 DEF Save, SaveFails, SaveNeedsName, SaveAs, SaveSucceeds, SaveCloses,
         SaveReopens, SaveReopened, SaveGivesUp
  <2> QED BY <1>n, <2>1, MovesKeepLoaderInv
<1>4. CASE New
  <2>1. Moves /\ UNCHANGED <<loader, regLoadThread>> /\ session' \in {session, session + 1}
    BY <1>4 DEF New, NewCloses, NewFails, NewCreates, NewLoads
  <2> QED BY <1>n, <2>1, MovesKeepLoaderInv
<1>5. CASE Leave
  <2>1. Moves /\ UNCHANGED <<loader, regLoadThread, session>>
    BY <1>5 DEF Leave, ExitCloses, FormClosing, FormClosed, FormGone, ElevateDecides,
         ElevateLaunches, ElevateExits
  <2> QED BY <1>n, <2>1, MovesKeepLoaderInv
<1>6. CASE RegChange \/ RegChangeCancelled \/ ImportWithoutKey \/ DropReg
  <2>1. Moves /\ UNCHANGED <<loader, regLoadThread, session>>
    BY <1>6 DEF RegChange, RegChangeCancelled, ImportWithoutKey, DropReg
  <2> QED BY <1>n, <2>1, MovesKeepLoaderInv
<1>7. CASE SwapBefore \/ SwapAfter \/ Continue
  <2>1. Moves /\ UNCHANGED <<loader, regLoadThread>> /\ session' \in {session, session + 1}
    BY <1>7 DEF SwapBefore, SwapAfter, Continue
  <2> QED BY <1>n, <2>1, MovesKeepLoaderInv
<1> QED BY <1>1, <1>2, <1>3, <1>4, <1>5, <1>6, <1>7

\* Waiting for the loader: it is forgotten when it works no more.
LEMMA StopKeepsLoaderInv ==
  ASSUME LoaderInv, ThreadedRegLoadStop
  PROVE  LoaderInv'
<1> USE DEF At, Moves, Plain, Frames, pkg, reg, Works, Alive
<1>1. ASSUME NEW f, NEW next \in Plain, StopBegin(f, next) PROVE LoaderInv'
  <2>1. Moves /\ UNCHANGED <<loader, regLoadThread, session>>
    BY <1>1 DEF StopBegin
  <2> QED BY <2>1, MovesKeepLoaderInv DEF LoaderInv
<1>2. ASSUME NEW f, NEW next, StopReads(f, next), ~(regLoadThread # NoLoader /\ Alive(regLoadThread))
      PROVE  LoaderInv'
  <2>1. Moves /\ regLoadThread' = NoLoader /\ UNCHANGED <<loader, session>>
    BY <1>2 DEF StopReads
  <2>2. \A l \in Loaders : ~Works(l)
    BY <1>2, EditorAssumption DEF LoaderInv
  <2> QED BY <2>1, <2>2, MovesStack DEF LoaderInv
<1>3. ASSUME NEW f, NEW next \in Plain \cup {"joining"}, StopReads(f, next),
             regLoadThread # NoLoader /\ Alive(regLoadThread)
      PROVE  LoaderInv'
  <2>1. /\ UNCHANGED <<loader, regLoadThread, session>> /\ joined' = regLoadThread
        /\ Goto(next) /\ ui # <<>>
    BY <1>3 DEF StopReads
  <2>2. Stack(ui)'
    BY <2>1, GotoStack DEF LoaderInv
  <2> QED BY <2>1, <2>2 DEF LoaderInv
<1>4. CASE StopJoined
  <2>1. Moves /\ regLoadThread' = NoLoader /\ UNCHANGED <<loader, session>>
    BY <1>4 DEF StopJoined
  <2>2. \A l \in Loaders : ~Works(l)
    BY <1>4, EditorAssumption DEF StopJoined, LoaderInv
  <2> QED BY <2>1, <2>2, MovesStack DEF LoaderInv
<1>5. CASE StopJoined3s
  <2>1. Moves /\ UNCHANGED <<loader, regLoadThread, session>>
    BY <1>5 DEF StopJoined3s
  <2> QED BY <2>1, MovesKeepLoaderInv DEF LoaderInv
<1>6. CASE StopAbort
  <2>1. CASE regLoadThread = NoLoader
    <3>1. Moves /\ UNCHANGED <<loader, regLoadThread, session>>
      BY <1>6, <2>1 DEF StopAbort
    <3> QED BY <3>1, MovesKeepLoaderInv DEF LoaderInv
  <2>2. CASE regLoadThread # NoLoader
    <3>1. /\ Moves /\ regLoadThread' = NoLoader /\ session' = session
          /\ loader' = IF Alive(regLoadThread)
                       THEN [loader EXCEPT ![regLoadThread].aborted = TRUE] ELSE loader
      BY <1>6, <2>2 DEF StopAbort
    <3>2. /\ \A l \in Loaders : ~Works(l)'
          /\ loader' \in [Loaders -> [at : LoaderSteps \cup {"dead"}, key : Nat, aborted : BOOLEAN]]
      BY <2>2, <3>1 DEF LoaderInv
    <3> QED BY <3>1, <3>2, MovesStack DEF LoaderInv
  <2> QED BY <2>1, <2>2
<1> QED BY <1>1, <1>2, <1>3, <1>4, <1>5, <1>6 DEF ThreadedRegLoadStop

\* The loader's own steps: it clears the field on its way out.
LEMMA LoaderKeepsLoaderInv ==
  ASSUME LoaderInv, NEW l \in Loaders, Loader(l)
  PROVE  LoaderInv'
<1> USE DEF pkg, reg, Works, Alive, LoaderInv, LoaderAt, LoaderSteps, At
<1>1. UNCHANGED <<ui, joined, session>>
  BY DEF Loader, LoaderEnters, LoaderStoresKey, LoaderSetsLoaded, LoaderClearsThread,
       LoaderEnds
<1>2. Stack(ui)'
  BY <1>1 DEF Stack
<1>3. CASE LoaderEnters(l)
  <2>1. KeyOfHandle \in Nat
    BY DEF KeyOfHandle, NoKey
  <2> QED BY <1>1, <1>2, <1>3, <2>1 DEF LoaderEnters
<1>4. CASE LoaderStoresKey(l)
  BY <1>1, <1>2, <1>4 DEF LoaderStoresKey, Dead, NoKey
<1>5. CASE LoaderSetsLoaded(l)
  BY <1>1, <1>2, <1>5 DEF LoaderSetsLoaded
<1>6. CASE LoaderClearsThread(l)
  BY <1>1, <1>2, <1>6 DEF LoaderClearsThread
<1>7. CASE LoaderEnds(l)
  BY <1>1, <1>2, <1>7 DEF LoaderEnds, Dead, NoKey
<1> QED BY <1>3, <1>4, <1>5, <1>6, <1>7 DEF Loader

\* What the user does from the message loop; at most one loader is started.
LEMMA UserKeepsLoaderInv ==
  ASSUME NoExport, LoaderInv,
         \/ regProgressTimer_Tick \/ UserStarts \/ Terminated
         \/ \E p \in EditParts : Edit(p)
         \/ \E t \in {"general", "registry"} : SelectTab(t)
  PROVE  LoaderInv'
<1> USE DEF pkg, reg, Works, Alive, At
<1>1. CASE regProgressTimer_Tick \/ Terminated \/ \E p \in EditParts : Edit(p)
  <2>1. UNCHANGED <<ui, loader, regLoadThread, joined, session>>
    BY <1>1 DEF regProgressTimer_Tick, Terminated, Edit, vars
  <2> QED BY <2>1 DEF LoaderInv, Stack
<1>2. CASE UserStarts
  <2>1. UNCHANGED <<loader, regLoadThread, joined, session>>
    BY <1>2 DEF UserStarts, Control
  <2>2. \/ \E f \in Plain : ui' = <<f>>
        \/ \E f, k \in Plain : ui' = <<f, k>>
    BY <1>2 DEF UserStarts, Start, NoExport, Plain, Frames
  <2>3. Stack(ui)' /\ ~At("joining")'
    <3>1. ASSUME NEW f \in Plain, ui' = <<f>> PROVE Stack(ui)' /\ ~At("joining")'
      BY <3>1 DEF Stack, Plain
    <3>2. ASSUME NEW f \in Plain, NEW k \in Plain, ui' = <<f, k>>
          PROVE  Stack(ui)' /\ ~At("joining")'
      <4>1. /\ ui' \in Seq(Frames) /\ Len(ui') = 2 /\ ui'[1] = f /\ ui'[2] = k
            /\ Head(ui') = f
        BY <3>2 DEF Plain
      <4> QED BY <4>1 DEF Stack, Plain
    <3> QED BY <2>2, <3>1, <3>2
  <2> QED BY <2>1, <2>3 DEF LoaderInv
<1>3. ASSUME NEW t \in {"general", "registry"}, SelectTab(t) PROVE LoaderInv'
  <2>1. /\ UNCHANGED <<loader, regLoadThread, joined, session>>
        /\ UNCHANGED ui \/ ui' = <<"select">>
    BY <1>3 DEF SelectTab
  <2>2. CASE UNCHANGED ui
    BY <2>1, <2>2 DEF LoaderInv, Stack
  <2>3. CASE ui' = <<"select">>
    <3>1. ui' \in Seq(Frames) /\ Len(ui') = 1 /\ ui'[1] = "select" /\ Head(ui') = "select"
      BY <2>3 DEF Frames
    <3> QED BY <2>1, <3>1 DEF LoaderInv, Stack
  <2> QED BY <2>1, <2>2, <2>3
<1> QED BY <1>1, <1>2, <1>3

\* At every moment one loader at most works, and the field names it.
THEOREM LoaderInvariance == ASSUME NoExport PROVE Spec => []LoaderInv
<1>1. Init => LoaderInv
  <2> SUFFICES ASSUME Init PROVE LoaderInv
    OBVIOUS
  <2>1. /\ session = 0 /\ regLoadThread = NoLoader /\ loader = [l \in Loaders |-> Dead]
        /\ ui = <<>> \/ ui = <<"open">>
    BY DEF Init
  <2>2. Stack(ui) /\ ~At("joining")
    <3>1. CASE ui = <<>>
      BY <3>1 DEF Stack, At
    <3>2. CASE ui = <<"open">>
      <4>1. /\ ui \in Seq(Frames) /\ Len(ui) = 1 /\ ui[1] = "open" /\ Head(ui) = "open"
        BY <3>2 DEF Frames
      <4> QED BY <4>1 DEF Stack, At
    <3> QED BY <2>1, <3>1, <3>2
  <2> QED BY <2>1, <2>2 DEF LoaderInv, Works, Alive, Dead, NoKey, LoaderSteps
<1>2. LoaderInv /\ [Next]_vars => LoaderInv'
  <2> SUFFICES ASSUME LoaderInv, [Next]_vars PROVE LoaderInv'
    OBVIOUS
  <2>1. CASE \E l \in Loaders : Loader(l)
    BY <2>1, LoaderKeepsLoaderInv
  <2>2. CASE UIStep
    <3>1. ~Export
      <4>1. ui # <<>> => Head(ui) = ui[1] /\ 1 \in 1 .. Len(ui)
        BY DEF LoaderInv, Stack
      <4> QED BY <4>1 DEF Export, ExportXml, ExportSetsLoaded, ExportClearsThread,
                      At, LoaderInv, Stack
    <3> QED BY <2>2, <3>1, HandlersKeepLoaderInv, StopKeepsLoaderInv,
           SelectKeepsLoaderInv
         DEF UIStep, RegistryOps
  <2>3. CASE \/ regProgressTimer_Tick \/ UserStarts \/ Terminated
             \/ \E p \in EditParts : Edit(p)
             \/ \E t \in {"general", "registry"} : SelectTab(t)
    BY <2>3, NoExport, UserKeepsLoaderInv
  <2>4. CASE UNCHANGED vars
    BY <2>4 DEF vars, pkg, reg, LoaderInv, Works, Alive, At, Stack
  <2> QED BY <2>1, <2>2, <2>3, <2>4 DEF Next
<1> QED BY <1>1, <1>2, PTL DEF Spec

\* Whoever closes a package waits for the loader that can still write the
\* shared fields: regLoadThread names it, for any number of loader threads and
\* sessions (ThreadedRegLoadStop, tabControl_SelectedIndexChanged).
THEOREM LoaderIsNamed == ASSUME NoExport PROVE Spec => []SoleLoader
<1>1. LoaderInv => SoleLoader
  BY DEF LoaderInv, Works, SoleLoader
<1> QED BY LoaderInvariance, <1>1, PTL

-----------------------------------------------------------------------------
(* The types.                                                              *)

\* A step of the UI thread, whatever it is.
Turns ==
  /\ ui # <<>>
  /\ \/ \E f \in Frames : Goto(f)
     \/ \E f, k \in Frames : Call(f, k)
     \/ \E v \in BOOLEAN : Return(v)
     \/ Throw

Stacks == ui \in Seq(Frames) /\ ret \in BOOLEAN

Handles ==
  /\ opened \in BOOLEAN /\ session \in 0..MaxSessions /\ named \in BOOLEAN
  /\ workKey \in 0..MaxSessions /\ regLoaded \in BOOLEAN

Loads ==
  /\ regLoadThread \in Loaders \cup {NoLoader}
  /\ joined \in Loaders \cup {NoLoader}
  /\ loader \in [Loaders -> [at: LoaderSteps \cup {"dead"}, key: 0..MaxSessions,
                             aborted: BOOLEAN]]

Window ==
  /\ form \in {"open", "closed"} /\ elevated \in BOOLEAN
  /\ timer \in BOOLEAN /\ regUI \in BOOLEAN /\ controls \in BOOLEAN
  /\ tab \in {"general", "registry"} /\ tree \in [fs: BOOLEAN, reg: BOOLEAN]

Edits == dirty \in [Parts -> BOOLEAN] /\ unsaved \subseteq Parts

\* What TypeOK says of everything but the UI thread.
Fields == Handles /\ Loads /\ Window /\ Edits

\* A turn of the UI thread leaves a stack of steps and a Boolean result.
LEMMA Turned == ASSUME Stacks, Turns PROVE Stacks'
<1> USE DEF Stacks
<1>1. Tail(ui) \in Seq(Frames)
  BY DEF Turns
<1>2. CASE \E f \in Frames : Goto(f)
  <2>1. PICK f \in Frames : Goto(f)
    BY <1>2
  <2>2. <<f>> \in Seq(Frames)
    OBVIOUS
  <2> QED BY <1>1, <2>1, <2>2, ConcatProperties DEF Goto
<1>3. CASE \E f, k \in Frames : Call(f, k)
  <2>1. PICK f \in Frames, k \in Frames : Call(f, k)
    BY <1>3
  <2>2. <<f, k>> \in Seq(Frames)
    OBVIOUS
  <2> QED BY <1>1, <2>1, <2>2, ConcatProperties DEF Call
<1>4. CASE \E v \in BOOLEAN : Return(v)
  BY <1>1, <1>4 DEF Return
<1>5. CASE Throw
  <2>1. <<"fault">> \in Seq(Frames)
    BY DEF Frames
  <2> QED BY <1>5, <2>1 DEF Throw
<1> QED BY <1>2, <1>3, <1>4, <1>5 DEF Turns

\* A slot of a dead loader is a slot, also when a loader starts in it.
LEMMA Deaths ==
  LET Types == [at: LoaderSteps \cup {"dead"}, key: 0..MaxSessions, aborted: BOOLEAN]
  IN  Dead \in Types /\ \A s \in LoaderSteps : [Dead EXCEPT !.at = s] \in Types
<1>1. NoKey \in 0..MaxSessions
  BY EditorAssumption DEF NoKey
<1> HIDE DEF NoKey
<1> QED BY <1>1 DEF Dead, LoaderSteps

\* A step that only moves the UI thread.
LEMMA ControlKeepsTypes == ASSUME Fields, Control PROVE Fields'
BY DEF Fields, Handles, Loads, Window, Edits, Control, pkg, reg, view, work

\* The loader's own steps leave the UI thread alone.
LEMMA LoaderKeepsTypes ==
  ASSUME Fields, NEW l \in Loaders, Loader(l)
  PROVE  Fields' /\ UNCHANGED <<ui, ret>>
<1> USE DEF pkg, reg, view, work
<1>1. UNCHANGED <<ui, ret, form, pkg, joined, view, work, elevated>>
  BY DEF Loader, LoaderEnters, LoaderStoresKey, LoaderSetsLoaded, LoaderClearsThread,
       LoaderEnds
<1>2. Window' /\ Edits'
  BY <1>1 DEF Fields, Window, Edits
<1>3. Handles' /\ Loads'
  <2> USE EditorAssumption DEF Fields, Handles, Loads, LoaderAt, Dead, NoKey, LoaderSteps
  <2>1. CASE LoaderEnters(l)
    <3>1. KeyOfHandle \in 0..MaxSessions
      BY DEF KeyOfHandle
    <3>2. Loads'
      BY <1>1, <2>1, <3>1 DEF LoaderEnters
    <3> QED BY <1>1, <2>1, <3>2 DEF LoaderEnters
  <2>2. CASE LoaderStoresKey(l)
    <3>1. Loads'
      <4> HIDE DEF Dead
      <4> QED BY <1>1, <2>2, Deaths DEF LoaderStoresKey
    <3>2. workKey' \in 0..MaxSessions
      BY <2>2 DEF LoaderStoresKey
    <3> QED BY <1>1, <2>2, <3>1, <3>2 DEF LoaderStoresKey
  <2>3. CASE LoaderSetsLoaded(l)
    <3>1. Loads'
      BY <1>1, <2>3 DEF LoaderSetsLoaded
    <3> QED BY <1>1, <2>3, <3>1 DEF LoaderSetsLoaded
  <2>4. CASE LoaderClearsThread(l)
    <3>1. Loads'
      BY <1>1, <2>4 DEF LoaderClearsThread
    <3> QED BY <1>1, <2>4, <3>1 DEF LoaderClearsThread
  <2>5. CASE LoaderEnds(l)
    <3>1. Loads'
      BY <1>1, <2>5 DEF LoaderEnds
    <3> QED BY <1>1, <2>5, <3>1 DEF LoaderEnds
  <2> QED BY <2>1, <2>2, <2>3, <2>4, <2>5 DEF Loader
<1> QED BY <1>1, <1>2, <1>3 DEF Fields

\* Waiting for the loader.
LEMMA StopKeepsTypes == ASSUME Fields, ThreadedRegLoadStop PROVE Fields' /\ Turns
<1> USE DEF pkg, reg, view, work
<1>1. UNCHANGED <<form, pkg, workKey, regLoaded, view, work, elevated>>
  BY DEF ThreadedRegLoadStop, StopBegin, StopReads, StopJoined, StopJoined3s, StopAbort
<1>2. Handles' /\ Window' /\ Edits'
  BY <1>1 DEF Fields, Handles, Window, Edits
<1>3. Turns
  <2> USE DEF At, Turns, Frames
  <2>1. CASE StopBegin("stop", "join") \/ StopBegin("stop3s", "alive3s")
    BY <2>1 DEF StopBegin
  <2>2. CASE StopReads("join", "joining") \/ StopReads("alive3s", "joining3s")
    BY <2>2 DEF StopReads
  <2>3. CASE StopJoined \/ StopJoined3s \/ StopAbort
    BY <2>3 DEF StopJoined, StopJoined3s, StopAbort
  <2> QED BY <2>1, <2>2, <2>3 DEF ThreadedRegLoadStop
<1>4. Loads'
  <2> USE DEF Fields, Loads
  <2>1. CASE StopBegin("stop", "join") \/ StopBegin("stop3s", "alive3s")
    BY <2>1 DEF StopBegin
  <2>2. CASE StopReads("join", "joining") \/ StopReads("alive3s", "joining3s")
    BY <2>2 DEF StopReads
  <2>3. CASE StopJoined \/ StopJoined3s
    BY <2>3 DEF StopJoined, StopJoined3s
  <2>4. CASE StopAbort
    <3>1. /\ UNCHANGED joined /\ regLoadThread' \in Loaders \cup {NoLoader}
          /\ \/ loader' = loader
             \/ loader' = [loader EXCEPT ![regLoadThread].aborted = TRUE]
      BY <2>4 DEF StopAbort
    <3> QED BY <3>1 DEF LoaderSteps
  <2> QED BY <2>1, <2>2, <2>3, <2>4 DEF ThreadedRegLoadStop
<1> QED BY <1>2, <1>3, <1>4 DEF Fields

\* Opening, closing and creating a package, and leaving the editor.
LEMMA PackageKeepsTypes ==
  ASSUME Fields, PackageOpen \/ PackageClose PROVE Fields' /\ Turns
<1>1. CASE OpenBegins \/ OpenAfterClose \/ OpenFails
  <2>1. Turns /\ Control
    BY <1>1 DEF OpenBegins, OpenAfterClose, OpenFails, At, Turns, Frames
  <2> QED BY <2>1, ControlKeepsTypes
<1>2. CASE CloseBegins \/ CloseAnswerYes \/ CloseAfterSave \/ CloseStopsLoader
  <2>1. Turns /\ Control
    BY <1>2 DEF CloseBegins, CloseAnswerYes, CloseAfterSave, CloseStopsLoader, At, Turns,
         Frames
  <2> QED BY <2>1, ControlKeepsTypes
<1>3. CASE OpenSucceeds
  <2>1. Turns
    BY <1>3 DEF OpenSucceeds, At, Turns, Frames
  <2>2. Handles'
    <3>1. session' \in 0..MaxSessions
      BY <1>3, EditorAssumption DEF OpenSucceeds, Fields, Handles
    <3>2. opened' = TRUE /\ named' = TRUE /\ regLoaded' = FALSE /\ workKey' = workKey
      BY <1>3 DEF OpenSucceeds
    <3> QED BY <3>1, <3>2 DEF Fields, Handles
  <2>3. Loads'
    BY <1>3 DEF OpenSucceeds, Fields, Loads, reg
  <2>4. Window' /\ Edits'
    BY <1>3 DEF OpenSucceeds, Fields, Window, Edits, Parts, view, work
  <2> QED BY <2>1, <2>2, <2>3, <2>4 DEF Fields
<1>4. CASE OpenShows
  <2>1. Turns
    BY <1>4 DEF OpenShows, At, Turns, Frames
  <2>2. Handles'
    BY <1>4, EditorAssumption DEF OpenShows, Fields, Handles, pkg, reg
  <2>3. Loads'
    BY <1>4 DEF OpenShows, Fields, Loads, reg
  <2>4. Window' /\ Edits'
    BY <1>4 DEF OpenShows, Fields, Window, Edits, Parts, view, work
  <2> QED BY <2>1, <2>2, <2>3, <2>4 DEF Fields
<1>5. CASE CloseAnswerNo
  <2>1. Turns
    BY <1>5 DEF CloseAnswerNo, At, Turns, Frames
  <2>2. Handles'
    BY <1>5, EditorAssumption DEF CloseAnswerNo, Fields, Handles, pkg, reg
  <2>3. Loads'
    BY <1>5 DEF CloseAnswerNo, Fields, Loads, reg
  <2>4. Window' /\ Edits'
    BY <1>5 DEF CloseAnswerNo, Fields, Window, Edits, Parts, view, work
  <2> QED BY <2>1, <2>2, <2>3, <2>4 DEF Fields
<1>6. CASE CloseShuts
  <2>1. Turns
    BY <1>6 DEF CloseShuts, At, Turns, Frames
  <2>2. Handles'
    <3>1. workKey' \in 0..MaxSessions
      BY <1>6, EditorAssumption DEF CloseShuts, NoKey
    <3>2. opened' = FALSE /\ named' \in BOOLEAN /\ UNCHANGED <<session, regLoaded>>
      BY <1>6 DEF CloseShuts, Fields, Handles
    <3> QED BY <3>1, <3>2 DEF Fields, Handles
  <2>3. Loads'
    BY <1>6 DEF CloseShuts, Fields, Loads, reg
  <2>4. Window' /\ Edits'
    BY <1>6 DEF CloseShuts, Fields, Window, Edits, Parts, view, work
  <2> QED BY <2>1, <2>2, <2>3, <2>4 DEF Fields
<1> QED BY <1>1, <1>2, <1>3, <1>4, <1>5, <1>6 DEF PackageOpen, PackageClose

\* Saving.
LEMMA SaveKeepsTypes ==
  ASSUME Fields, Save \/ New \/ Leave PROVE Fields' /\ Turns
<1>1. CASE SaveFails \/ SaveNeedsName \/ SaveCloses \/ SaveReopens \/ SaveReopened
  <2>1. Turns /\ Control
    BY <1>1 DEF SaveFails, SaveNeedsName, SaveCloses, SaveReopens, SaveReopened, At,
         Turns, Frames
  <2> QED BY <2>1, ControlKeepsTypes
<1>2. CASE NewCloses \/ NewFails \/ ExitCloses \/ FormClosing \/ FormGone
  <2>1. Turns /\ Control
    BY <1>2 DEF NewCloses, NewFails, ExitCloses, FormClosing, FormGone, At, Turns, Frames
  <2> QED BY <2>1, ControlKeepsTypes
<1>3. CASE ElevateDecides \/ ElevateLaunches \/ ElevateExits
  <2>1. Turns /\ Control
    BY <1>3 DEF ElevateDecides, ElevateLaunches, ElevateExits, At, Turns, Frames
  <2> QED BY <2>1, ControlKeepsTypes
<1>4. CASE SaveAs
  <2>1. Turns
    BY <1>4 DEF SaveAs, At, Turns, Frames
  <2>2. Handles'
    BY <1>4, EditorAssumption DEF SaveAs, Fields, Handles, PackageSave, pkg, reg
  <2>3. Loads'
    BY <1>4 DEF SaveAs, Fields, Loads, reg
  <2>4. Window' /\ Edits'
    BY <1>4 DEF SaveAs, Fields, Window, Edits, Parts, PackageSave, AllClean, view, work
  <2> QED BY <2>1, <2>2, <2>3, <2>4 DEF Fields
<1>5. CASE SaveSucceeds
  <2>1. Turns
    BY <1>5 DEF SaveSucceeds, At, Turns, Frames
  <2>2. Handles'
    BY <1>5, EditorAssumption DEF SaveSucceeds, Fields, Handles, PackageSave, pkg, reg
  <2>3. Loads'
    BY <1>5 DEF SaveSucceeds, Fields, Loads, reg
  <2>4. Window' /\ Edits'
    BY <1>5 DEF SaveSucceeds, Fields, Window, Edits, Parts, PackageSave, AllClean, view,
         work
  <2> QED BY <2>1, <2>2, <2>3, <2>4 DEF Fields
<1>6. CASE SaveGivesUp
  <2>1. Turns
    BY <1>6 DEF SaveGivesUp, At, Turns, Frames
  <2>2. Handles'
    BY <1>6, EditorAssumption DEF SaveGivesUp, Fields, Handles, pkg, reg
  <2>3. Loads'
    BY <1>6 DEF SaveGivesUp, Fields, Loads, reg
  <2>4. Window' /\ Edits'
    BY <1>6 DEF SaveGivesUp, Fields, Window, Edits, Parts, view, work
  <2> QED BY <2>1, <2>2, <2>3, <2>4 DEF Fields
<1>7. CASE NewCreates
  <2>1. Turns
    BY <1>7 DEF NewCreates, At, Turns, Frames
  <2>2. Handles'
    BY <1>7, EditorAssumption DEF NewCreates, Fields, Handles, pkg, reg
  <2>3. Loads'
    BY <1>7 DEF NewCreates, Fields, Loads, reg
  <2>4. Window' /\ Edits'
    BY <1>7 DEF NewCreates, Fields, Window, Edits, Parts, view, work
  <2> QED BY <2>1, <2>2, <2>3, <2>4 DEF Fields
<1>8. CASE NewLoads
  <2>1. Turns
    BY <1>8 DEF NewLoads, At, Turns, Frames
  <2>2. Handles'
    BY <1>8, EditorAssumption DEF NewLoads, Fields, Handles, KeyOfHandle, NoKey, pkg, reg
  <2>3. Loads'
    BY <1>8 DEF NewLoads, Fields, Loads, reg
  <2>4. Window' /\ Edits'
    BY <1>8 DEF NewLoads, Fields, Window, Edits, Parts, OnPackageOpenUI, view, work
  <2> QED BY <2>1, <2>2, <2>3, <2>4 DEF Fields
<1>9. CASE FormClosed
  <2>1. Turns
    BY <1>9 DEF FormClosed, At, Turns, Frames
  <2>2. Handles'
    BY <1>9, EditorAssumption DEF FormClosed, Fields, Handles, pkg, reg
  <2>3. Loads'
    BY <1>9 DEF FormClosed, Fields, Loads, reg
  <2>4. Window' /\ Edits'
    BY <1>9 DEF FormClosed, Fields, Window, Edits, Parts, view, work
  <2> QED BY <2>1, <2>2, <2>3, <2>4 DEF Fields
<1> QED BY <1>1, <1>2, <1>3, <1>4, <1>5, <1>6, <1>7, <1>8, <1>9 DEF Save, New, Leave

\* The operations on the registry, the export and the engine swap.
LEMMA RegistryKeepsTypes == ASSUME Fields, RegistryOps PROVE Fields' /\ Turns
<1>1. CASE RegChangeCancelled \/ Continue
  <2>1. Turns /\ Control
    BY <1>1 DEF RegChangeCancelled, Continue, At, Turns, Frames
  <2> QED BY <2>1, ControlKeepsTypes
<1>2. CASE RegChange
  <2>1. Turns
    BY <1>2 DEF RegChange, At, Turns, Frames
  <2>2. Handles'
    BY <1>2, EditorAssumption DEF RegChange, Fields, Handles, pkg, reg
  <2>3. Loads'
    BY <1>2 DEF RegChange, Fields, Loads, reg
  <2>4. Window' /\ Edits'
    BY <1>2 DEF RegChange, Fields, Window, Edits, Parts, Edited, view, work
  <2> QED BY <2>1, <2>2, <2>3, <2>4 DEF Fields
<1>3. CASE DropReg
  <2>1. Turns
    BY <1>3 DEF DropReg, At, Turns, Frames
  <2>2. Handles'
    BY <1>3, EditorAssumption DEF DropReg, Fields, Handles, pkg, reg
  <2>3. Loads'
    BY <1>3 DEF DropReg, Fields, Loads, reg
  <2>4. Window' /\ Edits'
    BY <1>3 DEF DropReg, Fields, Window, Edits, Parts, Edited, view, work
  <2> QED BY <2>1, <2>2, <2>3, <2>4 DEF Fields
<1>4. CASE ImportWithoutKey
  <2>1. Turns
    BY <1>4 DEF ImportWithoutKey, At, Turns, Frames
  <2>2. Handles'
    BY <1>4, EditorAssumption DEF ImportWithoutKey, Fields, Handles, pkg, reg
  <2>3. Loads'
    BY <1>4 DEF ImportWithoutKey, Fields, Loads, reg
  <2>4. Window' /\ Edits'
    BY <1>4 DEF ImportWithoutKey, Fields, Window, Edits, Parts, view, work
  <2> QED BY <2>1, <2>2, <2>3, <2>4 DEF Fields
<1>5. CASE Export
  <2> USE DEF Export, ExportXml, ExportSetsLoaded, ExportClearsThread
  <2>1. Turns
    BY <1>5 DEF At, Turns, Frames
  <2>2. Handles'
    BY <1>5, EditorAssumption DEF Fields, Handles, KeyOfHandle, NoKey, pkg
  <2>3. Loads'
    BY <1>5 DEF Fields, Loads
  <2>4. Window' /\ Edits'
    BY <1>5 DEF Fields, Window, Edits, Parts, view, work
  <2> QED BY <2>1, <2>2, <2>3, <2>4 DEF Fields
<1>6. CASE SwapBefore
  <2>1. Turns
    BY <1>6 DEF SwapBefore, At, Turns, Frames
  <2>2. Handles'
    BY <1>6, EditorAssumption DEF SwapBefore, Fields, Handles, pkg, reg
  <2>3. Loads'
    BY <1>6 DEF SwapBefore, Fields, Loads, reg
  <2>4. Window' /\ Edits'
    BY <1>6 DEF SwapBefore, Fields, Window, Edits, Parts, view, work
  <2> QED BY <2>1, <2>2, <2>3, <2>4 DEF Fields
<1>7. CASE SwapAfter
  <2>1. Turns
    BY <1>7 DEF SwapAfter, At, Turns, Frames
  <2>2. Handles'
    <3>1. session' \in 0..MaxSessions
      BY <1>7, EditorAssumption DEF SwapAfter, Fields, Handles, pkg
    <3>2. opened' \in BOOLEAN /\ named' \in BOOLEAN /\ UNCHANGED <<workKey, regLoaded>>
      BY <1>7 DEF SwapAfter, Fields, Handles, pkg, reg
    <3> QED BY <3>1, <3>2 DEF Fields, Handles
  <2>3. Loads'
    BY <1>7 DEF SwapAfter, Fields, Loads, reg
  <2>4. Window' /\ Edits'
    BY <1>7 DEF SwapAfter, Fields, Window, Edits, Parts, view, work
  <2> QED BY <2>1, <2>2, <2>3, <2>4 DEF Fields
<1> QED BY <1>1, <1>2, <1>3, <1>4, <1>5, <1>6, <1>7 DEF RegistryOps

\* The registry tab starts a loader in a free slot, if any.
LEMMA SelectKeepsTypes == ASSUME Fields, Select PROVE Fields' /\ Turns
<1> USE DEF Select, SelectReads, SelectReadsAgain
<1>1. Turns
  BY DEF At, Turns, Frames
<1>2. Handles' /\ Window' /\ Edits'
  BY DEF Fields, Handles, Window, Edits, pkg, view, work
<1>3. \/ UNCHANGED <<loader, regLoadThread, joined>>
      \/ \E l \in Loaders : /\ loader' = [loader EXCEPT ![l] = [Dead EXCEPT !.at = "start"]]
                            /\ regLoadThread' = l /\ joined' = joined
  BY DEF StartsLoader
<1>4. "start" \in LoaderSteps
  BY DEF LoaderSteps
<1>5. Loads'
  BY <1>3, <1>4, Deaths DEF Fields, Loads
<1> QED BY <1>1, <1>2, <1>5 DEF Fields

\* What the user does from the message loop, and the tick.
LEMMA UserKeepsTypes ==
  ASSUME Fields, Stacks,
         \/ regProgressTimer_Tick \/ UserStarts \/ Terminated
         \/ \E p \in EditParts : Edit(p)
         \/ \E t \in {"general", "registry"} : SelectTab(t)
  PROVE  Fields' /\ Stacks'
<1> USE DEF pkg, reg, view, work, Parts
<1>1. CASE regProgressTimer_Tick
  <2>1. Handles' /\ Loads' /\ Stacks'
    BY <1>1 DEF regProgressTimer_Tick, Fields, Handles, Loads, Stacks
  <2>2. Window' /\ Edits'
    BY <1>1 DEF regProgressTimer_Tick, OnPackageOpenUI, Fields, Window, Edits
  <2> QED BY <2>1, <2>2 DEF Fields
<1>2. CASE UserStarts
  <2>1. Control /\ ret' = ret
    BY <1>2 DEF UserStarts, Start
  <2>2. \/ \E f \in Frames : ui' = <<f>>
        \/ \E f, k \in Frames : ui' = <<f, k>>
    BY <1>2 DEF UserStarts, Start, Frames
  <2>3. ui' \in Seq(Frames)
    <3>1. \A f, k \in Frames : <<f>> \in Seq(Frames) /\ <<f, k>> \in Seq(Frames)
      OBVIOUS
    <3> QED BY <2>2, <3>1
  <2> QED BY <2>1, <2>3, ControlKeepsTypes DEF Stacks
<1>3. CASE Terminated
  BY <1>3 DEF Terminated, vars, Fields, Handles, Loads, Window, Edits, Stacks
<1>4. ASSUME NEW p \in EditParts, Edit(p) PROVE Fields' /\ Stacks'
  <2>1. Handles' /\ Loads' /\ Stacks' /\ Window'
    BY <1>4 DEF Edit, Fields, Handles, Loads, Stacks, Window
  <2>2. Edits'
    BY <1>4, EditorAssumption DEF Edit, Edited, Fields, Edits
  <2> QED BY <2>1, <2>2 DEF Fields
<1>5. ASSUME NEW t \in {"general", "registry"}, SelectTab(t) PROVE Fields' /\ Stacks'
  <2>1. Fields'
    BY <1>5 DEF SelectTab, Fields, Handles, Loads, Window, Edits
  <2>2. <<"select">> \in Seq(Frames)
    BY DEF Frames
  <2> QED BY <1>5, <2>1, <2>2 DEF SelectTab, Stacks
<1> QED BY <1>1, <1>2, <1>3, <1>4, <1>5

\* Every variable keeps its type, for any loaders, sessions, edits and operations.
THEOREM EditorTypes == Spec => []TypeOK
<1>1. Init => Fields /\ Stacks
  <2> SUFFICES ASSUME Init PROVE Fields /\ Stacks
    OBVIOUS
  <2>1. Stacks
    <3>1. <<"open">> \in Seq(Frames) /\ <<>> \in Seq(Frames)
      BY DEF Frames
    <3> QED BY <3>1 DEF Init, Stacks
  <2>2. Handles
    <3>1. NoKey \in 0..MaxSessions /\ 0 \in 0..MaxSessions
      BY EditorAssumption DEF NoKey
    <3> QED BY <3>1 DEF Init, Handles
  <2>4. Loads
    BY Deaths DEF Init, Loads
  <2>3. Window /\ Edits
    BY EditorAssumption DEF Init, Window, Edits, AllClean, Parts
  <2> QED BY <2>1, <2>2, <2>3, <2>4 DEF Fields
<1>2. Fields /\ Stacks /\ [Next]_vars => (Fields /\ Stacks)'
  <2> SUFFICES ASSUME Fields, Stacks, [Next]_vars PROVE Fields' /\ Stacks'
    OBVIOUS
  <2>1. CASE \E l \in Loaders : Loader(l)
    BY <2>1, LoaderKeepsTypes DEF Stacks
  <2>2. CASE UIStep
    <3>1. Fields' /\ Turns
      BY <2>2, StopKeepsTypes, PackageKeepsTypes, SaveKeepsTypes, RegistryKeepsTypes,
         SelectKeepsTypes
         DEF UIStep
    <3> QED BY <3>1, Turned
  <2>3. CASE \/ regProgressTimer_Tick \/ UserStarts \/ Terminated
             \/ \E p \in EditParts : Edit(p)
             \/ \E t \in {"general", "registry"} : SelectTab(t)
    BY <2>3, UserKeepsTypes
  <2>4. CASE UNCHANGED vars
    BY <2>4 DEF vars, pkg, reg, view, work, Fields, Handles, Loads, Window, Edits, Stacks
  <2> QED BY <2>1, <2>2, <2>3, <2>4 DEF Next
<1>3. Fields /\ Stacks => TypeOK
  BY DEF Fields, Handles, Loads, Window, Edits, Stacks, TypeOK
<1> QED BY <1>1, <1>2, <1>3, PTL DEF Spec

-----------------------------------------------------------------------------
(* The session.                                                            *)

\* The engine swap closes the handle and leaves the key; a .reg file dropped
\* before the tick that shows the registry loses its flag.
NoSwap == "swap" \notin ExtraOps
NoDrop == "drop" \notin ExtraOps

Top == IF ui = <<>> THEN "none" ELSE ui[1]
Below == IF Len(ui) > 1 THEN ui[2] ELSE "none"

CloseSteps == {"close", "ask", "asked", "stopThenShut", "shut"}
StopSteps == {"stop", "join", "joining"}
Stop3sSteps == {"stop3s", "alive3s", "joining3s", "abort"}
LeaveSteps == {"elevate", "launch", "launched", "exit", "formClosing", "closing", "gone"}

\* The steps a caller goes on with when its call returns.
Lower == {"open2", "opened", "asked", "shut", "saved", "reopen", "reopened", "giveup",
          "create", "closing", "gone", "launch", "exit", "regChange"}

\* Which steps may be under way when the caller is to go on with k.
Follows(f, k) ==
  /\ k \in {"open2", "create"} => f \in CloseSteps
  /\ k = "reopen" => f \in {"close", "stopThenShut", "shut"}
  /\ k = "giveup" => f = "close"
  /\ k = "reopened" => f \in {"open", "openPkg", "opened"}
  /\ k = "saved" => f \in StopSteps
  /\ k = "shut" => f \in Stop3sSteps
  /\ k = "regChange" => f \in LeaveSteps

Linked ==
  \A n \in 1 .. Len(ui) : n > 1 => ui[n] \in Lower /\ Follows(ui[n - 1], ui[n])

\* Where PackageClose has returned TRUE, and where saving closes and opens
\* again, the package is closed; nothing is dirty from the save to that close.
Phases ==
  /\ Top = "openPkg" => ~opened
  /\ Top \in {"open2", "create"} /\ ret => ~opened
  /\ Top = "saved" \/ Below = "saved" \/ (Top = "close" /\ Below = "reopen") => ~AnyDirty
  /\ Top \in {"reopen", "giveup"} => ~opened
  /\ Top = "open" /\ Below = "reopened" => ~opened
  /\ Top = "close" /\ Below = "giveup" => ~opened
  /\ Top = "reopened" /\ ~ret => ~opened

\* Nothing of the registry is edited between an open and the tick that shows it.
Flags ==
  /\ \A p \in unsaved : dirty[p]
  /\ ~opened => unsaved = {}
  /\ timer => ~regUI /\ "reg" \notin unsaved

\* PackageClose goes on only when there is nothing left to lose.
FlagPhases ==
  /\ Top \in {"stopThenShut", "shut", "newload"} \/ Below = "shut" => unsaved = {}
  /\ Top = "elevate" /\ Below = "regChange" => ~timer
  /\ Top = "regChange" /\ ret => ~timer
  /\ Top # "dropReg"

\* Whatever key a loader has asked for is that of the open handle.
Keys ==
  /\ KeyOfOpenPackage
  /\ \A l \in Loaders : Works(l) /\ loader[l].key # NoKey => opened /\ loader[l].key = session

\* When the handle is closed no loader still works.
KeyPhases ==
  /\ Top = "shut" => \A l \in Loaders : ~Works(l)
  /\ Top \notin {"swap", "swapNamed", "swapUnnamed"}

Positions ==
  /\ Phases
  /\ NoDrop => FlagPhases
  /\ NoExport /\ NoSwap => KeyPhases

SessionInv ==
  /\ Linked /\ Positions
  /\ NoDrop => Flags
  /\ NoExport /\ NoSwap => Keys

\* The UI thread goes on with f, with k under it; or it returns v.
Lands(f, k) == Linked' /\ Top' = f /\ Below' = k /\ ret' = ret /\ Follows(f, k)
Back(v) ==
  /\ Linked' /\ Top' = Below /\ Follows(Top, Below)
  /\ \/ Below = "none" /\ Below' = "none"
     \/ Below \in Lower /\ Follows(Below, Below') /\ ret' = v
Faults == Linked' /\ Top' = "fault" /\ Below' = "none"

\* The two top steps of a linked stack.
LEMMA TopLinks ==
  ASSUME TypeOK, Linked, ui # <<>>
  PROVE  /\ Top = Head(ui) /\ Follows(Top, Below)
         /\ Below = "none" \/ Below \in Lower
<1>1. Len(ui) \in Nat /\ Len(ui) >= 1 /\ Top = ui[1] /\ Head(ui) = ui[1]
  BY DEF TypeOK, Top
<1>3. CASE Len(ui) > 1
  <2>1. 2 \in 1 .. Len(ui) /\ 2 - 1 = 1 /\ Below = ui[2]
    BY <1>1, <1>3 DEF Below
  <2>2. ui[2] \in Lower /\ Follows(ui[2 - 1], ui[2])
    BY <2>1 DEF Linked
  <2> QED BY <1>1, <2>1, <2>2
<1>4. CASE ~(Len(ui) > 1)
  BY <1>1, <1>4 DEF Below, Follows
<1> QED BY <1>3, <1>4

\* The running handler goes on with a step that fits the one under it.
LEMMA GotoLinks ==
  ASSUME TypeOK, Linked, ui # <<>>, NEW f \in Frames,
         Follows(f, Below), Goto(f)
  PROVE  Lands(f, Below)
<1>1. /\ Tail(ui) \in Seq(Frames) /\ Len(Tail(ui)) = Len(ui) - 1 /\ Len(ui) \in Nat /\ Len(ui) >= 1
      /\ \A n \in 1 .. Len(ui) - 1 : Tail(ui)[n] = ui[n + 1]
  BY DEF TypeOK
<1>2. <<f>> \in Seq(Frames) /\ Len(<<f>>) = 1 /\ <<f>>[1] = f
  OBVIOUS
<1>3. /\ ui' \in Seq(Frames) /\ Len(ui') = 1 + Len(Tail(ui))
      /\ \A n \in 1 .. 1 + Len(Tail(ui)) : ui'[n] = IF n <= 1 THEN <<f>>[n] ELSE Tail(ui)[n - 1]
  BY <1>1, <1>2, ConcatProperties DEF Goto
<1>4. Len(ui') = Len(ui) /\ ui'[1] = f /\ \A n \in 2 .. Len(ui) : ui'[n] = ui[n]
  BY <1>1, <1>2, <1>3
<1>5. Top' = f /\ Below' = Below
  BY <1>1, <1>3, <1>4 DEF Top, Below
<1>6. ASSUME NEW n \in 1 .. Len(ui')
      PROVE  n > 1 => ui'[n] \in Lower /\ Follows(ui'[n - 1], ui'[n])
  <2>1. CASE n = 1
    BY <1>4, <2>1
  <2>2. CASE n = 2
    <3>1. ui'[2] = ui[2] /\ Below = ui[2] /\ 2 \in 1 .. Len(ui) /\ 2 - 1 = 1
      BY <1>1, <1>4, <2>2 DEF Below
    <3> QED BY <1>4, <2>2, <3>1 DEF Linked
  <2>3. CASE n > 2
    <3>1. ui'[n] = ui[n] /\ ui'[n - 1] = ui[n - 1] /\ n \in 1 .. Len(ui)
      BY <1>1, <1>4, <2>3
    <3> QED BY <2>3, <3>1 DEF Linked
  <2> QED BY <2>1, <2>2, <2>3
<1> QED BY <1>5, <1>6 DEF Linked, Goto, Lands

\* The running handler calls f and will go on with k.
LEMMA CallLinks ==
  ASSUME TypeOK, Linked, ui # <<>>, NEW f \in Frames,
         NEW k \in Frames \cap Lower, Follows(f, k), Follows(k, Below), Call(f, k)
  PROVE  Lands(f, k)
<1>1. /\ Tail(ui) \in Seq(Frames) /\ Len(Tail(ui)) = Len(ui) - 1 /\ Len(ui) \in Nat /\ Len(ui) >= 1
      /\ \A n \in 1 .. Len(ui) - 1 : Tail(ui)[n] = ui[n + 1]
  BY DEF TypeOK
<1>2. <<f, k>> \in Seq(Frames) /\ Len(<<f, k>>) = 2 /\ <<f, k>>[1] = f /\ <<f, k>>[2] = k
  OBVIOUS
<1>3. /\ ui' \in Seq(Frames) /\ Len(ui') = 2 + Len(Tail(ui))
      /\ \A n \in 1 .. 2 + Len(Tail(ui)) : ui'[n] = IF n <= 2 THEN <<f, k>>[n] ELSE Tail(ui)[n - 2]
  BY <1>1, <1>2, ConcatProperties DEF Call
<1>4. /\ Len(ui') = Len(ui) + 1 /\ ui'[1] = f /\ ui'[2] = k
      /\ \A n \in 3 .. Len(ui) + 1 : ui'[n] = ui[n - 1]
  BY <1>1, <1>2, <1>3
<1>5. Top' = f /\ Below' = k
  BY <1>1, <1>3, <1>4 DEF Top, Below
<1>6. ASSUME NEW n \in 1 .. Len(ui')
      PROVE  n > 1 => ui'[n] \in Lower /\ Follows(ui'[n - 1], ui'[n])
  <2>1. CASE n = 1
    BY <1>4, <2>1
  <2>2. CASE n = 2
    BY <1>4, <2>2 DEF Lower
  <2>3. CASE n = 3
    <3>1. ui'[3] = ui[2] /\ Below = ui[2] /\ 2 \in 1 .. Len(ui) /\ 3 - 1 = 2
      BY <1>1, <1>4, <2>3 DEF Below
    <3> QED BY <1>4, <2>3, <3>1 DEF Linked
  <2>4. CASE n > 3
    <3>1. ui'[n] = ui[n - 1] /\ ui'[n - 1] = ui[n - 2] /\ n - 1 \in 1 .. Len(ui) /\ (n - 1) - 1 = n - 2
      BY <1>1, <1>4, <2>4
    <3> QED BY <2>4, <3>1 DEF Linked
  <2> QED BY <2>1, <2>2, <2>3, <2>4
<1> QED BY <1>5, <1>6 DEF Linked, Call, Lands

\* A call returns to the step under it, and tells it v.
LEMMA ReturnLinks ==
  ASSUME TypeOK, Linked, ui # <<>>, NEW v \in BOOLEAN, Return(v)
  PROVE  Back(v)
<1>1. /\ ui' \in Seq(Frames) /\ Len(ui') = Len(ui) - 1 /\ Len(ui) \in Nat /\ Len(ui) >= 1
      /\ \A n \in 1 .. Len(ui) - 1 : ui'[n] = ui[n + 1]
  BY DEF TypeOK, Return
<1>2. ASSUME NEW n \in 1 .. Len(ui')
      PROVE  n > 1 => ui'[n] \in Lower /\ Follows(ui'[n - 1], ui'[n])
  <2>1. n + 1 \in 1 .. Len(ui) /\ (n + 1) - 1 = n /\ ui'[n] = ui[n + 1] /\ (n > 1 => ui'[n - 1] = ui[n])
    BY <1>1
  <2> QED BY <2>1 DEF Linked
<1>3. CASE Len(ui) = 1
  BY <1>1, <1>2, <1>3, TopLinks DEF Top, Below, Linked, Back
<1>4. CASE Len(ui) > 1
  <2>1. ui' # <<>> /\ Top' = ui'[1] /\ ui'[1] = ui[2] /\ Below = ui[2] /\ 2 \in 1 .. Len(ui)
    BY <1>1, <1>4 DEF Top, Below
  <2>2. ret' = v
    BY <1>4 DEF Return
  <2>3. Follows(Below, Below')
    <3>1. CASE Len(ui') > 1
      <4>1. 2 \in 1 .. Len(ui') /\ 2 - 1 = 1 /\ Below' = ui'[2]
        BY <1>1, <3>1 DEF Below
      <4>2. Follows(ui'[2 - 1], ui'[2])
        BY <1>2, <4>1
      <4> QED BY <2>1, <4>1, <4>2
    <3>2. CASE ~(Len(ui') > 1)
      BY <3>2 DEF Below, Follows
    <3> QED BY <3>1, <3>2
  <2> QED BY <1>2, <2>1, <2>2, <2>3, TopLinks DEF Linked, Back
<1> QED BY <1>1, <1>3, <1>4

\* An exception leaves nothing but the message loop under it.
LEMMA ThrowLinks ==
  ASSUME Throw PROVE Faults
<1>1. ui' = <<"fault">> /\ Len(ui') = 1 /\ ui'[1] = "fault"
  BY DEF Throw
<1> QED BY <1>1 DEF Linked, Top, Below, Faults

USE DEF CloseSteps, StopSteps, Stop3sSteps, LeaveSteps, Lower

\* What a return must establish for the step it returns to.
LEMMA BackPositions ==
  ASSUME Positions, NEW v \in BOOLEAN, Back(v),
         Top \in CloseSteps /\ v => ~opened',
         Top \in {"close", "stopThenShut", "shut"} => v,
         Top \in {"open", "openPkg", "opened"} /\ ~v => ~opened',
         Top \in StopSteps => dirty' = dirty,
         Top \in Stop3sSteps => unsaved' = unsaved,
         Top \in Stop3sSteps /\ NoExport => \A l \in Loaders : ~Works(l)',
         Top \in LeaveSteps /\ v => Top = "elevate" /\ timer' = timer
  PROVE  Positions'
<1> USE DEF Back, Positions, Follows
<1>1. Phases'
  <2>1. CASE Below = "none"
    BY <2>1 DEF Phases
  <2>2. CASE Below \in Lower
    <3>1. /\ Top' \notin {"openPkg", "open", "close"} /\ Below' # "saved"
          /\ Top' = "saved" => ~AnyDirty'
      BY <2>2 DEF Phases, AnyDirty
    <3>2. (Top' \in {"open2", "create"} /\ ret' => ~opened') /\ (Top' \in {"reopen", "giveup"} => ~opened')
      BY <2>2
    <3>3. Top' = "reopened" /\ ~ret' => ~opened'
      BY <2>2
    <3> QED BY <3>1, <3>2, <3>3 DEF Phases
  <2> QED BY <2>1, <2>2
<1>2. NoDrop => FlagPhases'
  BY DEF FlagPhases
<1>3. NoExport /\ NoSwap => KeyPhases'
  BY DEF KeyPhases
<1> QED BY <1>1, <1>2, <1>3

\* A step that only moves the UI thread keeps what is said of the fields.
LEMMA ControlKeeps == ASSUME SessionInv, Control, Linked', Positions' PROVE SessionInv'
BY DEF SessionInv, Control, Flags, Keys, KeyOfOpenPackage, Works, Alive, pkg, reg, view,
     work

\* Nothing is unsaved when nothing is dirty.
LEMMA NothingDirty == ASSUME TypeOK, Flags, ~AnyDirty PROVE unsaved = {}
BY DEF TypeOK, Flags, AnyDirty

\* PackageOpen.
LEMMA OpenKeepsSession ==
  ASSUME TypeOK, SessionInv, PackageOpen PROVE SessionInv'
<1> USE DEF SessionInv, pkg, reg, view, work
<1>1. CASE OpenBegins
  <2>1. /\ Top = "open"
        /\ \/ opened /\ Lands("close", "open2")
           \/ ~opened /\ Lands("openPkg", Below)
    BY <1>1, TopLinks, GotoLinks, CallLinks DEF OpenBegins, At, Follows, Frames,
         Positions, Phases
  <2>2. Positions'
    <3>1. CASE opened /\ Lands("close", "open2")
      BY <1>1, <2>1, <3>1 DEF OpenBegins, Control, Positions, Phases, FlagPhases,
           KeyPhases, Lands, Faults, Follows, AnyDirty, Works, Alive
    <3>2. CASE ~opened /\ Lands("openPkg", Below)
      BY <1>1, <2>1, <3>2 DEF OpenBegins, Control, Positions, Phases, FlagPhases,
           KeyPhases, Lands, Faults, Follows, AnyDirty, Works, Alive
    <3> QED BY <2>1, <3>1, <3>2
  <2>3. Linked' /\ Control
    BY <1>1, <2>1 DEF OpenBegins, Lands, Back
  <2> QED BY <2>2, <2>3, ControlKeeps
<1>2. CASE OpenAfterClose
  <2>1. /\ Top = "open2"
        /\ \/ ret /\ Lands("openPkg", Below)
           \/ ~ret /\ Back(FALSE)
    BY <1>2, TopLinks, GotoLinks, ReturnLinks DEF OpenAfterClose, At, Follows, Frames,
         Positions, Phases
  <2>2. Positions'
    <3>1. CASE ret /\ Lands("openPkg", Below)
      BY <1>2, <2>1, <3>1 DEF OpenAfterClose, Control, Positions, Phases, FlagPhases,
           KeyPhases, Lands, Faults, Follows, AnyDirty, Works, Alive
    <3>2. CASE ~ret /\ Back(FALSE)
      BY <1>2, <2>1, <3>2, BackPositions DEF OpenAfterClose, Control, Positions, Phases
    <3> QED BY <2>1, <3>1, <3>2
  <2>3. Linked' /\ Control
    BY <1>2, <2>1 DEF OpenAfterClose, Lands, Back
  <2> QED BY <2>2, <2>3, ControlKeeps
<1>3. CASE OpenFails
  <2>1. Top = "openPkg" /\ Back(FALSE)
    BY <1>3, TopLinks, ReturnLinks DEF OpenFails, At, Follows, Frames, Positions, Phases
  <2>2. Positions'
    BY <1>3, <2>1, BackPositions DEF OpenFails, Control, Positions, Phases
  <2>3. Linked' /\ Control
    BY <1>3, <2>1 DEF OpenFails, Lands, Back
  <2> QED BY <2>2, <2>3, ControlKeeps
<1>4. CASE OpenSucceeds
  <2>1. Top = "openPkg" /\ Lands("stop", "opened")
    BY <1>4, TopLinks, CallLinks DEF OpenSucceeds, At, Follows, Frames, Positions, Phases
  <2>2. Positions'
    BY <1>4, <2>1 DEF OpenSucceeds, Positions, Phases, FlagPhases, KeyPhases, Lands,
         Faults, Follows, AnyDirty, Works, Alive
  <2>3. NoDrop => Flags'
    BY <1>4, <2>1 DEF OpenSucceeds, Flags, Positions, Phases, FlagPhases, AnyDirty
  <2>4. NoExport /\ NoSwap => Keys'
    BY <1>4, <2>1 DEF OpenSucceeds, Keys, KeyOfOpenPackage, Positions, Phases, KeyPhases,
         Works, Alive
  <2> QED BY <2>1, <2>2, <2>3, <2>4 DEF Lands, Back, Faults
<1>5. CASE OpenShows
  <2>1. Top = "opened" /\ Back(TRUE)
    BY <1>5, TopLinks, ReturnLinks DEF OpenShows, At, Follows, Frames, Positions, Phases
  <2>2. Positions'
    BY <1>5, <2>1, BackPositions DEF OpenShows, Positions, Phases
  <2>3. NoDrop => Flags'
    BY <1>5, <2>1 DEF OpenShows, Flags, Positions, Phases, FlagPhases, AnyDirty
  <2>4. NoExport /\ NoSwap => Keys'
    BY <1>5, <2>1 DEF OpenShows, Keys, KeyOfOpenPackage, Positions, Phases, KeyPhases,
         Works, Alive
  <2> QED BY <2>1, <2>2, <2>3, <2>4 DEF Lands, Back, Faults
<1> QED BY <1>1, <1>2, <1>3, <1>4, <1>5 DEF PackageOpen

\* PackageClose.
LEMMA CloseKeepsSession ==
  ASSUME TypeOK, SessionInv, PackageClose PROVE SessionInv'
<1> USE DEF SessionInv, pkg, reg, view, work
<1>1. CASE CloseBegins
  <2>1. /\ Top = "close"
        /\ \/ ~opened /\ Back(TRUE)
           \/ opened /\ AnyDirty /\ Lands("ask", Below)
           \/ opened /\ ~AnyDirty /\ Lands("stopThenShut", Below)
    BY <1>1, TopLinks, GotoLinks, ReturnLinks DEF CloseBegins, At, Follows, Frames,
         Positions, Phases
  <2>2. Positions'
    <3>1. CASE ~opened /\ Back(TRUE)
      BY <1>1, <2>1, <3>1, BackPositions DEF CloseBegins, Control, Positions, Phases
    <3>2. CASE opened /\ AnyDirty /\ Lands("ask", Below)
      BY <1>1, <2>1, <3>2 DEF CloseBegins, Control, Positions, Phases, FlagPhases,
           KeyPhases, Lands, Faults, Follows, AnyDirty, Works, Alive
    <3>3. CASE opened /\ ~AnyDirty /\ Lands("stopThenShut", Below)
      BY <1>1, <2>1, <3>3, NothingDirty DEF CloseBegins, Control, Positions, Phases,
           FlagPhases, KeyPhases, Lands, Faults, Follows, AnyDirty, Works, Alive
    <3> QED BY <2>1, <3>1, <3>2, <3>3
  <2>3. Linked' /\ Control
    BY <1>1, <2>1 DEF CloseBegins, Lands, Back
  <2> QED BY <2>2, <2>3, ControlKeeps
<1>2. CASE CloseAnswerYes
  <2>1. Top = "ask" /\ Lands("save", "asked")
    BY <1>2, TopLinks, CallLinks DEF CloseAnswerYes, At, Follows, Frames, Positions, Phases
  <2>2. Positions'
    BY <1>2, <2>1 DEF CloseAnswerYes, Control, Positions, Phases, FlagPhases, KeyPhases,
         Lands, Faults, Follows, AnyDirty, Works, Alive
  <2>3. Linked' /\ Control
    BY <1>2, <2>1 DEF CloseAnswerYes, Lands, Back
  <2> QED BY <2>2, <2>3, ControlKeeps
<1>3. CASE CloseAnswerNo
  <2>1. Top = "ask" /\ Lands("stopThenShut", Below)
    BY <1>3, TopLinks, GotoLinks DEF CloseAnswerNo, At, Follows, Frames, Positions, Phases
  <2>2. Positions'
    BY <1>3, <2>1 DEF CloseAnswerNo, Positions, Phases, FlagPhases, KeyPhases, Lands,
         Faults, Follows, AnyDirty, Works, Alive
  <2>3. NoDrop => Flags'
    BY <1>3, <2>1 DEF CloseAnswerNo, Flags, Positions, Phases, FlagPhases, AnyDirty
  <2>4. NoExport /\ NoSwap => Keys'
    BY <1>3, <2>1 DEF CloseAnswerNo, Keys, KeyOfOpenPackage, Positions, Phases, KeyPhases,
         Works, Alive
  <2> QED BY <2>1, <2>2, <2>3, <2>4 DEF Lands, Back, Faults
<1>4. CASE CloseAfterSave
  <2>1. /\ Top = "asked"
        /\ \/ AnyDirty /\ Back(FALSE)
           \/ ~AnyDirty /\ Lands("stopThenShut", Below)
    BY <1>4, TopLinks, GotoLinks, ReturnLinks DEF CloseAfterSave, At, Follows, Frames,
         Positions, Phases
  <2>2. Positions'
    <3>1. CASE AnyDirty /\ Back(FALSE)
      BY <1>4, <2>1, <3>1, BackPositions DEF CloseAfterSave, Control, Positions, Phases
    <3>2. CASE ~AnyDirty /\ Lands("stopThenShut", Below)
      BY <1>4, <2>1, <3>2, NothingDirty DEF CloseAfterSave, Control, Positions, Phases,
           FlagPhases, KeyPhases, Lands, Faults, Follows, AnyDirty, Works, Alive
    <3> QED BY <2>1, <3>1, <3>2
  <2>3. Linked' /\ Control
    BY <1>4, <2>1 DEF CloseAfterSave, Lands, Back
  <2> QED BY <2>2, <2>3, ControlKeeps
<1>5. CASE CloseStopsLoader
  <2>1. Top = "stopThenShut" /\ Lands("stop3s", "shut")
    BY <1>5, TopLinks, CallLinks DEF CloseStopsLoader, At, Follows, Frames, Positions,
         Phases
  <2>2. Positions'
    BY <1>5, <2>1 DEF CloseStopsLoader, Control, Positions, Phases, FlagPhases, KeyPhases,
         Lands, Faults, Follows, AnyDirty, Works, Alive
  <2>3. Linked' /\ Control
    BY <1>5, <2>1 DEF CloseStopsLoader, Lands, Back
  <2> QED BY <2>2, <2>3, ControlKeeps
<1>6. CASE CloseShuts
  <2>1. Top = "shut" /\ Back(TRUE)
    BY <1>6, TopLinks, ReturnLinks DEF CloseShuts, At, Follows, Frames, Positions, Phases
  <2>2. Positions'
    BY <1>6, <2>1, BackPositions DEF CloseShuts, Positions, Phases
  <2>3. NoDrop => Flags'
    BY <1>6, <2>1 DEF CloseShuts, Flags, Positions, Phases, FlagPhases, AnyDirty
  <2>4. NoExport /\ NoSwap => Keys'
    BY <1>6, <2>1 DEF CloseShuts, Keys, KeyOfOpenPackage, Positions, Phases, KeyPhases,
         Works, Alive
  <2> QED BY <2>1, <2>2, <2>3, <2>4 DEF Lands, Back, Faults
<1> QED BY <1>1, <1>2, <1>3, <1>4, <1>5, <1>6 DEF PackageClose

\* Saving, and opening again what was saved.
LEMMA SaveKeepsSession ==
  ASSUME TypeOK, SessionInv, Save PROVE SessionInv'
<1> USE DEF SessionInv, pkg, reg, view, work
<1>1. CASE SaveFails
  <2>1. Top \in {"save", "saveas"} /\ Back(FALSE)
    BY <1>1, TopLinks, ReturnLinks DEF SaveFails, At, Follows, Frames, Positions, Phases
  <2>2. Positions'
    BY <1>1, <2>1, BackPositions DEF SaveFails, Control, Positions, Phases
  <2>3. Linked' /\ Control
    BY <1>1, <2>1 DEF SaveFails, Lands, Back
  <2> QED BY <2>2, <2>3, ControlKeeps
<1>2. CASE SaveNeedsName
  <2>1. Top = "save" /\ Lands("saveas", Below)
    BY <1>2, TopLinks, GotoLinks DEF SaveNeedsName, At, Follows, Frames, Positions, Phases
  <2>2. Positions'
    BY <1>2, <2>1 DEF SaveNeedsName, Control, Positions, Phases, FlagPhases, KeyPhases,
         Lands, Faults, Follows, AnyDirty, Works, Alive
  <2>3. Linked' /\ Control
    BY <1>2, <2>1 DEF SaveNeedsName, Lands, Back
  <2> QED BY <2>2, <2>3, ControlKeeps
<1>3. CASE SaveAs
  <2>1. Top = "saveas" /\ Back(TRUE)
    BY <1>3, TopLinks, ReturnLinks DEF SaveAs, At, Follows, Frames, Positions, Phases
  <2>2. Positions'
    BY <1>3, <2>1, BackPositions DEF SaveAs, Positions, Phases, PackageSave, AllClean
  <2>3. NoDrop => Flags'
    BY <1>3, <2>1 DEF SaveAs, Flags, Positions, Phases, FlagPhases, AnyDirty, PackageSave,
         AllClean
  <2>4. NoExport /\ NoSwap => Keys'
    BY <1>3, <2>1 DEF SaveAs, Keys, KeyOfOpenPackage, Positions, Phases, KeyPhases, Works,
         Alive, PackageSave, AllClean
  <2> QED BY <2>1, <2>2, <2>3, <2>4 DEF Lands, Back, Faults
<1>4. CASE SaveSucceeds
  <2>1. Top = "save" /\ Lands("stop", "saved")
    BY <1>4, TopLinks, CallLinks DEF SaveSucceeds, At, Follows, Frames, Positions, Phases
  <2>2. Positions'
    BY <1>4, <2>1 DEF SaveSucceeds, Positions, Phases, FlagPhases, KeyPhases, Lands,
         Faults, Follows, AnyDirty, Works, Alive, PackageSave, AllClean
  <2>3. NoDrop => Flags'
    BY <1>4, <2>1 DEF SaveSucceeds, Flags, Positions, Phases, FlagPhases, AnyDirty,
         PackageSave, AllClean
  <2>4. NoExport /\ NoSwap => Keys'
    BY <1>4, <2>1 DEF SaveSucceeds, Keys, KeyOfOpenPackage, Positions, Phases, KeyPhases,
         Works, Alive, PackageSave, AllClean
  <2> QED BY <2>1, <2>2, <2>3, <2>4 DEF Lands, Back, Faults
<1>5. CASE SaveCloses
  <2>1. Top = "saved" /\ Lands("close", "reopen")
    BY <1>5, TopLinks, CallLinks DEF SaveCloses, At, Follows, Frames, Positions, Phases
  <2>2. Positions'
    BY <1>5, <2>1 DEF SaveCloses, Control, Positions, Phases, FlagPhases, KeyPhases,
         Lands, Faults, Follows, AnyDirty, Works, Alive
  <2>3. Linked' /\ Control
    BY <1>5, <2>1 DEF SaveCloses, Lands, Back
  <2> QED BY <2>2, <2>3, ControlKeeps
<1>6. CASE SaveReopens
  <2>1. Top = "reopen" /\ Lands("open", "reopened")
    BY <1>6, TopLinks, CallLinks DEF SaveReopens, At, Follows, Frames, Positions, Phases
  <2>2. Positions'
    BY <1>6, <2>1 DEF SaveReopens, Control, Positions, Phases, FlagPhases, KeyPhases,
         Lands, Faults, Follows, AnyDirty, Works, Alive
  <2>3. Linked' /\ Control
    BY <1>6, <2>1 DEF SaveReopens, Lands, Back
  <2> QED BY <2>2, <2>3, ControlKeeps
<1>7. CASE SaveReopened
  <2>1. /\ Top = "reopened"
        /\ \/ ret /\ Back(TRUE)
           \/ ~ret /\ Lands("close", "giveup")
    BY <1>7, TopLinks, CallLinks, ReturnLinks DEF SaveReopened, At, Follows, Frames,
         Positions, Phases
  <2>2. Positions'
    <3>1. CASE ret /\ Back(TRUE)
      BY <1>7, <2>1, <3>1, BackPositions DEF SaveReopened, Control, Positions, Phases
    <3>2. CASE ~ret /\ Lands("close", "giveup")
      BY <1>7, <2>1, <3>2 DEF SaveReopened, Control, Positions, Phases, FlagPhases,
           KeyPhases, Lands, Faults, Follows, AnyDirty, Works, Alive
    <3> QED BY <2>1, <3>1, <3>2
  <2>3. Linked' /\ Control
    BY <1>7, <2>1 DEF SaveReopened, Lands, Back
  <2> QED BY <2>2, <2>3, ControlKeeps
<1>8. CASE SaveGivesUp
  <2>1. Top = "giveup" /\ Back(FALSE)
    BY <1>8, TopLinks, ReturnLinks DEF SaveGivesUp, At, Follows, Frames, Positions, Phases
  <2>2. Positions'
    BY <1>8, <2>1, BackPositions DEF SaveGivesUp, Positions, Phases
  <2>3. NoDrop => Flags'
    BY <1>8, <2>1 DEF SaveGivesUp, Flags, Positions, Phases, FlagPhases, AnyDirty
  <2>4. NoExport /\ NoSwap => Keys'
    BY <1>8, <2>1 DEF SaveGivesUp, Keys, KeyOfOpenPackage, Positions, Phases, KeyPhases,
         Works, Alive
  <2> QED BY <2>1, <2>2, <2>3, <2>4 DEF Lands, Back, Faults
<1> QED BY <1>1, <1>2, <1>3, <1>4, <1>5, <1>6, <1>7, <1>8 DEF Save

\* A new package.
LEMMA NewKeepsSession ==
  ASSUME TypeOK, SessionInv, New PROVE SessionInv'
<1> USE DEF SessionInv, pkg, reg, view, work
<1>1. CASE NewCloses
  <2>1. Top = "new" /\ Lands("close", "create")
    BY <1>1, TopLinks, CallLinks DEF NewCloses, At, Follows, Frames, Positions, Phases
  <2>2. Positions'
    BY <1>1, <2>1 DEF NewCloses, Control, Positions, Phases, FlagPhases, KeyPhases, Lands,
         Faults, Follows, AnyDirty, Works, Alive
  <2>3. Linked' /\ Control
    BY <1>1, <2>1 DEF NewCloses, Lands, Back
  <2> QED BY <2>2, <2>3, ControlKeeps
<1>2. CASE NewFails
  <2>1. Top = "create" /\ Back(FALSE)
    BY <1>2, TopLinks, ReturnLinks DEF NewFails, At, Follows, Frames, Positions, Phases
  <2>2. Positions'
    BY <1>2, <2>1, BackPositions DEF NewFails, Control, Positions, Phases
  <2>3. Linked' /\ Control
    BY <1>2, <2>1 DEF NewFails, Lands, Back
  <2> QED BY <2>2, <2>3, ControlKeeps
<1>3. CASE NewCreates
  <2>1. Top = "create" /\ ret /\ Lands("newload", Below)
    BY <1>3, TopLinks, GotoLinks DEF NewCreates, At, Follows, Frames, Positions, Phases
  <2>2. Positions'
    BY <1>3, <2>1 DEF NewCreates, Positions, Phases, FlagPhases, KeyPhases, Lands, Faults,
         Follows, AnyDirty, Works, Alive
  <2>3. NoDrop => Flags'
    BY <1>3, <2>1 DEF NewCreates, Flags, Positions, Phases, FlagPhases, AnyDirty
  <2>4. NoExport /\ NoSwap => Keys'
    BY <1>3, <2>1 DEF NewCreates, Keys, KeyOfOpenPackage, Positions, Phases, KeyPhases,
         Works, Alive
  <2> QED BY <2>1, <2>2, <2>3, <2>4 DEF Lands, Back, Faults
<1>4. CASE NewLoads
  <2>1. Top = "newload" /\ Back(TRUE)
    BY <1>4, TopLinks, ReturnLinks DEF NewLoads, At, Follows, Frames, Positions, Phases
  <2>2. Positions'
    BY <1>4, <2>1, BackPositions DEF NewLoads, Positions, Phases, KeyOfHandle,
         OnPackageOpenUI
  <2>3. NoDrop => Flags'
    BY <1>4, <2>1 DEF NewLoads, Flags, Positions, Phases, FlagPhases, AnyDirty,
         KeyOfHandle, OnPackageOpenUI
  <2>4. NoExport /\ NoSwap => Keys'
    BY <1>4, <2>1 DEF NewLoads, Keys, KeyOfOpenPackage, Positions, Phases, KeyPhases,
         Works, Alive, KeyOfHandle, OnPackageOpenUI
  <2> QED BY <2>1, <2>2, <2>3, <2>4 DEF Lands, Back, Faults
<1> QED BY <1>1, <1>2, <1>3, <1>4 DEF New

\* Leaving the editor.
LEMMA LeaveKeepsSession ==
  ASSUME TypeOK, SessionInv, Leave PROVE SessionInv'
<1> USE DEF SessionInv, pkg, reg, view, work
<1>1. CASE ExitCloses
  <2>1. /\ Top = "exit"
        /\ \/ ret /\ Lands("formClosing", Below)
           \/ ~ret /\ Back(FALSE)
    BY <1>1, TopLinks, GotoLinks, ReturnLinks DEF ExitCloses, At, Follows, Frames,
         Positions, Phases
  <2>2. Positions'
    <3>1. CASE ret /\ Lands("formClosing", Below)
      BY <1>1, <2>1, <3>1 DEF ExitCloses, Control, Positions, Phases, FlagPhases,
           KeyPhases, Lands, Faults, Follows, AnyDirty, Works, Alive
    <3>2. CASE ~ret /\ Back(FALSE)
      BY <1>1, <2>1, <3>2, BackPositions DEF ExitCloses, Control, Positions, Phases
    <3> QED BY <2>1, <3>1, <3>2
  <2>3. Linked' /\ Control
    BY <1>1, <2>1 DEF ExitCloses, Lands, Back
  <2> QED BY <2>2, <2>3, ControlKeeps
<1>2. CASE FormClosing
  <2>1. Top = "formClosing" /\ Lands("close", "closing")
    BY <1>2, TopLinks, CallLinks DEF FormClosing, At, Follows, Frames, Positions, Phases
  <2>2. Positions'
    BY <1>2, <2>1 DEF FormClosing, Control, Positions, Phases, FlagPhases, KeyPhases,
         Lands, Faults, Follows, AnyDirty, Works, Alive
  <2>3. Linked' /\ Control
    BY <1>2, <2>1 DEF FormClosing, Lands, Back
  <2> QED BY <2>2, <2>3, ControlKeeps
<1>3. CASE FormClosed
  <2>1. /\ Top = "closing"
        /\ \/ ret /\ Lands("stop3s", "gone")
           \/ ~ret /\ Back(FALSE)
    BY <1>3, TopLinks, CallLinks, ReturnLinks DEF FormClosed, At, Follows, Frames,
         Positions, Phases
  <2>2. Positions'
    <3>1. CASE ret /\ Lands("stop3s", "gone")
      BY <1>3, <2>1, <3>1 DEF FormClosed, Positions, Phases, FlagPhases, KeyPhases, Lands,
           Faults, Follows, AnyDirty, Works, Alive
    <3>2. CASE ~ret /\ Back(FALSE)
      BY <1>3, <2>1, <3>2, BackPositions DEF FormClosed, Positions, Phases
    <3> QED BY <2>1, <3>1, <3>2
  <2>3. NoDrop => Flags'
    BY <1>3, <2>1 DEF FormClosed, Flags, Positions, Phases, FlagPhases, AnyDirty
  <2>4. NoExport /\ NoSwap => Keys'
    BY <1>3, <2>1 DEF FormClosed, Keys, KeyOfOpenPackage, Positions, Phases, KeyPhases,
         Works, Alive
  <2> QED BY <2>1, <2>2, <2>3, <2>4 DEF Lands, Back, Faults
<1>4. CASE FormGone
  <2>1. Top = "gone" /\ Back(FALSE)
    BY <1>4, TopLinks, ReturnLinks DEF FormGone, At, Follows, Frames, Positions, Phases
  <2>2. Positions'
    BY <1>4, <2>1, BackPositions DEF FormGone, Control, Positions, Phases
  <2>3. Linked' /\ Control
    BY <1>4, <2>1 DEF FormGone, Lands, Back
  <2> QED BY <2>2, <2>3, ControlKeeps
<1>5. CASE ElevateDecides
  <2>1. /\ Top = "elevate"
        /\ \/ Back(TRUE)
           \/ Back(FALSE)
           \/ Lands("close", "launch")
    BY <1>5, TopLinks, CallLinks, ReturnLinks DEF ElevateDecides, At, Follows, Frames,
         Positions, Phases
  <2>2. Positions'
    <3>1. CASE Back(TRUE)
      BY <1>5, <2>1, <3>1, BackPositions DEF ElevateDecides, Control, Positions, Phases
    <3>2. CASE Back(FALSE)
      BY <1>5, <2>1, <3>2, BackPositions DEF ElevateDecides, Control, Positions, Phases
    <3>3. CASE Lands("close", "launch")
      BY <1>5, <2>1, <3>3 DEF ElevateDecides, Control, Positions, Phases, FlagPhases,
           KeyPhases, Lands, Faults, Follows, AnyDirty, Works, Alive
    <3> QED BY <2>1, <3>1, <3>2, <3>3
  <2>3. Linked' /\ Control
    BY <1>5, <2>1 DEF ElevateDecides, Lands, Back
  <2> QED BY <2>2, <2>3, ControlKeeps
<1>6. CASE ElevateLaunches
  <2>1. /\ Top = "launch"
        /\ \/ Back(FALSE)
           \/ Lands("launched", Below)
    BY <1>6, TopLinks, GotoLinks, ReturnLinks DEF ElevateLaunches, At, Follows, Frames,
         Positions, Phases
  <2>2. Positions'
    <3>1. CASE Back(FALSE)
      BY <1>6, <2>1, <3>1, BackPositions DEF ElevateLaunches, Control, Positions, Phases
    <3>2. CASE Lands("launched", Below)
      BY <1>6, <2>1, <3>2 DEF ElevateLaunches, Control, Positions, Phases, FlagPhases,
           KeyPhases, Lands, Faults, Follows, AnyDirty, Works, Alive
    <3> QED BY <2>1, <3>1, <3>2
  <2>3. Linked' /\ Control
    BY <1>6, <2>1 DEF ElevateLaunches, Lands, Back
  <2> QED BY <2>2, <2>3, ControlKeeps
<1>7. CASE ElevateExits
  <2>1. Top = "launched" /\ Lands("close", "exit")
    BY <1>7, TopLinks, CallLinks DEF ElevateExits, At, Follows, Frames, Positions, Phases
  <2>2. Positions'
    BY <1>7, <2>1 DEF ElevateExits, Control, Positions, Phases, FlagPhases, KeyPhases,
         Lands, Faults, Follows, AnyDirty, Works, Alive
  <2>3. Linked' /\ Control
    BY <1>7, <2>1 DEF ElevateExits, Lands, Back
  <2> QED BY <2>2, <2>3, ControlKeeps
<1> QED BY <1>1, <1>2, <1>3, <1>4, <1>5, <1>6, <1>7 DEF Leave

\* The operations on the registry, the export and the engine swap.
LEMMA RegistryKeepsSession ==
  ASSUME TypeOK, SessionInv, RegistryOps PROVE SessionInv'
<1> USE DEF SessionInv, pkg, reg, view, work
<1>1. CASE RegChange
  <2>1. Top = "regChange" /\ ret /\ Back(TRUE)
    BY <1>1, TopLinks, ReturnLinks DEF RegChange, At, Follows, Frames, Positions, Phases
  <2>2. Positions'
    BY <1>1, <2>1, BackPositions DEF RegChange, Positions, Phases, Edited
  <2>3. NoDrop => Flags'
    BY <1>1, <2>1 DEF RegChange, TypeOK, Parts, Flags, Positions, Phases, FlagPhases,
         AnyDirty, Edited
  <2>4. NoExport /\ NoSwap => Keys'
    BY <1>1, <2>1 DEF RegChange, Keys, KeyOfOpenPackage, Positions, Phases, KeyPhases,
         Works, Alive, Edited
  <2> QED BY <2>1, <2>2, <2>3, <2>4 DEF Lands, Back, Faults
<1>2. CASE RegChangeCancelled
  <2>1. Top = "regChange" /\ Back(FALSE)
    BY <1>2, TopLinks, ReturnLinks DEF RegChangeCancelled, At, Follows, Frames, Positions,
         Phases
  <2>2. Positions'
    BY <1>2, <2>1, BackPositions DEF RegChangeCancelled, Control, Positions, Phases
  <2>3. Linked' /\ Control
    BY <1>2, <2>1 DEF RegChangeCancelled, Lands, Back
  <2> QED BY <2>2, <2>3, ControlKeeps
<1>3. CASE ImportWithoutKey
  <2>1. /\ Top \in {"regChange", "dropReg"}
        /\ \/ Faults
           \/ Back(TRUE)
    BY <1>3, TopLinks, ReturnLinks, ThrowLinks DEF ImportWithoutKey, At, Follows, Frames,
         Positions, Phases
  <2>2. Positions'
    <3>1. CASE Faults
      BY <1>3, <2>1, <3>1 DEF ImportWithoutKey, Positions, Phases, FlagPhases, KeyPhases,
           Lands, Faults, Follows, AnyDirty, Works, Alive
    <3>2. CASE Back(TRUE)
      BY <1>3, <2>1, <3>2, BackPositions DEF ImportWithoutKey, Positions, Phases
    <3> QED BY <2>1, <3>1, <3>2
  <2>3. NoDrop => Flags'
    BY <1>3, <2>1 DEF ImportWithoutKey, TypeOK, Parts, Flags, Positions, Phases,
         FlagPhases, AnyDirty
  <2>4. NoExport /\ NoSwap => Keys'
    BY <1>3, <2>1 DEF ImportWithoutKey, Keys, KeyOfOpenPackage, Positions, Phases,
         KeyPhases, Works, Alive
  <2> QED BY <2>1, <2>2, <2>3, <2>4 DEF Lands, Back, Faults
<1>4. CASE DropReg
  <2>1. Top = "dropReg" /\ Back(TRUE)
    BY <1>4, TopLinks, ReturnLinks DEF DropReg, At, Follows, Frames, Positions, Phases
  <2>2. Positions'
    BY <1>4, <2>1, BackPositions DEF DropReg, Positions, Phases, Edited
  <2>3. NoDrop => Flags'
    BY <1>4, <2>1 DEF DropReg, Flags, Positions, Phases, FlagPhases, AnyDirty, Edited
  <2>4. NoExport /\ NoSwap => Keys'
    BY <1>4, <2>1 DEF DropReg, Keys, KeyOfOpenPackage, Positions, Phases, KeyPhases,
         Works, Alive, Edited
  <2> QED BY <2>1, <2>2, <2>3, <2>4 DEF Lands, Back, Faults
<1>5. CASE Export
  <2> USE DEF Export, ExportXml, ExportSetsLoaded, ExportClearsThread
  <2>1. /\ Top \in ExportSteps
        /\ \/ Back(TRUE)
           \/ Lands("exportGot", Below)
           \/ Lands("exportLoaded", Below)
    BY <1>5, TopLinks, GotoLinks, ReturnLinks DEF At, Follows, Frames, Positions, Phases
  <2>2. Positions'
    <3>1. CASE Back(TRUE)
      BY <1>5, <2>1, <3>1, BackPositions DEF Positions, Phases
    <3>2. CASE Lands("exportGot", Below) \/ Lands("exportLoaded", Below)
      BY <1>5, <2>1, <3>2 DEF Positions, Phases, FlagPhases, KeyPhases, Lands, Faults,
           Follows, AnyDirty, Works, Alive
    <3> QED BY <2>1, <3>1, <3>2
  <2>3. NoDrop => Flags'
    BY <1>5 DEF Flags
  <2>4. NoExport /\ NoSwap => Keys'
    BY <1>5 DEF Keys, KeyOfOpenPackage, Works, Alive, KeyOfHandle
  <2> QED BY <2>1, <2>2, <2>3, <2>4 DEF Lands, Back, Faults
<1>6. CASE SwapBefore
  <2>1. /\ Top = "swap"
        /\ \/ Back(FALSE)
           \/ Lands("swapNamed", Below)
           \/ Lands("swapUnnamed", Below)
    BY <1>6, TopLinks, GotoLinks, ReturnLinks DEF SwapBefore, At, Follows, Frames,
         Positions, Phases
  <2>2. Positions'
    <3>1. CASE Back(FALSE)
      BY <1>6, <2>1, <3>1, BackPositions DEF SwapBefore, Positions, Phases
    <3>2. CASE Lands("swapNamed", Below)
      BY <1>6, <2>1, <3>2 DEF SwapBefore, Positions, Phases, FlagPhases, KeyPhases, Lands,
           Faults, Follows, AnyDirty, Works, Alive
    <3>3. CASE Lands("swapUnnamed", Below)
      BY <1>6, <2>1, <3>3 DEF SwapBefore, Positions, Phases, FlagPhases, KeyPhases, Lands,
           Faults, Follows, AnyDirty, Works, Alive
    <3> QED BY <2>1, <3>1, <3>2, <3>3
  <2>3. NoDrop => Flags'
    BY <1>6, <2>1, NothingDirty DEF SwapBefore, Flags, Positions, Phases, FlagPhases,
         AnyDirty
  <2>4. NoExport /\ NoSwap => Keys'
    BY <1>6, <2>1 DEF SwapBefore, Keys, KeyOfOpenPackage, Positions, Phases, KeyPhases,
         Works, Alive
  <2> QED BY <2>1, <2>2, <2>3, <2>4 DEF Lands, Back, Faults
<1>7. CASE SwapAfter
  <2>1. Top \in {"swapNamed", "swapUnnamed"} /\ Back(TRUE)
    BY <1>7, TopLinks, ReturnLinks DEF SwapAfter, At, Follows, Frames, Positions, Phases
  <2>2. Positions'
    BY <1>7, <2>1, BackPositions DEF SwapAfter, Positions, Phases
  <2>3. NoDrop => Flags'
    BY <1>7, <2>1 DEF SwapAfter, Flags, Positions, Phases, FlagPhases, AnyDirty
  <2>4. NoExport /\ NoSwap => Keys'
    BY <1>7, <2>1 DEF SwapAfter, Keys, KeyOfOpenPackage, Positions, Phases, KeyPhases,
         Works, Alive
  <2> QED BY <2>1, <2>2, <2>3, <2>4 DEF Lands, Back, Faults
<1>8. CASE Continue
  <2>1. Top = "fault" /\ Back(FALSE)
    BY <1>8, TopLinks, ReturnLinks DEF Continue, At, Follows, Frames, Positions, Phases
  <2>2. Positions'
    BY <1>8, <2>1, BackPositions DEF Continue, Control, Positions, Phases
  <2>3. Linked' /\ Control
    BY <1>8, <2>1 DEF Continue, Lands, Back
  <2> QED BY <2>2, <2>3, ControlKeeps
<1> QED BY <1>1, <1>2, <1>3, <1>4, <1>5, <1>6, <1>7, <1>8 DEF RegistryOps

\* The registry tab looks for a loader; one it starts has asked for no key yet.
LEMMA SelectKeepsSession ==
  ASSUME TypeOK, SessionInv, Select PROVE SessionInv'
<1> USE DEF SessionInv, pkg, reg, view, work, Select, SelectReads, SelectReadsAgain
<1>1. UNCHANGED <<opened, session, workKey, timer, regUI, dirty, unsaved>>
  OBVIOUS
<1>2. /\ Top \in {"select", "selectAlive"}
      /\ Back(TRUE) \/ Lands("selectAlive", Below) \/ Faults
  BY TopLinks, GotoLinks, ReturnLinks, ThrowLinks DEF At, Follows, Frames
<1>3. Positions'
  <2>1. CASE Back(TRUE)
    BY <1>1, <1>2, <2>1, BackPositions
  <2>2. CASE Lands("selectAlive", Below)
    BY <1>1, <1>2, <2>2 DEF Positions, Phases, FlagPhases, KeyPhases, Lands, Follows,
         AnyDirty
  <2>3. CASE Faults
    BY <2>3 DEF Faults, Positions, Phases, FlagPhases, KeyPhases
  <2> QED BY <1>2, <2>1, <2>2, <2>3
<1>4. \A l \in Loaders : loader'[l] = loader[l] \/ loader'[l].key = NoKey
  <2>1. CASE StartsLoader
    <3>1. PICK l \in Loaders : loader' = [loader EXCEPT ![l] = [Dead EXCEPT !.at = "start"]]
      BY <2>1 DEF StartsLoader
    <3> QED BY <3>1 DEF Dead, TypeOK
  <2>2. CASE UNCHANGED loader
    BY <2>2
  <2> QED BY <2>1, <2>2
<1>5. NoExport /\ NoSwap => Keys'
  BY <1>1, <1>4 DEF Keys, KeyOfOpenPackage, Works, Alive
<1>6. NoDrop => Flags'
  BY <1>1 DEF Flags
<1> QED BY <1>2, <1>3, <1>5, <1>6 DEF Lands, Back, Faults

\* Waiting for the loader leaves the fields alone; when it is over no loader works.
LEMMA StopKeepsSession ==
  ASSUME TypeOK, NoExport => LoaderInv, SessionInv, ThreadedRegLoadStop PROVE SessionInv'
<1> USE DEF SessionInv, pkg, reg, view, work
<1>1. /\ UNCHANGED <<opened, session, workKey, timer, regUI, dirty, unsaved>>
      /\ \A l \in Loaders : Works(l)' => Works(l) /\ loader'[l].key = loader[l].key
  <2>1. UNCHANGED <<opened, session, workKey, timer, regUI, dirty, unsaved>>
    BY DEF ThreadedRegLoadStop, StopBegin, StopReads, StopJoined, StopJoined3s, StopAbort
  <2>2. \/ UNCHANGED loader
        \/ /\ regLoadThread \in Loaders
           /\ loader' = [loader EXCEPT ![regLoadThread].aborted = TRUE]
    BY DEF ThreadedRegLoadStop, StopBegin, StopReads, StopJoined, StopJoined3s, StopAbort,
         TypeOK
  <2> QED BY <2>1, <2>2 DEF Works, Alive, TypeOK
<1>2. Linked' /\ Positions'
  <2> USE DEF At, Follows, Frames
  <2>n. NoExport /\ (regLoadThread = NoLoader \/ ~Alive(regLoadThread)) => \A l \in Loaders : ~Works(l)
    BY EditorAssumption DEF LoaderInv, Works
  <2>1. ASSUME Lands("join", Below) \/ Lands("joining", Below) \/ Lands("alive3s", Below)
                 \/ Lands("joining3s", Below) \/ Lands("abort", Below),
               Top \in StopSteps => Top' \in StopSteps, Top \in Stop3sSteps => Top' \in Stop3sSteps
        PROVE  Linked' /\ Positions'
    BY <1>1, <2>1 DEF Positions, Phases, FlagPhases, KeyPhases, Lands, AnyDirty
  <2>2. ASSUME Top \in StopSteps \cup Stop3sSteps, Back(TRUE),
               Top \in Stop3sSteps /\ NoExport => \A l \in Loaders : ~Works(l)'
        PROVE  Linked' /\ Positions'
    BY <1>1, <2>2, BackPositions DEF Back
  <2>3. ASSUME Faults PROVE Linked' /\ Positions'
    BY <2>3 DEF Faults, Positions, Phases, FlagPhases, KeyPhases
  <2>4. CASE StopBegin("stop", "join") \/ StopBegin("stop3s", "alive3s")
    BY <1>1, <2>n, <2>1, <2>2, <2>4, TopLinks, GotoLinks, ReturnLinks DEF StopBegin, Lands
  <2>5. CASE StopReads("join", "joining") \/ StopReads("alive3s", "joining3s")
    BY <1>1, <2>n, <2>1, <2>2, <2>3, <2>5, TopLinks, GotoLinks, ReturnLinks, ThrowLinks
       DEF StopReads, Lands
  <2>6. CASE StopJoined
    BY <2>2, <2>6, TopLinks, ReturnLinks DEF StopJoined
  <2>7. CASE StopJoined3s
    BY <2>1, <2>7, TopLinks, GotoLinks DEF StopJoined3s, Lands
  <2>8. CASE StopAbort
    <3>1. CASE regLoadThread = NoLoader
      BY <2>3, <2>8, <3>1, ThrowLinks DEF StopAbort
    <3>2. CASE regLoadThread # NoLoader
      <4>1. NoExport => \A l \in Loaders : ~Works(l)'
        BY <1>1, <2>8, <3>2 DEF StopAbort, LoaderInv, Works, Alive
      <4> QED BY <2>2, <2>8, <3>2, <4>1, TopLinks, ReturnLinks DEF StopAbort
    <3> QED BY <3>1, <3>2
  <2> QED BY <2>4, <2>5, <2>6, <2>7, <2>8 DEF ThreadedRegLoadStop
<1> QED BY <1>1, <1>2 DEF Flags, Keys, KeyOfOpenPackage

\* A loader asks for the key of the handle that is open, and no later handle
\* is opened while it works.
LEMMA LoaderKeepsSession ==
  ASSUME TypeOK, SessionInv, NEW l \in Loaders, Loader(l) PROVE SessionInv'
<1> USE DEF SessionInv, pkg, reg, view, work
<1>1. UNCHANGED <<ui, ret, opened, session, timer, regUI, dirty, unsaved>>
  BY DEF Loader, LoaderEnters, LoaderStoresKey, LoaderSetsLoaded, LoaderClearsThread,
       LoaderEnds
<1>2. \A k \in Loaders : Works(k)' => Works(k)
  BY DEF Loader, LoaderEnters, LoaderStoresKey, LoaderSetsLoaded, LoaderClearsThread,
       LoaderEnds,
     Works, Alive, LoaderAt, Dead, TypeOK
<1>3. Linked' /\ Positions'
  BY <1>1, <1>2 DEF Linked, Positions, Phases, FlagPhases, KeyPhases, Top, Below, AnyDirty
<1>4. NoDrop => Flags'
  BY <1>1 DEF Flags
<1>5. NoExport /\ NoSwap => Keys'
  <2> USE DEF Keys, KeyOfOpenPackage, Works, Alive, LoaderAt, Dead
  <2>1. CASE LoaderEnters(l)
    BY <1>1, <1>2, <2>1 DEF LoaderEnters, KeyOfHandle, TypeOK
  <2>2. CASE LoaderStoresKey(l)
    BY <1>1, <1>2, <2>2 DEF LoaderStoresKey, TypeOK
  <2>3. CASE LoaderSetsLoaded(l)
    BY <1>1, <1>2, <2>3 DEF LoaderSetsLoaded, TypeOK
  <2>4. CASE LoaderClearsThread(l)
    BY <1>1, <1>2, <2>4 DEF LoaderClearsThread, TypeOK
  <2>5. CASE LoaderEnds(l)
    BY <1>1, <1>2, <2>5 DEF LoaderEnds, TypeOK
  <2> QED BY <2>1, <2>2, <2>3, <2>4, <2>5 DEF Loader
<1> QED BY <1>3, <1>4, <1>5

\* A handler that the user starts, with what it does on its return under it.
LEMMA StartLinks ==
  ASSUME NEW f \in Frames, NEW k \in Frames
  PROVE  /\ ui' = <<f>> => Linked' /\ Top' = f /\ Below' = "none"
         /\ ui' = <<f, k>> /\ k \in Lower /\ Follows(f, k) => Linked' /\ Top' = f /\ Below' = k
<1>1. CASE ui' = <<f>>
  <2>1. Len(ui') = 1 /\ ui'[1] = f /\ ui' # <<>> /\ ui' # <<f, k>>
    BY <1>1
  <2> QED BY <2>1 DEF Linked, Top, Below
<1>2. CASE ui' = <<f, k>>
  <2>1. Len(ui') = 2 /\ ui'[1] = f /\ ui'[2] = k /\ ui' # <<>> /\ ui' # <<f>>
    BY <1>2
  <2>2. \A n \in 1 .. Len(ui') : n > 1 => n = 2 /\ n - 1 = 1
    BY <2>1
  <2> QED BY <2>1, <2>2 DEF Linked, Top, Below
<1> QED BY <1>1, <1>2

\* What the user does from the message loop, and the tick that shows the registry.
LEMMA UserKeepsSession ==
  ASSUME TypeOK, SessionInv,
         \/ regProgressTimer_Tick \/ UserStarts \/ Terminated
         \/ \E p \in EditParts : Edit(p)
         \/ \E t \in {"general", "registry"} : SelectTab(t)
  PROVE  SessionInv'
<1> USE DEF SessionInv, pkg, reg, view, work
<1>1. CASE regProgressTimer_Tick
  <2>1. /\ UNCHANGED <<ui, ret, opened, session, workKey, loader, unsaved>>
        /\ dirty' = [dirty EXCEPT !["reg"] = FALSE] /\ timer /\ ~timer'
    BY <1>1 DEF regProgressTimer_Tick, OnPackageOpenUI
  <2>2. ~AnyDirty => ~AnyDirty'
    BY <2>1 DEF AnyDirty, TypeOK
  <2>3. Linked' /\ Positions'
    BY <2>1, <2>2 DEF Linked, Positions, Phases, FlagPhases, KeyPhases, Top, Below, Works,
         Alive
  <2> QED BY <2>1, <2>3 DEF Flags, Keys, KeyOfOpenPackage, Works, Alive, TypeOK
<1>2. CASE UserStarts
  <2>1. CASE \E f \in Frames : ui' = <<f>>
    <3>1. PICK f \in Frames : ui' = <<f>>
      BY <2>1
    <3>2. \/ f \in {"open", "new", "formClosing", "save", "saveas", "close", "export"}
          \/ ~NoDrop /\ f = "dropReg"
          \/ ~NoSwap /\ f = "swap"
      BY <1>2, <3>1 DEF UserStarts, Start, NoDrop, NoSwap
    <3>3. Linked' /\ Positions'
      BY <3>1, <3>2, StartLinks DEF Positions, Phases, FlagPhases, KeyPhases
    <3> QED BY <1>2, <3>3, ControlKeeps DEF UserStarts
  <2>2. CASE ui' = <<"close", "exit">>
    <3>1. Linked' /\ Positions'
      BY <2>2, StartLinks DEF Positions, Phases, FlagPhases, KeyPhases, Frames, Follows
    <3> QED BY <1>2, <3>1, ControlKeeps DEF UserStarts
  <2>3. CASE ui' = <<"elevate", "regChange">>
    <3>1. regUI /\ timer' = timer
      BY <1>2, <2>3 DEF UserStarts, Start, Control
    <3>2. Linked' /\ Positions'
      BY <2>3, <3>1, StartLinks DEF Positions, Phases, FlagPhases, KeyPhases, Frames,
           Follows, Flags
    <3> QED BY <1>2, <3>2, ControlKeeps DEF UserStarts
  <2> QED BY <1>2, <2>1, <2>2, <2>3 DEF UserStarts, Start, Frames
<1>3. CASE Terminated
  BY <1>3 DEF Terminated, vars, Linked, Positions, Phases, FlagPhases, KeyPhases, Top,
       Below,
     AnyDirty, Flags, Keys, KeyOfOpenPackage, Works, Alive
<1>4. ASSUME NEW p \in EditParts, Edit(p) PROVE SessionInv'
  <2>1. /\ ui = <<>> /\ UNCHANGED <<ui, ret, opened, session, workKey, loader, timer, regUI>>
        /\ p \in Parts /\ (p = "reg" => regUI)
        /\ dirty' = [dirty EXCEPT ![p] = TRUE]
        /\ unsaved' = IF opened THEN unsaved \cup {p} ELSE unsaved
    BY <1>4, EditorAssumption DEF Edit, Edited, Idle, Parts
  <2>2. Linked' /\ Positions'
    BY <2>1 DEF Linked, Positions, Phases, FlagPhases, KeyPhases, Top, Below
  <2> QED BY <2>1, <2>2 DEF Flags, Keys, KeyOfOpenPackage, Works, Alive, TypeOK
<1>5. ASSUME NEW t \in {"general", "registry"}, SelectTab(t) PROVE SessionInv'
  <2>1. /\ ui = <<>> /\ ui' \in {<<>>, <<"select">>}
        /\ UNCHANGED <<ret, opened, session, workKey, loader, timer, regUI, dirty, unsaved>>
    BY <1>5 DEF SelectTab, Idle
  <2>2. Linked' /\ Positions'
    <3>1. CASE ui' = <<>>
      BY <2>1, <3>1 DEF Linked, Positions, Phases, FlagPhases, KeyPhases, Top, Below
    <3>2. CASE ui' = <<"select">>
      BY <2>1, <3>2, StartLinks DEF Positions, Phases, FlagPhases, KeyPhases, Frames
    <3> QED BY <2>1, <3>1, <3>2
  <2> QED BY <2>1, <2>2 DEF Flags, Keys, KeyOfOpenPackage, Works, Alive
<1> QED BY <1>1, <1>2, <1>3, <1>4, <1>5

\* What holds whatever the instance, with the loaders' part where nothing is exported.
EditorInv == TypeOK /\ SessionInv /\ (NoExport => LoaderInv)

\* Every step of every actor.
LEMMA StepKeepsSession ==
  ASSUME TypeOK, NoExport => LoaderInv, SessionInv, [Next]_vars PROVE SessionInv'
<1>1. CASE \E l \in Loaders : Loader(l)
  BY <1>1, LoaderKeepsSession
<1>2. CASE UIStep
  BY <1>2, StopKeepsSession, OpenKeepsSession, CloseKeepsSession, SaveKeepsSession,
     NewKeepsSession, LeaveKeepsSession, RegistryKeepsSession, SelectKeepsSession
   DEF UIStep
<1>3. CASE \/ regProgressTimer_Tick \/ UserStarts \/ Terminated
           \/ \E p \in EditParts : Edit(p)
           \/ \E t \in {"general", "registry"} : SelectTab(t)
  BY <1>3, UserKeepsSession
<1>4. CASE UNCHANGED vars
  BY <1>4 DEF vars, pkg, reg, view, work, SessionInv, Linked, Positions, Phases, FlagPhases,
     KeyPhases, Top, Below, AnyDirty, Flags, Keys, KeyOfOpenPackage, Works, Alive
<1> QED BY <1>1, <1>2, <1>3, <1>4 DEF Next

\* The types, the session and, without the export, the loaders: for every instance.
THEOREM SessionInvariance == Spec => []EditorInv
<1>1. Init => SessionInv
  <2> SUFFICES ASSUME Init PROVE SessionInv
    OBVIOUS
  <2>1. CASE ui = <<>>
    BY <2>1 DEF Init, SessionInv, Linked, Positions, Phases, FlagPhases, KeyPhases, Top,
         Below,
       Flags, Keys, KeyOfOpenPackage, Works, Alive, Dead
  <2>2. CASE ui = <<"open">>
    <3>1. ui # <<>> /\ Len(ui) = 1 /\ ui[1] = "open"
      BY <2>2
    <3> QED BY <3>1 DEF Init, SessionInv, Linked, Positions, Phases, FlagPhases, KeyPhases,
       Top, Below, Flags, Keys, KeyOfOpenPackage, Works, Alive, Dead
  <2> QED BY <2>1, <2>2 DEF Init
<1>2. TypeOK /\ (NoExport => LoaderInv) /\ SessionInv /\ [Next]_vars => SessionInv'
  BY StepKeepsSession
<1>3. CASE NoExport
  <2>1. Spec => []LoaderInv
    BY <1>3, LoaderInvariance
  <2> QED BY <1>1, <1>2, <2>1, EditorTypes, PTL DEF Spec, EditorInv
<1>4. CASE ~NoExport
  <2>1. TypeOK /\ SessionInv /\ [Next]_vars => SessionInv'
    BY <1>2, <1>4
  <2>2. TypeOK /\ SessionInv => EditorInv
    BY <1>4 DEF EditorInv
  <2> QED BY <1>1, <2>1, <2>2, EditorTypes, PTL DEF Spec
<1> QED BY <1>3, <1>4

\* The registry work key that is shown and edited belongs to the package that is
\* open, whatever the loaders do, unless the editor exports or swaps the engine
\* (OnPackageOpenBeforeUI, OnPackageClose).
THEOREM KeyIsOfOpenPackage == ASSUME NoExport, NoSwap PROVE Spec => []KeyOfOpenPackage
<1>1. EditorInv => KeyOfOpenPackage
  BY NoExport, NoSwap DEF EditorInv, SessionInv, Keys
<1> QED BY <1>1, SessionInvariance, PTL

\* No tick, failed save, engine swap or reopening clears the flag of work that is
\* unsaved; only a .reg file dropped before the tick can lose it (PropertyChange,
\* OnPackageOpenUI).
THEOREM WorkIsFlagged == ASSUME NoDrop PROVE Spec => []UnsavedWorkIsFlagged
<1>1. EditorInv => UnsavedWorkIsFlagged
  BY NoDrop DEF EditorInv, SessionInv, Flags, UnsavedWorkIsFlagged
<1> QED BY <1>1, SessionInvariance, PTL

\* No handler closes a package over edits that the user neither saved nor gave up
\* (PackageClose, saveToolStripMenuItem_Click, CloseAndReopen_Before).
THEOREM NothingDiscarded == ASSUME NoDrop PROVE Spec => NoSilentDiscard
<1>1. ASSUME EditorInv, [Next]_vars, opened, ~opened' PROVE unsaved = {}
  <2> USE DEF pkg, reg, view, work, EditorInv, SessionInv
  <2>1. CloseShuts \/ SaveGivesUp \/ SwapBefore
    BY <1>1 DEF Next, UIStep, Loader, LoaderEnters, LoaderStoresKey, LoaderSetsLoaded,
       LoaderClearsThread, LoaderEnds, regProgressTimer_Tick, Edit, SelectTab, UserStarts,
       Terminated, vars, ThreadedRegLoadStop, StopBegin, StopReads, StopJoined,
       StopJoined3s,
       StopAbort, PackageOpen, OpenBegins, OpenAfterClose, OpenFails, OpenSucceeds,
       OpenShows,
       PackageClose, CloseBegins, CloseAnswerYes, CloseAnswerNo, CloseAfterSave,
       CloseStopsLoader, Save, SaveFails, SaveNeedsName, SaveAs, SaveSucceeds, SaveCloses,
       SaveReopens, SaveReopened, New, NewCloses, NewFails, NewCreates, NewLoads, Leave,
       ExitCloses, FormClosing, FormClosed, FormGone, ElevateDecides, ElevateLaunches,
       ElevateExits, RegistryOps, RegChange, RegChangeCancelled, ImportWithoutKey, DropReg,
       Export, ExportXml, ExportSetsLoaded, ExportClearsThread, SwapAfter, Continue,
       Select, SelectReads, SelectReadsAgain, Control
  <2>2. CASE CloseShuts
    BY <1>1, <2>2, NoDrop, TopLinks DEF CloseShuts, At, Positions, FlagPhases
  <2>3. CASE SaveGivesUp
    BY <1>1, <2>3, TopLinks DEF SaveGivesUp, At, Positions, Phases
  <2>4. CASE SwapBefore
    BY <1>1, <2>4, NoDrop, NothingDirty DEF SwapBefore
  <2> QED BY <2>1, <2>2, <2>3, <2>4
<1>2. EditorInv /\ [Next]_vars => [opened /\ ~opened' => unsaved = {}]_vars
  BY <1>1
<1> QED BY <1>2, SessionInvariance, PTL DEF Spec, NoSilentDiscard
=============================================================================

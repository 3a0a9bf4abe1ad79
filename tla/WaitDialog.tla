------------------------------ MODULE WaitDialog ------------------------------
(***************************************************************************)
(* The "please wait" window of the Package Editor (PleaseWait in           *)
(* src/Classes/Common/Common.cs).  Each PleaseWaitBegin starts a thread     *)
(* that shows a window; PleaseWaitEnd closes one by setting a named         *)
(* auto-reset event.  Nobody keeps a handle of the event but a thread that  *)
(* waits for it, so the garbage collector may take the event away.          *)
(***************************************************************************)
CONSTANT Dialog     \* the threads of PleaseWaitJob; one is used again when it ended

VARIABLES
    dialog,     \* of each thread: "none", "start", or "up" and waiting
    exists,     \* is there an event named pleaseWaitDialogEvent?
    signalled   \* is it set?

dialogVars == <<dialog, exists, signalled>>

DialogTypeOK ==
    /\ dialog \in [Dialog -> {"none", "start", "up"}]
    /\ exists \in BOOLEAN /\ signalled \in BOOLEAN
    /\ signalled => exists

DialogInit ==
    /\ dialog = [d \in Dialog |-> "none"]
    /\ exists = FALSE /\ signalled = FALSE

Up == {d \in Dialog : dialog[d] = "up"}

\* faulty variant: the event is reset for the new window
PleaseWaitBegin_Resets ==
    /\ \E d \in Dialog : dialog[d] = "none" /\ dialog' = [dialog EXCEPT ![d] = "start"]
    /\ exists' = TRUE /\ signalled' = FALSE

\* The constructor opens an event of that name that is there already, set or not.
PleaseWaitBegin ==
    /\ \E d \in Dialog : dialog[d] = "none" /\ dialog' = [dialog EXCEPT ![d] = "start"]
    /\ exists' = TRUE
    /\ UNCHANGED signalled

\* The end of Thread.Sleep(500) in PleaseWaitBegin: time enough for the new
\* window to come up and for a thread, which looks every 10 ms, to see its signal.
Slept ==
    /\ \A d \in Dialog : dialog[d] # "start"
    /\ signalled => Up = {}
    /\ UNCHANGED dialogVars

PleaseWaitEnd ==
    /\ signalled' = exists
    /\ UNCHANGED <<dialog, exists>>

Display(d) ==
    /\ dialog[d] = "start"
    /\ dialog' = [dialog EXCEPT ![d] = "up"]
    /\ UNCHANGED <<exists, signalled>>

Ends(d) ==
    /\ dialog[d] = "up" /\ signalled
    /\ dialog' = [dialog EXCEPT ![d] = "none"]
    /\ signalled' = FALSE
    /\ UNCHANGED exists

DialogThread(d) == Display(d) \/ Ends(d)

\* The handles Begin and End have dropped are collected: without a thread that
\* holds one the event is gone, and whether it was set.
Collected ==
    /\ exists /\ \A d \in Dialog : dialog[d] = "none"
    /\ exists' = FALSE /\ signalled' = FALSE
    /\ UNCHANGED dialog
=============================================================================

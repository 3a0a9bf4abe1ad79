------------------------------- MODULE Mutex -------------------------------
(***************************************************************************)
(* What a critical section promises its clients: a re-entrant lock.  A     *)
(* thread may take it any number of times, and gives it back as often;     *)
(* between the two no other thread has it.                                 *)
(*                                                                         *)
(* CriticalSection implements this specification with interlocked counters *)
(* and a semaphore; MessageQueue is built on the promise alone.            *)
(***************************************************************************)
EXTENDS Naturals

CONSTANT Thread

VARIABLE held   \* held[t]: how often t has entered and not yet left

Init == held = [t \in Thread |-> 0]

\* Nobody but t is inside.
FreeFor(t) == \A u \in Thread \ {t} : held[u] = 0

Enter(t) ==
    /\ FreeFor(t)
    /\ held' = [held EXCEPT ![t] = @ + 1]

Leave(t) ==
    /\ held[t] > 0
    /\ held' = [held EXCEPT ![t] = @ - 1]

Next == \E t \in Thread : Enter(t) \/ Leave(t)

Spec == Init /\ [][Next]_held
=============================================================================

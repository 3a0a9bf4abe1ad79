--------------------------- MODULE CriticalSection ---------------------------
(***************************************************************************)
(* The critical section of WinPR on the systems that are not Windows       *)
(* (src/Players/winpr/libwinpr/synch/critical.c): an interlocked counter,  *)
(* an owner, a recursion count and a POSIX semaphore.                      *)
(*                                                                         *)
(* Every access to a field another thread may touch is a step of its own,  *)
(* so the calls of the threads interleave as the machine interleaves them. *)
(* A thread is a client that enters, tries and leaves as it likes, but     *)
(* leaves only what it has entered.  pc[t] names the step t takes next in  *)
(* the call it is in, "out" when it is in none.                            *)
(***************************************************************************)
EXTENDS Integers, FiniteSets

CONSTANTS
    Thread,      \* the threads that use the section
    NoThread,    \* OwningThread == NULL
    SpinCounts,  \* the spin counts SetCriticalSectionSpinCount may store
    MaxDepth,    \* bound: how deep a client nests its calls
    Interrupts   \* may sem_wait return early, interrupted by a signal?

ASSUME CriticalAssumption ==
    /\ NoThread \notin Thread
    /\ SpinCounts \subseteq Nat
    /\ 0 \in SpinCounts
    /\ MaxDepth \in Nat
    /\ Interrupts \in BOOLEAN

VARIABLES
    LockCount,       \* -1 when free, else one less than the entries under way
    SpinCount,
    RecursionCount,
    OwningThread,
    LockSemaphore,   \* the count of the semaphore
    live,            \* initialised and not yet deleted
    pc,              \* the next step of each thread's call
    trying,          \* trying[t]: TryEnter was called by the client, not by Enter
    spin,            \* the local SpinCount of EnterCriticalSection
    depth            \* what the client knows: entries it has not yet left

fields == <<LockCount, SpinCount, RecursionCount, OwningThread, LockSemaphore, live>>
vars == <<fields, pc, trying, spin, depth>>

Steps == {"out", "try", "owned", "count", "spin", "spincas", "inc", "test",
          "wait", "owncount", "ownthread", "clear", "unlock", "post", "decrement"}

TypeOK ==
    /\ LockCount \in Int
    /\ SpinCount \in SpinCounts
    /\ RecursionCount \in Int
    /\ OwningThread \in Thread \cup {NoThread}
    /\ LockSemaphore \in Nat
    /\ live \in BOOLEAN
    /\ pc \in [Thread -> Steps]
    /\ trying \in [Thread -> BOOLEAN]
    /\ spin \in [Thread -> Nat]
    /\ depth \in [Thread -> Nat]

Init ==
    /\ LockCount = -1
    /\ SpinCount \in SpinCounts
    /\ RecursionCount = 0
    /\ OwningThread = NoThread
    /\ LockSemaphore = 0
    /\ live = TRUE
    /\ pc = [t \in Thread |-> "out"]
    /\ trying = [t \in Thread |-> FALSE]
    /\ spin = [t \in Thread |-> 0]
    /\ depth = [t \in Thread |-> 0]

\* t goes on with step s of its call.
Goto(t, s) == pc' = [pc EXCEPT ![t] = s]

\* t's call returns, leaving the client n entries deep.
Returns(t, n) ==
    /\ Goto(t, "out")
    /\ depth' = [depth EXCEPT ![t] = n]

\* Nobody is in a call or inside the section.
Unused == \A t \in Thread : pc[t] = "out" /\ depth[t] = 0

-----------------------------------------------------------------------------
(***************************************************************************)
(* EnterCriticalSection                                                    *)
(***************************************************************************)

\* The call reads SpinCount once.  With a spin count it first calls
\* TryEnterCriticalSection; without one it goes straight for the counter.
EnterCriticalSection(t) ==
    /\ live
    /\ pc[t] = "out"
    /\ depth[t] < MaxDepth
    /\ spin' = [spin EXCEPT ![t] = SpinCount]
    /\ trying' = [trying EXCEPT ![t] = FALSE]
    /\ Goto(t, IF SpinCount = 0 THEN "inc" ELSE "try")
    /\ UNCHANGED <<fields, depth>>

\* while (SpinCount-- && LockCount < 1)
Spins(t) ==
    /\ pc[t] = "spin"
    /\ IF spin[t] > 0 /\ LockCount < 1
       THEN /\ Goto(t, "spincas")
            /\ spin' = [spin EXCEPT ![t] = @ - 1]
       ELSE /\ Goto(t, "inc")
            /\ spin' = [spin EXCEPT ![t] = 0]
    /\ UNCHANGED <<fields, trying, depth>>

\* InterlockedCompareExchange(&LockCount, 0, -1) in the spin loop.
SpinAcquires(t) ==
    /\ pc[t] = "spincas"
    /\ IF LockCount = -1
       THEN LockCount' = 0 /\ Goto(t, "owncount")
       ELSE LockCount' = LockCount /\ Goto(t, "spin")
    /\ UNCHANGED <<SpinCount, RecursionCount, OwningThread, LockSemaphore, live,
                   trying, spin, depth>>

\* InterlockedIncrement(&LockCount): zero means the section was free.
Increments(t) ==
    /\ pc[t] = "inc"
    /\ LockCount' = LockCount + 1
    /\ Goto(t, IF LockCount + 1 = 0 THEN "owncount" ELSE "test")
    /\ UNCHANGED <<SpinCount, RecursionCount, OwningThread, LockSemaphore, live,
                   trying, spin, depth>>

\* (MUTANT of TestsOwner: a section with any owner counts as one's own.)
TestsAnyOwner(t) ==
    /\ pc[t] = "test"
    /\ IF OwningThread # NoThread
       THEN /\ RecursionCount' = RecursionCount + 1
            /\ Returns(t, depth[t] + 1)
       ELSE /\ Goto(t, "wait")
            /\ UNCHANGED <<RecursionCount, depth>>
    /\ UNCHANGED <<LockCount, SpinCount, OwningThread, LockSemaphore, live, trying, spin>>

\* The section is taken: by this thread, which recurses, or by another.
TestsOwner(t) ==
    /\ pc[t] = "test"
    /\ IF OwningThread = t
       THEN /\ RecursionCount' = RecursionCount + 1
            /\ Returns(t, depth[t] + 1)
       ELSE /\ Goto(t, "wait")
            /\ UNCHANGED <<RecursionCount, depth>>
    /\ UNCHANGED <<LockCount, SpinCount, OwningThread, LockSemaphore, live, trying, spin>>

\* _WaitForCriticalSection.  The result of sem_wait is not looked at: a wait
\* that a signal handler interrupts ends like one that took the semaphore.
WaitForCriticalSection(t) ==
    /\ pc[t] = "wait"
    /\ \/ /\ LockSemaphore > 0
          /\ LockSemaphore' = LockSemaphore - 1
       \/ /\ Interrupts
          /\ UNCHANGED LockSemaphore
    /\ Goto(t, "owncount")
    /\ UNCHANGED <<LockCount, SpinCount, RecursionCount, OwningThread, live,
                   trying, spin, depth>>

\* "We got the lock. Own it ...": RecursionCount = 1, then OwningThread.
OwnsCount(t) ==
    /\ pc[t] = "owncount"
    /\ RecursionCount' = 1
    /\ Goto(t, "ownthread")
    /\ UNCHANGED <<LockCount, SpinCount, OwningThread, LockSemaphore, live,
                   trying, spin, depth>>

OwnsThread(t) ==
    /\ pc[t] = "ownthread"
    /\ OwningThread' = t
    /\ Returns(t, 1)
    /\ UNCHANGED <<LockCount, SpinCount, RecursionCount, LockSemaphore, live,
                   trying, spin>>

-----------------------------------------------------------------------------
(***************************************************************************)
(* TryEnterCriticalSection                                                 *)
(***************************************************************************)

TryEnterCriticalSection(t) ==
    /\ live
    /\ pc[t] = "out"
    /\ depth[t] < MaxDepth
    /\ trying' = [trying EXCEPT ![t] = TRUE]
    /\ Goto(t, "try")
    /\ UNCHANGED <<fields, spin, depth>>

\* InterlockedCompareExchange(&LockCount, 0, -1).
TryAcquires(t) ==
    /\ pc[t] = "try"
    /\ IF LockCount = -1
       THEN LockCount' = 0 /\ Goto(t, "owncount")
       ELSE LockCount' = LockCount /\ Goto(t, "owned")
    /\ UNCHANGED <<SpinCount, RecursionCount, OwningThread, LockSemaphore, live,
                   trying, spin, depth>>

\* The owner recurses; anybody else fails, and Enter goes on to spin.
TryTestsOwner(t) ==
    /\ pc[t] = "owned"
    /\ IF OwningThread = t
       THEN RecursionCount' = RecursionCount + 1 /\ Goto(t, "count")
       ELSE /\ Goto(t, IF trying[t] THEN "out" ELSE "spin")
            /\ UNCHANGED RecursionCount
    /\ UNCHANGED <<LockCount, SpinCount, OwningThread, LockSemaphore, live,
                   trying, spin, depth>>

\* (MUTANT of TryCounts: the InterlockedIncrement is lost.)
TryCountsNot(t) ==
    /\ pc[t] = "count"
    /\ Returns(t, depth[t] + 1)
    /\ UNCHANGED <<fields, trying, spin>>

TryCounts(t) ==
    /\ pc[t] = "count"
    /\ LockCount' = LockCount + 1
    /\ Returns(t, depth[t] + 1)
    /\ UNCHANGED <<SpinCount, RecursionCount, OwningThread, LockSemaphore, live,
                   trying, spin>>

-----------------------------------------------------------------------------
(***************************************************************************)
(* LeaveCriticalSection                                                    *)
(***************************************************************************)

\* --RecursionCount < 1 tells the last of nested calls from the others.
LeaveCriticalSection(t) ==
    /\ pc[t] = "out"
    /\ depth[t] > 0
    /\ RecursionCount' = RecursionCount - 1
    /\ depth' = [depth EXCEPT ![t] = @ - 1]
    /\ Goto(t, IF RecursionCount - 1 < 1 THEN "clear" ELSE "decrement")
    /\ UNCHANGED <<LockCount, SpinCount, OwningThread, LockSemaphore, live, trying, spin>>

\* (MUTANT of ClearsOwner: the owner is left in the field.)
KeepsOwner(t) ==
    /\ pc[t] = "clear"
    /\ Goto(t, "unlock")
    /\ UNCHANGED <<fields, trying, spin, depth>>

ClearsOwner(t) ==
    /\ pc[t] = "clear"
    /\ OwningThread' = NoThread
    /\ Goto(t, "unlock")
    /\ UNCHANGED <<LockCount, SpinCount, RecursionCount, LockSemaphore, live,
                   trying, spin, depth>>

\* (MUTANT of Unlocks: the last waiting thread is not counted, > for >=.)
UnlocksOffByOne(t) ==
    /\ pc[t] = "unlock"
    /\ LockCount' = LockCount - 1
    /\ Goto(t, IF LockCount - 1 > 0 THEN "post" ELSE "out")
    /\ UNCHANGED <<SpinCount, RecursionCount, OwningThread, LockSemaphore, live,
                   trying, spin, depth>>

\* (MUTANT of Unlocks: the section is marked free although somebody waits.)
UnlocksToFree(t) ==
    /\ pc[t] = "unlock"
    /\ LockCount' = -1
    /\ Goto(t, IF LockCount > 0 THEN "post" ELSE "out")
    /\ UNCHANGED <<SpinCount, RecursionCount, OwningThread, LockSemaphore, live,
                   trying, spin, depth>>

\* InterlockedDecrement(&LockCount) >= 0: somebody has begun to wait.
Unlocks(t) ==
    /\ pc[t] = "unlock"
    /\ LockCount' = LockCount - 1
    /\ Goto(t, IF LockCount - 1 >= 0 THEN "post" ELSE "out")
    /\ UNCHANGED <<SpinCount, RecursionCount, OwningThread, LockSemaphore, live,
                   trying, spin, depth>>

\* _UnWaitCriticalSection: sem_post.
UnWaitCriticalSection(t) ==
    /\ pc[t] = "post"
    /\ LockSemaphore' = LockSemaphore + 1
    /\ Goto(t, "out")
    /\ UNCHANGED <<LockCount, SpinCount, RecursionCount, OwningThread, live,
                   trying, spin, depth>>

\* The leave of a nested call only lowers LockCount.
Decrements(t) ==
    /\ pc[t] = "decrement"
    /\ LockCount' = LockCount - 1
    /\ Goto(t, "out")
    /\ UNCHANGED <<SpinCount, RecursionCount, OwningThread, LockSemaphore, live,
                   trying, spin, depth>>

-----------------------------------------------------------------------------
(***************************************************************************)
(* The calls that make, tune and delete the section.                       *)
(***************************************************************************)

\* Any thread may change the spin count, at any time and without the lock.
SetCriticalSectionSpinCount ==
    /\ live
    /\ \E n \in SpinCounts : n # SpinCount /\ SpinCount' = n
    /\ UNCHANGED <<LockCount, RecursionCount, OwningThread, LockSemaphore, live,
                   pc, trying, spin, depth>>

\* The clients delete the section when they are done with it.
DeleteCriticalSection ==
    /\ live /\ Unused
    /\ LockCount' = -1
    /\ SpinCount' = 0
    /\ RecursionCount' = 0
    /\ OwningThread' = NoThread
    /\ LockSemaphore' = 0
    /\ live' = FALSE
    /\ UNCHANGED <<pc, trying, spin, depth>>

\* The failures of malloc and sem_init leave the section unusable (live FALSE).
InitializeCriticalSectionEx ==
    /\ ~live
    /\ LockCount' = -1
    /\ RecursionCount' = 0
    /\ OwningThread' = NoThread
    /\ LockSemaphore' = 0
    /\ \/ live' = TRUE /\ SpinCount' \in SpinCounts
       \/ live' = FALSE /\ SpinCount' = 0
    /\ UNCHANGED <<pc, trying, spin, depth>>

\* One step of a call t is in: all but the calls' beginnings.
Continues(t) ==
    \/ TryAcquires(t) \/ TryTestsOwner(t) \/ TryCounts(t)
    \/ Spins(t) \/ SpinAcquires(t) \/ Increments(t) \/ TestsOwner(t)
    \/ WaitForCriticalSection(t) \/ OwnsCount(t) \/ OwnsThread(t)
    \/ ClearsOwner(t) \/ Unlocks(t) \/ UnWaitCriticalSection(t) \/ Decrements(t)

Calls(t) ==
    \/ EnterCriticalSection(t)
    \/ TryEnterCriticalSection(t)
    \/ LeaveCriticalSection(t)

Next ==
    \/ \E t \in Thread : Calls(t) \/ Continues(t)
    \/ SetCriticalSectionSpinCount
    \/ DeleteCriticalSection
    \/ InitializeCriticalSectionEx

Spec == Init /\ [][Next]_vars

\* The system runs every thread that can run; nothing makes a client call.
\* The semaphore is not fair: which of several sleepers it wakes is open.
FairSpec == Spec /\ \A t \in Thread : WF_vars(Continues(t))

-----------------------------------------------------------------------------
(***************************************************************************)
(* Properties                                                              *)
(***************************************************************************)

\* Two clients are never inside at once, whatever mixture of Enter, TryEnter
\* and nested calls brought them there (EnterCriticalSection,
\* TryEnterCriticalSection, LeaveCriticalSection).
MutualExclusion ==
    \A t, u \in Thread : depth[t] > 0 /\ depth[u] > 0 => t = u

\* TestSynchCritical's check: a client inside finds itself the owner, and as
\* many recursions as it has entries of its own.
FieldsMatchCalls ==
    \A t \in Thread : pc[t] = "out" /\ depth[t] > 0
        => OwningThread = t /\ RecursionCount = depth[t]

\* "The number of times that any thread has called EnterCriticalSection, minus
\* one" (critical.c): with no call under way LockCount says exactly that, and
\* no wake-up is left in the semaphore for a later waiter to find.
LockCountAtRest ==
    (\A t \in Thread : pc[t] = "out")
        => /\ LockCount = RecursionCount - 1
           /\ LockSemaphore = 0

\* "Spin requested times but don't compete with another waiting thread": while
\* a thread sleeps at the semaphore, no other takes the section past it.
Waiting(t) == pc[t] = "wait"

NoOvertaking ==
    [][\A t \in Thread :
          pc[t] # "owncount" /\ pc'[t] = "owncount" /\ (\E u \in Thread : Waiting(u))
              => Waiting(t)]_vars

\* No wake-up is lost: if every client that enters also leaves, a thread is
\* left at the semaphore for ever only when the semaphore keeps being posted
\* and goes to others (_WaitForCriticalSection, _UnWaitCriticalSection).
NoLostWakeup ==
    (\A t \in Thread : []<>(depth[t] = 0))
        => \A t \in Thread : <>[]Waiting(t) => []<>(LockSemaphore > 0)

\* The fields implement a re-entrant lock: OwningThread holds it
\* RecursionCount times.
held == [t \in Thread |-> IF OwningThread = t THEN RecursionCount ELSE 0]
ReentrantLock == INSTANCE Mutex
ImplementsMutex == ReentrantLock!Spec

-----------------------------------------------------------------------------
(***************************************************************************)
(* The inductive invariant.  The section is one token: it is free          *)
(* (LockCount = -1), or with the one thread that Holds it, or in the       *)
(* semaphore.                                                              *)
(***************************************************************************)

Entering == {"owncount", "ownthread"}
Leaving  == {"clear", "unlock", "post"}
Nested   == {"decrement", "count"}

Holds(t) == depth[t] > 0 \/ pc[t] \in Entering \cup Leaving

OneHolder == \A t, u \in Thread : Holds(t) /\ Holds(u) => t = u

OwnerField == \A t \in Thread : OwningThread = t <=> depth[t] > 0 \/ pc[t] = "clear"

RecursionField ==
    \A t \in Thread :
        /\ depth[t] > 0
             => RecursionCount = depth[t] + (IF pc[t] = "count" THEN 1 ELSE 0)
        /\ pc[t] = "ownthread" => RecursionCount = 1
        /\ pc[t] \in Leaving => RecursionCount = 0

DepthOfStep ==
    \A t \in Thread :
        /\ pc[t] \in Entering \cup Leaving \cup {"wait"} => depth[t] = 0
        /\ pc[t] \in Nested => depth[t] > 0

\* LockCount covers what the holder has entered and not yet taken off again.
LockCountCovers ==
    /\ LockCount >= -1
    /\ \A t \in Thread :
        /\ depth[t] > 0
             => LockCount + 1 >= depth[t] + (IF pc[t] \in {"test", "decrement"} THEN 1 ELSE 0)
        /\ pc[t] \in Entering \cup Leaving => LockCount >= 0

SemaphoreToken ==
    /\ LockSemaphore \in {0, 1}
    /\ LockSemaphore = 1 => LockCount >= 0 /\ \A t \in Thread : ~Holds(t)

\* Between its deletion and its next initialisation nobody uses the section.
DeletedUnused == ~live => Unused

\* The token invariant: type, one holder, and what every field says of it.
IInv ==
    /\ TypeOK
    /\ OneHolder
    /\ OwnerField
    /\ RecursionField
    /\ DepthOfStep
    /\ LockCountCovers
    /\ SemaphoreToken
    /\ DeletedUnused

(***************************************************************************)
(* With the sleepers counted, LockCount is accounted for exactly: it is    *)
(* one less than the threads queued for the section plus the holder's      *)
(* share, the entries it has not taken off again.                          *)
(***************************************************************************)

Queued == {t \in Thread : pc[t] = "wait" \/ (pc[t] = "test" /\ depth[t] = 0)}

Share(t) ==
    IF pc[t] \in Entering \cup {"clear", "unlock"}
    THEN 1
    ELSE depth[t] + (IF depth[t] > 0 /\ pc[t] \in {"test", "decrement"} THEN 1 ELSE 0)

LockCountExact ==
    /\ \A t \in Thread : Holds(t) => LockCount + 1 = Cardinality(Queued) + Share(t)
    /\ (\A t \in Thread : ~Holds(t)) => LockCount + 1 = Cardinality(Queued)

\* Nobody's recursions are none.
RecursionAtRest == (\A t \in Thread : ~Holds(t)) => RecursionCount = 0

\* The exact invariant: the token, and every entry counted once.
CountInv == IInv /\ LockCountExact /\ RecursionAtRest
=============================================================================

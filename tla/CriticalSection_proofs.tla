------------------------ MODULE CriticalSection_proofs ------------------------
(***************************************************************************)
(* Proofs about CriticalSection, for any threads, spin counts and depth.   *)
(*                                                                         *)
(* The argument is that the section is one token.  It is free, in the      *)
(* semaphore, or with the thread that holds it, and LockCount covers at    *)
(* least what the holder has entered, so the decrement that finds -1 is    *)
(* the holder's last and the increment that finds 0 met a free section.    *)
(* A sem_wait that ends without the semaphore's token breaks the argument: *)
(* the results below assume ~Interrupts.                                   *)
(***************************************************************************)
EXTENDS CriticalSection, FiniteSetTheorems, TLAPS

-----------------------------------------------------------------------------
(***************************************************************************)
(* Types hold whatever the signals do.                                     *)
(***************************************************************************)

\* The types of the fields and of the threads' locals.
THEOREM Typing == Spec => []TypeOK
<1>1. Init => TypeOK
  BY CriticalAssumption DEF Init, TypeOK, Steps
<1>2. TypeOK /\ [Next]_vars => TypeOK'
  <2> SUFFICES ASSUME TypeOK, [Next]_vars PROVE TypeOK'
    OBVIOUS
  <2> USE DEF TypeOK, Steps, Goto, Returns, fields
  <2>1. ASSUME NEW t \in Thread, Calls(t) PROVE TypeOK'
    <3>1. CASE EnterCriticalSection(t)
      BY <3>1, CriticalAssumption DEF EnterCriticalSection
    <3>2. CASE TryEnterCriticalSection(t)
      BY <3>2 DEF TryEnterCriticalSection
    <3>3. CASE LeaveCriticalSection(t)
      BY <3>3 DEF LeaveCriticalSection
    <3> QED BY <2>1, <3>1, <3>2, <3>3 DEF Calls
  <2>2. ASSUME NEW t \in Thread, Continues(t) PROVE TypeOK'
    <3>1. CASE TryAcquires(t) \/ SpinAcquires(t) \/ Increments(t)
      BY <3>1 DEF TryAcquires, SpinAcquires, Increments
    <3>2. CASE TryTestsOwner(t) \/ TryCounts(t) \/ TestsOwner(t)
      BY <3>2 DEF TryTestsOwner, TryCounts, TestsOwner
    <3>3. CASE Spins(t) \/ WaitForCriticalSection(t)
      BY <3>3 DEF Spins, WaitForCriticalSection
    <3>4. CASE OwnsCount(t) \/ OwnsThread(t) \/ ClearsOwner(t)
      BY <3>4 DEF OwnsCount, OwnsThread, ClearsOwner
    <3>5. CASE Unlocks(t) \/ UnWaitCriticalSection(t) \/ Decrements(t)
      BY <3>5 DEF Unlocks, UnWaitCriticalSection, Decrements
    <3> QED BY <2>2, <3>1, <3>2, <3>3, <3>4, <3>5 DEF Continues
  <2>3. CASE SetCriticalSectionSpinCount
    BY <2>3 DEF SetCriticalSectionSpinCount
  <2>4. CASE DeleteCriticalSection \/ InitializeCriticalSectionEx
    <3>1. live' \in BOOLEAN
      BY <2>4, Zenon DEF DeleteCriticalSection, InitializeCriticalSectionEx
    <3>2. /\ LockCount' = -1 /\ RecursionCount' = 0 /\ OwningThread' = NoThread
          /\ LockSemaphore' = 0 /\ SpinCount' \in SpinCounts
          /\ UNCHANGED <<pc, trying, spin, depth>>
      BY <2>4, CriticalAssumption DEF DeleteCriticalSection, InitializeCriticalSectionEx
    <3> QED BY <3>1, <3>2
  <2>5. CASE UNCHANGED vars
    BY <2>5 DEF vars
  <2> QED BY <2>1, <2>2, <2>3, <2>4, <2>5 DEF Next
<1> QED BY <1>1, <1>2, PTL DEF Spec

-----------------------------------------------------------------------------
(***************************************************************************)
(* The token invariant is inductive.                                       *)
(***************************************************************************)

LEMMA InitIInv == Init => IInv
BY CriticalAssumption
DEF Init, IInv, TypeOK, OneHolder, OwnerField, RecursionField, DepthOfStep,
    LockCountCovers, SemaphoreToken, DeletedUnused, Unused, Holds, Entering, Leaving, Nested, Steps

\* The calls begin: nothing about the token changes but that Leave counts
\* down RecursionCount, to zero exactly on the last of nested leaves.
LEMMA CallsKeepIInv ==
  ASSUME IInv, NEW t \in Thread, Calls(t)
  PROVE  IInv'
<1> USE DEF IInv, TypeOK, OneHolder, OwnerField, RecursionField, DepthOfStep,
            LockCountCovers, SemaphoreToken, DeletedUnused, Unused, Holds, Entering, Leaving, Nested,
            Steps, fields, Goto
<1>1. CASE EnterCriticalSection(t)
  BY <1>1, CriticalAssumption DEF EnterCriticalSection
<1>2. CASE TryEnterCriticalSection(t)
  BY <1>2 DEF TryEnterCriticalSection
<1>3. CASE LeaveCriticalSection(t)
  <2> USE <1>3 DEF LeaveCriticalSection
  <2>1. RecursionCount = depth[t] /\ depth'[t] = depth[t] - 1
    OBVIOUS
  <2>2. TypeOK' /\ OneHolder'
    BY <2>1
  <2>3. OwnerField' /\ RecursionField' /\ DepthOfStep'
    BY <2>1
  <2>4. LockCountCovers' /\ SemaphoreToken'
    BY <2>1
  <2>5. DeletedUnused'
    BY <2>1
  <2> QED BY <2>2, <2>3, <2>4, <2>5
<1> QED BY <1>1, <1>2, <1>3 DEF Calls

\* The steps that take the token: from a free section, or from the semaphore.
LEMMA TakingKeepsIInv ==
  ASSUME IInv, ~Interrupts, NEW t \in Thread,
         \/ TryAcquires(t) \/ SpinAcquires(t) \/ Increments(t)
         \/ WaitForCriticalSection(t)
  PROVE  IInv'
<1> USE DEF IInv, TypeOK, OneHolder, OwnerField, RecursionField, DepthOfStep,
            LockCountCovers, SemaphoreToken, DeletedUnused, Unused, Holds, Entering, Leaving, Nested,
            Steps, fields, Goto
<1>1. LockCount = -1 => LockSemaphore = 0 /\ \A u \in Thread : ~Holds(u)
  OBVIOUS
<1>2. CASE TryAcquires(t)
  BY <1>1, <1>2 DEF TryAcquires
<1>3. CASE SpinAcquires(t)
  BY <1>1, <1>3 DEF SpinAcquires
<1>4. CASE Increments(t)
  <2>1. CASE LockCount = -1
    BY <1>1, <1>4, <2>1 DEF Increments
  <2>2. CASE LockCount # -1
    BY <1>4, <2>2 DEF Increments
  <2> QED BY <2>1, <2>2
<1>5. CASE WaitForCriticalSection(t)
  <2>1. LockSemaphore = 1 /\ LockSemaphore' = 0
    BY <1>5 DEF WaitForCriticalSection
  <2> QED BY <1>5, <2>1 DEF WaitForCriticalSection
<1> QED BY <1>2, <1>3, <1>4, <1>5

\* The steps of the thread that holds the token, or that finds it does not.
LEMMA OwningKeepsIInv ==
  ASSUME IInv, NEW t \in Thread,
         \/ TryTestsOwner(t) \/ TryCounts(t) \/ Spins(t) \/ TestsOwner(t)
         \/ OwnsCount(t) \/ OwnsThread(t)
  PROVE  IInv'
<1> USE DEF IInv, TypeOK, OneHolder, OwnerField, RecursionField, DepthOfStep,
            LockCountCovers, SemaphoreToken, DeletedUnused, Unused, Holds, Entering, Leaving, Nested,
            Steps, fields, Goto, Returns
<1>1. CASE TryTestsOwner(t)
  BY <1>1 DEF TryTestsOwner
<1>2. CASE TryCounts(t)
  BY <1>2 DEF TryCounts
<1>3. CASE Spins(t)
  BY <1>3 DEF Spins
<1>4. CASE TestsOwner(t)
  BY <1>4 DEF TestsOwner
<1>5. CASE OwnsCount(t)
  <2>1. \A u \in Thread : depth[u] = 0 /\ (u # t => ~Holds(u))
    BY <1>5 DEF OwnsCount
  <2> QED BY <1>5, <2>1 DEF OwnsCount
<1>6. CASE OwnsThread(t)
  <2>1. \A u \in Thread : depth[u] = 0 /\ (u # t => ~Holds(u))
    BY <1>6 DEF OwnsThread
  <2> QED BY <1>6, <2>1 DEF OwnsThread
<1> QED BY <1>1, <1>2, <1>3, <1>4, <1>5, <1>6

\* The steps that give the token back: to the free section or the semaphore.
LEMMA GivingKeepsIInv ==
  ASSUME IInv, NEW t \in Thread,
         \/ ClearsOwner(t) \/ Unlocks(t) \/ UnWaitCriticalSection(t) \/ Decrements(t)
  PROVE  IInv'
<1> USE DEF IInv, TypeOK, OneHolder, OwnerField, RecursionField, DepthOfStep,
            LockCountCovers, SemaphoreToken, DeletedUnused, Unused, Holds, Entering, Leaving, Nested,
            Steps, fields, Goto
<1>1. CASE ClearsOwner(t)
  BY <1>1, CriticalAssumption DEF ClearsOwner
<1>2. CASE Unlocks(t)
  <2>1. LockSemaphore = 0 /\ \A u \in Thread \ {t} : ~Holds(u)
    BY <1>2 DEF Unlocks
  <2>2. LockCount' >= -1 /\ (pc'[t] = "post" => LockCount' >= 0)
    BY <1>2 DEF Unlocks
  <2> QED BY <1>2, <2>1, <2>2 DEF Unlocks
<1>3. CASE UnWaitCriticalSection(t)
  <2>1. LockSemaphore = 0 /\ LockCount >= 0 /\ \A u \in Thread \ {t} : ~Holds(u)
    BY <1>3 DEF UnWaitCriticalSection
  <2> QED BY <1>3, <2>1 DEF UnWaitCriticalSection
<1>4. CASE Decrements(t)
  BY <1>4 DEF Decrements
<1> QED BY <1>1, <1>2, <1>3, <1>4

LEMMA NextIInv ==
  ASSUME IInv, ~Interrupts, [Next]_vars
  PROVE  IInv'
<1>1. ASSUME NEW t \in Thread, Calls(t) PROVE IInv'
  BY <1>1, CallsKeepIInv
<1>2. ASSUME NEW t \in Thread, Continues(t) PROVE IInv'
  BY <1>2, TakingKeepsIInv, OwningKeepsIInv, GivingKeepsIInv DEF Continues
<1>3. CASE \/ SetCriticalSectionSpinCount \/ InitializeCriticalSectionEx
           \/ DeleteCriticalSection \/ UNCHANGED vars
  <2> USE DEF IInv, TypeOK, OneHolder, OwnerField, RecursionField, DepthOfStep,
              LockCountCovers, SemaphoreToken, DeletedUnused, Unused, Holds, Entering, Leaving, Nested,
              Steps, fields
  <2>1. CASE SetCriticalSectionSpinCount
    BY <2>1 DEF SetCriticalSectionSpinCount
  <2>2. CASE InitializeCriticalSectionEx \/ DeleteCriticalSection
    <3>1. Unused /\ Unused'
      BY <2>2 DEF InitializeCriticalSectionEx, DeleteCriticalSection
    <3>2. /\ LockCount' = -1 /\ RecursionCount' = 0 /\ OwningThread' = NoThread
          /\ LockSemaphore' = 0 /\ SpinCount' \in SpinCounts /\ live' \in BOOLEAN
          /\ UNCHANGED <<pc, trying, spin, depth>>
      BY <2>2, CriticalAssumption DEF InitializeCriticalSectionEx, DeleteCriticalSection
    <3> QED BY <3>1, <3>2, CriticalAssumption
  <2>3. CASE UNCHANGED vars
    BY <2>3 DEF vars
  <2> QED BY <1>3, <2>1, <2>2, <2>3
<1> QED BY <1>1, <1>2, <1>3 DEF Next

\* Without interrupted waits the token invariant holds in every state.
THEOREM TokenInvariance == ASSUME ~Interrupts PROVE Spec => []IInv
<1>1. IInv /\ [Next]_vars => IInv'
  BY NextIInv
<1> QED BY InitIInv, <1>1, PTL DEF Spec

-----------------------------------------------------------------------------
(***************************************************************************)
(* What clients rely on.                                                   *)
(***************************************************************************)

\* Two clients are never inside at once (EnterCriticalSection,
\* TryEnterCriticalSection, LeaveCriticalSection).
THEOREM Exclusion == ASSUME ~Interrupts PROVE Spec => []MutualExclusion
<1>1. IInv => MutualExclusion
  BY DEF IInv, OneHolder, Holds, MutualExclusion
<1> QED BY TokenInvariance, <1>1, PTL

\* A client inside finds itself the owner, with as many recursions as it has
\* entries: what TestSynchCritical samples, in every state.
THEOREM Bookkeeping == ASSUME ~Interrupts PROVE Spec => []FieldsMatchCalls
<1>1. IInv => FieldsMatchCalls
  BY DEF IInv, TypeOK, OwnerField, RecursionField, FieldsMatchCalls
<1> QED BY TokenInvariance, <1>1, PTL

\* A step of the code is a step of the re-entrant lock, or changes nothing
\* the lock's clients see.
LEMMA MutexStep ==
  ASSUME IInv, [Next]_vars
  PROVE  [ReentrantLock!Next]_held
<1> USE DEF IInv, TypeOK, OneHolder, OwnerField, RecursionField, DepthOfStep,
            Holds, Entering, Leaving, Nested, Steps, fields
\* A recursion of the owner: the only thread the lock says has entered.
<1>1. ASSUME NEW t \in Thread, RecursionCount' = RecursionCount + 1,
             OwningThread = t, UNCHANGED OwningThread
      PROVE  ReentrantLock!Next
  <2>1. held' = [held EXCEPT ![t] = @ + 1]
    BY <1>1 DEF held
  <2>2. \A u \in Thread \ {t} : held[u] = 0
    BY <1>1 DEF held
  <2> QED BY <2>1, <2>2 DEF ReentrantLock!Next, ReentrantLock!Enter, ReentrantLock!FreeFor
<1>2. ASSUME NEW t \in Thread, Calls(t) PROVE [ReentrantLock!Next]_held
  <2>1. CASE EnterCriticalSection(t) \/ TryEnterCriticalSection(t)
    BY <2>1 DEF EnterCriticalSection, TryEnterCriticalSection, held
  <2>2. CASE LeaveCriticalSection(t)
    <3>1. OwningThread = t /\ RecursionCount = depth[t] /\ depth[t] > 0
      BY <2>2 DEF LeaveCriticalSection
    <3>2. held[t] > 0
      BY <3>1 DEF held
    <3>3. held' = [held EXCEPT ![t] = @ - 1]
      BY <2>2, <3>1 DEF LeaveCriticalSection, held
    <3> QED BY <3>2, <3>3 DEF ReentrantLock!Next, ReentrantLock!Leave
  <2> QED BY <1>2, <2>1, <2>2 DEF Calls
<1>3. ASSUME NEW t \in Thread, Continues(t) PROVE [ReentrantLock!Next]_held
  <2>1. CASE TryAcquires(t) \/ SpinAcquires(t) \/ Increments(t) \/ Spins(t)
    BY <2>1 DEF TryAcquires, SpinAcquires, Increments, Spins, held
  <2>2. CASE TryTestsOwner(t)
    <3>1. CASE OwningThread = t
      BY <1>1, <2>2, <3>1 DEF TryTestsOwner
    <3>2. CASE OwningThread # t
      BY <2>2, <3>2 DEF TryTestsOwner, held
    <3> QED BY <3>1, <3>2
  <2>3. CASE TestsOwner(t)
    <3>1. CASE OwningThread = t
      BY <1>1, <2>3, <3>1 DEF TestsOwner
    <3>2. CASE OwningThread # t
      BY <2>3, <3>2 DEF TestsOwner, held
    <3> QED BY <3>1, <3>2
  <2>4. CASE OwnsCount(t)
    BY <2>4, CriticalAssumption DEF OwnsCount, held
  <2>5. CASE OwnsThread(t)
    <3>1. OwningThread \notin Thread /\ RecursionCount = 1
      BY <2>5, CriticalAssumption DEF OwnsThread
    <3>2. \A u \in Thread : held[u] = 0
      BY <3>1 DEF held
    <3>3. held' = [held EXCEPT ![t] = @ + 1]
      BY <2>5, <3>1 DEF OwnsThread, held
    <3> QED BY <3>2, <3>3 DEF ReentrantLock!Next, ReentrantLock!Enter, ReentrantLock!FreeFor
  <2>6. CASE ClearsOwner(t)
    BY <2>6, CriticalAssumption DEF ClearsOwner, held
  <2>7. CASE \/ TryCounts(t) \/ WaitForCriticalSection(t) \/ Unlocks(t)
             \/ UnWaitCriticalSection(t) \/ Decrements(t)
    BY <2>7 DEF TryCounts, WaitForCriticalSection, Unlocks, UnWaitCriticalSection, Decrements, held
  <2> QED BY <1>3, <2>1, <2>2, <2>3, <2>4, <2>5, <2>6, <2>7 DEF Continues
<1>4. CASE DeleteCriticalSection \/ InitializeCriticalSectionEx
  <2>1. \A u \in Thread : OwningThread # u /\ OwningThread' # u
    BY <1>4, CriticalAssumption DEF DeleteCriticalSection, InitializeCriticalSectionEx,
                                    DeletedUnused, Unused
  <2> QED BY <2>1 DEF held
<1>5. CASE SetCriticalSectionSpinCount \/ UNCHANGED vars
  BY <1>5 DEF SetCriticalSectionSpinCount, vars, held
<1> QED BY <1>2, <1>3, <1>4, <1>5 DEF Next

\* The critical section implements the re-entrant lock.
THEOREM Refinement == ASSUME ~Interrupts PROVE Spec => ImplementsMutex
<1>1. Init => ReentrantLock!Init
  BY CriticalAssumption DEF Init, ReentrantLock!Init, held
<1>2. IInv /\ [Next]_vars => [ReentrantLock!Next]_held
  BY MutexStep
<1> QED
  BY TokenInvariance, <1>1, <1>2, PTL DEF Spec, ImplementsMutex, ReentrantLock!Spec

-----------------------------------------------------------------------------
(***************************************************************************)
(* The exact count, for finitely many threads.  The token invariant bounds *)
(* LockCount from below; to say that nobody overtakes a sleeping thread    *)
(* the sleepers must be counted too.                                       *)
(***************************************************************************)

LEMMA QueuedFinite ==
  ASSUME IsFiniteSet(Thread)
  PROVE  IsFiniteSet(Queued) /\ Cardinality(Queued) \in Nat
BY FS_Subset, FS_CardinalityType DEF Queued

\* A step that leaves the queue alone and moves LockCount with the holder's
\* share keeps the count.
LEMMA QueueUnchanged ==
  ASSUME IInv, IInv', LockCountExact, IsFiniteSet(Thread), Queued' = Queued,
         NEW t \in Thread, Holds(t), Holds(t)',
         LockCount' - LockCount = Share(t)' - Share(t)
  PROVE  LockCountExact'
<1>1. LockCount \in Int /\ LockCount' \in Int /\ Cardinality(Queued) \in Int
  BY QueuedFinite DEF IInv, TypeOK
<1>2. Share(t) \in Int /\ Share(t)' \in Int
  BY DEF IInv, TypeOK, Share
<1>3. LockCount' + 1 = Cardinality(Queued)' + Share(t)'
  BY <1>1, <1>2 DEF LockCountExact
<1>4. \A u \in Thread : Holds(u)' => u = t
  BY DEF IInv, OneHolder
<1> QED BY <1>3, <1>4 DEF LockCountExact

LEMMA CallsCount ==
  ASSUME CountInv, IInv', IsFiniteSet(Thread), NEW t \in Thread, Calls(t)
  PROVE  LockCountExact' /\ RecursionAtRest'
<1> USE DEF CountInv, IInv, TypeOK, Entering, Leaving, Nested, Steps, fields, Goto
<1>1. Queued' = Queued
  BY DEF Queued, Calls, EnterCriticalSection, TryEnterCriticalSection, LeaveCriticalSection
<1>2. CASE EnterCriticalSection(t) \/ TryEnterCriticalSection(t)
  <2>1. \A u \in Thread : (Holds(u)' <=> Holds(u)) /\ Share(u)' = Share(u)
    BY <1>2 DEF EnterCriticalSection, TryEnterCriticalSection, Holds, Share
  <2>2. LockCount' = LockCount /\ RecursionCount' = RecursionCount
    BY <1>2 DEF EnterCriticalSection, TryEnterCriticalSection
  <2> QED BY <1>1, <2>1, <2>2 DEF LockCountExact, RecursionAtRest
<1>3. CASE LeaveCriticalSection(t)
  <2>1. RecursionCount = depth[t] /\ LockCount' = LockCount
    <3>1. pc[t] = "out" /\ depth[t] > 0 /\ LockCount' = LockCount
      BY <1>3 DEF LeaveCriticalSection
    <3> QED BY <3>1 DEF RecursionField
  <2>2. Holds(t) /\ Holds(t)' /\ Share(t)' = Share(t)
    BY <1>3, <2>1 DEF LeaveCriticalSection, Holds, Share
  <2>3. LockCountExact'
    BY <1>1, <2>1, <2>2, QueueUnchanged DEF Share
  <2> QED BY <2>2, <2>3 DEF RecursionAtRest
<1> QED BY <1>2, <1>3 DEF Calls

\* Whoever takes the free section starts its count at one.
LEMMA TakingCounts ==
  ASSUME CountInv, IInv', ~Interrupts, IsFiniteSet(Thread), NEW t \in Thread,
         \/ TryAcquires(t) \/ SpinAcquires(t) \/ Increments(t)
         \/ WaitForCriticalSection(t)
  PROVE  LockCountExact' /\ RecursionAtRest'
<1> USE DEF CountInv, IInv, TypeOK, Entering, Leaving, Nested, Steps, fields, Goto
<1> DEFINE Q == Cardinality(Queued)
<1>0. Q \in Nat /\ IsFiniteSet(Queued)
  BY QueuedFinite
\* A free section is taken, and nobody is queued.
<1>1. ASSUME LockCount = -1, LockCount' = 0, pc'[t] = "owncount",
             \A u \in Thread \ {t} : pc'[u] = pc[u], UNCHANGED depth,
             pc[t] \notin {"test", "wait"}
      PROVE  LockCountExact' /\ RecursionAtRest'
  <2>1. \A u \in Thread : ~Holds(u)
    BY <1>1 DEF Holds, LockCountCovers
  <2>2. Q = 0
    BY <1>0, <1>1, <2>1 DEF LockCountExact
  <2>5. Queued' = Queued
    BY <1>1 DEF Queued
  <2>3. Holds(t)' /\ Share(t)' = 1
    BY <1>1 DEF Holds, Share
  <2>4. \A u \in Thread : Holds(u)' => u = t
    BY <2>3 DEF OneHolder
  <2> QED BY <1>1, <2>2, <2>5, <2>3, <2>4 DEF LockCountExact, RecursionAtRest
\* A step that neither takes the section nor touches its fields.
<1>2. ASSUME UNCHANGED <<LockCount, RecursionCount, depth>>, Queued' = Queued,
             \A u \in Thread : (Holds(u)' <=> Holds(u)) /\ Share(u)' = Share(u)
      PROVE  LockCountExact' /\ RecursionAtRest'
  BY <1>2 DEF LockCountExact, RecursionAtRest
<1>3. CASE TryAcquires(t)
  <2>1. CASE LockCount = -1
    BY <1>1, <1>3, <2>1 DEF TryAcquires
  <2>2. CASE LockCount # -1
    <3>1. Queued' = Queued /\ UNCHANGED <<LockCount, RecursionCount, depth>>
      BY <1>3, <2>2 DEF TryAcquires, Queued
    <3>2. \A u \in Thread : (Holds(u)' <=> Holds(u)) /\ Share(u)' = Share(u)
      BY <1>3, <2>2 DEF TryAcquires, Holds, Share
    <3> QED BY <1>2, <3>1, <3>2
  <2> QED BY <2>1, <2>2
<1>4. CASE SpinAcquires(t)
  <2>1. CASE LockCount = -1
    BY <1>1, <1>4, <2>1 DEF SpinAcquires
  <2>2. CASE LockCount # -1
    <3>1. Queued' = Queued /\ UNCHANGED <<LockCount, RecursionCount, depth>>
      BY <1>4, <2>2 DEF SpinAcquires, Queued
    <3>2. \A u \in Thread : (Holds(u)' <=> Holds(u)) /\ Share(u)' = Share(u)
      BY <1>4, <2>2 DEF SpinAcquires, Holds, Share
    <3> QED BY <1>2, <3>1, <3>2
  <2> QED BY <2>1, <2>2
<1>5. CASE Increments(t)
  <2>1. CASE LockCount = -1
    BY <1>1, <1>5, <2>1 DEF Increments
  <2>2. CASE LockCount # -1 /\ depth[t] > 0
    <3>1. Queued' = Queued /\ LockCount' = LockCount + 1
      BY <1>5, <2>2 DEF Increments, Queued
    <3>2. Holds(t) /\ Holds(t)' /\ Share(t)' = Share(t) + 1
      BY <1>5, <2>2 DEF Increments, Holds, Share
    <3>3. LockCountExact'
      BY <3>1, <3>2, QueueUnchanged DEF Share
    <3> QED BY <3>2, <3>3 DEF RecursionAtRest
  <2>3. CASE LockCount # -1 /\ depth[t] = 0
    <3>1. Queued' = Queued \cup {t} /\ t \notin Queued
      BY <1>5, <2>3 DEF Increments, Queued
    <3>2. Cardinality(Queued') = Q + 1 /\ LockCount' = LockCount + 1
      BY <1>0, <1>5, <3>1, FS_AddElement DEF Increments
    <3>3. \A u \in Thread : (Holds(u)' <=> Holds(u)) /\ Share(u)' = Share(u)
                            /\ Share(u) \in Int
      BY <1>5, <2>3 DEF Increments, Holds, Share
    <3>4. LockCountExact'
      BY <1>0, <3>2, <3>3 DEF LockCountExact
    <3> QED BY <1>5, <3>3, <3>4 DEF Increments, RecursionAtRest
  <2> QED BY <2>1, <2>2, <2>3
<1>6. CASE WaitForCriticalSection(t)
  <2>1. \A u \in Thread : ~Holds(u)
    BY <1>6 DEF WaitForCriticalSection, SemaphoreToken
  <2>2. Queued' = Queued \ {t} /\ t \in Queued /\ LockCount' = LockCount
    BY <1>6 DEF WaitForCriticalSection, Queued, DepthOfStep
  <2>3. Cardinality(Queued') = Q - 1
    BY <1>0, <2>2, FS_RemoveElement
  <2>4. Holds(t)' /\ Share(t)' = 1
    BY <1>6 DEF WaitForCriticalSection, Holds, Share
  <2>5. \A u \in Thread : Holds(u)' => u = t
    BY <2>4 DEF OneHolder
  <2>6. LockCount' + 1 = Cardinality(Queued') + 1
    BY <1>0, <2>1, <2>2, <2>3 DEF LockCountExact
  <2> QED BY <2>4, <2>5, <2>6 DEF LockCountExact, RecursionAtRest
<1> QED BY <1>3, <1>4, <1>5, <1>6

LEMMA OwningCounts ==
  ASSUME CountInv, IInv', IsFiniteSet(Thread), NEW t \in Thread,
         \/ TryTestsOwner(t) \/ TryCounts(t) \/ Spins(t) \/ TestsOwner(t)
         \/ OwnsCount(t) \/ OwnsThread(t)
  PROVE  LockCountExact' /\ RecursionAtRest'
<1> USE DEF CountInv, IInv, TypeOK, Entering, Leaving, Nested, Steps, fields, Goto, Returns
<1>1. CASE Spins(t) \/ (OwningThread # t /\ (TryTestsOwner(t) \/ TestsOwner(t)))
  <2>1. Queued' = Queued /\ UNCHANGED <<LockCount, RecursionCount, depth>>
    BY <1>1 DEF Spins, TryTestsOwner, TestsOwner, Queued, OwnerField
  <2>2. \A u \in Thread : (Holds(u)' <=> Holds(u)) /\ Share(u)' = Share(u)
    BY <1>1 DEF Spins, TryTestsOwner, TestsOwner, Holds, Share, OwnerField
  <2> QED BY <2>1, <2>2 DEF LockCountExact, RecursionAtRest
<1>2. ASSUME OwningThread = t, TryTestsOwner(t) \/ TestsOwner(t)
      PROVE  LockCountExact' /\ RecursionAtRest'
  <2>1. depth[t] > 0 /\ Queued' = Queued /\ LockCount' = LockCount
    BY <1>2 DEF TryTestsOwner, TestsOwner, Queued, OwnerField
  <2>2. Holds(t) /\ Holds(t)' /\ Share(t)' = Share(t)
    BY <1>2, <2>1 DEF TryTestsOwner, TestsOwner, Holds, Share
  <2>3. LockCountExact'
    BY <2>1, <2>2, QueueUnchanged DEF Share
  <2> QED BY <2>2, <2>3 DEF RecursionAtRest
<1>3. CASE TryCounts(t)
  <2>1. depth[t] > 0 /\ Queued' = Queued /\ LockCount' = LockCount + 1
    BY <1>3 DEF TryCounts, Queued, DepthOfStep
  <2>2. Holds(t) /\ Holds(t)' /\ Share(t)' = Share(t) + 1
    BY <1>3, <2>1 DEF TryCounts, Holds, Share
  <2>3. LockCountExact'
    BY <2>1, <2>2, QueueUnchanged DEF Share
  <2> QED BY <2>2, <2>3 DEF RecursionAtRest
<1>4. CASE OwnsCount(t) \/ OwnsThread(t)
  <2>1. Queued' = Queued /\ LockCount' = LockCount
    BY <1>4 DEF OwnsCount, OwnsThread, Queued
  <2>2. Holds(t) /\ Holds(t)' /\ Share(t)' = Share(t)
    BY <1>4 DEF OwnsCount, OwnsThread, Holds, Share
  <2>3. LockCountExact'
    BY <2>1, <2>2, QueueUnchanged DEF Share
  <2> QED BY <2>2, <2>3 DEF RecursionAtRest
<1> QED BY <1>1, <1>2, <1>3, <1>4

LEMMA GivingCounts ==
  ASSUME CountInv, IInv', IsFiniteSet(Thread), NEW t \in Thread,
         \/ ClearsOwner(t) \/ Unlocks(t) \/ UnWaitCriticalSection(t) \/ Decrements(t)
  PROVE  LockCountExact' /\ RecursionAtRest'
<1> USE DEF CountInv, IInv, TypeOK, Entering, Leaving, Nested, Steps, fields, Goto
<1>0. Queued' = Queued
  BY DEF ClearsOwner, Unlocks, UnWaitCriticalSection, Decrements, Queued
<1>1. CASE ClearsOwner(t) \/ Decrements(t)
  <2>1. /\ Holds(t) /\ Holds(t)'
        /\ LockCount' - LockCount = Share(t)' - Share(t)
    BY <1>1 DEF ClearsOwner, Decrements, Holds, Share, DepthOfStep
  <2>2. LockCountExact'
    BY <1>0, <2>1, QueueUnchanged
  <2> QED BY <2>1, <2>2 DEF RecursionAtRest
\* The last leave: the holder's share of one is taken off.
<1>2. CASE Unlocks(t)
  <2>1. Holds(t) /\ Share(t) = 1 /\ RecursionCount' = 0
    BY <1>2 DEF Unlocks, Holds, Share, RecursionField
  <2>2. \A u \in Thread \ {t} : ~Holds(u)'
    BY <1>2 DEF Unlocks, Holds, OneHolder
  <2>3. LockCount' + 1 = Cardinality(Queued)'
    BY <1>0, <1>2, <2>1, QueuedFinite DEF Unlocks, LockCountExact
  <2>4. Holds(t)' => Share(t)' = 0
    BY <1>2 DEF Unlocks, Holds, Share, DepthOfStep
  <2> QED BY <2>1, <2>2, <2>3, <2>4, QueuedFinite DEF LockCountExact, RecursionAtRest
\* The holder that posts hands over: its share was off already.
<1>3. CASE UnWaitCriticalSection(t)
  <2>1. Holds(t) /\ Share(t) = 0 /\ LockCount' = LockCount
    BY <1>3 DEF UnWaitCriticalSection, Holds, Share, DepthOfStep
  <2>2. \A u \in Thread : ~Holds(u)'
    BY <1>3 DEF UnWaitCriticalSection, Holds, OneHolder, DepthOfStep
  <2>3. LockCount' + 1 = Cardinality(Queued)'
    BY <1>0, <2>1, QueuedFinite DEF LockCountExact
  <2>4. RecursionCount' = 0
    BY <1>3 DEF UnWaitCriticalSection, RecursionField
  <2> QED BY <2>2, <2>3, <2>4 DEF LockCountExact, RecursionAtRest
<1> QED BY <1>1, <1>2, <1>3

LEMMA CountNext ==
  ASSUME CountInv, ~Interrupts, IsFiniteSet(Thread), [Next]_vars
  PROVE  CountInv'
<1>1. IInv'
  BY NextIInv DEF CountInv
<1>2. ASSUME NEW t \in Thread, Calls(t) PROVE CountInv'
  BY <1>1, <1>2, CallsCount DEF CountInv
<1>3. ASSUME NEW t \in Thread, Continues(t) PROVE CountInv'
  BY <1>1, <1>3, TakingCounts, OwningCounts, GivingCounts DEF Continues, CountInv
<1>4. CASE SetCriticalSectionSpinCount \/ UNCHANGED vars
  <2>1. Queued' = Queued /\ UNCHANGED <<LockCount, RecursionCount>>
    BY <1>4 DEF SetCriticalSectionSpinCount, vars, fields, Queued
  <2>2. \A u \in Thread : (Holds(u)' <=> Holds(u)) /\ Share(u)' = Share(u)
    BY <1>4 DEF SetCriticalSectionSpinCount, vars, fields, Holds, Share
  <2> QED BY <1>1, <2>1, <2>2 DEF CountInv, LockCountExact, RecursionAtRest
<1>5. CASE DeleteCriticalSection \/ InitializeCriticalSectionEx
  <2>1. Unused'
    BY <1>5 DEF DeleteCriticalSection, InitializeCriticalSectionEx, CountInv, IInv,
                DeletedUnused, Unused
  <2>2. (\A u \in Thread : ~Holds(u)') /\ Queued' = {}
    BY <2>1 DEF Unused, Holds, Entering, Leaving, Queued
  <2>3. LockCount' = -1 /\ RecursionCount' = 0
    BY <1>5 DEF DeleteCriticalSection, InitializeCriticalSectionEx
  <2> QED BY <1>1, <2>2, <2>3, FS_EmptySet DEF CountInv, LockCountExact, RecursionAtRest
<1> QED BY <1>2, <1>3, <1>4, <1>5 DEF Next

\* Every entry is counted exactly once.
THEOREM CountInvariance ==
  ASSUME ~Interrupts, IsFiniteSet(Thread) PROVE Spec => []CountInv
<1>1. Init => CountInv
  <2> SUFFICES ASSUME Init PROVE CountInv
    OBVIOUS
  <2>1. (\A u \in Thread : ~Holds(u)) /\ Queued = {}
    BY DEF Init, Holds, Entering, Leaving, Queued
  <2>2. LockCount = -1 /\ RecursionCount = 0
    BY DEF Init
  <2> QED BY <2>1, <2>2, InitIInv, FS_EmptySet DEF CountInv, LockCountExact, RecursionAtRest
<1>2. CountInv /\ [Next]_vars => CountInv'
  BY CountNext
<1> QED BY <1>1, <1>2, PTL DEF Spec

\* What the documentation of the fields says, when no call is under way:
\* LockCount is the number of entries minus one, and the semaphore is empty.
THEOREM CountAtRest ==
  ASSUME ~Interrupts, IsFiniteSet(Thread) PROVE Spec => []LockCountAtRest
<1>1. CountInv => LockCountAtRest
  <2> SUFFICES ASSUME CountInv, \A t \in Thread : pc[t] = "out"
               PROVE  LockCount = RecursionCount - 1 /\ LockSemaphore = 0
    BY DEF LockCountAtRest
  <2> USE DEF CountInv, IInv, TypeOK, Entering, Leaving
  <2>1. Cardinality(Queued) = 0
    BY FS_EmptySet DEF Queued
  <2>2. CASE \E t \in Thread : Holds(t)
    <3>1. PICK t \in Thread : Holds(t)
      BY <2>2
    <3>2. Share(t) = depth[t] /\ RecursionCount = depth[t]
      BY <3>1 DEF Share, Holds, RecursionField
    <3>3. LockCount + 1 = Share(t)
      BY <2>1, <3>1, <3>2 DEF LockCountExact
    <3>4. LockSemaphore # 1
      BY <3>1 DEF SemaphoreToken
    <3> QED BY <3>2, <3>3, <3>4 DEF SemaphoreToken
  <2>3. CASE \A t \in Thread : ~Holds(t)
    BY <2>1, <2>3 DEF LockCountExact, RecursionAtRest, SemaphoreToken
  <2> QED BY <2>2, <2>3
<1> QED BY CountInvariance, <1>1, PTL

\* While a thread sleeps no other takes the section past it: "don't compete
\* with another waiting thread".
THEOREM Queueing ==
  ASSUME ~Interrupts, IsFiniteSet(Thread) PROVE Spec => NoOvertaking
<1> DEFINE Overtaking == \E t \in Thread :
                /\ pc[t] # "owncount" /\ pc'[t] = "owncount"
                /\ \E u \in Thread : Waiting(u)
                /\ ~Waiting(t)
<1>1. CountInv /\ [Next]_vars => ~Overtaking
  <2> SUFFICES ASSUME CountInv, [Next]_vars,
                      NEW t \in Thread, pc[t] # "owncount", pc'[t] = "owncount",
                      pc[t] # "wait", NEW u \in Thread, pc[u] = "wait"
               PROVE  FALSE
    BY DEF Waiting
  <2> USE DEF CountInv, IInv, TypeOK, Steps
  <2>1. LockCount = -1
    <3>1. PICK s \in Thread : Calls(s) \/ Continues(s)
      BY DEF Next, vars, SetCriticalSectionSpinCount, DeleteCriticalSection,
             InitializeCriticalSectionEx
    <3>2. ~Calls(s)
      BY DEF Calls, EnterCriticalSection, TryEnterCriticalSection, LeaveCriticalSection, Goto
    <3>3. TryAcquires(s) \/ SpinAcquires(s) \/ Increments(s)
      BY <3>1, <3>2 DEF Continues, TryTestsOwner, TryCounts, Spins, TestsOwner,
           WaitForCriticalSection, OwnsCount, OwnsThread, ClearsOwner, Unlocks,
           UnWaitCriticalSection, Decrements, Goto, Returns
    <3> QED BY <3>3 DEF TryAcquires, SpinAcquires, Increments, Goto
  <2>2. \A s \in Thread : ~Holds(s)
    BY <2>1 DEF Holds, LockCountCovers
  <2>3. Cardinality(Queued) = 0
    BY <2>1, <2>2, QueuedFinite DEF LockCountExact
  <2>4. Queued = {}
    BY <2>3, QueuedFinite, FS_EmptySet
  <2> QED BY <2>4 DEF Queued
<1>2. CountInv /\ [Next]_vars =>
        [\A t \in Thread :
            pc[t] # "owncount" /\ pc'[t] = "owncount" /\ (\E u \in Thread : Waiting(u))
                => Waiting(t)]_vars
  BY <1>1
<1> QED BY CountInvariance, <1>2, PTL DEF Spec, NoOvertaking
=============================================================================

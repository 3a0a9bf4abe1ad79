------------------------- MODULE MessageQueue_proofs -------------------------
(***************************************************************************)
(* Proofs about MessageQueue, for any threads, messages and capacity: the  *)
(* event follows the size, and the growing ring is a queue.                *)
(*                                                                         *)
(* The lock lets one thread at a time be between the change of size and    *)
(* the SetEvent or ResetEvent that goes with it, so whoever signals does   *)
(* it for the size it left behind, and not for a later one.                *)
(***************************************************************************)
EXTENDS MessageQueue, TLAPS, SequenceTheorems

LEMMA InitQueueInv == Init => QueueInv
<1> SUFFICES ASSUME Init PROVE QueueInv
  OBVIOUS
<1>1. /\ size = 0 /\ ~event /\ event \in BOOLEAN
      /\ held = [t \in Thread |-> 0] /\ pc = [t \in Thread |-> "out"]
  BY DEF Init, lock!Init
<1> QED BY <1>1 DEF QueueInv, LockInv, EventInv, Inside, Steps

\* A thread outside the lock begins a call or waits: nothing it does shows.
LEMMA OutsideKeepsQueueInv ==
  ASSUME QueueInv, NEW t \in Thread,
         Consumes(t) \/ Uses(t) \/ MessageQueue_Wait(t)
  PROVE  QueueInv'
<1>1. /\ UNCHANGED <<ring, event, held>>
      /\ \E s \in {"wait", "enter"} : pc' = [pc EXCEPT ![t] = s]
      /\ pc[t] \in {"out", "wait"}
  <2>1. ASSUME NEW c, NEW s \in {"wait", "enter"}, Begins(t, c, s)
        PROVE  /\ UNCHANGED <<ring, event, held>>
               /\ pc' = [pc EXCEPT ![t] = s]
               /\ pc[t] \in {"out", "wait"}
    BY <2>1 DEF Begins, Goto
  <2>2. CASE Consumes(t)
    BY <2>1, <2>2 DEF Consumes, MessageQueue_Get, WaitAndPeek
  <2>3. CASE Uses(t)
    BY <2>1, <2>3 DEF Uses, MessageQueue_Post, MessageQueue_Peek, MessageQueue_Clear
  <2>4. CASE MessageQueue_Wait(t)
    BY <2>4 DEF MessageQueue_Wait, Goto
  <2> QED BY <2>2, <2>3, <2>4
<1> QED BY <1>1 DEF QueueInv, LockInv, EventInv, Inside, Steps, ring

\* The lock is taken and given back by the rules of Mutex.
LEMMA LockKeepsQueueInv ==
  ASSUME QueueInv, NEW t \in Thread,
         EnterCriticalSection(t) \/ LeaveCriticalSection(t)
  PROVE  QueueInv'
<1> USE DEF QueueInv, LockInv, EventInv, Inside, Steps, ring, Goto
<1>1. CASE EnterCriticalSection(t)
  BY <1>1 DEF EnterCriticalSection, lock!Enter, lock!FreeFor
<1>2. CASE LeaveCriticalSection(t)
  BY <1>2 DEF LeaveCriticalSection, lock!Leave
<1> QED BY <1>1, <1>2

\* The thread inside is the only one between a size and its event.
LEMMA InsideKeepsQueueInv ==
  ASSUME QueueInv, NEW t \in Thread,
         \/ Dispatches(t) \/ DispatchFails(t) \/ Signals(t) \/ Takes(t)
         \/ Looks(t) \/ FindsNothing(t) \/ Clears(t) \/ Resets(t)
  PROVE  QueueInv'
<1> USE DEF QueueInv, LockInv, EventInv, Inside, Steps, ring, Goto, In
<1>1. /\ pc[t] \in {"body", "signal", "reset"} /\ held[t] > 0 /\ held' = held
      /\ \A u \in Thread \ {t} : pc[u] \notin Inside
  BY DEF Dispatches, DispatchFails, Signals, Takes, Looks, FindsNothing, Clears, Resets
<1>2. CASE Dispatches(t)
  <2>1. size' = size + 1 /\ event' = event /\ pc' = [pc EXCEPT ![t] = "signal"]
    BY <1>2 DEF Dispatches, Store
  <2> QED BY <1>1, <2>1
<1>3. CASE DispatchFails(t) \/ Looks(t) \/ FindsNothing(t)
  <2>1. /\ UNCHANGED <<size, event>> /\ pc[t] = "body"
        /\ \E s \in {"out", "leave"} : pc' = [pc EXCEPT ![t] = s]
    BY <1>3 DEF DispatchFails, Looks, FindsNothing
  <2> QED BY <1>1, <2>1
<1>4. CASE Takes(t)
  <2>1. /\ size > 0 /\ size' = size - 1 /\ event' = event /\ pc[t] = "body"
        /\ pc' = [pc EXCEPT ![t] = IF size - 1 < 1 THEN "reset" ELSE "leave"]
    BY <1>4 DEF Takes, Removes
  <2> QED BY <1>1, <2>1
<1>5. CASE Clears(t)
  <2>1. size' = 0 /\ event' = event /\ pc' = [pc EXCEPT ![t] = "reset"]
    BY <1>5 DEF Clears
  <2> QED BY <1>1, <2>1
<1>6. CASE Signals(t)
  <2>1. size > 0 /\ size' = size /\ pc' = [pc EXCEPT ![t] = "leave"]
    BY <1>6 DEF Signals
  <2>2. event' = TRUE
    BY <1>6, <2>1 DEF Signals
  <2> QED BY <1>1, <2>1, <2>2
<1>7. CASE Resets(t)
  <2>1. size = 0 /\ size' = size /\ pc' = [pc EXCEPT ![t] = "leave"]
    BY <1>7 DEF Resets
  <2>2. ~event' /\ event' \in BOOLEAN
    BY <1>7, Zenon DEF Resets
  <2> QED BY <1>1, <2>1, <2>2
<1> QED BY <1>2, <1>3, <1>4, <1>5, <1>6, <1>7

\* At every moment one thread at most is inside, and the event follows size.
THEOREM QueueInvariance == Spec => []QueueInv
<1>1. QueueInv /\ [Next]_vars => QueueInv'
  <2> SUFFICES ASSUME QueueInv, [Next]_vars PROVE QueueInv'
    OBVIOUS
  <2>1. CASE \E t \in Thread : Continues(t)
    BY <2>1, OutsideKeepsQueueInv, LockKeepsQueueInv, InsideKeepsQueueInv DEF Continues
  <2>2. CASE (\E t \in Consumers : Consumes(t)) \/ (\E t \in Thread \ Consumers : Uses(t))
    BY <2>2, OutsideKeepsQueueInv, QueueAssumption
  <2>3. CASE UNCHANGED vars
    BY <2>3 DEF vars, ring, QueueInv, LockInv, EventInv, Inside
  <2> QED BY <2>1, <2>2, <2>3 DEF Next
<1> QED BY InitQueueInv, <1>1, PTL DEF Spec

\* "An event which is set when the queue is non-empty", and only then, in
\* every state in which the lock is free (MessageQueue_Event).
THEOREM EventIsExact == Spec => []EventSetIffNonEmpty
<1>1. QueueInv => EventSetIffNonEmpty
  <2> SUFFICES ASSUME QueueInv, LockIsFree PROVE event <=> size > 0
    BY DEF EventSetIffNonEmpty
  <2>1. \A t \in Thread : pc[t] \notin Inside
    BY DEF QueueInv, LockInv, LockIsFree
  <2> QED BY <2>1 DEF QueueInv, EventInv, Inside
<1> QED BY QueueInvariance, <1>1, PTL

\* No message lies under a clear event but one whose sender, still inside the
\* lock, is about to set it (MessageQueue_Dispatch).
THEOREM Announced == Spec => []NoUnannouncedMessage
<1>1. QueueInv => NoUnannouncedMessage
  <2> SUFFICES ASSUME QueueInv, size > 0, ~event
               PROVE  \E t \in Thread : held[t] > 0 /\ pc[t] = "signal"
    BY DEF NoUnannouncedMessage
  <2>1. PICK t \in Thread : pc[t] \in {"signal", "reset"}
    BY DEF QueueInv, EventInv
  <2>2. pc[t] = "signal"
    BY <2>1 DEF QueueInv, EventInv
  <2> QED BY <2>2 DEF QueueInv, LockInv, Inside
<1> QED BY QueueInvariance, <1>1, PTL
-----------------------------------------------------------------------------
(***************************************************************************)
(* The ring is a queue.                                                    *)
(***************************************************************************)

\* A message that is to be dispatched is one.
Addressed ==
  \A t \in Thread : call[t] = "post" /\ pc[t] \in {"wait", "enter", "body"} => message[t] \in Msg

\* Tail is where the next message goes, right behind the last one.
RingInv == TypeOK /\ Addressed /\ tail = (head + size) % capacity

\* An index that has passed the end of the ring once goes on at its beginning.
Wrap(a, c) == IF a < c THEN a ELSE a - c

LEMMA Wraps ==
  ASSUME NEW c \in Nat \ {0}, NEW a \in 0 .. 2 * c - 1
  PROVE  a % c = Wrap(a, c) /\ a % c \in 0 .. c - 1
<1>1. CASE a < c
  BY <1>1 DEF Wrap
<1>2. CASE a >= c
  BY <1>2 DEF Wrap
<1> QED BY <1>1, <1>2

\* The place of the i-th message in a ring of capacity c.
LEMMA Places ==
  ASSUME NEW c \in Nat \ {0}, NEW h \in 0 .. c - 1, NEW n \in 0 .. c, NEW i \in 1 .. n
  PROVE  /\ (h + i - 1) % c = Wrap(h + i - 1, c)
         /\ Wrap(h + i - 1, c) \in 0 .. c - 1
<1>1. h + i - 1 \in 0 .. 2 * c - 1
  OBVIOUS
<1> QED BY <1>1, Wraps

\* The messages in the ring, without the remainders.
LEMMA ContentsOfRing ==
  ASSUME TypeOK
  PROVE  /\ Contents = [i \in 1 .. size |-> array[Wrap(head + i - 1, capacity)]]
         /\ \A i \in 1 .. size : Wrap(head + i - 1, capacity) \in 0 .. capacity - 1
         /\ Contents \in Seq(Msg \cup {NoMsg}) /\ Len(Contents) = size
<1>1. /\ capacity \in Nat \ {0} /\ head \in 0 .. capacity - 1 /\ size \in 0 .. capacity
      /\ array \in [0 .. capacity - 1 -> Msg \cup {NoMsg}]
  BY DEF TypeOK
<1>2. \A i \in 1 .. size : /\ (head + i - 1) % capacity = Wrap(head + i - 1, capacity)
                           /\ Wrap(head + i - 1, capacity) \in 0 .. capacity - 1
  BY <1>1, Places
<1>3. Contents = [i \in 1 .. size |-> array[Wrap(head + i - 1, capacity)]]
  BY <1>2 DEF Contents
<1>4. Contents \in [1 .. size -> Msg \cup {NoMsg}] /\ size \in Nat
  <2>1. \A i \in 1 .. size : array[Wrap(head + i - 1, capacity)] \in Msg \cup {NoMsg}
    BY <1>1, <1>2
  <2>2. Contents \in [1 .. size -> Msg \cup {NoMsg}]
    BY <1>3, <2>1, Zenon
  <2> QED BY <2>2, <1>1
<1>5. Contents \in Seq(Msg \cup {NoMsg}) /\ Len(Contents) = size
  BY <1>4
<1> QED BY <1>2, <1>3, <1>5

LEMMA RingInvInit == Init => RingInv
<1> SUFFICES ASSUME Init PROVE RingInv
  OBVIOUS
<1> USE QueueAssumption
<1>1. held \in [Thread -> Nat]
  BY DEF Init, lock!Init
<1>2. InitialCapacity \in Nat \ {0}
  OBVIOUS
<1>3. 0 % InitialCapacity = 0
  BY <1>2, Wraps DEF Wrap
<1>4. /\ capacity = InitialCapacity /\ head = 0 /\ tail = 0 /\ size = 0
      /\ array = [i \in 0 .. InitialCapacity - 1 |-> NoMsg]
  BY DEF Init
<1>5. /\ array \in [0 .. capacity - 1 -> Msg \cup {NoMsg}]
      /\ tail = (head + size) % capacity
  BY <1>3, <1>4
<1>6. /\ event \in BOOLEAN
      /\ pc = [t \in Thread |-> "out"]
      /\ call = [t \in Thread |-> "none"]
      /\ message = [t \in Thread |-> NoMsg]
      /\ received = [t \in Thread |-> NoMsg]
      /\ status = [t \in Thread |-> -1]
  BY Zenon DEF Init
<1>7. Addressed
  BY <1>6 DEF Addressed
<1>8. capacity \in Nat \ {0} /\ head \in 0 .. capacity - 1
      /\ tail \in 0 .. capacity - 1 /\ size \in 0 .. capacity
  BY <1>2, <1>4
<1> QED BY <1>1, <1>5, <1>6, <1>7, <1>8 DEF RingInv, TypeOK, Steps, Calls

\* The steps that do not touch the ring.
LEMMA OffRing ==
  ASSUME RingInv, NEW t \in Thread,
         \/ Consumes(t) \/ Uses(t) \/ MessageQueue_Wait(t)
         \/ EnterCriticalSection(t) \/ LeaveCriticalSection(t)
         \/ DispatchFails(t) \/ Signals(t) \/ Looks(t) \/ FindsNothing(t) \/ Resets(t)
  PROVE  RingInv' /\ UNCHANGED ring
<1> USE DEF RingInv, TypeOK, Addressed, Steps, Calls, ring, Goto, locals
<1>1. CASE Consumes(t)
  BY <1>1 DEF Consumes, MessageQueue_Get, WaitAndPeek, Begins
<1>2. CASE Uses(t)
  <2>1. ASSUME NEW m \in Msg, MessageQueue_Post(t, m) PROVE RingInv' /\ UNCHANGED ring
    BY <2>1 DEF MessageQueue_Post, Begins
  <2>2. ASSUME NEW remove \in BOOLEAN, MessageQueue_Peek(t, remove)
        PROVE  RingInv' /\ UNCHANGED ring
    BY <2>2 DEF MessageQueue_Peek, Begins
  <2>3. CASE MessageQueue_Clear(t)
    BY <2>3 DEF MessageQueue_Clear, Begins
  <2> QED BY <1>2, <2>1, <2>2, <2>3 DEF Uses
<1>3. CASE MessageQueue_Wait(t)
  <2>1. /\ pc[t] = "wait" /\ pc' = [pc EXCEPT ![t] = "enter"]
        /\ UNCHANGED <<ring, event, held, locals>>
    BY <1>3 DEF MessageQueue_Wait
  <2> QED BY <2>1
<1>4. CASE EnterCriticalSection(t)
  BY <1>4 DEF EnterCriticalSection, lock!Enter
<1>5. CASE LeaveCriticalSection(t)
  BY <1>5 DEF LeaveCriticalSection, lock!Leave
<1>6. CASE DispatchFails(t)
  BY <1>6 DEF DispatchFails
<1>7. CASE Signals(t) \/ Resets(t)
  BY <1>7 DEF Signals, Resets
<1>8. CASE Looks(t)
  <2>1. array[head] \in Msg \cup {NoMsg}
    OBVIOUS
  <2> QED BY <1>8, <2>1 DEF Looks, Receives, In
<1>9. CASE FindsNothing(t)
  BY <1>9 DEF FindsNothing, In
<1> QED BY <1>1, <1>2, <1>3, <1>4, <1>5, <1>6, <1>7, <1>8, <1>9

\* What is appended goes behind the rest.
LEMMA AppendAt ==
  ASSUME NEW S, NEW q \in Seq(S), NEW m \in S, NEW n \in Nat, Len(q) = n
  PROVE  Append(q, m) = [i \in 1 .. n + 1 |-> IF i = n + 1 THEN m ELSE q[i]]
<1>1. Append(q, m) \in Seq(S) /\ Len(Append(q, m)) = n + 1
  OBVIOUS
<1>2. Append(q, m) \in [1 .. n + 1 -> S]
  <2> DEFINE a == Append(q, m)
  <2>1. a \in Seq(S) /\ Len(a) = n + 1
    BY <1>1
  <2> HIDE DEF a
  <2>2. a \in [1 .. Len(a) -> S]
    BY <2>1, LenProperties
  <2>3. a \in [1 .. n + 1 -> S]
    BY <2>1, <2>2, Zenon
  <2> QED BY <2>3 DEF a
<1>3. \A i \in 1 .. n + 1 : Append(q, m)[i] = IF i = n + 1 THEN m ELSE q[i]
  OBVIOUS
<1> QED BY <1>2, <1>3

\* One more message in the ring, behind those that were there, is an Append.
LEMMA Appended ==
  ASSUME TypeOK, TypeOK', NEW m \in Msg, size' = size + 1,
         \A i \in 1 .. size + 1 :
            array'[Wrap(head' + i - 1, capacity')] =
              IF i = size + 1 THEN m ELSE array[Wrap(head + i - 1, capacity)]
  PROVE  Contents' = Append(Contents, m)
<1>1. Contents' = [i \in 1 .. size + 1 |-> array'[(head' + i - 1) % capacity']]
  BY DEF Contents
<1>2. \A i \in 1 .. size + 1 : (head' + i - 1) % capacity' = Wrap(head' + i - 1, capacity')
  <2>1. capacity' \in Nat \ {0} /\ head' \in 0 .. capacity' - 1 /\ size' \in 0 .. capacity'
    BY DEF TypeOK
  <2> QED BY <2>1, Places
<1>3. Append(Contents, m)
        = [i \in 1 .. size + 1 |-> IF i = size + 1 THEN m ELSE Contents[i]]
  <2>1. m \in Msg \cup {NoMsg} /\ size \in Nat
    BY DEF TypeOK
  <2> QED BY <2>1, ContentsOfRing, AppendAt
<1>4. \A i \in 1 .. size : Contents[i] = array[Wrap(head + i - 1, capacity)]
  BY ContentsOfRing
<1>5. \A i \in 1 .. size + 1 : (IF i = size + 1 THEN m ELSE Contents[i])
                              = array'[(head' + i - 1) % capacity']
  <2> SUFFICES ASSUME NEW i \in 1 .. size + 1
               PROVE  (IF i = size + 1 THEN m ELSE Contents[i])
                        = array'[(head' + i - 1) % capacity']
    OBVIOUS
  <2>1. CASE i = size + 1
    BY <2>1, <1>2
  <2>2. CASE i # size + 1
    <3>1. size \in Nat
      BY DEF TypeOK
    <3>2. i \in 1 .. size
      BY <2>2, <3>1
    <3> QED BY <2>2, <3>2, <1>4, <1>2
  <2> QED BY <2>1, <2>2
<1> QED BY <1>1, <1>3, <1>5

\* A message is dispatched behind the others, into the free slot of the ring
\* or into the one of the grown ring.
LEMMA Dispatched ==
  ASSUME RingInv, NEW t \in Thread, Dispatches(t)
  PROVE  RingInv' /\ Contents' = Append(Contents, message[t])
<1> USE DEF RingInv, TypeOK
<1>m. message[t] \in Msg
  BY DEF Addressed, Dispatches, In
<1>r. /\ event \in BOOLEAN /\ UNCHANGED <<event, held, call, received, status>>
      /\ pc' = [pc EXCEPT ![t] = "signal"] /\ message' = [message EXCEPT ![t] = NoMsg]
  BY DEF Dispatches, Goto
<1>a. Addressed'
  BY <1>r DEF Addressed, Steps
<1>1. CASE ~Full
  <2>1. /\ size < capacity /\ head' = head /\ size' = size + 1 /\ capacity' = capacity
        /\ array' = [array EXCEPT ![tail] = message[t]]
        /\ tail' = (tail + 1) % capacity
    BY <1>1 DEF Dispatches, Full, Store
  <2>2. tail = Wrap(head + size, capacity)
    <3>1. head + size \in 0 .. 2 * capacity - 1
      BY <2>1
    <3> QED BY <3>1, Wraps
  <2>3. tail' = Wrap(tail + 1, capacity) /\ tail' \in 0 .. capacity - 1
    <3>1. tail + 1 \in 0 .. 2 * capacity - 1
      OBVIOUS
    <3> QED BY <3>1, <2>1, Wraps
  <2>4. tail' = (head' + size') % capacity'
    <3>1. head + size + 1 \in 0 .. 2 * capacity - 1
      BY <2>1
    <3>2. (head + size + 1) % capacity = Wrap(head + size + 1, capacity)
      BY <3>1, Wraps
    <3>3. Wrap(head + size + 1, capacity) = Wrap(tail + 1, capacity)
      BY <2>1, <2>2 DEF Wrap
    <3>4. head' + size' = head + size + 1
      BY <2>1
    <3> QED BY <2>1, <2>3, <3>2, <3>3, <3>4
  <2>5. array' \in [0 .. capacity - 1 -> Msg \cup {NoMsg}]
    BY <2>1, <1>m
  <2>6. TypeOK'
    BY <2>1, <2>3, <2>5, <1>r DEF Steps
  <2>7. \A i \in 1 .. size + 1 :
           array'[Wrap(head' + i - 1, capacity')] =
             IF i = size + 1 THEN message[t] ELSE array[Wrap(head + i - 1, capacity)]
    <3> SUFFICES ASSUME NEW i \in 1 .. size + 1
                 PROVE  array'[Wrap(head + i - 1, capacity)] =
                          IF i = size + 1 THEN message[t]
                          ELSE array[Wrap(head + i - 1, capacity)]
      BY <2>1
    <3>1. CASE i = size + 1
      BY <3>1, <2>1, <2>2
    <3>2. CASE i # size + 1
      <4>1. Wrap(head + i - 1, capacity) \in 0 .. capacity - 1
        <5>1. i \in 1 .. size
          BY <3>2
        <5> QED BY <5>1, ContentsOfRing
      <4>2. Wrap(head + i - 1, capacity) # tail
        BY <3>2, <2>1, <2>2 DEF Wrap
      <4> QED BY <3>2, <4>1, <4>2, <2>1
    <3> QED BY <3>1, <3>2
  <2>8. Contents' = Append(Contents, message[t])
    BY <1>m, <2>1, <2>6, <2>7, Appended
  <2> QED BY <1>a, <2>4, <2>6, <2>8
<1>2. CASE Full
  <2>1. tail = head
    <3>1. head + size \in 0 .. 2 * capacity - 1 /\ size = capacity
      BY <1>2 DEF Full
    <3>2. tail = Wrap(head + size, capacity)
      BY <3>1, Wraps
    <3> QED BY <3>1, <3>2 DEF Wrap
  <2>2. /\ size = capacity /\ head' = head /\ size' = size + 1 /\ capacity' = 2 * capacity
        /\ array' = [Grown.array EXCEPT ![head + capacity] = message[t]]
        /\ tail' = (head + capacity + 1) % (2 * capacity)
    BY <1>2, <2>1 DEF Dispatches, Full, Store, Grown
  <2>3. 2 * capacity \in Nat \ {0} /\ head + capacity \in 0 .. 2 * capacity - 1
    OBVIOUS
  <2>4. Grown.array \in [0 .. 2 * capacity - 1 -> Msg \cup {NoMsg}]
    BY DEF Grown
  <2>5. array' \in [0 .. 2 * capacity - 1 -> Msg \cup {NoMsg}]
    BY <1>m, <2>2, <2>3, <2>4
  <2>6. tail' \in 0 .. 2 * capacity - 1
    <3>1. head + capacity + 1 \in 0 .. 2 * (2 * capacity) - 1
      OBVIOUS
    <3> QED BY <2>2, <2>3, <3>1, Wraps
  <2>7. TypeOK'
    BY <2>2, <2>3, <2>5, <2>6, <1>r DEF Steps
  <2>8. tail' = (head' + size') % capacity'
    BY <2>2
  <2>9. \A i \in 1 .. size + 1 :
           array'[Wrap(head' + i - 1, capacity')] =
             IF i = size + 1 THEN message[t] ELSE array[Wrap(head + i - 1, capacity)]
    <3> SUFFICES ASSUME NEW i \in 1 .. size + 1
                 PROVE  array'[head + i - 1] =
                          IF i = size + 1 THEN message[t]
                          ELSE array[Wrap(head + i - 1, capacity)]
      <4>1. ASSUME NEW i \in 1 .. size + 1 PROVE Wrap(head' + i - 1, capacity') = head + i - 1
        BY <2>2 DEF Wrap
      <4> QED BY <4>1
    <3>1. CASE i = size + 1
      <4>1. head + i - 1 = head + capacity
        BY <3>1, <2>2
      <4>2. array'[head + capacity] = message[t]
        BY <2>2, <2>3, <2>4
      <4> QED BY <3>1, <4>1, <4>2
    <3>2. CASE i # size + 1
      <4>1. head + i - 1 \in 0 .. 2 * capacity - 1 /\ head + i - 1 # head + capacity
        <5>1. size = capacity
          BY <2>2
        <5>2. capacity \in Nat /\ head \in Nat /\ head < capacity
          OBVIOUS
        <5> HIDE DEF RingInv, TypeOK
        <5>3. i \in Nat /\ 1 <= i /\ i <= capacity
          BY <3>2, <5>1, <5>2
        <5> QED BY <5>2, <5>3
      <4>2. array'[head + i - 1] = Grown.array[head + i - 1]
        BY <4>1, <2>2, <2>4
      <4>3. Grown.array[head + i - 1] = array[Wrap(head + i - 1, capacity)]
        BY <3>2, <4>1, <2>1, <2>2 DEF Grown, Wrap
      <4> QED BY <3>2, <4>2, <4>3
    <3> QED BY <3>1, <3>2
  <2>10. Contents' = Append(Contents, message[t])
    BY <1>m, <2>2, <2>7, <2>9, Appended
  <2> QED BY <1>a, <2>7, <2>8, <2>10
<1> QED BY <1>1, <1>2

\* The first of the messages goes, and its receiver gets it.
LEMMA Taken ==
  ASSUME RingInv, NEW t \in Thread, Takes(t)
  PROVE  /\ RingInv' /\ Contents # <<>> /\ Contents' = Tail(Contents)
         /\ array[head] = Head(Contents)
<1> USE DEF RingInv, TypeOK
<1>1. /\ size > 0 /\ head' = (head + 1) % capacity /\ size' = size - 1
      /\ UNCHANGED <<capacity, tail, event, held, call, message>>
      /\ array' = [array EXCEPT ![head] = NoMsg]
      /\ \E s \in {"reset", "leave"} : pc' = [pc EXCEPT ![t] = s]
      /\ received' = [received EXCEPT ![t] = array[head]]
      /\ \E r \in {0, 1} : status' = [status EXCEPT ![t] = r]
  BY DEF Takes, Receives, Removes, Goto
<1>2. head' = Wrap(head + 1, capacity) /\ head' \in 0 .. capacity - 1
  <2>1. head + 1 \in 0 .. 2 * capacity - 1
    OBVIOUS
  <2> QED BY <1>1, <2>1, Wraps
<1>3. tail' = (head' + size') % capacity'
  <2>1. tail = Wrap(head + size, capacity)
    <3>1. head + size \in 0 .. 2 * capacity - 1
      OBVIOUS
    <3> QED BY <3>1, Wraps
  <2>2. head' + size' \in 0 .. 2 * capacity - 1
    BY <1>1, <1>2
  <2>3. (head' + size') % capacity = Wrap(head' + size', capacity)
    BY <2>2, Wraps
  <2>4. Wrap(head' + size', capacity) = Wrap(head + size, capacity)
    <3>1. CASE head + 1 < capacity
      <4>1. head' = head + 1
        BY <3>1, <1>2 DEF Wrap
      <4>2. head' + size' = head + size
        BY <4>1, <1>1
      <4> QED BY <4>2
    <3>2. CASE head + 1 = capacity
      <4>1. head' = 0 /\ size' = size - 1 /\ size >= 1 /\ size <= capacity
        BY <3>2, <1>1, <1>2 DEF Wrap
      <4> QED BY <3>2, <4>1 DEF Wrap
    <3> QED BY <3>1, <3>2
  <2> QED BY <1>1, <2>1, <2>3, <2>4
<1>4. Addressed'
  BY <1>1 DEF Addressed, Steps
<1>5. TypeOK'
  <2>1. array' \in [0 .. capacity - 1 -> Msg \cup {NoMsg}]
    BY <1>1
  <2>2. received' \in [Thread -> Msg \cup {NoMsg}]
    BY <1>1
  <2> QED BY <1>1, <1>2, <2>1, <2>2 DEF Steps
<1>6. /\ Contents \in Seq(Msg \cup {NoMsg}) /\ Len(Contents) = size
      /\ Contents = [i \in 1 .. size |-> array[Wrap(head + i - 1, capacity)]]
  BY ContentsOfRing
<1>7. Contents # <<>> /\ array[head] = Head(Contents)
  <2>1. Wrap(head, capacity) = head /\ 1 \in 1 .. size /\ head + 1 - 1 = head
    BY <1>1 DEF Wrap
  <2>2. Contents[1] = array[head]
    BY <1>6, <2>1
  <2>3. \A q \in Seq(Msg \cup {NoMsg}) : Len(q) > 0 => q # <<>> /\ Head(q) = q[1]
    OBVIOUS
  <2> QED BY <1>1, <1>6, <2>2, <2>3
<1>8. Contents' = [i \in 1 .. size - 1 |-> array[Wrap(head + i, capacity)]]
  <2>1. Contents' = [i \in 1 .. size - 1 |-> array'[(head' + i - 1) % capacity]]
    BY <1>1 DEF Contents
  <2>2. \A i \in 1 .. size - 1 : array'[(head' + i - 1) % capacity] = array[Wrap(head + i, capacity)]
    <3> SUFFICES ASSUME NEW i \in 1 .. size - 1
                 PROVE  array'[(head' + i - 1) % capacity] = array[Wrap(head + i, capacity)]
      OBVIOUS
    <3>1. (head' + i - 1) % capacity = Wrap(head' + i - 1, capacity)
      <4>1. head' + i - 1 \in 0 .. 2 * capacity - 1
        BY <1>2
      <4> QED BY <4>1, Wraps
    <3>2. Wrap(head' + i - 1, capacity) = Wrap(head + i, capacity)
      BY <1>2 DEF Wrap
    <3>3. Wrap(head + i, capacity) # head /\ Wrap(head + i, capacity) \in 0 .. capacity - 1
      BY DEF Wrap
    <3> QED BY <3>1, <3>2, <3>3, <1>1
  <2> HIDE DEF RingInv, TypeOK
  <2> QED BY <2>1, <2>2
<1>9. Tail(Contents) = [i \in 1 .. size - 1 |-> Contents[i + 1]]
  BY <1>6
<1>10. \A i \in 1 .. size - 1 : Contents[i + 1] = array[Wrap(head + i, capacity)]
  BY <1>6
<1> QED BY <1>3, <1>4, <1>5, <1>7, <1>8, <1>9, <1>10

\* No message is left.
LEMMA Cleared ==
  ASSUME RingInv, NEW t \in Thread, Clears(t)
  PROVE  RingInv' /\ Contents' = <<>>
<1> USE DEF RingInv, TypeOK
<1>1. /\ size' = 0 /\ head' = tail /\ UNCHANGED <<capacity, tail, event, held, locals>>
      /\ pc' = [pc EXCEPT ![t] = "reset"]
  BY DEF Clears, Goto
<1>2. array' \in [0 .. capacity - 1 -> Msg \cup {NoMsg}]
  BY DEF Clears
<1>3. tail' = (head' + size') % capacity'
  <2>1. tail % capacity = Wrap(tail, capacity)
    <3>1. tail \in 0 .. 2 * capacity - 1
      OBVIOUS
    <3> QED BY <3>1, Wraps
  <2>2. Wrap(tail, capacity) = tail /\ tail + 0 = tail
    BY DEF Wrap
  <2> QED BY <1>1, <2>1, <2>2
<1>4. TypeOK' /\ Addressed'
  BY <1>1, <1>2 DEF Addressed, Steps, locals
<1>5. Contents' = <<>>
  BY <1>1 DEF Contents
<1> QED BY <1>3, <1>4, <1>5

LEMMA RingSteps == RingInv /\ [Next]_vars => RingInv' /\ [Fifo!Next]_Fifo!vars
<1> SUFFICES ASSUME RingInv, [Next]_vars PROVE RingInv' /\ [Fifo!Next]_Fifo!vars
  OBVIOUS
<1> USE DEF Fifo!vars
<1>c. UNCHANGED ring => Contents' = Contents
  BY DEF ring, Contents
<1>1. ASSUME NEW t \in Thread,
             \/ Consumes(t) \/ Uses(t) \/ MessageQueue_Wait(t) \/ EnterCriticalSection(t)
             \/ DispatchFails(t) \/ Signals(t) \/ FindsNothing(t) \/ Resets(t)
      PROVE  RingInv' /\ [Fifo!Next]_Fifo!vars
  <2>1. received' = received
    BY <1>1 DEF Consumes, MessageQueue_Get, WaitAndPeek, Uses, MessageQueue_Post,
         MessageQueue_Peek, MessageQueue_Clear, Begins, MessageQueue_Wait,
         EnterCriticalSection, DispatchFails, Signals, FindsNothing, Resets, locals
  <2>2. RingInv' /\ UNCHANGED ring
    BY <1>1, OffRing
  <2> QED BY <2>1, <2>2, <1>c
<1>2. ASSUME NEW t \in Thread, LeaveCriticalSection(t) \/ Looks(t)
      PROVE  RingInv' /\ [Fifo!Next]_Fifo!vars
  <2>1. RingInv' /\ UNCHANGED ring
    BY <1>2, OffRing
  <2>2. CASE LeaveCriticalSection(t)
    <3>1. Fifo!Finish(t)
      BY <2>1, <2>2, <1>c DEF Fifo!Finish, LeaveCriticalSection
    <3> QED BY <2>1, <3>1 DEF Fifo!Next
  <2>3. CASE Looks(t)
    <3>1. Contents # <<>> /\ Head(Contents) = array[head]
      <4>1. size > 0 /\ size \in Nat /\ head < capacity /\ head + 1 - 1 = head
        BY <2>3 DEF Looks, RingInv, TypeOK
      <4>2. Contents[1] = array[head]
        BY <4>1, ContentsOfRing DEF RingInv, Wrap
      <4>3. \A q \in Seq(Msg \cup {NoMsg}) : Len(q) > 0 => q # <<>> /\ Head(q) = q[1]
        OBVIOUS
      <4> QED BY <4>1, <4>2, <4>3, ContentsOfRing DEF RingInv
    <3>2. Fifo!Look(t)
      BY <2>1, <2>3, <3>1, <1>c DEF Fifo!Look, Fifo!Receive, Looks, Receives
    <3> QED BY <2>1, <3>2 DEF Fifo!Next
  <2> QED BY <1>2, <2>2, <2>3
<1>3. ASSUME NEW t \in Thread, Dispatches(t) PROVE RingInv' /\ [Fifo!Next]_Fifo!vars
  <2>1. message[t] \in Msg /\ received' = received
    BY <1>3 DEF Dispatches, In, RingInv, Addressed
  <2>2. Fifo!Post(message[t])
    BY <1>3, <2>1, Dispatched DEF Fifo!Post
  <2> QED BY <1>3, <2>1, <2>2, Dispatched DEF Fifo!Next
<1>4. ASSUME NEW t \in Thread, Takes(t) PROVE RingInv' /\ [Fifo!Next]_Fifo!vars
  <2>1. Fifo!Take(t)
    BY <1>4, Taken DEF Fifo!Take, Fifo!Receive, Takes, Receives
  <2> QED BY <1>4, <2>1, Taken DEF Fifo!Next
<1>5. ASSUME NEW t \in Thread, Clears(t) PROVE RingInv' /\ [Fifo!Next]_Fifo!vars
  <2>1. Fifo!Clear
    BY <1>5, Cleared DEF Fifo!Clear, Clears, locals
  <2> QED BY <1>5, <2>1, Cleared DEF Fifo!Next
<1>6. CASE UNCHANGED vars
  <2>1. UNCHANGED <<Contents, received>>
    BY <1>6, <1>c DEF vars, locals
  <2>2. RingInv'
    BY <1>6 DEF vars, ring, locals, RingInv, TypeOK, Addressed
  <2> QED BY <2>1, <2>2
<1>7. ASSUME NEW t \in Thread, Continues(t) PROVE RingInv' /\ [Fifo!Next]_Fifo!vars
  BY <1>1, <1>2, <1>3, <1>4, <1>5, <1>7 DEF Continues
<1>8. CASE (\E t \in Consumers : Consumes(t)) \/ (\E t \in Thread \ Consumers : Uses(t))
  BY <1>1, <1>8, QueueAssumption
<1> QED BY <1>6, <1>7, <1>8 DEF Next

\* The ring's indices stay in the array, through every growth, and tail stays
\* behind the last message (MessageQueue_Dispatch, MessageQueue_Get).
THEOREM RingInvariance == Spec => []RingInv
BY RingInvInit, RingSteps, PTL DEF Spec

\* The queue is well typed: no index leaves the array.
THEOREM QueueTypes == Spec => []TypeOK
<1>1. RingInv => TypeOK
  BY DEF RingInv
<1> QED BY RingInvariance, <1>1, PTL

\* For any threads, capacity and bounds the ring is a first-in-first-out queue:
\* each message leaves it once, in the order of the MessageQueue_Dispatch calls.
THEOREM FifoImplemented == Spec => ImplementsFifo
<1>1. Init => Fifo!Init
  <2> SUFFICES ASSUME Init PROVE Contents = <<>> /\ received = [t \in Thread |-> NoMsg]
    BY DEF Fifo!Init
  <2> QED BY DEF Init, Contents
<1> QED BY <1>1, RingInvariance, RingSteps, PTL DEF Spec, ImplementsFifo, Fifo!Spec
=============================================================================

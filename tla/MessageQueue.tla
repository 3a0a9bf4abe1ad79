----------------------------- MODULE MessageQueue -----------------------------
(***************************************************************************)
(* The message queue of WinPR                                              *)
(* (src/Players/winpr/libwinpr/utils/collections/MessageQueue.c), which    *)
(* the channels, the input and update proxies and the clients post to: a   *)
(* ring buffer that doubles when it is full, a critical section around it, *)
(* and a manual-reset event for those who wait.                            *)
(*                                                                         *)
(* The critical section is the re-entrant lock that CriticalSection        *)
(* implements.  Waiting for the event happens outside it, so the queue a   *)
(* thread was woken for may be empty again when it comes to look.  Stores  *)
(* and the event are separate steps: who waits sees one before the other.  *)
(*                                                                         *)
(* A message stands for its id and what it carries.  Its time is left out: *)
(* nothing reads it.                                                       *)
(***************************************************************************)
EXTENDS Integers, Sequences, FiniteSets

CONSTANTS
    Thread,           \* the threads that use the queue
    Consumers,        \* those of them that loop on Get, or Wait and Peek, until Quit
    Msg,              \* messages
    Quit,             \* the message whose id is WMQ_QUIT
    NoMsg,            \* a zeroed slot
    InitialCapacity,  \* 32 in the code
    MaxFailures,      \* bound: failed reallocs per thread, 0 for none
    MaxSize           \* bound: messages in the queue or on their way into it

ASSUME QueueAssumption ==
    /\ Consumers \subseteq Thread
    /\ Quit \in Msg
    /\ NoMsg \notin Msg
    /\ InitialCapacity \in Nat \ {0}
    /\ MaxFailures \in Nat
    /\ MaxSize \in Nat

VARIABLES
    array, capacity, head, tail, size,
    event,      \* the event is signalled
    held,       \* the lock: how often each thread has entered it
    pc,         \* the next step of each thread's call, "out" in none
    call,       \* the call it is in
    message,    \* the message it posts
    received,   \* the message the Get or Peek it is in gives it
    status      \* what the Get or Peek it is in returns

ring == <<array, capacity, head, tail, size>>
locals == <<call, message, received, status>>
vars == <<ring, event, held, pc, locals>>

lock == INSTANCE Mutex

Calls == {"none", "post", "get", "peek", "remove", "clear"}
Steps == {"out", "wait", "enter", "body", "signal", "reset", "leave", "done"}

TypeOK ==
    /\ capacity \in Nat \ {0}
    /\ array \in [0 .. capacity - 1 -> Msg \cup {NoMsg}]
    /\ head \in 0 .. capacity - 1
    /\ tail \in 0 .. capacity - 1
    /\ size \in 0 .. capacity
    /\ event \in BOOLEAN
    /\ held \in [Thread -> Nat]
    /\ pc \in [Thread -> Steps]
    /\ call \in [Thread -> Calls]
    /\ message \in [Thread -> Msg \cup {NoMsg}]
    /\ received \in [Thread -> Msg \cup {NoMsg}]
    /\ status \in [Thread -> {-1, 0, 1}]

\* MessageQueue_New.
Init ==
    /\ capacity = InitialCapacity
    /\ array = [i \in 0 .. InitialCapacity - 1 |-> NoMsg]
    /\ head = 0 /\ tail = 0 /\ size = 0
    /\ event = FALSE
    /\ lock!Init
    /\ pc = [t \in Thread |-> "out"]
    /\ call = [t \in Thread |-> "none"]
    /\ message = [t \in Thread |-> NoMsg]
    /\ received = [t \in Thread |-> NoMsg]
    /\ status = [t \in Thread |-> -1]

Goto(t, s) == pc' = [pc EXCEPT ![t] = s]

\* t is in the body of the call c, inside the lock.
In(t, c) == pc[t] = "body" /\ call[t] = c

-----------------------------------------------------------------------------
(***************************************************************************)
(* The beginnings of the calls.                                            *)
(***************************************************************************)

Begins(t, c, step) ==
    /\ pc[t] = "out"
    /\ call' = [call EXCEPT ![t] = c]
    /\ Goto(t, step)
    /\ UNCHANGED <<ring, event, held, received, status>>

OnTheirWay == {t \in Thread : call[t] = "post" /\ pc[t] \in {"enter", "body"}}

\* MessageQueue_Post and MessageQueue_PostQuit make a message and dispatch it.
MessageQueue_Post(t, m) ==
    /\ size + Cardinality(OnTheirWay) < MaxSize
    /\ Begins(t, "post", "enter")
    /\ message' = [message EXCEPT ![t] = m]

\* MessageQueue_Get begins with MessageQueue_Wait, before it takes the lock.
MessageQueue_Get(t) == Begins(t, "get", "wait") /\ UNCHANGED message

\* The other consumer loop: MessageQueue_Wait, then MessageQueue_Peek.
WaitAndPeek(t) == Begins(t, "remove", "wait") /\ UNCHANGED message

MessageQueue_Peek(t, remove) ==
    Begins(t, IF remove THEN "remove" ELSE "peek", "enter") /\ UNCHANGED message

MessageQueue_Clear(t) == Begins(t, "clear", "enter") /\ UNCHANGED message

\* WaitForSingleObject(queue->event, INFINITE).
MessageQueue_Wait(t) ==
    /\ pc[t] = "wait"
    /\ event
    /\ Goto(t, "enter")
    /\ UNCHANGED <<ring, event, held, locals>>

EnterCriticalSection(t) ==
    /\ pc[t] = "enter"
    /\ lock!Enter(t)
    /\ Goto(t, "body")
    /\ UNCHANGED <<ring, event, locals>>

\* The consumers' loops end on the quit message: Get returns 0 for it, Peek
\* leaves the test of the id to the caller.
SawQuit(t) ==
    \/ call[t] = "get" /\ status[t] = 0
    \/ call[t] = "remove" /\ status[t] = 1 /\ received[t] = Quit

\* The call returns, and its caller acts on the result.
LeaveCriticalSection(t) ==
    /\ pc[t] = "leave"
    /\ lock!Leave(t)
    /\ Goto(t, IF t \in Consumers /\ SawQuit(t) THEN "done" ELSE "out")
    /\ call' = [call EXCEPT ![t] = "none"]
    /\ received' = [received EXCEPT ![t] = NoMsg]
    /\ status' = [status EXCEPT ![t] = -1]
    /\ UNCHANGED <<ring, event, message>>

-----------------------------------------------------------------------------
(***************************************************************************)
(* MessageQueue_Dispatch                                                   *)
(***************************************************************************)

Full == size = capacity

\* (MUTANT of Grown: the wrapped part of the ring is left at the bottom.)
GrownUnmoved ==
    [array |-> [i \in 0 .. 2 * capacity - 1 |-> IF i < capacity THEN array[i] ELSE NoMsg],
     tail  |-> tail + capacity]

\* The array of twice the capacity: its new half is zeroed, then the messages
\* that had wrapped around to the bottom are copied to the end of the rest.
Grown ==
    [array |-> [i \in 0 .. 2 * capacity - 1 |->
                   IF i < capacity THEN array[i]
                   ELSE IF i - capacity < tail THEN array[i - capacity]
                   ELSE NoMsg],
     tail  |-> tail + capacity]

\* The message goes to the slot "at" of the array a of capacity c.
Store(t, a, c, at) ==
    /\ array' = [a EXCEPT ![at] = message[t]]
    /\ capacity' = c
    /\ tail' = (at + 1) % c
    /\ size' = size + 1
    /\ UNCHANGED head

Dispatches(t) ==
    /\ In(t, "post")
    /\ \/ ~Full /\ Store(t, array, capacity, tail)
       \/ Full /\ Store(t, Grown.array, 2 * capacity, Grown.tail)
    /\ Goto(t, "signal")
    /\ message' = [message EXCEPT ![t] = NoMsg]
    /\ UNCHANGED <<event, held, call, received, status>>

\* realloc fails: the message is dropped, and the call returns with the lock
\* still taken.
DispatchFails(t) ==
    /\ In(t, "post") /\ Full
    /\ held[t] <= MaxFailures
    /\ Goto(t, "out")
    /\ call' = [call EXCEPT ![t] = "none"]
    /\ message' = [message EXCEPT ![t] = NoMsg]
    /\ UNCHANGED <<ring, event, held, received, status>>

\* (MUTANT of Signals: the first message does not set the event.)
SignalsSecond(t) ==
    /\ pc[t] = "signal"
    /\ event' = (event \/ size > 1)
    /\ Goto(t, "leave")
    /\ UNCHANGED <<ring, held, locals>>

\* SetEvent, if (queue->size > 0).
Signals(t) ==
    /\ pc[t] = "signal"
    /\ event' = (event \/ size > 0)
    /\ Goto(t, "leave")
    /\ UNCHANGED <<ring, held, locals>>

-----------------------------------------------------------------------------
(***************************************************************************)
(* The bodies of MessageQueue_Get, MessageQueue_Peek, MessageQueue_Clear   *)
(***************************************************************************)

\* The head is copied out; Get returns 0 for the quit message, else 1.
Receives(t) ==
    /\ received' = [received EXCEPT ![t] = array[head]]
    /\ status' = [status EXCEPT ![t] =
                    IF call[t] = "get" /\ array[head] = Quit THEN 0 ELSE 1]
    /\ UNCHANGED <<call, message>>

\* (MUTANT of Removes: the event is reset one message too early.)
RemovesEarly(t) ==
    /\ array' = [array EXCEPT ![head] = NoMsg]
    /\ head' = (head + 1) % capacity
    /\ size' = size - 1
    /\ UNCHANGED <<capacity, tail>>
    /\ Goto(t, IF size - 1 < 2 THEN "reset" ELSE "leave")

\* The head slot is zeroed and given up; the last one also resets the event.
Removes(t) ==
    /\ array' = [array EXCEPT ![head] = NoMsg]
    /\ head' = (head + 1) % capacity
    /\ size' = size - 1
    /\ UNCHANGED <<capacity, tail>>
    /\ Goto(t, IF size - 1 < 1 THEN "reset" ELSE "leave")

\* MessageQueue_Get, and MessageQueue_Peek with remove.
Takes(t) ==
    /\ In(t, "get") \/ In(t, "remove")
    /\ size > 0
    /\ Receives(t)
    /\ Removes(t)
    /\ UNCHANGED <<event, held>>

\* MessageQueue_Peek without remove.
Looks(t) ==
    /\ In(t, "peek")
    /\ size > 0
    /\ Receives(t)
    /\ Goto(t, "leave")
    /\ UNCHANGED <<ring, event, held>>

\* Somebody else has emptied the queue: Get returns -1, Peek 0.
FindsNothing(t) ==
    /\ In(t, "get") \/ In(t, "remove") \/ In(t, "peek")
    /\ size = 0
    /\ status' = [status EXCEPT ![t] = IF call[t] = "get" THEN -1 ELSE 0]
    /\ Goto(t, "leave")
    /\ UNCHANGED <<ring, event, held, call, message, received>>

\* Every message is freed and its slot zeroed; then ResetEvent.
Clears(t) ==
    /\ In(t, "clear")
    /\ array' = [i \in DOMAIN array |->
                    IF \E k \in 0 .. size - 1 : i = (head + k) % capacity
                    THEN NoMsg ELSE array[i]]
    /\ head' = (head + size) % capacity
    /\ size' = 0
    /\ Goto(t, "reset")
    /\ UNCHANGED <<capacity, tail, event, held, locals>>

\* (MUTANT of Resets: the event is left set.)
ResetsNot(t) ==
    /\ pc[t] = "reset"
    /\ Goto(t, "leave")
    /\ UNCHANGED <<ring, event, held, locals>>

Resets(t) ==
    /\ pc[t] = "reset"
    /\ event' = FALSE
    /\ Goto(t, "leave")
    /\ UNCHANGED <<ring, held, locals>>

-----------------------------------------------------------------------------
(***************************************************************************)
(* The system                                                              *)
(***************************************************************************)

\* One step of the call t is in.
Continues(t) ==
    \/ MessageQueue_Wait(t) \/ EnterCriticalSection(t)
    \/ Dispatches(t) \/ DispatchFails(t) \/ Signals(t)
    \/ Takes(t) \/ Looks(t) \/ FindsNothing(t) \/ Clears(t) \/ Resets(t)
    \/ LeaveCriticalSection(t)

Consumes(t) == MessageQueue_Get(t) \/ WaitAndPeek(t)

Uses(t) ==
    \/ \E m \in Msg : MessageQueue_Post(t, m)
    \/ \E remove \in BOOLEAN : MessageQueue_Peek(t, remove)
    \/ MessageQueue_Clear(t)

Next ==
    \/ \E t \in Thread : Continues(t)
    \/ \E t \in Consumers : Consumes(t)
    \/ \E t \in Thread \ Consumers : Uses(t)

Spec == Init /\ [][Next]_vars

\* Threads in a call go on; a consumer comes back for the next message.
FairSpec ==
    /\ Spec
    /\ \A t \in Thread : WF_vars(Continues(t))
    /\ \A t \in Consumers : WF_vars(Consumes(t))

-----------------------------------------------------------------------------
(***************************************************************************)
(* Properties                                                              *)
(***************************************************************************)

\* The event "is set when the queue is non-empty", and only then, whenever
\* the lock is free (MessageQueue_Event): who waits for it is never left
\* asleep beside a message nor woken for ever by an empty queue.
LockIsFree == \A t \in Thread : held[t] = 0

EventSetIffNonEmpty == LockIsFree => (event <=> size > 0)

\* Only the step that stores the first message or clears the last one is ahead
\* of the event, and only with the lock held: at no time does the event stay
\* clear over a message nobody is about to announce.
NoUnannouncedMessage ==
    size > 0 /\ ~event => \E t \in Thread : held[t] > 0 /\ pc[t] = "signal"

\* The messages in the ring, oldest first.
Contents == [i \in 1 .. size |-> array[(head + i - 1) % capacity]]

\* Through every wrap and every growth the ring is a first-in-first-out queue:
\* no message is lost, doubled or overtaken (MessageQueue_Dispatch,
\* MessageQueue_Get, MessageQueue_Peek, MessageQueue_Clear).
Fifo == INSTANCE MessageFifo WITH queue <- Contents
ImplementsFifo == Fifo!Spec

\* When the other threads fall silent the consumers empty the queue, unless
\* they have all been told to quit (the loops of TestMessageQueue and of the
\* channel threads).  A thread whose growth failed is not silent: it is out of
\* its call with the lock still taken.
Silent(t) == pc[t] = "out" /\ held[t] = 0

Drained ==
    <>[](\A t \in Thread \ Consumers : Silent(t))
        => <>[](size = 0 \/ \A t \in Consumers : pc[t] = "done")

-----------------------------------------------------------------------------
(***************************************************************************)
(* The inductive invariant behind the two event properties.                *)
(***************************************************************************)

Inside == {"body", "signal", "reset", "leave"}

\* The lock's promise, and that the steps on the ring are taken inside it.
LockInv ==
    /\ held \in [Thread -> Nat]
    /\ \A t, u \in Thread : held[t] > 0 /\ held[u] > 0 => t = u
    /\ \A t \in Thread : pc[t] \in Inside => held[t] > 0

\* A thread about to signal or to reset has the one reason to; while nobody
\* is, the event says whether there is a message.
EventInv ==
    /\ size \in Nat
    /\ event \in BOOLEAN
    /\ \A t \in Thread : /\ pc[t] = "signal" => size > 0
                         /\ pc[t] = "reset" => size = 0
    /\ (\A t \in Thread : pc[t] \notin {"signal", "reset"}) => (event <=> size > 0)

QueueInv == LockInv /\ EventInv /\ pc \in [Thread -> Steps]
=============================================================================

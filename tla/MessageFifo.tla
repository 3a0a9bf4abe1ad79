----------------------------- MODULE MessageFifo -----------------------------
(***************************************************************************)
(* What a message queue promises: messages leave it in the order they      *)
(* entered, each of them once.  MessageQueue implements this specification *)
(* with a growing ring buffer, a lock and an event.                        *)
(***************************************************************************)
EXTENDS Sequences

CONSTANTS Thread, Msg, NoMsg

VARIABLES
    queue,     \* the messages, oldest first
    received   \* received[t]: the message t has got and still deals with

vars == <<queue, received>>

Init == queue = <<>> /\ received = [t \in Thread |-> NoMsg]

Post(m) == queue' = Append(queue, m) /\ UNCHANGED received

\* t receives the oldest message ...
Receive(t) ==
    /\ queue # <<>>
    /\ received' = [received EXCEPT ![t] = Head(queue)]

\* ... and takes it out of the queue, or only looks at it.
Take(t) == Receive(t) /\ queue' = Tail(queue)
Look(t) == Receive(t) /\ UNCHANGED queue

\* t is done with the message.
Finish(t) == received' = [received EXCEPT ![t] = NoMsg] /\ UNCHANGED queue

Clear == queue' = <<>> /\ UNCHANGED received

Next ==
    \/ \E m \in Msg : Post(m)
    \/ \E t \in Thread : Take(t) \/ Look(t) \/ Finish(t)
    \/ Clear

Spec == Init /\ [][Next]_vars
=============================================================================

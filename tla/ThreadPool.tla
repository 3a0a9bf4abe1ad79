------------------------------ MODULE ThreadPool ------------------------------
(***************************************************************************)
(* The thread pool of WinPR on the systems that are not Windows            *)
(* (src/Players/winpr/libwinpr/pool/pool.c, work.c), with the queue and    *)
(* the countdown event it is built from.  The RemoteFX codec decodes and   *)
(* encodes its tiles on it: it creates a work object per tile, submits it, *)
(* and later waits for it and frees it.                                    *)
(*                                                                         *)
(* What the code does under the lock of the queue or of the countdown      *)
(* event is one step: no other thread looks inside.  Between the steps     *)
(* the threads of the pool and of its clients interleave.  A client waits  *)
(* for one work object, but the code waits for the count of the WHOLE pool.*)
(***************************************************************************)
EXTENDS Integers, Sequences, FiniteSets

CONSTANTS
    Worker,      \* the threads the pool may start
    Initial,     \* those InitializeThreadpool starts (four, in the code)
    Client,      \* the threads that use the pool
    Work,        \* work objects
    Inst,        \* callback instances: bounds the submissions outstanding
    None,
    OutOfMemory, \* may malloc and realloc fail?
    MaxOwed      \* bound: submissions of a work object not yet run

ASSUME PoolAssumption ==
    /\ Initial \subseteq Worker
    /\ IsFiniteSet(Inst)
    /\ None \notin Client \cup Work \cup Inst
    /\ OutOfMemory \in BOOLEAN
    /\ MaxOwed \in Nat

VARIABLES
    count, done,   \* WorkComplete: its count and its (manual-reset) event
    pending,       \* PendingQueue
    queued,        \* ... and its (manual-reset) event
    terminate,     \* TerminateEvent
    pool,          \* "open", "closing" while CloseThreadpool joins, "freed"
    wpc, winst,    \* each thread of the pool, and the instance it handles
    cpc, cwork, cinst,  \* each client, the call it is in and its arguments
    stage, of,     \* where each instance is, and its work object
    user,          \* who has created a work object and not closed it
    unwaited,      \* work objects submitted, and not waited for since
    owed           \* instances made of a work object whose callback has not run

poolVars == <<count, done, pending, queued, terminate, pool>>
vars == <<poolVars, wpc, winst, cpc, cwork, cinst, stage, of, user, unwaited, owed>>

Stages == {"free", "made", "counted", "queued", "taken", "ran", "lost"}

TypeOK ==
    /\ count \in Nat
    /\ done \in BOOLEAN /\ queued \in BOOLEAN /\ terminate \in BOOLEAN
    /\ pending \in Seq(Inst)
    /\ pool \in {"open", "closing", "freed"}
    /\ wpc \in [Worker -> {"none", "wait", "dequeue", "run", "signal", "exited"}]
    /\ winst \in [Worker -> Inst \cup {None}]
    /\ cpc \in [Client -> {"idle", "count", "enqueue", "wait"}]
    /\ cwork \in [Client -> Work \cup {None}]
    /\ cinst \in [Client -> Inst \cup {None}]
    /\ stage \in [Inst -> Stages]
    /\ of \in [Inst -> Work \cup {None}]
    /\ user \in [Work -> Client \cup {None}]
    /\ unwaited \subseteq Work
    /\ owed \in [Work -> Int]

Init ==
    /\ count = 0 /\ done = TRUE          \* CountdownEvent_New(0) sets its event
    /\ pending = <<>> /\ queued = FALSE
    /\ terminate = FALSE /\ pool = "open"
    /\ wpc = [w \in Worker |-> IF w \in Initial THEN "wait" ELSE "none"]
    /\ winst = [w \in Worker |-> None]
    /\ cpc = [c \in Client |-> "idle"]
    /\ cwork = [c \in Client |-> None]
    /\ cinst = [c \in Client |-> None]
    /\ stage = [i \in Inst |-> "free"]
    /\ of = [i \in Inst |-> None]
    /\ user = [k \in Work |-> None]
    /\ unwaited = {}
    /\ owed = [k \in Work |-> 0]
-----------------------------------------------------------------------------
(* The countdown event and the queue. *)

\* faulty variant: the first submission leaves the event set
\* (if (countdown->count > 1) ResetEvent)
AddCount_Late ==
    /\ count' = count + 1
    /\ done' = (done /\ count' <= 1)

AddCount ==
    /\ count' = count + 1
    /\ done' = FALSE

\* faulty variant: one signal too few is needed to set the event
Signal_Early ==
    /\ count' = IF count > 0 THEN count - 1 ELSE 0
    /\ done' = (done \/ count' <= 1)

\* faulty variant: the event is set when the count was zero before
Signal_Before ==
    /\ count' = IF count > 0 THEN count - 1 ELSE 0
    /\ done' = (done \/ count = 0)

Signal ==
    /\ count' = IF count > 0 THEN count - 1 ELSE 0
    /\ done' = (done \/ count' = 0)

\* faulty variant: the event is set only when the queue was empty before, but
\* tested against the size after the insertion
Enqueue_Quiet(i) ==
    /\ pending' = Append(pending, i)
    /\ queued' = (queued \/ Len(pending) > 1)

Enqueue(i) ==
    /\ pending' = Append(pending, i)
    /\ queued' = TRUE

-----------------------------------------------------------------------------
(* The clients. *)

Idle(c) == pool = "open" /\ cpc[c] = "idle"

CreateThreadpoolWork(c) ==
    /\ Idle(c)
    /\ \E k \in Work :
        /\ user[k] = None
        /\ user' = [user EXCEPT ![k] = c]
    /\ UNCHANGED <<poolVars, wpc, winst, cpc, cwork, cinst, stage, of, unwaited, owed>>

\* SubmitThreadpoolWork allocates an instance; it returns nothing, so a client
\* does not learn that there was no memory for one.
Submit(c) ==
    /\ Idle(c)
    /\ \E k \in Work :
        /\ user[k] = c
        /\ owed[k] < MaxOwed
        /\ unwaited' = unwaited \cup {k}
        /\ \/ \E i \in Inst :
                /\ stage[i] = "free"
                /\ owed' = [owed EXCEPT ![k] = @ + 1]
                /\ stage' = [stage EXCEPT ![i] = "made"]
                /\ of' = [of EXCEPT ![i] = k]
                /\ cinst' = [cinst EXCEPT ![c] = i]
                /\ cpc' = [cpc EXCEPT ![c] = "count"]
           \/ /\ OutOfMemory
              /\ UNCHANGED <<stage, of, cinst, cpc, owed>>
    /\ UNCHANGED <<poolVars, wpc, winst, cwork, user>>

SubmitCount(c) ==
    /\ cpc[c] = "count"
    /\ AddCount
    /\ stage' = [stage EXCEPT ![cinst[c]] = "counted"]
    /\ cpc' = [cpc EXCEPT ![c] = "enqueue"]
    /\ UNCHANGED <<pending, queued, terminate, pool, wpc, winst, cwork, cinst, of,
                   user, unwaited, owed>>

\* The queue may fail to grow: the result is ignored and the count stays up.
SubmitEnqueue(c) ==
    /\ cpc[c] = "enqueue"
    /\ \/ /\ Enqueue(cinst[c])
          /\ stage' = [stage EXCEPT ![cinst[c]] = "queued"]
       \/ /\ OutOfMemory
          /\ stage' = [stage EXCEPT ![cinst[c]] = "lost"]
          /\ UNCHANGED <<pending, queued>>
    /\ cpc' = [cpc EXCEPT ![c] = "idle"]
    /\ cinst' = [cinst EXCEPT ![c] = None]
    /\ UNCHANGED <<count, done, terminate, pool, wpc, winst, cwork, of, user, unwaited, owed>>

Wait(c) ==
    /\ Idle(c)
    /\ \E k \in unwaited : user[k] = c /\ cwork' = [cwork EXCEPT ![c] = k]
    /\ cpc' = [cpc EXCEPT ![c] = "wait"]
    /\ UNCHANGED <<poolVars, wpc, winst, cinst, stage, of, user, unwaited, owed>>

WaitReturns(c) ==
    /\ cpc[c] = "wait"
    /\ done
    /\ unwaited' = unwaited \ {cwork[c]}
    /\ cpc' = [cpc EXCEPT ![c] = "idle"]
    /\ cwork' = [cwork EXCEPT ![c] = None]
    /\ UNCHANGED <<poolVars, wpc, winst, cinst, stage, of, user, owed>>

\* Clients free a work object only when they have waited for it.
CloseThreadpoolWork(c) ==
    /\ Idle(c)
    /\ \E k \in Work \ unwaited :
        /\ user[k] = c
        /\ user' = [user EXCEPT ![k] = None]
        /\ owed' = [owed EXCEPT ![k] = 0]
    /\ UNCHANGED <<poolVars, wpc, winst, cpc, cwork, cinst, stage, of, unwaited>>

SetThreadpoolThreadMinimum ==
    /\ pool = "open"
    /\ \E w \in Worker : wpc[w] = "none" /\ wpc' = [wpc EXCEPT ![w] = "wait"]
    /\ UNCHANGED <<poolVars, winst, cpc, cwork, cinst, stage, of, user, unwaited, owed>>

\* CloseThreadpool, by the last user of the pool: it may leave work pending.
CloseThreadpool ==
    /\ pool = "open"
    /\ \A c \in Client : cpc[c] = "idle"
    /\ terminate' = TRUE
    /\ pool' = "closing"
    /\ UNCHANGED <<count, done, pending, queued, wpc, winst, cpc, cwork, cinst, stage,
                   of, user, unwaited, owed>>

\* ArrayList_Free has joined every thread; the queue is cleared and freed with
\* what is still in it.
Closed ==
    /\ pool = "closing"
    /\ \A w \in Worker : wpc[w] \in {"none", "exited"}
    /\ pending' = <<>>
    /\ stage' = [i \in Inst |-> IF stage[i] = "queued" THEN "lost" ELSE stage[i]]
    /\ pool' = "freed"
    /\ UNCHANGED <<count, done, queued, terminate, wpc, winst, cpc, cwork, cinst, of,
                   user, unwaited, owed>>
-----------------------------------------------------------------------------
(* The threads of the pool. *)

\* faulty variant: the terminate event resets itself when a wait returns
Wake_AutoReset(w) ==
    /\ wpc[w] = "wait"
    /\ \/ terminate /\ terminate' = FALSE /\ wpc' = [wpc EXCEPT ![w] = "exited"]
       \/ ~terminate /\ queued /\ wpc' = [wpc EXCEPT ![w] = "dequeue"] /\ terminate' = FALSE
    /\ UNCHANGED <<count, done, pending, queued, pool, winst, cpc, cwork, cinst, stage,
                   of, user, unwaited, owed>>

\* WaitForMultipleObjects reports the terminate event first.  The exit of the
\* thread on a wait that fails is left out: the waits of these handles do not.
Wake(w) ==
    /\ wpc[w] = "wait"
    /\ \/ terminate /\ wpc' = [wpc EXCEPT ![w] = "exited"]
       \/ ~terminate /\ queued /\ wpc' = [wpc EXCEPT ![w] = "dequeue"]
    /\ UNCHANGED <<poolVars, winst, cpc, cwork, cinst, stage, of, user, unwaited, owed>>

\* Another thread may have emptied the queue since: then there is nothing to do.
Dequeue(w) ==
    /\ wpc[w] = "dequeue"
    /\ IF pending = <<>>
       THEN /\ wpc' = [wpc EXCEPT ![w] = "wait"]
            /\ UNCHANGED <<pending, winst, stage>>
       ELSE /\ wpc' = [wpc EXCEPT ![w] = "run"]
            /\ winst' = [winst EXCEPT ![w] = Head(pending)]
            /\ stage' = [stage EXCEPT ![Head(pending)] = "taken"]
            /\ pending' = Tail(pending)
    /\ queued' = (queued /\ Len(pending) > 1)
    /\ UNCHANGED <<count, done, terminate, pool, cpc, cwork, cinst, of, user, unwaited, owed>>

\* The callback runs to its end.
Callback(w) ==
    /\ wpc[w] = "run"
    /\ wpc' = [wpc EXCEPT ![w] = "signal"]
    /\ stage' = [stage EXCEPT ![winst[w]] = "ran"]
    /\ owed' = [owed EXCEPT ![of[winst[w]]] = @ - 1]
    /\ UNCHANGED <<poolVars, winst, cpc, cwork, cinst, of, user, unwaited>>

\* CountdownEvent_Signal, and the instance is freed.
Complete(w) ==
    /\ wpc[w] = "signal"
    /\ Signal
    /\ wpc' = [wpc EXCEPT ![w] = "wait"]
    /\ stage' = [stage EXCEPT ![winst[w]] = "free"]
    /\ of' = [of EXCEPT ![winst[w]] = None]
    /\ winst' = [winst EXCEPT ![w] = None]
    /\ UNCHANGED <<pending, queued, terminate, pool, cpc, cwork, cinst, user, unwaited, owed>>
-----------------------------------------------------------------------------
ClientNext(c) ==
    \/ CreateThreadpoolWork(c) \/ Submit(c) \/ SubmitCount(c) \/ SubmitEnqueue(c)
    \/ Wait(c) \/ WaitReturns(c) \/ CloseThreadpoolWork(c)

WorkerNext(w) == Wake(w) \/ Dequeue(w) \/ Callback(w) \/ Complete(w)

Next ==
    \/ \E c \in Client : ClientNext(c)
    \/ \E w \in Worker : WorkerNext(w)
    \/ SetThreadpoolThreadMinimum \/ CloseThreadpool \/ Closed

Spec == Init /\ [][Next]_vars

\* The threads of the pool keep running (callbacks return), and so does a
\* client inside a call; whether a client calls at all is its own affair.
Fairness ==
    /\ \A w \in Worker : WF_vars(WorkerNext(w))
    /\ \A c \in Client : WF_vars(SubmitCount(c)) /\ WF_vars(SubmitEnqueue(c))
                         /\ WF_vars(WaitReturns(c))
    /\ WF_vars(Closed)

FairSpec == Spec /\ Fairness
-----------------------------------------------------------------------------
Outstanding == {i \in Inst : stage[i] \in {"counted", "queued", "taken", "ran", "lost"}}

\* The count of WorkComplete is the number of instances that were counted and
\* whose callback has not been signalled, and its event is set exactly when
\* there is none: AddCount before Enqueue, Signal after the callback, and the
\* saturating subtraction of CountdownEvent_Signal never bites.
CountIsOutstanding ==
    count = Cardinality(Outstanding) /\ (done <=> count = 0)

\* CloseThreadpoolWork frees a work object that a thread of the pool will no
\* longer read, although the wait before it was for the count of the whole
\* pool and other clients submit meanwhile (thread_pool_work_func reads
\* callbackInstance->Work after it has dequeued the instance).
NoUseAfterFree ==
    \A i \in Inst : stage[i] \in {"made", "counted", "queued", "taken"} =>
        of[i] # None /\ user[of[i]] # None

\* "when using threads ensure all computations are done" (libfreerdp/codec/
\* rfx.c:1407): once a client has waited for a work object, every callback of
\* it for which there was memory has run.
WaitMeansDone ==
    \A k \in Work : user[k] # None /\ k \notin unwaited => owed[k] = 0

\* An instance in the queue keeps the event of the queue set, so that no thread
\* of the pool sleeps on work: Queue_Dequeue may reset the event only of a queue
\* it has emptied.
NoSleepOnWork == pending # <<>> => queued

\* The strengthening of the above that the steps preserve.  An instance being
\* submitted belongs to one client, one being run to one thread; one that a
\* thread may still read belongs to a work object that is open and that its user
\* has not finished waiting for.
Submits(c, i) ==
    /\ cinst[c] = i
    /\ \/ cpc[c] = "count" /\ stage[i] = "made" /\ user[of[i]] = c
       \/ cpc[c] = "enqueue" /\ stage[i] = "counted"

Runs(w, i) ==
    /\ winst[w] = i
    /\ \/ wpc[w] = "run" /\ stage[i] = "taken"
       \/ wpc[w] = "signal" /\ stage[i] = "ran"

OneSubmitter ==
    /\ \A c \in Client : cpc[c] \in {"count", "enqueue"} => \E i \in Inst : Submits(c, i)
    /\ \A i \in Inst : stage[i] = "made" => \E c \in Client : Submits(c, i)
    /\ \A i \in Inst, c, d \in Client : Submits(c, i) /\ Submits(d, i) => c = d

OneRunner ==
    /\ \A w \in Worker : wpc[w] \in {"run", "signal"} => \E i \in Inst : Runs(w, i)
    /\ \A i \in Inst, v, w \in Worker : Runs(v, i) /\ Runs(w, i) => v = w

QueueInv ==
    /\ NoSleepOnWork
    /\ \A n \in 1 .. Len(pending) : stage[pending[n]] = "queued"
    /\ \A m, n \in 1 .. Len(pending) : pending[m] = pending[n] => m = n

WorkInv ==
    /\ \A i \in Inst : stage[i] \in {"made", "counted", "queued", "taken", "ran"} => of[i] \in Work
    /\ \A i \in Inst : stage[i] \in {"made", "counted", "queued", "taken"} => of[i] \in unwaited
    /\ \A k \in unwaited : user[k] \in Client
    /\ \A c \in Client : cpc[c] = "wait" => cwork[c] \in Work /\ user[cwork[c]] = c

\* The instances of k that have not run; one that was lost is of a work object
\* whose wait has not returned, and never will.
Owes(k) ==
    {i \in Inst : of[i] = k /\ stage[i] \in {"made", "counted", "queued", "taken", "lost"}}

OwedInv ==
    /\ \A k \in Work : owed[k] = Cardinality(Owes(k))
    /\ \A i \in Inst : stage[i] = "lost" => of[i] \in unwaited

PoolInv ==
    TypeOK /\ CountIsOutstanding /\ OneSubmitter /\ OneRunner /\ QueueInv /\ WorkInv

\* Every instance submitted is run, unless the pool is closed first: several
\* threads woken by the same event race for the queue, and the losers find it
\* empty and go back to wait.
SubmittedRuns == \A i \in Inst : stage[i] = "queued" ~> stage[i] # "queued"

\* A client that waits gets its answer, unless an instance was lost (a queue
\* that could not grow leaves the count up for ever) or other clients submit
\* without end, which keeps the count of the pool above zero.
WaitEnds ==
    (\A d \in Client : <>[](cpc[d] # "count")) =>
        \A c \in Client : cpc[c] = "wait" ~> (cpc[c] # "wait" \/ \E i \in Inst : stage[i] = "lost")

\* CloseThreadpool returns: every thread sees the one terminate event, whatever
\* is still queued.
CloseEnds == pool = "closing" ~> pool = "freed"
=============================================================================

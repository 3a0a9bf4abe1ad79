-------------------------- MODULE ThreadPool_proofs --------------------------
(***************************************************************************)
(* Proofs about ThreadPool, for any threads, clients, work objects and     *)
(* instances, with or without failures of malloc.                          *)
(*                                                                         *)
(* The argument: an instance is in the hands of one thread at a time (the  *)
(* client that submits it, the queue, the thread that runs it), so each    *)
(* AddCount and each Signal moves one instance into or out of Outstanding, *)
(* and the count is its cardinality.  A wait that returns therefore finds  *)
(* Outstanding empty, and with it the submissions of the waiter.           *)
(***************************************************************************)
EXTENDS ThreadPool, FiniteSetTheorems, TLAPS

LEMMA OutstandingFinite == IsFiniteSet(Outstanding)
BY PoolAssumption, FS_Subset DEF Outstanding

LEMMA InitPoolInv == Init => PoolInv
<1> SUFFICES ASSUME Init PROVE PoolInv
  OBVIOUS
<1> USE PoolAssumption DEF Init
<1>1. TypeOK
  <2>1. done \in BOOLEAN /\ queued \in BOOLEAN /\ terminate \in BOOLEAN
    BY Zenon
  <2>2. /\ count \in Nat /\ pending \in Seq(Inst) /\ pool \in {"open", "closing", "freed"}
        /\ wpc \in [Worker -> {"none", "wait", "dequeue", "run", "signal", "exited"}]
        /\ winst \in [Worker -> Inst \cup {None}]
    OBVIOUS
  <2>3. /\ cpc \in [Client -> {"idle", "count", "enqueue", "wait"}]
        /\ cwork \in [Client -> Work \cup {None}]
        /\ cinst \in [Client -> Inst \cup {None}]
        /\ stage \in [Inst -> Stages]
    BY DEF Stages
  <2>4. /\ of \in [Inst -> Work \cup {None}]
        /\ user \in [Work -> Client \cup {None}]
        /\ unwaited \subseteq Work /\ owed \in [Work -> Int]
    OBVIOUS
  <2> QED BY <2>1, <2>2, <2>3, <2>4 DEF TypeOK
<1>2. CountIsOutstanding
  <2>1. Outstanding = {}
    BY DEF Outstanding
  <2> QED BY <2>1, FS_EmptySet DEF CountIsOutstanding
<1>3. OneSubmitter /\ OneRunner
  BY DEF OneSubmitter, OneRunner, Submits, Runs
<1>4. QueueInv /\ WorkInv
  BY DEF QueueInv, WorkInv, NoSleepOnWork
<1> QED BY <1>1, <1>2, <1>3, <1>4 DEF PoolInv

\* What leaves the count, its event and the stages alone leaves the count right.
LEMMA CountKept ==
  ASSUME CountIsOutstanding, UNCHANGED <<count, done>>, Outstanding' = Outstanding
  PROVE  CountIsOutstanding'
BY DEF CountIsOutstanding

\* Creating a work object, waiting for one, starting a thread, waking up, or
\* asking the threads to stop: no instance moves.
LEMMA CreatePreserves ==
  ASSUME PoolInv, NEW c \in Client, CreateThreadpoolWork(c)
  PROVE  PoolInv'
<1> USE PoolAssumption DEF CreateThreadpoolWork, poolVars, PoolInv, Idle
<1>1. TypeOK'
  BY DEF TypeOK
<1>2. CountIsOutstanding'
  BY CountKept DEF Outstanding
<1>3. OneSubmitter' /\ OneRunner' /\ QueueInv'
  BY DEF OneSubmitter, OneRunner, QueueInv, NoSleepOnWork, Submits, Runs, WorkInv, TypeOK
<1>4. WorkInv'
  BY DEF WorkInv, TypeOK
<1> QED BY <1>1, <1>2, <1>3, <1>4

LEMMA WaitPreserves ==
  ASSUME PoolInv, NEW c \in Client, Wait(c)
  PROVE  PoolInv'
<1> USE PoolAssumption DEF Wait, poolVars, PoolInv, Idle
<1>1. TypeOK'
  BY DEF TypeOK
<1>2. CountIsOutstanding'
  BY CountKept DEF Outstanding
<1>3. OneSubmitter'
  <2>1. \A d \in Client, i \in Inst : Submits(d, i)' <=> Submits(d, i)
    BY DEF Submits, TypeOK
  <2>2. \A d \in Client : cpc'[d] \in {"count", "enqueue"} => cpc'[d] = cpc[d]
    BY DEF TypeOK
  <2> QED BY <2>1, <2>2 DEF OneSubmitter
<1>5. OneRunner' /\ QueueInv'
  BY DEF OneRunner, QueueInv, NoSleepOnWork, Runs, TypeOK
<1>4. WorkInv'
  BY DEF WorkInv, TypeOK
<1> QED BY <1>1, <1>2, <1>3, <1>4, <1>5

LEMMA ControlPreserves ==
  ASSUME PoolInv,
         \/ SetThreadpoolThreadMinimum \/ CloseThreadpool
         \/ \E w \in Worker : Wake(w)
  PROVE  PoolInv'
<1> USE PoolAssumption DEF SetThreadpoolThreadMinimum, CloseThreadpool, Wake, poolVars, PoolInv
<1>1. TypeOK'
  BY DEF TypeOK
<1>2. CountIsOutstanding'
  BY CountKept DEF Outstanding
<1>3. OneSubmitter'
  BY DEF OneSubmitter, Submits
<1>4. OneRunner'
  BY SMTT(30) DEF OneRunner, Runs, TypeOK
<1>5. QueueInv' /\ WorkInv'
  BY DEF QueueInv, NoSleepOnWork, WorkInv
<1> QED BY <1>1, <1>2, <1>3, <1>4, <1>5

\* An instance is taken from the free ones, or none is to be had.
LEMMA SubmitPreserves ==
  ASSUME PoolInv, NEW c \in Client, Submit(c)
  PROVE  PoolInv'
<1> USE PoolAssumption DEF PoolInv
<1>1. PICK k \in Work :
        /\ user[k] = c /\ unwaited' = unwaited \cup {k}
        /\ \/ \E i \in Inst :
                /\ stage[i] = "free"
                /\ owed' = [owed EXCEPT ![k] = @ + 1]
                /\ stage' = [stage EXCEPT ![i] = "made"]
                /\ of' = [of EXCEPT ![i] = k]
                /\ cinst' = [cinst EXCEPT ![c] = i]
                /\ cpc' = [cpc EXCEPT ![c] = "count"]
           \/ UNCHANGED <<stage, of, cinst, cpc, owed>>
  BY DEF Submit
<1>2. /\ cpc[c] = "idle"
      /\ UNCHANGED <<poolVars, wpc, winst, cwork, user>>
  BY DEF Submit, Idle
<1>3. CASE UNCHANGED <<stage, of, cinst, cpc, owed>>
  <2>1. TypeOK'
    BY <1>1, <1>2, <1>3 DEF TypeOK, poolVars
  <2>2. CountIsOutstanding'
    BY <1>2, <1>3, CountKept DEF Outstanding, poolVars
  <2>3. OneSubmitter' /\ OneRunner'
    BY <1>2, <1>3 DEF OneSubmitter, OneRunner, Submits, Runs
  <2>4. QueueInv' /\ WorkInv'
    BY <1>1, <1>2, <1>3 DEF QueueInv, NoSleepOnWork, WorkInv, poolVars
  <2> QED BY <2>1, <2>2, <2>3, <2>4
<1>4. ASSUME NEW i \in Inst,
             stage[i] = "free",
             owed' = [owed EXCEPT ![k] = @ + 1],
             stage' = [stage EXCEPT ![i] = "made"],
             of' = [of EXCEPT ![i] = k],
             cinst' = [cinst EXCEPT ![c] = i],
             cpc' = [cpc EXCEPT ![c] = "count"]
      PROVE  PoolInv'
  <2>1. TypeOK'
    <3>1. stage' \in [Inst -> Stages]
      BY <1>4 DEF TypeOK, Stages
    <3>2. /\ of' \in [Inst -> Work \cup {None}]
          /\ cinst' \in [Client -> Inst \cup {None}]
          /\ cpc' \in [Client -> {"idle", "count", "enqueue", "wait"}]
          /\ owed' \in [Work -> Int] /\ unwaited' \subseteq Work
      BY <1>1, <1>4 DEF TypeOK
    <3> QED BY <1>2, <3>1, <3>2 DEF TypeOK, poolVars
  <2>2. CountIsOutstanding'
    <3>1. Outstanding' = Outstanding
      BY <1>4 DEF Outstanding, TypeOK
    <3> QED BY <1>2, <3>1, CountKept DEF poolVars
  <2>3. OneSubmitter'
    <3>1. \A d \in Client : ~Submits(d, i)
      BY <1>4 DEF Submits
    <3>2. Submits(c, i)'
      BY <1>1, <1>2, <1>4 DEF Submits, TypeOK
    <3>3. \A d \in Client, j \in Inst : d # c \/ j # i => (Submits(d, j)' <=> Submits(d, j))
      <4>1. ASSUME NEW j \in Inst, j # i PROVE ~Submits(c, j) /\ ~Submits(c, j)'
        BY <1>2, <1>4, <4>1 DEF Submits, TypeOK
      <4>2. ASSUME NEW d \in Client, d # c PROVE ~Submits(d, i)'
        <5>1. of'[i] = k /\ user'[k] # d
          BY <1>1, <1>2, <1>4, <4>2 DEF TypeOK
        <5>2. stage'[i] = "made"
          BY <1>4 DEF TypeOK
        <5> QED BY <5>1, <5>2 DEF Submits
      <4>3. ASSUME NEW d \in Client, d # c, NEW j \in Inst, j # i
            PROVE  Submits(d, j)' <=> Submits(d, j)
        <5>1. of'[j] = of[j] /\ stage'[j] = stage[j] /\ cinst'[d] = cinst[d] /\ cpc'[d] = cpc[d]
          BY <1>4, <4>3 DEF TypeOK
        <5> QED BY <1>2, <5>1 DEF Submits
      <4> QED BY <3>1, <4>1, <4>2, <4>3
    <3>4. \A d \in Client : d # c => cpc'[d] = cpc[d]
      BY <1>4 DEF TypeOK
    <3>5. \A j \in Inst : j # i => stage'[j] = stage[j]
      BY <1>4 DEF TypeOK
    <3> QED BY <1>2, <3>1, <3>2, <3>3, <3>4, <3>5 DEF OneSubmitter, Submits
  <2>4. OneRunner'
    BY <1>2, <1>4 DEF OneRunner, Runs, TypeOK
  <2>5. QueueInv'
    BY <1>2, <1>4 DEF QueueInv, NoSleepOnWork, TypeOK, poolVars
  <2>6. WorkInv'
    <3>1. \A j \in Inst : j # i => stage'[j] = stage[j]
      BY <1>4 DEF TypeOK
    <3>4. \A j \in Inst : j # i => of'[j] = of[j]
      BY <1>4 DEF TypeOK
    <3>2. of'[i] = k
      BY <1>4 DEF TypeOK
    <3>3. \A d \in Client : cpc'[d] = "wait" => cpc[d] = "wait"
      BY <1>4 DEF TypeOK
    <3> QED BY <1>1, <1>2, <3>1, <3>2, <3>3, <3>4 DEF WorkInv
  <2> QED BY <2>1, <2>2, <2>3, <2>4, <2>5, <2>6
<1> QED BY <1>1, <1>3, <1>4

LEMMA SubmitCountPreserves ==
  ASSUME PoolInv, NEW c \in Client, SubmitCount(c)
  PROVE  PoolInv'
<1> USE PoolAssumption DEF SubmitCount, poolVars, PoolInv, AddCount
<1>1. PICK i \in Inst : Submits(c, i)
  BY DEF OneSubmitter
<1>2. cinst[c] = i /\ stage[i] = "made"
  BY <1>1 DEF Submits
<1>3. TypeOK'
  <2>1. done' \in BOOLEAN
    BY Zenon
  <2>3. count' \in Nat
    BY DEF TypeOK
  <2>2. stage' \in [Inst -> Stages]
    BY <1>2 DEF TypeOK, Stages
  <2> QED BY <2>1, <2>2, <2>3 DEF TypeOK
<1>4. CountIsOutstanding'
  <2>1. i \notin Outstanding /\ Outstanding' = Outstanding \cup {i}
    BY <1>2 DEF Outstanding, TypeOK
  <2>2. Cardinality(Outstanding') = Cardinality(Outstanding) + 1
    BY <2>1, OutstandingFinite, FS_AddElement
  <2>3. count' = Cardinality(Outstanding') /\ count' # 0 /\ done' = FALSE
    BY <2>2, OutstandingFinite, FS_CardinalityType DEF CountIsOutstanding
  <2> QED BY <2>3 DEF CountIsOutstanding
<1>5. OneSubmitter'
  BY <1>1, <1>2 DEF OneSubmitter, Submits, TypeOK
<1>6. OneRunner' /\ QueueInv'
  BY <1>2 DEF OneRunner, Runs, QueueInv, NoSleepOnWork, TypeOK
<1>7. WorkInv'
  BY <1>2 DEF WorkInv, TypeOK
<1> QED BY <1>3, <1>4, <1>5, <1>6, <1>7

LEMMA SubmitEnqueuePreserves ==
  ASSUME PoolInv, NEW c \in Client, SubmitEnqueue(c)
  PROVE  PoolInv'
<1> USE PoolAssumption DEF SubmitEnqueue, poolVars, PoolInv, Enqueue
<1>1. PICK i \in Inst : Submits(c, i)
  BY DEF OneSubmitter
<1>2. cinst[c] = i /\ stage[i] = "counted"
  BY <1>1 DEF Submits
<1>3. TypeOK'
  <2>1. stage' \in [Inst -> Stages]
    BY <1>2 DEF TypeOK, Stages
  <2>2. pending' \in Seq(Inst)
    <3>1. pending' = Append(pending, i) \/ pending' = pending
      BY <1>2
    <3>2. pending \in Seq(Inst) /\ Append(pending, i) \in Seq(Inst)
      BY DEF TypeOK
    <3> QED BY <3>1, <3>2
  <2>4. queued' \in BOOLEAN
    BY Zenon DEF TypeOK
  <2>3. /\ cpc' \in [Client -> {"idle", "count", "enqueue", "wait"}]
        /\ cinst' \in [Client -> Inst \cup {None}]
    BY DEF TypeOK
  <2> QED BY <2>1, <2>2, <2>3, <2>4 DEF TypeOK
<1>4. CountIsOutstanding'
  <2>1. Outstanding' = Outstanding
    BY <1>2 DEF Outstanding, TypeOK
  <2> QED BY <2>1, CountKept
<1>5. OneSubmitter'
  <2>1. \A d \in Client, j \in Inst : d # c /\ j # i => (Submits(d, j)' <=> Submits(d, j))
    BY DEF Submits, TypeOK, OneSubmitter
  <2>2. \A d \in Client : d # c => cpc'[d] = cpc[d] /\ ~Submits(d, i)
    BY <1>1 DEF TypeOK, OneSubmitter
  <2>3. \A j \in Inst : j # i => stage'[j] = stage[j] /\ ~Submits(c, j)
    BY <1>2 DEF TypeOK, Submits
  <2>4. cpc'[c] = "idle" /\ stage'[i] \notin {"made", "counted"}
    BY <1>2 DEF TypeOK
  <2>5. \A d \in Client : ~Submits(d, i)'
    BY <2>4 DEF Submits
  <2>6. \A j \in Inst : ~Submits(c, j)'
    BY <2>4 DEF Submits
  <2> QED BY <2>1, <2>2, <2>3, <2>4, <2>5, <2>6 DEF OneSubmitter
<1>6. OneRunner'
  BY <1>2 DEF OneRunner, Runs, TypeOK
<1>7. QueueInv'
  <2>1. CASE pending' = Append(pending, i) /\ queued' /\ stage' = [stage EXCEPT ![i] = "queued"]
    <3>1. /\ Len(pending') = Len(pending) + 1 /\ Len(pending) \in Nat
          /\ pending'[Len(pending) + 1] = i
          /\ \A n \in 1 .. Len(pending) : pending'[n] = pending[n] /\ pending[n] \in Inst
      BY <2>1 DEF TypeOK
    <3>2. \A n \in 1 .. Len(pending) : pending[n] # i
      BY <1>2 DEF QueueInv
    <3>3. \A n \in 1 .. Len(pending) : stage'[pending[n]] = "queued"
      BY <2>1, <3>1, <3>2 DEF QueueInv, TypeOK
    <3>4. stage'[i] = "queued"
      BY <2>1 DEF TypeOK
    <3> QED BY <2>1, <3>1, <3>2, <3>3, <3>4 DEF QueueInv, NoSleepOnWork
  <2>2. CASE UNCHANGED <<pending, queued>> /\ stage' = [stage EXCEPT ![i] = "lost"]
    <3>1. \A n \in 1 .. Len(pending) : pending[n] # i /\ pending[n] \in Inst
      <4>1. \A n \in 1 .. Len(pending) : pending[n] \in Inst
        BY DEF TypeOK
      <4>2. \A n \in 1 .. Len(pending) : stage[pending[n]] = "queued"
        BY DEF QueueInv
      <4> QED BY <1>2, <4>1, <4>2
    <3> QED BY <2>2, <3>1 DEF QueueInv, NoSleepOnWork, TypeOK
  <2> QED BY <1>2, <2>1, <2>2
<1>8. WorkInv'
  BY <1>2 DEF WorkInv, TypeOK
<1> QED BY <1>3, <1>4, <1>5, <1>6, <1>7, <1>8

\* The wait returns when nothing is outstanding, and what another client has
\* made and not yet counted is of a work object of its own.
LEMMA WaitReturnsPreserves ==
  ASSUME PoolInv, NEW c \in Client, WaitReturns(c)
  PROVE  PoolInv'
<1> USE PoolAssumption DEF WaitReturns, poolVars, PoolInv
<1>1. TypeOK'
  BY DEF TypeOK
<1>2. CountIsOutstanding'
  BY CountKept DEF Outstanding
<1>3. OneSubmitter' /\ OneRunner' /\ QueueInv'
  BY DEF OneSubmitter, OneRunner, QueueInv, NoSleepOnWork, Submits, Runs, TypeOK
<1>4. WorkInv'
  <2>1. Outstanding = {}
    BY OutstandingFinite, FS_EmptySet DEF CountIsOutstanding
  <2>2. \A i \in Inst : stage[i] = "made" => user[of[i]] # c
    BY DEF OneSubmitter, Submits
  <2>3. \A i \in Inst : stage[i] \in {"made", "counted", "queued", "taken"} =>
                          of[i] \in unwaited /\ of[i] # cwork[c]
    BY <2>1, <2>2 DEF Outstanding, WorkInv
  <2> QED BY <2>3 DEF WorkInv, TypeOK
<1> QED BY <1>1, <1>2, <1>3, <1>4

LEMMA CloseWorkPreserves ==
  ASSUME PoolInv, NEW c \in Client, CloseThreadpoolWork(c)
  PROVE  PoolInv'
<1> USE PoolAssumption DEF CloseThreadpoolWork, poolVars, PoolInv, Idle
<1>1. TypeOK'
  BY DEF TypeOK
<1>2. CountIsOutstanding'
  BY CountKept DEF Outstanding
<1>3. OneSubmitter'
  BY DEF OneSubmitter, Submits, WorkInv, TypeOK
<1>4. OneRunner' /\ QueueInv'
  BY DEF OneRunner, QueueInv, NoSleepOnWork, Runs, TypeOK
<1>5. WorkInv'
  BY DEF WorkInv, TypeOK
<1> QED BY <1>1, <1>2, <1>3, <1>4, <1>5

LEMMA ClosedPreserves ==
  ASSUME PoolInv, Closed
  PROVE  PoolInv'
<1> USE PoolAssumption DEF Closed, poolVars, PoolInv
<1>1. TypeOK'
  BY DEF TypeOK, Stages
<1>2. CountIsOutstanding'
  BY CountKept DEF Outstanding, TypeOK
<1>3. OneSubmitter'
  BY DEF OneSubmitter, Submits, TypeOK
<1>4. OneRunner' /\ QueueInv'
  BY DEF OneRunner, QueueInv, NoSleepOnWork, Runs, TypeOK
<1>5. WorkInv'
  BY DEF WorkInv, TypeOK
<1> QED BY <1>1, <1>2, <1>3, <1>4, <1>5

\* The oldest instance goes from the queue to one thread.
LEMMA DequeuePreserves ==
  ASSUME PoolInv, NEW w \in Worker, Dequeue(w)
  PROVE  PoolInv'
<1> USE PoolAssumption DEF Dequeue, poolVars, PoolInv
<1>1. CASE pending = <<>>
  <2>1. TypeOK'
    BY <1>1 DEF TypeOK
  <2>2. CountIsOutstanding'
    BY <1>1, CountKept DEF Outstanding
  <2>3. OneSubmitter' /\ OneRunner' /\ QueueInv' /\ WorkInv'
    BY <1>1 DEF OneSubmitter, OneRunner, QueueInv, NoSleepOnWork, WorkInv, Submits, Runs, TypeOK
  <2> QED BY <2>1, <2>2, <2>3
<1>2. CASE pending # <<>>
  <2> DEFINE i == Head(pending)
  <2>1. /\ i \in Inst /\ i = pending[1]
        /\ Len(pending) \in Nat /\ Len(pending) >= 1
        /\ Len(Tail(pending)) = Len(pending) - 1
        /\ \A n \in 1 .. Len(Tail(pending)) : Tail(pending)[n] = pending[n + 1]
        /\ \A n \in 1 .. Len(pending) : pending[n] \in Inst
    BY <1>2 DEF TypeOK
  <2>2. stage[i] = "queued"
    BY <2>1 DEF QueueInv
  <2>3. /\ winst' = [winst EXCEPT ![w] = i] /\ wpc' = [wpc EXCEPT ![w] = "run"]
        /\ stage' = [stage EXCEPT ![i] = "taken"] /\ pending' = Tail(pending)
    BY <1>2
  <2> HIDE DEF i
  <2>4. TypeOK'
    <3>1. Tail(pending) \in Seq(Inst)
      BY <1>2 DEF TypeOK
    <3> QED BY <2>1, <2>3, <3>1 DEF TypeOK, Stages
  <2>5. CountIsOutstanding'
    <3>1. Outstanding' = Outstanding
      BY <2>1, <2>2, <2>3 DEF Outstanding, TypeOK
    <3> QED BY <3>1, CountKept
  <2>6. OneSubmitter'
    BY <2>1, <2>2, <2>3 DEF OneSubmitter, Submits, TypeOK
  <2>7. OneRunner'
    BY <2>1, <2>2, <2>3 DEF OneRunner, Runs, TypeOK
  <2>8. QueueInv'
    <3>1. \A n \in 1 .. Len(pending') : n + 1 \in 1 .. Len(pending) /\ n + 1 # 1
                                          /\ pending'[n] = pending[n + 1]
      BY <2>1, <2>3
    <3>2. \A n \in 1 .. Len(pending') : pending'[n] # i /\ stage[pending'[n]] = "queued"
      BY <2>1, <3>1 DEF QueueInv
    <3>3. \A n \in 1 .. Len(pending') : stage'[pending'[n]] = "queued"
      BY <2>1, <2>3, <3>1, <3>2 DEF TypeOK
    <3>4. \A m, n \in 1 .. Len(pending') : pending'[m] = pending'[n] => m = n
      BY <3>1, <2>1 DEF QueueInv
    <3>5. pending' # <<>> => queued'
      <4>1. pending' # <<>> => Len(pending) > 1
        BY <2>1, <2>3, <2>4 DEF TypeOK
      <4> QED BY <4>1, <1>2 DEF QueueInv, NoSleepOnWork
    <3> QED BY <3>3, <3>4, <3>5 DEF QueueInv, NoSleepOnWork
  <2>9. WorkInv'
    BY <2>1, <2>2, <2>3 DEF WorkInv, TypeOK
  <2> QED BY <2>4, <2>5, <2>6, <2>7, <2>8, <2>9
<1> QED BY <1>1, <1>2

LEMMA CallbackPreserves ==
  ASSUME PoolInv, NEW w \in Worker, Callback(w)
  PROVE  PoolInv'
<1> USE PoolAssumption DEF Callback, poolVars, PoolInv
<1>1. PICK i \in Inst : Runs(w, i)
  BY DEF OneRunner
<1>2. winst[w] = i /\ stage[i] = "taken" /\ of[i] \in Work
  BY <1>1 DEF Runs, WorkInv
<1>3. TypeOK'
  BY <1>2 DEF TypeOK, Stages
<1>4. CountIsOutstanding'
  <2>1. Outstanding' = Outstanding
    BY <1>2 DEF Outstanding, TypeOK
  <2> QED BY <2>1, CountKept
<1>5. OneSubmitter'
  <2>1. \A d \in Client : ~Submits(d, i) /\ ~Submits(d, i)'
    BY <1>2 DEF Submits, TypeOK
  <2>2. \A d \in Client, j \in Inst : j # i => (Submits(d, j)' <=> Submits(d, j))
    BY <1>2 DEF Submits, TypeOK
  <2>3. \A j \in Inst : j # i => stage'[j] = stage[j]
    BY <1>2 DEF TypeOK
  <2>4. stage'[i] = "ran"
    BY <1>2 DEF TypeOK
  <2> QED BY <2>1, <2>2, <2>3, <2>4 DEF OneSubmitter
<1>6. OneRunner'
  BY <1>1, <1>2 DEF OneRunner, Runs, TypeOK
<1>7. QueueInv' /\ WorkInv'
  BY <1>2 DEF QueueInv, NoSleepOnWork, WorkInv, TypeOK
<1> QED BY <1>3, <1>4, <1>5, <1>6, <1>7

LEMMA CompletePreserves ==
  ASSUME PoolInv, NEW w \in Worker, Complete(w)
  PROVE  PoolInv'
<1> USE PoolAssumption DEF Complete, poolVars, PoolInv, Signal
<1>1. PICK i \in Inst : Runs(w, i)
  BY DEF OneRunner
<1>2. winst[w] = i /\ stage[i] = "ran"
  BY <1>1 DEF Runs
<1>3. TypeOK' /\ CountIsOutstanding'
  <2>1. i \in Outstanding /\ Outstanding' = Outstanding \ {i}
    BY <1>2 DEF Outstanding, TypeOK
  <2>2. /\ Cardinality(Outstanding) \in Nat /\ Cardinality(Outstanding) # 0
        /\ Cardinality(Outstanding') = Cardinality(Outstanding) - 1
    BY <2>1, OutstandingFinite, FS_RemoveElement, FS_CardinalityType, FS_EmptySet
  <2>3. /\ count > 0 /\ ~done
        /\ count' = count - 1 /\ (done' <=> count' = 0) /\ done' \in BOOLEAN
        /\ count' = Cardinality(Outstanding')
    <3>1. count = Cardinality(Outstanding) /\ count > 0
      BY <2>2 DEF CountIsOutstanding
    <3>2. ~done
      BY <3>1 DEF CountIsOutstanding
    <3>3. count' = count - 1
      BY <3>1
    <3>4. done' <=> count' = 0
      BY <3>2
    <3>5. done' \in BOOLEAN
      BY Zenon
    <3> QED BY <2>2, <3>1, <3>2, <3>3, <3>4, <3>5
  <2>4. TypeOK'
    BY <1>2, <2>3 DEF TypeOK, Stages
  <2> QED BY <2>3, <2>4 DEF CountIsOutstanding
<1>4. OneSubmitter'
  <2>1. \A d \in Client : ~Submits(d, i) /\ ~Submits(d, i)'
    BY <1>2 DEF Submits, TypeOK
  <2>2. \A d \in Client, j \in Inst : j # i => (Submits(d, j)' <=> Submits(d, j))
    BY <1>2 DEF Submits, TypeOK
  <2>3. \A j \in Inst : j # i => stage'[j] = stage[j]
    BY <1>2 DEF TypeOK
  <2>4. stage'[i] = "free"
    BY <1>2 DEF TypeOK
  <2> QED BY <2>1, <2>2, <2>3, <2>4 DEF OneSubmitter
<1>5. OneRunner'
  BY <1>1, <1>2 DEF OneRunner, Runs, TypeOK
<1>6. QueueInv' /\ WorkInv'
  BY <1>2 DEF QueueInv, NoSleepOnWork, WorkInv, TypeOK
<1> QED BY <1>3, <1>4, <1>5, <1>6

\* The inductive invariant.
THEOREM PoolInvariance == Spec => []PoolInv
<1>1. ASSUME PoolInv, [Next]_vars PROVE PoolInv'
  <2>1. CASE UNCHANGED vars
    BY <1>1, <2>1, CountKept
       DEF vars, poolVars, PoolInv, TypeOK, Outstanding, OneSubmitter, OneRunner,
           QueueInv, NoSleepOnWork, WorkInv, Submits, Runs
  <2>2. ASSUME NEW c \in Client, ClientNext(c) PROVE PoolInv'
    BY <1>1, <2>2, CreatePreserves, SubmitPreserves, SubmitCountPreserves,
       SubmitEnqueuePreserves, WaitPreserves, WaitReturnsPreserves, CloseWorkPreserves
       DEF ClientNext
  <2>3. ASSUME NEW w \in Worker, WorkerNext(w) PROVE PoolInv'
    BY <1>1, <2>3, ControlPreserves, DequeuePreserves, CallbackPreserves, CompletePreserves
       DEF WorkerNext
  <2>4. CASE SetThreadpoolThreadMinimum \/ CloseThreadpool \/ Closed
    BY <1>1, <2>4, ControlPreserves, ClosedPreserves
  <2> QED BY <1>1, <2>1, <2>2, <2>3, <2>4 DEF Next
<1> QED BY <1>1, InitPoolInv, PTL DEF Spec

\* Types: every action stores only what its variable may hold.
THEOREM PoolTypes == Spec => []TypeOK
BY PoolInvariance, PTL DEF PoolInv

\* The count of WorkComplete is the number of instances outstanding.
THEOREM PoolCount == Spec => []CountIsOutstanding
BY PoolInvariance, PTL DEF PoolInv

\* A work object is freed only when no thread of the pool will read it.
THEOREM PoolFreesSafely == Spec => []NoUseAfterFree
<1>1. PoolInv => NoUseAfterFree
  BY PoolAssumption DEF PoolInv, WorkInv, NoUseAfterFree, TypeOK
<1> QED BY <1>1, PoolInvariance, PTL

\* No thread of the pool sleeps on work.
THEOREM PoolWakes == Spec => []NoSleepOnWork
<1>1. PoolInv => NoSleepOnWork
  BY DEF PoolInv, QueueInv
<1> QED BY <1>1, PoolInvariance, PTL
-----------------------------------------------------------------------------
(* What a wait means: owed counts the instances of a work object that have *)
(* not run, and a wait returns only when it finds none.                    *)

LEMMA OwesFinite == ASSUME NEW k PROVE IsFiniteSet(Owes(k))
BY PoolAssumption, FS_Subset DEF Owes

\* What moves no instance into Owes or out of it.
LEMMA OwedKept ==
  ASSUME OwedInv, owed' = owed,
         \A k \in Work : Owes(k)' = Owes(k),
         \A i \in Inst : stage'[i] = "lost" => of'[i] \in unwaited'
  PROVE  OwedInv'
BY DEF OwedInv

\* A new instance is owed by its work object.
LEMMA SubmitOwes ==
  ASSUME PoolInv, OwedInv, NEW c \in Client, Submit(c)
  PROVE  OwedInv'
<1>1. PICK k \in Work :
        /\ unwaited' = unwaited \cup {k}
        /\ \/ \E i \in Inst :
                /\ stage[i] = "free"
                /\ owed' = [owed EXCEPT ![k] = @ + 1]
                /\ stage' = [stage EXCEPT ![i] = "made"]
                /\ of' = [of EXCEPT ![i] = k]
           \/ UNCHANGED <<stage, of, owed>>
  BY DEF Submit
<1>2. CASE UNCHANGED <<stage, of, owed>>
  BY <1>1, <1>2, OwedKept DEF Owes, OwedInv
<1>3. ASSUME NEW i \in Inst,
             stage[i] = "free",
             owed' = [owed EXCEPT ![k] = @ + 1],
             stage' = [stage EXCEPT ![i] = "made"],
             of' = [of EXCEPT ![i] = k]
      PROVE  OwedInv'
  <2>1. i \notin Owes(k) /\ Owes(k)' = Owes(k) \cup {i}
    BY <1>3 DEF Owes, PoolInv, TypeOK
  <2>2. Cardinality(Owes(k)') = Cardinality(Owes(k)) + 1
    BY <2>1, OwesFinite, FS_AddElement
  <2>3. \A j \in Work : j # k => Owes(j)' = Owes(j)
    BY <1>3 DEF Owes, PoolInv, TypeOK
  <2>4. owed'[k] = owed[k] + 1 /\ \A j \in Work : j # k => owed'[j] = owed[j]
    BY <1>3 DEF PoolInv, TypeOK
  <2>5. \A j \in Inst : stage'[j] = "lost" => of'[j] \in unwaited'
    BY <1>1, <1>3 DEF OwedInv, PoolInv, TypeOK
  <2>6. \A j \in Work : owed'[j] = Cardinality(Owes(j)')
    BY <2>2, <2>3, <2>4 DEF OwedInv
  <2> QED BY <2>5, <2>6 DEF OwedInv
<1> QED BY <1>1, <1>2, <1>3

\* An instance on its way through the queue stays owed; one that is lost is of
\* a work object that has not been waited for.
LEMMA QueueOwes ==
  ASSUME PoolInv, OwedInv,
         \/ \E c \in Client : SubmitCount(c) \/ SubmitEnqueue(c)
         \/ \E w \in Worker : Dequeue(w)
         \/ Closed
  PROVE  OwedInv'
<1> USE PoolAssumption DEF PoolInv
<1>1. ASSUME NEW c \in Client, SubmitCount(c) \/ SubmitEnqueue(c) PROVE OwedInv'
  <2>1. PICK i \in Inst : Submits(c, i)
    BY <1>1 DEF SubmitCount, SubmitEnqueue, OneSubmitter
  <2>2. cinst[c] = i /\ stage[i] \in {"made", "counted"} /\ of[i] \in unwaited
    BY <2>1 DEF Submits, WorkInv
  <2>3. /\ UNCHANGED <<of, owed, unwaited>>
        /\ \/ stage' = [stage EXCEPT ![i] = "counted"]
           \/ stage' = [stage EXCEPT ![i] = "queued"]
           \/ stage' = [stage EXCEPT ![i] = "lost"]
    BY <1>1, <2>2 DEF SubmitCount, SubmitEnqueue
  <2>4. \A k \in Work : Owes(k)' = Owes(k)
    BY <2>2, <2>3 DEF Owes, TypeOK
  <2>5. \A j \in Inst : stage'[j] = "lost" => of'[j] \in unwaited'
    BY <2>2, <2>3 DEF OwedInv, TypeOK
  <2> QED BY <2>3, <2>4, <2>5, OwedKept
<1>2. ASSUME NEW w \in Worker, Dequeue(w) PROVE OwedInv'
  <2>1. CASE pending = <<>>
    BY <1>2, <2>1, OwedKept DEF Dequeue, Owes, OwedInv
  <2>2. CASE pending # <<>>
    <3> DEFINE i == Head(pending)
    <3>1. i \in Inst /\ i = pending[1] /\ 1 \in 1 .. Len(pending)
      BY <2>2 DEF TypeOK
    <3>2. stage[i] = "queued"
      BY <3>1 DEF QueueInv
    <3>3. stage' = [stage EXCEPT ![i] = "taken"] /\ UNCHANGED <<of, owed, unwaited>>
      BY <1>2, <2>2 DEF Dequeue
    <3> HIDE DEF i
    <3>4. \A k \in Work : Owes(k)' = Owes(k)
      BY <3>1, <3>2, <3>3 DEF Owes, TypeOK
    <3>5. \A j \in Inst : stage'[j] = "lost" => of'[j] \in unwaited'
      BY <3>3 DEF OwedInv, TypeOK
    <3> QED BY <3>3, <3>4, <3>5, OwedKept
  <2> QED BY <2>1, <2>2
<1>3. CASE Closed
  <2>1. /\ UNCHANGED <<of, owed, unwaited>>
        /\ \A j \in Inst : stage'[j] = IF stage[j] = "queued" THEN "lost" ELSE stage[j]
    BY <1>3 DEF Closed
  <2>2. \A k \in Work : Owes(k)' = Owes(k)
    BY <2>1 DEF Owes
  <2>3. \A j \in Inst : stage'[j] = "lost" => of'[j] \in unwaited'
    BY <2>1 DEF OwedInv, WorkInv
  <2> QED BY <2>1, <2>2, <2>3, OwedKept
<1> QED BY <1>1, <1>2, <1>3

\* The callback pays what is owed; the signal after it owes nothing.
LEMMA RunOwes ==
  ASSUME PoolInv, OwedInv, NEW w \in Worker, Callback(w) \/ Complete(w)
  PROVE  OwedInv'
<1> USE DEF PoolInv
<1>1. PICK i \in Inst : Runs(w, i)
  BY DEF Callback, Complete, OneRunner
<1>2. winst[w] = i
  BY <1>1 DEF Runs
<1>3. CASE Callback(w)
  <2>1. stage[i] = "taken" /\ of[i] \in Work
    BY <1>1, <1>3 DEF Runs, Callback, WorkInv
  <2>2. /\ stage' = [stage EXCEPT ![i] = "ran"]
        /\ owed' = [owed EXCEPT ![of[i]] = @ - 1]
        /\ UNCHANGED <<of, unwaited>>
    BY <1>2, <1>3 DEF Callback
  <2>3. i \in Owes(of[i]) /\ Owes(of[i])' = Owes(of[i]) \ {i}
    BY <2>1, <2>2 DEF Owes, TypeOK
  <2>4. Cardinality(Owes(of[i])') = Cardinality(Owes(of[i])) - 1
    BY <2>3, OwesFinite, FS_RemoveElement
  <2>5. \A j \in Work : j # of[i] => Owes(j)' = Owes(j)
    BY <2>1, <2>2 DEF Owes, TypeOK
  <2>6. /\ owed'[of[i]] = owed[of[i]] - 1
        /\ \A j \in Work : j # of[i] => owed'[j] = owed[j]
    BY <2>1, <2>2 DEF TypeOK
  <2>7. \A j \in Work : owed'[j] = Cardinality(Owes(j)')
    BY <2>1, <2>2, <2>4, <2>5, <2>6 DEF OwedInv
  <2>8. \A j \in Inst : stage'[j] = "lost" => of'[j] \in unwaited'
    BY <2>2 DEF OwedInv, TypeOK
  <2> QED BY <2>7, <2>8 DEF OwedInv
<1>4. CASE Complete(w)
  <2>1. stage[i] = "ran"
    BY <1>1, <1>4 DEF Runs, Complete
  <2>2. /\ stage' = [stage EXCEPT ![i] = "free"]
        /\ of' = [of EXCEPT ![i] = None]
        /\ UNCHANGED <<owed, unwaited>>
    BY <1>2, <1>4 DEF Complete
  <2>3. \A k \in Work : Owes(k)' = Owes(k)
    BY <2>1, <2>2 DEF Owes, TypeOK
  <2>4. \A j \in Inst : stage'[j] = "lost" => of'[j] \in unwaited'
    BY <2>2 DEF OwedInv, TypeOK
  <2> QED BY <2>2, <2>3, <2>4, OwedKept
<1> QED BY <1>3, <1>4

\* A wait that returns finds nothing outstanding, so nothing was lost; a work
\* object is closed when nothing of it is owed.
LEMMA EndOwes ==
  ASSUME PoolInv, OwedInv, NEW c \in Client, WaitReturns(c) \/ CloseThreadpoolWork(c)
  PROVE  OwedInv'
<1> USE PoolAssumption DEF PoolInv
<1>1. CASE WaitReturns(c)
  <2>1. Outstanding = {}
    BY <1>1, OutstandingFinite, FS_EmptySet DEF WaitReturns, CountIsOutstanding
  <2>2. \A j \in Inst : stage[j] # "lost"
    BY <2>1 DEF Outstanding
  <2> QED BY <1>1, <2>2, OwedKept DEF WaitReturns, Owes
<1>2. CASE CloseThreadpoolWork(c)
  <2>1. PICK k \in Work \ unwaited : owed' = [owed EXCEPT ![k] = 0]
    BY <1>2 DEF CloseThreadpoolWork
  <2>2. UNCHANGED <<stage, of, unwaited>>
    BY <1>2 DEF CloseThreadpoolWork
  <2>3. Owes(k) = {}
    BY <2>1 DEF Owes, OwedInv, WorkInv
  <2>4. owed[k] = 0
    BY <2>1, <2>3, FS_EmptySet DEF OwedInv
  <2>5. owed' = owed
    BY <2>1, <2>4 DEF TypeOK
  <2> QED BY <2>2, <2>5, OwedKept DEF Owes, OwedInv
<1> QED BY <1>1, <1>2

\* owed is the number of instances owed.
LEMMA OwedInvariance == Spec => []OwedInv
<1>1. Init => OwedInv
  <2> SUFFICES ASSUME Init PROVE OwedInv
    OBVIOUS
  <2>1. \A k \in Work : Owes(k) = {}
    BY DEF Init, Owes
  <2> QED BY <2>1, FS_EmptySet DEF Init, OwedInv
<1>2. ASSUME PoolInv, OwedInv, [Next]_vars PROVE OwedInv'
  <2>1. CASE UNCHANGED vars
    BY <1>2, <2>1, OwedKept DEF vars, Owes, OwedInv
  <2>2. ASSUME NEW c \in Client, CreateThreadpoolWork(c) \/ Wait(c) PROVE OwedInv'
    BY <1>2, <2>2, OwedKept DEF CreateThreadpoolWork, Wait, Owes, OwedInv
  <2>3. ASSUME NEW w \in Worker, Wake(w) PROVE OwedInv'
    BY <1>2, <2>3, OwedKept DEF Wake, Owes, OwedInv
  <2>4. CASE SetThreadpoolThreadMinimum \/ CloseThreadpool
    BY <1>2, <2>4, OwedKept DEF SetThreadpoolThreadMinimum, CloseThreadpool, Owes, OwedInv
  <2> QED BY <1>2, <2>1, <2>2, <2>3, <2>4, SubmitOwes, QueueOwes, RunOwes, EndOwes
          DEF Next, ClientNext, WorkerNext
<1> QED BY <1>1, <1>2, PoolInvariance, PTL DEF Spec

\* A wait that has returned means that the work it waited for is done, however
\* the clients share the pool and whichever allocation fails.
THEOREM PoolWaits == Spec => []WaitMeansDone
<1>1. PoolInv /\ OwedInv => WaitMeansDone
  <2> SUFFICES ASSUME PoolInv, OwedInv, NEW k \in Work, k \notin unwaited PROVE owed[k] = 0
    BY DEF WaitMeansDone
  <2>1. Owes(k) = {}
    BY DEF Owes, OwedInv, PoolInv, WorkInv
  <2> QED BY <2>1, FS_EmptySet DEF OwedInv
<1> QED BY <1>1, PoolInvariance, OwedInvariance, PTL
=============================================================================

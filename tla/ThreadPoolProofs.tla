-------------------------- MODULE ThreadPoolProofs --------------------------
(***************************************************************************)
(* Proofs about ThreadPool for any finite set of workers and callers and   *)
(* any tasks: active_ counts the running tasks, no wake-up is lost, each   *)
(* task runs once and in order, wait_all and the destructor wait for the   *)
(* tasks they promise to wait for.                                         *)
(***************************************************************************)
EXTENDS ThreadPool, FiniteSetTheorems, TLAPS

\* A task is in one place only: once in the queue, or with one worker, or done.
Once ==
    /\ \A i, j \in 1 .. Len(queue) : queue[i] = queue[j] => i = j
    /\ \A i \in 1 .. Len(queue) : queue[i] \notin done
    /\ \A w \in Workers : task[w] # NoTask => task[w] \notin Queued /\ task[w] \notin done
    /\ \A v, w \in Workers : task[v] = task[w] /\ task[w] # NoTask => v = w

\* The tasks a wait_all has to wait for are known to the pool.
SeenKnown == \A c \in Callers : seen[c] \subseteq Known

\* A worker leaves only when the pool stops and the queue is empty, for good.
Shutdown ==
    /\ stop <=> owner # "alive"
    /\ \A w \in Workers : wpc[w] = "exited" => stop /\ queue = <<>>
    /\ owner = "gone" => \A w \in Workers : wpc[w] = "exited"

IInv == TypeOK /\ ActiveCounts /\ NoLostWakeup /\ Once /\ SeenKnown /\ Shutdown

-----------------------------------------------------------------------------
(* Counting threads *)

Countable ==
    /\ IsFiniteSet(Busy) /\ Cardinality(Busy) \in Nat
    /\ IsFiniteSet(Testing) /\ Cardinality(Testing) \in Nat
    /\ IsFiniteSet(Notifying) /\ Cardinality(Notifying) \in Nat

\* Sets of threads are finite, and counted by natural numbers.
LEMMA ThreadSets == Countable
<1>1. Busy \subseteq Workers /\ Testing \subseteq Workers /\ Notifying \subseteq Callers
  BY DEF Busy, Testing, Notifying
<1>2. IsFiniteSet(Workers) /\ IsFiniteSet(Callers)
  BY PoolAssumption
<1>3. IsFiniteSet(Busy) /\ IsFiniteSet(Testing) /\ IsFiniteSet(Notifying)
  BY <1>1, <1>2, FS_Subset
<1> QED
  BY <1>3, FS_CardinalityType DEF Countable

-----------------------------------------------------------------------------
(* Type correctness *)

\* A pool just constructed satisfies the invariant.
LEMMA InitInv == Init => IInv
<1> SUFFICES ASSUME Init PROVE IInv
  OBVIOUS
<1> USE PoolAssumption DEF Init
<1>1. TypeOK
  <2>1. \A w \in Workers : task[w] # NoTask <=> wpc[w] = "run"
    OBVIOUS
  <2>2. queue \in Seq(Tasks) /\ active \in Nat
    OBVIOUS
  <2>3. stop \in BOOLEAN
    OBVIOUS
  <2> QED
    BY <2>1, <2>2, <2>3 DEF TypeOK
<1>2. ActiveCounts
  <2>1. Busy = {}
    BY DEF Busy
  <2> QED
    BY <2>1, FS_EmptySet DEF ActiveCounts
<1>3. NoLostWakeup
  BY DEF NoLostWakeup, Blocked
<1>4. Once /\ SeenKnown /\ Shutdown
  BY DEF Once, SeenKnown, Shutdown, Queued
<1> QED
  BY <1>1, <1>2, <1>3, <1>4 DEF IInv

\* The steps of workers keep the types.
LEMMA WorkerTypes ==
    ASSUME TypeOK, ActiveCounts, NEW w \in Workers, WorkerStep(w) \/ WakeWorker(w)
    PROVE  TypeOK'
<1> USE PoolAssumption DEF TypeOK, WorkerGoto
<1>1. CASE Take(w)
  <2>1. queue \in Seq(Tasks) /\ queue # <<>>
    BY <1>1 DEF Take
  <2>2. Head(queue) \in Tasks /\ Tail(queue) \in Seq(Tasks)
    BY <2>1
  <2> QED
    BY <1>1, <2>2 DEF Take
<1>2. CASE Block(w)
  BY <1>2 DEF Block
<1>3. CASE Exit(w)
  BY <1>3 DEF Exit
<1>4. CASE Finish(w)
  BY <1>4 DEF Finish
<1>5. CASE CountDown(w)
  <2>1. active - 1 \in Nat
    <3>1. w \in Busy
      BY <1>5 DEF CountDown, Busy
    <3>2. Cardinality(Busy) # 0
      BY <3>1, ThreadSets, FS_EmptySet DEF Countable
    <3> QED
      BY <3>2, ThreadSets DEF ActiveCounts, Countable
  <2> QED
    BY <1>5, <2>1 DEF CountDown
<1>6. CASE NotifyDone(w)
  BY <1>6 DEF NotifyDone, NotifyAll
<1>7. CASE WakeWorker(w)
  BY <1>7 DEF WakeWorker
<1> QED
  BY <1>1, <1>2, <1>3, <1>4, <1>5, <1>6, <1>7 DEF WorkerStep

\* The steps of callers keep the types.
LEMMA CallerTypes ==
    ASSUME TypeOK, NEW c \in Callers,
           (\E t \in Tasks : submit(c, t)) \/ wait_all(c) \/ CallerStep(c) \/ WakeCaller(c)
    PROVE  TypeOK'
<1> USE PoolAssumption DEF TypeOK, CallerGoto
<1>1. ASSUME NEW t \in Tasks, submit(c, t) PROVE TypeOK'
  BY <1>1 DEF submit
<1>2. CASE wait_all(c)
  <2>1. Known \subseteq Tasks
    BY DEF Known, Queued, Held
  <2> QED
    BY <1>2, <2>1 DEF wait_all
<1>3. CASE NotifyOne(c)
  BY <1>3 DEF NotifyOne, WorkerGoto
<1>4. CASE WaitReturn(c)
  BY <1>4 DEF WaitReturn
<1>5. CASE WaitBlock(c)
  BY <1>5 DEF WaitBlock
<1>6. CASE WakeCaller(c)
  BY <1>6 DEF WakeCaller
<1> QED
  BY <1>1, <1>2, <1>3, <1>4, <1>5, <1>6 DEF CallerStep

\* Every step keeps the types.
LEMMA StepTypes == IInv /\ [Next]_vars => TypeOK'
<1> SUFFICES ASSUME IInv, [Next]_vars PROVE TypeOK'
  OBVIOUS
<1>0. TypeOK /\ ActiveCounts
  BY DEF IInv
<1>1. ASSUME NEW w \in Workers, WorkerStep(w) \/ WakeWorker(w) PROVE TypeOK'
  BY <1>0, <1>1, WorkerTypes
<1>2. ASSUME NEW c \in Callers,
             (\E t \in Tasks : submit(c, t)) \/ wait_all(c) \/ CallerStep(c) \/ WakeCaller(c)
      PROVE  TypeOK'
  BY <1>0, <1>2, CallerTypes
<1>3. CASE Destroy
  BY <1>0, <1>3 DEF Destroy, TypeOK
<1>4. CASE NotifyStop
  BY <1>0, <1>4 DEF NotifyStop, NotifyAll, TypeOK
<1>5. CASE Join
  BY <1>0, <1>5 DEF Join, TypeOK
<1>6. CASE UNCHANGED vars
  BY <1>0, <1>6 DEF vars, TypeOK
<1> QED
  BY <1>1, <1>2, <1>3, <1>4, <1>5, <1>6 DEF Next, Gone

-----------------------------------------------------------------------------
(* active_ counts the busy workers *)

\* Every step keeps active_ equal to the number of busy workers.
LEMMA StepActive == IInv /\ [Next]_vars => ActiveCounts'
<1> SUFFICES ASSUME IInv, [Next]_vars PROVE ActiveCounts'
  OBVIOUS
<1>0. TypeOK /\ active = Cardinality(Busy) /\ IsFiniteSet(Busy) /\ Cardinality(Busy) \in Nat
  BY ThreadSets DEF IInv, ActiveCounts, Countable
<1> USE DEF TypeOK, WorkerGoto
<1>1. ASSUME NEW w \in Workers, Take(w) PROVE ActiveCounts'
  <2>1. Busy' = Busy \cup {w} /\ w \notin Busy /\ active' = active + 1
    BY <1>0, <1>1 DEF Take, Busy
  <2>2. Cardinality(Busy \cup {w}) = Cardinality(Busy) + 1
    BY <1>0, <2>1, FS_AddElement
  <2> QED
    BY <1>0, <2>1, <2>2 DEF ActiveCounts
<1>2. ASSUME NEW w \in Workers, CountDown(w) PROVE ActiveCounts'
  <2>1. Busy' = Busy \ {w} /\ w \in Busy /\ active' = active - 1
    BY <1>0, <1>2 DEF CountDown, Busy
  <2>2. Cardinality(Busy \ {w}) = Cardinality(Busy) - 1
    BY <1>0, <2>1, FS_RemoveElement
  <2> QED
    BY <1>0, <2>1, <2>2 DEF ActiveCounts
<1>3. ASSUME NEW w \in Workers,
             Block(w) \/ Exit(w) \/ Finish(w) \/ NotifyDone(w) \/ WakeWorker(w)
      PROVE  Busy' = Busy /\ active' = active
  BY <1>0, <1>3 DEF Block, Exit, Finish, NotifyDone, WakeWorker, Busy
<1>4. ASSUME NEW c \in Callers,
             (\E t \in Tasks : submit(c, t)) \/ wait_all(c) \/ CallerStep(c) \/ WakeCaller(c)
      PROVE  Busy' = Busy /\ active' = active
  BY <1>0, <1>4 DEF submit, wait_all, CallerStep, NotifyOne, WaitReturn, WaitBlock, WakeCaller, Busy
<1>5. ASSUME Destroy \/ NotifyStop \/ Join \/ UNCHANGED vars
      PROVE  Busy' = Busy /\ active' = active
  BY <1>0, <1>5 DEF Destroy, NotifyStop, NotifyAll, Join, vars, Busy
<1>6. ASSUME Busy' = Busy, active' = active PROVE ActiveCounts'
  BY <1>0, <1>6 DEF ActiveCounts
<1> QED
  BY <1>1, <1>2, <1>3, <1>4, <1>5, <1>6 DEF Next, WorkerStep, Gone

-----------------------------------------------------------------------------
(* No lost wake-up *)

\* No step leaves a queued task without a worker that will look for it.
LEMMA StepWakeup == IInv /\ [Next]_vars => NoLostWakeup'
<1> SUFFICES ASSUME IInv, [Next]_vars, Blocked' # {}
             PROVE  Len(queue)' <= Cardinality(Testing)' + Cardinality(Notifying)'
  BY DEF NoLostWakeup
<1> DEFINE T == Cardinality(Testing)
           N == Cardinality(Notifying)
<1>0. /\ TypeOK /\ queue \in Seq(Tasks) /\ Len(queue) \in Nat
      /\ Blocked # {} => Len(queue) <= T + N
  BY DEF IInv, NoLostWakeup, TypeOK
<1>t. IsFiniteSet(Testing) /\ T \in Nat /\ IsFiniteSet(Notifying) /\ N \in Nat
  BY ThreadSets DEF Countable
<1>s. T' \in Nat /\ N' \in Nat
  <2>1. Countable'
    BY ThreadSets, PTL
  <2> QED
    BY <2>1 DEF Countable
<1> USE DEF TypeOK, WorkerGoto, CallerGoto
<1>1. ASSUME NEW w \in Workers, Take(w) PROVE Len(queue)' <= T' + N'
  <2>1. Testing' = Testing \ {w} /\ w \in Testing /\ Notifying' = Notifying /\ Blocked' = Blocked
    BY <1>0, <1>1 DEF Take, Testing, Notifying, Blocked
  <2>2. Cardinality(Testing \ {w}) = T - 1
    BY <1>t, <2>1, FS_RemoveElement
  <2>3. Len(queue)' = Len(queue) - 1
    BY <1>0, <1>1 DEF Take
  <2> QED
    BY <1>0, <1>t, <2>1, <2>2, <2>3
<1>2. ASSUME NEW w \in Workers, Block(w) \/ Exit(w) PROVE Len(queue)' <= T' + N'
  <2>1. Len(queue)' = 0
    BY <1>2 DEF Block, Exit
  <2> QED
    BY <2>1, <1>s
<1>3. ASSUME NEW w \in Workers, Finish(w) \/ CountDown(w)
      PROVE  Testing' = Testing /\ Notifying' = Notifying /\ Blocked' = Blocked /\ queue' = queue
  BY <1>0, <1>3 DEF Finish, CountDown, Testing, Notifying, Blocked
<1>4. ASSUME NEW w \in Workers, NotifyDone(w) \/ WakeWorker(w)
      PROVE  Len(queue)' <= T' + N'
  <2>1. /\ Testing' = Testing \cup {w} /\ w \notin Testing
        /\ Notifying' = Notifying /\ Blocked # {} /\ queue' = queue
    BY <1>0, <1>4 DEF NotifyDone, NotifyAll, WakeWorker, Testing, Notifying, Blocked
  <2>2. Cardinality(Testing \cup {w}) = T + 1
    BY <1>t, <2>1, FS_AddElement
  <2> QED
    BY <1>0, <1>t, <2>1, <2>2
<1>5. ASSUME NEW c \in Callers, NEW t \in Tasks, submit(c, t)
      PROVE  Len(queue)' <= T' + N'
  <2>1. Notifying' = Notifying \cup {c} /\ c \notin Notifying /\ Testing' = Testing /\ Blocked' = Blocked
    BY <1>0, <1>5 DEF submit, Testing, Notifying, Blocked
  <2>2. Cardinality(Notifying \cup {c}) = N + 1
    BY <1>t, <2>1, FS_AddElement
  <2>3. Len(queue)' = Len(queue) + 1
    BY <1>0, <1>5 DEF submit
  <2> QED
    BY <1>0, <1>t, <2>1, <2>2, <2>3
<1>6. ASSUME NEW c \in Callers, NotifyOne(c) PROVE Len(queue)' <= T' + N'
  <2>1. PICK w \in Workers : wpc[w] = "blocked" /\ wpc' = [wpc EXCEPT ![w] = "test"]
    BY <1>0, <1>6 DEF NotifyOne, Blocked
  <2>2. /\ Notifying' = Notifying \ {c} /\ c \in Notifying
        /\ Testing' = Testing \cup {w} /\ w \notin Testing
        /\ Blocked # {} /\ queue' = queue
    BY <1>0, <1>6, <2>1 DEF NotifyOne, Testing, Notifying, Blocked
  <2>3. Cardinality(Notifying \ {c}) = N - 1
    BY <1>t, <2>2, FS_RemoveElement
  <2>4. Cardinality(Testing \cup {w}) = T + 1
    BY <1>t, <2>2, FS_AddElement
  <2> QED
    BY <1>0, <1>t, <2>2, <2>3, <2>4
<1>7. ASSUME NEW c \in Callers, wait_all(c) \/ WaitReturn(c) \/ WaitBlock(c) \/ WakeCaller(c)
      PROVE  Testing' = Testing /\ Notifying' = Notifying /\ Blocked' = Blocked /\ queue' = queue
  BY <1>0, <1>7 DEF wait_all, WaitReturn, WaitBlock, WakeCaller, Testing, Notifying, Blocked
<1>8. ~NotifyStop
  BY <1>0 DEF NotifyStop, NotifyAll, Blocked
<1>9. ASSUME Destroy \/ Join \/ UNCHANGED vars
      PROVE  Testing' = Testing /\ Notifying' = Notifying /\ Blocked' = Blocked /\ queue' = queue
  BY <1>0, <1>9 DEF Destroy, Join, vars, Testing, Notifying, Blocked
<1>10. ASSUME Testing' = Testing, Notifying' = Notifying, Blocked' = Blocked, queue' = queue
       PROVE  Len(queue)' <= T' + N'
  BY <1>0, <1>10
<1> QED
  BY <1>1, <1>2, <1>3, <1>4, <1>5, <1>6, <1>7, <1>8, <1>9, <1>10
     DEF Next, WorkerStep, CallerStep, Gone

-----------------------------------------------------------------------------
(* Each task is in one place *)

\* What Take does to the places of the tasks.
LEMMA TakeMoves ==
    ASSUME IInv, NEW w \in Workers, Take(w)
    PROVE  /\ Head(queue) \in Tasks /\ Head(queue) \in Queued
           /\ Queued' = Queued \ {Head(queue)}
           /\ task[w] = NoTask /\ task' = [task EXCEPT ![w] = Head(queue)]
           /\ Held' = Held \cup {Head(queue)}
           /\ Head(queue) \notin Held
           /\ queue' = Tail(queue) /\ queue # <<>> /\ done' = done
<1>1. /\ TypeOK /\ Once /\ queue \in Seq(Tasks) /\ queue # <<>> /\ Len(queue) \in Nat
      /\ Len(queue) >= 1
      /\ wpc[w] = "test"
  BY DEF IInv, TypeOK, Take, WorkerGoto
<1>2. queue' = Tail(queue) /\ done' = done /\ task' = [task EXCEPT ![w] = Head(queue)]
  BY DEF Take
<1>3. Head(queue) \in Tasks /\ Head(queue) = queue[1] /\ Head(queue) \in Queued
  BY <1>1 DEF Queued
<1>4. Queued' = Queued \ {Head(queue)}
  <2>1. Len(queue') = Len(queue) - 1 /\ \A i \in 1 .. Len(queue) - 1 : queue'[i] = queue[i + 1]
    BY <1>1, <1>2
  <2>2. \A i \in 1 .. Len(queue') : queue'[i] \in Queued /\ queue'[i] # queue[1]
    BY <1>1, <2>1 DEF Once, Queued
  <2>3. ASSUME NEW i \in 1 .. Len(queue), queue[i] # queue[1] PROVE \E j \in 1 .. Len(queue') : queue[i] = queue'[j]
    <3>1. i - 1 \in 1 .. Len(queue') /\ queue'[i - 1] = queue[i]
      BY <1>1, <2>1, <2>3
    <3> QED
      BY <3>1
  <2> QED
    BY <1>3, <2>2, <2>3 DEF Queued
<1>5. task[w] = NoTask
  BY <1>1 DEF TypeOK
<1>6. Held' = Held \cup {Head(queue)}
  BY <1>1, <1>2, <1>3, <1>5, PoolAssumption DEF Held, TypeOK
<1>7. Head(queue) \notin Held
  BY <1>1, <1>3 DEF Held, Once
<1> QED
  BY <1>1, <1>2, <1>3, <1>4, <1>5, <1>6, <1>7

\* What Finish does to them.
LEMMA FinishMoves ==
    ASSUME IInv, NEW w \in Workers, Finish(w)
    PROVE  /\ task[w] \in Held /\ task[w] \in Tasks
           /\ Held' = Held \ {task[w]}
           /\ done' = done \cup {task[w]}
           /\ queue' = queue /\ Queued' = Queued
<1>1. TypeOK /\ Once /\ wpc[w] = "run"
  BY DEF IInv, Finish, WorkerGoto
<1>2. queue' = queue /\ done' = done \cup {task[w]} /\ task' = [task EXCEPT ![w] = NoTask]
  BY DEF Finish
<1>3. task[w] # NoTask /\ task[w] \in Tasks
  BY <1>1 DEF TypeOK
<1>4. Held' = Held \ {task[w]}
  <2>1. ASSUME NEW v \in Workers, v # w PROVE task'[v] = task[v] /\ task[v] # task[w]
    BY <1>1, <1>2, <1>3, <2>1 DEF TypeOK, Once
  <2>2. task'[w] = NoTask
    BY <1>1, <1>2 DEF TypeOK
  <2> QED
    BY <2>1, <2>2, <1>3 DEF Held
<1> QED
  BY <1>2, <1>3, <1>4 DEF Held, Queued

\* What submit does to them.
LEMMA SubmitMoves ==
    ASSUME IInv, NEW c \in Callers, NEW t \in Tasks, submit(c, t)
    PROVE  /\ t \notin Queued /\ t \notin Held /\ t \notin done
           /\ Queued' = Queued \cup {t}
           /\ queue' = Append(queue, t)
           /\ UNCHANGED <<task, done>> /\ Held' = Held
<1>1. /\ queue \in Seq(Tasks) /\ Len(queue) \in Nat
      /\ queue' = Append(queue, t) /\ UNCHANGED <<task, done>> /\ t \notin Known
  BY DEF IInv, TypeOK, submit
<1>2. Len(queue') = Len(queue) + 1
      /\ \A i \in 1 .. Len(queue) + 1 : queue'[i] = IF i <= Len(queue) THEN queue[i] ELSE t
  BY <1>1
<1>3. Queued' = Queued \cup {t}
  BY <1>1, <1>2 DEF Queued
<1> QED
  BY <1>1, <1>3 DEF Known, Held

\* The remaining steps leave every task where it is.
Moves == \/ \E w \in Workers : Take(w) \/ Finish(w)
         \/ \E c \in Callers, t \in Tasks : submit(c, t)

\* The remaining steps leave every task where it is.
LEMMA OthersMoveNothing ==
    ASSUME [Next]_vars, ~Moves
    PROVE  UNCHANGED <<queue, task, done>>
<1>1. ASSUME NEW w \in Workers, WorkerStep(w) \/ WakeWorker(w) PROVE UNCHANGED <<queue, task, done>>
  BY <1>1 DEF Moves, WorkerStep, Block, Exit, CountDown, NotifyDone, WakeWorker
<1>2. ASSUME NEW c \in Callers, wait_all(c) \/ CallerStep(c) \/ WakeCaller(c)
      PROVE  UNCHANGED <<queue, task, done>>
  BY <1>2 DEF wait_all, CallerStep, NotifyOne, WaitReturn, WaitBlock, WakeCaller
<1>3. ASSUME Destroy \/ NotifyStop \/ Join \/ UNCHANGED vars PROVE UNCHANGED <<queue, task, done>>
  BY <1>3 DEF Destroy, NotifyStop, Join, vars
<1> QED
  BY <1>1, <1>2, <1>3 DEF Next, Moves, Gone

\* Every step keeps a task in one place only: queued, held or done.
LEMMA StepOnce == IInv /\ [Next]_vars => Once'
<1> SUFFICES ASSUME IInv, [Next]_vars PROVE Once'
  OBVIOUS
<1>0. TypeOK /\ Once /\ queue \in Seq(Tasks) /\ Len(queue) \in Nat
  BY DEF IInv, TypeOK
<1>1. ASSUME NEW w \in Workers, Take(w) PROVE Once'
  <2>1. /\ Head(queue) = queue[1] /\ Len(queue') = Len(queue) - 1
        /\ \A i \in 1 .. Len(queue) - 1 : queue'[i] = queue[i + 1]
    BY <1>0, <1>1, TakeMoves
  <2>n. \A i \in 1 .. Len(queue') : i + 1 \in 1 .. Len(queue) /\ queue'[i] = queue[i + 1]
    BY <1>0, <2>1
  <2>2. \A i, j \in 1 .. Len(queue') : queue'[i] = queue'[j] => i = j
    <3> SUFFICES ASSUME NEW i \in 1 .. Len(queue'), NEW j \in 1 .. Len(queue'), queue'[i] = queue'[j]
                 PROVE  i = j
      OBVIOUS
    <3>1. i + 1 = j + 1
      BY <1>0, <2>n DEF Once
    <3> QED
      BY <3>1
  <2>3. \A i \in 1 .. Len(queue') : queue'[i] \notin done'
    BY <1>0, <1>1, <2>n, TakeMoves DEF Once
  <2>4. Head(queue) \notin Queued' /\ Head(queue) \notin done'
    <3>1. Head(queue) \notin Queued'
      BY <1>1, TakeMoves
    <3>2. 1 \in 1 .. Len(queue) /\ done' = done
      BY <1>0, <1>1, TakeMoves
    <3> QED
      BY <1>0, <2>1, <3>1, <3>2 DEF Once
  <2>5. \A v \in Workers : task'[v] # NoTask => task'[v] \notin Queued' /\ task'[v] \notin done'
    BY <1>0, <1>1, <2>4, TakeMoves DEF Once, TypeOK
  <2>6. \A u, v \in Workers : task'[u] = task'[v] /\ task'[v] # NoTask => u = v
    BY <1>0, <1>1, TakeMoves, SMTT(60) DEF Once, TypeOK, Held
  <2> QED
    BY <2>2, <2>3, <2>5, <2>6 DEF Once
<1>2. ASSUME NEW w \in Workers, Finish(w) PROVE Once'
  <2>1. task' = [task EXCEPT ![w] = NoTask]
    BY <1>2 DEF Finish
  <2>2. task[w] # NoTask
    BY <1>2, FinishMoves DEF Held
  <2>3. \A i \in 1 .. Len(queue) : queue[i] # task[w]
    BY <1>0, <2>2 DEF Once, Queued
  <2> QED
    BY <1>0, <1>2, <2>1, <2>2, <2>3, FinishMoves, SMTT(60) DEF Once, TypeOK
<1>3. ASSUME NEW c \in Callers, NEW t \in Tasks, submit(c, t) PROVE Once'
  <2>1. Len(queue') = Len(queue) + 1
        /\ \A i \in 1 .. Len(queue) + 1 : queue'[i] = IF i <= Len(queue) THEN queue[i] ELSE t
    BY <1>0, <1>3, SubmitMoves
  <2>2. \A i \in 1 .. Len(queue) : queue[i] # t
    BY <1>3, SubmitMoves DEF Queued
  <2>3. \A i, j \in 1 .. Len(queue') : queue'[i] = queue'[j] => i = j
    BY <1>0, <2>1, <2>2 DEF Once
  <2>4. \A i \in 1 .. Len(queue') : queue'[i] \notin done'
    BY <1>0, <1>3, <2>1, SubmitMoves DEF Once
  <2>5. \A v \in Workers : task'[v] # NoTask => task'[v] \notin Queued' /\ task'[v] \notin done'
    BY <1>0, <1>3, SubmitMoves DEF Once, Held
  <2>6. \A u, v \in Workers : task'[u] = task'[v] /\ task'[v] # NoTask => u = v
    BY <1>0, <1>3, SubmitMoves DEF Once
  <2> QED
    BY <2>3, <2>4, <2>5, <2>6 DEF Once
<1>4. ASSUME ~Moves PROVE Once'
  BY <1>0, <1>4, OthersMoveNothing DEF Once, Queued
<1> QED
  BY <1>1, <1>2, <1>3, <1>4 DEF Moves

-----------------------------------------------------------------------------
(* wait_all and the destructor *)

\* The pool forgets no task.
LEMMA KnownGrows ==
    ASSUME IInv, [Next]_vars
    PROVE  Known \subseteq Known'
<1>1. ASSUME NEW w \in Workers, Take(w) PROVE Known \subseteq Known'
  BY <1>1, TakeMoves DEF Known
<1>2. ASSUME NEW w \in Workers, Finish(w) PROVE Known \subseteq Known'
  BY <1>2, FinishMoves DEF Known
<1>3. ASSUME NEW c \in Callers, NEW t \in Tasks, submit(c, t) PROVE Known \subseteq Known'
  BY <1>3, SubmitMoves DEF Known
<1>4. ASSUME ~Moves PROVE Known \subseteq Known'
  BY <1>4, OthersMoveNothing DEF Known, Queued, Held
<1> QED
  BY <1>1, <1>2, <1>3, <1>4 DEF Moves

\* What a wait_all has seen submitted stays known to the pool.
LEMMA StepSeen == IInv /\ [Next]_vars => SeenKnown'
<1> SUFFICES ASSUME IInv, [Next]_vars PROVE SeenKnown'
  OBVIOUS
<1>1. Known \subseteq Known'
  BY KnownGrows
<1>2. SeenKnown /\ seen \in [Callers -> SUBSET Tasks]
  BY DEF IInv, TypeOK
<1>3. ASSUME NEW c \in Callers PROVE seen'[c] \in {seen[c], Known}
  <2>1. ASSUME NEW d \in Callers, wait_all(d) PROVE seen'[c] \in {seen[c], Known}
    BY <1>2, <2>1 DEF wait_all
  <2>2. ASSUME \A d \in Callers : ~wait_all(d) PROVE seen' = seen
    BY <2>2 DEF Next, vars, WorkerStep, CallerStep, Take, Block, Exit, Finish, CountDown, NotifyDone,
       WakeWorker, submit, NotifyOne, WaitReturn, WaitBlock, WakeCaller, Destroy, NotifyStop, Join, Gone
  <2> QED
    BY <2>1, <2>2
<1> QED
  BY <1>1, <1>2, <1>3 DEF SeenKnown

\* After stop_ a worker exits only when the queue is empty.
LEMMA StepShutdown == IInv /\ [Next]_vars => Shutdown'
<1> SUFFICES ASSUME IInv, [Next]_vars PROVE Shutdown'
  OBVIOUS
<1>0. TypeOK /\ Shutdown
  BY DEF IInv
<1> USE <1>0 DEF Shutdown, TypeOK, WorkerGoto
<1>1. ASSUME NEW w \in Workers, Take(w) PROVE Shutdown'
  BY <1>1 DEF Take
<1>2. ASSUME NEW w \in Workers, Exit(w) PROVE Shutdown'
  BY <1>2 DEF Exit
<1>3. ASSUME NEW w \in Workers, Block(w) \/ Finish(w) \/ CountDown(w) \/ NotifyDone(w) \/ WakeWorker(w)
      PROVE  Shutdown'
  BY <1>3 DEF Block, Finish, CountDown, NotifyDone, WakeWorker
<1>4. ASSUME NEW c \in Callers, NEW t \in Tasks, submit(c, t) PROVE Shutdown'
  BY <1>4 DEF submit
<1>5. ASSUME NEW c \in Callers, wait_all(c) \/ CallerStep(c) \/ WakeCaller(c) PROVE Shutdown'
  BY <1>5 DEF wait_all, CallerStep, NotifyOne, WaitReturn, WaitBlock, WakeCaller
<1>6. ASSUME Destroy PROVE Shutdown'
  BY <1>6 DEF Destroy
<1>7. ASSUME NotifyStop PROVE Shutdown'
  BY <1>7 DEF NotifyStop, NotifyAll
<1>8. ASSUME Join \/ UNCHANGED vars PROVE Shutdown'
  BY <1>8 DEF Join, vars
<1> QED
  BY <1>1, <1>2, <1>3, <1>4, <1>5, <1>6, <1>7, <1>8 DEF Next, WorkerStep, Gone

-----------------------------------------------------------------------------
(* Theorems *)

\* The inductive invariant holds of every behaviour of the pool.
THEOREM Invariance == Spec => []IInv
<1>1. IInv /\ [Next]_vars => IInv'
  BY StepTypes, StepActive, StepWakeup, StepOnce, StepSeen, StepShutdown DEF IInv
<1> QED
  BY <1>1, InitInv, PTL DEF Spec

\* active_ is the number of tasks being executed.
THEOREM ActiveIsExact == Spec => []ActiveCounts
<1>1. IInv => ActiveCounts
  BY DEF IInv
<1> QED
  BY <1>1, Invariance, PTL

\* No queued task is left behind with all workers asleep: notify_one after the
\* release of mu_ loses no wake-up.
THEOREM WakeupsAreKept == Spec => []NoLostWakeup
<1>1. IInv => NoLostWakeup
  BY DEF IInv
<1> QED
  BY <1>1, Invariance, PTL

\* The destructor returns only when every submitted task has run.
THEOREM DestructorRunsAllTasks == Spec => []DestructorDrains
<1>1. IInv => DestructorDrains
  <2> SUFFICES ASSUME IInv, owner = "gone" PROVE Known = done
    BY DEF DestructorDrains
  <2>1. PICK w \in Workers : TRUE
    BY PoolAssumption
  <2>2. queue = <<>> /\ \A v \in Workers : wpc[v] = "exited"
    BY <2>1 DEF IInv, Shutdown
  <2>3. Held = {}
    BY <2>2 DEF IInv, TypeOK, Held
  <2>4. Queued = {}
    BY <2>2 DEF Queued
  <2> QED
    BY <2>3, <2>4 DEF Known
<1> QED
  BY <1>1, Invariance, PTL

\* When wait_all returns, the tasks submitted before it was called are done.
THEOREM WaitAllIsSound == Spec => WaitAllWaits
<1>1. IInv /\ [Next]_vars => [Returns]_vars
  <2> SUFFICES ASSUME IInv, Next, NEW c \in Callers, cpc[c] = "test", cpc'[c] = "idle"
               PROVE  seen[c] \subseteq done
    BY DEF Returns
  <2>1. AllFinished
    BY DEF Next, WorkerStep, CallerStep, CallerGoto, Take, Block, Exit, Finish, CountDown, NotifyDone,
       NotifyAll, WakeWorker, submit, wait_all, NotifyOne, WaitReturn, WaitBlock, WakeCaller,
       Destroy, NotifyStop, Join, Gone, vars, IInv, TypeOK
  <2>2. queue = <<>> /\ Cardinality(Busy) = 0 /\ IsFiniteSet(Busy)
    BY <2>1, ThreadSets DEF AllFinished, IInv, ActiveCounts, Countable
  <2>3. Busy = {}
    BY <2>2, FS_EmptySet
  <2>4. Held = {} /\ Queued = {}
    BY <2>2, <2>3 DEF Held, Queued, Busy, IInv, TypeOK
  <2> QED
    BY <2>4 DEF IInv, SeenKnown, Known
<1> QED
  BY <1>1, Invariance, PTL DEF Spec, WaitAllWaits

-----------------------------------------------------------------------------
(* The pool implements the promised queue *)

\* While a worker is not running a task, fewer tasks run than there are workers.
LEMMA RoomForOne ==
    ASSUME TypeOK, NEW w \in Workers, task[w] = NoTask
    PROVE  Cardinality(Held) < Cardinality(Workers)
<1> DEFINE Others == Workers \ {w}
<1>1. IsFiniteSet(Workers) /\ Cardinality(Workers) \in Nat
  BY PoolAssumption, FS_CardinalityType
<1>2. IsFiniteSet(Others) /\ Cardinality(Others) = Cardinality(Workers) - 1
  BY <1>1, FS_RemoveElement
<1>3. Cardinality(Held) \in Nat /\ Cardinality(Held) <= Cardinality(Others)
  <2> DEFINE f == [v \in Others |-> task[v]]
             image == {f[v] : v \in Others}
  <2>1. IsFiniteSet(image) /\ Cardinality(image) <= Cardinality(Others)
    <3>1. f \in Surjection(Others, image)
      BY DEF Surjection
    <3> HIDE DEF Others, f, image
    <3> QED
      BY <1>2, <3>1, FS_Surjection
  <2>2. Held \subseteq image
    BY DEF Held
  <2>3. Cardinality(Held) <= Cardinality(image)
    <3> HIDE DEF image
    <3> QED
      BY <2>1, <2>2, FS_Subset
  <2>4. Cardinality(image) \in Nat /\ Cardinality(Held) \in Nat /\ Cardinality(Others) \in Nat
    <3> HIDE DEF image, Others
    <3> QED
      BY <1>2, <2>1, <2>2, FS_Subset, FS_CardinalityType
  <2> QED
    BY <2>1, <2>3, <2>4
<1> QED
  BY <1>1, <1>2, <1>3

\* ThreadPool implements TaskQueue: each task is started once, in the order of
\* submission, on at most as many threads as there are workers.
THEOREM PoolRefinesQueue == Spec => ImplementsTaskQueue
<1>1. Init => Promise!Init
  BY DEF Init, Promise!Init, Held
<1>2. IInv /\ [Next]_vars => [Promise!Next]_<<queue, Held, done>>
  <2> SUFFICES ASSUME IInv, [Next]_vars PROVE [Promise!Next]_<<queue, Held, done>>
    OBVIOUS
  <2>1. ASSUME NEW w \in Workers, Take(w) PROVE Promise!Start
    <3>1. Cardinality(Held) < Cardinality(Workers)
      <4>1. TypeOK /\ task[w] = NoTask
        BY <2>1, TakeMoves DEF IInv
      <4> QED
        BY <4>1, RoomForOne
    <3>2. Promise!Cardinality(Held) = Cardinality(Held)
      BY DEF Promise!Cardinality, Cardinality
    <3> QED
      BY <2>1, <3>1, <3>2, TakeMoves DEF Promise!Start
  <2>2. ASSUME NEW w \in Workers, Finish(w) PROVE \E t \in Tasks : Promise!Finish(t)
    BY <2>2, FinishMoves DEF Promise!Finish
  <2>3. ASSUME NEW c \in Callers, NEW t \in Tasks, submit(c, t) PROVE Promise!Submit(t)
    BY <2>3, SubmitMoves DEF Promise!Submit, Promise!Known, Queued
  <2>4. ASSUME ~Moves PROVE UNCHANGED <<queue, Held, done>>
    BY <2>4, OthersMoveNothing DEF Held
  <2> QED
    BY <2>1, <2>2, <2>3, <2>4 DEF Moves, Promise!Next
<1> QED
  BY <1>1, <1>2, Invariance, PTL DEF Spec, ImplementsTaskQueue, Promise!Spec
=============================================================================

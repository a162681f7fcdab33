----------------------------- MODULE ThreadPool -----------------------------
(***************************************************************************)
(* The server's thread pool: workers that take tasks from a queue under    *)
(* mu_ and sleep on cv_, callers of submit and wait_all, which sleeps on   *)
(* cv_done_, and the owner that destroys the pool.                         *)
(*                                                                         *)
(* A critical section of mu_ is one step; the notifications, which the     *)
(* code issues after it has released the mutex, are steps of their own.    *)
(* A thread at "test" is about to take the mutex and evaluate its wait     *)
(* predicate; a thread at "blocked" is in the wait set of its condition    *)
(* variable, from where a notification or a spurious wake-up sends it      *)
(* back to "test".  The pool is destroyed when no call on it is in         *)
(* progress, as C++ requires and as Server, its only user, does.           *)
(***************************************************************************)
EXTENDS Integers, Sequences, FiniteSets

CONSTANTS Workers, Callers, Tasks, NoTask

ASSUME PoolAssumption ==
    IsFiniteSet(Workers) /\ Workers # {} /\ IsFiniteSet(Callers) /\ NoTask \notin Tasks

VARIABLES queue,      \* queue_
          active,     \* active_
          stop,       \* stop_
          wpc,        \* where each worker is
          task,       \* the worker's local variable task
          cpc,        \* where each caller is
          seen,       \* the tasks submitted before the caller's wait_all
          owner,      \* where the destructor is
          done        \* tasks that have returned

vars == <<queue, active, stop, wpc, task, cpc, seen, owner, done>>

Queued == {queue[i] : i \in 1 .. Len(queue)}
Held == {task[w] : w \in Workers} \ {NoTask}
Known == Queued \cup Held \cup done

Init ==
    /\ queue = <<>> /\ active = 0 /\ stop = FALSE
    /\ wpc = [w \in Workers |-> "test"]
    /\ task = [w \in Workers |-> NoTask]
    /\ cpc = [c \in Callers |-> "idle"]
    /\ seen = [c \in Callers |-> {}]
    /\ owner = "alive"
    /\ done = {}

WorkerGoto(w, from, to) == wpc[w] = from /\ wpc' = [wpc EXCEPT ![w] = to]

CallerGoto(c, from, to) == cpc[c] = from /\ cpc' = [cpc EXCEPT ![c] = to]

\* The threads of pc after all that are blocked have been notified.
NotifyAll(pc) == [x \in DOMAIN pc |-> IF pc[x] = "blocked" THEN "test" ELSE pc[x]]

-----------------------------------------------------------------------------
(* submit *)

submit(c, t) ==
    /\ owner = "alive"
    /\ CallerGoto(c, "idle", "notify")
    /\ t \notin Known
    /\ queue' = Append(queue, t)
    /\ UNCHANGED <<active, stop, wpc, task, seen, owner, done>>

\* Mutant: submit does not notify.
NotifyOne_Nobody(c) ==
    /\ CallerGoto(c, "notify", "idle")
    /\ UNCHANGED <<queue, active, stop, wpc, task, seen, owner, done>>

\* cv_.notify_one wakes one of the sleeping workers, if there is one.
NotifyOne(c) ==
    /\ CallerGoto(c, "notify", "idle")
    /\ \/ \E w \in Workers : WorkerGoto(w, "blocked", "test")
       \/ (\A w \in Workers : wpc[w] # "blocked") /\ UNCHANGED wpc
    /\ UNCHANGED <<queue, active, stop, task, seen, owner, done>>

-----------------------------------------------------------------------------
(* worker_loop *)

\* Mutant: the task is read from the queue and left in it.
Take_NoPop(w) ==
    /\ queue # <<>>
    /\ WorkerGoto(w, "test", "run")
    /\ task' = [task EXCEPT ![w] = Head(queue)]
    /\ active' = active + 1
    /\ UNCHANGED <<queue, stop, cpc, seen, owner, done>>

\* Mutant: the task is not counted in active_.
Take_NotCounted(w) ==
    /\ queue # <<>>
    /\ WorkerGoto(w, "test", "run")
    /\ task' = [task EXCEPT ![w] = Head(queue)]
    /\ queue' = Tail(queue)
    /\ UNCHANGED <<active, stop, cpc, seen, owner, done>>

Take(w) ==
    /\ queue # <<>>
    /\ WorkerGoto(w, "test", "run")
    /\ task' = [task EXCEPT ![w] = Head(queue)]
    /\ queue' = Tail(queue)
    /\ active' = active + 1
    /\ UNCHANGED <<stop, cpc, seen, owner, done>>

Block(w) ==
    /\ queue = <<>> /\ ~stop
    /\ WorkerGoto(w, "test", "blocked")
    /\ UNCHANGED <<queue, active, stop, task, cpc, seen, owner, done>>

\* Mutant: a worker leaves as soon as stop_ is set.
Exit_AtOnce(w) ==
    /\ stop
    /\ WorkerGoto(w, "test", "exited")
    /\ UNCHANGED <<queue, active, stop, task, cpc, seen, owner, done>>

Exit(w) ==
    /\ queue = <<>> /\ stop
    /\ WorkerGoto(w, "test", "exited")
    /\ UNCHANGED <<queue, active, stop, task, cpc, seen, owner, done>>

\* task() returns.
Finish(w) ==
    /\ WorkerGoto(w, "run", "count")
    /\ done' = done \cup {task[w]}
    /\ task' = [task EXCEPT ![w] = NoTask]
    /\ UNCHANGED <<queue, active, stop, cpc, seen, owner>>

\* Mutant: active_ is not decremented.
CountDown_Missing(w) ==
    /\ WorkerGoto(w, "count", "notify")
    /\ UNCHANGED <<queue, active, stop, task, cpc, seen, owner, done>>

CountDown(w) ==
    /\ WorkerGoto(w, "count", "notify")
    /\ active' = active - 1
    /\ UNCHANGED <<queue, stop, task, cpc, seen, owner, done>>

\* Mutant: cv_done_ is not notified.
NotifyDone_Missing(w) ==
    /\ WorkerGoto(w, "notify", "test")
    /\ UNCHANGED <<queue, active, stop, task, cpc, seen, owner, done>>

NotifyDone(w) ==
    /\ WorkerGoto(w, "notify", "test")
    /\ cpc' = NotifyAll(cpc)
    /\ UNCHANGED <<queue, active, stop, task, seen, owner, done>>

-----------------------------------------------------------------------------
(* wait_all *)

wait_all(c) ==
    /\ owner = "alive"
    /\ CallerGoto(c, "idle", "test")
    /\ seen' = [seen EXCEPT ![c] = Known]
    /\ UNCHANGED <<queue, active, stop, wpc, task, owner, done>>

\* Mutant: the predicate of wait_all forgets the running tasks.
AllFinished_QueueOnly == queue = <<>>

AllFinished == queue = <<>> /\ active = 0

WaitReturn(c) ==
    /\ AllFinished
    /\ CallerGoto(c, "test", "idle")
    /\ UNCHANGED <<queue, active, stop, wpc, task, seen, owner, done>>

WaitBlock(c) ==
    /\ ~AllFinished
    /\ CallerGoto(c, "test", "blocked")
    /\ UNCHANGED <<queue, active, stop, wpc, task, seen, owner, done>>

-----------------------------------------------------------------------------
(* Spurious wake-ups *)

WakeWorker(w) ==
    /\ WorkerGoto(w, "blocked", "test")
    /\ UNCHANGED <<queue, active, stop, task, cpc, seen, owner, done>>

WakeCaller(c) ==
    /\ CallerGoto(c, "blocked", "test")
    /\ UNCHANGED <<queue, active, stop, wpc, task, seen, owner, done>>

-----------------------------------------------------------------------------
(* The destructor: set stop_, notify all workers, join them *)

Destroy ==
    /\ owner = "alive" /\ \A c \in Callers : cpc[c] = "idle"
    /\ owner' = "notify" /\ stop' = TRUE
    /\ UNCHANGED <<queue, active, wpc, task, cpc, seen, done>>

\* Mutant: the destructor wakes nobody.
NotifyStop_Missing ==
    /\ owner = "notify" /\ owner' = "join"
    /\ UNCHANGED <<queue, active, stop, wpc, task, cpc, seen, done>>

NotifyStop ==
    /\ owner = "notify" /\ owner' = "join"
    /\ wpc' = NotifyAll(wpc)
    /\ UNCHANGED <<queue, active, stop, task, cpc, seen, done>>

Join ==
    /\ owner = "join" /\ \A w \in Workers : wpc[w] = "exited"
    /\ owner' = "gone"
    /\ UNCHANGED <<queue, active, stop, wpc, task, cpc, seen, done>>

\* The pool is destroyed; nothing is left to happen.
Gone == owner = "gone" /\ UNCHANGED vars

-----------------------------------------------------------------------------
WorkerStep(w) ==
    Take(w) \/ Block(w) \/ Exit(w) \/ Finish(w) \/ CountDown(w) \/ NotifyDone(w)

CallerStep(c) == NotifyOne(c) \/ WaitReturn(c) \/ WaitBlock(c)

Next ==
    \/ \E w \in Workers : WorkerStep(w) \/ WakeWorker(w)
    \/ \E c \in Callers :
          \/ \E t \in Tasks : submit(c, t)
          \/ wait_all(c) \/ CallerStep(c) \/ WakeCaller(c)
    \/ Destroy \/ NotifyStop \/ Join \/ Gone

Spec == Init /\ [][Next]_vars

\* Every thread that can run does run: the operating system's scheduling, a
\* mutex that no thread holds forever, and tasks that return.  Nobody is
\* obliged to call submit, wait_all or the destructor, and no spurious
\* wake-up is relied on.
FairSpec ==
    /\ Spec
    /\ \A w \in Workers : WF_vars(WorkerStep(w))
    /\ \A c \in Callers : WF_vars(CallerStep(c))
    /\ WF_vars(NotifyStop) /\ WF_vars(Join)

-----------------------------------------------------------------------------
(* Properties *)

Busy == {w \in Workers : wpc[w] \in {"run", "count"}}

\* Every variable has its type; a worker holds a task exactly while it runs it.
TypeOK ==
    /\ queue \in Seq(Tasks)
    /\ active \in Nat
    /\ stop \in BOOLEAN
    /\ wpc \in [Workers -> {"test", "blocked", "run", "count", "notify", "exited"}]
    /\ task \in [Workers -> Tasks \cup {NoTask}]
    /\ \A w \in Workers : task[w] # NoTask <=> wpc[w] = "run"
    /\ cpc \in [Callers -> {"idle", "notify", "test", "blocked"}]
    /\ seen \in [Callers -> SUBSET Tasks]
    /\ owner \in {"alive", "notify", "join", "gone"}
    /\ done \subseteq Tasks

\* The pool starts each submitted task once, in the order of submission, on at
\* most as many threads as it has workers (worker_loop, submit).
Promise == INSTANCE TaskQueue WITH running <- Held, Limit <- Cardinality(Workers)
ImplementsTaskQueue == Promise!Spec

\* active_ is the number of tasks being executed (thread_pool.h:46), up to the
\* step in which the worker counts down.
ActiveCounts == active = Cardinality(Busy)

Blocked == {w \in Workers : wpc[w] = "blocked"}
Testing == {w \in Workers : wpc[w] = "test"}
Notifying == {c \in Callers : cpc[c] = "notify"}

\* No wake-up is lost: while a worker sleeps, each queued task has a worker
\* that is about to look at the queue, or a submit that has not yet notified.
NoLostWakeup ==
    Blocked # {} => Len(queue) <= Cardinality(Testing) + Cardinality(Notifying)

Returns == \A c \in Callers : cpc[c] = "test" /\ cpc'[c] = "idle" => seen[c] \subseteq done

\* wait_all returns only when all tasks submitted before the call have
\* finished (thread_pool.h:28), whatever other callers submit meanwhile.
WaitAllWaits == [][Returns]_vars

\* The destructor returns only when every submitted task has run: stop_ does
\* not drop the queue.
DestructorDrains == owner = "gone" => Known = done

\* Under fair scheduling every submitted task is executed.
EveryTaskRuns == \A t \in Tasks : t \in Known ~> t \in done

\* Under fair scheduling, and with finitely many tasks, wait_all returns.
WaitAllReturns == \A c \in Callers : cpc[c] \in {"test", "blocked"} ~> cpc[c] = "idle"

\* Under fair scheduling the destructor joins all workers, those that slept
\* when stop_ was set included.
DestructorReturns == owner # "alive" ~> owner = "gone"
=============================================================================

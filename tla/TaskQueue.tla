----------------------------- MODULE TaskQueue -----------------------------
(***************************************************************************)
(* What ThreadPool promises the code that submits to it: every task is     *)
(* started once, in the order of submission, and at most Limit run at a    *)
(* time.                                                                   *)
(***************************************************************************)
EXTENDS Integers, Sequences, FiniteSets

CONSTANTS Tasks, Limit

VARIABLES queue,      \* submitted and not yet started
          running,    \* started and not yet finished
          done        \* finished

Known == {queue[i] : i \in 1 .. Len(queue)} \cup running \cup done

Init == queue = <<>> /\ running = {} /\ done = {}

Submit(t) ==
    /\ t \notin Known
    /\ queue' = Append(queue, t)
    /\ UNCHANGED <<running, done>>

Start ==
    /\ queue # <<>>
    /\ Cardinality(running) < Limit
    /\ queue' = Tail(queue)
    /\ running' = running \cup {Head(queue)}
    /\ UNCHANGED done

Finish(t) ==
    /\ t \in running
    /\ running' = running \ {t}
    /\ done' = done \cup {t}
    /\ UNCHANGED queue

Next == Start \/ \E t \in Tasks : Submit(t) \/ Finish(t)

Spec == Init /\ [][Next]_<<queue, running, done>>
=============================================================================

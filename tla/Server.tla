------------------------------- MODULE Server -------------------------------
(***************************************************************************)
(* Server::run and Server::stop: the accept loop hands every connection to *)
(* the thread pool, where handle_client keeps a worker until the client    *)
(* closes the connection (Session has what happens on a connection,        *)
(* ThreadPool the pool itself).  A worker takes a connection off the queue *)
(* and then runs handle_client on it, whose first steps of two workers may *)
(* come in either order; here the two are one step.  stop is called from   *)
(* another thread; its three assignments are separate steps.               *)
(***************************************************************************)
EXTENDS Integers, Sequences, FiniteSets, Functions

CONSTANTS Clients,      \* connections that are ever opened
          Workers,      \* threads of the pool
          Backlog       \* connections the kernel queues for accept

ASSUME ServerAssumption == {Workers, Backlog} \subseteq Nat \ {0}

VARIABLES pc,           \* where run is
          conn,         \* client_fd
          running_,
          listen_fd_,   \* "open" or "none"
          socket,       \* the kernel's view: "bound", "listening" or "closed"
          stopper,      \* where stop is
          backlog,      \* connections not yet accepted
          queue,        \* connections in the pool's task queue
          serving,      \* connections that occupy a worker
          arrived,      \* all connections in the order they were made
          served        \* those that workers took off the queue, in that order

runVars == <<pc, conn, running_>>
stopVars == <<listen_fd_, socket, stopper>>
poolVars == <<queue, serving, served>>
vars == <<runVars, stopVars, poolVars, backlog, arrived>>

Init ==
    /\ pc = "listen" /\ conn \in Clients /\ running_ = FALSE
    /\ listen_fd_ = "open" /\ socket = "bound" /\ stopper = "idle"
    /\ backlog = <<>> /\ queue = <<>> /\ serving = {} /\ arrived = <<>> /\ served = <<>>

\* A call of accept keeps the socket listening after another thread closed it.
Listening == socket = "listening" \/ pc = "blocked"

Connect(c) ==
    /\ Listening /\ c \notin Range(arrived) /\ Len(backlog) < Backlog
    /\ backlog' = Append(backlog, c)
    /\ arrived' = Append(arrived, c)
    /\ UNCHANGED <<runVars, stopVars, poolVars>>

-----------------------------------------------------------------------------
(* Server::run *)

Usable == listen_fd_ = "open" /\ socket # "closed"

Listen ==
    /\ pc = "listen"
    /\ \/ Usable /\ pc' = "set" /\ socket' = "listening"
       \/ ~Usable /\ pc' = "returned" /\ UNCHANGED socket
    /\ UNCHANGED <<conn, running_, listen_fd_, stopper, poolVars, backlog, arrived>>

SetRunning ==
    /\ pc = "set" /\ pc' = "test"
    /\ running_' = TRUE
    /\ UNCHANGED <<conn, stopVars, poolVars, backlog, arrived>>

Test ==
    /\ pc = "test" /\ pc' = IF running_ THEN "accept" ELSE "returned"
    /\ UNCHANGED <<conn, running_, stopVars, poolVars, backlog, arrived>>

\* accept on a closed socket fails at once and the loop goes on.
Accept ==
    /\ pc = "accept" /\ pc' = IF Usable THEN "blocked" ELSE "test"
    /\ UNCHANGED <<conn, running_, stopVars, poolVars, backlog, arrived>>

\* When accept returns on a socket that was closed meanwhile, the kernel
\* drops what it had queued.
AcceptReturns ==
    /\ pc = "blocked" /\ backlog # <<>>
    /\ pc' = "submit" /\ conn' = Head(backlog)
    /\ backlog' = IF socket = "closed" THEN <<>> ELSE Tail(backlog)
    /\ UNCHANGED <<running_, stopVars, poolVars, arrived>>

\* accept returns -1 on an open socket as well: no descriptor is left, or a
\* signal came.  The connections stay with the kernel and the loop goes on.
AcceptFails ==
    /\ pc = "blocked" /\ pc' = "test"
    /\ backlog' = IF socket = "closed" THEN <<>> ELSE backlog
    /\ UNCHANGED <<conn, running_, stopVars, poolVars, arrived>>

\* Mutant: the connection is put in front of the queue.
Submit_Front ==
    /\ pc = "submit" /\ pc' = "test"
    /\ queue' = <<conn>> \o queue
    /\ UNCHANGED <<conn, running_, stopVars, serving, served, backlog, arrived>>

\* Mutant: the connection is forgotten when every worker is busy.
Submit_Drops ==
    /\ pc = "submit" /\ pc' = "test"
    /\ queue' = IF Cardinality(serving) = Workers THEN queue ELSE Append(queue, conn)
    /\ UNCHANGED <<conn, running_, stopVars, serving, served, backlog, arrived>>

Submit ==
    /\ pc = "submit" /\ pc' = "test"
    /\ queue' = Append(queue, conn)
    /\ UNCHANGED <<conn, running_, stopVars, serving, served, backlog, arrived>>

-----------------------------------------------------------------------------
(* The pool's workers and handle_client *)

\* Mutant: a connection gets a thread of its own.
Begin_NoLimit ==
    /\ queue # <<>>
    /\ queue' = Tail(queue)
    /\ serving' = serving \cup {Head(queue)}
    /\ served' = Append(served, Head(queue))
    /\ UNCHANGED <<runVars, stopVars, backlog, arrived>>

\* A worker takes the oldest task off the queue and begins handle_client.
Begin ==
    /\ queue # <<>> /\ Cardinality(serving) < Workers
    /\ queue' = Tail(queue)
    /\ serving' = serving \cup {Head(queue)}
    /\ served' = Append(served, Head(queue))
    /\ UNCHANGED <<runVars, stopVars, backlog, arrived>>

\* The client closes its connection and handle_client returns.
Disconnect(c) ==
    /\ c \in serving /\ serving' = serving \ {c}
    /\ UNCHANGED <<runVars, stopVars, queue, served, backlog, arrived>>

-----------------------------------------------------------------------------
(* Server::stop *)

StopFlag ==
    /\ stopper = "idle" /\ stopper' = "close"
    /\ running_' = FALSE
    /\ UNCHANGED <<pc, conn, listen_fd_, socket, poolVars, backlog, arrived>>

StopClose ==
    /\ stopper = "close" /\ stopper' = "forget"
    /\ socket' = "closed"
    /\ backlog' = IF pc = "blocked" THEN backlog ELSE <<>>
    /\ UNCHANGED <<runVars, listen_fd_, poolVars, arrived>>

StopForget ==
    /\ stopper = "forget" /\ stopper' = "done"
    /\ listen_fd_' = "none"
    /\ UNCHANGED <<runVars, socket, poolVars, backlog, arrived>>

Run == Listen \/ SetRunning \/ Test \/ Accept \/ AcceptReturns \/ Submit

Next ==
    \/ Run \/ AcceptFails \/ Begin
    \/ StopFlag \/ StopClose \/ StopForget
    \/ \E c \in Clients : Connect(c) \/ Disconnect(c)

Spec == Init /\ [][Next]_vars

\* The threads of run, of stop and of the pool are scheduled.  Nothing makes a
\* client connect or disconnect, and accept may fail any number of times.
FairSpec == Spec /\ WF_vars(Run) /\ WF_vars(Begin) /\ WF_vars(StopClose \/ StopForget)

-----------------------------------------------------------------------------
(* Properties *)

\* Until stop closes the socket no connection is lost or overtaken on its way from
\* the kernel's queue through accept, failing or not, and the task queue to the
\* worker that takes it (server.cpp:31-36, thread_pool.cpp:28-30).
ServedInOrder ==
    stopper \in {"idle", "close"} =>
        arrived = served \o queue \o (IF pc = "submit" THEN <<conn>> ELSE <<>>) \o backlog

\* The connections that were served and have left are tasks that are done.
Pool == INSTANCE TaskQueue WITH Tasks <- Clients, Limit <- Workers, running <- serving,
                                done <- Range(served) \ serving

\* The server uses the pool as ThreadPool offers it: a connection is a task
\* that is submitted once, and handle_client runs for it on one of the workers
\* (server.cpp:34).
ServerUsesPool == Pool!Spec

\* When stop has returned, run returns.  server.h:28: "Blocking: runs the accept
\* loop until stop() is called."
StopEndsRun == stopper = "done" ~> pc = "returned"

ClientsLeave == \A c \in Clients : c \in serving ~> c \notin serving
AllServed == \A c \in Clients : c \in Range(arrived) ~> c \in Range(served)

AcceptRecovers == ~[]<><<AcceptFails>>_vars

\* If stop is not called, accept does not fail for ever and every client that is
\* served disconnects some day, every connection is served, however many more
\* there are than workers (server.cpp:31-36).
ServedIfClientsLeave == [](stopper = "idle") /\ ClientsLeave /\ AcceptRecovers => AllServed
=============================================================================

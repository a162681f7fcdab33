---------------------------- MODULE ServerProofs ----------------------------
(***************************************************************************)
(* Proofs about Server for any clients, any number of workers and any      *)
(* backlog: until stop closes the socket connections are served in the     *)
(* order in which they were made, and at any time the server uses the pool *)
(* as the queue of tasks that ThreadPool implements.                       *)
(***************************************************************************)
EXTENDS Server, SequenceLemmas

Types ==
    /\ pc \in {"listen", "set", "test", "accept", "blocked", "submit", "returned"}
    /\ conn \in Clients
    /\ backlog \in Seq(Clients) /\ queue \in Seq(Clients)
    /\ arrived \in Seq(Clients) /\ served \in Seq(Clients)
    /\ serving \subseteq Range(served)

\* The connection that run has accepted and not yet submitted.
Held == IF pc = "submit" THEN <<conn>> ELSE <<>>

\* A connection is in one place only, and only if it was made.
Apart ==
    /\ IsInjective(backlog) /\ IsInjective(queue)
    /\ \A c \in Range(backlog) : c \notin Range(queue) /\ c \notin Range(served)
    /\ \A c \in Range(queue) : c \notin Range(served)
    /\ pc = "submit" => conn \notin Range(backlog) \cup Range(queue) \cup Range(served)
    /\ Range(backlog) \cup Range(queue) \cup Range(served) \subseteq Range(arrived)
    /\ pc = "submit" => conn \in Range(arrived)

\* Only stop closes the socket.
Open == stopper \in {"idle", "close"} => socket # "closed"

IInv == Types /\ Apart /\ Open /\ ServedInOrder

-----------------------------------------------------------------------------
(* The inductive invariant *)

\* The steps that move no connection: they change none of what IInv speaks of
\* but the place of run, which is not "submit" before or after.
Still ==
    /\ UNCHANGED <<conn, backlog, queue, serving, arrived, served>>
    /\ pc' = pc \/ (pc # "submit" /\ pc' # "submit")
    /\ pc' \in {pc, "set", "test", "accept", "blocked", "returned"}
    /\ Open' /\ (stopper' \in {"idle", "close"} => stopper \in {"idle", "close"})

\* A step that moves no connection keeps the invariant.
LEMMA StillKeeps == IInv /\ Still => IInv'
BY DEF IInv, Types, Apart, ServedInOrder, Still

\* The steps of run and stop that only change flags move no connection.
LEMMA FlagsStill ==
    ASSUME IInv, Listen \/ SetRunning \/ Test \/ Accept \/ StopFlag \/ StopForget \/ UNCHANGED vars
    PROVE  Still
<1>1. CASE Listen
  BY <1>1 DEF Listen, Still, IInv, Open, Usable, poolVars
<1>2. CASE SetRunning
  BY <1>2 DEF SetRunning, Still, IInv, Open, stopVars, poolVars
<1>3. CASE Test
  BY <1>3 DEF Test, Still, IInv, Open, stopVars, poolVars
<1>4. CASE Accept
  BY <1>4 DEF Accept, Still, IInv, Open, stopVars, poolVars
<1>5. CASE StopFlag
  BY <1>5 DEF StopFlag, Still, IInv, Open, poolVars
<1>6. CASE StopForget
  BY <1>6 DEF StopForget, Still, IInv, Open, runVars, poolVars
<1>7. CASE UNCHANGED vars
  BY <1>7 DEF vars, Still, IInv, Open, runVars, stopVars, poolVars
<1> QED
  BY <1>1, <1>2, <1>3, <1>4, <1>5, <1>6, <1>7

\* A new connection goes to the end of the kernel's queue.
LEMMA ConnectKeeps ==
    ASSUME IInv, NEW c \in Clients, Connect(c)
    PROVE  IInv'
<1> USE DEF IInv, Types
<1>1. /\ backlog' = Append(backlog, c) /\ arrived' = Append(arrived, c) /\ c \notin Range(arrived)
      /\ UNCHANGED <<pc, conn, queue, serving, served, socket, stopper>>
  BY DEF Connect, runVars, stopVars, poolVars
<1>2. /\ backlog' \in Seq(Clients) /\ arrived' \in Seq(Clients)
      /\ Range(backlog') = Range(backlog) \cup {c} /\ Range(arrived') = Range(arrived) \cup {c}
      /\ IsInjective(backlog')
  BY <1>1, Appended DEF Apart
<1>3. Types' /\ Open'
  BY <1>1, <1>2 DEF Open
<1>4. Apart'
  BY <1>1, <1>2 DEF Apart
<1>5. ServedInOrder'
  <2> DEFINE front == served \o queue \o Held
  <2>1. front \in Seq(Clients)
    BY ConcatProperties DEF Held
  <2> HIDE DEF front
  <2>2. front \o Append(backlog, c) = Append(front \o backlog, c)
    BY <2>1, AppendedLast, SMTT(60)
  <2> QED
    BY <1>1, <2>2 DEF ServedInOrder, Held, front
<1> QED
  BY <1>3, <1>4, <1>5

\* accept takes the oldest connection of the kernel's queue.
LEMMA AcceptKeeps ==
    ASSUME IInv, AcceptReturns
    PROVE  IInv'
<1> USE DEF IInv, Types
<1>1. /\ pc = "blocked" /\ backlog # <<>> /\ pc' = "submit" /\ conn' = Head(backlog)
      /\ backlog' = IF socket = "closed" THEN <<>> ELSE Tail(backlog)
      /\ UNCHANGED <<queue, serving, served, arrived, socket, stopper>>
  BY DEF AcceptReturns, stopVars, poolVars
<1>2. /\ Head(backlog) \in Clients /\ Head(backlog) \in Range(backlog)
      /\ Tail(backlog) \in Seq(Clients) /\ IsInjective(Tail(backlog))
      /\ Range(Tail(backlog)) = Range(backlog) \ {Head(backlog)}
  BY <1>1, Popped DEF Apart
<1>3. Range(<<>>) = {} /\ IsInjective(<<>>) /\ <<>> \in Seq(Clients)
  BY DEF Range, IsInjective
<1>4. /\ backlog' \in Seq(Clients) /\ IsInjective(backlog')
      /\ Range(backlog') \subseteq Range(backlog) \ {Head(backlog)}
  BY <1>1, <1>2, <1>3
<1>5. Types' /\ Open'
  BY <1>1, <1>2, <1>4 DEF Open
<1>6. Apart'
  BY <1>1, <1>2, <1>4 DEF Apart
<1>7. ServedInOrder'
  <2> SUFFICES ASSUME stopper \in {"idle", "close"}
               PROVE  arrived = served \o queue \o <<Head(backlog)>> \o Tail(backlog)
    BY <1>1 DEF ServedInOrder, Open
  <2> DEFINE front == served \o queue
  <2>1. front \in Seq(Clients) /\ front \o <<>> = front
    BY ConcatProperties, ConcatEmptySeq
  <2>2. arrived = (front \o <<>>) \o backlog
    BY <1>1 DEF ServedInOrder
  <2> HIDE DEF front
  <2>3. front \o <<Head(backlog)>> \o Tail(backlog) = front \o backlog
    BY <1>1, <2>1, Moved, SMTT(60)
  <2> QED
    BY <2>1, <2>2, <2>3, Zenon DEF front
<1> QED
  BY <1>5, <1>6, <1>7

\* submit moves the accepted connection to the end of the task queue.
LEMMA SubmitKeeps ==
    ASSUME IInv, Submit
    PROVE  IInv'
<1> USE DEF IInv, Types
<1>1. /\ pc = "submit" /\ pc' = "test" /\ queue' = Append(queue, conn)
      /\ UNCHANGED <<conn, backlog, serving, served, arrived, socket, stopper>>
  BY DEF Submit, stopVars
<1>2. /\ queue' \in Seq(Clients) /\ Range(queue') = Range(queue) \cup {conn} /\ IsInjective(queue')
  BY <1>1, Appended DEF Apart
<1>3. Types' /\ Open'
  BY <1>1, <1>2 DEF Open
<1>4. Apart'
  BY <1>1, <1>2 DEF Apart
<1>5. ServedInOrder'
  <2>1. served \o Append(queue, conn) = served \o queue \o <<conn>>
    BY AppendedLast, SMTT(60)
  <2>2. served \o Append(queue, conn) \in Seq(Clients)
    BY <1>1, <1>2, ConcatProperties
  <2>3. (served \o Append(queue, conn)) \o <<>> = served \o Append(queue, conn)
    BY <2>2, ConcatEmptySeq
  <2> QED
    BY <1>1, <2>1, <2>3 DEF ServedInOrder
<1> QED
  BY <1>3, <1>4, <1>5

\* A worker takes the oldest connection of the task queue.
LEMMA BeginKeeps ==
    ASSUME IInv, Begin
    PROVE  IInv' /\ Range(served') = Range(served) \cup {Head(queue)} /\ Head(queue) \notin Range(served)
<1> USE DEF IInv, Types
<1>1. /\ queue # <<>> /\ queue' = Tail(queue) /\ serving' = serving \cup {Head(queue)}
      /\ served' = Append(served, Head(queue))
      /\ UNCHANGED <<pc, conn, backlog, arrived, socket, stopper>>
  BY DEF Begin, runVars, stopVars
<1>2. /\ Head(queue) \in Clients /\ Head(queue) \in Range(queue)
      /\ queue' \in Seq(Clients) /\ IsInjective(queue') /\ Range(queue') = Range(queue) \ {Head(queue)}
  BY <1>1, Popped DEF Apart
<1>3. served' \in Seq(Clients) /\ Range(served') = Range(served) \cup {Head(queue)}
  BY <1>1, <1>2, Appended
<1>4. Types' /\ Open'
  BY <1>1, <1>2, <1>3 DEF Open
<1>5. Apart'
  BY <1>1, <1>2, <1>3 DEF Apart
<1>6. ServedInOrder'
  <2>1. Append(served, Head(queue)) = served \o <<Head(queue)>>
    BY <1>2, AppendIsConcat
  <2>2. Append(served, Head(queue)) \o Tail(queue) = served \o queue
    BY <1>1, <2>1, Moved
  <2> QED
    BY <1>1, <2>2 DEF ServedInOrder
<1> QED
  BY <1>2, <1>3, <1>4, <1>5, <1>6 DEF Apart

\* handle_client returns, stop closes the socket with what is queued there, and
\* accept fails.
LEMMA LeaveKeeps ==
    ASSUME IInv, StopClose \/ AcceptFails \/ \E c \in Clients : Disconnect(c)
    PROVE  IInv'
<1>1. CASE StopClose
  <2>1. Range(<<>>) = {} /\ IsInjective(<<>>) /\ <<>> \in Seq(Clients)
    BY DEF Range, IsInjective
  <2>2. /\ backlog' \in {backlog, <<>>} /\ stopper' = "forget"
        /\ UNCHANGED <<pc, conn, queue, serving, served, arrived>>
    BY <1>1 DEF StopClose, runVars, poolVars
  <2> QED
    BY <2>1, <2>2 DEF IInv, Types, Apart, Open, ServedInOrder
<1>2. CASE \E c \in Clients : Disconnect(c)
  <2>1. /\ serving' \subseteq serving
        /\ UNCHANGED <<pc, conn, backlog, queue, served, arrived, socket, stopper>>
    BY <1>2 DEF Disconnect, runVars, stopVars
  <2> QED
    BY <2>1 DEF IInv, Types, Apart, Open, ServedInOrder
<1>3. CASE AcceptFails
  <2>1. Range(<<>>) = {} /\ IsInjective(<<>>) /\ <<>> \in Seq(Clients)
    BY DEF Range, IsInjective
  <2>2. /\ pc = "blocked" /\ pc' = "test" /\ backlog' = IF socket = "closed" THEN <<>> ELSE backlog
        /\ UNCHANGED <<conn, queue, serving, served, arrived, socket, stopper>>
    BY <1>3 DEF AcceptFails, stopVars, poolVars
  <2>3. Types' /\ Apart' /\ Open'
    BY <2>1, <2>2 DEF IInv, Types, Apart, Open
  <2>4. ServedInOrder'
    BY <2>2 DEF IInv, Open, ServedInOrder
  <2> QED
    BY <2>3, <2>4 DEF IInv
<1> QED
  BY <1>1, <1>2, <1>3

\* Every connection is in one place, and in order: the invariant holds at all
\* times, however run, stop, the workers and the clients interleave.
THEOREM Invariance == Spec => []IInv
<1>1. Init => IInv
  <2> SUFFICES ASSUME Init PROVE IInv
    OBVIOUS
  <2>1. Range(<<>>) = {} /\ IsInjective(<<>>) /\ <<>> \in Seq(Clients)
    BY DEF Range, IsInjective
  <2>2. <<>> \o <<>> \o <<>> \o <<>> = <<>>
    BY <2>1, ConcatEmptySeq
  <2> QED
    BY <2>1, <2>2 DEF Init, IInv, Types, Apart, Open, ServedInOrder
<1>2. IInv /\ [Next]_vars => IInv'
  <2> SUFFICES ASSUME IInv, [Next]_vars PROVE IInv'
    OBVIOUS
  <2>1. CASE Listen \/ SetRunning \/ Test \/ Accept \/ StopFlag \/ StopForget \/ UNCHANGED vars
    BY <2>1, FlagsStill, StillKeeps
  <2>2. ASSUME NEW c \in Clients, Connect(c) PROVE IInv'
    BY <2>2, ConnectKeeps
  <2>3. CASE AcceptReturns
    BY <2>3, AcceptKeeps
  <2>4. CASE Submit
    BY <2>4, SubmitKeeps
  <2>5. CASE Begin
    BY <2>5, BeginKeeps
  <2>6. CASE StopClose \/ AcceptFails \/ \E c \in Clients : Disconnect(c)
    BY <2>6, LeaveKeeps
  <2> QED
    BY <2>1, <2>2, <2>3, <2>4, <2>5, <2>6 DEF Next, Run
<1> QED
  BY <1>1, <1>2, PTL DEF Spec

\* Until stop closes the socket no connection is lost or overtaken between the
\* kernel's queue and the worker that takes it (server.cpp:31-36).
THEOREM ConnectionsServedInOrder == Spec => []ServedInOrder
<1>1. IInv => ServedInOrder
  BY DEF IInv
<1> QED
  BY <1>1, Invariance, PTL

-----------------------------------------------------------------------------
(* The server as a user of the pool *)

\* The server keeps the protocol of the task queue: a connection is a task that
\* is submitted once, started in order on one of the workers, and then done.
THEOREM ServerRefinesQueue == Spec => ServerUsesPool
<1> DEFINE gone == Range(served) \ serving
<1>1. Init => Pool!Init
  BY DEF Init, Pool!Init, Range
<1>2. IInv /\ [Next]_vars => [Pool!Next]_<<queue, serving, gone>>
  <2> SUFFICES ASSUME IInv, [Next]_vars PROVE [Pool!Next]_<<queue, serving, gone>>
    OBVIOUS
  <2>1. CASE Submit
    <3>1. /\ conn \in Clients /\ queue' = Append(queue, conn) /\ UNCHANGED <<serving, served>>
          /\ conn \notin Range(queue) \cup Range(served) /\ serving \subseteq Range(served)
      BY <2>1 DEF Submit, IInv, Types, Apart
    <3>2. Pool!Known \subseteq Range(queue) \cup Range(served)
      <4>1. queue \in Seq(Clients) /\ DOMAIN queue = 1 .. Len(queue)
        BY LenProperties DEF IInv, Types
      <4> QED
        BY <3>1, <4>1 DEF Pool!Known, Range
    <3>3. Pool!Submit(conn)
      BY <3>1, <3>2 DEF Pool!Submit
    <3> QED
      BY <3>1, <3>3 DEF Pool!Next
  <2>2. CASE Begin
    <3>1. Pool!Cardinality(serving) = Cardinality(serving)
      BY DEF Pool!Cardinality, Cardinality
    <3>2. gone' = gone
      <4>1. Range(served') = Range(served) \cup {Head(queue)} /\ Head(queue) \notin Range(served)
        BY <2>2, BeginKeeps
      <4>2. serving' = serving \cup {Head(queue)} /\ serving \subseteq Range(served)
        BY <2>2 DEF Begin, IInv, Types
      <4> QED
        BY <4>1, <4>2
    <3>3. Pool!Start
      BY <2>2, <3>1, <3>2 DEF Begin, Pool!Start
    <3> QED
      BY <3>3 DEF Pool!Next
  <2>3. ASSUME NEW c \in Clients, Disconnect(c) PROVE Pool!Finish(c)
    <3>1. c \in serving /\ serving' = serving \ {c} /\ UNCHANGED <<queue, served>>
      BY <2>3 DEF Disconnect
    <3>2. gone' = gone \cup {c}
      BY <3>1 DEF IInv, Types
    <3> QED
      BY <3>1, <3>2 DEF Pool!Finish
  <2>4. CASE \/ Listen \/ SetRunning \/ Test \/ Accept \/ StopFlag \/ StopForget \/ UNCHANGED vars
             \/ AcceptReturns \/ AcceptFails \/ StopClose \/ \E c \in Clients : Connect(c)
    <3>1. UNCHANGED <<queue, serving, served>>
      BY <2>4 DEF Listen, SetRunning, Test, Accept, StopFlag, StopForget, AcceptReturns, AcceptFails,
                  StopClose, Connect, vars, poolVars
    <3> QED
      BY <3>1
  <2> QED
    BY <2>1, <2>2, <2>3, <2>4 DEF Next, Run, Pool!Next
<1> QED
  BY <1>1, <1>2, Invariance, PTL DEF Spec, ServerUsesPool, Pool!Spec
=============================================================================

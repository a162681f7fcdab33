------------------------------ MODULE Session ------------------------------
(***************************************************************************)
(* One connection: flexql_open, flexql_exec and flexql_close on the client *)
(* side, Server::handle_client on the other.  A call sends its text, which *)
(* may hold several statements, and reads reply lines until the first END; *)
(* the server answers every statement with its own END.  A connection      *)
(* waits in the queue of the pool until a worker is free; what the client  *)
(* sends meanwhile stays in the socket.                                    *)
(*                                                                         *)
(* A message (a statement up to its ';' or a line up to its newline) goes  *)
(* through TCP in two halves, so that a recv may return any part of what   *)
(* is in flight.  A socket holds at most Capacity halves; send blocks when *)
(* it is full.  Sending to a client that has gone makes the kernel reset   *)
(* the connection, and a send on a reset connection raises SIGPIPE, which  *)
(* nothing in the program ignores, on either side.  The server also ends   *)
(* when a statement of any connection throws in its worker                 *)
(* (Database!InsertDies).                                                  *)
(***************************************************************************)
EXTENDS Integers, Sequences

CONSTANTS MaxBatch,     \* statements in the text of one call
          MaxCalls,     \* bound: calls in a behaviour
          Capacity,     \* halves of messages a socket buffers
          Aborting      \* whether a client process may be killed in a call

ASSUME SessionAssumption ==
    /\ MaxBatch \in Nat \ {0} /\ MaxCalls \in Nat /\ Capacity \in Nat \ {0}
    /\ Aborting \in BOOLEAN

VARIABLES client,       \* "idle", in a call ("sending" or "reading"), "closed" or
                        \* "killed" (ended by SIGPIPE)
          call,         \* number of the current or last call
          unsent,       \* what its send has still to hand over
          accC,         \* FlexQL::accumulator
          error_seen,
          result,       \* what the last call has returned, if it has
          got,          \* calls that the lines read in this call answer
          server,       \* "queued" for a worker, "serving", "closed", "piped" (ended
                        \* by SIGPIPE) or "dead"
          accS,         \* accumulator of handle_client
          reply,        \* what is still to be sent for the current statement
          c2s, s2c,     \* bytes in flight
          reset,        \* the connection has been reset
          failed,       \* calls with a statement that the server refused
          aborted       \* history: a client has been killed in a call

clientVars == <<client, call, unsent, accC, error_seen, result, got>>
serverVars == <<server, accS, reply, failed>>
vars == <<clientVars, serverVars, c2s, s2c, reset, aborted>>

Kinds == {"select", "insert", "invalid"}

Halves(m) == <<m, m>>

Complete(acc) == Len(acc) >= 2

Rest(acc) == SubSeq(acc, 3, Len(acc))

\* The lines that answer one statement of call k.
Answer(k, kind) ==
    LET line(l) == Halves([call |-> k, kind |-> l])
    IN  (CASE kind = "select" -> line("ROW") [] kind = "invalid" -> line("ERROR") [] OTHER -> <<>>)
            \o line("END")

\* A ';' is added to a text that does not end in one, also to one that ends in
\* ';' and a newline, which then holds an invalid statement more.
Text(k, kinds) == [i \in 1 .. 2 * Len(kinds) |-> [call |-> k, kind |-> kinds[(i + 1) \div 2]]]

Batches == UNION {[1 .. n -> Kinds] : n \in 1 .. MaxBatch}

Gone == client = "closed"

InCall == client \in {"sending", "reading"}

Ended == server \in {"closed", "piped", "dead"}

Init ==
    /\ client = "idle" /\ call = 0 /\ unsent = <<>> /\ accC = <<>>
    /\ error_seen = FALSE /\ result = "none" /\ got = {}
    /\ server = "queued" /\ accS = <<>> /\ reply = <<>>
    /\ c2s = <<>> /\ s2c = <<>> /\ reset = FALSE /\ failed = {}
    /\ aborted = FALSE

-----------------------------------------------------------------------------
(* flexql.cpp *)

\* flexql_exec up to its send.
flexql_exec(kinds) ==
    /\ client = "idle" /\ call < MaxCalls
    /\ client' = "sending" /\ call' = call + 1
    /\ unsent' = Text(call + 1, kinds)
    /\ error_seen' = FALSE /\ result' = "none" /\ got' = {}
    /\ UNCHANGED <<accC, serverVars, c2s, s2c, reset, aborted>>

\* A send may succeed although the server has ended.
Send ==
    /\ client = "sending"
    /\ Len(c2s) < Capacity
    /\ c2s' = Append(c2s, Head(unsent))
    /\ unsent' = Tail(unsent)
    /\ client' = IF Len(unsent) = 1 THEN "reading" ELSE "sending"
    /\ UNCHANGED <<call, accC, error_seen, result, got, serverVars, s2c, reset, aborted>>

\* Mutant: the call returns at a line of any kind.
ReadLine_AnyLine ==
    /\ client = "reading" /\ Complete(accC)
    /\ accC' = Rest(accC)
    /\ got' = got \cup {accC[1].call}
    /\ result' = IF error_seen THEN "error" ELSE "ok"
    /\ client' = "idle"
    /\ UNCHANGED <<call, unsent, error_seen, serverVars, c2s, s2c, reset, aborted>>

\* Mutant: an ERROR line is not remembered.
ReadLine_NoError ==
    /\ client = "reading" /\ Complete(accC)
    /\ accC' = Rest(accC)
    /\ got' = got \cup {accC[1].call}
    /\ \/ accC[1].kind = "END" /\ client' = "idle" /\ result' = "ok"
       \/ accC[1].kind # "END" /\ UNCHANGED <<client, result>>
    /\ UNCHANGED <<call, unsent, error_seen, serverVars, c2s, s2c, reset, aborted>>

\* A complete line has been received: END returns, ERROR is remembered, ROW
\* goes to the callback.
ReadLine ==
    /\ client = "reading" /\ Complete(accC)
    /\ accC' = Rest(accC)
    /\ got' = got \cup {accC[1].call}
    /\ \/ /\ accC[1].kind = "END"
          /\ client' = "idle" /\ result' = (IF error_seen THEN "error" ELSE "ok")
          /\ UNCHANGED error_seen
       \/ /\ accC[1].kind # "END"
          /\ error_seen' = (error_seen \/ accC[1].kind = "ERROR")
          /\ UNCHANGED <<client, result>>
    /\ UNCHANGED <<call, unsent, serverVars, c2s, s2c, reset, aborted>>

Recv ==
    /\ client = "reading" /\ ~Complete(accC)
    /\ \E n \in 1 .. Len(s2c) :
          /\ accC' = accC \o SubSeq(s2c, 1, n)
          /\ s2c' = SubSeq(s2c, n + 1, Len(s2c))
    /\ UNCHANGED <<client, call, unsent, error_seen, result, got, serverVars, c2s, reset, aborted>>

\* send meets a connection that has been reset: it returns the error that the
\* kernel has kept, or, if that has been reported, it raises SIGPIPE.
SendFails ==
    /\ Ended /\ client = "sending"
    /\ \/ client' = "idle" /\ result' = "error"
       \/ client' = "killed" /\ UNCHANGED result
    /\ unsent' = <<>> /\ s2c' = <<>>
    /\ UNCHANGED <<call, accC, error_seen, got, serverVars, c2s, reset, aborted>>

\* recv reports that the server has gone.  What it had sent is lost with it if
\* it has left data unread.
RecvFails ==
    /\ Ended /\ client = "reading" /\ ~Complete(accC)
    /\ s2c = <<>> \/ c2s # <<>>
    /\ client' = "idle" /\ result' = "error" /\ s2c' = <<>>
    /\ UNCHANGED <<call, unsent, accC, error_seen, got, serverVars, c2s, reset, aborted>>

\* Closing a socket that has unread data resets the connection.
Close ==
    /\ client' = "closed" /\ unsent' = <<>>
    /\ reset' = (s2c # <<>>) /\ s2c' = <<>>
    /\ UNCHANGED <<call, accC, error_seen, result, got, serverVars, c2s>>

flexql_close == client = "idle" /\ Close /\ UNCHANGED aborted

\* The client process is killed in a call.
Abort == Aborting /\ InCall /\ Close /\ aborted' = TRUE

\* A new connection: connect returns when the kernel has it, and the task that
\* run submits for it waits for a worker.
flexql_open ==
    /\ Gone /\ server = "closed"
    /\ client' = "idle" /\ server' = "queued"
    /\ unsent' = <<>> /\ accC' = <<>> /\ error_seen' = FALSE /\ got' = {}
    /\ accS' = <<>> /\ reply' = <<>> /\ c2s' = <<>> /\ s2c' = <<>> /\ reset' = FALSE
    /\ UNCHANGED <<call, result, failed, aborted>>

-----------------------------------------------------------------------------
(* Server::handle_client *)

\* A worker takes the connection and calls handle_client.
Serve ==
    /\ server = "queued" /\ server' = "serving"
    /\ UNCHANGED <<clientVars, accS, reply, failed, c2s, s2c, reset, aborted>>

Idle == server = "serving" /\ reply = <<>>

ServerRecv ==
    /\ Idle /\ ~Complete(accS)
    /\ \E n \in 1 .. Len(c2s) :
          /\ accS' = accS \o SubSeq(c2s, 1, n)
          /\ c2s' = SubSeq(c2s, n + 1, Len(c2s))
    /\ UNCHANGED <<clientVars, server, reply, failed, s2c, reset, aborted>>

\* Mutant: an invalid statement is answered without END.
Execute_NoEnd ==
    /\ Idle /\ Complete(accS)
    /\ LET s == accS[1]
       IN  /\ reply' = IF s.kind = "invalid" THEN Halves([call |-> s.call, kind |-> "ERROR"])
                       ELSE Answer(s.call, s.kind)
           /\ failed' = IF s.kind = "invalid" THEN failed \cup {s.call} ELSE failed
    /\ accS' = Rest(accS)
    /\ UNCHANGED <<clientVars, server, c2s, s2c, reset, aborted>>

\* Mutant: a statement is answered with END twice.
Execute_TwoEnds ==
    /\ Idle /\ Complete(accS)
    /\ LET s == accS[1]
       IN  /\ reply' = Answer(s.call, s.kind) \o Answer(s.call, "insert")
           /\ failed' = IF s.kind = "invalid" THEN failed \cup {s.call} ELSE failed
    /\ accS' = Rest(accS)
    /\ UNCHANGED <<clientVars, server, c2s, s2c, reset, aborted>>

Execute ==
    /\ Idle /\ Complete(accS)
    /\ LET s == accS[1]
       IN  /\ reply' = Answer(s.call, s.kind)
           /\ failed' = IF s.kind = "invalid" THEN failed \cup {s.call} ELSE failed
    /\ accS' = Rest(accS)
    /\ UNCHANGED <<clientVars, server, c2s, s2c, reset, aborted>>

ServerSend ==
    /\ server = "serving" /\ reply # <<>>
    /\ reply' = Tail(reply)
    /\ \/ /\ ~Gone /\ Len(s2c) < Capacity
          /\ s2c' = Append(s2c, Head(reply)) /\ UNCHANGED reset
       \/ /\ Gone
          /\ reset' = TRUE /\ UNCHANGED s2c
    /\ UNCHANGED <<clientVars, server, accS, failed, c2s, aborted>>

\* SIGPIPE ends the whole server process.
ServerDies ==
    /\ server = "serving" /\ reply # <<>> /\ Gone /\ reset
    /\ server' = "piped"
    /\ UNCHANGED <<clientVars, accS, reply, failed, c2s, s2c, reset, aborted>>

\* An uncaught exception in this or another worker ends the process.
Crash ==
    /\ ~Ended /\ server' = "dead"
    /\ UNCHANGED <<clientVars, accS, reply, failed, c2s, s2c, reset, aborted>>

\* Mutant: the end of the stream is only noticed between statements.
ServerRecvEnd_Aligned ==
    /\ Idle /\ accS = <<>>
    /\ Gone /\ c2s = <<>>
    /\ server' = "closed"
    /\ UNCHANGED <<clientVars, accS, reply, failed, c2s, s2c, reset, aborted>>

\* recv returns 0 at the end of the stream, or an error after a reset: the
\* handler closes its side and the worker is free again.
ServerRecvEnd ==
    /\ Idle /\ ~Complete(accS)
    /\ Gone /\ (c2s = <<>> \/ reset)
    /\ server' = "closed"
    /\ UNCHANGED <<clientVars, accS, reply, failed, c2s, s2c, reset, aborted>>

ServerStep == ServerRecv \/ Execute \/ ServerSend \/ ServerDies \/ ServerRecvEnd

ClientStep == Send \/ ReadLine \/ Recv \/ SendFails \/ RecvFails

Next ==
    \/ \E kinds \in Batches : flexql_exec(kinds)
    \/ flexql_close \/ Abort \/ flexql_open \/ Serve \/ Crash
    \/ ClientStep \/ ServerStep

Spec == Init /\ [][Next]_vars

\* The handler's thread and the thread in flexql_exec are scheduled.  Nothing
\* makes a worker free for a connection that is queued.
FairSpec == Spec /\ WF_vars(ClientStep) /\ WF_vars(ServerStep)

-----------------------------------------------------------------------------
(* Properties *)

\* The lines that flexql_exec reads answer the call it is in, never an earlier
\* one.
OwnReplies == got \subseteq {call}

\* When flexql_exec has returned FLEXQL_OK, the server has accepted every
\* statement of the call: none was refused and none is still on its way.
OkMeansDone ==
    client = "idle" /\ result = "ok" =>
        /\ call \notin failed
        /\ \A q \in {c2s, accS} : \A i \in 1 .. Len(q) : q[i].call # call

\* A client that closes its connection between calls does not end the server
\* with SIGPIPE; only one that is killed in a call may.
ServerSurvives == server = "piped" => aborted

\* A call on a connection that a worker serves returns, unless the server ends;
\* and it returns even then once the text has been sent (flexql.cpp:52-88).
ExecReturns ==
    /\ [](server # "dead") => (InCall /\ server = "serving" ~> client \in {"idle", "closed"})
    /\ client = "reading" /\ server # "queued" ~> client \in {"idle", "closed"}

\* When the client has gone, handle_client closes its side and returns, also when
\* the last statement was cut off, and its worker can serve another connection;
\* unless the server process ends first (server.cpp:57-86).
HandlerReturns ==
    [](server \notin {"piped", "dead"}) => (Gone /\ server = "serving" ~> server = "closed")
=============================================================================

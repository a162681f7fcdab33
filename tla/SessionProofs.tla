--------------------------- MODULE SessionProofs ---------------------------
(***************************************************************************)
(* Proofs about Session when each call of flexql_exec sends one statement: *)
(* for any number of calls and any size of the socket buffers, with TCP    *)
(* cutting the streams anywhere, calls and answers stay in step.           *)
(***************************************************************************)
EXTENDS Session, SequenceLemmas

Lines == [call : Nat, kind : {"ROW", "ERROR", "END"}]

\* Statements of the calls up to k.
Sent(k) == [call : 0 .. k, kind : Kinds]

Types ==
    /\ client \in {"idle", "sending", "reading", "closed", "killed"} /\ call \in Nat
    /\ unsent \in Seq(Sent(call)) /\ c2s \in Seq(Sent(call)) /\ accS \in Seq(Sent(call))
    /\ accC \in Seq(Lines) /\ s2c \in Seq(Lines) /\ reply \in Seq(Lines)
    /\ client = "sending" => unsent # <<>>
    /\ failed \subseteq 0 .. call

\* The server has nothing to read or to send.
Drained == c2s = <<>> /\ accS = <<>> /\ reply = <<>>

\* Between calls nothing is in flight.
Waiting == client = "idle" /\ Drained /\ unsent = <<>> /\ s2c = <<>> /\ accC = <<>>

\* The statement of the call is on its way and nothing comes back.
Asking ==
    /\ client = IF unsent = <<>> THEN "reading" ELSE "sending"
    /\ \E kind \in Kinds : Joined(accS, c2s, unsent) = Halves([call |-> call, kind |-> kind])
    /\ reply = <<>> /\ s2c = <<>> /\ accC = <<>>
    /\ call \notin failed

\* The answer, or what is left of it after its first line, is on its way and
\* nothing goes out.
Answering ==
    /\ client = "reading" /\ unsent = <<>> /\ c2s = <<>> /\ accS = <<>>
    /\ \E kind \in Kinds :
          /\ Joined(accC, s2c, reply) = Answer(call, kind)
          /\ call \in failed => error_seen \/ kind = "invalid"

\* A call has failed, or killed the client, because the server has ended; no line
\* arrives any more.
Broken ==
    /\ ~Gone /\ Ended /\ s2c = <<>> /\ Len(accC) < 2
    /\ client = "idle" => result # "ok"

\* The client has gone: between calls, after the server, or in a call.
Left == Gone /\ (Drained \/ Ended \/ (aborted /\ result # "ok"))

Phase == Waiting \/ Asking \/ Answering \/ Broken \/ Left

Results ==
    /\ InCall => result = "none"
    /\ result = "ok" => call \notin failed

IInv == Types /\ Phase /\ Results /\ OwnReplies /\ ServerSurvives

-----------------------------------------------------------------------------
(* Messages *)

\* handle_client answers a statement with END alone, or with one line before it.
LEMMA AnswerIs ==
    ASSUME NEW k \in Nat
    PROVE  LET end == [call |-> k, kind |-> "END"]
               row == [call |-> k, kind |-> "ROW"]
               error == [call |-> k, kind |-> "ERROR"]
           IN  /\ Answer(k, "insert") = <<end, end>>
               /\ Answer(k, "select") = <<row, row, end, end>>
               /\ Answer(k, "invalid") = <<error, error, end, end>>
<1> DEFINE end == [call |-> k, kind |-> "END"]
<1>1. end \in Lines
  BY DEF Lines
<1>2. Answer(k, "insert") = <<>> \o <<end, end>> /\ <<>> \o <<end, end>> = <<end, end>>
  BY <1>1, ConcatEmptySeq DEF Answer, Halves
<1>3. ASSUME NEW x \in Lines PROVE <<x, x>> \o <<end, end>> = <<x, x, end, end>>
  BY <1>1, TwoMessages
<1>4. [call |-> k, kind |-> "ROW"] \in Lines /\ [call |-> k, kind |-> "ERROR"] \in Lines
  BY DEF Lines
<1> QED
  BY <1>2, <1>3, <1>4 DEF Answer, Halves

\* The lines of an answer are of the call of its statement.
LEMMA AnswerType ==
    ASSUME NEW k \in Nat, NEW kind \in Kinds
    PROVE  Answer(k, kind) \in Seq(Lines) /\ Answer(k, kind) # <<>>
<1> DEFINE line(l) == [call |-> k, kind |-> l]
<1>1. line("ROW") \in Lines /\ line("ERROR") \in Lines /\ line("END") \in Lines
  BY DEF Lines
<1>2. Answer(k, kind) \in {<<line("END"), line("END")>>,
                           <<line("ROW"), line("ROW"), line("END"), line("END")>>,
                           <<line("ERROR"), line("ERROR"), line("END"), line("END")>>}
  BY AnswerIs DEF Kinds
<1> HIDE DEF line
<1>3. <<line("END"), line("END")>> \in Seq(Lines)
  BY <1>1, TwoMessages
<1>4. <<line("ROW"), line("ROW"), line("END"), line("END")>> \in Seq(Lines)
  BY <1>1, TwoMessages
<1>5. <<line("ERROR"), line("ERROR"), line("END"), line("END")>> \in Seq(Lines)
  BY <1>1, TwoMessages
<1>6. Answer(k, kind) # <<>>
  BY <1>2
<1> QED
  BY <1>2, <1>3, <1>4, <1>5, <1>6

\* The text of a call with one statement is that statement.
LEMMA TextIs ==
    ASSUME MaxBatch = 1, NEW k \in Nat, NEW kinds \in Batches
    PROVE  /\ kinds[1] \in Kinds
           /\ Text(k, kinds) = Halves([call |-> k, kind |-> kinds[1]])
           /\ Text(k, kinds) \in Seq(Sent(k)) /\ Text(k, kinds) # <<>>
<1>1. kinds \in [1 .. 1 -> Kinds]
  BY DEF Batches
<1>2. kinds[1] \in Kinds /\ Len(kinds) = 1
  <2>1. kinds \in Seq(Kinds) /\ DOMAIN kinds = 1 .. 1
    BY <1>1, SeqDef
  <2>2. Len(kinds) \in Nat /\ 1 .. Len(kinds) = 1 .. 1
    BY <2>1, LenProperties
  <2> QED
    BY <1>1, <2>2
<1> DEFINE m == [call |-> k, kind |-> kinds[1]]
<1>3. Text(k, kinds) = [i \in 1 .. 2 |-> m]
  <2>1. \A i \in 1 .. 2 : (i + 1) \div 2 = 1
    OBVIOUS
  <2> QED
    BY <1>2, <2>1 DEF Text
<1>4. m \in Sent(k)
  BY <1>2 DEF Sent
<1> HIDE DEF m
<1>5. [i \in 1 .. 2 |-> m] = <<m, m>> /\ <<m, m>> \in Seq(Sent(k)) /\ <<m, m>> # <<>>
  BY <1>4
<1> QED
  BY <1>2, <1>3, <1>5 DEF m, Halves

\* A statement of an earlier call is one of the calls up to now.
LEMMA SentGrows ==
    ASSUME NEW k \in Nat, NEW s \in Seq(Sent(k))
    PROVE  s \in Seq(Sent(k + 1))
<1>1. Sent(k) \subseteq Sent(k + 1)
  BY DEF Sent
<1> QED
  BY <1>1, SeqMonotonic

-----------------------------------------------------------------------------
(* Each step keeps the invariant *)

\* flexql_exec starts between calls, or after the server has ended.
LEMMA ExecKeeps ==
    ASSUME MaxBatch = 1, IInv, NEW kinds \in Batches, flexql_exec(kinds)
    PROVE  IInv'
<1> DEFINE text == Text(call + 1, kinds)
           m == [call |-> call + 1, kind |-> kinds[1]]
<1>1. /\ client = "idle" /\ client' = "sending" /\ call' = call + 1 /\ unsent' = text
      /\ result' = "none" /\ got' = {}
      /\ UNCHANGED <<accC, server, accS, reply, failed, c2s, s2c, aborted>>
  BY DEF flexql_exec, serverVars
<1>2. call \in Nat /\ call + 1 \in Nat
  BY DEF IInv, Types
<1>3. kinds[1] \in Kinds /\ text = Halves(m) /\ text \in Seq(Sent(call + 1)) /\ text # <<>>
  BY <1>2, TextIs
<1>4. Types'
  <2>1. accS \in Seq(Sent(call + 1)) /\ c2s \in Seq(Sent(call + 1))
    BY <1>2, SentGrows DEF IInv, Types
  <2>2. failed \subseteq 0 .. call + 1
    BY <1>2 DEF IInv, Types
  <2> QED
    BY <1>1, <1>2, <1>3, <2>1, <2>2 DEF IInv, Types
<1>5. Phase'
  <2>1. CASE Waiting
    <3>1. Joined(<<>>, <<>>, text) = text
      BY <1>3, JoinedProperties
    <3>2. call + 1 \notin failed
      BY <1>2 DEF IInv, Types
    <3>3. Joined(accS', c2s', unsent') = Halves(m)
      BY <1>1, <1>3, <2>1, <3>1 DEF Waiting, Drained
    <3> HIDE DEF text, m
    <3>4. Asking'
      <4>1. m = [call |-> call', kind |-> kinds[1]]
        BY <1>1 DEF m
      <4> QED
        BY <1>1, <1>3, <2>1, <3>2, <3>3, <4>1 DEF Waiting, Drained, Asking
    <3> QED
      BY <3>4 DEF Phase
  <2>2. CASE Broken
    BY <1>1, <2>2 DEF Phase, Broken, Gone, Ended
  <2> QED
    BY <1>1, <2>1, <2>2 DEF IInv, Phase, Asking, Answering, Left, Gone
<1>6. Results' /\ OwnReplies' /\ ServerSurvives'
  BY <1>1 DEF IInv, Results, InCall, OwnReplies, ServerSurvives
<1> QED
  BY <1>4, <1>5, <1>6 DEF IInv

\* A send hands over the next half of the statement.
LEMMA SendKeeps ==
    ASSUME IInv, Send
    PROVE  IInv'
<1> USE DEF IInv
<1>1. /\ client = "sending" /\ c2s' = Append(c2s, Head(unsent)) /\ unsent' = Tail(unsent)
      /\ client' = IF Len(unsent) = 1 THEN "reading" ELSE "sending"
      /\ UNCHANGED <<call, accC, error_seen, result, got, server, accS, reply, failed, s2c, reset, aborted>>
  BY DEF Send, serverVars
<1>2. unsent # <<>> /\ unsent \in Seq(Sent(call)) /\ c2s \in Seq(Sent(call)) /\ accS \in Seq(Sent(call))
  BY <1>1 DEF Types
<1>3. HandedOver(c2s, unsent, c2s', unsent')
  BY <1>1, <1>2 DEF HandedOver
<1>4. /\ c2s' \in Seq(Sent(call)) /\ unsent' \in Seq(Sent(call))
      /\ unsent' = <<>> <=> Len(unsent) = 1
      /\ Joined(accS, c2s', unsent') = Joined(accS, c2s, unsent)
  BY <1>2, <1>3, HandedProperties
<1>5. Types'
  BY <1>1, <1>4 DEF Types
<1>6. Phase'
  <2>1. CASE Asking
    <3>1. PICK kind \in Kinds : Joined(accS, c2s, unsent) = Halves([call |-> call, kind |-> kind])
      BY <2>1 DEF Asking
    <3>2. Joined(accS', c2s', unsent') = Halves([call |-> call', kind |-> kind])
      BY <1>1, <1>4, <3>1
    <3>3. client' = IF unsent' = <<>> THEN "reading" ELSE "sending"
      BY <1>1, <1>4
    <3>4. reply' = <<>> /\ s2c' = <<>> /\ accC' = <<>> /\ call' \notin failed'
      BY <1>1, <2>1 DEF Asking
    <3> QED
      BY <3>2, <3>3, <3>4 DEF Asking, Phase
  <2>2. CASE Broken
    BY <1>1, <2>2 DEF Broken, Gone, Ended, Phase
  <2> QED
    BY <1>1, <2>1, <2>2 DEF Phase, Waiting, Answering, Left, Gone
<1>7. Results' /\ OwnReplies' /\ ServerSurvives'
  BY <1>1 DEF Results, InCall, OwnReplies, ServerSurvives
<1> QED
  BY <1>5, <1>6, <1>7

\* A recv of flexql_exec takes any part of the answer that is in flight.
LEMMA RecvKeeps ==
    ASSUME IInv, Recv
    PROVE  IInv'
<1> USE DEF IInv
<1>1. /\ client = "reading" /\ Got(accC, s2c, accC', s2c')
      /\ UNCHANGED <<client, call, unsent, error_seen, result, got, server, accS, reply, failed, c2s, aborted>>
  BY DEF Recv, Got, serverVars
<1>2. /\ accC' \in Seq(Lines) /\ s2c' \in Seq(Lines) /\ s2c # <<>>
      /\ Joined(accC', s2c', reply) = Joined(accC, s2c, reply)
  BY <1>1, GotProperties DEF Types
<1>3. Types'
  BY <1>1, <1>2 DEF Types
<1>4. Answering
  BY <1>1, <1>2 DEF Phase, Waiting, Asking, Broken, Left, Gone
<1>5. Answering'
  <2>1. PICK kind \in Kinds : /\ Joined(accC, s2c, reply) = Answer(call, kind)
                              /\ call \in failed => error_seen \/ kind = "invalid"
    BY <1>4 DEF Answering
  <2>2. Joined(accC', s2c', reply') = Answer(call', kind)
    BY <1>1, <1>2, <2>1
  <2> QED
    BY <1>1, <1>4, <2>1, <2>2 DEF Answering
<1>6. Results' /\ OwnReplies' /\ ServerSurvives'
  BY <1>1 DEF Results, InCall, OwnReplies, ServerSurvives
<1> QED
  BY <1>3, <1>5, <1>6 DEF Phase

\* A complete line is of the current call; END is the last.
LEMMA ReadLineKeeps ==
    ASSUME IInv, ReadLine
    PROVE  IInv'
<1> USE DEF IInv
<1>1. /\ client = "reading" /\ Taken(accC, accC') /\ got' = got \cup {accC[1].call}
      /\ UNCHANGED <<call, unsent, server, accS, reply, failed, c2s, s2c, aborted>>
  BY DEF ReadLine, Complete, Rest, Taken, serverVars
<1>2. Answering
  <2>1. Len(accC) >= 2 /\ accC # <<>>
    BY <1>1, EmptySeq DEF Taken
  <2> QED
    BY <1>1, <2>1, LenProperties DEF Phase, Waiting, Asking, Broken, Left, Gone, Types
<1>3. PICK kind \in Kinds : /\ Joined(accC, s2c, reply) = Answer(call, kind)
                            /\ call \in failed => error_seen \/ kind = "invalid"
  BY <1>2 DEF Answering
<1>4. /\ accC' \in Seq(Lines) /\ accC[1] = Answer(call, kind)[1]
      /\ Taken(Answer(call, kind), Joined(accC', s2c, reply))
  BY <1>1, <1>3, TakenProperties DEF Types
<1> DEFINE line(l) == [call |-> call, kind |-> l]
<1>5. call \in Nat /\ line("ROW") \in Lines /\ line("ERROR") \in Lines /\ line("END") \in Lines
  BY DEF Types, Lines
<1>6. CASE kind = "insert"
  <2>1. Answer(call, kind) = <<line("END"), line("END")>>
    BY <1>5, <1>6, AnswerIs
  <2>2. Joined(accC', s2c, reply) = <<>>
    <3> HIDE DEF line
    <3> QED
      BY <1>4, <1>5, <2>1, RestOfMessages
  <2>3. accC' = <<>> /\ s2c = <<>> /\ reply = <<>>
    BY <1>4, <2>2, JoinedProperties DEF Types
  <2>4. accC[1].call = call /\ accC[1].kind = "END"
    BY <1>4, <2>1
  <2>5. client' = "idle" /\ result' = IF error_seen THEN "error" ELSE "ok"
    BY <2>4 DEF ReadLine
  <2>6. Waiting'
    BY <1>1, <1>2, <2>3, <2>5 DEF Waiting, Drained, Answering
  <2>7. result' = "ok" => call \notin failed
    BY <1>3, <1>6, <2>5
  <2>8. Types'
    BY <1>1, <1>4, <2>5 DEF Types
  <2> QED
    BY <1>1, <2>4, <2>5, <2>6, <2>7, <2>8 DEF Phase, Results, InCall, OwnReplies, ServerSurvives
<1>7. CASE kind # "insert"
  <2>1. PICK l \in {"ROW", "ERROR"} :
            /\ Answer(call, kind) = <<line(l), line(l), line("END"), line("END")>>
            /\ kind = "invalid" => l = "ERROR"
    <3>1. CASE kind = "select"
      BY <1>5, <3>1, AnswerIs
    <3>2. CASE kind = "invalid"
      BY <1>5, <3>2, AnswerIs
    <3> QED
      BY <1>7, <3>1, <3>2 DEF Kinds
  <2>2. accC[1].call = call /\ accC[1].kind = l
    BY <1>4, <2>1
  <2>3. Joined(accC', s2c, reply) = <<line("END"), line("END")>>
    <3> DEFINE first == line(l)
               end == line("END")
               left == Joined(accC', s2c, reply)
    <3>1. first \in Lines /\ end \in Lines /\ Taken(<<first, first, end, end>>, left)
      BY <1>4, <1>5, <2>1
    <3> HIDE DEF first, end, left
    <3>2. left = <<end, end>>
      BY <3>1, RestOfMessages, Zenon
    <3> QED
      BY <3>2 DEF first, end, left
  <2>4. Joined(accC', s2c', reply') = Answer(call', "insert")
    BY <1>1, <1>5, <2>3, AnswerIs
  <2>5. UNCHANGED <<client, result>> /\ error_seen' = (error_seen \/ l = "ERROR")
    BY <2>1, <2>2 DEF ReadLine
  <2>6. call' \in failed' => error_seen'
    BY <1>1, <1>3, <2>1, <2>5
  <2>7. Answering'
    <3>1. "insert" \in Kinds
      BY DEF Kinds
    <3> QED
      BY <1>1, <1>2, <2>4, <2>5, <2>6, <3>1 DEF Answering
  <2>8. Types'
    BY <1>1, <1>4, <2>5 DEF Types
  <2> QED
    BY <1>1, <2>2, <2>5, <2>7, <2>8 DEF Phase, Results, InCall, OwnReplies, ServerSurvives
<1> QED
  BY <1>6, <1>7

\* A call whose send or recv fails leaves less than a line behind, and the server
\* has ended.
LEMMA FailKeeps ==
    ASSUME IInv, SendFails \/ RecvFails
    PROVE  IInv'
<1> USE DEF IInv
<1>1. /\ Ended /\ s2c' = <<>> /\ unsent' \in {<<>>, unsent}
      /\ (client' = "idle" /\ result' = "error") \/ (client' = "killed" /\ result' = result)
      /\ client \in {"sending", "reading"} /\ (client = "reading" => ~(Len(accC) >= 2))
      /\ UNCHANGED <<call, accC, got, server, accS, reply, failed, c2s, aborted>>
  BY DEF SendFails, RecvFails, Complete, serverVars
<1>2. Types'
  <2>1. <<>> \in Seq(Sent(call)) /\ <<>> \in Seq(Lines)
    BY EmptySeq
  <2> QED
    BY <1>1, <2>1 DEF Types
<1>3. Len(accC) < 2
  <2>1. Len(accC) \in Nat /\ Len(<<>>) = 0
    BY LenProperties, EmptySeq DEF Types
  <2>2. CASE client = "reading"
    BY <1>1, <2>1, <2>2
  <2>3. CASE client = "sending"
    BY <2>1, <2>3 DEF Phase, Waiting, Asking, Answering, Broken, Left, Gone
  <2> QED
    BY <1>1, <2>2, <2>3
<1>4. Broken'
  BY <1>1, <1>3 DEF Broken, Gone, Ended
<1> QED
  BY <1>1, <1>2, <1>4 DEF Phase, Results, InCall, OwnReplies, ServerSurvives

\* A client that closes between calls leaves the server nothing to send, one
\* that is killed in a call may.
LEMMA CloseKeeps ==
    ASSUME IInv, flexql_close \/ Abort
    PROVE  IInv'
<1> USE DEF IInv
<1>1. /\ client' = "closed" /\ unsent' = <<>> /\ s2c' = <<>>
      /\ UNCHANGED <<call, accC, result, got, server, accS, reply, failed, c2s>>
      /\ (client = "idle" /\ aborted' = aborted) \/ (client \in {"sending", "reading"} /\ aborted')
  BY DEF flexql_close, Abort, InCall, Close, serverVars
<1>2. Types'
  <2>1. <<>> \in Seq(Sent(call)) /\ <<>> \in Seq(Lines)
    BY EmptySeq
  <2> QED
    BY <1>1, <2>1 DEF Types
<1>3. Left'
  <2>1. CASE client = "idle"
    <3>1. Waiting \/ Broken
      BY <2>1 DEF Phase, Waiting, Asking, Answering, Broken, Left, Gone
    <3> QED
      BY <1>1, <3>1 DEF Waiting, Broken, Left, Drained, Gone, Ended
  <2>2. CASE client \in {"sending", "reading"}
    BY <1>1, <2>2 DEF Left, Gone, Results, InCall
  <2> QED
    BY <1>1, <2>1, <2>2
<1> QED
  BY <1>1, <1>2, <1>3 DEF Phase, Results, InCall, OwnReplies, ServerSurvives

\* A new connection starts with empty streams and accumulators.
LEMMA OpenKeeps ==
    ASSUME IInv, flexql_open
    PROVE  IInv'
<1> USE DEF IInv
<1>1. /\ client' = "idle" /\ server' = "queued" /\ got' = {}
      /\ unsent' = <<>> /\ accC' = <<>> /\ accS' = <<>> /\ reply' = <<>> /\ c2s' = <<>> /\ s2c' = <<>>
      /\ UNCHANGED <<call, result, failed, aborted>>
  BY DEF flexql_open
<1>2. <<>> \in Seq(Sent(call)) /\ <<>> \in Seq(Lines)
  BY EmptySeq
<1>3. Types'
  BY <1>1, <1>2 DEF Types
<1>4. Waiting'
  BY <1>1 DEF Waiting, Drained
<1> QED
  BY <1>1, <1>3, <1>4 DEF Phase, Results, InCall, OwnReplies, ServerSurvives

\* A recv of handle_client takes any part of the statement that is in flight.
LEMMA ServerRecvKeeps ==
    ASSUME IInv, ServerRecv
    PROVE  IInv'
<1> USE DEF IInv
<1>1. /\ server = "serving" /\ Got(accS, c2s, accS', c2s')
      /\ UNCHANGED <<client, call, unsent, accC, error_seen, result, got, server, reply, failed, s2c, aborted>>
  BY DEF ServerRecv, Idle, Got, clientVars
<1>2. /\ accS' \in Seq(Sent(call)) /\ c2s' \in Seq(Sent(call)) /\ c2s # <<>>
      /\ Joined(accS', c2s', unsent) = Joined(accS, c2s, unsent)
  BY <1>1, GotProperties DEF Types
<1>3. Types'
  BY <1>1, <1>2 DEF Types
<1>4. Phase'
  <2>1. CASE Asking
    <3>1. PICK kind \in Kinds : Joined(accS, c2s, unsent) = Halves([call |-> call, kind |-> kind])
      BY <2>1 DEF Asking
    <3>2. Joined(accS', c2s', unsent') = Halves([call |-> call', kind |-> kind])
      BY <1>1, <1>2, <3>1
    <3> QED
      BY <1>1, <2>1, <3>2 DEF Asking, Phase
  <2>2. CASE Left
    BY <1>1, <1>2, <2>2 DEF Left, Drained, Gone, Ended, Phase
  <2> QED
    BY <1>1, <1>2, <2>1, <2>2 DEF Phase, Waiting, Drained, Answering, Broken, Ended
<1> QED
  BY <1>1, <1>3, <1>4 DEF Results, InCall, OwnReplies, ServerSurvives

\* handle_client answers the statement it has received completely.
LEMMA ExecuteKeeps ==
    ASSUME IInv, Execute
    PROVE  IInv'
<1> USE DEF IInv
<1> DEFINE st == accS[1]
<1>1. /\ server = "serving" /\ reply = <<>> /\ Taken(accS, accS') /\ reply' = Answer(st.call, st.kind)
      /\ failed' = IF st.kind = "invalid" THEN failed \cup {st.call} ELSE failed
      /\ UNCHANGED <<client, call, unsent, accC, error_seen, result, got, server, c2s, s2c, aborted>>
  BY DEF Execute, Idle, Complete, Rest, Taken, clientVars
<1>2. /\ accS' \in Seq(Sent(call)) /\ st \in Sent(call) /\ st = Joined(accS, c2s, unsent)[1]
      /\ Taken(Joined(accS, c2s, unsent), Joined(accS', c2s, unsent))
  BY <1>1, TakenProperties DEF Types
<1>3. call \in Nat /\ st.call \in 0 .. call /\ st.call \in Nat /\ st.kind \in Kinds
  BY <1>2 DEF Types, Sent
<1>4. accS # <<>>
  BY <1>1, EmptySeq DEF Taken
<1> HIDE DEF st
<1>5. Types'
  <2>1. Answer(st.call, st.kind) \in Seq(Lines)
    BY <1>3, AnswerType
  <2> QED
    BY <1>1, <1>2, <1>3, <2>1 DEF Types
<1>6. CASE Asking
  <2>1. PICK kind \in Kinds : Joined(accS, c2s, unsent) = Halves([call |-> call, kind |-> kind])
    BY <1>6 DEF Asking
  <2> DEFINE m == [call |-> call, kind |-> kind]
  <2>2. Joined(accS, c2s, unsent) = <<m, m>>
    BY <2>1 DEF Halves
  <2>3. st = m
    BY <1>2, <2>2
  <2>4. m \in Sent(call)
    BY <1>3 DEF Sent
  <2>5. Joined(accS', c2s, unsent) = <<>>
    <3> HIDE DEF m
    <3> QED
      BY <1>2, <2>2, <2>4, RestOfMessages
  <2>6. accS' = <<>> /\ c2s = <<>> /\ unsent = <<>>
    BY <1>2, <2>5, JoinedProperties DEF Types
  <2>7. Joined(accC', s2c', reply') = Answer(call', kind)
    <3>1. Answer(call, kind) \in Seq(Lines)
      BY <1>3, AnswerType
    <3>2. Joined(<<>>, <<>>, Answer(call, kind)) = Answer(call, kind)
      BY <3>1, JoinedProperties
    <3> QED
      BY <1>1, <1>6, <2>3, <3>2 DEF Asking
  <2>8. call' \in failed' => kind = "invalid"
    BY <1>1, <1>6, <2>3 DEF Asking
  <2>9. Answering'
    BY <1>1, <1>6, <2>6, <2>7, <2>8 DEF Asking, Answering
  <2>10. Results'
    BY <1>1, <1>6, <2>6 DEF Asking, Results, InCall
  <2> QED
    BY <1>1, <1>5, <2>9, <2>10 DEF Phase, OwnReplies, ServerSurvives
<1>7. CASE Left
  <2>1. Left' /\ result # "ok" /\ Gone
    BY <1>1, <1>4, <1>7 DEF Left, Drained, Gone, Ended
  <2> QED
    BY <1>1, <1>5, <2>1 DEF Phase, Results, InCall, OwnReplies, ServerSurvives, Gone
<1> QED
  BY <1>1, <1>4, <1>6, <1>7 DEF Phase, Waiting, Drained, Answering, Broken, Ended

\* A send of handle_client hands over the next half of the answer.
LEMMA ServerSendKeeps ==
    ASSUME IInv, ServerSend
    PROVE  IInv'
<1> USE DEF IInv
<1>1. /\ server = "serving" /\ reply # <<>> /\ reply' = Tail(reply)
      /\ UNCHANGED <<client, call, unsent, accC, error_seen, result, got, server, accS, failed, c2s, aborted>>
  BY DEF ServerSend, clientVars
<1>2. CASE Gone
  <2>1. UNCHANGED s2c
    BY <1>2 DEF ServerSend
  <2>2. Tail(reply) \in Seq(Lines)
    BY <1>1, HeadTailProperties DEF Types
  <2>3. Left'
    BY <1>1, <1>2 DEF Phase, Waiting, Asking, Answering, Broken, Left, Drained, Gone, Ended
  <2>4. Types'
    BY <1>1, <2>1, <2>2 DEF Types
  <2> QED
    BY <1>1, <2>3, <2>4 DEF Phase, Results, InCall, OwnReplies, ServerSurvives
<1>3. CASE ~Gone
  <2>1. HandedOver(s2c, reply, s2c', reply')
    BY <1>1, <1>3 DEF ServerSend, HandedOver
  <2>2. /\ s2c' \in Seq(Lines) /\ reply' \in Seq(Lines)
        /\ Joined(accC, s2c', reply') = Joined(accC, s2c, reply)
    BY <2>1, HandedProperties DEF Types
  <2>3. Answering
    BY <1>1, <1>3 DEF Phase, Waiting, Drained, Asking, Broken, Left, Ended
  <2>4. PICK kind \in Kinds : /\ Joined(accC, s2c, reply) = Answer(call, kind)
                              /\ call \in failed => error_seen \/ kind = "invalid"
    BY <2>3 DEF Answering
  <2>5. Joined(accC', s2c', reply') = Answer(call', kind)
    BY <1>1, <2>2, <2>4
  <2>6. Answering'
    BY <1>1, <2>3, <2>4, <2>5 DEF Answering
  <2>7. Types'
    BY <1>1, <2>2 DEF Types
  <2> QED
    BY <1>1, <2>6, <2>7 DEF Phase, Results, InCall, OwnReplies, ServerSurvives
<1> QED
  BY <1>2, <1>3

\* A worker takes the connection, or the server ends: by SIGPIPE only if a client
\* was killed in a call.
LEMMA ServerKeeps ==
    ASSUME IInv, Serve \/ ServerDies \/ Crash \/ ServerRecvEnd
    PROVE  IInv'
<1> USE DEF IInv
<1>1. /\ ~Ended
      /\ server' \in {"serving", "piped", "dead", "closed"}
      /\ server' = "piped" => Gone /\ reply # <<>>
      /\ UNCHANGED <<client, call, unsent, accC, error_seen, result, got, accS, reply, failed, c2s, s2c, aborted>>
  BY DEF Serve, ServerDies, Crash, ServerRecvEnd, Idle, Ended, clientVars
<1>2. Types'
  BY <1>1 DEF Types
<1>3. Phase'
  BY <1>1 DEF Phase, Waiting, Drained, Asking, Answering, Broken, Left, Gone
<1>4. ServerSurvives'
  BY <1>1 DEF Phase, Waiting, Drained, Asking, Answering, Broken, Left, Gone, ServerSurvives
<1> QED
  BY <1>1, <1>2, <1>3, <1>4 DEF Results, InCall, OwnReplies

-----------------------------------------------------------------------------
(* The theorems *)

\* Calls of one statement and their answers stay in step, whatever TCP, the
\* buffers, crashes of the server and killed clients do.
THEOREM Invariance ==
    ASSUME MaxBatch = 1
    PROVE  Spec => []IInv
<1>1. Init => IInv
  <2> SUFFICES ASSUME Init PROVE IInv
    OBVIOUS
  <2>1. <<>> \in Seq(Sent(call)) /\ <<>> \in Seq(Lines)
    BY EmptySeq
  <2>2. Types
    BY <2>1 DEF Init, Types
  <2> QED
    BY <2>2 DEF Init, IInv, Phase, Waiting, Drained, Results, InCall, OwnReplies, ServerSurvives
<1>2. IInv /\ [Next]_vars => IInv'
  <2> SUFFICES ASSUME IInv, [Next]_vars PROVE IInv'
    OBVIOUS
  <2>1. ASSUME NEW kinds \in Batches, flexql_exec(kinds) PROVE IInv'
    BY <2>1, ExecKeeps
  <2>2. CASE flexql_close \/ Abort
    BY <2>2, CloseKeeps
  <2>3. CASE flexql_open
    BY <2>3, OpenKeeps
  <2>4. CASE ClientStep
    BY <2>4, SendKeeps, ReadLineKeeps, RecvKeeps, FailKeeps DEF ClientStep
  <2>5. CASE ServerStep
    BY <2>5, ServerRecvKeeps, ExecuteKeeps, ServerSendKeeps, ServerKeeps DEF ServerStep
  <2>6. CASE Serve \/ Crash
    BY <2>6, ServerKeeps
  <2>7. CASE UNCHANGED vars
    BY <2>7 DEF vars, clientVars, serverVars, IInv, Types, Phase, Waiting, Drained, Asking, Answering,
                Broken, Left, Gone, Ended, Results, InCall, OwnReplies, ServerSurvives
  <2> QED
    BY <2>1, <2>2, <2>3, <2>4, <2>5, <2>6, <2>7 DEF Next
<1> QED
  BY <1>1, <1>2, PTL DEF Spec

\* With one statement in a call, the lines that flexql_exec reads answer that
\* call (flexql.cpp:64).
THEOREM AnswersAreOwn ==
    ASSUME MaxBatch = 1
    PROVE  Spec => []OwnReplies
<1>1. IInv => OwnReplies
  BY DEF IInv
<1> QED
  BY <1>1, Invariance, PTL

\* With one statement in a call, FLEXQL_OK means that the server has accepted it.
THEOREM OkIsFinal ==
    ASSUME MaxBatch = 1
    PROVE  Spec => []OkMeansDone
<1>1. IInv => OkMeansDone
  <2> SUFFICES ASSUME IInv, client = "idle", result = "ok" PROVE OkMeansDone
    BY DEF OkMeansDone
  <2>1. call \notin failed
    BY DEF IInv, Results
  <2>2. c2s = <<>> /\ accS = <<>>
    BY DEF IInv, Phase, Waiting, Drained, Asking, Answering, Broken, Left, Gone
  <2>3. Len(<<>>) = 0
    BY EmptySeq
  <2> QED
    BY <2>1, <2>2, <2>3 DEF OkMeansDone
<1> QED
  BY <1>1, Invariance, PTL

\* With one statement in a call, a client that closes between calls does not end
\* the server with SIGPIPE.
THEOREM ClosingIsHarmless ==
    ASSUME MaxBatch = 1
    PROVE  Spec => []ServerSurvives
<1>1. IInv => ServerSurvives
  BY DEF IInv
<1> QED
  BY <1>1, Invariance, PTL
=============================================================================

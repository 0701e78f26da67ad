------------------------ MODULE AgentTransportProofs ------------------------
(***************************************************************************)
(* Theorems about the adapters of AgentTransport, for any runs, request    *)
(* ids, bindings, number of retries and amount of babble.                  *)
(***************************************************************************)
EXTENDS AgentTransport, TLAPS

----------------------------------------------------------------------------
(* Types *)

\* The tag of an operation's request ids tells the operation.
Tag(op) == IF op = "observe" THEN "req" ELSE op

Sent == {r \in Requests : r.id[1] = Tag(r.op)}

Lines ==
    {l \in [kind : {"ok", "error", "long", "junk"}, op : Operations \cup {""},
            run : RunIds \cup {"descriptor", ""}, id : Ids, n : Nat] : l.id[1] = Tag(l.op)}

\* An observation is asked for, or asked for again, while one is left.
ObserveLeft(op) == op = "observe" => done < Len(RequestIds)

\* Every message, wherever it is, is a request or a line.
MessagesOK ==
    /\ stdin \in Seq(Sent)
    /\ pipe \in Seq(Lines) /\ buffer \in Seq(Lines)
    /\ net \subseteq Sent
    /\ call # NoCall => call \in Sent /\ ObserveLeft(call.op)
    /\ cur \in 1..Len(Runs) /\ done \in 0..Len(RequestIds) /\ sends \in Nat
    /\ phase = "retry" => /\ last.req.op \in {"reset", "observe"}
                          /\ ObserveLeft(last.req.op)
                          /\ last.req.attempt \in Nat

\* A success was found to bear the identity of its request.
Accepted ==
    last.outcome = "ok" =>
        last.line \in Lines /\ last.req \in Sent /\ SameIdentity(last.line, last.req)

OwnInv == MessagesOK /\ Accepted

----------------------------------------------------------------------------
(* Lemmas about messages *)

\* A channel with nothing in it holds nothing wrong.
LEMMA EmptyChannel == <<>> \in Seq(Sent) /\ <<>> \in Seq(Lines)
OBVIOUS

\* Junk and Foreign are lines.
LEMMA StrayLines == Junk \in Lines /\ Foreign \in Lines
<1>1. <<"", "">> \in Ids /\ <<"", "">>[1] = Tag("")
  BY DEF Ids, Tag
<1> QED
  BY <1>1 DEF Junk, Foreign, Lines

\* What the caller sends is a request of its next operation.
LEMMA PlannedIsRequest ==
    ASSUME MessagesOK, NEW op \in Operations, op \in Planned
    PROVE  /\ NextRequest(op) \in Sent /\ ObserveLeft(op)
           /\ NextRequest(op).op = op /\ NextRequest(op).id = IdOf(op)
           /\ op # "describe" => NextRequest(op).run = Run
<1>1. Run \in RunIds
  BY DEF MessagesOK, Run, RunIds
<1>2. op = "observe" => done + 1 \in DOMAIN RequestIds
  <2>1. op = "observe" => done < Len(RequestIds)
    BY DEF Planned, MessagesOK, ObserveLeft
  <2> QED
    BY <2>1, TransportAssumption DEF MessagesOK
<1>3. IdOf(op) \in Ids /\ IdOf(op)[1] = Tag(op)
  <2>1. CASE op = "describe"
    BY <2>1 DEF IdOf, Tag, Ids
  <2>2. CASE op = "reset" \/ op = "close"
    BY <1>1, <2>2 DEF IdOf, Tag, Ids
  <2>3. CASE op = "observe"
    <3>1. RequestIds[done + 1] \in {RequestIds[i] : i \in DOMAIN RequestIds}
      BY <1>2, <2>3, Zenon
    <3> QED
      BY <2>3, <3>1 DEF IdOf, Tag, Ids
  <2> QED BY <2>1, <2>2, <2>3 DEF Operations
<1>4. (IF phase = "retry" THEN last.req.attempt + 1 ELSE 0) \in Nat
  BY DEF MessagesOK
<1>5. sends + 1 \in Nat
  BY DEF MessagesOK
<1>6. ObserveLeft(op)
  BY <1>2, TransportAssumption DEF MessagesOK, ObserveLeft
<1> QED
  BY <1>1, <1>3, <1>4, <1>5, <1>6 DEF NextRequest, Request, Requests, Sent

\* A line that answers a request bears its name.
LEMMA LineOfRequest ==
    ASSUME NEW req \in Sent, NEW kind \in {"ok", "error", "long", "junk"}
    PROVE  Line(kind, req) \in Lines /\ SameIdentity(Line(kind, req), req)
BY DEF Line, Lines, Sent, Requests, SameIdentity

\* Only a line that bears the request's identity is a success.
LEMMA OkIsIdentified ==
    ASSUME NEW line \in Lines, NEW req, Verdict(line, req) = "ok"
    PROVE  SameIdentity(line, req) /\ line.kind = "ok"
BY DEF Verdict, Lines

\* The identity of a request tells its operation.
LEMMA IdentityTellsAll ==
    ASSUME NEW line \in Lines, NEW req \in Sent, SameIdentity(line, req)
    PROVE  line.op = req.op /\ line.run = req.run /\ line.id = req.id
<1>1. line.run = req.run /\ line.id = req.id
  BY DEF SameIdentity
<1>2. Tag(line.op) = Tag(req.op)
  BY <1>1 DEF Lines, Sent
<1>3. line.op \in Operations \cup {""} /\ req.op \in Operations
  BY DEF Lines, Sent, Requests
<1> QED
  BY <1>1, <1>2, <1>3 DEF Tag, Operations

\* The host answers or reports an error.
LEMMA DispatchAnswers ==
    ASSUME NEW req, req.op \in Operations, NEW raises \in BOOLEAN
    PROVE  Dispatch(req, raises).kind \in {"ok", "error"}
BY DEF Dispatch, Operations

\* What the caller knows of itself, in MessagesOK.
CallerOK ==
    /\ cur \in 1..Len(Runs) /\ done \in 0..Len(RequestIds) /\ sends \in Nat
    /\ phase = "retry" => /\ last.req.op \in {"reset", "observe"}
                          /\ ObserveLeft(last.req.op)
                          /\ last.req.attempt \in Nat

\* What comes back in the end keeps what OwnInv says of the caller.
LEMMA SettleOwn ==
    ASSUME MessagesOK, NEW req \in Sent, ObserveLeft(req.op), NEW outcome, NEW line,
           Settle(req, outcome, line),
           outcome = "ok" => line \in Lines /\ SameIdentity(line, req)
    PROVE  call' = NoCall /\ CallerOK' /\ Accepted'
<1>1. call' = NoCall /\ cur' \in 1..Len(Runs) /\ sends' \in Nat
  BY DEF Settle, MessagesOK
<1>2. last' = [req |-> req, outcome |-> outcome, line |-> line]
  BY DEF Settle
<1>3. req.attempt \in Nat
  BY DEF Sent, Requests
<1>4. done' \in 0..Len(RequestIds)
  BY TransportAssumption, SMTT(60) DEF Settle, MessagesOK, ObserveLeft
<1>5. phase' = "retry" => req.op \in {"reset", "observe"} /\ done' = done
  BY DEF Settle, Retryable
<1> QED
  BY <1>1, <1>2, <1>3, <1>4, <1>5 DEF Accepted, CallerOK, ObserveLeft

----------------------------------------------------------------------------
(* Every success is the answer to its own request *)

LEMMA OwnInit == Init => OwnInv
BY EmptyChannel, TransportAssumption DEF Init, InitPipe, OwnInv, MessagesOK, Accepted

LEMMA OwnStep == OwnInv /\ [Next]_vars => OwnInv'
<1> SUFFICES ASSUME OwnInv, [Next]_vars PROVE OwnInv'
  OBVIOUS
<1> USE DEF OwnInv
<1>1. ASSUME NEW op \in Operations, CallTheDead(op) PROVE OwnInv'
  <2>1. NextRequest(op) \in Sent /\ ObserveLeft(op) /\ NextRequest(op).op = op
    BY <1>1, PlannedIsRequest DEF CallTheDead
  <2>2. Settle(NextRequest(op), IF op = "close" THEN "nothing" ELSE "dead", Junk)
    BY <1>1 DEF CallTheDead
  <2>3. call' = NoCall /\ CallerOK' /\ Accepted'
    BY <2>1, <2>2, SettleOwn
  <2>4. stdin' \in Seq(Sent) /\ pipe' = pipe /\ buffer' = buffer /\ net' = net
    BY <1>1, EmptyChannel DEF CallTheDead, Terminated, pipeVars, hostVars, MessagesOK
  <2> QED
    BY <2>3, <2>4 DEF MessagesOK, CallerOK
<1>2. ASSUME NEW op \in Operations, Send(op) PROVE OwnInv'
  <2>1. NextRequest(op) \in Sent /\ ObserveLeft(op) /\ NextRequest(op).op = op
    BY <1>2, PlannedIsRequest DEF Send
  <2>2. stdin' \in Seq(Sent) /\ pipe' = pipe /\ buffer' = buffer
    <3>1. stdin' = stdin \/ stdin' = Append(stdin, NextRequest(op))
      BY <1>2 DEF Send, WriteLine, pipeVars
    <3>2. stdin \in Seq(Sent)
      BY DEF MessagesOK
    <3>3. stdin' \in Seq(Sent)
      BY <2>1, <3>1, <3>2
    <3> QED
      BY <1>2, <3>3 DEF Send, WriteLine, pipeVars
  <2>3. net' \subseteq Sent
    BY <1>2, <2>1 DEF Send, MessagesOK
  <2> QED
    BY <1>2, <2>1, <2>2, <2>3 DEF Send, runVars, MessagesOK, ObserveLeft, Accepted
<1>3. ASSUME NEW op \in Operations, SendBroken(op) PROVE OwnInv'
  <2>1. NextRequest(op) \in Sent /\ ObserveLeft(op) /\ NextRequest(op).op = op
    BY <1>3, PlannedIsRequest DEF SendBroken
  <2>2. Settle(NextRequest(op), "broken_pipe", Junk)
    BY <1>3 DEF SendBroken
  <2>3. call' = NoCall /\ CallerOK' /\ Accepted'
    BY <2>1, <2>2, SettleOwn
  <2>4. stdin' \in Seq(Sent) /\ pipe' = pipe /\ buffer' = buffer /\ net' = net
    BY <1>3, EmptyChannel DEF SendBroken, Exit
  <2> QED
    BY <2>3, <2>4 DEF MessagesOK, CallerOK
<1>4. ASSUME Receive PROVE OwnInv'
  <2> DEFINE line == Head(Fetched)
             rest == IF line.kind = "long" THEN <<Junk>> ELSE <<>>
  <2>1. Fetched \in Seq(Lines) /\ Fetched # <<>>
    BY <1>4 DEF Receive, ReadLine, Fetched, MessagesOK
  <2>2. line \in Lines /\ Tail(Fetched) \in Seq(Lines)
    BY <2>1
  <2>3. rest \in Seq(Lines)
    BY StrayLines
  <2>4. /\ buffer' = rest \o Tail(Fetched)
        /\ pipe' = IF buffer = <<>> THEN <<>> ELSE pipe
        /\ stdin' = stdin /\ net' = net
    BY <1>4 DEF Receive, ReadLine, hostVars
  <2>5. buffer' \in Seq(Lines) /\ pipe' \in Seq(Lines)
    <3> HIDE DEF rest
    <3> QED BY <2>2, <2>3, <2>4 DEF MessagesOK, CallerOK
  <2>6. call \in Sent /\ ObserveLeft(call.op) /\ Settle(call, Verdict(line, call), line)
    BY <1>4 DEF Receive, MessagesOK
  <2>7. Verdict(line, call) = "ok" => SameIdentity(line, call)
    BY <2>2, OkIsIdentified
  <2>8. call' = NoCall /\ CallerOK' /\ Accepted'
    <3> HIDE DEF line
    <3> QED BY <2>2, <2>6, <2>7, SettleOwn
  <2> QED
    BY <2>4, <2>5, <2>8 DEF MessagesOK, CallerOK
<1>5. ASSUME ReceiveEof PROVE OwnInv'
  <2>1. call \in Sent /\ ObserveLeft(call.op) /\ Settle(call, "closed_output", Junk)
    BY <1>5 DEF ReceiveEof, MessagesOK
  <2>2. call' = NoCall /\ CallerOK' /\ Accepted'
    BY <2>1, SettleOwn
  <2> QED
    BY <1>5, <2>2 DEF ReceiveEof, hostVars, MessagesOK, CallerOK
<1>6. ASSUME TimeOut PROVE OwnInv'
  <2>1. call \in Sent /\ ObserveLeft(call.op) /\ Settle(call, "timeout", Junk)
    BY <1>6 DEF TimeOut, MessagesOK
  <2>2. call' = NoCall /\ CallerOK' /\ Accepted'
    BY <2>1, SettleOwn
  <2>3. stdin' \in Seq(Sent) /\ pipe' = pipe /\ buffer' = buffer /\ net' = net
    BY <1>6, EmptyChannel DEF TimeOut, Terminated, pipeVars, MessagesOK
  <2> QED
    BY <2>2, <2>3 DEF MessagesOK, CallerOK
<1>7. ASSUME NextRun PROVE OwnInv'
  <2>1. stdin' \in Seq(Sent) /\ pipe' \in Seq(Lines) /\ buffer' \in Seq(Lines)
    BY <1>7, EmptyChannel DEF NextRun, pipeVars, MessagesOK
  <2> QED
    BY <1>7, <2>1 DEF NextRun, MessagesOK, Accepted
<1>8. ASSUME HostStep PROVE OwnInv'
  <2>1. PICK raises \in BOOLEAN, long \in BOOLEAN :
           Answer(Line(IF long THEN "long" ELSE Dispatch(Head(stdin), raises).kind,
                       Head(stdin)))
    BY <1>8 DEF HostStep
  <2>2. Head(stdin) \in Sent /\ Tail(stdin) \in Seq(Sent)
    BY <1>8 DEF HostStep, MessagesOK
  <2>3. Dispatch(Head(stdin), raises).kind \in {"ok", "error"}
    BY <2>2, DispatchAnswers DEF Sent, Requests
  <2>4. Line(IF long THEN "long" ELSE Dispatch(Head(stdin), raises).kind, Head(stdin))
          \in Lines
    BY <2>2, <2>3, LineOfRequest
  <2>5. stdin' \in Seq(Sent) /\ pipe' \in Seq(Lines) /\ buffer' = buffer
    BY <2>1, <2>2, <2>4 DEF Answer, MessagesOK
  <2> QED
    BY <1>8, <2>5 DEF HostStep, runVars, MessagesOK, ObserveLeft, Accepted
<1>9. ASSUME HostBabbles PROVE OwnInv'
  <2>1. stdin' = stdin /\ pipe' \in Seq(Lines) /\ buffer' = buffer
    BY <1>9, StrayLines DEF HostBabbles, Babble, MessagesOK
  <2> QED
    BY <1>9, <2>1 DEF HostBabbles, hostVars, runVars, MessagesOK, ObserveLeft, Accepted
<1>10. ASSUME HostExits PROVE OwnInv'
  BY <1>10, EmptyChannel DEF HostExits, Exit, runVars, MessagesOK, ObserveLeft, Accepted
<1>11. ASSUME NEW req \in net, HttpStep(req) PROVE OwnInv'
  <2>1. PICK raises \in BOOLEAN, dropped \in BOOLEAN :
           LET line == Line(Dispatch(req, raises).kind, req)
           IN  IF call = req
               THEN Settle(req, IF dropped THEN "disconnected" ELSE Verdict(line, req), line)
               ELSE UNCHANGED <<call, last, runVars, binding, sends, babble>>
    BY <1>11 DEF HttpStep
  <2> DEFINE line == Line(Dispatch(req, raises).kind, req)
  <2>2. req \in Sent /\ net' \subseteq Sent
    BY <1>11 DEF HttpStep, MessagesOK
  <2>3. line \in Lines /\ SameIdentity(line, req)
    BY <2>2, DispatchAnswers, LineOfRequest DEF Sent, Requests
  <2>4. stdin' = stdin /\ pipe' = pipe /\ buffer' = buffer
    BY <1>11 DEF HttpStep, pipeVars
  <2>5. CASE call = req
    <3>1. Settle(req, IF dropped THEN "disconnected" ELSE Verdict(line, req), line)
      BY <2>1, <2>5
    <3>2. ObserveLeft(req.op)
      BY <2>2, <2>5, TransportAssumption DEF MessagesOK, Sent
    <3>3. call' = NoCall /\ CallerOK' /\ Accepted'
      <4> HIDE DEF line
      <4> QED BY <2>2, <2>3, <3>1, <3>2, SettleOwn
    <3> QED
      BY <2>2, <2>4, <3>3 DEF MessagesOK, CallerOK
  <2>6. CASE call # req
    BY <2>1, <2>2, <2>4, <2>6 DEF runVars, MessagesOK, ObserveLeft, Accepted
  <2> QED
    BY <2>5, <2>6
<1>12. CASE UNCHANGED vars
  BY <1>12 DEF vars, pipeVars, hostVars, runVars, MessagesOK, ObserveLeft, Accepted
<1> QED
  BY <1>1, <1>2, <1>3, <1>4, <1>5, <1>6, <1>7, <1>8, <1>9, <1>10, <1>11, <1>12 DEF Next

\* What comes back as a success is the host's answer to a request of that name,
\* run and operation, whatever lines are late, foreign, cut or repeated
\* (_check_response in transports.py).
THEOREM AnswersAreOwn == Spec => []AnswerIsOwn
<1>1. OwnInv => AnswerIsOwn
  BY IdentityTellsAll DEF OwnInv, Accepted, AnswerIsOwn
<1> QED
  BY <1>1, OwnInit, OwnStep, PTL DEF Spec

----------------------------------------------------------------------------
(* The caller and the pipe stay in step *)

\* The one request that is out, on its way or answered, if its host lives.
OneInFlight ==
    /\ buffer = <<>>
    /\ \/ stdin = <<call>> /\ pipe = <<>> /\ Alive
       \/ stdin = <<>> /\ pipe = <<>> /\ ~Alive
       \/ stdin = <<>> /\ pipe \in {<<Line("ok", call)>>, <<Line("error", call)>>}

NothingInFlight == stdin = <<>> /\ pipe = <<>> /\ buffer = <<>>

Clean ==
    /\ last.outcome # "mismatch"
    /\ Piped => IF call = NoCall THEN Alive => NothingInFlight ELSE OneInFlight

StepInv ==
    /\ babble \in Nat
    /\ Piped => net = {}
    /\ babble = 0 => Clean

\* A call that ends with the process gone, or with nothing left in the pipe.
LEMMA SettleClean ==
    ASSUME NEW req, NEW outcome, NEW line, Settle(req, outcome, line),
           outcome # "mismatch", Piped => (~Alive \/ NothingInFlight)'
    PROVE  babble' = babble /\ Piped' = Piped /\ Clean'
BY DEF Settle, Piped, Clean

\* The line of a request is never taken for another's.
LEMMA OwnLineVerdict ==
    ASSUME NEW req, NEW kind \in {"ok", "error"}
    PROVE  /\ Verdict(Line(kind, req), req) # "mismatch"
           /\ Line(kind, req).kind # "long"
BY DEF Verdict, Line, SameIdentity

LEMMA StepInit == Init => StepInv
BY DEF Init, InitPipe, StepInv, Clean, NothingInFlight, Alive

LEMMA StepStep == OwnInv /\ StepInv /\ [Next]_vars => StepInv'
<1> SUFFICES ASSUME OwnInv, StepInv, [Next]_vars PROVE StepInv'
  OBVIOUS
<1> USE DEF StepInv
<1>1. ASSUME NEW op \in Operations, CallTheDead(op) PROVE StepInv'
  <2>1. Settle(NextRequest(op), IF op = "close" THEN "nothing" ELSE "dead", Junk)
    BY <1>1 DEF CallTheDead
  <2>2. ~Alive' /\ net' = net
    BY <1>1 DEF CallTheDead, Terminated, pipeVars, hostVars, Alive
  <2>3. babble' = babble /\ Piped' = Piped /\ Clean'
    BY <2>1, <2>2, SettleClean
  <2> QED
    BY <2>2, <2>3
<1>2. ASSUME NEW op \in Operations, Send(op) PROVE StepInv'
  <2>1. NextRequest(op) # NoCall
    BY <1>2, PlannedIsRequest, TransportAssumption DEF Send, OwnInv, Sent
  <2>2. /\ call = NoCall /\ call' = NextRequest(op)
        /\ babble' = babble /\ Piped' = Piped /\ last' = last
        /\ Piped => net' = net
    BY <1>2 DEF Send, Piped
  <2>3. ASSUME Piped, babble = 0 PROVE OneInFlight'
    <3>1. Alive /\ stdin' = Append(stdin, NextRequest(op))
          /\ proc' = proc /\ pipe' = pipe /\ buffer' = buffer
      BY <1>2, <2>3 DEF Send, WriteLine
    <3>2. stdin = <<>> /\ pipe = <<>> /\ buffer = <<>>
      BY <2>2, <2>3, <3>1 DEF Clean, NothingInFlight
    <3>3. stdin' = <<NextRequest(op)>>
      BY <3>1, <3>2
    <3> QED
      BY <2>2, <3>1, <3>2, <3>3 DEF OneInFlight, Alive
  <2> QED
    BY <2>1, <2>2, <2>3 DEF Clean
<1>3. ASSUME NEW op \in Operations, SendBroken(op) PROVE StepInv'
  <2>1. Settle(NextRequest(op), "broken_pipe", Junk)
    BY <1>3 DEF SendBroken
  <2>2. ~Alive' /\ net' = net
    BY <1>3 DEF SendBroken, Exit, Alive
  <2>3. babble' = babble /\ Piped' = Piped /\ Clean'
    BY <2>1, <2>2, SettleClean
  <2> QED
    BY <2>2, <2>3
<1>4. ASSUME Receive PROVE StepInv'
  <2> DEFINE line == Head(Fetched)
  <2>1. Piped /\ call # NoCall /\ net' = net
    BY <1>4 DEF Receive, hostVars
  <2>2. Settle(call, Verdict(line, call), line)
    BY <1>4 DEF Receive
  <2>3. babble' = babble /\ Piped' = Piped
    BY <2>2 DEF Settle, Piped
  <2>4. ASSUME babble = 0 PROVE Clean'
    <3>1. /\ buffer = <<>> /\ stdin' = stdin
          /\ buffer' = (IF line.kind = "long" THEN <<Junk>> ELSE <<>>) \o Tail(Fetched)
          /\ Fetched = pipe /\ pipe # <<>> /\ pipe' = <<>>
      BY <1>4, <2>1, <2>4 DEF Receive, ReadLine, Fetched, Clean, OneInFlight
    <3>2. PICK kind \in {"ok", "error"} : pipe = <<Line(kind, call)>> /\ stdin = <<>>
      BY <2>1, <2>4, <3>1 DEF Clean, OneInFlight
    <3>3. line = Line(kind, call) /\ Tail(Fetched) = <<>>
      BY <3>1, <3>2
    <3>4. Verdict(line, call) # "mismatch" /\ line.kind # "long"
      BY <3>3, OwnLineVerdict
    <3>5. NothingInFlight'
      BY <3>1, <3>2, <3>3, <3>4 DEF NothingInFlight
    <3> HIDE DEF line
    <3> QED
      BY <2>2, <3>4, <3>5, SettleClean
  <2> QED
    BY <2>1, <2>3, <2>4
<1>5. ASSUME ReceiveEof PROVE StepInv'
  <2>1. Settle(call, "closed_output", Junk)
    BY <1>5 DEF ReceiveEof
  <2>2. ~Alive' /\ net' = net
    BY <1>5 DEF ReceiveEof, ReadsEof, AfterClose, Alive, hostVars
  <2>3. babble' = babble /\ Piped' = Piped /\ Clean'
    BY <2>1, <2>2, SettleClean
  <2> QED
    BY <2>2, <2>3
<1>6. ASSUME TimeOut PROVE StepInv'
  <2>1. Settle(call, "timeout", Junk)
    BY <1>6 DEF TimeOut
  <2>2. (Piped => ~Alive') /\ net' = net
    BY <1>6 DEF TimeOut, Terminated, Alive
  <2>3. babble' = babble /\ Piped' = Piped /\ Clean'
    BY <2>1, <2>2, SettleClean
  <2> QED
    BY <2>2, <2>3
<1>7. ASSUME NextRun PROVE StepInv'
  <2>1. /\ call = NoCall /\ call' = call /\ last' = last /\ binding' = binding
        /\ babble' = babble /\ net' = net
    BY <1>7 DEF NextRun
  <2>2. \/ NothingInFlight'
        \/ proc' = proc /\ stdin' = stdin /\ pipe' = pipe /\ buffer' = buffer
    BY <1>7 DEF NextRun, pipeVars, NothingInFlight
  <2> QED
    BY <2>1, <2>2 DEF Clean, Piped, NothingInFlight, Alive
<1>8. ASSUME HostStep PROVE StepInv'
  <2>1. /\ Piped /\ stdin # <<>> /\ Alive /\ net' = net
        /\ binding' = binding /\ call' = call /\ last' = last
        /\ proc' = proc /\ buffer' = buffer /\ stdin' = Tail(stdin)
    BY <1>8 DEF HostStep, Answer
  <2>2. PICK raises \in BOOLEAN, long \in BOOLEAN :
          /\ pipe' = Append(pipe, Line(IF long THEN "long"
                                       ELSE Dispatch(Head(stdin), raises).kind, Head(stdin)))
          /\ babble' = IF raises \/ long THEN babble + 1 ELSE babble
    BY <1>8 DEF HostStep, Answer
  <2>3. ASSUME babble' = 0 PROVE Clean'
    <3>1. babble = 0 /\ ~long
      BY <2>2, <2>3
    <3>2. call # NoCall /\ buffer = <<>> /\ stdin = <<call>> /\ pipe = <<>>
      BY <2>1, <3>1 DEF Clean, NothingInFlight, OneInFlight
    <3>3. call.op \in Operations
      BY <3>2 DEF OwnInv, MessagesOK, Sent, Requests
    <3>4. PICK kind \in {"ok", "error"} : kind = Dispatch(call, raises).kind
      BY <3>3, DispatchAnswers
    <3>5. Head(stdin) = call /\ stdin' = <<>>
      BY <2>1, <3>2
    <3>6. pipe' = <<Line(kind, call)>>
      BY <2>2, <3>1, <3>2, <3>4, <3>5
    <3>7. Line(kind, call)' = Line(kind, call)
      BY <2>1 DEF Line
    <3> QED
      BY <2>1, <3>1, <3>2, <3>5, <3>6, <3>7 DEF Clean, OneInFlight, Piped
  <2> QED
    BY <2>1, <2>2, <2>3 DEF Piped
<1>9. ASSUME HostBabbles PROVE StepInv'
  BY <1>9 DEF HostBabbles, hostVars, Piped
<1>10. ASSUME HostExits PROVE StepInv'
  BY <1>10 DEF HostExits, Exit, Alive, Piped, Clean, NothingInFlight, OneInFlight, Line
<1>11. ASSUME NEW req \in net, HttpStep(req) PROVE StepInv'
  <2>1. ~Piped /\ req \in Sent
    BY DEF OwnInv, MessagesOK
  <2>2. PICK raises \in BOOLEAN, dropped \in BOOLEAN :
           LET line == Line(Dispatch(req, raises).kind, req)
           IN  IF call = req
               THEN Settle(req, IF dropped THEN "disconnected" ELSE Verdict(line, req), line)
               ELSE UNCHANGED <<call, last, runVars, binding, sends, babble>>
    BY <1>11 DEF HttpStep
  <2> DEFINE line == Line(Dispatch(req, raises).kind, req)
  <2>3. Verdict(line, req) # "mismatch"
    <3>1. Dispatch(req, raises).kind \in {"ok", "error"}
      BY <2>1, DispatchAnswers DEF Sent, Requests
    <3> QED
      BY <3>1, OwnLineVerdict
  <2>4. CASE call = req
    <3>1. Settle(req, IF dropped THEN "disconnected" ELSE Verdict(line, req), line)
      BY <2>2, <2>4
    <3> HIDE DEF line
    <3>2. babble' = babble /\ Piped' = Piped /\ Clean'
      BY <2>1, <2>3, <3>1, SettleClean
    <3> QED
      BY <2>1, <3>2
  <2>5. CASE call # req
    BY <2>1, <2>2, <2>5 DEF Clean, Piped
  <2> QED
    BY <2>4, <2>5
<1>12. CASE UNCHANGED vars
  BY <1>12 DEF vars, pipeVars, hostVars, Clean, NothingInFlight, OneInFlight, Alive, Piped, Line
<1> QED
  BY <1>1, <1>2, <1>3, <1>4, <1>5, <1>6, <1>7, <1>8, <1>9, <1>10, <1>11, <1>12 DEF Next

\* An Agent that answers every request with one line of its own is never told that
\* an answer is not its own, over any number of timeouts, retries, deaths and runs
\* (_rpc terminates a process whose answer is late).
THEOREM NeverOutOfStep == Spec => []InStep
<1>1. StepInv => InStep
  BY DEF StepInv, Clean, InStep
<1> QED
  BY <1>1, OwnInit, OwnStep, StepInit, StepStep, PTL DEF Spec

----------------------------------------------------------------------------
(* What was acknowledged is remembered *)

\* The operations on a run's Agent, and the messages of the current run's.
Working == {"reset", "observe", "close"}
Mine(m) == m.op \in Working /\ m.run = Run
Past == {Runs[i] : i \in 1..cur}

\* The lines the caller has not returned yet.
Unread == {pipe[i] : i \in 1..Len(pipe)} \cup {buffer[i] : i \in 1..Len(buffer)}
Acknowledges(line) == line.kind = "ok" /\ Mine(line) /\ line.op = "observe"

\* The run goes on, and whether its Agent is yet to be reset.
Open == /\ phase \in {"new", "described", "active", "retry"}
        /\ call # NoCall => call.op # "close"
Resetting == \/ phase \in {"new", "described"}
             \/ phase = "retry" /\ last.req.op = "reset"

Remembers(id) == Run \in DOMAIN agents /\ id \in agents[Run]
NoneToHandle(op) == \A i \in 1..Len(stdin) : Mine(stdin[i]) => stdin[i].op # op

\* The requests on their way to the host are handled in order, so that no reset
\* comes after an observation.
InOrder ==
    /\ NoneToHandle("close")
    /\ \A i, j \in 1..Len(stdin) :
          i < j /\ Mine(stdin[i]) /\ Mine(stdin[j]) /\ stdin[i].op = "observe"
            => stdin[j].op # "reset"
    /\ Resetting => NoneToHandle("observe") /\ \A l \in Unread : ~Acknowledges(l)
    /\ \A l \in Unread : Acknowledges(l) => Remembers(l.id) /\ NoneToHandle("reset")
    /\ done > 0 => NoneToHandle("reset")

\* No message belongs to a run that is yet to come.
NoneAhead ==
    /\ \A i \in 1..Len(stdin) : stdin[i].op \in Working => stdin[i].run \in Past
    /\ \A l \in Unread : l.op \in Working => l.run \in Past
    /\ \A r \in net : r.op \in Working => r.run \in Past

CallIsPlanned ==
    call # NoCall => /\ call.op \in Planned /\ call.id = IdOf(call.op)
                     /\ call.op # "describe" => call.run = Run

Kept == \A k \in 1..done : Remembers(<<"req", RequestIds[k]>>)

MemoryInv ==
    /\ CallIsPlanned
    /\ NoneAhead
    /\ Open =>
        /\ Resetting => done = 0
        /\ Piped /\ Alive => InOrder
        /\ ~Piped => \A r \in net : Mine(r) => r = call
        /\ (Piped => Alive) => Kept

\* What a settled call leaves open was open before, and no reset is due again.
LEMMA SettleOpen ==
    ASSUME OwnInv, NEW req \in Sent, req.op \in Planned, call # NoCall => call.op = req.op,
           NEW outcome, NEW line, Settle(req, outcome, line)
    PROVE  /\ Run' = Run /\ Past' = Past /\ Piped' = Piped /\ call' = NoCall /\ CallIsPlanned'
           /\ Open' => Open /\ req.op # "close"
           /\ Open' /\ Resetting' => Resetting /\ done' = done
           /\ \/ done' = done
              \/ outcome = "ok" /\ req.op = "observe" /\ done' = done + 1
           /\ outcome = "timeout" => ~Open'
<1>1. /\ call' = NoCall /\ cur' = cur /\ binding' = binding
      /\ last' = [req |-> req, outcome |-> outcome, line |-> line]
      /\ done' = IF outcome = "ok" /\ req.op = "observe" THEN done + 1 ELSE done
  BY DEF Settle
<1>2. Run' = Run /\ Past' = Past /\ Piped' = Piped /\ CallIsPlanned'
  BY <1>1 DEF Run, Past, Piped, CallIsPlanned
<1>3. phase' = CASE outcome = "ok" /\ req.op = "describe" -> "described"
                 [] outcome = "ok" /\ req.op \in {"reset", "observe"} -> "active"
                 [] req.op = "close" -> "closed"
                 [] /\ req.op \in {"reset", "observe"}
                    /\ Retryable(outcome) /\ req.attempt < Retries -> "retry"
                 [] OTHER -> "failed"
  BY DEF Settle
<1>4. req.op \in Operations
  BY DEF Sent, Requests
<1>5. \/ req.op = "describe" /\ phase = "new"
      \/ req.op = "reset" /\ Resetting /\ phase \in {"described", "retry"}
      \/ req.op = "observe" /\ phase \in {"active", "retry"}
      \/ req.op = "close"
  <2>1. phase = "retry" => last.req.op \in {"reset", "observe"}
    BY DEF OwnInv, MessagesOK
  <2>2. CASE phase = "retry"
    BY <2>1, <2>2 DEF Planned, Resetting
  <2>3. CASE phase # "retry"
    BY <2>3 DEF Planned, Resetting
  <2> QED
    BY <2>2, <2>3
<1>6. Open' => req.op # "close" /\ phase' \in {"described", "active", "retry"}
  BY <1>3, <1>4 DEF Open
<1>7. Open' => Open
  BY <1>5, <1>6 DEF Open
<1>8. phase' = "retry" => req.op \in {"reset", "observe"} /\ Retryable(outcome)
  BY <1>3, <1>4 DEF Operations
<1>9. phase' = "described" => req.op = "describe"
  BY <1>3, <1>4 DEF Operations
<1>10. phase' # "new"
  BY <1>3, <1>4 DEF Operations
<1>11. ASSUME Open', Resetting' PROVE Resetting /\ done' = done
  <2>1. CASE phase' = "described"
    BY <1>1, <1>5, <1>9, <2>1 DEF Resetting
  <2>2. CASE phase' = "retry"
    BY <1>1, <1>5, <1>8, <1>11, <2>2 DEF Resetting
  <2> QED
    BY <1>10, <1>11, <2>1, <2>2 DEF Resetting
<1>12. outcome = "timeout" => ~Open'
  BY <1>3, <1>4 DEF Open, Retryable, Operations
<1> QED
  BY <1>1, <1>2, <1>6, <1>7, <1>11, <1>12

\* What a request does to the memory of the current run's Agent.
LEMMA DispatchRemembers ==
    ASSUME NEW req \in Sent, NEW raises \in BOOLEAN,
           NEW after, after = Dispatch(req, raises).agents
    PROVE  /\ req.op = "describe" \/ req.run # Run =>
                 /\ Run \in DOMAIN after <=> Run \in DOMAIN agents
                 /\ Run \in DOMAIN agents => after[Run] = agents[Run]
           /\ req.op = "observe" =>
                 \A id : Remembers(id) => Run \in DOMAIN after /\ id \in after[Run]
           /\ req.op = "observe" /\ req.run = Run /\ Dispatch(req, raises).kind = "ok" =>
                 Run \in DOMAIN after /\ req.id \in after[Run]
<1>1. req.op \in Operations
  BY DEF Sent, Requests
<1>2. CASE req.op = "describe"
  BY <1>2 DEF Dispatch
<1>3. CASE req.op = "reset"
  <2>1. after = [r \in DOMAIN agents \cup {req.run} |-> IF r = req.run THEN {} ELSE agents[r]]
    BY <1>3 DEF Dispatch
  <2> QED
    BY <1>3, <2>1
<1>4. CASE req.op = "close"
  <2>1. after = [r \in DOMAIN agents \ {req.run} |-> agents[r]]
    BY <1>4 DEF Dispatch
  <2> QED
    BY <1>4, <2>1
<1>5. CASE req.op = "observe"
  <2>1. CASE req.run \notin DOMAIN agents \/ raises
    <3>1. after = agents /\ Dispatch(req, raises).kind = "error"
      BY <1>5, <2>1 DEF Dispatch
    <3> QED
      BY <1>5, <3>1 DEF Remembers
  <2>2. CASE req.run \in DOMAIN agents /\ ~raises
    <3>1. after = [agents EXCEPT ![req.run] = @ \cup {req.id}]
      BY <1>5, <2>2 DEF Dispatch
    <3> QED
      BY <1>5, <2>2, <3>1 DEF Remembers
  <2> QED
    BY <2>1, <2>2
<1> QED
  BY <1>1, <1>2, <1>3, <1>4, <1>5 DEF Operations

\* The elements of a sequence that grew, and of one that shrank.
LEMMA AppendElements ==
    ASSUME NEW S, NEW s \in Seq(S), NEW e \in S, NEW t, t = Append(s, e)
    PROVE  {t[i] : i \in 1..Len(t)} = {s[i] : i \in 1..Len(s)} \cup {e}
<1>1. /\ Len(s) \in Nat /\ Len(t) = Len(s) + 1 /\ t[Len(s) + 1] = e
      /\ \A i \in 1..Len(s) : t[i] = s[i]
  OBVIOUS
<1>2. 1..Len(t) = 1..Len(s) \cup {Len(s) + 1}
  BY <1>1
<1> QED
  BY <1>1, <1>2

LEMMA TailElements ==
    ASSUME NEW S, NEW s \in Seq(S), s # <<>>, NEW r \in Seq(S), NEW t, t = r \o Tail(s),
           NEW i \in 1..Len(t)
    PROVE  (\E j \in 1..Len(r) : t[i] = r[j]) \/ (\E j \in 1..Len(s) : t[i] = s[j])
<1>1. /\ Len(r) \in Nat /\ Len(s) \in Nat /\ Len(t) = Len(r) + Len(s) - 1
      /\ Tail(s) \in Seq(S) /\ Len(Tail(s)) = Len(s) - 1
      /\ \A j \in 1..(Len(s) - 1) : Tail(s)[j] = s[j + 1]
  OBVIOUS
<1>2. i <= Len(r) \/ i > Len(r)
  BY <1>1
<1>3. CASE i <= Len(r)
  BY <1>1, <1>3
<1>4. CASE i > Len(r)
  <2>1. i - Len(r) \in 1..(Len(s) - 1) /\ t[i] = Tail(s)[i - Len(r)]
    BY <1>1, <1>4
  <2>2. t[i] = s[(i - Len(r)) + 1] /\ (i - Len(r)) + 1 \in 1..Len(s)
    BY <1>1, <2>1
  <2> QED
    BY <2>2
<1> QED
  BY <1>2, <1>3, <1>4, Zenon

LEMMA MemoryInit == Init => MemoryInv
BY DEF Init, InitPipe, MemoryInv, CallIsPlanned, NoneAhead, Unread, Resetting, InOrder,
       NoneToHandle, Kept

LEMMA MemoryStep == OwnInv /\ StepInv /\ MemoryInv /\ [Next]_vars => MemoryInv'
<1> SUFFICES ASSUME OwnInv, StepInv, MemoryInv, [Next]_vars PROVE MemoryInv'
  OBVIOUS
<1>1. ASSUME NEW op \in Operations, CallTheDead(op) PROVE MemoryInv'
  <2>1. NextRequest(op) \in Sent /\ NextRequest(op).op \in Planned
    BY <1>1, PlannedIsRequest DEF CallTheDead, OwnInv
  <2>2. Settle(NextRequest(op), IF op = "close" THEN "nothing" ELSE "dead", Junk)
    BY <1>1 DEF CallTheDead
  <2>3. /\ Past' = Past /\ Piped' = Piped /\ call' = NoCall /\ CallIsPlanned'
        /\ Open' => Open
        /\ Open' /\ Resetting' => Resetting /\ done' = done
    BY <1>1, <2>1, <2>2, SettleOpen DEF CallTheDead
  <2>4. /\ Piped /\ ~Alive' /\ stdin' \in {<<>>, stdin}
        /\ pipe' = pipe /\ buffer' = buffer /\ net' = net
    BY <1>1 DEF CallTheDead, Terminated, pipeVars, hostVars, Alive
  <2>5. NoneAhead'
    BY <2>3, <2>4 DEF MemoryInv, NoneAhead, Unread
  <2> QED
    BY <2>3, <2>4, <2>5 DEF MemoryInv
<1>3. ASSUME NEW op \in Operations, SendBroken(op) PROVE MemoryInv'
  <2>1. NextRequest(op) \in Sent /\ NextRequest(op).op \in Planned
    BY <1>3, PlannedIsRequest DEF SendBroken, OwnInv
  <2>2. Settle(NextRequest(op), "broken_pipe", Junk)
    BY <1>3 DEF SendBroken
  <2>3. /\ Past' = Past /\ Piped' = Piped /\ call' = NoCall /\ CallIsPlanned'
        /\ Open' => Open
        /\ Open' /\ Resetting' => Resetting /\ done' = done
    BY <1>3, <2>1, <2>2, SettleOpen DEF SendBroken
  <2>4. /\ Piped /\ ~Alive' /\ stdin' = <<>>
        /\ pipe' = pipe /\ buffer' = buffer /\ net' = net
    BY <1>3 DEF SendBroken, Exit, Alive
  <2>5. NoneAhead'
    BY <2>3, <2>4 DEF MemoryInv, NoneAhead, Unread
  <2> QED
    BY <2>3, <2>4, <2>5 DEF MemoryInv
<1>5. ASSUME ReceiveEof PROVE MemoryInv'
  <2>1. call # NoCall /\ call \in Sent /\ call.op \in Planned
    BY <1>5 DEF ReceiveEof, OwnInv, MessagesOK, MemoryInv, CallIsPlanned
  <2>2. Settle(call, "closed_output", Junk)
    BY <1>5 DEF ReceiveEof
  <2>3. /\ Past' = Past /\ Piped' = Piped /\ call' = NoCall /\ CallIsPlanned'
        /\ Open' => Open
        /\ Open' /\ Resetting' => Resetting /\ done' = done
    BY <2>1, <2>2, SettleOpen
  <2>4. /\ Piped /\ ~Alive' /\ stdin' = stdin
        /\ pipe' = pipe /\ buffer' = buffer /\ net' = net
    BY <1>5 DEF ReceiveEof, ReadsEof, AfterClose, Alive, hostVars
  <2>5. NoneAhead'
    BY <2>3, <2>4 DEF MemoryInv, NoneAhead, Unread
  <2> QED
    BY <2>3, <2>4, <2>5 DEF MemoryInv
<1>6. ASSUME TimeOut PROVE MemoryInv'
  <2>1. call # NoCall /\ call \in Sent /\ call.op \in Planned
    BY <1>6 DEF TimeOut, OwnInv, MessagesOK, MemoryInv, CallIsPlanned
  <2>2. Settle(call, "timeout", Junk)
    BY <1>6 DEF TimeOut
  <2>3. Past' = Past /\ call' = NoCall /\ CallIsPlanned' /\ ~Open'
    BY <2>1, <2>2, SettleOpen
  <2>4. /\ stdin' \in {<<>>, stdin}
        /\ pipe' = pipe /\ buffer' = buffer /\ net' = net
    BY <1>6 DEF TimeOut, Terminated, pipeVars
  <2>5. NoneAhead'
    BY <2>3, <2>4 DEF MemoryInv, NoneAhead, Unread
  <2> QED
    BY <2>3, <2>5 DEF MemoryInv
<1>9. ASSUME HostBabbles PROVE MemoryInv'
  <2>1. PICK line \in {Foreign, Junk} : Babble(line)
    BY <1>9 DEF HostBabbles
  <2>2. line.op \notin Working
    <3>1. Foreign.op = "" /\ Junk.op = ""
      BY DEF Foreign, Junk
    <3> QED
      BY <2>1, <3>1 DEF Working
  <2>3. Unread' = Unread \cup {line} /\ stdin' = stdin /\ proc' = proc
    <3>1. pipe' = Append(pipe, line) /\ buffer' = buffer /\ stdin' = stdin /\ proc' = proc
      BY <2>1 DEF Babble
    <3>2. pipe \in Seq(Lines) /\ line \in Lines
      BY <2>1, StrayLines DEF OwnInv, MessagesOK
    <3>3. {pipe'[i] : i \in 1..Len(pipe')} = {pipe[i] : i \in 1..Len(pipe)} \cup {line}
      BY <3>1, <3>2, AppendElements
    <3> QED
      BY <3>1, <3>3 DEF Unread
  <2>4. /\ UNCHANGED <<net, agents, cur, phase, done, binding, call, last, sends>>
    BY <1>9 DEF HostBabbles, hostVars, runVars
  <2>5. /\ CallIsPlanned' /\ Past' = Past /\ Run' = Run /\ Open' = Open /\ Resetting' = Resetting
        /\ Piped' = Piped /\ Alive' = Alive
    BY <2>3, <2>4 DEF CallIsPlanned, Planned, IdOf, Past, Run, Open, Resetting, Piped, Alive, MemoryInv
  <2>6. NoneAhead'
    BY <2>2, <2>3, <2>4, <2>5 DEF MemoryInv, NoneAhead
  <2>7. InOrder => InOrder'
    BY <2>2, <2>3, <2>4, <2>5 DEF InOrder, NoneToHandle, Acknowledges, Mine, Remembers
  <2>8. Kept => Kept'
    BY <2>4, <2>5 DEF Kept, Remembers
  <2> QED
    BY <2>4, <2>5, <2>6, <2>7, <2>8 DEF MemoryInv, Mine
<1>10. ASSUME HostExits PROVE MemoryInv'
  <2>1. /\ Piped /\ ~Alive' /\ stdin' = <<>> /\ pipe' = pipe /\ buffer' = buffer
        /\ UNCHANGED <<net, cur, phase, done, binding, call, last, sends>>
    BY <1>10 DEF HostExits, Exit, Alive, runVars
  <2>2. /\ CallIsPlanned' /\ Past' = Past /\ Open' = Open /\ Resetting' = Resetting
        /\ Piped' = Piped
    BY <2>1 DEF CallIsPlanned, Planned, IdOf, Past, Run, Open, Resetting, Piped, MemoryInv
  <2>3. NoneAhead'
    BY <2>1, <2>2 DEF MemoryInv, NoneAhead, Unread
  <2> QED
    BY <2>1, <2>2, <2>3 DEF MemoryInv
<1>2. ASSUME NEW op \in Operations, Send(op) PROVE MemoryInv'
  <2> DEFINE req == NextRequest(op)
  <2>1. /\ req \in Sent /\ req.op = op /\ req.id = IdOf(op) /\ op \in Planned
        /\ op # "describe" => req.run = Run
    BY <1>2, PlannedIsRequest DEF Send, OwnInv
  <2>2. /\ call = NoCall /\ call' = req
        /\ UNCHANGED <<agents, cur, phase, done, binding, last>>
    BY <1>2 DEF Send, runVars
  <2>3. \/ /\ Piped /\ Alive /\ stdin' = Append(stdin, req) /\ net' = net
        \/ /\ ~Piped /\ stdin' = stdin /\ net' = net \cup {req}
    BY <1>2 DEF Send, WriteLine, pipeVars
  <2>4. proc' = proc /\ pipe' = pipe /\ buffer' = buffer
    BY <1>2 DEF Send, WriteLine, pipeVars
  <2> HIDE DEF req
  <2>5. /\ Past' = Past /\ Run' = Run /\ Resetting' = Resetting /\ Piped' = Piped
        /\ Planned' = Planned /\ IdOf(op)' = IdOf(op) /\ Unread' = Unread /\ Alive' = Alive
    BY <2>2, <2>4 DEF Past, Run, Resetting, Piped, Planned, IdOf, Unread, Alive
  <2>6. CallIsPlanned'
    BY <2>1, <2>2, <2>5 DEF CallIsPlanned
  <2>7. Open' => Open /\ op # "close"
    BY <2>1, <2>2, TransportAssumption DEF Open, Sent
  <2>8. op \in Working => req.run \in Past
    BY <2>1 DEF Working, Past, Run, OwnInv, MessagesOK
  <2>9. stdin \in Seq(Sent)
    BY DEF OwnInv, MessagesOK
  <2>10. NoneAhead'
    BY <2>1, <2>3, <2>5, <2>8, <2>9 DEF MemoryInv, NoneAhead
  <2>11. ASSUME Open' PROVE op = "reset" => Resetting
    BY <2>1, <2>7, <2>11 DEF Planned, Resetting, Open
  <2>12. ASSUME Open', Resetting PROVE op # "observe"
    BY <2>1, <2>7, <2>12 DEF Planned, Resetting, Open
  <2>13. ASSUME Open', Piped, Alive PROVE InOrder'
    <3>1. InOrder /\ (Resetting => done = 0)
      BY <2>7, <2>13 DEF MemoryInv
    <3>2. stdin' = Append(stdin, req)
      BY <2>3, <2>13
    <3>3. /\ Len(stdin') = Len(stdin) + 1 /\ stdin'[Len(stdin) + 1] = req
          /\ \A i \in 1..Len(stdin) : stdin'[i] = stdin[i]
      BY <2>9, <3>2
    <3>4. \A m : Mine(m)' <=> Mine(m)
      BY <2>5 DEF Mine
    <3>5. \A o \in Working : NoneToHandle(o) /\ op # o => NoneToHandle(o)'
      BY <2>1, <2>9, <3>3, <3>4 DEF NoneToHandle
    <3>6. NoneToHandle("close")'
      BY <2>7, <2>13, <3>1, <3>5 DEF InOrder, Working
    <3>7. Resetting' => NoneToHandle("observe")' /\ \A l \in Unread' : ~Acknowledges(l)'
      BY <2>5, <2>12, <2>13, <3>1, <3>4, <3>5 DEF InOrder, Working, Acknowledges
    <3>8. op = "reset" => /\ done = 0 /\ \A l \in Unread : ~Acknowledges(l)
                          /\ NoneToHandle("observe")
      BY <2>11, <2>13, <3>1 DEF InOrder
    <3>9. \A l \in Unread' : Acknowledges(l)' => Remembers(l.id)' /\ NoneToHandle("reset")'
      BY <2>2, <2>5, <3>1, <3>4, <3>5, <3>8 DEF InOrder, Working, Acknowledges, Remembers
    <3>10. done' > 0 => NoneToHandle("reset")'
      BY <2>2, <3>1, <3>5, <3>8 DEF InOrder, Working
    <3>11. ASSUME NEW i \in 1..Len(stdin'), NEW j \in 1..Len(stdin'), i < j,
                  Mine(stdin[i])', Mine(stdin[j])', stdin'[i].op = "observe"
           PROVE  stdin'[j].op # "reset"
      <4>1. i \in 1..Len(stdin) /\ stdin'[i] = stdin[i] /\ Mine(stdin[i])
        <5>1. Len(stdin) \in Nat /\ i \in 1..Len(stdin)
          BY <2>9, <3>3, <3>11
        <5> QED
          BY <2>5, <3>3, <3>11, <5>1 DEF Mine
      <4>2. CASE j \in 1..Len(stdin)
        <5>1. stdin'[j] = stdin[j] /\ Mine(stdin[j])
          BY <2>5, <3>3, <3>11, <4>2 DEF Mine
        <5> QED
          BY <3>1, <3>11, <4>1, <4>2, <5>1 DEF InOrder
      <4>3. CASE j = Len(stdin) + 1
        BY <2>1, <3>3, <3>8, <3>11, <4>1, <4>3 DEF NoneToHandle
      <4> QED
        BY <2>9, <3>3, <4>2, <4>3
    <3>12. \A i, j \in 1..Len(stdin') :
              i < j /\ Mine(stdin[i])' /\ Mine(stdin[j])' /\ stdin'[i].op = "observe"
                => stdin'[j].op # "reset"
      BY <3>11
    <3> QED
      BY <3>6, <3>7, <3>9, <3>10, <3>12 DEF InOrder
  <2>14. ASSUME Open', ~Piped PROVE \A r \in net' : Mine(r)' => r = call'
    <3>1. NoCall \notin net
      BY TransportAssumption DEF OwnInv, MessagesOK, Sent
    <3> QED
      BY <2>2, <2>3, <2>5, <2>7, <2>14, <3>1 DEF MemoryInv, Mine
  <2>15. Kept => Kept'
    BY <2>2, <2>5 DEF Kept, Remembers
  <2> QED
    BY <2>2, <2>5, <2>6, <2>7, <2>10, <2>13, <2>14, <2>15 DEF MemoryInv
<1>12. CASE UNCHANGED vars
  <2>1. UNCHANGED <<proc, stdin, pipe, buffer, net, agents, cur, phase, done, binding, call, last>>
    BY <1>12 DEF vars, pipeVars, hostVars, runVars
  <2>2. /\ CallIsPlanned' = CallIsPlanned /\ Past' = Past /\ Run' = Run /\ Open' = Open
        /\ Resetting' = Resetting /\ Piped' = Piped /\ Alive' = Alive /\ Unread' = Unread
    BY <2>1 DEF CallIsPlanned, Planned, IdOf, Past, Run, Open, Resetting, Piped, Alive, Unread
  <2>3. NoneAhead => NoneAhead'
    BY <2>1, <2>2 DEF NoneAhead
  <2>4. InOrder => InOrder'
    BY <2>1, <2>2 DEF InOrder, NoneToHandle, Acknowledges, Mine, Remembers
  <2>5. Kept => Kept'
    BY <2>1, <2>2 DEF Kept, Remembers
  <2> QED
    BY <2>1, <2>2, <2>3, <2>4, <2>5 DEF MemoryInv, Mine
<1>4. ASSUME Receive PROVE MemoryInv'
  <2> DEFINE line == Head(Fetched)
             rest == IF line.kind = "long" THEN <<Junk>> ELSE <<>>
  <2>1. Piped /\ call # NoCall /\ call \in Sent /\ call.op \in Planned
    BY <1>4 DEF Receive, OwnInv, MessagesOK, MemoryInv, CallIsPlanned
  <2>2. Settle(call, Verdict(line, call), line)
    BY <1>4 DEF Receive
  <2>3. Fetched \in Seq(Lines) /\ Fetched # <<>> /\ rest \in Seq(Lines)
    BY <1>4, StrayLines DEF Receive, ReadLine, Fetched, OwnInv, MessagesOK
  <2>4. line \in Lines /\ line \in Unread
    <3>1. line = Fetched[1] /\ 1 \in 1..Len(Fetched)
      BY <2>3
    <3>2. line \in Unread
      BY <3>1 DEF Fetched, Unread
    <3> QED
      BY <2>3, <3>2
  <2>5. /\ stdin' = stdin /\ net' = net /\ agents' = agents /\ proc' = AfterClose
        /\ buffer' = rest \o Tail(Fetched)
        /\ pipe' = IF buffer = <<>> THEN <<>> ELSE pipe
    BY <1>4 DEF Receive, ReadLine, hostVars
  <2>6. \A l \in Unread' : l \in Unread \/ l = Junk
    <3>1. \A j \in 1..Len(rest) : rest[j] = Junk
      OBVIOUS
    <3> HIDE DEF rest
    <3>2. \A i \in 1..Len(buffer') : buffer'[i] = Junk \/ \E j \in 1..Len(Fetched) : buffer'[i] = Fetched[j]
      BY <2>3, <2>5, <3>1, TailElements, SMTT(60)
    <3>3. \A i \in 1..Len(pipe') : pipe'[i] \in Unread
      BY <2>5 DEF Unread
    <3>4. \A j \in 1..Len(Fetched) : Fetched[j] \in Unread
      BY DEF Fetched, Unread
    <3>5. \A l \in Unread' : \/ \E i \in 1..Len(pipe') : l = pipe'[i]
                             \/ \E i \in 1..Len(buffer') : l = buffer'[i]
      BY DEF Unread
    <3> QED
      BY <3>2, <3>3, <3>4, <3>5
  <2> HIDE DEF line, rest
  <2>7. /\ Run' = Run /\ Past' = Past /\ Piped' = Piped /\ call' = NoCall /\ CallIsPlanned'
        /\ Open' => Open /\ call.op # "close"
        /\ Open' /\ Resetting' => Resetting /\ done' = done
        /\ \/ done' = done
           \/ Verdict(line, call) = "ok" /\ call.op = "observe" /\ done' = done + 1
    BY <2>1, <2>2, SettleOpen
  <2>8. Junk.op = "" /\ "" \notin Working
    BY DEF Junk, Foreign, Working
  <2>9. NoneAhead'
    BY <2>5, <2>6, <2>7, <2>8 DEF MemoryInv, NoneAhead
  <2>10. Open' => Alive' = Alive
    BY <2>5, <2>7 DEF AfterClose, Alive
  <2>11. ASSUME Verdict(line, call) = "ok", call.op = "observe"
         PROVE  Acknowledges(line) /\ line.id = <<"req", RequestIds[done + 1]>>
    <3>1. SameIdentity(line, call) /\ line.kind = "ok"
      BY <2>4, <2>11, OkIsIdentified
    <3>2. line.op = call.op /\ line.run = call.run /\ line.id = call.id
      BY <2>1, <2>4, <3>1, IdentityTellsAll
    <3>3. call.run = Run /\ call.id = IdOf("observe")
      BY <2>1, <2>11 DEF MemoryInv, CallIsPlanned
    <3> QED
      BY <2>11, <3>1, <3>2, <3>3 DEF Acknowledges, Mine, Working, IdOf
  <2>12. ASSUME Open', Alive' PROVE InOrder' /\ Kept'
    <3>1. InOrder /\ Kept /\ Alive
      BY <2>1, <2>7, <2>10, <2>12 DEF MemoryInv
    <3>2. \A m : Mine(m)' <=> Mine(m)
      BY <2>7 DEF Mine
    <3>3. \A o : NoneToHandle(o)' <=> NoneToHandle(o)
      BY <2>5, <2>7 DEF NoneToHandle, Mine
    <3>4. \A id : Remembers(id)' <=> Remembers(id)
      BY <2>5, <2>7 DEF Remembers
    <3>5. \A l \in Unread' : Acknowledges(l)' => l \in Unread /\ Acknowledges(l)
      BY <2>6, <2>7, <2>8 DEF Acknowledges, Mine
    <3>6. done' > 0 => NoneToHandle("reset")
      BY <2>4, <2>7, <2>11, <3>1 DEF InOrder
    <3>7. done' = done + 1 => Remembers(<<"req", RequestIds[done + 1]>>) \/ done' = done
      BY <2>4, <2>7, <2>11, <3>1 DEF InOrder
    <3>8. Kept'
      <4>1. ASSUME NEW k \in 1..done'
            PROVE  k \in 1..done \/ (done' = done + 1 /\ k = done + 1)
        <5>1. done \in Nat
          BY TransportAssumption DEF OwnInv, MessagesOK
        <5> QED
          BY <2>7, <4>1, <5>1
      <4>2. done' = done + 1 => Remembers(<<"req", RequestIds[done + 1]>>)
        BY <3>7 DEF OwnInv, MessagesOK
      <4> QED
        BY <3>1, <3>4, <4>1, <4>2 DEF Kept
    <3>9. \A i, j \in 1..Len(stdin') :
              i < j /\ Mine(stdin[i])' /\ Mine(stdin[j])' /\ stdin'[i].op = "observe"
                => stdin'[j].op # "reset"
      BY <2>5, <2>7, <3>1 DEF InOrder, Mine
    <3>10. Resetting' => NoneToHandle("observe")' /\ \A l \in Unread' : ~Acknowledges(l)'
      BY <2>7, <2>12, <3>1, <3>3, <3>5 DEF InOrder
    <3>11. \A l \in Unread' : Acknowledges(l)' => Remembers(l.id)' /\ NoneToHandle("reset")'
      BY <3>1, <3>3, <3>4, <3>5 DEF InOrder
    <3>12. NoneToHandle("close")' /\ (done' > 0 => NoneToHandle("reset")')
      BY <3>1, <3>3, <3>6 DEF InOrder
    <3> QED
      BY <3>8, <3>9, <3>10, <3>11, <3>12 DEF InOrder
  <2> QED
    BY <2>1, <2>7, <2>9, <2>12 DEF MemoryInv
<1>7. ASSUME NextRun PROVE MemoryInv'
  <2>1. /\ call = NoCall /\ call' = call /\ cur' = cur + 1 /\ done' = 0 /\ net' = net
        /\ cur < Len(Runs)
    BY <1>7 DEF NextRun
  <2>2. \/ stdin' = <<>> /\ pipe' = <<>> /\ buffer' = <<>>
        \/ stdin' = stdin /\ pipe' = pipe /\ buffer' = buffer
    BY <1>7 DEF NextRun, pipeVars
  <2>3. cur \in 1..Len(Runs) /\ Len(Runs) \in Nat
    BY TransportAssumption DEF OwnInv, MessagesOK
  <2>4. Past \subseteq Past' /\ Run' \notin Past
    <3>1. \A i \in 1..cur : i \in 1..cur' /\ i \in DOMAIN Runs /\ cur' \in DOMAIN Runs /\ i # cur'
      BY <2>1, <2>3, TransportAssumption
    <3> QED
      BY <3>1, TransportAssumption DEF Past, Run
  <2>5. /\ \A i \in 1..Len(stdin') : stdin'[i].op \in Working => stdin'[i].run \in Past
        /\ \A l \in Unread' : l.op \in Working => l.run \in Past
        /\ \A q \in net' : q.op \in Working => q.run \in Past
    BY <2>1, <2>2 DEF MemoryInv, NoneAhead, Unread
  <2>6. /\ \A i \in 1..Len(stdin') : ~Mine(stdin[i])'
        /\ \A l \in Unread' : ~Mine(l)'
        /\ \A q \in net' : ~Mine(q)'
    BY <2>4, <2>5 DEF Mine
  <2>7. InOrder'
    BY <2>1, <2>6 DEF InOrder, NoneToHandle, Acknowledges
  <2>8. Kept' /\ CallIsPlanned'
    BY <2>1 DEF Kept, CallIsPlanned
  <2>9. NoneAhead'
    BY <2>4, <2>5 DEF NoneAhead
  <2> QED
    BY <2>1, <2>6, <2>7, <2>8, <2>9 DEF MemoryInv
<1>8. ASSUME HostStep PROVE MemoryInv'
  <2>0. PICK req : req = Head(stdin)
    OBVIOUS
  <2>1. PICK raises \in BOOLEAN, long \in BOOLEAN :
          /\ pipe' = Append(pipe, Line(IF long THEN "long" ELSE Dispatch(req, raises).kind, req))
          /\ agents' = Dispatch(req, raises).agents
    BY <1>8, <2>0 DEF HostStep, Answer
  <2>16. PICK line : line = Line(IF long THEN "long" ELSE Dispatch(req, raises).kind, req)
    OBVIOUS
  <2>2. /\ Piped /\ Alive /\ stdin # <<>> /\ stdin' = Tail(stdin)
        /\ UNCHANGED <<proc, buffer, net, cur, phase, done, binding, call, last>>
    BY <1>8 DEF HostStep, Answer, runVars
  <2>3. /\ req \in Sent /\ 1 \in 1..Len(stdin) /\ req = stdin[1]
        /\ \A i \in 1..Len(stdin') : i + 1 \in 2..Len(stdin) /\ stdin'[i] = stdin[i + 1]
        /\ Len(stdin) \in Nat
    <3>1. stdin \in Seq(Sent)
      BY DEF OwnInv, MessagesOK
    <3> QED
      BY <2>0, <2>2, <3>1
  <2>4. req.op \in Operations
    BY <2>3 DEF Sent, Requests
  <2>5. line \in Lines /\ Dispatch(req, raises).kind \in {"ok", "error"}
    BY <2>16, <2>3, <2>4, DispatchAnswers, LineOfRequest
  <2>6. /\ line.op = req.op /\ line.run = req.run /\ line.id = req.id
        /\ line.kind = "ok" => Dispatch(req, raises).kind = "ok"
    BY <2>16 DEF Line
  <2>7. /\ req.op = "describe" \/ req.run # Run =>
              /\ Run \in DOMAIN agents' <=> Run \in DOMAIN agents
              /\ Run \in DOMAIN agents => agents'[Run] = agents[Run]
        /\ req.op = "observe" =>
              \A id : Remembers(id) => Run \in DOMAIN agents' /\ id \in agents'[Run]
        /\ req.op = "observe" /\ req.run = Run /\ Dispatch(req, raises).kind = "ok" =>
              Run \in DOMAIN agents' /\ req.id \in agents'[Run]
    BY <2>1, <2>3, DispatchRemembers
  <2>8. pipe' = Append(pipe, line)
    BY <2>1, <2>16
  <2>9. Unread' = Unread \cup {line}
    <3>1. {pipe'[i] : i \in 1..Len(pipe')} = {pipe[i] : i \in 1..Len(pipe)} \cup {line}
      BY <2>5, <2>8, AppendElements, SMTT(60) DEF OwnInv, MessagesOK
    <3> QED
      BY <2>2, <3>1 DEF Unread
  <2>10. /\ CallIsPlanned' /\ Past' = Past /\ Run' = Run /\ Open' = Open
         /\ Resetting' = Resetting /\ Piped' = Piped
    BY <2>2 DEF CallIsPlanned, Planned, IdOf, Past, Run, Open, Resetting, Piped, MemoryInv
  <2>11. NoneAhead'
    <3>1. \A i \in 1..Len(stdin') : i + 1 \in 1..Len(stdin) /\ stdin'[i] = stdin[i + 1]
      BY <2>3
    <3> QED
      BY <2>2, <2>3, <2>6, <2>9, <2>10, <3>1 DEF MemoryInv, NoneAhead
  <2>12. \A m : Mine(m)' <=> Mine(m)
    BY <2>10 DEF Mine
  <2>13. \A o : NoneToHandle(o) => NoneToHandle(o)'
    BY <2>3, <2>12 DEF NoneToHandle
  <2>14. \A id : Remembers(id)' <=> Run \in DOMAIN agents' /\ id \in agents'[Run]
    BY <2>10 DEF Remembers
  <2>15. ASSUME Open PROVE InOrder' /\ Kept'
    <3>1. InOrder /\ Kept /\ (Resetting => done = 0)
      BY <2>2, <2>15 DEF MemoryInv
    <3>2. /\ (\A l \in Unread' : Acknowledges(l)' => Remembers(l.id)' /\ NoneToHandle("reset")')
          /\ Kept'
          /\ Resetting => ~Acknowledges(line)
      <4>1. CASE ~Mine(req)
        <5>1. req.op = "describe" \/ req.run # Run
          BY <2>4, <4>1 DEF Mine, Working, Operations
        <5>2. \A id : Remembers(id)' <=> Remembers(id)
          BY <2>7, <2>14, <5>1 DEF Remembers
        <5>3. ~Acknowledges(line) /\ ~Acknowledges(line)'
          BY <2>6, <2>12, <4>1 DEF Acknowledges, Mine
        <5>4. \A l \in Unread : Acknowledges(l)' <=> Acknowledges(l)
          BY <2>12 DEF Acknowledges
        <5> QED
          BY <2>2, <2>9, <2>13, <3>1, <5>2, <5>3, <5>4 DEF InOrder, Kept
      <4>2. CASE Mine(req) /\ req.op = "observe"
        <5>1. ~Resetting
          BY <2>3, <3>1, <4>2 DEF InOrder, NoneToHandle
        <5>2. \A id : Remembers(id) => Remembers(id)'
          BY <2>7, <2>14, <4>2
        <5>3. Kept'
          BY <2>2, <3>1, <5>2 DEF Kept
        <5>4. NoneToHandle("reset")'
          <6>1. \A i \in 1..Len(stdin') : 1 < i + 1 /\ i + 1 \in 1..Len(stdin)
                                          /\ stdin'[i] = stdin[i + 1]
            BY <2>3
          <6> QED
            BY <2>3, <2>12, <3>1, <4>2, <6>1 DEF InOrder, NoneToHandle
        <5>5. Acknowledges(line)' => Remembers(line.id)'
          BY <2>6, <2>7, <2>14, <4>2 DEF Acknowledges, Mine
        <5>6. \A l \in Unread : Acknowledges(l)' => Remembers(l.id)'
          BY <2>12, <3>1, <5>2 DEF InOrder, Acknowledges
        <5> QED
          BY <2>9, <5>1, <5>3, <5>4, <5>5, <5>6
      <4>3. CASE Mine(req) /\ req.op = "reset"
        <5>1. ~NoneToHandle("reset")
          BY <2>3, <4>3 DEF NoneToHandle
        <5>2. done = 0 /\ \A l \in Unread : ~Acknowledges(l)
          <6>1. done \in Nat
            BY TransportAssumption DEF OwnInv, MessagesOK
          <6> QED
            BY <3>1, <5>1, <6>1 DEF InOrder
        <5>3. ~Acknowledges(line)
          BY <2>6, <4>3 DEF Acknowledges
        <5>4. \A l : Acknowledges(l)' <=> Acknowledges(l)
          BY <2>12 DEF Acknowledges
        <5>5. Kept'
          BY <2>2, <5>2 DEF Kept
        <5> QED
          BY <2>9, <5>2, <5>3, <5>4, <5>5
      <4>4. CASE Mine(req) /\ req.op = "close"
        BY <2>3, <3>1, <4>4 DEF InOrder, NoneToHandle
      <4> QED
        BY <4>1, <4>2, <4>3, <4>4 DEF Mine, Working
    <3>3. NoneToHandle("close")' /\ (done' > 0 => NoneToHandle("reset")')
      BY <2>2, <2>13, <3>1 DEF InOrder
    <3>4. Resetting' => NoneToHandle("observe")' /\ \A l \in Unread' : ~Acknowledges(l)'
      BY <2>9, <2>10, <2>12, <2>13, <3>1, <3>2 DEF InOrder, Acknowledges
    <3>5. ASSUME NEW i \in 1..Len(stdin'), NEW j \in 1..Len(stdin'), i < j,
                 Mine(stdin[i])', Mine(stdin[j])', stdin'[i].op = "observe"
          PROVE  stdin'[j].op # "reset"
      <4>1. /\ i + 1 \in 1..Len(stdin) /\ stdin'[i] = stdin[i + 1]
            /\ j + 1 \in 1..Len(stdin) /\ stdin'[j] = stdin[j + 1] /\ i + 1 < j + 1
        BY <2>3, <3>5
      <4>2. Mine(stdin[i + 1]) /\ Mine(stdin[j + 1])
        BY <2>10, <3>5, <4>1 DEF Mine
      <4> QED
        BY <3>1, <3>5, <4>1, <4>2 DEF InOrder
    <3>6. \A i, j \in 1..Len(stdin') :
              i < j /\ Mine(stdin[i])' /\ Mine(stdin[j])' /\ stdin'[i].op = "observe"
                => stdin'[j].op # "reset"
      BY <3>5
    <3> QED
      BY <3>2, <3>3, <3>4, <3>6 DEF InOrder
  <2> QED
    BY <2>2, <2>10, <2>11, <2>15 DEF MemoryInv
<1>11. ASSUME NEW req \in net, HttpStep(req) PROVE MemoryInv'
  <2>1. ~Piped /\ req \in Sent
    BY DEF StepInv, OwnInv, MessagesOK
  <2>2. req.op \in Operations
    BY <2>1 DEF Sent, Requests
  <2>3. PICK raises \in BOOLEAN, dropped \in BOOLEAN :
          /\ agents' = Dispatch(req, raises).agents
          /\ LET l == Line(Dispatch(req, raises).kind, req)
             IN  IF call = req
                 THEN Settle(req, IF dropped THEN "disconnected" ELSE Verdict(l, req), l)
                 ELSE UNCHANGED <<call, last, runVars, binding, sends, babble>>
    BY <1>11 DEF HttpStep
  <2> DEFINE line == Line(Dispatch(req, raises).kind, req)
             outcome == IF dropped THEN "disconnected" ELSE Verdict(line, req)
  <2>4. net' = net \ {req} /\ UNCHANGED <<proc, stdin, pipe, buffer>>
    BY <1>11 DEF HttpStep, pipeVars
  <2>5. /\ req.op = "describe" \/ req.run # Run =>
              /\ Run \in DOMAIN agents' <=> Run \in DOMAIN agents
              /\ Run \in DOMAIN agents => agents'[Run] = agents[Run]
        /\ req.op = "observe" =>
              \A id : Remembers(id) => Run \in DOMAIN agents' /\ id \in agents'[Run]
        /\ req.op = "observe" /\ req.run = Run /\ Dispatch(req, raises).kind = "ok" =>
              Run \in DOMAIN agents' /\ req.id \in agents'[Run]
    BY <2>1, <2>3, DispatchRemembers
  <2>6. CASE call = req
    <3>1. Settle(req, outcome, line)
      BY <2>3, <2>6
    <3>2. outcome = "ok" => Dispatch(req, raises).kind = "ok"
      <4>1. line \in Lines /\ line.kind = Dispatch(req, raises).kind
        BY <2>1, <2>2, DispatchAnswers, LineOfRequest DEF Line
      <4> QED
        BY <4>1, OkIsIdentified
    <3> HIDE DEF line, outcome
    <3>3. /\ req.op \in Planned /\ req.id = IdOf(req.op)
          /\ req.op # "describe" => req.run = Run
      BY <2>1, <2>6, TransportAssumption DEF MemoryInv, CallIsPlanned, Sent
    <3>4. /\ Run' = Run /\ Past' = Past /\ Piped' = Piped /\ call' = NoCall /\ CallIsPlanned'
          /\ Open' => Open /\ req.op # "close"
          /\ Open' /\ Resetting' => Resetting /\ done' = done
          /\ \/ done' = done
             \/ outcome = "ok" /\ req.op = "observe" /\ done' = done + 1
      BY <2>1, <2>6, <3>1, <3>3, SettleOpen
    <3>5. NoneAhead'
      BY <2>4, <3>4 DEF MemoryInv, NoneAhead, Unread
    <3>6. ASSUME Open' PROVE Kept'
      <4>1. Kept /\ (Resetting => done = 0) /\ req.op # "close"
        BY <2>1, <3>4, <3>6 DEF MemoryInv
      <4>2. \A id : Remembers(id)' <=> Run \in DOMAIN agents' /\ id \in agents'[Run]
        BY <3>4 DEF Remembers
      <4>3. CASE req.op = "describe"
        <5>1. \A id : Remembers(id)' <=> Remembers(id)
          BY <2>5, <4>2, <4>3 DEF Remembers
        <5>2. done' = done
          BY <3>4, <4>3
        <5> QED
          BY <4>1, <5>1, <5>2 DEF Kept
      <4>4. CASE req.op = "reset"
        <5>1. Resetting
          <6>1. phase \in {"new", "described", "active", "retry"}
            BY <3>4, <3>6 DEF Open
          <6>2. CASE phase = "retry"
            BY <3>3, <4>4, <6>2 DEF Planned, Resetting
          <6>3. CASE phase # "retry"
            BY <3>3, <4>4, <6>1, <6>3 DEF Planned, Resetting
          <6> QED
            BY <6>2, <6>3
        <5>2. done' = 0
          BY <3>4, <4>1, <4>4, <5>1
        <5> QED
          BY <5>2 DEF Kept
      <4>5. CASE req.op = "observe"
        <5>1. \A id : Remembers(id) => Remembers(id)'
          BY <2>5, <4>2, <4>5
        <5>2. done' # done => /\ Run \in DOMAIN agents'
                              /\ <<"req", RequestIds[done + 1]>> \in agents'[Run]
          <6>1. IdOf("observe") = <<"req", RequestIds[done + 1]>>
            BY DEF IdOf
          <6> QED
            BY <2>5, <3>2, <3>3, <3>4, <4>2, <4>5, <6>1
        <5>3. ASSUME NEW k \in 1..done'
              PROVE  k \in 1..done \/ (done' # done /\ k = done + 1)
          <6>1. done \in Nat
            BY TransportAssumption DEF OwnInv, MessagesOK
          <6> QED
            BY <3>4, <5>3, <6>1
        <5>4. \A k \in 1..done' : Remembers(<<"req", RequestIds[k]>>)'
          BY <4>1, <4>2, <5>1, <5>2, <5>3 DEF Kept
        <5> QED
          BY <5>4 DEF Kept
      <4> QED
        BY <2>2, <4>1, <4>3, <4>4, <4>5 DEF Operations
    <3>7. ASSUME Open' PROVE \A r \in net' : ~Mine(r)'
      <4>1. \A r \in net : Mine(r) => r = req
        BY <2>1, <2>6, <3>4, <3>7 DEF MemoryInv
      <4> QED
        BY <2>4, <3>4, <4>1 DEF Mine
    <3> QED
      BY <2>1, <3>4, <3>5, <3>6, <3>7 DEF MemoryInv
  <2>7. CASE call # req
    <3>1. UNCHANGED <<call, last, cur, phase, done, binding>>
      BY <2>3, <2>7 DEF runVars
    <3>2. /\ CallIsPlanned' /\ Past' = Past /\ Run' = Run /\ Open' = Open
          /\ Resetting' = Resetting /\ Piped' = Piped
      BY <3>1 DEF CallIsPlanned, Planned, IdOf, Past, Run, Open, Resetting, Piped, MemoryInv
    <3>3. NoneAhead'
      BY <2>4, <3>2 DEF MemoryInv, NoneAhead, Unread
    <3>4. ASSUME Open PROVE Kept' /\ \A r \in net' : Mine(r)' => r = call'
      <4>1. Kept /\ \A r \in net : Mine(r) => r = call
        BY <2>1, <3>4 DEF MemoryInv
      <4>2. req.op = "describe" \/ req.run # Run
        BY <2>2, <2>7, <4>1 DEF Mine, Working, Operations
      <4>3. \A id : Remembers(id)' <=> Remembers(id)
        BY <2>5, <3>2, <4>2 DEF Remembers
      <4> QED
        BY <2>4, <3>1, <3>2, <4>1, <4>3 DEF Kept, Mine
    <3> QED
      BY <2>1, <3>1, <3>2, <3>3, <3>4 DEF MemoryInv
  <2> QED
    BY <2>6, <2>7
<1> QED
  BY <1>1, <1>2, <1>3, <1>4, <1>5, <1>6, <1>7, <1>8, <1>9, <1>10, <1>11, <1>12 DEF Next

\* What was acknowledged in a run stays in the memory of the run's Agent until the run
\* is closed: no late, repeated or foreign request resets or replaces it (_rpc and
\* HttpAgentAdapter in transports.py, AgentHost.dispatch in protocol.py).
THEOREM AcknowledgedStays == Spec => []AcknowledgedIsRemembered
<1>1. OwnInv /\ MemoryInv => AcknowledgedIsRemembered
  <2> SUFFICES ASSUME OwnInv, MemoryInv,
                      phase \in {"active", "retry"}, done > 0, Piped => Alive,
                      call # NoCall => call.op # "close"
               PROVE  /\ Run \in DOMAIN agents
                      /\ \A k \in 1..done : <<"req", RequestIds[k]>> \in agents[Run]
    BY DEF AcknowledgedIsRemembered
  <2>1. Kept
    BY DEF MemoryInv, Open
  <2>2. 1 \in 1..done
    BY TransportAssumption DEF OwnInv, MessagesOK
  <2> QED
    BY <2>1, <2>2 DEF Kept, Remembers
<1> QED
  BY <1>1, OwnInit, OwnStep, StepInit, StepStep, MemoryInit, MemoryStep, PTL DEF Spec

----------------------------------------------------------------------------
(* Every step of a transport is a step of an exchange                       *)

\* A call that was out comes back with its own answer or as a failure.
LEMMA SettleReturns ==
    ASSUME NEW req, NEW outcome, NEW line, Settle(req, outcome, line), call # NoCall,
           outcome \notin {"none", "nothing"}, AnswerIsOwn'
    PROVE  ABS!Return
<1>1. call' = NoCall /\ last'.outcome = outcome
  BY DEF Settle
<1> QED
  BY <1>1 DEF ABS!Return

\* A call to a dead process fails, or does nothing, without ever being out.
LEMMA SettleAtOnce ==
    ASSUME NEW req, NEW outcome, NEW line, Settle(req, outcome, line), call = NoCall,
           outcome \in {"nothing", "dead", "broken_pipe"}
    PROVE  ABS!AtOnce
<1>1. call' = NoCall /\ last'.outcome = outcome
  BY DEF Settle
<1> QED
  BY <1>1 DEF ABS!AtOnce

\* What reading a line may come to.
LEMMA VerdictIsAnOutcome ==
    \A line, req : Verdict(line, req) \notin {"none", "nothing"}
BY DEF Verdict

\* Every step asks, returns, fails at once, or is not seen by the caller.
LEMMA StepExchange == OwnInv /\ [Next]_vars => [ABS!Next]_(ABS!exchange)
<1> SUFFICES ASSUME OwnInv, [Next]_vars PROVE [ABS!Next]_(ABS!exchange)
  OBVIOUS
<1>0. AnswerIsOwn'
  BY OwnStep, IdentityTellsAll DEF OwnInv, Accepted, AnswerIsOwn
<1>1. ASSUME NEW op \in Operations, CallTheDead(op) \/ SendBroken(op)
      PROVE  ABS!AtOnce
  <2>1. \E outcome \in {"nothing", "dead", "broken_pipe"} :
            Settle(NextRequest(op), outcome, Junk)
    BY <1>1 DEF CallTheDead, SendBroken
  <2>2. call = NoCall
    BY <1>1 DEF CallTheDead, SendBroken
  <2> QED
    BY <2>1, <2>2, SettleAtOnce
<1>2. ASSUME NEW op \in Operations, Send(op) PROVE ABS!Ask
  <2>1. NextRequest(op) # NoCall
    BY <1>2, PlannedIsRequest, TransportAssumption DEF Send, OwnInv, Sent
  <2>2. call = NoCall /\ call' # NoCall
    BY <1>2, <2>1 DEF Send
  <2> QED
    BY <2>2 DEF ABS!Ask
<1>3. ASSUME Receive \/ ReceiveEof \/ TimeOut PROVE ABS!Return
  <2>1. call # NoCall
    BY <1>3 DEF Receive, ReceiveEof, TimeOut
  <2>2. \E outcome, line :
            Settle(call, outcome, line) /\ outcome \notin {"none", "nothing"}
    BY <1>3, VerdictIsAnOutcome DEF Receive, ReceiveEof, TimeOut
  <2> QED
    BY <1>0, <2>1, <2>2, SettleReturns
<1>4. ASSUME NEW req \in net, HttpStep(req), call = req PROVE ABS!Return
  <2>1. call # NoCall
    BY <1>4, TransportAssumption DEF OwnInv, MessagesOK, Sent
  <2>2. \E outcome, line :
            Settle(req, outcome, line) /\ outcome \notin {"none", "nothing"}
    BY <1>4, VerdictIsAnOutcome DEF HttpStep
  <2> QED
    BY <1>0, <2>1, <2>2, SettleReturns
<1>5. ASSUME NEW req \in net, HttpStep(req), call # req PROVE UNCHANGED <<call, last>>
  BY <1>5 DEF HttpStep
<1>6. NextRun \/ HostStep \/ HostBabbles \/ HostExits \/ UNCHANGED vars
        => UNCHANGED <<call, last>>
  BY DEF NextRun, HostStep, HostBabbles, HostExits, vars
<1>7. UNCHANGED <<call, last>> => UNCHANGED ABS!exchange
  BY DEF ABS!exchange, AnswerIsOwn
<1> QED
  BY <1>1, <1>2, <1>3, <1>4, <1>5, <1>6, <1>7 DEF Next, ABS!Next

\* Over whatever binding, a call comes back only once, with the answer to that
\* very call or as a failure: the steps of ImplementsExchange, whose fairness
\* (that a call does come back) TLC checks.
THEOREM TransportIsAnExchange == Spec => ABS!Safe
<1>1. ASSUME Init PROVE ABS!Init
  <2>1. call = NoCall /\ last.outcome = "none"
    BY <1>1 DEF Init
  <2> QED
    BY <2>1 DEF ABS!Init
<1> QED
  BY <1>1, OwnInit, OwnStep, StepExchange, PTL DEF Spec, ABS!Safe

==============================================================================

--------------------------- MODULE AgentTransport ---------------------------
(***************************************************************************)
(* The adapters between the Runner and an Agent (transports.py) and the    *)
(* host at the Agent's end (protocol.py, server.py).  A stdio Agent is a   *)
(* process that is spoken to line by line, one per run or, when it is      *)
(* persistent, one for all of them; an HTTP Agent is a server that handles *)
(* each request in a thread of its own, at any time after it was sent.     *)
(*                                                                         *)
(* The caller is the Runner: describe, reset, observations, close, one     *)
(* run after the other, an AgentTransportError retried under the same      *)
(* request id.  "observe" stands for every operation that works on the     *)
(* Agent of the run.  Every send has a number, which no message carries.   *)
(***************************************************************************)
EXTENDS LinePipe, FiniteSets

CONSTANTS
    Bindings,       \* the bindings that are used: "stdio", "persistent", "http"
    Runs,           \* the run ids, in the order they are run
    RequestIds,     \* the request ids of a run's observations, in order
    Retries,        \* transport_retries
    MaxBabble,      \* bound: how often the Agent misbehaves on its output
    NoCall

Operations == {"describe", "reset", "observe", "close"}

RunIds == {Runs[i] : i \in DOMAIN Runs}
Ids == {"describe", "reset", "req", "close", ""}
         \X ({RequestIds[i] : i \in DOMAIN RequestIds} \cup RunIds \cup {""})

\* What travels from the caller to the host.
Requests == [op : Operations, run : RunIds \cup {"descriptor"}, id : Ids,
             n : Nat, attempt : Nat]

ASSUME TransportAssumption ==
    /\ Bindings \subseteq {"stdio", "persistent", "http"}
    /\ Retries \in Nat /\ MaxBabble \in Nat
    /\ Runs \in Seq(RunIds) /\ Runs # <<>>
    /\ \A i, j \in DOMAIN Runs : Runs[i] = Runs[j] => i = j
    /\ RequestIds \in Seq({RequestIds[i] : i \in DOMAIN RequestIds})
    /\ NoCall \notin Requests

VARIABLES
    binding,   \* how this Agent is reached
    net,       \* HTTP: the requests sent and not yet handled
    agents,    \* AgentHost.agents: a function from runs to their Agents' memories
    cur,       \* the run being run, as an index into Runs
    phase,     \* how far it is
    done,      \* observations acknowledged in it
    call,      \* the call the adapter is waiting for
    last,      \* the last call that came back: what was asked and how it ended
    sends,     \* requests written so far
    babble     \* misbehaviour so far

hostVars == <<net, agents>>
runVars == <<cur, phase, done>>
vars == <<pipeVars, hostVars, runVars, binding, call, last, sends, babble>>

Piped == binding \in {"stdio", "persistent"}
Run == Runs[cur]
NoAgents == [r \in {} |-> {}]

----------------------------------------------------------------------------
(* Requests and answers *)

Request(op, id, n, attempt) ==
    [op |-> op, run |-> IF op = "describe" THEN "descriptor" ELSE Run,
     id |-> id, n |-> n, attempt |-> attempt]

\* The request ids: fixed for describe, and per run for reset and close.
IdOf(op) == CASE op = "describe" -> <<"describe", "">>
              [] op \in {"reset", "close"} -> <<op, Run>>
              [] OTHER -> <<"req", RequestIds[done + 1]>>

Line(kind, req) ==
    [kind |-> kind, op |-> req.op, run |-> req.run, id |-> req.id, n |-> req.n]

\* A line that answers nothing: of another protocol, or not JSON at all.
Foreign == [kind |-> "ok", op |-> "", run |-> "", id |-> <<"", "">>, n |-> 0]
Junk == [Foreign EXCEPT !.kind = "junk"]

\* IDENTITY_FIELDS: the answer names the request and the run.
SameIdentity(line, req) == line.id = req.id /\ line.run = req.run

\* Mutant: the request an answer belongs to is not looked at.
VerdictWithoutId(line, req) ==
    CASE line.kind = "long" -> "too_long"
      [] line.kind = "junk" -> "undecodable"
      [] line.kind \in {"ok", "error"} /\ line.run # req.run -> "mismatch"
      [] line.kind = "error" /\ line.run = req.run -> "agent_error"
      [] OTHER -> "ok"

\* The outcome of reading a line, in the order of _rpc and _check_response.
Verdict(line, req) ==
    CASE line.kind = "long" -> "too_long"
      [] line.kind = "junk" -> "undecodable"
      [] line.kind \in {"ok", "error"} /\ ~SameIdentity(line, req) -> "mismatch"
      [] line.kind = "error" /\ SameIdentity(line, req) -> "agent_error"
      [] OTHER -> "ok"

\* Mutant: a timeout is retried too.
RetryableOrLate(outcome) ==
    outcome \in {"too_long", "mismatch", "agent_error", "closed_output", "dead",
                 "timeout"}

\* What is raised as AgentTransportError, and so retried.  Timeouts, undecodable
\* answers, broken pipes and connections raise something else.
Retryable(outcome) ==
    outcome \in {"too_long", "mismatch", "agent_error", "closed_output", "dead"}

----------------------------------------------------------------------------
(* The Runner's side *)

\* How a call that ended with this outcome moves the run on.  Only describe and
\* close are not retried; what fails for good leaves nothing but close.
Settle(req, outcome, line) ==
    /\ call' = NoCall
    /\ last' = [req |-> req, outcome |-> outcome, line |-> line]
    /\ phase' = CASE outcome = "ok" /\ req.op = "describe" -> "described"
                  [] outcome = "ok" /\ req.op \in {"reset", "observe"} -> "active"
                  [] req.op = "close" -> "closed"
                  [] /\ req.op \in {"reset", "observe"}
                     /\ Retryable(outcome) /\ req.attempt < Retries -> "retry"
                  [] OTHER -> "failed"
    /\ done' = IF outcome = "ok" /\ req.op = "observe" THEN done + 1 ELSE done
    /\ UNCHANGED <<cur, binding, sends, babble>>

\* The next operation of the run, a failed one again under its old id.
Planned ==
    CASE phase = "new" -> {"describe"}
      [] phase = "described" -> {"reset"}
      [] phase = "active" ->
            {"close"} \cup (IF done < Len(RequestIds) THEN {"observe"} ELSE {})
      [] phase = "retry" -> {last.req.op}
      [] phase = "failed" -> {"close"}
      [] OTHER -> {}

NextRequest(op) ==
    Request(op, IdOf(op), sends + 1, IF phase = "retry" THEN last.req.attempt + 1 ELSE 0)

\* A process that has ended: calls fail at once, close has nothing to do.
CallTheDead(op) ==
    /\ Piped /\ call = NoCall /\ op \in Planned /\ ~Alive
    /\ Settle(NextRequest(op), IF op = "close" THEN "nothing" ELSE "dead", Junk)
    /\ IF op = "close" /\ binding = "stdio" THEN Terminated ELSE UNCHANGED pipeVars
    /\ UNCHANGED hostVars

Send(op) ==
    /\ call = NoCall /\ op \in Planned
    /\ sends' = sends + 1
    /\ call' = NextRequest(op)
    /\ IF Piped THEN Alive /\ WriteLine(NextRequest(op)) /\ UNCHANGED net
       ELSE net' = net \cup {NextRequest(op)} /\ UNCHANGED pipeVars
    /\ UNCHANGED <<agents, runVars, binding, last, babble>>

\* The process ends between the poll and the write.
SendBroken(op) ==
    /\ Piped /\ call = NoCall /\ op \in Planned /\ Alive
    /\ Settle(NextRequest(op), "broken_pipe", Junk)
    /\ Exit
    /\ agents' = NoAgents
    /\ UNCHANGED net

\* close terminates the process of one run, however the exchange went.
AfterClose == IF call.op = "close" /\ binding = "stdio" THEN "terminated" ELSE proc

Receive ==
    /\ Piped /\ call # NoCall
    /\ LET line == Head(Fetched)
       IN  /\ ReadLine(IF line.kind = "long" THEN <<Junk>> ELSE <<>>)
           /\ Settle(call, Verdict(line, call), line)
    /\ proc' = AfterClose
    /\ UNCHANGED hostVars

ReceiveEof ==
    /\ Piped /\ call # NoCall /\ ReadsEof
    /\ Settle(call, "closed_output", Junk)
    /\ proc' = AfterClose
    /\ UNCHANGED <<stdin, pipe, buffer, hostVars>>

\* Mutant: the process is left running, and the channel is used again.
TimeOutAndStay ==
    /\ call # NoCall
    /\ Piped => ~Readable
    /\ Settle(call, "timeout", Junk)
    /\ UNCHANGED <<pipeVars, hostVars>>

\* Mutant: select is called again when nothing came.
TimeOutAndWait ==
    /\ call # NoCall
    /\ Piped => ~Readable
    /\ UNCHANGED vars

\* Nothing came in time.  An answer may still come, so a pipe is not used
\* again; an HTTP request may still be handled.
TimeOut ==
    /\ call # NoCall
    /\ Piped => ~Readable
    /\ Settle(call, "timeout", Junk)
    /\ IF Piped THEN Terminated ELSE UNCHANGED pipeVars
    /\ agents' = IF Piped THEN NoAgents ELSE agents
    /\ UNCHANGED net

\* The factory makes an adapter for the next run: a process of its own, or the
\* same Agent as before.
NextRun ==
    /\ phase = "closed" /\ call = NoCall /\ cur < Len(Runs)
    /\ cur' = cur + 1 /\ phase' = "new" /\ done' = 0
    /\ IF binding = "stdio"
       THEN /\ proc' = "running" /\ stdin' = <<>> /\ pipe' = <<>> /\ buffer' = <<>>
            /\ agents' = NoAgents
       ELSE UNCHANGED <<pipeVars, agents>>
    /\ UNCHANGED <<net, binding, call, last, sends, babble>>

----------------------------------------------------------------------------
(* The Agent's side *)

\* AgentHost.dispatch, with an Agent that does not form a memory twice for one
\* request id: the answer and the Agents after it.  The Agent may raise.
Dispatch(req, raises) ==
    LET ok(after) == [kind |-> "ok", agents |-> after]
    IN  CASE req.op = "describe" -> ok(agents)
          [] req.op = "reset" -> ok([r \in DOMAIN agents \cup {req.run} |->
                                      IF r = req.run THEN {} ELSE agents[r]])
          [] req.op = "close" -> ok([r \in DOMAIN agents \ {req.run} |-> agents[r]])
          [] req.op = "observe" /\ req.run \notin DOMAIN agents -> [kind |-> "error", agents |-> agents]
          [] OTHER -> [kind |-> IF raises THEN "error" ELSE "ok",
                       agents |-> IF raises THEN agents
                                  ELSE [agents EXCEPT ![req.run] = @ \cup {req.id}]]

\* serve_stdio: one line in, one line out.  The line may be longer than the
\* adapter reads at once.
HostStep ==
    /\ Piped /\ stdin # <<>>
    /\ \E raises, long \in BOOLEAN :
          LET outcome == Dispatch(Head(stdin), raises)
          IN  /\ raises \/ long => babble < MaxBabble
              /\ Answer(Line(IF long THEN "long" ELSE outcome.kind, Head(stdin)))
              /\ agents' = outcome.agents
              /\ babble' = IF raises \/ long THEN babble + 1 ELSE babble
    /\ UNCHANGED <<net, runVars, binding, call, last, sends>>

\* Something in the Agent's process prints.
HostBabbles ==
    /\ Piped /\ babble < MaxBabble
    /\ \E line \in {Foreign, Junk} : Babble(line)
    /\ babble' = babble + 1
    /\ UNCHANGED <<hostVars, runVars, binding, call, last, sends>>

HostExits ==
    /\ Piped /\ Exit
    /\ agents' = NoAgents
    /\ UNCHANGED <<net, runVars, binding, call, last, sends, babble>>

\* do_POST: a thread handles a request.  Its answer reaches the caller if that
\* is still waiting and the connection holds.
HttpStep(req) ==
    /\ req \in net
    /\ net' = net \ {req}
    /\ \E raises, dropped \in BOOLEAN :
          LET outcome == Dispatch(req, raises)
              line == Line(outcome.kind, req)
          IN  /\ agents' = outcome.agents
              /\ IF call = req
                 THEN Settle(req, IF dropped THEN "disconnected" ELSE Verdict(line, req), line)
                 ELSE UNCHANGED <<call, last, runVars, binding, sends, babble>>
    /\ UNCHANGED pipeVars

----------------------------------------------------------------------------

Init ==
    /\ binding \in Bindings
    /\ InitPipe
    /\ net = {} /\ agents = NoAgents
    /\ cur = 1 /\ phase = "new" /\ done = 0
    /\ call = NoCall
    /\ last = [req |-> NoCall, outcome |-> "none", line |-> Junk]
    /\ sends = 0 /\ babble = 0

Next ==
    \/ \E op \in Operations : CallTheDead(op) \/ Send(op) \/ SendBroken(op)
    \/ Receive \/ ReceiveEof \/ TimeOut \/ NextRun
    \/ HostStep \/ HostBabbles \/ HostExits
    \/ \E req \in net : HttpStep(req)

Spec == Init /\ [][Next]_vars

\* select and the HTTP client come back in time.
FairSpec == Spec /\ WF_vars(Receive) /\ WF_vars(ReceiveEof) /\ WF_vars(TimeOut)

----------------------------------------------------------------------------
(* Properties *)

\* What comes back as a success is the host's answer to a request of that name,
\* of that run, for that operation: _check_response against lines that are
\* stale, late or of no request.
AnswerIsOwn ==
    last.outcome = "ok" =>
        last.line.op = last.req.op /\ last.line.run = last.req.run
        /\ last.line.id = last.req.id

\* An Agent that answers every request with one line of its own is never told
\* that an answer is not its own: neither a timeout nor a retry puts the caller
\* out of step with the pipe (_rpc terminates a timed-out process).
InStep == babble = 0 => last.outcome # "mismatch"

\* What was acknowledged in a run is in the memory of the run's Agent until the
\* run is closed: no late, repeated or foreign request resets or replaces it.
AcknowledgedIsRemembered ==
    /\ phase \in {"active", "retry"} /\ done > 0 /\ (Piped => Alive)
    /\ call # NoCall => call.op # "close"
    =>
        /\ Run \in DOMAIN agents
        /\ \A k \in 1..done : <<"req", RequestIds[k]>> \in agents[Run]

\* Every call comes back, with its own answer or as a failure.
ABS == INSTANCE Exchange WITH
    asking <- call # NoCall,
    got <- IF call # NoCall \/ last.outcome \in {"none", "nothing"} THEN "nothing"
           ELSE IF last.outcome # "ok" THEN "failure"
           ELSE IF AnswerIsOwn THEN "own" ELSE "wrong"

ImplementsExchange == ABS!Spec

============================================================================

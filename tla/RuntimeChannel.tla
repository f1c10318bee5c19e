--------------------------- MODULE RuntimeChannel ---------------------------
(***************************************************************************)
(* SshRuntimeClient (apps/core/src/ssh-runtime-client.ts) at its end of    *)
(* the SSH channel, called by RemoteRuntimeManager.connect (the handshake) *)
(* and by the connect and execute of RemoteSessionManager; RuntimeServer   *)
(* is the other end.                                                       *)
(* Requests are chained so that each is dispatched when the one before has *)
(* settled; a request settles with an answer, or when it times out, cannot *)
(* be written, or the client closes.                                       *)
(***************************************************************************)
EXTENDS RuntimeServer

VARIABLES
    chain,       \* requests behind dispatchTail, in the order of the calls
    pending,     \* requests written and not settled
    outcome,     \* Requests -> how its promise settled, or None
    closed,      \* the client's flag
    evidence     \* session.docker: what docker.inspect answered

client == <<chain, pending, outcome, closed, evidence>>
all == <<serverVars, client>>

Local == {"is_closed", "closed", "request_too_large", "timed_out",
          "write_failed", "exited", "aborted", "mismatch"}

ASSUME ChannelAssumption == None \notin Local

ChannelInit ==
    /\ ServerInit
    /\ chain = <<>> /\ pending = {} /\ closed = FALSE
    /\ outcome = [r \in Requests |-> None]
    /\ evidence = None

-----------------------------------------------------------------------------
(* Settling.                                                               *)

Settled(r) == outcome[r] # None

\* failAll, after the outcomes `kept` of the step.
FailAll(reason, kept) ==
    /\ outcome' = [r \in Requests |->
          IF r \in pending /\ kept[r] = None THEN reason ELSE kept[r]]
    /\ pending' = {}

\* child.kill(): ssh ends, and with it the channel.
Kill ==
    /\ connected' = FALSE
    /\ IF connected THEN Lose ELSE UNCHANGED <<input, unsent>>

-----------------------------------------------------------------------------
(* The calls.                                                              *)

Called(m) == \E r \in Requests : method[r] = m
Verified == \E r \in Requests : method[r] = "handshake" /\ outcome[r] = "ok"

\* A connection is used once its handshake is answered, for a container once
\* its inspection is; executions are then called without waiting.
Permitted(m) ==
    CASE m = "handshake" -> ~Called("handshake")
      [] m = "docker.inspect" -> /\ Verified /\ ~Called("docker.inspect")
                                 /\ ~Called("exec")
      [] m = "exec" -> Verified /\ ~Called("docker.inspect")
      [] m = "docker.exec" -> evidence # None

\* request: the call joins the chain.
Call(r, m) ==
    /\ method[r] = None /\ \A p \in 1..(r - 1) : method[p] # None
    /\ Permitted(m)
    /\ method' = [method EXCEPT ![r] = m]
    /\ binding' = [binding EXCEPT ![r] =
          IF m = "docker.exec" THEN evidence ELSE None]
    /\ chain' = Append(chain, r)
    /\ UNCHANGED <<connected, input, unsent, output, server, host, pending,
                   outcome, closed, evidence>>

\* Mutant: a rejected request is not caught, the chain ends with it.
TurnUncaught(r) == \A p \in Requests :
    method[p] # None /\ p \notin Range(chain) => outcome[p] \in Codes

\* The promise of the request before r in the chain has settled.
Turn(r) == \A p \in Requests :
    method[p] # None /\ p \notin Range(chain) => Settled(p)

\* dispatchRequest: refused when the client is closed or the line too long,
\* else remembered and written, to no effect when ssh has gone.
Dispatch(r, oversized) ==
    /\ chain # <<>> /\ r = Head(chain) /\ Turn(r)
    /\ chain' = Tail(chain)
    /\ IF closed \/ oversized
       THEN /\ outcome' = [outcome EXCEPT ![r] =
                   IF closed THEN "is_closed" ELSE "request_too_large"]
            /\ UNCHANGED <<input, unsent, pending>>
       ELSE /\ pending' = pending \cup {r}
            /\ IF connected THEN input' = Append(input, r) /\ UNCHANGED unsent
               ELSE unsent' = unsent \cup {r} /\ UNCHANGED input
            /\ UNCHANGED outcome
    /\ UNCHANGED <<method, binding, connected, output, server, host, closed,
                   evidence>>

\* close(), called when the session ends.
Close ==
    /\ ~closed /\ closed' = TRUE
    /\ FailAll("closed", outcome)
    /\ Kill
    /\ UNCHANGED <<method, binding, output, server, host, chain, evidence>>

-----------------------------------------------------------------------------
(* Timers and events of the child process.                                 *)

\* Mutant: a request times out alone and the client stays open.
TimedOutAlone(r) ==
    /\ outcome' = [outcome EXCEPT ![r] = "timed_out"]
    /\ pending' = pending \ {r}
    /\ UNCHANGED <<closed, connected, input, unsent>>

\* The request is rejected, then close() runs.
TimedOut(r) ==
    LET rejected == [outcome EXCEPT ![r] = "timed_out"] IN
    IF closed
    THEN /\ outcome' = rejected /\ pending' = pending \ {r}
         /\ UNCHANGED <<closed, connected, input, unsent>>
    ELSE closed' = TRUE /\ FailAll("closed", rejected) /\ Kill

Timeout(r) ==
    /\ r \in pending
    /\ TimedOut(r)
    /\ UNCHANGED <<method, binding, output, server, host, chain, evidence>>

\* stdin.write calls back with an error: only this request is rejected.
WriteFails(r) ==
    /\ r \in pending \cap unsent
    /\ outcome' = [outcome EXCEPT ![r] = "write_failed"]
    /\ pending' = pending \ {r}
    /\ UNCHANGED <<serverVars, chain, closed, evidence>>

\* "exit" and "error" of the child: markClosed.
ChildExit ==
    /\ ~connected /\ ~closed /\ closed' = TRUE
    /\ FailAll("exited", outcome)
    /\ UNCHANGED <<serverVars, chain, evidence>>

-----------------------------------------------------------------------------
(* Standard output.                                                        *)

\* A line that is no response, or too long: abort.
Garbage ==
    /\ connected /\ ~closed /\ closed' = TRUE
    /\ FailAll("aborted", outcome)
    /\ Kill
    /\ UNCHANGED <<method, binding, output, server, host, chain, evidence>>

\* handleLine: an answer nobody waits for is dropped.  A result outside its
\* schema rejects the request, then aborts.
Receive ==
    /\ output # <<>> /\ output' = Tail(output)
    /\ LET answer == Head(output)
           r == answer.request IN
       \/ /\ r \notin pending
          /\ UNCHANGED <<connected, input, unsent, client>>
       \/ /\ r \in pending
          /\ pending' = pending \ {r}
          /\ outcome' = [outcome EXCEPT ![r] = answer.code]
          /\ evidence' = IF answer.evidence # None THEN answer.evidence
                         ELSE evidence
          /\ UNCHANGED <<connected, input, unsent, chain, closed>>
       \/ /\ r \in pending /\ answer.code = "ok"
          /\ closed' = TRUE
          /\ FailAll("aborted", [outcome EXCEPT ![r] = "mismatch"])
          /\ Kill
          /\ UNCHANGED <<chain, evidence>>
    /\ UNCHANGED <<method, binding, server, host>>

ClientNext ==
    \/ \E r \in Requests : \/ \E m \in Methods : Call(r, m)
                           \/ \E oversized \in BOOLEAN : Dispatch(r, oversized)
                           \/ Timeout(r) \/ WriteFails(r)
    \/ Close \/ ChildExit \/ Garbage \/ Receive

ChannelNext == ClientNext \/ (ServerNext /\ UNCHANGED client)

ChannelSpec == ChannelInit /\ [][ChannelNext]_all

\* The Core's timers fire and its promise reactions run; nothing is assumed
\* of the host or of the network.
ChannelFairSpec ==
    /\ ChannelSpec
    /\ \A r \in Requests :
          /\ WF_all(\E oversized \in BOOLEAN : Dispatch(r, oversized))
          /\ WF_all(Timeout(r))

-----------------------------------------------------------------------------

ChannelTypeOK ==
    /\ ServerTypeOK
    /\ chain \in Seq(Requests)
    /\ pending \subseteq Requests
    /\ outcome \in [Requests -> Codes \cup Local \cup {None}]
    /\ closed \in BOOLEAN
    /\ evidence \in Places \cup {None}
    /\ \A r \in pending : ~Settled(r) /\ method[r] # None

\* The requests that are somewhere between the two ends.
InChannel == Range(input) \cup {answer.request : answer \in Range(output)}
             \cup ({server.request} \ {None})

\* While the client is open and connected, nothing is in the channel but the
\* request somebody still waits for: a late answer of an earlier request can
\* never meet a later one.  A timeout therefore has to close the client.
NoLateAnswer ==
    /\ ChannelTypeOK
    /\ connected /\ ~closed => /\ InChannel \subseteq pending
                               /\ Cardinality(pending) <= 1

\* An answer that says the command was refused is true for good: the program
\* was not started and never will be, although the docker client, the guard
\* and the container go their own ways.
RefusedNeverRuns ==
    \A r \in Requests :
        outcome[r] \in {"is_closed", "request_too_large", "write_failed",
                        "stale_binding", "invalid_params"}
        => starts[r] = <<>>

\* A program in a container only ever starts in the start of the container,
\* and as the user, that the session was bound to.
RunsWhereBound ==
    \A r \in Requests : \A i \in 1..Len(starts[r]) :
        starts[r][i] = IF method[r] = "docker.exec" THEN binding[r] ELSE Host

\* A result means one run that has ended.
ResultMeansEnded ==
    \A r \in Requests :
        outcome[r] = "ok" /\ method[r] \in {"exec", "docker.exec"}
        => Len(starts[r]) = 1 /\ r \notin alive

\* Every call settles, whatever the host does.
EveryCallSettles ==
    \A r \in Requests : method[r] # None ~> Settled(r)

=============================================================================

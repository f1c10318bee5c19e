---------------------------- MODULE CodexClient ----------------------------
(***************************************************************************)
(* CodexAppServer: one child process that speaks JSON-RPC on its standard  *)
(* streams, requests that wait for the response of their id, and turns     *)
(* that wait for a notification of their thread.                           *)
(*                                                                         *)
(* Lines that arrive in one chunk are handled in one go; what awaits a     *)
(* response goes on after the chunk, before anything else. A call in       *)
(* "answered" is between the two, and only further lines of its chunk can  *)
(* come first.                                                             *)
(***************************************************************************)
EXTENDS Naturals, Sequences, FiniteSets

CONSTANTS
    Calls,      \* calls of runTurn
    ThreadOf,   \* Calls -> the Codex thread of their conversation
    None,
    MaxChildren \* bound: processes that are started

ASSUME CodexAssumption == None \notin Calls /\ MaxChildren \in Nat \ {0}

Threads == {ThreadOf[c] : c \in Calls}
Processes == 1..MaxChildren
Nobody == 0

VARIABLES
    alive,     \* processes that run
    spawned,   \* processes started so far
    child,     \* the process the client holds
    starting,  \* the process whose initialize startPromise waits for
    ready,
    step,      \* call -> how far it is
    on,        \* call -> the process its turn/start went to
    turns,     \* thread -> the call that waits for its turn/completed
    answer,    \* call -> the turn whose completion settled it
    lost,      \* calls whose turn/completed came before they waited for it
    begun,     \* turns a process runs
    lines      \* process -> its lines the client has not read

client == <<child, starting, ready>>
server == <<alive, begun>>
vars == <<client, server, spawned, step, on, turns, answer, lost, lines>>

Init ==
    /\ alive = {} /\ spawned = 0 /\ begun = {}
    /\ child = Nobody /\ starting = Nobody /\ ready = FALSE
    /\ step = [c \in Calls |-> "new"]
    /\ on = [c \in Calls |-> Nobody]
    /\ turns = [t \in Threads |-> None]
    /\ answer = [c \in Calls |-> None]
    /\ lost = {}
    /\ lines = [p \in Processes |-> << >>]

Line(kind, c) == [kind |-> kind, call |-> c]
Says(p, line) == lines' = [lines EXCEPT ![p] = Append(@, line)]

Active(c) == step[c] \in {"starting", "waiting", "answered", "running"}
MidChunk == \E c \in Calls : step[c] = "answered"

-----------------------------------------------------------------------------
(* Codex, as the client relies on it.                                      *)

Initializes(p) ==
    /\ p \in alive /\ starting = p /\ lines[p] = << >>
    /\ Says(p, Line("ready", None))
    /\ UNCHANGED <<client, server, spawned, step, on, turns, answer, lost>>

\* turn/start is answered and the turn begins, timed out at the client or not.
Begins(c) ==
    /\ on[c] \in alive /\ c \notin begun
    /\ begun' = begun \cup {c}
    /\ Says(on[c], Line("started", c))
    /\ UNCHANGED <<client, alive, spawned, step, on, turns, answer, lost>>

Completes(c) ==
    /\ on[c] \in alive /\ c \in begun
    /\ ~ \E i \in DOMAIN lines[on[c]] : lines[on[c]][i] = Line("completed", c)
    /\ c \notin lost /\ ~ \E d \in Calls : answer[d] = c
    /\ Says(on[c], Line("completed", c))
    /\ UNCHANGED <<client, server, spawned, step, on, turns, answer, lost>>

-----------------------------------------------------------------------------
(* The client.                                                             *)

\* send of rawRequest, to the process the client holds.
Requested(set) ==
    /\ step' = [c \in Calls |-> IF c \in set THEN "waiting" ELSE step[c]]
    /\ on' = [c \in Calls |-> IF c \in set THEN child ELSE on[c]]

\* runTurn, which the conversation service calls for one turn of a
\* conversation at a time; ensureStarted starts a process if none is ready
\* or about to be.
RunTurn(c) ==
    /\ ~MidChunk
    /\ step[c] = "new"
    /\ ~ \E d \in Calls : Active(d) /\ ThreadOf[d] = ThreadOf[c]
    /\ IF ready THEN Requested({c}) /\ UNCHANGED <<client, alive, spawned>>
       ELSE /\ step' = [step EXCEPT ![c] = "starting"]
            /\ UNCHANGED on
            /\ IF starting # Nobody THEN UNCHANGED <<client, alive, spawned>>
               ELSE /\ spawned < MaxChildren
                    /\ spawned' = spawned + 1
                    /\ alive' = alive \cup {spawned'}
                    /\ child' = spawned' /\ starting' = spawned'
                    /\ UNCHANGED ready
    /\ UNCHANGED <<begun, turns, answer, lost, lines>>

\* The answer to initialize: the calls that waited for it send theirs. One
\* that comes after the timeout is ignored.
HandleReady(p) ==
    IF starting = p
    THEN /\ starting' = Nobody /\ ready' = TRUE
         /\ Requested({c \in Calls : step[c] = "starting"})
         /\ UNCHANGED child
    ELSE UNCHANGED <<client, step, on>>

HandleStarted(c) ==
    step' = IF step[c] = "waiting" THEN [step EXCEPT ![c] = "answered"] ELSE step

\* Mutant: the thread of the notification is not looked at.
AnyWaiter(c) == CHOOSE d \in Calls \cup {None} :
    d = None => \A t \in Threads : turns[t] = None

\* The waiter is found by the thread of the notification.
Waiter(c) == turns[ThreadOf[c]]

HandleCompleted(c) ==
    IF Waiter(c) # None
    THEN /\ step' = [step EXCEPT ![Waiter(c)] = "done"]
         /\ answer' = [answer EXCEPT ![Waiter(c)] = c]
         /\ turns' = [turns EXCEPT ![ThreadOf[Waiter(c)]] = None]
         /\ UNCHANGED lost
    ELSE lost' = lost \cup {c} /\ UNCHANGED <<step, answer, turns>>

HandleLine(p) ==
    /\ lines[p] # << >>
    /\ lines' = [lines EXCEPT ![p] = Tail(@)]
    /\ LET line == Head(lines[p]) IN
       \/ /\ line.kind = "ready" /\ HandleReady(p)
          /\ UNCHANGED <<turns, answer, lost>>
       \/ /\ line.kind = "started" /\ HandleStarted(line.call)
          /\ UNCHANGED <<client, on, turns, answer, lost>>
       \/ /\ line.kind = "completed" /\ HandleCompleted(line.call)
          /\ UNCHANGED <<client, on>>
    /\ UNCHANGED <<server, spawned>>

\* A line of another chunk has to wait for what awaits this one.
ReadsLine(p) ==
    /\ \A c \in Calls : step[c] = "answered" => on[c] = p
    /\ HandleLine(p)

\* runTurn goes on once turn/start is answered: only now it waits for the
\* notification.
WaitsForTurn(c) ==
    /\ step[c] = "answered"
    /\ step' = [step EXCEPT ![c] = "running"]
    /\ turns' = [turns EXCEPT ![ThreadOf[c]] = c]
    /\ UNCHANGED <<client, server, spawned, on, answer, lost, lines>>

\* 120 seconds without an answer to turn/start; Codex goes on.
RequestTimesOut(c) ==
    /\ ~MidChunk
    /\ step[c] = "waiting"
    /\ step' = [step EXCEPT ![c] = "failed"]
    /\ UNCHANGED <<client, server, spawned, on, turns, answer, lost, lines>>

Fail(set) == step' = [c \in Calls |-> IF c \in set THEN "failed" ELSE step[c]]

\* The same for initialize: the process stays and is not used again.
StartTimesOut ==
    /\ ~MidChunk
    /\ starting # Nobody
    /\ starting' = Nobody
    /\ Fail({c \in Calls : step[c] = "starting"})
    /\ UNCHANGED <<child, ready, server, spawned, on, turns, answer, lost, lines>>

Requests == {c \in Calls : step[c] \in {"starting", "waiting"}}

\* Mutant: only the requests are rejected, and the turns forgotten.
FailRequests ==
    /\ Fail(Requests)
    /\ turns' = [t \in Threads |-> None]

\* Every request and every waiting turn is rejected.
FailAll ==
    /\ Fail(Requests \cup {turns[t] : t \in Threads})
    /\ turns' = [t \in Threads |-> None]

\* Mutant: the process that is gone is still the child.
HeldChild == UNCHANGED client

NoChild == child' = Nobody /\ starting' = Nobody /\ ready' = FALSE

\* The "exit" event of any process that was ever started. Its last lines
\* are still read.
Exits(p) ==
    /\ ~MidChunk
    /\ p \in alive
    /\ alive' = alive \ {p}
    /\ NoChild
    /\ FailAll
    /\ UNCHANGED <<begun, spawned, on, answer, lost, lines>>

\* The "error" event of a process that could not be started.
SpawnFails(p) ==
    /\ ~MidChunk
    /\ p \in alive /\ starting = p /\ lines[p] = << >>
    /\ alive' = alive \ {p}
    /\ starting' = Nobody
    /\ FailAll
    /\ UNCHANGED <<child, ready, begun, spawned, on, answer, lost, lines>>

Close ==
    /\ ~MidChunk
    /\ child # Nobody
    /\ NoChild
    /\ FailAll
    /\ UNCHANGED <<server, spawned, on, answer, lost, lines>>

Next ==
    \/ \E c \in Calls :
         \/ Begins(c) \/ Completes(c) \/ RunTurn(c) \/ WaitsForTurn(c)
         \/ RequestTimesOut(c)
    \/ \E p \in Processes : Initializes(p) \/ ReadsLine(p) \/ Exits(p) \/ SpawnFails(p)
    \/ StartTimesOut \/ Close

Spec == Init /\ [][Next]_vars

\* Lines are read, continuations and timers run; Codex is relied on to
\* complete a turn it has begun as long as it lives.
FairSpec ==
    /\ Spec
    /\ \A p \in Processes : WF_vars(ReadsLine(p))
    /\ WF_vars(StartTimesOut)
    /\ \A c \in Calls :
         WF_vars(WaitsForTurn(c)) /\ WF_vars(RequestTimesOut(c)) /\ WF_vars(Completes(c))

-----------------------------------------------------------------------------
Waiting(c) == step[c] = "waiting" \/ \E t \in Threads : turns[t] = c

\* What waits for Codex waits for a process that lives and that the client
\* holds, whatever processes have been given up, exited and been replaced.
WaitersAreServed ==
    \A c \in Calls : Waiting(c) => on[c] = child /\ on[c] \in alive

\* A call is answered by its own turn, unless an earlier call on its thread
\* has failed at the client: Codex completes that turn nevertheless, and each
\* call on the thread then takes the turn before its own for the answer.
AnswersAreOwn ==
    \A c \in Calls : answer[c] # None =>
      /\ ThreadOf[answer[c]] = ThreadOf[c]
      /\ answer[c] = c \/
           \E d \in Calls : ThreadOf[d] = ThreadOf[c] /\ step[d] = "failed"

\* A call ends, by an answer, a timeout or the end of the process. The
\* exception is named: a turn completed in the chunk that said it had
\* started is waited for, for ever, when it is over.
CallsEnd ==
    \A c \in Calls : Active(c) ~> (step[c] \in {"done", "failed"} \/ c \in lost)
=============================================================================

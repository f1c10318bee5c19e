--------------------------- MODULE RuntimeServer ---------------------------
(***************************************************************************)
(* The helper on the SSH host (runtime/server.go, docker_cli.go,           *)
(* executor.go) and the guard it starts inside a container                 *)
(* (container_exec_linux.go).  Requests are served one at a time from      *)
(* standard input, each with one answer on standard output.  The container *)
(* may restart, be recreated, stop, or have its users renumbered between   *)
(* any two steps.                                                          *)
(*                                                                         *)
(* A place is what a command is bound to: the container's id, the start    *)
(* ticks of its init process (one value per start), and the numeric user.  *)
(***************************************************************************)
EXTENDS Naturals, Sequences, FiniteSets, Functions

CONSTANTS
    MaxRequests,   \* bound: requests of the client
    MaxChanges,    \* bound: changes of the container
    None           \* the absence of a request, a place, an answer

\* Request ids are random; the model numbers them in the order of the calls.
Requests == 1..MaxRequests

Methods == {"handshake", "exec", "docker.inspect", "docker.exec"}
Places == [id: Nat, ticks: Nat, uid: Nat]
Host == [id |-> 0, ticks |-> 0, uid |-> 0]
Codes == {"ok", "identity_unavailable", "invalid_params", "execution_failed",
          "docker_inspect_failed", "stale_binding", "execution_unknown",
          "docker_execution_failed"}
Guarded == {"checking", "running", "ok", "stale", "failed", "killed"}
Guards == [place: Places, expected: Nat, state: Guarded]

ASSUME RuntimeAssumption ==
    /\ MaxRequests \in Nat /\ MaxChanges \in Nat
    /\ None \notin Nat \cup Places \cup Guards \cup Methods \cup Codes

VARIABLES
    method,      \* Requests -> Methods, or None before the call
    binding,     \* the place a docker.exec names
    connected,   \* both ends of the SSH channel are up
    input,       \* requests on their way to the helper
    unsent,      \* requests whose line never left this end
    output,      \* answers on their way to the client
    server,      \* the request being served, its next step, what it has seen
    container,   \* the place the container's name stands for now, and whether
                 \* it runs
    changes,
    inside,      \* Requests -> the guard process in the container, or None
    starts,      \* Requests -> where the requested program was started
    alive        \* requests whose program is running

host == <<container, changes, inside, starts, alive>>
serverVars == <<method, binding, connected, input, unsent, output, server, host>>

Waiting == [step |-> "read", request |-> None, saw |-> None]
Gone == [Waiting EXCEPT !.step = "gone"]

ServerInit ==
    /\ method = [r \in Requests |-> None]
    /\ binding = [r \in Requests |-> None]
    /\ connected = TRUE
    /\ input = <<>> /\ unsent = {} /\ output = <<>>
    /\ server = Waiting
    /\ container = [id |-> 1, ticks |-> 1, uid |-> 1, up |-> TRUE]
    /\ changes = 0
    /\ inside = [r \in Requests |-> None]
    /\ starts = [r \in Requests |-> <<>>]
    /\ alive = {}

-----------------------------------------------------------------------------
(* Server.Serve and its handlers.                                          *)

\* One line of output; a helper that writes to a closed channel ends.
Answer(code, evidence) ==
    IF connected
    THEN /\ output' = Append(output, [request |-> server.request,
                                      code |-> code, evidence |-> evidence])
         /\ server' = Waiting
    ELSE server' = Gone /\ UNCHANGED output

Serving(step) == server.step = step

Proceed(step, saw) == server' = [server EXCEPT !.step = step, !.saw = saw]
                      /\ UNCHANGED output

\* The scanner's next line.
Read ==
    /\ Serving("read") /\ input # <<>>
    /\ server' = [step |-> method[Head(input)], request |-> Head(input),
                  saw |-> None]
    /\ input' = Tail(input)
    /\ UNCHANGED <<method, binding, connected, unsent, output, host>>

\* The end of the input ends the helper.
EndOfInput ==
    /\ Serving("read") /\ input = <<>> /\ ~connected
    /\ server' = Gone
    /\ UNCHANGED <<method, binding, connected, input, unsent, output, host>>

Handshake ==
    /\ Serving("handshake")
    /\ \E code \in {"ok", "identity_unavailable"} : Answer(code, None)
    /\ UNCHANGED <<method, binding, connected, input, unsent, host>>

\* Refused by the parameter checks of exec, dockerInspect and dockerExec.
InvalidParams ==
    /\ \E step \in Methods \ {"handshake"} : Serving(step)
    /\ Answer("invalid_params", None)
    /\ UNCHANGED <<method, binding, connected, input, unsent, host>>

Start(r, place) ==
    /\ starts' = [starts EXCEPT ![r] = Append(@, place)]
    /\ alive' = alive \cup {r}

\* Exec starts the program on the host, or cannot.
Exec ==
    /\ Serving("exec")
    /\ \/ Start(server.request, Host) /\ Proceed("program", None)
       \/ Answer("execution_failed", None) /\ UNCHANGED <<starts, alive>>
    /\ UNCHANGED <<method, binding, connected, input, unsent, container, changes,
                   inside>>

\* Mutant: the deadline answers without killing the process group.
OutcomesUnkilled(r) == {<<"ok", {}>>, <<"ok", {r}>>, <<"failed", {r}>>}

\* How command.Run ends, and which programs end with it: the program exited
\* or was killed at its deadline; or it exited and a process it left behind
\* kept its output open, which the executor reports as an error.
Outcomes(r) == {<<"ok", {r}>>, <<"failed", {r}>>}

ExecEnds ==
    /\ Serving("program")
    /\ \E end \in Outcomes(server.request) :
          /\ alive' = alive \ end[2]
          /\ Answer(IF end[1] = "ok" THEN "ok" ELSE "execution_failed", None)
    /\ UNCHANGED <<method, binding, connected, input, unsent, container, changes,
                   inside, starts>>

-----------------------------------------------------------------------------
(* DockerCLI.Inspect and DockerCLI.Execute: every docker command is a step *)
(* and may fail or run into its own timeout.                               *)

Inspecting == server.step \in {"docker.inspect", "docker.exec", "probe"}

Place == [id |-> container.id, ticks |-> container.ticks,
          uid |-> container.uid]

\* Execute takes any failure of its inspection for a stale binding.
InspectFails ==
    /\ Inspecting
    /\ Answer(IF method[server.request] = "docker.exec"
              THEN "stale_binding" ELSE "docker_inspect_failed", None)
    /\ UNCHANGED <<method, binding, connected, input, unsent, host>>

\* docker inspect by name, or by the full id an execution is bound to, and
\* the start ticks of the init process it reports.
InspectRecord ==
    /\ server.step \in {"docker.inspect", "docker.exec"}
    /\ container.up
    /\ Serving("docker.exec") => container.id = binding[server.request].id
    /\ Proceed("probe", Place)
    /\ UNCHANGED <<method, binding, connected, input, unsent, host>>

\* Mutant: the evidence is compared without the start of the container.
MatchesIdentity(r, evidence) ==
    binding[r].id = evidence.id /\ binding[r].uid = evidence.uid

\* dockerBindingMatches.
Matches(r, evidence) == binding[r] = evidence

\* The guard run as a probe: it compares the start ticks and reports the
\* numeric user, after which Execute compares the evidence.
Probe ==
    /\ Serving("probe")
    /\ container.up /\ container.id = server.saw.id
    /\ container.ticks = server.saw.ticks
    /\ LET r == server.request
           evidence == [server.saw EXCEPT !.uid = container.uid] IN
       IF method[r] = "docker.inspect" THEN Answer("ok", evidence)
       ELSE IF Matches(r, evidence) THEN Proceed("enter", evidence)
       ELSE Answer("stale_binding", None)
    /\ UNCHANGED <<method, binding, connected, input, unsent, host>>

\* docker exec with the verified numeric user: a guard process in whatever
\* start of that container is running, or a failure of the docker client.
Enter ==
    /\ Serving("enter")
    /\ LET r == server.request IN
       \/ /\ container.up /\ container.id = server.saw.id
          /\ inside' = [inside EXCEPT ![r] =
                [place |-> [Place EXCEPT !.uid = server.saw.uid],
                 expected |-> server.saw.ticks, state |-> "checking"]]
          /\ Proceed("guard", server.saw)
       \/ /\ \E code \in {"execution_unknown", "docker_execution_failed"} :
                Answer(code, None)
          /\ UNCHANGED inside
    /\ UNCHANGED <<method, binding, connected, input, unsent, container, changes,
                   starts, alive>>

\* Execute reads what the guard printed.
GuardAnswers ==
    /\ Serving("guard")
    /\ LET state == inside[server.request].state IN
       /\ state \in {"ok", "stale", "failed", "killed"}
       /\ Answer(CASE state = "ok" -> "ok"
                   [] state = "stale" -> "stale_binding"
                   [] state = "failed" -> "docker_execution_failed"
                   [] state = "killed" -> "execution_unknown", None)
    /\ UNCHANGED <<method, binding, connected, input, unsent, host>>

\* Mutant: the timeout of the docker client is taken for a refusal.
UnseenRefused == "stale_binding"

\* The answer when the guard's own was never seen.
Unseen == "execution_unknown"

\* The docker client times out or fails first; the guard lives on.
DockerClientFails ==
    /\ Serving("guard")
    /\ Answer(Unseen, None)
    /\ UNCHANGED <<method, binding, connected, input, unsent, host>>

-----------------------------------------------------------------------------
(* RunContainerExec, in the container.                                     *)

SetGuard(r, state) == inside' = [inside EXCEPT ![r].state = state]
GuardIs(r, state) == inside[r] # None /\ inside[r].state = state

\* The ticks of the container's init process are the expected ones.
Admits(r) == inside[r].place.ticks = inside[r].expected

GuardChecks(r) ==
    /\ GuardIs(r, "checking")
    /\ \/ Admits(r) /\ Start(r, inside[r].place) /\ SetGuard(r, "running")
       \/ /\ SetGuard(r, IF Admits(r) THEN "failed" ELSE "stale")
          /\ UNCHANGED <<starts, alive>>
    /\ UNCHANGED <<method, binding, connected, input, unsent, output, server,
                   container, changes>>

GuardedEnds(r) ==
    /\ GuardIs(r, "running")
    /\ \E end \in Outcomes(r) :
          SetGuard(r, end[1]) /\ alive' = alive \ end[2]
    /\ UNCHANGED <<method, binding, connected, input, unsent, output, server,
                   container, changes, starts>>

-----------------------------------------------------------------------------
(* The environment: the container and the channel.                         *)

\* Everything inside ends with the container's init process.
ContainerEnds ==
    /\ inside' = [r \in Requests |->
          IF inside[r] # None /\ inside[r].state \in {"checking", "running"}
          THEN [inside[r] EXCEPT !.state = "killed"] ELSE inside[r]]
    /\ alive' = {r \in alive : method[r] # "docker.exec"}

\* The container named id, started: a process that never ran before.
Started(id) == [id |-> id, ticks |-> container.ticks + 1, uid |-> container.uid,
                up |-> TRUE]

ContainerChanges ==
    /\ changes < MaxChanges /\ changes' = changes + 1
    /\ \/ \* stopped, or restarted
          /\ container' = IF container.up
                          THEN [container EXCEPT !.up = FALSE]
                          ELSE Started(container.id)
          /\ ContainerEnds
       \/ \* restarted at once, or replaced by a new one of the same name
          /\ container' \in {Started(container.id), Started(container.id + 1)}
          /\ ContainerEnds
       \/ \* its users renumbered
          /\ container' = [container EXCEPT !.uid = @ + 1]
          /\ UNCHANGED <<inside, alive>>
    /\ UNCHANGED <<method, binding, connected, input, unsent, output, server,
                   starts>>

\* What is on its way to the host may be lost, or not even have left.
Lose ==
    \/ UNCHANGED <<input, unsent>>
    \/ /\ input' = <<>>
       /\ unsent' \in {unsent, unsent \cup Range(input)}

\* The network or ssh fails.
Disconnect ==
    /\ connected /\ connected' = FALSE
    /\ Lose
    /\ UNCHANGED <<method, binding, output, server, host>>

ServerNext ==
    \/ Read \/ EndOfInput \/ Handshake \/ InvalidParams \/ Exec \/ ExecEnds
    \/ InspectFails \/ InspectRecord \/ Probe \/ Enter \/ GuardAnswers
    \/ DockerClientFails
    \/ \E r \in Requests : GuardChecks(r) \/ GuardedEnds(r)
    \/ ContainerChanges \/ Disconnect

ServerTypeOK ==
    /\ method \in [Requests -> Methods \cup {None}]
    /\ binding \in [Requests -> Places \cup {None}]
    /\ connected \in BOOLEAN
    /\ input \in Seq(Requests) /\ unsent \subseteq Requests
    /\ output \in Seq([request: Requests, code: Codes,
                       evidence: Places \cup {None}])
    /\ server \in [step: Methods \cup {"read", "gone", "program", "probe",
                                       "enter", "guard"},
                   request: Requests \cup {None}, saw: Places \cup {None}]
    /\ container \in [id: Nat, ticks: Nat, uid: Nat, up: BOOLEAN]
    /\ changes \in 0..MaxChanges
    /\ inside \in [Requests -> Guards \cup {None}]
    /\ starts \in [Requests -> Seq(Places)]
    /\ alive \subseteq Requests

=============================================================================

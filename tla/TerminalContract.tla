-------------------------- MODULE TerminalContract --------------------------
(***************************************************************************)
(* What the rest of the Core may rely on in a terminal session, and all    *)
(* the conversation service needs of it: a version that every change of    *)
(* the shell or of its input moves forward, and a submission that needs    *)
(* the version it was frozen at, takes the terminal out of readiness and   *)
(* happens at most once per operation.  TerminalSession implements it.     *)
(***************************************************************************)
EXTENDS Naturals

CONSTANTS OpIds, Targets, None

Settled == {"completed", "failed", "interrupted", "unknown"}
Status  == {"absent", "accepted", "running"} \cup Settled
Advance == {<<s, s>> : s \in Status}
           \cup {<<"accepted", "running">>, <<"accepted", "unknown">>}
           \cup ({"running"} \X Settled)

VARIABLES
    present,       \* in the registry of terminal sessions
    live,          \* its shell has not exited
    version,       \* moved by every shell event and every input
    target,        \* environment frame, cwd, shell and user
    idle,          \* a verified frame at its prompt
    empty,         \* with an empty input line
    status,        \* OpIds -> Status
    submittedAt    \* history: the version an operation was submitted at

vars == <<present, live, version, target, idle, empty, status, submittedAt>>

Init ==
    /\ present = TRUE /\ live = TRUE
    /\ version = 0
    /\ target \in Targets
    /\ idle = FALSE /\ empty = TRUE
    /\ status = [o \in OpIds |-> "absent"]
    /\ submittedAt = [o \in OpIds |-> None]

\* What a turn freezes.
Scope == [version |-> version, target |-> target]

\* Mutant: the terminal may have moved since the scope was frozen.
ValidatedTarget(scope) ==
    live /\ idle /\ empty /\ scope.target = target

Validated(scope) == live /\ idle /\ empty /\ scope = Scope

Submit(o, scope) ==
    /\ present
    /\ status[o] = "absent"
    /\ Validated(scope)
    /\ status' = [status EXCEPT ![o] = "accepted"]
    /\ submittedAt' = [submittedAt EXCEPT ![o] = version]
    /\ idle' = FALSE
    /\ UNCHANGED <<present, live, version, target, empty>>

\* A shell event or an input.
Change ==
    /\ present
    /\ version' = version + 1
    /\ target' \in Targets
    /\ idle' \in BOOLEAN /\ empty' \in BOOLEAN
    /\ status' \in [OpIds -> Status]
    /\ \A o \in OpIds : <<status[o], status'[o]>> \in Advance
    /\ UNCHANGED <<present, live, submittedAt>>

\* The shell exits; the session is closed or evicted.
End ==
    /\ present' \in {present, FALSE} /\ live' \in {live, FALSE}
    /\ UNCHANGED <<version, target, idle, empty, status, submittedAt>>

Next ==
    \/ \E o \in OpIds : Submit(o, Scope)
    \/ Change
    \/ End

Spec == Init /\ [][Next]_vars
=============================================================================

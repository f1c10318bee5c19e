-------------------------- MODULE TerminalSession --------------------------
(***************************************************************************)
(* One TerminalSession object of the Core                                  *)
(* (apps/core/src/terminal-session.ts): the shell state it infers from the *)
(* marker events of the PTY's output, the versions an approval is frozen   *)
(* against, the environment stack, and the approved commands it submits    *)
(* and tracks.  Each action is one synchronous call on the object.         *)
(*                                                                         *)
(* The events come in any order and at any time, also after the PTY's      *)
(* exit: what this module promises, it promises for every shell.  Module   *)
(* ShellTerminal connects the object to the shell that sends the events.   *)
(***************************************************************************)
EXTENDS Naturals, Sequences

CONSTANTS
    Commands,    \* command lines
    Blank,       \* the command lines that are white space only
    OpIds,       \* operation identifiers, one per "execute" decision
    Cwds,        \* working directories
    Logins,      \* a shell program together with the user it runs as
    None,        \* undefined
    RootDepth,   \* environment frames the session is created with
    MaxBlocks,   \* command blocks kept (200 in the code)
    MaxEvents,   \* bound: shell events received
    MaxInputs    \* bound: writes by the user

ASSUME DataAssumption ==
    /\ Blank \subseteq Commands
    /\ Cwds # {} /\ Logins # {}
ASSUME BoundAssumption ==
    /\ RootDepth \in Nat \ {0}
    /\ MaxBlocks \in Nat \ {0}
    /\ MaxEvents \in Nat
    /\ MaxInputs \in Nat

\* An environment frame: pushed frames are numbered after the event that
\* pushed them, so an id is never used twice, as with randomUUID().  A frame
\* has a bindingId exactly when it is verified, so `verified` stands for both.
Frame   == [id: Nat, verified: BOOLEAN]
Pending == [op: OpIds, command: Commands]
Active  == [op: OpIds \cup {None}, command: Commands, frame: Nat]
Block   == [op: OpIds \cup {None}, command: Commands, exact: BOOLEAN]
\* What a proposal is frozen to: the fields validateApproved compares.
Scope   == [frame: Nat, cwd: Cwds \cup {None}, login: Logins \cup {None},
            contextVersion: Nat, inputVersion: Nat, command: Commands]
ASSUME NoneAssumption ==
    None \notin OpIds \cup Pending \cup Active \cup Scope

Settled == {"completed", "failed", "interrupted", "unknown"}
Status  == {"absent", "accepted", "running"} \cup Settled

VARIABLES
    state,               \* "running" | "exited"
    registered,          \* in the registry, with the PTY's listeners attached
    shellState,          \* "unknown" | "idle" | "running"
    contextVersion,
    inputVersion,
    inputEmpty,
    cwd, login,
    environments,        \* the stack, outermost frame first
    activeCommand,
    pendingApproved,
    operations,          \* OpIds -> Status
    interruptRequested,
    commandBlocks,
    frozen               \* OpIds -> the scope its proposal was frozen to

context == <<contextVersion, cwd, login, shellState>>
vars == <<state, registered, shellState, contextVersion, inputVersion,
          inputEmpty, cwd, login, environments, activeCommand,
          pendingApproved, operations, interruptRequested, commandBlocks,
          frozen>>

Top == environments[Len(environments)]
Submitted(o) == operations[o] # "absent"

Init ==
    /\ state = "running" /\ registered = TRUE
    /\ shellState = "unknown"
    /\ contextVersion = 0 /\ inputVersion = 0
    /\ inputEmpty = TRUE
    /\ cwd \in Cwds \cup {None}     \* a remote session starts with both,
    /\ login \in Logins \cup {None} \* a local one with neither
    /\ environments = [i \in 1..RootDepth |-> [id |-> i, verified |-> TRUE]]
    /\ activeCommand = None /\ pendingApproved = None
    /\ operations = [o \in OpIds |-> "absent"]
    /\ interruptRequested = FALSE
    /\ commandBlocks = <<>>
    /\ frozen = [o \in OpIds |-> None]

-----------------------------------------------------------------------------
(* Approval scopes.                                                        *)

\* A turn freezes context() for a proposal, in any state of the session.
Freeze(o, c) ==
    /\ registered
    /\ frozen[o] = None
    /\ frozen' = [frozen EXCEPT ![o] =
          [frame |-> Top.id, cwd |-> cwd, login |-> login,
           contextVersion |-> contextVersion, inputVersion |-> inputVersion,
           command |-> c]]
    /\ UNCHANGED <<state, registered, context, inputVersion, inputEmpty,
                   environments, activeCommand, pendingApproved, operations,
                   interruptRequested, commandBlocks>>

\* Mutants: the shell may have run a command; the user may have typed.
ScopeIgnoringEvents(s) ==
    /\ s.frame = Top.id
    /\ s.cwd = cwd
    /\ s.login = login
    /\ s.inputVersion = inputVersion
ScopeIgnoringInput(s) ==
    /\ s.frame = Top.id
    /\ s.cwd = cwd
    /\ s.login = login
    /\ s.contextVersion = contextVersion

ScopeUnchanged(s) ==
    /\ s.frame = Top.id
    /\ s.cwd = cwd
    /\ s.login = login
    /\ s.contextVersion = contextVersion
    /\ s.inputVersion = inputVersion

ValidateApproved(o) ==
    /\ state = "running"
    /\ frozen[o] # None
    /\ ScopeUnchanged(frozen[o])
    /\ Top.verified
    /\ shellState = "idle"
    /\ inputEmpty
    /\ frozen[o].command \notin Blank

\* A repeated call with a known operation id returns at once; a fresh one is
\* validated, recorded and written to the PTY in one synchronous stretch.
SubmitApproved(o) ==
    /\ registered
    /\ ~Submitted(o)
    /\ ValidateApproved(o)
    /\ operations' = [operations EXCEPT ![o] = "accepted"]
    /\ pendingApproved' = [op |-> o, command |-> frozen[o].command]
    /\ shellState' = "running"
    /\ UNCHANGED <<state, registered, contextVersion, inputVersion, inputEmpty,
                   cwd, login, environments, activeCommand,
                   interruptRequested, commandBlocks, frozen>>

-----------------------------------------------------------------------------
(* Input.                                                                  *)

\* What write() tells apart: data that holds a line end, exactly ^C, exactly
\* ^U, exactly DEL or BS, one cursor sequence, and anything else.
InputKinds == {"enter", "interrupt", "kill", "erase", "cursor", "text"}

EmptyAfter(k) ==
    \/ k \in {"enter", "interrupt", "kill"}
    \/ k = "cursor" /\ inputEmpty

Interrupts(k) ==
    k = "interrupt" /\ activeCommand # None /\ activeCommand.op # None

Write(k) ==
    /\ registered
    /\ state = "running"
    /\ inputVersion < MaxInputs
    /\ inputVersion' = inputVersion + 1
    /\ inputEmpty' = EmptyAfter(k)
    /\ interruptRequested' = (interruptRequested \/ Interrupts(k))
    /\ UNCHANGED <<state, registered, context, environments, activeCommand,
                   pendingApproved, operations, commandBlocks, frozen>>

\* The "insert" decision: the text lands on the input line, not submitted.
InsertCommand ==
    /\ registered
    /\ state = "running"
    /\ shellState = "idle"
    /\ inputVersion < MaxInputs
    /\ inputVersion' = inputVersion + 1
    /\ inputEmpty' = FALSE
    /\ UNCHANGED <<state, registered, context, environments, activeCommand,
                   pendingApproved, operations, interruptRequested,
                   commandBlocks, frozen>>

-----------------------------------------------------------------------------
(* Shell events.  An exit code is "zero", "nonzero" or "none".             *)

ExitCodes == {"zero", "nonzero", "none"}

OutcomeOf(exit) ==
    IF interruptRequested THEN "interrupted"
    ELSE IF exit = "zero" THEN "completed"
    ELSE IF exit = "none" THEN "unknown"
    ELSE "failed"

\* Mutant: an end with no active command settles the pending approval.
FinishedEagerly(exit) ==
    LET ended == IF activeCommand # None THEN activeCommand
                                         ELSE pendingApproved
    IN IF ended = None THEN operations
       ELSE [o \in OpIds |-> IF o = ended.op THEN OutcomeOf(exit)
                                             ELSE operations[o]]

\* finishActiveCommand, as its effect on each of the variables it assigns.
FinishedOperations(exit) ==
    IF activeCommand = None THEN operations
    ELSE [o \in OpIds |-> IF o = activeCommand.op THEN OutcomeOf(exit)
                                                  ELSE operations[o]]

Kept(blocks) == IF Len(blocks) > MaxBlocks THEN Tail(blocks) ELSE blocks

FinishedBlocks(exact) ==
    IF activeCommand = None THEN commandBlocks
    ELSE Kept(Append(commandBlocks, [op |-> activeCommand.op,
                                     command |-> activeCommand.command,
                                     exact |-> exact]))

FinishedInterrupt == interruptRequested /\ activeCommand = None

NextEvent ==
    /\ registered
    /\ contextVersion < MaxEvents
    /\ contextVersion' = contextVersion + 1

ReceivePrompt(d, l) ==
    /\ NextEvent
    /\ cwd' = d /\ login' = l
    /\ shellState' = "idle"
    /\ inputEmpty' = TRUE
    /\ UNCHANGED <<state, registered, inputVersion, environments,
                   activeCommand, pendingApproved, operations,
                   interruptRequested, commandBlocks, frozen>>

\* Mutant: whatever the shell starts is taken for the pending approval.
ClaimsAny(c) == pendingApproved # None

\* The pending approval is claimed when the shell starts a command of exactly
\* its text; any other command makes its outcome unknown.
Claims(c) == pendingApproved # None /\ pendingApproved.command = c

ReceiveCommandStart(c, d, l) ==
    /\ NextEvent
    /\ cwd' = d /\ login' = l
    /\ shellState' = "running"
    /\ inputEmpty' = TRUE
    /\ operations' =
         [o \in OpIds |->
            IF pendingApproved # None /\ o = pendingApproved.op
            THEN IF Claims(c) THEN "running" ELSE "unknown"
            ELSE FinishedOperations("none")[o]]
    /\ activeCommand' =
         [op |-> IF Claims(c) THEN pendingApproved.op ELSE None,
          command |-> c, frame |-> Top.id]
    /\ pendingApproved' = None
    /\ commandBlocks' = FinishedBlocks(FALSE)
    /\ interruptRequested' = FinishedInterrupt
    /\ UNCHANGED <<state, registered, inputVersion, environments, frozen>>

\* The session stays "running" until the next prompt.
ReceiveCommandEnd(exit, d) ==
    /\ NextEvent
    /\ cwd' = d
    /\ operations' = FinishedOperations(exit)
    /\ commandBlocks' = FinishedBlocks(TRUE)
    /\ interruptRequested' = FinishedInterrupt
    /\ activeCommand' = None
    /\ UNCHANGED <<state, registered, login, shellState, inputVersion,
                   inputEmpty, environments, pendingApproved, frozen>>

\* Mutant: the event's claim to be verified is believed.
VerifiedFrame == [id |-> RootDepth + contextVersion + 1, verified |-> TRUE]

\* Whatever the event claims, a pushed frame is not verified.
PushedFrame == [id |-> RootDepth + contextVersion + 1, verified |-> FALSE]

ReceiveEnvironmentPush ==
    /\ NextEvent
    /\ environments' = Append(environments, PushedFrame)
    /\ UNCHANGED <<state, registered, cwd, login, shellState, inputVersion,
                   inputEmpty, activeCommand, pendingApproved, operations,
                   interruptRequested, commandBlocks, frozen>>

\* Mutant: a pop leaves every nested environment.
PoppedAll == SubSeq(environments, 1, 1)

Popped == IF Len(environments) > 1
          THEN SubSeq(environments, 1, Len(environments) - 1)
          ELSE environments

ReceiveEnvironmentPop ==
    /\ NextEvent
    /\ environments' = Popped
    /\ UNCHANGED <<state, registered, cwd, login, shellState, inputVersion,
                   inputEmpty, activeCommand, pendingApproved, operations,
                   interruptRequested, commandBlocks, frozen>>

\* The PTY's exit leaves the active command and its operation as they are.
ReceiveExit ==
    /\ registered
    /\ state = "running"
    /\ state' = "exited"
    /\ UNCHANGED <<registered, context, inputVersion, inputEmpty, environments,
                   activeCommand, pendingApproved, operations,
                   interruptRequested, commandBlocks, frozen>>

\* The registry drops the session, whose listeners are detached first: no
\* call, event or exit reaches it any more, and its fields stay as they are.
Dispose ==
    /\ registered
    /\ registered' = FALSE
    /\ UNCHANGED <<state, context, inputVersion, inputEmpty, environments,
                   activeCommand, pendingApproved, operations,
                   interruptRequested, commandBlocks, frozen>>

ReceiveEvent ==
    \/ \E d \in Cwds, l \in Logins : ReceivePrompt(d, l)
    \/ \E c \in Commands, d \in Cwds, l \in Logins :
          ReceiveCommandStart(c, d, l)
    \/ \E x \in ExitCodes, d \in Cwds : ReceiveCommandEnd(x, d)
    \/ ReceiveEnvironmentPush
    \/ ReceiveEnvironmentPop

Next ==
    \/ \E o \in OpIds, c \in Commands : Freeze(o, c)
    \/ \E o \in OpIds : SubmitApproved(o)
    \/ \E k \in InputKinds : Write(k)
    \/ InsertCommand
    \/ ReceiveEvent
    \/ ReceiveExit
    \/ Dispose

Spec == Init /\ [][Next]_vars

-----------------------------------------------------------------------------
(* Properties.                                                             *)

\* Every variable has its type; the stack is never empty.
TypeOK ==
    /\ state \in {"running", "exited"}
    /\ registered \in BOOLEAN
    /\ shellState \in {"unknown", "idle", "running"}
    /\ contextVersion \in Nat
    /\ inputVersion \in Nat
    /\ inputEmpty \in BOOLEAN
    /\ cwd \in Cwds \cup {None}
    /\ login \in Logins \cup {None}
    /\ environments \in Seq(Frame) /\ environments # <<>>
    /\ activeCommand \in Active \cup {None}
    /\ pendingApproved \in Pending \cup {None}
    /\ operations \in [OpIds -> Status]
    /\ interruptRequested \in BOOLEAN
    /\ commandBlocks \in Seq(Block) /\ Len(commandBlocks) <= MaxBlocks
    /\ frozen \in [OpIds -> Scope \cup {None}]

SubmissionsDiffer ==
    \A o1, o2 \in OpIds :
       /\ o1 # o2 /\ Submitted(o1) /\ Submitted(o2)
       => frozen[o1].contextVersion # frozen[o2].contextVersion

\* No two approved commands are ever submitted under one state of the shell:
\* a submission makes the session "running", and the event that makes it idle
\* again also makes every scope frozen before it stale.
OneSubmissionPerScope == TypeOK /\ SubmissionsDiffer

\* Why that holds: every submitted operation has a scope, taken no later than
\* now, and strictly earlier whenever the session is idle, that is, whenever
\* another approval could pass.
SubmissionsAreBehind ==
    \A o \in OpIds :
       Submitted(o) =>
          /\ frozen[o] # None
          /\ frozen[o].contextVersion <= contextVersion
          /\ shellState = "idle" => frozen[o].contextVersion < contextVersion

\* An operation is "running" exactly while the command the session tracks is
\* the operation's, with the text that was approved; the operation that waits
\* for its command to start is still "accepted".
TrackedOperations ==
    /\ \A o \in OpIds :
          operations[o] = "running" <=>
             activeCommand # None /\ activeCommand.op = o
    /\ activeCommand # None /\ activeCommand.op # None
       => activeCommand.command = frozen[activeCommand.op].command
    /\ pendingApproved # None
       => /\ operations[pendingApproved.op] = "accepted"
          /\ pendingApproved.command = frozen[pendingApproved.op].command

\* A ^C is only ever charged to an approved command that is running, so it
\* cannot turn the outcome of a later command into "interrupted".
InterruptHasTarget ==
    interruptRequested =>
       activeCommand # None /\ activeCommand.op # None

\* Shell output is no evidence of authority: every submitted operation was
\* frozen on a frame the session was created with, never on a pushed one,
\* and pushed frames stay unverified.
NoAuthorityFromOutput ==
    /\ \A o \in OpIds : Submitted(o) => frozen[o].frame <= RootDepth
    /\ \A i \in DOMAIN environments :
          environments[i].verified => environments[i].id <= RootDepth

\* An operation only moves forward: accepted, then running, then one outcome
\* that never changes again.
Forward ==
    {<<"absent", "accepted">>, <<"accepted", "running">>,
     <<"accepted", "unknown">>} \cup ({"running"} \X Settled)
OutcomesAreFinal ==
    [][\A o \in OpIds : operations'[o] # operations[o] =>
          <<operations[o], operations'[o]>> \in Forward]_vars

-----------------------------------------------------------------------------
(* The abstract terminal this object implements.  Only the sum of the two  *)
(* versions is visible there: each only grows, so equal sums frozen from   *)
(* one object mean equal versions.                                         *)

Contract == INSTANCE TerminalContract WITH
    Targets     <- Nat \X (Cwds \cup {None}) \X (Logins \cup {None}),
    present     <- registered,
    live        <- state = "running",
    version     <- contextVersion + inputVersion,
    target      <- <<Top.id, cwd, login>>,
    idle        <- Top.verified /\ shellState = "idle",
    empty       <- inputEmpty,
    status      <- operations,
    submittedAt <- [o \in OpIds |->
                      IF Submitted(o) THEN frozen[o].contextVersion
                                           + frozen[o].inputVersion
                      ELSE None]

\* The session is a terminal as the conversation service sees it.
ImplementsContract == Contract!Spec
=============================================================================

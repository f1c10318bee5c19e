--------------------------- MODULE ShellTerminal ---------------------------
(***************************************************************************)
(* A TerminalSession and the shell at the other end of its PTY.  The shell *)
(* runs the integration scripts of apps/core/src/shell-integration.ts,     *)
(* which announce prompts, command starts and ends and environment changes *)
(* in the output.  The two only meet through the PTY: what the session     *)
(* writes waits in toShell until the shell reads it, and a marker waits in *)
(* toCore until the session decodes it.  So the session's picture of the   *)
(* shell is always a picture of the past.                                  *)
(***************************************************************************)
EXTENDS TerminalSession, FiniteSets

CONSTANTS
    Mixed,           \* a line composed of several inputs; one of Commands
    CommandOf,       \* OpIds -> the command its proposal holds
    UserInputs,      \* bound: the inputs the user types, see Inputs
    MaxNested,       \* bound: nested environments of the shell
    MaxTyped,        \* bound: inputs on their way to the shell
    MaxMarkers,      \* bound: markers sent before a shell is entered
    ShellMayDie,     \* whether runs include the end of the shell
    DebugTrap        \* Bash, which announces commands from its DEBUG trap

ASSUME ShellAssumption ==
    /\ Mixed \in Commands
    /\ CommandOf \in [OpIds -> Commands \ {Mixed}]
    /\ MaxNested \in Nat /\ MaxTyped \in Nat /\ MaxMarkers \in Nat
    /\ ShellMayDie \in BOOLEAN /\ DebugTrap \in BOOLEAN

VARIABLES
    toShell,      \* inputs written to the PTY, not yet read
    toCore,       \* markers written by the scripts, not yet decoded
    phase,        \* "prompt" | "executing" | "resumed" | "dead": the
                  \*   innermost shell; "resumed" runs the rest of a command
                  \*   line whose nested shell is gone
    line,         \* text on its input line, None when empty
    depth,        \* environments entered from the shell
    history       \* Bash: the last line of its history, at first of a file

shellVars == <<toShell, toCore, phase, line, depth, history>>
allVars == <<vars, shellVars>>

\* One write to the PTY.  "paste" is a text that holds a line end, which an
\* application in bracketed-paste mode keeps on its input line.
Inputs == [kind: {"enter", "interrupt", "kill", "erase", "cursor"}]
          \cup [kind: {"text", "paste"}, text: Commands]
          \cup [kind: {"submit"}, text: Commands]

ASSUME UserInputsAssumption ==
    UserInputs \subseteq {i \in Inputs : i.kind # "submit"}

KindFor(i) == IF i.kind = "paste" THEN "enter" ELSE i.kind

SystemInit ==
    /\ Init
    /\ toShell = <<>> /\ toCore = <<[type |-> "prompt"]>>
    /\ phase = "prompt" /\ line = None /\ depth = 0
    /\ history \in IF DebugTrap THEN Commands ELSE {None}

-----------------------------------------------------------------------------
(* The Core's side: every write also reaches the PTY.                      *)

Send(i) == toShell' = Append(toShell, i)

UserTypes(i) ==
    /\ Len(toShell) < MaxTyped
    /\ Write(KindFor(i))
    /\ Send(i)
    /\ UNCHANGED <<toCore, phase, line, depth, history>>

UserInserts(o) ==
    /\ Len(toShell) < MaxTyped
    /\ InsertCommand
    /\ Send([kind |-> "text", text |-> CommandOf[o]])
    /\ UNCHANGED <<toCore, phase, line, depth, history>>

TurnFreezes(o) ==
    /\ Freeze(o, CommandOf[o])
    /\ UNCHANGED shellVars

UserApproves(o) ==
    /\ SubmitApproved(o)
    /\ Send([kind |-> "submit", text |-> frozen[o].command])
    /\ UNCHANGED <<toCore, phase, line, depth, history>>

\* The session decodes the next marker.
CoreReceives ==
    /\ toCore # <<>>
    /\ LET e == Head(toCore) IN
         \E d \in Cwds, l \in Logins :
           \/ e.type = "prompt" /\ ReceivePrompt(d, l)
           \/ e.type = "commandStart" /\ ReceiveCommandStart(e.command, d, l)
           \/ e.type = "commandEnd" /\ ReceiveCommandEnd(e.exit, d)
           \/ e.type = "environmentPush" /\ ReceiveEnvironmentPush
           \/ e.type = "environmentPop" /\ ReceiveEnvironmentPop
    /\ toCore' = Tail(toCore)
    /\ UNCHANGED <<toShell, phase, line, depth, history>>

-----------------------------------------------------------------------------
(* The shell's side.                                                       *)

Marker(t) == [type |-> t]
Emit(markers) == toCore' = toCore \o markers

\* Mutant: precmd does not announce the end.
PromptOnly(exit) == <<Marker("prompt")>>

\* precmd: the end of the command that ran, if one did, then the prompt.
EndMarkers(exit) ==
    <<[type |-> "commandEnd", exit |-> exit], Marker("prompt")>>

Joined(text) == IF line = None THEN text ELSE Mixed

\* An empty line is no command.  Bash runs precmd all the same, its DEBUG trap
\* fires, and preexec announces the last line of the history once more.
EmptyLineMarkers ==
    IF DebugTrap
    THEN <<[type |-> "commandStart", command |-> history]>>
         \o EndMarkers("zero")
    ELSE <<Marker("prompt")>>

\* Mutant: preexec does not announce the line it runs.
RunSilently(l) ==
    /\ line' = None
    /\ \/ l = None /\ Emit(EmptyLineMarkers) /\ UNCHANGED <<phase, history>>
       \/ l # None /\ phase' = "executing" /\ UNCHANGED <<toCore, history>>
    /\ UNCHANGED depth

\* preexec announces a line and runs it; an empty line only prompts again.
RunLine(l) ==
    /\ line' = None
    /\ \/ l = None /\ Emit(EmptyLineMarkers) /\ UNCHANGED <<phase, history>>
       \/ /\ l # None
          /\ Emit(<<[type |-> "commandStart", command |-> l]>>)
          /\ phase' = "executing"
          /\ history' = IF DebugTrap THEN l ELSE history
    /\ UNCHANGED depth

EditLine(lines) ==
    /\ line' \in lines
    /\ UNCHANGED <<toCore, phase, depth, history>>

\* The line editor consumes one input.  A cursor key may recall a line of the
\* history.
ShellReads ==
    /\ phase = "prompt"
    /\ toShell # <<>>
    /\ toShell' = Tail(toShell)
    /\ LET i == Head(toShell) IN
         \/ i.kind = "enter" /\ RunLine(line)
         \/ i.kind = "submit" /\ RunLine(Joined(i.text))
         \/ i.kind = "paste" /\ (RunLine(Joined(i.text))
                                   \/ EditLine({Joined(i.text)}))
         \/ i.kind = "text" /\ EditLine({Joined(i.text)})
         \/ i.kind = "kill" /\ EditLine({None})
         \/ i.kind = "erase" /\ EditLine(IF line = None THEN {None}
                                                       ELSE {None, Mixed})
         \/ i.kind = "cursor" /\ EditLine({line} \cup Commands)
         \/ i.kind = "interrupt" /\ RunLine(None)
    /\ UNCHANGED vars

Running == phase \in {"executing", "resumed"}

\* The running program consumes an input; ^C ends it.
ProgramReads ==
    /\ Running
    /\ toShell # <<>>
    /\ toShell' = Tail(toShell)
    /\ IF Head(toShell).kind = "interrupt"
       THEN Emit(EndMarkers("nonzero")) /\ phase' = "prompt"
       ELSE UNCHANGED <<toCore, phase>>
    /\ UNCHANGED <<line, depth, history>>
    /\ UNCHANGED vars

CommandEnds(exit) ==
    /\ Running
    /\ Emit(EndMarkers(exit))
    /\ phase' = "prompt"
    /\ UNCHANGED <<toShell, line, depth, history>>
    /\ UNCHANGED vars

\* The ssh or docker wrapper announces the environment, whose own shell then
\* prompts.
EnterEnvironment ==
    /\ Running
    /\ depth < MaxNested
    /\ contextVersion + Len(toCore) <= MaxMarkers
    /\ depth' = depth + 1
    /\ Emit(<<Marker("environmentPush"), Marker("prompt")>>)
    /\ phase' = "prompt"
    /\ UNCHANGED <<toShell, line, history>>
    /\ UNCHANGED vars

\* The nested shell is gone (end of input, a stopped container): the wrapper
\* announces it and the outer command line goes on.
LeaveEnvironment ==
    /\ phase # "dead"
    /\ depth > 0
    /\ depth' = depth - 1
    /\ Emit(<<Marker("environmentPop")>>)
    /\ phase' = "resumed" /\ line' = None
    /\ UNCHANGED <<toShell, history>>
    /\ UNCHANGED vars

\* A lost ssh connection takes the wrappers on the remote side with it: only
\* the outermost wrapper announces anything.
LoseConnection ==
    /\ phase # "dead"
    /\ depth > 1
    /\ depth' = 0
    /\ Emit(<<Marker("environmentPop")>>)
    /\ phase' = "resumed" /\ line' = None
    /\ UNCHANGED <<toShell, history>>
    /\ UNCHANGED vars

ShellDies ==
    /\ ShellMayDie
    /\ phase # "dead"
    /\ phase' = "dead"
    /\ UNCHANGED <<toShell, toCore, line, depth, history>>
    /\ UNCHANGED vars

\* The PTY reports the exit; output may still follow.
CoreReceivesExit ==
    /\ phase = "dead"
    /\ ReceiveExit
    /\ UNCHANGED shellVars

UserCloses ==
    /\ ShellMayDie
    /\ Dispose
    /\ phase' = "dead"
    /\ UNCHANGED <<toShell, toCore, line, depth, history>>

SystemNext ==
    \/ \E i \in UserInputs : UserTypes(i)
    \/ \E o \in OpIds : UserInserts(o)
    \/ \E o \in OpIds : TurnFreezes(o)
    \/ \E o \in OpIds : UserApproves(o)
    \/ CoreReceives
    \/ ShellReads
    \/ ProgramReads
    \/ \E exit \in {"zero", "nonzero"} : CommandEnds(exit)
    \/ EnterEnvironment
    \/ LeaveEnvironment
    \/ LoseConnection
    \/ ShellDies
    \/ CoreReceivesExit
    \/ UserCloses

SystemSpec == SystemInit /\ [][SystemNext]_allVars

\* The event loop delivers PTY output, and a shell at its prompt reads.  That
\* commands end is assumed of the commands; nobody has to type or approve.
Fairness ==
    /\ WF_allVars(CoreReceives)
    /\ WF_allVars(ShellReads)
    /\ WF_allVars(\E exit \in {"zero", "nonzero"} : CommandEnds(exit))
FairSystemSpec == SystemSpec /\ Fairness

-----------------------------------------------------------------------------
(* Properties.                                                             *)

\* The markers of a type among those on the way.
Count(markers, t) == Cardinality({k \in DOMAIN markers : markers[k].type = t})

\* Counting the markers on the way, the session never shows a shallower stack
\* than the shell really has, so it never takes a nested shell for a frame it
\* was created with.  (After a lost connection it may show a deeper one.)
DepthNeverUnderCounted ==
    registered /\ phase # "dead" =>
       Len(environments) + Count(toCore, "environmentPush")
         >= RootDepth + depth + Count(toCore, "environmentPop")

\* Nothing is on its way between the session and a live shell.
Quiet == registered /\ phase # "dead" /\ toShell = <<>> /\ toCore = <<>>

\* CONTEXT.md:65, "the original idle Shell": when nothing is on its way, a
\* session that calls its verified shell idle is right, except while the rest
\* of a command line runs on whose nested shell is gone, which environmentPop
\* (terminal-session.ts:497) does not tell from a prompt.
IdleShellIsAtPrompt ==
    Quiet /\ shellState = "idle" /\ Top.verified
      => phase \in {"prompt", "resumed"} /\ depth = 0

\* CONTEXT.md:65 where it matters, at the shell ("the original idle Shell",
\* "the input line is empty"): an approved command is the next input only when
\* the shell is at its outermost prompt, on an empty line.
ApprovedMeetsPrompt ==
    phase # "dead" /\ toShell # <<>> /\ Head(toShell).kind = "submit"
      => phase = "prompt" /\ depth = 0 /\ line = None

\* As long as the shell lives and no nested shell is entered, an approved
\* command is followed to its outcome, whatever is typed around it.
ApprovedIsSettled ==
    [](phase # "dead" /\ depth = 0) =>
       \A o \in OpIds : operations[o] = "accepted" ~> operations[o] \in Settled
=============================================================================

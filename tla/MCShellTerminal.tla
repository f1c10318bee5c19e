-------------------------- MODULE MCShellTerminal --------------------------
(* Small instances of ShellTerminal for TLC.                               *)
EXTENDS ShellTerminal, TLC

CONSTANTS ls, rm, mixed, op1, op2, home, bash, none

MCCommands == {ls, rm, mixed}
MCOneOp == {op1}
MCCwds == {home}
MCLogins == {bash}
MCCommandOfOne == [o \in MCOneOp |-> ls]

\* Inputs the session follows exactly while the shell is at its prompt.
LineInputs == {[kind |-> "text", text |-> rm], [kind |-> "enter"],
               [kind |-> "interrupt"], [kind |-> "kill"], [kind |-> "erase"]}
TextOnly == {[kind |-> "text", text |-> rm], [kind |-> "enter"]}
CursorOnly == {[kind |-> "cursor"]}
PasteOnly == {[kind |-> "paste", text |-> rm]}
AllInputs == LineInputs \cup CursorOnly \cup PasteOnly
=============================================================================

------------------------- MODULE MCTerminalSession -------------------------
(* A small instance of TerminalSession for TLC.                            *)
EXTENDS TerminalSession, TLC

CONSTANTS ls, spaces, op1, op2, home, bash, none

MCCommands == {ls, spaces}
MCBlank == {spaces}
MCOpIds == {op1, op2}
MCCwds == {home}
MCLogins == {bash}

OperationSymmetry == Permutations(MCOpIds)
=============================================================================

--------------------------- MODULE MCTerminalHub ---------------------------
(* A small instance of TerminalHub for TLC.                                *)
EXTENDS TerminalHub, TLC

CONSTANTS page1, page2, none

MCPages == {page1, page2}
=============================================================================

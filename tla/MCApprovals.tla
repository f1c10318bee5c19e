---------------------------- MODULE MCApprovals ----------------------------
(* Small instances of Approvals for TLC.                                   *)
EXTENDS Approvals, TLC

CONSTANTS prop1, prop2, op1, op2, here, there, none

MCProposals == {prop1, prop2}
MCOpIds == {op1, op2}
MCTargets == {here, there}

ApprovalSymmetry == Permutations(MCProposals) \cup Permutations(MCOpIds)
=============================================================================

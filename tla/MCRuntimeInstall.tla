-------------------------- MODULE MCRuntimeInstall --------------------------
(* A small instance of RuntimeInstall for TLC.                             *)
EXTENDS RuntimeInstall, TLC

CONSTANTS v1, v2, a1, a2, a3, none

MCVersions == {v1, v2}
MCAttempts == {a1, a2, a3}
MCArtifactOf == a1 :> v1 @@ a2 :> v2 @@ a3 :> v2
=============================================================================

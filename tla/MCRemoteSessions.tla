-------------------------- MODULE MCRemoteSessions --------------------------
EXTENDS RemoteSessions

CONSTANTS ssh1, ssh2, docker1, local1, direct1, home, none

MCCalls == {ssh1, ssh2, docker1, local1, direct1}
MCKindOf == [c \in MCCalls |->
    CASE c \in {ssh1, ssh2} -> "ssh" [] c = docker1 -> "docker"
      [] c = local1 -> "local" [] c = direct1 -> "remote"]
MCTargetOf == [c \in MCCalls |-> IF c \in {ssh1, ssh2, direct1} THEN home ELSE c]
=============================================================================

--------------------------- MODULE MCCodexClient ---------------------------
EXTENDS CodexClient

CONSTANTS s1, s2, s3, home, other, none

MCCalls == {s1, s2, s3}
MCThreadOf == [c \in MCCalls |-> IF c = s3 THEN other ELSE home]
=============================================================================

---------------------------- MODULE RuntimeLinks ----------------------------
(***************************************************************************)
(* What the installed runtimes of a host look like from outside: the one   *)
(* in use and the one to fall back to.  An installation and a rollback     *)
(* happen at once, whoever else is installing; an interrupted one costs at *)
(* most the fallback.  runtime/installer_linux.go implements it with two   *)
(* symbolic links under ~/.sbridge and a lock.                             *)
(***************************************************************************)
CONSTANTS
    Versions,   \* runtimes, one per content-addressed directory
    None        \* no runtime

VARIABLES current, previous

linkVars == <<current, previous>>

Init == current \in Versions \cup {None} /\ previous = None

Install(v) ==
    /\ v # current
    /\ current' = v
    /\ previous' = IF current = None THEN previous ELSE current

RollBack ==
    /\ previous # None
    /\ current' = previous
    /\ previous' = current

LoseFallback == previous' = current /\ UNCHANGED current

Next == (\E v \in Versions : Install(v)) \/ RollBack \/ LoseFallback

Spec == Init /\ [][Next]_linkVars
=============================================================================

------------------------ MODULE RuntimeInstallProofs ------------------------
(***************************************************************************)
(* Theorems about RuntimeInstall, for every set of runtimes and of calls   *)
(* and however many processes die.                                         *)
(***************************************************************************)
EXTENDS RuntimeInstall, TLAPS

-----------------------------------------------------------------------------
(* The inductive invariant.                                                *)

\* The process with the lock is exactly the one between two of its writes, and
\* a call that has not deployed yet runs nothing on the host.
LockIsExclusive ==
    \A a \in Attempts :
       /\ remote[a].step \in Critical <=> lock = a
       /\ core[a].step \in {"new", "ask", "upload"} => remote[a].step = "none"
       /\ core[a].step = "handshake" => remote[a].step \in {"none", "answered"}
       /\ remote[a].step \in RollingBack \cup {"rollback"} => core[a].deployed

\* What an installation has already seen to when it gets to a step.
InstallingIsSound ==
    \A a \in Attempts :
       /\ remote[a].step \in Installing \ {"place"} =>
             binary[ArtifactOf[a]] = "whole"
       /\ remote[a].step = "current" =>
             /\ current # ArtifactOf[a]
             /\ previous = IF current = None THEN None ELSE current
             /\ remote[a].kept # None => binary[remote[a].kept] = "whole"
             /\ current = None => remote[a].kept = None

\* The same for a rollback.
RollingBackIsSound ==
    \A a \in Attempts :
       /\ remote[a].step = "swap" => MayRollBack(a)
       /\ remote[a].step = "keep" =>
             /\ current # None /\ previous = current
             /\ remote[a].kept # None /\ binary[remote[a].kept] = "whole"

IInv == /\ LinkedRuntimesAreWhole /\ LockIsExclusive
        /\ InstallingIsSound /\ RollingBackIsSound

-----------------------------------------------------------------------------
(* Types.                                                                  *)

Process == [step : Critical \cup Waiting \cup Over, kept : Versions \cup {None}]
Connect == [step : Awaiting \cup {"new", "ask", "connected", "failed"},
            reason : {None, "missing", "upgrade"}, deployed : BOOLEAN]

LEMMA GoType ==
    ASSUME InstallTypeOK, NEW a \in Attempts,
           NEW s \in Critical \cup Waiting \cup Over, Go(a, s)
    PROVE  remote' \in [Attempts -> Process]
  BY DEF InstallTypeOK, Process, Go

LEMMA EndType ==
    ASSUME InstallTypeOK, NEW a \in Attempts, NEW s \in Over, End(a, s)
    PROVE  /\ remote' \in [Attempts -> Process]
           /\ lock' \in Attempts \cup {None}
  BY DEF InstallTypeOK, Process, End

LEMMA CoreType ==
    ASSUME InstallTypeOK, NEW a \in Attempts,
           NEW s \in Awaiting \cup {"new", "ask", "connected", "failed"},
           Enters(a, s) \/ Leaves(a, s)
    PROVE  core' \in [Attempts -> Connect]
  <1>1. core[a] \in Connect
    BY DEF InstallTypeOK, Connect
  <1>2. [core[a] EXCEPT !.step = s] \in Connect
    BY <1>1 DEF Connect
  <1>3. [core[a] EXCEPT !.step = s, !.reason = None] \in Connect
    BY <1>1 DEF Connect
  <1> QED BY <1>2, <1>3 DEF InstallTypeOK, Connect, Enters, Leaves

LEMMA NextType ==
    ASSUME InstallTypeOK, InstallAssumption, [Next]_vars
    PROVE  InstallTypeOK'
  <1> USE DEF Process, Connect, InstallTypeOK, Installing, RollingBack,
              Critical, Waiting, Over, Awaiting
  <1>1. ASSUME NEW a \in Attempts, Lock(a)
        PROVE  InstallTypeOK'
    BY <1>1, GoType, EndType DEF Lock, TakesLock
  <1>2. ASSUME NEW a \in Attempts, Place(a)
        PROVE  InstallTypeOK'
    BY <1>2, GoType, EndType DEF Place, Accepts, FileStates
  <1>3. ASSUME NEW a \in Attempts, WriteManifest(a)
        PROVE  InstallTypeOK'
    BY <1>3, GoType, EndType DEF WriteManifest, FileStates
  <1>4. ASSUME NEW a \in Attempts, KeepPrevious(a)
        PROVE  InstallTypeOK'
    BY <1>4, GoType, EndType DEF KeepPrevious
  <1>5. ASSUME NEW a \in Attempts, ReplaceCurrent(a)
        PROVE  InstallTypeOK'
    BY <1>5, GoType, EndType DEF ReplaceCurrent
  <1>6. ASSUME NEW a \in Attempts, CheckRollback(a)
        PROVE  InstallTypeOK'
    BY <1>6, GoType, EndType DEF CheckRollback
  <1>7. ASSUME NEW a \in Attempts, RollbackCurrent(a)
        PROVE  InstallTypeOK'
    BY <1>7, GoType, EndType DEF RollbackCurrent
  <1>8. ASSUME NEW a \in Attempts, RollbackPrevious(a)
        PROVE  InstallTypeOK'
    BY <1>8, GoType, EndType DEF RollbackPrevious
  <1>9. ASSUME NEW a \in Attempts, RemoteDies(a)
        PROVE  InstallTypeOK'
    BY <1>9, GoType, EndType DEF RemoteDies
  <1>10. ASSUME NEW a \in Attempts, ReadVersion(a)
        PROVE  InstallTypeOK'
    <2>1. ASSUME NEW r \in {"missing", "upgrade"}
          PROVE  [core[a] EXCEPT !.step = "ask", !.reason = r] \in Connect
      BY DEF Connect
    <2>2. core' \in [Attempts -> Connect]
      BY <1>10, <2>1, CoreType DEF ReadVersion
    <2> QED BY <1>10, <2>2 DEF ReadVersion, hostVars
  <1>11. ASSUME NEW a \in Attempts, Approve(a)
        PROVE  InstallTypeOK'
    BY <1>11, GoType, EndType, CoreType DEF Approve, hostVars
  <1>12. ASSUME NEW a \in Attempts, Deploy(a)
        PROVE  InstallTypeOK'
    BY <1>12, GoType, EndType, CoreType DEF Deploy, FileStates
  <1>13. ASSUME NEW a \in Attempts, InstallAnswered(a)
        PROVE  InstallTypeOK'
    <2>1. [step |-> "handshake", reason |-> None, deployed |-> TRUE] \in Connect
      BY DEF Connect
    <2>2. core' \in [Attempts -> Connect]
      BY <1>13, <2>1, CoreType DEF InstallAnswered
    <2> QED BY <1>13, <2>2 DEF InstallAnswered, hostVars
  <1>14. ASSUME NEW a \in Attempts, Handshake(a)
        PROVE  InstallTypeOK'
    BY <1>14, GoType, EndType, CoreType DEF Handshake, Undo, hostVars
  <1>15. ASSUME NEW a \in Attempts, RollbackAnswered(a)
        PROVE  InstallTypeOK'
    BY <1>15, GoType, EndType, CoreType DEF RollbackAnswered, hostVars
  <1>16. ASSUME NEW a \in Attempts, GivesUp(a)
        PROVE  InstallTypeOK'
    BY <1>16, GoType, EndType, CoreType DEF GivesUp, hostVars
  <1>17. CASE UNCHANGED vars
    BY <1>17 DEF vars, hostVars
  <1> QED
      BY <1>1, <1>2, <1>3, <1>4, <1>5, <1>6, <1>7, <1>8, <1>9, <1>10, <1>11,
         <1>12, <1>13, <1>14, <1>15, <1>16, <1>17
         DEF Next, RemoteStep, CoreStep

-----------------------------------------------------------------------------
(* Safety.                                                                 *)

LEMMA NextIInv ==
    ASSUME IInv, InstallAssumption, [Next]_vars
    PROVE  IInv'
  <1>1. InstallTypeOK'
    BY NextType DEF IInv, LinkedRuntimesAreWhole
  <1> USE DEF IInv, LinkedRuntimesAreWhole, InstallTypeOK, LockIsExclusive,
              InstallingIsSound, RollingBackIsSound, Installing, RollingBack,
              Critical, Awaiting
  <1>2. ASSUME NEW a \in Attempts, Lock(a)
        PROVE  IInv'
    <2>1. LinkedRuntimesAreWhole'
      BY <1>1, <1>2 DEF Lock, TakesLock
    <2>2. LockIsExclusive'
      BY <1>1, <1>2 DEF Lock, TakesLock, At, Go
    <2>3. InstallingIsSound'
      BY <1>2 DEF Lock, TakesLock, Go
    <2>4. RollingBackIsSound'
      BY <1>2 DEF Lock, MayRollBack, TakesLock, Go
    <2> QED BY <2>1, <2>2, <2>3, <2>4
  <1>3. ASSUME NEW a \in Attempts, Place(a)
        PROVE  IInv'
    <2>1. LinkedRuntimesAreWhole'
      BY <1>1, <1>3 DEF Place, Accepts
    <2>2. LockIsExclusive'
      BY <1>3 DEF Place, Accepts, At, Go, End
    <2>3. InstallingIsSound'
      BY <1>3 DEF Place, Accepts, Go, End
    <2>4. RollingBackIsSound'
      BY <1>3 DEF Place, MayRollBack, Accepts, Go, End
    <2> QED BY <2>1, <2>2, <2>3, <2>4
  <1>4. ASSUME NEW a \in Attempts, WriteManifest(a)
        PROVE  IInv'
    <2>1. LinkedRuntimesAreWhole'
      BY <1>1, <1>4 DEF WriteManifest
    <2>2. LockIsExclusive'
      BY <1>4 DEF WriteManifest, At, Go
    <2>3. InstallingIsSound'
      BY <1>4 DEF WriteManifest, At, Go
    <2>4. RollingBackIsSound'
      BY <1>4 DEF WriteManifest, At, Go
    <2> QED BY <2>1, <2>2, <2>3, <2>4
  <1>5. ASSUME NEW a \in Attempts, KeepPrevious(a)
        PROVE  IInv'
    <2>1. LinkedRuntimesAreWhole'
      BY <1>1, <1>5 DEF KeepPrevious
    <2>2. LockIsExclusive'
      BY <1>5 DEF KeepPrevious, At, End
    <2>3. InstallingIsSound'
      BY <1>5 DEF KeepPrevious, At, End
    <2>4. RollingBackIsSound'
      BY <1>5 DEF KeepPrevious, At, End
    <2> QED BY <2>1, <2>2, <2>3, <2>4
  <1>6. ASSUME NEW a \in Attempts, ReplaceCurrent(a)
        PROVE  IInv'
    <2>1. LinkedRuntimesAreWhole'
      BY <1>1, <1>6 DEF ReplaceCurrent, At
    <2>2. LockIsExclusive'
      BY <1>6 DEF ReplaceCurrent, At, End
    <2>3. InstallingIsSound'
      BY <1>6 DEF ReplaceCurrent, At, End
    <2>4. RollingBackIsSound'
      BY <1>6 DEF ReplaceCurrent, At, End
    <2> QED BY <2>1, <2>2, <2>3, <2>4
  <1>7. ASSUME NEW a \in Attempts, CheckRollback(a)
        PROVE  IInv'
    <2>1. LinkedRuntimesAreWhole'
      BY <1>1, <1>7 DEF CheckRollback
    <2>2. LockIsExclusive'
      BY <1>7 DEF CheckRollback, At, Go, End
    <2>3. InstallingIsSound'
      BY <1>7 DEF CheckRollback, Go, End
    <2>4. RollingBackIsSound'
      BY <1>7 DEF CheckRollback, MayRollBack, Go, End
    <2> QED BY <2>1, <2>2, <2>3, <2>4
  <1>8. ASSUME NEW a \in Attempts, RollbackCurrent(a)
        PROVE  IInv'
    <2>1. LinkedRuntimesAreWhole'
      BY <1>8 DEF RollbackCurrent
    <2>2. LockIsExclusive'
      BY <1>8 DEF RollbackCurrent, At
    <2>3. InstallingIsSound'
      BY <1>8 DEF RollbackCurrent
    <2>4. RollingBackIsSound'
      BY <1>8 DEF RollbackCurrent, MayRollBack, At
    <2> QED BY <2>1, <2>2, <2>3, <2>4
  <1>9. ASSUME NEW a \in Attempts, RollbackPrevious(a)
        PROVE  IInv'
    <2>1. LinkedRuntimesAreWhole'
      BY <1>1, <1>9 DEF RollbackPrevious, At
    <2>2. LockIsExclusive'
      BY <1>9 DEF RollbackPrevious, At, End
    <2>3. InstallingIsSound'
      BY <1>9 DEF RollbackPrevious, At, End
    <2>4. RollingBackIsSound'
      BY <1>9 DEF RollbackPrevious, At, End
    <2> QED BY <2>1, <2>2, <2>3, <2>4
  <1>10. ASSUME NEW a \in Attempts, RemoteDies(a)
        PROVE  IInv'
    <2>1. LinkedRuntimesAreWhole'
      BY <1>1, <1>10 DEF RemoteDies, Waiting
    <2>2. LockIsExclusive'
      BY <1>10 DEF RemoteDies, Waiting, End
    <2>3. InstallingIsSound'
      BY <1>10 DEF RemoteDies, Waiting, End
    <2>4. RollingBackIsSound'
      BY <1>10 DEF RemoteDies, MayRollBack, Waiting, End
    <2> QED BY <2>1, <2>2, <2>3, <2>4
  <1>11. ASSUME NEW a \in Attempts, Deploy(a)
        PROVE  IInv'
    <2>1. LinkedRuntimesAreWhole'
      BY <1>1, <1>11 DEF Deploy, Enters
    <2>2. LockIsExclusive'
      BY <1>11 DEF Deploy, In, Go, Enters
    <2>3. InstallingIsSound'
      BY <1>11 DEF Deploy, Go, Enters
    <2>4. RollingBackIsSound'
      BY <1>11 DEF Deploy, MayRollBack, Go, Enters
    <2> QED BY <2>1, <2>2, <2>3, <2>4
  <1>12. ASSUME NEW a \in Attempts, Handshake(a)
        PROVE  IInv'
    <2>1. LinkedRuntimesAreWhole'
      BY <1>1, <1>12 DEF Handshake, Enters, Undo, hostVars
    <2>2. LockIsExclusive'
      BY <1>1, <1>12 DEF Handshake, In, Go, Enters, Undo, hostVars
    <2>3. InstallingIsSound'
      BY <1>12 DEF Handshake, Go, Enters, Undo, hostVars
    <2>4. RollingBackIsSound'
      BY <1>12 DEF Handshake, MayRollBack, Go, Enters, Undo, hostVars
    <2> QED BY <2>1, <2>2, <2>3, <2>4
  <1>13. ASSUME NEW a \in Attempts,
               ReadVersion(a) \/ Approve(a) \/ InstallAnswered(a)
                 \/ RollbackAnswered(a) \/ GivesUp(a)
        PROVE  IInv'
    <2>1. UNCHANGED <<hostVars, remote>>
      BY <1>13
         DEF ReadVersion, Approve, InstallAnswered, RollbackAnswered, GivesUp
    <2>2. LockIsExclusive'
      <3>1. CASE ReadVersion(a)
        BY <3>1 DEF ReadVersion, In, Leaves, hostVars
      <3>2. CASE Approve(a)
        BY <3>2 DEF Approve, In, Enters, hostVars
      <3>3. CASE InstallAnswered(a)
        <4>1. /\ \A b \in Attempts \ {a} : core'[b] = core[b]
              /\ core'[a].step \in {"handshake", "failed"}
              /\ core'[a].step = "handshake" => remote[a].step = "answered"
              /\ core[a].deployed => core'[a].deployed
          BY <3>3 DEF InstallAnswered, At, Enters
        <4> QED BY <4>1, <2>1 DEF hostVars
      <3>4. CASE RollbackAnswered(a)
        BY <3>4 DEF RollbackAnswered, Enters, hostVars
      <3>5. CASE GivesUp(a)
        BY <3>5 DEF GivesUp, Enters, hostVars
      <3> QED BY <1>13, <3>1, <3>2, <3>3, <3>4, <3>5
    <2> QED BY <1>1, <2>1, <2>2 DEF MayRollBack, hostVars
  <1>14. CASE UNCHANGED vars
    BY <1>14 DEF vars, hostVars, MayRollBack
  <1> QED
    BY <1>2, <1>3, <1>4, <1>5, <1>6, <1>7, <1>8, <1>9, <1>10, <1>11, <1>12,
       <1>13, <1>14
       DEF Next, RemoteStep, CoreStep

LEMMA InitIInv ==
    ASSUME Init, InstallAssumption
    PROVE  IInv
  BY DEF Init, IInv, LinkedRuntimesAreWhole, InstallTypeOK, LockIsExclusive,
         InstallingIsSound, RollingBackIsSound, FileStates, Installing,
         RollingBack, Critical, Waiting, Over, Awaiting

LEMMA Invariance == Spec => []IInv
  <1>1. Init => IInv
    BY InitIInv, InstallAssumption
  <1>2. IInv /\ [Next]_vars => IInv'
    BY NextIInv, InstallAssumption
  <1> QED BY <1>1, <1>2, PTL DEF Spec

\* installer_linux.go: whatever dies where, the links only ever name a directory
\* with the right binary in it, and a host that had a runtime keeps one.
THEOREM RuntimesStayWhole == Spec => []LinkedRuntimesAreWhole
  <1>1. IInv => LinkedRuntimesAreWhole
    BY DEF IInv
  <1> QED BY <1>1, Invariance, PTL

\* The only step from "swap" to "keep" is the first rename of a rollback.
LEMMA KeepFollowsSwap ==
    ASSUME IInv, InstallAssumption, Next, NEW a \in Attempts,
           At(a, "swap"), remote'[a].step = "keep"
    PROVE  RollbackCurrent(a)
  <1>1. InstallTypeOK
    BY DEF IInv, LinkedRuntimesAreWhole
  <1>2. lock = a /\ core[a].step \notin {"upload", "handshake"}
    BY DEF IInv, LockIsExclusive, At, Critical, RollingBack
  <1>3. PICK b \in Attempts : \/ Lock(b) \/ RemoteStep(b) \/ RemoteDies(b)
                              \/ CoreStep(b) \/ Approve(b) \/ GivesUp(b)
    BY DEF Next
  <1>4. ~Lock(b)
    BY <1>2 DEF Lock, TakesLock
  <1>5. ~Place(b)
    BY <1>1, <1>2 DEF InstallTypeOK, At, Place, Go, End
  <1>6. ~WriteManifest(b)
    BY <1>1, <1>2 DEF InstallTypeOK, At, WriteManifest, Go
  <1>7. ~KeepPrevious(b)
    BY <1>1, <1>2 DEF InstallTypeOK, At, KeepPrevious, End
  <1>8. ~ReplaceCurrent(b)
    BY <1>1, <1>2 DEF InstallTypeOK, At, ReplaceCurrent, End
  <1>9. ~CheckRollback(b)
    BY <1>1, <1>2 DEF InstallTypeOK, At, CheckRollback, Go, End
  <1>10. ~RollbackPrevious(b)
    BY <1>1, <1>2 DEF InstallTypeOK, At, RollbackPrevious, End
  <1>11. ~RemoteDies(b)
    BY <1>1, <1>2 DEF InstallTypeOK, At, RemoteDies, End
  <1>12. ~ReadVersion(b)
    BY <1>2 DEF At, ReadVersion
  <1>13. ~Approve(b)
    BY <1>2 DEF At, Approve
  <1>14. ~Deploy(b)
    BY <1>1, <1>2 DEF InstallTypeOK, At, Deploy, Go
  <1>15. ~InstallAnswered(b)
    BY <1>2 DEF At, InstallAnswered
  <1>16. ~Handshake(b)
    BY <1>1, <1>2 DEF InstallTypeOK, At, Handshake, Go, Undo
  <1>17. ~RollbackAnswered(b)
    BY <1>2 DEF At, RollbackAnswered
  <1>18. ~GivesUp(b)
    BY <1>2 DEF At, GivesUp
  <1>19. RollbackCurrent(b)
    BY <1>3, <1>4, <1>5, <1>6, <1>7, <1>8, <1>9, <1>10, <1>11, <1>12, <1>13,
       <1>14, <1>15, <1>16, <1>17, <1>18
       DEF RemoteStep, CoreStep
  <1>20. b = a
    BY <1>19 DEF At, RollbackCurrent
  <1> QED BY <1>19, <1>20

\* M0-B2-VERIFICATION.md:21, "compare-and-swap rollback": a rollback only takes
\* away the runtime its own connect() had deployed, and puts a verified one in
\* its place.
THEOREM RollbackOnlyWhenDue == Spec => RollbackIsDue
  <1>1. ASSUME IInv, InstallAssumption, Next, NEW a \in Attempts,
               At(a, "swap"), remote'[a].step = "keep"
        PROVE  /\ core[a].deployed
               /\ current = ArtifactOf[a]
               /\ manifest[current'] = "whole"
    <2>1. RollbackCurrent(a)
      BY <1>1, KeepFollowsSwap
    <2> QED
        BY <1>1, <2>1
           DEF IInv, LockIsExclusive, RollingBackIsSound, RollingBack,
               MayRollBack, RollbackCurrent, At
  <1>2. ASSUME IInv, InstallAssumption, UNCHANGED vars, NEW a \in Attempts,
               At(a, "swap"), remote'[a].step = "keep"
        PROVE  FALSE
    BY <1>2 DEF vars, At
  <1>3. IInv /\ [Next]_vars =>
          [\A a \in Attempts : At(a, "swap") /\ remote'[a].step = "keep" =>
             /\ core[a].deployed
             /\ current = ArtifactOf[a]
             /\ manifest[current'] = "whole"]_vars
    BY <1>1, <1>2, InstallAssumption
  <1> QED BY <1>3, Invariance, PTL DEF Spec, RollbackIsDue

-----------------------------------------------------------------------------
(* Refinement.                                                             *)

\* The link to fall back to, as Links sees it.
Fallback == IF lock # None /\ remote[lock].step \in {"current", "keep"}
            THEN remote[lock].kept ELSE previous

LEMMA LinksStay ==
    ASSUME UNCHANGED <<current, Fallback>>
    PROVE  UNCHANGED Links!linkVars
  BY DEF Links!linkVars, Fallback

LEMMA LinksInit ==
    ASSUME Init
    PROVE  Links!Init
  BY DEF Init, Links!Init, Fallback

LEMMA LinksNext ==
    ASSUME IInv, IInv', InstallAssumption, [Next]_vars
    PROVE  [Links!Next]_(Links!linkVars)
  <1>1. InstallTypeOK /\ InstallTypeOK'
    BY DEF IInv, LinkedRuntimesAreWhole
  <1>2. \A a \in Attempts : a # None
    BY DEF InstallAssumption
  <1>3. ASSUME NEW a \in Attempts, Lock(a)
        PROVE  UNCHANGED <<current, Fallback>>
    BY <1>1, <1>2, <1>3 DEF Fallback, InstallTypeOK, Lock, TakesLock, Go
  <1>4. ASSUME NEW a \in Attempts, Place(a)
        PROVE  UNCHANGED <<current, Fallback>>
    BY <1>1, <1>2, <1>4 DEF Fallback, InstallTypeOK, Place, At, Go, End
  <1>5. ASSUME NEW a \in Attempts, WriteManifest(a)
        PROVE  UNCHANGED <<current, Fallback>>
    BY <1>1, <1>2, <1>5
       DEF IInv, LockIsExclusive, Fallback, InstallTypeOK, WriteManifest, At,
           Go
  <1>6. ASSUME NEW a \in Attempts, CheckRollback(a)
        PROVE  UNCHANGED <<current, Fallback>>
    BY <1>1, <1>2, <1>6
       DEF Fallback, InstallTypeOK, CheckRollback, At, Go, End
  <1>7. ASSUME NEW a \in Attempts, RollbackPrevious(a)
        PROVE  UNCHANGED <<current, Fallback>>
    BY <1>2, <1>7
       DEF IInv, LockIsExclusive, Critical, Fallback, Installing, RollingBack,
           RollbackPrevious, At, End
  <1>8. ASSUME NEW a \in Attempts, ReadVersion(a)
        PROVE  UNCHANGED <<current, Fallback>>
    BY <1>2, <1>8 DEF Fallback, ReadVersion, hostVars
  <1>9. ASSUME NEW a \in Attempts, Approve(a)
        PROVE  UNCHANGED <<current, Fallback>>
    BY <1>2, <1>9 DEF Fallback, Approve, hostVars
  <1>10. ASSUME NEW a \in Attempts, Deploy(a)
        PROVE  UNCHANGED <<current, Fallback>>
    BY <1>2, <1>10 DEF IInv, LockIsExclusive, Fallback, Deploy, In, Go
  <1>11. ASSUME NEW a \in Attempts, InstallAnswered(a)
        PROVE  UNCHANGED <<current, Fallback>>
    BY <1>2, <1>11 DEF Fallback, InstallAnswered, hostVars
  <1>12. ASSUME NEW a \in Attempts, Handshake(a)
        PROVE  UNCHANGED <<current, Fallback>>
    BY <1>1, <1>2, <1>12
       DEF IInv, LockIsExclusive, Fallback, InstallTypeOK, Handshake, In, Go,
           Undo, hostVars
  <1>13. ASSUME NEW a \in Attempts, RollbackAnswered(a)
        PROVE  UNCHANGED <<current, Fallback>>
    BY <1>2, <1>13 DEF Fallback, RollbackAnswered, hostVars
  <1>14. ASSUME NEW a \in Attempts, GivesUp(a)
        PROVE  UNCHANGED <<current, Fallback>>
    BY <1>2, <1>14 DEF Fallback, GivesUp, hostVars
  <1>15. ASSUME NEW a \in Attempts, KeepPrevious(a)
        PROVE  UNCHANGED <<current, Fallback>>
    BY <1>1, <1>2, <1>15
       DEF IInv, LockIsExclusive, InstallingIsSound, RollingBackIsSound,
           Critical, Fallback, Installing, InstallTypeOK, KeepPrevious, At, End
  <1>16. ASSUME NEW a \in Attempts, ReplaceCurrent(a)
        PROVE  Links!Install(ArtifactOf[a])
    BY <1>2, <1>16
       DEF IInv, LockIsExclusive, InstallingIsSound, RollingBackIsSound,
           Critical, Fallback, Installing, Links!Install, ReplaceCurrent,
           At, End
  <1>17. ASSUME NEW a \in Attempts, RollbackCurrent(a)
        PROVE  Links!RollBack
    BY <1>2, <1>17
       DEF IInv, LockIsExclusive, InstallingIsSound, RollingBackIsSound,
           MayRollBack, Critical, Fallback, Installing, RollingBack,
           Links!RollBack, RollbackCurrent, At
  <1>18. ASSUME NEW a \in Attempts, RemoteDies(a)
        PROVE  UNCHANGED <<current, Fallback>> \/ Links!LoseFallback
    BY <1>2, <1>18
       DEF IInv, InstallingIsSound, RollingBackIsSound, Fallback,
           Links!LoseFallback, RemoteDies, End, Waiting
  <1>19. CASE UNCHANGED vars
    BY <1>19 DEF vars, hostVars, Links!linkVars, Fallback
  <1> QED
    BY <1>3, <1>4, <1>5, <1>6, <1>7, <1>8, <1>9, <1>10, <1>11, <1>12, <1>13,
       <1>14, <1>15, <1>16, <1>17, <1>18, <1>19, LinksStay
       DEF Next, RemoteStep, CoreStep, Links!Next

\* Whatever the order of installations, rollbacks and deaths, they change the
\* two links of the host one after the other and as one pair.
THEOREM InstallImplementsLinks == Spec => ImplementsLinks
  <1>1. Spec => Links!Init /\ [][Links!Next]_(Links!linkVars)
    BY LinksInit, LinksNext, Invariance, InstallAssumption, PTL DEF Spec
  <1> QED BY <1>1 DEF ImplementsLinks, Links!Spec
=============================================================================

----------------------- MODULE TerminalSessionProofs -----------------------
(***************************************************************************)
(* Theorems about TerminalSession, and about ShellTerminal, which connects *)
(* it to a shell, for every set of commands, operations and directories    *)
(* and for every bound. Those about the session alone come first and use   *)
(* nothing of the shell.                                                   *)
(***************************************************************************)
EXTENDS ShellTerminal, FiniteSetTheorems, SequenceTheorems, TLAPS

-----------------------------------------------------------------------------
(* Facts the steps share.                                                  *)

\* The frame on top of the stack is a frame.
LEMMA TopType ==
    ASSUME TypeOK
    PROVE  Top \in Frame /\ Len(environments) \in DOMAIN environments
  BY DEF TypeOK, Top

\* finishActiveCommand settles the active operation and touches no other.
LEMMA FinishedOperationsType ==
    ASSUME TypeOK, NEW x
    PROVE  /\ FinishedOperations(x) \in [OpIds -> Status]
           /\ OutcomeOf(x) \in Settled
           /\ \A o \in OpIds :
                 \/ FinishedOperations(x)[o] = operations[o]
                 \/ /\ activeCommand # None /\ activeCommand.op = o
                    /\ FinishedOperations(x)[o] = OutcomeOf(x)
  BY DEF TypeOK, FinishedOperations, OutcomeOf, Status, Settled

\* finishActiveCommand keeps the list of blocks within its limit.
LEMMA FinishedBlocksType ==
    ASSUME TypeOK, NEW e \in BOOLEAN
    PROVE  /\ FinishedBlocks(e) \in Seq(Block)
           /\ Len(FinishedBlocks(e)) <= MaxBlocks
  <1>1. CASE activeCommand = None
    BY <1>1 DEF TypeOK, FinishedBlocks, Kept
  <1>2. CASE activeCommand # None
    <2> DEFINE new == [op |-> activeCommand.op,
                       command |-> activeCommand.command, exact |-> e]
               all == Append(commandBlocks, new)
    <2>1. new \in Block
      BY <1>2 DEF TypeOK, Active, Block
    <2>2. all \in Seq(Block) /\ Len(all) = Len(commandBlocks) + 1
      BY <2>1 DEF TypeOK
    <2>3. FinishedBlocks(e) = IF Len(all) > MaxBlocks THEN Tail(all) ELSE all
      BY <1>2 DEF FinishedBlocks, Kept
    <2> HIDE DEF all
    <2>4. Len(commandBlocks) \in Nat /\ Len(commandBlocks) <= MaxBlocks
      BY DEF TypeOK
    <2>5. CASE Len(all) > MaxBlocks
      <3>1. Tail(all) \in Seq(Block) /\ Len(Tail(all)) = Len(all) - 1
        BY <2>2, <2>4, <2>5, BoundAssumption
      <3> QED BY <2>2, <2>3, <2>4, <2>5, <3>1
    <2>6. CASE ~(Len(all) > MaxBlocks)
      BY <2>2, <2>3, <2>4, <2>6, BoundAssumption
    <2> QED BY <2>5, <2>6
  <1> QED BY <1>1, <1>2

\* The command a commandStart event makes active.
LEMMA StartedCommandType ==
    ASSUME TypeOK, NEW c \in Commands, NEW d, NEW l,
           ReceiveCommandStart(c, d, l)
    PROVE  activeCommand' \in Active
  <1>1. Top.id \in Nat
    BY TopType DEF Frame
  <1> QED BY <1>1 DEF ReceiveCommandStart, Claims, Active, TypeOK, Pending

-----------------------------------------------------------------------------
(* Type correctness.                                                       *)

LEMMA InitType == Init => TypeOK
  <1> SUFFICES ASSUME Init PROVE TypeOK
    OBVIOUS
  <1>1. environments \in Seq(Frame) /\ environments # <<>>
    BY BoundAssumption DEF Init, Frame
  <1>2. commandBlocks \in Seq(Block) /\ Len(commandBlocks) <= MaxBlocks
    BY BoundAssumption DEF Init
  <1>3. /\ operations \in [OpIds -> Status]
        /\ frozen \in [OpIds -> Scope \cup {None}]
    BY DEF Init, Status
  <1> QED
    BY <1>1, <1>2, <1>3 DEF Init, TypeOK

LEMMA NextType == TypeOK /\ [Next]_vars => TypeOK'
  <1> SUFFICES ASSUME TypeOK, [Next]_vars PROVE TypeOK'
    OBVIOUS
  <1>a. contextVersion + 1 \in Nat /\ inputVersion + 1 \in Nat
    BY DEF TypeOK
  <1>1. ASSUME NEW o \in OpIds, NEW c \in Commands, Freeze(o, c)
        PROVE  TypeOK'
    <2>1. Top.id \in Nat
      BY TopType DEF Frame
    <2>2. [frame |-> Top.id, cwd |-> cwd, login |-> login,
           contextVersion |-> contextVersion, inputVersion |-> inputVersion,
           command |-> c] \in Scope
      BY <2>1 DEF TypeOK, Scope
    <2> QED BY <1>1, <2>2 DEF Freeze, TypeOK, context
  <1>2. ASSUME NEW o \in OpIds, SubmitApproved(o)
        PROVE  TypeOK'
    <2>1. frozen[o].command \in Commands
      BY <1>2 DEF SubmitApproved, ValidateApproved, TypeOK, Scope
    <2>2. [op |-> o, command |-> frozen[o].command] \in Pending
      BY <2>1 DEF Pending
    <2> QED BY <1>2, <2>2 DEF SubmitApproved, TypeOK, Status
  <1>3. ASSUME NEW k \in InputKinds, Write(k)
        PROVE  TypeOK'
    BY <1>3, <1>a DEF Write, Interrupts, TypeOK, EmptyAfter, context
  <1>4. CASE InsertCommand
    BY <1>4, <1>a DEF InsertCommand, TypeOK, context
  <1>5. ASSUME NEW d \in Cwds, NEW l \in Logins, ReceivePrompt(d, l)
        PROVE  TypeOK'
    BY <1>5, <1>a DEF ReceivePrompt, NextEvent, TypeOK
  <1>6. ASSUME NEW c \in Commands, NEW d \in Cwds, NEW l \in Logins,
               ReceiveCommandStart(c, d, l)
        PROVE  TypeOK'
    <2>1. operations' \in [OpIds -> Status]
      BY <1>6, FinishedOperationsType
         DEF ReceiveCommandStart, Claims, Status, Settled
    <2>2. activeCommand' \in Active
      BY <1>6, StartedCommandType
    <2>3. commandBlocks' \in Seq(Block) /\ Len(commandBlocks') <= MaxBlocks
      BY <1>6, FinishedBlocksType DEF ReceiveCommandStart, Claims
    <2> QED BY <1>6, <1>a, <2>1, <2>2, <2>3
            DEF ReceiveCommandStart, Claims, NextEvent, TypeOK, FinishedInterrupt
  <1>7. ASSUME NEW x \in ExitCodes, NEW d \in Cwds, ReceiveCommandEnd(x, d)
        PROVE  TypeOK'
    <2>1. operations' \in [OpIds -> Status]
      BY <1>7, FinishedOperationsType DEF ReceiveCommandEnd
    <2>2. commandBlocks' \in Seq(Block) /\ Len(commandBlocks') <= MaxBlocks
      BY <1>7, FinishedBlocksType DEF ReceiveCommandEnd
    <2> QED BY <1>7, <1>a, <2>1, <2>2
            DEF ReceiveCommandEnd, NextEvent, TypeOK, FinishedInterrupt
  <1>8. CASE ReceiveEnvironmentPush
    <2>1. [id |-> RootDepth + contextVersion + 1, verified |-> FALSE]
             \in Frame
      BY BoundAssumption DEF TypeOK, Frame
    <2>2. environments' \in Seq(Frame) /\ environments' # <<>>
      BY <1>8, <2>1 DEF ReceiveEnvironmentPush, PushedFrame, TypeOK
    <2> QED BY <1>8, <1>a, <2>2 DEF ReceiveEnvironmentPush, PushedFrame, NextEvent, TypeOK
  <1>9. CASE ReceiveEnvironmentPop
    <2>1. environments' \in Seq(Frame) /\ environments' # <<>>
      <3>1. CASE Len(environments) > 1
        <4> DEFINE n == Len(environments) - 1
        <4>1. n \in 1..Len(environments)
          BY <3>1 DEF TypeOK
        <4>2. /\ SubSeq(environments, 1, n) \in Seq(Frame)
              /\ Len(SubSeq(environments, 1, n)) = n
          BY <4>1 DEF TypeOK
        <4>3. environments' = SubSeq(environments, 1, n)
          BY <1>9, <3>1 DEF ReceiveEnvironmentPop, Popped
        <4>4. n # 0
          BY <4>1, <3>1 DEF TypeOK
        <4> HIDE DEF n
        <4>5. environments' \in Seq(Frame) /\ Len(environments') # 0
          BY <4>2, <4>3, <4>4
        <4> QED BY <4>5
      <3>2. CASE ~(Len(environments) > 1)
        BY <1>9, <3>2 DEF ReceiveEnvironmentPop, Popped, TypeOK
      <3> QED BY <3>1, <3>2
    <2> QED BY <1>9, <1>a, <2>1 DEF ReceiveEnvironmentPop, Popped, NextEvent, TypeOK
  <1>10. CASE ReceiveExit
    BY <1>10 DEF ReceiveExit, TypeOK, context
  <1>11. CASE Dispose
    BY <1>11 DEF Dispose, TypeOK, context
  <1>12. CASE UNCHANGED vars
    BY <1>12 DEF vars, TypeOK
  <1> QED
    BY <1>1, <1>2, <1>3, <1>4, <1>5, <1>6, <1>7, <1>8, <1>9, <1>10, <1>11,
       <1>12 DEF Next, ReceiveEvent

\* Every variable keeps its type, and the block list its limit, whatever
\* events the shell sends.
THEOREM TypeCorrect == Spec => []TypeOK
  BY InitType, NextType, PTL DEF Spec

-----------------------------------------------------------------------------
(* Safety.  The properties are not inductive one by one: a claimed command *)
(* is the pending one's because TrackedOperations tells the pending from   *)
(* the active operation, and a new submission has a scope of its own       *)
(* because the earlier ones are strictly behind (SubmissionsAreBehind).    *)

IInv ==
    /\ SubmissionsAreBehind
    /\ SubmissionsDiffer
    /\ TrackedOperations
    /\ InterruptHasTarget
    /\ NoAuthorityFromOutput

LEMMA InitIInv == Init => IInv
  <1> SUFFICES ASSUME Init PROVE IInv
    OBVIOUS
  <1>1. \A i \in DOMAIN environments : environments[i].id <= RootDepth
    BY BoundAssumption DEF Init
  <1> QED
    BY <1>1 DEF Init, IInv, SubmissionsAreBehind, SubmissionsDiffer,
                Submitted, TrackedOperations, InterruptHasTarget,
                NoAuthorityFromOutput

\* Freezing a scope concerns no operation that was already submitted.
LEMMA FreezeKeeps ==
    ASSUME TypeOK, IInv, NEW o \in OpIds, NEW c \in Commands, Freeze(o, c)
    PROVE  IInv'
  <1>1. \A p \in OpIds : Submitted(p) => frozen'[p] = frozen[p]
    BY DEF Freeze, IInv, SubmissionsAreBehind, TypeOK
  <1>2. UNCHANGED <<operations, contextVersion, shellState, environments,
                    activeCommand, pendingApproved, interruptRequested>>
    BY DEF Freeze, context
  <1>3. \A p \in OpIds : Submitted(p)' <=> Submitted(p)
    BY <1>2 DEF Submitted
  <1>4. SubmissionsAreBehind' /\ SubmissionsDiffer'
    BY <1>1, <1>2, <1>3 DEF IInv, SubmissionsAreBehind, SubmissionsDiffer
  <1>5. TrackedOperations'
    <2>1. activeCommand # None /\ activeCommand.op # None
          => activeCommand.op \in OpIds /\ Submitted(activeCommand.op)
      BY DEF TypeOK, Active, IInv, TrackedOperations, Submitted
    <2>2. pendingApproved # None
          => pendingApproved.op \in OpIds /\ Submitted(pendingApproved.op)
      BY DEF TypeOK, Pending, IInv, TrackedOperations, Submitted
    <2> QED BY <1>1, <1>2, <2>1, <2>2 DEF IInv, TrackedOperations
  <1>6. InterruptHasTarget' /\ NoAuthorityFromOutput'
    BY <1>1, <1>2, <1>3 DEF IInv, InterruptHasTarget, NoAuthorityFromOutput
  <1> QED BY <1>4, <1>5, <1>6 DEF IInv

\* A submission happens in an idle session, so every earlier one is behind.
LEMMA SubmitKeeps ==
    ASSUME TypeOK, IInv, NEW o \in OpIds, SubmitApproved(o)
    PROVE  IInv'
  <1>1. /\ operations' = [operations EXCEPT ![o] = "accepted"]
        /\ ~Submitted(o)
        /\ frozen[o] # None /\ frozen[o].contextVersion = contextVersion
        /\ frozen[o].frame = Top.id /\ Top.verified
        /\ shellState = "idle" /\ shellState' = "running"
        /\ pendingApproved' = [op |-> o, command |-> frozen[o].command]
        /\ UNCHANGED <<contextVersion, environments, activeCommand,
                       interruptRequested, frozen>>
    BY DEF SubmitApproved, ValidateApproved, ScopeUnchanged
  <1>2. \A p \in OpIds : Submitted(p)' <=> p = o \/ Submitted(p)
    BY <1>1 DEF Submitted, TypeOK
  <1>3. \A p \in OpIds : Submitted(p) =>
           frozen[p].contextVersion < contextVersion
    BY <1>1 DEF IInv, SubmissionsAreBehind
  <1>4. SubmissionsAreBehind'
    BY <1>1, <1>2 DEF IInv, SubmissionsAreBehind, TypeOK
  <1>5. SubmissionsDiffer'
    BY <1>1, <1>2, <1>3 DEF IInv, SubmissionsDiffer, TypeOK
  <1>6. TrackedOperations'
    <2>1. o # None /\ operations[o] # "running"
      BY <1>1, NoneAssumption DEF Submitted, TypeOK, Status, IInv,
                                  TrackedOperations, SubmissionsAreBehind
    <2> QED BY <1>1, <2>1 DEF IInv, TrackedOperations, TypeOK
  <1>7. InterruptHasTarget'
    BY <1>1 DEF IInv, InterruptHasTarget
  <1>8. NoAuthorityFromOutput'
    <2>1. frozen[o].frame <= RootDepth
      BY <1>1, TopType DEF IInv, NoAuthorityFromOutput, Top
    <2> QED BY <1>1, <1>2, <2>1 DEF IInv, NoAuthorityFromOutput
  <1> QED BY <1>4, <1>5, <1>6, <1>7, <1>8 DEF IInv

\* An event that leaves the operations alone moves the versions forward.
LEMMA EventKeepsScopes ==
    ASSUME TypeOK, IInv, NextEvent, UNCHANGED frozen,
           \A p \in OpIds : Submitted(p)' <=> Submitted(p)
    PROVE  SubmissionsAreBehind' /\ SubmissionsDiffer'
  <1>1. contextVersion' = contextVersion + 1 /\ contextVersion \in Nat
    BY DEF NextEvent, TypeOK
  <1>2. \A p \in OpIds :
           Submitted(p) => frozen[p].contextVersion \in Nat
    BY DEF IInv, SubmissionsAreBehind, TypeOK, Scope
  <1>3. SubmissionsAreBehind'
    BY <1>1, <1>2 DEF IInv, SubmissionsAreBehind
  <1>4. SubmissionsDiffer'
    BY DEF IInv, SubmissionsDiffer
  <1> QED BY <1>3, <1>4

\* A starting command settles the previous one and claims, or abandons, the
\* pending approval; the two are different operations.
LEMMA CommandStartKeeps ==
    ASSUME TypeOK, IInv, NEW c \in Commands, NEW d \in Cwds, NEW l \in Logins,
           ReceiveCommandStart(c, d, l)
    PROVE  IInv'
  <1> DEFINE claimed == pendingApproved # None /\ pendingApproved.command = c
  <1>1. /\ NextEvent
        /\ UNCHANGED <<environments, frozen>>
        /\ pendingApproved' = None
        /\ interruptRequested' = FinishedInterrupt
        /\ activeCommand' = [op |-> IF claimed THEN pendingApproved.op ELSE None,
                             command |-> c, frame |-> Top.id]
    BY DEF ReceiveCommandStart, Claims
  <1>2. \A o \in OpIds : operations'[o] =
           IF pendingApproved # None /\ o = pendingApproved.op
           THEN IF claimed THEN "running" ELSE "unknown"
           ELSE FinishedOperations("none")[o]
    BY DEF ReceiveCommandStart, Claims
  <1>3. pendingApproved # None =>
           /\ pendingApproved.op \in OpIds
           /\ operations[pendingApproved.op] = "accepted"
           /\ pendingApproved.command = frozen[pendingApproved.op].command
    BY DEF TypeOK, Pending, IInv, TrackedOperations
  <1>4. \A o \in OpIds :
           operations[o] = "running" <=>
              activeCommand # None /\ activeCommand.op = o
    BY DEF IInv, TrackedOperations
  <1>5. \A o \in OpIds :
           IF activeCommand # None /\ activeCommand.op = o
           THEN FinishedOperations("none")[o] \in Settled
           ELSE FinishedOperations("none")[o] = operations[o]
    BY FinishedOperationsType DEF FinishedOperations
  <1>6. \A o \in OpIds : Submitted(o)' <=> Submitted(o)
    BY <1>2, <1>3, <1>4, <1>5 DEF Submitted, Settled
  <1>7. SubmissionsAreBehind' /\ SubmissionsDiffer'
    BY <1>1, <1>6, EventKeepsScopes
  <1>8. TrackedOperations'
    <2>1. \A o \in OpIds :
             operations'[o] = "running" <=>
                claimed /\ o = pendingApproved.op
      BY <1>2, <1>3, <1>4, <1>5 DEF Settled
    <2>2. activeCommand' # None /\ activeCommand'.command = c
      BY <1>1, StartedCommandType, NoneAssumption
    <2>3. activeCommand'.op = IF claimed THEN pendingApproved.op ELSE None
      BY <1>1
    <2>4. \A o \in OpIds : o # None
      BY NoneAssumption
    <2> QED BY <1>1, <1>3, <2>1, <2>2, <2>3, <2>4 DEF TrackedOperations
  <1>9. InterruptHasTarget'
    BY <1>1 DEF IInv, InterruptHasTarget, FinishedInterrupt
  <1>10. NoAuthorityFromOutput'
    BY <1>1, <1>6 DEF IInv, NoAuthorityFromOutput
  <1> QED BY <1>7, <1>8, <1>9, <1>10 DEF IInv

LEMMA CommandEndKeeps ==
    ASSUME TypeOK, IInv, NEW x \in ExitCodes, NEW d \in Cwds,
           ReceiveCommandEnd(x, d)
    PROVE  IInv'
  <1>1. /\ NextEvent
        /\ UNCHANGED <<environments, frozen, pendingApproved>>
        /\ activeCommand' = None
        /\ interruptRequested' = FinishedInterrupt
        /\ operations' = FinishedOperations(x)
    BY DEF ReceiveCommandEnd
  <1>2. \A o \in OpIds :
           operations[o] = "running" <=>
              activeCommand # None /\ activeCommand.op = o
    BY DEF IInv, TrackedOperations
  <1>3. \A o \in OpIds :
           IF activeCommand # None /\ activeCommand.op = o
           THEN operations'[o] \in Settled
           ELSE operations'[o] = operations[o]
    BY <1>1, FinishedOperationsType DEF FinishedOperations
  <1>4. \A o \in OpIds : Submitted(o)' <=> Submitted(o)
    BY <1>2, <1>3 DEF Submitted, Settled
  <1>5. SubmissionsAreBehind' /\ SubmissionsDiffer'
    BY <1>1, <1>4, EventKeepsScopes
  <1>6. TrackedOperations'
    <2>1. \A o \in OpIds : operations'[o] # "running"
      BY <1>2, <1>3 DEF Settled
    <2>2. pendingApproved # None =>
             /\ pendingApproved.op \in OpIds
             /\ operations[pendingApproved.op] = "accepted"
             /\ pendingApproved.command = frozen[pendingApproved.op].command
      BY DEF TypeOK, Pending, IInv, TrackedOperations
    <2>3. pendingApproved # None => operations'[pendingApproved.op] = "accepted"
      BY <1>2, <1>3, <2>2
    <2> QED BY <1>1, <2>1, <2>2, <2>3 DEF TrackedOperations
  <1>7. InterruptHasTarget'
    BY <1>1 DEF IInv, InterruptHasTarget, FinishedInterrupt
  <1>8. NoAuthorityFromOutput'
    BY <1>1, <1>4 DEF IInv, NoAuthorityFromOutput
  <1> QED BY <1>5, <1>6, <1>7, <1>8 DEF IInv

LEMMA PushKeeps ==
    ASSUME TypeOK, IInv, ReceiveEnvironmentPush
    PROVE  IInv'
  <1>1. /\ NextEvent
        /\ UNCHANGED <<operations, frozen, activeCommand, pendingApproved,
                       interruptRequested>>
    BY DEF ReceiveEnvironmentPush, PushedFrame
  <1>2. SubmissionsAreBehind' /\ SubmissionsDiffer'
    BY <1>1, EventKeepsScopes DEF Submitted
  <1>3. TrackedOperations' /\ InterruptHasTarget'
    BY <1>1 DEF IInv, TrackedOperations, InterruptHasTarget
  <1>4. NoAuthorityFromOutput'
    <2> DEFINE pushed == [id |-> RootDepth + contextVersion + 1,
                          verified |-> FALSE]
    <2>1. environments' = Append(environments, pushed)
      BY DEF ReceiveEnvironmentPush, PushedFrame
    <2>2. \A i \in DOMAIN environments' :
             \/ i \in DOMAIN environments /\ environments'[i] = environments[i]
             \/ environments'[i] = pushed
      BY <2>1 DEF TypeOK
    <2> QED BY <1>1, <2>2 DEF IInv, NoAuthorityFromOutput, Submitted
  <1> QED BY <1>2, <1>3, <1>4 DEF IInv

LEMMA PopKeeps ==
    ASSUME TypeOK, IInv, ReceiveEnvironmentPop
    PROVE  IInv'
  <1>1. /\ NextEvent
        /\ UNCHANGED <<operations, frozen, activeCommand, pendingApproved,
                       interruptRequested>>
    BY DEF ReceiveEnvironmentPop, Popped
  <1>2. SubmissionsAreBehind' /\ SubmissionsDiffer'
    BY <1>1, EventKeepsScopes DEF Submitted
  <1>3. TrackedOperations' /\ InterruptHasTarget'
    BY <1>1 DEF IInv, TrackedOperations, InterruptHasTarget
  <1>4. NoAuthorityFromOutput'
    <2>1. \A i \in DOMAIN environments' :
             i \in DOMAIN environments /\ environments'[i] = environments[i]
      BY DEF ReceiveEnvironmentPop, Popped, TypeOK
    <2> QED BY <1>1, <2>1 DEF IInv, NoAuthorityFromOutput, Submitted
  <1> QED BY <1>2, <1>3, <1>4 DEF IInv

LEMMA NextIInv == TypeOK /\ IInv /\ [Next]_vars => IInv'
  <1> SUFFICES ASSUME TypeOK, IInv, [Next]_vars PROVE IInv'
    OBVIOUS
  <1> DEFINE tracked == <<operations, frozen, activeCommand, pendingApproved,
                          interruptRequested, environments>>
  \* Steps that touch none of the variables IInv speaks of, except that the
  \* session may become idle at a new context version.
  <1>1. ASSUME NEW d \in Cwds, NEW l \in Logins, ReceivePrompt(d, l)
        PROVE  IInv'
    <2>1. NextEvent /\ UNCHANGED tracked
      BY <1>1 DEF ReceivePrompt
    <2>2. SubmissionsAreBehind' /\ SubmissionsDiffer'
      BY <2>1, EventKeepsScopes DEF Submitted
    <2>3. TrackedOperations' /\ InterruptHasTarget' /\ NoAuthorityFromOutput'
      BY <2>1 DEF IInv, TrackedOperations, InterruptHasTarget,
                  NoAuthorityFromOutput, Submitted
    <2> QED BY <2>2, <2>3 DEF IInv
  <1>2. ASSUME NEW k \in InputKinds, Write(k)
        PROVE  IInv'
    <2>1. UNCHANGED <<operations, frozen, activeCommand, pendingApproved,
                      environments, contextVersion, shellState>>
      BY <1>2 DEF Write, Interrupts, context
    <2>2. InterruptHasTarget'
      BY <1>2, <2>1 DEF Write, Interrupts, IInv, InterruptHasTarget
    <2> QED BY <2>1, <2>2
            DEF IInv, SubmissionsAreBehind, SubmissionsDiffer, Submitted,
                TrackedOperations, NoAuthorityFromOutput
  <1>3. ASSUME UNCHANGED <<tracked, contextVersion, shellState>>
        PROVE  IInv'
    BY <1>3 DEF IInv, SubmissionsAreBehind, SubmissionsDiffer, Submitted,
                TrackedOperations, InterruptHasTarget, NoAuthorityFromOutput
  <1>4. CASE InsertCommand
    BY <1>3, <1>4 DEF InsertCommand, context
  <1>5. CASE ReceiveExit
    BY <1>3, <1>5 DEF ReceiveExit, context
  <1>6. CASE Dispose
    BY <1>3, <1>6 DEF Dispose, context
  <1>7. CASE UNCHANGED vars
    BY <1>3, <1>7 DEF vars
  <1> QED
    BY <1>1, <1>2, <1>4, <1>5, <1>6, <1>7, FreezeKeeps, SubmitKeeps,
       CommandStartKeeps, CommandEndKeeps, PushKeeps, PopKeeps
       DEF Next, ReceiveEvent

LEMMA Invariance == Spec => [](TypeOK /\ IInv)
  BY InitType, NextType, InitIInv, NextIInv, PTL DEF Spec

\* However prompts, commands, approvals and input interleave, two approved
\* commands are never submitted under the same state of the shell.
THEOREM SubmittedOncePerScope == Spec => []OneSubmissionPerScope
  <1>1. TypeOK /\ IInv => OneSubmissionPerScope
    BY DEF IInv, OneSubmissionPerScope
  <1> QED BY <1>1, Invariance, PTL

\* Every submitted operation has a scope the session has since left behind,
\* at the latest when it is idle again.
THEOREM SubmittedAreBehind == Spec => []SubmissionsAreBehind
  <1>1. IInv => SubmissionsAreBehind
    BY DEF IInv
  <1> QED BY <1>1, Invariance, PTL

\* The operation the session reports as running is the one whose approved
\* text the shell announced.
THEOREM OperationsTracked == Spec => []TrackedOperations
  <1>1. IInv => TrackedOperations
    BY DEF IInv
  <1> QED BY <1>1, Invariance, PTL

\* A ^C is charged to the approved command it was typed at, or to none.
THEOREM InterruptTargeted == Spec => []InterruptHasTarget
  <1>1. IInv => InterruptHasTarget
    BY DEF IInv
  <1> QED BY <1>1, Invariance, PTL

\* No sequence of markers in the output makes a pushed frame a place where
\* an approved command is submitted.
THEOREM OutputGivesNoAuthority == Spec => []NoAuthorityFromOutput
  <1>1. IInv => NoAuthorityFromOutput
    BY DEF IInv
  <1> QED BY <1>1, Invariance, PTL

-----------------------------------------------------------------------------
(* The life of an operation.                                               *)

LEMMA StepForward ==
    ASSUME TypeOK, IInv, [Next]_vars, NEW o \in OpIds,
           operations'[o] # operations[o]
    PROVE  <<operations[o], operations'[o]>> \in Forward
  <1>1. ASSUME NEW p \in OpIds, SubmitApproved(p)
        PROVE  <<operations[o], operations'[o]>> \in Forward
    BY <1>1 DEF SubmitApproved, Submitted, TypeOK, Forward
  <1>2. ASSUME NEW x, operations'[o] = FinishedOperations(x)[o]
        PROVE  <<operations[o], operations'[o]>> \in Forward
    BY <1>2, FinishedOperationsType DEF IInv, TrackedOperations, Forward
  <1>3. ASSUME NEW c \in Commands, NEW d \in Cwds, NEW l \in Logins,
               ReceiveCommandStart(c, d, l)
        PROVE  <<operations[o], operations'[o]>> \in Forward
    <2>1. CASE pendingApproved # None /\ o = pendingApproved.op
      BY <1>3, <2>1
         DEF ReceiveCommandStart, Claims, IInv, TrackedOperations, Forward
    <2>2. CASE ~(pendingApproved # None /\ o = pendingApproved.op)
      BY <1>2, <1>3, <2>2 DEF ReceiveCommandStart, Claims
    <2> QED BY <2>1, <2>2
  <1>4. ASSUME NEW x \in ExitCodes, NEW d \in Cwds, ReceiveCommandEnd(x, d)
        PROVE  <<operations[o], operations'[o]>> \in Forward
    BY <1>2, <1>4 DEF ReceiveCommandEnd
  <1> QED
    BY <1>1, <1>3, <1>4
       DEF Next, ReceiveEvent, vars, Freeze, Write, Interrupts, InsertCommand,
           ReceivePrompt, ReceiveEnvironmentPush, PushedFrame,
           ReceiveEnvironmentPop, Popped, ReceiveExit, Dispose

\* An outcome, once reported, is never taken back or replaced, and no
\* operation skips from accepted to an exit status.
THEOREM OutcomesFinal == Spec => OutcomesAreFinal
  <1>1. TypeOK /\ IInv /\ [Next]_vars =>
          [\A o \in OpIds : operations'[o] # operations[o] =>
             <<operations[o], operations'[o]>> \in Forward]_vars
    BY StepForward
  <1> QED BY <1>1, Invariance, PTL DEF Spec, OutcomesAreFinal

-----------------------------------------------------------------------------
(* The session implements the abstract terminal.                           *)

version == contextVersion + inputVersion
target == <<Top.id, cwd, login>>
submittedAt == [o \in OpIds |->
    IF Submitted(o) THEN frozen[o].contextVersion + frozen[o].inputVersion
    ELSE None]

LEMMA ContractInit == Init => Contract!Init
  <1> SUFFICES ASSUME Init PROVE Contract!Init
    OBVIOUS
  <1>1. TypeOK
    BY InitType
  <1>2. target \in Nat \X (Cwds \cup {None}) \X (Logins \cup {None})
    BY <1>1, TopType DEF target, TypeOK, Frame
  <1>3. submittedAt = [o \in OpIds |-> None]
    BY DEF Init, submittedAt, Submitted
  <1> QED
    BY <1>2, <1>3 DEF Init, Contract!Init, target, submittedAt

\* The scope an operation was submitted under stays what it was.
LEMMA SubmittedAtStays ==
    ASSUME TypeOK, IInv, operations' \in [OpIds -> Status],
           \A o \in OpIds : Submitted(o)' <=> Submitted(o),
           \A o \in OpIds : frozen[o] # None => frozen'[o] = frozen[o]
    PROVE  submittedAt' = submittedAt
  BY DEF submittedAt, IInv, SubmissionsAreBehind

\* A write or an event is a change of the abstract terminal.
LEMMA ContractChange ==
    ASSUME TypeOK, TypeOK', IInv, registered, UNCHANGED <<registered, state>>,
           version' = version + 1, UNCHANGED frozen,
           \A o \in OpIds : operations'[o] # operations[o] =>
              <<operations[o], operations'[o]>> \in Forward \ {<<"absent", "accepted">>}
    PROVE  Contract!Change
  <1>1. target' \in Nat \X (Cwds \cup {None}) \X (Logins \cup {None})
    <2>1. Top' \in Frame
      BY DEF TypeOK, Top
    <2> QED BY <2>1 DEF target, TypeOK, Frame
  <1>2. \A o \in OpIds :
           <<operations[o], operations'[o]>> \in Contract!Advance
    BY DEF Forward, Contract!Advance, Contract!Status, Contract!Settled,
           Settled, TypeOK, Status
  <1>3. operations' \in [OpIds -> Contract!Status]
    BY DEF TypeOK, Status, Settled, Contract!Status, Contract!Settled
  <1>4. \A o \in OpIds : Submitted(o)' <=> Submitted(o)
    BY DEF Submitted, Forward, Settled
  <1>5. submittedAt' = submittedAt
    BY <1>4, SubmittedAtStays DEF TypeOK
  <1>6. (Top.verified /\ shellState = "idle")' \in BOOLEAN
    BY DEF TypeOK, Top, Frame
  <1>7. inputEmpty' \in BOOLEAN
    BY DEF TypeOK
  <1> QED
    BY <1>1, <1>2, <1>3, <1>5, <1>6, <1>7
       DEF Contract!Change, version, target, submittedAt

\* A submission is made at exactly the version the scope was frozen at.
LEMMA ContractSubmit ==
    ASSUME TypeOK, IInv, NEW o \in OpIds, SubmitApproved(o)
    PROVE  Contract!Submit(o, Contract!Scope)
  <1>1. /\ UNCHANGED <<registered, state, environments, cwd, login, inputEmpty,
                       contextVersion, inputVersion, frozen>>
        /\ operations' = [operations EXCEPT ![o] = "accepted"]
        /\ shellState' = "running"
    BY DEF SubmitApproved
  <1>2. /\ frozen[o] # None
        /\ frozen[o].contextVersion = contextVersion
        /\ frozen[o].inputVersion = inputVersion
        /\ registered /\ state = "running" /\ operations[o] = "absent"
        /\ Top.verified /\ shellState = "idle" /\ inputEmpty
    BY DEF SubmitApproved, ValidateApproved, ScopeUnchanged, Submitted
  <1>3. submittedAt' = [submittedAt EXCEPT ![o] = version]
    BY <1>1, <1>2 DEF submittedAt, version, Submitted, TypeOK
  <1>4. target' = target /\ version' = version
    BY <1>1 DEF target, version, Top
  <1> QED
    BY <1>1, <1>2, <1>3, <1>4
       DEF Contract!Submit, Contract!Validated, Contract!Scope, version,
           target, submittedAt

\* What no event changes, and that no event submits.
LEMMA EventFrame ==
    ASSUME TypeOK, ReceiveEvent
    PROVE  /\ NextEvent
           /\ UNCHANGED <<inputVersion, registered, state, frozen>>
           /\ \A o \in OpIds : operations'[o] # operations[o]
                                => operations'[o] # "accepted"
  <1> DEFINE Settles == \A o \in OpIds : operations'[o] # operations[o]
                                        => operations'[o] # "accepted"
  <1>1. ASSUME NEW x, NEW o \in OpIds,
               FinishedOperations(x)[o] # operations[o]
        PROVE  FinishedOperations(x)[o] # "accepted"
    BY <1>1, FinishedOperationsType DEF Settled
  <1>2. ASSUME NEW d \in Cwds, NEW l \in Logins, ReceivePrompt(d, l)
        PROVE  /\ NextEvent /\ Settles
               /\ UNCHANGED <<inputVersion, registered, state, frozen>>
    BY <1>2 DEF ReceivePrompt
  <1>3. ASSUME NEW c \in Commands, NEW d \in Cwds, NEW l \in Logins,
               ReceiveCommandStart(c, d, l)
        PROVE  /\ NextEvent /\ Settles
               /\ UNCHANGED <<inputVersion, registered, state, frozen>>
    <2>1. \A o \in OpIds :
             operations'[o] \in {"running", "unknown"}
             \/ operations'[o] = FinishedOperations("none")[o]
      BY <1>3 DEF ReceiveCommandStart
    <2> QED BY <1>1, <1>3, <2>1 DEF ReceiveCommandStart
  <1>4. ASSUME NEW x \in ExitCodes, NEW d \in Cwds, ReceiveCommandEnd(x, d)
        PROVE  /\ NextEvent /\ Settles
               /\ UNCHANGED <<inputVersion, registered, state, frozen>>
    BY <1>1, <1>4 DEF ReceiveCommandEnd
  <1>5. CASE ReceiveEnvironmentPush \/ ReceiveEnvironmentPop
    BY <1>5 DEF ReceiveEnvironmentPush, ReceiveEnvironmentPop
  <1> QED BY <1>2, <1>3, <1>4, <1>5 DEF ReceiveEvent

LEMMA ContractNext ==
    TypeOK /\ IInv /\ [Next]_vars => [Contract!Next]_(Contract!vars)
  <1> SUFFICES ASSUME TypeOK, IInv, [Next]_vars
               PROVE  Contract!Next \/ UNCHANGED Contract!vars
    OBVIOUS
  <1>1. TypeOK'
    BY NextType
  <1>2. ASSUME NEW o \in OpIds, SubmitApproved(o)
        PROVE  Contract!Next
    BY <1>2, ContractSubmit DEF Contract!Next
  <1>3. ASSUME NEW o \in OpIds, NEW c \in Commands, Freeze(o, c)
        PROVE  UNCHANGED Contract!vars
    <2>1. /\ UNCHANGED <<operations, state, registered, context, inputVersion,
                         inputEmpty, environments>>
          /\ \A p \in OpIds : frozen[p] # None => frozen'[p] = frozen[p]
      BY <1>3 DEF Freeze, TypeOK
    <2>2. submittedAt' = submittedAt
      BY <2>1, SubmittedAtStays DEF TypeOK, Submitted
    <2> QED BY <2>1, <2>2 DEF Contract!vars, submittedAt, context, Top
  <1>4. CASE ReceiveExit \/ Dispose
    <2>1. /\ UNCHANGED <<operations, frozen, context, inputVersion, inputEmpty,
                         environments>>
          /\ registered' \in {registered, FALSE}
          /\ (state = "running")' \in {state = "running", FALSE}
      BY <1>4 DEF ReceiveExit, Dispose
    <2>2. submittedAt' = submittedAt
      BY <2>1, SubmittedAtStays DEF TypeOK, Submitted
    <2>3. Contract!End
      BY <2>1, <2>2 DEF Contract!End, submittedAt, context, Top
    <2> QED BY <2>3 DEF Contract!Next
  <1>5. ASSUME NEW k \in InputKinds, Write(k) \/ InsertCommand
        PROVE  Contract!Next
    <2>1. /\ registered /\ UNCHANGED <<registered, state, frozen, operations>>
          /\ version' = version + 1
      BY <1>5 DEF Write, InsertCommand, context, version, TypeOK
    <2> QED BY <2>1, <1>1, ContractChange DEF Contract!Next
  <1>6. CASE ReceiveEvent
    <2>1. /\ registered /\ UNCHANGED <<registered, state, frozen>>
          /\ version' = version + 1
      <3>1. NextEvent /\ UNCHANGED <<inputVersion, registered, state, frozen>>
        BY <1>6, EventFrame
      <3> QED BY <3>1 DEF NextEvent, version, TypeOK
    <2>2. ASSUME NEW o \in OpIds, operations'[o] # operations[o]
          PROVE  <<operations[o], operations'[o]>>
                    \in Forward \ {<<"absent", "accepted">>}
      <3>1. <<operations[o], operations'[o]>> \in Forward
        BY <2>2, StepForward
      <3>2. operations'[o] # "accepted"
        BY <1>6, <2>2, EventFrame
      <3> QED BY <3>1, <3>2
    <2> QED BY <2>1, <2>2, <1>1, ContractChange DEF Contract!Next
  <1>7. CASE UNCHANGED vars
    BY <1>7 DEF vars, Contract!vars, Top, Submitted
  <1> QED
    BY <1>2, <1>3, <1>4, <1>5, <1>6, <1>7 DEF Next, InputKinds

\* Every behaviour of a session is one of the abstract terminal: what the
\* conversation service is checked against is what the session does.
THEOREM SessionImplementsContract == Spec => ImplementsContract
  <1>1. Spec => Contract!Init /\ [][Contract!Next]_(Contract!vars)
    BY ContractInit, ContractNext, Invariance, PTL DEF Spec
  <1> QED BY <1>1 DEF ImplementsContract, Contract!Spec
-----------------------------------------------------------------------------
(* The session and the shell at the other end of its PTY.                  *)

Markers == [type: {"prompt", "environmentPush", "environmentPop"}]
           \cup [type: {"commandStart"}, command: Commands]
           \cup [type: {"commandEnd"}, exit: ExitCodes]

\* The types of the system: only what the scripts can announce is on its way.
SystemType ==
    /\ TypeOK
    /\ toShell \in Seq(Inputs)
    /\ toCore \in Seq(Markers)
    /\ phase \in {"prompt", "executing", "resumed", "dead"}
    /\ line \in Commands \cup {None}
    /\ depth \in Nat
    /\ history \in (IF DebugTrap THEN Commands ELSE {None})

\* Counting. A marker more at the end, or the first one gone.
LEMMA CountType ==
    ASSUME NEW M, NEW s \in Seq(M), NEW t
    PROVE  /\ Count(s, t) \in Nat
           /\ IsFiniteSet({k \in DOMAIN s : s[k].type = t})
  <1>1. IsFiniteSet(1..Len(s)) /\ DOMAIN s = 1..Len(s)
    BY FS_Interval
  <1>2. IsFiniteSet({k \in DOMAIN s : s[k].type = t})
    BY <1>1, FS_Subset
  <1> QED BY <1>2, FS_CardinalityType DEF Count

LEMMA CountAppend ==
    ASSUME NEW M, NEW s \in Seq(M), NEW m \in M, NEW t
    PROVE  Count(Append(s, m), t) = Count(s, t) + (IF m.type = t THEN 1 ELSE 0)
  <1> DEFINE old == {k \in DOMAIN s : s[k].type = t}
             new == {k \in DOMAIN Append(s, m) : Append(s, m)[k].type = t}
             n   == Len(s) + 1
  <1>1. IsFiniteSet(old) /\ n \notin old
    <2>1. IsFiniteSet(old)
      BY CountType
    <2>2. n \notin old
      OBVIOUS
    <2> QED BY <2>1, <2>2
  <1>2. DOMAIN Append(s, m) = 1..n /\ Append(s, m)[n] = m
        /\ \A k \in DOMAIN s : Append(s, m)[k] = s[k] /\ k # n
    OBVIOUS
  <1>3. new = IF m.type = t THEN old \cup {n} ELSE old
    <2>1. DOMAIN Append(s, m) = DOMAIN s \cup {n}
      BY <1>2
    <2> QED BY <1>2, <2>1
  <1>4. Cardinality(old \cup {n}) = Cardinality(old) + 1
    <2> HIDE DEF old, n
    <2> QED BY <1>1, FS_AddElement
  <1>5. Count(s, t) = Cardinality(old) /\ Count(Append(s, m), t) = Cardinality(new)
        /\ Cardinality(old) \in Nat
    BY CountType DEF Count
  <1> HIDE DEF old, new
  <1> QED BY <1>3, <1>4, <1>5

LEMMA CountTail ==
    ASSUME NEW M, NEW s \in Seq(M), s # << >>, NEW t
    PROVE  Count(s, t) = Count(Tail(s), t) + (IF Head(s).type = t THEN 1 ELSE 0)
  <1> DEFINE old == {k \in DOMAIN s : s[k].type = t}
             new == {k \in DOMAIN Tail(s) : Tail(s)[k].type = t}
             rest == old \ {1}
             f == [k \in new |-> k + 1]
  <1>1. /\ Tail(s) \in Seq(M) /\ DOMAIN Tail(s) = 1..(Len(s) - 1)
        /\ DOMAIN s = 1..Len(s) /\ Len(s) \in Nat \ {0}
        /\ \A k \in 1..(Len(s) - 1) : Tail(s)[k] = s[k + 1]
        /\ Head(s) = s[1]
    OBVIOUS
  <1>2. IsFiniteSet(old) /\ IsFiniteSet(new) /\ Count(Tail(s), t) \in Nat
    BY <1>1, CountType
  <1>3. f \in Bijection(new, rest)
    <2>1. \A k \in new : k \in Nat /\ k + 1 \in rest
      BY <1>1
    <2>2. \A k \in rest : k - 1 \in new /\ (k - 1) + 1 = k
      BY <1>1
    <2>3. f \in [new -> rest]
      BY <2>1
    <2>4. \A a, b \in new : f[a] = f[b] => a = b
      BY <2>1
    <2>5. \A k \in rest : \E a \in new : f[a] = k
      BY <2>2
    <2> HIDE DEF old, new, rest, f
    <2>6. f \in Injection(new, rest)
      BY <2>3, <2>4 DEF Injection, IsInjective
    <2>7. f \in Surjection(new, rest)
      BY <2>3, <2>5 DEF Surjection
    <2> QED BY <2>6, <2>7 DEF Bijection
  <1>4. Cardinality(rest) = Cardinality(new)
    BY <1>2, <1>3, FS_Bijection DEF ExistsBijection
  <1>5. /\ Cardinality(rest) = IF 1 \in old THEN Cardinality(old) - 1 ELSE Cardinality(old)
        /\ Cardinality(old) \in Nat
    BY <1>2, FS_RemoveElement, FS_CardinalityType
  <1>6. 1 \in old <=> Head(s).type = t
    BY <1>1
  <1>7. Count(s, t) = Cardinality(old) /\ Count(Tail(s), t) = Cardinality(new)
    BY DEF Count
  <1> HIDE DEF old, new, rest
  <1> QED BY <1>4, <1>5, <1>6, <1>7

\* What a shell emits, counted: one marker, two, or three that say nothing of
\* environments.
Quietly(m) == m \in Markers /\ m.type \notin {"environmentPush", "environmentPop"}

LEMMA EmitOne ==
    ASSUME toCore \in Seq(Markers), NEW m \in Markers, Emit(<<m>>)
    PROVE  /\ toCore' \in Seq(Markers) /\ toCore' # << >>
           /\ toCore'[Len(toCore')] = m
           /\ \A t : Count(toCore', t) = Count(toCore, t) + (IF m.type = t THEN 1 ELSE 0)
  <1>1. toCore' = Append(toCore, m)
    BY DEF Emit
  <1>2. toCore' \in Seq(Markers) /\ toCore' # << >> /\ toCore'[Len(toCore')] = m
    BY <1>1
  <1> QED BY <1>1, <1>2, CountAppend

LEMMA EmitTwo ==
    ASSUME toCore \in Seq(Markers), NEW a \in Markers, NEW b \in Markers,
           Emit(<<a, b>>)
    PROVE  /\ toCore' \in Seq(Markers)
           /\ \A t : Count(toCore', t) = Count(toCore, t)
                       + (IF a.type = t THEN 1 ELSE 0) + (IF b.type = t THEN 1 ELSE 0)
  <1> DEFINE first == Append(toCore, a)
  <1>1. first \in Seq(Markers) /\ toCore' = Append(first, b)
    BY DEF Emit
  <1>2. \A t : Count(first, t) = Count(toCore, t) + (IF a.type = t THEN 1 ELSE 0)
    BY CountAppend
  <1> HIDE DEF first
  <1>3. \A t : Count(Append(first, b), t) = Count(first, t) + (IF b.type = t THEN 1 ELSE 0)
    BY <1>1, CountAppend
  <1>4. \A t : Count(toCore, t) \in Nat
    BY CountType
  <1> QED BY <1>1, <1>2, <1>3, <1>4

LEMMA EmitThree ==
    ASSUME toCore \in Seq(Markers), NEW a, NEW b, NEW c,
           Quietly(a), Quietly(b), Quietly(c), Emit(<<a>> \o <<b, c>>)
    PROVE  /\ toCore' \in Seq(Markers)
           /\ \A t \in {"environmentPush", "environmentPop"} :
                 Count(toCore', t) = Count(toCore, t)
  <1> DEFINE first == Append(toCore, a)
             second == Append(first, b)
  <1>0. a \in Markers /\ b \in Markers /\ c \in Markers
    BY DEF Quietly
  <1>1. first \in Seq(Markers) /\ second \in Seq(Markers) /\ toCore' = Append(second, c)
    <2>1. toCore' = (toCore \o <<a>>) \o <<b, c>>
      BY <1>0, ConcatAssociative DEF Emit
    <2>2. toCore \o <<a>> = first /\ first \in Seq(Markers) /\ second \in Seq(Markers)
      BY <1>0
    <2>3. first \o <<b, c>> = Append(second, c)
      <3> HIDE DEF first
      <3> QED BY <1>0, <2>2
    <2> QED BY <2>1, <2>2, <2>3
  <1>2. SUFFICES ASSUME NEW t \in {"environmentPush", "environmentPop"}
                 PROVE  Count(toCore', t) = Count(toCore, t)
    BY <1>0, <1>1
  <1>3. a.type # t /\ b.type # t /\ c.type # t
    BY DEF Quietly
  <1>4. Count(toCore, t) \in Nat
    BY CountType
  <1>5. Count(first, t) = Count(toCore, t) + (IF a.type = t THEN 1 ELSE 0)
    BY <1>0, CountAppend
  <1> HIDE DEF first
  <1>6. Count(second, t) = Count(first, t) + (IF b.type = t THEN 1 ELSE 0)
    BY <1>0, <1>1, CountAppend
  <1> HIDE DEF second
  <1>7. Count(Append(second, c), t) = Count(second, t) + (IF c.type = t THEN 1 ELSE 0)
    BY <1>0, <1>1, CountAppend
  <1> QED BY <1>1, <1>3, <1>4, <1>5, <1>6, <1>7

\* The inputs that reach the shell are inputs.
LEMMA SentAreInputs ==
    ASSUME toShell \in Seq(Inputs), NEW i \in Inputs, Send(i)
    PROVE  toShell' \in Seq(Inputs)
  BY DEF Send

LEMMA UserInputsAreKinds ==
    ASSUME NEW i \in UserInputs
    PROVE  i \in Inputs /\ KindFor(i) \in InputKinds
  BY UserInputsAssumption DEF Inputs, KindFor, InputKinds

\* What the shell does is nothing the session does; the rest are its calls, with
\* what the scripts can announce.
LEMMA SessionStep ==
    ASSUME SystemType, [SystemNext]_allVars
    PROVE  [Next]_vars
  <1>1. ASSUME NEW i \in UserInputs, UserTypes(i)
        PROVE  Next
    BY <1>1, UserInputsAreKinds DEF UserTypes, Next
  <1>2. ASSUME NEW o \in OpIds, UserInserts(o)
        PROVE  Next
    BY <1>2 DEF UserInserts, Next
  <1>3. ASSUME NEW o \in OpIds, TurnFreezes(o)
        PROVE  Next
    BY <1>3, ShellAssumption DEF TurnFreezes, Next
  <1>4. ASSUME NEW o \in OpIds, UserApproves(o)
        PROVE  Next
    BY <1>4 DEF UserApproves, Next
  <1>5. CASE CoreReceives
    <2>1. Head(toCore) \in Markers
      BY <1>5 DEF CoreReceives, SystemType
    <2>2. ReceiveEvent
      BY <1>5, <2>1 DEF CoreReceives, ReceiveEvent, Markers
    <2> QED BY <2>2 DEF Next
  <1>6. CASE \/ ShellReads \/ ProgramReads \/ EnterEnvironment \/ LeaveEnvironment
             \/ LoseConnection \/ ShellDies
             \/ \E exit \in {"zero", "nonzero"} : CommandEnds(exit)
    BY <1>6 DEF ShellReads, ProgramReads, EnterEnvironment, LeaveEnvironment,
                LoseConnection, ShellDies, CommandEnds
  <1>7. CASE CoreReceivesExit \/ UserCloses
    BY <1>7 DEF CoreReceivesExit, UserCloses, Next
  <1>8. CASE UNCHANGED allVars
    BY <1>8 DEF allVars
  <1> QED BY <1>1, <1>2, <1>3, <1>4, <1>5, <1>6, <1>7, <1>8 DEF SystemNext

\* A frame above those the session was created with is not verified.
NestedAreUnverified ==
    \A i \in DOMAIN environments : environments[i].verified => i <= RootDepth

\* A command that runs was announced: its start is the last thing on the way, or
\* the session knows.
ExecutingIsAnnounced ==
    phase = "executing" =>
       IF toCore = <<>> THEN shellState # "idle"
       ELSE toCore[Len(toCore)].type = "commandStart"

SystemInv ==
    /\ SystemType
    /\ DepthNeverUnderCounted
    /\ NestedAreUnverified
    /\ ExecutingIsAnnounced

LEMMA InitSystem == SystemInit => SystemInv
  <1> SUFFICES ASSUME SystemInit PROVE SystemInv
    OBVIOUS
  <1>1. TypeOK
    BY InitType DEF SystemInit
  <1>2. toCore = <<[type |-> "prompt"]>> /\ [type |-> "prompt"] \in Markers
    BY DEF SystemInit, Markers
  <1>3. toShell \in Seq(Inputs) /\ toCore \in Seq(Markers)
    BY <1>2 DEF SystemInit
  <1>4. SystemType
    BY <1>1, <1>3 DEF SystemInit, SystemType
  <1>5. DOMAIN environments = 1..RootDepth /\ Len(environments) = RootDepth
    BY BoundAssumption DEF SystemInit, Init
  <1>6. DepthNeverUnderCounted
    <2>1. {k \in DOMAIN toCore : toCore[k].type = "environmentPop"} = {}
      BY <1>2
    <2>2. Count(toCore, "environmentPop") = 0
      BY <2>1, FS_EmptySet DEF Count
    <2>3. Count(toCore, "environmentPush") \in Nat
      BY <1>3, CountType
    <2> QED BY <1>5, <2>2, <2>3, BoundAssumption DEF SystemInit, DepthNeverUnderCounted
  <1> QED BY <1>4, <1>5, <1>6
     DEF SystemInit, SystemInv, NestedAreUnverified, ExecutingIsAnnounced

\* A call of the Core leaves the shell alone. Where it leaves the stack alone as
\* well, and does not make the session idle, nothing is lost.
LEMMA CallKeeps ==
    ASSUME SystemInv, TypeOK', UNCHANGED <<toCore, line, depth, history>>,
           UNCHANGED environments, toShell' \in Seq(Inputs),
           phase' \in {phase, "dead"},
           registered' => registered, shellState' \in {shellState, "running"}
    PROVE  SystemInv'
  <1>1. SystemType'
    BY DEF SystemInv, SystemType
  <1>2. DepthNeverUnderCounted'
    BY DEF SystemInv, DepthNeverUnderCounted, Count
  <1>3. NestedAreUnverified' /\ ExecutingIsAnnounced'
    BY DEF SystemInv, NestedAreUnverified, ExecutingIsAnnounced
  <1> QED BY <1>1, <1>2, <1>3 DEF SystemInv

\* What the session decodes leaves the queue as it enters its picture.
LEMMA ReceiveKeeps ==
    ASSUME SystemInv, TypeOK', CoreReceives
    PROVE  SystemInv'
  <1> DEFINE e == Head(toCore)
  <1>1. /\ toCore \in Seq(Markers) /\ toCore # <<>> /\ e \in Markers
        /\ toCore' = Tail(toCore) /\ toCore' \in Seq(Markers)
        /\ UNCHANGED <<toShell, phase, line, depth, history>>
    BY DEF CoreReceives, SystemInv, SystemType
  <1>2. /\ \A t : Count(toCore, t) = Count(toCore', t) + (IF e.type = t THEN 1 ELSE 0)
        /\ \A t : Count(toCore', t) \in Nat
    BY <1>1, CountTail, CountType
  <1>3. SystemType'
    BY <1>1 DEF SystemInv, SystemType
  <1>4. environments \in Seq(Frame) /\ Len(environments) \in Nat \ {0} /\ depth \in Nat
        /\ registered' = registered
    <2>1. environments \in Seq(Frame) /\ environments # <<>> /\ depth \in Nat
      BY DEF SystemInv, SystemType, TypeOK
    <2>2. Len(environments) \in Nat \ {0}
      BY <2>1
    <2>3. registered' = registered
      BY DEF CoreReceives, ReceivePrompt, ReceiveCommandStart, ReceiveCommandEnd,
             ReceiveEnvironmentPush, ReceiveEnvironmentPop
    <2> QED BY <2>1, <2>2, <2>3
  <1>5. DepthNeverUnderCounted' /\ NestedAreUnverified'
    <2>1. CASE e.type = "environmentPush"
      <3>1. environments' = Append(environments, PushedFrame)
        BY <2>1 DEF CoreReceives, ReceiveEnvironmentPush
      <3>2. NestedAreUnverified'
        BY <1>4, <3>1 DEF SystemInv, NestedAreUnverified, PushedFrame
      <3>3. Len(environments') = Len(environments) + 1
        BY <1>4, <3>1
      <3>4. Count(toCore, "environmentPush") = Count(toCore', "environmentPush") + 1
            /\ Count(toCore, "environmentPop") = Count(toCore', "environmentPop")
        BY <1>2, <2>1
      <3>5. DepthNeverUnderCounted'
        BY <1>1, <1>2, <1>4, <3>3, <3>4, BoundAssumption DEF SystemInv, DepthNeverUnderCounted
      <3> QED BY <3>2, <3>5
    <2>2. CASE e.type = "environmentPop"
      <3>1. environments' = Popped
        BY <2>2 DEF CoreReceives, ReceiveEnvironmentPop
      <3>2. /\ \A i \in DOMAIN environments' : i \in DOMAIN environments
                                               /\ environments'[i] = environments[i]
            /\ Len(environments') >= Len(environments) - 1 /\ Len(environments') \in Nat
        BY <1>4, <3>1 DEF Popped
      <3>3. NestedAreUnverified'
        BY <3>2 DEF SystemInv, NestedAreUnverified
      <3>4. Count(toCore, "environmentPop") = Count(toCore', "environmentPop") + 1
            /\ Count(toCore, "environmentPush") = Count(toCore', "environmentPush")
        BY <1>2, <2>2
      <3>5. DepthNeverUnderCounted'
        BY <1>1, <1>2, <1>4, <3>2, <3>4, BoundAssumption DEF SystemInv, DepthNeverUnderCounted
      <3> QED BY <3>3, <3>5
    <2>3. CASE e.type \notin {"environmentPush", "environmentPop"}
      <3>1. environments' = environments
        BY <2>3 DEF CoreReceives, ReceivePrompt, ReceiveCommandStart, ReceiveCommandEnd
      <3>2. Count(toCore, "environmentPop") = Count(toCore', "environmentPop")
            /\ Count(toCore, "environmentPush") = Count(toCore', "environmentPush")
        BY <1>2, <2>3
      <3> QED BY <1>1, <1>4, <3>1, <3>2 DEF SystemInv, NestedAreUnverified, DepthNeverUnderCounted
    <2> QED BY <2>1, <2>2, <2>3
  <1>6. ExecutingIsAnnounced'
    <2>1. SUFFICES ASSUME phase = "executing"
                   PROVE  IF toCore' = <<>> THEN shellState' # "idle"
                          ELSE toCore'[Len(toCore')].type = "commandStart"
      BY <1>1 DEF ExecutingIsAnnounced
    <2>2. toCore[Len(toCore)].type = "commandStart"
      BY <1>1, <2>1 DEF SystemInv, ExecutingIsAnnounced
    <2>3. CASE toCore' = <<>>
      <3>1. e.type = "commandStart"
        <4>1. Len(toCore) = 1
          <5>1. Len(Tail(toCore)) = Len(toCore) - 1 /\ Len(toCore) \in Nat
            BY <1>1
          <5>2. Tail(toCore) = <<>>
            BY <1>1, <2>3
          <5>3. Len(<<>>) = 0
            OBVIOUS
          <5>4. Len(Tail(toCore)) = 0
            BY <5>2, <5>3, Zenon
          <5> QED BY <5>1, <5>4
        <4>2. e = toCore[1]
          BY <1>1
        <4> QED BY <2>2, <4>1, <4>2
      <3> QED BY <2>3, <3>1 DEF CoreReceives, ReceiveCommandStart
    <2>4. CASE toCore' # <<>>
      BY <1>1, <2>2, <2>4
    <2> QED BY <2>3, <2>4
  <1> QED BY <1>3, <1>5, <1>6 DEF SystemInv

\* What the shell does, in terms of what it emits: as long as it announces each
\* environment it enters, and no more environments than it leaves, and starts no
\* command without saying so, the session's picture cannot be too shallow.
LEMMA ShellKeeps ==
    ASSUME SystemInv, UNCHANGED vars,
           toShell' \in Seq(Inputs), toCore' \in Seq(Markers),
           phase' \in {"prompt", "executing", "resumed", "dead"},
           line' \in Commands \cup {None}, depth' \in Nat,
           history' \in (IF DebugTrap THEN Commands ELSE {None}),
           phase = "dead" => phase' = "dead",
           depth' + Count(toCore', "environmentPop") + Count(toCore, "environmentPush")
             <= depth + Count(toCore, "environmentPop") + Count(toCore', "environmentPush"),
           phase' = "executing" =>
              \/ phase = "executing" /\ toCore' = toCore
              \/ toCore' # <<>> /\ toCore'[Len(toCore')].type = "commandStart"
    PROVE  SystemInv'
  <1>1. SystemType'
    <2>1. TypeOK'
      <3>1. [Next]_vars
        OBVIOUS
      <3> QED BY <3>1, NextType DEF SystemInv, SystemType
    <2> QED BY <2>1 DEF SystemType
  <1>2. UNCHANGED <<registered, environments, shellState>>
    BY DEF vars, context
  <1>3. DepthNeverUnderCounted'
    <2>1. /\ Count(toCore, "environmentPush") \in Nat
          /\ Count(toCore, "environmentPop") \in Nat
          /\ Count(toCore', "environmentPush") \in Nat
          /\ Count(toCore', "environmentPop") \in Nat
      BY CountType DEF SystemInv, SystemType
    <2>3. Count(toCore, "environmentPush")' = Count(toCore', "environmentPush")
          /\ Count(toCore, "environmentPop")' = Count(toCore', "environmentPop")
      BY DEF Count
    <2>2. Len(environments) \in Nat /\ depth \in Nat /\ RootDepth \in Nat
      BY BoundAssumption DEF SystemInv, SystemType, TypeOK
    <2>4. SUFFICES ASSUME registered, phase # "dead"
                   PROVE  Len(environments) + Count(toCore', "environmentPush")
                            >= RootDepth + depth' + Count(toCore', "environmentPop")
      BY <1>2, <2>3 DEF DepthNeverUnderCounted
    <2>5. Len(environments) + Count(toCore, "environmentPush")
            >= RootDepth + depth + Count(toCore, "environmentPop")
      BY <2>4 DEF SystemInv, DepthNeverUnderCounted
    <2>6. ASSUME NEW n \in Nat, NEW r \in Nat, NEW d \in Nat, NEW e \in Nat,
                 NEW push \in Nat, NEW pop \in Nat, NEW push2 \in Nat, NEW pop2 \in Nat,
                 n + push >= r + d + pop, e + pop2 + push <= d + pop + push2
          PROVE  n + push2 >= r + e + pop2
      BY <2>6
    <2> QED BY <2>1, <2>2, <2>5, <2>6
  <1>4. NestedAreUnverified'
    BY <1>2 DEF SystemInv, NestedAreUnverified
  <1>5. ExecutingIsAnnounced'
    BY <1>2 DEF SystemInv, ExecutingIsAnnounced
  <1> QED BY <1>1, <1>3, <1>4, <1>5 DEF SystemInv

\* The two markers at the end of a command.
LEMMA EndsQuietly ==
    ASSUME toCore \in Seq(Markers), NEW exit \in {"zero", "nonzero"},
           Emit(EndMarkers(exit))
    PROVE  /\ toCore' \in Seq(Markers)
           /\ Count(toCore', "environmentPush") = Count(toCore, "environmentPush")
           /\ Count(toCore', "environmentPop") = Count(toCore, "environmentPop")
  <1> DEFINE a == [type |-> "commandEnd", exit |-> exit]
             b == [type |-> "prompt"]
  <1>1. a \in Markers /\ b \in Markers /\ EndMarkers(exit) = <<a, b>>
    BY DEF Markers, ExitCodes, EndMarkers, Marker
  <1>2. a.type = "commandEnd" /\ b.type = "prompt"
    OBVIOUS
  <1> HIDE DEF a, b
  <1>3. Count(toCore, "environmentPush") \in Nat /\ Count(toCore, "environmentPop") \in Nat
    BY CountType
  <1>4. /\ toCore' \in Seq(Markers)
        /\ \A t : Count(toCore', t) = Count(toCore, t)
                    + (IF a.type = t THEN 1 ELSE 0) + (IF b.type = t THEN 1 ELSE 0)
    BY <1>1, EmitTwo
  <1> QED BY <1>2, <1>3, <1>4

\* preexec and precmd announce a line that runs, and nothing about environments.
LEMMA LineRuns ==
    ASSUME toCore \in Seq(Markers), NEW l \in Commands \cup {None}, RunLine(l),
           history \in (IF DebugTrap THEN Commands ELSE {None}), phase = "prompt"
    PROVE  /\ toCore' \in Seq(Markers)
           /\ Count(toCore', "environmentPush") = Count(toCore, "environmentPush")
           /\ Count(toCore', "environmentPop") = Count(toCore, "environmentPop")
           /\ line' = None /\ depth' = depth
           /\ history' \in (IF DebugTrap THEN Commands ELSE {None})
           /\ \/ phase' = "prompt"
              \/ /\ phase' = "executing"
                 /\ toCore' # << >> /\ toCore'[Len(toCore')].type = "commandStart"
  <1>0. Count(toCore, "environmentPush") \in Nat /\ Count(toCore, "environmentPop") \in Nat
    BY CountType
  <1>1. CASE l # None
    <2> DEFINE m == [type |-> "commandStart", command |-> l]
    <2>1. m \in Markers /\ Emit(<<m>>) /\ m.type = "commandStart" /\ phase' = "executing"
      BY <1>1 DEF RunLine, Markers
    <2>2. line' = None /\ depth' = depth
          /\ history' \in (IF DebugTrap THEN Commands ELSE {None})
      BY <1>1 DEF RunLine
    <2> HIDE DEF m
    <2> QED BY <1>0, <2>1, <2>2, EmitOne
  <1>2. CASE l = None /\ ~DebugTrap
    <2>1. Emit(<<[type |-> "prompt"]>>) /\ [type |-> "prompt"] \in Markers
      BY <1>2 DEF RunLine, EmptyLineMarkers, Marker, Markers
    <2>2. line' = None /\ UNCHANGED <<depth, phase, history>>
      BY <1>2 DEF RunLine
    <2>3. \A t : Count(toCore', t) = Count(toCore, t)
                    + (IF [type |-> "prompt"].type = t THEN 1 ELSE 0)
      BY <2>1, EmitOne
    <2>4. toCore' \in Seq(Markers)
      BY <2>1, EmitOne
    <2> QED BY <1>0, <2>2, <2>3, <2>4
  <1>3. CASE l = None /\ DebugTrap
    <2> DEFINE a == [type |-> "commandStart", command |-> history]
               b == [type |-> "commandEnd", exit |-> "zero"]
               c == [type |-> "prompt"]
    <2>1. Quietly(a) /\ Quietly(b) /\ Quietly(c)
      BY <1>3 DEF Quietly, Markers, ExitCodes
    <2>2. Emit(<<a>> \o <<b, c>>)
      BY <1>3 DEF RunLine, EmptyLineMarkers, EndMarkers, Marker
    <2>3. line' = None /\ UNCHANGED <<depth, phase, history>>
      BY <1>3 DEF RunLine
    <2> HIDE DEF a, b, c
    <2>4. /\ toCore' \in Seq(Markers)
          /\ \A t \in {"environmentPush", "environmentPop"} :
                 Count(toCore', t) = Count(toCore, t)
      BY <2>1, <2>2, EmitThree
    <2> QED BY <2>3, <2>4
  <1> QED BY <1>1, <1>2, <1>3

\* The line editor.
LEMMA ReadKeeps ==
    ASSUME SystemInv, ShellReads
    PROVE  SystemInv'
  <1> DEFINE i == Head(toShell)
  <1>1. /\ toShell \in Seq(Inputs) /\ toShell # <<>> /\ i \in Inputs
        /\ toShell' \in Seq(Inputs)
        /\ toCore \in Seq(Markers) /\ phase = "prompt"
        /\ line \in Commands \cup {None} /\ depth \in Nat
        /\ history \in (IF DebugTrap THEN Commands ELSE {None})
    BY DEF ShellReads, SystemInv, SystemType
  <1>2. i.kind \in {"submit", "paste", "text"} => Joined(i.text) \in Commands
    BY <1>1, ShellAssumption DEF Inputs, Joined
  <1>3. \/ \E l \in Commands \cup {None} : RunLine(l)
        \/ \E lines \in SUBSET (Commands \cup {None}) : EditLine(lines)
    BY <1>1, <1>2, ShellAssumption DEF ShellReads
  <1>4. UNCHANGED vars
    BY DEF ShellReads
  <1>0. Count(toCore, "environmentPush") \in Nat /\ Count(toCore, "environmentPop") \in Nat
    BY <1>1, CountType
  <1>5. ASSUME NEW l \in Commands \cup {None}, RunLine(l)
        PROVE  SystemInv'
    <2>1. /\ toCore' \in Seq(Markers)
          /\ Count(toCore', "environmentPush") = Count(toCore, "environmentPush")
          /\ Count(toCore', "environmentPop") = Count(toCore, "environmentPop")
          /\ line' = None /\ depth' = depth
          /\ history' \in (IF DebugTrap THEN Commands ELSE {None})
          /\ \/ phase' = "prompt"
             \/ /\ phase' = "executing"
                /\ toCore' # << >> /\ toCore'[Len(toCore')].type = "commandStart"
      BY <1>1, <1>5, LineRuns
    <2> QED BY <1>0, <1>1, <1>4, <2>1, ShellKeeps
  <1>6. ASSUME NEW lines \in SUBSET (Commands \cup {None}), EditLine(lines)
        PROVE  SystemInv'
    <2>1. line' \in Commands \cup {None} /\ UNCHANGED <<toCore, phase, depth, history>>
      BY <1>6 DEF EditLine
    <2> QED BY <1>0, <1>1, <1>4, <2>1, ShellKeeps
  <1> QED BY <1>3, <1>5, <1>6

\* A command that ends, or is interrupted.
LEMMA EndKeeps ==
    ASSUME SystemInv, UNCHANGED vars, NEW exit \in {"zero", "nonzero"},
           Running, Emit(EndMarkers(exit)), phase' = "prompt",
           toShell' \in Seq(Inputs), UNCHANGED <<line, depth, history>>
    PROVE  SystemInv'
  <1>1. /\ toCore \in Seq(Markers) /\ line \in Commands \cup {None} /\ depth \in Nat
        /\ history \in (IF DebugTrap THEN Commands ELSE {None}) /\ phase # "dead"
    BY DEF SystemInv, SystemType, Running
  <1>2. Count(toCore, "environmentPush") \in Nat /\ Count(toCore, "environmentPop") \in Nat
    BY <1>1, CountType
  <1>3. /\ toCore' \in Seq(Markers)
        /\ Count(toCore', "environmentPush") = Count(toCore, "environmentPush")
        /\ Count(toCore', "environmentPop") = Count(toCore, "environmentPop")
    BY <1>1, EndsQuietly
  <1> QED BY <1>1, <1>2, <1>3, ShellKeeps

\* Entering announces a push, leaving a pop for one environment or for many.
LEMMA EnvironmentKeeps ==
    ASSUME SystemInv, EnterEnvironment \/ LeaveEnvironment \/ LoseConnection
    PROVE  SystemInv'
  <1>1. /\ toCore \in Seq(Markers) /\ line \in Commands \cup {None} /\ depth \in Nat
        /\ history \in (IF DebugTrap THEN Commands ELSE {None})
        /\ toShell \in Seq(Inputs)
    BY DEF SystemInv, SystemType
  <1>2. Count(toCore, "environmentPush") \in Nat /\ Count(toCore, "environmentPop") \in Nat
    BY <1>1, CountType
  <1>3. UNCHANGED <<toShell, history>> /\ UNCHANGED vars
    BY DEF EnterEnvironment, LeaveEnvironment, LoseConnection
  <1>4. CASE EnterEnvironment
    <2> DEFINE a == Marker("environmentPush")
               b == Marker("prompt")
    <2>1. a \in Markers /\ b \in Markers /\ a.type = "environmentPush" /\ b.type = "prompt"
      BY DEF Marker, Markers
    <2>2. /\ Emit(<<a, b>>) /\ depth' = depth + 1 /\ phase' = "prompt" /\ phase # "dead"
          /\ line' = line
      BY <1>4 DEF EnterEnvironment, Running
    <2> HIDE DEF a, b
    <2>3. /\ toCore' \in Seq(Markers)
          /\ \A t : Count(toCore', t) = Count(toCore, t)
                      + (IF a.type = t THEN 1 ELSE 0) + (IF b.type = t THEN 1 ELSE 0)
      BY <1>1, <2>1, <2>2, EmitTwo
    <2>4. /\ Count(toCore', "environmentPush") = Count(toCore, "environmentPush") + 1
          /\ Count(toCore', "environmentPop") = Count(toCore, "environmentPop")
      BY <1>2, <2>1, <2>3
    <2> QED BY <1>1, <1>2, <1>3, <2>2, <2>3, <2>4, ShellKeeps
  <1>5. CASE LeaveEnvironment \/ LoseConnection
    <2> DEFINE a == Marker("environmentPop")
    <2>1. a \in Markers /\ a.type = "environmentPop"
      BY DEF Marker, Markers
    <2>2. /\ Emit(<<a>>) /\ depth' \in Nat /\ depth' <= depth - 1
          /\ phase' = "resumed" /\ phase # "dead" /\ line' = None
      BY <1>1, <1>5 DEF LeaveEnvironment, LoseConnection
    <2> HIDE DEF a
    <2>3. /\ toCore' \in Seq(Markers)
          /\ \A t : Count(toCore', t) = Count(toCore, t) + (IF a.type = t THEN 1 ELSE 0)
      BY <1>1, <2>1, <2>2, EmitOne
    <2>4. /\ Count(toCore', "environmentPop") = Count(toCore, "environmentPop") + 1
          /\ Count(toCore', "environmentPush") = Count(toCore, "environmentPush")
      BY <1>2, <2>1, <2>3
    <2>5. depth' + Count(toCore', "environmentPop") + Count(toCore, "environmentPush")
            <= depth + Count(toCore, "environmentPop") + Count(toCore', "environmentPush")
      BY <1>1, <1>2, <2>2, <2>4
    <2>6. toShell' \in Seq(Inputs) /\ line' \in Commands \cup {None}
          /\ history' \in (IF DebugTrap THEN Commands ELSE {None})
      BY <1>1, <1>3, <2>2
    <2> QED BY <1>3, <2>2, <2>3, <2>5, <2>6, ShellKeeps
  <1> QED BY <1>4, <1>5

LEMMA NextSystem == SystemInv /\ [SystemNext]_allVars => SystemInv'
  <1> SUFFICES ASSUME SystemInv, [SystemNext]_allVars
               PROVE  SystemInv'
    OBVIOUS
  <1>1. TypeOK'
    BY SessionStep, NextType DEF SystemInv, SystemType
  <1>2. toShell \in Seq(Inputs)
    BY DEF SystemInv, SystemType
  <1>3. ASSUME NEW i \in UserInputs, UserTypes(i)
        PROVE  SystemInv'
    <2>1. toShell' \in Seq(Inputs)
      BY <1>2, <1>3, SentAreInputs, UserInputsAreKinds DEF UserTypes
    <2>2. UNCHANGED <<toCore, phase, line, depth, history, environments, registered, shellState>>
      BY <1>3 DEF UserTypes, Write, context
    <2> QED BY <1>1, <2>1, <2>2, CallKeeps
  <1>4. ASSUME NEW o \in OpIds, UserInserts(o)
        PROVE  SystemInv'
    <2>1. [kind |-> "text", text |-> CommandOf[o]] \in Inputs
      BY ShellAssumption DEF Inputs
    <2>2. toShell' \in Seq(Inputs)
      BY <1>2, <1>4, <2>1, SentAreInputs DEF UserInserts
    <2>3. UNCHANGED <<toCore, phase, line, depth, history, environments, registered, shellState>>
      BY <1>4 DEF UserInserts, InsertCommand, context
    <2> QED BY <1>1, <2>2, <2>3, CallKeeps
  <1>5. ASSUME NEW o \in OpIds, TurnFreezes(o)
        PROVE  SystemInv'
    <2>1. UNCHANGED <<shellVars, environments, registered, shellState>>
      BY <1>5 DEF TurnFreezes, Freeze, context
    <2> QED BY <1>1, <1>2, <2>1, CallKeeps DEF shellVars
  <1>6. ASSUME NEW o \in OpIds, UserApproves(o)
        PROVE  SystemInv'
    <2>1. frozen[o].command \in Commands
      BY <1>6 DEF UserApproves, SubmitApproved, ValidateApproved, SystemInv, SystemType,
                  TypeOK, Scope
    <2>2. [kind |-> "submit", text |-> frozen[o].command] \in Inputs
      BY <2>1 DEF Inputs
    <2>3. toShell' \in Seq(Inputs)
      BY <1>2, <1>6, <2>2, SentAreInputs DEF UserApproves
    <2>4. /\ UNCHANGED <<toCore, phase, line, depth, history, environments, registered>>
          /\ shellState' = "running"
      BY <1>6 DEF UserApproves, SubmitApproved
    <2> QED BY <1>1, <2>3, <2>4, CallKeeps
  <1>7. CASE CoreReceives
    BY <1>1, <1>7, ReceiveKeeps
  <1>8. CASE ShellReads
    BY <1>8, ReadKeeps
  <1>9. CASE ProgramReads
    <2>1. /\ Running /\ toShell' = Tail(toShell) /\ toShell # <<>>
          /\ UNCHANGED <<line, depth, history>> /\ UNCHANGED vars
          /\ \/ Emit(EndMarkers("nonzero")) /\ phase' = "prompt"
             \/ UNCHANGED <<toCore, phase>>
      BY <1>9 DEF ProgramReads
    <2>2. toShell' \in Seq(Inputs)
      BY <1>2, <2>1
    <2>3. CASE Emit(EndMarkers("nonzero")) /\ phase' = "prompt"
      BY <2>1, <2>2, <2>3, EndKeeps
    <2>4. CASE UNCHANGED <<toCore, phase>>
      <3>1. UNCHANGED <<environments, registered, shellState>>
        BY <2>1 DEF vars, context
      <3> QED BY <1>1, <2>1, <2>2, <2>4, <3>1, CallKeeps
    <2> QED BY <2>1, <2>3, <2>4
  <1>10. ASSUME NEW exit \in {"zero", "nonzero"}, CommandEnds(exit)
         PROVE  SystemInv'
    BY <1>2, <1>10, EndKeeps DEF CommandEnds
  <1>11. CASE EnterEnvironment \/ LeaveEnvironment \/ LoseConnection
    BY <1>11, EnvironmentKeeps
  <1>12. CASE ShellDies \/ CoreReceivesExit \/ UNCHANGED allVars
    <2>1. /\ UNCHANGED <<toShell, toCore, line, depth, history, environments, shellState,
                         registered>>
          /\ phase' \in {phase, "dead"}
      BY <1>12 DEF ShellDies, CoreReceivesExit, ReceiveExit, allVars, shellVars, vars, context
    <2> QED BY <1>1, <1>2, <2>1, CallKeeps
  <1>13. CASE UserCloses
    <2>1. /\ UNCHANGED <<toShell, toCore, line, depth, history, environments, shellState>>
          /\ registered' = FALSE /\ phase' = "dead"
      BY <1>13 DEF UserCloses, Dispose, context
    <2> QED BY <1>1, <1>2, <2>1, CallKeeps
  <1> QED BY <1>3, <1>4, <1>5, <1>6, <1>7, <1>8, <1>9, <1>10, <1>11, <1>12, <1>13
     DEF SystemNext

LEMMA SystemInvariance == SystemSpec => []SystemInv
  BY InitSystem, NextSystem, PTL DEF SystemSpec

\* With a shell at the other end the session is still a session: the scripts
\* announce nothing that the session was not made for, and the user, the turns and
\* the approvals reach it through its calls only. So every theorem about Spec
\* holds here as well.
THEOREM SystemRunsSession == SystemSpec => Spec
  <1>1. SystemInit => Init
    BY DEF SystemInit
  <1>2. SystemInv /\ [SystemNext]_allVars => [Next]_vars
    BY SessionStep DEF SystemInv
  <1> QED BY <1>1, <1>2, SystemInvariance, PTL DEF SystemSpec, Spec

\* Whatever the shell enters, leaves and loses while its markers are on their way:
\* the stack on record is never shallower than the shell is deep.
THEOREM DepthIsCounted == SystemSpec => []DepthNeverUnderCounted
  <1>1. SystemInv => DepthNeverUnderCounted
    BY DEF SystemInv
  <1> QED BY <1>1, SystemInvariance, PTL

\* A session that calls its verified shell idle, with nothing on the way, has its
\* outermost shell at the prompt, or the rest of a command line running whose
\* nested shell is gone: never a command that was announced, nor a nested shell.
THEOREM IdleIsAtPrompt == SystemSpec => []IdleShellIsAtPrompt
  <1>1. SystemInv => IdleShellIsAtPrompt
    <2>1. SUFFICES ASSUME SystemInv, Quiet, shellState = "idle", Top.verified
                   PROVE  phase \in {"prompt", "resumed"} /\ depth = 0
      BY DEF IdleShellIsAtPrompt
    <2>2. /\ environments \in Seq(Frame) /\ environments # <<>> /\ depth \in Nat
          /\ phase \in {"prompt", "executing", "resumed", "dead"}
          /\ registered /\ phase # "dead" /\ toCore = <<>>
      BY <2>1 DEF SystemInv, SystemType, TypeOK, Quiet
    <2>3. Len(environments) \in DOMAIN environments /\ Len(environments) \in Nat
      BY <2>2
    <2>4. Len(environments) <= RootDepth
      BY <2>1, <2>3 DEF SystemInv, NestedAreUnverified, Top
    <2>5. \A t : Count(toCore, t) = 0
      <3>1. \A t : {k \in DOMAIN toCore : toCore[k].type = t} = {}
        BY <2>2
      <3> QED BY <3>1, FS_EmptySet DEF Count
    <2>6. Len(environments) >= RootDepth + depth
      BY <2>1, <2>2, <2>3, <2>5, BoundAssumption DEF SystemInv, DepthNeverUnderCounted
    <2>7. depth = 0
      BY <2>2, <2>3, <2>4, <2>6, BoundAssumption
    <2>8. phase # "executing"
      BY <2>1, <2>2 DEF SystemInv, ExecutingIsAnnounced
    <2> QED BY <2>2, <2>7, <2>8
  <1> QED BY <1>1, SystemInvariance, PTL
=============================================================================

--------------------------- MODULE ApprovalsProofs ---------------------------
(***************************************************************************)
(* Theorems about Approvals, for every set of proposals, operations and    *)
(* targets, any number of failed writes and any number of crashes.         *)
(***************************************************************************)
EXTENDS Approvals, TLAPS

\* The terminal's part of the state.
TerminalType ==
    /\ version \in Nat /\ target \in Targets
    /\ status \in [OpIds -> Status]
    /\ submittedAt \in [OpIds -> Nat \cup {None}]

\* What the call that runs relies on when its next step is taken.
JobIsSound ==
    /\ job.step = "none" => job = Idle
    /\ job.step = "answer" => turn # None /\ ~job.caught
    /\ job.step \in {"row", "reserve", "submit", "operation"} \/ job.caught
       => job.proposal # None
    /\ job.proposal # None => scopes[job.proposal] # None
    /\ job.step \in {"reserve", "submit"} =>
          conv[job.proposal].status = "accepted"
    /\ job.step \in {"reserve", "submit", "operation"} =>
          conv[job.proposal].op # None
    /\ job.step = "reserve" =>
          status[conv[job.proposal].op] = "absent"
    /\ job.step \in {"submit", "operation"} =>
          /\ ops[conv[job.proposal].op] # None
          /\ ops[conv[job.proposal].op].proposal = job.proposal

\* An operation on record belongs to a proposal that is accepted, in its row
\* and, while it can be decided, in the memory.
AcceptedFor(p, o) ==
    /\ dbRows[p] # None
    /\ dbRows[p].entry.op = o /\ dbRows[p].entry.status = "accepted"
    /\ scopes[p] # None => conv[p].op = o /\ conv[p].status = "accepted"

RecordsAreAccepted ==
    /\ \A o \in OpIds : status[o] # "absent" => dbOps[o] # None
    /\ \A o \in OpIds : ops[o] # None =>
          dbOps[o] # None /\ dbOps[o].proposal = ops[o].proposal
    /\ \A o \in OpIds : dbOps[o] # None => AcceptedFor(dbOps[o].proposal, o)

\* What is known of a proposal: in memory, in the saved conversation, in its
\* row.
RowEntry(p) == IF dbRows[p] = None THEN None ELSE dbRows[p].entry
Entries(p) == {e \in {conv[p], dbConv[p], RowEntry(p)} : e # None}

\* An operation belongs to one proposal, wherever either is known.
OpsAreOwned ==
    /\ \A p, q \in Proposals : \A e \in Entries(p), f \in Entries(q) :
          e.op # None /\ e.op = f.op => p = q
    /\ \A o \in OpIds : \A r \in {ops[o], dbOps[o]} :
          r # None =>
             \A p \in Proposals : \A e \in Entries(p) :
                e.op = o => r.proposal = p

\* A proposal keeps the scope it was frozen with, and a submission happened
\* at its version.
ScopesAgree ==
    /\ \A p \in Proposals :
          scopes[p] # None /\ dbRows[p] # None => dbRows[p].scope = scopes[p]
    /\ SubmittedAsFrozen

Superseded(e) ==
    e.op = None /\ e.replacement # None /\ e.status \in {"stale", "expired"}
Gone(p) == \A e \in Entries(p) : Superseded(e)

\* Of a proposal and its renewals all but one are superseded, wherever they
\* are known.
OriginsAgree ==
    \A p \in Proposals : \A e, f \in Entries(p) : e.origin = f.origin
RootsAreKnown ==
    \A p \in Proposals : \A e \in Entries(p) :
       e.origin = p \/ dbRows[e.origin] # None
OneIsLeft ==
    \A p, q \in Proposals : p # q =>
       \A e \in Entries(p), f \in Entries(q) :
          e.origin = f.origin => Gone(p) \/ Gone(q)

\* Without failed writes a decision is in its row, or about to be.
DecisionsReachRows ==
    failures = 0 =>
       \A p \in Proposals :
          scopes[p] # None /\ conv[p].status \notin {"pending", "stale"} =>
             \/ dbRows[p] # None /\ dbRows[p].entry.status = conv[p].status
             \/ job.step \in {"row", "reserve"} /\ job.proposal = p

IInv ==
    /\ TerminalType /\ ServiceTypeOK
    /\ JobIsSound
    /\ RecordsAreAccepted
    /\ RecordedOutcomeIsTrue
    /\ OpsAreOwned
    /\ ScopesAgree
    /\ OriginsAgree /\ RootsAreKnown /\ OneIsLeft
    /\ DecisionsReachRows


-----------------------------------------------------------------------------
(* The kinds of steps.                                                     *)

\* At most the status of the entry of p changes.
Restatus(p) ==
    /\ conv' \in [Proposals -> Entry \cup {None}]
    /\ conv[p] \in Entry /\ conv'[p] \in Entry
    /\ conv'[p].op = conv[p].op
    /\ conv'[p].origin = conv[p].origin
    /\ conv'[p].replacement = conv[p].replacement
    /\ \A q \in Proposals \ {p} : conv'[q] = conv[q]

\* What the catch block leaves.
Caught(p) ==
    /\ p \in Proposals
    /\ Restatus(p)
    /\ \/ conv[p].op # None /\ conv' = conv
       \/ conv[p].op = None /\ conv'[p].status = "stale"
    /\ ops' \in [OpIds -> Operation \cup {None}]
    /\ \A o \in OpIds :
         \/ ops'[o] = ops[o]
         \/ /\ ops[o] # None /\ ops'[o] # None
            /\ ops'[o].status = "unknown"
            /\ ops'[o].proposal = ops[o].proposal
    /\ job' \in [step: Steps, proposal: Proposals \cup {None}, caught: BOOLEAN]
    /\ job'.proposal = p /\ ~job'.caught
    /\ \/ job'.step \in {"row", "conversation"}
       \/ /\ job'.step = "operation"
          /\ conv[p].op \in OpIds /\ ops[conv[p].op] # None

\* The steps on the proposals' side that leave every record alone but,
\* perhaps, the saved conversation.
Quiet ==
    \/ SaveConversation(TRUE) \/ TurnAnswers \/ SaveAnswer
    \/ \E ok \in BOOLEAN : StartTurn(ok) \/ TurnFails(ok)
    \/ \E p \in Proposals : TimePasses(p)

\* A write of a call failed.
FailedWrite ==
    /\ Fail /\ job.step \in {"row", "conversation", "operation", "reserve"}
    /\ failures' = failures + 1
    /\ UNCHANGED <<vars, scopes, turn, lapsed, database, restarts>>

\* A pending proposal is closed.
Closed(p) ==
    /\ Pending(p)
    /\ Restatus(p)
    /\ conv'[p].status \in {"expired", "rejected", "stale", "inserted"}
    /\ \/ conv'[p].status = "stale" /\ job' = job
       \/ \E c \in BOOLEAN :
             job' = [step |-> "row", proposal |-> p, caught |-> c]
    /\ \/ UNCHANGED vars
       \/ /\ version' = version + 1
          /\ UNCHANGED <<present, live, target, idle, status, submittedAt>>
    /\ UNCHANGED <<scopes, ops, turn, lapsed, database, failures, restarts>>

LEMMA RestatusByExcept ==
    ASSUME ServiceTypeOK, NEW p \in Proposals, conv[p] \in Entry,
           NEW s \in {"pending", "accepted", "inserted", "rejected",
                      "expired", "stale"},
           conv' = [conv EXCEPT ![p].status = s]
    PROVE  Restatus(p) /\ conv'[p].status = s
  <1>1. /\ conv'[p] = [conv[p] EXCEPT !.status = s]
        /\ \A q \in Proposals \ {p} : conv'[q] = conv[q]
    BY DEF ServiceTypeOK
  <1>2. conv'[p] \in Entry
    BY <1>1 DEF Entry
  <1>3. /\ conv'[p].status = s
        /\ conv'[p].op = conv[p].op
        /\ conv'[p].origin = conv[p].origin
        /\ conv'[p].replacement = conv[p].replacement
    BY <1>1 DEF Entry
  <1>4. conv' \in [Proposals -> Entry \cup {None}]
    BY <1>1, <1>2 DEF ServiceTypeOK
  <1> QED BY <1>1, <1>2, <1>3, <1>4 DEF Restatus

LEMMA CatchLeaves ==
    ASSUME ServiceTypeOK, NEW p \in Proposals, conv[p] \in Entry, Catch(ops, p)
    PROVE  Caught(p)
  <1>1. CASE conv[p].op = None
    <2>1. /\ conv' = [conv EXCEPT ![p].status = "stale"]
          /\ job' = [step |-> "row", proposal |-> p, caught |-> FALSE]
          /\ ops' = ops
      BY <1>1 DEF Catch, Persist
    <2>2. Restatus(p) /\ conv'[p].status = "stale"
      BY <2>1, RestatusByExcept
    <2> QED BY <1>1, <2>1, <2>2 DEF Caught, Steps, ServiceTypeOK
  <1>2. CASE conv[p].op # None
    <2> DEFINE o == conv[p].op
    <2>1. o \in OpIds
      BY <1>2 DEF Entry
    <2>2. ASSUME conv' = conv
          PROVE  Restatus(p)
      BY <2>2 DEF Restatus, ServiceTypeOK
    <2>3. CASE ops[o] = None
      <3>1. /\ conv' = conv /\ ops' = ops
            /\ job' = [step |-> "conversation", proposal |-> p,
                       caught |-> FALSE]
        BY <1>2, <2>3 DEF Catch
      <3> QED BY <1>2, <2>2, <3>1 DEF Caught, Steps, ServiceTypeOK
    <2>4. CASE ops[o] # None
      <3>1. /\ ops' = [ops EXCEPT ![o].status = "unknown"]
            /\ job' = [step |-> "operation", proposal |-> p, caught |-> FALSE]
            /\ conv' = conv
        BY <1>2, <2>4 DEF Catch
      <3>2. ops[o] \in Operation
        BY <2>1, <2>4 DEF ServiceTypeOK
      <3>3. /\ ops'[o] = [ops[o] EXCEPT !.status = "unknown"]
            /\ \A r \in OpIds \ {o} : ops'[r] = ops[r]
        BY <2>1, <3>1 DEF ServiceTypeOK
      <3>4. /\ ops'[o] \in Operation
            /\ ops'[o].status = "unknown"
            /\ ops'[o].proposal = ops[o].proposal
        BY <3>2, <3>3 DEF Operation, Status, Settled
      <3>5. ops' \in [OpIds -> Operation \cup {None}]
        BY <3>1, <3>3, <3>4 DEF ServiceTypeOK
      <3>6. ops'[o] # None
        BY <3>4, ApprovalsAssumption DEF ApprovalsAssumption
      <3> QED
        BY <1>2, <2>1, <2>2, <2>4, <3>1, <3>3, <3>4, <3>5, <3>6
        DEF Caught, Steps
    <2> QED BY <2>3, <2>4
  <1> QED BY <1>1, <1>2

\* The proposal of a call that has one is in the conversation.
LEMMA JobProposal ==
    ASSUME ServiceTypeOK, JobIsSound, job.proposal # None
    PROVE  /\ job.proposal \in Proposals
           /\ conv[job.proposal] \in Entry
           /\ scopes[job.proposal] \in Scopes
  BY DEF ServiceTypeOK, JobIsSound

LEMMA FailLeaves ==
    ASSUME ServiceTypeOK, JobIsSound, Fail
    PROVE  \/ ~job.caught /\ job' = Idle /\ UNCHANGED <<conv, ops>>
           \/ job.caught /\ Caught(job.proposal)
  <1>1. CASE job.caught
    <2>1. job.proposal # None
      BY <1>1 DEF JobIsSound
    <2> QED BY <1>1, <2>1, JobProposal, CatchLeaves DEF Fail
  <1> QED BY <1>1 DEF Fail

LEMMA CloseLeaves ==
    ASSUME ServiceTypeOK, NEW p \in Proposals,
           Expire(p) \/ Reject(p) \/ TerminalGone(p) \/ Insert(p)
    PROVE  Closed(p)
  <1>1. Pending(p)
    BY DEF Expire, Reject, TerminalGone, Insert
  <1>2. conv[p] \in Entry
    BY <1>1 DEF ServiceTypeOK, Pending
  <1>3. PICK s \in {"expired", "rejected", "stale", "inserted"} :
          /\ Close(p, s)
          /\ \/ s = "stale" /\ UNCHANGED <<vars, job>>
             \/ /\ \E c \in BOOLEAN : Persist(p, c)
                /\ \/ UNCHANGED vars
                   \/ /\ version' = version + 1
                      /\ UNCHANGED <<present, live, target, idle, status,
                                     submittedAt>>
    <2>1. CASE Expire(p)
      BY <2>1 DEF Expire
    <2>2. CASE Reject(p)
      BY <2>2 DEF Reject
    <2>3. CASE TerminalGone(p)
      BY <2>3 DEF TerminalGone
    <2>4. CASE Insert(p)
      BY <2>4 DEF Insert
    <2> QED BY <2>1, <2>2, <2>3, <2>4
  <1>4. Restatus(p) /\ conv'[p].status = s
    BY <1>2, <1>3, RestatusByExcept DEF Close
  <1> QED BY <1>1, <1>3, <1>4 DEF Closed, Close, Persist

\* Every step of the service is one of these.
LEMMA Kinds ==
    ASSUME ServiceTypeOK, ServiceNext
    PROVE  \/ FailedWrite
           \/ SaveRow(TRUE) \/ SaveOperation(TRUE) \/ Reserve(TRUE)
           \/ Quiet
           \/ \E p \in Proposals :
                \/ \E ok \in BOOLEAN : Propose(p, ok)
                \/ Closed(p)
                \/ ApprovalFails(p)
                \/ \E o \in OpIds : Approve(p, o)
                \/ \E q \in Proposals : Recheck(p, q)
           \/ \E o \in OpIds, ok \in BOOLEAN : Poll(o, ok)
           \/ SubmitOperation
           \/ TerminalChanges
           \/ CrashAndRestart
  <1>1. ASSUME NEW ok \in BOOLEAN,
               SaveRow(ok) \/ SaveConversation(ok) \/ SaveOperation(ok)
                 \/ Reserve(ok)
        PROVE  \/ FailedWrite
               \/ SaveRow(TRUE) \/ SaveConversation(TRUE) \/ SaveOperation(TRUE)
               \/ Reserve(TRUE)
    <2>1. CASE ok
      BY <1>1, <2>1
    <2>2. CASE ~ok
      BY <1>1, <2>2
      DEF SaveRow, SaveConversation, SaveOperation, Reserve, Attempt,
          FailedWrite, database
    <2> QED BY <2>1, <2>2
  <1> QED BY <1>1, CloseLeaves DEF ServiceNext, Quiet

-----------------------------------------------------------------------------
(* Types.                                                                  *)

Jobs == [step: Steps, proposal: Proposals \cup {None}, caught: BOOLEAN]

IsTyped == TerminalType /\ ServiceTypeOK

LEMMA JobTypes ==
    /\ \A s \in Steps, q \in Proposals \cup {None}, c \in BOOLEAN :
          [step |-> s, proposal |-> q, caught |-> c] \in Jobs
    /\ Idle \in Jobs /\ Idle.step = "none" /\ Idle.proposal = None
    /\ Idle.caught = FALSE
    /\ \A j \in Jobs, s \in Steps :
          /\ [j EXCEPT !.step = s] \in Jobs
          /\ [j EXCEPT !.step = s].step = s
          /\ [j EXCEPT !.step = s].proposal = j.proposal
          /\ [j EXCEPT !.step = s].caught = j.caught
  <1>1. \A s \in Steps, q \in Proposals \cup {None}, c \in BOOLEAN :
          [step |-> s, proposal |-> q, caught |-> c] \in Jobs
    BY DEF Jobs
  <1>2. /\ Idle.step = "none" /\ Idle.proposal = None /\ Idle.caught = FALSE
        /\ Idle \in Jobs
    BY <1>1 DEF Idle, Steps
  <1>3. ASSUME NEW j \in Jobs, NEW s \in Steps
        PROVE  /\ [j EXCEPT !.step = s] \in Jobs
               /\ [j EXCEPT !.step = s].step = s
               /\ [j EXCEPT !.step = s].proposal = j.proposal
               /\ [j EXCEPT !.step = s].caught = j.caught
    BY DEF Jobs
  <1> QED BY <1>1, <1>2, <1>3

LEMMA ScopeType ==
    ASSUME TerminalType
    PROVE  Scope \in Scopes /\ Scope # None
  BY ApprovalsAssumption DEF ApprovalsAssumption, TerminalType, Scope, Scopes

LEMMA AttemptType ==
    ASSUME ServiceTypeOK, NEW ok \in BOOLEAN, Attempt(ok)
    PROVE  failures' \in Nat /\ (failures' = 0 => ok /\ failures = 0)
  BY DEF ServiceTypeOK, Attempt

LEMMA RowType ==
    ASSUME ServiceTypeOK, NEW p \in Proposals, scopes[p] # None
    PROVE  /\ Row(p) \in Rows /\ Row(p) # None
           /\ Row(p).entry = conv[p] /\ Row(p).scope = scopes[p]
  BY ApprovalsAssumption DEF ApprovalsAssumption, ServiceTypeOK, Row, Rows

\* What the two copies of a proposal are merged to.
LEMMA MergedType ==
    ASSUME NEW entry \in Entry, NEW row \in Entry
    PROVE  /\ Merged(entry, row) \in Entry
           /\ Merged(entry, row).status = row.status
           /\ Merged(entry, row).origin = row.origin
           /\ Merged(entry, row).op = IF row.op = None THEN entry.op ELSE row.op
           /\ Merged(entry, row).replacement =
                IF row.replacement = None THEN entry.replacement
                                          ELSE row.replacement
  <1>1. Merged(entry, row) =
          [row EXCEPT !.op = IF row.op = None THEN entry.op ELSE row.op,
                      !.replacement = IF row.replacement = None
                                      THEN entry.replacement
                                      ELSE row.replacement]
    BY DEF Merged
  <1> QED BY <1>1 DEF Entry

LEMMA RestoredType ==
    ASSUME NEW op \in Operation \cup {None}
    PROVE  /\ Restored(op) \in Operation \cup {None}
           /\ op = None <=> Restored(op) = None
           /\ op # None =>
                /\ Restored(op).proposal = op.proposal
                /\ \/ Restored(op).status = op.status
                   \/ Restored(op).status = "unknown"
                /\ Restored(op).status \notin {"accepted", "running"}
  <1>1. CASE op # None /\ op.status \in {"accepted", "running"}
    <2>1. Restored(op) = [op EXCEPT !.status = "unknown"]
      BY <1>1 DEF Restored
    <2>2. /\ Restored(op) \in Operation
          /\ Restored(op).proposal = op.proposal
          /\ Restored(op).status = "unknown"
      BY <1>1, <2>1 DEF Operation, Status, Settled
    <2> QED BY <1>1, <2>2, ApprovalsAssumption DEF ApprovalsAssumption
  <1>2. CASE ~(op # None /\ op.status \in {"accepted", "running"})
    BY <1>2 DEF Restored
  <1> QED BY <1>1, <1>2

LEMMA ProposeTyped ==
    ASSUME IsTyped, JobIsSound, NEW p \in Proposals, NEW ok \in BOOLEAN,
           Propose(p, ok)
    PROVE  IsTyped'
  <1> USE DEF IsTyped, TerminalType, ServiceTypeOK
  <1> DEFINE e == [status |-> "pending", op |-> None, origin |-> p,
                   replacement |-> None]
  <1>1. /\ turn \in Scopes /\ turn # None
    BY DEF Propose, JobIsSound
  <1>2. e \in Entry /\ e # None
    BY ApprovalsAssumption DEF ApprovalsAssumption, Entry
  <1>3. conv' = [conv EXCEPT ![p] = e] /\ scopes' = [scopes EXCEPT ![p] = turn]
    BY DEF Propose
  <1>4. /\ conv' \in [Proposals -> Entry \cup {None}] /\ conv'[p] = e
        /\ scopes' \in [Proposals -> Scopes \cup {None}]
    BY <1>1, <1>2, <1>3
  <1>5. \A q \in Proposals : scopes'[q] # None => conv'[q] # None
    BY <1>1, <1>2, <1>3
  <1>6. [entry |-> e, scope |-> turn] \in Rows
    BY <1>1, <1>2 DEF Rows
  <1>7. dbRows' \in [Proposals -> Rows \cup {None}]
    BY <1>4, <1>6 DEF Propose
  <1>8. /\ turn' \in Scopes \cup {None}
        /\ job' \in [step: Steps, proposal: Proposals \cup {None},
                     caught: BOOLEAN]
    <2>1. \/ turn' = turn /\ job' = job
          \/ turn' = None /\ job' = Idle
      BY DEF Propose
    <2> QED BY <2>1, JobTypes DEF Jobs
  <1>9. failures' \in Nat
    BY AttemptType DEF Propose
  <1>10. UNCHANGED <<vars, ops, lapsed, dbConv, dbOps, restarts>>
    BY DEF Propose
  <1> QED BY <1>4, <1>5, <1>7, <1>8, <1>9, <1>10 DEF vars

\* A recheck: what it makes of the two entries.
LEMMA RecheckEntries ==
    ASSUME IsTyped, NEW p \in Proposals, NEW q \in Proposals, Recheck(p, q)
    PROVE  /\ p # q /\ scopes[p] \in Scopes
           /\ conv[p] \in Entry /\ conv'[p] \in Entry /\ conv'[q] \in Entry
           /\ conv'[p].status = conv[p].status
           /\ conv'[p].op = conv[p].op
           /\ conv'[p].origin = conv[p].origin
           /\ conv'[p].replacement = q
           /\ conv'[q].status = "pending"
           /\ conv'[q].op = None
           /\ conv'[q].origin = conv[p].origin
           /\ conv' \in [Proposals -> Entry \cup {None}]
           /\ \A x \in Proposals \ {p, q} : conv'[x] = conv[x]
  <1> USE DEF IsTyped, TerminalType, ServiceTypeOK
  <1> DEFINE e == [status |-> "pending", op |-> None, origin |-> conv[p].origin,
                   replacement |-> None]
  <1>1. conv[p] \in Entry /\ scopes[p] \in Scopes /\ p # q
    BY DEF Recheck, FreshProposal
  <1>2. e \in Entry
    BY <1>1 DEF Entry
  <1>3. conv' = [conv EXCEPT ![p].replacement = q, ![q] = e]
    BY DEF Recheck
  <1>4. /\ conv'[p] = [conv[p] EXCEPT !.replacement = q] /\ conv'[q] = e
        /\ \A x \in Proposals \ {p, q} : conv'[x] = conv[x]
    BY <1>1, <1>3
  <1>5. conv'[p] \in Entry
    BY <1>1, <1>4 DEF Entry
  <1>6. /\ conv'[p].status = conv[p].status
        /\ conv'[p].op = conv[p].op
        /\ conv'[p].origin = conv[p].origin
        /\ conv'[p].replacement = q
    BY <1>1, <1>4 DEF Entry
  <1>7. conv' \in [Proposals -> Entry \cup {None}]
    BY <1>2, <1>3, <1>4, <1>5
  <1>8. e.status = "pending" /\ e.op = None /\ e.origin = conv[p].origin
    OBVIOUS
  <1> QED BY <1>1, <1>2, <1>4, <1>5, <1>6, <1>7, <1>8

\* A recheck: what it makes of the rows and of the scopes.
LEMMA RecheckRows ==
    ASSUME IsTyped, NEW p \in Proposals, NEW q \in Proposals, Recheck(p, q)
    PROVE  /\ dbRows'[p] # None /\ dbRows'[q] # None
           /\ dbRows'[p].entry = conv'[p] /\ dbRows'[p].scope = scopes[p]
           /\ dbRows'[q].entry = conv'[q] /\ dbRows'[q].scope = scopes'[q]
           /\ \A x \in Proposals \ {p, q} : dbRows'[x] = dbRows[x]
           /\ \A x \in Proposals \ {q} : scopes'[x] = scopes[x]
           /\ scopes' \in [Proposals -> Scopes \cup {None}]
           /\ dbRows' \in [Proposals -> Rows \cup {None}]
  <1> USE DEF IsTyped, TerminalType, ServiceTypeOK
  <1> DEFINE rp == [entry |-> conv'[p], scope |-> scopes[p]]
             rq == [entry |-> conv'[q], scope |-> Scope]
  <1>1. /\ scopes' = [scopes EXCEPT ![q] = Scope]
        /\ dbRows' = [dbRows EXCEPT ![p] = rp, ![q] = rq]
    BY DEF Recheck
  <1>2. /\ p # q /\ scopes[p] \in Scopes
        /\ conv'[p] \in Entry /\ conv'[q] \in Entry
    BY RecheckEntries
  <1>3. rp \in Rows /\ rq \in Rows
    BY <1>2, ScopeType DEF Rows
  <1> HIDE DEF rp, rq
  <1>4. /\ dbRows'[p] = rp /\ dbRows'[q] = rq
        /\ \A x \in Proposals \ {p, q} : dbRows'[x] = dbRows[x]
        /\ dbRows' \in [Proposals -> Rows \cup {None}]
    BY <1>1, <1>2, <1>3
  <1>5. /\ scopes'[q] = Scope
        /\ \A x \in Proposals \ {q} : scopes'[x] = scopes[x]
        /\ scopes' \in [Proposals -> Scopes \cup {None}]
    BY <1>1, ScopeType
  <1>6. /\ rp.entry = conv'[p] /\ rp.scope = scopes[p]
        /\ rq.entry = conv'[q] /\ rq.scope = Scope
    BY DEF rp, rq
  <1>7. rp # None /\ rq # None
    BY <1>3, ApprovalsAssumption DEF ApprovalsAssumption
  <1> QED BY <1>4, <1>5, <1>6, <1>7

LEMMA RecheckTyped ==
    ASSUME IsTyped, NEW p \in Proposals, NEW q \in Proposals, Recheck(p, q)
    PROVE  IsTyped'
  <1> USE DEF IsTyped, TerminalType, ServiceTypeOK
  <1>1. /\ dbConv' = conv'
        /\ UNCHANGED <<vars, ops, turn, job, lapsed, dbOps, failures, restarts>>
    BY DEF Recheck
  <1>2. \A x \in Proposals : scopes'[x] # None => conv'[x] # None
    <2>1. /\ conv'[p] # None /\ conv'[q] # None
          /\ \A x \in Proposals \ {p, q} : conv'[x] = conv[x]
      BY RecheckEntries, ApprovalsAssumption DEF ApprovalsAssumption
    <2>2. \A x \in Proposals \ {q} : scopes'[x] = scopes[x]
      BY RecheckRows
    <2> QED BY <2>1, <2>2
  <1>3. conv' \in [Proposals -> Entry \cup {None}]
    BY RecheckEntries
  <1>4. /\ scopes' \in [Proposals -> Scopes \cup {None}]
        /\ dbRows' \in [Proposals -> Rows \cup {None}]
    BY RecheckRows
  <1> QED BY <1>1, <1>2, <1>3, <1>4 DEF vars

\* What a restart makes of a proposal and of an operation.
LEMMA CrashLeaves ==
    ASSUME IsTyped, CrashAndRestart
    PROVE  /\ IsTyped'
           /\ job' = Idle /\ turn' = None
           /\ UNCHANGED <<status, submittedAt, dbConv, dbRows, failures>>
           /\ ops' = dbOps'
           /\ \A o \in OpIds : dbOps'[o] = Restored(dbOps[o])
           /\ \A p \in Proposals :
                \/ /\ scopes'[p] = None /\ conv'[p] = dbConv[p]
                \/ /\ dbConv[p] \in Entry /\ dbRows[p] \in Rows
                   /\ dbRows[p] # None
                   /\ scopes'[p] = dbRows[p].scope
                   /\ conv'[p] = Merged(dbConv[p], dbRows[p].entry)
  <1> USE DEF IsTyped, TerminalType, ServiceTypeOK
  <1>1. \A p \in Proposals : dbRows[p] # None =>
           /\ dbRows[p].scope \in Scopes /\ dbRows[p].scope # None
           /\ dbRows[p].entry \in Entry
    BY ApprovalsAssumption DEF ApprovalsAssumption, Rows
  <1>2. ASSUME NEW p \in Proposals
        PROVE  /\ scopes'[p] \in Scopes \cup {None}
               /\ conv'[p] \in Entry \cup {None}
               /\ scopes'[p] # None => conv'[p] # None
               /\ \/ /\ scopes'[p] = None /\ conv'[p] = dbConv[p]
                  \/ /\ dbConv[p] \in Entry /\ dbRows[p] \in Rows
                     /\ dbRows[p] # None
                     /\ scopes'[p] = dbRows[p].scope
                     /\ conv'[p] = Merged(dbConv[p], dbRows[p].entry)
    <2>1. /\ scopes'[p] = IF dbConv[p] # None /\ dbRows[p] # None
                          THEN dbRows[p].scope ELSE None
          /\ conv'[p] = IF scopes'[p] = None THEN dbConv[p]
                        ELSE Merged(dbConv[p], dbRows[p].entry)
      BY DEF CrashAndRestart
    <2>2. CASE dbConv[p] # None /\ dbRows[p] # None
      <3>1. /\ scopes'[p] = dbRows[p].scope
            /\ conv'[p] = Merged(dbConv[p], dbRows[p].entry)
        BY <1>1, <2>1, <2>2
      <3>2. dbConv[p] \in Entry
        BY <2>2
      <3>3. conv'[p] \in Entry
        BY <1>1, <2>2, <3>1, <3>2, MergedType
      <3> QED
        BY <1>1, <2>2, <3>1, <3>2, <3>3, ApprovalsAssumption
        DEF ApprovalsAssumption
    <2>3. CASE ~(dbConv[p] # None /\ dbRows[p] # None)
      BY <2>1, <2>3
    <2> QED BY <2>2, <2>3
  <1>3. /\ conv' \in [Proposals -> Entry \cup {None}]
        /\ scopes' \in [Proposals -> Scopes \cup {None}]
    <2>1. /\ \E F : conv' = [p \in Proposals |-> F[p]]
          /\ \E F : scopes' = [p \in Proposals |-> F[p]]
      <3>1. /\ conv' = [p \in Proposals |-> conv'[p]]
            /\ scopes' = [p \in Proposals |-> scopes'[p]]
        BY DEF CrashAndRestart
      <3> QED BY <3>1
    <2> QED BY <1>2, <2>1
  <1>4. /\ dbOps' = [o \in OpIds |-> Restored(dbOps[o])] /\ ops' = dbOps'
        /\ turn' = None /\ job' = Idle
        /\ restarts' = restarts + 1
        /\ UNCHANGED <<version, target, status, submittedAt, dbConv, dbRows,
                       lapsed, failures>>
    BY DEF CrashAndRestart
  <1>5. dbOps' \in [OpIds -> Operation \cup {None}]
    BY <1>4, RestoredType
  <1>6. job' \in [step: Steps, proposal: Proposals \cup {None}, caught: BOOLEAN]
    BY <1>4 DEF Idle, Steps
  <1>7. IsTyped'
    BY <1>2, <1>3, <1>4, <1>5, <1>6
  <1> QED BY <1>2, <1>4, <1>7

\* The step that reserves an operation.
LEMMA ReserveLeaves ==
    ASSUME IsTyped, JobIsSound, Reserve(TRUE)
    PROVE  LET p == job.proposal
               o == conv[p].op IN
           /\ p \in Proposals /\ o \in OpIds
           /\ conv[p].status = "accepted" /\ status[o] = "absent"
           /\ dbOps' \in [OpIds -> Operation \cup {None}]
           /\ dbOps'[o].proposal = p /\ dbOps'[o].status = "accepted"
           /\ dbOps'[o] # None /\ ops'[o] = dbOps'[o]
           /\ \A r \in OpIds \ {o} : dbOps'[r] = dbOps[r] /\ ops'[r] = ops[r]
           /\ dbRows' = [dbRows EXCEPT ![p] = Row(p)]
           /\ job' = [job EXCEPT !.step = "submit"]
           /\ failures' = failures
           /\ UNCHANGED <<vars, conv, scopes, turn, lapsed, dbConv, restarts>>
  <1> DEFINE p == job.proposal
             o == conv[p].op
             r == [proposal |-> p, status |-> "accepted"]
  <1>1. /\ p \in Proposals /\ conv[p] \in Entry
        /\ conv[p].status = "accepted" /\ o # None /\ status[o] = "absent"
    BY JobProposal DEF JobIsSound, Reserve, IsTyped
  <1>2. o \in OpIds
    BY <1>1 DEF Entry
  <1>3. r \in Operation /\ r # None
    BY <1>1, ApprovalsAssumption DEF ApprovalsAssumption, Operation, Status
  <1>4. /\ dbOps' = [dbOps EXCEPT ![o] = r]
        /\ ops' = [ops EXCEPT ![o] = r]
        /\ dbRows' = [dbRows EXCEPT ![p] = Row(p)]
        /\ job' = [job EXCEPT !.step = "submit"]
        /\ failures' = failures
        /\ UNCHANGED <<vars, conv, scopes, turn, lapsed, dbConv, restarts>>
    BY DEF Reserve, Reserved, Attempt
  <1>5. /\ dbOps' \in [OpIds -> Operation \cup {None}]
        /\ dbOps'[o] = r /\ ops'[o] = r
        /\ \A x \in OpIds \ {o} : dbOps'[x] = dbOps[x] /\ ops'[x] = ops[x]
    BY <1>2, <1>3, <1>4 DEF IsTyped, ServiceTypeOK
  <1>6. r.proposal = p /\ r.status = "accepted"
    OBVIOUS
  <1> QED BY <1>1, <1>2, <1>3, <1>4, <1>5, <1>6

\* The step that submits it.
LEMMA SubmitLeaves ==
    ASSUME IsTyped, JobIsSound, SubmitOperation
    PROVE  LET p == job.proposal
               o == conv[p].op IN
           /\ p \in Proposals /\ o \in OpIds
           /\ scopes[p] = Scope
           /\ status[o] = "absent"
           /\ ops[o] # None /\ ops[o].proposal = p
           /\ status' = [status EXCEPT ![o] = "accepted"]
           /\ submittedAt' = [submittedAt EXCEPT ![o] = version]
           /\ ops' \in [OpIds -> Operation \cup {None}]
           /\ ops'[o] # None /\ ops'[o].proposal = p
           /\ ops'[o].status = "accepted"
           /\ \A r \in OpIds \ {o} : ops'[r] = ops[r]
           /\ job' = [job EXCEPT !.step = "operation"]
           /\ UNCHANGED <<version, target, conv, scopes, turn, lapsed,
                          database, failures, restarts>>
  <1> DEFINE p == job.proposal
             o == conv[p].op
  <1>1. /\ p \in Proposals /\ conv[p] \in Entry
        /\ o # None /\ ops[o] # None /\ ops[o].proposal = p
    BY JobProposal DEF JobIsSound, SubmitOperation, IsTyped
  <1>2. o \in OpIds
    BY <1>1 DEF Entry
  <1>3. /\ scopes[p] = Scope /\ status[o] = "absent"
        /\ status' = [status EXCEPT ![o] = "accepted"]
        /\ submittedAt' = [submittedAt EXCEPT ![o] = version]
        /\ ops' = [ops EXCEPT ![o].status = status'[o]]
        /\ job' = [job EXCEPT !.step = "operation"]
        /\ UNCHANGED <<version, target, conv, scopes, turn, lapsed,
                       database, failures, restarts>>
    BY DEF SubmitOperation, Submit, Validated
  <1>4. status'[o] = "accepted"
    BY <1>2, <1>3 DEF IsTyped, TerminalType
  <1>5. ops[o] \in Operation
    BY <1>1, <1>2 DEF IsTyped, ServiceTypeOK
  <1>6. /\ ops'[o] = [ops[o] EXCEPT !.status = "accepted"]
        /\ \A r \in OpIds \ {o} : ops'[r] = ops[r]
    BY <1>2, <1>3, <1>4 DEF IsTyped, ServiceTypeOK
  <1>7. /\ ops'[o] \in Operation /\ ops'[o].status = "accepted"
        /\ ops'[o].proposal = p
    BY <1>1, <1>5, <1>6 DEF Operation, Status
  <1>8. ops' \in [OpIds -> Operation \cup {None}] /\ ops'[o] # None
    BY <1>3, <1>6, <1>7, ApprovalsAssumption
    DEF IsTyped, ServiceTypeOK, ApprovalsAssumption
  <1> QED BY <1>1, <1>2, <1>3, <1>6, <1>7, <1>8

\* A poll copies the terminal's record.
LEMMA PollLeaves ==
    ASSUME IsTyped, NEW o \in OpIds, NEW ok \in BOOLEAN, Poll(o, ok)
    PROVE  /\ ops[o] # None /\ ops'[o] # None
           /\ ops'[o].status = status[o] /\ ops'[o].proposal = ops[o].proposal
           /\ ops' \in [OpIds -> Operation \cup {None}]
           /\ dbOps' \in [OpIds -> Operation \cup {None}]
           /\ \A r \in OpIds \ {o} : ops'[r] = ops[r] /\ dbOps'[r] = dbOps[r]
           /\ dbOps'[o] = dbOps[o] \/ dbOps'[o] = ops'[o]
           /\ job = Idle /\ failures' \in Nat
           /\ failures' = 0 => failures = 0
           /\ UNCHANGED <<vars, conv, scopes, turn, job, lapsed, dbConv,
                          dbRows, restarts>>
  <1> USE DEF IsTyped, TerminalType, ServiceTypeOK
  <1>1. /\ ops[o] \in Operation
        /\ ops' = [ops EXCEPT ![o].status = status[o]]
        /\ dbOps' = [dbOps EXCEPT ![o] = ops'[o]] \/ dbOps' = dbOps
        /\ job = Idle
        /\ UNCHANGED <<vars, conv, scopes, turn, job, lapsed, dbConv,
                       dbRows, restarts>>
    BY DEF Poll
  <1>2. /\ ops'[o] = [ops[o] EXCEPT !.status = status[o]]
        /\ \A r \in OpIds \ {o} : ops'[r] = ops[r]
    BY <1>1
  <1>3. /\ ops'[o] \in Operation /\ ops'[o].status = status[o]
        /\ ops'[o].proposal = ops[o].proposal
    BY <1>1, <1>2 DEF Operation
  <1>4. ops[o] # None /\ ops'[o] # None
    BY <1>1, <1>3, ApprovalsAssumption DEF ApprovalsAssumption
  <1>5. failures' \in Nat /\ (failures' = 0 => failures = 0)
    BY AttemptType DEF Poll
  <1> QED BY <1>1, <1>2, <1>3, <1>4, <1>5

\* An approval.
LEMMA ApproveLeaves ==
    ASSUME IsTyped, NEW p \in Proposals, NEW o \in OpIds, Approve(p, o)
    PROVE  /\ Pending(p) /\ conv[p] \in Entry /\ conv'[p] \in Entry
           /\ status[o] = "absent"
           /\ conv' \in [Proposals -> Entry \cup {None}]
           /\ conv'[p].op = o /\ conv'[p].status = "accepted"
           /\ conv'[p].origin = conv[p].origin
           /\ conv'[p].replacement = conv[p].replacement
           /\ \A q \in Proposals \ {p} : conv'[q] = conv[q]
           /\ job' = [step |-> "reserve", proposal |-> p, caught |-> TRUE]
           /\ UNCHANGED <<vars, scopes, ops, turn, lapsed, database, failures,
                          restarts>>
  <1> USE DEF IsTyped, ServiceTypeOK
  <1>1. conv[p] \in Entry
    BY DEF Approve, Pending
  <1>2. conv' = [conv EXCEPT ![p].op = o, ![p].status = "accepted"]
    BY DEF Approve
  <1>3. /\ conv'[p] = [conv[p] EXCEPT !.op = o, !.status = "accepted"]
        /\ \A q \in Proposals \ {p} : conv'[q] = conv[q]
    BY <1>2
  <1>4. conv'[p] \in Entry
    BY <1>1, <1>3 DEF Entry
  <1>5. /\ conv'[p].op = o /\ conv'[p].status = "accepted"
        /\ conv'[p].origin = conv[p].origin
        /\ conv'[p].replacement = conv[p].replacement
    BY <1>1, <1>3 DEF Entry
  <1>6. conv' \in [Proposals -> Entry \cup {None}]
    BY <1>2, <1>3, <1>4
  <1> QED BY <1>1, <1>3, <1>4, <1>5, <1>6 DEF Approve, FreshOperation

LEMMA TypesKept ==
    ASSUME IsTyped, JobIsSound, ServiceNext
    PROVE  IsTyped'
  <1> USE DEF IsTyped, TerminalType, ServiceTypeOK
  <1>1. CASE FailedWrite
    <2>1. \/ job' = Idle /\ UNCHANGED <<conv, ops>>
          \/ Caught(job.proposal)
      BY <1>1, FailLeaves DEF FailedWrite
    <2>2. /\ conv' \in [Proposals -> Entry \cup {None}]
          /\ ops' \in [OpIds -> Operation \cup {None}]
          /\ job' \in [step: Steps, proposal: Proposals \cup {None},
                       caught: BOOLEAN]
          /\ \A p \in Proposals : conv[p] # None => conv'[p] # None
      <3>1. CASE job' = Idle /\ UNCHANGED <<conv, ops>>
        BY <3>1, JobTypes DEF Jobs
      <3>2. CASE Caught(job.proposal)
        BY <3>2, ApprovalsAssumption DEF ApprovalsAssumption, Caught, Restatus
      <3> QED BY <2>1, <3>1, <3>2
    <2> QED BY <1>1, <2>2 DEF FailedWrite, vars, database
  <1>2. CASE SaveRow(TRUE)
    <2>1. job.proposal \in Proposals /\ scopes[job.proposal] # None
      BY <1>2 DEF SaveRow, JobIsSound
    <2>2. dbRows' \in [Proposals -> Rows \cup {None}]
      BY <1>2, <2>1, RowType DEF SaveRow
    <2>3. job' \in [step: Steps, proposal: Proposals \cup {None},
                    caught: BOOLEAN]
      BY <1>2 DEF SaveRow, Continue, Steps
    <2> QED BY <1>2, <2>2, <2>3, AttemptType DEF SaveRow, Continue, vars
  <1>3. CASE SaveOperation(TRUE)
    <2> DEFINE o == conv[job.proposal].op
    <2>1. ops[o] # None /\ o # None /\ conv[job.proposal] \in Entry
      BY <1>3, JobProposal DEF SaveOperation, JobIsSound
    <2>2. o \in OpIds
      BY <2>1 DEF Entry
    <2>3. dbOps' \in [OpIds -> Operation \cup {None}]
      BY <1>3, <2>1, <2>2 DEF SaveOperation
    <2>4. job' \in [step: Steps, proposal: Proposals \cup {None},
                    caught: BOOLEAN]
      BY <1>3 DEF SaveOperation, Continue, Steps
    <2> QED BY <1>3, <2>3, <2>4, AttemptType DEF SaveOperation, Continue, vars
  <1>4. CASE Reserve(TRUE)
    <2> DEFINE p == job.proposal
    <2>1. /\ p \in Proposals /\ scopes[p] # None
          /\ dbOps' \in [OpIds -> Operation \cup {None}]
          /\ dbRows' = [dbRows EXCEPT ![p] = Row(p)]
          /\ job' = [job EXCEPT !.step = "submit"]
          /\ failures' = failures
          /\ UNCHANGED <<vars, conv, scopes, turn, lapsed, dbConv, restarts>>
      BY <1>4, ReserveLeaves DEF JobIsSound, Reserve
    <2>2. dbRows' \in [Proposals -> Rows \cup {None}]
      BY <2>1, RowType
    <2>3. ops' \in [OpIds -> Operation \cup {None}]
      <3>1. /\ \A r \in OpIds : ops'[r] = dbOps'[r] \/ ops'[r] = ops[r]
            /\ ops' = [ops EXCEPT ![conv[p].op] =
                         [proposal |-> p, status |-> "accepted"]]
        BY <1>4, ReserveLeaves DEF Reserve
      <3> QED BY <2>1, <3>1
    <2>4. job' \in [step: Steps, proposal: Proposals \cup {None},
                    caught: BOOLEAN]
      BY <2>1 DEF Steps
    <2> QED BY <2>1, <2>2, <2>3, <2>4 DEF vars
  <1>5. CASE Quiet
    <2>1. /\ dbConv' = dbConv \/ dbConv' = conv
          /\ turn' = turn \/ turn' = None \/ turn' = Scope
          /\ \/ job' = job \/ job' = Idle
             \/ job' = [Idle EXCEPT !.step = "answer"]
             \/ job' = [Idle EXCEPT !.step = "conversation"]
          /\ lapsed' \subseteq Proposals
          /\ failures' = failures \/ \E ok \in BOOLEAN : Attempt(ok)
          /\ UNCHANGED <<vars, conv, scopes, ops, dbRows, dbOps, restarts>>
      BY <1>5
      DEF Quiet, SaveConversation, TurnAnswers, SaveAnswer, StartTurn,
          TurnFails, TimePasses, memory, database
    <2>2. /\ turn' \in Scopes \cup {None}
          /\ job' \in [step: Steps, proposal: Proposals \cup {None},
                       caught: BOOLEAN]
      <3>1. turn' \in Scopes \cup {None}
        BY <2>1, ScopeType
      <3>2. job' \in Jobs
        <4>1. "answer" \in Steps /\ "conversation" \in Steps
          BY DEF Steps
        <4> QED BY <2>1, <4>1, JobTypes DEF Jobs
      <3> QED BY <3>1, <3>2 DEF Jobs
    <2> QED BY <2>1, <2>2, AttemptType DEF vars
  <1>6. ASSUME NEW p \in Proposals, Closed(p)
        PROVE  IsTyped'
    <2>1. /\ job' \in [step: Steps, proposal: Proposals \cup {None},
                       caught: BOOLEAN]
          /\ version' \in Nat
          /\ UNCHANGED <<target, status, submittedAt, scopes, ops, turn,
                         lapsed, database, failures, restarts>>
      BY <1>6 DEF Closed, Steps, vars
    <2>2. /\ conv' \in [Proposals -> Entry \cup {None}]
          /\ \A q \in Proposals : conv[q] # None => conv'[q] # None
      BY <1>6, ApprovalsAssumption DEF ApprovalsAssumption, Closed, Restatus
    <2> QED BY <2>1, <2>2 DEF database
  <1>7. ASSUME NEW p \in Proposals, ApprovalFails(p)
        PROVE  IsTyped'
    <2>1. Caught(p)
      BY <1>7, CatchLeaves DEF ApprovalFails, Pending
    <2>2. /\ conv' \in [Proposals -> Entry \cup {None}]
          /\ ops' \in [OpIds -> Operation \cup {None}]
          /\ job' \in [step: Steps, proposal: Proposals \cup {None},
                       caught: BOOLEAN]
          /\ \A q \in Proposals : conv[q] # None => conv'[q] # None
      BY <2>1, ApprovalsAssumption
      DEF ApprovalsAssumption, Caught, Restatus
    <2> QED BY <1>7, <2>2 DEF ApprovalFails, vars, database
  <1>8. ASSUME NEW p \in Proposals, NEW o \in OpIds, Approve(p, o)
        PROVE  IsTyped'
    <2>1. /\ conv' \in [Proposals -> Entry \cup {None}]
          /\ job' \in [step: Steps, proposal: Proposals \cup {None},
                       caught: BOOLEAN]
          /\ \A q \in Proposals : conv[q] # None => conv'[q] # None
          /\ UNCHANGED <<vars, scopes, ops, turn, lapsed, database, failures,
                         restarts>>
      <3>1. /\ conv' \in [Proposals -> Entry \cup {None}] /\ conv'[p] \in Entry
            /\ \A q \in Proposals \ {p} : conv'[q] = conv[q]
            /\ job' = [step |-> "reserve", proposal |-> p, caught |-> TRUE]
            /\ UNCHANGED <<vars, scopes, ops, turn, lapsed, database, failures,
                           restarts>>
        BY <1>8, ApproveLeaves
      <3>2. job' \in Jobs
        BY <3>1, JobTypes DEF Steps
      <3> QED
        BY <3>1, <3>2, ApprovalsAssumption DEF ApprovalsAssumption, Jobs
    <2> QED BY <2>1 DEF vars, database
  <1>9. ASSUME NEW o \in OpIds, NEW ok \in BOOLEAN, Poll(o, ok)
        PROVE  IsTyped'
    BY <1>9, PollLeaves DEF vars
  <1>10. CASE SubmitOperation
    <2>1. /\ status' \in [OpIds -> Status]
          /\ submittedAt' \in [OpIds -> Nat \cup {None}]
      BY <1>10, SubmitLeaves DEF Status
    <2>2. job' \in [step: Steps, proposal: Proposals \cup {None},
                    caught: BOOLEAN]
      BY <1>10, SubmitLeaves DEF Steps
    <2>3. /\ ops' \in [OpIds -> Operation \cup {None}]
          /\ UNCHANGED <<version, target, conv, scopes, turn, lapsed,
                         database, failures, restarts>>
      BY <1>10, SubmitLeaves
    <2> QED BY <2>1, <2>2, <2>3 DEF database
  <1>11. CASE TerminalChanges
    <2>1. /\ UNCHANGED <<memory, database, lapsed, failures, restarts>>
          /\ \/ /\ version' = version + 1 /\ target' \in Targets
                /\ status' \in [OpIds -> Status] /\ UNCHANGED submittedAt
             \/ UNCHANGED <<version, target, status, submittedAt>>
      BY <1>11 DEF TerminalChanges, Change, End
    <2>2. TerminalType'
      BY <2>1
    <2> QED BY <2>1, <2>2 DEF memory, database
  <1> QED
    BY <1>1, <1>2, <1>3, <1>4, <1>5, <1>6, <1>7, <1>8, <1>9, <1>10, <1>11,
       Kinds, ProposeTyped, RecheckTyped, CrashLeaves

-----------------------------------------------------------------------------
(* The call that runs.                                                     *)

LEMMA OwnedOperation ==
    ASSUME OpsAreOwned, NEW p \in Proposals, NEW o \in OpIds,
           conv[p] # None, conv[p].op = o, ops[o] # None
    PROVE  ops[o].proposal = p
  BY DEF OpsAreOwned, Entries

LEMMA CaughtIsSound ==
    ASSUME IsTyped, OpsAreOwned, NEW p \in Proposals, scopes[p] # None,
           Caught(p), scopes' = scopes
    PROVE  JobIsSound'
  <1>1. /\ job'.step \in {"row", "conversation", "operation"}
        /\ job'.proposal = p /\ ~job'.caught
        /\ scopes'[p] # None /\ p # None
    BY ApprovalsAssumption DEF Caught, ApprovalsAssumption
  <1>2. ASSUME job'.step = "operation"
        PROVE  /\ conv'[p].op # None
               /\ ops'[conv'[p].op] # None
               /\ ops'[conv'[p].op].proposal = p
    <2> DEFINE o == conv[p].op
    <2>1. /\ o \in OpIds /\ ops[o] # None /\ conv'[p].op = o
          /\ \/ ops'[o] = ops[o]
             \/ ops'[o] # None /\ ops'[o].proposal = ops[o].proposal
      BY <1>2 DEF Caught, Restatus
    <2>2. conv[p] # None /\ o # None
      BY <2>1, ApprovalsAssumption DEF ApprovalsAssumption, Caught, Restatus
    <2>3. ops[o].proposal = p
      BY <2>1, <2>2, OwnedOperation
    <2> QED BY <2>1, <2>2, <2>3
  <1> QED BY <1>1, <1>2 DEF JobIsSound

LEMMA JobKept ==
    ASSUME IsTyped, JobIsSound, OpsAreOwned, ServiceNext
    PROVE  JobIsSound'
  <1>0. job \in Jobs
    BY DEF IsTyped, ServiceTypeOK, Jobs
  <1>1. ASSUME job' = Idle
        PROVE  JobIsSound'
    BY <1>1, JobTypes DEF JobIsSound
  <1>2. CASE FailedWrite
    <2>1. CASE job' = Idle
      BY <2>1, <1>1
    <2>2. CASE job.caught /\ Caught(job.proposal)
      <3>1. scopes' = scopes
        BY <1>2 DEF FailedWrite
      <3> QED BY <2>2, <3>1, JobProposal, CaughtIsSound DEF JobIsSound, IsTyped, Caught
    <2> QED BY <1>2, <2>1, <2>2, FailLeaves DEF FailedWrite, IsTyped
  <1>3. CASE SaveRow(TRUE) \/ SaveOperation(TRUE)
    <2>1. /\ job' = [job EXCEPT !.step = "conversation"]
          /\ job.step \in {"row", "operation"}
          /\ UNCHANGED <<scopes, turn>>
      BY <1>3 DEF SaveRow, SaveOperation, Continue
    <2>2. /\ job'.step = "conversation" /\ job'.proposal = job.proposal
          /\ job'.caught = job.caught
      BY <1>0, <2>1, JobTypes DEF Steps
    <2> QED BY <2>1, <2>2 DEF JobIsSound
  <1>4. CASE Reserve(TRUE)
    <2> DEFINE p == job.proposal
               o == conv[p].op
    <2>1. /\ p \in Proposals /\ o \in OpIds /\ conv[p].status = "accepted"
          /\ ops'[o] # None /\ ops'[o].proposal = p
          /\ job' = [job EXCEPT !.step = "submit"]
          /\ UNCHANGED <<conv, scopes>>
      BY <1>4, ReserveLeaves
    <2>2. job'.step = "submit" /\ job'.proposal = p
      BY <1>0, <2>1, JobTypes DEF Steps
    <2>3. p # None /\ o # None /\ scopes'[p] # None
      BY <1>4, <2>1, ApprovalsAssumption
      DEF ApprovalsAssumption, JobIsSound, Reserve
    <2> QED BY <2>1, <2>2, <2>3 DEF JobIsSound
  <1>5. CASE Quiet
    <2>1. CASE SaveConversation(TRUE)
      BY <1>1, <2>1 DEF SaveConversation
    <2>2. CASE TurnAnswers
      <3>1. job' = [Idle EXCEPT !.step = "answer"] /\ turn' = turn /\ turn # None
        BY <2>2 DEF TurnAnswers
      <3>2. job'.step = "answer" /\ job'.proposal = None /\ ~job'.caught
        BY <3>1, JobTypes DEF Steps
      <3> QED BY <3>1, <3>2 DEF JobIsSound
    <2>3. CASE SaveAnswer
      <3>1. job' = [Idle EXCEPT !.step = "conversation"]
        BY <2>3 DEF SaveAnswer
      <3>2. job'.step = "conversation" /\ job'.proposal = None /\ ~job'.caught
        BY <3>1, JobTypes DEF Steps
      <3> QED BY <3>2 DEF JobIsSound
    <2>4. CASE \/ \E ok \in BOOLEAN : StartTurn(ok) \/ TurnFails(ok)
               \/ \E p \in Proposals : TimePasses(p)
      BY <1>1, <2>4 DEF StartTurn, TurnFails, TimePasses, memory
    <2> QED BY <1>5, <2>1, <2>2, <2>3, <2>4 DEF Quiet
  <1>6. ASSUME NEW p \in Proposals, NEW ok \in BOOLEAN, Propose(p, ok)
        PROVE  JobIsSound'
    <2>1. CASE job' = Idle
      BY <2>1, <1>1
    <2>2. CASE job' = job /\ turn' = turn
      <3>2. ASSUME job.proposal # None
            PROVE  scopes'[job.proposal] # None
        <4>1. /\ scopes[job.proposal] # None /\ job.proposal \in Proposals
              /\ scopes' = [scopes EXCEPT ![p] = turn] /\ turn # None
          BY <1>6, <3>2 DEF Propose, JobIsSound, IsTyped, ServiceTypeOK
        <4> QED BY <4>1 DEF IsTyped, ServiceTypeOK
      <3> QED BY <1>6, <2>2, <3>2 DEF Propose, JobIsSound
    <2> QED BY <1>6, <2>1, <2>2 DEF Propose
  <1>7. ASSUME NEW p \in Proposals, Closed(p)
        PROVE  JobIsSound'
    <2>1. scopes'[p] # None /\ p # None
      BY <1>7, ApprovalsAssumption DEF Closed, Pending, ApprovalsAssumption
    <2>2. CASE job' = job
      BY <1>1, <1>7, <2>2 DEF Closed, Pending
    <2>3. CASE job'.step = "row" /\ job'.proposal = p
      BY <2>1, <2>3 DEF JobIsSound
    <2> QED BY <1>7, <2>2, <2>3 DEF Closed
  <1>8. ASSUME NEW p \in Proposals, ApprovalFails(p)
        PROVE  JobIsSound'
    <2>1. /\ scopes[p] # None /\ scopes' = scopes /\ conv[p] \in Entry
          /\ Catch(ops, p)
      BY <1>8 DEF ApprovalFails, Pending, IsTyped, ServiceTypeOK
    <2> QED BY <2>1, CatchLeaves, CaughtIsSound DEF IsTyped
  <1>9. ASSUME NEW p \in Proposals, NEW o \in OpIds, Approve(p, o)
        PROVE  JobIsSound'
    <2>1. /\ Pending(p) /\ conv'[p].op = o /\ conv'[p].status = "accepted"
          /\ status' = status /\ status[o] = "absent" /\ scopes' = scopes
          /\ job'.step = "reserve" /\ job'.proposal = p
      BY <1>9, ApproveLeaves DEF vars
    <2>2. scopes[p] # None /\ p # None /\ o # None
      BY <2>1, ApprovalsAssumption DEF Pending, ApprovalsAssumption
    <2> QED BY <2>1, <2>2 DEF JobIsSound
  <1>10. CASE SubmitOperation
    <2> DEFINE p == job.proposal
               o == conv[p].op
    <2>1. /\ p \in Proposals /\ o \in OpIds
          /\ ops'[o] # None /\ ops'[o].proposal = p
          /\ job' = [job EXCEPT !.step = "operation"]
          /\ UNCHANGED <<conv, scopes>>
      BY <1>10, SubmitLeaves
    <2>2. job'.step = "operation" /\ job'.proposal = p
      BY <1>0, <2>1, JobTypes DEF Steps
    <2>3. p # None /\ o # None /\ scopes'[p] # None
      BY <1>10, <2>1, ApprovalsAssumption
      DEF ApprovalsAssumption, JobIsSound, SubmitOperation
    <2> QED BY <2>1, <2>2, <2>3 DEF JobIsSound
  <1>11. ASSUME NEW p \in Proposals, NEW q \in Proposals, Recheck(p, q)
         PROVE  JobIsSound'
    BY <1>1, <1>11 DEF Recheck
  <1>12. CASE TerminalChanges
    BY <1>1, <1>12 DEF TerminalChanges, memory
  <1>13. ASSUME NEW o \in OpIds, NEW ok \in BOOLEAN, Poll(o, ok)
         PROVE  JobIsSound'
    BY <1>1, <1>13, PollLeaves
  <1>14. CASE CrashAndRestart
    BY <1>1, <1>14 DEF CrashAndRestart
  <1> QED
    BY <1>2, <1>3, <1>4, <1>5, <1>6, <1>7, <1>8, <1>9, <1>10, <1>11, <1>12,
       <1>13, <1>14, Kinds DEF IsTyped

-----------------------------------------------------------------------------
(* What a step does to the rows, to the operations and to the entries.     *)

\* Nothing but its row, which may be saved again.
Kept(p) ==
    /\ conv'[p] = conv[p] /\ scopes'[p] = scopes[p]
    /\ \/ dbRows'[p] = dbRows[p]
       \/ scopes[p] # None /\ dbRows'[p] = Row(p)

\* An entry that is not accepted changes; its scope does not.
Changed(p) ==
    /\ scopes'[p] = scopes[p] /\ scopes[p] # None
    /\ conv[p].op = None \/ conv[p].status # "accepted"
    /\ \/ dbRows'[p] = dbRows[p]
       \/ dbRows'[p] # None /\ dbRows'[p].scope = scopes[p]

\* A proposal that had no row gets its scope.
Added(p) ==
    /\ dbRows[p] = None
    /\ dbRows'[p] # None => dbRows'[p].scope = scopes'[p]

LEMMA RowsChange ==
    ASSUME IsTyped, JobIsSound, ServiceNext, ~CrashAndRestart
    PROVE  \A p \in Proposals : Kept(p) \/ Changed(p) \/ Added(p)
  <1>1. CASE FailedWrite
    <2>1. UNCHANGED <<scopes, dbRows>>
      BY <1>1 DEF FailedWrite, database
    <2>2. CASE UNCHANGED conv
      BY <2>1, <2>2 DEF Kept
    <2>3. CASE job.caught /\ Caught(job.proposal)
      <3> DEFINE j == job.proposal
      <3>1. j \in Proposals /\ scopes[j] # None
        BY <2>3 DEF JobIsSound, Caught
      <3>2. \A p \in Proposals \ {j} : Kept(p)
        BY <2>1, <2>3 DEF Kept, Caught, Restatus
      <3>3. Kept(j) \/ Changed(j)
        BY <2>1, <2>3, <3>1 DEF Kept, Changed, Caught
      <3> QED BY <3>2, <3>3
    <2> QED BY <1>1, <2>2, <2>3, FailLeaves DEF FailedWrite, IsTyped
  <1>2. CASE SaveRow(TRUE) \/ Reserve(TRUE)
    <2> DEFINE j == job.proposal
    <2>1. /\ j \in Proposals /\ scopes[j] # None
          /\ dbRows' = [dbRows EXCEPT ![j] = Row(j)]
          /\ UNCHANGED <<conv, scopes>>
      BY <1>2, ReserveLeaves, JobProposal
      DEF IsTyped, SaveRow, Reserve, Reserved, Continue, JobIsSound
    <2>2. /\ dbRows'[j] = Row(j)
          /\ \A p \in Proposals \ {j} : dbRows'[p] = dbRows[p]
      BY <2>1 DEF IsTyped, ServiceTypeOK
    <2> QED BY <2>1, <2>2 DEF Kept
  <1>3. CASE \/ SaveOperation(TRUE) \/ Quiet \/ SubmitOperation
             \/ TerminalChanges
    <2>1. UNCHANGED <<conv, scopes, dbRows>>
      BY <1>3
      DEF SaveOperation, Quiet, SaveConversation, TurnAnswers, SaveAnswer,
          StartTurn, TurnFails, TimePasses, SubmitOperation, TerminalChanges,
          Continue, memory, database
    <2> QED BY <2>1 DEF Kept
  <1>4. ASSUME NEW o \in OpIds, NEW ok \in BOOLEAN, Poll(o, ok)
        PROVE  \A p \in Proposals : Kept(p)
    BY <1>4 DEF Poll, Kept
  <1>5. ASSUME NEW q \in Proposals, NEW ok \in BOOLEAN, Propose(q, ok)
        PROVE  \A p \in Proposals : Kept(p) \/ Added(p)
    <2>1. /\ dbRows[q] = None
          /\ conv' = [conv EXCEPT ![q] = [status |-> "pending", op |-> None,
                                          origin |-> q, replacement |-> None]]
          /\ scopes' = [scopes EXCEPT ![q] = turn]
          /\ \/ dbRows' = dbRows
             \/ dbRows' = [dbRows EXCEPT ![q] = [entry |-> conv'[q],
                                                 scope |-> turn]]
      BY <1>5 DEF Propose, FreshProposal
    <2>2. \A p \in Proposals \ {q} : Kept(p)
      BY <2>1 DEF Kept, IsTyped, ServiceTypeOK
    <2>3. Added(q)
      BY <2>1 DEF Added, IsTyped, ServiceTypeOK
    <2> QED BY <2>2, <2>3
  <1>6. ASSUME NEW q \in Proposals, Closed(q)
        PROVE  \A p \in Proposals : Kept(p) \/ Changed(p)
    <2>1. /\ UNCHANGED <<scopes, dbRows>> /\ scopes[q] # None
          /\ conv[q].status # "accepted"
          /\ \A p \in Proposals \ {q} : conv'[p] = conv[p]
      BY <1>6 DEF Closed, Pending, Restatus, database
    <2> QED BY <2>1 DEF Kept, Changed
  <1>7. ASSUME NEW q \in Proposals, ApprovalFails(q)
        PROVE  \A p \in Proposals : Kept(p) \/ Changed(p)
    <2>1. /\ UNCHANGED <<scopes, dbRows>> /\ scopes[q] # None
          /\ conv[q].status # "accepted"
      BY <1>7 DEF ApprovalFails, Pending, database
    <2>2. \A p \in Proposals \ {q} : conv'[p] = conv[p]
      BY <1>7, <2>1, CatchLeaves
      DEF ApprovalFails, Caught, Restatus, IsTyped, ServiceTypeOK
    <2> QED BY <2>1, <2>2 DEF Kept, Changed
  <1>8. ASSUME NEW q \in Proposals, NEW o \in OpIds, Approve(q, o)
        PROVE  \A p \in Proposals : Kept(p) \/ Changed(p)
    <2>1. /\ UNCHANGED <<scopes, dbRows>> /\ scopes[q] # None
          /\ conv[q].status # "accepted"
          /\ \A p \in Proposals \ {q} : conv'[p] = conv[p]
      BY <1>8, ApproveLeaves DEF Pending, database
    <2> QED BY <2>1 DEF Kept, Changed
  <1>9. ASSUME NEW r \in Proposals, NEW q \in Proposals, Recheck(r, q)
        PROVE  \A p \in Proposals : Kept(p) \/ Changed(p) \/ Added(p)
    <2>1. /\ scopes[r] # None /\ conv[r].op = None /\ dbRows[q] = None
      BY <1>9 DEF Recheck, Recheckable, FreshProposal
    <2>2. /\ r # q
          /\ dbRows'[r] # None /\ dbRows'[r].scope = scopes[r]
          /\ dbRows'[q].scope = scopes'[q]
          /\ \A p \in Proposals \ {r, q} : dbRows'[p] = dbRows[p]
          /\ \A p \in Proposals \ {q} : scopes'[p] = scopes[p]
      BY <1>9, RecheckEntries, RecheckRows
    <2>6. \A p \in Proposals \ {r, q} : conv'[p] = conv[p]
      BY <1>9, RecheckEntries
    <2>3. Changed(r)
      BY <2>1, <2>2 DEF Changed
    <2>4. Added(q)
      BY <2>1, <2>2 DEF Added
    <2>5. \A p \in Proposals \ {r, q} : Kept(p)
      BY <2>2, <2>6 DEF Kept
    <2> QED BY <2>3, <2>4, <2>5
  <1> QED
    BY <1>1, <1>2, <1>3, <1>4, <1>5, <1>6, <1>7, <1>8, <1>9, Kinds
    DEF IsTyped

\* The record r of operation o was made by this step, from a record s.
MadeFrom(r, s, o) ==
    /\ s # None /\ r.proposal = s.proposal
    /\ r.status \in {s.status, "accepted", "unknown", status'[o]}

\* The record was made by the reservation.
MadeNow(r, o) ==
    /\ Reserve(TRUE) /\ o = conv[job.proposal].op
    /\ r.proposal = job.proposal /\ r.status = "accepted"

LEMMA RecordsChange ==
    ASSUME IsTyped, JobIsSound, ServiceNext, NEW o \in OpIds
    PROVE  /\ dbOps[o] # None => dbOps'[o] # None
           /\ \A r \in {ops'[o], dbOps'[o]} :
                r # None => \/ \E s \in {ops[o], dbOps[o]} : MadeFrom(r, s, o)
                            \/ MadeNow(r, o)
  <1> DEFINE Goal ==
        /\ dbOps[o] # None => dbOps'[o] # None
        /\ \A r \in {ops'[o], dbOps'[o]} :
             r # None => \/ \E s \in {ops[o], dbOps[o]} : MadeFrom(r, s, o)
                         \/ MadeNow(r, o)
  <1> SUFFICES Goal
    OBVIOUS
  <1>1. ASSUME ops'[o] = ops[o] \/ MadeFrom(ops'[o], ops[o], o),
               dbOps'[o] = dbOps[o]
        PROVE  Goal
    BY <1>1 DEF MadeFrom
  <1>2. ASSUME Caught(job.proposal) \/ \E p \in Proposals : Caught(p),
               dbOps' = dbOps
        PROVE  Goal
    BY <1>1, <1>2 DEF Caught, MadeFrom
  <1>3. CASE FailedWrite
    BY <1>1, <1>2, <1>3, FailLeaves DEF FailedWrite, IsTyped, database
  <1>4. CASE SaveRow(TRUE) \/ Quiet \/ TerminalChanges
    <2>1. UNCHANGED <<ops, dbOps>>
      BY <1>4
      DEF SaveRow, Quiet, SaveConversation, TurnAnswers, SaveAnswer,
          StartTurn, TurnFails, TimePasses, TerminalChanges,
          Continue, memory, database
    <2> QED BY <2>1, <1>1
  <1>5. CASE SaveOperation(TRUE)
    <2> DEFINE x == conv[job.proposal].op
    <2>1. /\ ops' = ops /\ dbOps' = [dbOps EXCEPT ![x] = ops[x]]
          /\ ops[x] # None
      BY <1>5 DEF SaveOperation, Continue, JobIsSound
    <2>2. CASE o = x
      <3>1. dbOps'[o] = ops[o]
        BY <2>1, <2>2 DEF IsTyped, ServiceTypeOK
      <3> QED BY <2>1, <2>2, <3>1 DEF MadeFrom
    <2>3. CASE o # x
      <3>1. dbOps'[o] = dbOps[o]
        BY <2>1, <2>3 DEF IsTyped, ServiceTypeOK
      <3> QED BY <2>1, <3>1, <1>1
    <2> QED BY <2>2, <2>3
  <1>6. CASE Reserve(TRUE)
    <2>1. CASE o = conv[job.proposal].op
      BY <1>6, <2>1, ReserveLeaves DEF MadeNow
    <2>2. CASE o # conv[job.proposal].op
      BY <1>1, <1>6, <2>2, ReserveLeaves
    <2> QED BY <2>1, <2>2
  <1>7. ASSUME NEW x \in OpIds, NEW ok \in BOOLEAN, Poll(x, ok)
        PROVE  Goal
    <2>1. CASE o = x
      <3>1. /\ ops'[o] # None /\ status'[o] = status[o]
            /\ MadeFrom(ops'[o], ops[o], o)
        BY <1>7, <2>1, PollLeaves DEF MadeFrom, vars
      <3>2. dbOps'[o] = dbOps[o] \/ dbOps'[o] = ops'[o]
        BY <1>7, <2>1, PollLeaves
      <3> QED BY <3>1, <3>2 DEF MadeFrom
    <2>2. CASE o # x
      BY <1>1, <1>7, <2>2, PollLeaves
    <2> QED BY <2>1, <2>2
  <1>8. CASE SubmitOperation
    <2>1. CASE o = conv[job.proposal].op
      <3>1. MadeFrom(ops'[o], ops[o], o) /\ dbOps' = dbOps
        BY <1>8, <2>1, SubmitLeaves DEF MadeFrom, database
      <3> QED BY <3>1, <1>1
    <2>2. CASE o # conv[job.proposal].op
      BY <1>1, <1>8, <2>2, SubmitLeaves DEF database
    <2> QED BY <2>1, <2>2
  <1>9. CASE CrashAndRestart
    <2>1. dbOps'[o] = Restored(dbOps[o]) /\ ops'[o] = dbOps'[o]
      BY <1>9, CrashLeaves
    <2>2. dbOps[o] \in Operation \cup {None}
      BY DEF IsTyped, ServiceTypeOK
    <2> QED BY <2>1, <2>2, RestoredType DEF MadeFrom
  <1>10. ASSUME NEW p \in Proposals, ApprovalFails(p)
         PROVE  Goal
    <2>1. Caught(p) /\ dbOps' = dbOps
      BY <1>10, CatchLeaves
      DEF ApprovalFails, Pending, database, IsTyped, ServiceTypeOK
    <2> QED BY <1>2, <2>1
  <1>11. ASSUME NEW p \in Proposals,
                \/ \E ok \in BOOLEAN : Propose(p, ok)
                \/ Closed(p)
                \/ \E x \in OpIds : Approve(p, x)
                \/ \E q \in Proposals : Recheck(p, q)
         PROVE  Goal
    <2>1. UNCHANGED <<ops, dbOps>>
      BY <1>11 DEF Propose, Closed, Approve, Recheck, database
    <2> QED BY <1>1, <2>1
  <1>12. ServiceTypeOK
    BY DEF IsTyped
  <1> HIDE DEF Goal
  <1> QED
    BY <1>3, <1>4, <1>5, <1>6, <1>7, <1>8, <1>9, <1>10, <1>11, <1>12, Kinds

\* Every entry of p comes from an earlier one, and p does not come back.
Stays(p) ==
    /\ \A e \in Entries(p)' :
         /\ \E f \in Entries(p) : e.origin = f.origin
         /\ e.op = None \/ \E f \in Entries(p) : e.op = f.op
    /\ Gone(p) => Gone(p)'

LEMMA EntriesCopied ==
    ASSUME NEW p \in Proposals,
           conv'[p] = conv[p] \/ conv'[p] = dbConv[p],
           dbConv'[p] = dbConv[p] \/ dbConv'[p] = conv[p],
           \/ dbRows'[p] = dbRows[p]
           \/ dbRows'[p] # None /\ conv[p] # None /\ dbRows'[p].entry = conv[p]
    PROVE  Stays(p)
  <1>1. \A e \in Entries(p)' : e \in Entries(p)
    BY DEF Entries, RowEntry
  <1> QED BY <1>1 DEF Stays, Gone

LEMMA EntryRestated ==
    ASSUME IsTyped, NEW q \in Proposals, Restatus(q),
           UNCHANGED <<dbConv, dbRows>>,
           Superseded(conv[q]) => Superseded(conv'[q])
    PROVE  \A p \in Proposals : Stays(p)
  <1>1. \A p \in Proposals \ {q} : Stays(p)
    BY EntriesCopied DEF Restatus
  <1>2. conv[q] # None /\ conv'[q] # None
    BY ApprovalsAssumption DEF Restatus, ApprovalsAssumption
  <1>3. /\ conv[q] \in Entries(q)
        /\ \A e \in Entries(q)' : e \in Entries(q) \/ e = conv'[q]
    BY <1>2 DEF Entries, RowEntry
  <1>4. Stays(q)
    BY <1>3 DEF Stays, Gone, Restatus
  <1> QED BY <1>1, <1>4

LEMMA CrashedEntries ==
    ASSUME IsTyped, CrashAndRestart
    PROVE  \A p \in Proposals : Stays(p)
  <1> SUFFICES ASSUME NEW p \in Proposals
               PROVE  Stays(p)
    OBVIOUS
  <1>1. UNCHANGED <<dbConv, dbRows>>
    BY CrashLeaves
  <1>2. CASE scopes'[p] = None /\ conv'[p] = dbConv[p]
    BY <1>1, <1>2, EntriesCopied
  <1>3. CASE /\ dbConv[p] \in Entry /\ dbRows[p] \in Rows /\ dbRows[p] # None
             /\ conv'[p] = Merged(dbConv[p], dbRows[p].entry)
    <2> DEFINE c == dbConv[p]
               r == dbRows[p].entry
    <2>1. /\ c \in Entry /\ r \in Entry /\ c # None /\ r # None
      BY <1>3, ApprovalsAssumption DEF ApprovalsAssumption, Rows
    <2>2. c \in Entries(p) /\ r \in Entries(p)
      BY <1>3, <2>1 DEF Entries, RowEntry
    <2>3. \A e \in Entries(p)' : e \in {c, r} \/ e = conv'[p]
      BY <1>1, <1>3 DEF Entries, RowEntry
    <2>4. /\ conv'[p].status = r.status /\ conv'[p].origin = r.origin
          /\ conv'[p].op = IF r.op = None THEN c.op ELSE r.op
          /\ conv'[p].replacement = IF r.replacement = None
                                    THEN c.replacement ELSE r.replacement
      BY <1>3, <2>1, MergedType
    <2>5. Superseded(c) /\ Superseded(r) => Superseded(conv'[p])
      BY <2>4 DEF Superseded
    <2> QED BY <2>2, <2>3, <2>4, <2>5 DEF Stays, Gone
  <1> QED BY <1>2, <1>3, CrashLeaves

LEMMA EntriesStay ==
    ASSUME IsTyped, JobIsSound, ServiceNext,
           \A p \in Proposals :
              /\ \A ok \in BOOLEAN : ~Propose(p, ok)
              /\ \A o \in OpIds : ~Approve(p, o)
              /\ \A q \in Proposals : ~Recheck(p, q)
    PROVE  \A p \in Proposals : Stays(p)
  <1>1. ASSUME UNCHANGED <<dbConv, dbRows>>,
               UNCHANGED conv \/ \E p \in Proposals : Caught(p)
        PROVE  \A p \in Proposals : Stays(p)
    <2>1. CASE UNCHANGED conv
      BY <1>1, <2>1, EntriesCopied
    <2>2. ASSUME NEW q \in Proposals, Caught(q)
          PROVE  \A p \in Proposals : Stays(p)
      <3>1. Superseded(conv[q]) => Superseded(conv'[q])
        BY <2>2 DEF Caught, Restatus, Superseded
      <3> QED BY <1>1, <2>2, <3>1, EntryRestated DEF Caught
    <2> QED BY <1>1, <2>1, <2>2
  <1>2. CASE FailedWrite
    BY <1>1, <1>2, FailLeaves DEF FailedWrite, IsTyped, database, Caught
  <1>3. CASE SaveRow(TRUE) \/ Reserve(TRUE)
    <2> DEFINE j == job.proposal
    <2>1. /\ j \in Proposals /\ scopes[j] # None
          /\ dbRows' = [dbRows EXCEPT ![j] = Row(j)]
          /\ UNCHANGED <<conv, dbConv>>
      BY <1>3, ReserveLeaves, JobProposal
      DEF IsTyped, SaveRow, Reserve, Reserved, Continue, JobIsSound
    <2>2. /\ dbRows'[j] = Row(j)
          /\ \A p \in Proposals \ {j} : dbRows'[p] = dbRows[p]
      BY <2>1 DEF IsTyped, ServiceTypeOK
    <2>3. Row(j) # None /\ Row(j).entry = conv[j] /\ conv[j] # None
      BY <2>1, RowType DEF IsTyped, ServiceTypeOK
    <2> QED BY <2>1, <2>2, <2>3, EntriesCopied
  <1>4. CASE \/ SaveOperation(TRUE) \/ Quiet \/ SubmitOperation
             \/ TerminalChanges
    <2>1. UNCHANGED <<conv, dbRows>> /\ (dbConv' = dbConv \/ dbConv' = conv)
      BY <1>4
      DEF SaveOperation, Quiet, SaveConversation, TurnAnswers, SaveAnswer,
          StartTurn, TurnFails, TimePasses, SubmitOperation, TerminalChanges,
          Continue, memory, database
    <2> QED BY <2>1, EntriesCopied
  <1>5. ASSUME NEW o \in OpIds, NEW ok \in BOOLEAN, Poll(o, ok)
        PROVE  \A p \in Proposals : Stays(p)
    BY <1>1, <1>5, PollLeaves
  <1>6. ASSUME NEW q \in Proposals, Closed(q)
        PROVE  \A p \in Proposals : Stays(p)
    <2>1. ~Superseded(conv[q]) /\ Restatus(q) /\ UNCHANGED <<dbConv, dbRows>>
      BY <1>6 DEF Closed, Pending, Superseded, database
    <2> QED BY <2>1, EntryRestated
  <1>7. ASSUME NEW q \in Proposals, ApprovalFails(q)
        PROVE  \A p \in Proposals : Stays(p)
    <2>1. Caught(q) /\ UNCHANGED <<dbConv, dbRows>>
      BY <1>7, CatchLeaves
      DEF ApprovalFails, Pending, database, IsTyped, ServiceTypeOK
    <2> QED BY <1>1, <2>1
  <1>8. ServiceTypeOK
    BY DEF IsTyped
  <1> QED
    BY <1>2, <1>3, <1>4, <1>5, <1>6, <1>7, <1>8, CrashedEntries, Kinds

LEMMA ApprovedEntries ==
    ASSUME IsTyped, NEW q \in Proposals, NEW o \in OpIds, Approve(q, o)
    PROVE  /\ \A p \in Proposals \ {q} : Stays(p)
           /\ conv[q] \in Entries(q) /\ ~Superseded(conv[q])
           /\ \A e \in Entries(q)' :
                \/ e \in Entries(q)
                \/ e = conv'[q] /\ e.origin = conv[q].origin /\ e.op = o
           /\ \A p \in Proposals : \A e \in Entries(p) : e.op # o
           /\ UNCHANGED <<dbConv, dbRows>>
  <1>1. /\ UNCHANGED <<dbConv, dbRows>>
        /\ conv[q] \in Entry /\ conv[q].status = "pending"
        /\ conv'[q].origin = conv[q].origin /\ conv'[q].op = o
        /\ \A p \in Proposals \ {q} : conv'[p] = conv[p]
    BY ApproveLeaves DEF Pending, database
  <1>2. \A p \in Proposals \ {q} : Stays(p)
    BY <1>1, EntriesCopied
  <1>3. conv[q] # None
    BY <1>1, ApprovalsAssumption DEF ApprovalsAssumption
  <1>4. /\ conv[q] \in Entries(q)
        /\ \A e \in Entries(q)' : e \in Entries(q) \/ e = conv'[q]
    BY <1>1, <1>3 DEF Entries, RowEntry
  <1>5. \A p \in Proposals : \A e \in Entries(p) : e.op # o
    BY DEF Approve, FreshOperation, Entries, RowEntry
  <1>6. ~Superseded(conv[q])
    BY <1>1 DEF Superseded
  <1> QED BY <1>1, <1>2, <1>4, <1>5, <1>6

LEMMA ProposedEntries ==
    ASSUME IsTyped, NEW q \in Proposals, NEW ok \in BOOLEAN, Propose(q, ok)
    PROVE  /\ \A p \in Proposals \ {q} : Stays(p)
           /\ Entries(q) = {}
           /\ \A e \in Entries(q)' : e.origin = q /\ e.op = None
           /\ \A p \in Proposals : dbRows[p] # None => dbRows'[p] # None
           /\ dbRows[q] = None
  <1> DEFINE n == [status |-> "pending", op |-> None, origin |-> q,
                   replacement |-> None]
  <1>1. /\ conv[q] = None /\ dbConv[q] = None /\ dbRows[q] = None
        /\ conv' = [conv EXCEPT ![q] = n]
        /\ \/ dbRows' = dbRows
           \/ dbRows' = [dbRows EXCEPT ![q] = [entry |-> conv'[q],
                                               scope |-> turn]]
        /\ dbConv' = dbConv
    BY DEF Propose, FreshProposal
  <1>2. /\ conv'[q] = n /\ RowEntry(q)' \in {None, n}
        /\ \A p \in Proposals \ {q} :
              conv'[p] = conv[p] /\ dbRows'[p] = dbRows[p]
    BY <1>1 DEF IsTyped, ServiceTypeOK, RowEntry
  <1>3. \A p \in Proposals \ {q} : Stays(p)
    BY <1>1, <1>2, EntriesCopied
  <1>4. Entries(q) = {} /\ \A e \in Entries(q)' : e = n
    BY <1>1, <1>2 DEF Entries, RowEntry
  <1>5. n.origin = q /\ n.op = None
    OBVIOUS
  <1> QED BY <1>1, <1>2, <1>3, <1>4, <1>5

LEMMA RecheckedEntries ==
    ASSUME IsTyped, NEW r \in Proposals, NEW q \in Proposals, Recheck(r, q)
    PROVE  /\ r # q /\ \A p \in Proposals \ {r, q} : Stays(p)
           /\ conv[r] \in Entries(r) /\ ~Superseded(conv[r])
           /\ Entries(q) = {}
           /\ \A e \in Entries(r)' :
                e.origin = conv[r].origin /\ e.op = conv[r].op
           /\ Gone(r)'
           /\ \A e \in Entries(q)' : e.origin = conv[r].origin /\ e.op = None
           /\ \A p \in Proposals : dbRows[p] # None => dbRows'[p] # None
           /\ dbRows'[r] # None
  <1>1. /\ conv[q] = None /\ dbConv[q] = None /\ dbRows[q] = None
        /\ conv[r].replacement = None /\ conv[r].op = None
        /\ conv[r].status \in {"stale", "expired"}
        /\ dbConv' = conv'
    BY DEF Recheck, Recheckable, FreshProposal
  <1>2. /\ r # q /\ conv[r] \in Entry /\ conv'[r] \in Entry /\ conv'[q] \in Entry
        /\ conv'[r].status = conv[r].status
        /\ conv'[r].op = conv[r].op
        /\ conv'[r].origin = conv[r].origin
        /\ conv'[r].replacement = q
        /\ conv'[q].op = None /\ conv'[q].origin = conv[r].origin
        /\ \A p \in Proposals \ {r, q} : conv'[p] = conv[p]
    BY RecheckEntries
  <1>10. /\ dbRows'[r] # None /\ dbRows'[r].entry = conv'[r]
         /\ dbRows'[q] # None /\ dbRows'[q].entry = conv'[q]
         /\ \A p \in Proposals \ {r, q} : dbRows'[p] = dbRows[p]
    BY RecheckRows
  <1>3. RowEntry(r)' = conv'[r] /\ RowEntry(q)' = conv'[q]
    BY <1>10 DEF RowEntry
  <1>4. /\ \A e \in Entries(r)' : e = conv'[r]
        /\ \A e \in Entries(q)' : e = conv'[q]
        /\ Entries(q) = {}
    BY <1>1, <1>3 DEF Entries, RowEntry
  <1>5. conv[r] \in Entries(r)
    BY <1>2, ApprovalsAssumption DEF ApprovalsAssumption, Entries
  <1>6. q # None
    BY ApprovalsAssumption DEF ApprovalsAssumption
  <1>7. ~Superseded(conv[r]) /\ Superseded(conv'[r])
    BY <1>1, <1>2, <1>6 DEF Superseded
  <1>8. Gone(r)'
    BY <1>4, <1>7 DEF Gone
  <1>9. \A p \in Proposals \ {r, q} : Stays(p)
    BY <1>1, <1>2, <1>10, EntriesCopied
  <1> QED BY <1>1, <1>2, <1>4, <1>5, <1>7, <1>8, <1>9, <1>10

-----------------------------------------------------------------------------
(* The invariant.                                                          *)

\* What a step does to the status of an operation.
LEMMA StatusChange ==
    ASSUME IsTyped, JobIsSound, ServiceNext, NEW o \in OpIds
    PROVE  /\ status[o] \in Settled => status'[o] = status[o]
           /\ \/ status'[o] = "absent" <=> status[o] = "absent"
              \/ /\ SubmitOperation /\ o = conv[job.proposal].op
                 /\ status[o] = "absent"
           /\ ~SubmitOperation => submittedAt' = submittedAt
  <1>1. CASE TerminalChanges
    <2>1. CASE Change
      <3>1. <<status[o], status'[o]>> \in Advance /\ submittedAt' = submittedAt
        BY <2>1 DEF Change
      <3> QED BY <3>1 DEF Advance, Settled, Status, IsTyped, TerminalType
    <2>2. CASE End
      BY <2>2 DEF End
    <2> QED BY <1>1, <2>1, <2>2 DEF TerminalChanges
  <1>2. CASE SubmitOperation
    <2>1. CASE o = conv[job.proposal].op
      BY <1>2, <2>1, SubmitLeaves DEF Settled
    <2>2. CASE o # conv[job.proposal].op
      <3>1. status'[o] = status[o]
        BY <1>2, <2>2, SubmitLeaves DEF IsTyped, TerminalType
      <3> QED BY <1>2, <3>1
    <2> QED BY <2>1, <2>2
  <1>3. ASSUME UNCHANGED <<status, submittedAt>>
        PROVE  /\ status[o] \in Settled => status'[o] = status[o]
               /\ status'[o] = "absent" <=> status[o] = "absent"
               /\ submittedAt' = submittedAt
    BY <1>3
  <1>4. ASSUME ~TerminalChanges, ~SubmitOperation
        PROVE  UNCHANGED <<status, submittedAt>>
    <2>1. ASSUME NEW p \in Proposals,
                 \/ \E ok \in BOOLEAN : Propose(p, ok)
                 \/ Closed(p)
                 \/ ApprovalFails(p)
                 \/ \E x \in OpIds : Approve(p, x)
                 \/ \E q \in Proposals : Recheck(p, q)
          PROVE  UNCHANGED <<status, submittedAt>>
      BY <2>1 DEF Propose, Closed, ApprovalFails, Approve, Recheck, vars
    <2>2. ASSUME NEW x \in OpIds, NEW ok \in BOOLEAN, Poll(x, ok)
          PROVE  UNCHANGED <<status, submittedAt>>
      BY <2>2 DEF Poll, vars
    <2>3. ASSUME FailedWrite \/ SaveRow(TRUE) \/ SaveOperation(TRUE)
                   \/ Reserve(TRUE) \/ Quiet \/ CrashAndRestart
          PROVE  UNCHANGED <<status, submittedAt>>
      BY <2>3
      DEF FailedWrite, SaveRow, SaveOperation, Reserve, Quiet,
          SaveConversation, TurnAnswers, SaveAnswer, StartTurn, TurnFails,
          TimePasses, CrashAndRestart, vars
    <2>4. ServiceTypeOK
      BY DEF IsTyped
    <2> QED BY <1>4, <2>1, <2>2, <2>3, <2>4, Kinds
  <1> QED BY <1>1, <1>2, <1>3, <1>4

LEMMA AcceptedStays ==
    ASSUME IsTyped, JobIsSound, ServiceNext, NEW p \in Proposals,
           NEW o \in OpIds, AcceptedFor(p, o)
    PROVE  AcceptedFor(p, o)'
  <1>1. o # None
    BY ApprovalsAssumption DEF ApprovalsAssumption
  <1>2. CASE CrashAndRestart
    <2>1. CASE scopes'[p] = None
      BY <1>2, <2>1, CrashLeaves DEF AcceptedFor
    <2>2. CASE scopes'[p] # None
      <3>1. /\ dbConv[p] \in Entry /\ dbRows[p].entry \in Entry
            /\ conv'[p] = Merged(dbConv[p], dbRows[p].entry)
            /\ dbRows' = dbRows
        BY <1>2, <2>2, CrashLeaves DEF Rows
      <3> QED BY <1>1, <3>1, MergedType DEF AcceptedFor
    <2> QED BY <2>1, <2>2
  <1>3. CASE ~CrashAndRestart
    <2>1. ~Changed(p) /\ ~Added(p)
      BY <1>1 DEF AcceptedFor, Changed, Added
    <2>2. Kept(p)
      BY <1>3, <2>1, RowsChange
    <2>3. scopes[p] # None => Row(p) # None /\ Row(p).entry = conv[p]
      BY RowType DEF IsTyped
    <2> QED BY <2>2, <2>3 DEF Kept, AcceptedFor
  <1> QED BY <1>2, <1>3

\* The reservation saves the proposal as accepted for its operation.
LEMMA ReservedIsAccepted ==
    ASSUME IsTyped, JobIsSound, Reserve(TRUE),
           NEW p \in Proposals, p = job.proposal,
           NEW o \in OpIds, o = conv[p].op
    PROVE  AcceptedFor(p, o)'
  <1>1. /\ scopes[p] # None
        /\ conv[p].status = "accepted"
        /\ dbRows' = [dbRows EXCEPT ![p] = Row(p)]
        /\ UNCHANGED <<conv, scopes>>
    BY ReserveLeaves DEF JobIsSound, Reserve
  <1>2. dbRows'[p] = Row(p) /\ Row(p) # None /\ Row(p).entry = conv[p]
    BY <1>1, RowType DEF IsTyped, ServiceTypeOK
  <1> QED BY <1>1, <1>2 DEF AcceptedFor

LEMMA RecordsKept ==
    ASSUME IsTyped, JobIsSound, RecordsAreAccepted, ServiceNext
    PROVE  RecordsAreAccepted'
  <1>1. ASSUME NEW o \in OpIds, status'[o] # "absent"
        PROVE  dbOps'[o] # None
    <2>1. CASE status[o] # "absent"
      BY <2>1, RecordsChange DEF RecordsAreAccepted
    <2>2. CASE status[o] = "absent"
      <3>1. SubmitOperation /\ o = conv[job.proposal].op
        BY <1>1, <2>2, StatusChange
      <3>2. ops[o] # None
        BY <3>1, SubmitLeaves
      <3> QED BY <3>2, RecordsChange DEF RecordsAreAccepted
    <2> QED BY <2>1, <2>2
  <1>2. ASSUME NEW o \in OpIds, NEW r \in {ops'[o], dbOps'[o]}, r # None
        PROVE  \/ MadeNow(r, o)
               \/ /\ dbOps[o] # None /\ dbOps'[o] # None
                  /\ r.proposal = dbOps[o].proposal
    <2>1. CASE MadeNow(r, o)
      BY <2>1
    <2>2. ASSUME NEW s \in {ops[o], dbOps[o]}, MadeFrom(r, s, o)
          PROVE  /\ dbOps[o] # None /\ dbOps'[o] # None
                 /\ r.proposal = dbOps[o].proposal
      <3>1. s # None /\ r.proposal = s.proposal
        BY <2>2 DEF MadeFrom
      <3>2. dbOps[o] # None /\ dbOps[o].proposal = s.proposal
        BY <3>1 DEF RecordsAreAccepted
      <3> QED BY <3>1, <3>2, RecordsChange
    <2> QED BY <1>2, <2>1, <2>2, RecordsChange
  <1>3. ASSUME NEW o \in OpIds, NEW r \in {ops'[o], dbOps'[o]}, MadeNow(r, o)
        PROVE  \E p \in Proposals :
                 /\ dbOps'[o] # None
                 /\ dbOps'[o].proposal = p /\ ops'[o].proposal = p
                 /\ AcceptedFor(p, o)'
    <2>1. Reserve(TRUE) /\ o = conv[job.proposal].op
      BY <1>3 DEF MadeNow
    <2>2. PICK p \in Proposals : p = job.proposal
      BY <2>1, ReserveLeaves
    <2>3. /\ dbOps'[o] # None
          /\ dbOps'[o].proposal = p /\ ops'[o].proposal = p
      BY <2>1, <2>2, ReserveLeaves
    <2>4. AcceptedFor(p, o)'
      BY <2>1, <2>2, ReservedIsAccepted
    <2> QED BY <2>3, <2>4
  <1>4. ASSUME NEW o \in OpIds, ops'[o] # None
        PROVE  dbOps'[o] # None /\ dbOps'[o].proposal = ops'[o].proposal
    <2>1. CASE MadeNow(ops'[o], o) \/ MadeNow(dbOps'[o], o)
      BY <2>1, <1>3
    <2>2. CASE ~MadeNow(ops'[o], o) /\ ~MadeNow(dbOps'[o], o)
      <3>1. dbOps'[o] # None /\ ops'[o].proposal = dbOps[o].proposal
        BY <1>2, <1>4, <2>2
      <3> QED BY <1>2, <2>2, <3>1
    <2> QED BY <2>1, <2>2
  <1>5. ASSUME NEW o \in OpIds, dbOps'[o] # None
        PROVE  \E p \in Proposals : p = dbOps'[o].proposal /\ AcceptedFor(p, o)'
    <2>1. CASE MadeNow(dbOps'[o], o)
      BY <2>1, <1>3
    <2>2. CASE ~MadeNow(dbOps'[o], o)
      <3>1. dbOps[o] # None /\ dbOps'[o].proposal = dbOps[o].proposal
        BY <1>2, <1>5, <2>2
      <3>2. PICK p \in Proposals : p = dbOps[o].proposal
        BY <3>1 DEF IsTyped, ServiceTypeOK, Operation
      <3>3. AcceptedFor(p, o)
        BY <3>1, <3>2 DEF RecordsAreAccepted
      <3> QED BY <3>1, <3>2, <3>3, AcceptedStays
    <2> QED BY <2>1, <2>2
  <1>6. \A o \in OpIds : dbOps'[o] # None => AcceptedFor(dbOps[o].proposal, o)'
    BY <1>5 DEF AcceptedFor
  <1> QED BY <1>1, <1>4, <1>6 DEF RecordsAreAccepted

LEMMA OutcomesKept ==
    ASSUME IsTyped, JobIsSound, RecordedOutcomeIsTrue, ServiceNext
    PROVE  RecordedOutcomeIsTrue'
  <1> SUFFICES ASSUME NEW o \in OpIds, NEW r \in {ops'[o], dbOps'[o]}, r # None,
                      r.status \in Settled \ {"unknown"}
               PROVE  r.status = status'[o]
    BY DEF RecordedOutcomeIsTrue
  <1>1. r.status \notin {"accepted", "unknown"}
    BY DEF Settled
  <1>2. PICK s \in {ops[o], dbOps[o]} : MadeFrom(r, s, o)
    BY <1>1, RecordsChange DEF MadeNow
  <1>3. r.status = s.status \/ r.status = status'[o]
    BY <1>1, <1>2 DEF MadeFrom
  <1>4. CASE r.status = s.status
    <2>1. s.status = status[o]
      BY <1>2, <1>4 DEF MadeFrom, RecordedOutcomeIsTrue
    <2> QED BY <1>4, <2>1, StatusChange
  <1> QED BY <1>3, <1>4

LEMMA OwnersKept ==
    ASSUME IsTyped, JobIsSound, OpsAreOwned, ServiceNext
    PROVE  OpsAreOwned'
  <1> DEFINE Known(p, x) == \E f \in Entries(p) : f.op = x
  <1>1. \/ \A p \in Proposals : \A e \in Entries(p)' :
              e.op = None \/ Known(p, e.op)
        \/ \E q \in Proposals, o \in OpIds :
              /\ Approve(q, o)
              /\ \A p \in Proposals : \A e \in Entries(p)' :
                    e.op = None \/ Known(p, e.op) \/ (p = q /\ e.op = o)
              /\ \A p \in Proposals : ~Known(p, o)
    <2>1. ASSUME NEW p \in Proposals, Stays(p)
          PROVE  \A e \in Entries(p)' : e.op = None \/ Known(p, e.op)
      BY <2>1 DEF Stays
    <2>2. ASSUME NEW q \in Proposals, NEW o \in OpIds, Approve(q, o)
          PROVE  /\ \A p \in Proposals : \A e \in Entries(p)' :
                       e.op = None \/ Known(p, e.op) \/ (p = q /\ e.op = o)
                 /\ \A p \in Proposals : ~Known(p, o)
      <3> DEFINE Fine(p) == \A e \in Entries(p)' :
                               e.op = None \/ Known(p, e.op) \/ (p = q /\ e.op = o)
      <3>1. ASSUME NEW p \in Proposals \ {q}
            PROVE  Fine(p)
        <4>1. Stays(p)
          BY <2>2, ApprovedEntries
        <4> QED BY <4>1 DEF Stays
      <3>2. Fine(q)
        <4>1. \A e \in Entries(q)' : e \in Entries(q) \/ e.op = o
          BY <2>2, ApprovedEntries
        <4> QED BY <4>1 DEF Entries, RowEntry
      <3>3. \A p \in Proposals : ~Known(p, o)
        <4>1. \A p \in Proposals : \A e \in Entries(p) : e.op # o
          BY <2>2, ApprovedEntries
        <4> QED BY <4>1
      <3>4. \A p \in Proposals : Fine(p)
        <4> HIDE DEF Fine
        <4> QED BY <3>1, <3>2
      <3> QED BY <3>3, <3>4
    <2>3. ASSUME NEW q \in Proposals, NEW ok \in BOOLEAN, Propose(q, ok)
          PROVE  \A p \in Proposals : \A e \in Entries(p)' :
                    e.op = None \/ Known(p, e.op)
      BY <2>1, <2>3, ProposedEntries
    <2>4. ASSUME NEW r \in Proposals, NEW q \in Proposals, Recheck(r, q)
          PROVE  \A p \in Proposals : \A e \in Entries(p)' :
                    e.op = None \/ Known(p, e.op)
      BY <2>1, <2>4, RecheckedEntries
    <2> QED BY <2>1, <2>2, <2>3, <2>4, EntriesStay
  <1>2. \A p, q \in Proposals : \A x : x # None /\ Known(p, x) /\ Known(q, x) => p = q
    BY DEF OpsAreOwned
  <1>3. \A p, q \in Proposals : \A e \in Entries(p)', f \in Entries(q)' :
           e.op # None /\ e.op = f.op => p = q
    BY <1>1, <1>2
  <1>4. ASSUME NEW o \in OpIds, NEW r \in {ops'[o], dbOps'[o]}, r # None,
               NEW p \in Proposals, NEW e \in Entries(p)', e.op = o
        PROVE  r.proposal = p
    <2>1. o # None
      BY ApprovalsAssumption DEF ApprovalsAssumption
    <2>2. CASE Known(p, o)
      <3>1. CASE MadeNow(r, o)
        <4> DEFINE j == job.proposal
        <4>1. /\ j \in Proposals /\ r.proposal = j /\ conv[j].op = o
          BY <3>1, ReserveLeaves DEF MadeNow
        <4>2. conv[j] # None
          BY <3>1, <4>1, JobProposal, ApprovalsAssumption
          DEF ApprovalsAssumption, MadeNow, Reserve, JobIsSound, IsTyped
        <4>3. Known(j, o)
          BY <4>1, <4>2 DEF Entries
        <4> QED BY <1>2, <2>1, <2>2, <4>1, <4>3
      <3>2. ASSUME NEW s \in {ops[o], dbOps[o]}, MadeFrom(r, s, o)
            PROVE  r.proposal = p
        BY <2>2, <3>2 DEF MadeFrom, OpsAreOwned
      <3> QED BY <1>4, <3>1, <3>2, RecordsChange
    <2>3. CASE ~Known(p, o)
      <3>1. PICK q \in Proposals : Approve(q, o)
        BY <1>1, <1>4, <2>1, <2>3
      <3>2. ops'[o] = None /\ dbOps'[o] = None
        BY <3>1 DEF Approve, FreshOperation, database
      <3> QED BY <1>4, <3>2
    <2> QED BY <2>2, <2>3
  <1> QED BY <1>3, <1>4 DEF OpsAreOwned

LEMMA ScopesKept ==
    ASSUME IsTyped, JobIsSound, RecordsAreAccepted, ScopesAgree, ServiceNext
    PROVE  ScopesAgree'
  <1>1. ASSUME NEW p \in Proposals, scopes'[p] # None, dbRows'[p] # None
        PROVE  dbRows'[p].scope = scopes'[p]
    <2>1. CASE CrashAndRestart
      BY <1>1, <2>1, CrashLeaves
    <2>2. CASE ~CrashAndRestart
      <3>1. CASE Kept(p)
        BY <1>1, <3>1, RowType DEF Kept, ScopesAgree, IsTyped
      <3>2. CASE Changed(p)
        BY <1>1, <3>2 DEF Changed, ScopesAgree
      <3>3. CASE Added(p)
        BY <1>1, <3>3 DEF Added
      <3> QED BY <2>2, <3>1, <3>2, <3>3, RowsChange
    <2> QED BY <2>1, <2>2
  <1>2. ASSUME NEW p \in Proposals, NEW o \in OpIds, AcceptedFor(p, o)
        PROVE  dbRows'[p].scope = dbRows[p].scope
    <2>1. CASE CrashAndRestart
      BY <2>1, CrashLeaves
    <2>2. CASE ~CrashAndRestart
      <3>1. o # None
        BY ApprovalsAssumption DEF ApprovalsAssumption
      <3>2. ~Changed(p) /\ ~Added(p)
        BY <1>2, <3>1 DEF AcceptedFor, Changed, Added
      <3>3. Kept(p)
        BY <2>2, <3>2, RowsChange
      <3> QED BY <1>2, <3>3, RowType DEF Kept, ScopesAgree, AcceptedFor, IsTyped
    <2> QED BY <2>1, <2>2
  <1>3. ASSUME NEW o \in OpIds, status'[o] # "absent"
        PROVE  submittedAt'[o] = dbRows'[dbOps'[o].proposal].scope.version
    <2>1. CASE status[o] # "absent"
      <3>1. /\ dbOps[o] # None
            /\ submittedAt[o] = dbRows[dbOps[o].proposal].scope.version
        BY <2>1 DEF RecordsAreAccepted, ScopesAgree, SubmittedAsFrozen
      <3>2. PICK p \in Proposals : p = dbOps[o].proposal
        BY <3>1 DEF IsTyped, ServiceTypeOK, Operation
      <3>3. AcceptedFor(p, o)
        BY <3>1, <3>2 DEF RecordsAreAccepted
      <3>4. dbOps'[o].proposal = p
        <4>1. ~MadeNow(dbOps'[o], o)
          BY <2>1, ReserveLeaves DEF MadeNow
        <4>2. PICK s \in {ops[o], dbOps[o]} : MadeFrom(dbOps'[o], s, o)
          BY <3>1, <4>1, RecordsChange
        <4> QED BY <3>2, <4>2 DEF MadeFrom, RecordsAreAccepted
      <3>5. submittedAt'[o] = submittedAt[o]
        <4>1. CASE SubmitOperation
          BY <2>1, <4>1, SubmitLeaves DEF IsTyped, TerminalType
        <4> QED BY <4>1, StatusChange
      <3> QED BY <1>2, <3>1, <3>2, <3>3, <3>4, <3>5
    <2>2. CASE status[o] = "absent"
      <3>1. SubmitOperation /\ o = conv[job.proposal].op
        BY <1>3, <2>2, StatusChange
      <3>2. PICK p \in Proposals : p = job.proposal
        BY <3>1, SubmitLeaves
      <3>3. /\ scopes[p] = Scope /\ ops[o] # None /\ ops[o].proposal = p
            /\ submittedAt' = [submittedAt EXCEPT ![o] = version]
            /\ UNCHANGED <<dbRows, dbOps>>
        BY <3>1, <3>2, SubmitLeaves DEF database
      <3>4. dbOps[o].proposal = p /\ AcceptedFor(p, o)
        BY <3>3 DEF RecordsAreAccepted
      <3>5. dbRows[p].scope = Scope /\ Scope.version = version
        BY <3>3, <3>4, ScopeType DEF ScopesAgree, AcceptedFor, Scope, IsTyped
      <3>6. submittedAt'[o] = version
        BY <3>3 DEF IsTyped, TerminalType
      <3> QED BY <3>3, <3>4, <3>5, <3>6
    <2> QED BY <2>1, <2>2
  <1> QED BY <1>1, <1>3 DEF ScopesAgree, SubmittedAsFrozen

LEMMA RowsPersist ==
    ASSUME IsTyped, JobIsSound, ServiceNext, NEW p \in Proposals,
           dbRows[p] # None
    PROVE  dbRows'[p] # None
  <1>1. CASE CrashAndRestart
    BY <1>1, CrashLeaves
  <1>2. CASE ~CrashAndRestart
    BY <1>2, RowsChange, RowType DEF Kept, Changed, Added, IsTyped
  <1> QED BY <1>1, <1>2

Chain == OriginsAgree /\ RootsAreKnown /\ OneIsLeft

LEMMA ChainKept ==
    ASSUME IsTyped, JobIsSound, Chain, ServiceNext
    PROVE  Chain'
  <1> DEFINE Origin(p, x) == \E f \in Entries(p) : f.origin = x
             OriginNext(p, x) == \E f \in Entries(p)' : f.origin = x
             Follows(p) == /\ \A x \in Proposals : OriginNext(p, x) => Origin(p, x)
                           /\ Gone(p) => Gone(p)'
             Agree(p) == \A x, y \in Proposals :
                            OriginNext(p, x) /\ OriginNext(p, y) => x = y
             Known(p) == \A x \in Proposals :
                            OriginNext(p, x) => x = p \/ dbRows'[x] # None
             Left(p, q) == \A x \in Proposals :
                              OriginNext(p, x) /\ OriginNext(q, x)
                              => Gone(p)' \/ Gone(q)'
  <1>1. /\ \A p, x, y \in Proposals : Origin(p, x) /\ Origin(p, y) => x = y
        /\ \A p, x \in Proposals : Origin(p, x) => x = p \/ dbRows[x] # None
        /\ \A p, q, x \in Proposals :
              p # q /\ Origin(p, x) /\ Origin(q, x) => Gone(p) \/ Gone(q)
    BY DEF Chain, OriginsAgree, RootsAreKnown, OneIsLeft
  <1>2. IsTyped'
    BY TypesKept
  <1>3. \A p \in Proposals : \A e \in Entries(p)' : e.origin \in Proposals
    <2>1. \A p \in Proposals : \A e \in Entries(p)' : e \in Entry
      BY <1>2 DEF IsTyped, ServiceTypeOK, Entries, RowEntry, Rows
    <2> QED BY <2>1 DEF Entry
  <1>4. ASSUME \A p \in Proposals : Agree(p) /\ Known(p),
               \A p, q \in Proposals : p # q => Left(p, q)
        PROVE  Chain'
    BY <1>3, <1>4 DEF Chain, OriginsAgree, RootsAreKnown, OneIsLeft
  <1>5. ASSUME NEW p \in Proposals, Stays(p)
        PROVE  Follows(p)
    BY <1>5 DEF Stays
  <1>6. \A x \in Proposals : dbRows[x] # None => dbRows'[x] # None
    BY RowsPersist
  <1>7. \A p \in Proposals : Follows(p) => Agree(p) /\ Known(p)
    BY <1>1, <1>6
  <1>8. \A p, q \in Proposals : p # q /\ Follows(p) /\ Follows(q) => Left(p, q)
    BY <1>1
  <1>9. ASSUME \A p \in Proposals : Follows(p)
        PROVE  Chain'
    <2> HIDE DEF Follows, Agree, Known, Left
    <2> QED BY <1>4, <1>7, <1>8, <1>9
  <1>10. ASSUME NEW q \in Proposals, NEW o \in OpIds, Approve(q, o)
         PROVE  Chain'
    <2>1. Follows(q)
      <3>1. /\ conv[q] \in Entries(q) /\ ~Superseded(conv[q])
            /\ \A e \in Entries(q)' :
                 e \in Entries(q) \/ e.origin = conv[q].origin
        BY <1>10, ApprovedEntries
      <3> QED BY <3>1 DEF Gone
    <2>2. \A p \in Proposals \ {q} : Follows(p)
      <3>1. \A p \in Proposals \ {q} : Stays(p)
        BY <1>10, ApprovedEntries
      <3> HIDE DEF Follows
      <3> QED BY <1>5, <3>1
    <2> HIDE DEF Follows
    <2> QED BY <1>9, <2>1, <2>2
  <1>11. ASSUME NEW q \in Proposals, NEW ok \in BOOLEAN, Propose(q, ok)
         PROVE  Chain'
    <2>1. /\ \A p \in Proposals \ {q} : Stays(p)
          /\ \A x : OriginNext(q, x) => x = q
          /\ dbRows[q] = None
      BY <1>11, ProposedEntries
    <2>2. \A p \in Proposals \ {q} : Follows(p)
      <3> HIDE DEF Follows
      <3> QED BY <1>5, <2>1
    <2>3. Agree(q) /\ Known(q)
      BY <2>1
    <2>4. \A p \in Proposals \ {q} : Left(p, q) /\ Left(q, p)
      <3>1. \A p \in Proposals \ {q} : ~OriginNext(p, q)
        BY <1>1, <2>1, <2>2
      <3> QED BY <2>1, <3>1
    <2> HIDE DEF Follows, Agree, Known, Left
    <2> QED BY <1>4, <1>7, <1>8, <2>2, <2>3, <2>4
  <1>12. ASSUME NEW r \in Proposals, NEW q \in Proposals, Recheck(r, q)
         PROVE  Chain'
    <2> DEFINE x0 == conv[r].origin
    <2>1. /\ r # q /\ \A p \in Proposals \ {r, q} : Stays(p)
          /\ Origin(r, x0) /\ ~Gone(r) /\ Gone(r)'
          /\ \A x : OriginNext(r, x) => x = x0
          /\ \A x : OriginNext(q, x) => x = x0
          /\ dbRows'[r] # None
      BY <1>12, RecheckedEntries DEF Gone
    <2>2. \A p \in Proposals \ {r, q} : Follows(p)
      <3> HIDE DEF Follows
      <3> QED BY <1>5, <2>1
    <2>3. x0 \in Proposals
      BY <1>12, RecheckEntries DEF Entry
    <2>4. Agree(r) /\ Agree(q)
      BY <2>1
    <2>5. dbRows'[x0] # None
      BY <1>1, <1>6, <2>1, <2>3
    <2>6. Known(r) /\ Known(q)
      BY <2>1, <2>5
    <2>7. \A p \in Proposals \ {r} : Left(r, p) /\ Left(p, r)
      BY <2>1
    <2>8. \A p \in Proposals \ {r, q} : Left(q, p) /\ Left(p, q)
      <3>1. \A p \in Proposals \ {r, q} : OriginNext(p, x0) => Gone(p)'
        BY <1>1, <2>1, <2>2, <2>3
      <3> QED BY <2>1, <3>1
    <2> HIDE DEF Follows, Agree, Known, Left
    <2> QED BY <1>4, <1>7, <1>8, <2>2, <2>4, <2>6, <2>7, <2>8
  <1>13. ASSUME \A p \in Proposals : Stays(p)
         PROVE  Chain'
    <2> HIDE DEF Follows
    <2> QED BY <1>5, <1>9, <1>13
  <1> QED BY <1>10, <1>11, <1>12, <1>13, EntriesStay

LEMMA DecisionsKept ==
    ASSUME IsTyped, JobIsSound, DecisionsReachRows, ServiceNext
    PROVE  DecisionsReachRows'
  <1> DEFINE Made(p) == scopes[p] # None
                        /\ conv[p].status \notin {"pending", "stale"}
             InRow(p) == dbRows[p] # None
                         /\ dbRows[p].entry.status = conv[p].status
             MadeNext(p) == scopes'[p] # None
                            /\ conv'[p].status \notin {"pending", "stale"}
             InRowNext(p) == dbRows'[p] # None
                             /\ dbRows'[p].entry.status = conv'[p].status
             Coming(p) == job'.step \in {"row", "reserve"} /\ job'.proposal = p
  <1> SUFFICES ASSUME failures' = 0, NEW p \in Proposals, MadeNext(p)
               PROVE  InRowNext(p) \/ Coming(p)
    BY DEF DecisionsReachRows
  <1>1. ASSUME failures = 0, job.step \notin {"row", "reserve"},
               conv'[p] = conv[p], scopes'[p] = scopes[p],
               dbRows'[p] = dbRows[p]
        PROVE  InRowNext(p)
    BY <1>1 DEF DecisionsReachRows
  <1>2. CASE FailedWrite
    BY <1>2 DEF FailedWrite, IsTyped, ServiceTypeOK
  <1>3. CASE SaveRow(TRUE) \/ Reserve(TRUE)
    <2> DEFINE j == job.proposal
    <2>1. /\ j \in Proposals /\ scopes[j] # None
          /\ dbRows' = [dbRows EXCEPT ![j] = Row(j)]
          /\ UNCHANGED <<conv, scopes, failures>>
      BY <1>3, ReserveLeaves, JobProposal
      DEF IsTyped, SaveRow, Reserve, Reserved, Continue, JobIsSound, Attempt
    <2>2. /\ dbRows'[j] = Row(j)
          /\ \A q \in Proposals \ {j} : dbRows'[q] = dbRows[q]
      BY <2>1 DEF IsTyped, ServiceTypeOK
    <2>3. Row(j) # None /\ Row(j).entry = conv[j]
      BY <2>1, RowType DEF IsTyped
    <2>4. CASE p = j
      BY <2>1, <2>2, <2>3, <2>4
    <2>5. CASE p # j
      BY <2>1, <2>2, <2>5 DEF DecisionsReachRows
    <2> QED BY <2>4, <2>5
  <1>4. CASE \/ SaveOperation(TRUE) \/ Quiet \/ SubmitOperation
             \/ TerminalChanges
    <2>1. /\ UNCHANGED <<conv, scopes, dbRows>>
          /\ job.step \notin {"row", "reserve"}
      BY <1>4, JobTypes
      DEF SaveOperation, Quiet, SaveConversation, TurnAnswers, SaveAnswer,
          StartTurn, TurnFails, TimePasses, SubmitOperation, TerminalChanges,
          Continue, memory, database
    <2>2. failures' = failures \/ \E ok \in BOOLEAN : Attempt(ok)
      BY <1>4
      DEF SaveOperation, Quiet, SaveConversation, TurnAnswers, SaveAnswer,
          StartTurn, TurnFails, TimePasses, SubmitOperation, TerminalChanges
    <2>3. failures = 0
      BY <2>2, AttemptType DEF IsTyped
    <2> QED BY <1>1, <2>1, <2>3
  <1>5. ASSUME NEW o \in OpIds, NEW ok \in BOOLEAN, Poll(o, ok)
        PROVE  InRowNext(p)
    <2>1. /\ job = Idle /\ failures = 0 /\ UNCHANGED <<conv, scopes, dbRows>>
      BY <1>5, PollLeaves
    <2> QED BY <1>1, <2>1, JobTypes
  <1>6. ASSUME NEW q \in Proposals, NEW ok \in BOOLEAN, Propose(q, ok)
        PROVE  InRowNext(p)
    <2>1. /\ failures = 0 /\ job.step = "answer"
          /\ conv' = [conv EXCEPT ![q] = [status |-> "pending", op |-> None,
                                          origin |-> q, replacement |-> None]]
          /\ scopes' = [scopes EXCEPT ![q] = turn]
          /\ \/ dbRows' = dbRows
             \/ dbRows' = [dbRows EXCEPT ![q] = [entry |-> conv'[q],
                                                 scope |-> turn]]
      BY <1>6, AttemptType DEF Propose, IsTyped
    <2>2. p # q
      BY <2>1 DEF IsTyped, ServiceTypeOK
    <2>3. /\ conv'[p] = conv[p] /\ scopes'[p] = scopes[p]
          /\ dbRows'[p] = dbRows[p]
      BY <2>1, <2>2 DEF IsTyped, ServiceTypeOK
    <2> QED BY <1>1, <2>1, <2>3
  <1>7. ASSUME NEW q \in Proposals, Closed(q)
        PROVE  InRowNext(p) \/ Coming(p)
    <2>1. /\ failures = 0 /\ job = Idle /\ UNCHANGED <<scopes, dbRows>>
          /\ \A r \in Proposals \ {q} : conv'[r] = conv[r]
          /\ \/ conv'[q].status = "stale"
             \/ job'.step = "row" /\ job'.proposal = q
      BY <1>7 DEF Closed, Pending, Restatus, database
    <2> QED BY <1>1, <2>1, JobTypes
  <1>8. ASSUME NEW q \in Proposals, ApprovalFails(q)
        PROVE  InRowNext(p)
    <2>1. /\ failures = 0 /\ job = Idle /\ UNCHANGED <<scopes, dbRows>>
          /\ conv[q].status = "pending" /\ conv[q] \in Entry /\ Catch(ops, q)
      BY <1>8 DEF ApprovalFails, Pending, database, IsTyped, ServiceTypeOK
    <2>2. /\ \A r \in Proposals \ {q} : conv'[r] = conv[r]
          /\ conv'[q].status \in {"pending", "stale"}
      BY <2>1, CatchLeaves DEF Caught, Restatus, IsTyped
    <2> QED BY <1>1, <2>1, <2>2, JobTypes
  <1>9. ASSUME NEW q \in Proposals, NEW o \in OpIds, Approve(q, o)
        PROVE  InRowNext(p) \/ Coming(p)
    <2>1. /\ failures = 0 /\ job = Idle /\ UNCHANGED <<scopes, dbRows>>
          /\ \A r \in Proposals \ {q} : conv'[r] = conv[r]
          /\ job'.step = "reserve" /\ job'.proposal = q
      BY <1>9, ApproveLeaves DEF Pending, database
    <2> QED BY <1>1, <2>1, JobTypes
  <1>10. ASSUME NEW r \in Proposals, NEW q \in Proposals, Recheck(r, q)
         PROVE  InRowNext(p)
    <2>1. failures = 0 /\ job = Idle
      BY <1>10 DEF Recheck
    <2>2. /\ conv'[q].status = "pending"
          /\ \A x \in Proposals \ {r, q} : conv'[x] = conv[x]
      BY <1>10, RecheckEntries
    <2>3. /\ dbRows'[r] # None /\ dbRows'[r].entry = conv'[r]
          /\ \A x \in Proposals \ {r, q} : dbRows'[x] = dbRows[x]
          /\ \A x \in Proposals \ {q} : scopes'[x] = scopes[x]
      BY <1>10, RecheckRows
    <2>4. CASE p = r
      BY <2>3, <2>4
    <2>5. CASE p = q
      BY <2>2, <2>5
    <2>6. CASE p \notin {r, q}
      BY <1>1, <2>1, <2>2, <2>3, <2>6, JobTypes
    <2> QED BY <2>4, <2>5, <2>6
  <1>11. CASE CrashAndRestart
    <2>1. /\ dbConv[p] \in Entry /\ dbRows[p] \in Rows /\ dbRows[p] # None
          /\ conv'[p] = Merged(dbConv[p], dbRows[p].entry)
          /\ dbRows' = dbRows
      BY <1>11, CrashLeaves
    <2> QED BY <2>1, MergedType DEF Rows
  <1>12. ServiceTypeOK
    BY DEF IsTyped
  <1> HIDE DEF MadeNext, InRowNext, Coming
  <1> QED
    BY <1>2, <1>3, <1>4, <1>5, <1>6, <1>7, <1>8, <1>9, <1>10, <1>11, <1>12,
       Kinds

LEMMA InitHolds ==
    ASSUME ServiceInit
    PROVE  IInv
  <1>1. IsTyped
    BY JobTypes
    DEF ServiceInit, Init, IsTyped, TerminalType, ServiceTypeOK, Jobs, Status
  <1>2. JobIsSound
    BY JobTypes DEF ServiceInit, JobIsSound
  <1>3. /\ \A o \in OpIds : /\ status[o] = "absent" /\ ops[o] = None
                            /\ dbOps[o] = None
        /\ \A p \in Proposals : Entries(p) = {} /\ scopes[p] = None
    BY DEF ServiceInit, Init, Entries, RowEntry
  <1> QED
    BY <1>1, <1>2, <1>3
    DEF IInv, IsTyped, RecordsAreAccepted, RecordedOutcomeIsTrue, OpsAreOwned,
        ScopesAgree, SubmittedAsFrozen, OriginsAgree, RootsAreKnown, OneIsLeft,
        DecisionsReachRows

LEMMA NextKeeps ==
    ASSUME IInv, [ServiceNext]_all
    PROVE  IInv'
  <1>1. CASE ServiceNext
    <2>1. IsTyped /\ Chain
      BY DEF IInv, IsTyped, Chain
    <2>2. IsTyped' /\ JobIsSound'
      BY <1>1, <2>1, TypesKept, JobKept DEF IInv
    <2>3. RecordsAreAccepted' /\ RecordedOutcomeIsTrue' /\ OpsAreOwned'
      BY <1>1, <2>1, RecordsKept, OutcomesKept, OwnersKept DEF IInv
    <2>4. ScopesAgree' /\ Chain' /\ DecisionsReachRows'
      BY <1>1, <2>1, ScopesKept, ChainKept, DecisionsKept DEF IInv
    <2> QED BY <2>2, <2>3, <2>4 DEF IInv, IsTyped, Chain
  <1>2. CASE UNCHANGED all
    BY <1>2
    DEF all, vars, memory, database, IInv, TerminalType, ServiceTypeOK,
        JobIsSound, RecordsAreAccepted, AcceptedFor, RecordedOutcomeIsTrue,
        OpsAreOwned, Entries, RowEntry, ScopesAgree, SubmittedAsFrozen,
        OriginsAgree, RootsAreKnown, OneIsLeft, Gone, DecisionsReachRows
  <1> QED BY <1>1, <1>2

-----------------------------------------------------------------------------
(* Theorems.                                                               *)

\* The inductive invariant of conversation-service.ts and workspace-store.ts.
THEOREM ServiceInvariant == ServiceSpec => []IInv
  <1>1. ServiceInit => IInv
    BY InitHolds
  <1>2. IInv /\ [ServiceNext]_all => IInv'
    BY NextKeeps
  <1> QED BY <1>1, <1>2, PTL DEF ServiceSpec

\* What IInv says of a command that was submitted.
LEMMA SubmittedRecord ==
    ASSUME IInv, NEW o \in OpIds, status[o] # "absent"
    PROVE  /\ dbOps[o] # None /\ dbOps[o].proposal \in Proposals
           /\ AcceptedFor(dbOps[o].proposal, o)
           /\ RowEntry(dbOps[o].proposal) \in Entries(dbOps[o].proposal)
           /\ ~Superseded(RowEntry(dbOps[o].proposal))
  <1>1. dbOps[o] # None /\ AcceptedFor(dbOps[o].proposal, o)
    BY DEF IInv, RecordsAreAccepted
  <1>2. dbOps[o].proposal \in Proposals
    BY <1>1 DEF IInv, ServiceTypeOK, Operation
  <1>3. dbRows[dbOps[o].proposal].entry \in Entry
    BY <1>1, <1>2 DEF IInv, ServiceTypeOK, AcceptedFor, Rows
  <1>4. dbRows[dbOps[o].proposal].entry # None
    BY <1>3, ApprovalsAssumption DEF ApprovalsAssumption
  <1> QED
    BY <1>1, <1>2, <1>4 DEF AcceptedFor, RowEntry, Entries, Superseded

\* The command is submitted after the accepted proposal and its operation were
\* saved (conversation-service.ts, decide), whenever the Core crashes.
THEOREM SubmissionsAreReserved == ServiceSpec => []SubmittedIsReserved
  <1>1. IInv => SubmittedIsReserved
    BY SubmittedRecord DEF IInv, SubmittedIsReserved, AcceptedFor
  <1> QED BY <1>1, ServiceInvariant, PTL

\* No two proposals of a chain of renewals are both submitted.
THEOREM SubmissionsAreOne == ServiceSpec => []SubmittedOnce
  <1>1. ASSUME IInv PROVE SubmittedOnce
    <2> SUFFICES ASSUME NEW o1 \in OpIds, NEW o2 \in OpIds, o1 # o2,
                        status[o1] # "absent", status[o2] # "absent"
                 PROVE  dbRows[dbOps[o1].proposal].entry.origin
                        # dbRows[dbOps[o2].proposal].entry.origin
      BY DEF SubmittedOnce
    <2> DEFINE p == dbOps[o1].proposal
               q == dbOps[o2].proposal
    <2>1. /\ p \in Proposals /\ q \in Proposals
          /\ AcceptedFor(p, o1) /\ AcceptedFor(q, o2)
          /\ RowEntry(p) \in Entries(p) /\ ~Superseded(RowEntry(p))
          /\ RowEntry(q) \in Entries(q) /\ ~Superseded(RowEntry(q))
      BY <1>1, SubmittedRecord
    <2>2. p # q
      BY <2>1 DEF AcceptedFor
    <2>3. ~Gone(p) /\ ~Gone(q)
      BY <2>1 DEF Gone
    <2>4. RowEntry(p).origin # RowEntry(q).origin
      BY <1>1, <2>1, <2>2, <2>3 DEF IInv, OneIsLeft
    <2> QED BY <2>1, <2>4 DEF AcceptedFor, RowEntry
  <1> QED BY <1>1, ServiceInvariant, PTL

\* What was submitted, and what was renewed, is not offered again.
THEOREM OffersAreOne == ServiceSpec => []OneOpenProposal
  <1>1. ASSUME IInv PROVE OneOpenProposal
    <2> SUFFICES ASSUME NEW p \in Proposals, scopes[p] # None,
                        conv[p].status = "pending"
                 PROVE  /\ \A q \in Proposals \ {p} :
                              scopes[q] # None /\ conv[q].status = "pending"
                              => conv[q].origin # conv[p].origin
                        /\ \A o \in OpIds :
                              status[o] # "absent"
                              => dbRows[dbOps[o].proposal].entry.origin
                                 # conv[p].origin
      BY DEF OneOpenProposal
    <2>1. ASSUME NEW q \in Proposals, scopes[q] # None,
                 conv[q].status = "pending"
          PROVE  conv[q] \in Entries(q) /\ ~Gone(q)
      BY <1>1, <2>1 DEF IInv, ServiceTypeOK, Entries, Gone, Superseded
    <2>2. ASSUME NEW o \in OpIds, status[o] # "absent"
          PROVE  dbRows[dbOps[o].proposal].entry.origin # conv[p].origin
      <3> DEFINE q == dbOps[o].proposal
      <3>1. /\ q \in Proposals /\ AcceptedFor(q, o)
            /\ RowEntry(q) \in Entries(q) /\ ~Superseded(RowEntry(q))
        BY <1>1, <2>2, SubmittedRecord
      <3>2. q # p
        BY <3>1 DEF AcceptedFor
      <3>3. RowEntry(q).origin # conv[p].origin
        BY <1>1, <2>1, <3>1, <3>2 DEF IInv, OneIsLeft, Gone
      <3> QED BY <3>1, <3>3 DEF AcceptedFor, RowEntry
    <2> QED BY <1>1, <2>1, <2>2 DEF IInv, OneIsLeft
  <1> QED BY <1>1, ServiceInvariant, PTL

\* No outcome is invented: neither by a failed write nor by a restart.
THEOREM OutcomesAreTrue == ServiceSpec => []RecordedOutcomeIsTrue
  <1>1. IInv => RecordedOutcomeIsTrue
    BY DEF IInv
  <1> QED BY <1>1, ServiceInvariant, PTL

\* A command runs on the terminal its proposal was frozen on, unmoved.
THEOREM SubmissionsAreAsFrozen == ServiceSpec => []SubmittedAsFrozen
  <1>1. IInv => SubmittedAsFrozen
    BY DEF IInv, ScopesAgree
  <1> QED BY <1>1, ServiceInvariant, PTL

\* As long as no write has failed, what decide returned is in the database.
THEOREM DecisionsStay == ServiceSpec => []DecisionsAreDurable
  <1>1. IInv => DecisionsAreDurable
    BY JobTypes DEF IInv, DecisionsReachRows, DecisionsAreDurable
  <1> QED BY <1>1, ServiceInvariant, PTL
=============================================================================

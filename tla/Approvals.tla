----------------------------- MODULE Approvals -----------------------------
(***************************************************************************)
(* The proposals of one conversation, from the turn that freezes their     *)
(* scope to the command that runs: ConversationService                     *)
(* (apps/core/src/conversation-service.ts), the two copies of its state,   *)
(* in memory and in SQLite (workspace-store.ts), and the terminal it       *)
(* submits to.  A decision is one synchronous call, but each of its writes *)
(* to the database is a step of its own: the Core may crash before it, and *)
(* the write may fail and send the call to its catch block.  Nothing else  *)
(* runs until the call returns.                                            *)
(*                                                                         *)
(* The terminal is TerminalContract, which TerminalSession implements.     *)
(***************************************************************************)
EXTENDS TerminalContract

CONSTANTS
    Proposals,     \* proposal identifiers
    MaxVersion,    \* bound: changes of the terminal
    MaxFailures,   \* bound: failed database writes
    MaxRestarts    \* bound: crashes of the Core

\* A recheck replaces a proposal by a renewed one: `origin` stands for the
\* chain of replacesProposalId down to the first.
Entry == [status: {"pending", "accepted", "inserted", "rejected", "expired",
                   "stale"},
          op: OpIds \cup {None}, origin: Proposals,
          replacement: Proposals \cup {None}]
Scopes == [version: Nat, target: Targets]
Operation == [proposal: Proposals, status: Status]
Rows == [entry: Entry, scope: Scopes]
Steps == {"none", "answer", "row", "conversation", "reserve", "submit",
          "operation"}

ASSUME ApprovalsAssumption ==
    /\ MaxVersion \in Nat /\ MaxFailures \in Nat /\ MaxRestarts \in Nat
    /\ None \notin Proposals \cup OpIds
    /\ None \notin Entry \cup Scopes \cup Operation \cup Rows

VARIABLES
    conv,       \* the conversation's snapshot: Proposals -> Entry or None
    scopes,     \* the proposals that can be decided, with their frozen scopes
    ops,        \* OpIds -> Operation or None
    turn,       \* the scope the turn in progress froze, or None
    lapsed,     \* proposals whose expiresAt has passed
    job,        \* the call that runs: its next step, its proposal, and
                \* whether a failure goes to decide's catch block
    dbConv,     \* table conversations, the proposals in snapshot_json
    dbRows,     \* table frozen_proposals: Proposals -> [entry, scope] or None
    dbOps,      \* table execution_operations
    failures, restarts

memory   == <<conv, scopes, ops, turn, job>>
database == <<dbConv, dbRows, dbOps>>
all == <<vars, memory, database, lapsed, failures, restarts>>

Idle == [step |-> "none", proposal |-> None, caught |-> FALSE]

ServiceInit ==
    /\ Init
    /\ conv = [p \in Proposals |-> None]
    /\ scopes = [p \in Proposals |-> None]
    /\ ops = [o \in OpIds |-> None]
    /\ turn = None /\ job = Idle /\ lapsed = {}
    /\ dbConv = conv /\ dbRows = scopes /\ dbOps = ops
    /\ failures = 0 /\ restarts = 0

-----------------------------------------------------------------------------
(* Database writes.                                                        *)

\* A write succeeds or throws.
Attempt(ok) ==
    /\ ok \/ failures < MaxFailures
    /\ failures' = IF ok THEN failures ELSE failures + 1

Row(p) == [entry |-> conv[p], scope |-> scopes[p]]

\* persistProposal writes the row, then the conversation.
Persist(p, caught) ==
    job' = [step |-> "row", proposal |-> p, caught |-> caught]

\* The catch block of decide, entered with the operations os.
Catch(os, p) ==
    LET o == conv[p].op IN
    \/ /\ o = None
       /\ conv' = [conv EXCEPT ![p].status = "stale"]
       /\ Persist(p, FALSE)
       /\ ops' = os
    \/ /\ o # None
       /\ IF os[o] = None
          THEN /\ job' = [step |-> "conversation", proposal |-> p,
                          caught |-> FALSE]
               /\ ops' = os
          ELSE /\ job' = [step |-> "operation", proposal |-> p,
                          caught |-> FALSE]
               /\ ops' = [os EXCEPT ![o].status = "unknown"]
       /\ UNCHANGED conv

\* A write failed: the call throws, or goes to its catch block.
Fail ==
    IF job.caught THEN Catch(ops, job.proposal)
    ELSE job' = Idle /\ UNCHANGED <<conv, ops>>

Continue(step) == job' = [job EXCEPT !.step = step] /\ UNCHANGED <<conv, ops>>

SaveRow(ok) ==
    /\ job.step = "row"
    /\ Attempt(ok)
    /\ IF ok
       THEN /\ dbRows' = [dbRows EXCEPT ![job.proposal] = Row(job.proposal)]
            /\ Continue("conversation")
       ELSE Fail /\ UNCHANGED dbRows
    /\ UNCHANGED <<vars, scopes, turn, lapsed, dbConv, dbOps, restarts>>

SaveConversation(ok) ==
    /\ job.step = "conversation"
    /\ Attempt(ok)
    /\ IF ok THEN dbConv' = conv /\ job' = Idle /\ UNCHANGED <<conv, ops>>
             ELSE Fail /\ UNCHANGED dbConv
    /\ UNCHANGED <<vars, scopes, turn, lapsed, dbRows, dbOps, restarts>>

SaveOperation(ok) ==
    /\ job.step = "operation"
    /\ Attempt(ok)
    /\ LET o == conv[job.proposal].op IN
       IF ok THEN dbOps' = [dbOps EXCEPT ![o] = ops[o]]
                  /\ Continue("conversation")
             ELSE Fail /\ UNCHANGED dbOps
    /\ UNCHANGED <<vars, scopes, turn, lapsed, dbConv, dbRows, restarts>>

-----------------------------------------------------------------------------
(* Turns.                                                                  *)

\* The scope is frozen and the conversation saved before the provider is
\* asked; if the save throws, the turn has not begun.
StartTurn(ok) ==
    /\ job = Idle /\ turn = None /\ present
    /\ Attempt(ok)
    /\ IF ok THEN turn' = Scope /\ dbConv' = conv
             ELSE UNCHANGED <<turn, dbConv>>
    /\ UNCHANGED <<vars, conv, scopes, ops, job, lapsed, dbRows, dbOps,
                   restarts>>

\* The provider fails, or the turn was stopped: nothing is proposed.
TurnFails(ok) ==
    /\ job = Idle /\ turn # None
    /\ turn' = None
    /\ Attempt(ok)
    /\ IF ok THEN dbConv' = conv ELSE UNCHANGED dbConv
    /\ UNCHANGED <<vars, conv, scopes, ops, job, lapsed, dbRows, dbOps,
                   restarts>>

TurnAnswers ==
    /\ job = Idle /\ turn # None
    /\ job' = [Idle EXCEPT !.step = "answer"]
    /\ UNCHANGED <<vars, conv, scopes, ops, turn, lapsed, database, failures,
                   restarts>>

FreshProposal(p) == conv[p] = None /\ dbConv[p] = None /\ dbRows[p] = None

\* One proposal of the answer: added to the memory, then saved.
Propose(p, ok) ==
    /\ job.step = "answer"
    /\ FreshProposal(p)
    /\ Attempt(ok)
    /\ conv' = [conv EXCEPT ![p] = [status |-> "pending", op |-> None,
                                    origin |-> p, replacement |-> None]]
    /\ scopes' = [scopes EXCEPT ![p] = turn]
    /\ IF ok
       THEN /\ dbRows' = [dbRows EXCEPT ![p] = [entry |-> conv'[p],
                                                scope |-> turn]]
            /\ UNCHANGED <<turn, job>>
       ELSE turn' = None /\ job' = Idle /\ UNCHANGED dbRows
    /\ UNCHANGED <<vars, ops, lapsed, dbConv, dbOps, restarts>>

SaveAnswer ==
    /\ job.step = "answer"
    /\ turn' = None
    /\ job' = [Idle EXCEPT !.step = "conversation"]
    /\ UNCHANGED <<vars, conv, scopes, ops, lapsed, database, failures,
                   restarts>>

-----------------------------------------------------------------------------
(* Decisions.  Those on a proposal that is not pending change nothing but  *)
(* what Poll changes.                                                      *)

Pending(p) == job = Idle /\ scopes[p] # None /\ conv[p].status = "pending"

\* The terminal still is as the scope says (assertFrozenScope).
InScope(p) == present /\ scopes[p] = Scope

Close(p, s) ==
    /\ conv' = [conv EXCEPT ![p].status = s]
    /\ UNCHANGED <<scopes, ops, turn, lapsed, database, failures, restarts>>

\* Any decision on a lapsed proposal makes it "expired".
Expire(p) ==
    /\ Pending(p) /\ p \in lapsed
    /\ Close(p, "expired") /\ Persist(p, FALSE)
    /\ UNCHANGED vars

Reject(p) ==
    /\ Pending(p) /\ p \notin lapsed
    /\ Close(p, "rejected") /\ Persist(p, FALSE)
    /\ UNCHANGED vars

\* Nothing is saved here.
TerminalGone(p) ==
    /\ Pending(p) /\ p \notin lapsed /\ ~present
    /\ Close(p, "stale")
    /\ UNCHANGED <<vars, job>>

\* Inserting is an input: it moves the terminal's version.
Insert(p) ==
    /\ Pending(p) /\ p \notin lapsed
    /\ InScope(p) /\ live /\ idle
    /\ version < MaxVersion
    /\ version' = version + 1 /\ empty' = FALSE
    /\ Close(p, "inserted") /\ Persist(p, TRUE)
    /\ UNCHANGED <<present, live, target, idle, status, submittedAt>>

\* The terminal is not as approved, or not ready.
ApprovalFails(p) ==
    /\ Pending(p) /\ p \notin lapsed
    /\ present /\ ~Validated(scopes[p])
    /\ Catch(ops, p)
    /\ UNCHANGED <<vars, scopes, turn, lapsed, database, failures, restarts>>

FreshOperation(o) ==
    /\ status[o] = "absent" /\ ops[o] = None /\ dbOps[o] = None
    /\ \A p \in Proposals :
          /\ conv[p] # None => conv[p].op # o
          /\ dbConv[p] # None => dbConv[p].op # o
          /\ dbRows[p] # None => dbRows[p].entry.op # o

Approve(p, o) ==
    /\ Pending(p) /\ p \notin lapsed
    /\ present /\ Validated(scopes[p])
    /\ FreshOperation(o)
    /\ conv' = [conv EXCEPT ![p].op = o, ![p].status = "accepted"]
    /\ job' = [step |-> "reserve", proposal |-> p, caught |-> TRUE]
    /\ UNCHANGED <<vars, scopes, ops, turn, lapsed, database, failures,
                   restarts>>

\* Mutant: the operation is only saved once the command is submitted.
ReservedLater(p, o) ==
    dbRows' = [dbRows EXCEPT ![p] = Row(p)] /\ UNCHANGED dbOps

\* One transaction saves the accepted proposal and its operation.
Reserved(p, o) ==
    /\ dbRows' = [dbRows EXCEPT ![p] = Row(p)]
    /\ dbOps' = [dbOps EXCEPT ![o] = [proposal |-> p, status |-> "accepted"]]

Reserve(ok) ==
    LET p == job.proposal
        o == conv[p].op IN
    /\ job.step = "reserve"
    /\ Attempt(ok)
    /\ IF ok
       THEN /\ Reserved(p, o)
            /\ ops' = [ops EXCEPT
                         ![o] = [proposal |-> p, status |-> "accepted"]]
            /\ job' = [job EXCEPT !.step = "submit"]
            /\ UNCHANGED conv
       ELSE Fail /\ UNCHANGED <<dbRows, dbOps>>
    /\ UNCHANGED <<vars, scopes, turn, lapsed, dbConv, restarts>>

SubmitOperation ==
    LET p == job.proposal
        o == conv[p].op IN
    /\ job.step = "submit"
    /\ Submit(o, scopes[p])
    /\ ops' = [ops EXCEPT ![o].status = status'[o]]
    /\ job' = [job EXCEPT !.step = "operation"]
    /\ UNCHANGED <<conv, scopes, turn, lapsed, database, failures, restarts>>

\* operation(): the terminal's record, while it has one, replaces the stored
\* one.
Poll(o, ok) ==
    /\ job = Idle
    /\ ops[o] # None /\ scopes[ops[o].proposal] # None
    /\ present /\ status[o] # "absent"
    /\ Attempt(ok)
    /\ ops' = [ops EXCEPT ![o].status = status[o]]
    /\ IF ok THEN dbOps' = [dbOps EXCEPT ![o] = ops'[o]]
             ELSE UNCHANGED dbOps
    /\ UNCHANGED <<vars, conv, scopes, turn, job, lapsed, dbConv, dbRows,
                   restarts>>

\* Mutant: a submitted proposal can be renewed.
RecheckableSubmitted(p) ==
    /\ conv[p].replacement = None
    /\ conv[p].status \in {"stale", "expired", "accepted"}

Recheckable(p) ==
    /\ conv[p].replacement = None
    /\ conv[p].op = None
    /\ conv[p].status \in {"stale", "expired"}

\* The renewed proposal has the target of the old one and the versions of the
\* terminal as it is now.  All is saved in one transaction before the memory
\* changes; if that fails nothing has happened.
Recheck(p, q) ==
    /\ job = Idle
    /\ scopes[p] # None
    /\ Recheckable(p)
    /\ present
    /\ scopes[p].target = target /\ Validated(Scope)
    /\ FreshProposal(q)
    /\ conv' = [conv EXCEPT
          ![p].replacement = q,
          ![q] = [status |-> "pending", op |-> None,
                  origin |-> conv[p].origin, replacement |-> None]]
    /\ scopes' = [scopes EXCEPT ![q] = Scope]
    /\ dbRows' = [dbRows EXCEPT
          ![p] = [entry |-> conv'[p], scope |-> scopes[p]],
          ![q] = [entry |-> conv'[q], scope |-> Scope]]
    /\ dbConv' = conv'
    /\ UNCHANGED <<vars, ops, turn, job, lapsed, dbOps, failures, restarts>>

-----------------------------------------------------------------------------
(* The surroundings.                                                       *)

\* The terminal moves only when no call runs.
TerminalChanges ==
    /\ job = Idle
    /\ version < MaxVersion
    /\ Change \/ End
    /\ UNCHANGED <<memory, database, lapsed, failures, restarts>>

TimePasses(p) ==
    /\ job = Idle
    /\ conv[p] # None /\ p \notin lapsed
    /\ lapsed' = lapsed \cup {p}
    /\ UNCHANGED <<vars, memory, database, failures, restarts>>

\* Mutant: the conversation's copy wins.
MergedEntry(entry, row) == entry

\* Object.assign(entry, row): the row wins where it has a value.
Merged(entry, row) ==
    [row EXCEPT
       !.op = IF @ = None THEN entry.op ELSE @,
       !.replacement = IF @ = None THEN entry.replacement ELSE @]

\* Mutant: what was in flight is taken to have failed.
RestoredFailed(op) ==
    IF op # None /\ op.status \in {"accepted", "running"}
    THEN [op EXCEPT !.status = "failed"] ELSE op

Restored(op) ==
    IF op # None /\ op.status \in {"accepted", "running"}
    THEN [op EXCEPT !.status = "unknown"] ELSE op

\* The Core dies, at any step of any call, and its terminals with it; it
\* starts again from the database.
CrashAndRestart ==
    /\ restarts < MaxRestarts
    /\ restarts' = restarts + 1
    /\ present' = FALSE /\ live' = FALSE
    /\ scopes' = [p \in Proposals |->
          IF dbConv[p] # None /\ dbRows[p] # None
          THEN dbRows[p].scope ELSE None]
    /\ conv' = [p \in Proposals |->
          IF scopes'[p] = None THEN dbConv[p]
          ELSE Merged(dbConv[p], dbRows[p].entry)]
    /\ dbOps' = [o \in OpIds |-> Restored(dbOps[o])]
    /\ ops' = dbOps'
    /\ turn' = None /\ job' = Idle
    /\ UNCHANGED <<version, target, idle, empty, status, submittedAt, dbConv,
                   dbRows, lapsed, failures>>

ServiceNext ==
    \/ \E ok \in BOOLEAN :
          \/ SaveRow(ok) \/ SaveConversation(ok) \/ SaveOperation(ok)
          \/ StartTurn(ok) \/ TurnFails(ok) \/ Reserve(ok)
          \/ \E p \in Proposals : Propose(p, ok)
          \/ \E o \in OpIds : Poll(o, ok)
    \/ TurnAnswers \/ SaveAnswer
    \/ \E p \in Proposals :
          \/ Expire(p) \/ Reject(p) \/ TerminalGone(p) \/ Insert(p)
          \/ ApprovalFails(p)
          \/ \E o \in OpIds : Approve(p, o)
          \/ \E q \in Proposals : Recheck(p, q)
          \/ TimePasses(p)
    \/ SubmitOperation
    \/ TerminalChanges
    \/ CrashAndRestart

ServiceSpec == ServiceInit /\ [][ServiceNext]_all

-----------------------------------------------------------------------------
(* Properties.                                                             *)

\* Every variable has its type; a proposal that can be decided is in the
\* conversation.
ServiceTypeOK ==
    /\ conv \in [Proposals -> Entry \cup {None}]
    /\ scopes \in [Proposals -> Scopes \cup {None}]
    /\ \A p \in Proposals : scopes[p] # None => conv[p] # None
    /\ ops \in [OpIds -> Operation \cup {None}]
    /\ turn \in Scopes \cup {None}
    /\ lapsed \subseteq Proposals
    /\ job \in [step: Steps, proposal: Proposals \cup {None}, caught: BOOLEAN]
    /\ dbConv \in [Proposals -> Entry \cup {None}]
    /\ dbRows \in [Proposals -> Rows \cup {None}]
    /\ dbOps \in [OpIds -> Operation \cup {None}]
    /\ failures \in Nat /\ restarts \in Nat

\* "Persist first, then submit" (docs/AI-TERMINAL-VERIFICATION.md:16): at any
\* moment at which the Core could crash, a command the terminal was given has
\* its operation in the database, with a proposal whose row says so.
SubmittedIsReserved ==
    ServiceTypeOK /\ \A o \in OpIds :
       status[o] # "absent" =>
          /\ dbOps[o] # None
          /\ dbRows[dbOps[o].proposal] # None
          /\ dbRows[dbOps[o].proposal].entry.status = "accepted"
          /\ dbRows[dbOps[o].proposal].entry.op = o

\* Of a proposal and the renewals of it, at most one is ever submitted.
SubmittedOnce ==
    \A o1, o2 \in OpIds :
       /\ o1 # o2 /\ status[o1] # "absent" /\ status[o2] # "absent"
       => dbRows[dbOps[o1].proposal].entry.origin
          # dbRows[dbOps[o2].proposal].entry.origin

\* Of a proposal and the renewals of it, at most one is open, and none once a
\* command of theirs was submitted, whatever failed and whenever the Core
\* restarted: what ran is never offered again.
OneOpenProposal ==
    \A p \in Proposals :
       scopes[p] # None /\ conv[p].status = "pending" =>
          /\ \A q \in Proposals \ {p} :
                scopes[q] # None /\ conv[q].status = "pending"
                => conv[q].origin # conv[p].origin
          /\ \A o \in OpIds :
                status[o] # "absent"
                => dbRows[dbOps[o].proposal].entry.origin # conv[p].origin

\* An outcome that is on record, in memory or in the database, is the one the
\* terminal reported; "unknown" is the only claim made without it.
RecordedOutcomeIsTrue ==
    \A o \in OpIds :
       \A record \in {ops[o], dbOps[o]} \ {None} :
          record.status \in Settled \ {"unknown"} => record.status = status[o]

\* A command is submitted at the very version of the terminal its proposal
\* was frozen at, however many calls, failures and restarts came between.
SubmittedAsFrozen ==
    \A o \in OpIds :
       status[o] # "absent" =>
          submittedAt[o] = dbRows[dbOps[o].proposal].scope.version

\* Without failed writes, a decision that has returned is in the database.
DecisionsAreDurable ==
    job = Idle /\ failures = 0 =>
       \A p \in Proposals :
          /\ scopes[p] # None
          /\ conv[p].status \notin {"pending", "stale"}
          => dbRows[p].entry.status = conv[p].status

=============================================================================

------------------------ MODULE RemoteSessionsProofs ------------------------
(***************************************************************************)
(* Theorems about the sessions the Core lists (RemoteSessions), for every  *)
(* set of calls and targets and for all limits, and about the tabs in      *)
(* which the page lists them (WorkspaceTabs), for every set of terminals   *)
(* and of handlers that wait. Both lists are sequences an element can be   *)
(* taken out of, and share the lemmas about that.                          *)
(***************************************************************************)
EXTENDS RemoteSessions, WorkspaceTabs, FiniteSetTheorems, SequenceTheorems, TLAPS

\* The part of the type invariant the approvals need.
ApprovalsType ==
    /\ step \in [Calls -> Waiting \cup {"new", "done", "asked", "refused", "failed"}]
    /\ approved \in [Calls -> Calls \cup {None}]
    /\ pending \subseteq Calls

\* An approval that is pending was asked for and has let nobody through. One
\* that was used is not pending any more, let one call through that has begun,
\* and was made for the target of that call.
ApprovalsInv ==
    /\ ApprovalsType
    /\ \A a \in pending :
         step[a] = "asked" /\ \A c \in Calls : approved[c] # a
    /\ \A c \in Calls : approved[c] # None =>
         /\ step[c] # "new" /\ step[approved[c]] = "asked"
         /\ TargetOf[approved[c]] = TargetOf[c]
    /\ \A c, d \in Calls : approved[c] # None /\ approved[c] = approved[d] => c = d

LEMMA InitApprovals ==
    ASSUME Init
    PROVE  ApprovalsInv
  BY DEF Init, ApprovalsInv, ApprovalsType, Waiting

\* A step of one call that touches no approval and neither begins a call nor
\* asks for an approval.
LEMMA StepKeeps ==
    ASSUME ApprovalsInv, RemoteAssumption, NEW c \in Calls,
           NEW s \in Waiting \cup {"new", "done", "asked", "refused", "failed"},
           step[c] \in Waiting \/ s = "done" \/ s = "failed" \/ s = "refused",
           s # "new", step[c] # "asked", To(c, s), UNCHANGED approvals
    PROVE  ApprovalsInv'
  BY DEF ApprovalsInv, ApprovalsType, Waiting, To, approvals, RemoteAssumption

LEMMA QuietKeeps ==
    ASSUME ApprovalsInv, UNCHANGED <<step, approved>>, pending' \subseteq pending
    PROVE  ApprovalsInv'
  BY DEF ApprovalsInv, ApprovalsType

LEMMA ConnectKeeps ==
    ASSUME ApprovalsInv, RemoteAssumption, NEW c \in Calls, NEW a \in Offered,
           Connect(c, a)
    PROVE  ApprovalsInv'
  <1> USE DEF ApprovalsInv, ApprovalsType, Waiting
  <1>1. CASE UNCHANGED approvals /\ To(c, "failed")
    BY <1>1, StepKeeps DEF Connect
  <1>2. CASE /\ pending' = PendingWithout(a) /\ UNCHANGED approved
             /\ To(c, "failed")
    BY <1>2 DEF Connect, To, PendingWithout
  <1>3. CASE /\ pending' = PendingWithout(a)
             /\ a = None \/ ValidApproval(c, a)
             /\ approved' = [approved EXCEPT ![c] = a]
             /\ To(c, "connecting")
    BY <1>3 DEF Connect, To, PendingWithout, ValidApproval, Offered, RemoteAssumption
  <1> QED BY <1>1, <1>2, <1>3 DEF Connect

LEMMA AsksApprovalKeeps ==
    ASSUME ApprovalsInv, RemoteAssumption, NEW c \in Calls, AsksApproval(c)
    PROVE  ApprovalsInv'
  <1> DEFINE left == pending \ expired
  <1>1. /\ step[c] = "connecting" /\ UNCHANGED approved
        /\ \/ pending' = left \cup {c} /\ To(c, "asked")
           \/ pending' = left /\ To(c, "failed")
    BY DEF AsksApproval
  <1> QED BY <1>1 DEF ApprovalsInv, ApprovalsType, Waiting, To, RemoteAssumption

LEMMA NextApprovals ==
    ASSUME ApprovalsInv, RemoteAssumption, [Next]_vars
    PROVE  ApprovalsInv'
  <1>1. ASSUME NEW c \in Calls,
               PtyExits(c) \/ ApprovalExpires(c) \/ ClientIsLost(c)
                 \/ DeleteTerminal(c) \/ DeleteRemote(c)
        PROVE  ApprovalsInv'
    BY <1>1, QuietKeeps
       DEF PtyExits, ApprovalExpires, ClientIsLost, DeleteTerminal,
           DeleteRemote, approvals
  <1>2. ASSUME NEW c \in Calls,
               CreateLocal(c) \/ ConnectFails(c) \/ Connects(c)
                 \/ Inspected(c) \/ Launched(c) \/ LaunchFails(c)
        PROVE  ApprovalsInv'
    <2>1. /\ UNCHANGED approvals /\ step[c] \in Waiting \cup {"new"}
          /\ \/ To(c, "done") \/ To(c, "failed") \/ To(c, "refused")
             \/ step[c] \in Waiting /\ (To(c, "inspecting") \/ To(c, "launching"))
      BY <1>2 DEF CreateLocal, ConnectFails, Connects, Inspected, Launched,
                  LaunchFails, Established, Waiting
    <2> QED BY <2>1, StepKeeps DEF Waiting
  <1>3. CASE CloseServer
    BY <1>3, QuietKeeps DEF CloseServer
  <1>4. CASE UNCHANGED vars
    BY <1>4, QuietKeeps DEF vars, approvals
  <1> QED
    BY <1>1, <1>2, <1>3, <1>4, ConnectKeeps, AsksApprovalKeeps DEF Next

\* remote-session-manager.ts:69: an approval of a deployment lets one call
\* through, for the target it was asked for, however many calls carry it.
THEOREM ApprovalsServeOnce == Spec => []ApprovalServesOnce
  <1>1. ASSUME ApprovalsInv, RemoteAssumption
        PROVE  ApprovalServesOnce
    <2>1. SUFFICES ASSUME NEW a \in Calls
                   PROVE  LET users == {c \in Calls : approved[c] = a} IN
                          /\ Cardinality(users) <= 1
                          /\ \A c \in users : TargetOf[c] = TargetOf[a]
      BY DEF ApprovalServesOnce
    <2> DEFINE users == {c \in Calls : approved[c] = a}
    <2>2. \A c \in users : TargetOf[c] = TargetOf[a]
      BY <1>1 DEF ApprovalsInv, RemoteAssumption
    <2>3. Cardinality(users) <= 1
      <3>1. CASE users = {}
        BY <3>1, FS_EmptySet
      <3>2. CASE users # {}
        <4>1. PICK c \in users : users = {c}
          BY <1>1, <3>2 DEF ApprovalsInv, RemoteAssumption
        <4> QED BY <4>1, FS_Singleton
      <3> QED BY <3>1, <3>2
    <2> QED BY <2>2, <2>3
  <1>2. ApprovalsInv /\ [Next]_vars => ApprovalsInv'
    BY NextApprovals, RemoteAssumption
  <1>3. Init => ApprovalsInv
    BY InitApprovals
  <1>4. ApprovalsInv => ApprovalServesOnce
    BY <1>1, RemoteAssumption
  <1> QED BY <1>2, <1>3, <1>4, PTL DEF Spec

-----------------------------------------------------------------------------
(* Who owns what.                                                          *)

LEMMA RemoveAtIs ==
    ASSUME NEW S, NEW seq \in Seq(S), NEW i \in DOMAIN seq
    PROVE  /\ RemoveAt(seq, i) \in Seq(S)
           /\ Len(RemoveAt(seq, i)) = Len(seq) - 1
           /\ \A j \in 1..(Len(seq) - 1) :
                 RemoveAt(seq, i)[j] = IF j < i THEN seq[j] ELSE seq[j + 1]
  <1> DEFINE front == SubSeq(seq, 1, i - 1)
             back == SubSeq(seq, i + 1, Len(seq))
  <1>1. i \in 1..Len(seq) /\ Len(seq) \in Nat
    BY LenProperties
  <1>2. \A k \in 1..Len(seq) : seq[k] \in S
    BY ElementOfSeq
  <1>3. /\ front \in Seq(S) /\ Len(front) = i - 1
        /\ \A j \in 1..(i - 1) : front[j] = seq[j]
    <2>1. \A k \in 1..(i - 1) : seq[k] \in S
      BY <1>1, <1>2
    <2>2. 1 \in Int /\ i - 1 \in Int
      BY <1>1
    <2> QED BY <2>1, <2>2, <1>1, SubSeqProperties
  <1>4. /\ back \in Seq(S) /\ Len(back) = Len(seq) - i
        /\ \A j \in 1..(Len(seq) - i) : back[j] = seq[j + i]
    <2>1. \A k \in (i + 1)..Len(seq) : seq[k] \in S
      BY <1>1, <1>2
    <2>2. i + 1 \in Int /\ Len(seq) \in Int
      BY <1>1
    <2> QED BY <2>1, <2>2, <1>1, SubSeqProperties
  <1>5. RemoveAt(seq, i) = front \o back
    BY DEF RemoveAt
  <1> HIDE DEF front, back
  <1>6. /\ front \o back \in Seq(S)
        /\ Len(front \o back) = Len(front) + Len(back)
        /\ \A j \in 1..(Len(front) + Len(back)) : (front \o back)[j] =
              IF j <= Len(front) THEN front[j] ELSE back[j - Len(front)]
    BY <1>3, <1>4, ConcatProperties
  <1>7. Len(front) + Len(back) = Len(seq) - 1
    BY <1>1, <1>3, <1>4
  <1>8. ASSUME NEW j \in 1..(Len(seq) - 1)
        PROVE  (front \o back)[j] = IF j < i THEN seq[j] ELSE seq[j + 1]
    <2>1. CASE j < i
      BY <2>1, <1>1, <1>3, <1>6, <1>7
    <2>2. CASE ~(j < i)
      <3>1. j - (i - 1) \in 1..(Len(seq) - i) /\ (j - (i - 1)) + i = j + 1
        BY <2>2, <1>1
      <3>2. (front \o back)[j] = back[j - (i - 1)]
        BY SMTT(20), <2>2, <1>1, <1>3, <1>6, <1>7
      <3> QED BY <3>1, <3>2, <2>2, <1>1, <1>4
    <2> QED BY <2>1, <2>2
  <1> QED BY <1>5, <1>6, <1>7, <1>8

\* What taking one element out of an injective sequence leaves.
LEMMA RemoveAtRange ==
    ASSUME NEW S, NEW seq \in Seq(S), IsInjective(seq), NEW i \in DOMAIN seq
    PROVE  /\ IsInjective(RemoveAt(seq, i))
           /\ Range(RemoveAt(seq, i)) = Range(seq) \ {seq[i]}
  <1> DEFINE rest == RemoveAt(seq, i)
  <1>1. /\ rest \in Seq(S) /\ Len(rest) = Len(seq) - 1
        /\ \A j \in 1..(Len(seq) - 1) :
              rest[j] = IF j < i THEN seq[j] ELSE seq[j + 1]
    BY RemoveAtIs
  <1> HIDE DEF rest
  <1>2. /\ Len(seq) \in Nat /\ DOMAIN seq = 1..Len(seq)
        /\ DOMAIN rest = 1..(Len(seq) - 1)
    BY <1>1, LenProperties
  <1>3. IsInjective(rest)
    <2>1. \A j, k \in DOMAIN seq : seq[j] = seq[k] => j = k
      BY DEF IsInjective
    <2>2. SUFFICES ASSUME NEW j \in 1..(Len(seq) - 1),
                          NEW k \in 1..(Len(seq) - 1), rest[j] = rest[k]
                   PROVE  j = k
      BY <1>2 DEF IsInjective
    <2>3. PICK m \in 1..Len(seq) :
             rest[j] = seq[m] /\ m = IF j < i THEN j ELSE j + 1
      BY <1>1, <1>2
    <2>4. PICK n \in 1..Len(seq) :
             rest[k] = seq[n] /\ n = IF k < i THEN k ELSE k + 1
      BY <1>1, <1>2
    <2>5. m = n
      BY <2>1, <2>2, <2>3, <2>4, <1>2
    <2> QED BY <2>3, <2>4, <2>5, <1>2
  <1>4. ASSUME NEW x \in Range(rest)
        PROVE  x \in Range(seq) \ {seq[i]}
    <2>1. PICK j \in 1..(Len(seq) - 1) : x = rest[j]
      BY <1>2 DEF Range
    <2> QED BY SMTT(20), <2>1, <1>1, <1>2 DEF Range, IsInjective
  <1>5. ASSUME NEW x \in Range(seq) \ {seq[i]}
        PROVE  x \in Range(rest)
    <2>1. PICK j \in 1..Len(seq) : x = seq[j] /\ j # i
      BY <1>2 DEF Range
    <2>2. CASE j < i
      <3>1. j \in 1..(Len(seq) - 1) /\ rest[j] = seq[j]
        BY <2>1, <2>2, <1>1, <1>2
      <3> QED BY <3>1, <2>1, <1>2 DEF Range
    <2>3. CASE j > i
      <3>1. j - 1 \in 1..(Len(seq) - 1) /\ rest[j - 1] = seq[j]
        BY <2>1, <2>3, <1>1, <1>2
      <3> QED BY <3>1, <2>1, <1>2 DEF Range
    <2> QED BY <2>1, <2>2, <2>3, <1>2
  <1> QED BY <1>3, <1>4, <1>5 DEF rest

LEMMA AppendRange ==
    ASSUME NEW S, NEW seq \in Seq(S), IsInjective(seq), NEW x \in S,
           x \notin Range(seq)
    PROVE  /\ Append(seq, x) \in Seq(S)
           /\ Len(Append(seq, x)) = Len(seq) + 1
           /\ IsInjective(Append(seq, x))
           /\ Range(Append(seq, x)) = Range(seq) \cup {x}
  <1>1. /\ Append(seq, x) \in Seq(S)
        /\ Len(Append(seq, x)) = Len(seq) + 1
        /\ \A i \in 1..Len(seq) : Append(seq, x)[i] = seq[i]
        /\ Append(seq, x)[Len(seq) + 1] = x
    BY AppendProperties
  <1>2. /\ Len(seq) \in Nat /\ DOMAIN seq = 1..Len(seq)
        /\ DOMAIN Append(seq, x) = 1..(Len(seq) + 1)
    BY <1>1, LenProperties
  <1>3. \A i \in 1..Len(seq) : seq[i] # x
    BY <1>2 DEF Range
  <1>4. IsInjective(Append(seq, x))
    <2> DEFINE longer == Append(seq, x)
    <2>1. /\ DOMAIN longer = 1..(Len(seq) + 1)
          /\ \A i \in 1..Len(seq) : longer[i] = seq[i]
          /\ longer[Len(seq) + 1] = x
      BY <1>1, <1>2
    <2> HIDE DEF longer
    <2>2. \A i, j \in DOMAIN longer : longer[i] = longer[j] => i = j
      BY <2>1, <1>2, <1>3 DEF IsInjective
    <2> QED BY <2>2 DEF IsInjective, longer
  <1>5. Range(Append(seq, x)) = Range(seq) \cup {x}
    <2>1. ASSUME NEW y \in Range(Append(seq, x))
          PROVE  y \in Range(seq) \cup {x}
      <3>1. PICK i \in 1..(Len(seq) + 1) : y = Append(seq, x)[i]
        BY <1>2 DEF Range
      <3> QED BY <3>1, <1>1, <1>2 DEF Range
    <2>2. ASSUME NEW y \in Range(seq) \cup {x}
          PROVE  y \in Range(Append(seq, x))
      <3>1. CASE y = x
        BY <3>1, <1>1, <1>2 DEF Range
      <3>2. CASE y \in Range(seq)
        <4>1. PICK i \in 1..Len(seq) : y = seq[i]
          BY <3>2, <1>2 DEF Range
        <4>2. i \in 1..(Len(seq) + 1) /\ Append(seq, x)[i] = y
          BY <4>1, <1>1, <1>2
        <4> QED BY <4>2, <1>2 DEF Range
      <3> QED BY <3>1, <3>2
    <2> QED BY <2>1, <2>2
  <1> QED BY <1>1, <1>4, <1>5

\* The registry of terminals: what is in it, and that it was completely made.
ListInv ==
    /\ terminals \in Seq(Calls) /\ IsInjective(terminals)
    /\ Len(terminals) <= MaxTerminals

States == Waiting \cup {"new", "done", "asked", "refused", "failed"}

OwnType ==
    /\ step \in [Calls -> States]
    /\ client \in [Calls -> {"none", "open", "lost", "closed"}]
    /\ pty \in [Calls -> {"none", "running", "exited", "killed"}]
    /\ sessions \cup remoteOf \cup Terminals \subseteq Calls

\* Whatever is open is owned: TLC checks the two properties, which with the
\* last conjunct are inductive.
OwnInv ==
    /\ OwnType
    /\ \A c \in Calls :
          client[c] = "open" => c \in sessions \/ step[c] = "inspecting"
    /\ SessionsFollowTerminals
    /\ \A c \in Terminals : step[c] = "done"

PendingInv ==
    /\ approved \in [Calls -> Calls \cup {None}]
    /\ pending \cup expired \subseteq Calls /\ down \in BOOLEAN
    /\ IsFiniteSet(pending) /\ Cardinality(pending) <= MaxPending

LEMMA ListOfCalls ==
    ASSUME ListInv
    PROVE  Terminals \subseteq Calls
  BY RangeOfSeq DEF ListInv, Terminals

\* register: the new terminal is in, and at most an exited one is out.
LEMMA RegisterIs ==
    ASSUME ListInv, RemoteAssumption, NEW c \in Calls, c \notin Terminals,
           Register(c)
    PROVE  /\ ListInv'
           /\ \E out \in SUBSET Terminals :
                 /\ Terminals' = (Terminals \ out) \cup {c}
                 /\ \A t \in out : pty[t] = "exited"
  <1> USE DEF Terminals
  <1>0. Len(terminals) \in Nat /\ MaxTerminals \in Nat \ {0}
    BY LenProperties DEF ListInv, RemoteAssumption
  <1>1. CASE Len(terminals) < MaxTerminals /\ terminals' = Append(terminals, c)
    <2>1. /\ ListInv' /\ Terminals' = (Terminals \ {}) \cup {c}
      BY <1>0, <1>1, AppendRange DEF ListInv
    <2>2. {} \in SUBSET Terminals /\ \A t \in {} : pty[t] = "exited"
      OBVIOUS
    <2> HIDE DEF Terminals
    <2> QED BY <2>1, <2>2
  <1>2. ASSUME NEW i \in DOMAIN terminals,
               Len(terminals) >= MaxTerminals, FirstExited(i),
               terminals' = Append(RemoveAt(terminals, i), c)
        PROVE  /\ ListInv'
               /\ \E out \in SUBSET Terminals :
                     /\ Terminals' = (Terminals \ out) \cup {c}
                     /\ \A t \in out : pty[t] = "exited"
    <2> DEFINE rest == RemoveAt(terminals, i)
    <2>1. /\ rest \in Seq(Calls) /\ Len(rest) = Len(terminals) - 1
          /\ IsInjective(rest) /\ Range(rest) = Terminals \ {terminals[i]}
      BY RemoveAtIs, RemoveAtRange DEF ListInv
    <2> HIDE DEF rest
    <2>2. terminals' = Append(rest, c)
      BY <1>2 DEF rest
    <2>3. c \notin Range(rest)
      BY <2>1
    <2>4. /\ Append(rest, c) \in Seq(Calls)
          /\ Len(Append(rest, c)) = Len(rest) + 1
          /\ IsInjective(Append(rest, c))
          /\ Range(Append(rest, c)) = Range(rest) \cup {c}
      BY <2>1, <2>3, AppendRange
    <2>5. ListInv'
      BY <2>1, <2>2, <2>4, <1>0 DEF ListInv
    <2>6. Terminals' = (Terminals \ {terminals[i]}) \cup {c}
      BY <2>1, <2>2, <2>4
    <2>7. terminals[i] \in Terminals /\ pty[terminals[i]] = "exited"
      BY <1>2 DEF FirstExited, Range
    <2> QED BY <2>5, <2>6, <2>7
  <1> QED BY <1>1, <1>2 DEF Register

LEMMA DeleteTerminalIs ==
    ASSUME ListInv, RemoteAssumption, NEW t \in Calls, DeleteTerminal(t)
    PROVE  ListInv' /\ t \in Terminals /\ Terminals' = Terminals \ {t}
  <1>1. PICK i \in DOMAIN terminals :
           terminals[i] = t /\ terminals' = RemoveAt(terminals, i)
    BY DEF DeleteTerminal
  <1>2. Len(terminals) \in Nat /\ MaxTerminals \in Nat
    BY LenProperties DEF ListInv, RemoteAssumption
  <1>3. /\ terminals' \in Seq(Calls) /\ Len(terminals') = Len(terminals) - 1
        /\ IsInjective(terminals') /\ Range(terminals') = Range(terminals) \ {t}
    BY <1>1, RemoveAtIs, RemoveAtRange DEF ListInv
  <1>4. t \in Terminals
    BY <1>1 DEF Terminals, Range
  <1>5. ListInv'
    BY <1>2, <1>3 DEF ListInv
  <1> QED BY <1>3, <1>4, <1>5 DEF Terminals

LEMMA OthersKeepList ==
    ASSUME ListInv, UNCHANGED terminals
    PROVE  ListInv' /\ Terminals' = Terminals
  BY DEF ListInv, Terminals

LEMMA InitOwn ==
    ASSUME Init, RemoteAssumption
    PROVE  OwnInv /\ ListInv /\ PendingInv
  <1>1. Len(<< >>) = 0 /\ << >> \in Seq(Calls)
    BY EmptySeq
  <1>2. DOMAIN << >> = {}
    OBVIOUS
  <1>3. Terminals = {} /\ IsInjective(terminals)
    BY <1>2 DEF Init, Terminals, Range, IsInjective
  <1>4. IsFiniteSet({}) /\ Cardinality({}) = 0
    BY FS_EmptySet
  <1>5. ListInv
    BY <1>1, <1>3 DEF Init, ListInv, RemoteAssumption
  <1>6. PendingInv
    <2>1. 0 <= MaxPending
      BY DEF RemoteAssumption
    <2>2. approved \in [Calls -> Calls \cup {None}] /\ down \in BOOLEAN
      BY DEF Init
    <2>3. pending = {} /\ expired = {}
      BY DEF Init
    <2> QED BY <1>4, <2>1, <2>2, <2>3 DEF PendingInv
  <1>7. OwnInv
    BY <1>3 DEF Init, OwnInv, OwnType, States, SessionsFollowTerminals, Remote
  <1> QED BY <1>5, <1>6, <1>7

\* A step that concerns none of the resources.
LEMMA QuietOwn ==
    ASSUME OwnInv, UNCHANGED <<remotes, pty, remoteOf, down>>,
           Terminals' = Terminals, step' \in [Calls -> States],
           \A c \in Calls : step'[c] # step[c] =>
              step[c] \in {"new", "connecting"}
    PROVE  OwnInv'
  BY DEF OwnInv, OwnType, SessionsFollowTerminals, remotes, Remote

LEMMA CreateLocalOwn ==
    ASSUME OwnInv, ListInv, RemoteAssumption, NEW c \in Calls, CreateLocal(c)
    PROVE  OwnInv' /\ ListInv'
  <1>1. KindOf[c] = "local" /\ step[c] = "new" /\ c \notin Terminals
    BY DEF CreateLocal, OwnInv
  <1>2. CASE ~HasRoom /\ To(c, "failed") /\ UNCHANGED <<pty, terminals>>
    <2>1. OwnInv'
      BY <1>1, <1>2, OthersKeepList, QuietOwn
         DEF CreateLocal, To, OwnInv, OwnType, States
    <2> QED BY <1>2, <2>1, OthersKeepList
  <1>3. CASE Register(c) /\ To(c, "done")
             /\ pty' = [pty EXCEPT ![c] = "running"]
    <2>1. PICK out \in SUBSET Terminals :
             /\ Terminals' = (Terminals \ out) \cup {c}
             /\ \A t \in out : pty[t] = "exited"
      BY <1>1, <1>3, RegisterIs
    <2>2. ListInv'
      BY <1>1, <1>3, RegisterIs
    <2>3. UNCHANGED <<client, sessions, remoteOf, down>>
      BY DEF CreateLocal, remotes
    <2>4. OwnInv'
      BY <1>1, <1>3, <2>1, <2>3
         DEF OwnInv, OwnType, States, SessionsFollowTerminals, Remote, To
    <2> QED BY <2>2, <2>4
  <1> QED BY <1>2, <1>3 DEF CreateLocal

LEMMA PtyExitsOwn ==
    ASSUME OwnInv, NEW c \in Calls, PtyExits(c)
    PROVE  OwnInv'
  <1>1. Terminals' = Terminals
    BY DEF PtyExits, Terminals
  <1> QED BY <1>1 DEF PtyExits, OwnInv, OwnType, SessionsFollowTerminals,
                      remotes, Remote

LEMMA ConnectsOwn ==
    ASSUME OwnInv, NEW c \in Calls, Connects(c)
    PROVE  OwnInv'
  <1>1. Terminals' = Terminals /\ UNCHANGED <<pty, remoteOf, down>>
    BY DEF Connects, Terminals, local
  <1>2. /\ step[c] = "connecting" /\ client' = [client EXCEPT ![c] = "open"]
        /\ \/ To(c, "inspecting") /\ UNCHANGED sessions
           \/ /\ sessions' = sessions \cup {c}
              /\ IF KindOf[c] = "remote" THEN To(c, "done")
                                         ELSE To(c, "launching")
    BY DEF Connects, Established
  <1> QED BY <1>1, <1>2
        DEF OwnInv, OwnType, SessionsFollowTerminals, Remote, To, States, Waiting

LEMMA InspectedOwn ==
    ASSUME OwnInv, NEW c \in Calls, Inspected(c)
    PROVE  OwnInv'
  <1>1. Terminals' = Terminals /\ UNCHANGED <<pty, remoteOf, down>>
    BY DEF Inspected, Terminals, local
  <1>2. /\ step[c] = "inspecting"
        /\ \/ /\ sessions' = sessions \cup {c} /\ UNCHANGED client
              /\ IF KindOf[c] = "remote" THEN To(c, "done")
                                         ELSE To(c, "launching")
           \/ /\ client' = [client EXCEPT ![c] = "closed"]
              /\ To(c, "failed") /\ UNCHANGED sessions
    BY DEF Inspected, Established, Dropped
  <1> QED BY <1>1, <1>2
        DEF OwnInv, OwnType, SessionsFollowTerminals, Remote, To, States, Waiting

LEMMA ClientIsLostOwn ==
    ASSUME OwnInv, NEW c \in Calls, ClientIsLost(c)
    PROVE  OwnInv'
  <1>1. Terminals' = Terminals
    BY DEF ClientIsLost, Terminals, local
  <1> QED BY <1>1 DEF ClientIsLost, OwnInv, OwnType, SessionsFollowTerminals,
                      local, Remote

LEMMA LaunchedOwn ==
    ASSUME OwnInv, ListInv, RemoteAssumption, NEW c \in Calls, Launched(c)
    PROVE  OwnInv' /\ ListInv'
  <1>1. /\ step[c] = "launching" /\ client[c] = "open" /\ c \in sessions
        /\ c \notin Terminals /\ pty' = [pty EXCEPT ![c] = "running"]
        /\ UNCHANGED down
    BY DEF Launched, OwnInv
  <1>2. CASE /\ Register(c) /\ remoteOf' = remoteOf \cup {c} /\ To(c, "done")
             /\ UNCHANGED remotes
    <2>1. PICK out \in SUBSET Terminals :
             /\ Terminals' = (Terminals \ out) \cup {c}
             /\ \A t \in out : pty[t] = "exited"
      BY <1>1, <1>2, RegisterIs
    <2>2. ListInv'
      BY <1>1, <1>2, RegisterIs
    <2>3. OwnInv'
      BY <1>1, <1>2, <2>1
         DEF OwnInv, OwnType, States, SessionsFollowTerminals, Remote, To, remotes
    <2> QED BY <2>2, <2>3
  <1>3. CASE Abandoned(c) /\ To(c, "refused") /\ UNCHANGED <<terminals, remoteOf>>
    <2>1. ListInv' /\ Terminals' = Terminals
      BY <1>3, OthersKeepList
    <2>2. OwnInv'
      BY <1>1, <1>3, <2>1
         DEF OwnInv, OwnType, States, SessionsFollowTerminals, Remote, To,
             Abandoned, Closed
    <2> QED BY <2>1, <2>2
  <1> QED BY <1>2, <1>3 DEF Launched

LEMMA LaunchFailsOwn ==
    ASSUME OwnInv, NEW c \in Calls, LaunchFails(c)
    PROVE  OwnInv'
  <1>1. Terminals' = Terminals /\ c \notin Terminals
    BY DEF LaunchFails, Terminals, local, OwnInv
  <1> QED BY <1>1
        DEF LaunchFails, OwnInv, OwnType, States, SessionsFollowTerminals, local,
            Remote, To, Abandoned, Closed

LEMMA DeleteTerminalOwn ==
    ASSUME OwnInv, ListInv, RemoteAssumption, NEW t \in Calls, DeleteTerminal(t)
    PROVE  OwnInv' /\ ListInv'
  <1>1. ListInv' /\ t \in Terminals /\ Terminals' = Terminals \ {t}
    BY DeleteTerminalIs
  <1>2. /\ Killed({t}) /\ Closed(Partner(t)) /\ remoteOf' = remoteOf \ {t}
        /\ UNCHANGED <<step, down>>
    BY DEF DeleteTerminal
  <1>3. OwnInv'
    BY <1>1, <1>2
       DEF OwnInv, OwnType, SessionsFollowTerminals, Remote, Closed, Partner, Killed
  <1> QED BY <1>1, <1>3

LEMMA DeleteRemoteOwn ==
    ASSUME OwnInv, NEW c \in Calls, DeleteRemote(c)
    PROVE  OwnInv'
  <1>1. Terminals' = Terminals
    BY DEF DeleteRemote, Terminals, local
  <1> QED BY <1>1 DEF DeleteRemote, OwnInv, OwnType, SessionsFollowTerminals,
                      local, Remote, Closed

LEMMA CloseServerOwn ==
    ASSUME OwnInv, ListInv, RemoteAssumption, CloseServer
    PROVE  OwnInv' /\ ListInv'
  <1>1. /\ terminals' = << >> /\ down' = TRUE /\ Killed(Terminals)
        /\ Closed(sessions) /\ UNCHANGED <<step, remoteOf>>
    BY DEF CloseServer
  <1>2. Len(<< >>) = 0 /\ << >> \in Seq(Calls) /\ DOMAIN << >> = {}
    BY EmptySeq
  <1>3. Terminals' = {} /\ IsInjective(terminals')
    BY <1>1, <1>2 DEF Terminals, Range, IsInjective
  <1>4. ListInv'
    BY <1>1, <1>2, <1>3 DEF ListInv, RemoteAssumption
  <1>5. OwnInv'
    BY <1>1, <1>3
       DEF OwnInv, OwnType, SessionsFollowTerminals, Remote, Closed, Killed
  <1> QED BY <1>4, <1>5

\* connect and its approvals, as far as the other registries go.
LEMMA ApprovalStepsOwn ==
    ASSUME OwnInv, ListInv, NEW c \in Calls,
           \/ AsksApproval(c) \/ ConnectFails(c) \/ ApprovalExpires(c)
           \/ \E a \in Offered : Connect(c, a)
    PROVE  OwnInv' /\ ListInv'
  <1>1. UNCHANGED <<remotes, pty, terminals, remoteOf, down>>
    BY DEF AsksApproval, ConnectFails, ApprovalExpires, Connect, local
  <1>2. \/ UNCHANGED step
        \/ /\ step[c] \in {"new", "connecting"}
           /\ \/ To(c, "asked") \/ To(c, "failed") \/ To(c, "connecting")
    BY DEF AsksApproval, ConnectFails, ApprovalExpires, Connect
  <1>3. step' \in [Calls -> States]
    BY <1>2 DEF To, OwnInv, OwnType, States, Waiting
  <1>4. \A d \in Calls : step'[d] # step[d] => step[d] \in {"new", "connecting"}
    BY <1>2 DEF To, OwnInv, OwnType
  <1>5. ListInv' /\ Terminals' = Terminals
    BY <1>1, OthersKeepList
  <1> QED BY <1>1, <1>3, <1>4, <1>5, QuietOwn

LEMMA NextOwn ==
    ASSUME OwnInv, ListInv, RemoteAssumption, [Next]_vars
    PROVE  OwnInv' /\ ListInv'
  <1>1. ASSUME NEW c \in Calls,
               PtyExits(c) \/ Connects(c) \/ Inspected(c) \/ ClientIsLost(c)
                 \/ LaunchFails(c) \/ DeleteRemote(c)
        PROVE  OwnInv' /\ ListInv'
    <2>1. UNCHANGED terminals
      BY <1>1 DEF PtyExits, Connects, Inspected, ClientIsLost, LaunchFails,
                  DeleteRemote, local
    <2> QED BY <1>1, <2>1, OthersKeepList, PtyExitsOwn, ConnectsOwn, InspectedOwn,
               ClientIsLostOwn, LaunchFailsOwn, DeleteRemoteOwn
  <1>2. CASE UNCHANGED vars
    <2>1. UNCHANGED <<step, remotes, pty, remoteOf, down, terminals>>
      BY <1>2 DEF vars, local
    <2>2. step' \in [Calls -> States]
      BY <2>1 DEF OwnInv, OwnType
    <2> QED BY <2>1, <2>2, OthersKeepList, QuietOwn
  <1> QED BY <1>1, <1>2, CreateLocalOwn, LaunchedOwn, DeleteTerminalOwn,
             CloseServerOwn, ApprovalStepsOwn DEF Next

LEMMA NextPending ==
    ASSUME PendingInv, RemoteAssumption, [Next]_vars
    PROVE  PendingInv'
  <1>0. MaxPending \in Nat \ {0}
    BY DEF RemoteAssumption
  <1>1. ASSUME pending' \subseteq pending, expired' \subseteq Calls,
               approved' \in [Calls -> Calls \cup {None}], down' \in BOOLEAN
        PROVE  PendingInv'
    <2>1. IsFiniteSet(pending') /\ Cardinality(pending') <= Cardinality(pending)
      BY <1>1, FS_Subset DEF PendingInv
    <2>2. Cardinality(pending') \in Nat /\ Cardinality(pending) \in Nat
      BY <2>1, FS_CardinalityType DEF PendingInv
    <2>3. Cardinality(pending') <= MaxPending
      BY <1>0, <2>1, <2>2 DEF PendingInv
    <2> QED BY <1>1, <2>1, <2>3 DEF PendingInv
  <1>2. ASSUME NEW c \in Calls, AsksApproval(c)
        PROVE  PendingInv'
    <2> DEFINE left == pending \ expired
    <2>1. UNCHANGED <<approved, expired, down>>
      BY <1>2 DEF AsksApproval
    <2>2. CASE pending' = left
      BY <1>1, <2>1, <2>2 DEF PendingInv
    <2>3. CASE Cardinality(left) < MaxPending /\ pending' = left \cup {c}
      <3>1. IsFiniteSet(left)
        BY FS_Subset DEF PendingInv
      <3>2. Cardinality(left) \in Nat
        BY <3>1, FS_CardinalityType
      <3>3. /\ IsFiniteSet(left \cup {c})
            /\ Cardinality(left \cup {c}) <= Cardinality(left) + 1
        BY SMTT(20), <3>1, <3>2, FS_AddElement
      <3>4. Cardinality(left \cup {c}) \in Nat
        BY <3>3, FS_CardinalityType
      <3>5. Cardinality(pending') <= MaxPending
        BY <1>0, <2>3, <3>2, <3>3, <3>4
      <3>6. IsFiniteSet(pending') /\ pending' \subseteq Calls
        BY <2>3, <3>3 DEF PendingInv
      <3> QED BY <2>1, <3>5, <3>6 DEF PendingInv
    <2> QED BY <1>2, <2>2, <2>3 DEF AsksApproval
  <1>3. ASSUME NEW c \in Calls, NEW a \in Offered, Connect(c, a)
        PROVE  PendingInv'
    <2>1. /\ pending' \subseteq pending /\ UNCHANGED <<expired, down>>
          /\ \/ UNCHANGED approved
             \/ approved' = [approved EXCEPT ![c] = a]
      BY <1>3 DEF Connect, approvals, PendingWithout
    <2>2. a \in Calls \cup {None}
      BY DEF Offered
    <2> QED BY <1>1, <2>1, <2>2 DEF PendingInv
  <1>4. ASSUME NEW c \in Calls, ApprovalExpires(c)
        PROVE  PendingInv'
    BY <1>1, <1>4 DEF ApprovalExpires, PendingInv
  <1>5. ASSUME NEW c \in Calls,
               \/ CreateLocal(c) \/ PtyExits(c) \/ ConnectFails(c)
               \/ Connects(c) \/ Inspected(c) \/ ClientIsLost(c) \/ Launched(c)
               \/ LaunchFails(c) \/ DeleteTerminal(c) \/ DeleteRemote(c)
        PROVE  PendingInv'
    <2>1. UNCHANGED <<approved, pending, expired, down>>
      BY <1>5 DEF CreateLocal, PtyExits, ConnectFails, Connects, Inspected,
                  ClientIsLost, Launched, LaunchFails, DeleteTerminal,
                  DeleteRemote, approvals
    <2> QED BY <1>1, <2>1 DEF PendingInv
  <1>6. CASE CloseServer
    BY <1>1, <1>6 DEF CloseServer, PendingInv
  <1>7. CASE UNCHANGED vars
    BY <1>1, <1>7 DEF vars, approvals, PendingInv
  <1> QED BY <1>2, <1>3, <1>4, <1>5, <1>6, <1>7 DEF Next

LEMMA OwnInvariant == Spec => [](OwnInv /\ ListInv /\ PendingInv)
  <1>1. Init => OwnInv /\ ListInv /\ PendingInv
    BY InitOwn, RemoteAssumption
  <1>2. OwnInv /\ ListInv /\ PendingInv /\ [Next]_vars
        => (OwnInv /\ ListInv /\ PendingInv)'
    BY NextOwn, NextPending, RemoteAssumption
  <1> QED BY <1>1, <1>2, PTL DEF Spec

\* remote-session-manager.ts:118: a connection that is open is in the
\* registry, where it can be closed, or belongs to a call that still looks at
\* its container. The limits of the registries hold, and no terminal is
\* registered twice.
THEOREM ConnectionsOwned == Spec => []ConnectionsAreOwned
  <1>1. OwnInv /\ ListInv /\ PendingInv => ConnectionsAreOwned
    BY DEF OwnInv, OwnType, States, ListInv, PendingInv, ConnectionsAreOwned,
           RemoteTypeOK
  <1> QED BY <1>1, OwnInvariant, PTL

\* server.ts:248: a terminal keeps the remote session it was made with, and
\* what was made for a terminal goes with it, except where the code leaves it.
THEOREM SessionsFollow == Spec => []SessionsFollowTerminals
  <1>1. OwnInv => SessionsFollowTerminals
    BY DEF OwnInv
  <1> QED BY <1>1, OwnInvariant, PTL

-----------------------------------------------------------------------------
(* WorkspaceTabs: what the operations on layouts and lists do.             *)

\* An element put into a sequence.
LEMMA InsertAtIs ==
    ASSUME NEW S, NEW seq \in Seq(S), NEW i \in 1..(Len(seq) + 1), NEW e \in S
    PROVE  /\ InsertAt(seq, i, e) \in Seq(S)
           /\ Len(InsertAt(seq, i, e)) = Len(seq) + 1
           /\ \A j \in 1..(Len(seq) + 1) :
                 InsertAt(seq, i, e)[j] = IF j < i THEN seq[j]
                                          ELSE IF j = i THEN e ELSE seq[j - 1]
  <1> DEFINE front == SubSeq(seq, 1, i - 1)
             one == <<e>>
             back == SubSeq(seq, i, Len(seq))
             start == front \o one
  <1>1. i \in Nat /\ i >= 1 /\ i <= Len(seq) + 1 /\ Len(seq) \in Nat
    BY LenProperties
  <1>2. \A k \in 1..Len(seq) : seq[k] \in S
    BY ElementOfSeq
  <1>3. /\ front \in Seq(S) /\ Len(front) = i - 1
        /\ \A j \in 1..(i - 1) : front[j] = seq[j]
    <2>1. \A k \in 1..(i - 1) : seq[k] \in S
      BY <1>1, <1>2
    <2>2. 1 \in Int /\ i - 1 \in Int
      BY <1>1
    <2> QED BY <2>1, <2>2, <1>1, SubSeqProperties
  <1>4. /\ back \in Seq(S) /\ Len(back) = Len(seq) - i + 1
        /\ \A j \in 1..(Len(seq) - i + 1) : back[j] = seq[j + i - 1]
    <2>1. \A k \in i..Len(seq) : seq[k] \in S
      BY <1>1, <1>2
    <2>2. i \in Int /\ Len(seq) \in Int
      BY <1>1
    <2> QED BY <2>1, <2>2, <1>1, SubSeqProperties
  <1>5. one \in Seq(S) /\ Len(one) = 1 /\ one[1] = e
    OBVIOUS
  <1>6. InsertAt(seq, i, e) = start \o back
    BY DEF InsertAt
  <1> HIDE DEF front, back, one
  <1>7. /\ start \in Seq(S) /\ Len(start) = i
        /\ \A j \in 1..i : start[j] = IF j < i THEN seq[j] ELSE e
    <2>1. /\ start \in Seq(S)
          /\ Len(start) = Len(front) + Len(one)
          /\ \A j \in 1..(Len(front) + Len(one)) : start[j] =
                IF j <= Len(front) THEN front[j] ELSE one[j - Len(front)]
      BY <1>3, <1>5, ConcatProperties
    <2>2. ASSUME NEW j \in 1..i
          PROVE  start[j] = IF j < i THEN seq[j] ELSE e
      <3>1. CASE j < i
        <4>1. j \in 1..(i - 1) /\ j <= Len(front) /\ j \in 1..(Len(front) + Len(one))
          BY <3>1, <1>1, <1>3, <1>5
        <4>2. start[j] = front[j] /\ front[j] = seq[j]
          BY <4>1, <2>1, <1>3
        <4> QED BY <3>1, <4>2
      <3>2. CASE ~(j < i)
        <4>1. j = i /\ j - Len(front) = 1 /\ ~(j <= Len(front))
          BY <3>2, <1>1, <1>3
        <4>2. j \in 1..(Len(front) + Len(one))
          BY <4>1, <1>1, <1>3, <1>5
        <4>3. start[j] = one[j - Len(front)]
          BY <2>1, <4>1, <4>2
        <4> QED BY <3>2, <4>1, <4>3, <1>5
      <3> QED BY <3>1, <3>2
    <2> QED BY <2>1, <2>2, <1>1, <1>3, <1>5
  <1> HIDE DEF start
  <1>8. /\ start \o back \in Seq(S)
        /\ Len(start \o back) = Len(start) + Len(back)
        /\ \A j \in 1..(Len(start) + Len(back)) : (start \o back)[j] =
              IF j <= Len(start) THEN start[j] ELSE back[j - Len(start)]
    BY <1>4, <1>7, ConcatProperties
  <1>9. Len(start) + Len(back) = Len(seq) + 1
    BY <1>1, <1>4, <1>7
  <1>10. ASSUME NEW j \in 1..(Len(seq) + 1)
         PROVE  (start \o back)[j] = IF j < i THEN seq[j]
                                     ELSE IF j = i THEN e ELSE seq[j - 1]
    <2>1. CASE j <= i
      <3>1. j \in 1..i /\ (start \o back)[j] = start[j]
        BY <2>1, <1>1, <1>7, <1>8, <1>9
      <3> QED BY <3>1, <1>1, <1>7
    <2>2. CASE ~(j <= i)
      <3>1. j - i \in 1..(Len(seq) - i + 1) /\ (j - i) + i - 1 = j - 1
        BY <2>2, <1>1
      <3>2. (start \o back)[j] = back[j - i]
        BY <2>2, <1>1, <1>7, <1>8, <1>9
      <3> QED BY SMTT(20), <3>1, <3>2, <2>2, <1>1, <1>4
    <2> QED BY <2>1, <2>2, <1>1
  <1> QED BY <1>6, <1>8, <1>9, <1>10

\* What one new element adds to an injective sequence.
LEMMA InsertAtRange ==
    ASSUME NEW S, NEW seq \in Seq(S), IsInjective(seq),
           NEW i \in 1..(Len(seq) + 1), NEW e \in S, e \notin Range(seq)
    PROVE  /\ IsInjective(InsertAt(seq, i, e))
           /\ Range(InsertAt(seq, i, e)) = Range(seq) \cup {e}
  <1> DEFINE longer == InsertAt(seq, i, e)
  <1>1. /\ longer \in Seq(S) /\ Len(longer) = Len(seq) + 1
        /\ \A j \in 1..(Len(seq) + 1) :
              longer[j] = IF j < i THEN seq[j] ELSE IF j = i THEN e ELSE seq[j - 1]
    BY InsertAtIs
  <1> HIDE DEF longer
  <1>2. /\ Len(seq) \in Nat /\ DOMAIN seq = 1..Len(seq)
        /\ DOMAIN longer = 1..(Len(seq) + 1)
    BY <1>1, LenProperties
  <1>3. \A j \in 1..Len(seq) : seq[j] # e
    BY <1>2 DEF Range
  <1>4. \A j, k \in 1..Len(seq) : seq[j] = seq[k] => j = k
    BY <1>2 DEF IsInjective
  <1>5. IsInjective(longer)
    <2>1. SUFFICES ASSUME NEW j \in 1..(Len(seq) + 1),
                          NEW k \in 1..(Len(seq) + 1), longer[j] = longer[k]
                   PROVE  j = k
      BY <1>2 DEF IsInjective
    <2>2. CASE j = i \/ k = i
      <3>1. \A m \in 1..(Len(seq) + 1) : m # i => longer[m] # e
        <4>1. ASSUME NEW m \in 1..(Len(seq) + 1), m # i
              PROVE  longer[m] # e
          <5>1. CASE m < i
            BY <5>1, <1>1, <1>2, <1>3
          <5>2. CASE ~(m < i)
            <6>1. m - 1 \in 1..Len(seq)
              BY <5>2, <4>1, <1>2
            <6> QED BY <6>1, <5>2, <4>1, <1>1, <1>3
          <5> QED BY <5>1, <5>2
        <4> QED BY <4>1
      <3>2. longer[i] = e
        BY <1>1, <1>2
      <3> QED BY <2>1, <2>2, <3>1, <3>2
    <2>3. CASE j # i /\ k # i
      <3>1. PICK m \in 1..Len(seq) :
               longer[j] = seq[m] /\ m = IF j < i THEN j ELSE j - 1
        BY <2>3, <1>1, <1>2
      <3>2. PICK n \in 1..Len(seq) :
               longer[k] = seq[n] /\ n = IF k < i THEN k ELSE k - 1
        BY <2>3, <1>1, <1>2
      <3>3. m = n
        BY <1>4, <2>1, <3>1, <3>2
      <3> QED BY <2>3, <3>1, <3>2, <3>3, <1>2
    <2> QED BY <2>2, <2>3
  <1>6. ASSUME NEW x \in Range(longer)
        PROVE  x \in Range(seq) \cup {e}
    <2>1. PICK j \in 1..(Len(seq) + 1) : x = longer[j]
      BY <1>2 DEF Range
    <2>2. CASE j < i
      BY <2>1, <2>2, <1>1, <1>2 DEF Range
    <2>3. CASE j = i
      BY <2>1, <2>3, <1>1
    <2>4. CASE j > i
      <3>1. j - 1 \in DOMAIN seq /\ x = seq[j - 1]
        BY <2>1, <2>4, <1>1, <1>2
      <3> QED BY <3>1 DEF Range
    <2> QED BY <2>2, <2>3, <2>4, <1>2
  <1>7. ASSUME NEW x \in Range(seq) \cup {e}
        PROVE  x \in Range(longer)
    <2>1. CASE x = e
      <3>1. i \in DOMAIN longer /\ longer[i] = x
        BY <2>1, <1>1, <1>2
      <3> QED BY <3>1 DEF Range
    <2>2. CASE x # e
      <3>1. PICK j \in 1..Len(seq) : x = seq[j]
        BY <2>2, <1>2 DEF Range
      <3>2. CASE j < i
        <4>1. j \in DOMAIN longer /\ longer[j] = x
          BY <3>1, <3>2, <1>1, <1>2
        <4> QED BY <4>1 DEF Range
      <3>3. CASE ~(j < i)
        <4>1. j + 1 \in 1..(Len(seq) + 1) /\ j + 1 > i /\ (j + 1) - 1 = j
          BY <3>3, <1>2
        <4>2. j + 1 \in DOMAIN longer /\ longer[j + 1] = x
          BY <4>1, <3>1, <1>1, <1>2
        <4> QED BY <4>2 DEF Range
      <3> QED BY <3>2, <3>3
    <2> QED BY <2>1, <2>2
  <1> QED BY <1>5, <1>6, <1>7 DEF longer

LayoutType == [panes : Seq(Panes), splits : SUBSET SUBSET Panes]

TabType == [id : Panes, layout : LayoutType, active : Panes]

LEMMA IndexOfPaneIs ==
    ASSUME NEW layout \in LayoutType, NEW pane \in Range(layout.panes)
    PROVE  /\ IndexOfPane(layout, pane) \in DOMAIN layout.panes
           /\ layout.panes[IndexOfPane(layout, pane)] = pane
  BY DEF IndexOfPane, Range

\* A split shows one pane more, and no pane twice.
LEMMA SplitPaneIs ==
    ASSUME NEW layout \in LayoutType, IsInjective(layout.panes),
           NEW at \in Range(layout.panes), NEW pane \in Panes \ Range(layout.panes)
    PROVE  /\ SplitPane(layout, at, pane) \in LayoutType
           /\ IsInjective(SplitPane(layout, at, pane).panes)
           /\ Range(SplitPane(layout, at, pane).panes) = Range(layout.panes) \cup {pane}
  <1> DEFINE i == IndexOfPane(layout, at) + 1
             order == InsertAt(layout.panes, i, pane)
             around == {{at, pane}} \cup
                       {IF at \in s THEN s \cup {pane} ELSE s : s \in layout.splits}
  <1>1. layout.panes \in Seq(Panes) /\ layout.splits \subseteq SUBSET Panes
    BY DEF LayoutType
  <1>2. at \in Panes
    BY <1>1, ElementOfSeq, LenProperties DEF Range
  <1>3. i \in 1..(Len(layout.panes) + 1)
    <2>1. DOMAIN layout.panes = 1..Len(layout.panes) /\ Len(layout.panes) \in Nat
      BY <1>1, LenProperties
    <2> QED BY <2>1, IndexOfPaneIs
  <1>4. SplitPane(layout, at, pane) = [panes |-> order, splits |-> around]
    BY DEF SplitPane, HasPane, FlattenPanes
  <1>5. around \subseteq SUBSET Panes
    BY <1>1, <1>2
  <1> HIDE DEF i, around
  <1>6. order \in Seq(Panes)
    BY <1>1, <1>3, InsertAtIs
  <1>7. IsInjective(order) /\ Range(order) = Range(layout.panes) \cup {pane}
    BY <1>1, <1>3, InsertAtRange
  <1> HIDE DEF order
  <1> QED BY <1>4, <1>5, <1>6, <1>7 DEF LayoutType

\* Removing a pane takes it and nothing else.
LEMMA RemovePaneIs ==
    ASSUME NEW layout \in LayoutType, IsInjective(layout.panes),
           NEW pane \in Range(layout.panes)
    PROVE  /\ RemovePane(layout, pane) \in LayoutType
           /\ IsInjective(RemovePane(layout, pane).panes)
           /\ Range(RemovePane(layout, pane).panes) = Range(layout.panes) \ {pane}
  <1> DEFINE i == IndexOfPane(layout, pane)
             order == RemoveAt(layout.panes, i)
             around == {s \in {t \ {pane} : t \in layout.splits} : \E a, b \in s : a # b}
  <1>1. layout.panes \in Seq(Panes) /\ layout.splits \subseteq SUBSET Panes
    BY DEF LayoutType
  <1>2. i \in DOMAIN layout.panes /\ layout.panes[i] = pane
    BY IndexOfPaneIs
  <1>3. RemovePane(layout, pane) = [panes |-> order, splits |-> around]
    BY DEF RemovePane, HasPane, FlattenPanes
  <1>4. around \subseteq SUBSET Panes
    BY <1>1
  <1> HIDE DEF i, around
  <1>5. order \in Seq(Panes)
    BY <1>1, <1>2, RemoveAtIs
  <1>6. IsInjective(order) /\ Range(order) = Range(layout.panes) \ {pane}
    BY <1>1, <1>2, RemoveAtRange
  <1> HIDE DEF order
  <1> QED BY <1>3, <1>4, <1>5, <1>6 DEF LayoutType

\* A layout is empty when it shows no pane; else its first pane is one of it.
LEMMA EmptyLayout ==
    ASSUME NEW layout \in LayoutType
    PROVE  /\ IsEmpty(layout) <=> Range(layout.panes) = {}
           /\ ~IsEmpty(layout) => FlattenPanes(layout)[1] \in Range(layout.panes)
  <1>1. layout.panes \in Seq(Panes)
    BY DEF LayoutType
  <1>2. /\ DOMAIN layout.panes = 1..Len(layout.panes) /\ Len(layout.panes) \in Nat
        /\ layout.panes = << >> <=> Len(layout.panes) = 0
    BY <1>1, LenProperties, EmptySeq
  <1>3. CASE layout.panes = << >>
    BY <1>2, <1>3 DEF Range, IsEmpty, FlattenPanes
  <1>4. CASE layout.panes # << >>
    <2>1. 1 \in DOMAIN layout.panes
      BY <1>2, <1>4
    <2> QED BY <2>1, <1>4 DEF Range, IsEmpty, FlattenPanes
  <1> QED BY <1>3, <1>4

\* A split is shared by two panes at least, all of this layout.
SplitsAreShared(layout) ==
    \A s \in layout.splits : s \subseteq Range(layout.panes) /\ \E a, b \in s : a # b

LEMMA SplitPaneShares ==
    ASSUME NEW layout \in LayoutType, IsInjective(layout.panes), SplitsAreShared(layout),
           NEW at \in Range(layout.panes), NEW pane \in Panes \ Range(layout.panes)
    PROVE  SplitsAreShared(SplitPane(layout, at, pane))
  <1> DEFINE after == SplitPane(layout, at, pane)
  <1>1. Range(after.panes) = Range(layout.panes) \cup {pane}
    BY SplitPaneIs
  <1>2. after.splits = {{at, pane}} \cup
                       {IF at \in s THEN s \cup {pane} ELSE s : s \in layout.splits}
    BY DEF SplitPane, HasPane, FlattenPanes
  <1> HIDE DEF after
  <1>3. ASSUME NEW s \in layout.splits, NEW t, t = IF at \in s THEN s \cup {pane} ELSE s
        PROVE  t \subseteq Range(after.panes) /\ \E a, b \in t : a # b
    <2>1. s \subseteq Range(layout.panes) /\ \E a, b \in s : a # b
      BY DEF SplitsAreShared
    <2>2. s \subseteq t /\ t \subseteq s \cup {pane}
      BY <1>3
    <2> QED BY <2>1, <2>2, <1>1
  <1>4. at # pane
    OBVIOUS
  <1>5. {at, pane} \subseteq Range(after.panes) /\ \E a, b \in {at, pane} : a # b
    BY <1>1, <1>4
  <1>6. \A t \in after.splits : t \subseteq Range(after.panes) /\ \E a, b \in t : a # b
    BY <1>2, <1>3, <1>5
  <1> QED BY <1>6 DEF SplitsAreShared, after

LEMMA RemovePaneShares ==
    ASSUME NEW layout \in LayoutType, IsInjective(layout.panes), SplitsAreShared(layout),
           NEW pane \in Range(layout.panes)
    PROVE  SplitsAreShared(RemovePane(layout, pane))
  <1> DEFINE after == RemovePane(layout, pane)
  <1>1. Range(after.panes) = Range(layout.panes) \ {pane}
    BY RemovePaneIs
  <1>2. after.splits = {s \in {t \ {pane} : t \in layout.splits} : \E a, b \in s : a # b}
    BY DEF RemovePane, HasPane, FlattenPanes
  <1> HIDE DEF after
  <1>3. \A t \in layout.splits : t \ {pane} \subseteq Range(after.panes)
    BY <1>1 DEF SplitsAreShared
  <1>4. \A s \in after.splits : s \subseteq Range(after.panes) /\ \E a, b \in s : a # b
    BY <1>2, <1>3
  <1> QED BY <1>4 DEF SplitsAreShared, after

\* terminal-layout.ts:83: removePane undoes splitPane. The split the new pane
\* was put in collapses to the pane that was there, and every other split is as
\* it was: for every layout, pane and place.
THEOREM SplitUndone ==
    ASSUME NEW layout \in LayoutType, IsInjective(layout.panes), SplitsAreShared(layout),
           NEW at \in Range(layout.panes), NEW pane \in Panes \ Range(layout.panes)
    PROVE  RemovePane(SplitPane(layout, at, pane), pane) = layout
  <1> DEFINE i == IndexOfPane(layout, at) + 1
             split == SplitPane(layout, at, pane)
             k == IndexOfPane(split, pane)
             order == InsertAt(layout.panes, i, pane)
             With(s) == IF at \in s THEN s \cup {pane} ELSE s
             around == {{at, pane}} \cup {With(s) : s \in layout.splits}
             undone == RemovePane(split, pane)
  <1>1. /\ layout.panes \in Seq(Panes) /\ layout.splits \subseteq SUBSET Panes
        /\ layout = [panes |-> layout.panes, splits |-> layout.splits]
    BY DEF LayoutType
  <1>2. DOMAIN layout.panes = 1..Len(layout.panes) /\ Len(layout.panes) \in Nat
    BY <1>1, LenProperties
  <1>3. i \in 1..(Len(layout.panes) + 1)
    BY <1>2, IndexOfPaneIs
  <1>4. split = [panes |-> order, splits |-> around]
    BY DEF SplitPane, HasPane, FlattenPanes
  <1>5. /\ split \in LayoutType /\ IsInjective(split.panes)
        /\ Range(split.panes) = Range(layout.panes) \cup {pane}
    BY SplitPaneIs
  <1>6. k \in DOMAIN split.panes /\ split.panes[k] = pane
    BY <1>5, IndexOfPaneIs
  <1> HIDE DEF i, split, k
  <1>7. undone = [panes |-> RemoveAt(split.panes, k),
                  splits |-> {s \in {t \ {pane} : t \in split.splits} :
                                \E a, b \in s : a # b}]
    BY <1>5 DEF RemovePane, HasPane, FlattenPanes, k
  <1>8. /\ order \in Seq(Panes) /\ Len(order) = Len(layout.panes) + 1
        /\ \A j \in 1..(Len(layout.panes) + 1) :
             order[j] = IF j < i THEN layout.panes[j]
                        ELSE IF j = i THEN pane ELSE layout.panes[j - 1]
    <2> DEFINE before == layout.panes
    <2>1. before \in Seq(Panes) /\ i \in 1..(Len(before) + 1)
      BY <1>1, <1>3
    <2> HIDE DEF before
    <2>2. /\ InsertAt(before, i, pane) \in Seq(Panes)
          /\ Len(InsertAt(before, i, pane)) = Len(before) + 1
          /\ \A j \in 1..(Len(before) + 1) :
               InsertAt(before, i, pane)[j] = IF j < i THEN before[j]
                                              ELSE IF j = i THEN pane ELSE before[j - 1]
      BY <2>1, InsertAtIs
    <2> QED BY <2>2 DEF before
  <1> HIDE DEF order, around, undone
  <1>9. split.panes = order /\ split.splits = around
    BY <1>4
  <1>10. k = i
    <2>1. order[i] = pane /\ i \in DOMAIN order
      BY <1>2, <1>3, <1>8, LenProperties
    <2> QED BY <2>1, <1>5, <1>6, <1>9 DEF IsInjective
  <1>11. RemoveAt(order, i) = layout.panes
    <2> DEFINE shorter == RemoveAt(order, i)
    <2>1. i \in DOMAIN order
      BY <1>3, <1>8, LenProperties
    <2>2. /\ shorter \in Seq(Panes) /\ Len(shorter) = Len(order) - 1
          /\ \A j \in 1..(Len(order) - 1) :
               shorter[j] = IF j < i THEN order[j] ELSE order[j + 1]
      BY <2>1, <1>8, RemoveAtIs
    <2> HIDE DEF shorter
    <2>3. Len(shorter) = Len(layout.panes)
      BY <2>2, <1>2, <1>8
    <2>4. ASSUME NEW j \in 1..Len(layout.panes)
          PROVE  shorter[j] = layout.panes[j]
      <3>1. CASE j < i
        BY <3>1, <2>2, <1>2, <1>3, <1>8
      <3>2. CASE ~(j < i)
        <4>1. shorter[j] = order[j + 1]
          BY <3>2, <2>2, <1>2, <1>8
        <4>2. j + 1 \in 1..(Len(layout.panes) + 1) /\ ~(j + 1 < i) /\ j + 1 # i
          BY <3>2, <1>2, <1>3
        <4>3. order[j + 1] = layout.panes[(j + 1) - 1]
          BY <4>2, <1>8
        <4>4. (j + 1) - 1 = j
          BY <1>2
        <4> QED BY <4>1, <4>3, <4>4
      <3> QED BY <3>1, <3>2
    <2> QED BY <2>2, <2>3, <2>4, <1>1, SeqEqual DEF shorter
  <1>12. {s \in {t \ {pane} : t \in around} : \E a, b \in s : a # b} = layout.splits
    <2>1. \A s \in layout.splits : With(s) \ {pane} = s /\ \E a, b \in s : a # b
      BY DEF SplitsAreShared
    <2>2. {at, pane} \ {pane} = {at}
      OBVIOUS
    <2> HIDE DEF With
    <2>3. {t \ {pane} : t \in around} = {{at}} \cup layout.splits
      <3>1. {t \ {pane} : t \in around}
              = {{at, pane} \ {pane}} \cup {With(s) \ {pane} : s \in layout.splits}
        BY DEF around
      <3>2. {With(s) \ {pane} : s \in layout.splits} = layout.splits
        BY <2>1
      <3> QED BY <3>1, <3>2, <2>2
    <2> QED BY <2>1, <2>3
  <1>13. undone = [panes |-> layout.panes, splits |-> layout.splits]
    BY <1>7, <1>9, <1>10, <1>11, <1>12
  <1> QED BY <1>1, <1>13 DEF undone, split

\* The places that are kept are numbered without a gap.
LEMMA Ranks ==
    ASSUME NEW n \in Nat, NEW S \in SUBSET (1..n)
    PROVE  /\ Cardinality(S) \in Nat
           /\ \A i \in S : Cardinality({j \in S : j <= i}) \in 1..Cardinality(S)
           /\ \A i, k \in S : Cardinality({j \in S : j <= i})
                                = Cardinality({j \in S : j <= k}) => i = k
           /\ \A m \in 1..Cardinality(S) :
                \E i \in S : Cardinality({j \in S : j <= i}) = m
  <1> DEFINE Below(i) == {j \in S : j <= i}
  <1>1. IsFiniteSet(S) /\ Cardinality(S) \in Nat
    <2>1. IsFiniteSet(1..n)
      <3>1. 1 \in Int /\ n \in Int
        OBVIOUS
      <3> QED BY <3>1, FS_Interval
    <2> QED BY <2>1, FS_Subset, FS_CardinalityType
  <1>2. ASSUME NEW i \in S
        PROVE  Cardinality(Below(i)) \in 1..Cardinality(S)
    <2>1. Below(i) \in SUBSET S /\ i \in Below(i)
      OBVIOUS
    <2> HIDE DEF Below
    <2>2. /\ IsFiniteSet(Below(i)) /\ Cardinality(Below(i)) <= Cardinality(S)
          /\ Cardinality(Below(i)) \in Nat
      BY <1>1, <2>1, FS_Subset, FS_CardinalityType
    <2>3. Cardinality(Below(i)) # 0
      BY <2>1, <2>2, FS_EmptySet
    <2> QED BY <1>1, <2>2, <2>3
  <1>3. ASSUME NEW i \in S, NEW k \in S, i < k,
               Cardinality(Below(i)) = Cardinality(Below(k))
        PROVE  FALSE
    <2>1. Below(i) \in SUBSET Below(k) /\ k \in Below(k) /\ k \notin Below(i)
      <3>1. S \subseteq Int
        OBVIOUS
      <3>2. i \in Int /\ k \in Int /\ i < k
        BY <1>3, <3>1
      <3>3. ~(k <= i) /\ k <= k /\ \A j \in S : j <= i => j <= k
        BY <3>1, <3>2
      <3> QED BY <3>3
    <2>2. Below(k) \in SUBSET S
      OBVIOUS
    <2> HIDE DEF Below
    <2>3. IsFiniteSet(Below(k))
      BY <1>1, <2>2, FS_Subset
    <2> QED BY <1>3, <2>1, <2>3, FS_Subset
  <1>4. ASSUME NEW i \in S, NEW k \in S, Cardinality(Below(i)) = Cardinality(Below(k))
        PROVE  i = k
    <2>1. i < k \/ k < i \/ i = k
      OBVIOUS
    <2> HIDE DEF Below
    <2> QED BY <2>1, <1>3, <1>4
  <1>5. ASSUME NEW m \in 1..Cardinality(S)
        PROVE  \E i \in S : Cardinality(Below(i)) = m
    <2> DEFINE T == 1..Cardinality(S)
               rank == [i \in S |-> Cardinality(Below(i))]
    <2>1. IsFiniteSet(T) /\ Cardinality(T) = Cardinality(S)
      <3>1. /\ IsFiniteSet(1..Cardinality(S))
            /\ Cardinality(1..Cardinality(S)) =
                 IF 1 > Cardinality(S) THEN 0 ELSE Cardinality(S) - 1 + 1
        BY SMTT(20), <1>1, FS_Interval
      <3> QED BY <3>1, <1>1
    <2> HIDE DEF Below, T
    <2>2. rank \in [S -> T]
      BY <1>2 DEF T
    <2>3. \A i, k \in S : rank[i] = rank[k] => i = k
      BY <1>4
    <2>4. DOMAIN rank = S
      OBVIOUS
    <2>5. rank \in Injection(S, T)
      BY <2>2, <2>3, <2>4 DEF Injection, IsInjective
    <2>6. rank \in Surjection(S, T)
      BY <2>1, <2>5, FS_Injection
    <2>7. \E i \in S : rank[i] = m
      BY <2>6 DEF Surjection, T
    <2> QED BY <2>7
  <1> QED BY <1>1, <1>2, <1>4, <1>5

\* The elements at some places of a list.
LEMMA KeptIs ==
    ASSUME NEW T, NEW ts \in Seq(T), NEW places \in SUBSET DOMAIN ts
    PROVE  /\ Kept(ts, places) \in Seq(T)
           /\ Len(Kept(ts, places)) = Cardinality(places)
           /\ Range(Kept(ts, places)) = {ts[i] : i \in places}
           /\ \E f \in [DOMAIN Kept(ts, places) -> places] :
                /\ IsInjective(f)
                /\ \A k \in DOMAIN Kept(ts, places) : Kept(ts, places)[k] = ts[f[k]]
  <1> DEFINE n == Cardinality(places)
             Rank(i) == Cardinality({j \in places : j <= i})
             f == [k \in 1..n |-> CHOOSE i \in places : Rank(i) = k]
             kept == Kept(ts, places)
  <1>1. DOMAIN ts = 1..Len(ts) /\ Len(ts) \in Nat /\ \A i \in DOMAIN ts : ts[i] \in T
    BY LenProperties, ElementOfSeq
  <1>2. /\ n \in Nat
        /\ \A i \in places : Rank(i) \in 1..n
        /\ \A i, k \in places : Rank(i) = Rank(k) => i = k
        /\ \A m \in 1..n : \E i \in places : Rank(i) = m
    BY <1>1, Ranks
  <1>3. kept = [k \in 1..n |-> ts[f[k]]]
    BY DEF Kept
  <1> HIDE DEF n, Rank, kept
  <1>4. \A k \in 1..n : f[k] \in places /\ Rank(f[k]) = k
    BY <1>2
  <1>5. f \in [1..n -> places]
    BY <1>4
  <1> HIDE DEF f
  <1>6. \A i \in places : f[Rank(i)] = i
    BY <1>2, <1>4
  <1>7. IsInjective(f)
    BY <1>4, <1>5 DEF IsInjective
  <1>8. kept \in [1..n -> T]
    BY <1>1, <1>3, <1>4
  <1>9. kept \in Seq(T) /\ Len(kept) = n /\ DOMAIN kept = 1..n
    BY <1>2, <1>8, IsASeq, LenProperties
  <1>10. Range(kept) = {ts[i] : i \in places}
    <2>1. ASSUME NEW x \in Range(kept)
          PROVE  x \in {ts[i] : i \in places}
      BY <1>3, <1>4, <1>9 DEF Range
    <2>2. ASSUME NEW i \in places
          PROVE  ts[i] \in Range(kept)
      <3>1. Rank(i) \in 1..n /\ kept[Rank(i)] = ts[i]
        BY <1>2, <1>3, <1>6
      <3> QED BY <3>1, <1>9 DEF Range
    <2> QED BY <2>1, <2>2
  <1>11. \A k \in DOMAIN kept : kept[k] = ts[f[k]]
    BY <1>3, <1>9
  <1>12. f \in [DOMAIN kept -> places]
    BY <1>5, <1>9
  <1> QED BY <1>7, <1>9, <1>10, <1>11, <1>12 DEF n, kept

\* A tab as the page makes it: it shows no pane twice, no split is left with one
\* pane, and the active pane is one of the tab.
SoundTab(tab) ==
    /\ tab \in TabType
    /\ IsInjective(tab.layout.panes) /\ SplitsAreShared(tab.layout)
    /\ tab.active \in PanesOf(tab)

\* A list in which no two tabs have one name or a pane in common.
Sound(ts) ==
    /\ ts \in Seq(TabType)
    /\ \A i \in DOMAIN ts : SoundTab(ts[i])
    /\ \A i, j \in DOMAIN ts : i # j =>
         ts[i].id # ts[j].id /\ PanesOf(ts[i]) \cap PanesOf(ts[j]) = {}

\* What a list shows depends on its tabs only.
LEMMA ShownBy ==
    ASSUME NEW ts
    PROVE  /\ AllPanes(ts) = UNION {PanesOf(tab) : tab \in Range(ts)}
           /\ TabIds(ts) = {tab.id : tab \in Range(ts)}
  BY DEF AllPanes, TabIds, Range

LEMMA TabOfIs ==
    ASSUME NEW ts, NEW id \in TabIds(ts)
    PROVE  /\ IndexOf(ts, id) \in DOMAIN ts
           /\ TabOf(ts, id) = ts[IndexOf(ts, id)]
           /\ TabOf(ts, id).id = id
           /\ PanesOf(TabOf(ts, id)) \subseteq AllPanes(ts)
           /\ Sound(ts) => \A i \in DOMAIN ts : ts[i].id = id => i = IndexOf(ts, id)
           /\ Sound(ts) => SoundTab(TabOf(ts, id))
  <1>1. IndexOf(ts, id) \in DOMAIN ts /\ ts[IndexOf(ts, id)].id = id
    BY DEF IndexOf, TabIds
  <1> QED BY <1>1 DEF TabOf, Sound, AllPanes

LEMMA KeptSound ==
    ASSUME NEW ts, Sound(ts), NEW places \in SUBSET DOMAIN ts
    PROVE  /\ Sound(Kept(ts, places))
           /\ Range(Kept(ts, places)) = {ts[i] : i \in places}
           /\ Len(Kept(ts, places)) = Cardinality(places)
  <1> DEFINE kept == Kept(ts, places)
  <1>1. ts \in Seq(TabType)
    BY DEF Sound
  <1>2. /\ kept \in Seq(TabType)
        /\ Len(kept) = Cardinality(places)
        /\ Range(kept) = {ts[i] : i \in places}
    BY <1>1, KeptIs
  <1>3. PICK f \in [DOMAIN kept -> places] :
           /\ IsInjective(f)
           /\ \A k \in DOMAIN kept : kept[k] = ts[f[k]]
    BY <1>1, KeptIs
  <1> HIDE DEF kept
  <1>4. \A k \in DOMAIN kept : f[k] \in DOMAIN ts
    BY <1>3
  <1>5. \A k, m \in DOMAIN kept : k # m => f[k] # f[m]
    BY <1>3 DEF IsInjective
  <1>6. Sound(kept)
    BY <1>2, <1>3, <1>4, <1>5 DEF Sound
  <1> QED BY <1>2, <1>6 DEF kept

\* The list without a tab.
LEMMA Filtered ==
    ASSUME NEW ts, Sound(ts), NEW id \in TabIds(ts),
           NEW next, next = Kept(ts, {i \in DOMAIN ts : ts[i].id # id})
    PROVE  /\ Sound(next)
           /\ AllPanes(next) = AllPanes(ts) \ PanesOf(TabOf(ts, id))
           /\ TabIds(next) = TabIds(ts) \ {id}
           /\ \A i \in DOMAIN next : next[i].id \in TabIds(next)
  <1> DEFINE places == {i \in DOMAIN ts : ts[i].id # id}
  <1>1. places \in SUBSET DOMAIN ts
    OBVIOUS
  <1>2. Sound(next) /\ Range(next) = {ts[i] : i \in places}
    BY <1>1, KeptSound
  <1>3. /\ AllPanes(next) = UNION {PanesOf(ts[i]) : i \in places}
        /\ TabIds(next) = {ts[i].id : i \in places}
    BY <1>2, ShownBy
  <1>4. TabIds(next) = TabIds(ts) \ {id}
    BY <1>3 DEF TabIds
  <1>5. /\ IndexOf(ts, id) \in DOMAIN ts /\ TabOf(ts, id) = ts[IndexOf(ts, id)]
        /\ \A i \in DOMAIN ts : i \in places <=> i # IndexOf(ts, id)
    BY TabOfIs
  <1>6. \A i \in places : PanesOf(ts[i]) \cap PanesOf(TabOf(ts, id)) = {}
    BY <1>5 DEF Sound
  <1>7. AllPanes(next) = AllPanes(ts) \ PanesOf(TabOf(ts, id))
    <2> HIDE DEF places
    <2>1. ASSUME NEW pane \in AllPanes(next)
          PROVE  pane \in AllPanes(ts) \ PanesOf(TabOf(ts, id))
      BY <1>1, <1>3, <1>6 DEF AllPanes
    <2>2. ASSUME NEW pane \in AllPanes(ts) \ PanesOf(TabOf(ts, id))
          PROVE  pane \in AllPanes(next)
      <3>1. PICK i \in DOMAIN ts : pane \in PanesOf(ts[i])
        BY DEF AllPanes
      <3>2. i \in places
        BY <1>5, <3>1
      <3> QED BY <1>3, <3>1, <3>2
    <2> QED BY <2>1, <2>2
  <1> QED BY <1>2, <1>4, <1>7 DEF TabIds

\* The list with a tab for a new pane.
LEMMA WithTab ==
    ASSUME NEW ts, Sound(ts), NEW pane \in Panes,
           pane \notin AllPanes(ts) \cup TabIds(ts),
           NEW next, next = Append(ts, TabFor(pane))
    PROVE  /\ Sound(next)
           /\ AllPanes(next) = AllPanes(ts) \cup {pane}
           /\ TabIds(next) = TabIds(ts) \cup {pane}
  <1> DEFINE tab == TabFor(pane)
             one == <<pane>>
  <1>1. ts \in Seq(TabType)
    BY DEF Sound
  <1>2. one \in Seq(Panes) /\ Len(one) = 1 /\ one[1] = pane /\ DOMAIN one = {1}
    OBVIOUS
  <1>3. tab = [id |-> pane, layout |-> [panes |-> one, splits |-> {}], active |-> pane]
    BY DEF TabFor, PaneLayout
  <1> HIDE DEF one, tab
  <1>4. /\ tab \in TabType /\ tab.id = pane /\ tab.active = pane
        /\ tab.layout.panes = one /\ tab.layout.splits = {}
    BY <1>2, <1>3 DEF TabType, LayoutType
  <1>5. PanesOf(tab) = {pane} /\ IsInjective(one)
    BY <1>2, <1>4 DEF PanesOf, FlattenPanes, Range, IsInjective
  <1>6. SoundTab(tab)
    BY <1>4, <1>5 DEF SoundTab, SplitsAreShared
  <1>7. /\ next \in Seq(TabType) /\ Len(next) = Len(ts) + 1
        /\ \A i \in 1..Len(ts) : next[i] = ts[i]
        /\ next[Len(ts) + 1] = tab
    BY <1>1, <1>4, AppendProperties DEF tab
  <1>8. /\ Len(ts) \in Nat /\ DOMAIN ts = 1..Len(ts)
        /\ DOMAIN next = 1..(Len(ts) + 1)
    BY <1>1, <1>7, LenProperties
  <1> DEFINE last == Len(ts) + 1
  <1>9. /\ DOMAIN next = DOMAIN ts \cup {last} /\ last \notin DOMAIN ts
        /\ \A i \in DOMAIN ts : next[i] = ts[i]
        /\ next[last] = tab
    BY <1>7, <1>8
  <1> HIDE DEF last
  <1>10. \A i \in DOMAIN ts : ts[i].id # pane /\ pane \notin PanesOf(ts[i])
    BY DEF AllPanes, TabIds
  <1>11. Sound(next)
    <2>1. \A i \in DOMAIN next : SoundTab(next[i])
      BY <1>6, <1>9 DEF Sound
    <2>2. ASSUME NEW i \in DOMAIN next, NEW j \in DOMAIN next, i # j
          PROVE  next[i].id # next[j].id /\ PanesOf(next[i]) \cap PanesOf(next[j]) = {}
      <3>1. CASE i \in DOMAIN ts /\ j \in DOMAIN ts
        BY <2>2, <3>1, <1>9 DEF Sound
      <3>2. CASE i = last /\ j \in DOMAIN ts
        BY <3>2, <1>4, <1>5, <1>9, <1>10
      <3>3. CASE i \in DOMAIN ts /\ j = last
        BY <3>3, <1>4, <1>5, <1>9, <1>10
      <3> QED BY <2>2, <3>1, <3>2, <3>3, <1>9
    <2> QED BY <2>1, <2>2, <1>7 DEF Sound
  <1>12. AllPanes(next) = AllPanes(ts) \cup {pane}
    <2>1. {PanesOf(next[i]) : i \in DOMAIN next}
            = {PanesOf(ts[i]) : i \in DOMAIN ts} \cup {{pane}}
      BY <1>5, <1>9
    <2> QED BY <2>1 DEF AllPanes
  <1>13. TabIds(next) = TabIds(ts) \cup {pane}
    BY <1>4, <1>9 DEF TabIds
  <1> QED BY <1>11, <1>12, <1>13

\* The list with another tab in the place of one of the same name.
LEMMA WithChanged ==
    ASSUME NEW ts, Sound(ts), NEW id \in TabIds(ts),
           NEW tab, SoundTab(tab), tab.id = id,
           (PanesOf(tab) \ PanesOf(TabOf(ts, id))) \cap AllPanes(ts) = {},
           NEW next, next = Changed(ts, id, tab)
    PROVE  /\ Sound(next)
           /\ AllPanes(next) = (AllPanes(ts) \ PanesOf(TabOf(ts, id))) \cup PanesOf(tab)
           /\ TabIds(next) = TabIds(ts)
  <1> DEFINE at == IndexOf(ts, id)
             old == TabOf(ts, id)
  <1>1. /\ at \in DOMAIN ts /\ old = ts[at] /\ ts[at].id = id
        /\ \A i \in DOMAIN ts : ts[i].id = id <=> i = at
    BY TabOfIs
  <1>2. ts \in Seq(TabType) /\ DOMAIN ts = 1..Len(ts) /\ Len(ts) \in Nat
    BY LenProperties DEF Sound
  <1>3. next = [i \in DOMAIN ts |-> IF i = at THEN tab ELSE ts[i]]
    BY <1>1 DEF Changed
  <1> HIDE DEF at, old
  <1>4. \A i \in DOMAIN ts : ts[i] \in TabType
    BY <1>2, ElementOfSeq
  <1>5. next \in [1..Len(ts) -> TabType]
    BY <1>2, <1>3, <1>4 DEF SoundTab
  <1>6. next \in Seq(TabType) /\ DOMAIN next = DOMAIN ts
    BY <1>2, <1>5, SeqDef
  <1>7. /\ next[at] = tab
        /\ \A i \in DOMAIN ts : i # at => next[i] = ts[i]
    BY <1>1, <1>3
  <1>8. \A i \in DOMAIN ts : i # at => /\ ts[i].id # id
                                       /\ PanesOf(ts[i]) \cap PanesOf(old) = {}
                                       /\ PanesOf(ts[i]) \subseteq AllPanes(ts)
    BY <1>1 DEF Sound, AllPanes
  <1>9. \A i \in DOMAIN ts : i # at => PanesOf(ts[i]) \cap PanesOf(tab) = {}
    BY <1>8 DEF old
  <1>10. Sound(next)
    <2>1. \A i \in DOMAIN next : SoundTab(next[i])
      BY <1>6, <1>7 DEF Sound
    <2>2. ASSUME NEW i \in DOMAIN ts, NEW j \in DOMAIN ts, i # j
          PROVE  next[i].id # next[j].id /\ PanesOf(next[i]) \cap PanesOf(next[j]) = {}
      <3>1. CASE i # at /\ j # at
        BY <2>2, <3>1, <1>7 DEF Sound
      <3>2. CASE i = at
        BY <2>2, <3>2, <1>7, <1>8, <1>9
      <3>3. CASE j = at
        BY <2>2, <3>3, <1>7, <1>8, <1>9
      <3> QED BY <3>1, <3>2, <3>3
    <2> QED BY <2>1, <2>2, <1>6 DEF Sound
  <1>11. TabIds(next) = TabIds(ts)
    <2>1. \A i \in DOMAIN ts : next[i].id = ts[i].id
      BY <1>1, <1>7
    <2> QED BY <2>1, <1>6 DEF TabIds
  <1>12. ASSUME NEW pane \in AllPanes(next)
         PROVE  pane \in (AllPanes(ts) \ PanesOf(old)) \cup PanesOf(tab)
    <2>1. PICK i \in DOMAIN ts : pane \in PanesOf(next[i])
      BY <1>6 DEF AllPanes
    <2>2. CASE i = at
      BY <2>1, <2>2, <1>7
    <2>3. CASE i # at
      BY <2>1, <2>3, <1>7, <1>8
    <2> QED BY <2>2, <2>3
  <1>13. ASSUME NEW pane \in (AllPanes(ts) \ PanesOf(old)) \cup PanesOf(tab)
         PROVE  pane \in AllPanes(next)
    <2>1. CASE pane \in PanesOf(tab)
      BY <2>1, <1>1, <1>6, <1>7 DEF AllPanes
    <2>2. CASE pane \in AllPanes(ts) \ PanesOf(old)
      <3>1. PICK i \in DOMAIN ts : pane \in PanesOf(ts[i])
        BY <2>2 DEF AllPanes
      <3>2. i # at
        BY <2>2, <3>1, <1>1
      <3> QED BY <3>1, <3>2, <1>6, <1>7 DEF AllPanes
    <2> QED BY <2>1, <2>2
  <1> QED BY <1>10, <1>11, <1>12, <1>13 DEF old

\* A list is read back as it is, but for the layouts that are too deep.
LEMMA ParsedIs ==
    ASSUME NEW ts, Sound(ts)
    PROVE  /\ Sound(Parsed(ts))
           /\ Range(Parsed(ts)) = {tab \in Range(ts) : Restorable(tab.layout)}
           /\ Len(Parsed(ts)) = Len(ts) => Range(Parsed(ts)) = Range(ts)
  <1> DEFINE places == {i \in DOMAIN ts : Restorable(ts[i].layout)}
             kept == Kept(ts, places)
  <1>1. places \in SUBSET DOMAIN ts
    OBVIOUS
  <1>2. Sound(kept) /\ Range(kept) = {ts[i] : i \in places} /\ Len(kept) = Cardinality(places)
    BY <1>1, KeptSound
  <1>3. Parsed(ts) = [i \in DOMAIN kept |-> ParsedTab(kept[i])]
    BY DEF Parsed
  <1>4. ASSUME NEW tab, SoundTab(tab)
        PROVE  ParsedTab(tab) = tab
    <2>1. HasPane(tab.layout, tab.active) /\ tab \in TabType
      BY <1>4 DEF SoundTab, PanesOf, HasPane
    <2>2. ParsedTab(tab) = [tab EXCEPT !.active = tab.active]
      BY <2>1 DEF ParsedTab
    <2> QED BY <2>1, <2>2 DEF TabType
  <1>5. \A i \in DOMAIN kept : ParsedTab(kept[i]) = kept[i]
    BY <1>2, <1>4 DEF Sound
  <1> HIDE DEF kept
  <1>6. kept \in Seq(TabType) /\ kept = [i \in DOMAIN kept |-> kept[i]]
    <2>1. kept \in Seq(TabType)
      BY <1>2 DEF Sound
    <2> QED BY <2>1, LenProperties
  <1>7. Parsed(ts) = kept
    BY <1>3, <1>5, <1>6
  <1>8. Range(kept) = {tab \in Range(ts) : Restorable(tab.layout)}
    BY <1>2 DEF Range
  <1>9. ASSUME Len(kept) = Len(ts)
        PROVE  Range(kept) = Range(ts)
    <2>1. ts \in Seq(TabType)
      BY DEF Sound
    <2>2. DOMAIN ts = 1..Len(ts) /\ Len(ts) \in Nat
      BY <2>1, LenProperties
    <2>3. IsFiniteSet(DOMAIN ts) /\ Cardinality(DOMAIN ts) = Len(ts)
      <3>1. 1 \in Int /\ Len(ts) \in Int
        BY <2>2
      <3>2. /\ IsFiniteSet(1..Len(ts))
            /\ Cardinality(1..Len(ts)) = IF 1 > Len(ts) THEN 0 ELSE Len(ts) - 1 + 1
        BY <3>1, FS_Interval
      <3> QED BY <3>2, <2>2
    <2> HIDE DEF places
    <2>4. places = DOMAIN ts
      BY <1>1, <1>2, <1>9, <2>3, FS_Subset
    <2> QED BY <1>2, <2>4 DEF Range
  <1> QED BY <1>2, <1>7, <1>8, <1>9

-----------------------------------------------------------------------------
(* WorkspaceTabs: the lists of the page and of the handlers that wait.     *)

WorkType == [kind : {"none", "add", "split", "closePane", "closeTab"},
             tabs : Seq(TabType), active : Panes \cup {Nothing},
             tab : Panes \cup {Nothing}, pane : Panes \cup {Nothing},
             left : SUBSET Panes]

TabsTypeOK ==
    /\ activeId \in Panes \cup {Nothing}
    /\ core \subseteq used /\ used \subseteq Panes
    /\ work \in [Handlers -> WorkType]
    /\ quiet \in BOOLEAN

Lists == {tabs, stored} \cup {work[h].tabs : h \in Handlers}

Shown(ts) == AllPanes(ts) \cup TabIds(ts)

\* Every list there is is sound and shows terminals of the Core, past or
\* present; the page shows nothing that is not stored.
ListsAreSound ==
    /\ \A ts \in Lists : Sound(ts) /\ Shown(ts) \subseteq used
    /\ Range(tabs) \subseteq Range(stored)

\* What a handler works on is in the list it saw, and a terminal that was
\* created for it is in no list and for nobody else.
WorkIsSound(h) ==
    /\ work[h].kind \in {"split", "closePane", "closeTab"} =>
         work[h].tab \in TabIds(work[h].tabs)
    /\ work[h].kind \in {"split", "closePane"} =>
         work[h].pane \in PanesOf(TabOf(work[h].tabs, work[h].tab))
    /\ Creating(h) => \A pane \in work[h].left :
         /\ work[h].left = {pane} /\ pane \in used
         /\ \A ts \in Lists : pane \notin Shown(ts)
         /\ \A g \in Handlers \ {h} : Creating(g) => pane \notin work[g].left

TabsInv ==
    TabsTypeOK /\ ListsAreSound /\ \A h \in Handlers : WorkIsSound(h)

\* The panes a handler closes.
Closing(h) ==
    IF work[h].kind = "closePane" THEN {work[h].pane}
    ELSE PanesOf(TabOf(work[h].tabs, work[h].tab))

\* On a quiet page one handler waits at most. It saw what is there, and the
\* Core differs from the page by what was created for it or closed by it.
QuietInv ==
    quiet =>
      /\ Range(stored) = Range(tabs)
      /\ activeId \in TabIds(tabs) \/ tabs = << >>
      /\ Busy = {} => core = AllPanes(tabs)
      /\ \A h \in Busy :
           /\ Busy = {h}
           /\ work[h].tabs = tabs /\ work[h].active = activeId
           /\ IF Creating(h) THEN core = AllPanes(tabs) \cup work[h].left
              ELSE /\ work[h].left \subseteq Closing(h)
                   /\ core = AllPanes(tabs) \ (Closing(h) \ work[h].left)

LEMMA EmptyList == Sound(<< >>) /\ Shown(<< >>) = {} /\ Range(<< >>) = {}
  <1>1. << >> \in Seq(TabType) /\ DOMAIN << >> = {}
    OBVIOUS
  <1> QED BY <1>1 DEF Sound, Shown, AllPanes, TabIds, Range

LEMMA InitLists ==
    ASSUME TabsInit
    PROVE  TabsInv /\ QuietInv
  <1>1. \A h \in Handlers : work[h] = Idle /\ ~Creating(h)
    BY DEF TabsInit, Idle, Creating
  <1>2. Idle \in WorkType
    BY EmptyList DEF Idle, WorkType, Sound
  <1>3. TabsTypeOK
    BY <1>2 DEF TabsInit, TabsTypeOK
  <1>4. \A ts \in Lists : ts = << >>
    BY <1>1 DEF TabsInit, Lists, Idle
  <1>5. ListsAreSound
    BY <1>4, EmptyList DEF ListsAreSound, TabsInit
  <1>6. \A h \in Handlers : WorkIsSound(h)
    BY <1>1 DEF WorkIsSound, Idle
  <1>7. Busy = {} /\ AllPanes(tabs) = {}
    BY <1>1, EmptyList DEF Busy, Idle, TabsInit, Shown
  <1> QED BY <1>3, <1>5, <1>6, <1>7 DEF TabsInv, QuietInv, TabsInit

\* A step that puts at most one new list in the place of others.
LEMMA ListsKeep ==
    ASSUME TabsInv, used \subseteq used',
           NEW next, Sound(next), Shown(next) \subseteq used',
           Lists' \subseteq Lists \cup {next, << >>},
           Range(tabs') \subseteq Range(stored')
    PROVE  ListsAreSound'
  <1>1. \A ts \in Lists : Sound(ts) /\ Shown(ts) \subseteq used
    BY DEF TabsInv, ListsAreSound
  <1>2. \A ts \in Lists' : Sound(ts) /\ Shown(ts) \subseteq used'
    BY <1>1, EmptyList
  <1> QED BY <1>2 DEF ListsAreSound

\* A handler that does not take part in a step.
LEMMA OthersKeep ==
    ASSUME TabsInv, used \subseteq used',
           NEW h \in Handlers, NEW g \in Handlers, g # h,
           \A i \in Handlers \ {h} : work'[i] = work[i],
           NEW next, Lists' \subseteq Lists \cup {next, << >>},
           Creating(g) => work[g].left \cap Shown(next) = {},
           Creating(g) /\ Creating(h)' => work[g].left \cap work'[h].left = {}
    PROVE  WorkIsSound(g)'
  <1>1. WorkIsSound(g)
    BY DEF TabsInv
  <1>2. work'[g] = work[g] /\ Creating(g)' = Creating(g)
    BY DEF Creating
  <1>3. \A i \in Handlers \ {h} : work'[i] = work[i] /\ Creating(i)' = Creating(i)
    BY DEF Creating
  <1>4. ASSUME Creating(g), NEW pane \in work[g].left
        PROVE  /\ work[g].left = {pane} /\ pane \in used'
               /\ \A ts \in Lists' : pane \notin Shown(ts)
               /\ \A i \in Handlers \ {g} : Creating(i)' => pane \notin work'[i].left
    <2>1. /\ work[g].left = {pane} /\ pane \in used
          /\ \A ts \in Lists : pane \notin Shown(ts)
          /\ \A i \in Handlers \ {g} : Creating(i) => pane \notin work[i].left
      BY <1>1, <1>4 DEF WorkIsSound
    <2>2. \A ts \in Lists' : pane \notin Shown(ts)
      BY <2>1, <1>4, EmptyList
    <2>3. ASSUME NEW i \in Handlers \ {g}, Creating(i)'
          PROVE  pane \notin work'[i].left
      BY <2>1, <2>3, <1>3, <1>4
    <2> QED BY <2>1, <2>2, <2>3
  <1> QED BY <1>1, <1>2, <1>4 DEF WorkIsSound

\* A handler that is done.
LEMMA IdleIsSound ==
    ASSUME NEW h \in Handlers, work'[h] = Idle
    PROVE  WorkIsSound(h)' /\ ~Creating(h)' /\ work'[h].tabs = << >>
  BY DEF WorkIsSound, Creating, Idle

LEMMA TypeOfWork ==
    ASSUME TabsTypeOK, NEW h \in Handlers, NEW w \in WorkType,
           work' = [work EXCEPT ![h] = w]
    PROVE  /\ work' \in [Handlers -> WorkType]
           /\ work'[h] = w
           /\ \A g \in Handlers \ {h} : work'[g] = work[g]
  BY DEF TabsTypeOK

LEMMA EndsIs ==
    ASSUME TabsTypeOK, NEW h \in Handlers, Ends(h)
    PROVE  /\ work' \in [Handlers -> WorkType]
           /\ work'[h] = Idle
           /\ \A g \in Handlers \ {h} : work'[g] = work[g]
  <1>1. Idle \in WorkType
    BY EmptyList DEF Idle, WorkType, Sound
  <1>2. work' = [work EXCEPT ![h] = Idle]
    BY DEF Ends
  <1> QED BY <1>1, <1>2, TypeOfWork

\* A handler that ends and puts its list in the place of what there is.
LEMMA ListWritten ==
    ASSUME TabsInv, NEW h \in Handlers, Ends(h),
           NEW next, Sound(next), PersistTabs(next),
           Shown(next) \subseteq
             Shown(work[h].tabs) \cup IF Creating(h) THEN work[h].left ELSE {},
           activeId' \in Panes \cup {Nothing},
           UNCHANGED <<core, used, quiet>>
    PROVE  TabsInv'
  <1>1. TabsTypeOK
    BY DEF TabsInv
  <1>2. /\ work' \in [Handlers -> WorkType]
        /\ work'[h] = Idle /\ work'[h].tabs = << >>
        /\ \A g \in Handlers \ {h} : work'[g] = work[g]
    BY <1>1, EndsIs, IdleIsSound
  <1>3. tabs' = next /\ stored' = next
    BY DEF PersistTabs
  <1>4. TabsTypeOK'
    BY <1>1, <1>2 DEF TabsTypeOK
  <1>5. Lists' \subseteq Lists \cup {next, << >>}
    BY <1>2, <1>3 DEF Lists
  <1>6. work[h].tabs \in Lists
    BY DEF Lists
  <1>7. Shown(next) \subseteq used
    BY <1>6 DEF TabsInv, ListsAreSound, WorkIsSound
  <1>8. ListsAreSound'
    BY <1>3, <1>5, <1>7, ListsKeep
  <1>9. ASSUME NEW g \in Handlers
        PROVE  WorkIsSound(g)'
    <2>1. CASE g = h
      BY <2>1, <1>2, IdleIsSound
    <2>2. CASE g # h
      <3>1. ~Creating(h)'
        BY <1>2, IdleIsSound
      <3>2. Creating(g) => work[g].left \cap Shown(next) = {}
        BY <2>2, <1>6 DEF TabsInv, WorkIsSound
      <3> QED BY <2>2, <3>1, <3>2, <1>2, <1>5, OthersKeep
    <2> QED BY <2>1, <2>2
  <1> QED BY <1>4, <1>8, <1>9 DEF TabsInv

-----------------------------------------------------------------------------
(* A handler is called, and waits.                                         *)

LEMMA WaitsLists ==
    ASSUME TabsInv, NEW h \in Handlers, NEW kind, NEW tab, NEW pane, NEW left,
           kind \in {"add", "split", "closePane", "closeTab"},
           tab \in Panes \cup {Nothing}, pane \in Panes \cup {Nothing},
           left \in SUBSET Panes,
           kind \in {"add", "split"} => left = {},
           kind # "add" => tab \in TabIds(tabs),
           kind \in {"split", "closePane"} => pane \in PanesOf(TabOf(tabs, tab)),
           Waits(h, kind, tab, pane, left), Quiet,
           UNCHANGED <<tabs, activeId, stored, core, used>>
    PROVE  TabsInv'
  <1> DEFINE w == [kind |-> kind, tabs |-> tabs, tab |-> tab,
                   active |-> activeId, pane |-> pane, left |-> left]
  <1>1. TabsTypeOK /\ tabs \in Lists /\ Sound(tabs)
    BY DEF TabsInv, ListsAreSound, Lists
  <1>2. w \in WorkType
    BY <1>1 DEF WorkType, TabsTypeOK, Sound
  <1>3. work' = [work EXCEPT ![h] = w]
    BY DEF Waits
  <1> HIDE DEF w
  <1>4. /\ work' \in [Handlers -> WorkType] /\ work'[h] = w
        /\ \A g \in Handlers \ {h} : work'[g] = work[g]
    BY <1>1, <1>2, <1>3, TypeOfWork
  <1>5. TabsTypeOK'
    BY <1>1, <1>4 DEF TabsTypeOK, Quiet
  <1>6. w.tabs = tabs
    BY DEF w
  <1>7. Lists' \subseteq Lists \cup {tabs, << >>}
    BY <1>4, <1>6 DEF Lists
  <1>8. ListsAreSound'
    <2>1. Shown(tabs) \subseteq used' /\ Range(tabs') \subseteq Range(stored')
      BY <1>1 DEF TabsInv, ListsAreSound
    <2> QED BY <2>1, <1>1, <1>7, ListsKeep
  <1>9. Creating(h)' => work'[h].left = {}
    BY <1>4 DEF Creating, w
  <1>10. WorkIsSound(h)'
    BY <1>4, <1>9 DEF WorkIsSound, w
  <1>11. ASSUME NEW g \in Handlers, g # h
         PROVE  WorkIsSound(g)'
    <2>1. Creating(g) => work[g].left \cap Shown(tabs) = {}
      BY <1>1 DEF TabsInv, WorkIsSound
    <2> QED BY <2>1, <1>4, <1>7, <1>9, <1>11, OthersKeep
  <1> QED BY <1>5, <1>8, <1>10, <1>11 DEF TabsInv

\* On a page that stays quiet nobody else waits.
LEMMA WaitsQuiet ==
    ASSUME TabsInv, QuietInv, NEW h \in Handlers,
           NEW kind, NEW tab, NEW pane, NEW left,
           kind \in {"add", "split", "closePane", "closeTab"},
           Waits(h, kind, tab, pane, left), Quiet,
           kind \in {"add", "split"} => left = {},
           kind = "closePane" => left = {pane},
           kind = "closeTab" => left = PanesOf(TabOf(tabs, tab)),
           UNCHANGED <<tabs, activeId, stored, core, used>>
    PROVE  QuietInv'
  <1>1. SUFFICES ASSUME quiet'
                 PROVE  QuietInv'
    BY DEF QuietInv
  <1>2. quiet /\ Busy = {}
    BY <1>1 DEF Quiet
  <1>3. /\ Range(stored) = Range(tabs) /\ core = AllPanes(tabs)
        /\ activeId \in TabIds(tabs) \/ tabs = << >>
    BY <1>2 DEF QuietInv
  <1>4. work'[h] = [kind |-> kind, tabs |-> tabs, tab |-> tab,
                    active |-> activeId, pane |-> pane, left |-> left]
    BY DEF Waits, TabsInv, TabsTypeOK
  <1>5. \A g \in Handlers \ {h} : work'[g].kind = "none"
    BY <1>2 DEF Waits, TabsInv, TabsTypeOK, Busy
  <1>6. Busy' = {h}
    BY <1>4, <1>5 DEF Busy
  <1>7. IF Creating(h)' THEN left = {} ELSE left = Closing(h)'
    BY <1>4 DEF Creating, Closing
  <1> QED BY <1>3, <1>4, <1>6, <1>7 DEF QuietInv

\* The calls that make a handler wait.
LEMMA AddTerminalKeeps ==
    ASSUME TabsInv, NEW h \in Handlers, AddTerminal(h)
    PROVE  TabsInv' /\ (QuietInv => QuietInv')
  <1>1. /\ Waits(h, "add", Nothing, Nothing, {}) /\ Quiet
        /\ UNCHANGED <<tabs, activeId, stored, core, used>>
    BY DEF AddTerminal
  <1> QED BY <1>1, WaitsLists, WaitsQuiet

\* The tabs and panes a handler can be called for.
LEMMA TabShown ==
    ASSUME TabsInv, NEW i \in DOMAIN tabs
    PROVE  /\ tabs[i].id \in TabIds(tabs) /\ tabs[i].id \in Panes
           /\ TabOf(tabs, tabs[i].id) = tabs[i]
           /\ PanesOf(tabs[i]) \in SUBSET Panes
           /\ SoundTab(tabs[i])
  <1>1. Sound(tabs)
    BY DEF TabsInv, ListsAreSound, Lists
  <1>2. tabs[i].id \in TabIds(tabs)
    BY DEF TabIds
  <1>3. SoundTab(tabs[i])
    BY <1>1 DEF Sound
  <1>4. tabs[i].layout.panes \in Seq(Panes) /\ tabs[i].id \in Panes
    BY <1>3 DEF SoundTab, TabType, LayoutType
  <1>5. PanesOf(tabs[i]) \in SUBSET Panes
    BY <1>4, RangeOfSeq DEF PanesOf, FlattenPanes
  <1> QED BY <1>1, <1>2, <1>3, <1>4, <1>5, TabOfIs

LEMMA SplitTerminalKeeps ==
    ASSUME TabsInv, NEW h \in Handlers, NEW i \in DOMAIN tabs,
           NEW pane \in PanesOf(tabs[i]), SplitTerminal(h, tabs[i], pane)
    PROVE  TabsInv' /\ (QuietInv => QuietInv')
  <1>1. /\ Waits(h, "split", tabs[i].id, pane, {}) /\ Quiet
        /\ UNCHANGED <<tabs, activeId, stored, core, used>>
    BY DEF SplitTerminal
  <1>2. /\ tabs[i].id \in TabIds(tabs) /\ tabs[i].id \in Panes /\ pane \in Panes
        /\ pane \in PanesOf(TabOf(tabs, tabs[i].id))
    BY TabShown
  <1> QED BY <1>1, <1>2, WaitsLists, WaitsQuiet

LEMMA ClosePaneKeeps ==
    ASSUME TabsInv, NEW h \in Handlers, NEW i \in DOMAIN tabs,
           NEW pane \in PanesOf(tabs[i]), ClosePane(h, tabs[i], pane)
    PROVE  TabsInv' /\ (QuietInv => QuietInv')
  <1>1. /\ Waits(h, "closePane", tabs[i].id, pane, {pane}) /\ Quiet
        /\ UNCHANGED <<tabs, activeId, stored, core, used>>
    BY DEF ClosePane
  <1>2. /\ tabs[i].id \in TabIds(tabs) /\ tabs[i].id \in Panes /\ pane \in Panes
        /\ pane \in PanesOf(TabOf(tabs, tabs[i].id)) /\ {pane} \in SUBSET Panes
    BY TabShown
  <1> QED BY <1>1, <1>2, WaitsLists, WaitsQuiet

LEMMA CloseTerminalKeeps ==
    ASSUME TabsInv, NEW h \in Handlers, NEW i \in DOMAIN tabs,
           CloseTerminal(h, tabs[i])
    PROVE  TabsInv' /\ (QuietInv => QuietInv')
  <1>1. /\ Waits(h, "closeTab", tabs[i].id, Nothing, PanesOf(tabs[i])) /\ Quiet
        /\ UNCHANGED <<tabs, activeId, stored, core, used>>
    BY DEF CloseTerminal
  <1>2. /\ tabs[i].id \in TabIds(tabs) /\ tabs[i].id \in Panes
        /\ PanesOf(tabs[i]) \in SUBSET Panes
        /\ TabOf(tabs, tabs[i].id) = tabs[i]
    BY TabShown
  <1> QED BY <1>1, <1>2, WaitsLists, WaitsQuiet

-----------------------------------------------------------------------------
(* The Core.                                                               *)

\* What a handler waits for changes, and what it saw does not.
LEMMA LeftChanges ==
    ASSUME TabsInv, NEW h \in Handlers, NEW left \in SUBSET Panes,
           work' = [work EXCEPT ![h].left = left],
           tabs' = tabs, stored' = stored
    PROVE  /\ work' \in [Handlers -> WorkType]
           /\ work'[h] = [work[h] EXCEPT !.left = left]
           /\ work'[h].left = left
           /\ \A g \in Handlers \ {h} : work'[g] = work[g]
           /\ \A g \in Handlers : /\ work'[g].kind = work[g].kind
                                  /\ work'[g].tabs = work[g].tabs
                                  /\ work'[g].tab = work[g].tab
                                  /\ work'[g].pane = work[g].pane
                                  /\ work'[g].active = work[g].active
           /\ Lists' = Lists /\ Busy' = Busy
  <1>1. work \in [Handlers -> WorkType] /\ work[h] \in WorkType
    BY DEF TabsInv, TabsTypeOK
  <1>2. [work[h] EXCEPT !.left = left] \in WorkType
    BY <1>1 DEF WorkType
  <1>3. work' = [work EXCEPT ![h] = [work[h] EXCEPT !.left = left]]
    BY <1>1
  <1>4. /\ work' \in [Handlers -> WorkType]
        /\ work'[h] = [work[h] EXCEPT !.left = left]
        /\ \A g \in Handlers \ {h} : work'[g] = work[g]
    BY <1>1, <1>2, <1>3
  <1>5. /\ work'[h].left = left /\ work'[h].kind = work[h].kind
        /\ work'[h].tabs = work[h].tabs /\ work'[h].tab = work[h].tab
        /\ work'[h].pane = work[h].pane /\ work'[h].active = work[h].active
    BY <1>1, <1>4 DEF WorkType
  <1>6. \A g \in Handlers : /\ work'[g].kind = work[g].kind
                            /\ work'[g].tabs = work[g].tabs
                            /\ work'[g].tab = work[g].tab
                            /\ work'[g].pane = work[g].pane
                            /\ work'[g].active = work[g].active
    BY <1>4, <1>5
  <1>7. Lists' = Lists /\ Busy' = Busy
    BY <1>6 DEF Lists, Busy
  <1> QED BY <1>4, <1>5, <1>6, <1>7

LEMMA CoreCreatesKeeps ==
    ASSUME TabsInv, NEW h \in Handlers, NEW pane \in Panes, CoreCreates(h, pane)
    PROVE  TabsInv' /\ (QuietInv => QuietInv')
  <1>1. /\ Creating(h) /\ work[h].left = {} /\ pane \notin used
        /\ core' = core \cup {pane} /\ used' = used \cup {pane}
        /\ work' = [work EXCEPT ![h].left = {pane}]
        /\ UNCHANGED <<tabs, activeId, stored, quiet>>
    BY DEF CoreCreates
  <1> DEFINE left == {pane}
  <1>0. left \in SUBSET Panes /\ work' = [work EXCEPT ![h].left = left]
    BY <1>1
  <1> HIDE DEF left
  <1>2. /\ work' \in [Handlers -> WorkType]
        /\ work'[h].left = left
        /\ \A g \in Handlers \ {h} : work'[g] = work[g]
        /\ \A g \in Handlers : /\ work'[g].kind = work[g].kind
                               /\ work'[g].tabs = work[g].tabs
                               /\ work'[g].tab = work[g].tab
                               /\ work'[g].pane = work[g].pane
                               /\ work'[g].active = work[g].active
        /\ Lists' = Lists /\ Busy' = Busy
    BY ZenonT(30), <1>1, <1>0, LeftChanges
  <1> USE DEF left
  <1>3. \A g \in Handlers : Creating(g)' = Creating(g)
    BY <1>2 DEF Creating
  <1>4. TabsTypeOK'
    BY <1>1, <1>2 DEF TabsInv, TabsTypeOK
  <1>5. ListsAreSound'
    BY <1>1, <1>2 DEF TabsInv, ListsAreSound
  <1>6. \A ts \in Lists : pane \notin Shown(ts)
    BY <1>1 DEF TabsInv, ListsAreSound
  <1>7. \A g \in Handlers : Creating(g) => pane \notin work[g].left
    BY <1>1 DEF TabsInv, WorkIsSound
  <1>8. WorkIsSound(h)'
    <2>1. WorkIsSound(h)
      BY DEF TabsInv
    <2> QED BY <2>1, <1>1, <1>2, <1>3, <1>6, <1>7 DEF WorkIsSound
  <1>9. ASSUME NEW g \in Handlers, g # h
        PROVE  WorkIsSound(g)'
    <2>1. WorkIsSound(g)
      BY DEF TabsInv
    <2>2. work'[g] = work[g]
      BY <1>2, <1>9
    <2>3. ASSUME Creating(g), NEW p \in work[g].left
          PROVE  /\ work[g].left = {p} /\ p \in used'
                 /\ \A ts \in Lists : p \notin Shown(ts)
                 /\ \A i \in Handlers \ {g} : Creating(i) => p \notin work'[i].left
      <3>1. /\ work[g].left = {p} /\ p \in used
            /\ \A ts \in Lists : p \notin Shown(ts)
            /\ \A i \in Handlers \ {g} : Creating(i) => p \notin work[i].left
        BY <2>1, <2>3 DEF WorkIsSound
      <3> QED BY <3>1, <1>1, <1>2
    <2> QED BY <2>1, <2>2, <2>3, <1>2, <1>3 DEF WorkIsSound
  <1>10. QuietInv => QuietInv'
    <2>1. \A g \in Busy : Busy = {g} => (g = h \/ h \notin Busy)
      OBVIOUS
    <2>2. h \in Busy
      BY <1>1 DEF Creating, Busy
    <2> QED BY <2>2, <1>1, <1>2, <1>3 DEF QuietInv
  <1> QED BY <1>4, <1>5, <1>8, <1>9, <1>10 DEF TabsInv

LEMMA CoreDeletesKeeps ==
    ASSUME TabsInv, NEW h \in Handlers, NEW pane \in Panes, CoreDeletes(h, pane)
    PROVE  TabsInv' /\ (QuietInv => QuietInv')
  <1>1. /\ work[h].kind \in {"closePane", "closeTab"} /\ pane \in work[h].left
        /\ core' = core \ {pane}
        /\ work' = [work EXCEPT ![h].left = work[h].left \ {pane}]
        /\ UNCHANGED <<tabs, activeId, stored, used, quiet>>
    BY DEF CoreDeletes, TabsInv, TabsTypeOK
  <1> DEFINE left == work[h].left \ {pane}
  <1>2. left \in SUBSET Panes /\ work' = [work EXCEPT ![h].left = left]
    BY <1>1 DEF TabsInv, TabsTypeOK, WorkType
  <1> HIDE DEF left
  <1>3. /\ work' \in [Handlers -> WorkType]
        /\ work'[h].left = left
        /\ \A g \in Handlers \ {h} : work'[g] = work[g]
        /\ \A g \in Handlers : /\ work'[g].kind = work[g].kind
                               /\ work'[g].tabs = work[g].tabs
                               /\ work'[g].tab = work[g].tab
                               /\ work'[g].pane = work[g].pane
                               /\ work'[g].active = work[g].active
        /\ Lists' = Lists /\ Busy' = Busy
    BY ZenonT(30), <1>1, <1>2, LeftChanges
  <1> USE DEF left
  <1>4. ~Creating(h) /\ \A g \in Handlers : Creating(g)' = Creating(g)
    BY <1>1, <1>3 DEF Creating
  <1>5. TabsTypeOK'
    BY <1>1, <1>3 DEF TabsInv, TabsTypeOK
  <1>6. ListsAreSound'
    BY <1>1, <1>3 DEF TabsInv, ListsAreSound
  <1>7. ASSUME NEW g \in Handlers
        PROVE  WorkIsSound(g)'
    <2>1. WorkIsSound(g)
      BY DEF TabsInv
    <2>2. \A i \in Handlers : Creating(i) => work'[i].left = work[i].left
      BY <1>3, <1>4
    <2> QED BY <2>1, <2>2, <1>1, <1>3, <1>4 DEF WorkIsSound
  <1>8. QuietInv => QuietInv'
    <2>1. h \in Busy
      BY <1>1 DEF Busy
    <2>2. Closing(h)' = Closing(h)
      BY <1>3 DEF Closing
    <2> QED BY <2>1, <2>2, <1>1, <1>3, <1>4 DEF QuietInv
  <1> QED BY <1>5, <1>6, <1>7, <1>8 DEF TabsInv

LEMMA FailsKeeps ==
    ASSUME TabsInv, NEW h \in Handlers, Fails(h)
    PROVE  TabsInv' /\ QuietInv'
  <1>1. /\ Ends(h) /\ quiet' = FALSE
        /\ UNCHANGED <<tabs, activeId, stored, core, used>>
    BY DEF Fails
  <1>2. /\ work' \in [Handlers -> WorkType]
        /\ work'[h] = Idle /\ work'[h].tabs = << >>
        /\ \A g \in Handlers \ {h} : work'[g] = work[g]
    BY <1>1, EndsIs, IdleIsSound DEF TabsInv
  <1>3. TabsTypeOK'
    BY <1>1, <1>2 DEF TabsInv, TabsTypeOK
  <1>4. Lists' \subseteq Lists \cup {<< >>, << >>}
    BY <1>1, <1>2 DEF Lists
  <1>5. ListsAreSound'
    <2>1. Range(tabs') \subseteq Range(stored')
      BY <1>1 DEF TabsInv, ListsAreSound
    <2> QED BY <2>1, <1>1, <1>4, ListsKeep, EmptyList
  <1>6. ASSUME NEW g \in Handlers
        PROVE  WorkIsSound(g)'
    <2>1. CASE g = h
      BY <2>1, <1>2, IdleIsSound
    <2>2. CASE g # h
      <3>1. ~Creating(h)'
        BY <1>2, IdleIsSound
      <3> QED BY <2>2, <3>1, <1>1, <1>2, <1>4, OthersKeep, EmptyList
    <2> QED BY <2>1, <2>2
  <1> QED BY <1>1, <1>3, <1>5, <1>6 DEF TabsInv, QuietInv

-----------------------------------------------------------------------------
(* The handlers once the Core has answered.                                *)

\* A quiet page had one handler waiting; when it has written its list, the page
\* shows the Core.
LEMMA QuietWritten ==
    ASSUME TabsInv, QuietInv, NEW h \in Handlers, h \in Busy, Ends(h),
           NEW next, PersistTabs(next), UNCHANGED <<core, quiet>>,
           quiet => /\ core = AllPanes(next)
                    /\ activeId' \in TabIds(next) \/ next = << >>
    PROVE  QuietInv'
  <1>1. SUFFICES ASSUME quiet
                 PROVE  QuietInv'
    BY DEF QuietInv
  <1>2. Busy = {h}
    BY <1>1 DEF QuietInv
  <1>3. work'[h] = Idle /\ \A g \in Handlers \ {h} : work'[g] = work[g]
    BY EndsIs DEF TabsInv
  <1>4. Busy' = {}
    BY <1>2, <1>3 DEF Busy, Idle
  <1>5. tabs' = next /\ stored' = next
    BY DEF PersistTabs
  <1> QED BY <1>1, <1>4, <1>5 DEF QuietInv

\* The terminal created for a handler.
LEMMA CreatedIs ==
    ASSUME TabsInv, NEW h \in Handlers, Creating(h), NEW pane \in work[h].left
    PROVE  /\ work[h].left = {pane} /\ pane \in Panes
           /\ pane \notin AllPanes(work[h].tabs) \cup TabIds(work[h].tabs)
           /\ work[h] \in WorkType /\ Sound(work[h].tabs)
           /\ h \in Busy
  <1>1. work[h].tabs \in Lists /\ WorkIsSound(h) /\ used \subseteq Panes
        /\ work[h] \in WorkType
    BY DEF TabsInv, TabsTypeOK, Lists
  <1>2. Sound(work[h].tabs)
    BY <1>1 DEF TabsInv, ListsAreSound
  <1> QED BY <1>1, <1>2 DEF WorkIsSound, Shown, Busy, Creating

LEMMA AddedKeeps ==
    ASSUME TabsInv, NEW h \in Handlers, Added(h)
    PROVE  TabsInv' /\ (QuietInv => QuietInv')
  <1> DEFINE ts == work[h].tabs
  <1>1. PICK pane \in work[h].left :
          /\ PersistTabs(Append(ts, TabFor(pane)))
          /\ activeId' = pane
    BY DEF Added
  <1>2. /\ Creating(h) /\ Ends(h)
        /\ UNCHANGED <<core, used, quiet>>
    BY DEF Added, Creating
  <1>3. /\ work[h].left = {pane} /\ pane \in Panes /\ h \in Busy
        /\ pane \notin AllPanes(ts) \cup TabIds(ts) /\ Sound(ts)
    BY <1>2, CreatedIs
  <1> HIDE DEF ts
  <1> DEFINE next == Append(ts, TabFor(pane))
  <1>4. PersistTabs(next)
    BY <1>1
  <1>5. /\ Sound(next)
        /\ AllPanes(next) = AllPanes(ts) \cup {pane}
        /\ TabIds(next) = TabIds(ts) \cup {pane}
    BY <1>3, WithTab
  <1> HIDE DEF next
  <1>6. Shown(next) \subseteq Shown(ts) \cup IF Creating(h) THEN work[h].left ELSE {}
    BY <1>2, <1>3, <1>5 DEF Shown
  <1>7. TabsInv'
    BY <1>1, <1>2, <1>3, <1>4, <1>5, <1>6, ListWritten DEF ts
  <1>8. QuietInv /\ quiet => core = AllPanes(next)
    BY <1>2, <1>3, <1>5 DEF QuietInv, ts
  <1> QED BY <1>1, <1>2, <1>3, <1>4, <1>5, <1>7, <1>8, QuietWritten

LEMMA SplitKeeps ==
    ASSUME TabsInv, NEW h \in Handlers, Split(h)
    PROVE  TabsInv' /\ (QuietInv => QuietInv')
  <1> DEFINE ts == work[h].tabs
             tab == TabOf(ts, work[h].tab)
             at == work[h].pane
  <1>1. PICK pane \in work[h].left :
          PersistTabs(Changed(ts, tab.id,
            [tab EXCEPT !.layout = SplitPane(tab.layout, at, pane), !.active = pane]))
    BY Zenon DEF Split
  <1>2. /\ work[h].kind = "split" /\ Creating(h) /\ Ends(h)
        /\ activeId' = work[h].tab
        /\ UNCHANGED <<core, used, quiet>>
    BY DEF Split, Creating
  <1>3. /\ work[h].left = {pane} /\ pane \in Panes /\ h \in Busy
        /\ pane \notin AllPanes(ts) \cup TabIds(ts) /\ Sound(ts)
        /\ work[h] \in WorkType
    BY <1>2, CreatedIs
  <1>4. work[h].tab \in TabIds(ts) /\ at \in PanesOf(tab)
    BY <1>2 DEF TabsInv, WorkIsSound
  <1>5. /\ tab.id = work[h].tab /\ SoundTab(tab)
        /\ PanesOf(tab) \subseteq AllPanes(ts)
    BY <1>3, <1>4, TabOfIs
  <1>6. work[h].tab \in Panes
    BY <1>5 DEF SoundTab, TabType
  <1> DEFINE layout == SplitPane(tab.layout, at, pane)
             new == [tab EXCEPT !.layout = layout, !.active = pane]
             next == Changed(ts, tab.id, new)
  <1>7. PersistTabs(next)
    BY <1>1
  <1> HIDE DEF ts, tab, at
  <1>8. /\ tab.layout \in LayoutType /\ IsInjective(tab.layout.panes)
        /\ Range(tab.layout.panes) = PanesOf(tab) /\ tab \in TabType
        /\ SplitsAreShared(tab.layout)
    BY <1>5 DEF SoundTab, TabType, PanesOf, FlattenPanes
  <1>9. pane \notin PanesOf(tab)
    BY <1>3, <1>5
  <1>10. /\ layout \in LayoutType /\ IsInjective(layout.panes)
         /\ Range(layout.panes) = PanesOf(tab) \cup {pane} /\ SplitsAreShared(layout)
    BY <1>3, <1>4, <1>8, <1>9, SplitPaneIs, SplitPaneShares
  <1> HIDE DEF layout
  <1>11. /\ new \in TabType /\ new.id = tab.id /\ new.layout = layout
         /\ new.active = pane
    BY <1>3, <1>8, <1>10 DEF TabType
  <1>12. PanesOf(new) = PanesOf(tab) \cup {pane}
    BY <1>10, <1>11 DEF PanesOf, FlattenPanes
  <1>13. SoundTab(new)
    BY <1>10, <1>11, <1>12 DEF SoundTab
  <1> HIDE DEF new
  <1>14. tab.id \in TabIds(ts) /\ TabOf(ts, tab.id) = tab
    BY <1>4, <1>5 DEF tab
  <1>15. (PanesOf(new) \ PanesOf(TabOf(ts, tab.id))) \cap AllPanes(ts) = {}
    BY <1>3, <1>12, <1>14
  <1>16. /\ Sound(next)
         /\ AllPanes(next) = (AllPanes(ts) \ PanesOf(tab)) \cup PanesOf(new)
         /\ TabIds(next) = TabIds(ts)
    BY <1>3, <1>11, <1>13, <1>14, <1>15, WithChanged
  <1> HIDE DEF next
  <1>17. AllPanes(next) = AllPanes(ts) \cup {pane}
    BY <1>5, <1>12, <1>16
  <1>18. Shown(next) \subseteq Shown(ts) \cup IF Creating(h) THEN work[h].left ELSE {}
    BY <1>2, <1>3, <1>16, <1>17 DEF Shown
  <1>19. TabsInv'
    BY <1>2, <1>6, <1>7, <1>16, <1>18, ListWritten DEF ts
  <1>20. QuietInv /\ quiet => core = AllPanes(next)
    BY <1>2, <1>3, <1>17 DEF QuietInv, ts
  <1>21. activeId' \in TabIds(next)
    BY <1>2, <1>4, <1>16
  <1> QED BY <1>2, <1>3, <1>7, <1>19, <1>20, <1>21, QuietWritten

\* What a handler that has closed its terminals finds when it writes.
LEMMA ClosedIs ==
    ASSUME TabsInv, NEW h \in Handlers,
           work[h].kind \in {"closePane", "closeTab"}
    PROVE  /\ Sound(work[h].tabs) /\ work[h] \in WorkType
           /\ work[h].tab \in TabIds(work[h].tabs) /\ work[h].tab \in Panes
           /\ h \in Busy /\ ~Creating(h)
           /\ work[h].kind = "closePane" =>
                work[h].pane \in PanesOf(TabOf(work[h].tabs, work[h].tab))
  <1>1. work[h].tabs \in Lists /\ WorkIsSound(h) /\ work[h] \in WorkType
    BY DEF TabsInv, TabsTypeOK, Lists
  <1>2. Sound(work[h].tabs)
    BY <1>1 DEF TabsInv, ListsAreSound
  <1>3. work[h].tab \in TabIds(work[h].tabs)
    BY <1>1 DEF WorkIsSound
  <1>4. work[h].tab \in Panes
    BY <1>2, <1>3, TabOfIs DEF SoundTab, TabType
  <1> QED BY <1>1, <1>2, <1>3, <1>4 DEF WorkIsSound, Busy, Creating

\* The selection goes to a tab that is left.
LEMMA NeighbourIs ==
    ASSUME NEW h \in Handlers, NEW next, Sound(next),
           work[h].tab \in TabIds(work[h].tabs), Sound(work[h].tabs)
    PROVE  IF next = << >> THEN Neighbour(h, next) = Nothing
           ELSE Neighbour(h, next) \in TabIds(next) /\ Neighbour(h, next) \in Panes
  <1>1. CASE next = << >>
    BY <1>1 DEF Neighbour
  <1>2. CASE next # << >>
    <2> DEFINE i == IndexOf(work[h].tabs, work[h].tab)
               k == IF i <= Len(next) THEN i ELSE Len(next)
    <2>1. i \in DOMAIN work[h].tabs
      BY TabOfIs
    <2>2. next \in Seq(TabType) /\ work[h].tabs \in Seq(TabType)
      BY DEF Sound
    <2>3. Len(next) \in Nat /\ DOMAIN next = 1..Len(next) /\ Len(next) # 0
      BY <1>2, <2>2, LenProperties, EmptySeq
    <2>4. i \in 1..Len(work[h].tabs) /\ Len(work[h].tabs) \in Nat
      BY <2>1, <2>2, LenProperties
    <2>5. Neighbour(h, next) = next[k].id
      BY <1>2 DEF Neighbour
    <2> HIDE DEF i
    <2>6. k \in DOMAIN next
      BY <2>3, <2>4
    <2> HIDE DEF k
    <2>7. next[k].id \in TabIds(next) /\ SoundTab(next[k])
      BY <2>6 DEF TabIds, Sound
    <2>8. next[k].id \in Panes
      BY <2>7 DEF SoundTab, TabType
    <2> QED BY <1>2, <2>5, <2>7, <2>8
  <1> QED BY <1>1, <1>2

LEMMA NoTabs ==
    ASSUME NEW ts, Sound(ts), TabIds(ts) = {}
    PROVE  ts = << >>
  <1>1. ts \in Seq(TabType) /\ DOMAIN ts = 1..Len(ts) /\ Len(ts) \in Nat
    BY LenProperties DEF Sound
  <1>2. DOMAIN ts = {}
    BY DEF TabIds
  <1> QED BY <1>1, <1>2, EmptySeq

\* A tab is taken out of the list.
LEMMA TabClosedKeeps ==
    ASSUME TabsInv, NEW h \in Handlers,
           work[h].kind \in {"closePane", "closeTab"}, work[h].left = {},
           Closing(h) = PanesOf(TabOf(work[h].tabs, work[h].tab)),
           TabClosed(h), Ends(h), UNCHANGED <<core, used, quiet>>
    PROVE  TabsInv' /\ (QuietInv => QuietInv')
  <1> DEFINE ts == work[h].tabs
             id == work[h].tab
             next == Kept(ts, {i \in DOMAIN ts : ts[i].id # id})
  <1>1. /\ Sound(ts) /\ id \in TabIds(ts) /\ id \in Panes
        /\ h \in Busy /\ ~Creating(h)
    BY ClosedIs
  <1>2. /\ PersistTabs(next)
        /\ activeId' = IF work[h].active = id THEN Neighbour(h, next) ELSE activeId
    BY DEF TabClosed
  <1>3. /\ Sound(next)
        /\ AllPanes(next) = AllPanes(ts) \ PanesOf(TabOf(ts, id))
        /\ TabIds(next) = TabIds(ts) \ {id}
    BY <1>1, Filtered
  <1> HIDE DEF next
  <1>4. IF next = << >> THEN Neighbour(h, next) = Nothing
        ELSE Neighbour(h, next) \in TabIds(next) /\ Neighbour(h, next) \in Panes
    BY <1>1, <1>3, NeighbourIs
  <1>5. activeId \in Panes \cup {Nothing}
    BY DEF TabsInv, TabsTypeOK
  <1>6. activeId' \in Panes \cup {Nothing}
    BY <1>2, <1>4, <1>5
  <1>7. Shown(next) \subseteq Shown(ts)
    BY <1>3 DEF Shown
  <1>8. TabsInv'
    BY <1>1, <1>2, <1>3, <1>6, <1>7, ListWritten
  <1>9. ASSUME QuietInv, quiet
        PROVE  /\ core = AllPanes(next)
               /\ activeId' \in TabIds(next) \/ next = << >>
    <2>1. /\ ts = tabs /\ work[h].active = activeId
          /\ core = AllPanes(tabs) \ Closing(h)
          /\ activeId \in TabIds(tabs) \/ tabs = << >>
      BY <1>1, <1>9 DEF QuietInv
    <2>2. activeId \in TabIds(ts)
      <3>1. tabs # << >>
        BY <1>1, <2>1, EmptyList DEF Shown
      <3> QED BY <2>1, <3>1
    <2>3. CASE activeId = id
      BY <1>2, <1>3, <1>4, <2>1, <2>3
    <2>4. CASE activeId # id
      BY <1>2, <1>3, <2>1, <2>2, <2>4
    <2> QED BY <2>3, <2>4
  <1> QED BY <1>1, <1>2, <1>8, <1>9, QuietWritten

\* A pane is taken out of its tab.
LEMMA PaneTakenKeeps ==
    ASSUME TabsInv, NEW h \in Handlers,
           work[h].kind = "closePane", work[h].left = {}, Ends(h),
           NEW ts, ts = work[h].tabs, NEW tab, tab = TabOf(ts, work[h].tab),
           NEW pane, pane = work[h].pane,
           NEW layout, layout = RemovePane(tab.layout, pane), ~IsEmpty(layout),
           NEW active, active = ActiveAfter(tab, pane, layout),
           NEW new, new = [id |-> tab.id, layout |-> layout, active |-> active],
           PersistTabs(Changed(ts, tab.id, new)),
           UNCHANGED <<activeId, core, used, quiet>>
    PROVE  TabsInv' /\ (QuietInv => QuietInv')
  <1>1. /\ Sound(ts) /\ work[h].tab \in TabIds(ts)
        /\ h \in Busy /\ ~Creating(h) /\ pane \in PanesOf(tab)
    BY ClosedIs
  <1>2. /\ tab.id = work[h].tab /\ SoundTab(tab)
        /\ PanesOf(tab) \subseteq AllPanes(ts)
    BY <1>1, TabOfIs
  <1>3. /\ tab.layout \in LayoutType /\ IsInjective(tab.layout.panes)
        /\ Range(tab.layout.panes) = PanesOf(tab) /\ tab \in TabType
        /\ tab.id \in Panes /\ SplitsAreShared(tab.layout)
    BY <1>2 DEF SoundTab, TabType, PanesOf, FlattenPanes
  <1>4. /\ layout \in LayoutType /\ IsInjective(layout.panes)
        /\ Range(layout.panes) = PanesOf(tab) \ {pane} /\ SplitsAreShared(layout)
    <2> DEFINE before == tab.layout
    <2>1. /\ before \in LayoutType /\ IsInjective(before.panes) /\ pane \in Range(before.panes)
          /\ SplitsAreShared(before)
      BY <1>1, <1>3
    <2>2. layout = RemovePane(before, pane) /\ Range(before.panes) = PanesOf(tab)
      BY <1>3
    <2> HIDE DEF before
    <2>3. /\ RemovePane(before, pane) \in LayoutType
          /\ IsInjective(RemovePane(before, pane).panes)
          /\ Range(RemovePane(before, pane).panes) = Range(before.panes) \ {pane}
          /\ SplitsAreShared(RemovePane(before, pane))
      BY SMTT(20), <2>1, RemovePaneIs, RemovePaneShares
    <2> QED BY <2>2, <2>3
  <1>5. FlattenPanes(layout)[1] \in Range(layout.panes)
    BY SMTT(20), <1>4, EmptyLayout
  <1>6. active \in Range(layout.panes)
    <2>1. tab.active \in PanesOf(tab)
      BY <1>2 DEF SoundTab
    <2> QED BY <2>1, <1>4, <1>5 DEF ActiveAfter
  <1>7. new.id = tab.id /\ new.layout = layout /\ new.active = active
    OBVIOUS
  <1>8. PanesOf(new) = PanesOf(tab) \ {pane}
    BY <1>4, <1>7 DEF PanesOf, FlattenPanes
  <1>9. PanesOf(tab) \subseteq Panes
    BY SMTT(20), <1>3, RangeOfSeq DEF LayoutType
  <1>10. new \in TabType
    BY SMTT(20), <1>3, <1>4, <1>6, <1>9 DEF TabType
  <1>11. SoundTab(new)
    BY <1>4, <1>6, <1>7, <1>8, <1>10 DEF SoundTab
  <1>12. tab.id \in TabIds(ts) /\ TabOf(ts, tab.id) = tab
    BY SMTT(20), <1>1, <1>2
  <1> DEFINE next == Changed(ts, tab.id, new)
  <1>13. /\ Sound(next)
         /\ AllPanes(next) = (AllPanes(ts) \ PanesOf(tab)) \cup PanesOf(new)
         /\ TabIds(next) = TabIds(ts)
    BY <1>1, <1>7, <1>8, <1>11, <1>12, WithChanged
  <1>14. PersistTabs(next)
    OBVIOUS
  <1> HIDE DEF next
  <1>15. AllPanes(next) = AllPanes(ts) \ {pane}
    BY <1>1, <1>2, <1>8, <1>13
  <1>16. Shown(next) \subseteq Shown(work[h].tabs)
    BY <1>13, <1>15 DEF Shown
  <1>17. activeId' \in Panes \cup {Nothing}
    BY DEF TabsInv, TabsTypeOK
  <1>18. TabsInv'
    BY <1>13, <1>14, <1>16, <1>17, ListWritten
  <1>19. ASSUME QuietInv, quiet
         PROVE  /\ core = AllPanes(next)
                /\ activeId' \in TabIds(next) \/ next = << >>
    <2>1. /\ ts = tabs /\ core = AllPanes(tabs) \ Closing(h)
          /\ activeId \in TabIds(tabs) \/ tabs = << >>
      BY <1>1, <1>19 DEF QuietInv
    <2>2. Closing(h) = {pane}
      BY DEF Closing
    <2>3. tabs # << >>
      BY <1>1, <2>1, EmptyList DEF Shown
    <2> QED BY <1>13, <1>15, <2>1, <2>2, <2>3
  <1> QED BY <1>1, <1>14, <1>18, <1>19, QuietWritten

LEMMA PaneClosedKeeps ==
    ASSUME TabsInv, NEW h \in Handlers, PaneClosed(h)
    PROVE  TabsInv' /\ (QuietInv => QuietInv')
  <1> DEFINE ts == work[h].tabs
             tab == TabOf(ts, work[h].tab)
             pane == work[h].pane
             layout == RemovePane(tab.layout, pane)
             active == ActiveAfter(tab, pane, layout)
             new == [id |-> tab.id, layout |-> layout, active |-> active]
             gone == work[h].kind = "closeTab" \/ IsEmpty(layout)
  <1>1. /\ work[h].kind \in {"closePane", "closeTab"} /\ work[h].left = {}
        /\ Ends(h) /\ UNCHANGED <<core, used, quiet>>
        /\ \/ gone /\ TabClosed(h)
           \/ /\ ~gone /\ UNCHANGED activeId
              /\ PersistTabs(Changed(ts, tab.id,
                   [tab EXCEPT !.layout = layout, !.active = active]))
    BY Zenon DEF PaneClosed
  <1>2. /\ Sound(ts) /\ work[h].tab \in TabIds(ts)
        /\ work[h].kind = "closePane" => pane \in PanesOf(tab)
    BY <1>1, ClosedIs
  <1>3. SoundTab(tab)
    BY <1>2, TabOfIs
  <1>4. /\ tab \in TabType /\ tab.layout \in LayoutType
        /\ IsInjective(tab.layout.panes) /\ Range(tab.layout.panes) = PanesOf(tab)
    BY <1>3 DEF SoundTab, TabType, PanesOf, FlattenPanes
  <1>5. CASE gone /\ TabClosed(h)
    <2>1. Closing(h) = PanesOf(tab)
      <3>1. CASE work[h].kind = "closeTab"
        BY <3>1 DEF Closing
      <3>2. CASE work[h].kind = "closePane"
        <4> HIDE DEF tab, pane
        <4>1. pane \in PanesOf(tab) /\ IsEmpty(layout)
          BY <1>2, <1>5, <3>2
        <4>2. layout \in LayoutType /\ Range(layout.panes) = PanesOf(tab) \ {pane}
          BY <1>4, <4>1, RemovePaneIs
        <4>3. Range(layout.panes) = {}
          BY <4>1, <4>2, EmptyLayout
        <4>4. PanesOf(tab) = {pane}
          BY <4>1, <4>2, <4>3
        <4> QED BY <3>2, <4>4 DEF Closing, tab, pane
      <3> QED BY <1>1, <3>1, <3>2
    <2> QED BY <1>1, <1>5, <2>1, TabClosedKeeps
  <1>6. CASE /\ ~gone /\ UNCHANGED activeId
             /\ PersistTabs(Changed(ts, tab.id,
                  [tab EXCEPT !.layout = layout, !.active = active]))
    <2>1. [tab EXCEPT !.layout = layout, !.active = active] = new
      <3> DEFINE other == [tab EXCEPT !.layout = layout]
      <3> HIDE DEF layout, active, tab
      <3>1. other = [id |-> tab.id, layout |-> layout, active |-> tab.active]
        BY <1>4 DEF TabType
      <3> HIDE DEF other
      <3>2. [other EXCEPT !.active = active] = new
        BY <3>1
      <3> QED BY Zenon, <3>2 DEF other
    <2>2. work[h].kind = "closePane" /\ ~IsEmpty(layout)
      BY <1>1, <1>6
    <2>3. PersistTabs(Changed(ts, tab.id, new))
      BY <1>6, <2>1
    <2> QED BY <1>1, <1>6, <2>2, <2>3, PaneTakenKeeps
  <1> QED BY <1>1, <1>5, <1>6

-----------------------------------------------------------------------------
(* What happens at once.                                                   *)

LEMMA SelectTerminalKeeps ==
    ASSUME TabsInv, NEW i \in DOMAIN tabs, SelectTerminal(tabs[i])
    PROVE  TabsInv' /\ (QuietInv => QuietInv')
  <1>1. /\ activeId' = tabs[i].id /\ Quiet
        /\ UNCHANGED <<tabs, stored, core, used, work>>
    BY DEF SelectTerminal
  <1>2. tabs[i].id \in TabIds(tabs) /\ tabs[i].id \in Panes
    BY TabShown
  <1>3. Lists' = Lists /\ Busy' = Busy /\ \A g \in Handlers : Creating(g)' = Creating(g)
    BY <1>1 DEF Lists, Busy, Creating
  <1>4. TabsTypeOK'
    BY <1>1, <1>2 DEF TabsInv, TabsTypeOK, Quiet
  <1>5. ListsAreSound'
    BY <1>1, <1>3 DEF TabsInv, ListsAreSound
  <1>6. \A g \in Handlers : WorkIsSound(g)'
    BY <1>1, <1>3 DEF TabsInv, WorkIsSound
  <1>7. QuietInv => QuietInv'
    BY <1>1, <1>2, <1>3 DEF QuietInv, Quiet
  <1> QED BY <1>4, <1>5, <1>6, <1>7 DEF TabsInv

LEMMA ActivatePaneKeeps ==
    ASSUME TabsInv, NEW i \in DOMAIN tabs, NEW pane \in PanesOf(tabs[i]),
           ActivatePane(tabs[i], pane)
    PROVE  TabsInv' /\ (QuietInv => QuietInv')
  <1> DEFINE tab == tabs[i]
             new == [tab EXCEPT !.active = pane]
             next == Changed(tabs, tab.id, new)
  <1>1. /\ PersistTabs(next) /\ activeId' = tab.id /\ Quiet
        /\ UNCHANGED <<core, used, work>>
    BY DEF ActivatePane
  <1>2. /\ tab.id \in TabIds(tabs) /\ tab.id \in Panes /\ pane \in Panes
        /\ TabOf(tabs, tab.id) = tab /\ SoundTab(tab)
    BY TabShown
  <1>3. Sound(tabs) /\ tabs \in Lists
    BY DEF TabsInv, ListsAreSound, Lists
  <1> HIDE DEF tab
  <1>4. new \in TabType /\ new.id = tab.id /\ new.layout = tab.layout /\ new.active = pane
    BY <1>2 DEF SoundTab, TabType
  <1>5. PanesOf(new) = PanesOf(tab)
    BY <1>4 DEF PanesOf
  <1>6. SoundTab(new)
    BY <1>2, <1>4, <1>5 DEF SoundTab, tab
  <1> HIDE DEF new
  <1>7. /\ Sound(next)
        /\ AllPanes(next) = (AllPanes(tabs) \ PanesOf(tab)) \cup PanesOf(new)
        /\ TabIds(next) = TabIds(tabs)
    BY <1>2, <1>3, <1>4, <1>5, <1>6, WithChanged
  <1> HIDE DEF next
  <1>8. PanesOf(tab) \subseteq AllPanes(tabs)
    BY <1>2, TabOfIs
  <1>9. AllPanes(next) = AllPanes(tabs) /\ Shown(next) = Shown(tabs)
    BY <1>5, <1>7, <1>8 DEF Shown
  <1>10. tabs' = next /\ stored' = next
    BY <1>1 DEF PersistTabs
  <1>11. /\ Lists' \subseteq Lists \cup {next, << >>} /\ Busy' = Busy
         /\ \A g \in Handlers : Creating(g)' = Creating(g)
    BY <1>1, <1>10 DEF Lists, Busy, Creating
  <1>12. TabsTypeOK'
    BY <1>1, <1>2 DEF TabsInv, TabsTypeOK, Quiet
  <1>13. ListsAreSound'
    <2>1. Shown(next) \subseteq used
      BY <1>3, <1>9 DEF TabsInv, ListsAreSound
    <2> QED BY <2>1, <1>1, <1>7, <1>10, <1>11, ListsKeep
  <1>14. ASSUME NEW g \in Handlers
         PROVE  WorkIsSound(g)'
    <2>1. WorkIsSound(g)
      BY DEF TabsInv
    <2>2. Creating(g) => \A p \in work[g].left : \A ts \in Lists' : p \notin Shown(ts)
      BY <2>1, <1>3, <1>9, <1>11, EmptyList DEF WorkIsSound
    <2> QED BY <2>1, <2>2, <1>1, <1>11 DEF WorkIsSound
  <1>15. QuietInv => QuietInv'
    BY <1>1, <1>2, <1>7, <1>9, <1>10, <1>11 DEF QuietInv, Quiet
  <1> QED BY <1>12, <1>13, <1>14, <1>15 DEF TabsInv

LEMMA ReloadKeeps ==
    ASSUME TabsInv, Reload
    PROVE  TabsInv' /\ (QuietInv => QuietInv')
  <1> DEFINE next == Parsed(stored)
  <1>1. /\ tabs' = next
        /\ activeId' = IF next = << >> THEN Nothing ELSE next[1].id
        /\ work' = [h \in Handlers |-> Idle]
        /\ quiet' = (quiet /\ Busy = {} /\ Len(next) = Len(stored))
        /\ UNCHANGED <<stored, core, used>>
    BY DEF Reload
  <1>2. Sound(stored) /\ Shown(stored) \subseteq used
    BY DEF TabsInv, ListsAreSound, Lists
  <1>3. /\ Sound(next)
        /\ Range(next) = {tab \in Range(stored) : Restorable(tab.layout)}
        /\ Len(next) = Len(stored) => Range(next) = Range(stored)
    BY <1>2, ParsedIs
  <1> HIDE DEF next
  <1>4. Range(next) \subseteq Range(stored)
    BY <1>3
  <1>5. Shown(next) \subseteq used
    <2>1. AllPanes(next) \subseteq AllPanes(stored) /\ TabIds(next) \subseteq TabIds(stored)
      BY <1>4, ShownBy
    <2> QED BY <2>1, <1>2 DEF Shown
  <1>6. IF next = << >> THEN activeId' = Nothing
        ELSE activeId' \in TabIds(next) /\ activeId' \in Panes
    <2>1. next \in Seq(TabType)
      BY <1>3 DEF Sound
    <2>2. CASE next = << >>
      BY <2>2, <1>1
    <2>3. CASE next # << >>
      <3>1. 1 \in DOMAIN next
        BY <2>1, <2>3, LenProperties, EmptySeq
      <3>2. next[1].id \in TabIds(next) /\ SoundTab(next[1])
        BY <3>1, <1>3 DEF TabIds, Sound
      <3> QED BY <3>2, <2>3, <1>1 DEF SoundTab, TabType
    <2> QED BY <2>2, <2>3
  <1>7. \A h \in Handlers : work'[h] = Idle
    BY <1>1
  <1>8. TabsTypeOK'
    <2>1. Idle \in WorkType
      BY EmptyList DEF Idle, WorkType, Sound
    <2> QED BY <2>1, <1>1, <1>6 DEF TabsInv, TabsTypeOK
  <1>9. Lists' \subseteq Lists \cup {next, << >>}
    BY <1>1, <1>7 DEF Lists, Idle
  <1>10. ListsAreSound'
    BY <1>1, <1>3, <1>4, <1>5, <1>9, ListsKeep
  <1>11. \A h \in Handlers : WorkIsSound(h)'
    BY <1>7, IdleIsSound
  <1>12. QuietInv => QuietInv'
    <2>1. SUFFICES ASSUME QuietInv, quiet'
                   PROVE  QuietInv'
      BY DEF QuietInv
    <2>2. quiet /\ Busy = {} /\ Range(next) = Range(stored)
      BY <2>1, <1>1, <1>3
    <2>3. Range(stored) = Range(tabs) /\ core = AllPanes(tabs)
      BY <2>1, <2>2 DEF QuietInv
    <2>4. AllPanes(next) = AllPanes(tabs)
      BY <2>2, <2>3, ShownBy
    <2>5. Busy' = {}
      BY <1>7 DEF Busy, Idle
    <2> QED BY <2>2, <2>3, <2>4, <2>5, <1>1, <1>6 DEF QuietInv
  <1> QED BY <1>8, <1>10, <1>11, <1>12 DEF TabsInv

\* Every step of the page and of the Core.
LEMMA NextLists ==
    ASSUME TabsInv, [TabsNext]_tabsVars
    PROVE  TabsInv' /\ (QuietInv => QuietInv')
  <1>1. CASE UNCHANGED tabsVars
    BY <1>1 DEF tabsVars, TabsInv, TabsTypeOK, ListsAreSound, Lists, WorkIsSound,
                Creating, QuietInv, Busy, Closing
  <1>2. ASSUME NEW h \in Handlers,
               AddTerminal(h) \/ Fails(h) \/ Added(h) \/ Split(h) \/ PaneClosed(h)
        PROVE  TabsInv' /\ (QuietInv => QuietInv')
    BY <1>2, AddTerminalKeeps, FailsKeeps, AddedKeeps, SplitKeeps, PaneClosedKeeps
  <1>3. ASSUME NEW h \in Handlers, NEW i \in DOMAIN tabs,
               \/ CloseTerminal(h, tabs[i])
               \/ \E pane \in PanesOf(tabs[i]) :
                    SplitTerminal(h, tabs[i], pane) \/ ClosePane(h, tabs[i], pane)
        PROVE  TabsInv' /\ (QuietInv => QuietInv')
    BY <1>3, CloseTerminalKeeps, SplitTerminalKeeps, ClosePaneKeeps
  <1>4. ASSUME NEW h \in Handlers, NEW pane \in Panes,
               CoreCreates(h, pane) \/ CoreDeletes(h, pane)
        PROVE  TabsInv' /\ (QuietInv => QuietInv')
    BY <1>4, CoreCreatesKeeps, CoreDeletesKeeps
  <1>5. ASSUME NEW i \in DOMAIN tabs,
               \/ SelectTerminal(tabs[i])
               \/ \E pane \in PanesOf(tabs[i]) : ActivatePane(tabs[i], pane)
        PROVE  TabsInv' /\ (QuietInv => QuietInv')
    BY <1>5, SelectTerminalKeeps, ActivatePaneKeeps
  <1>6. CASE Reload
    BY <1>6, ReloadKeeps
  <1> QED BY <1>1, <1>2, <1>3, <1>4, <1>5, <1>6 DEF TabsNext

\* Every list of the page, of its storage and of the handlers is sound at any
\* time, and on a quiet page they agree with the Core.
THEOREM TabsInvariant == TabsSpec => [](TabsInv /\ QuietInv)
  <1>1. TabsInv /\ QuietInv /\ [TabsNext]_tabsVars => (TabsInv /\ QuietInv)'
    BY NextLists
  <1> QED BY <1>1, InitLists, PTL DEF TabsSpec

\* The tabs of the page have names and panes of their own and survive a reload,
\* whatever handlers overlap, fail or are cut off: persistTabs stores what the
\* page shows, and readTerminalTabs gives every restorable tab back as it was.
THEOREM TabsSurvive == TabsSpec => []TabsSurviveReload
  <1>1. ASSUME TabsInv
        PROVE  TabsSurviveReload
    <2>1. Sound(tabs) /\ Sound(stored) /\ Range(tabs) \subseteq Range(stored)
      BY <1>1 DEF TabsInv, ListsAreSound, Lists
    <2>2. Range(Parsed(stored)) = {tab \in Range(stored) : Restorable(tab.layout)}
      BY <2>1, ParsedIs
    <2>3. ASSUME NEW i \in DOMAIN tabs
          PROVE  /\ IsInjective(FlattenPanes(tabs[i].layout))
                 /\ Restorable(tabs[i].layout) =>
                      \E k \in DOMAIN Parsed(stored) : Parsed(stored)[k] = tabs[i]
      <3>1. IsInjective(FlattenPanes(tabs[i].layout))
        BY <2>1 DEF Sound, SoundTab, FlattenPanes
      <3>2. ASSUME Restorable(tabs[i].layout)
            PROVE  tabs[i] \in Range(Parsed(stored))
        BY <2>1, <2>2, <3>2 DEF Range
      <3> QED BY <3>1, <3>2 DEF Range
    <2> QED BY <2>1, <2>3 DEF TabsSurviveReload, Sound
  <1>2. TabsInv /\ QuietInv => TabsSurviveReload
    BY <1>1
  <1> QED BY <1>2, TabsInvariant, PTL

\* A page on which no handler was overtaken, failed or cut off shows exactly the
\* terminals the Core holds, and one of its tabs is selected.
THEOREM QuietPage == TabsSpec => []QuietPageShowsCore
  <1>1. TabsInv /\ QuietInv => QuietPageShowsCore
    BY DEF QuietInv, QuietPageShowsCore
  <1> QED BY <1>1, TabsInvariant, PTL

\* terminal-layout.ts:66-95: a pane that is split in can be taken out again, and
\* the tab is as it was: whatever splits and closes have made the layout, no
\* split of it is left with one pane.
SplitsAreUndone ==
    \A i \in DOMAIN tabs : \A at \in PanesOf(tabs[i]), pane \in Panes :
      pane \notin PanesOf(tabs[i]) =>
        RemovePane(SplitPane(tabs[i].layout, at, pane), pane) = tabs[i].layout

\* removePane undoes splitPane on every layout the page can reach.
THEOREM SplitsUndone == TabsSpec => []SplitsAreUndone
  <1>1. ASSUME TabsInv, NEW i \in DOMAIN tabs, NEW at \in PanesOf(tabs[i]),
               NEW pane \in Panes \ PanesOf(tabs[i])
        PROVE  RemovePane(SplitPane(tabs[i].layout, at, pane), pane) = tabs[i].layout
    <2> DEFINE layout == tabs[i].layout
    <2>1. SoundTab(tabs[i])
      BY <1>1, TabShown
    <2>2. /\ layout \in LayoutType /\ IsInjective(layout.panes)
          /\ SplitsAreShared(layout) /\ Range(layout.panes) = PanesOf(tabs[i])
      BY <2>1 DEF SoundTab, TabType, PanesOf, FlattenPanes
    <2> HIDE DEF layout
    <2>3. RemovePane(SplitPane(layout, at, pane), pane) = layout
      BY <1>1, <2>2, SplitUndone
    <2> QED BY <2>3 DEF layout
  <1>2. TabsInv /\ QuietInv => SplitsAreUndone
    BY <1>1 DEF SplitsAreUndone
  <1> QED BY <1>2, TabsInvariant, PTL
=============================================================================

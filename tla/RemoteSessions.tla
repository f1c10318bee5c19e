--------------------------- MODULE RemoteSessions ---------------------------
(***************************************************************************)
(* The two registries of the Core, TerminalSessionManager and              *)
(* RemoteSessionManager, under the HTTP calls that fill and empty them.    *)
(* Creating an ssh or docker terminal awaits the connection, the container *)
(* and the PTY one after the other; other calls run in between.            *)
(*                                                                         *)
(* A call makes at most one connection, one remote session, one PTY, one   *)
(* terminal and one deployment approval, and each goes by its name here.   *)
(***************************************************************************)
EXTENDS Naturals, Sequences, SequencesExt, FiniteSets

CONSTANTS
    Calls,          \* POST calls
    KindOf,         \* Calls -> "local", "ssh", "docker": POST /v1/terminal-sessions;
                    \*          "remote": POST /v1/remote-sessions
    TargetOf,       \* Calls -> what deploymentRequestFingerprint tells apart
    None,
    MaxTerminals, MaxRemotes, MaxPending   \* limits of the registries

ASSUME RemoteAssumption ==
    /\ KindOf \in [Calls -> {"local", "ssh", "docker", "remote"}]
    /\ None \notin Calls
    /\ {MaxTerminals, MaxRemotes, MaxPending} \subseteq Nat \ {0}

VARIABLES
    step,        \* call -> how far it is
    approved,    \* call -> the approval it was let through with
    pending,     \* pendingDeployments
    expired,     \* approvals more than five minutes old
    client,      \* call -> its SSH runtime client
    sessions,    \* RemoteSessionManager.sessions
    pty,         \* call -> its PTY
    terminals,   \* TerminalSessionManager.sessions, in order of insertion
    remoteOf,    \* terminals with an entry in remoteSessionByTerminal
    down         \* the server has been closed

approvals == <<approved, pending, expired>>
remotes == <<client, sessions>>
local == <<pty, terminals, remoteOf>>
vars == <<step, approvals, remotes, local, down>>

Terminals == Range(terminals)
Waiting == {"connecting", "inspecting", "launching"}

RemoteTypeOK ==
    /\ step \in [Calls -> Waiting \cup {"new", "done", "asked", "refused", "failed"}]
    /\ approved \in [Calls -> Calls \cup {None}]
    /\ client \in [Calls -> {"none", "open", "lost", "closed"}]
    /\ pty \in [Calls -> {"none", "running", "exited", "killed"}]
    /\ pending \cup expired \cup sessions \cup remoteOf \subseteq Calls
    /\ terminals \in Seq(Calls) /\ IsInjective(terminals)
    /\ Len(terminals) <= MaxTerminals
    /\ Cardinality(pending) <= MaxPending
    /\ down \in BOOLEAN

Init ==
    /\ step = [c \in Calls |-> "new"]
    /\ approved = [c \in Calls |-> None]
    /\ client = [c \in Calls |-> "none"]
    /\ pty = [c \in Calls |-> "none"]
    /\ pending = {} /\ expired = {} /\ sessions = {} /\ remoteOf = {}
    /\ terminals = << >>
    /\ down = FALSE

To(c, s) == step' = [step EXCEPT ![c] = s]

-----------------------------------------------------------------------------
(* TerminalSessionManager.                                                 *)

FirstExited(i) ==
    /\ pty[terminals[i]] = "exited"
    /\ \A j \in 1..(i - 1) : pty[terminals[j]] # "exited"

\* makeRoom: there is room, or the first exited session gives way.
HasRoom == Len(terminals) < MaxTerminals \/ \E t \in Terminals : pty[t] = "exited"

Register(c) ==
    \/ /\ Len(terminals) < MaxTerminals
       /\ terminals' = Append(terminals, c)
    \/ /\ Len(terminals) >= MaxTerminals
       /\ \E i \in DOMAIN terminals :
             FirstExited(i) /\ terminals' = Append(RemoveAt(terminals, i), c)

CreateLocal(c) ==
    /\ KindOf[c] = "local" /\ step[c] = "new"
    /\ \/ /\ HasRoom
          /\ Register(c)
          /\ pty' = [pty EXCEPT ![c] = "running"]
          /\ To(c, "done")
       \/ ~HasRoom /\ To(c, "failed") /\ UNCHANGED <<pty, terminals>>
    /\ UNCHANGED <<approvals, remotes, remoteOf, down>>

PtyExits(c) ==
    /\ pty[c] = "running"
    /\ pty' = [pty EXCEPT ![c] = "exited"]
    /\ UNCHANGED <<step, approvals, remotes, terminals, remoteOf, down>>

Killed(set) == pty' = [c \in Calls |->
    IF c \in set /\ pty[c] = "running" THEN "killed" ELSE pty[c]]

-----------------------------------------------------------------------------
(* RemoteSessionManager.connect, up to the first await.                    *)

\* Mutant: the approval stays until it expires.
PendingKept(a) == pending

PendingWithout(a) == pending \ {a}

ValidApproval(c, a) ==
    a \in pending \ expired /\ TargetOf[a] = TargetOf[c]

\* The page repeats a call with the approval some call was answered with.
Offered == {None} \cup {a \in Calls : step[a] = "asked"}

Connect(c, a) ==
    /\ KindOf[c] # "local" /\ step[c] = "new"
    /\ \/ /\ Cardinality(sessions) >= MaxRemotes
          /\ To(c, "failed")
          /\ UNCHANGED approvals
       \/ /\ Cardinality(sessions) < MaxRemotes
          /\ pending' = PendingWithout(a)
          /\ \/ /\ a = None \/ ValidApproval(c, a)
                /\ approved' = [approved EXCEPT ![c] = a]
                /\ To(c, "connecting")
             \/ /\ a # None /\ ~ValidApproval(c, a)
                /\ To(c, "failed")
                /\ UNCHANGED approved
          /\ UNCHANGED expired
    /\ UNCHANGED <<remotes, local, down>>

ApprovalExpires(a) ==
    /\ a \in pending \ expired
    /\ expired' = expired \cup {a}
    /\ UNCHANGED <<step, approved, pending, remotes, local, down>>

\* The host needs a runtime that nobody has approved, or another one than
\* was approved.
AsksApproval(c) ==
    /\ step[c] = "connecting"
    /\ LET left == pending \ expired IN
       \/ Cardinality(left) < MaxPending /\ pending' = left \cup {c} /\ To(c, "asked")
       \/ Cardinality(left) >= MaxPending /\ pending' = left /\ To(c, "failed")
    /\ UNCHANGED <<approved, expired, remotes, local, down>>

ConnectFails(c) ==
    /\ step[c] = "connecting"
    /\ To(c, "failed")
    /\ UNCHANGED <<approvals, remotes, local, down>>

\* sessions.set and the answer; a terminal goes on to launch its PTY.
Established(c) ==
    /\ sessions' = sessions \cup {c}
    /\ To(c, IF KindOf[c] = "remote" THEN "done" ELSE "launching")

Connects(c) ==
    /\ step[c] = "connecting"
    /\ client' = [client EXCEPT ![c] = "open"]
    /\ IF KindOf[c] = "docker"
       THEN To(c, "inspecting") /\ UNCHANGED sessions
       ELSE Established(c)
    /\ UNCHANGED <<approvals, local, down>>

\* Mutant: the client of a container that is not there stays open.
DroppedKeeping(c) == UNCHANGED client

Dropped(c) == client' = [client EXCEPT ![c] = "closed"]

\* inspectDocker; the client may have failed on its own.
Inspected(c) ==
    /\ step[c] = "inspecting"
    /\ \/ client[c] = "open" /\ Established(c) /\ UNCHANGED client
       \/ Dropped(c) /\ To(c, "failed") /\ UNCHANGED sessions
    /\ UNCHANGED <<approvals, local, down>>

\* The ssh process ends: the session stays in the registry.
ClientIsLost(c) ==
    /\ client[c] = "open"
    /\ client' = [client EXCEPT ![c] = "lost"]
    /\ UNCHANGED <<step, approvals, sessions, local, down>>

\* RemoteSessionManager.close.
Closed(set) ==
    /\ sessions' = sessions \ set
    /\ client' = [c \in Calls |->
                    IF c \in set \cap sessions THEN "closed" ELSE client[c]]

-----------------------------------------------------------------------------
(* POST /v1/terminal-sessions once the remote session is there.            *)

Abandoned(c) == Closed({c})

\* remotePtyLauncher answers, createFromPty finds room or not: then the
\* remote session is closed, but the PTY that was launched goes on.
Launched(c) ==
    /\ step[c] = "launching" /\ client[c] = "open"
    /\ pty' = [pty EXCEPT ![c] = "running"]
    /\ \/ /\ HasRoom
          /\ Register(c)
          /\ remoteOf' = remoteOf \cup {c}
          /\ To(c, "done")
          /\ UNCHANGED remotes
       \/ /\ ~HasRoom
          /\ Abandoned(c)
          /\ To(c, "refused")
          /\ UNCHANGED <<terminals, remoteOf>>
    /\ UNCHANGED <<approvals, down>>

LaunchFails(c) ==
    /\ step[c] = "launching"
    /\ Abandoned(c)
    /\ To(c, "failed")
    /\ UNCHANGED <<approvals, local, down>>

-----------------------------------------------------------------------------
(* The calls that close.                                                   *)

\* Mutant: the entry of the remote session is removed before it is read.
PartnerForgotten(t) == {}

Partner(t) == {t} \cap remoteOf

\* DELETE /v1/terminal-sessions/:id. A terminal that was evicted is not
\* found, and nothing happens.
DeleteTerminal(t) ==
    /\ \E i \in DOMAIN terminals :
          terminals[i] = t /\ terminals' = RemoveAt(terminals, i)
    /\ Killed({t})
    /\ remoteOf' = remoteOf \ {t}
    /\ Closed(Partner(t))
    /\ UNCHANGED <<step, approvals, down>>

\* DELETE /v1/remote-sessions/:id, whose id only its own POST has told.
DeleteRemote(c) ==
    /\ KindOf[c] = "remote" /\ c \in sessions
    /\ Closed({c})
    /\ UNCHANGED <<step, approvals, local, down>>

\* close() of the server; calls that are waiting go on.
CloseServer ==
    /\ ~down
    /\ down' = TRUE
    /\ Killed(Terminals)
    /\ terminals' = << >>
    /\ Closed(sessions)
    /\ pending' = {}
    /\ UNCHANGED <<step, approved, expired, remoteOf>>

Next ==
    \/ \E c \in Calls :
         \/ CreateLocal(c) \/ PtyExits(c) \/ ApprovalExpires(c)
         \/ AsksApproval(c) \/ ConnectFails(c) \/ Connects(c) \/ Inspected(c)
         \/ ClientIsLost(c) \/ Launched(c) \/ LaunchFails(c)
         \/ DeleteTerminal(c) \/ DeleteRemote(c)
         \/ \E a \in Offered : Connect(c, a)
    \/ CloseServer

Spec == Init /\ [][Next]_vars

-----------------------------------------------------------------------------
Remote(c) == KindOf[c] \in {"ssh", "docker"}

\* A connection that is open is in the registry, where it can be closed, or
\* belongs to a call that still looks at its container: every way a call
\* can end after connecting gives the connection to one owner or closes it.
ConnectionsAreOwned ==
    /\ RemoteTypeOK
    /\ \A c \in Calls :
          client[c] = "open" => c \in sessions \/ step[c] = "inspecting"

\* A remote terminal and its remote session go together: until it is closed
\* a terminal keeps the session it was created with, whatever comes and goes
\* around it, and what was made for a terminal goes with it. The exceptions
\* of the code are named: a terminal that exited and was evicted leaves its
\* remote session, and one that is refused for the limit leaves its PTY.
SessionsFollowTerminals ==
    /\ \A c \in Terminals : Remote(c) => c \in sessions \cap remoteOf
    /\ ~down => \A c \in Calls :
         /\ c \in sessions /\ Remote(c) =>
              step[c] = "launching" \/ c \in Terminals \/ pty[c] = "exited"
         /\ pty[c] = "running" => c \in Terminals \/ step[c] = "refused"

\* An approval lets one call through, for the target it was asked for,
\* however many calls carry it.
ApprovalServesOnce ==
    \A a \in Calls :
      LET users == {c \in Calls : approved[c] = a} IN
      /\ Cardinality(users) <= 1
      /\ \A c \in users : TargetOf[c] = TargetOf[a]
=============================================================================

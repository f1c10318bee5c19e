--------------------------- MODULE RuntimeInstall ---------------------------
(***************************************************************************)
(* Bringing the runtime to a host: connect() of RemoteRuntimeManager in    *)
(* the Core and, at the other end of ssh, the installer it runs there.     *)
(* Every attempt is one connect(), from any Core; the Core can give up     *)
(* while the process it started on the host goes on, and that process can  *)
(* die between any two of its writes.                                      *)
(***************************************************************************)
EXTENDS Naturals, FiniteSets

CONSTANTS
    Versions,     \* runtimes, one per content-addressed directory
    Attempts,     \* calls of connect
    ArtifactOf,   \* Attempts -> the runtime its Core is bundled with
    None,         \* no runtime, no attempt, no reason
    MaxDeaths     \* bound: processes that die on the host

ASSUME InstallAssumption ==
    /\ ArtifactOf \in [Attempts -> Versions]
    /\ None \notin Versions \cup Attempts
    /\ MaxDeaths \in Nat

VARIABLES
    current, previous,   \* the links: a version or None
    binary,              \* version -> its stackbridge-runtime
    manifest,            \* version -> its manifest.json
    staged,              \* attempt -> the file it uploaded
    lock,                \* the process that holds state/install.lock
    remote,              \* attempt -> the process it runs on the host
    core,                \* attempt -> how far connect() is
    deaths

hostVars == <<current, previous, binary, manifest, staged, lock, deaths>>
vars == <<hostVars, remote, core>>

FileStates == {"absent", "broken", "whole"}
Installing == {"place", "truncate", "write", "compare", "current"}
RollingBack == {"check", "swap", "keep"}
Critical == Installing \cup RollingBack
Waiting == {"install", "rollback"}
Over == {"none", "answered", "failed"}
Awaiting == {"upload", "installing", "handshake", "rollingBack"}

InstallTypeOK ==
    /\ {current, previous} \subseteq Versions \cup {None}
    /\ binary \in [Versions -> FileStates]
    /\ manifest \in [Versions -> FileStates]
    /\ staged \in [Attempts -> FileStates]
    /\ lock \in Attempts \cup {None}
    /\ remote \in [Attempts -> [step : Critical \cup Waiting \cup Over,
                                kept : Versions \cup {None}]]
    /\ core \in [Attempts -> [step : Awaiting \cup {"new", "ask", "connected",
                                                    "failed"},
                              reason : {None, "missing", "upgrade"},
                              deployed : BOOLEAN]]
    /\ deaths \in 0..MaxDeaths

Init ==
    /\ current \in Versions \cup {None}
    /\ previous = None
    /\ binary = [v \in Versions |-> IF v = current THEN "whole" ELSE "absent"]
    /\ manifest = binary
    /\ staged = [a \in Attempts |-> "absent"]
    /\ lock = None
    /\ remote = [a \in Attempts |-> [step |-> "none", kept |-> None]]
    /\ core = [a \in Attempts |->
                 [step |-> "new", reason |-> None, deployed |-> FALSE]]
    /\ deaths = 0

-----------------------------------------------------------------------------
(* The process on the host.                                                *)

At(a, step) == remote[a].step = step
Go(a, step) == remote' = [remote EXCEPT ![a].step = step]

\* A process ends; the lock goes with it.
End(a, step) ==
    /\ remote' = [remote EXCEPT ![a] = [step |-> step, kept |-> None]]
    /\ lock' = IF lock = a THEN None ELSE lock

\* Mutant: the lock is opened but not taken.
TakesAnyway(a) == lock' = a

TakesLock(a) == lock = None /\ lock' = a

Lock(a) ==
    /\ TakesLock(a)
    /\ \/ At(a, "install") /\ Go(a, "place")
       \/ At(a, "rollback") /\ Go(a, "check")
    /\ UNCHANGED <<current, previous, binary, manifest, staged, deaths, core>>

\* Mutant: the digest of the staged file is not compared.
AcceptsAny(a) == staged[a] # "absent"

Accepts(a) ==
    staged[a] = "whole" /\ binary[ArtifactOf[a]] \in {"absent", "whole"}

\* The staged file becomes the binary of its directory, or is removed when
\* that is there already; a file of another digest is refused.
Place(a) ==
    /\ At(a, "place")
    /\ \/ /\ Accepts(a)
          /\ binary' = [binary EXCEPT ![ArtifactOf[a]] =
                          IF @ = "absent" THEN staged[a] ELSE @]
          /\ staged' = [staged EXCEPT ![a] = "absent"]
          /\ Go(a, "truncate")
          /\ UNCHANGED lock
       \/ /\ ~Accepts(a)
          /\ End(a, "failed")
          /\ UNCHANGED <<binary, staged>>
    /\ UNCHANGED <<current, previous, manifest, deaths, core>>

\* os.WriteFile truncates the manifest and then writes it, also when the
\* directory is the one in use.
WriteManifest(a) ==
    /\ \/ /\ At(a, "truncate") /\ Go(a, "write")
          /\ manifest' = [manifest EXCEPT ![ArtifactOf[a]] = "broken"]
       \/ /\ At(a, "write") /\ Go(a, "compare")
          /\ manifest' = [manifest EXCEPT ![ArtifactOf[a]] = "whole"]
    /\ UNCHANGED <<current, previous, binary, staged, lock, deaths, core>>

\* The runtime in use becomes the one to fall back to; nothing to do when it
\* is the one to install.
KeepPrevious(a) ==
    /\ At(a, "compare")
    /\ \/ current = ArtifactOf[a] /\ End(a, "answered") /\ UNCHANGED previous
       \/ /\ current # ArtifactOf[a]
          /\ previous' = IF current = None THEN previous ELSE current
          /\ remote' = [remote EXCEPT ![a] =
                          [step |-> "current", kept |-> previous]]
          /\ UNCHANGED lock
    /\ UNCHANGED <<current, binary, manifest, staged, deaths, core>>

ReplaceCurrent(a) ==
    /\ At(a, "current")
    /\ current' = ArtifactOf[a]
    /\ End(a, "answered")
    /\ UNCHANGED <<previous, binary, manifest, staged, deaths, core>>

\* Mutant: the rollback does not compare.
MayRollBackAny(a) ==
    /\ previous # None
    /\ binary[previous] = "whole" /\ manifest[previous] = "whole"

\* The expected current is what the installation answered with.
MayRollBack(a) ==
    /\ current = ArtifactOf[a]
    /\ previous # None
    /\ binary[previous] = "whole" /\ manifest[previous] = "whole"

CheckRollback(a) ==
    /\ At(a, "check")
    /\ \/ MayRollBack(a) /\ Go(a, "swap") /\ UNCHANGED lock
       \/ ~MayRollBack(a) /\ End(a, "failed")
    /\ UNCHANGED <<current, previous, binary, manifest, staged, deaths, core>>

RollbackCurrent(a) ==
    /\ At(a, "swap")
    /\ current' = previous
    /\ remote' = [remote EXCEPT ![a] = [step |-> "keep", kept |-> current]]
    /\ UNCHANGED <<previous, binary, manifest, staged, lock, deaths, core>>

RollbackPrevious(a) ==
    /\ At(a, "keep")
    /\ previous' = remote[a].kept
    /\ End(a, "answered")
    /\ UNCHANGED <<current, binary, manifest, staged, deaths, core>>

RemoteStep(a) ==
    \/ Place(a) \/ WriteManifest(a) \/ KeepPrevious(a) \/ ReplaceCurrent(a)
    \/ CheckRollback(a) \/ RollbackCurrent(a) \/ RollbackPrevious(a)

\* A process is killed, or the host restarts under it.
RemoteDies(a) ==
    /\ remote[a].step \in Critical \cup Waiting
    /\ deaths < MaxDeaths
    /\ deaths' = deaths + 1
    /\ End(a, "failed")
    /\ UNCHANGED <<current, previous, binary, manifest, staged, core>>

-----------------------------------------------------------------------------
(* connect() in the Core.                                                  *)

In(a, step) == core[a].step = step
Enters(a, step) == core' = [core EXCEPT ![a].step = step]
Leaves(a, step) == core' = [core EXCEPT ![a] = [@ EXCEPT !.step = step, !.reason = None]]

Approved(a, reason) == core[a].reason = reason

\* readRemoteVersion; a call that fails in any way reads as a missing runtime.
\* What is not ready needs an approval of exactly this proposal.
ReadVersion(a) ==
    /\ In(a, "new")
    /\ \E found \in {current, None} :
         LET reason == IF found = None THEN "missing" ELSE "upgrade" IN
         \/ found = ArtifactOf[a] /\ Leaves(a, "handshake")
         \/ /\ found # ArtifactOf[a] /\ Approved(a, reason)
            /\ Leaves(a, "upload")
         \/ /\ found # ArtifactOf[a] /\ ~Approved(a, reason)
            /\ core' = [core EXCEPT ![a] = [@ EXCEPT !.step = "ask",
                                                 !.reason = reason]]
    /\ UNCHANGED <<hostVars, remote>>

\* The person approves the proposal, and connect() runs once more.
Approve(a) ==
    /\ In(a, "ask")
    /\ Enters(a, "new")
    /\ UNCHANGED <<hostVars, remote>>

\* sftp puts the file into the staging directory, ssh runs it there.
Deploy(a) ==
    /\ In(a, "upload")
    /\ \E file \in {"whole", "broken"} : staged' = [staged EXCEPT ![a] = file]
    /\ Enters(a, "installing")
    /\ Go(a, "install")
    /\ UNCHANGED <<current, previous, binary, manifest, lock, deaths>>

InstallAnswered(a) ==
    /\ In(a, "installing")
    /\ \/ /\ At(a, "answered")
          /\ core' = [core EXCEPT ![a] =
                         [step |-> "handshake", reason |-> None, deployed |-> TRUE]]
       \/ At(a, "failed") /\ Enters(a, "failed")
    /\ UNCHANGED <<hostVars, remote>>

\* The catch of connect: what this call deployed is rolled back.
Undo(a) ==
    IF core[a].deployed
    THEN Enters(a, "rollingBack") /\ Go(a, "rollback")
    ELSE Enters(a, "failed") /\ UNCHANGED remote

\* The runtime behind the link is started and says who it is.
Handshake(a) ==
    /\ In(a, "handshake")
    /\ \/ /\ current = ArtifactOf[a]
          /\ Enters(a, "connected") /\ UNCHANGED remote
       \/ Undo(a)
    /\ UNCHANGED hostVars

RollbackAnswered(a) ==
    /\ In(a, "rollingBack")
    /\ remote[a].step \in Over
    /\ Enters(a, "failed")
    /\ UNCHANGED <<hostVars, remote>>

\* A timeout, an abort or a lost connection ends the ssh client only.
GivesUp(a) ==
    /\ core[a].step \in Awaiting \ {"handshake"}
    /\ Enters(a, "failed")
    /\ UNCHANGED <<hostVars, remote>>

CoreStep(a) ==
    \/ ReadVersion(a) \/ Deploy(a) \/ InstallAnswered(a)
    \/ Handshake(a) \/ RollbackAnswered(a)

Next ==
    \E a \in Attempts :
       \/ Lock(a) \/ RemoteStep(a) \/ RemoteDies(a)
       \/ CoreStep(a) \/ Approve(a) \/ GivesUp(a)

Spec == Init /\ [][Next]_vars

-----------------------------------------------------------------------------
(* Properties.                                                             *)

\* installer_linux.go: whatever dies where, the links only ever name a
\* directory with the right binary in it, so the current one can be started,
\* and a host that once had a runtime never loses it to a rollback.
LinkedRuntimesAreWhole ==
    /\ InstallTypeOK
    /\ \A v \in {current, previous} \ {None} : binary[v] = "whole"
    /\ current = None => previous = None

\* M0-B2-VERIFICATION.md:21, "compare-and-swap rollback": a rollback only takes
\* away the runtime its own connect() had deployed, and puts a verified one in
\* its place.
RollbackIsDue ==
    [][\A a \in Attempts :
         At(a, "swap") /\ remote'[a].step = "keep" =>
            /\ core[a].deployed
            /\ current = ArtifactOf[a]
            /\ manifest[current'] = "whole"]_vars

\* Between its two links an installation and a rollback count as not yet done
\* and as done.
Links ==
    INSTANCE RuntimeLinks WITH
        previous <- IF lock # None /\ remote[lock].step \in {"current", "keep"}
                    THEN remote[lock].kept ELSE previous

ImplementsLinks == Links!Spec
=============================================================================

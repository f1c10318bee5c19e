----------------------------- MODULE AiProviders -----------------------------
(***************************************************************************)
(* The DeepSeek side of AiProviderService: the saved profile, the tests of *)
(* a profile and the turns that wait for the service, through changes of   *)
(* the profile, timeouts, stops, the closing of the Core and its restart.  *)
(*                                                                         *)
(* There is one profile. The key in it is protected; `readable` says       *)
(* whether the protector can still give it back. Base URLs go by their     *)
(* normal form.                                                            *)
(***************************************************************************)
EXTENDS Naturals

CONSTANTS
    Urls, Models, Keys,
    Tests, Turns,    \* requests to the service, by what they are for
    Conversations,
    Undefined,
    SessionOnly,     \* the protector of the browser mode: keys are kept in
                     \* memory, and are gone when the Core ends
    MaxRestarts      \* bound: restarts of the Core

ServiceCalls == Tests \cup Turns
Credentials == [url: Urls, model: Models, key: Keys]
Profile == [url: Urls, model: Models, key: Keys, readable: BOOLEAN, verified: BOOLEAN]

ASSUME ProvidersAssumption ==
    /\ Undefined \notin Keys \cup Turns \cup Conversations \cup Credentials \cup Profile
    /\ Tests \cap Turns = {}
    /\ SessionOnly \in BOOLEAN /\ MaxRestarts \in Nat

Phases == {"none", "connecting", "reading"}

VARIABLES
    profile,    \* the row "deepseek" of ai_provider_profiles, or Undefined
    lastTest,   \* lastDeepSeekTest: Credentials or Undefined
    phase,      \* how far the request of a call is
    tested,     \* test -> the credentials it was begun with, or Undefined
    conv,       \* turn -> its conversation, or Undefined
    active,     \* activeDeepSeekTurns: conversation -> turn or Undefined
    aborted,    \* calls whose controller was aborted
    stopped,    \* turns the user has stopped (activeTurn.cancelled)
    accepted,   \* history: credentials the service has accepted in a test
    restarts

calls == <<phase, tested, conv, active, aborted, stopped>>
providersVars == <<profile, lastTest, calls, accepted, restarts>>

ProvidersInit ==
    /\ profile = Undefined /\ lastTest = Undefined
    /\ phase = [c \in ServiceCalls |-> "none"]
    /\ tested = [c \in Tests |-> Undefined]
    /\ conv = [t \in Turns |-> Undefined]
    /\ active = [v \in Conversations |-> Undefined]
    /\ aborted = {} /\ stopped = {} /\ accepted = {}
    /\ restarts = 0

Running(c) == phase[c] # "none"
To(c, p) == phase' = [phase EXCEPT ![c] = p]

-----------------------------------------------------------------------------
(* The profile.                                                            *)

\* savedDeepSeekApiKey.
SavedKey == IF profile # Undefined /\ profile.readable THEN profile.key ELSE Undefined

\* The key of a request: the one that comes with it, or the saved one.
KeyFor(given) == IF given = Undefined THEN SavedKey ELSE given

\* The profile saved has these credentials.
Saved(cred) ==
    profile # Undefined /\ profile.url = cred.url /\ profile.model = cred.model
                   /\ SavedKey = cred.key

Verified(cred) == lastTest = cred \/ (Saved(cred) /\ profile.verified)

\* PUT: without any key the request is refused and changes nothing.
Configure(url, model, given) ==
    /\ KeyFor(given) # Undefined
    /\ LET cred == [url |-> url, model |-> model, key |-> KeyFor(given)] IN
       profile' = [url |-> url, model |-> model, key |-> cred.key,
                   readable |-> TRUE, verified |-> Verified(cred)]
    /\ UNCHANGED <<lastTest, calls, accepted, restarts>>

\* DELETE: the row goes, what is known of the last test stays.
Clear ==
    /\ profile' = Undefined
    /\ UNCHANGED <<lastTest, calls, accepted, restarts>>

-----------------------------------------------------------------------------
(* Requests to the service.                                                *)

TestBegins(c, url, model, given) ==
    /\ phase[c] = "none"
    /\ KeyFor(given) # Undefined
    /\ To(c, "connecting")
    /\ tested' = [tested EXCEPT ![c] = [url |-> url, model |-> model, key |-> KeyFor(given)]]
    /\ UNCHANGED <<profile, lastTest, conv, active, aborted, stopped, accepted, restarts>>

\* The ConversationService runs one turn of a conversation at a time.
Busy(v) == \E t \in Turns : Running(t) /\ conv[t] = v

Registered(v, t) == [active EXCEPT ![v] = t]

\* A turn that finds no key throws and changes nothing. With one, its
\* controller takes the place of an older one.
TurnBegins(t, v) ==
    /\ phase[t] = "none" /\ ~Busy(v)
    /\ SavedKey # Undefined
    /\ To(t, "connecting")
    /\ conv' = [conv EXCEPT ![t] = v]
    /\ aborted' = aborted \cup ({active[v]} \ {Undefined})
    /\ active' = Registered(v, t)
    /\ UNCHANGED <<profile, lastTest, tested, stopped, accepted, restarts>>

\* fetch resolves with a response that is ok; an aborted one rejects.
Responds(c) ==
    /\ phase[c] = "connecting" /\ c \notin aborted
    /\ To(c, "reading")
    /\ UNCHANGED <<profile, lastTest, tested, conv, active, aborted, stopped, accepted, restarts>>

\* The call is over; a turn removes its controller unless another one took
\* its place.
Ended(c) ==
    /\ To(c, "none")
    /\ tested' = [d \in Tests |-> IF d = c THEN Undefined ELSE tested[d]]
    /\ conv' = [t \in Turns |-> IF t = c THEN Undefined ELSE conv[t]]
    /\ active' = [v \in Conversations |-> IF active[v] = c THEN Undefined ELSE active[v]]
    /\ aborted' = aborted \ {c} /\ stopped' = stopped \ {c}

\* The body was read to its end, within the limit, and is what was asked for.
BodyArrives(c) == phase[c] = "reading" /\ c \notin aborted

\* Mutant: the profile is marked although its key was changed meanwhile.
MarkedByName(cred) ==
    IF profile # Undefined /\ profile.url = cred.url /\ profile.model = cred.model
    THEN [profile EXCEPT !.verified = TRUE] ELSE profile

\* What a test that was passed does to the profile saved by now.
Marked(cred) == IF Saved(cred) THEN [profile EXCEPT !.verified = TRUE] ELSE profile

TestPasses(c) ==
    /\ BodyArrives(c)
    /\ lastTest' = tested[c]
    /\ profile' = Marked(tested[c])
    /\ accepted' = accepted \cup {tested[c]}
    /\ Ended(c)
    /\ UNCHANGED restarts

TurnAnswers(t) ==
    /\ BodyArrives(t)
    /\ Ended(t)
    /\ UNCHANGED <<profile, lastTest, accepted, restarts>>

\* No connection, another status, a body that is too long or not as asked, or
\* an abort, in which case fetch and the reader of the body reject.
Fails(c) ==
    /\ Running(c)
    /\ Ended(c)
    /\ UNCHANGED <<profile, lastTest, accepted, restarts>>

-----------------------------------------------------------------------------
(* Timers, stops, and the end of the Core.                                 *)

Abort(cs) == aborted' = aborted \cup cs

\* The timer of a call runs until complete() has returned.
Timeout(c) ==
    /\ Running(c) /\ c \notin aborted
    /\ Abort({c})
    /\ UNCHANGED <<profile, lastTest, phase, tested, conv, active, stopped, accepted, restarts>>

\* stop of a conversation: its turn is marked, then the engine is told.
Stop(v) ==
    /\ stopped' = stopped \cup {t \in Turns : Running(t) /\ conv[t] = v}
    /\ Abort({active[v]} \ {Undefined})
    /\ UNCHANGED <<profile, lastTest, phase, tested, conv, active, accepted, restarts>>

\* Mutant: the turns are forgotten and go on.
ForgottenTurns == UNCHANGED aborted

AbortedTurns == Abort({active[v] : v \in Conversations} \ {Undefined})

\* The server closes; requests that came before may still begin.
CloseService ==
    /\ AbortedTurns
    /\ active' = [v \in Conversations |-> Undefined]
    /\ UNCHANGED <<profile, lastTest, phase, tested, conv, stopped, accepted, restarts>>

\* A key protected by the system can be read again, unless the system has
\* changed.
Reopened ==
    \/ ~SessionOnly /\ UNCHANGED profile
    \/ profile' = IF profile = Undefined THEN Undefined ELSE [profile EXCEPT !.readable = FALSE]

\* The Core ends in whatever state and starts again.
CrashAndRestart ==
    /\ restarts < MaxRestarts
    /\ restarts' = restarts + 1
    /\ Reopened
    /\ lastTest' = Undefined
    /\ phase' = [c \in ServiceCalls |-> "none"]
    /\ tested' = [c \in Tests |-> Undefined]
    /\ conv' = [t \in Turns |-> Undefined]
    /\ active' = [v \in Conversations |-> Undefined]
    /\ aborted' = {} /\ stopped' = {}
    /\ UNCHANGED accepted

ProvidersNext ==
    \/ \E url \in Urls, model \in Models, given \in Keys \cup {Undefined} :
          \/ Configure(url, model, given)
          \/ \E c \in Tests : TestBegins(c, url, model, given)
    \/ Clear
    \/ \E t \in Turns, v \in Conversations : TurnBegins(t, v)
    \/ \E c \in ServiceCalls : Responds(c) \/ Fails(c) \/ Timeout(c)
    \/ \E c \in Tests : TestPasses(c)
    \/ \E t \in Turns : TurnAnswers(t)
    \/ \E v \in Conversations : Stop(v)
    \/ CloseService
    \/ CrashAndRestart

ProvidersSpec == ProvidersInit /\ [][ProvidersNext]_providersVars

-----------------------------------------------------------------------------
(* Properties.                                                             *)

TypeOK ==
    /\ profile \in Profile \cup {Undefined}
    /\ lastTest \in Credentials \cup {Undefined}
    /\ phase \in [ServiceCalls -> Phases]
    /\ tested \in [Tests -> Credentials \cup {Undefined}]
    /\ conv \in [Turns -> Conversations \cup {Undefined}]
    /\ active \in [Conversations -> Turns \cup {Undefined}]
    /\ aborted \subseteq ServiceCalls /\ stopped \subseteq Turns
    /\ accepted \subseteq Credentials
    /\ restarts \in Nat

\* A profile that is shown as verified has the URL, the model and the key the
\* service has accepted in a test, whatever was saved, cleared or tested
\* between the beginning and the end of that test, and after a restart
\* (testDeepSeek and configureDeepSeek).
VerifiedWasAccepted ==
    profile # Undefined /\ profile.verified =>
       [url |-> profile.url, model |-> profile.model, key |-> profile.key] \in accepted

\* A running turn that was not aborted is the one a stop of its conversation
\* and the closing of the Core will reach; none that the user stopped goes on.
TurnsCanBeStopped ==
    TypeOK /\ \A t \in Turns :
       Running(t) /\ t \notin aborted => t \notin stopped /\ active[conv[t]] = t

=============================================================================

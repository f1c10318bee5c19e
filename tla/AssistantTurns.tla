--------------------------- MODULE AssistantTurns ---------------------------
(***************************************************************************)
(* Turns of a conversation in the Core: the previews PreparedContexts      *)
(* holds, and create, turn and stop of the ConversationService. A turn     *)
(* waits for its engine while other calls arrive.                          *)
(*                                                                         *)
(* A conversation goes by the name of the call that created it, and a      *)
(* message by the call that sent it. The output of a terminal, one command *)
(* here, is counted in units.                                              *)
(***************************************************************************)
EXTENDS DeliveredRanges

CONSTANTS
    Calls,       \* sends of a page: a turn, after a create if need be
    Pages, Terminals,
    None,
    MaxRecords,  \* 1024: previews held at the same time
    MaxPreviews, \* bound: previews made in a run
    MaxOutput    \* bound: units of output of all terminals

ASSUME TurnsAssumption ==
    /\ None \notin Calls \cup Nat \cup Pages \cup Terminals
    /\ {MaxRecords, MaxPreviews, MaxOutput} \subseteq Nat

VARIABLES
    step,       \* call -> how far it is, on its page and in the Core
    asks,       \* call -> [page, terminal, conv, id]
    preview,    \* id -> [owner, terminal, conv, start, end] as prepared
    held,       \* PreparedContexts.records: previews that were not consumed
    expired,    \* the last preview that is more than ten minutes old
    known,      \* id -> the turns of its conversation it takes off
    output,     \* terminal -> units its command has printed
    convs,      \* conversations
    messages,   \* conversation -> [role, call]
    status,     \* call -> of its user message
    active,     \* conversation -> the call in activeTurns
    cancelled   \* calls whose active turn was stopped

Ids == 1..MaxPreviews

previews == <<preview, held, expired, known>>
talk == <<convs, messages, status, active, cancelled>>
core == <<previews, output, talk>>

NoPreview == [owner |-> None, terminal |-> None, conv |-> None, start |-> 0, end |-> 0]

CoreInit ==
    /\ step = [s \in Calls |-> "new"]
    /\ asks = [s \in Calls |-> [page |-> None, terminal |-> None, conv |-> None, id |-> None]]
    /\ preview = [i \in Ids |-> NoPreview]
    /\ held = {} /\ expired = 0 /\ convs = {} /\ cancelled = {}
    /\ known = [i \in Ids |-> {}]
    /\ output = [t \in Terminals |-> 0]
    /\ messages = [c \in Calls |-> << >>]
    /\ status = [s \in Calls |-> "none"]
    /\ active = [c \in Calls |-> None]

Conv(s) == IF asks[s].conv = None THEN s ELSE asks[s].conv
To(s, next) == step' = [step EXCEPT ![s] = next]
Issued == {i \in Ids : preview[i].owner # None}
NewId == Cardinality(Issued) + 1
Fresh == {i \in held : i > expired}

-----------------------------------------------------------------------------
(* PreparedContexts.                                                       *)

Attachment(s) == preview[asks[s].id]

\* Mutant: what was sent counts, whatever became of it.
CountsAlways(s, terminal) == Attachment(s).terminal = terminal

\* Only a turn that succeeded has delivered its attachment.
Counts(s, terminal) == status[s] = "succeeded" /\ Attachment(s).terminal = terminal

Asked(conv) == {s \in Calls : \E k \in DOMAIN messages[conv] :
                                messages[conv][k] = [role |-> "user", call |-> s]}

Sent(conv, terminal) == UNION {Units(Attachment(s)) :
                               s \in {s \in Asked(conv) : Counts(s, terminal)}}

\* "auto": the last unsent range of the command; all of it when nothing was
\* sent before, and no attachment when nothing is left.
AutoRange(conv, terminal) ==
    LET left == (1..output[terminal])
                  \ (IF conv = None THEN {} ELSE Sent(conv, terminal))
    IN  IF left # {} THEN LastRange(left)
        ELSE [start |-> output[terminal], end |-> output[terminal]]

\* prepare: drops what has expired and refuses beyond the limit.
Prepared(i, page, terminal, conv) ==
    /\ Cardinality(Fresh) < MaxRecords
    /\ LET range == AutoRange(conv, terminal) IN
       preview' = [preview EXCEPT ![i] = [owner |-> page, terminal |-> terminal,
                     conv |-> conv, start |-> range.start, end |-> range.end]]
    /\ held' = Fresh \cup {i}
    /\ known' = [known EXCEPT ![i] = {s \in Calls : status[s] = "succeeded" /\ Conv(s) = conv}]
    /\ UNCHANGED expired

\* The oldest one first; of one that is gone the time makes no difference.
PreviewExpires ==
    /\ Fresh # {}
    /\ expired' = Min(Fresh)
    /\ UNCHANGED <<step, asks, preview, held, known, output, talk>>

\* get: the preview is held, fresh, of this browser and of this terminal.
Found(s) ==
    LET i == asks[s].id IN
    /\ i \in Fresh
    /\ preview[i].owner = asks[s].page
    /\ preview[i].terminal = asks[s].terminal

\* Mutant: the preview stays after it was used.
ConsumedKeeping(i) == held

Consumed(i) == held \ {i}

Prints(t) ==
    /\ MapThenSumSet(LAMBDA u : output[u], Terminals) < MaxOutput
    /\ output' = [output EXCEPT ![t] = @ + 1]
    /\ UNCHANGED <<step, asks, previews, talk>>

-----------------------------------------------------------------------------
(* create: the preview is bound to the conversation before the engine is   *)
(* asked for a session.                                                    *)

Create(s) ==
    /\ step[s] = "creating"
    /\ \/ /\ Found(s) /\ preview[asks[s].id].conv = None
          /\ preview' = [preview EXCEPT ![asks[s].id].conv = s]
          /\ To(s, "session")
       \/ /\ ~(Found(s) /\ preview[asks[s].id].conv = None)
          /\ To(s, "refused")
          /\ UNCHANGED preview
    /\ UNCHANGED <<asks, held, expired, known, output, talk>>

\* startSession answers.
SessionEnds(s) ==
    /\ step[s] = "session"
    /\ \/ convs' = convs \cup {s} /\ To(s, "created")
       \/ To(s, "refused") /\ UNCHANGED convs
    /\ UNCHANGED <<asks, previews, output, messages, status, active, cancelled>>

-----------------------------------------------------------------------------
(* turn and stop.                                                          *)

\* Mutant: a turn is not refused while another one is running.
NeverBusy(conv) == FALSE

TurnInProgress(conv) == active[conv] # None

Accepted(s) == ~TurnInProgress(Conv(s)) /\ Conv(s) \in convs
               /\ Found(s) /\ preview[asks[s].id].conv = Conv(s)

Said(role, s) == messages' = [messages EXCEPT ![Conv(s)] = Append(@, [role |-> role, call |-> s])]

Turn(s) ==
    /\ step[s] = "turning"
    /\ \/ /\ Accepted(s)
          /\ held' = Consumed(asks[s].id)
          /\ Said("user", s)
          /\ status' = [status EXCEPT ![s] = "pending"]
          /\ active' = [active EXCEPT ![Conv(s)] = s]
          /\ To(s, "engine")
       \/ /\ ~Accepted(s)
          /\ To(s, "refused")
          /\ UNCHANGED <<held, messages, status, active>>
    /\ UNCHANGED <<asks, preview, expired, known, output, convs, cancelled>>

\* runTurn of the engine answers or throws; an answer that comes after a
\* stop is thrown away.
EngineEnds(s) ==
    /\ step[s] = "engine"
    /\ active' = [active EXCEPT ![Conv(s)] = None]
    /\ \/ /\ s \notin cancelled
          /\ status' = [status EXCEPT ![s] = "succeeded"]
          /\ Said("assistant", s)
          /\ To(s, "answered")
       \/ /\ status' = [status EXCEPT ![s] = IF s \in cancelled THEN "cancelled" ELSE "failed"]
          /\ To(s, "refused")
          /\ UNCHANGED messages
    /\ cancelled' = cancelled \ {s}
    /\ UNCHANGED <<asks, previews, output, convs>>

\* stop names the conversation and not the turn.
Stopped(conv) ==
    cancelled' = cancelled \cup ({active[conv]} \ {None})

\* The Core starts again: conversations are loaded, a turn that was pending
\* is unknown; previews and calls are gone.
InCore == {"creating", "session", "created", "turning", "engine", "answered"}

Restarted ==
    /\ step' = [s \in Calls |-> IF step[s] \in InCore THEN "refused" ELSE step[s]]
    /\ status' = [s \in Calls |-> IF status[s] = "pending" THEN "unknown" ELSE status[s]]
    /\ active' = [c \in Calls |-> None]
    /\ held' = {} /\ cancelled' = {}
    /\ UNCHANGED <<asks, preview, expired, known, output, convs, messages>>
=============================================================================

--------------------------- MODULE AssistantPage ---------------------------
(***************************************************************************)
(* useAssistantController on the pages, over the turns of the Core. Calls  *)
(* travel: a stop can overtake the turn it is meant for, an answer can     *)
(* come after the page has given its call up, and a call can be repeated   *)
(* on its way. turnRequestVersion is modelled by what it decides: whether  *)
(* a call is the current one of its page.                                  *)
(***************************************************************************)
EXTENDS AssistantTurns

CONSTANTS
    Repeats,      \* bound: calls that are repetitions of another
    MaxEvents     \* bound: stops, changes of the pane and restarts of the Core

ASSUME PageAssumption == Repeats \subseteq Calls /\ MaxEvents \in Nat

VARIABLES
    focus,      \* page -> the terminal of its active pane
    sending,    \* pages that wait for an answer
    current,    \* page -> the call of its turnRequestVersion
    chosen,     \* page -> the preview send() would use, once it is there
    shownConv,  \* page -> its conversation
    stops,      \* conversations with a POST .../stop on its way
    events      \* number of stops, changes of the pane and restarts

page == <<focus, sending, current, chosen, shownConv, stops, events>>
vars == <<step, asks, core, page>>

Init ==
    /\ CoreInit
    /\ focus \in [Pages -> Terminals]
    /\ sending = {} /\ stops = {}
    /\ current = [p \in Pages |-> None]
    /\ chosen = [p \in Pages |-> None]
    /\ shownConv = [p \in Pages |-> None]
    /\ events = 0

Counted == events < MaxEvents /\ events' = events + 1

-----------------------------------------------------------------------------
(* The page.                                                               *)

\* The effect that keeps a preview ready while nothing is being sent: it runs
\* again when something it depends on has changed, of which time is none.
Prepare(p) ==
    /\ p \notin sending /\ Issued # Ids
    /\ chosen[p] # None => preview[chosen[p]].end # output[focus[p]]
    /\ Prepared(NewId, p, focus[p], shownConv[p])
    /\ chosen' = [chosen EXCEPT ![p] = NewId]
    /\ UNCHANGED <<step, asks, output, talk, focus, sending, current, shownConv, stops, events>>

\* Another pane becomes active: its preview has to be prepared first.
FocusPane(p, t) ==
    /\ Counted
    /\ focus[p] # t
    /\ focus' = [focus EXCEPT ![p] = t]
    /\ chosen' = [chosen EXCEPT ![p] = None]
    /\ UNCHANGED <<step, asks, core, sending, current, shownConv, stops>>

\* selectConversation and newConversation.
SelectConversation(p, conv) ==
    /\ p \notin sending /\ shownConv[p] # conv
    /\ shownConv' = [shownConv EXCEPT ![p] = conv]
    /\ chosen' = [chosen EXCEPT ![p] = None]
    /\ UNCHANGED <<step, asks, core, focus, sending, current, stops, events>>

Unsent == {s \in Calls \ Repeats : step[s] = "new"}

Send(p) ==
    LET s == CHOOSE s \in Unsent : TRUE IN
    /\ Unsent # {}
    /\ p \notin sending /\ chosen[p] # None
    /\ asks' = [asks EXCEPT ![s] = [page |-> p, terminal |-> focus[p],
                  conv |-> shownConv[p], id |-> chosen[p]]]
    /\ To(s, IF shownConv[p] = None THEN "creating" ELSE "turning")
    /\ sending' = sending \cup {p}
    /\ current' = [current EXCEPT ![p] = s]
    /\ chosen' = [chosen EXCEPT ![p] = None]
    /\ UNCHANGED <<core, focus, shownConv, stops, events>>

\* Mutant: the version is not compared.
AnyIsCurrent(s) == TRUE

IsCurrent(s) == current[asks[s].page] = s

\* createConversation sets the conversation for any version, reads the list
\* and leaves it to send() to go on or not.
LearnsConversation(s) ==
    /\ step[s] = "created"
    /\ shownConv' = [shownConv EXCEPT ![asks[s].page] = s]
    /\ chosen' = [chosen EXCEPT ![asks[s].page] = None]
    /\ To(s, "listing")
    /\ UNCHANGED <<asks, core, focus, sending, current, stops, events>>

GoesOn(s) ==
    /\ step[s] = "listing"
    /\ To(s, IF IsCurrent(s) THEN "turning" ELSE "over")
    /\ UNCHANGED <<asks, core, page>>

\* The answer of the turn; the list of conversations is read before send()
\* is over.
ShowsAnswer(s) ==
    /\ step[s] = "answered"
    /\ IF IsCurrent(s)
       THEN /\ shownConv' = [shownConv EXCEPT ![asks[s].page] = Conv(s)]
            /\ To(s, "refreshing")
       ELSE To(s, "over") /\ UNCHANGED shownConv
    /\ UNCHANGED <<asks, core, focus, sending, current, chosen, stops, events>>

\* The finally of send().
Finished(s) == IF IsCurrent(s) THEN sending \ {asks[s].page} ELSE sending

SendEnds(s) ==
    /\ step[s] \in {"refused", "refreshing"}
    /\ sending' = Finished(s)
    /\ To(s, "over")
    /\ UNCHANGED <<asks, core, focus, current, chosen, shownConv, stops, events>>

\* stop() of the controller: the page is free at once, the Core hears later.
Stop(p) ==
    LET s == current[p]
        conv == IF step[s] \in {"turning", "engine", "answered", "refused", "refreshing"}
                THEN Conv(s) ELSE shownConv[p]
    IN
    /\ p \in sending
    /\ sending' = sending \ {p}
    /\ current' = [current EXCEPT ![p] = None]
    /\ Counted
    /\ stops' = stops \cup ({conv} \ {None})
    /\ UNCHANGED <<step, asks, core, focus, chosen, shownConv>>

-----------------------------------------------------------------------------
(* The way to the Core.                                                    *)

StopArrives(conv) ==
    /\ conv \in stops
    /\ stops' = stops \ {conv}
    /\ Stopped(conv)
    /\ UNCHANGED <<step, asks, previews, output, convs, messages, status, active,
                   focus, sending, current, chosen, shownConv, events>>

\* A turn arrives once more; nobody reads the second answer.
RepeatCall(s, r) ==
    /\ r \in Repeats /\ step[r] = "new"
    /\ s \notin Repeats /\ step[s] \in {"engine", "answered", "refused", "over"}
    /\ status[s] # "none"
    /\ asks' = [asks EXCEPT ![r] = [asks[s] EXCEPT !.conv = Conv(s)]]
    /\ To(r, "turning")
    /\ UNCHANGED <<core, page>>

Restart ==
    /\ Counted
    /\ Restarted
    /\ stops' = {}
    /\ UNCHANGED <<focus, sending, current, chosen, shownConv>>

CoreStep(s) == (Create(s) \/ SessionEnds(s) \/ Turn(s) \/ EngineEnds(s))
               /\ UNCHANGED page
PageStep(s) == LearnsConversation(s) \/ GoesOn(s) \/ ShowsAnswer(s) \/ SendEnds(s)

Next ==
    \/ \E s \in Calls : CoreStep(s) \/ PageStep(s)
    \/ \E p \in Pages :
         \/ Stop(p) \/ Prepare(p) \/ Send(p)
         \/ \E t \in Terminals : FocusPane(p, t)
         \/ \E c \in convs \cup {None} : SelectConversation(p, c)
    \/ \E c \in Calls : StopArrives(c)
    \/ \E s, r \in Calls : RepeatCall(s, r)
    \/ (\/ PreviewExpires
        \/ \E t \in Terminals : Prints(t)) /\ UNCHANGED page
    \/ Restart

Spec == Init /\ [][Next]_vars

-----------------------------------------------------------------------------
Taken == {s \in Calls : status[s] # "none"}

\* A preview is used by one turn, of the conversation it was made for or
\* bound to, however often and wherever it is sent.
PreparedUsedOnce ==
    \A s \in Taken :
      /\ preview[asks[s].id].conv = Conv(s)
      /\ \A r \in Taken \ {s} : asks[r].id # asks[s].id

\* The answer stands right behind its question: between the two no turn of
\* the conversation can come, from any page, also after a stop and a restart.
AnswersFollowQuestions ==
    \A c \in Calls : \A k \in DOMAIN messages[c] :
      LET m == messages[c][k] IN
      m.role = "assistant" =>
        /\ status[m.call] = "succeeded"
        /\ k > 1 /\ messages[c][k - 1] = [role |-> "user", call |-> m.call]

\* The ledger of a conversation: what its successful turns have carried of a
\* terminal has no gap, and no unit was carried twice unless the second
\* preview had been prepared before the first turn succeeded.
LedgerIsExact ==
    \A c \in convs, t \in Terminals :
      LET sent == {s \in Calls : status[s] = "succeeded" /\ Conv(s) = c
                                 /\ Attachment(s).terminal = t}
          all == UNION {Units(Attachment(s)) : s \in sent}
      IN  /\ \A u \in all : 1..u \subseteq all
          /\ \A s, r \in sent :
               s # r /\ Units(Attachment(s)) \cap Units(Attachment(r)) # {} =>
                 s \notin known[asks[r].id] /\ r \notin known[asks[s].id]

\* A page waits exactly as long as its current call is on its way: no error
\* path and no restart of the Core leaves it waiting for nothing, and what
\* becomes of a stopped call does not free it for the next one.
WaitsForItsCall ==
    \A p \in Pages :
      p \in sending <=> current[p] # None /\ step[current[p]] # "over"
=============================================================================

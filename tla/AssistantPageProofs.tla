------------------------- MODULE AssistantPageProofs -------------------------
(***************************************************************************)
(* Theorems about AssistantPage, for every set of calls, pages and         *)
(* terminals and for all bounds, and about DeliveredRanges, for every list *)
(* of deliveries.                                                          *)
(***************************************************************************)
EXTENDS AssistantPage, FiniteSetTheorems, SequenceTheorems, WellFoundedInduction, TLAPS

-----------------------------------------------------------------------------
(* Types.                                                                  *)

Before == {"new", "creating", "session", "created", "listing", "turning"}
StepNames == Before \cup {"engine", "answered", "refused", "refreshing", "over"}
Ask == [page : Pages \cup {None}, terminal : Terminals \cup {None},
        conv : Calls \cup {None}, id : Ids \cup {None}]
Message == [role : {"user", "assistant"}, call : Calls]
Statuses == {"none", "pending", "succeeded", "failed", "cancelled", "unknown"}

PageType ==
    /\ step \in [Calls -> StepNames] /\ asks \in [Calls -> Ask]
    /\ status \in [Calls -> Statuses]
    /\ active \in [Calls -> Calls \cup {None}]
    /\ messages \in [Calls -> Seq(Message)]
    /\ convs \subseteq Calls /\ sending \subseteq Pages
    /\ focus \in [Pages -> Terminals]
    /\ current \in [Pages -> Calls \cup {None}]
    /\ shownConv \in [Pages -> Calls \cup {None}]
    /\ chosen \in [Pages -> Ids \cup {None}]

LEMMA InitType ==
    ASSUME Init
    PROVE  PageType
  <1>1. << >> \in Seq(Message)
    OBVIOUS
  <1>2. messages \in [Calls -> Seq(Message)]
    BY <1>1 DEF Init, CoreInit
  <1> QED BY <1>2 DEF Init, CoreInit, PageType, Before, StepNames, Ask, Statuses

LEMMA ConvType ==
    ASSUME PageType, NEW s \in Calls
    PROVE  Conv(s) \in Calls /\ asks[s] \in Ask
  BY DEF PageType, Ask, Conv

LEMMA SaidType ==
    ASSUME PageType, NEW s \in Calls, NEW r \in {"user", "assistant"}, Said(r, s)
    PROVE  messages' \in [Calls -> Seq(Message)]
  <1>1. [role |-> r, call |-> s] \in Message
    BY DEF Message
  <1> QED BY <1>1, ConvType DEF PageType, Said

\* What send() takes: a call that is new and no repetition.
LEMMA SendsNew ==
    ASSUME Unsent # {}
    PROVE  LET s == CHOOSE s \in Unsent : TRUE
           IN  s \in Calls /\ s \notin Repeats /\ step[s] = "new"
  BY DEF Unsent

\* The stretches of the code that a step of the model stands for.
LEMMA NextSteps ==
    ASSUME Next
    PROVE  \/ \E s \in Calls :
                 \/ (Create(s) \/ SessionEnds(s) \/ Turn(s) \/ EngineEnds(s))
                       /\ UNCHANGED page
                 \/ LearnsConversation(s) \/ GoesOn(s) \/ ShowsAnswer(s)
                 \/ SendEnds(s) \/ StopArrives(s)
                 \/ \E r \in Calls : RepeatCall(s, r)
           \/ \E p \in Pages :
                 \/ Stop(p) \/ Prepare(p) \/ Send(p)
                 \/ \E t \in Terminals : FocusPane(p, t)
                 \/ \E c \in convs \cup {None} : SelectConversation(p, c)
           \/ (PreviewExpires \/ \E t \in Terminals : Prints(t)) /\ UNCHANGED page
           \/ Restart
  BY DEF Next, CoreStep, PageStep

LEMMA NextType ==
    ASSUME PageType, TurnsAssumption, [Next]_vars
    PROVE  PageType'
  <1> USE DEF PageType, Before, StepNames, Statuses
  <1>1. ASSUME NEW s \in Calls, Create(s), UNCHANGED page
        PROVE  PageType'
    BY <1>1 DEF Create, To, talk, page
  <1>2. ASSUME NEW s \in Calls, SessionEnds(s), UNCHANGED page
        PROVE  PageType'
    BY <1>2 DEF SessionEnds, To, previews, page
  <1>3. ASSUME NEW s \in Calls, Turn(s), UNCHANGED page
        PROVE  PageType'
    <2>1. messages' \in [Calls -> Seq(Message)]
      BY <1>3, SaidType DEF Turn
    <2>2. /\ status' = status \/ status' = [status EXCEPT ![s] = "pending"]
          /\ active' = active \/ active' = [active EXCEPT ![Conv(s)] = s]
          /\ step' = [step EXCEPT ![s] = "engine"] \/ step' = [step EXCEPT ![s] = "refused"]
          /\ UNCHANGED <<asks, convs, sending, focus, current, shownConv, chosen>>
      BY <1>3 DEF Turn, To, page
    <2>3. step' \in [Calls -> StepNames]
      BY <2>2
    <2>4. status' \in [Calls -> Statuses]
      BY <2>2
    <2>5. active' \in [Calls -> Calls \cup {None}]
      <3>1. active \in [Calls -> Calls \cup {None}]
        OBVIOUS
      <3>2. \/ active' = active \/ active' = [active EXCEPT ![Conv(s)] = s]
            \/ active' = [active EXCEPT ![Conv(s)] = None]
        BY <2>2
      <3> HIDE DEF PageType, Before, StepNames, Statuses
      <3> QED BY <3>1, <3>2
    <2> HIDE DEF StepNames, Statuses
    <2> QED BY <2>1, <2>2, <2>3, <2>4, <2>5
  <1>4. ASSUME NEW s \in Calls, EngineEnds(s), UNCHANGED page
        PROVE  PageType'
    <2>1. messages' \in [Calls -> Seq(Message)]
      BY <1>4, SaidType DEF EngineEnds
    <2>2. /\ \E x \in {"succeeded", "cancelled", "failed"} : status' = [status EXCEPT ![s] = x]
          /\ active' = [active EXCEPT ![Conv(s)] = None]
          /\ step' = [step EXCEPT ![s] = "answered"] \/ step' = [step EXCEPT ![s] = "refused"]
          /\ UNCHANGED <<asks, convs, sending, focus, current, shownConv, chosen>>
      BY <1>4 DEF EngineEnds, To, page
    <2>3. step' \in [Calls -> StepNames]
      BY <2>2
    <2>4. status' \in [Calls -> Statuses]
      BY <2>2
    <2>5. active' \in [Calls -> Calls \cup {None}]
      <3>1. active \in [Calls -> Calls \cup {None}]
        OBVIOUS
      <3>2. \/ active' = active \/ active' = [active EXCEPT ![Conv(s)] = s]
            \/ active' = [active EXCEPT ![Conv(s)] = None]
        BY <2>2
      <3> HIDE DEF PageType, Before, StepNames, Statuses
      <3> QED BY <3>1, <3>2
    <2> HIDE DEF StepNames, Statuses
    <2> QED BY <2>1, <2>2, <2>3, <2>4, <2>5
  <1>5. ASSUME NEW s \in Calls, LearnsConversation(s)
        PROVE  PageType'
    BY <1>5 DEF LearnsConversation, To, core, previews, talk
  <1>6. ASSUME NEW s \in Calls, GoesOn(s)
        PROVE  PageType'
    BY <1>6 DEF GoesOn, IsCurrent, To, core, previews, talk, page
  <1>7. ASSUME NEW s \in Calls, ShowsAnswer(s)
        PROVE  PageType'
    <2>1. Conv(s) \in Calls
      BY ConvType
    <2>2. /\ \/ shownConv' = [shownConv EXCEPT ![asks[s].page] = Conv(s)]
             \/ shownConv' = shownConv
          /\ step' = [step EXCEPT ![s] = "refreshing"] \/ step' = [step EXCEPT ![s] = "over"]
          /\ UNCHANGED <<asks, core, focus, sending, current, chosen>>
      BY <1>7 DEF ShowsAnswer, To
    <2>3. shownConv' \in [Pages -> Calls \cup {None}]
      BY <2>1, <2>2
    <2>4. step' \in [Calls -> StepNames]
      BY <2>2
    <2> HIDE DEF StepNames, Statuses
    <2> QED BY <2>2, <2>3, <2>4 DEF core, previews, talk
  <1>8. ASSUME NEW s \in Calls, SendEnds(s)
        PROVE  PageType'
    BY <1>8 DEF SendEnds, Finished, IsCurrent, To, core, previews, talk
  <1>9. ASSUME NEW s \in Calls, StopArrives(s)
        PROVE  PageType'
    BY <1>9 DEF StopArrives, Stopped, previews
  <1>10. ASSUME NEW s \in Calls, NEW r \in Calls, RepeatCall(s, r)
        PROVE  PageType'
    <2>1. [asks[s] EXCEPT !.conv = Conv(s)] \in Ask
      <3>1. asks[s] \in Ask /\ Conv(s) \in Calls
        BY ConvType
      <3> HIDE DEF PageType
      <3> QED BY <3>1 DEF Ask
    <2> QED BY <1>10, <2>1 DEF RepeatCall, To, core, previews, talk, page
  <1>11. ASSUME NEW p \in Pages, Stop(p)
        PROVE  PageType'
    BY <1>11 DEF Stop, Counted, core, previews, talk
  <1>12. ASSUME NEW p \in Pages, Prepare(p)
        PROVE  PageType'
    <2>1. NewId \in Ids
      <3>1. Issued # Ids /\ Issued \subseteq Ids
        BY <1>12 DEF Prepare, Issued
      <3>2. MaxPreviews \in Nat /\ IsFiniteSet(Ids) /\ Cardinality(Ids) = MaxPreviews
        BY FS_Interval DEF TurnsAssumption, Ids
      <3>3. /\ Cardinality(Issued) \in Nat /\ Cardinality(Issued) <= MaxPreviews
            /\ Cardinality(Issued) # MaxPreviews
        BY <3>1, <3>2, FS_Subset, FS_CardinalityType
      <3> QED BY <3>2, <3>3 DEF NewId, Ids
    <2> QED BY <1>12, <2>1 DEF Prepare, Prepared, talk
  <1>13. ASSUME NEW p \in Pages, Send(p)
        PROVE  PageType'
    <2> DEFINE s == CHOOSE s \in Unsent : TRUE
               new == [page |-> p, terminal |-> focus[p], conv |-> shownConv[p],
                       id |-> chosen[p]]
    <2>1. s \in Calls
      BY <1>13, SendsNew DEF Send
    <2>2. new \in Ask
      BY DEF Ask
    <2>3. /\ asks' = [asks EXCEPT ![s] = new]
          /\ step' = [step EXCEPT ![s] = IF shownConv[p] = None THEN "creating" ELSE "turning"]
          /\ sending' = sending \cup {p} /\ current' = [current EXCEPT ![p] = s]
          /\ chosen' = [chosen EXCEPT ![p] = None]
          /\ UNCHANGED <<core, focus, shownConv>>
      BY <1>13 DEF Send, To
    <2> HIDE DEF s, new
    <2> QED BY <2>1, <2>2, <2>3 DEF core, previews, talk
  <1>14. ASSUME NEW p \in Pages, NEW t \in Terminals, FocusPane(p, t)
        PROVE  PageType'
    BY <1>14 DEF FocusPane, Counted, core, previews, talk
  <1>15. ASSUME NEW p \in Pages, NEW c \in convs \cup {None}, SelectConversation(p, c)
        PROVE  PageType'
    BY <1>15 DEF SelectConversation, core, previews, talk
  <1>16. ASSUME PreviewExpires, UNCHANGED page
        PROVE  PageType'
    BY <1>16 DEF PreviewExpires, talk, page
  <1>17. ASSUME NEW t \in Terminals, Prints(t), UNCHANGED page
        PROVE  PageType'
    BY <1>17 DEF Prints, previews, talk, page
  <1>18. ASSUME Restart
        PROVE  PageType'
    BY <1>18 DEF Restart, Counted, Restarted, InCore
  <1>19. ASSUME UNCHANGED vars
        PROVE  PageType'
    BY <1>19 DEF vars, core, previews, talk, page
  <1> QED
    BY <1>1, <1>2, <1>3, <1>4, <1>5, <1>6, <1>7, <1>8, <1>9, <1>10, <1>11,
       <1>12, <1>13, <1>14, <1>15, <1>16, <1>17, <1>18, <1>19, NextSteps

-----------------------------------------------------------------------------
(* The inductive invariants.                                               *)

\* A call that has not got to its turn has left nothing behind; one that waits
\* for its engine is the active turn of its conversation, and its question is
\* the last thing said there.
TurnsAreSound ==
    /\ \A s \in Calls : step[s] \in Before => status[s] = "none"
    /\ \A s \in Calls : step[s] = "engine" =>
         LET said == messages[Conv(s)] IN
         /\ status[s] = "pending" /\ active[Conv(s)] = s
         /\ said # << >> /\ said[Len(said)] = [role |-> "user", call |-> s]

\* What was used was prepared, is held no more, and is of the conversation it
\* was used in.
UsedAreGone ==
    \A s \in Taken :
       /\ asks[s].id \in Issued \ held
       /\ preview[asks[s].id].conv = Conv(s)
       /\ \A r \in Taken \ {s} : asks[r].id # asks[s].id

\* The call a page goes by is one it has sent itself.
CurrentIsOwn ==
    \A p \in Pages : current[p] # None =>
       step[current[p]] # "new" /\ asks[current[p]].page = p

-----------------------------------------------------------------------------
(* Who waits.                                                              *)

WaitsInv == PageType /\ CurrentIsOwn /\ WaitsForItsCall

LEMMA NextWaits ==
    ASSUME WaitsInv, TurnsAssumption, [Next]_vars
    PROVE  WaitsInv'
  <1>1. PageType'
    BY NextType DEF WaitsInv
  <1> USE DEF WaitsInv, CurrentIsOwn, WaitsForItsCall, PageType
  <1>2. ASSUME NEW s \in Calls,
               Create(s) \/ SessionEnds(s) \/ Turn(s) \/ EngineEnds(s), UNCHANGED page
        PROVE  WaitsInv'
    BY <1>1, <1>2 DEF Create, SessionEnds, Turn, EngineEnds, To, page
  <1>3. ASSUME NEW s \in Calls, LearnsConversation(s)
        PROVE  WaitsInv'
    BY <1>1, <1>3 DEF LearnsConversation, To
  <1>4. ASSUME NEW s \in Calls, GoesOn(s)
        PROVE  WaitsInv'
    BY <1>1, <1>4 DEF GoesOn, IsCurrent, To, page
  <1>5. ASSUME NEW s \in Calls, ShowsAnswer(s)
        PROVE  WaitsInv'
    BY <1>1, <1>5 DEF ShowsAnswer, IsCurrent, To
  <1>6. ASSUME NEW s \in Calls, SendEnds(s)
        PROVE  WaitsInv'
    BY <1>1, <1>6 DEF SendEnds, Finished, IsCurrent, To
  <1>7. ASSUME NEW s \in Calls, StopArrives(s)
        PROVE  WaitsInv'
    BY <1>1, <1>7 DEF StopArrives
  <1>8. ASSUME NEW s \in Calls, NEW r \in Calls, RepeatCall(s, r)
        PROVE  WaitsInv'
    BY <1>1, <1>8 DEF RepeatCall, To, page
  <1>9. ASSUME NEW p \in Pages, Stop(p)
        PROVE  WaitsInv'
    BY <1>1, <1>9 DEF Stop
  <1>10. ASSUME NEW p \in Pages, Send(p)
        PROVE  WaitsInv'
    <2> DEFINE s == CHOOSE s \in Unsent : TRUE
    <2>1. s \in Calls /\ step[s] = "new"
      BY <1>10, SendsNew DEF Send
    <2>2. /\ step' \in {[step EXCEPT ![s] = "creating"], [step EXCEPT ![s] = "turning"]}
          /\ \E q : asks' = [asks EXCEPT ![s] = q] /\ q.page = p
          /\ sending' = sending \cup {p}
          /\ current' = [current EXCEPT ![p] = s]
      BY <1>10 DEF Send, To
    <2> HIDE DEF s
    <2> QED BY <1>1, <2>1, <2>2, TurnsAssumption DEF TurnsAssumption
  <1>11. ASSUME NEW p \in Pages,
                \/ Prepare(p)
                \/ \E t \in Terminals : FocusPane(p, t)
                \/ \E c \in convs \cup {None} : SelectConversation(p, c)
         PROVE  WaitsInv'
    BY <1>1, <1>11 DEF Prepare, FocusPane, SelectConversation
  <1>12. ASSUME PreviewExpires \/ \E t \in Terminals : Prints(t), UNCHANGED page
         PROVE  WaitsInv'
    BY <1>1, <1>12 DEF PreviewExpires, Prints, page
  <1>13. CASE Restart
    BY <1>1, <1>13 DEF Restart, Restarted, InCore
  <1>14. CASE UNCHANGED vars
    BY <1>1, <1>14 DEF vars, page
  <1> QED
    BY <1>2, <1>3, <1>4, <1>5, <1>6, <1>7, <1>8, <1>9, <1>10, <1>11, <1>12,
       <1>13, <1>14, NextSteps

\* use-assistant-controller.ts: a page waits exactly as long as its own current
\* call is under way, through stops, errors, answers out of order and restarts.
THEOREM PageWaits == Spec => []WaitsForItsCall
  <1>1. Init => WaitsInv
    BY InitType DEF WaitsInv, Init, CurrentIsOwn, WaitsForItsCall
  <1>2. WaitsInv /\ [Next]_vars => WaitsInv'
    BY NextWaits, TurnsAssumption
  <1>3. WaitsInv => WaitsForItsCall
    BY DEF WaitsInv
  <1> QED BY <1>1, <1>2, <1>3, PTL DEF Spec

-----------------------------------------------------------------------------
(* Questions and answers.                                                  *)

\* A step of one call outside its turn, or of none.
Walks == \/ UNCHANGED step
         \/ \E s \in Calls, x \in StepNames \ {"engine"} :
              /\ step[s] # "engine"
              /\ x \in Before => step[s] \in Before
              /\ step' = [step EXCEPT ![s] = x]

\* Only few actions touch what the two invariants below are about.
LEMMA NextKinds ==
    ASSUME PageType, [Next]_vars
    PROVE  \/ Walks /\ UNCHANGED <<asks, status, active, messages>>
           \/ \E s \in Calls : Turn(s) \/ EngineEnds(s)
           \/ \E s, r \in Calls : RepeatCall(s, r)
           \/ \E p \in Pages : Send(p)
           \/ Restart
  <1> DEFINE Kinds == Walks /\ UNCHANGED <<asks, status, active, messages>>
  <1>1. ASSUME NEW s \in Calls,
               \/ Create(s) \/ SessionEnds(s) \/ LearnsConversation(s) \/ GoesOn(s)
               \/ ShowsAnswer(s) \/ SendEnds(s)
        PROVE  Kinds
    <2>1. UNCHANGED <<asks, status, active, messages>>
      BY <1>1 DEF Create, SessionEnds, LearnsConversation, GoesOn, ShowsAnswer,
                  SendEnds, talk, core
    <2>2. PICK x \in StepNames \ {"engine"} :
             /\ step[s] # "engine" /\ (x \in Before => step[s] \in Before)
             /\ step' = [step EXCEPT ![s] = x]
      BY <1>1 DEF Create, SessionEnds, LearnsConversation, GoesOn, ShowsAnswer,
                  SendEnds, To, StepNames, Before
    <2> QED BY <2>1, <2>2 DEF Walks
  <1>2. ASSUME NEW s \in Calls, StopArrives(s)
        PROVE  Kinds
    BY <1>2 DEF StopArrives, Walks
  <1>3. ASSUME NEW p \in Pages,
               \/ Stop(p) \/ Prepare(p)
               \/ \E t \in Terminals : FocusPane(p, t)
               \/ \E c \in convs \cup {None} : SelectConversation(p, c)
        PROVE  Kinds
    BY <1>3 DEF Stop, Prepare, FocusPane, SelectConversation, Walks, talk, core
  <1>4. ASSUME PreviewExpires \/ \E t \in Terminals : Prints(t)
        PROVE  Kinds
    BY <1>4 DEF PreviewExpires, Prints, Walks, talk
  <1>5. CASE UNCHANGED vars
    BY <1>5 DEF vars, core, talk, Walks
  <1> QED BY <1>1, <1>2, <1>3, <1>4, <1>5, NextSteps

AnswersInv == PageType /\ TurnsAreSound /\ AnswersFollowQuestions

\* No turn begins, and the conversations of the turns that go on are left alone.
LEMMA SoundStays ==
    ASSUME TurnsAreSound,
           \A s \in Calls : step'[s] \in Before => status'[s] = "none",
           \A s \in Calls : step'[s] = "engine" =>
             /\ step[s] = "engine" /\ asks'[s] = asks[s] /\ status'[s] = status[s]
             /\ active'[Conv(s)] = active[Conv(s)]
             /\ messages'[Conv(s)] = messages[Conv(s)]
    PROVE  TurnsAreSound'
  BY DEF TurnsAreSound, Conv

\* A turn that waits for its engine is the only one of its conversation.
LEMMA ActiveTurn ==
    ASSUME TurnsAreSound, NEW s \in Calls, step[s] = "engine"
    PROVE  active[Conv(s)] = s /\ status[s] = "pending"
  BY DEF TurnsAreSound

LEMMA SaidCalls ==
    ASSUME PageType
    PROVE  \A c \in Calls : \A k \in DOMAIN messages[c] : messages[c][k].call \in Calls
  <1>1. TAKE c \in Calls
  <1> TAKE k \in DOMAIN messages[c]
  <1>2. messages[c] \in Seq(Message)
    BY DEF PageType
  <1>3. messages[c][k] \in Message
    BY <1>2
  <1> QED BY <1>3 DEF Message

LEMMA FollowStays ==
    ASSUME PageType, AnswersFollowQuestions, UNCHANGED messages,
           \A s \in Calls : status[s] = "succeeded" => status'[s] = "succeeded"
    PROVE  AnswersFollowQuestions'
  <1>1. \A c \in Calls : \A k \in DOMAIN messages[c] : messages[c][k].call \in Calls
    BY SaidCalls
  <1> QED BY <1>1 DEF AnswersFollowQuestions

\* What was said stays where it was when something is said after it.
LEMMA SaidBehind ==
    ASSUME PageType, NEW s \in Calls, NEW r \in {"user", "assistant"}, Said(r, s)
    PROVE  LET said == messages[Conv(s)]
           IN  /\ \A c \in Calls \ {Conv(s)} : messages'[c] = messages[c]
               /\ said \in Seq(Message) /\ messages'[Conv(s)] \in Seq(Message)
               /\ Len(messages'[Conv(s)]) = Len(said) + 1
               /\ messages'[Conv(s)][Len(said) + 1] = [role |-> r, call |-> s]
               /\ \A k \in 1..Len(said) : messages'[Conv(s)][k] = said[k]
  <1> DEFINE m == [role |-> r, call |-> s]
             said == messages[Conv(s)]
  <1>1. m \in Message /\ Conv(s) \in Calls
    BY ConvType DEF Message
  <1>2. said \in Seq(Message)
    BY <1>1 DEF PageType
  <1>3. /\ messages'[Conv(s)] = Append(said, m)
        /\ \A c \in Calls \ {Conv(s)} : messages'[c] = messages[c]
    BY <1>1 DEF Said, PageType
  <1> HIDE DEF m, said
  <1>4. /\ Append(said, m) \in Seq(Message) /\ Len(Append(said, m)) = Len(said) + 1
        /\ Append(said, m)[Len(said) + 1] = m
        /\ \A k \in 1..Len(said) : Append(said, m)[k] = said[k]
    BY <1>1, <1>2
  <1> QED BY <1>2, <1>3, <1>4 DEF m, said

\* An answer may only be said right behind its question.
LEMMA FollowGrows ==
    ASSUME PageType, AnswersFollowQuestions,
           NEW s \in Calls, NEW r \in {"user", "assistant"}, Said(r, s),
           \A q \in Calls : status[q] = "succeeded" => status'[q] = "succeeded",
           r = "assistant" =>
             LET said == messages[Conv(s)]
             IN  /\ said # << >> /\ said[Len(said)] = [role |-> "user", call |-> s]
                 /\ status'[s] = "succeeded"
    PROVE  AnswersFollowQuestions'
  <1> DEFINE said == messages[Conv(s)]
             after == messages'[Conv(s)]
  <1>1. /\ \A c \in Calls \ {Conv(s)} : messages'[c] = messages[c]
        /\ said \in Seq(Message) /\ after \in Seq(Message)
        /\ Len(after) = Len(said) + 1
        /\ after[Len(said) + 1] = [role |-> r, call |-> s]
        /\ \A k \in 1..Len(said) : after[k] = said[k]
    BY SaidBehind
  <1>2. \A c \in Calls : \A k \in DOMAIN messages[c] : messages[c][k].call \in Calls
    BY SaidCalls
  <1>3. Conv(s) \in Calls
    BY ConvType
  <1>4. SUFFICES ASSUME NEW c \in Calls, NEW k \in DOMAIN messages'[c],
                        messages'[c][k].role = "assistant"
                 PROVE  LET m == messages'[c][k]
                        IN  /\ status'[m.call] = "succeeded" /\ k > 1
                            /\ messages'[c][k - 1] = [role |-> "user", call |-> m.call]
    BY DEF AnswersFollowQuestions
  <1>5. CASE c # Conv(s)
    BY <1>1, <1>2, <1>4, <1>5 DEF AnswersFollowQuestions
  <1>6. CASE c = Conv(s) /\ k \in 1..Len(said)
    <2>1. k \in DOMAIN said /\ after[k] = said[k] /\ DOMAIN said = 1..Len(said)
      BY <1>1, <1>6
    <2>2. /\ status[said[k].call] = "succeeded" /\ k > 1
          /\ said[k - 1] = [role |-> "user", call |-> said[k].call]
      BY <1>3, <1>4, <1>6, <2>1 DEF AnswersFollowQuestions
    <2>3. k - 1 \in 1..Len(said) /\ after[k - 1] = said[k - 1]
      BY <1>1, <1>6, <2>2
    <2> HIDE DEF said, after
    <2> QED BY <1>2, <1>3, <1>6, <2>1, <2>2, <2>3 DEF said, after
  <1>7. CASE c = Conv(s) /\ k = Len(said) + 1
    <2>1. r = "assistant" /\ after[k] = [role |-> "assistant", call |-> s]
      BY <1>1, <1>4, <1>7
    <2>2. Len(said) \in 1..Len(said) /\ Len(said) = k - 1 /\ k > 1
      BY <1>1, <1>7, <2>1
    <2> QED BY <1>1, <1>7, <2>1, <2>2
  <1>8. c = Conv(s) => k \in 1..Len(said) \/ k = Len(said) + 1
    BY <1>1
  <1> QED BY <1>5, <1>6, <1>7, <1>8

LEMMA TurnKeepsAnswers ==
    ASSUME AnswersInv, TurnsAssumption, NEW s \in Calls, Turn(s), PageType'
    PROVE  AnswersInv'
  <1>1. step[s] = "turning" /\ status[s] = "none" /\ Conv(s) \in Calls
    BY ConvType DEF AnswersInv, Turn, TurnsAreSound, Before
  <1>2. CASE UNCHANGED <<messages, status, active, asks>> /\ To(s, "refused")
    <2>1. TurnsAreSound'
      BY <1>2, SoundStays DEF AnswersInv, TurnsAreSound, To, PageType, Before
    <2> QED BY <1>2, <2>1, FollowStays DEF AnswersInv
  <1>3. CASE /\ active[Conv(s)] = None /\ UNCHANGED asks
             /\ Said("user", s) /\ status' = [status EXCEPT ![s] = "pending"]
             /\ active' = [active EXCEPT ![Conv(s)] = s] /\ To(s, "engine")
    <2>1. \A r \in Calls : step[r] = "engine" => Conv(r) # Conv(s)
      <3>1. None \notin Calls
        BY TurnsAssumption DEF TurnsAssumption
      <3> QED BY <1>3, <3>1, ActiveTurn DEF AnswersInv
    <2>2. /\ \A r \in Calls \ {s} : step'[r] = step[r] /\ status'[r] = status[r]
          /\ step'[s] = "engine" /\ status'[s] = "pending"
          /\ active'[Conv(s)] = s
          /\ \A c \in Calls \ {Conv(s)} : active'[c] = active[c]
          /\ \A r \in Calls : asks'[r] = asks[r]
      BY <1>1, <1>3 DEF AnswersInv, PageType, To
    <2>3. LET said == messages'[Conv(s)] IN
            said # << >> /\ said[Len(said)] = [role |-> "user", call |-> s]
      <3> DEFINE said == messages[Conv(s)]
                 after == messages'[Conv(s)]
      <3>1. /\ said \in Seq(Message) /\ after \in Seq(Message)
            /\ Len(after) = Len(said) + 1
            /\ after[Len(said) + 1] = [role |-> "user", call |-> s]
        BY <1>3, SaidBehind DEF AnswersInv
      <3> HIDE DEF said, after
      <3>2. after # << >>
        BY <3>1
      <3> QED BY <3>1, <3>2 DEF after
    <2>4. \A c \in Calls \ {Conv(s)} : messages'[c] = messages[c]
      BY <1>3, SaidBehind DEF AnswersInv
    <2>5. \A r \in Calls : Conv(r) \in Calls
      BY ConvType DEF AnswersInv
    <2>6. TurnsAreSound'
      BY <1>1, <2>1, <2>2, <2>3, <2>4, <2>5 DEF AnswersInv, TurnsAreSound, Before, Conv
    <2>7. AnswersFollowQuestions'
      BY <1>1, <1>3, <2>2, FollowGrows DEF AnswersInv
    <2> QED BY <2>6, <2>7 DEF AnswersInv
  <1> QED BY <1>2, <1>3 DEF Turn, Accepted, TurnInProgress

LEMMA EngineKeepsAnswers ==
    ASSUME AnswersInv, NEW s \in Calls, EngineEnds(s), PageType'
    PROVE  AnswersInv'
  <1>1. step[s] = "engine" /\ status[s] = "pending" /\ Conv(s) \in Calls
    BY ConvType DEF AnswersInv, EngineEnds, TurnsAreSound
  <1>2. \A r \in Calls \ {s} : step[r] = "engine" => Conv(r) # Conv(s)
    BY <1>1, ActiveTurn DEF AnswersInv
  <1>3. /\ step'[s] \in {"answered", "refused"}
        /\ \A r \in Calls \ {s} : step'[r] = step[r] /\ status'[r] = status[r]
        /\ \A c \in Calls \ {Conv(s)} : active'[c] = active[c]
        /\ UNCHANGED asks
    BY <1>1 DEF EngineEnds, To, AnswersInv, PageType
  <1>4. \A c \in Calls \ {Conv(s)} : messages'[c] = messages[c]
    BY SaidBehind DEF EngineEnds, AnswersInv
  <1>5. \A r \in Calls : Conv(r) \in Calls
    BY ConvType DEF AnswersInv
  <1>6. TurnsAreSound'
    BY <1>2, <1>3, <1>4, <1>5, SoundStays DEF AnswersInv, TurnsAreSound, Before
  <1>7. AnswersFollowQuestions'
    <2>1. CASE UNCHANGED messages
      BY <1>1, <1>3, <2>1, FollowStays DEF AnswersInv
    <2>2. CASE Said("assistant", s) /\ status' = [status EXCEPT ![s] = "succeeded"]
      <3>1. status'[s] = "succeeded"
        BY <2>2 DEF AnswersInv, PageType
      <3>2. LET said == messages[Conv(s)]
            IN  said # << >> /\ said[Len(said)] = [role |-> "user", call |-> s]
        BY <1>1 DEF AnswersInv, TurnsAreSound
      <3> QED BY <1>1, <1>3, <2>2, <3>1, <3>2, FollowGrows DEF AnswersInv
    <2> QED BY <2>1, <2>2 DEF EngineEnds
  <1> QED BY <1>6, <1>7 DEF AnswersInv

\* A call that begins, of the page or as a repetition.
LEMMA BeginKeepsAnswers ==
    ASSUME AnswersInv, NEW s \in Calls, step[s] = "new", PageType',
           NEW x \in Before, step' = [step EXCEPT ![s] = x],
           \A r \in Calls \ {s} : asks'[r] = asks[r],
           UNCHANGED <<status, active, messages>>
    PROVE  AnswersInv'
  <1>1. /\ \A r \in Calls \ {s} : step'[r] = step[r]
        /\ step'[s] = x /\ status[s] = "none"
    BY DEF AnswersInv, TurnsAreSound, PageType, Before
  <1>2. TurnsAreSound'
    BY <1>1, SoundStays DEF AnswersInv, TurnsAreSound, Before
  <1> QED BY <1>2, FollowStays DEF AnswersInv

LEMMA NextAnswers ==
    ASSUME AnswersInv, TurnsAssumption, [Next]_vars
    PROVE  AnswersInv'
  <1>1. PageType'
    BY NextType DEF AnswersInv
  <1>2. CASE Walks /\ UNCHANGED <<asks, status, active, messages>>
    <2>1. \A s \in Calls : /\ step'[s] \in Before => step[s] \in Before
                           /\ step'[s] = "engine" => step[s] = "engine"
      BY <1>2 DEF Walks, AnswersInv, PageType
    <2>2. TurnsAreSound'
      BY <1>2, <2>1, SoundStays DEF AnswersInv, TurnsAreSound
    <2> QED BY <1>1, <1>2, <2>2, FollowStays DEF AnswersInv
  <1>3. ASSUME NEW s \in Calls, NEW r \in Calls, RepeatCall(s, r)
        PROVE  AnswersInv'
    <2>1. /\ step[r] = "new" /\ step' = [step EXCEPT ![r] = "turning"]
          /\ \A q \in Calls \ {r} : asks'[q] = asks[q]
          /\ UNCHANGED <<status, active, messages>>
      BY <1>3 DEF RepeatCall, To, core, talk, AnswersInv, PageType
    <2>2. "turning" \in Before
      BY DEF Before
    <2> QED BY <1>1, <2>1, <2>2, BeginKeepsAnswers
  <1>4. ASSUME NEW p \in Pages, Send(p)
        PROVE  AnswersInv'
    <2> DEFINE s == CHOOSE s \in Unsent : TRUE
    <2>1. s \in Calls /\ step[s] = "new"
      BY <1>4, SendsNew DEF Send
    <2>2. PICK x \in Before : step' = [step EXCEPT ![s] = x]
      BY <1>4 DEF Send, To, Before
    <2>3. /\ \E q : asks' = [asks EXCEPT ![s] = q]
          /\ UNCHANGED <<status, active, messages>>
      BY <1>4 DEF Send, core, talk
    <2> HIDE DEF s
    <2>4. \A r \in Calls \ {s} : asks'[r] = asks[r]
      BY <2>1, <2>3 DEF AnswersInv, PageType
    <2> QED BY <1>1, <2>1, <2>2, <2>3, <2>4, BeginKeepsAnswers
  <1>5. CASE Restart
    <2>1. \A s \in Calls : step'[s] # "engine"
      BY <1>5 DEF Restart, Restarted, InCore
    <2>2. \A s \in Calls : step'[s] \in Before => step[s] \in Before
      BY <1>5 DEF Restart, Restarted, InCore, Before
    <2>3. \A s \in Calls : status[s] # "pending" => status'[s] = status[s]
      BY <1>5 DEF Restart, Restarted
    <2>4. TurnsAreSound'
      BY <2>1, <2>2, <2>3 DEF AnswersInv, TurnsAreSound
    <2>5. UNCHANGED messages
      BY <1>5 DEF Restart, Restarted
    <2> QED BY <1>1, <2>3, <2>4, <2>5, FollowStays DEF AnswersInv
  <1> QED
    BY <1>1, <1>2, <1>3, <1>4, <1>5, TurnKeepsAnswers, EngineKeepsAnswers, NextKinds
       DEF AnswersInv

\* conversation-service.ts:438: an answer stands right behind its question,
\* also when turns of several pages, stops and restarts come in between.
THEOREM AnswersFollow == Spec => []AnswersFollowQuestions
  <1>1. Init => AnswersInv
    BY InitType DEF AnswersInv, Init, CoreInit, TurnsAreSound, AnswersFollowQuestions
  <1>2. AnswersInv /\ [Next]_vars => AnswersInv'
    BY NextAnswers, TurnsAssumption
  <1>3. AnswersInv => AnswersFollowQuestions
    BY DEF AnswersInv
  <1> QED BY <1>1, <1>2, <1>3, PTL DEF Spec

-----------------------------------------------------------------------------
(* Previews.                                                               *)

\* Previews are records, numbered in the order of their making.
PreviewType ==
    /\ preview = [i \in Ids |-> preview[i]]
    /\ \A i \in Ids :
         LET v == preview[i]
         IN  v = [owner |-> v.owner, terminal |-> v.terminal, conv |-> v.conv,
                  start |-> v.start, end |-> v.end]
    /\ \E n \in 0..MaxPreviews : Issued = 1..n
    /\ held \subseteq Issued

UsedInv == PageType /\ TurnsAreSound /\ PreviewType /\ UsedAreGone

\* Who has taken a preview is known, and goes by it for good.
TakenStays ==
    \A s \in Calls : /\ status'[s] = "none" <=> status[s] = "none"
                     /\ status[s] # "none" => asks'[s] = asks[s]

LEMMA UsedStays ==
    ASSUME UsedInv, TakenStays, UNCHANGED preview, held' \subseteq held
    PROVE  PreviewType' /\ UsedAreGone'
  <1>1. Taken' = Taken
    BY DEF Taken, TakenStays
  <1>2. \A s \in Taken : asks'[s] = asks[s] /\ s \in Calls
    BY DEF Taken, TakenStays
  <1>3. Issued' = Issued
    BY DEF Issued
  <1> QED BY <1>1, <1>2, <1>3 DEF UsedInv, PreviewType, UsedAreGone, Conv

LEMMA InitUsed ==
    ASSUME Init, TurnsAssumption
    PROVE  UsedInv
  <1>1. preview = [i \in Ids |-> NoPreview] /\ held = {}
        /\ \A s \in Calls : step[s] = "new" /\ status[s] = "none"
    BY DEF Init, CoreInit
  <1>2. Issued = {}
    BY <1>1 DEF Issued, NoPreview
  <1>3. 0 \in 0..MaxPreviews /\ 1..0 = {}
    BY DEF TurnsAssumption
  <1>4. PreviewType
    BY <1>1, <1>2, <1>3 DEF PreviewType, NoPreview
  <1>5. TurnsAreSound /\ UsedAreGone
    BY <1>1 DEF TurnsAreSound, UsedAreGone, Taken
  <1> QED BY <1>4, <1>5, InitType DEF UsedInv

\* create binds a preview nobody has used.
LEMMA CreateKeepsUsed ==
    ASSUME UsedInv, NEW s \in Calls, Create(s)
    PROVE  PreviewType' /\ UsedAreGone'
  <1>1. CASE UNCHANGED preview
    BY <1>1, UsedStays DEF Create, talk, TakenStays
  <1>2. CASE Found(s) /\ preview' = [preview EXCEPT ![asks[s].id].conv = s]
    <2> DEFINE i == asks[s].id
    <2>1. i \in held /\ i \in Ids
      BY <1>2 DEF Found, Fresh, UsedInv, PreviewType, Issued
    <2>2. /\ preview' = [j \in Ids |-> preview'[j]]
          /\ \A j \in Ids \ {i} : preview'[j] = preview[j]
          /\ preview'[i] = [preview[i] EXCEPT !.conv = s]
      BY <1>2, <2>1 DEF UsedInv, PreviewType
    <2>3. preview'[i] = [owner |-> preview[i].owner, terminal |-> preview[i].terminal,
                         conv |-> s, start |-> preview[i].start, end |-> preview[i].end]
      BY <2>1, <2>2 DEF UsedInv, PreviewType
    <2>4. UNCHANGED <<held, asks, status>>
      BY DEF Create, talk
    <2> HIDE DEF i
    <2>5. Issued' = Issued
      BY <2>1, <2>2, <2>3 DEF Issued
    <2>6. PreviewType'
      BY <2>1, <2>2, <2>3, <2>4, <2>5 DEF UsedInv, PreviewType
    <2>7. \A r \in Taken : asks[r].id # i /\ asks[r].id \in Ids
      BY <2>1 DEF UsedInv, UsedAreGone, Issued
    <2>8. Taken' = Taken
      BY <2>4 DEF Taken
    <2>9. UsedAreGone'
      BY <2>2, <2>4, <2>5, <2>7, <2>8 DEF UsedInv, UsedAreGone, Conv
    <2> QED BY <2>6, <2>9
  <1> QED BY <1>1, <1>2 DEF Create

\* A new preview takes the place of none.
LEMMA NewPreview ==
    ASSUME UsedInv, TurnsAssumption, NEW p \in Pages, Prepare(p)
    PROVE  LET t == focus[p]
               range == AutoRange(shownConv[p], t)
           IN  /\ NewId \in Ids \ Issued /\ Issued' = Issued \cup {NewId}
               /\ \E n \in 0..MaxPreviews : Issued' = 1..n
               /\ preview' = [j \in Ids |-> preview'[j]]
               /\ \A j \in Ids \ {NewId} : preview'[j] = preview[j]
               /\ preview'[NewId] = [owner |-> p, terminal |-> t, conv |-> shownConv[p],
                                     start |-> range.start, end |-> range.end]
  <1>1. PICK n \in 0..MaxPreviews : Issued = 1..n
    BY DEF UsedInv, PreviewType
  <1>2. MaxPreviews \in Nat /\ n \in Nat /\ p # None
    BY DEF TurnsAssumption
  <1>3. Cardinality(Issued) = n
    BY <1>1, <1>2, FS_Interval
  <1>4. NewId = n + 1 /\ n # MaxPreviews
    BY <1>1, <1>3 DEF NewId, Prepare, Ids
  <1>5. NewId \in Ids /\ NewId \notin Issued
    BY <1>1, <1>2, <1>4 DEF Ids
  <1> DEFINE range == AutoRange(shownConv[p], focus[p])
             new == [owner |-> p, terminal |-> focus[p], conv |-> shownConv[p],
                     start |-> range.start, end |-> range.end]
  <1>6. preview' = [preview EXCEPT ![NewId] = new]
    BY DEF Prepare, Prepared
  <1>7. new.owner = p
    OBVIOUS
  <1> HIDE DEF NewId, new
  <1>8. /\ preview' = [j \in Ids |-> preview'[j]]
        /\ \A j \in Ids \ {NewId} : preview'[j] = preview[j]
        /\ preview'[NewId] = new
    BY <1>5, <1>6 DEF UsedInv, PreviewType
  <1>9. Issued' = Issued \cup {NewId}
    BY <1>2, <1>5, <1>7, <1>8 DEF Issued
  <1>10. Issued' = 1..(n + 1) /\ n + 1 \in 0..MaxPreviews
    BY <1>1, <1>2, <1>4, <1>9
  <1> QED BY <1>5, <1>8, <1>9, <1>10 DEF new

LEMMA PrepareKeepsUsed ==
    ASSUME UsedInv, TurnsAssumption, NEW p \in Pages, Prepare(p)
    PROVE  PreviewType' /\ UsedAreGone'
  <1> DEFINE range == AutoRange(shownConv[p], focus[p])
  <1>1. /\ NewId \in Ids \ Issued /\ Issued' = Issued \cup {NewId}
        /\ \E n \in 0..MaxPreviews : Issued' = 1..n
        /\ preview' = [j \in Ids |-> preview'[j]]
        /\ \A j \in Ids \ {NewId} : preview'[j] = preview[j]
        /\ preview'[NewId] = [owner |-> p, terminal |-> focus[p], conv |-> shownConv[p],
                              start |-> range.start, end |-> range.end]
    BY NewPreview
  <1>2. held' = Fresh \cup {NewId} /\ UNCHANGED <<asks, status>>
    BY DEF Prepare, Prepared, talk
  <1> HIDE DEF NewId, range
  <1>3. PreviewType'
    <2>1. held' \subseteq Issued'
      BY <1>1, <1>2 DEF Fresh, UsedInv, PreviewType
    <2> QED BY <1>1, <2>1 DEF UsedInv, PreviewType
  <1>4. UsedAreGone'
    <2>1. Taken' = Taken
      BY <1>2 DEF Taken
    <2>2. \A s \in Taken : asks[s].id \in Ids \ {NewId}
      BY <1>1 DEF UsedInv, UsedAreGone, Issued
    <2> QED BY <1>1, <1>2, <2>1, <2>2 DEF UsedInv, UsedAreGone, Fresh, Conv
  <1> QED BY <1>3, <1>4

\* A turn takes a preview that is held, so that nobody has used it.
LEMMA TurnKeepsUsed ==
    ASSUME UsedInv, NEW s \in Calls, Turn(s)
    PROVE  PreviewType' /\ UsedAreGone'
  <1>1. UNCHANGED <<asks, preview>>
    BY DEF Turn
  <1>2. CASE UNCHANGED <<held, status>>
    BY <1>1, <1>2, UsedStays DEF TakenStays
  <1>3. CASE /\ Accepted(s) /\ held' = Consumed(asks[s].id)
             /\ status' = [status EXCEPT ![s] = "pending"]
    <2>1. /\ asks[s].id \in held /\ asks[s].id \in Issued
          /\ preview[asks[s].id].conv = Conv(s)
      BY <1>3 DEF Accepted, Found, Fresh, UsedInv, PreviewType
    <2>2. held' = held \ {asks[s].id}
      BY <1>3 DEF Consumed
    <2>3. Taken' = Taken \cup {s}
      BY <1>3 DEF Taken, UsedInv, PageType
    <2>4. Issued' = Issued
      BY <1>1 DEF Issued
    <2>5. UsedAreGone'
      BY <1>1, <2>1, <2>2, <2>3, <2>4 DEF UsedInv, UsedAreGone, Conv
    <2>6. PreviewType'
      BY <1>1, <2>2, <2>4 DEF UsedInv, PreviewType
    <2> QED BY <2>5, <2>6
  <1> QED BY <1>2, <1>3 DEF Turn

\* Nothing is prepared, taken or delivered.
Quiet ==
    /\ TakenStays /\ UNCHANGED <<preview, known, messages>> /\ held' \subseteq held
    /\ \A s \in Calls : status'[s] = "succeeded" <=> status[s] = "succeeded"
    /\ \/ UNCHANGED output
       \/ \E t \in Terminals : output' = [output EXCEPT ![t] = @ + 1]

LEMMA NextQuiet ==
    ASSUME UsedInv, [Next]_vars
    PROVE  \/ Quiet
           \/ \E s \in Calls : Create(s) \/ Turn(s) \/ EngineEnds(s)
           \/ \E p \in Pages : Prepare(p)
  <1>1. ASSUME NEW s \in Calls,
               \/ SessionEnds(s) \/ LearnsConversation(s) \/ GoesOn(s)
               \/ ShowsAnswer(s) \/ SendEnds(s) \/ StopArrives(s)
        PROVE  Quiet
    BY <1>1 DEF SessionEnds, LearnsConversation, GoesOn, ShowsAnswer, SendEnds,
                StopArrives, previews, talk, core, TakenStays, Quiet
  <1>2. ASSUME NEW s \in Calls, NEW r \in Calls, RepeatCall(s, r)
        PROVE  Quiet
    <2>1. status[r] = "none"
      BY <1>2 DEF RepeatCall, UsedInv, TurnsAreSound, Before
    <2>2. \A q \in Calls \ {r} : asks'[q] = asks[q]
      BY <1>2 DEF RepeatCall, UsedInv, PageType
    <2> QED BY <1>2, <2>1, <2>2 DEF RepeatCall, core, previews, talk, TakenStays, Quiet
  <1>3. ASSUME NEW p \in Pages, Send(p)
        PROVE  Quiet
    <2> DEFINE s == CHOOSE s \in Unsent : TRUE
    <2>1. s \in Calls /\ status[s] = "none"
      BY <1>3, SendsNew DEF Send, UsedInv, TurnsAreSound, Before
    <2>2. /\ \E q : asks' = [asks EXCEPT ![s] = q]
          /\ UNCHANGED <<preview, known, messages, held, status, output>>
      BY <1>3 DEF Send, core, previews, talk
    <2> HIDE DEF s
    <2>3. \A r \in Calls \ {s} : asks'[r] = asks[r]
      BY <2>1, <2>2 DEF UsedInv, PageType
    <2> QED BY <2>1, <2>2, <2>3 DEF TakenStays, Quiet
  <1>4. ASSUME NEW p \in Pages,
               \/ Stop(p)
               \/ \E t \in Terminals : FocusPane(p, t)
               \/ \E c \in convs \cup {None} : SelectConversation(p, c)
        PROVE  Quiet
    BY <1>4 DEF Stop, FocusPane, SelectConversation, core, previews, talk, TakenStays, Quiet
  <1>5. ASSUME PreviewExpires \/ \E t \in Terminals : Prints(t)
        PROVE  Quiet
    BY <1>5 DEF PreviewExpires, Prints, previews, talk, TakenStays, Quiet
  <1>6. CASE Restart
    BY <1>6 DEF Restart, Restarted, TakenStays, Quiet
  <1>7. CASE UNCHANGED vars
    BY <1>7 DEF vars, core, previews, talk, TakenStays, Quiet
  <1> QED BY <1>1, <1>2, <1>3, <1>4, <1>5, <1>6, <1>7, NextSteps

LEMMA NextUsed ==
    ASSUME UsedInv, AnswersInv, TurnsAssumption, [Next]_vars
    PROVE  UsedInv'
  <1>1. PageType' /\ TurnsAreSound'
    BY NextAnswers DEF AnswersInv
  <1>2. SUFFICES PreviewType' /\ UsedAreGone'
    BY <1>1 DEF UsedInv
  <1>3. CASE Quiet
    BY <1>3, UsedStays DEF Quiet
  <1>4. ASSUME NEW s \in Calls, EngineEnds(s)
        PROVE  PreviewType' /\ UsedAreGone'
    <2>1. status[s] = "pending"
      BY <1>4, ActiveTurn DEF EngineEnds, UsedInv
    <2>2. \A r \in Calls : status'[r] = "none" <=> status[r] = "none"
      BY <1>4, <2>1 DEF EngineEnds, UsedInv, PageType
    <2> QED BY <1>4, <2>2, UsedStays DEF EngineEnds, previews, TakenStays
  <1> QED
    BY <1>3, <1>4, CreateKeepsUsed, TurnKeepsUsed, PrepareKeepsUsed, NextQuiet

\* prepared-context.ts:106: a preview is consumed by one turn, of the
\* conversation it was prepared for or bound to, however often it is sent.
THEOREM PreviewsUsedOnce == Spec => []PreparedUsedOnce
  <1>1. Init => UsedInv /\ AnswersInv
    BY InitUsed, InitType, TurnsAssumption
       DEF AnswersInv, UsedInv, Init, CoreInit, AnswersFollowQuestions
  <1>2. UsedInv /\ AnswersInv /\ [Next]_vars => UsedInv' /\ AnswersInv'
    BY NextUsed, NextAnswers, TurnsAssumption
  <1>3. UsedInv => PreparedUsedOnce
    BY DEF UsedInv, UsedAreGone, PreparedUsedOnce
  <1> QED BY <1>1, <1>2, <1>3, PTL DEF Spec

-----------------------------------------------------------------------------
(* What is delivered.                                                      *)

Succeeded(c) == {s \in Calls : status[s] = "succeeded" /\ Conv(s) = c}
Carried(calls, t) ==
    UNION {Units(Attachment(s)) : s \in {s \in calls : Attachment(s).terminal = t}}

\* What a conversation was asked is what its turns have taken.
SaidAreTaken == \A c \in Calls : Asked(c) = {s \in Taken : Conv(s) = c}

\* A preview begins where the turns it takes off end, and covers what was
\* printed.
Follows(i) ==
    LET v == preview[i]
    IN  /\ v.terminal \in Terminals /\ v.start \in Nat /\ v.end \in Nat
        /\ v.start <= v.end /\ v.end <= output[v.terminal]
        /\ known[i] \subseteq Succeeded(v.conv)
        /\ Carried(known[i], v.terminal) = 1..v.start
RangesFollow == \A i \in Issued : Follows(i)

\* What a conversation has been given of a terminal has no gap.
LedgerIsWhole ==
    \A c \in Calls, t \in Terminals :
      \E n \in 0..output[t] : Carried(Succeeded(c), t) = 1..n

LedgerInv ==
    /\ UsedInv /\ AnswersInv
    /\ output \in [Terminals -> Nat]
    /\ known = [i \in Ids |-> known[i]]
    /\ SaidAreTaken
    /\ RangesFollow
    /\ LedgerIsWhole

LEMMA CarriedIn ==
    ASSUME NEW calls, NEW t, NEW u
    PROVE  u \in Carried(calls, t) <=>
             \E s \in calls : Attachment(s).terminal = t /\ u \in Units(Attachment(s))
  BY DEF Carried

LEMMA SucceededAreTaken ==
    ASSUME NEW c
    PROVE  Succeeded(c) \subseteq Taken
  BY DEF Succeeded, Taken

\* Before it exists, a conversation has been given nothing.
LEMMA NoneSucceeded ==
    ASSUME PageType, TurnsAssumption
    PROVE  Succeeded(None) = {}
  BY ConvType DEF Succeeded, TurnsAssumption

LEMMA MaxIs ==
    ASSUME NEW S, S \subseteq Nat, NEW m \in S, \A x \in S : m >= x
    PROVE  Max(S) = m
  <1>1. Max(S) \in S /\ \A x \in S : Max(S) >= x
    BY DEF Max
  <1>2. Max(S) \in Nat /\ m \in Nat /\ Max(S) >= m /\ m >= Max(S)
    BY <1>1
  <1> QED BY <1>2

LEMMA LastRangeIs ==
    ASSUME NEW n \in Nat, NEW o \in Nat, n < o
    PROVE  LastRange((1..o) \ (1..n)) = [start |-> n, end |-> o]
  <1> DEFINE left == (1..o) \ (1..n)
             before == {u \in 0..o : u \notin left}
  <1>1. Max(left) = o
    BY MaxIs
  <1>2. before = 0..n
    OBVIOUS
  <1>3. Max(before) = n
    BY <1>2, MaxIs
  <1> QED BY <1>1, <1>3 DEF LastRange

\* "auto" goes on where the conversation is, up to what is printed.
LEMMA AutoGoesOn ==
    ASSUME LedgerInv, TurnsAssumption, NEW t \in Terminals,
           NEW conv \in Calls \cup {None}
    PROVE  \E n \in 0..output[t] :
              /\ AutoRange(conv, t) = [start |-> n, end |-> output[t]]
              /\ Carried(Succeeded(conv), t) = 1..n
  <1> DEFINE given == IF conv = None THEN {} ELSE Sent(conv, t)
  <1>1. given = Carried(Succeeded(conv), t)
    <2>1. CASE conv = None
      BY <2>1, NoneSucceeded DEF LedgerInv, UsedInv, Carried
    <2>2. CASE conv # None
      <3>1. {s \in Asked(conv) : Counts(s, t)}
              = {s \in Succeeded(conv) : Attachment(s).terminal = t}
        BY <2>2 DEF LedgerInv, SaidAreTaken, Counts, Succeeded, Taken
      <3> QED BY <2>2, <3>1 DEF Sent, Carried
    <2> QED BY <2>1, <2>2
  <1>2. output[t] \in Nat
    BY DEF LedgerInv
  <1>3. PICK n \in 0..output[t] : Carried(Succeeded(conv), t) = 1..n
    <2>1. CASE conv = None
      <3>1. Carried(Succeeded(conv), t) = {} /\ 0 \in 0..output[t] /\ 1..0 = {}
        BY <1>2, <2>1, NoneSucceeded DEF LedgerInv, UsedInv, Carried
      <3> QED BY <3>1
    <2>2. CASE conv # None
      BY <2>2 DEF LedgerInv, LedgerIsWhole
    <2> QED BY <2>1, <2>2
  <1> DEFINE left == (1..output[t]) \ given
  <1>4. AutoRange(conv, t) = IF left # {} THEN LastRange(left)
                             ELSE [start |-> output[t], end |-> output[t]]
    BY DEF AutoRange
  <1>5. left = (1..output[t]) \ (1..n)
    BY <1>1, <1>3
  <1> HIDE DEF left, given
  <1>6. CASE n = output[t]
    <2>1. left = {}
      BY <1>5, <1>6
    <2> QED BY <1>3, <1>4, <1>6, <2>1
  <1>7. CASE n < output[t]
    <2>1. left # {}
      BY <1>2, <1>5, <1>7
    <2>2. AutoRange(conv, t) = [start |-> n, end |-> output[t]]
      BY <1>2, <1>3, <1>4, <1>5, <1>7, <2>1, LastRangeIs
    <2> QED BY <1>3, <2>2
  <1> QED BY <1>2, <1>6, <1>7

\* Nothing is delivered and nothing prepared: at most a preview that takes
\* nothing off is bound to a conversation.
LEMMA RangesStay ==
    ASSUME LedgerInv, TurnsAssumption, output' \in [Terminals -> Nat],
           \A t \in Terminals : output[t] <= output'[t],
           UNCHANGED known, Issued' = Issued,
           \A s \in Calls : status'[s] = "succeeded" <=> status[s] = "succeeded",
           \A s \in Taken : asks'[s] = asks[s],
           \A i \in Issued :
              /\ preview'[i].terminal = preview[i].terminal
              /\ preview'[i].start = preview[i].start
              /\ preview'[i].end = preview[i].end
              /\ preview'[i].conv = preview[i].conv \/ preview[i].conv = None
    PROVE  RangesFollow' /\ LedgerIsWhole'
  <1>1. \A s \in Taken : asks[s].id \in Issued
    BY DEF LedgerInv, UsedInv, UsedAreGone
  <1>2. \A s \in Taken : /\ Attachment(s)'.terminal = Attachment(s).terminal
                         /\ Units(Attachment(s))' = Units(Attachment(s))
    BY <1>1 DEF Attachment, Units
  <1>3. \A c : Succeeded(c)' = Succeeded(c)
    <2>1. ASSUME NEW c, NEW s \in Calls, status[s] = "succeeded"
          PROVE  Conv(s)' = Conv(s)
      BY <2>1 DEF Conv, Taken
    <2> QED BY <2>1 DEF Succeeded
  <1>4. RangesFollow'
    <2>1. SUFFICES ASSUME NEW i \in Issued
                   PROVE  Follows(i)'
      BY DEF RangesFollow
    <2>2. LET v == preview[i]
          IN  /\ v.terminal \in Terminals /\ v.start \in Nat /\ v.end \in Nat
              /\ v.start <= v.end /\ v.end <= output[v.terminal]
              /\ known[i] \subseteq Succeeded(v.conv)
              /\ Carried(known[i], v.terminal) = 1..v.start
      BY DEF LedgerInv, RangesFollow, Follows
    <2>3. known[i] \subseteq Taken
      BY <2>2, SucceededAreTaken
    <2>4. known[i] \subseteq Succeeded(preview'[i].conv)
      BY <2>2, NoneSucceeded DEF LedgerInv, UsedInv
    <2>5. preview'[i].end <= output'[preview'[i].terminal]
      BY <2>2 DEF LedgerInv
    <2>6. (known[i] \subseteq Succeeded(preview[i].conv))'
      BY <1>3, <2>4 DEF Succeeded
    <2>7. Carried(known[i], preview[i].terminal)' = Carried(known[i], preview[i].terminal)
      BY <1>2, <2>3 DEF Carried
    <2> QED BY <2>2, <2>5, <2>6, <2>7 DEF Follows
  <1>5. LedgerIsWhole'
    <2>1. SUFFICES ASSUME NEW c \in Calls, NEW t \in Terminals
                   PROVE  \E n \in 0..output'[t] : Carried(Succeeded(c), t)' = 1..n
      BY DEF LedgerIsWhole
    <2>2. PICK n \in 0..output[t] : Carried(Succeeded(c), t) = 1..n
      BY DEF LedgerInv, LedgerIsWhole
    <2>3. n \in 0..output'[t]
      BY DEF LedgerInv
    <2>4. Carried(Succeeded(c), t)' = Carried(Succeeded(c), t)
      <3>1. Succeeded(c) \subseteq Taken
        BY SucceededAreTaken
      <3>2. Succeeded(c)' = Succeeded(c)
        BY <1>3
      <3> QED BY <1>2, <3>1, <3>2 DEF Carried
    <2> QED BY <2>2, <2>3, <2>4
  <1> QED BY <1>4, <1>5

\* A preview is made where the conversation is, and takes off what it has been
\* given.
LEMMA PrepareKeepsRanges ==
    ASSUME LedgerInv, TurnsAssumption, NEW p \in Pages, Prepare(p)
    PROVE  RangesFollow' /\ LedgerIsWhole'
  <1> DEFINE t == focus[p]
             conv == shownConv[p]
             id == NewId
  <1>1. t \in Terminals /\ conv \in Calls \cup {None}
    BY DEF LedgerInv, UsedInv, PageType
  <1>2. PICK n \in 0..output[t] :
           /\ AutoRange(conv, t) = [start |-> n, end |-> output[t]]
           /\ Carried(Succeeded(conv), t) = 1..n
    BY <1>1, AutoGoesOn
  <1>3. /\ id \in Ids \ Issued /\ Issued' = Issued \cup {id}
        /\ \A j \in Ids \ {id} : preview'[j] = preview[j]
        /\ preview'[id] = [owner |-> p, terminal |-> t, conv |-> conv,
                           start |-> n, end |-> output[t]]
    BY <1>2, NewPreview DEF LedgerInv
  <1> HIDE DEF id
  <1>4. /\ UNCHANGED <<asks, status, output>>
        /\ known'[id] = Succeeded(conv) /\ \A j \in Ids \ {id} : known'[j] = known[j]
    BY <1>3 DEF Prepare, Prepared, talk, LedgerInv, Succeeded, id
  <1>5. \A s \in Taken : asks[s].id \in Issued /\ asks[s].id # id
    BY <1>3 DEF LedgerInv, UsedInv, UsedAreGone
  <1>6. \A s \in Taken : preview'[asks'[s].id] = preview[asks[s].id]
    BY <1>3, <1>4, <1>5 DEF Issued
  <1>7. \A s \in Taken : Attachment(s)' = Attachment(s)
    BY <1>6 DEF Attachment
  <1>8. \A c : Succeeded(c)' = Succeeded(c) /\ Succeeded(c) \subseteq Taken
    BY <1>4, SucceededAreTaken DEF Succeeded, Conv
  <1>9. \A calls, u : calls \subseteq Taken => Carried(calls, u)' = Carried(calls, u)
    BY <1>7 DEF Carried, Units
  <1>10. RangesFollow'
    <2>1. SUFFICES ASSUME NEW i \in Issued \cup {id}
                   PROVE  Follows(i)'
      BY <1>3 DEF RangesFollow
    <2>2. CASE i = id
      <3>1. output[t] \in Nat
        BY <1>1 DEF LedgerInv
      <3>2. (known[i] \subseteq Succeeded(preview[i].conv))'
        BY <1>3, <1>4, <1>8, <2>2 DEF Succeeded
      <3>3. Carried(known[i], preview[i].terminal)' = Carried(Succeeded(conv), t)
        BY <1>3, <1>4, <1>7, <1>8, <2>2 DEF Carried, Units
      <3> QED BY <1>1, <1>2, <1>3, <1>4, <2>2, <3>1, <3>2, <3>3 DEF Follows
    <2>3. CASE i # id
      <3>1. preview'[i] = preview[i] /\ known'[i] = known[i] /\ i \in Issued /\ Follows(i)
        BY <1>3, <1>4, <2>1, <2>3 DEF Issued, LedgerInv, RangesFollow
      <3>2. (known[i] \subseteq Succeeded(preview[i].conv))'
        <4>1. known[i] \subseteq Succeeded(preview[i].conv)
          BY <3>1 DEF Follows
        <4> QED BY <1>8, <3>1, <4>1 DEF Succeeded
      <3>3. known[i] \subseteq Taken
        BY <3>1, SucceededAreTaken DEF Follows
      <3>4. Carried(known[i], preview[i].terminal)' = Carried(known[i], preview[i].terminal)
        BY <1>7, <3>1, <3>3 DEF Carried, Units
      <3> QED BY <1>4, <3>1, <3>2, <3>4 DEF Follows
    <2> QED BY <2>2, <2>3
  <1>11. LedgerIsWhole'
    <2>1. SUFFICES ASSUME NEW c \in Calls, NEW u \in Terminals
                   PROVE  \E m \in 0..output'[u] : Carried(Succeeded(c), u)' = 1..m
      BY DEF LedgerIsWhole
    <2>2. Carried(Succeeded(c), u)' = Carried(Succeeded(c), u)
      BY <1>7, <1>8 DEF Carried, Units
    <2> QED BY <1>4, <2>2 DEF LedgerInv, LedgerIsWhole
  <1> QED BY <1>10, <1>11

\* A turn succeeds: what it carries begins where its conversation was when its
\* preview was made, and so not behind where it is.
LEMMA SuccessKeepsRanges ==
    ASSUME LedgerInv, TurnsAssumption, NEW s \in Calls, s \in Taken,
           status' = [status EXCEPT ![s] = "succeeded"],
           UNCHANGED <<asks, preview, known, output>>
    PROVE  RangesFollow' /\ LedgerIsWhole'
  <1> DEFINE i == asks[s].id
             v == preview[i]
  <1>1. i \in Issued /\ v.conv = Conv(s) /\ Conv(s) \in Calls
    BY ConvType DEF LedgerInv, UsedInv, UsedAreGone
  <1>2. Follows(i)
    BY <1>1 DEF LedgerInv, RangesFollow
  <1>3. \A c : Succeeded(c)' = IF c = Conv(s) THEN Succeeded(c) \cup {s} ELSE Succeeded(c)
    BY DEF Succeeded, Conv, LedgerInv, UsedInv, PageType
  <1>4. RangesFollow'
    <2>1. SUFFICES ASSUME NEW j \in Issued
                   PROVE  Follows(j)'
      BY DEF RangesFollow, Issued
    <2>2. Follows(j)
      BY DEF LedgerInv, RangesFollow
    <2>3. (known[j] \subseteq Succeeded(preview[j].conv))'
      BY <1>3, <2>2 DEF Follows, Succeeded
    <2>4. Carried(known[j], preview[j].terminal)' = Carried(known[j], preview[j].terminal)
      BY DEF Carried, Attachment, Units
    <2> QED BY <2>2, <2>3, <2>4 DEF Follows
  <1>5. ASSUME NEW c \in Calls, NEW t \in Terminals
        PROVE  \E n \in 0..output[t] : Carried(Succeeded(c), t)' = 1..n
    <2>1. PICK n \in 0..output[t] : Carried(Succeeded(c), t) = 1..n
      BY DEF LedgerInv, LedgerIsWhole
    <2>2. CASE c = Conv(s) /\ t = v.terminal
      <3>1. /\ v.start \in Nat /\ v.end \in Nat /\ v.start <= v.end
            /\ v.end <= output[t] /\ output[t] \in Nat /\ n \in Nat
        BY <1>2, <2>1, <2>2 DEF Follows, LedgerInv
      <3>2. 1..v.start \subseteq 1..n
        <4>1. known[i] \subseteq Succeeded(c) /\ Carried(known[i], t) = 1..v.start
          BY <1>1, <1>2, <2>2 DEF Follows
        <4>2. Carried(known[i], t) \subseteq Carried(Succeeded(c), t)
          BY <4>1 DEF Carried
        <4> QED BY <2>1, <4>1, <4>2
      <3>3. v.start <= n
        BY <3>1, <3>2
      <3>4. Carried(Succeeded(c), t)' = (1..n) \cup Units(v)
        <4>1. Succeeded(c)' = Succeeded(c) \cup {s}
          BY <1>3, <2>2
        <4>2. Carried(Succeeded(c), t)' = Carried(Succeeded(c) \cup {s}, t)
          BY <4>1 DEF Carried, Attachment, Units
        <4>3. Carried(Succeeded(c) \cup {s}, t) = Carried(Succeeded(c), t) \cup Units(v)
          <5>1. \A r : r \in Succeeded(c) \cup {s} <=> r \in Succeeded(c) \/ r = s
            OBVIOUS
          <5>2. Attachment(s) = v /\ v.terminal = t
            BY <2>2 DEF Attachment
          <5> HIDE DEF v, i
          <5> QED BY <5>1, <5>2 DEF Carried
        <4> QED BY <2>1, <4>2, <4>3
      <3>5. CASE n <= v.end
        <4>1. (1..n) \cup Units(v) = 1..v.end
          BY <3>1, <3>3, <3>5 DEF Units
        <4> QED BY <3>1, <3>4, <4>1
      <3>6. CASE v.end < n
        <4>1. (1..n) \cup Units(v) = 1..n
          BY <3>1, <3>3, <3>6 DEF Units
        <4> QED BY <2>1, <3>4, <4>1
      <3> QED BY <3>1, <3>5, <3>6
    <2>3. CASE ~(c = Conv(s) /\ t = v.terminal)
      <3>1. \A r : r \in Succeeded(c)' /\ Attachment(r).terminal = t
                     <=> r \in Succeeded(c) /\ Attachment(r).terminal = t
        BY <1>3, <2>3 DEF Attachment
      <3>2. Carried(Succeeded(c), t)' = Carried(Succeeded(c), t)
        BY <3>1 DEF Carried, Attachment, Units
      <3> QED BY <2>1, <3>2
    <2> QED BY <2>2, <2>3
  <1>6. LedgerIsWhole'
    BY <1>5 DEF LedgerIsWhole
  <1> QED BY <1>4, <1>6

\* Taking a preview is saying something, and nothing else is.
LEMMA SaidStays ==
    ASSUME LedgerInv, TakenStays, \A c \in Calls : Asked(c)' = Asked(c)
    PROVE  SaidAreTaken'
  <1>1. Taken' = Taken /\ \A s \in Taken : s \in Calls /\ Conv(s)' = Conv(s)
    BY DEF Taken, TakenStays, Conv
  <1> QED BY <1>1 DEF LedgerInv, SaidAreTaken

LEMMA SaidAsks ==
    ASSUME PageType, NEW s \in Calls, NEW r \in {"user", "assistant"}, Said(r, s),
           NEW c \in Calls
    PROVE  Asked(c)' = IF c = Conv(s) /\ r = "user" THEN Asked(c) \cup {s} ELSE Asked(c)
  <1> DEFINE said == messages[Conv(s)]
             after == messages'[Conv(s)]
  <1>1. /\ \A d \in Calls \ {Conv(s)} : messages'[d] = messages[d]
        /\ said \in Seq(Message) /\ after \in Seq(Message)
        /\ Len(after) = Len(said) + 1
        /\ after[Len(said) + 1] = [role |-> r, call |-> s]
        /\ \A k \in 1..Len(said) : after[k] = said[k]
    BY SaidBehind
  <1>2. CASE c # Conv(s)
    BY <1>1, <1>2 DEF Asked
  <1>3. CASE c = Conv(s)
    <2>1. /\ DOMAIN said = 1..Len(said) /\ DOMAIN after = 1..(Len(said) + 1)
          /\ Len(said) \in Nat
      BY <1>1
    <2>2. 1..(Len(said) + 1) = (1..Len(said)) \cup {Len(said) + 1}
      BY <2>1
    <2>3. \A q \in Calls : [role |-> r, call |-> s] = [role |-> "user", call |-> q]
                              <=> r = "user" /\ q = s
      OBVIOUS
    <2> HIDE DEF said, after
    <2>4. \A q \in Calls :
             (\E k \in DOMAIN after : after[k] = [role |-> "user", call |-> q])
               <=> \/ \E k \in DOMAIN said : said[k] = [role |-> "user", call |-> q]
                   \/ r = "user" /\ q = s
      BY <1>1, <2>1, <2>2, <2>3
    <2>5. /\ Asked(c) = {q \in Calls : \E k \in DOMAIN said :
                                         said[k] = [role |-> "user", call |-> q]}
          /\ Asked(c)' = {q \in Calls : \E k \in DOMAIN after :
                                         after[k] = [role |-> "user", call |-> q]}
      BY <1>3 DEF Asked, said, after
    <2> QED BY <1>3, <2>4, <2>5
  <1> QED BY <1>2, <1>3

LEMMA InitLedger ==
    ASSUME Init, TurnsAssumption
    PROVE  LedgerInv
  <1>1. UsedInv /\ AnswersInv
    BY InitUsed, InitType
       DEF AnswersInv, UsedInv, Init, CoreInit, AnswersFollowQuestions
  <1>2. /\ output = [t \in Terminals |-> 0] /\ known = [i \in Ids |-> {}]
        /\ \A s \in Calls : status[s] = "none" /\ messages[s] = << >>
        /\ \A i \in Ids : preview[i].owner = None
    BY DEF Init, CoreInit, NoPreview
  <1>3. Issued = {} /\ Taken = {}
    BY <1>2 DEF Issued, Taken
  <1>4. SaidAreTaken
    BY <1>2, <1>3 DEF SaidAreTaken, Asked
  <1>5. RangesFollow
    BY <1>3 DEF RangesFollow
  <1>6. LedgerIsWhole
    <2>1. \A c \in Calls, t \in Terminals : Carried(Succeeded(c), t) = {}
      BY <1>2 DEF Carried, Succeeded
    <2>2. 1..0 = {} /\ 0 \in 0..0
      OBVIOUS
    <2> QED BY <1>2, <2>1, <2>2 DEF LedgerIsWhole
  <1> QED BY <1>1, <1>2, <1>4, <1>5, <1>6 DEF LedgerInv

LEMMA TurnKeepsLedger ==
    ASSUME LedgerInv, TurnsAssumption, NEW s \in Calls, Turn(s)
    PROVE  SaidAreTaken' /\ RangesFollow' /\ LedgerIsWhole'
  <1>1. PageType /\ status[s] = "none" /\ Conv(s) \in Calls
    BY ConvType DEF LedgerInv, UsedInv, Turn, TurnsAreSound, Before
  <1>2. UNCHANGED <<asks, preview, known, output>>
    BY DEF Turn
  <1>3. /\ \A r \in Calls \ {s} : status'[r] = status[r]
        /\ status'[s] \in {"none", "pending"}
    BY <1>1 DEF Turn, PageType
  <1>4. RangesFollow' /\ LedgerIsWhole'
    <2>1. /\ \A r \in Calls : status'[r] = "succeeded" <=> status[r] = "succeeded"
          /\ Issued' = Issued
      BY <1>1, <1>2, <1>3 DEF Issued
    <2>2. output' \in [Terminals -> Nat] /\ \A t \in Terminals : output[t] <= output'[t]
      BY <1>2 DEF LedgerInv
    <2> QED BY <1>2, <2>1, <2>2, RangesStay
  <1>5. CASE UNCHANGED <<messages, status>>
    BY <1>2, <1>4, <1>5, SaidStays DEF TakenStays, Asked
  <1>6. CASE Said("user", s) /\ status' = [status EXCEPT ![s] = "pending"]
    <2>1. Taken' = Taken \cup {s} /\ \A r : Conv(r)' = Conv(r)
      BY <1>1, <1>2, <1>6 DEF Taken, Conv, PageType
    <2>2. \A c \in Calls : Asked(c)' = IF c = Conv(s) THEN Asked(c) \cup {s} ELSE Asked(c)
      BY <1>1, <1>6, SaidAsks
    <2>3. SaidAreTaken'
      BY <2>1, <2>2 DEF LedgerInv, SaidAreTaken
    <2> QED BY <1>4, <2>3
  <1> QED BY <1>5, <1>6 DEF Turn

LEMMA EngineKeepsLedger ==
    ASSUME LedgerInv, TurnsAssumption, NEW s \in Calls, EngineEnds(s)
    PROVE  SaidAreTaken' /\ RangesFollow' /\ LedgerIsWhole'
  <1>1. PageType /\ status[s] = "pending" /\ s \in Taken
    BY ActiveTurn DEF LedgerInv, UsedInv, EngineEnds, Taken
  <1>2. UNCHANGED <<asks, preview, known, output>>
    BY DEF EngineEnds, previews
  <1>3. SaidAreTaken'
    <2>1. TakenStays
      BY <1>1, <1>2 DEF EngineEnds, TakenStays, PageType
    <2>2. \A c \in Calls : Asked(c)' = Asked(c)
      <3>1. CASE UNCHANGED messages
        BY <3>1 DEF Asked
      <3>2. CASE Said("assistant", s)
        BY <1>1, <3>2, SaidAsks
      <3> QED BY <3>1, <3>2 DEF EngineEnds
    <2> QED BY <2>1, <2>2, SaidStays
  <1>4. CASE status' = [status EXCEPT ![s] = "succeeded"]
    BY <1>1, <1>2, <1>3, <1>4, SuccessKeepsRanges
  <1>5. CASE status' = [status EXCEPT ![s] = IF s \in cancelled THEN "cancelled" ELSE "failed"]
    <2>1. /\ \A r \in Calls : status'[r] = "succeeded" <=> status[r] = "succeeded"
          /\ Issued' = Issued
      BY <1>1, <1>2, <1>5 DEF Issued, PageType
    <2>2. output' \in [Terminals -> Nat] /\ \A t \in Terminals : output[t] <= output'[t]
      BY <1>2 DEF LedgerInv
    <2> QED BY <1>2, <1>3, <2>1, <2>2, RangesStay
  <1> QED BY <1>4, <1>5 DEF EngineEnds

\* create binds a preview that takes nothing off.
LEMMA CreateKeepsLedger ==
    ASSUME LedgerInv, TurnsAssumption, NEW s \in Calls, Create(s)
    PROVE  SaidAreTaken' /\ RangesFollow' /\ LedgerIsWhole'
  <1>1. UNCHANGED <<asks, known, output, messages, status>>
    BY DEF Create, talk
  <1>2. SaidAreTaken'
    BY <1>1, SaidStays DEF TakenStays, Asked
  <1>3. /\ Issued' = Issued
        /\ \A i \in Issued :
              /\ preview'[i].terminal = preview[i].terminal
              /\ preview'[i].start = preview[i].start
              /\ preview'[i].end = preview[i].end
              /\ preview'[i].conv = preview[i].conv \/ preview[i].conv = None
    <2>1. CASE UNCHANGED preview
      BY <2>1 DEF Issued
    <2>2. CASE Found(s) /\ preview[asks[s].id].conv = None
               /\ preview' = [preview EXCEPT ![asks[s].id].conv = s]
      <3> DEFINE i == asks[s].id
      <3>1. i \in Ids
        BY <2>2 DEF Found, Fresh, LedgerInv, UsedInv, PreviewType, Issued
      <3>2. /\ \A j \in Ids \ {i} : preview'[j] = preview[j]
            /\ preview'[i] = [preview[i] EXCEPT !.conv = s]
        BY <2>2, <3>1 DEF LedgerInv, UsedInv, PreviewType
      <3>3. preview'[i] = [owner |-> preview[i].owner, terminal |-> preview[i].terminal,
                           conv |-> s, start |-> preview[i].start, end |-> preview[i].end]
        BY <3>1, <3>2 DEF LedgerInv, UsedInv, PreviewType
      <3>4. preview[i].conv = None
        BY <2>2
      <3> HIDE DEF i
      <3> QED BY <3>1, <3>2, <3>3, <3>4 DEF Issued
    <2> QED BY <2>1, <2>2 DEF Create
  <1>4. output' \in [Terminals -> Nat] /\ \A t \in Terminals : output[t] <= output'[t]
    BY <1>1 DEF LedgerInv
  <1> QED BY <1>1, <1>2, <1>3, <1>4, RangesStay

LEMMA NextLedger ==
    ASSUME LedgerInv, TurnsAssumption, [Next]_vars
    PROVE  LedgerInv'
  <1>1. UsedInv' /\ AnswersInv'
    BY NextUsed, NextAnswers DEF LedgerInv
  <1>2. CASE Quiet
    <2>1. output' \in [Terminals -> Nat] /\ \A t \in Terminals : output[t] <= output'[t]
      BY <1>2 DEF Quiet, LedgerInv
    <2>2. RangesFollow' /\ LedgerIsWhole'
      BY <1>2, <2>1, RangesStay DEF Quiet, TakenStays, Issued, Taken
    <2>3. SaidAreTaken'
      BY <1>2, SaidStays DEF Quiet, Asked
    <2> QED BY <1>1, <1>2, <2>1, <2>2, <2>3 DEF Quiet, LedgerInv
  <1>3. ASSUME NEW s \in Calls, Create(s) \/ Turn(s) \/ EngineEnds(s)
        PROVE  LedgerInv'
    <2>1. UNCHANGED <<known, output>>
      BY <1>3 DEF Create, Turn, EngineEnds, previews
    <2>2. SaidAreTaken' /\ RangesFollow' /\ LedgerIsWhole'
      BY <1>3, CreateKeepsLedger, TurnKeepsLedger, EngineKeepsLedger
    <2> QED BY <1>1, <2>1, <2>2 DEF LedgerInv
  <1>4. ASSUME NEW p \in Pages, Prepare(p)
        PROVE  LedgerInv'
    <2>1. UNCHANGED <<asks, output, messages, status>>
      BY <1>4 DEF Prepare, talk
    <2>2. SaidAreTaken'
      BY <2>1, SaidStays DEF TakenStays, Asked
    <2>3. known' = [i \in Ids |-> known'[i]]
      BY <1>4 DEF Prepare, Prepared, LedgerInv
    <2> QED BY <1>1, <1>4, <2>1, <2>2, <2>3, PrepareKeepsRanges DEF LedgerInv
  <1> QED BY <1>2, <1>3, <1>4, NextQuiet DEF LedgerInv

\* prepared-context.ts:34 and 121: what the successful turns of a conversation
\* have carried of a terminal has no gap, whatever was stopped, has failed, was
\* sent twice or bound late; and what two turns both carried, neither preview
\* could know of.
THEOREM LedgerExact == Spec => []LedgerIsExact
  <1>1. Init => LedgerInv
    BY InitLedger, TurnsAssumption
  <1>2. LedgerInv /\ [Next]_vars => LedgerInv'
    BY NextLedger, TurnsAssumption
  <1>3. ASSUME LedgerInv
        PROVE  LedgerIsExact
    <2>1. SUFFICES ASSUME NEW c \in Calls, NEW t \in Terminals
          PROVE  LET sent == {s \in Calls : status[s] = "succeeded" /\ Conv(s) = c
                                            /\ Attachment(s).terminal = t}
                     all == UNION {Units(Attachment(s)) : s \in sent}
                 IN  /\ \A u \in all : 1..u \subseteq all
                     /\ \A s, r \in sent :
                          s # r /\ Units(Attachment(s)) \cap Units(Attachment(r)) # {} =>
                            s \notin known[asks[r].id] /\ r \notin known[asks[s].id]
      <3>1. convs \subseteq Calls
        BY <1>3 DEF LedgerInv, UsedInv, PageType
      <3> QED BY <3>1 DEF LedgerIsExact
    <2> DEFINE sent == {s \in Calls : status[s] = "succeeded" /\ Conv(s) = c
                                      /\ Attachment(s).terminal = t}
               all == UNION {Units(Attachment(s)) : s \in sent}
    <2>2. \A u \in all : 1..u \subseteq all
      <3>1. sent = {s \in Succeeded(c) : Attachment(s).terminal = t}
        BY DEF Succeeded
      <3>2. all = Carried(Succeeded(c), t)
        BY <3>1 DEF Carried
      <3>3. output[t] \in Nat
        BY <1>3 DEF LedgerInv
      <3>4. PICK n \in 0..output[t] : all = 1..n
        BY <1>3, <3>2 DEF LedgerInv, LedgerIsWhole
      <3> HIDE DEF all
      <3> QED BY <3>3, <3>4
    <2>3. ASSUME NEW s \in sent, NEW r \in sent, s \in known[asks[r].id]
          PROVE  Units(Attachment(s)) \cap Units(Attachment(r)) = {}
      <3> DEFINE v == Attachment(r)
      <3>1. r \in Taken /\ v.terminal = t /\ Attachment(s).terminal = t
        BY DEF Taken
      <3>2. Follows(asks[r].id)
        BY <1>3, <3>1 DEF LedgerInv, UsedInv, UsedAreGone, RangesFollow
      <3>3. /\ v.start \in Nat /\ v.end \in Nat
            /\ Carried(known[asks[r].id], t) = 1..v.start
        BY <3>1, <3>2 DEF Follows, Attachment
      <3>4. Units(Attachment(s)) \subseteq 1..v.start
        BY <2>3, <3>1, <3>3, CarriedIn
      <3> HIDE DEF v
      <3>5. (1..v.start) \cap Units(v) = {}
        BY <3>3 DEF Units
      <3> QED BY <3>4, <3>5 DEF v
    <2> QED BY <2>2, <2>3
  <1> QED BY <1>1, <1>2, <1>3, PTL DEF Spec

-----------------------------------------------------------------------------
(* Induction with sets for predicates: what holds of 0 and of the next     *)
(* number holds of every number.                                           *)

LEMMA SetInduction ==
    ASSUME NEW T, 0 \in T, \A n \in Nat : n \in T => n + 1 \in T
    PROVE  Nat \subseteq T
  <1> DEFINE R == OpToRel(<, Nat)
             Rest == Nat \ T
  <1>1. SUFFICES ASSUME Rest # {}
                 PROVE  FALSE
    OBVIOUS
  <1>2. \A y, x \in Nat : y < x => <<y, x>> \in R
    BY DEF OpToRel
  <1>3. IsWellFoundedOn(R, Nat)
    BY NatLessThanWellFounded
  <1> HIDE DEF R
  <1>4. PICK x \in Rest : \A y \in Rest : ~(<<y, x>> \in R)
    BY <1>1, <1>3, WFMin
  <1>5. x \in Nat /\ x # 0
    BY <1>4
  <1>6. x - 1 \in Nat /\ x - 1 < x /\ (x - 1) + 1 = x
    BY <1>5
  <1>7. x - 1 \in T
    BY <1>2, <1>4, <1>5, <1>6
  <1> QED BY <1>4, <1>6, <1>7

\* What a beginning becomes in n steps.
Runs(X, base, n, Step) ==
    {f \in [0..n -> X] : f[0] = base /\ \A i \in 1..n : f[i] = Step[i][f[i - 1]]}

LEMMA IterationExists ==
    ASSUME NEW X, NEW base \in X, NEW n \in Nat, NEW Step \in [1..n -> [X -> X]]
    PROVE  Runs(X, base, n, Step) # {}
  <1> DEFINE RunsTo(m) == {f \in [0..m -> X] :
                           f[0] = base /\ \A i \in 1..m : f[i] = Step[i][f[i - 1]]}
             T == {m \in Nat : m <= n => RunsTo(m) # {}}
  <1>1. 0 \in T
    <2>1. [i \in 0..0 |-> base] \in RunsTo(0)
      OBVIOUS
    <2> QED BY <2>1
  <1>2. ASSUME NEW m \in Nat, m \in T
        PROVE  m + 1 \in T
    <2>1. SUFFICES ASSUME m + 1 <= n
                   PROVE  RunsTo(m + 1) # {}
      OBVIOUS
    <2>2. PICK f : f \in RunsTo(m)
      BY <1>2, <2>1
    <2>3. /\ f \in [0..m -> X] /\ f[0] = base
          /\ \A i \in 1..m : f[i] = Step[i][f[i - 1]]
      BY <2>2
    <2> DEFINE last == Step[m + 1][f[m]]
               g == [i \in 0..(m + 1) |-> IF i = m + 1 THEN last ELSE f[i]]
    <2>4. last \in X
      BY <2>1, <2>3
    <2>5. g \in [0..(m + 1) -> X] /\ g[0] = base
      BY <2>3, <2>4
    <2>6. ASSUME NEW i \in 1..(m + 1)
          PROVE  g[i] = Step[i][g[i - 1]]
      <3>1. CASE i = m + 1
        <4>1. i - 1 = m /\ m \in 0..(m + 1) /\ m # m + 1 /\ i \in 0..(m + 1)
          BY <3>1
        <4>2. g[i - 1] = f[m] /\ g[i] = last
          BY <4>1, <3>1
        <4> QED BY <4>2, <3>1
      <3>2. CASE i # m + 1
        <4>1. /\ i \in 1..m /\ i \in 0..(m + 1) /\ i - 1 \in 0..(m + 1)
              /\ i - 1 # m + 1
          BY <3>2
        <4>2. g[i - 1] = f[i - 1] /\ g[i] = f[i]
          BY <4>1, <3>2
        <4> QED BY <4>1, <4>2, <2>3
      <3> QED BY <3>1, <3>2
    <2> HIDE DEF g
    <2>7. g \in RunsTo(m + 1)
      BY <2>5, <2>6
    <2> QED BY <2>7
  <1> HIDE DEF T
  <1>3. Nat \subseteq T
    BY <1>1, <1>2, SetInduction
  <1>4. n \in T
    BY <1>3
  <1>5. RunsTo(n) # {}
    BY <1>4 DEF T
  <1> QED BY <1>5 DEF Runs

\* What FlattenSeq joins, one sequence after the other.
Joins(S, seqs, n) ==
    {f \in [1..n -> Seq(S)] :
       /\ f[1] = seqs[1]
       /\ \A i \in 1..n : i # 1 => f[i] = f[i - 1] \o seqs[i]
       /\ FlattenSeq(seqs) = f[n]}

LEMMA FlattenIs ==
    ASSUME NEW S, NEW seqs \in Seq(Seq(S)), NEW n, n = Len(seqs), n # 0
    PROVE  Joins(S, seqs, n) # {}
  <1> DEFINE flatten[i \in 1..Len(seqs)] ==
               IF i = 1 THEN seqs[i] ELSE flatten[i - 1] \o seqs[i]
             X == Seq(S)
             Step == [i \in 1..n |-> [x \in X |-> IF i = 1 THEN seqs[1] ELSE x \o seqs[i]]]
  <1>1. n \in Nat /\ n >= 1 /\ \A i \in 1..n : seqs[i] \in X
    BY LenProperties, ElementOfSeq
  <1> DEFINE none == << >>
  <1>2. none \in X /\ n \in Nat
    BY <1>1
  <1>3. Step \in [1..n -> [X -> X]]
    <2>1. ASSUME NEW i \in 1..n, NEW x \in X
          PROVE  (IF i = 1 THEN seqs[1] ELSE x \o seqs[i]) \in X
      BY <1>1, ConcatProperties
    <2> QED BY <2>1
  <1> HIDE DEF X
  <1>4. \A i \in 1..n, x \in X : Step[i][x] = IF i = 1 THEN seqs[1] ELSE x \o seqs[i]
    OBVIOUS
  <1> HIDE DEF Step, none
  <1>5. PICK f \in [0..n -> X] : f[0] = none /\ \A i \in 1..n : f[i] = Step[i][f[i - 1]]
    <2>1. Runs(X, none, n, Step) # {}
      BY <1>2, <1>3, IterationExists
    <2> QED BY <2>1 DEF Runs
  <1> DEFINE g == [i \in 1..n |-> f[i]]
  <1>6. ASSUME NEW i \in 1..n
        PROVE  /\ g[i] \in X
               /\ g[i] = IF i = 1 THEN seqs[i] ELSE g[i - 1] \o seqs[i]
    <2>0. i \in 0..n /\ i - 1 \in 0..n
      BY <1>1
    <2>1. i \in 0..n /\ i - 1 \in 0..n /\ f[i - 1] \in X /\ f[i] \in X
      BY <2>0, <1>5
    <2>2. f[i] = IF i = 1 THEN seqs[1] ELSE f[i - 1] \o seqs[i]
      BY <1>4, <1>5, <2>1
    <2>3. i # 1 => i - 1 \in 1..n
      BY <1>1
    <2> QED BY <2>1, <2>2, <2>3
  <1>7. g \in [1..n -> X]
    BY <1>6
  <1>8. g = [i \in 1..n |-> IF i = 1 THEN seqs[i] ELSE g[i - 1] \o seqs[i]]
    BY <1>6
  <1>9. flatten = CHOOSE h : h = [i \in 1..n |-> IF i = 1 THEN seqs[i]
                                                 ELSE h[i - 1] \o seqs[i]]
    BY DEF flatten
  <1>10. FlattenSeq(seqs) = flatten[n]
    BY DEF FlattenSeq
  <1> HIDE DEF flatten, g
  <1>11. flatten = [i \in 1..n |-> IF i = 1 THEN seqs[i] ELSE flatten[i - 1] \o seqs[i]]
    BY <1>8, <1>9
  <1>12. /\ flatten[1] = seqs[1]
         /\ \A i \in 1..n : i # 1 => flatten[i] = flatten[i - 1] \o seqs[i]
    BY <1>1, <1>11
  <1> DEFINE T == {m \in Nat : m + 1 <= n => flatten[m + 1] = g[m + 1]}
  <1>13. 0 \in T
    BY <1>1, <1>6, <1>12
  <1>14. ASSUME NEW m \in Nat, m \in T
         PROVE  m + 1 \in T
    <2>1. SUFFICES ASSUME (m + 1) + 1 <= n
                   PROVE  flatten[(m + 1) + 1] = g[(m + 1) + 1]
      OBVIOUS
    <2> DEFINE i == (m + 1) + 1
    <2>2. i \in 1..n /\ i # 1 /\ i - 1 = m + 1 /\ m + 1 <= n
      BY <2>1, <1>1
    <2>3. flatten[m + 1] = g[m + 1]
      BY <1>14, <2>2
    <2> HIDE DEF i
    <2>4. flatten[i] = flatten[m + 1] \o seqs[i] /\ g[i] = g[m + 1] \o seqs[i]
      <3>1. flatten[i] = flatten[i - 1] \o seqs[i]
        BY <1>12, <2>2
      <3>2. g[i] = g[i - 1] \o seqs[i]
        BY <1>6, <2>2
      <3> QED BY <3>1, <3>2, <2>2
    <2> QED BY <2>3, <2>4 DEF i
  <1> HIDE DEF T
  <1>15. Nat \subseteq T
    BY <1>13, <1>14, SetInduction
  <1>16. \A i \in 1..n : flatten[i] = g[i]
    <2>1. SUFFICES ASSUME NEW i \in 1..n
                   PROVE  flatten[i] = g[i]
      OBVIOUS
    <2>2. i - 1 \in Nat /\ (i - 1) + 1 = i /\ i <= n
      BY <1>1
    <2>3. i - 1 \in T
      BY <1>15, <2>2
    <2> QED BY <2>2, <2>3 DEF T
  <1>17. flatten \in [1..n -> X]
    BY <1>7, <1>11, <1>16
  <1>18. flatten \in Joins(S, seqs, n)
    BY <1>10, <1>12, <1>17 DEF X, Joins
  <1> QED BY <1>18

-----------------------------------------------------------------------------
(* Lists of ranges.                                                        *)

RangeType == {r \in [start : Nat, end : Nat] : r.start < r.end}

\* What was delivered of a command: some units of it at least, if they are taken
\* out of the output between low and high.
Deliveries(least, low, high) ==
    {d \in [start : Nat, end : Nat] :
       /\ d.start <= d.end
       /\ d.start + least <= d.end \/ d.end <= low \/ d.start >= high}

\* Between two ranges of a list there are some units at least.
Ordered(ranges, least) ==
    /\ ranges \in Seq(RangeType)
    /\ \A i, j \in DOMAIN ranges : i < j => ranges[i].end + least <= ranges[j].start

UnitsOf(ranges) == UNION {Units(ranges[k]) : k \in DOMAIN ranges}

Within(ranges, low, high) ==
    \A k \in DOMAIN ranges : low <= ranges[k].start /\ ranges[k].end <= high

LEMMA NoRanges ==
    ASSUME NEW least
    PROVE  Ordered(<< >>, least) /\ UnitsOf(<< >>) = {} /\ \A low, high : Within(<< >>, low, high)
  <1>1. << >> \in Seq(RangeType) /\ DOMAIN << >> = {}
    OBVIOUS
  <1> QED BY <1>1 DEF Ordered, UnitsOf, Within

LEMMA OneRange ==
    ASSUME NEW r \in RangeType, NEW least \in {0, 1}
    PROVE  /\ Ordered(<<r>>, least) /\ UnitsOf(<<r>>) = Units(r)
           /\ Within(<<r>>, r.start, r.end)
  <1>1. <<r>> \in Seq(RangeType) /\ DOMAIN <<r>> = {1} /\ <<r>>[1] = r
    OBVIOUS
  <1>2. r.start \in Nat /\ r.end \in Nat
    BY DEF RangeType
  <1>3. Ordered(<<r>>, least)
    BY <1>1 DEF Ordered
  <1>4. UnitsOf(<<r>>) = Units(r)
    BY <1>1 DEF UnitsOf
  <1>5. Within(<<r>>, r.start, r.end)
    BY <1>1, <1>2 DEF Within
  <1> QED BY <1>3, <1>4, <1>5

\* One list behind another.
LEMMA JoinIs ==
    ASSUME NEW least \in {0, 1}, NEW a, NEW b, Ordered(a, least), Ordered(b, least),
           NEW low \in Nat, NEW end \in Nat, NEW start \in Nat, NEW high \in Nat,
           Within(a, low, end), Within(b, start, high),
           low <= start, end <= high, end + least <= start
    PROVE  /\ Ordered(a \o b, least)
           /\ UnitsOf(a \o b) = UnitsOf(a) \cup UnitsOf(b)
           /\ Within(a \o b, low, high)
  <1> DEFINE both == a \o b
  <1>1. a \in Seq(RangeType) /\ b \in Seq(RangeType)
    BY DEF Ordered
  <1>2. /\ both \in Seq(RangeType) /\ Len(both) = Len(a) + Len(b)
        /\ \A i \in 1..(Len(a) + Len(b)) :
             both[i] = IF i <= Len(a) THEN a[i] ELSE b[i - Len(a)]
    BY <1>1, ConcatProperties
  <1> HIDE DEF both
  <1>3. /\ Len(a) \in Nat /\ Len(b) \in Nat
        /\ DOMAIN a = 1..Len(a) /\ DOMAIN b = 1..Len(b)
        /\ DOMAIN both = 1..(Len(a) + Len(b))
    BY <1>1, <1>2, LenProperties
  <1>4. ASSUME NEW i \in DOMAIN both
        PROVE  \/ i \in DOMAIN a /\ i <= Len(a) /\ both[i] = a[i]
               \/ i - Len(a) \in DOMAIN b /\ ~(i <= Len(a)) /\ both[i] = b[i - Len(a)]
    <2>1. CASE i <= Len(a)
      BY <2>1, <1>2, <1>3
    <2>2. CASE ~(i <= Len(a))
      BY <2>2, <1>2, <1>3
    <2> QED BY <2>1, <2>2
  <1>5. \A i \in DOMAIN a : i \in DOMAIN both /\ both[i] = a[i]
    BY <1>2, <1>3
  <1>6. \A i \in DOMAIN b : Len(a) + i \in DOMAIN both /\ both[Len(a) + i] = b[i]
    <2>1. SUFFICES ASSUME NEW i \in DOMAIN b
                   PROVE  Len(a) + i \in DOMAIN both /\ both[Len(a) + i] = b[i]
      OBVIOUS
    <2>2. /\ Len(a) + i \in 1..(Len(a) + Len(b)) /\ ~(Len(a) + i <= Len(a))
          /\ (Len(a) + i) - Len(a) = i
      BY <1>3
    <2> QED BY <2>2, <1>2, <1>3
  <1>7. /\ \A i \in DOMAIN a : /\ a[i] \in RangeType /\ a[i].start \in Nat /\ a[i].end \in Nat
                               /\ low <= a[i].start /\ a[i].end <= end
        /\ \A i \in DOMAIN b : /\ b[i] \in RangeType /\ b[i].start \in Nat /\ b[i].end \in Nat
                               /\ start <= b[i].start /\ b[i].end <= high
    <2>1. \A i \in DOMAIN a : a[i] \in RangeType
      BY <1>1, <1>3, ElementOfSeq
    <2>2. \A i \in DOMAIN b : b[i] \in RangeType
      BY <1>1, <1>3, ElementOfSeq
    <2> QED BY <2>1, <2>2 DEF Within, RangeType
  <1>8. Within(both, low, high)
    <2>1. ASSUME NEW i \in DOMAIN both
          PROVE  low <= both[i].start /\ both[i].end <= high
      <3>1. CASE i \in DOMAIN a /\ both[i] = a[i]
        BY <3>1, <1>7
      <3>2. CASE i - Len(a) \in DOMAIN b /\ both[i] = b[i - Len(a)]
        BY <3>2, <1>7
      <3> QED BY <3>1, <3>2, <1>4
    <2> QED BY <2>1 DEF Within
  <1>9. Ordered(both, least)
    <2>1. ASSUME NEW i \in DOMAIN both, NEW j \in DOMAIN both, i < j
          PROVE  both[i].end + least <= both[j].start
      <3>1. i \in Int /\ j \in Int
        BY <1>3
      <3>2. CASE i <= Len(a) /\ j <= Len(a)
        <4>1. i \in DOMAIN a /\ j \in DOMAIN a /\ both[i] = a[i] /\ both[j] = a[j]
          BY <3>2, <1>4
        <4> QED BY <4>1, <2>1 DEF Ordered
      <3>3. CASE i <= Len(a) /\ ~(j <= Len(a))
        <4>1. /\ i \in DOMAIN a /\ both[i] = a[i]
              /\ j - Len(a) \in DOMAIN b /\ both[j] = b[j - Len(a)]
          BY <3>3, <1>4
        <4>2. /\ a[i].end \in Nat /\ a[i].end <= end
              /\ b[j - Len(a)].start \in Nat /\ start <= b[j - Len(a)].start
          BY <4>1, <1>7
        <4> QED BY <4>1, <4>2
      <3>4. CASE ~(i <= Len(a)) /\ ~(j <= Len(a))
        <4>1. /\ i - Len(a) \in DOMAIN b /\ both[i] = b[i - Len(a)]
              /\ j - Len(a) \in DOMAIN b /\ both[j] = b[j - Len(a)]
          BY <3>4, <1>4
        <4>2. i - Len(a) < j - Len(a)
          BY <2>1, <3>1, <1>3
        <4> QED BY <4>1, <4>2 DEF Ordered
      <3> QED BY <2>1, <3>1, <3>2, <3>3, <3>4, <1>3
    <2> QED BY <2>1, <1>2 DEF Ordered
  <1>10. UnitsOf(both) = UnitsOf(a) \cup UnitsOf(b)
    <2>1. ASSUME NEW u \in UnitsOf(both)
          PROVE  u \in UnitsOf(a) \cup UnitsOf(b)
      BY <2>1, <1>4 DEF UnitsOf
    <2>2. ASSUME NEW u \in UnitsOf(a)
          PROVE  u \in UnitsOf(both)
      BY <2>2, <1>5 DEF UnitsOf
    <2>3. ASSUME NEW u \in UnitsOf(b)
          PROVE  u \in UnitsOf(both)
      BY <2>3, <1>6 DEF UnitsOf
    <2> QED BY <2>1, <2>2, <2>3
  <1> QED BY <1>8, <1>9, <1>10 DEF both

\* What a delivery leaves of a range.
LEMMA CutIs ==
    ASSUME NEW least \in {0, 1}, NEW low \in Nat, NEW high \in Nat,
           NEW r \in RangeType, low <= r.start, r.end <= high,
           NEW d \in Deliveries(least, low, high)
    PROVE  /\ Ordered(Cut(r, d), least)
           /\ UnitsOf(Cut(r, d)) = Units(r) \ Units(d)
           /\ Within(Cut(r, d), r.start, r.end)
  <1> DEFINE front == [start |-> r.start, end |-> d.start]
             back == [start |-> d.end, end |-> r.end]
             before == IF d.start > r.start THEN <<front>> ELSE << >>
             behind == IF d.end < r.end THEN <<back>> ELSE << >>
  <1>1. /\ r.start \in Nat /\ r.end \in Nat /\ r.start < r.end
        /\ d.start \in Nat /\ d.end \in Nat /\ d.start <= d.end
        /\ d.start + least <= d.end \/ d.end <= r.start \/ d.start >= r.end
    BY DEF RangeType, Deliveries
  <1>2. CASE d.end <= r.start \/ d.start >= r.end
    <2>1. Cut(r, d) = <<r>>
      BY <1>2 DEF Cut
    <2>2. Units(r) \ Units(d) = Units(r)
      BY <1>1, <1>2 DEF Units
    <2> QED BY <2>1, <2>2, OneRange
  <1>3. CASE ~(d.end <= r.start \/ d.start >= r.end)
    <2>1. Cut(r, d) = before \o behind
      BY <1>3 DEF Cut
    <2>2. /\ Ordered(before, least) /\ Within(before, r.start, d.start)
          /\ UnitsOf(before) = {u \in Units(r) : u <= d.start}
      <3>1. CASE d.start > r.start
        <4>1. front \in RangeType /\ front.start = r.start /\ front.end = d.start
          BY <3>1, <1>1 DEF RangeType
        <4>2. before = <<front>>
          BY <3>1
        <4>3. Units(front) = {u \in Units(r) : u <= d.start}
          BY <4>1, <1>1, <1>3 DEF Units
        <4> HIDE DEF front
        <4> QED BY <4>1, <4>2, <4>3, OneRange
      <3>2. CASE ~(d.start > r.start)
        <4>1. before = << >>
          BY <3>2
        <4>2. {u \in Units(r) : u <= d.start} = {}
          BY <3>2, <1>1 DEF Units
        <4> QED BY <4>1, <4>2, NoRanges
      <3> QED BY <3>1, <3>2
    <2>3. /\ Ordered(behind, least) /\ Within(behind, d.end, r.end)
          /\ UnitsOf(behind) = {u \in Units(r) : u > d.end}
      <3>1. CASE d.end < r.end
        <4>1. back \in RangeType /\ back.start = d.end /\ back.end = r.end
          BY <3>1, <1>1 DEF RangeType
        <4>2. behind = <<back>>
          BY <3>1
        <4>3. Units(back) = {u \in Units(r) : u > d.end}
          BY <4>1, <1>1, <1>3 DEF Units
        <4> HIDE DEF back
        <4> QED BY <4>1, <4>2, <4>3, OneRange
      <3>2. CASE ~(d.end < r.end)
        <4>1. behind = << >>
          BY <3>2
        <4>2. {u \in Units(r) : u > d.end} = {}
          BY <3>2, <1>1 DEF Units
        <4> QED BY <4>1, <4>2, NoRanges
      <3> QED BY <3>1, <3>2
    <2> HIDE DEF before, behind
    <2>4. Units(r) \ Units(d)
            = {u \in Units(r) : u <= d.start} \cup {u \in Units(r) : u > d.end}
      BY <1>1 DEF Units
    <2>5. /\ Ordered(before \o behind, least)
          /\ UnitsOf(before \o behind) = UnitsOf(before) \cup UnitsOf(behind)
          /\ Within(before \o behind, r.start, r.end)
      <3>1. r.start <= d.end /\ d.start <= r.end /\ d.start + least <= d.end
        BY <1>1, <1>3
      <3> QED BY <2>2, <2>3, <3>1, <1>1, JoinIs
    <2> QED BY <2>1, <2>2, <2>3, <2>4, <2>5
  <1> QED BY <1>2, <1>3

\* A delivery is taken out of every range of a list.
LEMMA CutAllIs ==
    ASSUME NEW least \in {0, 1}, NEW ranges, Ordered(ranges, least),
           NEW bottom \in Nat, NEW top \in Nat, Within(ranges, bottom, top),
           NEW d \in Deliveries(least, bottom, top)
    PROVE  /\ Ordered(CutAll(ranges, d), least) /\ Within(CutAll(ranges, d), bottom, top)
           /\ UnitsOf(CutAll(ranges, d)) = UnitsOf(ranges) \ Units(d)
  <1> DEFINE n == Len(ranges)
             cuts == [i \in DOMAIN ranges |-> Cut(ranges[i], d)]
  <1>1. ranges \in Seq(RangeType)
    BY DEF Ordered
  <1>2. n \in Nat /\ DOMAIN ranges = 1..n /\ \A i \in 1..n : ranges[i] \in RangeType
    BY <1>1, LenProperties, ElementOfSeq
  <1>3. CutAll(ranges, d) = FlattenSeq(cuts)
    BY DEF CutAll
  <1>4. ASSUME NEW i \in 1..n
        PROVE  /\ Ordered(Cut(ranges[i], d), least)
               /\ UnitsOf(Cut(ranges[i], d)) = Units(ranges[i]) \ Units(d)
               /\ Within(Cut(ranges[i], d), ranges[i].start, ranges[i].end)
               /\ bottom <= ranges[i].start /\ ranges[i].end <= top
    <2> DEFINE r == ranges[i]
    <2>1. r \in RangeType /\ bottom <= r.start /\ r.end <= top
      BY <1>2 DEF Within
    <2> HIDE DEF r
    <2>2. /\ Ordered(Cut(r, d), least) /\ UnitsOf(Cut(r, d)) = Units(r) \ Units(d)
          /\ Within(Cut(r, d), r.start, r.end)
      BY <2>1, CutIs
    <2> QED BY <2>1, <2>2 DEF r
  <1>5. \A i \in 1..n : /\ cuts[i] = Cut(ranges[i], d)
                        /\ cuts[i] \in Seq(RangeType)
    BY <1>2, <1>4 DEF Ordered
  <1>6. cuts \in Seq(Seq(RangeType)) /\ Len(cuts) = n
    <2>1. cuts \in [1..n -> Seq(RangeType)]
      BY <1>2, <1>5
    <2> HIDE DEF cuts, n
    <2> QED BY <2>1, <1>2, SeqDef, LenProperties
  <1> HIDE DEF cuts, n
  <1>7. CASE n = 0
    <2>1. ranges = << >> /\ cuts = << >>
      BY <1>1, <1>6, <1>7, EmptySeq DEF n
    <2>2. FlattenSeq(cuts) = << >>
      BY <2>1, <1>6, <1>7 DEF FlattenSeq
    <2> QED BY <2>1, <2>2, <1>3, NoRanges
  <1>8. CASE n # 0
    <2>1. PICK f \in [1..n -> Seq(RangeType)] :
            /\ f[1] = cuts[1]
            /\ \A i \in 1..n : i # 1 => f[i] = f[i - 1] \o cuts[i]
            /\ FlattenSeq(cuts) = f[n]
      <3>1. Joins(RangeType, cuts, n) # {}
        BY <1>6, <1>8, FlattenIs
      <3> QED BY <3>1 DEF Joins
    <2> DEFINE Part(m) == UNION {Units(ranges[k]) : k \in 1..m}
               Good(m) == /\ Ordered(f[m], least)
                          /\ Within(f[m], ranges[1].start, ranges[m].end)
                          /\ UnitsOf(f[m]) = Part(m) \ Units(d)
               T == {m \in Nat : m + 1 <= n => Good(m + 1)}
    <2>2. 1 \in 1..n /\ 0 + 1 = 1
      BY <1>2, <1>8
    <2>3. Good(1)
      <3>1. ranges[1] \in RangeType /\ f[1] = Cut(ranges[1], d)
        BY <2>1, <2>2, <1>2, <1>5
      <3>2. 1..1 = {1}
        OBVIOUS
      <3>3. Part(1) = Units(ranges[1])
        BY <3>2
      <3> QED BY <3>1, <3>3, <2>2, <1>4
    <2> HIDE DEF Part
    <2>4. 0 \in T
      BY <2>2, <2>3
    <2>5. ASSUME NEW m \in Nat, m \in T
          PROVE  m + 1 \in T
      <3>1. SUFFICES ASSUME (m + 1) + 1 <= n
                     PROVE  Good((m + 1) + 1)
        OBVIOUS
      <3> DEFINE j == m + 1
                 i == j + 1
      <3>2. /\ j \in 1..n /\ i \in 1..n /\ i # 1 /\ i - 1 = j /\ j < i
            /\ 1 \in 1..n /\ 1..i = (1..j) \cup {i} /\ 1 <= j /\ 1 < i
        BY <3>1, <1>2
      <3>3. Good(j)
        BY <2>5, <3>2, <1>2
      <3> HIDE DEF j, i
      <3>4. f[i] = f[j] \o cuts[i]
        BY <2>1, <3>2
      <3>5. /\ Ordered(cuts[i], least) /\ UnitsOf(cuts[i]) = Units(ranges[i]) \ Units(d)
            /\ Within(cuts[i], ranges[i].start, ranges[i].end)
        BY <3>2, <1>5, <1>4
      <3>6. Part(i) = Part(j) \cup Units(ranges[i])
        BY <3>2 DEF Part
      <3>7. /\ ranges[1] \in RangeType /\ ranges[i] \in RangeType /\ ranges[j] \in RangeType
            /\ ranges[1].start \in Nat /\ ranges[1].end \in Nat
            /\ ranges[i].start \in Nat /\ ranges[i].end \in Nat
            /\ ranges[j].start \in Nat /\ ranges[j].end \in Nat
            /\ ranges[1].start < ranges[1].end /\ ranges[i].start < ranges[i].end
        BY <3>2, <1>2 DEF RangeType
      <3>8. ranges[j].end + least <= ranges[i].start /\ ranges[1].end + least <= ranges[i].start
        BY <3>2, <1>2 DEF Ordered
      <3>9. /\ ranges[1].start <= ranges[i].start /\ ranges[j].end <= ranges[i].end
            /\ ranges[j].end + least <= ranges[i].start
        <4>1. least \in Nat
          OBVIOUS
        <4> QED BY <3>7, <3>8, <4>1
      <3>10. /\ Ordered(f[i], least)
             /\ UnitsOf(f[i]) = UnitsOf(f[j]) \cup UnitsOf(cuts[i])
             /\ Within(f[i], ranges[1].start, ranges[i].end)
        <4> DEFINE a == f[j]
                   b == cuts[i]
                   low == ranges[1].start
                   end == ranges[j].end
                   start == ranges[i].start
                   high == ranges[i].end
        <4>1. /\ Ordered(a, least) /\ Ordered(b, least) /\ Within(a, low, end) /\ Within(b, start, high)
          BY <3>3, <3>5
        <4>2. /\ low \in Nat /\ end \in Nat /\ start \in Nat /\ high \in Nat
              /\ low <= start /\ end <= high /\ end + least <= start
          BY <3>7, <3>9
        <4> HIDE DEF a, b, low, end, start, high
        <4>3. /\ Ordered(a \o b, least) /\ UnitsOf(a \o b) = UnitsOf(a) \cup UnitsOf(b)
              /\ Within(a \o b, low, high)
          BY <4>1, <4>2, JoinIs
        <4> QED BY <4>3, <3>4 DEF a, b, low, high
      <3> QED BY <3>3, <3>5, <3>6, <3>10 DEF i, j
    <2> HIDE DEF T, Good
    <2>6. Nat \subseteq T
      BY <2>4, <2>5, SetInduction
    <2>7. n - 1 \in Nat /\ (n - 1) + 1 = n
      BY <1>2, <1>8
    <2>8. Good(n)
      <3>1. n - 1 \in T
        BY <2>6, <2>7
      <3>2. (n - 1) + 1 <= n
        BY <2>7, <1>2
      <3>3. Good((n - 1) + 1)
        BY <3>1, <3>2 DEF T
      <3> QED BY <3>3, <2>7
    <2>9. Part(n) = UnitsOf(ranges)
      BY <1>2 DEF Part, UnitsOf
    <2>10. Within(f[n], bottom, top)
      <3>1. f[n] \in Seq(RangeType) /\ 1 \in 1..n /\ n \in 1..n
        BY <2>1, <2>2, <1>2
      <3>2. \A k \in DOMAIN f[n] : f[n][k].start \in Nat /\ f[n][k].end \in Nat
        BY <3>1, ElementOfSeq, LenProperties DEF RangeType
      <3>3. /\ ranges[1].start \in Nat /\ ranges[n].end \in Nat
            /\ bottom <= ranges[1].start /\ ranges[n].end <= top
        BY <3>1, <1>2, <1>4 DEF RangeType
      <3>4. Within(f[n], ranges[1].start, ranges[n].end)
        BY <2>8 DEF Good
      <3> QED BY <3>2, <3>3, <3>4 DEF Within
    <2> QED BY <2>1, <2>8, <2>9, <2>10, <1>3 DEF Good
  <1> QED BY <1>7, <1>8

\* All deliveries are taken out of a range, one after the other.
LEMMA UnsentIs ==
    ASSUME NEW least \in {0, 1}, NEW range \in [start : Nat, end : Nat],
           NEW sent \in Seq(Deliveries(least, range.start, range.end))
    PROVE  /\ Ordered(UnsentRanges(range.start, range.end, sent), least)
           /\ UnitsOf(UnsentRanges(range.start, range.end, sent))
                = Units(range) \ UNION {Units(sent[k]) : k \in DOMAIN sent}
  <1> DEFINE n == Len(sent)
             first == IF range.start < range.end
                      THEN <<[start |-> range.start, end |-> range.end]>> ELSE << >>
             left[k \in 0..Len(sent)] ==
               IF k = 0
               THEN IF range.start < range.end
                    THEN <<[start |-> range.start, end |-> range.end]>> ELSE << >>
               ELSE CutAll(left[k - 1], sent[k])
             X == {ranges \in Seq(RangeType) :
                      Ordered(ranges, least) /\ Within(ranges, range.start, range.end)}
             Step == [k \in 1..n |-> [x \in X |-> CutAll(x, sent[k])]]
  <1>1. /\ n \in Nat /\ DOMAIN sent = 1..n
        /\ \A k \in 1..n : sent[k] \in Deliveries(least, range.start, range.end)
        /\ range.start \in Nat /\ range.end \in Nat
    BY LenProperties, ElementOfSeq
  <1>2. Ordered(first, least) /\ Within(first, range.start, range.end) /\ UnitsOf(first) = Units(range)
    <2>1. CASE range.start < range.end
      <3>1. range \in RangeType /\ range = [start |-> range.start, end |-> range.end]
        BY <2>1 DEF RangeType
      <3> QED BY <2>1, <3>1, OneRange
    <2>2. CASE ~(range.start < range.end)
      <3>1. Units(range) = {}
        BY <2>2 DEF Units
      <3> QED BY <2>2, <3>1, NoRanges
    <2> QED BY <2>1, <2>2
  <1>3. \A x : Ordered(x, least) /\ Within(x, range.start, range.end) <=> x \in X
    BY DEF Ordered
  <1>4. UnsentRanges(range.start, range.end, sent) = left[n]
    BY DEF UnsentRanges
  <1>5. left = CHOOSE h : h = [k \in 0..n |-> IF k = 0 THEN first
                                             ELSE CutAll(h[k - 1], sent[k])]
    BY DEF left
  <1> HIDE DEF left, first, X, n
  <1>6. Step \in [1..n -> [X -> X]]
    <2>1. ASSUME NEW k \in 1..n, NEW x \in X
          PROVE  CutAll(x, sent[k]) \in X
      BY <1>1, <1>3, CutAllIs
    <2> QED BY <2>1
  <1>7. \A k \in 1..n, x \in X : Step[k][x] = CutAll(x, sent[k])
    OBVIOUS
  <1> HIDE DEF Step
  <1>8. PICK g \in [0..n -> X] : g[0] = first /\ \A k \in 1..n : g[k] = Step[k][g[k - 1]]
    <2>1. Runs(X, first, n, Step) # {}
      BY <1>1, <1>2, <1>3, <1>6, IterationExists
    <2> QED BY <2>1 DEF Runs
  <1>9. g = [k \in 0..n |-> IF k = 0 THEN first ELSE CutAll(g[k - 1], sent[k])]
    <2>1. ASSUME NEW k \in 0..n, k # 0
          PROVE  g[k] = CutAll(g[k - 1], sent[k])
      <3>1. k \in 1..n /\ k - 1 \in 0..n
        BY <2>1, <1>1
      <3>2. g[k - 1] \in X
        BY <3>1, <1>8
      <3> QED BY <3>1, <3>2, <1>7, <1>8
    <2> QED BY <2>1, <1>8
  <1>10. left = [k \in 0..n |-> IF k = 0 THEN first ELSE CutAll(left[k - 1], sent[k])]
    BY <1>5, <1>9
  <1>11. left[0] = first /\ \A k \in 1..n : left[k] = CutAll(left[k - 1], sent[k])
    BY <1>1, <1>10
  <1> DEFINE Gone(m) == UNION {Units(sent[k]) : k \in 1..m}
             T == {m \in Nat : m <= n => /\ Ordered(left[m], least)
                                         /\ Within(left[m], range.start, range.end)
                                         /\ UnitsOf(left[m]) = Units(range) \ Gone(m)}
  <1>12. 0 \in T
    <2>1. Gone(0) = {}
      OBVIOUS
    <2> QED BY <2>1, <1>2, <1>11
  <1> HIDE DEF Gone
  <1>13. ASSUME NEW m \in Nat, m \in T
         PROVE  m + 1 \in T
    <2>1. SUFFICES ASSUME m + 1 <= n
                   PROVE  /\ Ordered(left[m + 1], least)
                          /\ Within(left[m + 1], range.start, range.end)
                          /\ UnitsOf(left[m + 1]) = Units(range) \ Gone(m + 1)
      OBVIOUS
    <2> DEFINE k == m + 1
    <2>2. k \in 1..n /\ k - 1 = m /\ m <= n /\ 1..k = (1..m) \cup {k}
      BY <2>1, <1>1
    <2>3. /\ Ordered(left[m], least) /\ Within(left[m], range.start, range.end)
          /\ UnitsOf(left[m]) = Units(range) \ Gone(m)
      BY <1>13, <2>2
    <2> HIDE DEF k
    <2>4. left[k] = CutAll(left[m], sent[k]) /\ sent[k] \in Deliveries(least, range.start, range.end)
      BY <2>2, <1>1, <1>11
    <2>5. /\ Ordered(left[k], least) /\ Within(left[k], range.start, range.end)
          /\ UnitsOf(left[k]) = UnitsOf(left[m]) \ Units(sent[k])
      BY <2>3, <2>4, <1>1, CutAllIs
    <2>6. Gone(k) = Gone(m) \cup Units(sent[k])
      BY <2>2 DEF Gone
    <2> QED BY <2>3, <2>5, <2>6 DEF k
  <1>14. Nat \subseteq T
    <2> HIDE DEF T
    <2> QED BY <1>12, <1>13, SetInduction
  <1>15. Ordered(left[n], least) /\ UnitsOf(left[n]) = Units(range) \ Gone(n)
    <2>1. n \in T
      BY <1>1, <1>14
    <2> QED BY <2>1, <1>1
  <1> QED BY <1>1, <1>4, <1>15 DEF Gone

\* prepared-context.ts:121-131: whatever was delivered, in whatever order, the
\* ranges that unsentRanges leaves are in order and make up exactly what was not
\* delivered; unless an empty delivery was inside the range they have gaps between
\* them, and the last of them is the last stretch of what is left.
THEOREM UnsentExact ==
    \A range \in [start : Nat, end : Nat] :
      \A sent \in Seq({d \in [start : Nat, end : Nat] : d.start <= d.end}) :
        UnsentIsExact(range, sent)
  <1> SUFFICES ASSUME NEW range \in [start : Nat, end : Nat],
                      NEW sent \in Seq({d \in [start : Nat, end : Nat] : d.start <= d.end})
               PROVE  UnsentIsExact(range, sent)
    OBVIOUS
  <1> DEFINE left == UnsentRanges(range.start, range.end, sent)
             units == Units(range) \ UNION {Units(sent[k]) : k \in DOMAIN sent}
             n == Len(left)
             full == \A k \in DOMAIN sent : \/ sent[k].start < sent[k].end
                                             \/ sent[k].end <= range.start
                                             \/ sent[k].start >= range.end
             Given(least) == Deliveries(least, range.start, range.end)
  <1>1. Ordered(left, 0) /\ UnitsOf(left) = units
    <2> DEFINE all == {d \in [start : Nat, end : Nat] : d.start <= d.end}
    <2>1. Given(0) = all
      <3>1. ASSUME NEW d \in all
            PROVE  d \in Given(0)
        BY DEF Deliveries
      <3>2. ASSUME NEW d \in Given(0)
            PROVE  d \in all
        BY DEF Deliveries
      <3> QED BY <3>1, <3>2
    <2>2. sent \in Seq(Given(0))
      BY <2>1
    <2> HIDE DEF Given
    <2> QED BY <2>2, UnsentIs DEF Given
  <1>2. units \subseteq Nat
    BY DEF Units
  <1>3. UnsentIsExact(range, sent) <=>
          /\ UnitsOf(left) = units
          /\ \A k \in 1..(n - 1) : left[k].end <= left[k + 1].start
          /\ full => /\ \A k \in 1..(n - 1) : left[k].end < left[k + 1].start
                     /\ left # << >> => left[n] = LastRange(units)
    BY DEF UnsentIsExact, UnitsOf
  <1>4. ASSUME full
         PROVE  Ordered(left, 1)
    <2>1. /\ Len(sent) \in Nat /\ DOMAIN sent = 1..Len(sent)
          /\ \A k \in 1..Len(sent) : sent[k] \in {d \in [start : Nat, end : Nat] : d.start <= d.end}
      BY LenProperties, ElementOfSeq
    <2>2. ASSUME NEW k \in 1..Len(sent)
          PROVE  sent[k] \in Given(1)
      <3> DEFINE d == sent[k]
      <3>1. /\ d \in [start : Nat, end : Nat] /\ d.start <= d.end
            /\ d.start < d.end \/ d.end <= range.start \/ d.start >= range.end
        BY <1>4, <2>1
      <3> HIDE DEF d
      <3>2. d.start \in Nat /\ d.end \in Nat
        BY <3>1
      <3>3. \/ d.start + 1 <= d.end
            \/ d.end <= range.start \/ d.start >= range.end
        BY <3>1, <3>2
      <3>4. d \in Given(1)
        BY <3>1, <3>3 DEF Deliveries
      <3> QED BY <3>4 DEF d
    <2>3. sent \in [1..Len(sent) -> Given(1)]
      <3>1. sent = [k \in 1..Len(sent) |-> sent[k]]
        BY <2>1
      <3> QED BY <2>2, <3>1
    <2>4. sent \in Seq(Given(1))
      BY <2>1, <2>3, SeqDef
    <2> QED BY <2>4, UnsentIs
  <1> HIDE DEF left, units, full
  <1>5. left \in Seq(RangeType)
    BY <1>1 DEF Ordered
  <1>6. n \in Nat /\ DOMAIN left = 1..n /\ \A k \in 1..n : left[k] \in RangeType
    BY <1>5, LenProperties, ElementOfSeq
  <1>7. ASSUME NEW k \in 1..(n - 1)
        PROVE  /\ left[k].end <= left[k + 1].start
               /\ full => left[k].end < left[k + 1].start
    <2>1. k \in DOMAIN left /\ k + 1 \in DOMAIN left /\ k < k + 1
      BY <1>6
    <2>2. left[k].end \in Nat /\ left[k + 1].start \in Nat
      BY <2>1, <1>6 DEF RangeType
    <2>3. left[k].end + 0 <= left[k + 1].start
      BY <2>1, <1>1 DEF Ordered
    <2>4. ASSUME full
          PROVE  left[k].end + 1 <= left[k + 1].start
      BY <2>1, <2>4, <1>4 DEF Ordered
    <2> QED BY <2>2, <2>3, <2>4
  <1>8. ASSUME full, left # << >>
        PROVE  left[n] = LastRange(units)
    <2>1. n # 0
      BY <1>5, <1>8, EmptySeq
    <2> HIDE DEF n
    <2>2. n \in 1..n
      BY <2>1, <1>6
    <2> DEFINE start == left[n].start
               end == left[n].end
    <2>3. left[n] = [start |-> start, end |-> end] /\ start \in Nat /\ end \in Nat /\ start < end
      BY <2>2, <1>6 DEF RangeType
    <2>4. \A k \in 1..n : /\ left[k].start \in Nat /\ left[k].end \in Nat
                          /\ k # n => left[k].end < start
      <3>1. SUFFICES ASSUME NEW k \in 1..n
                     PROVE  /\ left[k].start \in Nat /\ left[k].end \in Nat
                            /\ k # n => left[k].end < start
        OBVIOUS
      <3>2. left[k].start \in Nat /\ left[k].end \in Nat
        BY <1>6 DEF RangeType
      <3>3. ASSUME k # n
            PROVE  left[k].end < start
        <4>1. k < n /\ k \in DOMAIN left /\ n \in DOMAIN left
          BY <3>3, <2>2, <1>6
        <4>2. left[k].end + 1 <= start
          BY <4>1, <1>8, <1>4 DEF Ordered
        <4> QED BY <4>2, <3>2, <2>3
      <3> QED BY <3>2, <3>3
    <2> HIDE DEF start, end
    <2>5. Units(left[n]) = (start + 1)..end
      BY <2>3 DEF Units
    <2>6. \A u \in units : u <= end
      <3>1. SUFFICES ASSUME NEW u \in units
                     PROVE  u <= end
        OBVIOUS
      <3>2. PICK k \in 1..n : u \in Units(left[k])
        BY <1>1, <1>6 DEF UnitsOf
      <3>3. u \in Nat /\ u <= left[k].end
        BY <3>2, <2>4 DEF Units
      <3>4. CASE k = n
        BY <3>2, <3>4, <2>3, <2>5
      <3>5. CASE k # n
        BY <3>3, <3>5, <2>3, <2>4
      <3> QED BY <3>4, <3>5
    <2>7. \A u \in (start + 1)..end : u \in units
      BY <1>1, <1>6, <2>2, <2>5 DEF UnitsOf
    <2>8. start \notin units
      <3>1. SUFFICES ASSUME start \in units
                     PROVE  FALSE
        OBVIOUS
      <3>2. PICK k \in 1..n : start \in Units(left[k])
        BY <3>1, <1>1, <1>6 DEF UnitsOf
      <3>3. start <= left[k].end
        BY <3>2, <2>3, <2>4 DEF Units
      <3>4. CASE k = n
        BY <3>2, <3>4, <2>3, <2>5
      <3>5. CASE k # n
        BY <3>3, <3>5, <2>3, <2>4
      <3> QED BY <3>4, <3>5
    <2>9. Max(units) = end
      <3>1. end \in units
        BY <2>3, <2>7
      <3> QED BY <3>1, <1>2, <2>6, MaxIs
    <2>10. Max({u \in 0..end : u \notin units}) = start
      <3> DEFINE S == {u \in 0..end : u \notin units}
      <3>1. start \in S /\ S \subseteq Nat
        BY <2>3, <2>8
      <3>2. \A u \in S : u <= start
        BY <2>3, <2>7
      <3> HIDE DEF S
      <3>3. Max(S) = start
        BY <3>1, <3>2, MaxIs
      <3> QED BY <3>3 DEF S
    <2> QED BY <2>3, <2>9, <2>10 DEF LastRange
  <1> QED BY <1>1, <1>3, <1>7, <1>8
=============================================================================

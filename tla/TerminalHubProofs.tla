------------------------- MODULE TerminalHubProofs -------------------------
(***************************************************************************)
(* Theorems about TerminalHub, for every set of pages and for all limits   *)
(* of the buffers.                                                         *)
(***************************************************************************)
EXTENDS TerminalHub, FiniteSetTheorems, SequenceTheorems, TLAPS

LEMMA RemoveAtIs ==
    ASSUME NEW S, NEW seq \in Seq(S), NEW i \in DOMAIN seq
    PROVE  /\ RemoveAt(seq, i) \in Seq(S)
           /\ Len(RemoveAt(seq, i)) = Len(seq) - 1
           /\ \A j \in 1..(Len(seq) - 1) :
                 RemoveAt(seq, i)[j] = IF j < i THEN seq[j] ELSE seq[j + 1]
  <1> DEFINE front == SubSeq(seq, 1, i - 1)
             back == SubSeq(seq, i + 1, Len(seq))
  <1>1. i \in 1..Len(seq) /\ Len(seq) \in Nat
    BY LenProperties
  <1>2. \A k \in 1..Len(seq) : seq[k] \in S
    BY ElementOfSeq
  <1>3. /\ front \in Seq(S) /\ Len(front) = i - 1
        /\ \A j \in 1..(i - 1) : front[j] = seq[j]
    <2>1. \A k \in 1..(i - 1) : seq[k] \in S
      BY <1>1, <1>2
    <2>2. 1 \in Int /\ i - 1 \in Int
      BY <1>1
    <2> QED BY <2>1, <2>2, <1>1, SubSeqProperties
  <1>4. /\ back \in Seq(S) /\ Len(back) = Len(seq) - i
        /\ \A j \in 1..(Len(seq) - i) : back[j] = seq[j + i]
    <2>1. \A k \in (i + 1)..Len(seq) : seq[k] \in S
      BY <1>1, <1>2
    <2>2. i + 1 \in Int /\ Len(seq) \in Int
      BY <1>1
    <2> QED BY <2>1, <2>2, <1>1, SubSeqProperties
  <1>5. RemoveAt(seq, i) = front \o back
    BY DEF RemoveAt
  <1> HIDE DEF front, back
  <1>6. /\ front \o back \in Seq(S)
        /\ Len(front \o back) = Len(front) + Len(back)
        /\ \A j \in 1..(Len(front) + Len(back)) : (front \o back)[j] =
              IF j <= Len(front) THEN front[j] ELSE back[j - Len(front)]
    BY <1>3, <1>4, ConcatProperties
  <1>7. Len(front) + Len(back) = Len(seq) - 1
    BY <1>1, <1>3, <1>4
  <1>8. ASSUME NEW j \in 1..(Len(seq) - 1)
        PROVE  (front \o back)[j] = IF j < i THEN seq[j] ELSE seq[j + 1]
    <2>1. CASE j < i
      BY <2>1, <1>1, <1>3, <1>6, <1>7
    <2>2. CASE ~(j < i)
      <3>1. j - (i - 1) \in 1..(Len(seq) - i) /\ (j - (i - 1)) + i = j + 1
        BY <2>2, <1>1
      <3>2. (front \o back)[j] = back[j - (i - 1)]
        BY <2>2, <1>1, <1>3, <1>6, <1>7
      <3> QED BY <3>1, <3>2, <2>2, <1>1, <1>4
    <2> QED BY <2>1, <2>2
  <1> QED BY <1>5, <1>6, <1>7, <1>8

\* What taking one element out of an injective sequence leaves.
LEMMA RemoveAtRange ==
    ASSUME NEW S, NEW seq \in Seq(S), IsInjective(seq), NEW i \in DOMAIN seq
    PROVE  /\ IsInjective(RemoveAt(seq, i))
           /\ Range(RemoveAt(seq, i)) = Range(seq) \ {seq[i]}
  <1> DEFINE rest == RemoveAt(seq, i)
  <1>1. /\ rest \in Seq(S) /\ Len(rest) = Len(seq) - 1
        /\ \A j \in 1..(Len(seq) - 1) :
              rest[j] = IF j < i THEN seq[j] ELSE seq[j + 1]
    BY RemoveAtIs
  <1> HIDE DEF rest
  <1>2. /\ Len(seq) \in Nat /\ DOMAIN seq = 1..Len(seq)
        /\ DOMAIN rest = 1..(Len(seq) - 1)
    BY <1>1, LenProperties
  <1>3. IsInjective(rest)
    <2>1. \A j, k \in DOMAIN seq : seq[j] = seq[k] => j = k
      BY DEF IsInjective
    <2>2. SUFFICES ASSUME NEW j \in 1..(Len(seq) - 1),
                          NEW k \in 1..(Len(seq) - 1), rest[j] = rest[k]
                   PROVE  j = k
      BY <1>2 DEF IsInjective
    <2>3. PICK m \in 1..Len(seq) :
             rest[j] = seq[m] /\ m = IF j < i THEN j ELSE j + 1
      BY <1>1, <1>2
    <2>4. PICK n \in 1..Len(seq) :
             rest[k] = seq[n] /\ n = IF k < i THEN k ELSE k + 1
      BY <1>1, <1>2
    <2>5. m = n
      BY <2>1, <2>2, <2>3, <2>4, <1>2
    <2> QED BY <2>3, <2>4, <2>5, <1>2
  <1>4. ASSUME NEW x \in Range(rest)
        PROVE  x \in Range(seq) \ {seq[i]}
    <2>1. PICK j \in 1..(Len(seq) - 1) : x = rest[j]
      BY <1>2 DEF Range
    <2> QED BY <2>1, <1>1, <1>2 DEF Range, IsInjective
  <1>5. ASSUME NEW x \in Range(seq) \ {seq[i]}
        PROVE  x \in Range(rest)
    <2>1. PICK j \in 1..Len(seq) : x = seq[j] /\ j # i
      BY <1>2 DEF Range
    <2>2. CASE j < i
      <3>1. j \in 1..(Len(seq) - 1) /\ rest[j] = seq[j]
        BY <2>1, <2>2, <1>1, <1>2
      <3> QED BY <3>1, <2>1, <1>2 DEF Range
    <2>3. CASE j > i
      <3>1. j - 1 \in 1..(Len(seq) - 1) /\ rest[j - 1] = seq[j]
        BY <2>1, <2>3, <1>1, <1>2
      <3> QED BY <3>1, <2>1, <1>2 DEF Range
    <2> QED BY <2>1, <2>2, <2>3, <1>2
  <1> QED BY <1>3, <1>4, <1>5 DEF rest

LEMMA AppendRange ==
    ASSUME NEW S, NEW seq \in Seq(S), IsInjective(seq), NEW x \in S,
           x \notin Range(seq)
    PROVE  /\ Append(seq, x) \in Seq(S)
           /\ Len(Append(seq, x)) = Len(seq) + 1
           /\ IsInjective(Append(seq, x))
           /\ Range(Append(seq, x)) = Range(seq) \cup {x}
  <1>1. /\ Append(seq, x) \in Seq(S)
        /\ Len(Append(seq, x)) = Len(seq) + 1
        /\ \A i \in 1..Len(seq) : Append(seq, x)[i] = seq[i]
        /\ Append(seq, x)[Len(seq) + 1] = x
    BY AppendProperties
  <1>2. /\ Len(seq) \in Nat /\ DOMAIN seq = 1..Len(seq)
        /\ DOMAIN Append(seq, x) = 1..(Len(seq) + 1)
    BY <1>1, LenProperties
  <1>3. \A i \in 1..Len(seq) : seq[i] # x
    BY <1>2 DEF Range
  <1>4. IsInjective(Append(seq, x))
    <2> DEFINE longer == Append(seq, x)
    <2>1. /\ DOMAIN longer = 1..(Len(seq) + 1)
          /\ \A i \in 1..Len(seq) : longer[i] = seq[i]
          /\ longer[Len(seq) + 1] = x
      BY <1>1, <1>2
    <2> HIDE DEF longer
    <2>2. \A i, j \in DOMAIN longer : longer[i] = longer[j] => i = j
      BY <2>1, <1>2, <1>3 DEF IsInjective
    <2> QED BY <2>2 DEF IsInjective, longer
  <1>5. Range(Append(seq, x)) = Range(seq) \cup {x}
    <2>1. ASSUME NEW y \in Range(Append(seq, x))
          PROVE  y \in Range(seq) \cup {x}
      <3>1. PICK i \in 1..(Len(seq) + 1) : y = Append(seq, x)[i]
        BY <1>2 DEF Range
      <3> QED BY <3>1, <1>1, <1>2 DEF Range
    <2>2. ASSUME NEW y \in Range(seq) \cup {x}
          PROVE  y \in Range(Append(seq, x))
      <3>1. CASE y = x
        BY <3>1, <1>1, <1>2 DEF Range
      <3>2. CASE y \in Range(seq)
        <4>1. PICK i \in 1..Len(seq) : y = seq[i]
          BY <3>2, <1>2 DEF Range
        <4>2. i \in 1..(Len(seq) + 1) /\ Append(seq, x)[i] = y
          BY <4>1, <1>1, <1>2
        <4> QED BY <4>2, <1>2 DEF Range
      <3> QED BY <3>1, <3>2
    <2> QED BY <2>1, <2>2
  <1> QED BY <1>1, <1>4, <1>5

-----------------------------------------------------------------------------
(* What a delivery does to the buffers and the sockets.                    *)

Conns == {"none", "open", "closing", "detached"}

LEMMA DeliverType ==
    ASSUME toPage \in [Pages -> Seq(Message)],
           NEW out, DOMAIN out \subseteq Pages,
           \A q \in DOMAIN out : out[q] \in Message,
           NEW c \in [Pages -> Conns], Deliver(out, c)
    PROVE  toPage' \in [Pages -> Seq(Message)] /\ conn' \in [Pages -> Conns]
  <1>1. ASSUME NEW p \in Pages, p \in DOMAIN out
        PROVE  Append(toPage[p], out[p]) \in Seq(Message)
    BY <1>1, AppendProperties
  <1>2. toPage' \in [Pages -> Seq(Message)]
    BY <1>1 DEF Deliver
  <1>3. conn' \in [Pages -> Conns]
    BY DEF Deliver, Conns
  <1> QED BY <1>2, <1>3

LEMMA DeliverConn ==
    ASSUME NEW out, NEW c \in [Pages -> Conns], Deliver(out, c), NEW p \in Pages
    PROVE  \/ conn'[p] = c[p]
           \/ p \in DOMAIN out /\ c[p] = "open" /\ conn'[p] = "closing"
  BY DEF Deliver

LEMMA DeliverMessage ==
    ASSUME NEW out, NEW c \in [Pages -> Conns], Deliver(out, c), NEW p \in Pages
    PROVE  \/ toPage'[p] = toPage[p] /\ (p \in DOMAIN out => conn'[p] # "open")
           \/ /\ p \in DOMAIN out /\ c[p] = "open"
              /\ toPage'[p] = Append(toPage[p], out[p])
  BY DEF Deliver

LEMMA ToIs ==
    ASSUME NEW p, NEW m
    PROVE  DOMAIN To(p, m) = {p} /\ To(p, m)[p] = m
  BY DEF To

LEMMA NothingIs == DOMAIN Nothing = {}
  BY DEF Nothing

\* Messages that are no output.
Quiet == {m \in Message : m.type \notin {"ready", "output"}}

LEMMA MessagesAre ==
    /\ Error \in Quiet
    /\ \A b \in BOOLEAN : Writable(b) \in Quiet
    /\ [type |-> "exit"] \in Quiet
  BY DEF Error, Writable, Message, Quiet

LEMMA WindowIs ==
    ASSUME HubAssumption, produced \in 0..MaxOutput
    PROVE  ReplayStart \in 0..MaxOutput
  BY DEF ReplayStart, HubAssumption

-----------------------------------------------------------------------------
(* Types.                                                                  *)

LEMMA InitType ==
    ASSUME Init, HubAssumption
    PROVE  TypeOK
  <1>1. /\ << >> \in Seq(Pages) /\ << >> \in Seq(Message)
        /\ << >> \in Seq(Written) /\ << >> \in Seq({"acquire", "input"})
    BY EmptySeq
  <1>2. /\ toPage = [p \in Pages |-> << >>] /\ toHub = [p \in Pages |-> << >>]
        /\ queue = [p \in Pages |-> << >>] /\ sockets = << >>
        /\ conn = [p \in Pages |-> "none"] /\ tab = [p \in Pages |-> "none"]
        /\ canWrite = [p \in Pages |-> FALSE]
        /\ replaying = [p \in Pages |-> FALSE]
    BY DEF Init
  <1>3. produced \in 0..MaxOutput
    BY DEF Init, HubAssumption
  <1> QED BY <1>1, <1>2, <1>3 DEF Init, TypeOK

LEMMA AttachType ==
    ASSUME TypeOK, HubAssumption, NEW p \in Pages, Attach(p)
    PROVE  TypeOK'
  <1> DEFINE m == [type |-> "ready", running |-> running,
                   start |-> ReplayStart, end |-> produced,
                   writable |-> running /\ writer' = p]
             c == [conn EXCEPT ![p] = "open"]
  <1>1. m \in Message
    BY WindowIs DEF TypeOK, Message, Written
  <1>2. c \in [Pages -> Conns]
    BY DEF TypeOK, Conns
  <1>3. Deliver(To(p, m), c)
    BY DEF Attach
  <1> HIDE DEF m, c
  <1>4. toPage' \in [Pages -> Seq(Message)] /\ conn' \in [Pages -> Conns]
    <2>1. DOMAIN To(p, m) \subseteq Pages
      BY DEF To
    <2>2. \A q \in DOMAIN To(p, m) : To(p, m)[q] \in Message
      BY <1>1 DEF To
    <2> QED BY <1>2, <1>3, <2>1, <2>2, DeliverType DEF TypeOK
  <1>5. sockets' \in Seq(Pages)
    BY AppendProperties DEF Attach, TypeOK
  <1> QED BY <1>4, <1>5 DEF Attach, TypeOK, terminal, Conns

LEMMA TakeoverDelivers ==
    ASSUME TypeOK, NEW p \in Pages, AcquireWriteLease(p) \/ Input(p)
    PROVE  \E out : /\ Deliver(out, conn) /\ DOMAIN out \subseteq Pages
                    /\ \A q \in DOMAIN out : out[q] \in Quiet
  <1>1. Error \in Quiet /\ \A b \in BOOLEAN : Writable(b) \in Quiet
    BY MessagesAre
  <1>2. DOMAIN To(p, Error) = {p} /\ To(p, Error)[p] = Error
    BY ToIs
  <1>3. CASE Deliver(Nothing, conn)
    BY <1>3, NothingIs
  <1>4. CASE Deliver(To(p, Error), conn)
    BY <1>1, <1>2, <1>4
  <1>5. CASE Deliver([q \in Told(p) |-> Writable(q = p)], conn)
    <2> DEFINE out == [q \in Told(p) |-> Writable(q = p)]
    <2>1. DOMAIN out \subseteq Pages
      BY DEF Told, TypeOK
    <2>2. \A q \in DOMAIN out : out[q] \in Quiet
      BY <1>1
    <2> QED BY <1>5, <2>1, <2>2
  <1> QED BY <1>3, <1>4, <1>5 DEF AcquireWriteLease, Input

LEMMA HubReadsType ==
    ASSUME TypeOK, NEW p \in Pages, HubReads(p)
    PROVE  TypeOK'
  <1>1. PICK out : /\ Deliver(out, conn) /\ DOMAIN out \subseteq Pages
                   /\ \A q \in DOMAIN out : out[q] \in Message
    BY TakeoverDelivers DEF HubReads, Quiet
  <1>2. toPage' \in [Pages -> Seq(Message)] /\ conn' \in [Pages -> Conns]
    BY <1>1, DeliverType DEF TypeOK, Conns
  <1>3. writer' \in Pages \cup {None}
    BY DEF HubReads, AcquireWriteLease, Input, TypeOK
  <1>4. Tail(toHub[p]) \in Seq({"acquire", "input"})
    BY HeadTailProperties DEF HubReads, TypeOK
  <1>5. toHub' \in [Pages -> Seq({"acquire", "input"})]
    BY <1>4 DEF HubReads, TypeOK
  <1> QED BY <1>2, <1>3, <1>5 DEF HubReads, TypeOK, terminal, page, Conns

\* Who takes over when p goes, and what it is told.
LEMMA DetachIs ==
    ASSUME TypeOK, IsInjective(sockets), NEW p \in Pages, Detach(p)
    PROVE  /\ sockets' \in Seq(Pages) /\ IsInjective(sockets')
           /\ p \in Attached /\ Attached' = Attached \ {p}
           /\ sockets' = << >> => Successor(sockets') = None
           /\ sockets' # << >> => Successor(sockets') \in Attached'
  <1>1. PICK i \in DOMAIN sockets :
           sockets[i] = p /\ sockets' = RemoveAt(sockets, i)
    BY DEF Detach
  <1>2. sockets' \in Seq(Pages)
    BY <1>1, RemoveAtIs DEF TypeOK
  <1>3. IsInjective(sockets') /\ Range(sockets') = Range(sockets) \ {p}
    BY <1>1, RemoveAtRange DEF TypeOK
  <1>4. p \in Attached
    BY <1>1 DEF Attached, Range
  <1>5. Attached' = Attached \ {p}
    BY <1>3 DEF Attached
  <1>6. ASSUME sockets' # << >>
        PROVE  Successor(sockets') \in Attached'
    <2>1. Len(sockets') \in DOMAIN sockets'
      BY <1>2, <1>6, EmptySeq, LenProperties
    <2>2. Successor(sockets') = sockets'[Len(sockets')]
      BY <1>6 DEF Successor
    <2> QED BY <2>1, <2>2 DEF Attached, Range
  <1> QED BY <1>2, <1>3, <1>4, <1>5, <1>6 DEF Successor

LEMMA DetachType ==
    ASSUME TypeOK, HubAssumption, IsInjective(sockets), NEW p \in Pages,
           Detach(p)
    PROVE  TypeOK'
  <1> DEFINE out == IF writer' \in {writer, None} THEN Nothing
                    ELSE To(writer', Writable(TRUE))
             c == [conn EXCEPT ![p] = "detached"]
  <1>1. sockets' \in Seq(Pages) /\ writer' \in Pages \cup {None}
    <2>1. Attached' \subseteq Pages
      BY DetachIs, RangeOfSeq DEF Attached, TypeOK
    <2>2. Successor(sockets') \in Pages \cup {None}
      BY <2>1, DetachIs
    <2> QED BY <2>2, DetachIs DEF Detach, TypeOK
  <1>2. DOMAIN out \subseteq Pages /\ \A q \in DOMAIN out : out[q] \in Message
    <2>1. DOMAIN out \subseteq Pages /\ \A q \in DOMAIN out : out[q] \in Quiet
      BY <1>1, MessagesAre, NothingIs, ToIs
    <2>2. Quiet \subseteq Message
      BY DEF Quiet
    <2> HIDE DEF out
    <2> QED BY <2>1, <2>2
  <1>3. c \in [Pages -> Conns]
    BY DEF TypeOK, Conns
  <1>4. Deliver(out, c)
    BY DEF Detach
  <1> HIDE DEF out, c
  <1>5. toPage' \in [Pages -> Seq(Message)] /\ conn' \in [Pages -> Conns]
    BY <1>2, <1>3, <1>4, DeliverType DEF TypeOK
  <1>6. toHub' \in [Pages -> Seq({"acquire", "input"})]
    BY EmptySeq DEF Detach, TypeOK
  <1>7. mapped' \in BOOLEAN
    BY DEF Detach, TypeOK
  <1> QED BY <1>1, <1>5, <1>6, <1>7 DEF Detach, TypeOK, terminal, page, Conns

LEMMA PublishType ==
    ASSUME TypeOK, NEW m \in Message, Publish(m)
    PROVE  toPage' \in [Pages -> Seq(Message)] /\ conn' \in [Pages -> Conns]
  <1> DEFINE out == [p \in Attached |-> m]
  <1>1. Attached \subseteq Pages
    BY RangeOfSeq DEF Attached, TypeOK
  <1>2. DOMAIN out \subseteq Pages /\ \A q \in DOMAIN out : out[q] \in Message
    BY <1>1
  <1>3. Deliver(out, conn)
    BY DEF Publish
  <1> HIDE DEF out
  <1> QED BY <1>2, <1>3, DeliverType DEF TypeOK, Conns

LEMMA TerminalType ==
    ASSUME TypeOK, HubAssumption, Output \/ Exit \/ CloseSession \/ Evict
    PROVE  TypeOK'
  <1>1. CASE Output
    <2> DEFINE m == [type |-> "output", start |-> produced, end |-> produced']
    <2>1. produced' \in 0..MaxOutput /\ Publish(m)
      BY <1>1 DEF Output, TypeOK, HubAssumption
    <2>2. m \in Message
      BY <2>1 DEF Message, Written, TypeOK
    <2> HIDE DEF m
    <2>3. toPage' \in [Pages -> Seq(Message)] /\ conn' \in [Pages -> Conns]
      BY <2>1, <2>2, PublishType
    <2> QED BY <1>1, <2>1, <2>3 DEF Output, TypeOK, hub, page, Conns
  <1>2. CASE Exit
    <2>1. toPage' \in [Pages -> Seq(Message)] /\ conn' \in [Pages -> Conns]
      BY <1>2, PublishType, MessagesAre DEF Exit, Quiet
    <2> QED BY <1>2, <2>1 DEF Exit, TypeOK, hub, page, Conns
  <1>3. CASE CloseSession
    BY <1>3 DEF CloseSession, TypeOK, page
  <1>4. CASE Evict
    BY <1>4 DEF Evict, TypeOK, hub, page
  <1> QED BY <1>1, <1>2, <1>3, <1>4

LEMMA PageReadsType ==
    ASSUME TypeOK, HubAssumption, NEW p \in Pages, PageReads(p)
    PROVE  TypeOK'
  <1> DEFINE m == Head(toPage[p])
  <1>1. m \in Message /\ Tail(toPage[p]) \in Seq(Message)
    BY HeadTailProperties DEF PageReads, TypeOK
  <1>2. toPage' \in [Pages -> Seq(Message)]
    BY <1>1 DEF PageReads, TypeOK
  <1>3. queue' \in [Pages -> Seq(Written)]
    <2>1. \/ UNCHANGED queue
          \/ m.type \in {"ready", "output"} /\ Enqueue(p, m)
      BY DEF PageReads, PageReadsReady
    <2>2. m.type \in {"ready", "output"} => m \in Written
      BY <1>1 DEF Message
    <2>3. m \in Written => Append(queue[p], m) \in Seq(Written)
      BY AppendProperties DEF TypeOK
    <2> QED BY <2>1, <2>2, <2>3 DEF Enqueue, TypeOK
  <1>4. /\ m.type \in {"ready", "writable"} => m.writable \in BOOLEAN
        /\ m.type = "ready" => m.end \in 0..MaxOutput
    BY <1>1 DEF Message, Written
  <1> HIDE DEF m
  <1>5. /\ canWrite' \in [Pages -> BOOLEAN] /\ replaying' \in [Pages -> BOOLEAN]
        /\ shown' \in [Pages -> {"connecting", "running", "exited"}]
        /\ screen' \in [Pages -> 0..MaxOutput \cup {None}]
    <2>1. CASE m.type = "ready" /\ PageReadsReady(p, m)
      BY <1>4, <2>1 DEF PageReadsReady, TypeOK
    <2>2. CASE UNCHANGED <<canWrite, shown, replaying, screen>>
      BY <2>2 DEF TypeOK
    <2>3. CASE /\ m.type \in {"writable", "exit"}
               /\ canWrite' = [canWrite EXCEPT
                                 ![p] = m.type = "writable" /\ m.writable]
               /\ shown' = [shown EXCEPT ![p] = IF m.type = "exit"
                                                THEN "exited" ELSE "running"]
               /\ UNCHANGED <<queue, replaying, screen>>
      BY <1>4, <2>3 DEF TypeOK
    <2> QED BY <2>1, <2>2, <2>3 DEF PageReads, m
  <1>6. overtaken' \in SUBSET Pages
    BY DEF PageReads, TypeOK
  <1> QED BY <1>2, <1>3, <1>5, <1>6 DEF PageReads, TypeOK, terminal, hub

LEMMA PageType ==
    ASSUME TypeOK, NEW p \in Pages,
           \/ \E request \in {"acquire", "input"} : PageSends(p, request)
           \/ PageRenders(p) \/ PageSeesClose(p) \/ PageLeaves(p)
    PROVE  TypeOK'
  <1>1. ASSUME NEW request \in {"acquire", "input"}, PageSends(p, request)
        PROVE  TypeOK'
    <2>1. Append(toHub[p], request) \in Seq({"acquire", "input"})
      BY AppendProperties DEF TypeOK
    <2> QED BY <1>1, <2>1 DEF PageSends, TypeOK, terminal, hub, page
  <1>2. CASE PageRenders(p)
    <2> DEFINE m == Head(queue[p])
    <2>1. m \in Written /\ Tail(queue[p]) \in Seq(Written)
      BY <1>2, HeadTailProperties DEF PageRenders, TypeOK
    <2>2. queue' \in [Pages -> Seq(Written)]
      BY <1>2, <2>1 DEF PageRenders, TypeOK
    <2>3. /\ m.type = "ready" => m.writable \in BOOLEAN
          /\ m.end \in 0..MaxOutput
      BY <2>1 DEF Written
    <2> HIDE DEF m
    <2>4. /\ screen' = [screen EXCEPT ![p] = m.end]
          /\ \/ UNCHANGED <<replaying, canWrite, shown>>
             \/ /\ m.type = "ready"
                /\ replaying' = [replaying EXCEPT ![p] = FALSE]
                /\ canWrite' = [canWrite EXCEPT ![p] = m.writable]
                /\ shown' = [shown EXCEPT ![p] = IF m.running THEN "running"
                                                              ELSE "exited"]
      BY <1>2 DEF PageRenders, m
    <2>5. /\ screen' \in [Pages -> 0..MaxOutput \cup {None}]
          /\ canWrite' \in [Pages -> BOOLEAN]
          /\ replaying' \in [Pages -> BOOLEAN]
          /\ shown' \in [Pages -> {"connecting", "running", "exited"}]
      BY <2>3, <2>4 DEF TypeOK
    <2> QED BY <1>2, <2>2, <2>5 DEF PageRenders, TypeOK, terminal, hub
  <1>3. CASE PageSeesClose(p)
    BY <1>3, EmptySeq DEF PageSeesClose, TypeOK, terminal, hub
  <1>4. CASE PageLeaves(p)
    BY <1>4, EmptySeq DEF PageLeaves, TypeOK, terminal, hub
  <1> QED BY <1>1, <1>2, <1>3, <1>4

-----------------------------------------------------------------------------
(* The lease.                                                              *)

\* The inductive invariant: no socket is in the list twice, and a page has a
\* socket from the moment it is there.
Held ==
    /\ writer = None <=> sockets = << >>
    /\ writer # None => writer \in Attached
    /\ Attached = {p \in Pages : conn[p] \in {"open", "closing"}}
    /\ IsInjective(sockets)
    /\ \A p \in Pages : conn[p] = "none" <=> tab[p] = "none"

LeaseInv == TypeOK /\ Held

LEMMA InitHeld ==
    ASSUME Init, HubAssumption
    PROVE  LeaseInv
  <1>1. TypeOK
    BY InitType
  <1>2. sockets = << >> /\ DOMAIN << >> = {} /\ writer = None
    BY DEF Init
  <1>3. Attached = {} /\ IsInjective(sockets)
    BY <1>2 DEF Attached, Range, IsInjective
  <1>4. \A p \in Pages : conn[p] = "none" /\ tab[p] = "none"
    BY DEF Init
  <1> QED BY <1>1, <1>2, <1>3, <1>4 DEF LeaseInv, Held

\* A step in which nobody comes or goes and the lease stays or moves to a
\* socket of the list; sockets may begin to close.
LEMMA SameSocketsHeld ==
    ASSUME LeaseInv, UNCHANGED sockets,
           writer' = writer \/ writer' \in Attached \ {None},
           \A p \in Pages : \/ conn'[p] = conn[p]
                            \/ conn[p] = "open" /\ conn'[p] = "closing",
           \A p \in Pages : tab'[p] = tab[p] \/ "none" \notin {tab[p], tab'[p]}
    PROVE  Held'
  <1>1. Attached' = Attached /\ IsInjective(sockets')
    BY DEF Attached, LeaseInv, Held
  <1>2. Attached' = {p \in Pages : conn'[p] \in {"open", "closing"}}
    BY <1>1 DEF LeaseInv, Held
  <1>3. sockets = << >> => Attached = {}
    BY DEF Attached, Range
  <1>4. /\ writer' = None <=> sockets' = << >>
        /\ writer' # None => writer' \in Attached'
    BY <1>1, <1>3 DEF LeaseInv, Held
  <1>5. \A p \in Pages : conn'[p] = "none" <=> tab'[p] = "none"
    BY DEF LeaseInv, Held
  <1> QED BY <1>1, <1>2, <1>4, <1>5 DEF Held

LEMMA AttachHeld ==
    ASSUME LeaseInv, HubAssumption, NEW p \in Pages, Attach(p)
    PROVE  Held'
  <1>1. p \notin Attached /\ p # None
    BY DEF Attach, LeaseInv, Held, HubAssumption
  <1>2. sockets' = Append(sockets, p)
    BY DEF Attach
  <1>3. /\ sockets' \in Seq(Pages) /\ sockets' # << >> /\ IsInjective(sockets')
        /\ Attached' = Attached \cup {p}
    BY <1>1, <1>2, AppendRange, AppendProperties
       DEF LeaseInv, Held, TypeOK, Attached
  <1>4. writer' # None /\ writer' \in Attached'
    BY <1>1, <1>3 DEF Attach, LeaseInv, Held
  <1> DEFINE c == [conn EXCEPT ![p] = "open"]
  <1>5. /\ c \in [Pages -> Conns] /\ c[p] = "open"
        /\ \A q \in Pages \ {p} : c[q] = conn[q]
    BY DEF LeaseInv, TypeOK, Conns
  <1>6. \A q \in Pages :
           conn'[q] = c[q] \/ (c[q] = "open" /\ conn'[q] = "closing")
    <2>1. PICK out : Deliver(out, c)
      BY DEF Attach
    <2> HIDE DEF c
    <2> QED BY <1>5, <2>1, DeliverConn
  <1> HIDE DEF c
  <1>7. Attached' = {q \in Pages : conn'[q] \in {"open", "closing"}}
    BY <1>3, <1>5, <1>6 DEF LeaseInv, Held
  <1>8. tab[p] = "none" /\ tab' = [tab EXCEPT ![p] = "open"]
    BY DEF Attach
  <1>9. \A q \in Pages : conn'[q] = "none" <=> tab'[q] = "none"
    BY <1>5, <1>6, <1>8 DEF LeaseInv, Held, TypeOK
  <1> QED BY <1>3, <1>4, <1>7, <1>9 DEF Held

LEMMA HubReadsHeld ==
    ASSUME LeaseInv, HubAssumption, NEW p \in Pages, HubReads(p)
    PROVE  Held'
  <1>1. p \in Attached /\ p # None
    BY DEF HubReads, LeaseInv, Held, HubAssumption
  <1>2. PICK out : Deliver(out, conn)
    BY TakeoverDelivers DEF HubReads, LeaseInv
  <1>3. conn \in [Pages -> Conns]
    BY DEF LeaseInv, TypeOK, Conns
  <1>4. \A q \in Pages : \/ conn'[q] = conn[q]
                         \/ conn[q] = "open" /\ conn'[q] = "closing"
    BY <1>2, <1>3, DeliverConn
  <1>5. writer' = writer \/ writer' = p
    BY DEF HubReads, AcquireWriteLease, Input
  <1>6. UNCHANGED <<sockets, tab>>
    BY DEF HubReads, page
  <1> QED BY <1>1, <1>4, <1>5, <1>6, SameSocketsHeld

LEMMA DetachHeld ==
    ASSUME LeaseInv, HubAssumption, NEW p \in Pages, Detach(p)
    PROVE  Held'
  <1>1. /\ IsInjective(sockets') /\ p \in Attached /\ Attached' = Attached \ {p}
        /\ sockets' = << >> => Successor(sockets') = None
        /\ sockets' # << >> => Successor(sockets') \in Attached'
    BY DetachIs DEF LeaseInv, Held
  <1>2. Attached' \subseteq Pages /\ None \notin Pages
    BY <1>1 DEF LeaseInv, Held, HubAssumption
  <1>3. writer' = IF writer = p THEN Successor(sockets') ELSE writer
    BY DEF Detach
  <1>4. writer \in Attached
    BY <1>1 DEF LeaseInv, Held, Attached, Range
  <1>5. sockets' = << >> => Attached' = {}
    BY DEF Attached, Range
  <1>6. /\ writer' = None <=> sockets' = << >>
        /\ writer' # None => writer' \in Attached'
    BY <1>1, <1>2, <1>3, <1>4, <1>5
  <1> DEFINE c == [conn EXCEPT ![p] = "detached"]
  <1>7. /\ c \in [Pages -> Conns] /\ c[p] = "detached"
        /\ \A q \in Pages \ {p} : c[q] = conn[q]
    BY DEF LeaseInv, TypeOK, Conns
  <1>8. \A q \in Pages :
           conn'[q] = c[q] \/ (c[q] = "open" /\ conn'[q] = "closing")
    <2>1. PICK out : Deliver(out, c)
      BY DEF Detach
    <2> HIDE DEF c
    <2> QED BY <1>7, <2>1, DeliverConn
  <1> HIDE DEF c
  <1>9. Attached' = {q \in Pages : conn'[q] \in {"open", "closing"}}
    BY <1>1, <1>7, <1>8 DEF LeaseInv, Held
  <1>10. UNCHANGED tab /\ conn[p] # "none"
    BY DEF Detach, page, Gone
  <1>11. \A q \in Pages : conn'[q] = "none" <=> tab'[q] = "none"
    BY <1>7, <1>8, <1>10 DEF LeaseInv, Held
  <1> QED BY <1>1, <1>6, <1>9, <1>11 DEF Held

LEMMA TerminalHeld ==
    ASSUME LeaseInv, Output \/ Exit \/ CloseSession \/ Evict
    PROVE  Held'
  <1>1. UNCHANGED <<sockets, writer, tab>>
    BY DEF Output, Exit, CloseSession, Evict, hub, page
  <1>2. \A q \in Pages : \/ conn'[q] = conn[q]
                         \/ conn[q] = "open" /\ conn'[q] = "closing"
                         \/ conn[q] = "closing" /\ conn'[q] = "closing"
    <2>1. conn \in [Pages -> Conns]
      BY DEF LeaseInv, TypeOK, Conns
    <2>2. CASE Output \/ Exit
      <3>1. PICK out : Deliver(out, conn)
        BY <2>2 DEF Output, Exit, Publish
      <3> QED BY <2>1, <3>1, DeliverConn
    <2>3. CASE CloseSession
      BY <2>3 DEF CloseSession, LeaseInv, Held
    <2>4. CASE Evict
      BY <2>4 DEF Evict
    <2> QED BY <2>2, <2>3, <2>4
  <1> QED BY <1>1, <1>2, SameSocketsHeld

LEMMA PageHeld ==
    ASSUME LeaseInv, NEW p \in Pages,
           \/ \E request \in {"acquire", "input"} : PageSends(p, request)
           \/ PageReads(p) \/ PageRenders(p) \/ PageSeesClose(p) \/ PageLeaves(p)
    PROVE  Held'
  <1>1. UNCHANGED <<sockets, writer, conn>>
    BY DEF PageSends, PageReads, PageRenders, PageSeesClose, PageLeaves, hub
  <1>2. \/ UNCHANGED tab
        \/ /\ tab[p] # "none"
           /\ \/ tab' = [tab EXCEPT ![p] = "closed"]
              \/ tab' = [tab EXCEPT ![p] = "gone"]
    BY DEF PageSends, PageReads, PageRenders, PageSeesClose, PageLeaves, page
  <1>3. \A q \in Pages : tab'[q] = tab[q] \/ "none" \notin {tab[q], tab'[q]}
    BY <1>2 DEF LeaseInv, TypeOK
  <1> QED BY <1>1, <1>3, SameSocketsHeld

LEMMA NextLease ==
    ASSUME LeaseInv, HubAssumption, [Next]_vars
    PROVE  LeaseInv'
  <1>1. CASE UNCHANGED vars
    <2>1. UNCHANGED <<sockets, writer, conn, tab>>
      BY <1>1 DEF vars, hub, page
    <2>2. Held'
      BY <2>1, SameSocketsHeld
    <2>3. TypeOK'
      BY <1>1 DEF LeaseInv, TypeOK, vars, terminal, hub, page
    <2> QED BY <2>2, <2>3 DEF LeaseInv
  <1>2. ASSUME NEW p \in Pages, Attach(p) \/ HubReads(p) \/ Detach(p)
        PROVE  LeaseInv'
    BY <1>2, AttachType, HubReadsType, DetachType, AttachHeld, HubReadsHeld,
       DetachHeld DEF LeaseInv, Held
  <1>3. ASSUME NEW p \in Pages,
               \/ \E request \in {"acquire", "input"} : PageSends(p, request)
               \/ PageReads(p) \/ PageRenders(p) \/ PageSeesClose(p)
               \/ PageLeaves(p)
        PROVE  LeaseInv'
    BY <1>3, PageReadsType, PageType, PageHeld DEF LeaseInv
  <1>4. CASE Output \/ Exit \/ CloseSession \/ Evict
    BY <1>4, TerminalType, TerminalHeld DEF LeaseInv
  <1> QED BY <1>1, <1>2, <1>3, <1>4 DEF Next

LEMMA LeaseInvariant == Spec => []LeaseInv
  <1>1. Init => LeaseInv
    BY InitHeld, HubAssumption
  <1>2. LeaseInv /\ [Next]_vars => LeaseInv'
    BY NextLease, HubAssumption
  <1> QED BY <1>1, <1>2, PTL DEF Spec

\* A list without repetitions has as many elements as places.
LEMMA InjectiveLength ==
    ASSUME NEW S, NEW seq \in Seq(S), IsInjective(seq)
    PROVE  Cardinality(Range(seq)) = Len(seq)
  <1>1. Len(seq) \in Nat /\ DOMAIN seq = 1..Len(seq) /\ seq \in [1..Len(seq) -> S]
    BY LenProperties
  <1>2. IsFiniteSet(1..Len(seq)) /\ Cardinality(1..Len(seq)) = Len(seq)
    BY <1>1, FS_Interval
  <1>3. seq \in Bijection(1..Len(seq), Range(seq))
    BY <1>1 DEF Bijection, Injection, Surjection, Range, IsInjective
  <1>4. ExistsBijection(1..Len(seq), Range(seq))
    BY <1>3 DEF ExistsBijection
  <1> QED BY <1>2, <1>4, FS_Bijection

\* terminal-websocket.ts:100: the lease is never lost and never left with a
\* socket that is gone, and the list of sockets says who is attached.
THEOREM LeaseHeld == Spec => []LeaseIsHeld
  <1>1. LeaseInv => LeaseIsHeld
    <2>1. ASSUME LeaseInv
          PROVE  LeaseIsHeld
      <3>1. Cardinality(Attached) = Len(sockets)
        BY <2>1, InjectiveLength DEF LeaseInv, Held, TypeOK, Attached
      <3> QED BY <2>1, <3>1 DEF LeaseInv, Held, LeaseIsHeld
    <2> QED BY <2>1
  <1> QED BY <1>1, LeaseInvariant, PTL

-----------------------------------------------------------------------------
(* The output on its way to a page, as one sequence.                       *)

\* t has some of the writes of s, in their order: h[j] is the place in s of
\* the write at j in t, and from the first one in t to the last one in t
\* none of s is left out.
Keeps(t, s, h) ==
    /\ h \in [Writes(t) -> Writes(s)]
    /\ \A i, j \in Writes(t) : i < j => h[i] < h[j]
    /\ \A i \in Writes(t) :
          t[i].start = s[h[i]].start /\ t[i].end = s[h[i]].end
    /\ \A i, j \in Writes(t), k \in Writes(s) : h[i] <= k /\ k <= h[j] =>
          \E m \in Writes(t) : h[m] = k

LEMMA WritesAre == \A s : Writes(s) \subseteq Int
  BY DEF Writes

LEMMA KeepsContiguous ==
    ASSUME NEW s, NEW t, NEW h, Keeps(t, s, h), IsContiguous(s)
    PROVE  IsContiguous(t)
  <1> SUFFICES ASSUME NEW i \in Writes(t), NEW j \in Writes(t), i < j,
                      \A k \in Writes(t) : k <= i \/ k >= j
               PROVE  t[i].end = t[j].start
    BY DEF IsContiguous
  <1>1. /\ h[i] \in Writes(s) /\ h[j] \in Writes(s) /\ h[i] < h[j]
        /\ t[i].end = s[h[i]].end /\ t[j].start = s[h[j]].start
    BY DEF Keeps
  <1>2. ASSUME NEW k \in Writes(s)
        PROVE  k <= h[i] \/ k >= h[j]
    <2>1. SUFFICES ASSUME h[i] < k, k < h[j]
                   PROVE  FALSE
      BY <1>1, WritesAre
    <2>2. PICK m \in Writes(t) : h[m] = k
      BY <2>1, <1>1, WritesAre DEF Keeps
    <2>3. i < m /\ m < j
      BY <2>1, <2>2, <1>1, WritesAre DEF Keeps
    <2> QED BY <2>3, WritesAre
  <1> QED BY <1>1, <1>2 DEF IsContiguous

LEMMA KeepsBegin ==
    ASSUME NEW s, NEW t, NEW h, NEW x, Keeps(t, s, h), BeginsAt(s, x),
           \A i \in Writes(t), k \in Writes(s) : k < h[i] =>
              \E m \in Writes(t) : h[m] = k
    PROVE  BeginsAt(t, x)
  <1> SUFFICES ASSUME NEW i \in Writes(t), \A k \in Writes(t) : k >= i
               PROVE  t[i].start = x
    BY DEF BeginsAt
  <1>1. h[i] \in Writes(s) /\ t[i].start = s[h[i]].start
    BY DEF Keeps
  <1>2. ASSUME NEW k \in Writes(s)
        PROVE  k >= h[i]
    <2>1. SUFFICES ASSUME k < h[i]
                   PROVE  FALSE
      BY <1>1, WritesAre
    <2>2. PICK m \in Writes(t) : h[m] = k
      BY <2>1
    <2>3. m = i \/ i < m
      BY WritesAre
    <2>4. h[i] <= h[m]
      BY <2>3, <1>1, WritesAre DEF Keeps
    <2> QED BY <2>1, <2>2, <2>4, <1>1, WritesAre
  <1> QED BY <1>1, <1>2 DEF BeginsAt

LEMMA KeepsEnd ==
    ASSUME NEW s, NEW t, NEW h, NEW x, Keeps(t, s, h), EndsAt(s, x),
           \A i \in Writes(t), k \in Writes(s) : h[i] < k =>
              \E m \in Writes(t) : h[m] = k
    PROVE  EndsAt(t, x)
  <1> SUFFICES ASSUME NEW i \in Writes(t), \A k \in Writes(t) : k <= i
               PROVE  t[i].end = x
    BY DEF EndsAt
  <1>1. h[i] \in Writes(s) /\ t[i].end = s[h[i]].end
    BY DEF Keeps
  <1>2. ASSUME NEW k \in Writes(s)
        PROVE  k <= h[i]
    <2>1. SUFFICES ASSUME h[i] < k
                   PROVE  FALSE
      BY <1>1, WritesAre
    <2>2. PICK m \in Writes(t) : h[m] = k
      BY <2>1
    <2>3. m = i \/ m < i
      BY WritesAre
    <2>4. h[m] <= h[i]
      BY <2>3, <1>1, WritesAre DEF Keeps
    <2> QED BY <2>1, <2>2, <2>4, <1>1, WritesAre
  <1> QED BY <1>1, <1>2 DEF EndsAt

\* One message more at the end, which is no output.
LEMMA AppendQuiet ==
    ASSUME NEW s \in Seq(Message), NEW m \in Message,
           m.type \notin {"ready", "output"}
    PROVE  /\ Writes(Append(s, m)) = Writes(s)
           /\ IsContiguous(s) => IsContiguous(Append(s, m))
           /\ \A x : BeginsAt(s, x) => BeginsAt(Append(s, m), x)
           /\ \A x : EndsAt(s, x) => EndsAt(Append(s, m), x)
  <1> DEFINE t == Append(s, m)
  <1>1. /\ Len(t) = Len(s) + 1 /\ Len(s) \in Nat /\ t[Len(s) + 1] = m
        /\ \A i \in 1..Len(s) : t[i] = s[i]
    BY AppendProperties, LenProperties
  <1> HIDE DEF t
  <1>2. Writes(t) = Writes(s) /\ \A i \in Writes(t) : t[i] = s[i]
    BY <1>1 DEF Writes
  <1>3. IsContiguous(s) => IsContiguous(t)
    BY <1>2 DEF IsContiguous
  <1>4. \A x : BeginsAt(s, x) => BeginsAt(t, x)
    BY <1>2 DEF BeginsAt
  <1>5. \A x : EndsAt(s, x) => EndsAt(t, x)
    BY <1>2 DEF EndsAt
  <1> QED BY <1>2, <1>3, <1>4, <1>5 DEF t

\* One piece of output more at the end.
LEMMA AppendWrite ==
    ASSUME NEW s \in Seq(Message), NEW m \in Message,
           m.type \in {"ready", "output"}
    PROVE  /\ Writes(Append(s, m)) # {}
           /\ IsContiguous(s) /\ EndsAt(s, m.start) => IsContiguous(Append(s, m))
           /\ EndsAt(Append(s, m), m.end)
           /\ \A x : BeginsAt(s, x) /\ (Writes(s) = {} => m.start = x)
                        => BeginsAt(Append(s, m), x)
  <1> DEFINE t == Append(s, m)
             n == Len(s) + 1
  <1>1. /\ Len(t) = n /\ Len(s) \in Nat /\ t[n] = m
        /\ \A i \in 1..Len(s) : t[i] = s[i]
    BY AppendProperties, LenProperties
  <1> HIDE DEF t
  <1>2. /\ Writes(t) = Writes(s) \cup {n}
        /\ \A i \in Writes(s) : i \in Int /\ i < n /\ t[i] = s[i]
    BY <1>1 DEF Writes
  <1>3. n \in Int
    BY <1>1
  <1> HIDE DEF n
  <1>4. ASSUME IsContiguous(s), EndsAt(s, m.start)
        PROVE  IsContiguous(t)
    <2> SUFFICES ASSUME NEW i \in Writes(t), NEW j \in Writes(t), i < j,
                        \A k \in Writes(t) : k <= i \/ k >= j
                 PROVE  t[i].end = t[j].start
      BY DEF IsContiguous
    <2>1. i \in Writes(s)
      BY <1>2, <1>3
    <2>2. CASE j = n
      <3>1. \A k \in Writes(s) : k <= i
        BY <2>1, <2>2, <1>2, <1>3
      <3> QED BY <3>1, <2>1, <2>2, <1>1, <1>2, <1>4 DEF EndsAt
    <2>3. CASE j \in Writes(s)
      BY <2>1, <2>3, <1>2, <1>4 DEF IsContiguous
    <2> QED BY <2>2, <2>3, <1>2
  <1>5. EndsAt(t, m.end)
    <2> SUFFICES ASSUME NEW i \in Writes(t), \A k \in Writes(t) : k <= i
                 PROVE  t[i].end = m.end
      BY DEF EndsAt
    <2>1. i = n
      BY <1>2, <1>3
    <2> QED BY <2>1, <1>1
  <1>6. ASSUME NEW x, BeginsAt(s, x), Writes(s) = {} => m.start = x
        PROVE  BeginsAt(t, x)
    <2> SUFFICES ASSUME NEW i \in Writes(t), \A k \in Writes(t) : k >= i
                 PROVE  t[i].start = x
      BY DEF BeginsAt
    <2>1. CASE Writes(s) = {}
      BY <2>1, <1>1, <1>2, <1>6
    <2>2. CASE Writes(s) # {}
      <3>1. i \in Writes(s)
        BY <2>2, <1>2, <1>3
      <3> QED BY <3>1, <1>2, <1>6 DEF BeginsAt
    <2> QED BY <2>1, <2>2
  <1> QED BY <1>2, <1>4, <1>5, <1>6 DEF t

\* The first write is taken out: the next begins where it ended.
LEMMA TailWrite ==
    ASSUME NEW s \in Seq(Message), s # << >>, s[1].type \in {"ready", "output"},
           IsContiguous(s)
    PROVE  /\ IsContiguous(Tail(s)) /\ BeginsAt(Tail(s), s[1].end)
           /\ \A x : EndsAt(s, x) => EndsAt(Tail(s), x)
           /\ \A x : EndsAt(s, x) /\ Writes(Tail(s)) = {} => s[1].end = x
  <1> DEFINE t == Tail(s)
             h == [i \in Writes(t) |-> i + 1]
  <1>1. /\ Len(t) = Len(s) - 1 /\ Len(s) \in Nat /\ Len(s) > 0
        /\ \A i \in 1..Len(t) : t[i] = s[i + 1]
    BY HeadTailProperties, LenProperties, EmptySeq
  <1> HIDE DEF t
  <1>2. 1 \in Writes(s) /\ \A k \in Writes(s) : k \in Int /\ k >= 1
    BY <1>1 DEF Writes
  <1>3. /\ \A i \in Writes(t) : i \in Int /\ i + 1 \in Writes(s) /\ t[i] = s[i + 1]
        /\ \A k \in Writes(s) : k > 1 => k - 1 \in Writes(t)
    BY <1>1 DEF Writes
  <1>4. h \in [Writes(t) -> Writes(s)] /\ \A i \in Writes(t) : h[i] = i + 1
    BY <1>3
  <1> HIDE DEF h
  <1>5. \A k \in Writes(s) : k > 1 => \E m \in Writes(t) : h[m] = k
    <2> SUFFICES ASSUME NEW k \in Writes(s), k > 1
                 PROVE  \E m \in Writes(t) : h[m] = k
      OBVIOUS
    <2>1. k - 1 \in Writes(t) /\ h[k - 1] = k
      BY <1>2, <1>3, <1>4
    <2> QED BY <2>1
  <1>6. \A i \in Writes(t) : h[i] > 1
    <2>1. \A i \in Writes(t) : i >= 1
      BY <1>1 DEF Writes
    <2> QED BY <2>1, <1>3, <1>4
  <1>7. Keeps(t, s, h)
    <2>1. \A i, j \in Writes(t) : i < j => h[i] < h[j]
      BY <1>3, <1>4
    <2>2. \A i, j \in Writes(t), k \in Writes(s) : h[i] <= k /\ k <= h[j] =>
             \E m \in Writes(t) : h[m] = k
      BY <1>2, <1>3, <1>4, <1>5, <1>6
    <2>3. \A i \in Writes(t) : t[i].start = s[h[i]].start /\ t[i].end = s[h[i]].end
      BY <1>3, <1>4
    <2> QED BY <2>1, <2>2, <2>3, <1>4 DEF Keeps
  <1>8. IsContiguous(t)
    BY <1>7, KeepsContiguous
  <1>9. BeginsAt(t, s[1].end)
    <2> SUFFICES ASSUME NEW j \in Writes(t), \A k \in Writes(t) : k >= j
                 PROVE  t[j].start = s[1].end
      BY DEF BeginsAt
    <2>1. j + 1 \in Writes(s) /\ 1 < j + 1 /\ t[j] = s[j + 1]
      BY <1>3, <1>4, <1>6
    <2>2. \A k \in Writes(s) : k <= 1 \/ k >= j + 1
      BY <1>2, <1>3
    <2> QED BY <2>1, <2>2, <1>2 DEF IsContiguous
  <1>10. ASSUME NEW x, EndsAt(s, x)
         PROVE  EndsAt(t, x)
    <2>1. \A i \in Writes(t), k \in Writes(s) : h[i] < k =>
             \E m \in Writes(t) : h[m] = k
      <3>1. \A i \in Writes(t) : h[i] \in Int /\ h[i] > 1
        BY <1>3, <1>4, <1>6
      <3>2. \A i \in Writes(t), k \in Writes(s) : h[i] < k => k > 1
        BY <1>2, <3>1
      <3> QED BY <1>5, <3>2
    <2> QED BY <2>1, <1>7, <1>10, KeepsEnd
  <1>11. ASSUME NEW x, EndsAt(s, x), Writes(t) = {}
         PROVE  s[1].end = x
    <2>1. \A k \in Writes(s) : k <= 1
      BY <1>2, <1>3, <1>11
    <2> QED BY <2>1, <1>2, <1>11 DEF EndsAt
  <1> QED BY <1>8, <1>9, <1>10, <1>11 DEF t

\* A message that is no output is taken out, wherever it is.
LEMMA RemoveQuiet ==
    ASSUME NEW s \in Seq(Message), NEW t \in Seq(Message), NEW n \in 1..Len(s),
           s[n].type \notin {"ready", "output"}, Len(t) = Len(s) - 1,
           \A i \in 1..Len(t) : t[i] = IF i < n THEN s[i] ELSE s[i + 1]
    PROVE  /\ Writes(t) = {} => Writes(s) = {}
           /\ IsContiguous(s) => IsContiguous(t)
           /\ \A x : BeginsAt(s, x) => BeginsAt(t, x)
           /\ \A x : EndsAt(s, x) => EndsAt(t, x)
  <1> DEFINE h == [i \in Writes(t) |-> IF i < n THEN i ELSE i + 1]
  <1>1. Len(s) \in Nat /\ n \notin Writes(s)
    BY LenProperties DEF Writes
  <1>2. \A i \in Writes(t) : /\ i \in Int
                             /\ i < n => i \in Writes(s) /\ t[i] = s[i]
                             /\ i >= n => i + 1 \in Writes(s) /\ t[i] = s[i + 1]
    BY <1>1 DEF Writes
  <1>3. \A k \in Writes(s) : /\ k \in Int
                             /\ k < n => k \in Writes(t)
                             /\ k > n => k - 1 \in Writes(t)
    BY <1>1 DEF Writes
  <1>4. /\ h \in [Writes(t) -> Writes(s)]
        /\ \A i \in Writes(t) : h[i] = IF i < n THEN i ELSE i + 1
    BY <1>2
  <1> HIDE DEF h
  <1>5. \A k \in Writes(s) : \E m \in Writes(t) : h[m] = k
    <2> SUFFICES ASSUME NEW k \in Writes(s)
                 PROVE  \E m \in Writes(t) : h[m] = k
      OBVIOUS
    <2>1. CASE k < n
      BY <2>1, <1>3, <1>4
    <2>2. CASE k > n
      <3>1. k - 1 \in Writes(t) /\ h[k - 1] = k
        BY <2>2, <1>3, <1>4
      <3> QED BY <3>1
    <2> QED BY <2>1, <2>2, <1>1, <1>3
  <1>6. Keeps(t, s, h)
    <2>1. \A i, j \in Writes(t) : i < j => h[i] < h[j]
      BY <1>2, <1>4
    <2>2. \A i \in Writes(t) : t[i].start = s[h[i]].start /\ t[i].end = s[h[i]].end
      BY <1>2, <1>4
    <2> QED BY <2>1, <2>2, <1>4, <1>5 DEF Keeps
  <1>7. Writes(t) = {} => Writes(s) = {}
    BY <1>5
  <1>8. IsContiguous(s) => IsContiguous(t)
    BY <1>6, KeepsContiguous
  <1>9. \A x : BeginsAt(s, x) => BeginsAt(t, x)
    BY <1>5, <1>6, KeepsBegin
  <1>10. \A x : EndsAt(s, x) => EndsAt(t, x)
    BY <1>5, <1>6, KeepsEnd
  <1> QED BY <1>7, <1>8, <1>9, <1>10

\* Only what comes first is left.
LEMMA Prefix ==
    ASSUME NEW s \in Seq(Message), NEW t \in Seq(Message), IsContiguous(s \o t)
    PROVE  /\ IsContiguous(s)
           /\ \A x : BeginsAt(s \o t, x) => BeginsAt(s, x)
  <1> DEFINE all == s \o t
             h == [i \in Writes(s) |-> i]
  <1>1. /\ Len(all) = Len(s) + Len(t) /\ Len(s) \in Nat /\ Len(t) \in Nat
        /\ \A i \in 1..Len(s) : all[i] = s[i]
    BY ConcatProperties, LenProperties
  <1> HIDE DEF all
  <1>2. /\ \A i \in Writes(s) : i \in Int /\ i \in Writes(all) /\ all[i] = s[i]
        /\ \A k \in Writes(all), i \in Writes(s) : k <= i => k \in Writes(s)
    BY <1>1 DEF Writes
  <1>3. h \in [Writes(s) -> Writes(all)] /\ \A i \in Writes(s) : h[i] = i
    BY <1>2
  <1> HIDE DEF h
  <1>4. Keeps(s, all, h)
    BY <1>2, <1>3 DEF Keeps
  <1>5. \A i \in Writes(s), k \in Writes(all) : k < h[i] =>
           \E m \in Writes(s) : h[m] = k
    BY <1>2, <1>3, WritesAre
  <1>6. IsContiguous(s)
    BY <1>4, KeepsContiguous DEF all
  <1>7. \A x : BeginsAt(all, x) => BeginsAt(s, x)
    BY <1>4, <1>5, KeepsBegin
  <1> QED BY <1>6, <1>7 DEF all

\* Only what comes last is left.
LEMMA Suffix ==
    ASSUME NEW s \in Seq(Message), NEW t \in Seq(Message), IsContiguous(s \o t)
    PROVE  /\ IsContiguous(t)
           /\ \A x : EndsAt(s \o t, x) => EndsAt(t, x)
  <1> DEFINE all == s \o t
             n == Len(s)
             h == [i \in Writes(t) |-> i + n]
  <1>1. /\ Len(all) = n + Len(t) /\ n \in Nat /\ Len(t) \in Nat
        /\ \A i \in 1..Len(t) : all[i + n] = t[i]
    <2>1. /\ Len(all) = n + Len(t) /\ n \in Nat /\ Len(t) \in Nat
          /\ \A i \in 1..(n + Len(t)) : all[i] =
                IF i <= n THEN s[i] ELSE t[i - n]
      BY ConcatProperties, LenProperties
    <2> HIDE DEF all, n
    <2>2. ASSUME NEW i \in 1..Len(t)
          PROVE  all[i + n] = t[i]
      <3>1. i + n \in 1..(n + Len(t)) /\ ~(i + n <= n) /\ (i + n) - n = i
        BY <2>1
      <3> QED BY <3>1, <2>1
    <2> QED BY <2>1, <2>2
  <1> HIDE DEF all, n
  <1>2. /\ \A i \in Writes(t) : i \in Int /\ i > 0 /\ i + n \in Writes(all)
                                /\ all[i + n] = t[i]
        /\ \A k \in Writes(all) : k > n => k - n \in Writes(t)
    <2>1. ASSUME NEW k \in Writes(all), k > n
          PROVE  k - n \in Writes(t)
      <3>1. k - n \in 1..Len(t) /\ (k - n) + n = k
        BY <2>1, <1>1 DEF Writes
      <3>2. all[k] = t[k - n]
        BY <3>1, <1>1
      <3> QED BY <3>1, <3>2 DEF Writes
    <2> QED BY <1>1, <2>1 DEF Writes
  <1>3. h \in [Writes(t) -> Writes(all)] /\ \A i \in Writes(t) : h[i] = i + n
    BY <1>2
  <1> HIDE DEF h
  <1>4. \A k \in Writes(all) : k > n => \E m \in Writes(t) : h[m] = k
    <2> SUFFICES ASSUME NEW k \in Writes(all), k > n
                 PROVE  \E m \in Writes(t) : h[m] = k
      OBVIOUS
    <2>1. k - n \in Writes(t) /\ h[k - n] = k
      BY <1>1, <1>2, <1>3, WritesAre
    <2> QED BY <2>1
  <1>5. \A i \in Writes(t), k \in Writes(all) : h[i] <= k =>
           \E m \in Writes(t) : h[m] = k
    BY <1>1, <1>2, <1>3, <1>4, WritesAre
  <1>6. Keeps(t, all, h)
    <2>1. \A i, j \in Writes(t) : i < j => h[i] < h[j]
      BY <1>1, <1>2, <1>3
    <2>2. \A i \in Writes(t) :
             t[i].start = all[h[i]].start /\ t[i].end = all[h[i]].end
      BY <1>2, <1>3
    <2> QED BY <2>1, <2>2, <1>3, <1>5 DEF Keeps
  <1>7. IsContiguous(t)
    BY <1>6, KeepsContiguous DEF all
  <1>8. ASSUME NEW x, EndsAt(all, x)
        PROVE  EndsAt(t, x)
    <2>1. \A i \in Writes(t), k \in Writes(all) : h[i] < k =>
             \E m \in Writes(t) : h[m] = k
      BY <1>1, <1>2, <1>3, <1>5, WritesAre
    <2> QED BY <2>1, <1>6, <1>8, KeepsEnd
  <1> QED BY <1>7, <1>8 DEF all

\* How the sequence changes when its parts do.
LEMMA ConcatAppend ==
    ASSUME NEW q \in Seq(Message), NEW s \in Seq(Message), NEW m \in Message
    PROVE  /\ q \o s \in Seq(Message)
           /\ q \o Append(s, m) = Append(q \o s, m)
  <1>1. <<m>> \in Seq(Message)
    OBVIOUS
  <1>2. q \o s \in Seq(Message)
    BY ConcatProperties
  <1>3. Append(s, m) = s \o <<m>> /\ Append(q \o s, m) = (q \o s) \o <<m>>
    BY <1>2, AppendIsConcat
  <1>4. (q \o s) \o <<m>> = q \o (s \o <<m>>)
    BY <1>1, ConcatAssociative
  <1> QED BY <1>2, <1>3, <1>4

LEMMA ConcatMove ==
    ASSUME NEW q \in Seq(Message), NEW s \in Seq(Message), s # << >>
    PROVE  Append(q, Head(s)) \o Tail(s) = q \o s
  <1> DEFINE m == Head(s)
  <1>1. /\ m \in Message /\ Tail(s) \in Seq(Message) /\ Len(Tail(s)) = Len(s) - 1
        /\ \A i \in 1..Len(Tail(s)) : Tail(s)[i] = s[i + 1]
    BY HeadTailProperties
  <1>2. m = s[1] /\ Len(s) \in Nat /\ Len(s) > 0
    BY EmptySeq
  <1> HIDE DEF m
  <1>3. <<m>> \in Seq(Message) /\ Len(<<m>>) = 1 /\ <<m>>[1] = m
    BY <1>1
  <1>4. /\ <<m>> \o Tail(s) \in Seq(Message)
        /\ Len(<<m>> \o Tail(s)) = Len(s)
        /\ \A i \in 1..Len(s) : (<<m>> \o Tail(s))[i] =
              IF i <= 1 THEN <<m>>[i] ELSE Tail(s)[i - 1]
    BY <1>1, <1>2, <1>3, ConcatProperties
  <1>5. \A i \in 1..Len(s) : (<<m>> \o Tail(s))[i] = s[i]
    <2> SUFFICES ASSUME NEW i \in 1..Len(s)
                 PROVE  (<<m>> \o Tail(s))[i] = s[i]
      OBVIOUS
    <2>1. CASE i = 1
      BY <2>1, <1>2, <1>3, <1>4
    <2>2. CASE i > 1
      <3>1. i - 1 \in 1..Len(Tail(s)) /\ (i - 1) + 1 = i
        BY <2>2, <1>1, <1>2
      <3>2. Tail(s)[i - 1] = s[i]
        BY <3>1, <1>1
      <3> QED BY <2>2, <3>2, <1>4
    <2> QED BY <2>1, <2>2, <1>2
  <1>6. <<m>> \o Tail(s) = s
    BY <1>4, <1>5, SeqEqual
  <1>7. Append(q, m) = q \o <<m>>
    BY <1>1, AppendIsConcat
  <1>8. (q \o <<m>>) \o Tail(s) = q \o (<<m>> \o Tail(s))
    BY <1>1, <1>3, ConcatAssociative
  <1> QED BY <1>6, <1>7, <1>8 DEF m

\* A message that is no output is read: the rest as RemoveQuiet has it.
LEMMA ConcatTail ==
    ASSUME NEW q \in Seq(Message), NEW s \in Seq(Message), s # << >>
    PROVE  /\ q \o Tail(s) \in Seq(Message)
           /\ Len(q) + 1 \in 1..Len(q \o s)
           /\ (q \o s)[Len(q) + 1] = Head(s)
           /\ Len(q \o Tail(s)) = Len(q \o s) - 1
           /\ \A i \in 1..Len(q \o Tail(s)) : (q \o Tail(s))[i] =
                 IF i < Len(q) + 1 THEN (q \o s)[i] ELSE (q \o s)[i + 1]
  <1> DEFINE n == Len(q)
             r == Tail(s)
             a == q \o s
             b == q \o r
  <1>1. /\ r \in Seq(Message) /\ Len(r) = Len(s) - 1
        /\ \A i \in 1..Len(r) : r[i] = s[i + 1]
    BY HeadTailProperties
  <1>2. Head(s) = s[1] /\ Len(s) \in Nat /\ Len(s) > 0 /\ n \in Nat
    BY EmptySeq
  <1> HIDE DEF r
  <1>3. /\ a \in Seq(Message) /\ Len(a) = n + Len(s)
        /\ \A i \in 1..(n + Len(s)) : a[i] = IF i <= n THEN q[i] ELSE s[i - n]
    BY ConcatProperties
  <1>4. /\ b \in Seq(Message) /\ Len(b) = n + Len(r)
        /\ \A i \in 1..(n + Len(r)) : b[i] = IF i <= n THEN q[i] ELSE r[i - n]
    BY <1>1, ConcatProperties
  <1> HIDE DEF n, a, b
  <1>5. n + 1 \in 1..Len(a) /\ a[n + 1] = Head(s)
    <2>1. n + 1 \in 1..(n + Len(s)) /\ ~(n + 1 <= n) /\ (n + 1) - n = 1
      BY <1>2
    <2> QED BY <2>1, <1>2, <1>3
  <1>6. Len(b) = Len(a) - 1
    BY <1>1, <1>2, <1>3, <1>4
  <1>7. ASSUME NEW i \in 1..Len(b)
        PROVE  b[i] = IF i < n + 1 THEN a[i] ELSE a[i + 1]
    <2>1. CASE i < n + 1
      <3>1. i <= n /\ i \in 1..(n + Len(r)) /\ i \in 1..(n + Len(s))
        BY <2>1, <1>1, <1>2, <1>4
      <3>2. b[i] = q[i] /\ a[i] = q[i]
        BY <3>1, <1>3, <1>4
      <3> QED BY <2>1, <3>2
    <2>2. CASE i >= n + 1
      <3>1. /\ i - n \in 1..Len(r) /\ ~(i <= n) /\ i \in 1..(n + Len(r))
            /\ i + 1 \in 1..(n + Len(s)) /\ ~(i + 1 <= n)
            /\ (i + 1) - n = (i - n) + 1 /\ ~(i < n + 1)
        BY <2>2, <1>1, <1>2, <1>4
      <3>2. b[i] = r[i - n] /\ a[i + 1] = s[(i + 1) - n]
        BY <3>1, <1>3, <1>4
      <3>3. r[i - n] = s[(i - n) + 1]
        BY <3>1, <1>1
      <3> QED BY <3>1, <3>2, <3>3
    <2> QED BY <2>1, <2>2, <1>2, <1>4, <1>1
  <1> QED BY <1>4, <1>5, <1>6, <1>7 DEF n, a, b, r

\* A write is rendered.
LEMMA TailConcat ==
    ASSUME NEW q \in Seq(Message), NEW s \in Seq(Message), q # << >>
    PROVE  /\ q \o s # << >> /\ (q \o s)[1] = Head(q)
           /\ Tail(q \o s) = Tail(q) \o s
  <1> DEFINE a == q \o s
             r == Tail(q)
             b == r \o s
  <1>1. /\ r \in Seq(Message) /\ Len(r) = Len(q) - 1
        /\ \A i \in 1..Len(r) : r[i] = q[i + 1]
    BY HeadTailProperties
  <1>2. Head(q) = q[1] /\ Len(q) \in Nat /\ Len(q) > 0 /\ Len(s) \in Nat
    BY EmptySeq
  <1> HIDE DEF r
  <1>3. /\ a \in Seq(Message) /\ Len(a) = Len(q) + Len(s)
        /\ \A i \in 1..(Len(q) + Len(s)) : a[i] =
              IF i <= Len(q) THEN q[i] ELSE s[i - Len(q)]
    BY ConcatProperties
  <1>4. /\ b \in Seq(Message) /\ Len(b) = Len(r) + Len(s)
        /\ \A i \in 1..(Len(r) + Len(s)) : b[i] =
              IF i <= Len(r) THEN r[i] ELSE s[i - Len(r)]
    BY <1>1, ConcatProperties
  <1> HIDE DEF a, b
  <1>5. a # << >> /\ a[1] = Head(q)
    <2>1. Len(a) > 0
      BY <1>2, <1>3
    <2> QED BY <2>1, <1>2, <1>3, EmptySeq
  <1>6. /\ Tail(a) \in Seq(Message) /\ Len(Tail(a)) = Len(a) - 1
        /\ \A i \in 1..Len(Tail(a)) : Tail(a)[i] = a[i + 1]
    BY <1>3, <1>5, HeadTailProperties
  <1>7. Len(Tail(a)) = Len(b)
    BY <1>1, <1>2, <1>3, <1>4, <1>6
  <1>8. ASSUME NEW i \in 1..Len(b)
        PROVE  Tail(a)[i] = b[i]
    <2>1. /\ i \in Int /\ 1 <= i /\ i <= Len(r) + Len(s)
          /\ Len(r) = Len(q) - 1 /\ Tail(a)[i] = a[i + 1]
      BY <1>1, <1>2, <1>4, <1>6, <1>7
    <2>2. i + 1 \in 1..(Len(q) + Len(s))
      BY <2>1, <1>2
    <2>3. CASE i <= Len(r)
      <3>1. b[i] = r[i] /\ r[i] = q[i + 1]
        BY <2>1, <2>3, <1>1, <1>4
      <3>2. a[i + 1] = q[i + 1]
        BY <2>1, <2>2, <2>3, <1>2, <1>3
      <3> QED BY <2>1, <3>1, <3>2
    <2>4. CASE i > Len(r)
      <3>1. b[i] = s[i - Len(r)]
        BY <2>1, <2>4, <1>1, <1>2, <1>4
      <3>2. ~(i + 1 <= Len(q)) /\ (i + 1) - Len(q) = i - Len(r)
        BY <2>1, <2>4, <1>2
      <3>3. a[i + 1] = s[(i + 1) - Len(q)]
        BY <2>2, <3>2, <1>3
      <3> QED BY <2>1, <3>1, <3>2, <3>3
    <2>5. Len(r) \in Int
      BY <2>1, <1>2
    <2>6. i <= Len(r) \/ i > Len(r)
      BY <2>1, <2>5
    <2> QED BY <2>3, <2>4, <2>6
  <1>9. Tail(a) = b
    BY <1>4, <1>6, <1>7, <1>8, SeqEqual
  <1> QED BY <1>5, <1>9 DEF a, b, r

-----------------------------------------------------------------------------
(* The output reaches the page without a gap.                              *)

\* The inductive invariant: the output that was rendered, that xterm has, and
\* that is on its way are one piece up to what the terminal has produced. The
\* ready message comes first, and without a screen.
Gap(p) ==
    /\ tab[p] = "none" => toPage[p] = << >> /\ queue[p] = << >>
    /\ tab[p] \in {"none", "gone"} => screen[p] = None
    /\ tab[p] = "closed" => conn[p] # "open"
    /\ \A i \in 1..Len(toPage[p]) : toPage[p][i].type = "ready" =>
          i = 1 /\ queue[p] = << >> /\ screen[p] = None
    /\ IsContiguous(Stream(p))
    /\ screen[p] # None => BeginsAt(Stream(p), screen[p])
    /\ conn[p] = "open" => EndsAt(Stream(p), produced)
    /\ conn[p] = "open" /\ tab[p] = "open" /\ Writes(Stream(p)) = {} =>
          screen[p] = produced

GapInv == \A p \in Pages : Gap(p)

LEMMA StreamType ==
    ASSUME TypeOK, NEW p \in Pages
    PROVE  /\ toPage[p] \in Seq(Message) /\ queue[p] \in Seq(Message)
           /\ Stream(p) \in Seq(Message)
  <1>1. toPage[p] \in Seq(Message) /\ queue[p] \in Seq(Written)
    BY DEF TypeOK
  <1>2. Written \subseteq Message
    BY DEF Message
  <1>3. queue[p] \in Seq(Message)
    BY <1>1, <1>2, SeqMonotonic
  <1> QED BY <1>1, <1>3, ConcatProperties DEF Stream

LEMMA InitGap ==
    ASSUME Init
    PROVE  GapInv
  <1> SUFFICES ASSUME NEW p \in Pages
               PROVE  Gap(p)
    BY DEF GapInv
  <1>1. /\ toPage[p] = << >> /\ queue[p] = << >> /\ tab[p] = "none"
        /\ conn[p] = "none" /\ screen[p] = None
    BY DEF Init
  <1>2. << >> \o << >> = << >> /\ Len(<< >>) = 0
    OBVIOUS
  <1>3. Writes(Stream(p)) = {} /\ \A i \in 1..Len(toPage[p]) : FALSE
    BY <1>1, <1>2 DEF Writes, Stream
  <1>4. IsContiguous(Stream(p))
    BY <1>3 DEF IsContiguous
  <1> QED BY <1>1, <1>3, <1>4 DEF Gap

\* What a page has is as it was; its socket may have left "open".
LEMMA SameStreamGap ==
    ASSUME NEW p \in Pages, Gap(p), toPage'[p] = toPage[p], queue'[p] = queue[p],
           screen'[p] = screen[p], tab'[p] = tab[p],
           conn'[p] = "open" => conn[p] = "open" /\ produced' = produced
    PROVE  Gap(p)'
  <1>1. Stream(p)' = Stream(p)
    BY DEF Stream
  <1> QED BY <1>1 DEF Gap

\* A message that is no output comes to a page that is there.
LEMMA QuietMessageGap ==
    ASSUME TypeOK, NEW p \in Pages, Gap(p), tab[p] # "none", NEW m \in Message,
           m.type \notin {"ready", "output"},
           toPage'[p] = Append(toPage[p], m), queue'[p] = queue[p],
           screen'[p] = screen[p], tab'[p] = tab[p], produced' = produced,
           conn'[p] = "open" => conn[p] = "open"
    PROVE  Gap(p)'
  <1> DEFINE s == Stream(p)
             t == Append(s, m)
  <1>1. /\ toPage[p] \in Seq(Message) /\ queue[p] \in Seq(Message)
        /\ s \in Seq(Message)
    BY StreamType
  <1>2. Stream(p)' = t
    <2>1. queue[p] \o Append(toPage[p], m) = Append(queue[p] \o toPage[p], m)
      BY <1>1, ConcatAppend
    <2> QED BY <2>1 DEF Stream
  <1> HIDE DEF s
  <1>3. /\ Writes(t) = Writes(s)
        /\ IsContiguous(s) => IsContiguous(t)
        /\ \A x : BeginsAt(s, x) => BeginsAt(t, x)
        /\ \A x : EndsAt(s, x) => EndsAt(t, x)
    BY <1>1, AppendQuiet
  <1> HIDE DEF t
  <1>4. /\ IsContiguous(s)
        /\ screen[p] # None => BeginsAt(s, screen[p])
        /\ conn[p] = "open" => EndsAt(s, produced)
        /\ conn[p] = "open" /\ tab[p] = "open" /\ Writes(s) = {} =>
              screen[p] = produced
    BY DEF Gap, s
  <1>5. \A i \in 1..Len(toPage'[p]) : toPage'[p][i].type = "ready" =>
           i = 1 /\ queue'[p] = << >> /\ screen'[p] = None
    <2>1. /\ Len(toPage'[p]) = Len(toPage[p]) + 1 /\ Len(toPage[p]) \in Nat
          /\ toPage'[p][Len(toPage[p]) + 1] = m
          /\ \A i \in 1..Len(toPage[p]) : toPage'[p][i] = toPage[p][i]
      BY <1>1, AppendProperties, LenProperties
    <2> QED BY <2>1 DEF Gap
  <1> QED BY <1>2, <1>3, <1>4, <1>5 DEF Gap

\* The hub sends to some pages what is no output.
LEMMA QuietDeliverGap ==
    ASSUME LeaseInv, GapInv, NEW out, DOMAIN out \subseteq Pages,
           \A q \in DOMAIN out : out[q] \in Quiet,
           NEW c \in [Pages -> Conns], Deliver(out, c),
           \A q \in Pages : c[q] = conn[q] \/ c[q] = "detached",
           UNCHANGED <<produced, tab, queue, screen>>
    PROVE  GapInv'
  <1> SUFFICES ASSUME NEW p \in Pages
               PROVE  Gap(p)'
    BY DEF GapInv
  <1>1. Gap(p) /\ TypeOK /\ (conn[p] = "open" => tab[p] # "none")
    BY DEF GapInv, LeaseInv, Held
  <1>2. conn'[p] = "open" => conn[p] = "open"
    BY DeliverConn
  <1>3. CASE toPage'[p] = toPage[p]
    BY <1>1, <1>2, <1>3, SameStreamGap
  <1>4. CASE /\ p \in DOMAIN out /\ c[p] = "open"
             /\ toPage'[p] = Append(toPage[p], out[p])
    <2>1. tab[p] # "none"
      BY <1>1, <1>4
    <2>2. out[p] \in Message /\ out[p].type \notin {"ready", "output"}
      BY <1>4 DEF Quiet
    <2> QED BY <1>1, <1>2, <1>4, <2>1, <2>2, QuietMessageGap
  <1> QED BY <1>3, <1>4, DeliverMessage

LEMMA AttachGap ==
    ASSUME LeaseInv, GapInv, HubAssumption, NEW p \in Pages, Attach(p)
    PROVE  GapInv'
  <1> DEFINE m == [type |-> "ready", running |-> running,
                   start |-> ReplayStart, end |-> produced,
                   writable |-> running /\ writer' = p]
             c == [conn EXCEPT ![p] = "open"]
             out == To(p, m)
  <1>1. /\ tab[p] = "none" /\ tab' = [tab EXCEPT ![p] = "open"]
        /\ UNCHANGED <<queue, screen, produced>> /\ Deliver(out, c)
    BY DEF Attach, terminal
  <1>2. /\ c \in [Pages -> Conns] /\ \A q \in Pages \ {p} : c[q] = conn[q]
        /\ c[p] = "open" /\ DOMAIN out = {p} /\ out[p] = m
    BY DEF LeaseInv, TypeOK, Conns, To
  <1>3. /\ m \in Message /\ m.type \in {"ready", "output"} /\ m.end = produced
    BY WindowIs DEF Message, Written, LeaseInv, TypeOK
  <1> HIDE DEF m, c, out
  <1>4. ASSUME NEW q \in Pages, q # p
        PROVE  Gap(q)'
    <2>1. toPage'[q] = toPage[q]
      BY <1>1, <1>2, <1>4, DeliverMessage
    <2>2. conn'[q] = "open" => conn[q] = "open"
      BY <1>1, <1>2, <1>4, DeliverConn
    <2>3. tab'[q] = tab[q]
      BY <1>1, <1>4 DEF LeaseInv, TypeOK
    <2> QED BY <2>1, <2>2, <2>3, <1>1, SameStreamGap DEF GapInv
  <1>5. Gap(p)'
    <2>1. /\ toPage[p] = << >> /\ queue'[p] = << >> /\ screen'[p] = None
          /\ tab'[p] = "open"
      BY <1>1 DEF GapInv, Gap, LeaseInv, TypeOK
    <2>2. << >> \in Seq(Message) /\ Len(<< >>) = 0
      BY EmptySeq
    <2>3. \/ toPage'[p] = << >> /\ conn'[p] # "open"
          \/ toPage'[p] = Append(<< >>, m)
      BY <1>1, <1>2, <2>1, DeliverMessage
    <2>4. Writes(<< >>) = {}
      BY <2>2 DEF Writes
    <2>5. IsContiguous(<< >>) /\ EndsAt(<< >>, m.start)
      BY <2>4 DEF IsContiguous, EndsAt
    <2>6. Stream(p)' = toPage'[p]
      <3>1. Append(<< >>, m) \in Seq(Message)
        BY <1>3, <2>2, AppendProperties
      <3>2. toPage'[p] \in Seq(Message)
        BY <2>2, <2>3, <3>1
      <3> QED BY <2>1, <3>2, ConcatEmptySeq DEF Stream
    <2>7. CASE toPage'[p] = << >> /\ conn'[p] # "open"
      BY <2>1, <2>2, <2>5, <2>6, <2>7 DEF Gap
    <2>8. CASE toPage'[p] = Append(<< >>, m)
      <3>1. /\ Writes(toPage'[p]) # {} /\ IsContiguous(toPage'[p])
            /\ EndsAt(toPage'[p], produced)
        BY <1>3, <2>2, <2>5, <2>8, AppendWrite
      <3>2. Len(toPage'[p]) = 1
        BY <1>3, <2>2, <2>8, AppendProperties
      <3> QED BY <1>1, <2>1, <2>6, <3>1, <3>2 DEF Gap
    <2> QED BY <2>3, <2>7, <2>8
  <1> QED BY <1>4, <1>5 DEF GapInv

LEMMA QuietActionsGap ==
    ASSUME LeaseInv, GapInv, HubAssumption,
           Exit \/ \E p \in Pages : HubReads(p) \/ Detach(p)
    PROVE  GapInv'
  <1>0. TypeOK /\ conn \in [Pages -> Conns] /\ Attached \subseteq Pages
    BY RangeOfSeq DEF LeaseInv, TypeOK, Conns, Attached
  <1>1. CASE Exit
    <2> DEFINE out == [p \in Attached |-> [type |-> "exit"]]
    <2>1. /\ DOMAIN out \subseteq Pages /\ \A q \in DOMAIN out : out[q] \in Quiet
          /\ Deliver(out, conn) /\ UNCHANGED <<produced, tab, queue, screen>>
      BY <1>0, <1>1, MessagesAre DEF Exit, Publish, page
    <2> HIDE DEF out
    <2> QED BY <1>0, <2>1, QuietDeliverGap
  <1>2. ASSUME NEW p \in Pages, HubReads(p)
        PROVE  GapInv'
    <2>1. PICK out : /\ Deliver(out, conn) /\ DOMAIN out \subseteq Pages
                     /\ \A q \in DOMAIN out : out[q] \in Quiet
      BY <1>0, <1>2, TakeoverDelivers DEF HubReads
    <2>2. UNCHANGED <<produced, tab, queue, screen>>
      BY <1>2 DEF HubReads, terminal, page
    <2> QED BY <1>0, <2>1, <2>2, QuietDeliverGap
  <1>3. ASSUME NEW p \in Pages, Detach(p)
        PROVE  GapInv'
    <2> DEFINE out == IF writer' \in {writer, None} THEN Nothing
                      ELSE To(writer', Writable(TRUE))
               c == [conn EXCEPT ![p] = "detached"]
    <2>1. writer' \in Pages \cup {None}
      BY <1>0, <1>3, DetachType DEF LeaseInv, Held, TypeOK
    <2>2. DOMAIN out \subseteq Pages /\ \A q \in DOMAIN out : out[q] \in Quiet
      BY <2>1, MessagesAre, NothingIs, ToIs
    <2>3. /\ c \in [Pages -> Conns] /\ Deliver(out, c)
          /\ \A q \in Pages : c[q] = conn[q] \/ c[q] = "detached"
      BY <1>0, <1>3 DEF Detach, Conns
    <2>4. UNCHANGED <<produced, tab, queue, screen>>
      BY <1>3 DEF Detach, terminal, page
    <2> HIDE DEF out, c
    <2> QED BY <2>2, <2>3, <2>4, QuietDeliverGap
  <1> QED BY <1>1, <1>2, <1>3

LEMMA OutputGap ==
    ASSUME LeaseInv, GapInv, HubAssumption, Output
    PROVE  GapInv'
  <1> DEFINE m == [type |-> "output", start |-> produced, end |-> produced']
             out == [q \in Attached |-> m]
  <1> SUFFICES ASSUME NEW p \in Pages
               PROVE  Gap(p)'
    BY DEF GapInv
  <1>0. TypeOK /\ conn \in [Pages -> Conns] /\ Gap(p)
    BY DEF LeaseInv, TypeOK, Conns, GapInv
  <1>1. /\ Deliver(out, conn) /\ UNCHANGED <<tab, queue, screen>>
    BY DEF Output, Publish, page
  <1>2. m \in Message /\ m.type = "output" /\ m.start = produced
        /\ m.end = produced'
    BY DEF Message, Written, Output, LeaseInv, TypeOK, HubAssumption
  <1>3. DOMAIN out = Attached /\ \A q \in DOMAIN out : out[q] = m
    OBVIOUS
  <1> HIDE DEF m, out
  <1>4. conn'[p] = "open" => conn[p] = "open"
    BY <1>0, <1>1, DeliverConn
  <1>5. conn[p] = "open" => p \in DOMAIN out /\ tab[p] # "none"
    BY <1>3 DEF LeaseInv, Held
  <1>6. CASE toPage'[p] = toPage[p] /\ (p \in DOMAIN out => conn'[p] # "open")
    <2>1. conn'[p] # "open"
      BY <1>4, <1>5, <1>6
    <2> QED BY <1>0, <1>1, <1>6, <2>1, SameStreamGap
  <1>7. CASE conn[p] = "open" /\ toPage'[p] = Append(toPage[p], m)
    <2> DEFINE s == Stream(p)
               t == Append(s, m)
    <2>1. /\ toPage[p] \in Seq(Message) /\ queue[p] \in Seq(Message)
          /\ s \in Seq(Message)
      BY <1>0, StreamType
    <2>2. Stream(p)' = t
      <3>1. queue[p] \o Append(toPage[p], m) = Append(queue[p] \o toPage[p], m)
        BY <1>2, <2>1, ConcatAppend
      <3> QED BY <1>1, <1>7, <3>1 DEF Stream
    <2> HIDE DEF s
    <2>3. /\ IsContiguous(s) /\ EndsAt(s, produced)
          /\ screen[p] # None => BeginsAt(s, screen[p])
          /\ tab[p] = "open" /\ Writes(s) = {} => screen[p] = produced
          /\ screen[p] # None => tab[p] = "open"
      <3>1. tab[p] \in {"none", "open", "closed", "gone"}
        BY <1>0 DEF TypeOK
      <3> QED BY <1>0, <1>5, <1>7, <3>1 DEF Gap, s
    <2>4. /\ Writes(t) # {} /\ IsContiguous(t) /\ EndsAt(t, produced')
          /\ screen[p] # None => BeginsAt(t, screen[p])
      BY <1>2, <2>1, <2>3, AppendWrite
    <2> HIDE DEF t
    <2>5. \A i \in 1..Len(toPage'[p]) : toPage'[p][i].type = "ready" =>
             i = 1 /\ queue'[p] = << >> /\ screen'[p] = None
      <3>1. /\ Len(toPage'[p]) = Len(toPage[p]) + 1 /\ Len(toPage[p]) \in Nat
            /\ toPage'[p][Len(toPage[p]) + 1] = m
            /\ \A i \in 1..Len(toPage[p]) : toPage'[p][i] = toPage[p][i]
        BY <1>2, <1>7, <2>1, AppendProperties, LenProperties
      <3> QED BY <3>1, <1>0, <1>1, <1>2 DEF Gap
    <2>6. /\ tab'[p] # "none" /\ tab'[p] # "closed"
          /\ tab[p] = "gone" => screen[p] = None
      BY <1>0, <1>1, <1>5, <1>7 DEF Gap
    <2> QED BY <1>1, <2>2, <2>4, <2>5, <2>6 DEF Gap
  <1> QED BY <1>0, <1>1, <1>3, <1>6, <1>7, DeliverMessage

\* The other pages, when only one of them moves.
LEMMA OtherPagesGap ==
    ASSUME GapInv, NEW p \in Pages, Gap(p)', UNCHANGED <<conn, produced>>,
           \A q \in Pages \ {p} :
              /\ toPage'[q] = toPage[q] /\ queue'[q] = queue[q]
              /\ screen'[q] = screen[q] /\ tab'[q] = tab[q]
    PROVE  GapInv'
  <1> SUFFICES ASSUME NEW q \in Pages, q # p
               PROVE  Gap(q)'
    BY DEF GapInv
  <1> QED BY SameStreamGap DEF GapInv

\* The page reads a message that is to be written: it moves to xterm's queue.
LEMMA MoveGap ==
    ASSUME TypeOK, NEW p \in Pages, Gap(p), tab[p] = "open", toPage[p] # << >>,
           toPage'[p] = Tail(toPage[p]),
           queue'[p] = Append(queue[p], Head(toPage[p])),
           screen'[p] = screen[p], tab'[p] = tab[p], UNCHANGED <<conn, produced>>
    PROVE  Gap(p)'
  <1>1. toPage[p] \in Seq(Message) /\ queue[p] \in Seq(Message)
    BY StreamType
  <1>2. Stream(p)' = Stream(p)
    BY <1>1, ConcatMove DEF Stream
  <1>3. \A i \in 1..Len(toPage'[p]) : toPage'[p][i].type # "ready"
    <2>1. /\ Len(toPage'[p]) = Len(toPage[p]) - 1 /\ Len(toPage[p]) \in Nat
          /\ \A i \in 1..Len(toPage'[p]) : toPage'[p][i] = toPage[p][i + 1]
      BY <1>1, HeadTailProperties, LenProperties
    <2> SUFFICES ASSUME NEW i \in 1..Len(toPage'[p])
                 PROVE  toPage'[p][i].type # "ready"
      OBVIOUS
    <2>2. i + 1 \in 1..Len(toPage[p]) /\ i + 1 # 1
      BY <2>1
    <2> QED BY <2>1, <2>2 DEF Gap
  <1> QED BY <1>2, <1>3 DEF Gap

\* What is left of a page's messages when it has read one of them.
LEMMA LeftToRead ==
    ASSUME TypeOK, NEW p \in Pages, Gap(p), toPage[p] # << >>,
           toPage'[p] = Tail(toPage[p])
    PROVE  \A i \in 1..Len(toPage'[p]) : toPage'[p][i].type # "ready"
  <1>1. toPage[p] \in Seq(Message)
    BY StreamType
  <1>2. /\ Len(toPage'[p]) = Len(toPage[p]) - 1 /\ Len(toPage[p]) \in Nat
        /\ \A i \in 1..Len(toPage'[p]) : toPage'[p][i] = toPage[p][i + 1]
    BY <1>1, HeadTailProperties, LenProperties
  <1> SUFFICES ASSUME NEW i \in 1..Len(toPage'[p])
               PROVE  toPage'[p][i].type # "ready"
    OBVIOUS
  <1>3. i + 1 \in 1..Len(toPage[p]) /\ i + 1 # 1
    BY <1>2
  <1> QED BY <1>2, <1>3 DEF Gap

\* The page reads a message that is no output.
LEMMA SkipGap ==
    ASSUME TypeOK, NEW p \in Pages, Gap(p), tab[p] = "open", toPage[p] # << >>,
           Head(toPage[p]).type \notin {"ready", "output"},
           toPage'[p] = Tail(toPage[p]), queue'[p] = queue[p],
           screen'[p] = screen[p], tab'[p] = tab[p], UNCHANGED <<conn, produced>>
    PROVE  Gap(p)'
  <1> DEFINE s == Stream(p)
             t == Stream(p)'
             n == Len(queue[p]) + 1
  <1>1. /\ toPage[p] \in Seq(Message) /\ queue[p] \in Seq(Message)
        /\ s \in Seq(Message)
    BY StreamType
  <1>a. s = queue[p] \o toPage[p] /\ t = queue[p] \o Tail(toPage[p])
    BY DEF Stream
  <1> HIDE DEF s, t
  <1>2. /\ t \in Seq(Message) /\ n \in 1..Len(s) /\ s[n] = Head(toPage[p])
        /\ Len(t) = Len(s) - 1
        /\ \A i \in 1..Len(t) : t[i] = IF i < n THEN s[i] ELSE s[i + 1]
    BY <1>1, <1>a, ConcatTail
  <1> HIDE DEF n
  <1>3. /\ Writes(t) = {} => Writes(s) = {}
        /\ IsContiguous(s) => IsContiguous(t)
        /\ \A x : BeginsAt(s, x) => BeginsAt(t, x)
        /\ \A x : EndsAt(s, x) => EndsAt(t, x)
    BY <1>1, <1>2, RemoveQuiet
  <1>4. /\ IsContiguous(s)
        /\ screen[p] # None => BeginsAt(s, screen[p])
        /\ conn[p] = "open" => EndsAt(s, produced)
        /\ conn[p] = "open" /\ Writes(s) = {} => screen[p] = produced
    BY DEF Gap, s
  <1>5. \A i \in 1..Len(toPage'[p]) : toPage'[p][i].type # "ready"
    BY LeftToRead
  <1> QED BY <1>3, <1>4, <1>5 DEF Gap, t

\* Ready without a replay: the screen begins where the output stands.
LEMMA ReadyGap ==
    ASSUME TypeOK, NEW p \in Pages, Gap(p), tab[p] = "open", toPage[p] # << >>,
           Head(toPage[p]).type = "ready",
           toPage'[p] = Tail(toPage[p]), queue'[p] = queue[p],
           screen'[p] = Head(toPage[p]).end, tab'[p] = tab[p],
           UNCHANGED <<conn, produced>>
    PROVE  Gap(p)'
  <1> DEFINE s == toPage[p]
  <1>1. s \in Seq(Message) /\ Tail(s) \in Seq(Message)
    BY StreamType, HeadTailProperties
  <1>2. Head(s) = s[1] /\ Len(s) \in Nat /\ 1 \in 1..Len(s)
    BY <1>1, EmptySeq
  <1>3. queue[p] = << >>
    BY <1>2 DEF Gap
  <1>4. Stream(p) = s /\ Stream(p)' = Tail(s)
    <2>1. << >> \o s = s /\ << >> \o Tail(s) = Tail(s)
      BY <1>1, ConcatEmptySeq
    <2> QED BY <1>3, <2>1 DEF Stream
  <1>5. /\ IsContiguous(s)
        /\ conn[p] = "open" => EndsAt(s, produced)
    BY <1>4 DEF Gap
  <1>6. /\ IsContiguous(Tail(s)) /\ BeginsAt(Tail(s), s[1].end)
        /\ \A x : EndsAt(s, x) => EndsAt(Tail(s), x)
        /\ \A x : EndsAt(s, x) /\ Writes(Tail(s)) = {} => s[1].end = x
    BY <1>1, <1>2, <1>5, TailWrite
  <1>7. \A i \in 1..Len(toPage'[p]) : toPage'[p][i].type # "ready"
    BY LeftToRead
  <1>8. screen'[p] = s[1].end
    BY <1>2
  <1> HIDE DEF s
  <1> QED BY <1>4, <1>5, <1>6, <1>7, <1>8 DEF Gap

LEMMA PageReadsGap ==
    ASSUME LeaseInv, GapInv, NEW p \in Pages, PageReads(p)
    PROVE  GapInv'
  <1> DEFINE m == Head(toPage[p])
  <1>0. TypeOK /\ Gap(p)
    BY DEF LeaseInv, GapInv
  <1>1. /\ tab[p] = "open" /\ toPage[p] # << >>
        /\ toPage' = [toPage EXCEPT ![p] = Tail(@)]
        /\ UNCHANGED <<conn, produced, tab>>
    BY DEF PageReads, terminal
  <1>2. toPage'[p] = Tail(toPage[p])
    BY <1>0, <1>1 DEF TypeOK
  <1>3. CASE /\ m.type \in {"ready", "output"} /\ Enqueue(p, m)
             /\ UNCHANGED screen
    <2>1. queue'[p] = Append(queue[p], m)
      BY <1>0, <1>3 DEF Enqueue, TypeOK
    <2>2. Gap(p)'
      BY <1>0, <1>1, <1>2, <1>3, <2>1, MoveGap
    <2> QED BY <1>0, <1>1, <1>3, <2>2, OtherPagesGap DEF Enqueue, TypeOK
  <1>4. CASE /\ m.type = "ready" /\ UNCHANGED queue
             /\ screen' = [screen EXCEPT ![p] = m.end]
    <2>1. screen'[p] = m.end
      BY <1>0, <1>4 DEF TypeOK
    <2>2. Gap(p)'
      BY <1>0, <1>1, <1>2, <1>4, <2>1, ReadyGap
    <2> QED BY <1>0, <1>1, <1>4, <2>2, OtherPagesGap DEF TypeOK
  <1>5. CASE m.type \notin {"ready", "output"} /\ UNCHANGED <<queue, screen>>
    <2>1. Gap(p)'
      BY <1>0, <1>1, <1>2, <1>5, SkipGap
    <2> QED BY <1>0, <1>1, <1>5, <2>1, OtherPagesGap DEF TypeOK
  <1>6. \/ m.type \in {"ready", "output"} /\ Enqueue(p, m) /\ UNCHANGED screen
        \/ /\ m.type = "ready" /\ UNCHANGED queue
           /\ screen' = [screen EXCEPT ![p] = m.end]
        \/ m.type \notin {"ready", "output"} /\ UNCHANGED <<queue, screen>>
    BY DEF PageReads, PageReadsReady
  <1> QED BY <1>3, <1>4, <1>5, <1>6

LEMMA PageRendersGap ==
    ASSUME LeaseInv, GapInv, NEW p \in Pages, PageRenders(p)
    PROVE  GapInv'
  <1> DEFINE q == queue[p]
             s == Stream(p)
  <1>0. TypeOK /\ Gap(p)
    BY DEF LeaseInv, GapInv
  <1>1. /\ tab[p] \in {"open", "closed"} /\ q # << >>
        /\ queue' = [queue EXCEPT ![p] = Tail(@)]
        /\ screen' = [screen EXCEPT ![p] = Head(q).end]
        /\ UNCHANGED <<conn, produced, tab, toPage>>
    BY DEF PageRenders, terminal
  <1>2. queue'[p] = Tail(q) /\ screen'[p] = Head(q).end
    BY <1>0, <1>1 DEF TypeOK
  <1>3. /\ toPage[p] \in Seq(Message) /\ q \in Seq(Message) /\ s \in Seq(Message)
        /\ q \in Seq(Written)
    BY <1>0, StreamType DEF TypeOK
  <1>4. Head(q).type \in {"ready", "output"}
    BY <1>1, <1>3, HeadTailProperties DEF Written
  <1>a. s = q \o toPage[p] /\ Stream(p)' = Tail(q) \o toPage[p]
    BY <1>1, <1>2 DEF Stream
  <1>5. s # << >> /\ s[1] = Head(q) /\ Stream(p)' = Tail(s)
    <2> HIDE DEF q, s
    <2> QED BY <1>1, <1>3, <1>a, TailConcat
  <1> HIDE DEF s
  <1>6. /\ IsContiguous(s)
        /\ conn[p] = "open" => EndsAt(s, produced)
    BY <1>0 DEF Gap, s
  <1>7. /\ IsContiguous(Tail(s)) /\ BeginsAt(Tail(s), s[1].end)
        /\ \A x : EndsAt(s, x) => EndsAt(Tail(s), x)
        /\ \A x : EndsAt(s, x) /\ Writes(Tail(s)) = {} => s[1].end = x
    BY <1>3, <1>4, <1>5, <1>6, TailWrite
  <1>8. \A i \in 1..Len(toPage'[p]) : toPage'[p][i].type # "ready"
    BY <1>0, <1>1 DEF Gap
  <1> HIDE DEF q
  <1>9. Gap(p)'
    BY <1>0, <1>1, <1>2, <1>5, <1>6, <1>7, <1>8 DEF Gap
  <1> QED BY <1>0, <1>1, <1>9, OtherPagesGap DEF TypeOK

LEMMA PageSeesCloseGap ==
    ASSUME LeaseInv, GapInv, NEW p \in Pages, PageSeesClose(p)
    PROVE  GapInv'
  <1>0. TypeOK /\ Gap(p)
    BY DEF LeaseInv, GapInv
  <1>1. /\ conn[p] # "open" /\ tab' = [tab EXCEPT ![p] = "closed"]
        /\ toPage' = [toPage EXCEPT ![p] = << >>]
        /\ UNCHANGED <<conn, produced, queue, screen>>
    BY DEF PageSeesClose, terminal
  <1>2. toPage'[p] = << >> /\ tab'[p] = "closed"
    BY <1>0, <1>1 DEF TypeOK
  <1>3. toPage[p] \in Seq(Message) /\ queue[p] \in Seq(Message)
    BY <1>0, StreamType
  <1>4. Stream(p)' = queue[p]
    BY <1>1, <1>2, <1>3, ConcatEmptySeq DEF Stream
  <1>5. /\ IsContiguous(queue[p])
        /\ screen[p] # None => BeginsAt(queue[p], screen[p])
    BY <1>0, <1>3, Prefix DEF Gap, Stream
  <1>6. \A i \in 1..Len(toPage'[p]) : FALSE
    BY <1>2, EmptySeq
  <1>7. Gap(p)'
    BY <1>1, <1>2, <1>4, <1>5, <1>6 DEF Gap
  <1> QED BY <1>0, <1>1, <1>7, OtherPagesGap DEF TypeOK

LEMMA PageLeavesGap ==
    ASSUME LeaseInv, GapInv, NEW p \in Pages, PageLeaves(p)
    PROVE  GapInv'
  <1>0. TypeOK /\ Gap(p)
    BY DEF LeaseInv, GapInv
  <1>1. /\ tab' = [tab EXCEPT ![p] = "gone"]
        /\ queue' = [queue EXCEPT ![p] = << >>]
        /\ screen' = [screen EXCEPT ![p] = None]
        /\ UNCHANGED <<conn, produced, toPage>>
    BY DEF PageLeaves, terminal
  <1>2. queue'[p] = << >> /\ screen'[p] = None /\ tab'[p] = "gone"
    BY <1>0, <1>1 DEF TypeOK
  <1>3. toPage[p] \in Seq(Message) /\ queue[p] \in Seq(Message)
    BY <1>0, StreamType
  <1>4. Stream(p)' = toPage[p]
    BY <1>1, <1>2, <1>3, ConcatEmptySeq DEF Stream
  <1>5. /\ IsContiguous(toPage[p])
        /\ conn[p] = "open" => EndsAt(toPage[p], produced)
    BY <1>0, <1>3, Suffix DEF Gap, Stream
  <1>6. \A i \in 1..Len(toPage'[p]) : toPage'[p][i].type = "ready" => i = 1
    BY <1>0, <1>1 DEF Gap
  <1>7. Gap(p)'
    BY <1>1, <1>2, <1>4, <1>5, <1>6 DEF Gap
  <1> QED BY <1>0, <1>1, <1>7, OtherPagesGap DEF TypeOK

\* Steps that leave alone what the pages have.
LEMMA IdleGap ==
    ASSUME LeaseInv, GapInv,
           \/ CloseSession \/ Evict \/ UNCHANGED vars
           \/ \E p \in Pages, r \in {"acquire", "input"} : PageSends(p, r)
    PROVE  GapInv'
  <1>1. /\ UNCHANGED <<toPage, queue, screen, tab, produced>>
        /\ conn' = conn \/ CloseSession
    BY DEF CloseSession, Evict, PageSends, page, terminal, hub, vars
  <1> SUFFICES ASSUME NEW p \in Pages
               PROVE  Gap(p)'
    BY DEF GapInv
  <1>2. conn'[p] = "open" => conn[p] = "open"
    BY <1>1 DEF CloseSession
  <1> QED BY <1>1, <1>2, SameStreamGap DEF GapInv

LEMMA NextGap ==
    ASSUME LeaseInv, GapInv, HubAssumption, [Next]_vars
    PROVE  GapInv'
  <1>1. CASE \E p \in Pages : Attach(p)
    BY <1>1, AttachGap
  <1>2. CASE Exit \/ \E p \in Pages : HubReads(p) \/ Detach(p)
    BY <1>2, QuietActionsGap
  <1>3. CASE Output
    BY <1>3, OutputGap
  <1>4. CASE \E p \in Pages : PageReads(p)
    BY <1>4, PageReadsGap
  <1>5. CASE \E p \in Pages : PageRenders(p)
    BY <1>5, PageRendersGap
  <1>6. CASE \E p \in Pages : PageSeesClose(p) \/ PageLeaves(p)
    BY <1>6, PageSeesCloseGap, PageLeavesGap
  <1>7. CASE \/ CloseSession \/ Evict \/ UNCHANGED vars
             \/ \E p \in Pages, r \in {"acquire", "input"} : PageSends(p, r)
    BY <1>7, IdleGap
  <1> QED BY <1>1, <1>2, <1>3, <1>4, <1>5, <1>6, <1>7 DEF Next

LEMMA GapInvariant == Spec => []GapInv
  <1>1. Init => GapInv
    BY InitGap
  <1>2. LeaseInv /\ GapInv /\ [Next]_vars => GapInv'
    BY NextGap, HubAssumption
  <1> QED BY <1>1, <1>2, LeaseInvariant, PTL DEF Spec

\* terminal-websocket.ts:168, TerminalPane.tsx:174: a page that cannot keep up
\* loses its connection and never a part of the output. What it has rendered,
\* what xterm has yet to render and what is on its way are one piece, up to
\* what the terminal has produced.
THEOREM OutputWithoutGap == Spec => []OutputHasNoGap
  <1>1. LeaseInv /\ GapInv => OutputHasNoGap
    <2> SUFFICES ASSUME LeaseInv, GapInv, NEW p \in Pages
                 PROVE  /\ IsContiguous(Stream(p))
                        /\ screen[p] # None => BeginsAt(Stream(p), screen[p])
                        /\ conn[p] = "open" /\ tab[p] = "open"
                           => IF Writes(Stream(p)) # {}
                              THEN EndsAt(Stream(p), produced)
                              ELSE screen[p] = produced
      BY DEF OutputHasNoGap
    <2> QED BY DEF GapInv, Gap
  <1> QED BY <1>1, LeaseInvariant, GapInvariant, PTL

-----------------------------------------------------------------------------
(* A page knows whether it has the lease.                                  *)

\* The messages of s that tell of the lease. Someone who believes b, unless
\* overtaken (o), and reads s knows in the end whether p is the writer w.
Leases(s) == {i \in 1..Len(s) : s[i].type \in {"ready", "writable"}}
Knows(s, o, b, w, p) ==
    /\ Leases(s) = {} => (o \/ (b <=> w = p))
    /\ \A i \in Leases(s) :
          (\A k \in Leases(s) : k <= i) => (s[i].writable <=> w = p)

\* What a page will hold to be true when it has rendered its queue: a ready
\* message with a replay, which comes first, has the last word.
Believes(p) == IF replaying[p] THEN queue[p][1].writable ELSE canWrite[p]

\* The inductive invariant of one page.
Know(p) ==
    /\ replaying[p] => Len(queue[p]) > 0 /\ queue[p][1].type = "ready"
    /\ \A i \in 1..Len(queue[p]) :
          queue[p][i].type = "ready" => i = 1 /\ replaying[p]
    /\ \A i \in 1..Len(toPage[p]) : toPage[p][i].type # "exit"
    /\ conn[p] = "open" /\ tab[p] = "open" =>
          Knows(toPage[p], p \in overtaken, Believes(p), writer, p)

KnowInv == running => \A p \in Pages : Know(p)

LEMMA KnowsAfterOther ==
    ASSUME NEW s \in Seq(Message), NEW m \in Message,
           m.type \notin {"ready", "writable"}, NEW o, NEW b, NEW w, NEW p,
           Knows(s, o, b, w, p)
    PROVE  Knows(Append(s, m), o, b, w, p)
  <1> DEFINE t == Append(s, m)
  <1>1. /\ Len(t) = Len(s) + 1 /\ Len(s) \in Nat /\ t[Len(s) + 1] = m
        /\ \A i \in 1..Len(s) : t[i] = s[i]
    BY AppendProperties, LenProperties
  <1> HIDE DEF t
  <1>2. Leases(t) = Leases(s) /\ \A i \in Leases(t) : t[i] = s[i]
    BY <1>1 DEF Leases
  <1>3. Knows(t, o, b, w, p)
    BY <1>2 DEF Knows
  <1> QED BY <1>3 DEF t

LEMMA KnowsAfterLease ==
    ASSUME NEW s \in Seq(Message), NEW m \in Message,
           m.type \in {"ready", "writable"}, NEW o, NEW b, NEW w, NEW p,
           m.writable <=> w = p
    PROVE  Knows(Append(s, m), o, b, w, p)
  <1> DEFINE t == Append(s, m)
             n == Len(s) + 1
  <1>1. Len(t) = n /\ Len(s) \in Nat /\ t[n] = m
    BY AppendProperties, LenProperties
  <1> HIDE DEF t
  <1>2. n \in Leases(t) /\ Leases(t) \subseteq 1..n
    BY <1>1 DEF Leases
  <1>3. ASSUME NEW i \in Leases(t), \A k \in Leases(t) : k <= i
        PROVE  i = n
    BY <1>1, <1>2, <1>3
  <1>4. Knows(t, o, b, w, p)
    BY <1>1, <1>2, <1>3 DEF Knows
  <1> QED BY <1>4 DEF t

\* One message is read, and believed if it tells of the lease and is not
\* overtaken.
LEMMA KnowsAfterReading ==
    ASSUME NEW s \in Seq(Message), s # << >>, NEW o, NEW o2, NEW b, NEW b2,
           NEW w, NEW p, Knows(s, o, b, w, p),
           IF Head(s).type \in {"ready", "writable"}
           THEN o2 \/ (b2 <=> Head(s).writable)
           ELSE (o2 <=> o) /\ (b2 <=> b)
    PROVE  Knows(Tail(s), o2, b2, w, p)
  <1> DEFINE t == Tail(s)
  <1>1. /\ Len(t) = Len(s) - 1 /\ Len(s) \in Nat /\ Len(s) > 0 /\ Head(s) = s[1]
        /\ \A i \in 1..Len(t) : t[i] = s[i + 1]
    BY HeadTailProperties, LenProperties, EmptySeq
  <1> HIDE DEF t
  <1>2. /\ \A i \in Leases(t) :
              i + 1 \in Leases(s) /\ t[i] = s[i + 1] /\ i \in Int
        /\ \A k \in Leases(s) : k \in Int /\ k >= 1
        /\ \A k \in Leases(s) : k = 1 \/ k - 1 \in Leases(t)
        /\ 1 \in Leases(s) <=> s[1].type \in {"ready", "writable"}
    <2>1. \A i \in Leases(t) : i + 1 \in Leases(s) /\ t[i] = s[i + 1] /\ i \in Int
      BY <1>1 DEF Leases
    <2>2. \A k \in Leases(s) : k \in Int /\ k >= 1
      BY <1>1 DEF Leases
    <2>3. ASSUME NEW k \in Leases(s), k # 1
          PROVE  k - 1 \in Leases(t)
      <3>1. k - 1 \in 1..Len(t) /\ (k - 1) + 1 = k
        BY <1>1, <2>3 DEF Leases
      <3>2. t[k - 1] = s[k]
        BY <1>1, <3>1
      <3> QED BY <2>3, <3>1, <3>2 DEF Leases
    <2>4. 1 \in Leases(s) <=> s[1].type \in {"ready", "writable"}
      BY <1>1 DEF Leases
    <2> QED BY <2>1, <2>2, <2>3, <2>4
  <1>3. Leases(t) = {} => (o2 \/ (b2 <=> w = p))
    <2>1. CASE 1 \in Leases(s)
      <3> SUFFICES ASSUME Leases(t) = {}
                   PROVE  o2 \/ (b2 <=> w = p)
        OBVIOUS
      <3>1. \A k \in Leases(s) : k <= 1
        BY <1>2
      <3>2. s[1].writable <=> w = p
        BY <2>1, <3>1 DEF Knows
      <3>3. o2 \/ (b2 <=> s[1].writable)
        BY <1>1, <1>2, <2>1
      <3> QED BY <3>2, <3>3
    <2>2. CASE 1 \notin Leases(s)
      <3>1. Leases(t) = {} => Leases(s) = {}
        BY <1>2, <2>2
      <3>2. (o2 <=> o) /\ (b2 <=> b)
        BY <1>1, <1>2, <2>2
      <3> QED BY <3>1, <3>2 DEF Knows
    <2> QED BY <2>1, <2>2
  <1>4. ASSUME NEW i \in Leases(t), \A k \in Leases(t) : k <= i
        PROVE  t[i].writable <=> w = p
    <2>1. i + 1 \in Leases(s) /\ t[i] = s[i + 1] /\ i \in Int
      BY <1>2
    <2>2. ASSUME NEW k \in Leases(s)
          PROVE  k <= i + 1
      <3>1. k \in Int /\ k >= 1 /\ (k = 1 \/ k - 1 \in Leases(t))
        BY <1>2
      <3>2. CASE k = 1
        <4>1. i + 1 >= 1
          BY <1>2, <2>1
        <4> QED BY <3>2, <4>1
      <3>3. CASE k - 1 \in Leases(t)
        <4>1. k - 1 <= i
          BY <1>4, <3>3
        <4> QED BY <2>1, <3>1, <4>1
      <3> QED BY <3>1, <3>2, <3>3
    <2>3. s[i + 1].writable <=> w = p
      BY <2>1, <2>2 DEF Knows
    <2> QED BY <2>1, <2>3
  <1>5. Knows(t, o2, b2, w, p)
    BY <1>3, <1>4 DEF Knows
  <1> QED BY <1>5 DEF t

LEMMA InitKnow ==
    ASSUME Init
    PROVE  KnowInv
  <1> SUFFICES ASSUME NEW p \in Pages
               PROVE  Know(p)
    BY DEF KnowInv
  <1>1. /\ toPage[p] = << >> /\ queue[p] = << >> /\ conn[p] = "none"
        /\ replaying[p] = FALSE
    BY DEF Init
  <1>2. Len(<< >>) = 0
    OBVIOUS
  <1> QED BY <1>1, <1>2 DEF Know

\* What the page has read and what it makes of it stay.
SameMind(p) ==
    /\ queue'[p] = queue[p] /\ replaying'[p] = replaying[p]
    /\ canWrite'[p] = canWrite[p] /\ (p \in overtaken' <=> p \in overtaken)

\* Nothing comes to the page, and it and its socket do not change sides.
LEMMA SameKnow ==
    ASSUME NEW p \in Pages, Know(p), toPage'[p] = toPage[p], SameMind(p),
           conn'[p] = "open" /\ tab'[p] = "open" =>
              /\ conn[p] = "open" /\ tab[p] = "open"
              /\ writer' = p <=> writer = p
    PROVE  Know(p)'
  <1>1. /\ replaying'[p] => Len(queue'[p]) > 0 /\ queue'[p][1].type = "ready"
        /\ \A i \in 1..Len(queue'[p]) :
              queue'[p][i].type = "ready" => i = 1 /\ replaying'[p]
        /\ \A i \in 1..Len(toPage'[p]) : toPage'[p][i].type # "exit"
    BY DEF Know, SameMind
  <1>2. Believes(p)' = Believes(p)
    BY DEF Believes, SameMind
  <1>3. ASSUME conn'[p] = "open", tab'[p] = "open"
        PROVE  Knows(toPage'[p], p \in overtaken', Believes(p)', writer', p)
    <2>1. Knows(toPage[p], p \in overtaken, Believes(p), writer, p)
      BY <1>3 DEF Know
    <2> QED BY <1>2, <1>3, <2>1 DEF Knows, SameMind
  <1> QED BY <1>1, <1>3 DEF Know

\* A message comes to the page: one that tells of the lease tells the truth.
LEMMA MessageKnow ==
    ASSUME TypeOK, NEW p \in Pages, Know(p), NEW m \in Message,
           m.type # "exit", toPage'[p] = Append(toPage[p], m), SameMind(p),
           IF m.type \in {"ready", "writable"}
           THEN m.writable <=> writer' = p
           ELSE conn'[p] = "open" /\ tab'[p] = "open" =>
                   /\ conn[p] = "open" /\ tab[p] = "open"
                   /\ writer' = p <=> writer = p
    PROVE  Know(p)'
  <1>1. toPage[p] \in Seq(Message)
    BY DEF TypeOK
  <1>2. /\ Len(toPage'[p]) = Len(toPage[p]) + 1 /\ Len(toPage[p]) \in Nat
        /\ toPage'[p][Len(toPage[p]) + 1] = m
        /\ \A i \in 1..Len(toPage[p]) : toPage'[p][i] = toPage[p][i]
    BY <1>1, AppendProperties, LenProperties
  <1>3. /\ \A i \in 1..Len(toPage'[p]) : toPage'[p][i].type # "exit"
        /\ replaying'[p] => Len(queue'[p]) > 0 /\ queue'[p][1].type = "ready"
        /\ \A i \in 1..Len(queue'[p]) :
              queue'[p][i].type = "ready" => i = 1 /\ replaying'[p]
    BY <1>2 DEF Know, SameMind
  <1>4. Believes(p)' = Believes(p)
    BY DEF Believes, SameMind
  <1>5. conn'[p] = "open" /\ tab'[p] = "open" =>
           Knows(Append(toPage[p], m), p \in overtaken', Believes(p)',
                 writer', p)
    <2>1. CASE m.type \in {"ready", "writable"}
      BY <1>1, <2>1, KnowsAfterLease
    <2>2. CASE m.type \notin {"ready", "writable"}
      <3> SUFFICES ASSUME conn'[p] = "open", tab'[p] = "open"
                   PROVE  Knows(Append(toPage[p], m), p \in overtaken',
                                Believes(p)', writer', p)
        OBVIOUS
      <3>1. Knows(toPage[p], p \in overtaken, Believes(p), writer, p)
        BY <2>2 DEF Know
      <3>2. Knows(toPage[p], p \in overtaken', Believes(p)', writer', p)
        BY <1>4, <2>2, <3>1 DEF Knows, SameMind
      <3> QED BY <1>1, <2>2, <3>2, KnowsAfterOther
    <2> QED BY <2>1, <2>2
  <1> QED BY <1>3, <1>5 DEF Know

LEMMA AttachKnow ==
    ASSUME LeaseInv, HubAssumption, running, KnowInv,
           NEW p \in Pages, Attach(p), NEW q \in Pages
    PROVE  Know(q)'
  <1> DEFINE m == [type |-> "ready", running |-> running,
                   start |-> ReplayStart, end |-> produced,
                   writable |-> running /\ writer' = p]
             c == [conn EXCEPT ![p] = "open"]
             out == To(p, m)
  <1>0. TypeOK /\ Know(q)
    BY DEF LeaseInv, KnowInv
  <1>1. /\ tab' = [tab EXCEPT ![p] = "open"] /\ tab[p] = "none"
        /\ SameMind(q) /\ Deliver(out, c)
    BY DEF Attach, SameMind
  <1>2. /\ c \in [Pages -> Conns] /\ \A r \in Pages \ {p} : c[r] = conn[r]
        /\ c[p] = "open" /\ DOMAIN out = {p} /\ out[p] = m
    BY <1>0 DEF TypeOK, Conns, To
  <1>3. m \in Message /\ m.type = "ready"
    BY <1>0, WindowIs DEF Message, Written, TypeOK
  <1>4. m.writable <=> writer' = p
    OBVIOUS
  <1> HIDE DEF m, c, out
  <1>5. CASE q = p
    <2>1. \/ toPage'[p] = toPage[p] /\ conn'[p] # "open"
          \/ toPage'[p] = Append(toPage[p], m)
      BY <1>1, <1>2, DeliverMessage
    <2> QED BY <1>0, <1>1, <1>3, <1>4, <1>5, <2>1, SameKnow, MessageKnow
  <1>6. CASE q # p
    <2>1. toPage'[q] = toPage[q]
      BY <1>1, <1>2, <1>6, DeliverMessage
    <2>2. conn'[q] = "open" => conn[q] = "open"
      BY <1>1, <1>2, <1>6, DeliverConn
    <2>3. conn[q] = "open" => writer' = writer
      BY DEF Attach, LeaseInv, Held, Attached, Range
    <2>4. tab'[q] = tab[q]
      BY <1>0, <1>1, <1>6 DEF TypeOK
    <2> QED BY <1>0, <1>1, <2>1, <2>2, <2>3, <2>4, SameKnow
  <1> QED BY <1>5, <1>6

LEMMA HubReadsKnow ==
    ASSUME LeaseInv, running, KnowInv, NEW p \in Pages, HubReads(p),
           NEW q \in Pages
    PROVE  Know(q)'
  <1>0. /\ TypeOK /\ Know(q) /\ conn \in [Pages -> Conns]
        /\ UNCHANGED tab /\ SameMind(q)
    BY DEF LeaseInv, KnowInv, TypeOK, Conns, HubReads, page, SameMind
  <1>1. CASE AcquireWriteLease(p)
    <2> DEFINE out == [r \in Told(p) |-> Writable(r = p)]
    <2>1. writer' = p /\ Deliver(out, conn) /\ DOMAIN out = Told(p)
      BY <1>1 DEF AcquireWriteLease
    <2>2. q \in Told(p) => out[q] = Writable(q = p)
      OBVIOUS
    <2> HIDE DEF out
    <2>3. conn'[q] = "open" => conn[q] = "open"
      BY <1>0, <2>1, DeliverConn
    <2>4. CASE q \notin Told(p)
      <3>1. toPage'[q] = toPage[q]
        BY <1>0, <2>1, <2>4, DeliverMessage
      <3>2. (writer' = q) = FALSE /\ (writer = q) = FALSE
        BY <2>1, <2>4, HubAssumption DEF Told, HubAssumption
      <3> QED BY <1>0, <2>3, <3>1, <3>2, SameKnow
    <2>5. CASE q \in Told(p)
      <3> DEFINE m == out[q]
      <3>0. PICK b \in BOOLEAN : m = Writable(b) /\ (b <=> q = p)
        BY <2>2, <2>5
      <3>1. /\ m \in Message /\ m.type = "writable"
            /\ m.writable <=> writer' = q
        <4> HIDE DEF m
        <4>1. Writable(b) \in Message
          BY MessagesAre DEF Quiet
        <4>2. m.type = "writable" /\ m.writable = b
          BY <3>0 DEF Writable
        <4> QED BY <2>1, <3>0, <4>1, <4>2
      <3>2. \/ toPage'[q] = toPage[q] /\ conn'[q] # "open"
            \/ toPage'[q] = Append(toPage[q], m)
        BY <1>0, <2>1, <2>5, DeliverMessage
      <3> HIDE DEF m
      <3> QED BY <1>0, <3>1, <3>2, SameKnow, MessageKnow
    <2> QED BY <2>4, <2>5
  <1>2. CASE Input(p)
    <2>1. UNCHANGED writer
      BY <1>2 DEF Input
    <2>2. CASE Deliver(Nothing, conn)
      <3>1. toPage'[q] = toPage[q] /\ (conn'[q] = "open" => conn[q] = "open")
        BY <1>0, <2>2, NothingIs, DeliverMessage, DeliverConn
      <3> QED BY <1>0, <2>1, <3>1, SameKnow
    <2>3. CASE Deliver(To(p, Error), conn)
      <3>1. Error \in Message /\ Error.type = "error"
        BY DEF Error, Message
      <3>2. DOMAIN To(p, Error) = {p} /\ To(p, Error)[p] = Error
        BY ToIs
      <3>3. conn'[q] = "open" => conn[q] = "open"
        BY <1>0, <2>3, DeliverConn
      <3>4. toPage'[q] = toPage[q] \/ toPage'[q] = Append(toPage[q], Error)
        BY <1>0, <2>3, <3>2, DeliverMessage
      <3> QED BY <1>0, <2>1, <3>1, <3>3, <3>4, SameKnow, MessageKnow
    <2> QED BY <1>2, <2>2, <2>3 DEF Input
  <1> QED BY <1>1, <1>2 DEF HubReads

LEMMA DetachKnow ==
    ASSUME LeaseInv, HubAssumption, KnowInv, running, NEW p \in Pages,
           Detach(p), NEW q \in Pages
    PROVE  Know(q)'
  <1> DEFINE told == Writable(TRUE)
             out == IF writer' \in {writer, None} THEN Nothing
                    ELSE To(writer', told)
             c == [conn EXCEPT ![p] = "detached"]
  <1>0. /\ TypeOK /\ Know(q) /\ UNCHANGED tab /\ SameMind(q)
    BY DEF LeaseInv, KnowInv, Detach, page, SameMind
  <1>1. /\ c \in [Pages -> Conns] /\ Deliver(out, c)
        /\ c[q] = "open" => conn[q] = "open" /\ q # p
    BY <1>0 DEF Detach, Conns, TypeOK
  <1>4. told \in Message /\ told.type = "writable" /\ told.writable = TRUE
    BY DEF Writable, Message
  <1> HIDE DEF told, c
  <1>a. ASSUME writer' \in {writer, None}
        PROVE  DOMAIN out = {}
    <2>1. out = Nothing
      BY <1>a
    <2> QED BY <2>1, NothingIs
  <1>b. ASSUME writer' \notin {writer, None}
        PROVE  DOMAIN out = {writer'} /\ out[writer'] = told
    <2>1. out = To(writer', told)
      BY <1>b
    <2> QED BY <2>1, ToIs
  <1>2. DOMAIN out = IF writer' \in {writer, None} THEN {} ELSE {writer'}
    BY <1>a, <1>b
  <1>3. q \in DOMAIN out => out[q] = told
    BY <1>a, <1>b
  <1> HIDE DEF out
  <1>5. conn'[q] = "open" => conn[q] = "open" /\ q # p
    BY <1>1, DeliverConn DEF Conns
  <1>6. CASE q \in DOMAIN out
    <2>1. writer' = q
      BY <1>2, <1>6
    <2>2. \/ toPage'[q] = toPage[q] /\ conn'[q] # "open"
          \/ toPage'[q] = Append(toPage[q], told)
      BY <1>1, <1>3, <1>6, DeliverMessage
    <2> QED BY <1>0, <1>4, <2>1, <2>2, SameKnow, MessageKnow
  <1>7. CASE q \notin DOMAIN out
    <2>1. toPage'[q] = toPage[q]
      BY <1>1, <1>7, DeliverMessage
    <2>2. q # p => (writer' = q <=> writer = q)
      BY <1>2, <1>7 DEF Detach, HubAssumption
    <2> QED BY <1>0, <1>5, <2>1, <2>2, SameKnow
  <1> QED BY <1>6, <1>7

LEMMA OutputKnow ==
    ASSUME LeaseInv, HubAssumption, KnowInv, running, Output, NEW q \in Pages
    PROVE  Know(q)'
  <1> DEFINE m == [type |-> "output", start |-> produced, end |-> produced']
             out == [r \in Attached |-> m]
  <1>0. /\ TypeOK /\ Know(q) /\ conn \in [Pages -> Conns]
        /\ UNCHANGED <<tab, writer>> /\ SameMind(q)
    BY DEF LeaseInv, KnowInv, TypeOK, Conns, Output, page, hub, SameMind
  <1>1. Deliver(out, conn)
    BY DEF Output, Publish
  <1>2. m \in Message /\ m.type = "output"
    BY <1>0 DEF Message, Written, Output, TypeOK, HubAssumption
  <1>3. \A r \in DOMAIN out : out[r] = m
    OBVIOUS
  <1> HIDE DEF m, out
  <1>4. conn'[q] = "open" => conn[q] = "open"
    BY <1>0, <1>1, DeliverConn
  <1>5. toPage'[q] = toPage[q] \/ toPage'[q] = Append(toPage[q], m)
    BY <1>0, <1>1, <1>3, DeliverMessage
  <1> QED BY <1>0, <1>2, <1>4, <1>5, SameKnow, MessageKnow

LEMMA PageReadsKnow ==
    ASSUME LeaseInv, GapInv, KnowInv, running, NEW p \in Pages, PageReads(p),
           NEW q \in Pages
    PROVE  Know(q)'
  <1> DEFINE s == toPage[p]
             m == Head(s)
             lease == m.type \in {"ready", "writable"}
  <1>0. TypeOK /\ Know(q) /\ Know(p) /\ Gap(p)
    BY DEF LeaseInv, KnowInv, GapInv
  <1>1. /\ tab[p] = "open" /\ s # << >>
        /\ toPage' = [toPage EXCEPT ![p] = Tail(@)]
        /\ UNCHANGED <<conn, tab, writer>>
    BY DEF PageReads, hub
  <1>2. CASE q # p
    <2>1. toPage'[q] = toPage[q]
      BY <1>0, <1>1, <1>2 DEF TypeOK
    <2>2. /\ canWrite'[q] = canWrite[q] /\ queue'[q] = queue[q]
          /\ replaying'[q] = replaying[q]
      BY <1>0, <1>2 DEF PageReads, PageReadsReady, Enqueue, TypeOK
    <2>3. q \in overtaken' <=> q \in overtaken
      BY <1>2 DEF PageReads
    <2> QED BY <1>0, <1>1, <2>1, <2>2, <2>3, SameKnow DEF SameMind
  <1>3. CASE q = p
    <2>1. /\ s \in Seq(Message) /\ toPage'[p] = Tail(s)
          /\ Len(Tail(s)) = Len(s) - 1 /\ Len(s) \in Nat /\ Len(s) > 0
          /\ m = s[1] /\ \A i \in 1..Len(Tail(s)) : Tail(s)[i] = s[i + 1]
      BY <1>0, <1>1, HeadTailProperties, LenProperties, EmptySeq DEF TypeOK
    <2>2. /\ m.type # "exit" /\ m \in Message
          /\ m.type = "ready" => queue[p] = << >>
      BY <1>0, <1>1, <2>1, HeadTailProperties DEF Know, Gap
    <2>3. /\ m.type = "ready" => ~replaying[p]
          /\ lease => m.writable \in BOOLEAN
      <3>1. Len(<< >>) = 0
        OBVIOUS
      <3> QED BY <1>0, <2>2, <3>1 DEF Know, Message, Written
    <2>4. /\ queue[p] \in Seq(Written)
          /\ replaying[p] => Len(queue[p]) > 0 /\ queue[p][1].type = "ready"
          /\ \A i \in 1..Len(queue[p]) :
                queue[p][i].type = "ready" => i = 1 /\ replaying[p]
      BY <1>0 DEF TypeOK, Know
    <2> HIDE DEF m
    <2>5. /\ replaying'[p] => Len(queue'[p]) > 0 /\ queue'[p][1].type = "ready"
          /\ \A i \in 1..Len(queue'[p]) :
                queue'[p][i].type = "ready" => i = 1 /\ replaying'[p]
          /\ IF lease
             THEN p \in overtaken' \/ (Believes(p)' <=> m.writable)
             ELSE /\ p \in overtaken' <=> p \in overtaken
                  /\ Believes(p)' <=> Believes(p)
      <3>1. CASE m.type = "ready" /\ m.start < m.end
        <4>1. PageReadsReady(p, m)
          BY <3>1 DEF PageReads, m
        <4>2. /\ replaying'[p] = TRUE
              /\ queue'[p] = Append(queue[p], m)
          BY <1>0, <3>1, <4>1 DEF PageReadsReady, Enqueue, TypeOK
        <4>3. queue'[p] = << m >>
          <5>1. queue[p] = << >>
            BY <2>2, <3>1
          <5>2. queue'[p] = Append(<< >>, m)
            BY <4>2, <5>1
          <5> QED BY <5>2
        <4>4. Len(<< m >>) = 1 /\ << m >>[1] = m
          OBVIOUS
        <4> QED BY <3>1, <4>2, <4>3, <4>4 DEF Believes
      <3>2. CASE m.type = "ready" /\ ~(m.start < m.end)
        <4>1. PageReadsReady(p, m)
          BY <3>2 DEF PageReads, m
        <4>2. /\ canWrite'[p] = m.writable
              /\ UNCHANGED <<queue, replaying>>
          BY <1>0, <3>2, <4>1 DEF PageReadsReady, TypeOK
        <4> QED BY <2>3, <2>4, <3>2, <4>2 DEF Believes
      <3>3. CASE m.type = "output"
        <4>1. /\ Enqueue(p, m) /\ UNCHANGED <<canWrite, replaying>>
              /\ p \in overtaken' <=> p \in overtaken
          BY <3>3 DEF PageReads, m
        <4>2. queue'[p] = Append(queue[p], m) /\ m \in Written
          BY <1>0, <2>2, <3>3, <4>1 DEF Enqueue, TypeOK, Message
        <4>3. /\ Len(queue'[p]) = Len(queue[p]) + 1 /\ Len(queue[p]) \in Nat
              /\ queue'[p][Len(queue[p]) + 1] = m
              /\ \A i \in 1..Len(queue[p]) : queue'[p][i] = queue[p][i]
          BY <2>4, <4>2, AppendProperties, LenProperties
        <4>4. Len(queue[p]) > 0 => queue'[p][1] = queue[p][1]
          BY <4>3
        <4>5. ASSUME NEW i \in 1..Len(queue'[p]), queue'[p][i].type = "ready"
              PROVE  i = 1 /\ replaying'[p]
          <5>1. i # Len(queue[p]) + 1
            BY <3>3, <4>3, <4>5
          <5>2. i \in 1..Len(queue[p])
            BY <4>3, <5>1
          <5> QED BY <2>4, <4>1, <4>3, <4>5, <5>2
        <4>6. Believes(p)' <=> Believes(p)
          BY <2>4, <4>1, <4>4 DEF Believes
        <4> QED BY <2>4, <3>3, <4>1, <4>3, <4>4, <4>5, <4>6
      <3>4. CASE m.type = "writable"
        <4>1. /\ canWrite' = [canWrite EXCEPT
                                ![p] = m.type = "writable" /\ m.writable]
              /\ UNCHANGED <<queue, replaying>>
              /\ replaying[p] => p \in overtaken'
          BY <3>4 DEF PageReads, m
        <4>2. canWrite'[p] = (m.type = "writable" /\ m.writable)
          BY <1>0, <4>1 DEF TypeOK
        <4>3. canWrite'[p] <=> m.writable
          BY <2>3, <3>4, <4>2
        <4> QED BY <2>4, <3>4, <4>1, <4>3 DEF Believes
      <3>5. CASE m.type = "error"
        <4>1. /\ UNCHANGED <<canWrite, queue, replaying>>
              /\ p \in overtaken' <=> p \in overtaken
          BY <3>5 DEF PageReads, m
        <4> QED BY <2>4, <3>5, <4>1 DEF Believes
      <3> QED BY <2>2, <3>1, <3>2, <3>3, <3>4, <3>5 DEF PageReads, m
    <2>6. ASSUME NEW i \in 1..Len(toPage'[p])
          PROVE  toPage'[p][i].type # "exit"
      <3>1. i + 1 \in 1..Len(s) /\ toPage'[p][i] = s[i + 1]
        BY <2>1
      <3> QED BY <1>0, <3>1 DEF Know
    <2>7. ASSUME conn[p] = "open"
          PROVE  Knows(Tail(s), p \in overtaken', Believes(p)', writer, p)
      <3>1. Knows(s, p \in overtaken, Believes(p), writer, p)
        BY <1>0, <1>1, <2>7 DEF Know
      <3>2. IF Head(s).type \in {"ready", "writable"}
            THEN p \in overtaken' \/ (Believes(p)' <=> Head(s).writable)
            ELSE /\ p \in overtaken' <=> p \in overtaken
                 /\ Believes(p)' <=> Believes(p)
        BY <2>5 DEF m
      <3> HIDE DEF s
      <3> QED BY <1>1, <2>1, <3>1, <3>2, KnowsAfterReading
    <2> QED BY <1>1, <1>3, <2>1, <2>5, <2>6, <2>7 DEF Know
  <1> QED BY <1>2, <1>3

LEMMA PageRendersKnow ==
    ASSUME LeaseInv, KnowInv, running, NEW p \in Pages, PageRenders(p),
           NEW q \in Pages
    PROVE  Know(q)'
  <1>0. TypeOK /\ Know(q) /\ Know(p)
    BY DEF LeaseInv, KnowInv
  <1>1. /\ queue[p] # << >> /\ queue' = [queue EXCEPT ![p] = Tail(@)]
        /\ UNCHANGED <<conn, tab, writer, toPage, overtaken>>
    BY DEF PageRenders, hub
  <1>2. /\ queue[p] \in Seq(Written) /\ queue'[p] = Tail(queue[p])
        /\ Len(Tail(queue[p])) = Len(queue[p]) - 1 /\ Len(queue[p]) \in Nat
        /\ Head(queue[p]) = queue[p][1] /\ Len(queue[p]) > 0
        /\ \A i \in 1..Len(Tail(queue[p])) :
              Tail(queue[p])[i] = queue[p][i + 1]
    BY <1>0, <1>1, HeadTailProperties, LenProperties, EmptySeq DEF TypeOK
  <1>3. CASE q # p
    <2>1. /\ queue'[q] = queue[q] /\ replaying'[q] = replaying[q]
          /\ canWrite'[q] = canWrite[q]
      BY <1>0, <1>1, <1>3 DEF PageRenders, TypeOK
    <2> QED BY <1>0, <1>1, <2>1, SameKnow DEF SameMind
  <1>4. CASE q = p
    <2>1. ASSUME NEW i \in 1..Len(queue'[p])
          PROVE  queue'[p][i].type # "ready"
      <3>1. /\ i + 1 \in 1..Len(queue[p]) /\ queue'[p][i] = queue[p][i + 1]
            /\ i + 1 # 1
        BY <1>2
      <3> QED BY <1>0, <3>1 DEF Know
    <2>2. /\ replaying'[p] = FALSE
          /\ Believes(p)' <=> Believes(p)
      <3>1. CASE Head(queue[p]).type = "ready"
        <4>1. /\ replaying'[p] = FALSE
              /\ canWrite'[p] = Head(queue[p]).writable
          BY <1>0, <3>1 DEF PageRenders, TypeOK
        <4>2. replaying[p]
          BY <1>0, <1>2, <3>1 DEF Know
        <4> QED BY <1>2, <4>1, <4>2 DEF Believes
      <3>2. CASE Head(queue[p]).type # "ready"
        <4>1. UNCHANGED <<replaying, canWrite>>
          BY <3>2 DEF PageRenders
        <4>2. replaying[p] = FALSE
          BY <1>0, <1>2, <3>2 DEF Know, TypeOK
        <4> QED BY <4>1, <4>2 DEF Believes
      <3> QED BY <3>1, <3>2
    <2>3. ASSUME conn'[p] = "open", tab'[p] = "open"
          PROVE  Knows(toPage'[p], p \in overtaken', Believes(p)', writer', p)
      <3>1. Knows(toPage[p], p \in overtaken, Believes(p), writer, p)
        BY <1>0, <1>1, <2>3 DEF Know
      <3> QED BY <1>1, <2>2, <3>1 DEF Knows
    <2>4. \A i \in 1..Len(toPage'[p]) : toPage'[p][i].type # "exit"
      BY <1>0, <1>1 DEF Know
    <2> QED BY <1>4, <2>1, <2>2, <2>3, <2>4 DEF Know
  <1> QED BY <1>3, <1>4

LEMMA PageEndsKnow ==
    ASSUME LeaseInv, KnowInv, running, NEW p \in Pages,
           PageSeesClose(p) \/ PageLeaves(p), NEW q \in Pages
    PROVE  Know(q)'
  <1>0. TypeOK /\ Know(q) /\ Know(p)
    BY DEF LeaseInv, KnowInv
  <1>1. /\ UNCHANGED <<conn, writer>> /\ tab'[p] # "open"
        /\ toPage'[p] = toPage[p] \/ toPage'[p] = << >>
    BY <1>0 DEF PageSeesClose, PageLeaves, TypeOK, hub
  <1>2. CASE q # p
    <2>1. /\ tab'[q] = tab[q] /\ canWrite'[q] = canWrite[q]
          /\ toPage'[q] = toPage[q] /\ queue'[q] = queue[q]
          /\ replaying'[q] = replaying[q]
          /\ q \in overtaken' <=> q \in overtaken
      BY <1>0, <1>2 DEF PageSeesClose, PageLeaves, TypeOK
    <2> QED BY <1>0, <1>1, <2>1, SameKnow DEF SameMind
  <1>3. CASE q = p
    <2>1. Len(<< >>) = 0 /\ 1..0 = {}
      OBVIOUS
    <2>2. \/ queue'[p] = queue[p] /\ replaying'[p] = replaying[p]
          \/ queue'[p] = << >> /\ replaying'[p] = FALSE
      BY <1>0 DEF PageSeesClose, PageLeaves, TypeOK
    <2> QED BY <1>0, <1>1, <1>3, <2>1, <2>2 DEF Know
  <1> QED BY <1>2, <1>3

LEMMA NextKnow ==
    ASSUME LeaseInv, GapInv, HubAssumption, KnowInv, [Next]_vars
    PROVE  KnowInv'
  <1>0. running' => running
    BY DEF Next, Attach, HubReads, Detach, Output, Exit, CloseSession, Evict,
           PageSends, PageReads, PageRenders, PageSeesClose, PageLeaves,
           terminal, vars
  <1> SUFFICES ASSUME running', NEW q \in Pages
               PROVE  Know(q)'
    BY DEF KnowInv
  <1>1. running /\ Know(q)
    BY <1>0 DEF KnowInv
  <1>2. CASE \E p \in Pages : Attach(p)
    BY <1>1, <1>2, AttachKnow
  <1>3. CASE \E p \in Pages : HubReads(p)
    BY <1>1, <1>3, HubReadsKnow
  <1>4. CASE \E p \in Pages : Detach(p)
    BY <1>1, <1>4, DetachKnow
  <1>5. CASE Output
    BY <1>1, <1>5, OutputKnow
  <1>6. CASE \E p \in Pages : PageReads(p)
    BY <1>1, <1>6, PageReadsKnow
  <1>7. CASE \E p \in Pages : PageRenders(p)
    BY <1>1, <1>7, PageRendersKnow
  <1>8. CASE \E p \in Pages : PageSeesClose(p) \/ PageLeaves(p)
    BY <1>1, <1>8, PageEndsKnow
  <1>9. CASE \/ CloseSession \/ UNCHANGED vars
             \/ \E p \in Pages, r \in {"acquire", "input"} : PageSends(p, r)
    <2>1. /\ UNCHANGED <<toPage, tab, writer>> /\ SameMind(q)
          /\ conn' = conn \/ CloseSession
      BY <1>9 DEF CloseSession, PageSends, page, hub, vars, SameMind
    <2>2. conn'[q] = "open" => conn[q] = "open"
      BY <2>1 DEF CloseSession
    <2> QED BY <1>1, <2>1, <2>2, SameKnow
  <1>a. ~Exit /\ ~Evict
    BY <1>1 DEF Exit, Evict
  <1> QED BY <1>2, <1>3, <1>4, <1>5, <1>6, <1>7, <1>8, <1>9, <1>a DEF Next

\* PROTOCOL.md:113, terminal-websocket.ts:87 and TerminalPane.tsx:177: a page
\* that has read and rendered all it was sent knows whether it has the lease,
\* whoever took it from whom in between, unless the last it was told was
\* overtaken by its replay.
THEOREM PagesKnow == Spec => []PagesKnowTheLease
  <1>1. Init => KnowInv
    BY InitKnow
  <1>2. LeaseInv /\ GapInv /\ KnowInv /\ [Next]_vars => KnowInv'
    BY NextKnow, HubAssumption
  <1>3. KnowInv => PagesKnowTheLease
    <2> SUFFICES ASSUME KnowInv, NEW p \in Pages, UpToDate(p), running,
                        p \notin overtaken
                 PROVE  canWrite[p] <=> writer = p
      BY DEF PagesKnowTheLease
    <2>1. /\ Knows(toPage[p], p \in overtaken, Believes(p), writer, p)
          /\ toPage[p] = << >> /\ queue[p] = << >> /\ Know(p)
      BY DEF KnowInv, Know, UpToDate
    <2>2. Leases(<< >>) = {} /\ Len(<< >>) = 0
      BY DEF Leases
    <2>3. ~replaying[p]
      BY <2>1, <2>2 DEF Know
    <2> QED BY <2>1, <2>2, <2>3 DEF Knows, Believes
  <1> QED BY <1>1, <1>2, <1>3, LeaseInvariant, GapInvariant, PTL DEF Spec

=============================================================================

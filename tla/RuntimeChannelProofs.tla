----------------------- MODULE RuntimeChannelProofs -----------------------
(***************************************************************************)
(* Theorems about RuntimeChannel and RuntimeServer: for any number of      *)
(* requests and of changes of the container.                               *)
(***************************************************************************)
EXTENDS RuntimeChannel, SequenceTheorems, FiniteSetTheorems, TLAPS

-----------------------------------------------------------------------------
(* Sequences.                                                              *)

LEMMA AppendRange ==
    ASSUME NEW S, NEW seq \in Seq(S), IsInjective(seq), NEW x \in S,
           x \notin Range(seq)
    PROVE  /\ Append(seq, x) \in Seq(S)
           /\ Len(Append(seq, x)) = Len(seq) + 1
           /\ IsInjective(Append(seq, x))
           /\ Range(Append(seq, x)) = Range(seq) \cup {x}
  <1>1. /\ Append(seq, x) \in Seq(S)
        /\ Len(Append(seq, x)) = Len(seq) + 1
        /\ \A i \in 1..Len(seq) : Append(seq, x)[i] = seq[i]
        /\ Append(seq, x)[Len(seq) + 1] = x
    BY AppendProperties
  <1>2. /\ Len(seq) \in Nat /\ DOMAIN seq = 1..Len(seq)
        /\ DOMAIN Append(seq, x) = 1..(Len(seq) + 1)
    BY <1>1, LenProperties
  <1>3. \A i \in 1..Len(seq) : seq[i] # x
    BY <1>2 DEF Range
  <1>4. IsInjective(Append(seq, x))
    <2> DEFINE longer == Append(seq, x)
    <2>1. /\ DOMAIN longer = 1..(Len(seq) + 1)
          /\ \A i \in 1..Len(seq) : longer[i] = seq[i]
          /\ longer[Len(seq) + 1] = x
      BY <1>1, <1>2
    <2> HIDE DEF longer
    <2>2. \A i, j \in DOMAIN longer : longer[i] = longer[j] => i = j
      BY <2>1, <1>2, <1>3 DEF IsInjective
    <2> QED BY <2>2 DEF IsInjective, longer
  <1>5. Range(Append(seq, x)) = Range(seq) \cup {x}
    <2>1. ASSUME NEW y \in Range(Append(seq, x))
          PROVE  y \in Range(seq) \cup {x}
      <3>1. PICK i \in 1..(Len(seq) + 1) : y = Append(seq, x)[i]
        BY <1>2 DEF Range
      <3> QED BY <3>1, <1>1, <1>2 DEF Range
    <2>2. ASSUME NEW y \in Range(seq) \cup {x}
          PROVE  y \in Range(Append(seq, x))
      <3>1. CASE y = x
        BY <3>1, <1>1, <1>2 DEF Range
      <3>2. CASE y \in Range(seq)
        <4>1. PICK i \in 1..Len(seq) : y = seq[i]
          BY <3>2, <1>2 DEF Range
        <4>2. i \in 1..(Len(seq) + 1) /\ Append(seq, x)[i] = y
          BY <4>1, <1>1, <1>2
        <4> QED BY <4>2, <1>2 DEF Range
      <3> QED BY <3>1, <3>2
    <2> QED BY <2>1, <2>2
  <1> QED BY <1>1, <1>4, <1>5

\* What is left when the first element is taken.
LEMMA TailRange ==
    ASSUME NEW S, NEW seq \in Seq(S), seq # << >>, IsInjective(seq)
    PROVE  /\ Tail(seq) \in Seq(S) /\ Head(seq) \in S
           /\ IsInjective(Tail(seq))
           /\ Range(Tail(seq)) = Range(seq) \ {Head(seq)}
           /\ Head(seq) \in Range(seq)
  <1> DEFINE rest == Tail(seq)
  <1>1. /\ rest \in Seq(S) /\ Head(seq) \in S /\ Len(rest) = Len(seq) - 1
        /\ \A i \in 1..Len(rest) : rest[i] = seq[i + 1]
    BY HeadTailProperties
  <1>2. /\ Head(seq) = seq[1] /\ Len(seq) \in Nat /\ Len(seq) > 0
        /\ DOMAIN seq = 1..Len(seq) /\ DOMAIN rest = 1..Len(rest)
    BY <1>1, EmptySeq, LenProperties
  <1> HIDE DEF rest
  <1>3. ASSUME NEW i \in 1..Len(rest)
        PROVE  i + 1 \in 1..Len(seq) /\ i + 1 # 1 /\ rest[i] = seq[i + 1]
    BY <1>1, <1>2
  <1>4. IsInjective(rest)
    <2> SUFFICES ASSUME NEW i \in DOMAIN rest, NEW j \in DOMAIN rest,
                        rest[i] = rest[j]
                 PROVE  i = j
      BY DEF IsInjective
    <2>1. /\ i + 1 \in DOMAIN seq /\ j + 1 \in DOMAIN seq
          /\ seq[i + 1] = seq[j + 1] /\ i \in Int /\ j \in Int
      BY <1>2, <1>3
    <2>2. i + 1 = j + 1
      BY <2>1 DEF IsInjective
    <2> QED BY <2>1, <2>2
  <1>5. Range(rest) \subseteq Range(seq) \ {Head(seq)}
    <2> SUFFICES ASSUME NEW i \in DOMAIN rest
                 PROVE  rest[i] \in Range(seq) \ {Head(seq)}
      BY DEF Range
    <2>1. 1 \in DOMAIN seq /\ i + 1 \in DOMAIN seq
      BY <1>2, <1>3
    <2>2. seq[i + 1] # seq[1]
      BY <1>2, <1>3, <2>1 DEF IsInjective
    <2> QED BY <1>2, <1>3, <2>1, <2>2 DEF Range
  <1>6. Range(seq) \ {Head(seq)} \subseteq Range(rest)
    <2> SUFFICES ASSUME NEW k \in DOMAIN seq, seq[k] # Head(seq)
                 PROVE  seq[k] \in Range(rest)
      BY DEF Range
    <2>1. k - 1 \in DOMAIN rest /\ (k - 1) + 1 = k
      BY <1>1, <1>2
    <2>2. rest[k - 1] = seq[k]
      BY <1>2, <1>3, <2>1
    <2> QED BY <2>1, <2>2 DEF Range
  <1>7. Head(seq) \in Range(seq)
    BY <1>2 DEF Range
  <1> QED BY <1>1, <1>4, <1>5, <1>6, <1>7 DEF rest

LEMMA EmptyRange ==
    ASSUME NEW S
    PROVE  << >> \in Seq(S) /\ Range(<< >>) = {} /\ IsInjective(<< >>)
  <1>1. << >> \in Seq(S) /\ DOMAIN << >> = {}
    BY EmptySeq
  <1> QED BY <1>1 DEF Range, IsInjective

-----------------------------------------------------------------------------
(* Types.                                                                  *)

Answers == [request: Requests, code: Codes, evidence: Places \cup {None}]
Servers == [step: Methods \cup {"read", "gone", "program", "probe", "enter",
                                "guard"},
            request: Requests \cup {None}, saw: Places \cup {None}]

Types ==
    /\ ServerTypeOK
    /\ chain \in Seq(Requests)
    /\ pending \subseteq Requests
    /\ outcome \in [Requests -> Codes \cup Local \cup {None}]
    /\ closed \in BOOLEAN
    /\ evidence \in Places \cup {None}

\* The helper has a request exactly while it serves one, and an execution in
\* a container is bound to a place.
BindInv ==
    /\ \A r \in Requests : method[r] = "docker.exec" => binding[r] \in Places
    /\ server.step \in {"read", "gone"} <=> server.request = None

-----------------------------------------------------------------------------
(* Where a request is.                                                     *)

\* r has not been dispatched; is on its way; is being served; is answered.
Waits(r) == method[r] = None \/ r \in Range(chain)
Underway(r) == r \in Range(input)
Served(r) == server.request = r
Answered(r) == \E i \in DOMAIN output : output[i].request = r

\* A request passes through these places in this order, is in one of them at
\* a time, and an outcome that came from the client or with the answer is only
\* there when the request has left them.
Passes(r) ==
    /\ Waits(r) => /\ outcome[r] = None /\ r \notin pending \cup unsent
                   /\ ~Underway(r) /\ ~Served(r) /\ ~Answered(r)
    /\ r \in Range(chain) => method[r] # None
    /\ Underway(r) => ~Served(r) /\ ~Answered(r) /\ r \notin unsent
    /\ r \in unsent => ~Served(r) /\ ~Answered(r)
    /\ Served(r) => ~Answered(r)
    /\ outcome[r] \in {"is_closed", "request_too_large"} \cup Codes =>
          ~Underway(r) /\ ~Served(r)
    /\ outcome[r] = "write_failed" => r \in unsent
    /\ r \in pending => outcome[r] = None

PassInv ==
    /\ \A r \in Requests : Passes(r)
    /\ IsInjective(chain) /\ IsInjective(input)
    /\ \A i, j \in DOMAIN output :
          output[i].request = output[j].request => i = j
    /\ connected => unsent = {}
    /\ \A p, q \in pending : p = q
    /\ connected /\ ~closed =>
          \A r \in Requests : Underway(r) \/ Served(r) \/ Answered(r) =>
             r \in pending

-----------------------------------------------------------------------------
(* What has been done for a request.                                       *)

Untouched(r) == inside[r] = None /\ starts[r] = << >> /\ r \notin alive

\* What the helper has done for the request it serves.
Work(r) ==
    /\ server.step \in Methods =>
          server.step = method[r] /\ Untouched(r)
    /\ server.step = "probe" =>
          /\ method[r] \in {"docker.inspect", "docker.exec"} /\ Untouched(r)
          /\ server.saw \in Places
    /\ server.step = "enter" =>
          /\ method[r] = "docker.exec" /\ Untouched(r)
          /\ server.saw = binding[r]
    /\ server.step = "guard" =>
          method[r] = "docker.exec" /\ inside[r] # None
    /\ server.step = "program" => method[r] = "exec" /\ starts[r] = << Host >>

\* The guard in the container: what it expects and where it is.
GuardWork(r) ==
    LET guard == inside[r] IN
    /\ method[r] = "docker.exec" /\ binding[r] \in Places
    /\ guard.expected = binding[r].ticks
    /\ guard.place.id = binding[r].id /\ guard.place.uid = binding[r].uid
    /\ guard.state \in {"checking", "stale"} =>
          starts[r] = << >> /\ r \notin alive
    /\ guard.state \in {"running", "ok"} => starts[r] = << binding[r] >>
    /\ guard.state = "ok" => r \notin alive

\* What an answer says of the request is true for good.
Tells(r, code) ==
    /\ code \in {"stale_binding", "invalid_params"} =>
          starts[r] = << >> /\ (inside[r] = None \/ inside[r].state = "stale")
    /\ code = "ok" /\ method[r] \in {"exec", "docker.exec"} =>
          /\ starts[r] # << >> /\ r \notin alive
          /\ inside[r] = None \/ inside[r].state = "ok"

\* The answer to r, on its way or received.
Told(r, code) ==
    \/ outcome[r] = code
    \/ \E i \in DOMAIN output : output[i].request = r /\ output[i].code = code

\* The helper has not read r, or never will.
Unread(r) == \/ Waits(r) \/ Underway(r) \/ r \in unsent
             \/ outcome[r] \in {"is_closed", "request_too_large"}

Done(r) ==
    /\ Unread(r) => Untouched(r)
    /\ Served(r) => Work(r)
    /\ inside[r] # None => GuardWork(r)
    /\ starts[r] # << >> =>
          \/ method[r] = "exec" /\ starts[r] = << Host >>
          \/ method[r] = "docker.exec" /\ starts[r] = << binding[r] >>
    /\ \A code \in Codes : Told(r, code) => Tells(r, code)

WorkInv == \A r \in Requests : Done(r)

IInv == Types /\ BindInv /\ PassInv /\ WorkInv

-----------------------------------------------------------------------------
(* The steps of the helper keep the types.                                 *)

LEMMA AnswerType ==
    ASSUME Types, server.request \in Requests, NEW code \in Codes,
           NEW seen \in Places \cup {None}, Answer(code, seen)
    PROVE  /\ output' \in Seq(Answers) /\ server' \in Servers
           /\ server'.step \in {"read", "gone"} /\ server'.request = None
  <1>1. /\ Waiting \in Servers /\ Waiting.step = "read"
        /\ Waiting.request = None
    BY DEF Waiting, Servers
  <1>2. Gone \in Servers /\ Gone.step = "gone" /\ Gone.request = None
    BY DEF Waiting, Gone, Servers
  <1> DEFINE answer == [request |-> server.request, code |-> code,
                        evidence |-> seen]
  <1>3. answer \in Answers
    BY DEF Answers
  <1>4. output \in Seq(Answers)
    BY DEF Types, ServerTypeOK, Answers
  <1>5. \/ output' = Append(output, answer) /\ server' = Waiting
        \/ output' = output /\ server' = Gone
    BY DEF Answer
  <1> HIDE DEF answer
  <1> QED BY <1>1, <1>2, <1>3, <1>4, <1>5, AppendProperties

LEMMA ProceedType ==
    ASSUME Types, NEW step \in {"program", "probe", "enter", "guard"},
           NEW seen \in Places \cup {None}, Proceed(step, seen)
    PROVE  /\ server' \in Servers /\ server'.step = step
           /\ server'.request = server.request /\ server'.saw = seen
           /\ output' = output
  BY DEF Types, ServerTypeOK, Servers, Proceed

\* What a step of the helper does to what only the client and the channel see.
Handled ==
    /\ output' \in Seq(Answers) /\ server' \in Servers
    /\ server'.step \in {"read", "gone"} <=> server'.request = None
    /\ UNCHANGED <<method, binding, connected, input, unsent, container, changes>>

LEMMA ProceedHandled ==
    ASSUME Types, server.request \in Requests,
           NEW step \in {"program", "probe", "enter", "guard"},
           NEW seen \in Places \cup {None}, Proceed(step, seen),
           UNCHANGED <<method, binding, connected, input, unsent, container,
                       changes>>
    PROVE  Handled
  <1>1. /\ server' \in Servers /\ server'.step = step
        /\ server'.request = server.request /\ output' = output
    BY ProceedType
  <1>2. server.request # None
    BY RuntimeAssumption DEF RuntimeAssumption, Requests
  <1>3. step \notin {"read", "gone"}
    OBVIOUS
  <1> QED BY <1>1, <1>2, <1>3 DEF Handled, Types, ServerTypeOK, Answers

LEMMA HandledType ==
    ASSUME Types, BindInv, Handled, UNCHANGED client,
           inside' \in [Requests -> Guards \cup {None}],
           starts' \in [Requests -> Seq(Places)], alive' \subseteq Requests
    PROVE  Types' /\ BindInv'
  BY DEF Types, ServerTypeOK, BindInv, Handled, Servers, Answers, client

LEMMA ServedIs ==
    ASSUME Types, BindInv, WorkInv, server.step \notin {"read", "gone"}
    PROVE  server.request \in Requests /\ Work(server.request)
  <1>1. server.request \in Requests
    BY DEF Types, ServerTypeOK, BindInv
  <1> QED BY <1>1 DEF WorkInv, Done, Served

LEMMA StartType ==
    ASSUME Types, NEW r \in Requests, NEW place \in Places, Start(r, place)
    PROVE  starts' \in [Requests -> Seq(Places)] /\ alive' \subseteq Requests
  <1>1. Append(starts[r], place) \in Seq(Places)
    BY AppendProperties DEF Types, ServerTypeOK
  <1> QED BY <1>1 DEF Start, Types, ServerTypeOK

LEMMA PlacesAre ==
    ASSUME Types
    PROVE  Host \in Places /\ Place \in Places
  BY DEF Types, ServerTypeOK, Host, Place, Places

LEMMA ReadType ==
    ASSUME IInv, Read, UNCHANGED client
    PROVE  Types' /\ BindInv'
  <1> DEFINE r == Head(input)
  <1>1. /\ r \in Requests /\ Tail(input) \in Seq(Requests) /\ Underway(r)
    BY TailRange DEF IInv, PassInv, Read, Types, ServerTypeOK, Underway
  <1>2. method[r] \in Methods
    BY <1>1 DEF IInv, Types, ServerTypeOK, PassInv, Passes, Waits
  <1>3. /\ server' = [step |-> method[r], request |-> r, saw |-> None]
        /\ input' = Tail(input)
        /\ UNCHANGED <<method, binding, connected, unsent, output, host>>
    BY DEF Read
  <1> HIDE DEF r
  <1>4. server' \in Servers /\ server'.step = method[r] /\ server'.request = r
    BY <1>1, <1>2, <1>3 DEF Servers
  <1>5. r # None /\ method[r] \notin {"read", "gone"}
    BY <1>1, <1>2, RuntimeAssumption DEF RuntimeAssumption, Requests, Methods
  <1> QED BY <1>1, <1>3, <1>4, <1>5
          DEF IInv, Types, BindInv, ServerTypeOK, Servers, host, client

LEMMA AnsweringType ==
    ASSUME IInv, UNCHANGED client,
           \/ Handshake \/ InvalidParams \/ ExecEnds \/ InspectFails
           \/ GuardAnswers \/ DockerClientFails
    PROVE  Types' /\ BindInv'
  <1>0. Types /\ BindInv /\ WorkInv
    BY DEF IInv
  <1>1. server.step \notin {"read", "gone"}
    BY DEF Handshake, InvalidParams, ExecEnds, InspectFails, GuardAnswers,
           DockerClientFails, Serving, Inspecting, Methods
  <1>2. server.request \in Requests
    BY <1>0, <1>1, ServedIs
  <1>3. \E code \in Codes : Answer(code, None)
    <2>1. CASE Handshake
      BY <2>1 DEF Handshake, Codes
    <2>2. CASE InvalidParams
      BY <2>2 DEF InvalidParams, Codes
    <2>3. CASE ExecEnds
      BY <2>3 DEF ExecEnds, Codes
    <2>4. CASE InspectFails
      BY <2>4 DEF InspectFails, Codes
    <2>5. CASE GuardAnswers
      BY <2>5 DEF GuardAnswers, Codes
    <2>6. CASE DockerClientFails
      BY <2>6 DEF DockerClientFails, Unseen, Codes
    <2> QED BY <2>1, <2>2, <2>3, <2>4, <2>5, <2>6
  <1>4. /\ UNCHANGED <<method, binding, connected, input, unsent, container,
                       changes, inside, starts>>
        /\ alive' \subseteq alive
    BY DEF Handshake, InvalidParams, ExecEnds, InspectFails, GuardAnswers,
           DockerClientFails, host
  <1>5. Handled
    BY <1>0, <1>2, <1>3, <1>4, AnswerType DEF Handled
  <1> QED BY <1>0, <1>4, <1>5, HandledType DEF Types, ServerTypeOK

LEMMA InspectRecordType ==
    ASSUME IInv, InspectRecord, UNCHANGED client
    PROVE  Types' /\ BindInv'
  <1>0. Types /\ BindInv /\ WorkInv
    BY DEF IInv
  <1>1. server.step \notin {"read", "gone"}
    BY DEF InspectRecord
  <1>2. server.request \in Requests
    BY <1>0, <1>1, ServedIs
  <1>3. Proceed("probe", Place) /\ Place \in Places
    BY <1>0, PlacesAre DEF InspectRecord
  <1>4. Handled
    BY <1>0, <1>2, <1>3, ProceedHandled DEF InspectRecord, host
  <1> QED BY <1>0, <1>4, HandledType DEF Types, ServerTypeOK, InspectRecord, host

LEMMA ProbeType ==
    ASSUME IInv, Probe, UNCHANGED client
    PROVE  Types' /\ BindInv'
  <1> DEFINE seen == [server.saw EXCEPT !.uid = container.uid]
  <1>0. Types /\ BindInv /\ WorkInv
    BY DEF IInv
  <1>1. server.step = "probe"
    BY DEF Probe, Serving
  <1>2. server.request \in Requests /\ server.saw \in Places
    BY <1>0, <1>1, ServedIs DEF Work
  <1>3. seen \in Places
    BY <1>0, <1>2 DEF Places, Types, ServerTypeOK
  <1>4. \/ \E code \in Codes : Answer(code, seen)
        \/ \E code \in Codes : Answer(code, None)
        \/ Proceed("enter", seen)
    BY DEF Probe, Codes
  <1>5. UNCHANGED <<method, binding, connected, input, unsent, host>>
    BY DEF Probe
  <1> HIDE DEF seen
  <1>6. Handled
    <2>1. CASE Proceed("enter", seen)
      BY <1>0, <1>2, <1>3, <1>5, <2>1, ProceedHandled DEF host
    <2>2. ASSUME NEW code \in Codes, NEW e \in {seen, None}, Answer(code, e)
          PROVE  Handled
      <3>1. e \in Places \cup {None}
        BY <1>3, <2>2
      <3> QED BY <1>0, <1>2, <1>5, <2>2, <3>1, AnswerType DEF Handled, host
    <2> QED BY <1>4, <2>1, <2>2
  <1> QED BY <1>0, <1>5, <1>6, HandledType DEF Types, ServerTypeOK, host

LEMMA EnterType ==
    ASSUME IInv, Enter, UNCHANGED client
    PROVE  Types' /\ BindInv'
  <1> DEFINE r == server.request
             guard == [place |-> [Place EXCEPT !.uid = server.saw.uid],
                       expected |-> server.saw.ticks, state |-> "checking"]
  <1>0. Types /\ BindInv /\ WorkInv
    BY DEF IInv
  <1>1. server.step = "enter"
    BY DEF Enter, Serving
  <1>2. r \in Requests /\ server.saw = binding[r] /\ method[r] = "docker.exec"
    BY <1>0, <1>1, ServedIs DEF Work
  <1>3. server.saw \in Places
    BY <1>0, <1>2 DEF BindInv
  <1>4. guard \in Guards
    BY <1>0, <1>3, PlacesAre DEF Guards, Guarded, Places
  <1>5. UNCHANGED <<method, binding, connected, input, unsent, container,
                    changes, starts, alive>>
    BY DEF Enter
  <1>6. \/ /\ inside' = [inside EXCEPT ![r] = guard]
           /\ Proceed("guard", server.saw)
        \/ /\ \E code \in Codes : Answer(code, None)
           /\ UNCHANGED inside
    BY DEF Enter, Codes
  <1> HIDE DEF r, guard
  <1>7. Handled
    <2>1. CASE Proceed("guard", server.saw)
      <3> DEFINE seen == server.saw
      <3>1. seen \in Places /\ Proceed("guard", seen)
        BY <1>3, <2>1
      <3> HIDE DEF seen
      <3>2. r = server.request
        BY DEF r
      <3> QED BY <1>0, <1>2, <1>5, <3>1, <3>2, ProceedHandled
    <2>2. ASSUME NEW code \in Codes, Answer(code, None)
          PROVE  Handled
      BY <1>0, <1>2, <1>5, <2>2, AnswerType DEF Handled, r
    <2> QED BY <1>6, <2>1, <2>2
  <1>8. inside' \in [Requests -> Guards \cup {None}]
    BY <1>0, <1>4, <1>6 DEF Types, ServerTypeOK
  <1> QED BY <1>0, <1>5, <1>7, <1>8, HandledType DEF Types, ServerTypeOK

LEMMA ExecType ==
    ASSUME IInv, Exec, UNCHANGED client
    PROVE  Types' /\ BindInv'
  <1> DEFINE r == server.request
  <1>0. Types /\ BindInv /\ WorkInv
    BY DEF IInv
  <1>1. server.step = "exec"
    BY DEF Exec, Serving
  <1>2. r \in Requests
    BY <1>0, <1>1, ServedIs
  <1>3. UNCHANGED <<method, binding, connected, input, unsent, container,
                    changes, inside>>
    BY DEF Exec
  <1>4. CASE Start(r, Host) /\ Proceed("program", None)
    <2>1. Handled
      BY <1>0, <1>2, <1>3, <1>4, ProceedHandled
    <2>2. starts' \in [Requests -> Seq(Places)] /\ alive' \subseteq Requests
      BY <1>0, <1>2, <1>4, PlacesAre, StartType
    <2> QED BY <1>0, <1>3, <2>1, <2>2, HandledType DEF Types, ServerTypeOK
  <1>5. CASE Answer("execution_failed", None) /\ UNCHANGED <<starts, alive>>
    <2>1. "execution_failed" \in Codes
      BY DEF Codes
    <2>2. Handled
      BY <1>0, <1>2, <1>3, <1>5, <2>1, AnswerType DEF Handled
    <2> QED BY <1>0, <1>3, <1>5, <2>2, HandledType DEF Types, ServerTypeOK
  <1> QED BY <1>4, <1>5 DEF Exec

LEMMA GuardIsOne ==
    ASSUME IInv, NEW r \in Requests, inside[r] # None
    PROVE  /\ inside[r] \in Guards /\ inside[r].place \in Places
           /\ GuardWork(r)
  BY DEF IInv, Types, ServerTypeOK, Guards, WorkInv, Done

LEMMA GuardStepsType ==
    ASSUME IInv, NEW r \in Requests, GuardChecks(r) \/ GuardedEnds(r),
           UNCHANGED client
    PROVE  Types' /\ BindInv'
  <1>0. Types /\ BindInv
    BY DEF IInv
  <1>1. inside[r] # None /\ inside[r] \in Guards /\ inside[r].place \in Places
    <2>1. inside[r] # None
      BY DEF GuardChecks, GuardedEnds, GuardIs
    <2> QED BY <2>1, GuardIsOne
  <1>2. PICK state \in Guarded : SetGuard(r, state)
    BY DEF GuardChecks, GuardedEnds, Guarded, Outcomes
  <1>3. inside' \in [Requests -> Guards \cup {None}]
    <2>1. [inside[r] EXCEPT !.state = state] \in Guards
      BY <1>1 DEF Guards
    <2> QED BY <1>0, <1>2, <2>1 DEF SetGuard, Types, ServerTypeOK
  <1>4. starts' \in [Requests -> Seq(Places)] /\ alive' \subseteq Requests
    <2> DEFINE place == inside[r].place
    <2>1. \/ Start(r, place)
          \/ UNCHANGED starts /\ alive' \subseteq alive
      BY DEF GuardChecks, GuardedEnds
    <2> HIDE DEF place
    <2>2. CASE Start(r, place)
      BY <1>0, <1>1, <2>2, StartType DEF place
    <2> QED BY <1>0, <2>1, <2>2 DEF Types, ServerTypeOK
  <1>5. UNCHANGED <<method, binding, connected, input, unsent, output, server,
                    container, changes>>
    BY DEF GuardChecks, GuardedEnds
  <1> QED BY <1>0, <1>3, <1>4, <1>5 DEF Types, ServerTypeOK, BindInv, client

LEMMA ContainerChangesType ==
    ASSUME IInv, ContainerChanges, UNCHANGED client
    PROVE  Types' /\ BindInv'
  <1>0. Types /\ BindInv
    BY DEF IInv
  <1>1. container' \in [id: Nat, ticks: Nat, uid: Nat, up: BOOLEAN]
    <2> DEFINE box == [id: Nat, ticks: Nat, uid: Nat, up: BOOLEAN]
    <2>1. container \in box
      BY <1>0 DEF Types, ServerTypeOK
    <2>2. [container EXCEPT !.up = FALSE] \in box
      BY <2>1
    <2>3. [container EXCEPT !.uid = @ + 1] \in box
      BY <2>1
    <2>4. /\ Started(container.id) \in box
          /\ Started(container.id + 1) \in box
      BY <2>1 DEF Started
    <2> HIDE DEF box
    <2> QED BY <2>2, <2>3, <2>4 DEF ContainerChanges, box
  <1>2. changes' \in 0..MaxChanges
    BY <1>0, RuntimeAssumption
       DEF ContainerChanges, Types, ServerTypeOK, RuntimeAssumption
  <1>3. /\ inside' \in [Requests -> Guards \cup {None}]
        /\ alive' \subseteq Requests
    <2>1. CASE ContainerEnds
      <3>1. ASSUME NEW r \in Requests, inside[r] # None
            PROVE  [inside[r] EXCEPT !.state = "killed"] \in Guards
        BY <3>1, GuardIsOne DEF Guards, Guarded
      <3> QED BY <1>0, <2>1, <3>1 DEF ContainerEnds, Types, ServerTypeOK
    <2>2. CASE UNCHANGED <<inside, alive>>
      BY <1>0, <2>2 DEF Types, ServerTypeOK
    <2> QED BY <2>1, <2>2 DEF ContainerChanges
  <1>4. UNCHANGED <<method, binding, connected, input, unsent, output, server,
                    starts>>
    BY DEF ContainerChanges
  <1> QED BY <1>0, <1>1, <1>2, <1>3, <1>4
          DEF Types, ServerTypeOK, BindInv, client

\* What is lost of the requests on their way.
LEMMA LoseIs ==
    ASSUME Types, Lose
    PROVE  /\ input' \in Seq(Requests) /\ unsent' \subseteq Requests
           /\ \/ UNCHANGED <<input, unsent>>
              \/ /\ input' = << >> /\ unsent \subseteq unsent'
                 /\ unsent' \subseteq unsent \cup Range(input)
  <1>1. Range(input) \subseteq Requests
    BY RangeOfSeq DEF Types, ServerTypeOK
  <1>2. << >> \in Seq(Requests)
    BY EmptyRange
  <1> QED BY <1>1, <1>2 DEF Lose, Types, ServerTypeOK

LEMMA ServerType ==
    ASSUME IInv, ServerNext, UNCHANGED client
    PROVE  Types' /\ BindInv'
  <1>1. CASE EndOfInput
    <2>1. Gone \in Servers /\ Gone.step = "gone" /\ Gone.request = None
      BY DEF Waiting, Gone, Servers
    <2> QED BY <1>1, <2>1 DEF EndOfInput, IInv, Types, ServerTypeOK, BindInv,
                              Servers, host, client
  <1>2. CASE Disconnect
    BY <1>2, LoseIs DEF Disconnect, IInv, Types, ServerTypeOK, BindInv, host,
                        client
  <1> QED BY <1>1, <1>2, ReadType, AnsweringType, InspectRecordType, ProbeType,
             EnterType, ExecType, GuardStepsType, ContainerChangesType
          DEF ServerNext

-----------------------------------------------------------------------------
(* The steps of the client keep the types.                                 *)

Results == Codes \cup Local \cup {None}

LEMMA FailAllIs ==
    ASSUME Types, NEW reason \in Local, NEW kept \in [Requests -> Results],
           FailAll(reason, kept)
    PROVE  /\ outcome' \in [Requests -> Results] /\ pending' = {}
           /\ \A r \in Requests : \/ outcome'[r] = kept[r]
                                  \/ outcome'[r] = reason /\ r \in pending
  BY DEF FailAll, Results

\* The channel stays as it is, or it breaks and what was under way is lost.
Broken ==
    /\ input' \in Seq(Requests) /\ unsent' \subseteq Requests
    /\ connected' \in BOOLEAN /\ (connected' => connected)
    /\ \/ UNCHANGED <<input, unsent>>
       \/ /\ ~connected' /\ input' = << >> /\ unsent \subseteq unsent'
          /\ unsent' \subseteq unsent \cup Range(input)

LEMMA KillBreaks ==
    ASSUME Types, Kill
    PROVE  Broken /\ ~connected'
  BY LoseIs DEF Kill, Broken, Types, ServerTypeOK

LEMMA IdleBreaks ==
    ASSUME Types, UNCHANGED <<connected, input, unsent>>
    PROVE  Broken
  BY DEF Broken, Types, ServerTypeOK

\* What settles requests without an answer: the client closes and everything
\* pending fails, or one request fails alone.
LEMMA FailureIs ==
    ASSUME Types, \/ Close \/ ChildExit \/ Garbage
                  \/ \E r \in Requests : Timeout(r) \/ WriteFails(r)
    PROVE  /\ Broken /\ closed' \in BOOLEAN /\ (closed => closed')
           /\ UNCHANGED <<method, binding, output, server, host, chain, evidence>>
           /\ outcome' \in [Requests -> Results]
           /\ pending' \subseteq pending
           /\ closed' \/ \E r \in unsent : pending' = pending \ {r}
           /\ \A q \in Requests :
                 \/ outcome'[q] = outcome[q]
                 \/ /\ q \in pending /\ q \notin pending'
                    /\ \/ outcome'[q] \in {"closed", "timed_out", "exited",
                                           "aborted"}
                       \/ outcome'[q] = "write_failed" /\ q \in unsent
  <1>0. outcome \in [Requests -> Results]
    BY DEF Types, Results
  <1>1. ASSUME NEW reason \in {"closed", "exited", "aborted"},
               FailAll(reason, outcome)
        PROVE  /\ outcome' \in [Requests -> Results] /\ pending' = {}
               /\ \A q \in Requests :
                     \/ outcome'[q] = outcome[q]
                     \/ outcome'[q] = reason /\ q \in pending
    BY <1>0, <1>1, FailAllIs DEF Local
  <1>2. CASE Close
    BY <1>1, <1>2, KillBreaks DEF Close
  <1>3. CASE ChildExit
    BY <1>1, <1>3, IdleBreaks DEF ChildExit, serverVars, host
  <1>4. CASE Garbage
    BY <1>1, <1>4, KillBreaks DEF Garbage
  <1>5. ASSUME NEW r \in Requests, Timeout(r)
        PROVE  /\ Broken /\ closed' \in BOOLEAN /\ closed'
               /\ UNCHANGED <<method, binding, output, server, host, chain,
                              evidence>>
               /\ outcome' \in [Requests -> Results] /\ pending' \subseteq pending
               /\ \A q \in Requests :
                     \/ outcome'[q] = outcome[q]
                     \/ /\ q \in pending /\ q \notin pending'
                        /\ outcome'[q] \in {"closed", "timed_out"}
    <2> DEFINE rejected == [outcome EXCEPT ![r] = "timed_out"]
    <2>1. /\ rejected \in [Requests -> Results] /\ rejected[r] = "timed_out"
          /\ \A q \in Requests \ {r} : rejected[q] = outcome[q]
      BY <1>0 DEF Results, Local
    <2>2. /\ r \in pending
          /\ UNCHANGED <<method, binding, output, server, host, chain, evidence>>
      BY <1>5 DEF Timeout
    <2>3. \/ /\ closed /\ outcome' = rejected /\ pending' = pending \ {r}
             /\ UNCHANGED <<closed, connected, input, unsent>>
          \/ closed' = TRUE /\ FailAll("closed", rejected) /\ Kill
      BY <1>5 DEF Timeout, TimedOut
    <2> HIDE DEF rejected
    <2>4. CASE /\ closed /\ outcome' = rejected /\ pending' = pending \ {r}
               /\ UNCHANGED <<closed, connected, input, unsent>>
      <3>1. \A q \in Requests :
               \/ outcome'[q] = outcome[q]
               \/ q \in pending /\ q \notin pending'
                  /\ outcome'[q] \in {"closed", "timed_out"}
        BY <2>1, <2>2, <2>4
      <3> QED BY <2>1, <2>2, <2>4, <3>1, IdleBreaks DEF Types
    <2>5. CASE closed' = TRUE /\ FailAll("closed", rejected) /\ Kill
      <3>1. "closed" \in Local
        BY DEF Local
      <3>2. /\ outcome' \in [Requests -> Results] /\ pending' = {}
            /\ \A q \in Requests : \/ outcome'[q] = rejected[q]
                                   \/ outcome'[q] = "closed" /\ q \in pending
        BY <2>1, <2>5, <3>1, FailAllIs
      <3>3. \A q \in Requests :
               \/ outcome'[q] = outcome[q]
               \/ /\ q \in pending /\ q \notin pending'
                  /\ outcome'[q] \in {"closed", "timed_out"}
        BY <2>1, <2>2, <3>2
      <3> QED BY <2>2, <2>5, <3>2, <3>3, KillBreaks
    <2> QED BY <2>3, <2>4, <2>5
  <1>6. ASSUME NEW r \in Requests, WriteFails(r)
        PROVE  /\ Broken /\ UNCHANGED closed /\ r \in unsent
               /\ UNCHANGED <<method, binding, output, server, host, chain,
                              evidence>>
               /\ outcome' \in [Requests -> Results]
               /\ pending' = pending \ {r} /\ r \in pending
               /\ \A q \in Requests \ {r} : outcome'[q] = outcome[q]
               /\ outcome'[r] = "write_failed"
    <2>1. outcome' = [outcome EXCEPT ![r] = "write_failed"]
      BY <1>6 DEF WriteFails
    <2>2. outcome' \in [Requests -> Results]
      BY <1>0, <2>1 DEF Results, Local
    <2> QED BY <1>0, <1>6, <2>1, <2>2, IdleBreaks
               DEF WriteFails, serverVars, host
  <1> QED BY <1>2, <1>3, <1>4, <1>5, <1>6 DEF Types

LEMMA CallType ==
    ASSUME Types, BindInv, NEW r \in Requests, NEW m \in Methods, Call(r, m)
    PROVE  Types' /\ BindInv'
  <1>1. chain' \in Seq(Requests)
    BY AppendProperties DEF Call, Types
  <1>2. m = "docker.exec" => evidence \in Places
    BY DEF Call, Permitted, Types
  <1>3. method' = [method EXCEPT ![r] = m]
        /\ binding' = [binding EXCEPT ![r] =
              IF m = "docker.exec" THEN evidence ELSE None]
        /\ UNCHANGED <<connected, input, unsent, output, server, host, pending,
                       outcome, closed, evidence>>
    BY DEF Call
  <1>4. BindInv'
    BY <1>2, <1>3 DEF BindInv, Types, ServerTypeOK
  <1>5. /\ method' \in [Requests -> Methods \cup {None}]
        /\ binding' \in [Requests -> Places \cup {None}]
    BY <1>2, <1>3 DEF Types, ServerTypeOK
  <1> QED BY <1>1, <1>3, <1>4, <1>5 DEF Types, ServerTypeOK, host

LEMMA DispatchType ==
    ASSUME Types, BindInv, NEW r \in Requests, NEW oversized \in BOOLEAN,
           Dispatch(r, oversized)
    PROVE  Types' /\ BindInv'
  <1>1. chain' \in Seq(Requests)
    BY HeadTailProperties DEF Dispatch, Types
  <1>2. Append(input, r) \in Seq(Requests)
    BY AppendProperties DEF Types, ServerTypeOK
  <1>3. /\ input' \in Seq(Requests) /\ unsent' \subseteq Requests
        /\ pending' \subseteq Requests
    BY <1>2 DEF Dispatch, Types, ServerTypeOK
  <1>4. outcome' \in [Requests -> Codes \cup Local \cup {None}]
    BY DEF Dispatch, Types, Local
  <1>5. UNCHANGED <<method, binding, connected, output, server, host, closed,
                    evidence>>
    BY DEF Dispatch
  <1> QED BY <1>1, <1>3, <1>4, <1>5 DEF Types, ServerTypeOK, BindInv, host

\* What reading an answer does.
LEMMA ReceiveIs ==
    ASSUME Types, Receive, NEW answer, answer = Head(output), NEW r,
           r = answer.request
    PROVE  /\ r \in Requests /\ answer \in Answers
           /\ UNCHANGED <<method, binding, server, host, chain>>
           /\ \/ /\ r \notin pending
                 /\ UNCHANGED <<connected, input, unsent, client>>
              \/ /\ r \in pending /\ pending' = pending \ {r}
                 /\ outcome' = [outcome EXCEPT ![r] = answer.code]
                 /\ evidence' \in Places \cup {None}
                 /\ UNCHANGED <<connected, input, unsent, closed>>
              \/ /\ r \in pending /\ closed' = TRUE /\ pending' = {}
                 /\ Broken /\ ~connected' /\ UNCHANGED evidence
                 /\ outcome' \in [Requests -> Results]
                 /\ \A q \in Requests :
                       \/ outcome'[q] = outcome[q]
                       \/ /\ q \in pending
                          /\ outcome'[q] \in {"aborted", "mismatch"}
  <1>1. r \in Requests /\ answer \in Answers
    <2>1. output \in Seq(Answers) /\ output # << >>
      BY DEF Types, ServerTypeOK, Answers, Receive
    <2>2. answer \in Answers
      BY <2>1, HeadTailProperties
    <2> QED BY <2>2 DEF Answers
  <1>2. UNCHANGED <<method, binding, server, host>>
    BY DEF Receive
  <1>3. CASE r \notin pending /\ UNCHANGED <<connected, input, unsent, client>>
    BY <1>1, <1>2, <1>3 DEF client
  <1>4. CASE /\ r \in pending /\ pending' = pending \ {r}
             /\ outcome' = [outcome EXCEPT ![r] = answer.code]
             /\ evidence' = IF answer.evidence # None THEN answer.evidence
                            ELSE evidence
             /\ UNCHANGED <<connected, input, unsent, chain, closed>>
    <2>1. evidence' \in Places \cup {None}
      BY <1>1, <1>4 DEF Types, Answers
    <2> QED BY <1>1, <1>2, <1>4, <2>1
  <1>5. CASE /\ r \in pending /\ closed' = TRUE
             /\ FailAll("aborted", [outcome EXCEPT ![r] = "mismatch"])
             /\ Kill /\ UNCHANGED <<chain, evidence>>
    <2> DEFINE kept == [outcome EXCEPT ![r] = "mismatch"]
    <2>1. /\ kept \in [Requests -> Results] /\ kept[r] = "mismatch"
          /\ \A q \in Requests \ {r} : kept[q] = outcome[q]
      BY <1>1 DEF Types, Results, Local
    <2>2. FailAll("aborted", kept) /\ "aborted" \in Local
      BY <1>5 DEF Local
    <2> HIDE DEF kept
    <2>3. /\ outcome' \in [Requests -> Results] /\ pending' = {}
          /\ \A q \in Requests : \/ outcome'[q] = kept[q]
                                 \/ outcome'[q] = "aborted" /\ q \in pending
      BY <2>1, <2>2, FailAllIs
    <2>4. \A q \in Requests :
             \/ outcome'[q] = outcome[q]
             \/ q \in pending /\ outcome'[q] \in {"aborted", "mismatch"}
      BY <1>5, <2>1, <2>3
    <2> QED BY <1>1, <1>2, <1>5, <2>3, <2>4, KillBreaks
  <1> QED BY <1>3, <1>4, <1>5 DEF Receive

LEMMA ClientType ==
    ASSUME Types, BindInv, ClientNext
    PROVE  Types' /\ BindInv'
  <1>1. CASE \/ Close \/ ChildExit \/ Garbage
             \/ \E r \in Requests : Timeout(r) \/ WriteFails(r)
    <2>1. /\ Broken /\ closed' \in BOOLEAN
          /\ UNCHANGED <<method, binding, output, server, host, chain, evidence>>
          /\ outcome' \in [Requests -> Results] /\ pending' \subseteq pending
      BY <1>1, FailureIs
    <2> QED BY <2>1 DEF Broken, Types, ServerTypeOK, BindInv, Results, host
  <1>2. CASE Receive
    <2> DEFINE answer == Head(output)
               r == answer.request
    <2>1. /\ r \in Requests /\ answer \in Answers
          /\ UNCHANGED <<method, binding, server, host, chain>>
          /\ \/ /\ r \notin pending
                /\ UNCHANGED <<connected, input, unsent, client>>
             \/ /\ r \in pending /\ pending' = pending \ {r}
                /\ outcome' = [outcome EXCEPT ![r] = answer.code]
                /\ evidence' \in Places \cup {None}
                /\ UNCHANGED <<connected, input, unsent, closed>>
             \/ /\ r \in pending /\ closed' = TRUE /\ pending' = {}
                /\ Broken /\ ~connected' /\ UNCHANGED evidence
                /\ outcome' \in [Requests -> Results]
      BY <1>2, ReceiveIs
    <2>2. output' \in Seq(Answers)
      BY <1>2, HeadTailProperties DEF Receive, Types, ServerTypeOK, Answers
    <2>3. answer.code \in Codes
      BY <2>1 DEF Answers
    <2> HIDE DEF answer, r
    <2>4. /\ outcome' \in [Requests -> Results] /\ pending' \subseteq pending
          /\ closed' \in BOOLEAN /\ evidence' \in Places \cup {None} /\ Broken
      BY <2>1, <2>3, IdleBreaks DEF Types, Results, client
    <2> QED BY <2>1, <2>2, <2>4
            DEF Types, ServerTypeOK, BindInv, Broken, Results, Answers, host
  <1> QED BY <1>1, <1>2, CallType, DispatchType DEF ClientNext

-----------------------------------------------------------------------------
(* Requests pass.                                                          *)

LEMMA AnsweredLater ==
    ASSUME Types, NEW answer \in Answers, output' = Append(output, answer),
           NEW r
    PROVE  Answered(r)' <=> Answered(r) \/ answer.request = r
  <1>1. output \in Seq(Answers)
    BY DEF Types, ServerTypeOK, Answers
  <1>2. /\ DOMAIN output = 1..Len(output) /\ Len(output) \in Nat
        /\ DOMAIN output' = 1..(Len(output) + 1)
        /\ \A i \in 1..Len(output) : output'[i] = output[i]
        /\ output'[Len(output) + 1] = answer
    BY <1>1, AppendProperties, LenProperties
  <1>3. \A i \in DOMAIN output' : \/ i \in DOMAIN output
                                  \/ i = Len(output) + 1
    BY <1>2
  <1>4. DOMAIN output \subseteq DOMAIN output' /\ Len(output) + 1 \in DOMAIN output'
    BY <1>2
  <1> QED BY <1>2, <1>3, <1>4 DEF Answered

LEMMA AnswersOnce ==
    ASSUME Types, PassInv, NEW answer \in Answers, ~Answered(answer.request),
           output' = Append(output, answer)
    PROVE  \A i, j \in DOMAIN output' :
              output'[i].request = output'[j].request => i = j
  <1>1. output \in Seq(Answers)
    BY DEF Types, ServerTypeOK, Answers
  <1>2. /\ DOMAIN output = 1..Len(output) /\ Len(output) \in Nat
        /\ DOMAIN output' = 1..(Len(output) + 1)
        /\ \A i \in 1..Len(output) : output'[i] = output[i]
        /\ output'[Len(output) + 1] = answer
    BY <1>1, AppendProperties, LenProperties
  <1>3. \A i \in DOMAIN output' : \/ i \in DOMAIN output
                                  \/ i = Len(output) + 1
    BY <1>2
  <1>4. \A i \in DOMAIN output : output[i].request # answer.request
    BY DEF Answered
  <1> QED BY <1>2, <1>3, <1>4 DEF PassInv

\* What is left of the answers when one has been read.
LEMMA AnsweredBefore ==
    ASSUME Types, PassInv, Receive
    PROVE  /\ Answered(Head(output).request)
           /\ \A r : Answered(r)' => Answered(r) /\ r # Head(output).request
           /\ \A i \in DOMAIN output' : \E j \in DOMAIN output :
                 output'[i] = output[j]
           /\ \A i, j \in DOMAIN output' :
                 output'[i].request = output'[j].request => i = j
  <1>1. output \in Seq(Answers) /\ output # << >> /\ output' = Tail(output)
    BY DEF Types, ServerTypeOK, Answers, Receive
  <1>2. /\ DOMAIN output = 1..Len(output) /\ Len(output) \in Nat
        /\ Head(output) = output[1] /\ Len(output) > 0
        /\ DOMAIN output' = 1..(Len(output) - 1)
        /\ \A i \in 1..(Len(output) - 1) : output'[i] = output[i + 1]
    BY <1>1, HeadTailProperties, LenProperties, EmptySeq
  <1>3. ASSUME NEW i \in DOMAIN output'
        PROVE  /\ i + 1 \in DOMAIN output /\ output'[i] = output[i + 1]
               /\ i \in Int /\ i + 1 # 1
    BY <1>2
  <1>4. 1 \in DOMAIN output
    BY <1>2
  <1>5. \A i \in DOMAIN output' : output'[i].request # output[1].request
    BY <1>3, <1>4 DEF PassInv
  <1>6. ASSUME NEW i \in DOMAIN output', NEW j \in DOMAIN output',
               output'[i].request = output'[j].request
        PROVE  i = j
    <2>1. i + 1 = j + 1
      BY <1>3, <1>6 DEF PassInv
    <2> QED BY <1>3, <2>1
  <1>7. \A r : Answered(r)' => Answered(r) /\ r # Head(output).request
    BY <1>2, <1>3, <1>5 DEF Answered
  <1>8. Answered(Head(output).request)
    BY <1>2, <1>4 DEF Answered
  <1> QED BY <1>3, <1>6, <1>7, <1>8

\* Nobody moves in the channel, or the helper lets go of what it serves.
LEMMA StillPass ==
    ASSUME PassInv, UNCHANGED <<client, method, connected, input, unsent, output>>,
           \A r \in Requests : Served(r)' => Served(r)
    PROVE  PassInv'
  <1>1. \A r \in Requests : /\ Waits(r)' <=> Waits(r)
                            /\ Underway(r)' <=> Underway(r)
                            /\ Answered(r)' <=> Answered(r)
    BY DEF Waits, Underway, Answered, client
  <1>2. UNCHANGED <<chain, pending, outcome, closed>>
    BY DEF client
  <1>3. \A r \in Requests : Passes(r)'
    BY <1>1, <1>2 DEF PassInv, Passes
  <1> QED BY <1>1, <1>2, <1>3 DEF PassInv

LEMMA ReadPass ==
    ASSUME IInv, Read, UNCHANGED client
    PROVE  PassInv'
  <1> DEFINE h == Head(input)
  <1>1. /\ input \in Seq(Requests) /\ input # << >> /\ IsInjective(input)
        /\ input' = Tail(input) /\ server'.request = h
        /\ UNCHANGED <<method, connected, unsent, output>>
    BY DEF Read, IInv, PassInv, Types, ServerTypeOK
  <1>2. /\ IsInjective(input') /\ Range(input') = Range(input) \ {h}
        /\ h \in Range(input) /\ h \in Requests
    BY <1>1, TailRange
  <1> HIDE DEF h
  <1>3. server.request = None
    BY DEF Read, Serving, IInv, BindInv
  <1>4. \A r \in Requests : r # None
    BY RuntimeAssumption DEF RuntimeAssumption, Requests
  <1>5. UNCHANGED <<chain, pending, outcome, closed>>
    BY DEF client
  <1>6. \A r \in Requests : /\ Waits(r)' <=> Waits(r)
                            /\ Underway(r)' <=> Underway(r) /\ r # h
                            /\ Answered(r)' <=> Answered(r)
                            /\ Served(r)' <=> r = h
    BY <1>1, <1>2, <1>5 DEF Waits, Underway, Answered, Served
  <1>7. Underway(h)
    BY <1>2 DEF Underway
  <1>8. ASSUME NEW r \in Requests
        PROVE  Passes(r)'
    BY <1>1, <1>5, <1>6, <1>7 DEF IInv, PassInv, Passes
  <1>9. \A r \in Requests : Underway(r)' \/ Served(r)' \/ Answered(r)' =>
           Underway(r) \/ Served(r) \/ Answered(r)
    BY <1>6, <1>7
  <1> QED BY <1>1, <1>2, <1>5, <1>8, <1>9 DEF IInv, PassInv

\* The helper answers.
LEMMA AnswerPass ==
    ASSUME IInv, server.request \in Requests, NEW code \in Codes,
           NEW seen \in Places \cup {None}, Answer(code, seen),
           UNCHANGED <<client, method, connected, input, unsent>>
    PROVE  PassInv'
  <1> DEFINE s == server.request
             answer == [request |-> s, code |-> code, evidence |-> seen]
  <1>0. Types /\ PassInv
    BY DEF IInv
  <1>1. server'.request = None
    BY <1>0, AnswerType
  <1>2. \A r \in Requests : r # None
    BY RuntimeAssumption DEF RuntimeAssumption, Requests
  <1>3. \A r \in Requests : ~Served(r)'
    BY <1>1, <1>2 DEF Served
  <1>4. Served(s) /\ Passes(s) /\ ~Answered(s)
    BY <1>0 DEF Served, PassInv, Passes
  <1>5. answer \in Answers /\ answer.request = s
    BY DEF Answers
  <1>6. UNCHANGED <<chain, pending, outcome, closed>>
    BY DEF client
  <1>7. CASE UNCHANGED output
    BY <1>0, <1>3, <1>7, StillPass
  <1>8. CASE output' = Append(output, answer)
    <2> HIDE DEF answer, s
    <2>1. \A r : Answered(r)' <=> Answered(r) \/ r = s
      BY <1>0, <1>5, <1>8, AnsweredLater
    <2>2. \A i, j \in DOMAIN output' :
             output'[i].request = output'[j].request => i = j
      BY <1>0, <1>4, <1>5, <1>8, AnswersOnce
    <2>3. \A r \in Requests : /\ Waits(r)' <=> Waits(r)
                              /\ Underway(r)' <=> Underway(r)
      BY <1>6 DEF Waits, Underway
    <2>4. ASSUME NEW r \in Requests
          PROVE  Passes(r)'
      <3>1. Passes(r)
        BY <1>0 DEF PassInv
      <3> QED BY <1>3, <1>4, <1>6, <2>1, <2>3, <3>1 DEF Passes
    <2>5. \A r \in Requests : Underway(r)' \/ Served(r)' \/ Answered(r)' =>
             Underway(r) \/ Served(r) \/ Answered(r)
      BY <1>3, <1>4, <2>1, <2>3
    <2> QED BY <1>0, <1>6, <2>2, <2>4, <2>5 DEF PassInv
  <1> QED BY <1>7, <1>8 DEF Answer

\* The channel breaks; requests nobody answered may settle without an answer.
LEMMA BrokenPass ==
    ASSUME Types, PassInv, Broken,
           UNCHANGED <<method, output, server, chain>>,
           closed \in BOOLEAN, closed' \in BOOLEAN, closed => closed',
           pending' \subseteq pending,
           \/ closed' \/ pending' = pending
           \/ \E r \in unsent : pending' = pending \ {r},
           \A q \in Requests :
              \/ outcome'[q] = outcome[q]
              \/ /\ q \in pending /\ q \notin pending'
                 /\ \/ outcome'[q] \in {"closed", "timed_out", "exited",
                                        "aborted"}
                    \/ outcome'[q] = "write_failed" /\ q \in unsent
    PROVE  PassInv'
  <1>1. /\ Range(input') \subseteq Range(input) /\ IsInjective(input')
        /\ unsent \subseteq unsent'
        /\ unsent' \subseteq unsent \cup (Range(input) \ Range(input'))
    <2>1. CASE UNCHANGED <<input, unsent>>
      BY <2>1 DEF PassInv
    <2>2. CASE /\ input' = << >> /\ unsent \subseteq unsent'
               /\ unsent' \subseteq unsent \cup Range(input)
      BY <2>2, EmptyRange
    <2> QED BY <2>1, <2>2 DEF Broken
  <1>2. \A r \in Requests : /\ Waits(r)' <=> Waits(r)
                            /\ Underway(r)' => Underway(r)
                            /\ r \in unsent' => r \in unsent \/ Underway(r)
                            /\ r \in unsent' /\ Underway(r)' => r \in unsent
                            /\ Answered(r)' <=> Answered(r)
                            /\ Served(r)' <=> Served(r)
    BY <1>1 DEF Waits, Underway, Answered, Served
  <1>3. ASSUME NEW r \in Requests
        PROVE  Passes(r)'
    <2>1. Passes(r)
      BY DEF PassInv
    <2>2. r \in unsent => r \in unsent'
      BY <1>1
    <2>3. CASE outcome'[r] = outcome[r]
      BY <1>2, <2>1, <2>2, <2>3 DEF Passes
    <2>4. CASE /\ r \in pending /\ r \notin pending'
               /\ \/ outcome'[r] \in {"closed", "timed_out", "exited", "aborted"}
                  \/ outcome'[r] = "write_failed" /\ r \in unsent
      <3>1. ~Waits(r)
        BY <2>1, <2>4 DEF Passes
      <3>2. outcome'[r] \notin {"is_closed", "request_too_large"} \cup Codes
        BY <2>4 DEF Codes
      <3> QED BY <1>2, <2>1, <2>2, <2>4, <3>1, <3>2 DEF Passes
    <2> QED BY <2>3, <2>4
  <1>4. connected' => connected /\ UNCHANGED unsent
    BY DEF Broken
  <1>5. ASSUME connected', ~closed', NEW r \in Requests,
               Underway(r)' \/ Served(r)' \/ Answered(r)'
        PROVE  r \in pending'
    <2>1. connected /\ ~closed /\ unsent = {}
      BY <1>4, <1>5 DEF PassInv
    <2>2. pending' = pending
      BY <1>5, <2>1
    <2>3. Underway(r) \/ Served(r) \/ Answered(r)
      BY <1>2, <1>5
    <2> QED BY <2>1, <2>2, <2>3 DEF PassInv
  <1> QED BY <1>1, <1>3, <1>4, <1>5 DEF PassInv

LEMMA CallPass ==
    ASSUME IInv, NEW r \in Requests, NEW m \in Methods, Call(r, m)
    PROVE  PassInv'
  <1>0. Types /\ PassInv
    BY DEF IInv
  <1>1. /\ method[r] = None /\ method' = [method EXCEPT ![r] = m]
        /\ chain' = Append(chain, r)
        /\ UNCHANGED <<connected, input, unsent, output, server, pending,
                       outcome, closed>>
    BY DEF Call
  <1>2. r \notin Range(chain)
    BY <1>0, <1>1 DEF PassInv, Passes
  <1>3. IsInjective(chain') /\ Range(chain') = Range(chain) \cup {r}
    BY <1>0, <1>1, <1>2, AppendRange DEF Types, PassInv
  <1>4. /\ method'[r] = m /\ m # None
        /\ \A q \in Requests \ {r} : method'[q] = method[q]
    BY <1>0, <1>1, RuntimeAssumption
       DEF Types, ServerTypeOK, RuntimeAssumption
  <1>5. \A q \in Requests : /\ Waits(q)' => Waits(q)
                            /\ q \in Range(chain') => method'[q] # None
                            /\ Underway(q)' <=> Underway(q)
                            /\ Answered(q)' <=> Answered(q)
                            /\ Served(q)' <=> Served(q)
    <2> SUFFICES ASSUME NEW q \in Requests
                 PROVE  /\ Waits(q)' => Waits(q)
                        /\ q \in Range(chain') => method'[q] # None
                        /\ Underway(q)' <=> Underway(q)
                        /\ Answered(q)' <=> Answered(q)
                        /\ Served(q)' <=> Served(q)
      OBVIOUS
    <2>1. q \in Range(chain) => method[q] # None
      BY <1>0 DEF PassInv, Passes
    <2> QED BY <1>1, <1>3, <1>4, <2>1 DEF Waits, Underway, Answered, Served
  <1>6. \A q \in Requests : Passes(q)'
    BY <1>0, <1>1, <1>5 DEF PassInv, Passes
  <1> QED BY <1>0, <1>1, <1>3, <1>5, <1>6 DEF PassInv

\* Nobody else is pending when the turn has come to a request.
LEMMA TurnIs ==
    ASSUME Types, PassInv, NEW r \in Requests, Turn(r)
    PROVE  pending = {}
  <1> SUFFICES ASSUME NEW p \in pending
               PROVE  FALSE
    OBVIOUS
  <1>1. p \in Requests /\ Passes(p) /\ outcome[p] = None
    BY DEF Types, PassInv, Passes
  <1>2. ~Waits(p)
    BY <1>1 DEF Passes
  <1> QED BY <1>1, <1>2 DEF Turn, Settled, Waits

LEMMA DispatchPass ==
    ASSUME IInv, NEW r \in Requests, NEW oversized \in BOOLEAN,
           Dispatch(r, oversized)
    PROVE  PassInv'
  <1>0. Types /\ PassInv
    BY DEF IInv
  <1>1. /\ r \in Range(chain) /\ IsInjective(chain')
        /\ Range(chain') = Range(chain) \ {r}
    BY <1>0, TailRange DEF Dispatch, Types, PassInv
  <1>2. UNCHANGED <<method, connected, output, server, closed>>
    BY DEF Dispatch
  <1>3. /\ outcome[r] = None /\ r \notin unsent /\ method[r] # None
        /\ ~Underway(r) /\ ~Served(r) /\ ~Answered(r)
    BY <1>0, <1>1 DEF PassInv, Passes, Waits
  <1>4. pending = {}
    BY <1>0, TurnIs DEF Dispatch
  <1>5. \A q \in Requests : /\ Waits(q)' <=> Waits(q) /\ q # r
                            /\ Answered(q)' <=> Answered(q)
                            /\ Served(q)' <=> Served(q)
    BY <1>1, <1>2, <1>3 DEF Waits, Answered, Served
  <1>6. connected /\ ~closed => \A q \in Requests :
           ~Underway(q) /\ ~Served(q) /\ ~Answered(q)
    BY <1>0, <1>4 DEF PassInv
  <1>7. CASE closed \/ oversized
    <2>1. /\ outcome'[r] \in {"is_closed", "request_too_large"}
          /\ \A q \in Requests \ {r} : outcome'[q] = outcome[q]
          /\ UNCHANGED <<input, unsent, pending>>
      BY <1>0, <1>7 DEF Dispatch, Types
    <2>2. \A q \in Requests : Underway(q)' <=> Underway(q)
      BY <2>1 DEF Underway
    <2>3. ASSUME NEW q \in Requests
          PROVE  Passes(q)'
      <3>1. Passes(q)
        BY <1>0 DEF PassInv
      <3>2. CASE q = r
        BY <1>1, <1>2, <1>3, <1>4, <1>5, <2>1, <2>2, <3>2 DEF Passes
      <3>3. CASE q # r
        BY <1>1, <1>2, <1>5, <2>1, <2>2, <3>1, <3>3 DEF Passes
      <3> QED BY <3>2, <3>3
    <2> QED BY <1>0, <1>1, <1>2, <1>5, <2>1, <2>2, <2>3 DEF PassInv
  <1>8. CASE ~(closed \/ oversized)
    <2>1. /\ pending' = {r} /\ UNCHANGED outcome
          /\ \/ connected /\ input' = Append(input, r) /\ UNCHANGED unsent
             \/ ~connected /\ unsent' = unsent \cup {r} /\ UNCHANGED input
      BY <1>4, <1>8 DEF Dispatch
    <2>2. r \notin Range(input)
      BY <1>3 DEF Underway
    <2>3. CASE connected /\ input' = Append(input, r) /\ UNCHANGED unsent
      <3>1. IsInjective(input') /\ Range(input') = Range(input) \cup {r}
        BY <1>0, <2>2, <2>3, AppendRange DEF Types, ServerTypeOK, PassInv
      <3>2. \A q \in Requests : Underway(q)' <=> Underway(q) \/ q = r
        BY <3>1 DEF Underway
      <3>3. ASSUME NEW q \in Requests
            PROVE  Passes(q)'
        <4>1. Passes(q)
          BY <1>0 DEF PassInv
        <4>2. CASE q = r
          <5>1. outcome'[q] \notin {"is_closed", "request_too_large",
                                    "write_failed"} \cup Codes
            BY <1>3, <2>1, <4>2, RuntimeAssumption, ChannelAssumption
               DEF RuntimeAssumption, ChannelAssumption, Local
          <5> QED BY <1>1, <1>2, <1>3, <1>5, <2>1, <2>3, <3>2, <4>2, <5>1
                     DEF Passes
        <4>3. CASE q # r
          BY <1>1, <1>2, <1>5, <2>1, <2>3, <3>2, <4>1, <4>3 DEF Passes
        <4> QED BY <4>2, <4>3
      <3> QED BY <1>0, <1>1, <1>2, <1>5, <1>6, <2>1, <2>3, <3>1, <3>2, <3>3
              DEF PassInv
    <2>4. CASE ~connected /\ unsent' = unsent \cup {r} /\ UNCHANGED input
      <3>1. \A q \in Requests : Underway(q)' <=> Underway(q)
        BY <2>4 DEF Underway
      <3>2. ASSUME NEW q \in Requests
            PROVE  Passes(q)'
        <4>1. Passes(q)
          BY <1>0 DEF PassInv
        <4>2. CASE q = r
          <5>1. outcome'[q] \notin {"is_closed", "request_too_large"} \cup Codes
            BY <1>3, <2>1, <4>2, RuntimeAssumption, ChannelAssumption
               DEF RuntimeAssumption, ChannelAssumption, Local
          <5> QED BY <1>1, <1>2, <1>3, <1>5, <2>1, <2>4, <3>1, <4>2, <5>1
                     DEF Passes
        <4>3. CASE q # r
          BY <1>1, <1>2, <1>5, <2>1, <2>4, <3>1, <4>1, <4>3 DEF Passes
        <4> QED BY <4>2, <4>3
      <3> QED BY <1>0, <1>1, <1>2, <1>5, <2>1, <2>4, <3>1, <3>2 DEF PassInv
    <2> QED BY <2>1, <2>3, <2>4
  <1> QED BY <1>7, <1>8

LEMMA ReceivePass ==
    ASSUME IInv, Receive
    PROVE  PassInv'
  <1> DEFINE answer == Head(output)
             r == answer.request
  <1>0. Types /\ PassInv
    BY DEF IInv
  <1>1. /\ r \in Requests /\ answer \in Answers
        /\ UNCHANGED <<method, server, chain>>
    BY <1>0, ReceiveIs
  <1>2. /\ Answered(r) /\ \A q \in Requests : Answered(q)' => Answered(q) /\ q # r
        /\ \A i, j \in DOMAIN output' :
              output'[i].request = output'[j].request => i = j
    BY <1>0, AnsweredBefore
  <1>3. Passes(r) /\ ~Waits(r) /\ ~Underway(r) /\ ~Served(r) /\ r \notin unsent
    BY <1>0, <1>1, <1>2 DEF PassInv, Passes
  <1>4. \A q \in Requests : /\ Waits(q)' <=> Waits(q)
                            /\ Served(q)' <=> Served(q)
    BY <1>1 DEF Waits, Served
  <1>a. answer.code \in Codes
    BY <1>1 DEF Answers
  <1>5. CASE r \notin pending /\ UNCHANGED <<connected, input, unsent, client>>
    <2>1. UNCHANGED <<pending, outcome, closed>>
      BY <1>5 DEF client
    <2>2. \A q \in Requests : Underway(q)' <=> Underway(q)
      BY <1>5 DEF Underway
    <2> HIDE DEF answer, r
    <2>3. ASSUME NEW q \in Requests
          PROVE  Passes(q)'
      BY <1>0, <1>1, <1>2, <1>4, <1>5, <2>1, <2>2 DEF PassInv, Passes
    <2> QED BY <1>0, <1>1, <1>2, <1>4, <1>5, <2>1, <2>2, <2>3 DEF PassInv
  <1>6. CASE /\ r \in pending /\ pending' = pending \ {r}
             /\ outcome' = [outcome EXCEPT ![r] = answer.code]
             /\ UNCHANGED <<connected, input, unsent, closed>>
    <2>1. \A q \in Requests : Underway(q)' <=> Underway(q)
      BY <1>6 DEF Underway
    <2>2. /\ outcome'[r] = answer.code
          /\ \A q \in Requests \ {r} : outcome'[q] = outcome[q]
      BY <1>0, <1>1, <1>6 DEF Types
    <2> HIDE DEF answer, r
    <2>3. ASSUME NEW q \in Requests
          PROVE  Passes(q)'
      <3>1. CASE q = r
        <4>1. outcome'[r] # "write_failed"
          BY <1>a, <2>2 DEF Codes
        <4> QED BY <1>1, <1>2, <1>3, <1>4, <1>6, <2>1, <3>1, <4>1 DEF Passes
      <3>2. CASE q # r
        BY <1>0, <1>1, <1>2, <1>4, <1>6, <2>1, <2>2, <3>2 DEF PassInv, Passes
      <3> QED BY <3>1, <3>2
    <2>4. ASSUME connected', ~closed', NEW q \in Requests,
                 Underway(q)' \/ Served(q)' \/ Answered(q)'
          PROVE  q \in pending'
      <3>1. q # r
        BY <1>2, <1>3, <1>4, <2>1, <2>4
      <3>2. q \in pending
        BY <1>0, <1>2, <1>4, <1>6, <2>1, <2>4 DEF PassInv
      <3> QED BY <1>6, <3>1, <3>2
    <2> QED BY <1>0, <1>1, <1>2, <1>6, <2>3, <2>4 DEF PassInv
  <1>7. CASE /\ r \in pending /\ closed' = TRUE /\ pending' = {}
             /\ Broken /\ ~connected'
             /\ \A q \in Requests :
                   \/ outcome'[q] = outcome[q]
                   \/ q \in pending /\ outcome'[q] \in {"aborted", "mismatch"}
    <2> HIDE DEF answer, r
    <2>1. /\ Range(input') \subseteq Range(input) /\ IsInjective(input')
          /\ unsent \subseteq unsent'
          /\ unsent' \subseteq unsent \cup (Range(input) \ Range(input'))
      <3>1. CASE UNCHANGED <<input, unsent>>
        BY <1>0, <3>1 DEF PassInv
      <3>2. CASE /\ input' = << >> /\ unsent \subseteq unsent'
                 /\ unsent' \subseteq unsent \cup Range(input)
        BY <3>2, EmptyRange
      <3> QED BY <1>7, <3>1, <3>2 DEF Broken
    <2>2. \A q \in Requests : /\ Underway(q)' => Underway(q)
                              /\ q \in unsent' => q \in unsent \/ Underway(q)
                              /\ q \in unsent' /\ Underway(q)' => q \in unsent
      BY <2>1 DEF Underway
    <2>3. ASSUME NEW q \in Requests
          PROVE  Passes(q)'
      <3>1. Passes(q) /\ (q \in unsent => q \in unsent') /\ q \notin pending'
        BY <1>0, <1>7, <2>1 DEF PassInv
      <3>2. CASE outcome'[q] = outcome[q]
        BY <1>1, <1>2, <1>4, <2>2, <3>1, <3>2 DEF Passes
      <3>3. CASE q \in pending /\ outcome'[q] \in {"aborted", "mismatch"}
        <4>1. /\ ~Waits(q)
              /\ outcome'[q] \notin {"is_closed", "request_too_large",
                                     "write_failed"} \cup Codes
          BY <3>1, <3>3 DEF Passes, Codes
        <4> QED BY <1>1, <1>2, <1>4, <2>2, <3>1, <4>1 DEF Passes
      <3> QED BY <1>7, <3>2, <3>3
    <2> QED BY <1>2, <1>7, <1>1, <1>0, <2>1, <2>3 DEF PassInv
  <1> QED BY <1>0, <1>5, <1>6, <1>7, ReceiveIs

LEMMA ClientPass ==
    ASSUME IInv, ClientNext
    PROVE  PassInv'
  <1>1. CASE \/ Close \/ ChildExit \/ Garbage
             \/ \E r \in Requests : Timeout(r) \/ WriteFails(r)
    <2>0. Types /\ PassInv /\ closed \in BOOLEAN
      BY DEF IInv, Types
    <2>1. /\ Broken /\ closed' \in BOOLEAN /\ (closed => closed')
          /\ UNCHANGED <<method, output, server, chain>>
          /\ pending' \subseteq pending
          /\ closed' \/ \E r \in unsent : pending' = pending \ {r}
          /\ \A q \in Requests :
                \/ outcome'[q] = outcome[q]
                \/ /\ q \in pending /\ q \notin pending'
                   /\ \/ outcome'[q] \in {"closed", "timed_out", "exited",
                                          "aborted"}
                      \/ outcome'[q] = "write_failed" /\ q \in unsent
      BY <1>1, <2>0, FailureIs
    <2> QED BY <2>0, <2>1, BrokenPass
  <1> QED BY <1>1, CallPass, DispatchPass, ReceivePass DEF ClientNext

\* In the eyes of the channel the helper answers, or goes on.
Answering ==
    /\ server.request \in Requests
    /\ \E code \in Codes, seen \in Places \cup {None} : Answer(code, seen)
    /\ UNCHANGED <<method, binding, connected, input, unsent>>
GoingOn ==
    /\ UNCHANGED <<method, binding, connected, input, unsent, output>>
    /\ server'.request = server.request

LEMMA ServerMoves ==
    ASSUME IInv, ServerNext
    PROVE  Read \/ Disconnect \/ EndOfInput \/ Answering \/ GoingOn
  <1>0. Types /\ BindInv /\ WorkInv
    BY DEF IInv
  <1>1. server.step \notin {"read", "gone"} => server.request \in Requests
    BY <1>0, ServedIs
  <1>2. \A step, seen : Proceed(step, seen) =>
           server'.request = server.request /\ UNCHANGED output
    <2> SUFFICES ASSUME NEW step, NEW seen, Proceed(step, seen)
                 PROVE  server'.request = server.request /\ UNCHANGED output
      OBVIOUS
    <2>1. server \in Servers
      BY <1>0 DEF Types, ServerTypeOK, Servers
    <2> QED BY <2>1 DEF Proceed, Servers
  <1>3. CASE \/ Handshake \/ InvalidParams \/ ExecEnds \/ InspectFails
             \/ GuardAnswers \/ DockerClientFails
    <2>1. server.step \notin {"read", "gone"}
      BY <1>3 DEF Handshake, InvalidParams, ExecEnds, InspectFails,
                  GuardAnswers, DockerClientFails, Serving, Inspecting, Methods
    <2>2. \E code \in Codes : Answer(code, None)
      <3>1. CASE Handshake
        BY <3>1 DEF Handshake, Codes
      <3>2. CASE InvalidParams
        BY <3>2 DEF InvalidParams, Codes
      <3>3. CASE ExecEnds
        BY <3>3 DEF ExecEnds, Codes
      <3>4. CASE InspectFails
        BY <3>4 DEF InspectFails, Codes
      <3>5. CASE GuardAnswers
        BY <3>5 DEF GuardAnswers, Codes
      <3>6. CASE DockerClientFails
        BY <3>6 DEF DockerClientFails, Unseen, Codes
      <3> QED BY <1>3, <3>1, <3>2, <3>3, <3>4, <3>5, <3>6
    <2>3. UNCHANGED <<method, binding, connected, input, unsent>>
      BY <1>3 DEF Handshake, InvalidParams, ExecEnds, InspectFails,
                  GuardAnswers, DockerClientFails
    <2> QED BY <1>1, <2>1, <2>2, <2>3 DEF Answering
  <1>4. CASE Exec
    <2>1. /\ server.step = "exec"
          /\ UNCHANGED <<method, binding, connected, input, unsent>>
          /\ \/ Proceed("program", None)
             \/ \E code \in Codes : Answer(code, None)
      BY <1>4 DEF Exec, Serving, Codes
    <2> QED BY <1>1, <1>2, <2>1 DEF Answering, GoingOn
  <1>5. CASE InspectRecord
    BY <1>2, <1>5 DEF InspectRecord, GoingOn
  <1>6. CASE Probe
    <2> DEFINE seen == [server.saw EXCEPT !.uid = container.uid]
    <2>1. /\ server.step = "probe"
          /\ UNCHANGED <<method, binding, connected, input, unsent>>
          /\ \/ Proceed("enter", seen)
             \/ \E code \in Codes : Answer(code, None)
             \/ \E code \in Codes : Answer(code, seen)
      BY <1>6 DEF Probe, Serving, Codes
    <2>2. server.saw \in Places
      BY <1>0, <1>1, <2>1, ServedIs DEF Work
    <2>3. seen \in Places
      BY <1>0, <2>2 DEF Places, Types, ServerTypeOK
    <2> HIDE DEF seen
    <2> QED BY <1>1, <1>2, <2>1, <2>3 DEF Answering, GoingOn
  <1>7. CASE Enter
    <2>1. /\ server.step = "enter"
          /\ UNCHANGED <<method, binding, connected, input, unsent>>
          /\ \/ Proceed("guard", server.saw)
             \/ \E code \in Codes : Answer(code, None)
      BY <1>7 DEF Enter, Serving, Codes
    <2> QED BY <1>1, <1>2, <2>1 DEF Answering, GoingOn
  <1>8. CASE \/ ContainerChanges
             \/ \E r \in Requests : GuardChecks(r) \/ GuardedEnds(r)
    BY <1>8 DEF ContainerChanges, GuardChecks, GuardedEnds, GoingOn
  <1> QED BY <1>3, <1>4, <1>5, <1>6, <1>7, <1>8 DEF ServerNext

LEMMA ServerPass ==
    ASSUME IInv, ServerNext, UNCHANGED client
    PROVE  PassInv'
  <1>0. Types /\ BindInv /\ PassInv /\ closed \in BOOLEAN
    BY DEF IInv, Types
  <1>1. CASE Answering
    BY <1>1, AnswerPass DEF Answering
  <1>2. CASE GoingOn
    BY <1>0, <1>2, StillPass DEF GoingOn, Served
  <1>3. CASE EndOfInput
    <2>1. server'.request = None
      BY <1>3 DEF EndOfInput, Waiting, Gone
    <2>2. \A r \in Requests : ~Served(r)'
      BY <2>1, RuntimeAssumption DEF RuntimeAssumption, Requests, Served
    <2> QED BY <1>0, <1>3, <2>2, StillPass DEF EndOfInput
  <1>4. CASE Disconnect
    <2>1. Broken
      BY <1>0, <1>4, LoseIs DEF Disconnect, Broken, Types
    <2> QED BY <1>0, <1>4, <2>1, BrokenPass DEF Disconnect, client
  <1> QED BY <1>1, <1>2, <1>3, <1>4, ReadPass, ServerMoves


-----------------------------------------------------------------------------
(* What has been done stays as it was.                                     *)

\* A step that does nothing for r and says nothing of it.
LEMMA DoneStays ==
    ASSUME IInv, NEW r \in Requests,
           inside'[r] = inside[r], starts'[r] = starts[r],
           r \in alive' => r \in alive,
           method'[r] = method[r], binding'[r] = binding[r],
           Unread(r)' => Unread(r),
           Served(r)' => Served(r) /\ server' = server,
           \A code \in Codes : Told(r, code)' => Told(r, code)
    PROVE  Done(r)'
  <1>1. Done(r)
    BY DEF IInv, WorkInv
  <1>2. Untouched(r) => Untouched(r)'
    BY DEF Untouched
  <1>3. GuardWork(r) => GuardWork(r)'
    BY DEF GuardWork
  <1>4. \A code \in Codes : Tells(r, code) => Tells(r, code)'
    BY DEF Tells
  <1>5. Served(r)' => Work(r)'
    BY <1>1, <1>2 DEF Done, Work
  <1> QED BY <1>1, <1>2, <1>3, <1>4, <1>5 DEF Done

\* While the helper serves a request, nothing has been said of it.
LEMMA ServedIsFresh ==
    ASSUME IInv, NEW r \in Requests, Served(r)
    PROVE  ~Unread(r) /\ \A code \in Codes : ~Told(r, code)
  BY DEF IInv, PassInv, Passes, Unread, Told, Answered

\* The same places and the same answers.
LEMMA SameTold ==
    ASSUME UNCHANGED <<client, method, input, unsent, output>>
    PROVE  \A r \in Requests :
              /\ Unread(r)' <=> Unread(r)
              /\ \A code \in Codes : Told(r, code)' <=> Told(r, code)
  BY DEF client, Unread, Waits, Underway, Told

\* The helper answers the request it serves.
LEMMA AnswerWork ==
    ASSUME IInv, NEW r \in Requests, r = server.request, NEW code \in Codes,
           NEW seen \in Places \cup {None}, Answer(code, seen),
           UNCHANGED <<client, method, binding, input, unsent, inside, starts>>,
           alive' \subseteq alive, Tells(r, code)'
    PROVE  WorkInv'
  <1> DEFINE answer == [request |-> r, code |-> code, evidence |-> seen]
  <1>0. Types
    BY DEF IInv
  <1>1. server'.request = None
    BY <1>0, AnswerType
  <1>2. \A q \in Requests : ~Served(q)'
    BY <1>1, RuntimeAssumption DEF RuntimeAssumption, Requests, Served
  <1>3. Served(r) /\ ~Unread(r) /\ \A c \in Codes : ~Told(r, c)
    BY ServedIsFresh DEF Served
  <1>4. \A q \in Requests : Unread(q)' <=> Unread(q)
    BY DEF client, Unread, Waits, Underway
  <1>5. ASSUME NEW q \in Requests, NEW c \in Codes, Told(q, c)'
        PROVE  Told(q, c) \/ (q = r /\ c = code)
    <2>1. CASE UNCHANGED output
      BY <1>5, <2>1 DEF Told, client
    <2>2. CASE output' = Append(output, answer)
      <3>1. output \in Seq(Answers) /\ answer \in Answers
        BY <1>0 DEF Types, ServerTypeOK, Answers
      <3>2. answer.request = r /\ answer.code = code
        OBVIOUS
      <3> HIDE DEF answer
      <3>3. /\ DOMAIN output = 1..Len(output) /\ Len(output) \in Nat
            /\ DOMAIN output' = 1..(Len(output) + 1)
            /\ \A i \in 1..Len(output) : output'[i] = output[i]
            /\ output'[Len(output) + 1] = answer
        BY <2>2, <3>1, AppendProperties, LenProperties
      <3>4. outcome' = outcome
        BY DEF client
      <3>5. CASE outcome[q] = c
        BY <3>5 DEF Told
      <3>6. ASSUME NEW i \in DOMAIN output', output'[i].request = q,
                   output'[i].code = c
            PROVE  Told(q, c) \/ (q = r /\ c = code)
        <4>1. i \in 1..Len(output) \/ i = Len(output) + 1
          BY <3>3
        <4> QED BY <3>2, <3>3, <3>6, <4>1 DEF Told
      <3> QED BY <1>5, <3>4, <3>5, <3>6 DEF Told
    <2> QED BY <2>1, <2>2 DEF Answer
  <1>6. ASSUME NEW q \in Requests, q # r
        PROVE  Done(q)'
    BY <1>2, <1>4, <1>5, <1>6, DoneStays
  <1>7. Done(r)'
    <2>1. Done(r)
      BY DEF IInv, WorkInv
    <2>2. \A c \in Codes : Told(r, c)' => Tells(r, c)'
      BY <1>3, <1>5
    <2>3. GuardWork(r) => GuardWork(r)'
      BY DEF GuardWork
    <2> QED BY <1>2, <1>3, <1>4, <2>1, <2>2, <2>3 DEF Done
  <1> QED BY <1>6, <1>7 DEF WorkInv

\* The helper goes on with the request it serves.
LEMMA ProceedWork ==
    ASSUME IInv, NEW r \in Requests, r = server.request, server'.request = r,
           UNCHANGED <<client, method, binding, input, unsent, output>>,
           \A q \in Requests \ {r} : /\ inside'[q] = inside[q]
                                     /\ starts'[q] = starts[q]
                                     /\ q \in alive' => q \in alive,
           Work(r)',
           (inside[r] # None => GuardWork(r))',
           (starts[r] # << >> =>
              \/ method[r] = "exec" /\ starts[r] = << Host >>
              \/ method[r] = "docker.exec" /\ starts[r] = << binding[r] >>)'
    PROVE  WorkInv'
  <1>1. ~Unread(r) /\ \A code \in Codes : ~Told(r, code)
    BY ServedIsFresh DEF Served
  <1>2. \A q \in Requests :
           /\ Unread(q)' <=> Unread(q)
           /\ \A code \in Codes : Told(q, code)' <=> Told(q, code)
    BY SameTold
  <1>3. ASSUME NEW q \in Requests, q # r
        PROVE  Done(q)'
    BY <1>2, <1>3, DoneStays DEF Served
  <1>4. Done(r)'
    BY <1>1, <1>2 DEF Done
  <1> QED BY <1>3, <1>4 DEF WorkInv

LEMMA ReadWork ==
    ASSUME IInv, Read, UNCHANGED client
    PROVE  WorkInv'
  <1>0. Types /\ PassInv
    BY DEF IInv
  <1>h. PICK h \in Requests : h = Head(input)
    BY <1>0, TailRange DEF Read, PassInv, Types, ServerTypeOK
  <1>1. /\ input \in Seq(Requests) /\ input # << >> /\ IsInjective(input)
        /\ input' = Tail(input)
        /\ server' = [step |-> method[h], request |-> h, saw |-> None]
        /\ UNCHANGED <<method, binding, unsent, output, host>>
    BY <1>0, <1>h DEF Read, PassInv, Types, ServerTypeOK
  <1>2. /\ Range(input') = Range(input) \ {h} /\ h \in Range(input)
    BY <1>1, <1>h, TailRange
  <1>3. server'.request = h /\ server'.step = method[h]
    BY <1>1
  <1>4. \A q \in Requests :
           /\ Unread(q)' => Unread(q)
           /\ \A code \in Codes : Told(q, code)' <=> Told(q, code)
    BY <1>1, <1>2 DEF client, Unread, Waits, Underway, Told
  <1>5. ASSUME NEW q \in Requests, q # h
        PROVE  Done(q)'
    BY <1>1, <1>3, <1>4, <1>5, DoneStays DEF Served, host
  <1>6. Done(h)'
    <2>1. Done(h) /\ Unread(h) /\ Untouched(h)
      BY <1>2 DEF IInv, WorkInv, Done, Unread, Underway
    <2>2. method[h] \in Methods
      BY <1>0, <1>2 DEF PassInv, Passes, Underway, Waits, Types, ServerTypeOK
    <2>3. Untouched(h)' /\ method' = method
      BY <1>1, <2>1 DEF Untouched, host
    <2>4. Work(h)'
      BY <1>3, <2>2, <2>3 DEF Work, Methods
    <2>5. \A code \in Codes : Tells(h, code) => Tells(h, code)'
      BY <1>1 DEF Tells, host
    <2> QED BY <1>4, <2>1, <2>3, <2>4, <2>5 DEF Done, Untouched
  <1> QED BY <1>5, <1>6 DEF WorkInv

\* The helper has nothing to serve and nothing is done.
LEMMA IdleWork ==
    ASSUME IInv, UNCHANGED <<client, method, binding, output, host>>,
           \A r \in Requests : Unread(r)' => Unread(r),
           \A r \in Requests : Served(r)' => Served(r) /\ server' = server
    PROVE  WorkInv'
  <1>1. \A r \in Requests, code \in Codes : Told(r, code)' <=> Told(r, code)
    BY DEF Told, client
  <1>2. ASSUME NEW r \in Requests
        PROVE  Done(r)'
    BY <1>1, <1>2, DoneStays DEF host
  <1> QED BY <1>2 DEF WorkInv

\* An answer to a request for which nothing was done.
LEMMA UntouchedAnswerWork ==
    ASSUME IInv, NEW r \in Requests, r = server.request, Untouched(r),
           NEW code \in Codes, NEW seen \in Places \cup {None},
           Answer(code, seen),
           code # "ok" \/ method[r] \notin {"exec", "docker.exec"},
           UNCHANGED <<client, method, binding, input, unsent, host>>
    PROVE  WorkInv'
  <1>1. UNCHANGED <<inside, starts, alive>>
    BY DEF host
  <1>2. Tells(r, code)'
    BY <1>1 DEF Tells, Untouched
  <1> QED BY <1>1, <1>2, AnswerWork

LEMMA RefusalWork ==
    ASSUME IInv, UNCHANGED client,
           \/ Handshake \/ InvalidParams \/ InspectFails
    PROVE  WorkInv'
  <1>0. Types /\ BindInv /\ WorkInv
    BY DEF IInv
  <1>1. /\ server.step \in Methods \cup {"probe"}
        /\ server.step = "handshake" \/ ~Handshake
        /\ UNCHANGED <<method, binding, input, unsent, host>>
    BY DEF Handshake, InvalidParams, InspectFails, Serving, Inspecting, Methods
  <1>2. server.step \notin {"read", "gone"}
    BY <1>1 DEF Methods
  <1>3. PICK r \in Requests : r = server.request /\ Work(r)
    BY <1>0, <1>2, ServedIs
  <1>4. Untouched(r)
    BY <1>1, <1>3 DEF Work
  <1>5. CASE Handshake
    <2>1. PICK code \in Codes : Answer(code, None)
      BY <1>5 DEF Handshake, Codes
    <2>2. method[r] = "handshake"
      BY <1>1, <1>3, <1>5 DEF Work, Methods
    <2> QED BY <1>1, <1>3, <1>4, <2>1, <2>2, UntouchedAnswerWork
  <1>6. CASE InvalidParams
    <2>1. Answer("invalid_params", None) /\ "invalid_params" \in Codes
      BY <1>6 DEF InvalidParams, Codes
    <2> QED BY <1>1, <1>3, <1>4, <2>1, UntouchedAnswerWork
  <1>7. CASE InspectFails
    <2>1. PICK code \in {"stale_binding", "docker_inspect_failed"} :
             Answer(code, None)
      BY <1>7 DEF InspectFails
    <2>2. code \in Codes /\ code # "ok"
      BY DEF Codes
    <2> QED BY <1>1, <1>3, <1>4, <2>1, <2>2, UntouchedAnswerWork
  <1> QED BY <1>5, <1>6, <1>7

LEMMA InspectRecordWork ==
    ASSUME IInv, InspectRecord, UNCHANGED client
    PROVE  WorkInv'
  <1>0. Types /\ BindInv /\ WorkInv
    BY DEF IInv
  <1>1. /\ server.step \in {"docker.inspect", "docker.exec"}
        /\ Proceed("probe", Place) /\ Place \in Places
        /\ UNCHANGED <<method, binding, input, unsent, host>>
    BY <1>0, PlacesAre DEF InspectRecord
  <1>2. PICK r \in Requests : r = server.request /\ Work(r)
    BY <1>0, <1>1, ServedIs
  <1>3. Untouched(r) /\ method[r] \in {"docker.inspect", "docker.exec"}
    BY <1>1, <1>2 DEF Work, Methods
  <1>4. /\ server'.step = "probe" /\ server'.request = r
        /\ server'.saw \in Places /\ output' = output
    BY <1>0, <1>1, <1>2, ProceedType
  <1>5. Untouched(r)' /\ UNCHANGED <<method, binding, inside, starts, alive>>
    BY <1>1, <1>3 DEF Untouched, host
  <1>6. Work(r)'
    BY <1>3, <1>4, <1>5 DEF Work, Methods
  <1> QED BY <1>1, <1>2, <1>4, <1>5, <1>6, ProceedWork DEF Untouched

LEMMA ProbeWork ==
    ASSUME IInv, Probe, UNCHANGED client
    PROVE  WorkInv'
  <1> DEFINE seen == [server.saw EXCEPT !.uid = container.uid]
  <1>0. Types /\ BindInv /\ WorkInv
    BY DEF IInv
  <1>1. /\ server.step = "probe"
        /\ UNCHANGED <<method, binding, input, unsent, host>>
    BY DEF Probe, Serving
  <1>2. PICK r \in Requests : r = server.request /\ Work(r)
    BY <1>0, <1>1, ServedIs
  <1>3. /\ Untouched(r) /\ server.saw \in Places
        /\ method[r] \in {"docker.inspect", "docker.exec"}
    BY <1>1, <1>2 DEF Work
  <1>4. seen \in Places
    BY <1>0, <1>3 DEF Places, Types, ServerTypeOK
  <1>5. \/ method[r] = "docker.inspect" /\ Answer("ok", seen)
        \/ /\ method[r] = "docker.exec" /\ binding[r] = seen
           /\ Proceed("enter", seen)
        \/ Answer("stale_binding", None)
    BY <1>2, <1>3 DEF Probe, Matches
  <1> HIDE DEF seen
  <1>6. CASE method[r] = "docker.inspect" /\ Answer("ok", seen)
    BY <1>1, <1>2, <1>3, <1>4, <1>6, UntouchedAnswerWork DEF Codes
  <1>7. CASE Answer("stale_binding", None)
    BY <1>1, <1>2, <1>3, <1>7, UntouchedAnswerWork DEF Codes
  <1>8. CASE /\ method[r] = "docker.exec" /\ binding[r] = seen
             /\ Proceed("enter", seen)
    <2>1. /\ server'.step = "enter" /\ server'.request = r
          /\ server'.saw = seen /\ output' = output
      BY <1>0, <1>2, <1>4, <1>8, ProceedType
    <2>2. Untouched(r)' /\ UNCHANGED <<method, binding, inside, starts, alive>>
      BY <1>1, <1>3 DEF Untouched, host
    <2>3. Work(r)'
      BY <1>8, <2>1, <2>2 DEF Work, Methods
    <2> QED BY <1>1, <1>2, <2>1, <2>2, <2>3, ProceedWork DEF Untouched
  <1> QED BY <1>5, <1>6, <1>7, <1>8

\* The guard is where the container is now, with the user that was verified.
LEMMA EnterWork ==
    ASSUME IInv, Enter, UNCHANGED client
    PROVE  WorkInv'
  <1> DEFINE saw == server.saw
             guard == [place |-> [Place EXCEPT !.uid = saw.uid],
                       expected |-> saw.ticks, state |-> "checking"]
  <1>0. Types /\ BindInv /\ WorkInv
    BY DEF IInv
  <1>1. /\ server.step = "enter"
        /\ UNCHANGED <<method, binding, input, unsent, container, changes,
                       starts, alive>>
    BY DEF Enter, Serving
  <1>2. PICK r \in Requests : r = server.request /\ Work(r)
    BY <1>0, <1>1, ServedIs
  <1>3. /\ Untouched(r) /\ saw = binding[r] /\ method[r] = "docker.exec"
        /\ saw \in Places
    BY <1>0, <1>1, <1>2 DEF Work, BindInv
  <1>4. CASE \E code \in {"execution_unknown", "docker_execution_failed"} :
                Answer(code, None) /\ UNCHANGED inside
    <2>1. PICK code \in Codes : /\ code # "ok" /\ Answer(code, None)
                                /\ UNCHANGED inside
      BY <1>4 DEF Codes
    <2> QED BY <1>1, <1>2, <1>3, <2>1, UntouchedAnswerWork DEF host
  <1>5. CASE /\ container.id = saw.id
             /\ inside' = [inside EXCEPT ![r] = guard]
             /\ Proceed("guard", saw)
    <2>1. /\ guard.expected = saw.ticks /\ guard.state = "checking"
          /\ guard.place.id = container.id /\ guard.place.uid = saw.uid
      BY DEF Place
    <2>2. guard \in Guards
      BY <1>0, <1>3, PlacesAre DEF Guards, Guarded, Places
    <2> HIDE DEF guard
    <2>3. inside'[r] = guard /\ \A q \in Requests \ {r} : inside'[q] = inside[q]
      BY <1>0, <1>5 DEF Types, ServerTypeOK
    <2>4. guard # None
      BY <2>2, RuntimeAssumption DEF RuntimeAssumption
    <2> HIDE DEF saw
    <2>5. /\ server'.step = "guard" /\ server'.request = r /\ output' = output
      BY <1>0, <1>2, <1>3, <1>5, ProceedType
    <2>6. starts'[r] = << >> /\ r \notin alive'
      BY <1>1, <1>3 DEF Untouched
    <2>7. Work(r)'
      BY <1>1, <1>3, <2>3, <2>4, <2>5 DEF Work, Methods
    <2>8. GuardWork(r)'
      BY <1>1, <1>3, <1>5, <2>1, <2>3, <2>6 DEF GuardWork
    <2> QED BY <1>1, <1>2, <2>3, <2>5, <2>6, <2>7, <2>8, ProceedWork
  <1> QED BY <1>2, <1>4, <1>5 DEF Enter

LEMMA ExecWork ==
    ASSUME IInv, Exec, UNCHANGED client
    PROVE  WorkInv'
  <1>0. Types /\ BindInv /\ WorkInv
    BY DEF IInv
  <1>1. /\ server.step = "exec"
        /\ UNCHANGED <<method, binding, input, unsent, container, changes,
                       inside>>
    BY DEF Exec, Serving
  <1>2. PICK r \in Requests : r = server.request /\ Work(r)
    BY <1>0, <1>1, ServedIs
  <1>3. Untouched(r) /\ method[r] = "exec"
    BY <1>1, <1>2 DEF Work, Methods
  <1>4. CASE Answer("execution_failed", None) /\ UNCHANGED <<starts, alive>>
    BY <1>1, <1>2, <1>3, <1>4, UntouchedAnswerWork DEF Codes, host
  <1>5. CASE Start(r, Host) /\ Proceed("program", None)
    <2>1. /\ server'.step = "program" /\ server'.request = r
          /\ output' = output
      BY <1>0, <1>2, <1>5, ProceedType
    <2>2. /\ starts'[r] = << Host >>
          /\ \A q \in Requests \ {r} : /\ starts'[q] = starts[q]
                                       /\ q \in alive' => q \in alive
      BY <1>0, <1>3, <1>5 DEF Start, Untouched, Types, ServerTypeOK
    <2>3. Work(r)'
      BY <1>1, <1>3, <2>1, <2>2 DEF Work, Methods
    <2>4. inside'[r] = None
      BY <1>1, <1>3 DEF Untouched
    <2> QED BY <1>1, <1>2, <1>3, <2>1, <2>2, <2>3, <2>4, ProceedWork
  <1> QED BY <1>2, <1>4, <1>5 DEF Exec

\* The program has ended when the helper answers for it.
LEMMA ExecEndsWork ==
    ASSUME IInv, ExecEnds, UNCHANGED client
    PROVE  WorkInv'
  <1>0. Types /\ BindInv /\ WorkInv
    BY DEF IInv
  <1>1. /\ server.step = "program"
        /\ UNCHANGED <<method, binding, input, unsent, inside, starts>>
    BY DEF ExecEnds, Serving
  <1>2. PICK r \in Requests : r = server.request /\ Work(r)
    BY <1>0, <1>1, ServedIs
  <1>3. method[r] = "exec" /\ starts[r] = << Host >>
    BY <1>1, <1>2 DEF Work
  <1>4. inside[r] = None
    BY <1>0, <1>3 DEF WorkInv, Done, GuardWork
  <1>5. PICK code \in {"ok", "execution_failed"} :
           Answer(code, None) /\ alive' = alive \ {r}
    BY <1>2 DEF ExecEnds, Outcomes
  <1>6. code \in Codes
    BY DEF Codes
  <1>7. starts[r] # << >>
    BY <1>3
  <1>8. Tells(r, code)'
    BY <1>1, <1>4, <1>5, <1>7 DEF Tells
  <1> QED BY <1>1, <1>2, <1>5, <1>6, <1>8, AnswerWork

\* What the guard printed is true, and so is that nobody knows.
LEMMA GuardAnswersWork ==
    ASSUME IInv, GuardAnswers \/ DockerClientFails, UNCHANGED client
    PROVE  WorkInv'
  <1>0. Types /\ BindInv /\ WorkInv
    BY DEF IInv
  <1>1. /\ server.step = "guard"
        /\ UNCHANGED <<method, binding, input, unsent, inside, starts, alive>>
    BY DEF GuardAnswers, DockerClientFails, Serving, host
  <1>2. PICK r \in Requests : r = server.request /\ Work(r)
    BY <1>0, <1>1, ServedIs
  <1>3. method[r] = "docker.exec" /\ inside[r] # None /\ GuardWork(r)
    BY <1>0, <1>1, <1>2 DEF Work, WorkInv, Done
  <1>4. PICK code \in Codes :
           /\ Answer(code, None)
           /\ code \notin {"invalid_params"}
           /\ code = "stale_binding" => inside[r].state = "stale"
           /\ code = "ok" => inside[r].state = "ok"
    <2>1. CASE DockerClientFails
      BY <2>1 DEF DockerClientFails, Unseen, Codes
    <2>2. CASE GuardAnswers
      BY <1>2, <2>2 DEF GuardAnswers, Codes
    <2> QED BY <2>1, <2>2
  <1>5. << binding[r] >> # << >>
    OBVIOUS
  <1>6. Tells(r, code)'
    BY <1>1, <1>3, <1>4, <1>5 DEF Tells, GuardWork
  <1> QED BY <1>1, <1>2, <1>4, <1>6, AnswerWork

\* While a guard lives, its request is being served or the answer leaves open
\* what becomes of it.
LEMMA GuardIsOpen ==
    ASSUME IInv, NEW r \in Requests, inside[r] # None,
           inside[r].state \in {"checking", "running"}
    PROVE  /\ ~Unread(r) /\ (Served(r) => server.step = "guard")
           /\ \A code \in Codes : Told(r, code) =>
                 code \notin {"stale_binding", "invalid_params", "ok"}
           /\ GuardWork(r) /\ method[r] = "docker.exec"
  <1>1. Done(r) /\ GuardWork(r) /\ method[r] = "docker.exec"
    BY DEF IInv, WorkInv, Done, GuardWork
  <1>2. ~Untouched(r)
    BY DEF Untouched
  <1>3. ASSUME Served(r)
        PROVE  server.step = "guard"
    <2>1. server.request # None /\ Work(r)
      BY <1>1, <1>3, RuntimeAssumption
         DEF RuntimeAssumption, Requests, Served, Done
    <2>2. server.step \notin {"read", "gone"} /\ server \in Servers
      BY <2>1 DEF IInv, BindInv, Types, ServerTypeOK, Servers
    <2>3. server.step \in Methods \cup {"program", "probe", "enter", "guard"}
      BY <2>2 DEF Servers
    <2>4. server.step \notin Methods \cup {"program", "probe", "enter"}
      BY <1>1, <1>2, <2>1 DEF Work
    <2> QED BY <2>3, <2>4
  <1>4. \A code \in Codes : Told(r, code) =>
           code \notin {"stale_binding", "invalid_params", "ok"}
    BY <1>1 DEF Done, Tells
  <1> QED BY <1>1, <1>2, <1>3, <1>4 DEF Done

LEMMA GuardMoves ==
    ASSUME IInv, NEW r \in Requests, inside[r] # None,
           inside[r].state \in {"checking", "running"},
           UNCHANGED <<client, method, binding, input, unsent, output, server>>,
           inside'[r] # None, GuardWork(r)',
           (starts[r] # << >> => starts[r] = << binding[r] >>)'
    PROVE  Done(r)'
  <1>1. /\ ~Unread(r) /\ (Served(r) => server.step = "guard")
        /\ \A code \in Codes : Told(r, code) =>
              code \notin {"stale_binding", "invalid_params", "ok"}
        /\ method[r] = "docker.exec"
    BY GuardIsOpen
  <1>2. /\ Unread(r)' <=> Unread(r)
        /\ \A code \in Codes : Told(r, code)' <=> Told(r, code)
    BY SameTold
  <1>3. Served(r)' => Work(r)'
    BY <1>1 DEF Served, Work, Methods
  <1>4. \A code \in Codes : Told(r, code)' => Tells(r, code)'
    BY <1>1, <1>2 DEF Tells
  <1> QED BY <1>1, <1>2, <1>3, <1>4 DEF Done

\* The program starts only where the guard finds the start of the container
\* it was told of.
LEMMA GuardChecksWork ==
    ASSUME IInv, NEW r \in Requests, GuardChecks(r) \/ GuardedEnds(r),
           UNCHANGED client
    PROVE  WorkInv'
  <1>0. Types
    BY DEF IInv
  <1>1. /\ UNCHANGED <<method, binding, input, unsent, output, server>>
        /\ inside[r] # None /\ inside[r].state \in {"checking", "running"}
    BY DEF GuardChecks, GuardedEnds, GuardIs
  <1>2. GuardWork(r) /\ inside[r] \in Guards /\ inside[r].place \in Places
    BY <1>1, GuardIsOne
  <1>3. PICK state \in Guarded : SetGuard(r, state) /\
           \/ /\ inside[r].state = "checking" /\ state = "running"
              /\ Admits(r) /\ Start(r, inside[r].place)
           \/ /\ inside[r].state = "checking" /\ state \in {"failed", "stale"}
              /\ UNCHANGED <<starts, alive>>
           \/ /\ inside[r].state = "running" /\ state \in {"ok", "failed"}
              /\ alive' = alive \ {r} /\ UNCHANGED starts
    BY DEF GuardChecks, GuardedEnds, GuardIs, Guarded, Outcomes
  <1>4. /\ inside'[r] = [inside[r] EXCEPT !.state = state]
        /\ \A q \in Requests \ {r} : inside'[q] = inside[q]
    BY <1>0, <1>3 DEF SetGuard, Types, ServerTypeOK
  <1>5. /\ inside'[r].place = inside[r].place /\ inside'[r].state = state
        /\ inside'[r].expected = inside[r].expected /\ inside'[r] \in Guards
    BY <1>2, <1>4 DEF Guards
  <1>6. inside'[r] # None
    BY <1>5, RuntimeAssumption DEF RuntimeAssumption
  <1>7. \A q \in Requests \ {r} : /\ starts'[q] = starts[q]
                                  /\ q \in alive' => q \in alive
    BY <1>0, <1>3 DEF Start, Types, ServerTypeOK
  <1>8. \A q \in Requests :
           /\ Unread(q)' <=> Unread(q)
           /\ \A code \in Codes : Told(q, code)' <=> Told(q, code)
    BY <1>1, SameTold
  <1>9. ASSUME NEW q \in Requests, q # r
        PROVE  Done(q)'
    BY <1>1, <1>4, <1>7, <1>8, <1>9, DoneStays DEF Served
  <1>10. ASSUME Admits(r)
         PROVE  inside[r].place = binding[r]
    <2>1. /\ inside[r].place \in Places /\ binding[r] \in Places
          /\ inside[r].place.id = binding[r].id
          /\ inside[r].place.uid = binding[r].uid
          /\ inside[r].place.ticks = binding[r].ticks
      BY <1>2, <1>10 DEF GuardWork, Admits
    <2> QED BY <2>1 DEF Places
  <1>11. /\ GuardWork(r)'
         /\ (starts[r] # << >> => starts[r] = << binding[r] >>)'
    <2>0. /\ binding' = binding /\ method' = method
          /\ method[r] = "docker.exec" /\ binding[r] \in Places
      BY <1>1, <1>2 DEF GuardWork
    <2>1. CASE /\ inside[r].state = "checking" /\ state = "running"
               /\ Admits(r) /\ Start(r, inside[r].place)
      <3>1. starts[r] = << >> /\ inside[r].place = binding[r]
        BY <1>2, <1>10, <2>1 DEF GuardWork
      <3>2. starts'[r] = << binding[r] >>
        BY <1>0, <2>1, <3>1 DEF Start, Types, ServerTypeOK
      <3> QED BY <1>2, <1>5, <2>0, <2>1, <3>2 DEF GuardWork
    <2>2. CASE /\ inside[r].state = "checking" /\ state \in {"failed", "stale"}
               /\ UNCHANGED <<starts, alive>>
      BY <1>2, <1>5, <2>0, <2>2 DEF GuardWork
    <2>3. CASE /\ inside[r].state = "running" /\ state \in {"ok", "failed"}
               /\ alive' = alive \ {r} /\ UNCHANGED starts
      BY <1>2, <1>5, <2>0, <2>3 DEF GuardWork
    <2> QED BY <1>3, <2>1, <2>2, <2>3
  <1>12. Done(r)'
    BY <1>1, <1>6, <1>11, GuardMoves
  <1> QED BY <1>9, <1>12 DEF WorkInv

LEMMA ContainerChangesWork ==
    ASSUME IInv, ContainerChanges, UNCHANGED client
    PROVE  WorkInv'
  <1>0. Types
    BY DEF IInv
  <1>1. UNCHANGED <<method, binding, input, unsent, output, server, starts>>
    BY DEF ContainerChanges
  <1>2. \A q \in Requests :
           /\ Unread(q)' <=> Unread(q)
           /\ \A code \in Codes : Told(q, code)' <=> Told(q, code)
    BY <1>1, SameTold
  <1>3. alive' \subseteq alive
    BY DEF ContainerChanges, ContainerEnds
  <1>4. ASSUME NEW r \in Requests, inside'[r] = inside[r]
        PROVE  Done(r)'
    BY <1>1, <1>2, <1>3, <1>4, DoneStays DEF Served
  <1>5. ASSUME NEW r \in Requests, inside[r] # None,
               inside[r].state \in {"checking", "running"},
               inside'[r] = [inside[r] EXCEPT !.state = "killed"]
        PROVE  Done(r)'
    <2>1. GuardWork(r) /\ inside[r] \in Guards /\ Done(r)
      BY <1>5, GuardIsOne DEF IInv, WorkInv
    <2>2. /\ inside'[r].place = inside[r].place /\ inside'[r].state = "killed"
          /\ inside'[r].expected = inside[r].expected /\ inside'[r] \in Guards
      BY <1>5, <2>1 DEF Guards, Guarded
    <2>3. inside'[r] # None
      BY <2>2, RuntimeAssumption DEF RuntimeAssumption
    <2>4. GuardWork(r)'
      BY <1>1, <2>1, <2>2 DEF GuardWork
    <2>5. (starts[r] # << >> => starts[r] = << binding[r] >>)'
      BY <1>1, <2>1 DEF Done, GuardWork
    <2> QED BY <1>1, <1>5, <2>3, <2>4, <2>5, GuardMoves
  <1>6. ASSUME NEW r \in Requests
        PROVE  \/ inside'[r] = inside[r]
               \/ /\ inside[r] # None /\ inside[r].state \in {"checking", "running"}
                  /\ inside'[r] = [inside[r] EXCEPT !.state = "killed"]
    BY DEF ContainerChanges, ContainerEnds
  <1> QED BY <1>4, <1>5, <1>6 DEF WorkInv

LEMMA ServerWork ==
    ASSUME IInv, ServerNext, UNCHANGED client
    PROVE  WorkInv'
  <1>0. Types
    BY DEF IInv
  <1>1. CASE EndOfInput
    <2>1. server'.request = None
      BY <1>1 DEF EndOfInput, Waiting, Gone
    <2>2. \A r \in Requests : ~Served(r)'
      BY <2>1, RuntimeAssumption DEF RuntimeAssumption, Requests, Served
    <2>3. \A r \in Requests : Unread(r)' => Unread(r)
      BY <1>1 DEF EndOfInput, client, Unread, Waits, Underway
    <2> QED BY <1>1, <2>2, <2>3, IdleWork DEF EndOfInput
  <1>2. CASE Disconnect
    <2>1. \/ UNCHANGED <<input, unsent>>
          \/ input' = << >> /\ unsent' \subseteq unsent \cup Range(input)
      BY <1>0, <1>2, LoseIs DEF Disconnect
    <2>2. \A r \in Requests : Unread(r)' => Unread(r)
      BY <1>2, <2>1, EmptyRange DEF Disconnect, client, Unread, Waits, Underway
    <2>3. \A r \in Requests : Served(r)' => Served(r) /\ server' = server
      BY <1>2 DEF Disconnect, Served
    <2> QED BY <1>2, <2>2, <2>3, IdleWork DEF Disconnect
  <1> QED BY <1>1, <1>2, ReadWork, RefusalWork, InspectRecordWork, ProbeWork,
             EnterWork, ExecWork, ExecEndsWork, GuardAnswersWork,
             GuardChecksWork, ContainerChangesWork
          DEF ServerNext

\* A step of the client does nothing on the host.
LEMMA ClientDone ==
    ASSUME IInv, NEW r \in Requests, UNCHANGED <<server, host>>,
           method'[r] = method[r], binding'[r] = binding[r],
           Unread(r)' => Unread(r),
           \A code \in Codes : Told(r, code)' => Told(r, code)
    PROVE  Done(r)'
  BY DoneStays DEF Served, host

LEMMA CallWork ==
    ASSUME IInv, NEW r \in Requests, NEW m \in Methods, Call(r, m)
    PROVE  WorkInv'
  <1>0. Types /\ PassInv
    BY DEF IInv
  <1>1. /\ method[r] = None /\ chain' = Append(chain, r)
        /\ UNCHANGED <<input, unsent, output, server, host, outcome>>
        /\ \A q \in Requests \ {r} : /\ method'[q] = method[q]
                                     /\ binding'[q] = binding[q]
    BY <1>0 DEF Call, Types, ServerTypeOK
  <1>2. r \notin Range(chain)
    BY <1>0, <1>1 DEF PassInv, Passes
  <1>3. Range(chain') = Range(chain) \cup {r}
    BY <1>0, <1>1, <1>2, AppendRange DEF Types, PassInv
  <1>4. \A q \in Requests, code \in Codes : Told(q, code)' <=> Told(q, code)
    BY <1>1 DEF Told
  <1>5. ASSUME NEW q \in Requests, q # r
        PROVE  Done(q)'
    <2>1. Unread(q)' => Unread(q)
      BY <1>1, <1>3, <1>5 DEF Unread, Waits, Underway
    <2> QED BY <1>1, <1>4, <1>5, <2>1, ClientDone
  <1>6. Done(r)'
    <2>1. Waits(r)
      BY <1>1 DEF Waits
    <2>2. /\ Done(r) /\ Untouched(r) /\ ~Served(r)
          /\ \A code \in Codes : ~Told(r, code)
      BY <1>0, <2>1, RuntimeAssumption
         DEF IInv, WorkInv, Done, Unread, PassInv, Passes, Told, Answered,
             RuntimeAssumption
    <2>3. Untouched(r)' /\ ~Served(r)'
      BY <1>1, <2>2 DEF Untouched, Served, host
    <2> QED BY <1>4, <2>2, <2>3 DEF Done, Untouched
  <1> QED BY <1>5, <1>6 DEF WorkInv

LEMMA DispatchWork ==
    ASSUME IInv, NEW r \in Requests, NEW oversized \in BOOLEAN,
           Dispatch(r, oversized)
    PROVE  WorkInv'
  <1>0. Types /\ PassInv
    BY DEF IInv
  <1>1. r \in Range(chain) /\ Range(chain') = Range(chain) \ {r}
    BY <1>0, TailRange DEF Dispatch, Types, PassInv
  <1>2. UNCHANGED <<method, binding, output, server, host>>
    BY DEF Dispatch
  <1>3. Unread(r) /\ r \notin Range(input)
    BY <1>0, <1>1 DEF Unread, Waits, PassInv, Passes, Underway
  <1>4. /\ Range(input') \subseteq Range(input) \cup {r}
        /\ unsent' \subseteq unsent \cup {r}
    <2>1. Range(Append(input, r)) = Range(input) \cup {r}
      BY <1>0, <1>3, AppendRange DEF Types, ServerTypeOK, PassInv
    <2>2. /\ input' \in {input, Append(input, r)}
          /\ unsent' \in {unsent, unsent \cup {r}}
      BY DEF Dispatch
    <2> QED BY <2>1, <2>2
  <1>5. \A q \in Requests : \/ outcome'[q] = outcome[q]
                            \/ /\ q = r
                               /\ outcome'[q] \in {"is_closed", "request_too_large"}
    BY <1>0 DEF Dispatch, Types
  <1>6. ASSUME NEW q \in Requests
        PROVE  Done(q)'
    <2>1. Unread(q)' => Unread(q)
      BY <1>1, <1>2, <1>3, <1>4, <1>5 DEF Unread, Waits, Underway
    <2>2. \A code \in Codes : Told(q, code)' => Told(q, code)
      BY <1>2, <1>5 DEF Told, Codes
    <2> QED BY <1>2, <2>1, <2>2, ClientDone
  <1> QED BY <1>6 DEF WorkInv

\* What fails without an answer tells nothing of what was done.
LEMMA FailureWork ==
    ASSUME IInv, Broken, UNCHANGED <<method, binding, server, host, chain>>,
           \A i \in DOMAIN output' : \E j \in DOMAIN output :
                        output'[i] = output[j],
           \A q \in Requests :
              \/ outcome'[q] = outcome[q]
              \/ outcome'[q] \in {"closed", "timed_out", "exited", "aborted",
                                  "write_failed", "mismatch"}
    PROVE  WorkInv'
  <1>1. \/ UNCHANGED <<input, unsent>>
        \/ input' = << >> /\ unsent' \subseteq unsent \cup Range(input)
    BY DEF Broken
  <1>2. ASSUME NEW q \in Requests
        PROVE  Done(q)'
    <2>1. Unread(q)' => Unread(q)
      BY <1>1, EmptyRange DEF Unread, Waits, Underway
    <2>2. \A code \in Codes : Told(q, code)' => Told(q, code)
      BY DEF Told, Codes
    <2> QED BY <2>1, <2>2, ClientDone
  <1> QED BY <1>2 DEF WorkInv

LEMMA ReceiveWork ==
    ASSUME IInv, Receive
    PROVE  WorkInv'
  <1>0. Types /\ PassInv
    BY DEF IInv
  <1>a. PICK answer : answer = Head(output)
    OBVIOUS
  <1>b. PICK r : r = answer.request
    OBVIOUS
  <1>1. /\ r \in Requests /\ answer \in Answers
        /\ UNCHANGED <<method, binding, server, host, chain>>
        /\ \/ /\ r \notin pending
              /\ UNCHANGED <<connected, input, unsent, client>>
           \/ /\ outcome' = [outcome EXCEPT ![r] = answer.code]
              /\ UNCHANGED <<connected, input, unsent>>
           \/ /\ Broken
              /\ \A q \in Requests :
                    \/ outcome'[q] = outcome[q]
                    \/ outcome'[q] \in {"aborted", "mismatch"}
    BY <1>0, <1>a, <1>b, ReceiveIs
  <1>2. \A i \in DOMAIN output' : \E j \in DOMAIN output : output'[i] = output[j]
    BY <1>0, AnsweredBefore
  <1>3. CASE UNCHANGED <<connected, input, unsent, client>>
    <2>1. Broken /\ outcome' = outcome
      BY <1>0, <1>3, IdleBreaks DEF client
    <2> QED BY <1>1, <1>2, <2>1, FailureWork
  <1>4. CASE /\ outcome' = [outcome EXCEPT ![r] = answer.code]
             /\ UNCHANGED <<connected, input, unsent>>
    <2>1. 1 \in DOMAIN output /\ output[1] = answer
      <3>1. output \in Seq(Answers) /\ output # << >>
        BY <1>0 DEF Types, ServerTypeOK, Answers, Receive
      <3> QED BY <1>a, <3>1, LenProperties, EmptySeq
    <2>2. /\ outcome'[r] = answer.code
          /\ \A q \in Requests \ {r} : outcome'[q] = outcome[q]
          /\ answer.code \in Codes
      BY <1>0, <1>1, <1>4 DEF Types, Answers
    <2>3. ASSUME NEW q \in Requests
          PROVE  Done(q)'
      <3>1. Unread(q)' => Unread(q)
        BY <1>1, <1>4, <2>2 DEF Unread, Waits, Underway, Codes
      <3>2. \A code \in Codes : Told(q, code)' => Told(q, code)
        BY <1>2, <1>b, <2>1, <2>2 DEF Told
      <3> QED BY <1>1, <3>1, <3>2, ClientDone
    <2> QED BY <2>3 DEF WorkInv
  <1>5. CASE /\ Broken
             /\ \A q \in Requests :
                   \/ outcome'[q] = outcome[q]
                   \/ outcome'[q] \in {"aborted", "mismatch"}
    BY <1>1, <1>2, <1>5, FailureWork
  <1> QED BY <1>1, <1>3, <1>4, <1>5

LEMMA ClientWork ==
    ASSUME IInv, ClientNext
    PROVE  WorkInv'
  <1>1. CASE \/ Close \/ ChildExit \/ Garbage
             \/ \E r \in Requests : Timeout(r) \/ WriteFails(r)
    <2>1. /\ Broken
          /\ UNCHANGED <<method, binding, output, server, host, chain>>
          /\ \A q \in Requests :
                \/ outcome'[q] = outcome[q]
                \/ outcome'[q] \in {"closed", "timed_out", "exited", "aborted",
                                    "write_failed"}
      BY <1>1, FailureIs DEF IInv
    <2>2. \A i \in DOMAIN output' : \E j \in DOMAIN output :
             output'[i] = output[j]
      BY <2>1
    <2> QED BY <2>1, <2>2, FailureWork
  <1> QED BY <1>1, CallWork, DispatchWork, ReceiveWork DEF ClientNext

-----------------------------------------------------------------------------
(* The invariant.                                                          *)

LEMMA InitInv ==
    ASSUME ChannelInit
    PROVE  IInv
  <1>1. /\ input = << >> /\ output = << >> /\ chain = << >>
        /\ unsent = {} /\ pending = {} /\ alive = {} /\ server = Waiting
        /\ method = [r \in Requests |-> None]
        /\ outcome = [r \in Requests |-> None]
        /\ inside = [r \in Requests |-> None]
        /\ starts = [r \in Requests |-> << >>]
    BY DEF ChannelInit, ServerInit
  <1>2. /\ Waiting \in Servers /\ Waiting.step = "read"
        /\ Waiting.request = None
    BY DEF Waiting, Servers
  <1>3. Types
    <2>1. /\ << >> \in Seq(Requests) /\ << >> \in Seq(Answers)
          /\ << >> \in Seq(Places)
      BY EmptyRange
    <2>2. 0 \in 0..MaxChanges
      BY RuntimeAssumption DEF RuntimeAssumption
    <2>3. container \in [id: Nat, ticks: Nat, uid: Nat, up: BOOLEAN]
      BY DEF ChannelInit, ServerInit
    <2>4. /\ method \in [Requests -> Methods \cup {None}]
          /\ binding \in [Requests -> Places \cup {None}]
          /\ inside \in [Requests -> Guards \cup {None}]
          /\ outcome \in [Requests -> Codes \cup Local \cup {None}]
      BY <1>1 DEF ChannelInit, ServerInit
    <2>5. starts \in [Requests -> Seq(Places)]
      BY <1>1, <2>1
    <2>6. /\ connected \in BOOLEAN /\ closed \in BOOLEAN /\ changes = 0
          /\ evidence = None
      BY DEF ChannelInit, ServerInit
    <2>7. ServerTypeOK
      BY <1>1, <1>2, <2>1, <2>2, <2>3, <2>4, <2>5, <2>6
         DEF ServerTypeOK, Servers, Answers
    <2> QED BY <1>1, <2>1, <2>4, <2>6, <2>7 DEF Types
  <1>4. BindInv
    BY <1>1, <1>2, RuntimeAssumption
       DEF BindInv, RuntimeAssumption, Methods
  <1>5. Range(<< >>) = {} /\ IsInjective(<< >>) /\ DOMAIN << >> = {}
    BY EmptyRange, EmptySeq
  <1>6. \A r \in Requests : /\ Waits(r) /\ ~Underway(r) /\ ~Answered(r)
                            /\ ~Served(r) /\ Untouched(r)
    BY <1>1, <1>2, <1>5, RuntimeAssumption
       DEF RuntimeAssumption, Requests, Waits, Underway, Answered, Served,
           Untouched
  <1>7. PassInv
    BY <1>1, <1>5, <1>6, RuntimeAssumption, ChannelAssumption
       DEF PassInv, Passes, RuntimeAssumption, ChannelAssumption, Local
  <1>8. WorkInv
    <2>1. \A r \in Requests, code \in Codes : ~Told(r, code)
      BY <1>1, <1>5, RuntimeAssumption DEF RuntimeAssumption, Told
    <2> QED BY <1>6, <2>1 DEF WorkInv, Done, Untouched
  <1> QED BY <1>3, <1>4, <1>7, <1>8 DEF IInv

LEMMA NextInv ==
    ASSUME IInv, [ChannelNext]_all
    PROVE  IInv'
  <1>0. Types /\ BindInv /\ PassInv
    BY DEF IInv
  <1>1. CASE ClientNext
    BY <1>0, <1>1, ClientType, ClientPass, ClientWork DEF IInv
  <1>2. CASE ServerNext /\ UNCHANGED client
    BY <1>2, ServerType, ServerPass, ServerWork DEF IInv
  <1>3. CASE UNCHANGED all
    <2>1. UNCHANGED <<method, binding, connected, input, unsent, output, server,
                      container, changes, inside, starts, alive, client>>
      BY <1>3 DEF all, serverVars, host
    <2>2. Types' /\ BindInv'
      BY <1>0, <2>1 DEF Types, ServerTypeOK, BindInv, client
    <2>3. PassInv'
      BY <1>0, <2>1, StillPass DEF Served
    <2>4. WorkInv'
      <3>1. \A r \in Requests : Unread(r)' => Unread(r)
        BY <2>1 DEF client, Unread, Waits, Underway
      <3> QED BY <2>1, <3>1, IdleWork DEF Served, host
    <2> QED BY <2>2, <2>3, <2>4 DEF IInv
  <1> QED BY <1>1, <1>2, <1>3 DEF ChannelNext

LEMMA ChannelInvariant == ChannelSpec => []IInv
  <1>1. ChannelInit => IInv
    BY InitInv
  <1>2. IInv /\ [ChannelNext]_all => IInv'
    BY NextInv
  <1> QED BY <1>1, <1>2, PTL DEF ChannelSpec

-----------------------------------------------------------------------------
(* The properties.                                                         *)

\* ssh-runtime-client.ts:317-348: a late answer never meets a later request,
\* because requests are dispatched one after the other and a timeout closes
\* the client, whatever the host and the network do.
THEOREM AnswersMeetTheirRequest == ChannelSpec => []NoLateAnswer
  <1>1. IInv => NoLateAnswer
    <2> SUFFICES ASSUME IInv
                 PROVE  NoLateAnswer
      OBVIOUS
    <2>0. Types /\ PassInv
      BY DEF IInv
    <2>1. ChannelTypeOK
      <3>1. \A r \in pending : ~Settled(r) /\ method[r] # None
        <4> SUFFICES ASSUME NEW r \in pending
                     PROVE  ~Settled(r) /\ method[r] # None
          OBVIOUS
        <4>1. r \in Requests
          BY <2>0 DEF Types
        <4> QED BY <2>0, <4>1 DEF PassInv, Passes, Waits, Settled
      <3> QED BY <2>0, <3>1 DEF Types, ChannelTypeOK
    <2>2. ASSUME connected, ~closed
          PROVE  InChannel \subseteq pending
      <3> SUFFICES ASSUME NEW r \in InChannel
                   PROVE  r \in pending
        OBVIOUS
      <3>1. output \in Seq(Answers) /\ input \in Seq(Requests)
            /\ server.request \in Requests \cup {None}
        BY <2>0 DEF Types, ServerTypeOK, Answers
      <3>2. r \in Requests /\ (Underway(r) \/ Served(r) \/ Answered(r))
        <4>1. CASE r \in Range(input)
          BY <3>1, <4>1, RangeOfSeq DEF Underway
        <4>2. CASE r \in {answer.request : answer \in Range(output)}
          <5>1. PICK i \in DOMAIN output : r = output[i].request
            BY <4>2 DEF Range
          <5>2. output[i] \in Answers
            BY <3>1, <5>1, ElementOfSeq, LenProperties
          <5> QED BY <5>1, <5>2 DEF Answers, Answered
        <4>3. CASE r \in {server.request} \ {None}
          BY <3>1, <4>3 DEF Served
        <4> QED BY <4>1, <4>2, <4>3 DEF InChannel
      <3> QED BY <2>0, <2>2, <3>2 DEF PassInv
    <2>3. Cardinality(pending) <= 1
      <3>1. CASE pending = {}
        BY <3>1, FS_EmptySet
      <3>2. CASE pending # {}
        <4>1. PICK p : pending = {p}
          BY <2>0, <3>2 DEF PassInv
        <4> QED BY <4>1, FS_Singleton
      <3> QED BY <3>1, <3>2
    <2> QED BY <2>1, <2>2, <2>3 DEF NoLateAnswer
  <1> QED BY <1>1, ChannelInvariant, PTL

\* ssh-runtime-client.ts:327-358, docker_cli.go:173-219 and
\* container_exec_linux.go:82-88: what was reported as refused was not started
\* and never will be.
THEOREM RefusalsAreFinal == ChannelSpec => []RefusedNeverRuns
  <1>1. IInv => RefusedNeverRuns
    <2> SUFFICES ASSUME IInv, NEW r \in Requests,
                        outcome[r] \in {"is_closed", "request_too_large",
                                        "write_failed", "stale_binding",
                                        "invalid_params"}
                 PROVE  starts[r] = << >>
      BY DEF RefusedNeverRuns
    <2>1. Done(r) /\ Passes(r)
      BY DEF IInv, WorkInv, PassInv
    <2>2. CASE outcome[r] \in {"stale_binding", "invalid_params"}
      BY <2>1, <2>2 DEF Done, Told, Tells, Codes
    <2>3. CASE outcome[r] \in {"is_closed", "request_too_large", "write_failed"}
      BY <2>1, <2>3 DEF Done, Unread, Untouched, Passes
    <2> QED BY <2>2, <2>3
  <1> QED BY <1>1, ChannelInvariant, PTL

\* docker_cli.go:188-197 and container_exec_linux.go:82-97: a program starts
\* in the start of the container, and as the user, that the session was bound
\* to, although the container may restart, be replaced or have its users
\* renumbered between any two steps.
THEOREM BindingsAreKept == ChannelSpec => []RunsWhereBound
  <1>1. IInv => RunsWhereBound
    <2> SUFFICES ASSUME IInv, NEW r \in Requests, NEW i \in 1..Len(starts[r])
                 PROVE  starts[r][i] = IF method[r] = "docker.exec"
                                       THEN binding[r] ELSE Host
      BY DEF RunsWhereBound
    <2>1. Done(r) /\ starts[r] # << >>
      BY DEF IInv, WorkInv
    <2> QED BY <2>1 DEF Done
  <1> QED BY <1>1, ChannelInvariant, PTL

\* executor.go:42-67 and docker_cli.go:200-219: a result stands for one run,
\* which has ended.
THEOREM ResultsAreOfOneRun == ChannelSpec => []ResultMeansEnded
  <1>1. IInv => ResultMeansEnded
    <2> SUFFICES ASSUME IInv, NEW r \in Requests, outcome[r] = "ok",
                        method[r] \in {"exec", "docker.exec"}
                 PROVE  Len(starts[r]) = 1 /\ r \notin alive
      BY DEF ResultMeansEnded
    <2>1. Done(r) /\ Tells(r, "ok")
      BY DEF IInv, WorkInv, Done, Told, Codes
    <2>2. starts[r] # << >> /\ r \notin alive
      BY <2>1 DEF Tells
    <2> QED BY <2>1, <2>2 DEF Done
  <1> QED BY <1>1, ChannelInvariant, PTL

=============================================================================

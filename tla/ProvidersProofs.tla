-------------------------- MODULE ProvidersProofs --------------------------
(***************************************************************************)
(* Theorems about the two ways a turn gets its answer: from Codex, through *)
(* CodexClient, for every set of calls and threads and any number of       *)
(* processes; and from DeepSeek, through AiProviders, for every set of     *)
(* credentials, calls and conversations and any number of restarts.        *)
(***************************************************************************)
EXTENDS CodexClient, AiProviders, TLAPS

-----------------------------------------------------------------------------
(* CodexClient.                                                            *)

Steps == {"new", "starting", "waiting", "answered", "running", "done", "failed"}

LineType == [kind : {"started", "completed"}, call : Calls]
              \cup [kind : {"ready"}, call : {None}]

\* The part of the types the waiting calls need.
ClientType ==
    /\ spawned \in 0..MaxChildren /\ alive \subseteq Processes
    /\ child \in Nat /\ starting \in Nat
    /\ ready \in BOOLEAN
    /\ step \in [Calls -> Steps]
    /\ on \in [Calls -> Nat]
    /\ turns \in [Threads -> Calls \cup {None}]
    /\ lines \in [Processes -> Seq(LineType)]

\* Whoever waits, and whoever goes on to wait, waits for the process the client
\* holds; the client only thinks itself ready, or about to be, with a process
\* that lives.
ServedInv ==
    /\ ClientType
    /\ ready => child \in alive /\ starting = Nobody
    /\ starting # Nobody => starting = child /\ child \in alive
    /\ \A c \in Calls : step[c] \in {"waiting", "answered"} => ready /\ on[c] = child
    /\ \A t \in Threads : turns[t] # None => ready /\ on[turns[t]] = child

LEMMA InitServed ==
    ASSUME Init, CodexAssumption
    PROVE  ServedInv
  <1>1. << >> \in Seq(LineType)
    OBVIOUS
  <1>2. ClientType
    <2>1. lines \in [Processes -> Seq(LineType)]
      BY <1>1 DEF Init
    <2>2. MaxChildren \in Nat
      BY DEF CodexAssumption
    <2>3. spawned \in 0..MaxChildren
      BY <2>2 DEF Init
    <2>4. ready \in BOOLEAN
      BY DEF Init
    <2> QED BY <2>1, <2>3, <2>4 DEF Init, ClientType, Steps, Nobody
  <1> QED BY <1>2 DEF Init, ServedInv, Nobody

LEMMA SaysType ==
    ASSUME ClientType, NEW p \in Processes, NEW l \in LineType, Says(p, l)
    PROVE  lines' \in [Processes -> Seq(LineType)]
  BY DEF ClientType, Says

\* Codex writes a line, which changes nothing for who waits.
LEMMA CodexKeeps ==
    ASSUME ServedInv, lines' \in [Processes -> Seq(LineType)],
           UNCHANGED <<client, alive, spawned, step, on, turns>>
    PROVE  ServedInv'
  BY DEF ServedInv, ClientType, client

LEMMA RunTurnKeeps ==
    ASSUME ServedInv, CodexAssumption, NEW c \in Calls, RunTurn(c)
    PROVE  ServedInv'
  <1> USE DEF ServedInv, ClientType, Steps, Nobody
  <1>1. CASE ready
    <2>1. /\ UNCHANGED <<child, starting, ready, alive, spawned, turns, lines>>
          /\ \A d \in Calls : /\ step'[d] = IF d = c THEN "waiting" ELSE step[d]
                              /\ on'[d] = IF d = c THEN child ELSE on[d]
      BY <1>1 DEF RunTurn, Requested, client
    <2>2. ClientType'
      <3>1. step' \in [Calls -> Steps] /\ on' \in [Calls -> Nat]
        BY <1>1 DEF RunTurn, Requested
      <3> QED BY <2>1, <3>1
    <2> QED BY <1>1, <2>1, <2>2
  <1>2. CASE ~ready /\ starting # Nobody
    <2>1. step' \in [Calls -> Steps] /\ on' \in [Calls -> Nat] /\ ready' \in BOOLEAN
      BY <1>2 DEF RunTurn, client
    <2>2. ClientType'
      BY <1>2, <2>1 DEF RunTurn, client
    <2>3. ready' => child' \in alive' /\ starting' = Nobody
      BY <1>2 DEF RunTurn, client
    <2>4. starting' # Nobody => starting' = child' /\ child' \in alive'
      BY <1>2 DEF RunTurn, client
    <2>5. \A d \in Calls :
             step'[d] \in {"waiting", "answered"} => ready' /\ on'[d] = child'
      BY <1>2 DEF RunTurn, client
    <2>6. \A t \in Threads : turns'[t] # None => ready' /\ on'[turns'[t]] = child'
      BY <1>2 DEF RunTurn, client
    <2> QED BY <2>2, <2>3, <2>4, <2>5, <2>6
  <1>3. CASE ~ready /\ starting = Nobody
    <2>1. step' \in [Calls -> Steps] /\ on' \in [Calls -> Nat] /\ ready' \in BOOLEAN
      BY <1>3, CodexAssumption DEF RunTurn, client, CodexAssumption
    <2>2. ClientType'
      <3>1. /\ spawned \in 0..MaxChildren /\ spawned < MaxChildren
            /\ spawned' = spawned + 1 /\ child' = spawned' /\ starting' = spawned'
            /\ alive' = alive \cup {spawned'} /\ UNCHANGED <<turns, lines>>
        BY <1>3 DEF RunTurn
      <3>2. /\ spawned' \in 0..MaxChildren /\ spawned' \in Processes
            /\ spawned' \in Nat
        BY <3>1, CodexAssumption DEF CodexAssumption, Processes
      <3> QED BY <2>1, <3>1, <3>2
    <2>3. ready' => child' \in alive' /\ starting' = Nobody
      BY <1>3, CodexAssumption DEF RunTurn, client, CodexAssumption
    <2>4. starting' # Nobody => starting' = child' /\ child' \in alive'
      BY <1>3, CodexAssumption DEF RunTurn, client, CodexAssumption
    <2>5. \A d \in Calls :
             step'[d] \in {"waiting", "answered"} => ready' /\ on'[d] = child'
      BY <1>3, CodexAssumption DEF RunTurn, client, CodexAssumption
    <2>6. \A t \in Threads : turns'[t] # None => ready' /\ on'[turns'[t]] = child'
      BY <1>3, CodexAssumption DEF RunTurn, client, CodexAssumption
    <2> QED BY <2>2, <2>3, <2>4, <2>5, <2>6
  <1> QED BY <1>1, <1>2, <1>3

LEMMA HandleLineKeeps ==
    ASSUME ServedInv, CodexAssumption, NEW p \in Processes, HandleLine(p)
    PROVE  ServedInv'
  <1> DEFINE line == Head(lines[p])
  <1>1. /\ line \in LineType
        /\ lines' \in [Processes -> Seq(LineType)]
    <2>1. lines[p] \in Seq(LineType) /\ lines[p] # << >>
      BY DEF HandleLine, ServedInv, ClientType
    <2>2. Head(lines[p]) \in LineType /\ Tail(lines[p]) \in Seq(LineType)
      BY <2>1
    <2> QED BY <2>2 DEF HandleLine, ServedInv, ClientType
  <1> USE DEF ServedInv, ClientType, Steps, Nobody
  <1>2. CASE line.kind = "ready" /\ HandleReady(p)
             /\ UNCHANGED <<turns, answer, lost>>
    <2>1. step' \in [Calls -> Steps] /\ on' \in [Calls -> Nat] /\ ready' \in BOOLEAN
      BY <1>1, <1>2 DEF HandleLine, HandleReady, Requested, client, server
    <2>2. ClientType'
      BY <1>1, <1>2, <2>1 DEF HandleLine, HandleReady, Requested, client, server
    <2>3. ready' => child' \in alive' /\ starting' = Nobody
      <3>1. starting = p => starting # Nobody
        BY CodexAssumption DEF Processes, CodexAssumption
      <3> QED BY <1>2, <3>1 DEF HandleLine, HandleReady, client, server
    <2>4. starting' # Nobody => starting' = child' /\ child' \in alive'
      BY <1>1, <1>2 DEF HandleLine, HandleReady, Requested, client, server
    <2>5. \A d \in Calls :
             step'[d] \in {"waiting", "answered"} => ready' /\ on'[d] = child'
      BY <1>1, <1>2 DEF HandleLine, HandleReady, Requested, client, server
    <2>6. \A t \in Threads : turns'[t] # None => ready' /\ on'[turns'[t]] = child'
      BY <1>1, <1>2 DEF HandleLine, HandleReady, Requested, client, server
    <2> QED BY <2>2, <2>3, <2>4, <2>5, <2>6
  <1>3. CASE line.kind = "started" /\ HandleStarted(line.call)
             /\ UNCHANGED <<client, on, turns, answer, lost>>
    BY <1>1, <1>3 DEF HandleLine, HandleStarted, LineType, client, server
  <1>4. CASE line.kind = "completed" /\ HandleCompleted(line.call)
             /\ UNCHANGED <<client, on>>
    BY <1>1, <1>4, CodexAssumption
       DEF HandleLine, HandleCompleted, Waiter, LineType, client, server,
           CodexAssumption, Threads
  <1> QED BY <1>2, <1>3, <1>4 DEF HandleLine

\* Every way to lose the process, and a request that comes to nothing.
LEMMA LossKeeps ==
    ASSUME ServedInv, CodexAssumption,
           \/ StartTimesOut \/ Close
           \/ \E p \in Processes : Exits(p) \/ SpawnFails(p)
           \/ \E c \in Calls : RequestTimesOut(c)
    PROVE  ServedInv'
  <1> USE DEF ServedInv, ClientType, Steps, Nobody
  <1>1. CASE StartTimesOut
    BY <1>1 DEF StartTimesOut, Fail, server
  <1>2. CASE Close
    BY <1>2 DEF Close, NoChild, FailAll, Fail, Requests, MidChunk, server
  <1>3. ASSUME NEW p \in Processes, Exits(p)
        PROVE  ServedInv'
    BY <1>3 DEF Exits, NoChild, FailAll, Fail, Requests, MidChunk
  <1>4. ASSUME NEW p \in Processes, SpawnFails(p)
        PROVE  ServedInv'
    <2>1. step' \in [Calls -> Steps] /\ on' \in [Calls -> Nat] /\ ready' \in BOOLEAN
      BY <1>4 DEF SpawnFails, FailAll, Fail, Requests, MidChunk
    <2>2. ClientType'
      BY <1>4, <2>1 DEF SpawnFails, FailAll, Fail, Requests, MidChunk
    <2>3. ready' => child' \in alive' /\ starting' = Nobody
      BY <1>4 DEF SpawnFails, Processes, FailAll, Fail, Requests, MidChunk
    <2>4. starting' # Nobody => starting' = child' /\ child' \in alive'
      BY <1>4 DEF SpawnFails, FailAll, Fail, Requests, MidChunk
    <2>5. \A d \in Calls :
             step'[d] \in {"waiting", "answered"} => ready' /\ on'[d] = child'
      BY <1>4 DEF SpawnFails, FailAll, Fail, Requests, MidChunk
    <2>6. \A t \in Threads : turns'[t] # None => ready' /\ on'[turns'[t]] = child'
      BY <1>4 DEF SpawnFails, FailAll, Fail, Requests, MidChunk
    <2> QED BY <2>2, <2>3, <2>4, <2>5, <2>6
  <1>5. ASSUME NEW c \in Calls, RequestTimesOut(c)
        PROVE  ServedInv'
    BY <1>5 DEF RequestTimesOut, client, server
  <1> QED BY <1>1, <1>2, <1>3, <1>4, <1>5

LEMMA NextServed ==
    ASSUME ServedInv, CodexAssumption, [Next]_vars
    PROVE  ServedInv'
  <1>1. ASSUME NEW p \in Processes, Initializes(p)
        PROVE  ServedInv'
    <2>1. Line("ready", None) \in LineType
      BY DEF Line, LineType
    <2> QED BY <1>1, <2>1, SaysType, CodexKeeps DEF Initializes, ServedInv, server
  <1>2. ASSUME NEW c \in Calls, Begins(c) \/ Completes(c)
        PROVE  ServedInv'
    <2>1. Line("started", c) \in LineType /\ Line("completed", c) \in LineType
      BY DEF Line, LineType
    <2>2. on[c] \in Processes
      BY <1>2 DEF Begins, Completes, ServedInv, ClientType
    <2> QED BY <1>2, <2>1, <2>2, SaysType, CodexKeeps
            DEF Begins, Completes, ServedInv, server
  <1>3. ASSUME NEW c \in Calls, WaitsForTurn(c)
        PROVE  ServedInv'
    BY <1>3 DEF WaitsForTurn, ServedInv, ClientType, Steps, Threads, client, server
  <1>4. ASSUME NEW p \in Processes, ReadsLine(p)
        PROVE  ServedInv'
    BY <1>4, HandleLineKeeps DEF ReadsLine
  <1>5. CASE UNCHANGED vars
    BY <1>5, CodexKeeps DEF vars, client, server, ServedInv, ClientType
  <1> QED
    BY <1>1, <1>2, <1>3, <1>4, <1>5, RunTurnKeeps, LossKeeps DEF Next

\* codex-app-server.ts:344: what waits for Codex waits for a process that lives
\* and that the client holds, whatever processes have been given up, exited and
\* been replaced.
THEOREM WaitersServed == Spec => []WaitersAreServed
  <1>1. Init => ServedInv
    BY InitServed, CodexAssumption
  <1>2. ServedInv /\ [Next]_vars => ServedInv'
    BY NextServed, CodexAssumption
  <1>3. ServedInv => WaitersAreServed
    BY CodexAssumption DEF ServedInv, ClientType, WaitersAreServed, Waiting,
                           CodexAssumption
  <1> QED BY <1>1, <1>2, <1>3, PTL DEF Spec

-----------------------------------------------------------------------------
(* Whose answer a call gets.                                               *)

\* A call is in one state of the protocol: it was sent to no process before it
\* starts, is waited for on its own thread, and is done with an answer.
CallsAreSound ==
    /\ \A c \in Calls : step[c] \in {"new", "starting"} => on[c] = Nobody
    /\ \A c \in begun : step[c] \notin {"new", "starting"}
    /\ \A c \in Calls : answer[c] # None <=> step[c] = "done"
    /\ \A t \in Threads : turns[t] # None =>
          step[turns[t]] = "running" /\ ThreadOf[turns[t]] = t
    /\ \A c, d \in Calls :
          Active(c) /\ Active(d) /\ ThreadOf[c] = ThreadOf[d] => c = d

\* The completion of a turn is on its way once, from the process of the turn,
\* and nobody has taken it for an answer.
Completed(p, c) == {i \in DOMAIN lines[p] : lines[p][i] = Line("completed", c)}
CompletionsAreNew ==
    \A p \in Processes, c \in Calls : \A i \in Completed(p, c) :
       /\ c \in begun /\ p = on[c]
       /\ \A d \in Calls : answer[d] # c
       /\ \A j \in Completed(p, c) : j = i

\* The inductive invariant.
OwnInv ==
    /\ answer \in [Calls -> Calls \cup {None}] /\ begun \subseteq Calls
    /\ CallsAreSound
    /\ CompletionsAreNew
    /\ AnswersAreOwn

LEMMA InitOwn ==
    ASSUME Init
    PROVE  OwnInv
  <1>1. \A p \in Processes : lines[p] = << >> /\ DOMAIN << >> = {}
    BY DEF Init
  <1>2. CompletionsAreNew
    BY <1>1 DEF CompletionsAreNew, Completed
  <1>3. CallsAreSound
    BY DEF Init, CallsAreSound, Active
  <1>4. answer \in [Calls -> Calls \cup {None}] /\ begun \subseteq Calls
    BY DEF Init
  <1>5. AnswersAreOwn
    BY DEF Init, AnswersAreOwn
  <1> QED BY <1>2, <1>3, <1>4, <1>5 DEF OwnInv

\* A line that is no completion comes to the lines of a process.
LEMMA SaysOther ==
    ASSUME ClientType, NEW p \in Processes, NEW l \in LineType,
           l.kind # "completed", Says(p, l), NEW q \in Processes, NEW c
    PROVE  Completed(q, c)' = Completed(q, c)
  <1>1. /\ lines[q] \in Seq(LineType) /\ lines[p] \in Seq(LineType)
        /\ lines'[q] = IF q = p THEN Append(lines[p], l) ELSE lines[q]
    BY DEF ClientType, Says
  <1>2. CASE q = p
    <2> DEFINE n == Len(lines[p]) + 1
    <2>1. /\ DOMAIN lines[p] = 1..Len(lines[p]) /\ Len(lines[p]) \in Nat
          /\ DOMAIN Append(lines[p], l) = 1..n /\ Append(lines[p], l)[n] = l
          /\ \A i \in 1..Len(lines[p]) : Append(lines[p], l)[i] = lines[p][i]
      BY <1>1
    <2>2. l # Line("completed", c)
      BY DEF Line
    <2>3. \A i \in 1..n : i \in 1..Len(lines[p]) \/ i = n
      BY <2>1
    <2>4. 1..Len(lines[p]) \subseteq 1..n
      BY <2>1
    <2> HIDE DEF n
    <2> QED BY <1>1, <1>2, <2>1, <2>2, <2>3, <2>4 DEF Completed
  <1>3. CASE q # p
    BY <1>1, <1>3 DEF Completed
  <1> QED BY <1>2, <1>3

\* A completion is said: it is the last line, and the others stay.
LEMMA SaysCompleted ==
    ASSUME ClientType, NEW p \in Processes, NEW c \in Calls,
           Says(p, Line("completed", c)), Completed(p, c) = {},
           NEW q \in Processes, NEW d \in Calls
    PROVE  IF q = p /\ d = c THEN \E n : Completed(q, d)' = {n}
                             ELSE Completed(q, d)' = Completed(q, d)
  <1> DEFINE l == Line("completed", c)
  <1>1. /\ lines[q] \in Seq(LineType) /\ lines[p] \in Seq(LineType)
        /\ lines'[q] = IF q = p THEN Append(lines[p], l) ELSE lines[q]
    BY DEF ClientType, Says
  <1>2. CASE q = p
    <2> DEFINE n == Len(lines[p]) + 1
    <2>0. l \in LineType
      BY DEF Line, LineType
    <2>1. /\ DOMAIN lines[p] = 1..Len(lines[p]) /\ Len(lines[p]) \in Nat
          /\ DOMAIN Append(lines[p], l) = 1..n /\ Append(lines[p], l)[n] = l
          /\ \A i \in 1..Len(lines[p]) : Append(lines[p], l)[i] = lines[p][i]
      BY <1>1, <2>0
    <2>2. d # c => l # Line("completed", d)
      BY DEF Line
    <2>3. /\ \A i \in 1..n : i \in 1..Len(lines[p]) \/ i = n
          /\ n \notin 1..Len(lines[p]) /\ n \in 1..n
          /\ 1..Len(lines[p]) \subseteq 1..n
      BY <2>1
    <2> HIDE DEF n
    <2>4. CASE d = c
      <3>1. Completed(q, d)' = {n}
        BY <1>1, <1>2, <2>1, <2>3, <2>4 DEF Completed
      <3> QED BY <1>2, <2>4, <3>1
    <2>5. CASE d # c
      <3> HIDE DEF l
      <3>1. Completed(q, d)' = Completed(q, d)
        BY <1>1, <1>2, <2>1, <2>2, <2>3, <2>5 DEF Completed
      <3> QED BY <2>5, <3>1
    <2> QED BY <2>4, <2>5
  <1>3. CASE q # p
    BY <1>1, <1>3 DEF Completed
  <1> QED BY <1>2, <1>3

\* A line is read: the completions behind it move up by one.
LEMMA ReadCompleted ==
    ASSUME ClientType, NEW p \in Processes, lines[p] # << >>,
           lines' = [lines EXCEPT ![p] = Tail(@)], NEW q \in Processes, NEW c,
           NEW i \in Completed(q, c)'
    PROVE  \E j \in Completed(q, c) :
              IF q = p THEN i \in Nat /\ j = i + 1 /\ j # 1 ELSE j = i
  <1>1. CASE q = p
    <2>1. lines[p] \in Seq(LineType) /\ lines'[p] = Tail(lines[p])
      BY DEF ClientType
    <2>2. /\ DOMAIN lines[p] = 1..Len(lines[p]) /\ Len(lines[p]) \in Nat
          /\ DOMAIN Tail(lines[p]) = 1..(Len(lines[p]) - 1)
          /\ \A k \in 1..(Len(lines[p]) - 1) : Tail(lines[p])[k] = lines[p][k + 1]
      BY <2>1
    <2>3. i \in 1..(Len(lines[p]) - 1) /\ lines'[p][i] = Line("completed", c)
      BY <1>1, <2>1, <2>2 DEF Completed
    <2>4. i + 1 \in 1..Len(lines[p]) /\ i + 1 # 1 /\ i \in Nat
      BY <2>2, <2>3
    <2>5. lines[p][i + 1] = Line("completed", c)
      BY <2>1, <2>2, <2>3
    <2>6. i + 1 \in Completed(q, c)
      BY <1>1, <2>2, <2>4, <2>5 DEF Completed
    <2> QED BY <1>1, <2>4, <2>6
  <1>2. CASE q # p
    <2>1. lines'[q] = lines[q]
      BY <1>2 DEF ClientType
    <2>2. i \in Completed(q, c)
      BY <2>1 DEF Completed
    <2> QED BY <1>2, <2>2
  <1> QED BY <1>1, <1>2

\* No answer is handed out, and no completion is said or read.
LEMMA SameLinesNew ==
    ASSUME CompletionsAreNew, UNCHANGED answer, begun \subseteq begun',
           \A c \in begun : on'[c] = on[c],
           \A p \in Processes, c \in Calls : Completed(p, c)' = Completed(p, c)
    PROVE  CompletionsAreNew'
  BY DEF CompletionsAreNew

\* Calls that have not failed stay so until they do, and keep their answers.
LEMMA SameAnswersOwn ==
    ASSUME AnswersAreOwn, UNCHANGED answer,
           \A d \in Calls : step[d] = "failed" => step'[d] = "failed"
    PROVE  AnswersAreOwn'
  BY DEF AnswersAreOwn

\* What Codex says changes nothing at the client.
LEMMA CodexOwn ==
    ASSUME ServedInv, CodexAssumption, OwnInv,
           \/ \E p \in Processes : Initializes(p)
           \/ \E c \in Calls : Begins(c) \/ Completes(c)
    PROVE  OwnInv'
  <1>0. /\ ClientType /\ CallsAreSound /\ CompletionsAreNew /\ AnswersAreOwn
        /\ answer \in [Calls -> Calls \cup {None}] /\ begun \subseteq Calls
    BY DEF OwnInv, ServedInv
  <1>1. UNCHANGED <<step, on, turns, answer>>
    BY DEF Initializes, Begins, Completes
  <1>2. AnswersAreOwn'
    BY <1>0, <1>1, SameAnswersOwn
  <1>3. CASE \E p \in Processes : Initializes(p)
    <2>1. PICK p \in Processes : Initializes(p)
      BY <1>3
    <2>2. Line("ready", None) \in LineType /\ Line("ready", None).kind # "completed"
      BY DEF Line, LineType
    <2>3. UNCHANGED begun /\ Says(p, Line("ready", None))
      BY <2>1 DEF Initializes, server
    <2>4. \A q \in Processes, d \in Calls : Completed(q, d)' = Completed(q, d)
      BY <1>0, <2>2, <2>3, SaysOther
    <2>5. CompletionsAreNew'
      BY <1>0, <1>1, <2>3, <2>4, SameLinesNew
    <2>6. CallsAreSound'
      BY <1>0, <1>1, <2>3 DEF CallsAreSound, Active
    <2> QED BY <1>0, <1>1, <1>2, <2>3, <2>5, <2>6 DEF OwnInv
  <1>4. ASSUME NEW c \in Calls, Begins(c)
        PROVE  OwnInv'
    <2>1. Line("started", c) \in LineType /\ Line("started", c).kind # "completed"
      BY DEF Line, LineType
    <2>2. /\ on[c] \in Processes /\ on[c] # Nobody
          /\ begun' = begun \cup {c} /\ Says(on[c], Line("started", c))
      BY <1>0, <1>4 DEF Begins, ClientType, Processes, Nobody
    <2>3. \A q \in Processes, d \in Calls : Completed(q, d)' = Completed(q, d)
      BY <1>0, <2>1, <2>2, SaysOther
    <2>4. CompletionsAreNew'
      BY <1>0, <1>1, <2>2, <2>3, SameLinesNew
    <2>5. step[c] \notin {"new", "starting"}
      BY <1>0, <2>2 DEF CallsAreSound
    <2>6. CallsAreSound'
      BY <1>0, <1>1, <2>2, <2>5 DEF CallsAreSound, Active
    <2> QED BY <1>0, <1>1, <1>2, <2>2, <2>4, <2>6 DEF OwnInv
  <1>5. ASSUME NEW c \in Calls, Completes(c)
        PROVE  OwnInv'
    <2> DEFINE p == on[c]
    <2>1. /\ p \in Processes /\ UNCHANGED begun /\ c \in begun
          /\ Says(p, Line("completed", c)) /\ \A d \in Calls : answer[d] # c
      BY <1>0, <1>5 DEF Completes, ClientType, server
    <2>2. Completed(p, c) = {}
      BY <1>5 DEF Completes, Completed
    <2> HIDE DEF p
    <2>3. \A q \in Processes, d \in Calls :
             IF q = p /\ d = c THEN \E n : Completed(q, d)' = {n}
                               ELSE Completed(q, d)' = Completed(q, d)
      BY <1>0, <2>1, <2>2, SaysCompleted
    <2>4. ASSUME NEW q \in Processes, NEW d \in Calls, NEW i \in Completed(q, d)'
          PROVE  /\ d \in begun' /\ q = on'[d]
                 /\ \A e \in Calls : answer'[e] # d
                 /\ \A j \in Completed(q, d)' : j = i
      <3>1. CASE q = p /\ d = c
        <4>1. PICK n : Completed(q, d)' = {n}
          BY <2>3, <3>1
        <4> QED BY <1>1, <2>1, <3>1, <4>1 DEF p
      <3>2. CASE ~(q = p /\ d = c)
        <4>1. Completed(q, d)' = Completed(q, d)
          BY <2>3, <3>2
        <4> QED BY <1>0, <1>1, <2>1, <4>1 DEF CompletionsAreNew
      <3> QED BY <3>1, <3>2
    <2>5. CompletionsAreNew'
      BY <2>4 DEF CompletionsAreNew
    <2>6. CallsAreSound'
      BY <1>0, <1>1, <2>1 DEF CallsAreSound, Active
    <2> QED BY <1>0, <1>1, <1>2, <2>1, <2>5, <2>6 DEF OwnInv
  <1> QED BY <1>3, <1>4, <1>5

\* Calls that fail: none of them has an answer, and a turn that is still
\* waited for is not among them.
LEMMA FailOwn ==
    ASSUME ServedInv, OwnInv, NEW F,
           \A c \in Calls : c \in F => step[c] \notin {"new", "done"},
           Fail(F), UNCHANGED <<on, answer, begun, lines>>,
           \A t \in Threads : \/ turns'[t] = None
                              \/ turns'[t] = turns[t] /\ turns[t] \notin F
    PROVE  OwnInv'
  <1>0. /\ ClientType /\ CallsAreSound /\ CompletionsAreNew /\ AnswersAreOwn
        /\ answer \in [Calls -> Calls \cup {None}] /\ begun \subseteq Calls
    BY DEF OwnInv, ServedInv
  <1>1. \A c \in Calls : step'[c] = IF c \in F THEN "failed" ELSE step[c]
    BY DEF Fail
  <1>2. AnswersAreOwn'
    BY <1>0, <1>1, SameAnswersOwn
  <1>3. CompletionsAreNew'
    <2>1. \A p \in Processes, c \in Calls : Completed(p, c)' = Completed(p, c)
      BY DEF Completed
    <2> QED BY <1>0, <2>1, SameLinesNew
  <1>4. CallsAreSound'
    <2>1. \A c \in Calls : step'[c] \in {"new", "starting"} => on'[c] = Nobody
      BY <1>0, <1>1 DEF CallsAreSound
    <2>2. \A c \in begun' : step'[c] \notin {"new", "starting"}
      BY <1>0, <1>1 DEF CallsAreSound
    <2>3. \A c \in Calls : answer'[c] # None <=> step'[c] = "done"
      BY <1>0, <1>1 DEF CallsAreSound
    <2>4. ASSUME NEW t \in Threads, turns'[t] # None
          PROVE  step'[turns'[t]] = "running" /\ ThreadOf[turns'[t]] = t
      <3>1. turns'[t] = turns[t] /\ turns[t] \notin F /\ turns[t] \in Calls
        BY <1>0, <2>4 DEF ClientType
      <3> QED BY <1>0, <1>1, <2>4, <3>1 DEF CallsAreSound
    <2>5. \A c \in Calls : Active(c)' => Active(c)
      BY <1>1 DEF Active
    <2>6. \A c, d \in Calls :
             Active(c)' /\ Active(d)' /\ ThreadOf[c] = ThreadOf[d] => c = d
      BY <1>0, <2>5 DEF CallsAreSound
    <2> QED BY <2>1, <2>2, <2>3, <2>4, <2>6 DEF CallsAreSound
  <1> QED BY <1>0, <1>2, <1>3, <1>4 DEF OwnInv

LEMMA LossOwn ==
    ASSUME ServedInv, CodexAssumption, OwnInv,
           \/ StartTimesOut \/ Close
           \/ \E p \in Processes : Exits(p) \/ SpawnFails(p)
           \/ \E c \in Calls : RequestTimesOut(c)
    PROVE  OwnInv'
  <1>0. /\ ClientType /\ CallsAreSound
    BY DEF OwnInv, ServedInv
  <1>1. CASE FailAll /\ UNCHANGED <<on, answer, begun, lines>>
    <2> DEFINE F == Requests \cup {turns[t] : t \in Threads}
    <2>1. ASSUME NEW c \in Calls, c \in F
          PROVE  step[c] \notin {"new", "done"}
      <3>1. CASE c \in Requests
        BY <3>1 DEF Requests
      <3>2. ASSUME NEW t \in Threads, c = turns[t]
            PROVE  step[c] \notin {"new", "done"}
        BY <1>0, <3>2, CodexAssumption DEF CallsAreSound, CodexAssumption
      <3> QED BY <2>1, <3>1, <3>2
    <2>2. Fail(F) /\ \A t \in Threads : turns'[t] = None
      BY <1>1 DEF FailAll
    <2> HIDE DEF F
    <2> QED BY <1>1, <2>1, <2>2, FailOwn
  <1>2. CASE StartTimesOut
    <2> DEFINE F == {c \in Calls : step[c] = "starting"}
    <2>1. \A c \in Calls : c \in F => step[c] \notin {"new", "done"}
      OBVIOUS
    <2>2. Fail(F) /\ UNCHANGED <<on, answer, begun, lines, turns>>
      BY <1>2 DEF StartTimesOut, server
    <2>3. \A t \in Threads : \/ turns'[t] = None
                             \/ turns'[t] = turns[t] /\ turns[t] \notin F
      BY <1>0, <2>2 DEF CallsAreSound
    <2> HIDE DEF F
    <2> QED BY <2>1, <2>2, <2>3, FailOwn
  <1>3. ASSUME NEW c \in Calls, RequestTimesOut(c)
        PROVE  OwnInv'
    <2>1. \A d \in Calls : d \in {c} => step[d] \notin {"new", "done"}
      BY <1>3 DEF RequestTimesOut
    <2>2. Fail({c}) /\ UNCHANGED <<on, answer, begun, lines, turns>>
      BY <1>0, <1>3 DEF RequestTimesOut, Fail, server, ClientType
    <2>3. \A t \in Threads : \/ turns'[t] = None
                             \/ turns'[t] = turns[t] /\ turns[t] \notin {c}
      BY <1>0, <1>3, <2>2 DEF CallsAreSound, RequestTimesOut
    <2> QED BY <2>1, <2>2, <2>3, FailOwn
  <1> QED BY <1>1, <1>2, <1>3 DEF Close, Exits, SpawnFails, server


\* A line is read, and no other answer is handed out than the one it brings.
LEMMA ReadNew ==
    ASSUME ServedInv, OwnInv, NEW p \in Processes, lines[p] # << >>,
           lines' = [lines EXCEPT ![p] = Tail(@)], UNCHANGED begun,
           \A c \in begun : on'[c] = on[c],
           \A d \in Calls : \/ answer'[d] = answer[d]
                            \/ Head(lines[p]) = Line("completed", answer'[d])
    PROVE  CompletionsAreNew'
  <1>0. ClientType /\ CompletionsAreNew
    BY DEF OwnInv, ServedInv
  <1>1. ASSUME NEW q \in Processes, NEW c \in Calls, NEW i \in Completed(q, c)'
        PROVE  /\ c \in begun' /\ q = on'[c]
               /\ \A d \in Calls : answer'[d] # c
               /\ \A j \in Completed(q, c)' : j = i
    <2>1. PICK k \in Completed(q, c) :
             IF q = p THEN i \in Nat /\ k = i + 1 /\ k # 1 ELSE k = i
      BY <1>0, ReadCompleted
    <2>2. c \in begun' /\ q = on'[c]
      BY <1>0, <2>1 DEF CompletionsAreNew
    <2>3. ASSUME NEW d \in Calls, answer'[d] = c
          PROVE  FALSE
      <3>1. Head(lines[p]) = Line("completed", c)
        BY <1>0, <2>1, <2>3 DEF CompletionsAreNew
      <3>2. 1 \in Completed(p, c)
        <4>1. lines[p] \in Seq(LineType)
          BY <1>0 DEF ClientType
        <4>2. 1 \in DOMAIN lines[p] /\ lines[p][1] = Head(lines[p])
          BY <4>1
        <4> QED BY <3>1, <4>2 DEF Completed
      <3>3. p = on[c] /\ q = on[c]
        BY <1>0, <2>1, <3>2 DEF CompletionsAreNew
      <3>4. k = 1
        BY <1>0, <2>1, <3>2, <3>3 DEF CompletionsAreNew
      <3> QED BY <2>1, <3>3, <3>4
    <2>4. ASSUME NEW j \in Completed(q, c)'
          PROVE  j = i
      <3>1. PICK m \in Completed(q, c) :
               IF q = p THEN j \in Nat /\ m = j + 1 /\ m # 1 ELSE m = j
        BY <1>0, ReadCompleted
      <3>2. m = k
        BY <1>0, <2>1, <3>1 DEF CompletionsAreNew
      <3> QED BY <2>1, <3>1, <3>2
    <2> QED BY <2>2, <2>3, <2>4
  <1> QED BY <1>1 DEF CompletionsAreNew

\* Calls go on, and no answer is handed out.
LEMMA GoOnOwn ==
    ASSUME ServedInv, OwnInv, CompletionsAreNew', UNCHANGED <<answer, begun>>,
           \A c \in Calls :
              /\ step[c] = "failed" => step'[c] = "failed"
              /\ step[c] = "done" <=> step'[c] = "done"
              /\ step'[c] \in {"new", "starting"} =>
                    step[c] \in {"new", "starting"} /\ on'[c] = on[c],
           \A t \in Threads : turns'[t] # None =>
              step'[turns'[t]] = "running" /\ ThreadOf[turns'[t]] = t,
           \A c, d \in Calls :
              Active(c)' /\ Active(d)' /\ ThreadOf[c] = ThreadOf[d] => c = d
    PROVE  OwnInv'
  <1>0. /\ ClientType /\ CallsAreSound /\ CompletionsAreNew /\ AnswersAreOwn
        /\ answer \in [Calls -> Calls \cup {None}] /\ begun \subseteq Calls
    BY DEF OwnInv, ServedInv
  <1>1. AnswersAreOwn'
    BY <1>0, SameAnswersOwn
  <1>2. CallsAreSound'
    <2>1. \A c \in Calls : step'[c] \in {"new", "starting"} => on'[c] = Nobody
      BY <1>0 DEF CallsAreSound
    <2>2. \A c \in begun' : step'[c] \notin {"new", "starting"}
      BY <1>0 DEF CallsAreSound
    <2>3. \A c \in Calls : answer'[c] # None <=> step'[c] = "done"
      BY <1>0 DEF CallsAreSound
    <2> QED BY <2>1, <2>2, <2>3 DEF CallsAreSound
  <1> QED BY <1>0, <1>1, <1>2 DEF OwnInv

LEMMA RunTurnOwn ==
    ASSUME ServedInv, CodexAssumption, OwnInv, NEW c \in Calls, RunTurn(c)
    PROVE  OwnInv'
  <1>0. /\ ClientType /\ CallsAreSound /\ CompletionsAreNew
        /\ answer \in [Calls -> Calls \cup {None}] /\ begun \subseteq Calls
    BY DEF OwnInv, ServedInv
  <1>1. /\ step[c] = "new" /\ UNCHANGED <<begun, turns, answer, lines>>
        /\ \A d \in Calls : Active(d) => ThreadOf[d] # ThreadOf[c]
    BY DEF RunTurn
  <1>2. /\ step'[c] \in {"starting", "waiting"}
        /\ step'[c] = "starting" => on'[c] = on[c]
        /\ \A d \in Calls \ {c} : step'[d] = step[d] /\ on'[d] = on[d]
    <2>1. CASE ready
      BY <1>0, <2>1 DEF RunTurn, Requested, ClientType
    <2>2. CASE ~ready
      BY <1>0, <2>2 DEF RunTurn, ClientType
    <2> QED BY <2>1, <2>2
  <1>3. c \notin begun
    BY <1>0, <1>1 DEF CallsAreSound
  <1>4. CompletionsAreNew'
    <2>1. \A p \in Processes, d \in Calls : Completed(p, d)' = Completed(p, d)
      BY <1>1 DEF Completed
    <2>2. \A d \in begun : on'[d] = on[d]
      BY <1>0, <1>2, <1>3
    <2> QED BY <1>0, <1>1, <2>1, <2>2, SameLinesNew
  <1>5. \A d \in Calls :
           /\ step[d] = "failed" => step'[d] = "failed"
           /\ step[d] = "done" <=> step'[d] = "done"
           /\ step'[d] \in {"new", "starting"} =>
                 step[d] \in {"new", "starting"} /\ on'[d] = on[d]
    BY <1>1, <1>2
  <1>6. \A t \in Threads : turns'[t] # None =>
           step'[turns'[t]] = "running" /\ ThreadOf[turns'[t]] = t
    BY <1>0, <1>1, <1>2 DEF CallsAreSound, ClientType
  <1>7. \A d, e \in Calls :
           Active(d)' /\ Active(e)' /\ ThreadOf[d] = ThreadOf[e] => d = e
    <2>1. \A d \in Calls : Active(d)' => d = c \/ Active(d)
      BY <1>2 DEF Active
    <2> QED BY <1>0, <1>1, <2>1 DEF CallsAreSound
  <1> QED BY <1>1, <1>4, <1>5, <1>6, <1>7, GoOnOwn

LEMMA WaitsOwn ==
    ASSUME ServedInv, CodexAssumption, OwnInv, NEW c \in Calls, WaitsForTurn(c)
    PROVE  OwnInv'
  <1>0. /\ ClientType /\ CallsAreSound /\ CompletionsAreNew
    BY DEF OwnInv, ServedInv
  <1>1. /\ step[c] = "answered" /\ UNCHANGED <<begun, on, answer, lines>>
        /\ \A d \in Calls : step'[d] = IF d = c THEN "running" ELSE step[d]
        /\ \A t \in Threads : turns'[t] = IF t = ThreadOf[c] THEN c ELSE turns[t]
    BY <1>0 DEF WaitsForTurn, server, ClientType
  <1>2. CompletionsAreNew'
    <2>1. \A p \in Processes, d \in Calls : Completed(p, d)' = Completed(p, d)
      BY <1>1 DEF Completed
    <2> QED BY <1>0, <1>1, <2>1, SameLinesNew
  <1>3. \A d \in Calls :
           /\ step[d] = "failed" => step'[d] = "failed"
           /\ step[d] = "done" <=> step'[d] = "done"
           /\ step'[d] \in {"new", "starting"} =>
                 step[d] \in {"new", "starting"} /\ on'[d] = on[d]
    BY <1>1
  <1>4. \A t \in Threads : turns'[t] # None =>
           step'[turns'[t]] = "running" /\ ThreadOf[turns'[t]] = t
    BY <1>0, <1>1 DEF CallsAreSound, ClientType
  <1>5. \A d, e \in Calls :
           Active(d)' /\ Active(e)' /\ ThreadOf[d] = ThreadOf[e] => d = e
    <2>1. \A d \in Calls : Active(d)' => Active(d)
      BY <1>1 DEF Active
    <2> QED BY <1>0, <2>1 DEF CallsAreSound
  <1> QED BY <1>1, <1>2, <1>3, <1>4, <1>5, GoOnOwn

\* The waiter of a turn that is completed gets it for an answer. If the turn is
\* not its own, the call of that turn has failed, or was itself answered by
\* another turn.
LEMMA CompletedOwn ==
    ASSUME ServedInv, CodexAssumption, OwnInv, NEW p \in Processes,
           HandleLine(p), Head(lines[p]).kind = "completed"
    PROVE  OwnInv'
  <1> DEFINE e == Head(lines[p]).call
             w == Waiter(e)
  <1>0. /\ ClientType /\ CallsAreSound /\ CompletionsAreNew /\ AnswersAreOwn
        /\ answer \in [Calls -> Calls \cup {None}] /\ begun \subseteq Calls
    BY DEF OwnInv, ServedInv
  <1>1. /\ lines[p] # << >> /\ lines' = [lines EXCEPT ![p] = Tail(@)]
        /\ HandleCompleted(e) /\ UNCHANGED <<begun, on>>
    BY DEF HandleLine, server
  <1>2. e \in Calls /\ Head(lines[p]) = Line("completed", e) /\ 1 \in Completed(p, e)
    <2>1. lines[p] \in Seq(LineType)
      BY <1>0 DEF ClientType
    <2>2. /\ Head(lines[p]) \in LineType
          /\ 1 \in DOMAIN lines[p] /\ lines[p][1] = Head(lines[p])
      BY <1>1, <2>1
    <2>3. e \in Calls /\ Head(lines[p]) = Line("completed", e)
      BY <2>2 DEF LineType, Line
    <2> QED BY <2>2, <2>3 DEF Completed
  <1>3. e \in begun /\ \A d \in Calls : answer[d] # e
    BY <1>0, <1>2 DEF CompletionsAreNew
  <1> HIDE DEF e
  <1>4. CASE w = None
    <2>1. UNCHANGED <<step, answer, turns>>
      BY <1>1, <1>4 DEF HandleCompleted
    <2>2. CompletionsAreNew'
      BY <1>1, <2>1, ReadNew
    <2>3. \A t \in Threads : turns'[t] # None =>
             step'[turns'[t]] = "running" /\ ThreadOf[turns'[t]] = t
      BY <1>0, <2>1 DEF CallsAreSound
    <2>4. \A c, d \in Calls :
             Active(c)' /\ Active(d)' /\ ThreadOf[c] = ThreadOf[d] => c = d
      BY <1>0, <2>1 DEF CallsAreSound, Active
    <2> QED BY <1>1, <2>1, <2>2, <2>3, <2>4, GoOnOwn
  <1>5. CASE w # None
    <2>1. ThreadOf[e] \in Threads /\ w = turns[ThreadOf[e]]
      BY <1>2 DEF Threads, Waiter
    <2>2. w \in Calls /\ step[w] = "running" /\ ThreadOf[w] = ThreadOf[e]
      BY <1>0, <1>5, <2>1 DEF CallsAreSound, ClientType
    <2> HIDE DEF w
    <2>3. /\ \A d \in Calls : step'[d] = IF d = w THEN "done" ELSE step[d]
          /\ \A d \in Calls : answer'[d] = IF d = w THEN e ELSE answer[d]
          /\ \A t \in Threads : turns'[t] = IF t = ThreadOf[w] THEN None ELSE turns[t]
          /\ answer' \in [Calls -> Calls \cup {None}]
      BY <1>0, <1>1, <1>2, <1>5, <2>2 DEF HandleCompleted, w, ClientType
    <2>4. CompletionsAreNew'
      BY <1>1, <1>2, <2>3, ReadNew
    <2>5. CallsAreSound'
      <3>1. \A c \in Calls : step'[c] \in {"new", "starting"} => on'[c] = Nobody
        BY <1>0, <1>1, <2>3 DEF CallsAreSound
      <3>2. \A c \in begun' : step'[c] \notin {"new", "starting"}
        BY <1>0, <1>1, <2>3 DEF CallsAreSound
      <3>3. \A c \in Calls : answer'[c] # None <=> step'[c] = "done"
        BY <1>0, <1>2, <2>3, CodexAssumption DEF CallsAreSound, CodexAssumption
      <3>4. ASSUME NEW t \in Threads, turns'[t] # None
            PROVE  step'[turns'[t]] = "running" /\ ThreadOf[turns'[t]] = t
        <4>1. t # ThreadOf[w] /\ turns'[t] = turns[t] /\ turns[t] \in Calls
          BY <1>0, <2>3, <3>4 DEF ClientType
        <4> QED BY <1>0, <2>3, <3>4, <4>1 DEF CallsAreSound
      <3>5. \A c \in Calls : Active(c)' => Active(c)
        BY <2>3 DEF Active
      <3>6. \A c, d \in Calls :
               Active(c)' /\ Active(d)' /\ ThreadOf[c] = ThreadOf[d] => c = d
        BY <1>0, <3>5 DEF CallsAreSound
      <3> QED BY <3>1, <3>2, <3>3, <3>4, <3>6 DEF CallsAreSound
    <2>6. \A d \in Calls : step[d] = "failed" => step'[d] = "failed"
      BY <2>2, <2>3
    <2>7. e = w \/ \E d \in Calls : ThreadOf[d] = ThreadOf[w] /\ step[d] = "failed"
      <3>1. CASE Active(e)
        BY <1>0, <1>2, <2>2, <3>1 DEF CallsAreSound, Active
      <3>2. CASE step[e] = "failed"
        BY <1>2, <2>2, <3>2
      <3>3. CASE step[e] = "done"
        BY <1>0, <1>2, <1>3, <2>2, <3>3 DEF CallsAreSound, AnswersAreOwn
      <3> QED BY <1>0, <1>2, <1>3, <3>1, <3>2, <3>3
              DEF CallsAreSound, Active, ClientType, Steps
    <2>8. AnswersAreOwn'
      <3>1. ASSUME NEW c \in Calls, answer'[c] # None
            PROVE  /\ ThreadOf[answer'[c]] = ThreadOf[c]
                   /\ answer'[c] = c \/ \E d \in Calls :
                        ThreadOf[d] = ThreadOf[c] /\ step'[d] = "failed"
        <4>1. CASE c = w
          BY <2>2, <2>3, <2>6, <2>7, <4>1
        <4>2. CASE c # w
          BY <1>0, <2>3, <2>6, <3>1, <4>2 DEF AnswersAreOwn
        <4> QED BY <4>1, <4>2
      <3> QED BY <3>1 DEF AnswersAreOwn
    <2> QED BY <1>0, <1>1, <2>3, <2>4, <2>5, <2>8 DEF OwnInv
  <1> QED BY <1>4, <1>5

LEMMA HandleLineOwn ==
    ASSUME ServedInv, CodexAssumption, OwnInv, NEW p \in Processes, HandleLine(p)
    PROVE  OwnInv'
  <1> DEFINE line == Head(lines[p])
  <1>0. ClientType /\ CallsAreSound
    BY DEF OwnInv, ServedInv
  <1>1. /\ lines[p] # << >> /\ lines' = [lines EXCEPT ![p] = Tail(@)]
        /\ UNCHANGED begun
    BY DEF HandleLine, server
  <1>2. CASE /\ UNCHANGED <<answer, turns>>
             /\ \/ HandleReady(p)
                \/ HandleStarted(line.call) /\ UNCHANGED on
    <2>1. \A c \in Calls :
             \/ step'[c] = step[c] /\ on'[c] = on[c]
             \/ step[c] = "starting" /\ step'[c] = "waiting"
             \/ step[c] = "waiting" /\ step'[c] = "answered" /\ on'[c] = on[c]
      <3>1. CASE HandleReady(p)
        BY <3>1 DEF HandleReady, Requested
      <3>2. CASE HandleStarted(line.call) /\ UNCHANGED on
        BY <1>0, <3>2 DEF HandleStarted, ClientType
      <3> QED BY <1>2, <3>1, <3>2
    <2>2. \A c \in begun : on'[c] = on[c]
      BY <1>0, <2>1 DEF CallsAreSound, OwnInv
    <2>3. CompletionsAreNew'
      BY <1>1, <1>2, <2>2, ReadNew
    <2>4. \A c \in Calls :
             /\ step[c] = "failed" => step'[c] = "failed"
             /\ step[c] = "done" <=> step'[c] = "done"
             /\ step'[c] \in {"new", "starting"} =>
                   step[c] \in {"new", "starting"} /\ on'[c] = on[c]
      BY <2>1
    <2>5. ASSUME NEW t \in Threads, turns'[t] # None
          PROVE  step'[turns'[t]] = "running" /\ ThreadOf[turns'[t]] = t
      <3>1. turns'[t] = turns[t] /\ turns[t] \in Calls /\ turns[t] # None
        BY <1>0, <1>2, <2>5 DEF ClientType
      <3>2. step[turns[t]] = "running" /\ ThreadOf[turns[t]] = t
        BY <1>0, <3>1 DEF CallsAreSound
      <3> QED BY <2>1, <3>1, <3>2
    <2>6. \A c \in Calls : Active(c)' => Active(c)
      BY <2>1 DEF Active
    <2>7. \A c, d \in Calls :
             Active(c)' /\ Active(d)' /\ ThreadOf[c] = ThreadOf[d] => c = d
      BY <1>0, <2>6 DEF CallsAreSound
    <2> QED BY <1>1, <1>2, <2>3, <2>4, <2>5, <2>7, GoOnOwn
  <1>3. CASE line.kind = "completed"
    BY <1>3, CompletedOwn
  <1> QED BY <1>2, <1>3 DEF HandleLine

LEMMA NextOwn ==
    ASSUME ServedInv, CodexAssumption, OwnInv, [Next]_vars
    PROVE  OwnInv'
  <1>1. CASE UNCHANGED vars
    <2>1. /\ UNCHANGED <<step, on, turns, answer, begun, lines>>
          /\ ClientType /\ CallsAreSound /\ CompletionsAreNew /\ AnswersAreOwn
          /\ answer \in [Calls -> Calls \cup {None}] /\ begun \subseteq Calls
      BY <1>1 DEF vars, client, server, OwnInv, ServedInv
    <2>2. \A p \in Processes, c \in Calls : Completed(p, c)' = Completed(p, c)
      BY <2>1 DEF Completed
    <2>3. CompletionsAreNew' /\ AnswersAreOwn'
      BY <2>1, <2>2, SameLinesNew, SameAnswersOwn
    <2>4. CallsAreSound'
      BY <2>1 DEF CallsAreSound, Active
    <2> QED BY <2>1, <2>3, <2>4 DEF OwnInv
  <1>2. ASSUME NEW p \in Processes, ReadsLine(p)
        PROVE  OwnInv'
    BY <1>2, HandleLineOwn DEF ReadsLine
  <1> QED
    BY <1>1, <1>2, CodexOwn, RunTurnOwn, WaitsOwn, LossOwn DEF Next

\* codex-app-server.ts:307: the notification names a thread, and the call that
\* waits on it gets its turn. That is the turn of the call, unless a call on
\* the thread has failed before: then the turn it left behind is taken for the
\* answer, and never a turn of another thread.
THEOREM AnswersOwn == Spec => []AnswersAreOwn
  <1>1. Init => ServedInv /\ OwnInv
    BY InitServed, InitOwn, CodexAssumption
  <1>2. ServedInv /\ OwnInv /\ [Next]_vars => (ServedInv /\ OwnInv)'
    BY NextServed, NextOwn, CodexAssumption
  <1>3. ServedInv /\ OwnInv => AnswersAreOwn
    BY DEF OwnInv
  <1> QED BY <1>1, <1>2, <1>3, PTL DEF Spec


-----------------------------------------------------------------------------
(* AiProviders: what is shown as verified.                                 *)

\* What was learned from the last test was accepted, and a test that is under way
\* knows what it was begun with.
VerifiedInv ==
    /\ profile \in Profile \cup {Undefined}
    /\ phase \in [ServiceCalls -> Phases]
    /\ tested \in [Tests -> Credentials \cup {Undefined}]
    /\ accepted \subseteq Credentials
    /\ lastTest \in accepted \cup {Undefined}
    /\ \A c \in Tests : Running(c) => tested[c] # Undefined
    /\ VerifiedWasAccepted

LEMMA KeyGiven ==
    ASSUME ProvidersAssumption, VerifiedInv,
           NEW given \in Keys \cup {Undefined}, KeyFor(given) # Undefined
    PROVE  KeyFor(given) \in Keys
  BY DEF VerifiedInv, KeyFor, SavedKey, Profile

\* A profile with the credentials of a call has exactly these.
LEMMA SavedAreTheSame ==
    ASSUME ProvidersAssumption, VerifiedInv, NEW cred \in Credentials, Saved(cred)
    PROVE  /\ profile \in Profile
           /\ cred = [url |-> profile.url, model |-> profile.model, key |-> profile.key]
  <1>1. profile \in Profile /\ profile.url = cred.url /\ profile.model = cred.model
        /\ SavedKey = cred.key /\ cred.key \in Keys
    BY DEF VerifiedInv, Saved, Credentials
  <1>2. cred.key = profile.key
    BY <1>1 DEF SavedKey, ProvidersAssumption
  <1> QED BY <1>1, <1>2 DEF Credentials

LEMMA ConfigureKeepsVerified ==
    ASSUME ProvidersAssumption, VerifiedInv, NEW url \in Urls, NEW model \in Models,
           NEW given \in Keys \cup {Undefined}, Configure(url, model, given)
    PROVE  VerifiedInv'
  <1> DEFINE cred == [url |-> url, model |-> model, key |-> KeyFor(given)]
  <1>1. KeyFor(given) \in Keys /\ cred \in Credentials
    BY KeyGiven DEF Configure, Credentials
  <1>2. /\ profile' = [url |-> url, model |-> model, key |-> cred.key,
                       readable |-> TRUE, verified |-> Verified(cred)]
        /\ UNCHANGED <<lastTest, phase, tested, accepted>>
    BY DEF Configure, calls
  <1>3. Verified(cred) \in BOOLEAN
    BY <1>1, SavedAreTheSame DEF Verified, Profile
  <1>4. Verified(cred) => cred \in accepted
    <2>1. CASE lastTest = cred
      BY <1>1, <2>1 DEF VerifiedInv, ProvidersAssumption
    <2>2. CASE Saved(cred) /\ profile.verified
      <3>1. /\ profile \in Profile
            /\ cred = [url |-> profile.url, model |-> profile.model, key |-> profile.key]
        BY <1>1, <2>2, SavedAreTheSame
      <3> HIDE DEF cred
      <3> QED BY <2>2, <3>1 DEF VerifiedInv, VerifiedWasAccepted, ProvidersAssumption
    <2> QED BY <2>1, <2>2 DEF Verified
  <1>5. profile' \in Profile
    BY <1>1, <1>2, <1>3 DEF Profile
  <1>6. VerifiedWasAccepted'
    BY <1>2, <1>4 DEF VerifiedWasAccepted
  <1> QED BY <1>2, <1>5, <1>6 DEF VerifiedInv, Running

LEMMA PassKeepsVerified ==
    ASSUME ProvidersAssumption, VerifiedInv, NEW c \in Tests, TestPasses(c)
    PROVE  VerifiedInv'
  <1>1. tested[c] \in Credentials
    BY DEF VerifiedInv, TestPasses, BodyArrives, Running
  <1>2. /\ lastTest' = tested[c] /\ accepted' = accepted \cup {tested[c]}
        /\ profile' = Marked(tested[c])
        /\ phase' = [phase EXCEPT ![c] = "none"]
        /\ tested' = [d \in Tests |-> IF d = c THEN Undefined ELSE tested[d]]
    BY DEF TestPasses, Ended, To
  <1>3. profile' \in Profile \cup {Undefined} /\ VerifiedWasAccepted'
    <2>1. CASE Saved(tested[c])
      <3>1. /\ profile \in Profile
            /\ tested[c] = [url |-> profile.url, model |-> profile.model, key |-> profile.key]
        BY <1>1, <2>1, SavedAreTheSame
      <3>2. profile' = [profile EXCEPT !.verified = TRUE]
        BY <1>2, <2>1 DEF Marked
      <3>3. profile' \in Profile /\ profile'.url = profile.url /\ profile'.model = profile.model
            /\ profile'.key = profile.key
        BY <3>1, <3>2 DEF Profile
      <3> QED BY <1>2, <3>1, <3>3 DEF VerifiedWasAccepted
    <2>2. CASE ~Saved(tested[c])
      BY <1>2, <2>2 DEF Marked, VerifiedInv, VerifiedWasAccepted
    <2> QED BY <2>1, <2>2
  <1>4. phase' \in [ServiceCalls -> Phases] /\ tested' \in [Tests -> Credentials \cup {Undefined}]
        /\ \A d \in Tests : Running(d)' => tested'[d] # Undefined
    BY <1>2 DEF VerifiedInv, Phases, Running, ServiceCalls
  <1> QED BY <1>1, <1>2, <1>3, <1>4 DEF VerifiedInv

\* Where the profile, the last test and what was accepted stay, only calls may begin, go
\* on or end.
LEMMA CallKeepsVerified ==
    ASSUME VerifiedInv, UNCHANGED <<profile, accepted, lastTest>>,
           phase' \in [ServiceCalls -> Phases],
           tested' \in [Tests -> Credentials \cup {Undefined}],
           \A c \in Tests : Running(c)' => tested'[c] # Undefined
    PROVE  VerifiedInv'
  BY DEF VerifiedInv, VerifiedWasAccepted

LEMMA NextVerified ==
    ASSUME ProvidersAssumption, VerifiedInv, [ProvidersNext]_providersVars
    PROVE  VerifiedInv'
  <1>0. /\ phase \in [ServiceCalls -> Phases]
        /\ tested \in [Tests -> Credentials \cup {Undefined}]
        /\ \A c \in Tests : Running(c) => tested[c] # Undefined
    BY DEF VerifiedInv
  <1>1. ASSUME NEW url \in Urls, NEW model \in Models, NEW given \in Keys \cup {Undefined},
               Configure(url, model, given)
        PROVE  VerifiedInv'
    BY <1>1, ConfigureKeepsVerified
  <1>2. ASSUME NEW url \in Urls, NEW model \in Models, NEW given \in Keys \cup {Undefined},
               NEW c \in Tests, TestBegins(c, url, model, given)
        PROVE  VerifiedInv'
    <2> DEFINE cred == [url |-> url, model |-> model, key |-> KeyFor(given)]
    <2>1. cred \in Credentials
      BY <1>2, KeyGiven DEF TestBegins, Credentials
    <2>2. cred # Undefined
      <3> HIDE DEF cred
      <3> QED BY <2>1 DEF ProvidersAssumption
    <2>3. /\ phase' = [phase EXCEPT ![c] = "connecting"]
          /\ tested' = [tested EXCEPT ![c] = cred]
          /\ UNCHANGED <<profile, accepted, lastTest>>
      BY <1>2 DEF TestBegins, To
    <2> HIDE DEF cred
    <2>4. /\ phase' \in [ServiceCalls -> Phases]
          /\ tested' \in [Tests -> Credentials \cup {Undefined}]
          /\ \A d \in Tests : Running(d)' => tested'[d] # Undefined
      BY <1>0, <2>1, <2>2, <2>3 DEF Phases, Running, ServiceCalls
    <2> QED BY <2>3, <2>4, CallKeepsVerified
  <1>3. CASE Clear
    <2>1. profile' = Undefined /\ UNCHANGED <<phase, tested, accepted, lastTest>>
      BY <1>3 DEF Clear, calls
    <2> QED BY <2>1 DEF VerifiedInv, VerifiedWasAccepted, Running
  <1>4. ASSUME NEW t \in Turns, NEW v \in Conversations, TurnBegins(t, v)
        PROVE  VerifiedInv'
    <2>1. phase' = [phase EXCEPT ![t] = "connecting"]
          /\ UNCHANGED <<profile, accepted, lastTest, tested>>
      BY <1>4 DEF TurnBegins, To
    <2>2. /\ phase' \in [ServiceCalls -> Phases]
          /\ \A d \in Tests : Running(d)' => tested'[d] # Undefined
      BY <1>0, <2>1 DEF Phases, Running, ServiceCalls, ProvidersAssumption
    <2> QED BY <1>0, <2>1, <2>2, CallKeepsVerified
  <1>5. ASSUME NEW c \in ServiceCalls, Responds(c)
        PROVE  VerifiedInv'
    <2>1. phase' = [phase EXCEPT ![c] = "reading"] /\ phase[c] = "connecting"
          /\ UNCHANGED <<profile, accepted, lastTest, tested>>
      BY <1>5 DEF Responds, To
    <2>2. /\ phase' \in [ServiceCalls -> Phases]
          /\ \A d \in Tests : Running(d)' => tested'[d] # Undefined
      BY <1>0, <2>1 DEF Phases, Running, ServiceCalls
    <2> QED BY <1>0, <2>1, <2>2, CallKeepsVerified
  <1>6. ASSUME NEW c \in ServiceCalls, Fails(c) \/ (c \in Turns /\ TurnAnswers(c))
        PROVE  VerifiedInv'
    <2>1. /\ phase' = [phase EXCEPT ![c] = "none"]
          /\ tested' = [d \in Tests |-> IF d = c THEN Undefined ELSE tested[d]]
          /\ UNCHANGED <<profile, accepted, lastTest>>
      BY <1>6 DEF Fails, TurnAnswers, Ended, To
    <2>2. /\ phase' \in [ServiceCalls -> Phases]
          /\ tested' \in [Tests -> Credentials \cup {Undefined}]
          /\ \A d \in Tests : Running(d)' => tested'[d] # Undefined
      BY <1>0, <2>1 DEF Phases, Running, ServiceCalls
    <2> QED BY <2>1, <2>2, CallKeepsVerified
  <1>7. ASSUME NEW c \in Tests, TestPasses(c)
        PROVE  VerifiedInv'
    BY <1>7, PassKeepsVerified
  <1>8. CASE \/ \E c \in ServiceCalls : Timeout(c)
             \/ \E v \in Conversations : Stop(v)
             \/ CloseService \/ UNCHANGED providersVars
    <2>1. UNCHANGED <<profile, accepted, lastTest, tested, phase>>
      BY <1>8 DEF Timeout, Stop, CloseService, providersVars, calls
    <2> QED BY <1>0, <2>1, CallKeepsVerified DEF Running
  <1>9. CASE CrashAndRestart
    <2>1. /\ Reopened /\ lastTest' = Undefined /\ accepted' = accepted
          /\ phase' = [c \in ServiceCalls |-> "none"] /\ tested' = [c \in Tests |-> Undefined]
      BY <1>9 DEF CrashAndRestart
    <2>2. /\ profile' \in Profile \cup {Undefined}
          /\ profile' # Undefined => /\ profile # Undefined /\ profile'.verified = profile.verified
                                /\ profile'.url = profile.url /\ profile'.model = profile.model
                                /\ profile'.key = profile.key
      <3>1. CASE UNCHANGED profile
        BY <3>1 DEF VerifiedInv
      <3>2. CASE profile = Undefined /\ profile' = Undefined
        BY <3>2
      <3>3. CASE profile # Undefined /\ profile' = [profile EXCEPT !.readable = FALSE]
        BY <3>3 DEF VerifiedInv, Profile
      <3> QED BY <2>1, <3>1, <3>2, <3>3 DEF Reopened
    <2>3. VerifiedWasAccepted'
      BY <2>1, <2>2 DEF VerifiedInv, VerifiedWasAccepted
    <2>4. \A d \in Tests : ~Running(d)'
      BY <2>1 DEF Running, ServiceCalls
    <2> QED BY <2>1, <2>2, <2>3, <2>4 DEF VerifiedInv, Phases
  <1> QED BY <1>1, <1>2, <1>3, <1>4, <1>5, <1>6, <1>7, <1>8, <1>9 DEF ProvidersNext, ServiceCalls

\* A profile that is shown as verified was accepted by the service as it is, whatever
\* is saved, cleared, tested and restarted in between.
THEOREM VerifiedAccepted == ProvidersSpec => []VerifiedWasAccepted
  <1>1. ProvidersInit => VerifiedInv
    BY DEF ProvidersInit, VerifiedInv, VerifiedWasAccepted, Phases, Running, ServiceCalls
  <1>2. VerifiedInv /\ [ProvidersNext]_providersVars => VerifiedInv'
    BY NextVerified, ProvidersAssumption
  <1>3. VerifiedInv => VerifiedWasAccepted
    BY DEF VerifiedInv
  <1> QED BY <1>1, <1>2, <1>3, PTL DEF ProvidersSpec

-----------------------------------------------------------------------------
(* AiProviders: what can be stopped.                                       *)

\* A turn that can go on is the one its conversation knows; what was stopped is
\* under way; a conversation has one turn at a time.
StopInv ==
    /\ VerifiedInv
    /\ TurnsCanBeStopped
    /\ \A t \in Turns : Running(t) => conv[t] \in Conversations
    /\ \A t \in stopped : Running(t)
    /\ \A s, t \in Turns : Running(s) /\ Running(t) /\ conv[s] = conv[t] => s = t

\* What is not stated of the types by VerifiedInv.
LEMMA TypesAre ==
    ASSUME VerifiedInv, conv \in [Turns -> Conversations \cup {Undefined}],
           active \in [Conversations -> Turns \cup {Undefined}],
           aborted \subseteq ServiceCalls, stopped \subseteq Turns, restarts \in Nat
    PROVE  TypeOK
  BY DEF VerifiedInv, TypeOK

LEMMA EndedKeepsStops ==
    ASSUME ProvidersAssumption, StopInv, VerifiedInv', NEW c \in ServiceCalls, Ended(c),
           restarts' = restarts
    PROVE  StopInv'
  <1>1. /\ phase' = [phase EXCEPT ![c] = "none"]
        /\ conv' = [t \in Turns |-> IF t = c THEN Undefined ELSE conv[t]]
        /\ active' = [v \in Conversations |-> IF active[v] = c THEN Undefined ELSE active[v]]
        /\ aborted' = aborted \ {c} /\ stopped' = stopped \ {c}
    BY DEF Ended, To
  <1>2. TypeOK
    BY DEF StopInv, TurnsCanBeStopped
  <1>3. TypeOK'
    <2>1. /\ conv' \in [Turns -> Conversations \cup {Undefined}]
          /\ active' \in [Conversations -> Turns \cup {Undefined}]
          /\ aborted' \subseteq ServiceCalls /\ stopped' \subseteq Turns /\ restarts' \in Nat
      BY <1>1, <1>2 DEF TypeOK
    <2> QED BY <2>1, TypesAre DEF TypeOK, VerifiedInv
  <1>4. \A t \in Turns : /\ Running(t)' <=> (Running(t) /\ t # c)
                         /\ t # c => conv'[t] = conv[t]
    BY <1>1, <1>2 DEF TypeOK, Running, ServiceCalls
  <1>5. ASSUME NEW t \in Turns, Running(t)', t \notin aborted'
        PROVE  t \notin stopped' /\ active'[conv'[t]] = t
    <2>1. Running(t) /\ t # c /\ t \notin aborted /\ conv'[t] = conv[t]
      BY <1>1, <1>4, <1>5
    <2>2. t \notin stopped /\ active[conv[t]] = t /\ conv[t] \in Conversations
      BY <2>1 DEF StopInv, TurnsCanBeStopped
    <2> QED BY <1>1, <2>1, <2>2
  <1>6. \A t \in stopped' : Running(t)'
    BY <1>1, <1>2, <1>4 DEF StopInv, TypeOK
  <1>7. \A s, t \in Turns : Running(s)' /\ Running(t)' /\ conv'[s] = conv'[t] => s = t
    BY <1>4 DEF StopInv
  <1>8. \A t \in Turns : Running(t)' => conv'[t] \in Conversations
    BY <1>4 DEF StopInv
  <1> QED BY <1>3, <1>5, <1>6, <1>7, <1>8 DEF StopInv, TurnsCanBeStopped

\* Where no turn begins or ends, what is aborted only grows, and what is stopped or
\* forgotten was aborted.
LEMMA AbortKeepsStops ==
    ASSUME StopInv, VerifiedInv', UNCHANGED <<conv, restarts>>,
           \A t \in Turns : Running(t)' <=> Running(t),
           aborted' \subseteq ServiceCalls, aborted \subseteq aborted',
           stopped' \subseteq Turns, \A t \in stopped' : Running(t),
           active' \in [Conversations -> Turns \cup {Undefined}],
           \A t \in Turns : Running(t) /\ t \notin aborted' =>
                              t \notin stopped' \ stopped /\ active'[conv[t]] = active[conv[t]]
    PROVE  StopInv'
  <1>1. TypeOK
    BY DEF StopInv, TurnsCanBeStopped
  <1>2. TypeOK'
    BY <1>1, TypesAre DEF TypeOK, VerifiedInv
  <1>3. ASSUME NEW t \in Turns, Running(t)', t \notin aborted'
        PROVE  t \notin stopped' /\ active'[conv'[t]] = t
    <2>1. Running(t) /\ t \notin aborted
      BY <1>3
    <2>2. t \notin stopped /\ active[conv[t]] = t
      BY <2>1 DEF StopInv, TurnsCanBeStopped
    <2> QED BY <1>3, <2>1, <2>2
  <1>4. \A t \in stopped' : Running(t)'
    OBVIOUS
  <1>5. /\ \A s, t \in Turns : Running(s)' /\ Running(t)' /\ conv'[s] = conv'[t] => s = t
        /\ \A t \in Turns : Running(t)' => conv'[t] \in Conversations
    BY DEF StopInv
  <1> QED BY <1>2, <1>3, <1>4, <1>5 DEF StopInv, TurnsCanBeStopped

LEMMA BeginKeepsStops ==
    ASSUME ProvidersAssumption, StopInv, VerifiedInv', NEW t \in Turns,
           NEW v \in Conversations, TurnBegins(t, v)
    PROVE  StopInv'
  <1>1. /\ phase' = [phase EXCEPT ![t] = "connecting"] /\ ~Running(t) /\ ~Busy(v)
        /\ conv' = [conv EXCEPT ![t] = v]
        /\ aborted' = aborted \cup ({active[v]} \ {Undefined})
        /\ active' = [active EXCEPT ![v] = t]
        /\ UNCHANGED <<stopped, restarts>>
    BY DEF TurnBegins, To, Running, Registered
  <1>2. TypeOK
    BY DEF StopInv, TurnsCanBeStopped
  <1>3. TypeOK'
    <2>1. /\ conv' \in [Turns -> Conversations \cup {Undefined}]
          /\ active' \in [Conversations -> Turns \cup {Undefined}]
          /\ aborted' \subseteq ServiceCalls /\ stopped' \subseteq Turns /\ restarts' \in Nat
      BY <1>1, <1>2 DEF TypeOK, ServiceCalls
    <2> QED BY <2>1, TypesAre DEF TypeOK, VerifiedInv
  <1>4. \A s \in Turns : /\ Running(s)' <=> (Running(s) \/ s = t)
                         /\ s # t => conv'[s] = conv[s]
                         /\ s = t => conv'[s] = v
                         /\ Running(s) => conv[s] # v
    BY <1>1, <1>2 DEF TypeOK, Running, ServiceCalls, Busy
  <1>5. ASSUME NEW s \in Turns, Running(s)', s \notin aborted'
        PROVE  s \notin stopped' /\ active'[conv'[s]] = s
    <2>1. CASE s = t
      <3>1. s \notin stopped
        BY <1>1, <2>1 DEF StopInv
      <3> QED BY <1>1, <1>2, <2>1, <3>1 DEF TypeOK
    <2>2. CASE s # t
      <3>1. Running(s) /\ s \notin aborted /\ conv'[s] = conv[s] /\ conv[s] # v
        BY <1>1, <1>4, <1>5, <2>2
      <3>2. s \notin stopped /\ active[conv[s]] = s /\ conv[s] \in Conversations
        BY <3>1 DEF StopInv, TurnsCanBeStopped
      <3> QED BY <1>1, <1>2, <3>1, <3>2 DEF TypeOK
    <2> QED BY <2>1, <2>2
  <1>6. \A s \in stopped' : Running(s)'
    BY <1>1, <1>2, <1>4 DEF StopInv, TypeOK
  <1>7. \A r, s \in Turns : Running(r)' /\ Running(s)' /\ conv'[r] = conv'[s] => r = s
    BY <1>1, <1>4 DEF StopInv
  <1>8. \A s \in Turns : Running(s)' => conv'[s] \in Conversations
    BY <1>1, <1>4 DEF StopInv
  <1> QED BY <1>3, <1>5, <1>6, <1>7, <1>8 DEF StopInv, TurnsCanBeStopped

LEMMA NextStops ==
    ASSUME ProvidersAssumption, StopInv, [ProvidersNext]_providersVars
    PROVE  StopInv'
  <1>0. /\ VerifiedInv' /\ TypeOK
    BY NextVerified DEF StopInv, TurnsCanBeStopped
  <1>1. ASSUME NEW t \in Turns, NEW v \in Conversations, TurnBegins(t, v)
        PROVE  StopInv'
    BY <1>0, <1>1, BeginKeepsStops
  <1>2. ASSUME NEW c \in ServiceCalls, Fails(c) \/ (c \in Tests /\ TestPasses(c))
                                  \/ (c \in Turns /\ TurnAnswers(c))
        PROVE  StopInv'
    <2>1. Ended(c) /\ restarts' = restarts
      BY <1>2 DEF Fails, TestPasses, TurnAnswers
    <2> QED BY <1>0, <2>1, EndedKeepsStops
  <1>3. CASE \/ \E url \in Urls, model \in Models, given \in Keys \cup {Undefined} :
                   \/ Configure(url, model, given)
                   \/ \E c \in Tests : TestBegins(c, url, model, given)
             \/ \E c \in ServiceCalls : Responds(c)
             \/ Clear \/ UNCHANGED providersVars
    <2>1. UNCHANGED <<conv, active, aborted, stopped, restarts>>
      BY <1>3 DEF Configure, TestBegins, Responds, Clear, providersVars, calls
    <2>2. \A t \in Turns : Running(t)' <=> Running(t)
      <3>1. CASE UNCHANGED phase
        BY <3>1 DEF Running
      <3>2. ASSUME NEW c \in Tests, To(c, "connecting")
            PROVE  \A t \in Turns : Running(t)' <=> Running(t)
        BY <1>0, <3>2 DEF TypeOK, To, Running, ServiceCalls, ProvidersAssumption
      <3>3. ASSUME NEW c \in ServiceCalls, To(c, "reading"), phase[c] = "connecting"
            PROVE  \A t \in Turns : Running(t)' <=> Running(t)
        BY <1>0, <3>3 DEF TypeOK, To, Running, ServiceCalls
      <3> QED BY <1>3, <3>1, <3>2, <3>3
            DEF Configure, TestBegins, Responds, Clear, providersVars, calls
    <2>3. \A t \in stopped' : Running(t)
      BY <2>1 DEF StopInv
    <2> QED BY <1>0, <2>1, <2>2, <2>3, AbortKeepsStops DEF TypeOK
  <1>4. ASSUME NEW c \in ServiceCalls, Timeout(c)
        PROVE  StopInv'
    <2>1. /\ UNCHANGED <<phase, conv, active, stopped, restarts>>
          /\ aborted' = aborted \cup {c}
      BY <1>4 DEF Timeout, Abort
    <2>2. \A t \in Turns : Running(t)' <=> Running(t)
      BY <2>1 DEF Running
    <2>3. \A t \in stopped' : Running(t)
      BY <2>1 DEF StopInv
    <2> QED BY <1>0, <2>1, <2>2, <2>3, AbortKeepsStops DEF TypeOK
  <1>5. ASSUME NEW v \in Conversations, Stop(v)
        PROVE  StopInv'
    <2>1. /\ UNCHANGED <<phase, conv, active, restarts>>
          /\ stopped' = stopped \cup {t \in Turns : Running(t) /\ conv[t] = v}
          /\ aborted' = aborted \cup ({active[v]} \ {Undefined})
      BY <1>5 DEF Stop, Abort
    <2>2. \A t \in Turns : Running(t)' <=> Running(t)
      BY <2>1 DEF Running
    <2>3. stopped' \subseteq Turns /\ \A t \in stopped' : Running(t)
      BY <1>0, <2>1 DEF StopInv, TypeOK
    <2>4. aborted' \subseteq ServiceCalls
      BY <1>0, <2>1 DEF TypeOK, ServiceCalls
    <2>5. ASSUME NEW t \in Turns, Running(t), t \notin aborted'
          PROVE  t \notin stopped' \ stopped
      <3>1. active[conv[t]] = t /\ t # Undefined
        BY <2>1, <2>5 DEF StopInv, TurnsCanBeStopped, ProvidersAssumption
      <3> QED BY <2>1, <2>5, <3>1
    <2> QED BY <1>0, <2>1, <2>2, <2>3, <2>4, <2>5, AbortKeepsStops DEF TypeOK
  <1>6. CASE CloseService
    <2>1. /\ UNCHANGED <<phase, conv, stopped, restarts>>
          /\ active' = [v \in Conversations |-> Undefined]
          /\ aborted' = aborted \cup ({active[v] : v \in Conversations} \ {Undefined})
      BY <1>6 DEF CloseService, AbortedTurns, Abort
    <2>2. \A t \in Turns : Running(t)' <=> Running(t)
      BY <2>1 DEF Running
    <2>3. \A t \in stopped' : Running(t)
      BY <2>1 DEF StopInv
    <2>4. aborted' \subseteq ServiceCalls
      BY <1>0, <2>1 DEF TypeOK, ServiceCalls
    <2>5. ASSUME NEW t \in Turns, Running(t)
          PROVE  t \in aborted'
      <3>1. t \in aborted \/ (active[conv[t]] = t /\ t # Undefined /\ conv[t] \in Conversations)
        BY <2>5 DEF StopInv, TurnsCanBeStopped, ProvidersAssumption
      <3> QED BY <2>1, <3>1
    <2> QED BY <1>0, <2>1, <2>2, <2>3, <2>4, <2>5, AbortKeepsStops DEF TypeOK
  <1>7. CASE CrashAndRestart
    <2>1. /\ phase' = [c \in ServiceCalls |-> "none"] /\ conv' = [t \in Turns |-> Undefined]
          /\ active' = [v \in Conversations |-> Undefined]
          /\ aborted' = {} /\ stopped' = {} /\ restarts' = restarts + 1
      BY <1>7 DEF CrashAndRestart
    <2>2. \A t \in Turns : ~Running(t)'
      BY <2>1 DEF Running, ServiceCalls
    <2>3. TypeOK'
      <3>1. /\ conv' \in [Turns -> Conversations \cup {Undefined}]
            /\ active' \in [Conversations -> Turns \cup {Undefined}]
            /\ aborted' \subseteq ServiceCalls /\ stopped' \subseteq Turns /\ restarts' \in Nat
        BY <1>0, <2>1 DEF TypeOK
      <3> QED BY <1>0, <3>1, TypesAre DEF TypeOK, VerifiedInv
    <2> QED BY <1>0, <2>1, <2>2, <2>3 DEF StopInv, TurnsCanBeStopped
  <1> QED BY <1>1, <1>2, <1>3, <1>4, <1>5, <1>6, <1>7 DEF ProvidersNext, ServiceCalls

\* Neither a change of the profile, nor a test, nor a turn that takes the place of
\* another leaves a running turn that a stop of its conversation, or the closing
\* of the Core, would miss; every variable keeps its type.
THEOREM TurnsStop == ProvidersSpec => []TurnsCanBeStopped
  <1>1. ProvidersInit => StopInv
    <2>1. SUFFICES ASSUME ProvidersInit PROVE StopInv
      OBVIOUS
    <2>2. VerifiedInv
      BY <2>1 DEF ProvidersInit, VerifiedInv, VerifiedWasAccepted, Phases, Running, ServiceCalls
    <2>3. TypeOK
      BY <2>1, <2>2, TypesAre DEF ProvidersInit
    <2>4. \A t \in Turns : ~Running(t)
      BY <2>1 DEF ProvidersInit, Running, ServiceCalls
    <2> QED BY <2>1, <2>2, <2>3, <2>4 DEF ProvidersInit, StopInv, TurnsCanBeStopped
  <1>2. StopInv /\ [ProvidersNext]_providersVars => StopInv'
    BY NextStops, ProvidersAssumption
  <1>3. StopInv => TurnsCanBeStopped
    BY DEF StopInv
  <1> QED BY <1>1, <1>2, <1>3, PTL DEF ProvidersSpec
=============================================================================

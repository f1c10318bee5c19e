---------------------------- MODULE TerminalHub ----------------------------
(***************************************************************************)
(* The pages attached to one terminal session: TerminalWebSocketHub        *)
(* (apps/core/src/terminal-websocket.ts) with its write lease and its      *)
(* bounded send buffers, and at the other end of each WebSocket the page   *)
(* (apps/web/src/terminal/TerminalPane.tsx) that follows the output and    *)
(* remembers whether it may write.  Hub and pages only share messages, so  *)
(* what a page remembers is a copy that can be behind.                     *)
(***************************************************************************)
EXTENDS Naturals, Sequences, SequencesExt, FiniteSets

CONSTANTS
    Pages,         \* one page is one WebSocket
    None,
    MaxBuffered,   \* messages on their way to a page (2 MiB in the code)
    MaxReplay,     \* output kept for replay (1 MiB in the code)
    MaxOutput,     \* bound: output of the terminal
    MaxRequests,   \* bound: messages on their way from a page
    MayEnd         \* whether runs include the end of the terminal

ASSUME HubAssumption ==
    /\ None \notin Pages
    /\ MaxBuffered \in Nat \ {0} /\ MaxReplay \in Nat
    /\ MaxOutput \in Nat /\ MaxRequests \in Nat /\ MayEnd \in BOOLEAN

VARIABLES
    running,      \* the shell has not exited
    registered,   \* the terminal is in the registry
    produced,     \* outputSequence, in units of output
    mapped,       \* the hub's entry for the terminal
    sockets,      \* attached WebSockets, in the order they came
    writer,       \* the one that holds the write lease
    conn,         \* Pages -> "none" | "open" | "closing" | "detached"
    toPage, toHub,\* Pages -> messages on their way
    tab,          \* Pages -> "none" | "open" | "closed" | "gone"
    canWrite,     \* the page's copy of the lease
    shown,        \* the state the page shows
    queue,        \* the page's writes to xterm, not yet rendered
    replaying,
    screen,       \* how far the page has rendered the output, or None
    overtaken     \* history: the pages whose last word on the lease came while
                  \* they rendered a replay, and gives way to its older one

terminal == <<running, registered, produced>>
hub      == <<mapped, sockets, writer>>
page     == <<tab, canWrite, shown, queue, replaying, screen, overtaken>>
vars     == <<terminal, hub, conn, toPage, toHub, page>>

Init ==
    /\ running = TRUE /\ registered = TRUE /\ produced = 0
    /\ mapped = FALSE /\ sockets = <<>> /\ writer = None
    /\ conn = [p \in Pages |-> "none"]
    /\ toPage = [p \in Pages |-> <<>>] /\ toHub = toPage
    /\ tab = conn
    /\ canWrite = [p \in Pages |-> FALSE]
    /\ shown = [p \in Pages |-> "connecting"]
    /\ queue = toPage
    /\ replaying = canWrite
    /\ screen = [p \in Pages |-> None]
    /\ overtaken = {}

Attached == Range(sockets)

\* Mutant: a message that does not fit is dropped, the socket stays open.
DeliverOrDrop(out, c) ==
    /\ toPage' = [p \in Pages |->
          IF p \in DOMAIN out /\ c[p] = "open" /\ Len(toPage[p]) < MaxBuffered
          THEN Append(toPage[p], out[p]) ELSE toPage[p]]
    /\ conn' = c

\* send() to the pages in out's domain: nothing to a socket that is not open,
\* and a socket whose buffer is full is closed instead.
Deliver(out, c) ==
    LET full == {p \in DOMAIN out : Len(toPage[p]) >= MaxBuffered} IN
    /\ toPage' = [p \in Pages |->
          IF p \in DOMAIN out \ full /\ c[p] = "open"
          THEN Append(toPage[p], out[p]) ELSE toPage[p]]
    /\ conn' = [p \in Pages |->
          IF p \in full /\ c[p] = "open" THEN "closing" ELSE c[p]]

Nothing == [p \in {} |-> None]
To(p, m) == [q \in {p} |-> m]
Writable(b) == [type |-> "writable", writable |-> b]
Error == [type |-> "error"]

-----------------------------------------------------------------------------
(* The hub.                                                                *)

ReplayStart == IF produced > MaxReplay THEN produced - MaxReplay ELSE 0

\* The page's upgrade request is attached in one synchronous stretch.
Attach(p) ==
    /\ registered
    /\ tab[p] = "none"
    /\ tab' = [tab EXCEPT ![p] = "open"]
    /\ mapped' = TRUE
    /\ sockets' = Append(sockets, p)
    /\ writer' = IF writer = None THEN p ELSE writer
    /\ Deliver(To(p, [type |-> "ready", running |-> running,
                      start |-> ReplayStart, end |-> produced,
                      writable |-> running /\ writer' = p]),
               [conn EXCEPT ![p] = "open"])
    /\ UNCHANGED <<terminal, toHub, canWrite, shown, queue, replaying, screen,
                   overtaken>>

\* Mutant: the writer is not told that it lost the lease.
ToldOnly(p) == {p}

\* Who is told of a takeover.
Told(p) == {p} \cup ({writer} \ {None})

\* The lease moves to whoever asks for it while the shell runs.
AcquireWriteLease(p) ==
    IF ~running
    THEN Deliver(To(p, Error), conn) /\ UNCHANGED writer
    ELSE /\ writer' = p
         /\ Deliver([q \in Told(p) |-> Writable(q = p)], conn)

Input(p) ==
    /\ IF writer = p /\ running THEN Deliver(Nothing, conn)
                                ELSE Deliver(To(p, Error), conn)
    /\ UNCHANGED writer

\* A closing socket still delivers what the page had sent.
HubReads(p) ==
    /\ conn[p] \in {"open", "closing"}
    /\ toHub[p] # <<>>
    /\ toHub' = [toHub EXCEPT ![p] = Tail(@)]
    /\ \/ Head(toHub[p]) = "acquire" /\ AcquireWriteLease(p)
       \/ Head(toHub[p]) = "input" /\ Input(p)
    /\ UNCHANGED <<terminal, mapped, sockets, page>>

\* Mutant: a socket the hub itself closed is forgotten.
GoneByItself(p) == conn[p] = "open" /\ tab[p] \in {"closed", "gone"}

Gone(p) ==
    \/ conn[p] = "closing"
    \/ conn[p] = "open" /\ tab[p] \in {"closed", "gone"}

\* Mutant: the last socket before the one that left is taken out.
SuccessorTooEarly(rest) == sockets[Len(sockets)]

Successor(rest) == IF rest = <<>> THEN None ELSE rest[Len(rest)]

\* The socket's close or error event: the lease goes to the last socket that
\* attached, which is told so if it is open.
Detach(p) ==
    /\ Gone(p)
    /\ \E i \in DOMAIN sockets :
          sockets[i] = p /\ sockets' = RemoveAt(sockets, i)
    /\ writer' = IF writer = p THEN Successor(sockets') ELSE writer
    /\ Deliver(IF writer' \in {writer, None} THEN Nothing
                                             ELSE To(writer', Writable(TRUE)),
               [conn EXCEPT ![p] = "detached"])
    /\ mapped' = (mapped /\ sockets' # <<>>)
    /\ toHub' = [toHub EXCEPT ![p] = <<>>]
    /\ UNCHANGED <<terminal, page>>

-----------------------------------------------------------------------------
(* The terminal session, as far as its pages see it.                       *)

Publish(m) == Deliver([p \in Attached |-> m], conn)

Output ==
    /\ registered
    /\ produced < MaxOutput
    /\ produced' = produced + 1
    /\ Publish([type |-> "output", start |-> produced, end |-> produced'])
    /\ UNCHANGED <<running, registered, hub, toHub, page>>

Exit ==
    /\ MayEnd
    /\ registered /\ running
    /\ running' = FALSE
    /\ Publish([type |-> "exit"])
    /\ UNCHANGED <<registered, produced, hub, toHub, page>>

\* DELETE: the hub forgets the terminal and closes its sockets, then the
\* registry disposes of the session.
CloseSession ==
    /\ MayEnd
    /\ registered
    /\ registered' = FALSE
    /\ mapped' = FALSE
    /\ conn' = [p \in Pages |->
                  IF mapped /\ p \in Attached THEN "closing" ELSE conn[p]]
    /\ UNCHANGED <<running, produced, sockets, writer, toPage, toHub, page>>

\* An exited session makes room for a new one; the hub is not told.
Evict ==
    /\ registered /\ ~running
    /\ registered' = FALSE
    /\ UNCHANGED <<running, produced, hub, conn, toPage, toHub, page>>

-----------------------------------------------------------------------------
(* The pages.                                                              *)

PageSends(p, request) ==
    /\ tab[p] = "open"
    /\ Len(toHub[p]) < MaxRequests
    /\ request = "input" => canWrite[p] /\ ~replaying[p]
    /\ toHub' = [toHub EXCEPT ![p] = Append(@, request)]
    /\ UNCHANGED <<terminal, hub, conn, toPage, page>>

Enqueue(p, m) == queue' = [queue EXCEPT ![p] = Append(@, m)]

\* With a replay, "ready" only takes effect when the replay is rendered.
PageReadsReady(p, m) ==
    IF m.start < m.end
    THEN /\ replaying' = [replaying EXCEPT ![p] = TRUE]
         /\ canWrite' = [canWrite EXCEPT ![p] = FALSE]
         /\ Enqueue(p, m)
         /\ UNCHANGED <<shown, screen>>
    ELSE /\ canWrite' = [canWrite EXCEPT ![p] = m.writable]
         /\ shown' = [shown EXCEPT ![p] = IF m.running THEN "running"
                                                       ELSE "exited"]
         /\ screen' = [screen EXCEPT ![p] = m.end]
         /\ UNCHANGED <<queue, replaying>>

PageReads(p) ==
    LET m == Head(toPage[p])
        hears == {q \in {p} : m.type \in {"ready", "writable"}}
    IN
    /\ tab[p] = "open"
    /\ toPage[p] # <<>>
    /\ toPage' = [toPage EXCEPT ![p] = Tail(@)]
    /\ \/ m.type = "ready" /\ PageReadsReady(p, m)
       \/ /\ m.type = "output"
          /\ Enqueue(p, m)
          /\ UNCHANGED <<canWrite, shown, replaying, screen>>
       \/ /\ m.type \in {"writable", "exit"}
          /\ canWrite' = [canWrite EXCEPT
                            ![p] = m.type = "writable" /\ m.writable]
          /\ shown' = [shown EXCEPT ![p] = IF m.type = "exit" THEN "exited"
                                                              ELSE "running"]
          /\ UNCHANGED <<queue, replaying, screen>>
       \/ /\ m.type = "error"
          /\ UNCHANGED <<canWrite, shown, queue, replaying, screen>>
    /\ overtaken' = (overtaken \ hears) \cup {q \in hears : replaying[q]}
    /\ UNCHANGED <<terminal, hub, conn, toHub, tab>>

\* xterm has parsed the next write; a rendered replay calls finishReplay.
PageRenders(p) ==
    LET m == Head(queue[p]) IN
    /\ tab[p] \in {"open", "closed"}
    /\ queue[p] # <<>>
    /\ queue' = [queue EXCEPT ![p] = Tail(@)]
    /\ screen' = [screen EXCEPT ![p] = m.end]
    /\ IF m.type = "ready"
       THEN /\ replaying' = [replaying EXCEPT ![p] = FALSE]
            /\ canWrite' = [canWrite EXCEPT ![p] = m.writable]
            /\ shown' = [shown EXCEPT ![p] = IF m.running THEN "running"
                                                          ELSE "exited"]
       ELSE UNCHANGED <<replaying, canWrite, shown>>
    /\ UNCHANGED <<terminal, hub, conn, toPage, toHub, tab, overtaken>>

\* The page learns that its socket is closed.
PageSeesClose(p) ==
    /\ tab[p] = "open"
    /\ conn[p] \in {"closing", "detached"}
    /\ tab' = [tab EXCEPT ![p] = "closed"]
    /\ canWrite' = [canWrite EXCEPT ![p] = FALSE]
    /\ toPage' = [toPage EXCEPT ![p] = <<>>]
    /\ overtaken' = overtaken \ {p}
    /\ UNCHANGED <<terminal, hub, conn, toHub, shown, queue, replaying,
                   screen>>

\* The pane is unmounted or the browser goes away, and with it all it held.
PageLeaves(p) ==
    /\ tab[p] \in {"open", "closed"}
    /\ tab' = [tab EXCEPT ![p] = "gone"]
    /\ canWrite' = [canWrite EXCEPT ![p] = FALSE]
    /\ replaying' = [replaying EXCEPT ![p] = FALSE]
    /\ queue' = [queue EXCEPT ![p] = <<>>]
    /\ screen' = [screen EXCEPT ![p] = None]
    /\ shown' = [shown EXCEPT ![p] = "connecting"]
    /\ overtaken' = overtaken \ {p}
    /\ UNCHANGED <<terminal, hub, conn, toPage, toHub>>

Next ==
    \/ \E p \in Pages :
          \/ Attach(p) \/ HubReads(p) \/ Detach(p)
          \/ \E request \in {"acquire", "input"} : PageSends(p, request)
          \/ PageReads(p) \/ PageRenders(p) \/ PageSeesClose(p)
          \/ PageLeaves(p)
    \/ Output \/ Exit \/ CloseSession \/ Evict

Spec == Init /\ [][Next]_vars

\* A closed socket reports its close event: ws ends a closing handshake after
\* its timeout, and TCP a connection whose page is gone.
FairSpec == Spec /\ \A p \in Pages : WF_vars(Detach(p))

-----------------------------------------------------------------------------
(* Properties.                                                             *)

Written ==
    [type: {"ready"}, running: BOOLEAN, start: 0..MaxOutput, end: 0..MaxOutput,
     writable: BOOLEAN]
    \cup [type: {"output"}, start: 0..MaxOutput, end: 0..MaxOutput]
Message ==
    Written \cup [type: {"writable"}, writable: BOOLEAN]
            \cup [type: {"exit", "error"}]

\* Every variable has its type.
TypeOK ==
    /\ running \in BOOLEAN /\ registered \in BOOLEAN /\ mapped \in BOOLEAN
    /\ produced \in 0..MaxOutput
    /\ sockets \in Seq(Pages)
    /\ writer \in Pages \cup {None}
    /\ conn \in [Pages -> {"none", "open", "closing", "detached"}]
    /\ tab \in [Pages -> {"none", "open", "closed", "gone"}]
    /\ toPage \in [Pages -> Seq(Message)]
    /\ toHub \in [Pages -> Seq({"acquire", "input"})]
    /\ canWrite \in [Pages -> BOOLEAN] /\ replaying \in [Pages -> BOOLEAN]
    /\ shown \in [Pages -> {"connecting", "running", "exited"}]
    /\ queue \in [Pages -> Seq(Written)]
    /\ screen \in [Pages -> 0..MaxOutput \cup {None}]
    /\ overtaken \subseteq Pages

\* The lease is never lost and never left with a socket that is gone: it is
\* held exactly while there are sockets, by one of them, and none is attached
\* twice.
LeaseIsHeld ==
    /\ TypeOK
    /\ writer = None <=> sockets = <<>>
    /\ writer # None => writer \in Attached
    /\ Attached = {p \in Pages : conn[p] \in {"open", "closing"}}
    /\ Cardinality(Attached) = Len(sockets)

\* The messages of s that are written to the screen; whether each of them
\* begins where the one before it ended; where the first of them begins and
\* the last one ends.
Writes(s) == {i \in 1..Len(s) : s[i].type \in {"ready", "output"}}
IsContiguous(s) == \A i, j \in Writes(s) :
    i < j /\ (\A k \in Writes(s) : k <= i \/ k >= j) => s[i].end = s[j].start
BeginsAt(s, x) == \A i \in Writes(s) :
    (\A k \in Writes(s) : k >= i) => s[i].start = x
EndsAt(s, x) == \A i \in Writes(s) :
    (\A k \in Writes(s) : k <= i) => s[i].end = x

\* What a page has still to render.
Stream(p) == queue[p] \o toPage[p]

\* Between what a page has rendered and what the hub will send it next there
\* is never a gap nor an overlap: a page that falls behind the buffer loses
\* its connection, not a part of the output.
OutputHasNoGap ==
    \A p \in Pages :
       /\ IsContiguous(Stream(p))
       /\ screen[p] # None => BeginsAt(Stream(p), screen[p])
       /\ conn[p] = "open" /\ tab[p] = "open"
          => IF Writes(Stream(p)) # {} THEN EndsAt(Stream(p), produced)
                                       ELSE screen[p] = produced

\* A page that has read and rendered all it was sent.
UpToDate(p) ==
    /\ conn[p] = "open" /\ tab[p] = "open"
    /\ toPage[p] = <<>> /\ queue[p] = <<>>

\* docs/PROTOCOL.md:113: one WebSocket holds the write lease, the writer is
\* told when it loses it, and when the writer disconnects the lease goes to
\* the latest connection.  So a page that is up to date knows whether it has
\* the lease.  (Unless the last it was told came during its replay: then
\* finishReplay puts the older flag of "ready" back, until the next message.)
PagesKnowTheLease ==
    \A p \in Pages : UpToDate(p) /\ running /\ p \notin overtaken
                     => (canWrite[p] <=> writer = p)

\* The lease does not stay with a socket that is closing: as long as a socket
\* is open, an open one gets the lease.
OpenSocketGetsLease ==
    (\E p \in Pages : conn[p] = "open") ~>
       \/ writer # None /\ conn[writer] = "open"
       \/ \A p \in Pages : conn[p] # "open"
=============================================================================

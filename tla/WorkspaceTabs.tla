--------------------------- MODULE WorkspaceTabs ---------------------------
(***************************************************************************)
(* The tabs of the workspace page. A handler that adds, splits or closes   *)
(* works on the tabs it saw when it was called: it waits for the Core and  *)
(* then puts its own next list in place of whatever the list has become.   *)
(* The terminals of the Core outlive the page.                             *)
(***************************************************************************)
EXTENDS TerminalLayout

CONSTANTS
    Panes,       \* ids the Core gives to terminals
    Handlers,    \* bound: handlers that wait at the same time
    Nothing,     \* no tab, no pane
    MaxDepth,    \* layouts deeper than this are not restored
    MaxReloads   \* bound: reloads of the page

ASSUME TabsAssumption ==
    Nothing \notin Panes /\ {MaxDepth, MaxReloads} \subseteq Nat

VARIABLES
    tabs,       \* [id, layout, active]: a tab is named after its first pane
    activeId,   \* the selected tab
    stored,     \* the tabs in sessionStorage
    core,       \* terminals the Core holds
    used,       \* terminals the Core has ever created
    work,       \* handler -> what it waits for and what it saw
    quiet,      \* no event has met a waiting handler, no call has failed and
                \* no layout was too deep to be read back
    reloads

tabsVars == <<tabs, activeId, stored, core, used, work, quiet, reloads>>

Idle == [kind |-> "none", tabs |-> << >>, active |-> Nothing, tab |-> Nothing,
         pane |-> Nothing, left |-> {}]
Busy == {h \in Handlers : work[h].kind # "none"}
Quiet == quiet' = (quiet /\ Busy = {})

TabIds(ts) == {ts[i].id : i \in DOMAIN ts}
IndexOf(ts, id) == CHOOSE i \in DOMAIN ts : ts[i].id = id
TabOf(ts, id) == ts[IndexOf(ts, id)]
Changed(ts, id, tab) == [i \in DOMAIN ts |-> IF ts[i].id = id THEN tab ELSE ts[i]]
PanesOf(tab) == Range(FlattenPanes(tab.layout))
AllPanes(ts) == UNION {PanesOf(ts[i]) : i \in DOMAIN ts}

\* filter: the elements at these places, in their order.
Kept(ts, places) ==
    [k \in 1..Cardinality(places) |->
        ts[CHOOSE i \in places : Cardinality({j \in places : j <= i}) = k]]

TabsInit ==
    /\ tabs = << >> /\ stored = << >> /\ activeId = Nothing
    /\ core = {} /\ used = {}
    /\ work = [h \in Handlers |-> Idle]
    /\ quiet = TRUE
    /\ reloads = 0

PersistTabs(next) == tabs' = next /\ stored' = next

Ends(h) == work' = [work EXCEPT ![h] = Idle]

Waits(h, kind, tab, pane, left) ==
    work' = [work EXCEPT ![h] = [kind |-> kind, tabs |-> tabs, tab |-> tab,
             active |-> activeId, pane |-> pane, left |-> left]]

-----------------------------------------------------------------------------
(* Calls of the handlers up to the first await. The effect that opens the  *)
(* first terminal of an empty page is an addTerminal like any other.       *)

AddTerminal(h) ==
    /\ h \notin Busy
    /\ Waits(h, "add", Nothing, Nothing, {})
    /\ Quiet
    /\ UNCHANGED <<tabs, activeId, stored, core, used, reloads>>

SplitTerminal(h, tab, pane) ==
    /\ h \notin Busy
    /\ Waits(h, "split", tab.id, pane, {})
    /\ Quiet
    /\ UNCHANGED <<tabs, activeId, stored, core, used, reloads>>

ClosePane(h, tab, pane) ==
    /\ h \notin Busy
    /\ Waits(h, "closePane", tab.id, pane, {pane})
    /\ Quiet
    /\ UNCHANGED <<tabs, activeId, stored, core, used, reloads>>

CloseTerminal(h, tab) ==
    /\ h \notin Busy
    /\ Waits(h, "closeTab", tab.id, Nothing, PanesOf(tab))
    /\ Quiet
    /\ UNCHANGED <<tabs, activeId, stored, core, used, reloads>>

-----------------------------------------------------------------------------
(* The Core.                                                               *)

Creating(h) == work[h].kind \in {"add", "split"}

\* POST /v1/terminal-sessions: the answer carries a fresh id.
CoreCreates(h, pane) ==
    /\ Creating(h) /\ work[h].left = {}
    /\ pane \in Panes \ used
    /\ core' = core \cup {pane}
    /\ used' = used \cup {pane}
    /\ work' = [work EXCEPT ![h].left = {pane}]
    /\ UNCHANGED <<tabs, activeId, stored, quiet, reloads>>

\* DELETE of each pane; one that is gone already is answered 404.
CoreDeletes(h, pane) ==
    /\ work[h].kind \in {"closePane", "closeTab"}
    /\ pane \in work[h].left
    /\ core' = core \ {pane}
    /\ work' = [work EXCEPT ![h].left = @ \ {pane}]
    /\ UNCHANGED <<tabs, activeId, stored, used, quiet, reloads>>

\* A call that fails leaves the tabs as they are, the terminals that other
\* calls of the same handler have closed included.
Fails(h) ==
    /\ h \in Busy
    /\ Creating(h) => work[h].left = {}
    /\ Ends(h)
    /\ quiet' = FALSE
    /\ UNCHANGED <<tabs, activeId, stored, core, used, reloads>>

-----------------------------------------------------------------------------
(* The handlers once the Core has answered.                                *)

TabFor(pane) == [id |-> pane, layout |-> PaneLayout(pane), active |-> pane]

Added(h) ==
    /\ work[h].kind = "add"
    /\ \E pane \in work[h].left :
         /\ PersistTabs(Append(work[h].tabs, TabFor(pane)))
         /\ activeId' = pane
    /\ Ends(h)
    /\ UNCHANGED <<core, used, quiet, reloads>>

Split(h) ==
    /\ work[h].kind = "split"
    /\ \E pane \in work[h].left :
         LET tab == TabOf(work[h].tabs, work[h].tab) IN
         PersistTabs(Changed(work[h].tabs, tab.id,
           [tab EXCEPT !.layout = SplitPane(@, work[h].pane, pane),
                       !.active = pane]))
    /\ activeId' = work[h].tab
    /\ Ends(h)
    /\ UNCHANGED <<core, used, quiet, reloads>>

\* Mutant: the removed pane stays the active one.
ActiveKept(tab, pane, layout) == tab.active

ActiveAfter(tab, pane, layout) ==
    IF tab.active = pane THEN FlattenPanes(layout)[1] ELSE tab.active

\* Mutant: the selection stays on the tab that was closed.
SelectionKept(h, next) == work[h].tab

\* The tab in the same place, or the last.
Neighbour(h, next) ==
    IF next = << >> THEN Nothing
    ELSE LET i == IndexOf(work[h].tabs, work[h].tab)
         IN  next[IF i <= Len(next) THEN i ELSE Len(next)].id

TabClosed(h) ==
    LET next == Kept(work[h].tabs, {i \in DOMAIN work[h].tabs :
                                     work[h].tabs[i].id # work[h].tab}) IN
    /\ PersistTabs(next)
    /\ activeId' = IF work[h].active = work[h].tab THEN Neighbour(h, next)
                   ELSE activeId

PaneClosed(h) ==
    /\ work[h].kind \in {"closePane", "closeTab"} /\ work[h].left = {}
    /\ LET tab == TabOf(work[h].tabs, work[h].tab)
           layout == RemovePane(tab.layout, work[h].pane)
           gone == work[h].kind = "closeTab" \/ IsEmpty(layout)
       IN  \/ gone /\ TabClosed(h)
           \/ /\ ~gone
              /\ PersistTabs(Changed(work[h].tabs, tab.id,
                   [tab EXCEPT !.layout = layout,
                               !.active = ActiveAfter(tab, work[h].pane, layout)]))
              /\ UNCHANGED activeId
    /\ Ends(h)
    /\ UNCHANGED <<core, used, quiet, reloads>>

-----------------------------------------------------------------------------
(* What happens at once.                                                   *)

SelectTerminal(tab) ==
    /\ activeId # tab.id
    /\ activeId' = tab.id
    /\ Quiet
    /\ UNCHANGED <<tabs, stored, core, used, work, reloads>>

ActivatePane(tab, pane) ==
    /\ tab.active # pane \/ activeId # tab.id
    /\ PersistTabs(Changed(tabs, tab.id, [tab EXCEPT !.active = pane]))
    /\ activeId' = tab.id
    /\ Quiet
    /\ UNCHANGED <<core, used, work, reloads>>

\* readTerminalTabs: layouts too deep are dropped, an active pane that is
\* not in its layout becomes the first.
Restorable(layout) ==
    \A pane \in Range(FlattenPanes(layout)) : Depth(layout, pane) <= MaxDepth

ParsedTab(tab) ==
    [tab EXCEPT !.active = IF HasPane(tab.layout, @) THEN @
                           ELSE FlattenPanes(tab.layout)[1]]

Parsed(ts) ==
    LET kept == Kept(ts, {i \in DOMAIN ts : Restorable(ts[i].layout)})
    IN  [i \in DOMAIN kept |-> ParsedTab(kept[i])]

\* The page is loaded again; what its handlers waited for is lost.
Reload ==
    /\ reloads < MaxReloads
    /\ reloads' = reloads + 1
    /\ tabs' = Parsed(stored)
    /\ activeId' = IF tabs' = << >> THEN Nothing ELSE tabs'[1].id
    /\ work' = [h \in Handlers |-> Idle]
    /\ quiet' = (quiet /\ Busy = {} /\ Len(tabs') = Len(stored))
    /\ UNCHANGED <<stored, core, used>>

TabsNext ==
    \/ \E h \in Handlers :
         \/ AddTerminal(h) \/ Fails(h) \/ Added(h) \/ Split(h) \/ PaneClosed(h)
         \/ \E i \in DOMAIN tabs :
              \/ CloseTerminal(h, tabs[i])
              \/ \E pane \in PanesOf(tabs[i]) :
                   SplitTerminal(h, tabs[i], pane) \/ ClosePane(h, tabs[i], pane)
         \/ \E pane \in Panes : CoreCreates(h, pane) \/ CoreDeletes(h, pane)
    \/ \E i \in DOMAIN tabs :
         \/ SelectTerminal(tabs[i])
         \/ \E pane \in PanesOf(tabs[i]) : ActivatePane(tabs[i], pane)
    \/ Reload

TabsSpec == TabsInit /\ [][TabsNext]_tabsVars

-----------------------------------------------------------------------------
\* However handlers overlap, fail and are cut off, no two tabs have one name,
\* the page shows no pane twice, and the list it shows survives a reload as it
\* is: an active pane is always one of its layout. Only a layout too deep to be
\* read back is lost.
TabsSurviveReload ==
    /\ \A i, j \in DOMAIN tabs :
         i # j => /\ tabs[i].id # tabs[j].id
                  /\ PanesOf(tabs[i]) \cap PanesOf(tabs[j]) = {}
    /\ \A i \in DOMAIN tabs :
         /\ IsInjective(FlattenPanes(tabs[i].layout))
         /\ Restorable(tabs[i].layout) =>
              \E k \in DOMAIN Parsed(stored) : Parsed(stored)[k] = tabs[i]

\* While the page is quiet it shows exactly the terminals of the Core, and
\* one of its tabs is selected. (A tab is lost or comes back when handlers
\* overlap: each writes the list it saw.)
QuietPageShowsCore ==
    quiet /\ Busy = {} =>
      /\ AllPanes(tabs) = core
      /\ activeId \in TabIds(tabs) \/ tabs = << >>
=============================================================================

--------------------------- MODULE TerminalLayout ---------------------------
(***************************************************************************)
(* The layout of a tab: its panes in the order they are shown, and for     *)
(* each split the panes that share it. A pane is in a layout once, so this *)
(* determines the tree of the code; LayoutTrees rebuilds the tree and      *)
(* compares the two. Directions and titles change nothing in the tree.     *)
(***************************************************************************)
EXTENDS Naturals, Sequences, SequencesExt, FiniteSets

PaneLayout(pane) == [panes |-> <<pane>>, splits |-> {}]

FlattenPanes(layout) == layout.panes

\* findPane, as a question.
HasPane(layout, pane) == pane \in Range(FlattenPanes(layout))

IndexOfPane(layout, pane) ==
    CHOOSE k \in DOMAIN layout.panes : layout.panes[k] = pane

\* The new pane comes behind the old one. They share a split of their own, and
\* every split the old one is in.
SplitPane(layout, at, pane) ==
    IF HasPane(layout, at)
    THEN [panes |-> InsertAt(layout.panes, IndexOfPane(layout, at) + 1, pane),
          splits |-> {{at, pane}} \cup
                     {IF at \in s THEN s \cup {pane} ELSE s : s \in layout.splits}]
    ELSE layout

\* "undefined" of the code: nothing is left.
IsEmpty(layout) == FlattenPanes(layout) = << >>

\* A split with one pane left is replaced by that pane; one whose half is gone
\* becomes its other half.
RemovePane(layout, pane) ==
    IF HasPane(layout, pane)
    THEN [panes |-> RemoveAt(layout.panes, IndexOfPane(layout, pane)),
          splits |-> {s \in {t \ {pane} : t \in layout.splits} :
                        \E a, b \in s : a # b}]
    ELSE layout

\* How many splits are around a pane.
Depth(layout, pane) == Cardinality({s \in layout.splits : pane \in s})
=============================================================================

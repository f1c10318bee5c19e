---------------------------- MODULE LayoutTrees ----------------------------
(***************************************************************************)
(* The layout functions over the tree, as the code writes them: <<pane>>,  *)
(* or <<first, second>> of two trees that share the space. TerminalLayout  *)
(* says what they do without the recursion.                                *)
(***************************************************************************)
EXTENDS WorkspaceTabs

Leaf(pane) == <<pane>>
IsLeaf(tree) == Len(tree) = 1

RECURSIVE PanesOfTree(_)
PanesOfTree(tree) ==
    IF IsLeaf(tree) THEN tree
    ELSE PanesOfTree(tree[1]) \o PanesOfTree(tree[2])

InTree(tree, pane) == Contains(PanesOfTree(tree), pane)

\* Mutant: the pane is looked for in the first half only.
RECURSIVE SplitFirst(_, _, _)
SplitFirst(tree, at, pane) ==
    IF IsLeaf(tree)
    THEN IF tree[1] = at THEN <<tree, Leaf(pane)>> ELSE tree
    ELSE <<SplitFirst(tree[1], at, pane), tree[2]>>

RECURSIVE SplitInTree(_, _, _)
SplitInTree(tree, at, pane) ==
    IF IsLeaf(tree)
    THEN IF tree[1] = at THEN <<tree, Leaf(pane)>> ELSE tree
    ELSE IF InTree(tree[1], at)
         THEN <<SplitInTree(tree[1], at, pane), tree[2]>>
         ELSE <<tree[1], SplitInTree(tree[2], at, pane)>>

\* "undefined" of the code: nothing is left.
NoTree == << >>

RECURSIVE RemoveFromTree(_, _)
RemoveFromTree(tree, pane) ==
    IF IsLeaf(tree) THEN (IF tree[1] = pane THEN NoTree ELSE tree)
    ELSE LET first == RemoveFromTree(tree[1], pane)
             second == RemoveFromTree(tree[2], pane)
         IN  IF first = NoTree THEN second
             ELSE IF second = NoTree THEN first
             ELSE <<first, second>>

\* parsePaneLayout gives up below a depth.
RECURSIVE ReadBack(_, _)
ReadBack(tree, depth) ==
    /\ depth <= MaxDepth
    /\ IsLeaf(tree) \/ \A half \in {1, 2} : ReadBack(tree[half], depth + 1)

-----------------------------------------------------------------------------
(* From a tree to its panes and splits, and back.                          *)

RECURSIVE SplitsOfTree(_)
SplitsOfTree(tree) ==
    IF IsLeaf(tree) THEN {}
    ELSE {Range(PanesOfTree(tree))} \cup SplitsOfTree(tree[1]) \cup SplitsOfTree(tree[2])

LayoutOf(tree) ==
    IF tree = NoTree THEN [panes |-> << >>, splits |-> {}]
    ELSE [panes |-> PanesOfTree(tree), splits |-> SplitsOfTree(tree)]

RECURSIVE TreeOf(_, _)
TreeOf(panes, splits) ==
    IF Len(panes) = 1 THEN Leaf(panes[1])
    ELSE LET Half(part) == Len(part) = 1 \/ Range(part) \in splits
             First(k) == SubSeq(panes, 1, k)
             Second(k) == SubSeq(panes, k + 1, Len(panes))
             cut == CHOOSE k \in 1..Len(panes) - 1 : Half(First(k)) /\ Half(Second(k))
         IN  <<TreeOf(First(cut), splits), TreeOf(Second(cut), splits)>>

\* On every layout the page reaches, what the recursive functions of
\* terminal-layout.ts and terminal-tabs-store.ts make of its tree is what
\* TerminalLayout says of its panes and splits: for a split at each pane, the
\* removal of each pane, and the depth that is not read back; and removing what
\* was split in gives the tree back.
LayoutOperationsAgree ==
    \A i \in DOMAIN tabs : \A old \in PanesOf(tabs[i]) :
      LET layout == tabs[i].layout
          tree == TreeOf(layout.panes, layout.splits)
          split == SplitInTree(tree, old, Nothing)
      IN  /\ LayoutOf(tree) = layout
          /\ LayoutOf(split) = SplitPane(layout, old, Nothing)
          /\ RemoveFromTree(split, Nothing) = tree
          /\ LayoutOf(RemoveFromTree(tree, old)) = RemovePane(layout, old)
          /\ ReadBack(tree, 0) = Restorable(layout)
          /\ ReadBack(split, 0) = Restorable(SplitPane(layout, old, Nothing))
=============================================================================

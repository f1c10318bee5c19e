-------------------------- MODULE MCWorkspaceTabs --------------------------
EXTENDS LayoutTrees

CONSTANTS p1, p2, p3, h1, h2, none

MCPanes == {p1, p2, p3}
MCHandlers == {h1, h2}
MCSymmetry == Permutations(MCPanes) \cup Permutations(MCHandlers)
=============================================================================

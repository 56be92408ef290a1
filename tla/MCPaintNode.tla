----------------------------- MODULE MCPaintNode -----------------------------
(* PaintNode with a host and a guest or two, and a name to spare.          *)
EXTENDS PaintNode, TLC
Symmetry == Permutations(Names) \cup Permutations(Pages \ {Host})
              \cup Permutations(Boxes)
=============================================================================

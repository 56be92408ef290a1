----------------------------- MODULE MCPaintHistory -----------------------------
(***************************************************************************)
(* PaintHistory on pages of one and two layers.  Each budget is a kind of  *)
(* history: many marks, a stack that changes under marks, text boxes, a    *)
(* page that starts again.                                                 *)
(***************************************************************************)
EXTENDS PaintHistory

CONSTANTS l1, l2, l3

MCFirstPages == {<<l1>>, <<l1, l2>>}

Budget(m, s, t, c) == [marks |-> m, stacks |-> s, texts |-> t, clears |-> c]

MCBudgets == {Budget(3, 0, 0, 0), Budget(2, 1, 0, 0), Budget(0, 2, 0, 0),
              Budget(0, 0, 4, 0), Budget(0, 0, 3, 1),
              Budget(1, 0, 2, 1), Budget(1, 1, 1, 1)}

PasteBudgets == {Budget(2, 0, 0, 0)}

TextBudgets == {Budget(0, 0, 3, 0)}
================================================================================

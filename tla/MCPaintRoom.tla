------------------------------ MODULE MCPaintRoom ------------------------------
(***************************************************************************)
(* PaintRoom with an owner and one guest.  Each budget is one kind of      *)
(* session.                                                                *)
(***************************************************************************)
EXTENDS PaintRoom

CONSTANTS l1, l2, lg

TwoLayers == <<l1, l2>>
PutAway   == <<lg>>

Budget(m, u, s, t, p, l, r) ==
  [marks |-> m, undos |-> u, stacks |-> s, texts |-> t, pages |-> p, losses |-> l, roles |-> r]

MCBudgets == {Budget(1, 2, 0, 0, 0, 0, 0), Budget(2, 1, 0, 0, 0, 0, 0),
              Budget(1, 1, 1, 0, 0, 0, 0), Budget(1, 1, 0, 1, 0, 0, 0),
              Budget(1, 0, 1, 0, 0, 1, 0), Budget(1, 0, 0, 1, 0, 1, 1),
              Budget(1, 0, 0, 0, 1, 1, 0), Budget(1, 1, 0, 0, 1, 0, 0)}

CrossBudgets == {Budget(2, 0, 0, 0, 0, 0, 0)}
================================================================================

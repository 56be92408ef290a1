----------------------------- MODULE MCChessNode -----------------------------
(***************************************************************************)
(* ChessNode with one board.  A behaviour uses the board, with the shell   *)
(* beside it; or the shell's Delete too, with one self; or the name        *)
(* server; or the name server and its relay.                               *)
(***************************************************************************)
EXTENDS ChessNode, TLC

Symmetry == Permutations(Names) \cup Permutations(Pages)

Area(parts, who) == [parts |-> parts, who |-> who]

BoardOrServer ==
  {Area({"table", "shell"}, w) : w \in {v \in SUBSET Names : Cardinality(v) = 2}}
    \cup {Area({"lobby", "relay"}, w) : w \in {v \in SUBSET Names : Cardinality(v) = 2}}
    \cup {Area({"table", "shell", "delete"}, {s}) : s \in Names}
    \cup {Area({"lobby", "delete"}, {s}) : s \in Names}
    \cup {Area({"lobby"}, Names)}

BoardOrRelay == {Area({"table"}, Names), Area({"lobby", "relay"}, Names)}

BoardAndDelete == {Area({"table", "shell", "delete"}, Names)}

BoardAlone == {Area({"table"}, Names)}
==============================================================================

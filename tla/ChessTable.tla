------------------------------ MODULE ChessTable ------------------------------
(***************************************************************************)
(* One board shared at a node (ChessGame.h): the two seats, the offer, the *)
(* outcome and who was heard from, as the operators its verbs are.  All of *)
(* them run on the node's one ordering thread.                             *)
(*                                                                         *)
(* Of the position it keeps whose turn it is and whether it is mate or     *)
(* stalemate; the rules of chess choose what a move leads to, and after    *)
(* either no move is legal.  The lines a game narrates are left out.       *)
(***************************************************************************)
EXTENDS Naturals

CONSTANTS Names,     \* the selves, by name: the tokens of a board
          NoOne      \* nobody; and the operator's empty token

ASSUME TableAssumption == NoOne \notin Names

Sides     == {"white", "black"}
Other(c)  == IF c = "white" THEN "black" ELSE "white"
Positions == {"play", "mate", "stalemate"}
Outcomes  == {"none", "draw", "white", "black"}     \* "white": resign-white

(* beat: no heartbeat, one within the thirty seconds of grace, an old one. *)
Tables == [seat : [Sides -> Names \cup {NoOne}], turn : Sides, at : Positions,
           over : Outcomes, offer : Names \cup {NoOne}, started : BOOLEAN,
           recorded : BOOLEAN, beat : [Names -> {"none", "new", "old"}]]

NewTable == [seat |-> [c \in Sides |-> NoOne], turn |-> "white", at |-> "play",
             over |-> "none", offer |-> NoOne, started |-> FALSE, recorded |-> FALSE,
             beat |-> [s \in Names |-> "none"]]

Active(g)    == g.over = "none" /\ g.at = "play"
Seated(g, s) == \E c \in Sides : g.seat[c] = s
SideOf(g, s) == IF g.seat["white"] = s THEN "white" ELSE "black"
Live(g)      == {s \in Names : g.beat[s] = "new"}

(* Who a finished game credits, and with what: nobody has an empty seat.   *)
Won(g) ==
  IF g.over \in Sides THEN Other(g.over) ELSE Other(g.turn)

Credit(g, s) ==
  IF ~Seated(g, s) THEN "none"
  ELSE IF g.over = "draw" \/ g.at = "stalemate" THEN "draw"
  ELSE IF SideOf(g, s) = Won(g) THEN "win" ELSE "loss"

----------------------------------------------------------------------------
(* Presence.                                                               *)

Touched(g, s) == [g EXCEPT !.beat[s] = "new"]

\* Mutant: the reaper frees a seat only of a token it has never heard.
Reaped_Never(g) ==
  [g EXCEPT !.seat = [c \in Sides |->
     IF g.seat[c] \in Names /\ g.beat[g.seat[c]] = "none" THEN NoOne ELSE g.seat[c]]]

(* A seat whose holder was not heard from within the grace is open; a game *)
(* nobody moved in and nobody is at any more is a new one.                 *)
Reaped(g) ==
  LET kept == [g EXCEPT !.seat = [c \in Sides |->
                 IF g.seat[c] \in Live(g) THEN g.seat[c] ELSE NoOne]]
      deserted == /\ ~g.started
                  /\ \A c \in Sides : kept.seat[c] = NoOne
                  /\ \E s \in Names : g.beat[s] # "none"
                  /\ Live(g) = {}
  IN IF deserted THEN NewTable ELSE kept

----------------------------------------------------------------------------
(* The verbs.                                                              *)

\* Mutant: the other seat is not looked at.
MaySit_Twice(g, s, c) == g.seat[c] = NoOne

(* By moving: the side to move, when it is open and the token is not the   *)
(* other player.                                                           *)
MaySit(g, s, c)  == g.seat[c] = NoOne /\ g.seat[Other(c)] # s

Claimed(g, s) ==
  IF s # NoOne /\ MaySit(g, s, g.turn) THEN [g EXCEPT !.seat[g.turn] = s] ELSE g

(* The claim stands when the move is refused.                              *)
MoveRefused(g, s) == IF g.over = "none" THEN Claimed(g, s) ELSE g

CanMove(g, s) ==
  /\ Active(g)
  /\ s = NoOne \/ Claimed(g, s).seat[g.turn] = s

Moved(g, s, leads) ==
  [Claimed(g, s) EXCEPT !.turn = Other(g.turn), !.at = leads, !.started = TRUE,
                        !.offer = NoOne, !.recorded = @ \/ leads # "play"]

Sat(g, s, c) ==
  IF g.over = "none" /\ MaySit(g, s, c) THEN [g EXCEPT !.seat[c] = s] ELSE g

Resigned(g, s) ==
  IF Seated(g, s) /\ g.over = "none"
  THEN [g EXCEPT !.over = SideOf(g, s), !.offer = NoOne, !.recorded = TRUE]
  ELSE g

(* Offers, or takes the other's offer.                                     *)
Drawn(g, s) ==
  IF ~Seated(g, s) \/ g.over # "none" THEN g
  ELSE IF g.offer \in {NoOne, s} THEN [g EXCEPT !.offer = s]
  ELSE [g EXCEPT !.over = "draw", !.offer = NoOne, !.recorded = TRUE]

Declined(g, s) ==
  IF Seated(g, s) /\ g.offer # s THEN [g EXCEPT !.offer = NoOne] ELSE g

Left(g, s) ==
  [g EXCEPT !.beat[s] = "none",
            !.offer = IF @ = s THEN NoOne ELSE @,
            !.seat  = [c \in Sides |-> IF g.seat[c] = s /\ c = SideOf(g, s)
                                       THEN NoOne ELSE g.seat[c]]]

(* A position loaded at the shell: the seats, the offer and the outcome    *)
(* stay.                                                                   *)
Loaded(g, c, at) == [g EXCEPT !.turn = c, !.at = at]
===============================================================================

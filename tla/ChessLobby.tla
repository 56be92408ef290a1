------------------------------ MODULE ChessLobby ------------------------------
(***************************************************************************)
(* The selves of a node as its name server sees them (ChessLobby.h, and    *)
(* the name-server half of ChessNode.h): which page holds a name, who is   *)
(* online, who waits, and the pairings.  The operators are over the        *)
(* function from names to selves; a name the node has no self for is       *)
(* Unknown.                                                                *)
(*                                                                         *)
(* age: "here" within the thirty seconds of kOnline, "quiet" after them,   *)
(* "expired" after the ten minutes of kSession.  Each page plays the one   *)
(* game.                                                                   *)
(***************************************************************************)
EXTENDS ChessTable, Sequences, FiniteSets

CONSTANTS Pages,       \* the tokens of the pages
          NoPage,
          Matches,     \* the boards the node may open
          Relay,       \* kRelayLines
          MaxPairs,    \* bound: pairings made at one table
          MaxResults   \* bound: results of one self

ASSUME LobbyAssumption ==
  /\ NoPage \notin Pages
  /\ Relay \in Nat \ {0} /\ MaxPairs \in Nat /\ MaxResults \in Nat

Ages  == {"none", "here", "quiet", "expired"}
Pairs == [id : 0 .. MaxPairs, partner : Names \cup {NoOne}, live : BOOLEAN,
          record : Seq(Names), base : Nat]
Tally == [won : 0 .. MaxResults, lost : 0 .. MaxResults, drawn : 0 .. MaxResults]
Selves == [age : Ages, hosting : BOOLEAN, waiting : BOOLEAN, pair : Pairs,
           guestOf : Names \cup {NoOne}, claim : Pages \cup {NoPage},
           edges : SUBSET Matches, tally : Tally]

NoPair  == [id |-> 0, partner |-> NoOne, live |-> FALSE, record |-> <<>>, base |-> 0]
Unknown == [age |-> "none", hosting |-> FALSE, waiting |-> FALSE, pair |-> NoPair,
            guestOf |-> NoOne, claim |-> NoPage, edges |-> {},
            tally |-> [won |-> 0, lost |-> 0, drawn |-> 0]]

Known(l, s)  == l[s].age # "none"
Online(l, s) == l[s].hosting /\ l[s].age = "here"

(* selfLocked: found or made, and heard from.                              *)
Heard(l, s) == [l EXCEPT ![s].age = "here"]

(* The sessions that expired are wiped.                                    *)
Wiped(l) == [s \in Names |-> IF l[s].age = "expired" THEN Unknown ELSE l[s]]

(* One page per name: another page's call goes through only when the       *)
(* holder's has gone quiet.                                                *)
NameFree(l, s, p) ==
  l[s].claim \in {NoPage, p} \/ ~Online(l, s)

Held(l, s, p) == [Heard(l, s) EXCEPT ![s].claim = p]

----------------------------------------------------------------------------
(* Pairings.                                                               *)

LivePair(l, o) == l[o].pair.live
InPair(l, o, s) == LivePair(l, o) /\ s \in {o, l[o].pair.partner}

\* Mutant: a guest's old table counts as its own whoever sits there now.
PairOf_AnyPartner(l, s) ==
  IF LivePair(l, s) THEN s
  ELSE LET o == l[s].guestOf
       IN IF o # NoOne /\ LivePair(l, o) THEN o ELSE NoOne

(* The owner of the live pairing s is in, at its own table first.          *)
PairOf(l, s) ==
  IF LivePair(l, s) THEN s
  ELSE LET o == l[s].guestOf
       IN IF o # NoOne /\ LivePair(l, o) /\ l[o].pair.partner = s THEN o ELSE NoOne

Ended(l, o) == IF o = NoOne THEN l ELSE [l EXCEPT ![o].pair.live = FALSE]

\* Mutant: only the owner's silence ends a pairing.
StaleEnded_OwnerOnly(l) ==
  [o \in Names |-> IF LivePair(l, o) /\ ~Online(l, o)
                   THEN [l[o] EXCEPT !.pair.live = FALSE] ELSE l[o]]

(* A pairing one of whose two is not online is over.                       *)
StaleEnded(l) ==
  [o \in Names |->
     IF LivePair(l, o) /\ ~(Online(l, o) /\ Online(l, l[o].pair.partner))
     THEN [l[o] EXCEPT !.pair.live = FALSE] ELSE l[o]]

\* Mutant: what the guest was in goes on.
Started_GuestStays(l, o, g) ==
  LET apart == Ended(l, PairOf(l, o))
  IN [apart EXCEPT
        ![o] = [@ EXCEPT !.waiting = FALSE,
                         !.pair = [NoPair EXCEPT !.id = l[o].pair.id + 1,
                                                 !.partner = g, !.live = TRUE]],
        ![g] = [@ EXCEPT !.waiting = FALSE, !.guestOf = o]]

(* g sits at o's table; what either was in ends first.                     *)
Started(l, o, g) ==
  LET one   == Ended(l, PairOf(l, o))
      apart == Ended(one, PairOf(one, g))
  IN [apart EXCEPT
        ![o] = [@ EXCEPT !.waiting = FALSE,
                         !.pair = [NoPair EXCEPT !.id = l[o].pair.id + 1,
                                                 !.partner = g, !.live = TRUE]],
        ![g] = [@ EXCEPT !.waiting = FALSE, !.guestOf = o]]

\* Mutant: a self that waits may find itself.
Waiters_Self(l, s) ==
  {o \in Names : l[o].waiting /\ Online(l, o) /\ PairOf(l, o) = NoOne}

(* Whom a quick match may find.                                            *)
Waiters(l, s) ==
  {o \in Names \ {s} : l[o].waiting /\ Online(l, o) /\ PairOf(l, o) = NoOne}

\* Mutant: the caller is online before the pairings are looked through.
Hosting_First(l, s) == StaleEnded([l EXCEPT ![s].hosting = TRUE])

Hosting(l, s) == [StaleEnded(l) EXCEPT ![s].hosting = TRUE]

Waiting(l, s) == [l EXCEPT ![s].waiting = TRUE]

Unpaired(l, s) ==
  LET now == StaleEnded(l)
  IN [Ended(now, PairOf(now, s)) EXCEPT ![s].waiting = FALSE]

(* One line of s into the record of o's pairing; the ring drops the oldest.*)
Pushed(l, o, s) ==
  LET r == Append(l[o].pair.record, s)
  IN IF Len(r) > Relay
     THEN [l EXCEPT ![o].pair.record = Tail(r), ![o].pair.base = @ + 1]
     ELSE [l EXCEPT ![o].pair.record = r]

(* A finished game on a self's record.                                     *)
Result(l, s, c) ==
  CASE c = "win"  -> [l[s].tally EXCEPT !.won = @ + 1]
    [] c = "loss" -> [l[s].tally EXCEPT !.lost = @ + 1]
    [] c = "draw" -> [l[s].tally EXCEPT !.drawn = @ + 1]
    [] OTHER      -> l[s].tally
===============================================================================

------------------------------- MODULE ChessNode -------------------------------
(***************************************************************************)
(* A chess node (ChessNode.h): its boards (ChessTable) and its selves and  *)
(* pairings (ChessLobby), under the requests of the pages.  Every request  *)
(* runs whole on the node's ordering thread, so it is one step; reapLocked *)
(* opens each of them.  A verb of the shell reaches its board without the  *)
(* node, so nothing is reaped before it and no self is heard.              *)
(* Its Delete destroys a board, or a self, that the node still has a       *)
(* pointer to; what a request finds behind such a pointer is not defined,  *)
(* so after a Delete only time goes on.                                    *)
(*                                                                         *)
(* Time is the steps Quiet, Expire and BeatAges.  A board and its node     *)
(* keep the same thirty seconds, and a verb is heard by both: a self goes  *)
(* quiet at the node no sooner than at its boards.                         *)
(***************************************************************************)
EXTENDS ChessLobby

CONSTANTS Areas,     \* what a behaviour uses: parts of the node, and names
          MayGo      \* the names whose page may go without a word

Parts == {"table", "shell", "delete", "lobby", "relay"}

ASSUME NodeAssumption ==
  /\ Areas \subseteq [parts : SUBSET Parts, who : SUBSET Names]
  /\ MayGo \subseteq Names

VARIABLES games,     \* the boards open
          table,     \* the board of each match
          selves,    \* the lobbies, by name
          gone,      \* history: the names no page goes by any more
          destroyed, \* history: boards and selves the shell destroyed
          area       \* which of the Areas

vars == <<games, table, selves, gone, destroyed, area>>

Init ==
  /\ games = {}
  /\ table = [m \in Matches |-> NewTable]
  /\ selves = [s \in Names |-> Unknown]
  /\ gone = {}
  /\ destroyed = {}
  /\ area \in Areas

----------------------------------------------------------------------------
(* reapLocked.                                                             *)

(* Every pointer the node keeps leads to a board or a self.                *)
Whole == destroyed = {}

Referenced(l, m) == \E s \in Names : m \in l[s].edges

\* Mutant: nobody at the board is enough to close it.
StayOpen_Live(l) == {m \in games : Live(table[m]) # {}}

(* The boards that are kept, given the selves that are.                    *)
StayOpen(l) == {m \in games : Referenced(l, m) \/ Live(table[m]) # {}}

Kept   == Wiped(selves)
Open   == StayOpen(Kept)
Board(m) == IF m \in Open THEN table[m] ELSE NewTable

(* The boards after a request that changed m into g.                       *)
With(m, g) == [n \in Matches |-> IF n = m THEN g ELSE Board(n)]

----------------------------------------------------------------------------
(* A finished game on the records of its players.                          *)

\* Mutant: a finished game counts again when its outcome is said again.
Counts_Again(g, h) == h.recorded /\ (~g.recorded \/ h.over # g.over)

Counts(g, h) == h.recorded /\ ~g.recorded

Credited(l, g, h) ==
  [s \in Names |->
     IF Counts(g, h) /\ Credit(h, s) # "none"
     THEN [l[s] EXCEPT !.age = "here", !.tally = Result(l, s, Credit(h, s))]
     ELSE l[s]]

Room(l) == \A s \in Names :
  l[s].tally.won + l[s].tally.lost + l[s].tally.drawn < MaxResults

----------------------------------------------------------------------------
(* /<self>/<match>/<verb>: the visit is the edge, then the verb.           *)

Here(s) == Whole /\ s \in area.who \ gone /\ "table" \in area.parts

Visited(s, m) == [Heard(Kept, s) EXCEPT ![s].edges = @ \cup {m}]

At(s, m) == Reaped(Touched(Board(m), s))

(* The verb of s made g of the board of m.                                 *)
Done(s, m, g) ==
  /\ Here(s)
  /\ games' = Open \cup {m}
  /\ table' = With(m, g)
  /\ Counts(At(s, m), g) => Room(Kept)
  /\ selves' = Credited(Visited(s, m), At(s, m), g)
  /\ UNCHANGED <<gone, destroyed, area>>

Poll(s, m)    == Done(s, m, At(s, m))
Move(s, m, leads) ==
  /\ CanMove(At(s, m), s)
  /\ Done(s, m, Moved(At(s, m), s, leads))
BadMove(s, m) == Done(s, m, MoveRefused(At(s, m), s))
Sit(s, m, c)  == Done(s, m, Sat(At(s, m), s, c))
Resign(s, m)  == Done(s, m, Resigned(At(s, m), s))
Draw(s, m)    == Done(s, m, Drawn(At(s, m), s))
Decline(s, m) == Done(s, m, Declined(At(s, m), s))
Reset(s, m)   == Done(s, m, NewTable)

(* Not heard by the board: it goes without what it withdraws.              *)
LeaveTable(s, m) ==
  /\ Here(s)
  /\ games' = Open \cup {m}
  /\ table' = With(m, Reaped(Left(Board(m), s)))
  /\ selves' = Visited(s, m)
  /\ UNCHANGED <<gone, destroyed, area>>

(* Back to an unfinished game of one's own, else to one with room, else to *)
(* a new one.                                                              *)
Join(s) ==
  /\ Here(s)
  /\ \A m \in Kept[s].edges : ~Active(Board(m))
  /\ LET room == {m \in Open \ Kept[s].edges :
                    Active(table[m]) /\ Cardinality(Live(table[m])) < 2}
     IN \E m \in IF room # {} THEN room ELSE Matches \ Open :
          /\ games' = Open \cup {m}
          /\ selves' = Visited(s, m)
  /\ table' = [m \in Matches |-> Board(m)]
  /\ UNCHANGED <<gone, destroyed, area>>

----------------------------------------------------------------------------
(* The name-server verbs.                                                  *)

Swept ==
  /\ Whole
  /\ games' = Open
  /\ table' = [m \in Matches |-> Board(m)]
  /\ UNCHANGED <<gone, destroyed, area>>

(* A call of page p, going by s, that is let through: the selves it finds. *)
Asks(s, p) ==
  /\ s \in area.who \ gone /\ "lobby" \in area.parts
  /\ NameFree(Kept, s, p)
  /\ Swept

Asking(s, p) == Held(Kept, s, p)

(* What changes nothing but by the reaping: players, rooms, and a call     *)
(* refused for its name.                                                   *)
Look ==
  /\ Swept
  /\ selves' = Kept

(* list, me, and the join of a page that has a game to go back to.         *)
Call(s) ==
  /\ s \in area.who \ gone
  /\ Swept
  /\ selves' = Heard(Kept, s)

Lobbies ==
  /\ "lobby" \in area.parts
  /\ Swept
  /\ selves' = StaleEnded(Kept)

Host(s, p) ==
  /\ Asks(s, p)
  /\ selves' = Hosting(Asking(s, p), s)

Meets(l, o, g) == l[o].pair.id < MaxPairs /\ selves' = Started(l, o, g)

QuickMatch(s, p) ==
  /\ Asks(s, p)
  /\ LET l == Hosting(Asking(s, p), s)
     IN IF PairOf(l, s) # NoOne THEN selves' = l
        ELSE IF Waiters(l, s) = {} THEN selves' = Waiting(l, s)
        ELSE \E o \in Waiters(l, s) : Meets(l, o, s)

VisitLobby(s, p, o) ==
  /\ Asks(s, p)
  /\ LET l == Hosting(Asking(s, p), s)
     IN IF o = s \/ ~Online(l, o) \/ PairOf(l, o) # NoOne
        THEN selves' = l
        ELSE Meets(l, o, s)

Unpair(s, p) ==
  /\ Asks(s, p)
  /\ selves' = Unpaired(Asking(s, p), s)

(* relay, and a push that names no pairing of s.                           *)
Relayed(s, p) ==
  /\ Asks(s, p)
  /\ selves' = Asking(s, p)

Push(s, p) ==
  /\ "relay" \in area.parts
  /\ Asks(s, p)
  /\ LET o == PairOf(Asking(s, p), s)
     IN o # NoOne /\ selves[o].pair.base < Relay /\ selves' = Pushed(Asking(s, p), o, s)

----------------------------------------------------------------------------
(* The verbs of the shell, straight to the board.                          *)

ByHand(m, g) ==
  /\ Whole /\ "shell" \in area.parts /\ m \in games
  /\ table' = [table EXCEPT ![m] = g]
  /\ Counts(table[m], g) => Room(selves)
  /\ selves' = Credited(selves, table[m], g)
  /\ UNCHANGED <<games, gone, destroyed, area>>

HandMove(m, s, leads) ==
  /\ s \in (area.who \ gone) \cup {NoOne} /\ CanMove(table[m], s)
  /\ ByHand(m, Moved(table[m], s, leads))
HandLoad(m, c, at) == ByHand(m, Loaded(table[m], c, at))
HandReset(m)       == ByHand(m, NewTable)
HandLeave(m, s)    == ByHand(m, Reaped(Left(table[m], s)))

(* Delete, of a board or of a self: games_, lobbies_ and the edges keep    *)
(* their pointers.                                                         *)
Deleted(x) ==
  /\ "delete" \in area.parts /\ x \notin destroyed
  /\ destroyed' = destroyed \cup {x}
  /\ UNCHANGED <<games, table, selves, gone, area>>

HandDelete(m) == m \in games /\ Deleted(m)

DeleteSelf(s) == Known(selves, s) /\ Deleted(s)

----------------------------------------------------------------------------
(* Time, and the pages that go without a word.                             *)

BeatAges(m, s) ==
  /\ table[m].beat[s] = "new"
  /\ table' = [table EXCEPT ![m].beat[s] = "old"]
  /\ UNCHANGED <<games, selves, gone, destroyed, area>>

Quiet(s) ==
  /\ selves[s].age = "here"
  /\ \A m \in Matches : table[m].beat[s] # "new"
  /\ selves' = [selves EXCEPT ![s].age = "quiet"]
  /\ UNCHANGED <<games, table, gone, destroyed, area>>

Expire(s) ==
  /\ selves[s].age = "quiet"
  /\ selves' = [selves EXCEPT ![s].age = "expired"]
  /\ UNCHANGED <<games, table, gone, destroyed, area>>

Vanish(s) ==
  /\ s \in MayGo \ gone
  /\ gone' = gone \cup {s}
  /\ UNCHANGED <<games, table, selves, destroyed, area>>

AtTable(s, m) ==
  \/ Poll(s, m) \/ BadMove(s, m) \/ Resign(s, m) \/ Draw(s, m) \/ Decline(s, m)
  \/ Reset(s, m) \/ LeaveTable(s, m)
  \/ \E at \in Positions : Move(s, m, at)
  \/ \E c \in Sides : Sit(s, m, c)

AtLobby(s, p) ==
  \/ Host(s, p) \/ QuickMatch(s, p) \/ Unpair(s, p) \/ Relayed(s, p) \/ Push(s, p)
  \/ \E o \in Names : VisitLobby(s, p, o)

Shell(m) ==
  \/ \E s \in Names \cup {NoOne}, at \in Positions : HandMove(m, s, at)
  \/ \E c \in Sides, at \in Positions : HandLoad(m, c, at)
  \/ HandReset(m)
  \/ \E s \in Names : HandLeave(m, s)
  \/ HandDelete(m)

Time(s) == Quiet(s) \/ Expire(s) \/ \E m \in Matches : BeatAges(m, s)

Next ==
  \/ \E s \in Names, m \in Matches : AtTable(s, m)
  \/ \E s \in Names, p \in Pages : AtLobby(s, p)
  \/ \E s \in Names : Join(s) \/ Call(s) \/ Vanish(s) \/ Time(s) \/ DeleteSelf(s)
  \/ \E m \in Matches : Shell(m)
  \/ Look \/ Lobbies

(***************************************************************************)
(* Time passes for a page that is gone.  A page that is not polls the      *)
(* board it is at and the list of the lobbies (startPolling,               *)
(* startNameServer).  The third conjunct is the weak fairness of a poll,   *)
(* written with when there is a seat for it to free.                       *)
(***************************************************************************)
SeatDue(m) == Whole /\ \E c \in Sides : table[m].seat[c] \in Names \ Live(table[m])

Fairness ==
  /\ \A s \in Names : WF_vars(s \in gone /\ Quiet(s))
  /\ \A s \in Names, m \in Matches : WF_vars(s \in gone /\ BeatAges(m, s))
  /\ \A m \in Matches : []<>~SeatDue(m) \/ []<><<\E s \in Names : Poll(s, m)>>_vars
  /\ WF_vars(Lobbies)

Spec == Init /\ [][Next]_vars /\ Fairness

----------------------------------------------------------------------------
(* What holds of a node.                                                   *)

(* Every variable has its type; a board that is not open is a new one, an  *)
(* unknown self is a new one, and a pairing at a table is with somebody    *)
(* else.                                                                   *)
TypeOK ==
  /\ games \subseteq Matches /\ gone \subseteq Names /\ area \in Areas
  /\ destroyed \subseteq Matches \cup Names
  /\ table \in [Matches -> Tables]
  /\ selves \in [Names -> Selves]
  /\ \A m \in Matches \ games : table[m] = NewTable
  /\ \A s \in Names : ~Known(selves, s) => selves[s] = Unknown
  /\ \A o \in Names : LivePair(selves, o) => selves[o].pair.partner \in Names \ {o}

(* ChessGame::leaveLocked relies on it: one token can never hold both      *)
(* seats.                                                                  *)
SeatsApart ==
  \A m \in Matches : table[m].seat["white"] = table[m].seat["black"]
                       => table[m].seat["white"] = NoOne

(* The boards there are: closed by the reaper or destroyed by the shell, a *)
(* board is gone.                                                          *)
Boards == games \ destroyed

(* The edges of a self are pointers to boards (ChessLobby::edges_): none   *)
(* of them outlives its board, but for a board the shell destroyed.        *)
EdgesHold == \A s \in Names : selves[s].edges \ destroyed \subseteq Boards

(* What reapLocked, joinLocked and roomsLocked walk is safe (ChessNode.h,  *)
(* the ordering domain): every board the node lists or a self has an edge  *)
(* to is there.  The shell's Delete breaks it.                             *)
WalksAreSafe ==
  \A s \in Names : games \cup selves[s].edges \subseteq Boards

(* One table at a time (startPairLocked): no self is in two pairings that  *)
(* go on, whoever owns them, also when its session was wiped between them. *)
OneTable ==
  \A o1, o2 \in Names, s \in Names :
    InPair(selves, o1, s) /\ InPair(selves, o2, s) => o1 = o2

(* A player record changes only when a game that was not counted is, by    *)
(* one result, and for who sits at it (ChessGame::recorded_): however the  *)
(* game's outcome is said again.                                           *)
ResultsCountOnce ==
  [][\A s \in Names :
       selves'[s].tally \notin {selves[s].tally, Unknown.tally}
         => \E m \in Matches : /\ table'[m].recorded
                               /\ ~Board(m).recorded
                               /\ Seated(table'[m], s)]_vars

(* A pairing ends by its own two: one of them is gone quiet, or asked for  *)
(* another table or for none (which it does by being heard), and a third   *)
(* self's call never ends a pairing of two who are online.                 *)
PairEndsByItsOwn ==
  [][\A o \in Names :
       LET g == selves[o].pair.partner
       IN /\ LivePair(selves, o) /\ Online(selves, o) /\ Online(selves, g)
          /\ ~(LivePair(selves', o) /\ selves'[o].pair.partner = g)
          => \/ \E p \in Pages, s \in {o, g} : AtLobby(s, p)]_vars

(* A player whose page is gone loses the seat: thirty seconds, and a poll  *)
(* of anybody at the board (ChessGame::reapLocked).                        *)
SeatsComeFree ==
  \A s \in Names, m \in Matches : s \in gone ~> ~Seated(table[m], s)

(* A page that is gone leaves its pairing (endStaleLocked), so that the    *)
(* other may be paired again.                                              *)
PairsComeFree ==
  \A s, o \in Names : s \in gone ~> ~InPair(selves, o, s)

(* A finished game keeps its outcome until a new one is set up             *)
(* (resignLocked, drawLocked: both refuse a finished game).                *)
Outcome(g) == IF g.over # "none" THEN g.over ELSE g.at

OutcomeStands ==
  [][\A m \in Matches :
       Outcome(table[m]) # "play"
         => Outcome(table'[m]) \in {Outcome(table[m]), "play"}]_vars
================================================================================

---------------------------- MODULE ChessNodeProofs ----------------------------
(***************************************************************************)
(* A node's type correctness, its seats, its edges and its pairings, for   *)
(* any number of selves, pages and boards.                                 *)
(*                                                                         *)
(* That no self is in two pairings is not inductive: startPairLocked finds *)
(* the pairing to end through the guest's own guest_of_, which a wiped     *)
(* session loses.  What makes it work is that a partner that is hosting    *)
(* still names the table (Guests), and that whoever is not is put out by   *)
(* endStaleLocked before anybody is set hosting.                           *)
(***************************************************************************)
EXTENDS ChessNode, TLAPS

(* A board: its type, and that one token does not hold both seats.         *)
SeatApart(g) == g.seat["white"] = g.seat["black"] => g.seat["white"] = NoOne
TableInv(g)  == g \in Tables /\ SeatApart(g)

(* The selves: their types, and their pairings.                            *)
Sane(l) ==
  /\ l \in [Names -> Selves]
  /\ \A s \in Names : ~Known(l, s) => l[s] = Unknown
  /\ \A o \in Names : LivePair(l, o) => l[o].pair.partner \in Names \ {o}

One(l) == \A o1, o2 \in Names, s \in Names :
            InPair(l, o1, s) /\ InPair(l, o2, s) => o1 = o2

Guests(l) == \A o \in Names :
  LivePair(l, o) /\ l[l[o].pair.partner].hosting => l[l[o].pair.partner].guestOf = o

(* As endStaleLocked leaves them.                                          *)
Met(l) == \A o \in Names : LivePair(l, o) => l[l[o].pair.partner].guestOf = o

SelvesInv(l) == Sane(l) /\ One(l) /\ Guests(l)

NodeInv ==
  /\ games \subseteq Matches /\ gone \subseteq Names /\ area \in Areas
  /\ destroyed \subseteq Matches \cup Names
  /\ table \in [Matches -> Tables]
  /\ \A m \in Matches : TableInv(table[m])
  /\ \A m \in Matches \ games : table[m] = NewTable
  /\ SelvesInv(selves)
  /\ \A s \in Names : selves[s].edges \subseteq games

----------------------------------------------------------------------------
(* Boards.                                                                 *)

LEMMA NewTableInv == TableInv(NewTable)
BY TableAssumption, SMTT(30) DEF TableInv, SeatApart, NewTable, Tables, Sides, Positions, Outcomes

LEMMA TouchedInv ==
  ASSUME NEW g, TableInv(g), NEW s \in Names
  PROVE  TableInv(Touched(g, s))
BY SMTT(30) DEF TableInv, SeatApart, Touched, Tables, Sides, Positions, Outcomes

LEMMA ReapedInv ==
  ASSUME NEW g, TableInv(g)
  PROVE  TableInv(Reaped(g))
<1> DEFINE seat == [c \in Sides |-> IF g.seat[c] \in Live(g) THEN g.seat[c] ELSE NoOne]
           kept == [g EXCEPT !.seat = seat]
<1>0. g \in Tables
  BY DEF TableInv
<1>1. seat \in [Sides -> Names \cup {NoOne}]
  BY <1>0 DEF Tables, Live
<1>2. kept \in Tables
  BY <1>0, <1>1, Zenon DEF Tables
<1>3. seat["white"] = seat["black"] => seat["white"] = NoOne
  BY SMT DEF TableInv, SeatApart, Sides
<1>4. kept.seat = seat
  BY <1>0, SMT DEF Tables
<1>5. Reaped(g) = NewTable \/ Reaped(g) = kept
  BY DEF Reaped
<1> QED
  BY <1>2, <1>3, <1>4, <1>5, NewTableInv DEF TableInv, SeatApart

LEMMA ClaimedInv ==
  ASSUME NEW g, TableInv(g), NEW s \in Names \cup {NoOne}
  PROVE  TableInv(Claimed(g, s))
BY TableAssumption, SMTT(30) DEF TableInv, SeatApart, Claimed, MaySit, Other, Tables, Sides, Positions, Outcomes

LEMMA MovedInv ==
  ASSUME NEW g, TableInv(g), NEW s \in Names \cup {NoOne}, NEW at \in Positions
  PROVE  TableInv(Moved(g, s, at))
<1> DEFINE c   == Claimed(g, s)
           rec == c.recorded \/ at # "play"
           h   == [c EXCEPT !.turn = Other(g.turn), !.at = at, !.started = TRUE,
                            !.offer = NoOne, !.recorded = rec]
<1>1. TableInv(c)
  BY ClaimedInv
<1>2. Moved(g, s, at) = h
  BY DEF Moved
<1>3. Other(g.turn) \in Sides /\ NoOne \in Names \cup {NoOne} /\ TRUE \in BOOLEAN
  BY DEF Other, Sides
<1>4. rec \in BOOLEAN
  OBVIOUS
<1> HIDE DEF c, rec
<1>5. h \in Tables
  BY <1>1, <1>3, <1>4, Zenon DEF TableInv, Tables
<1>6. h.seat = c.seat
  BY <1>1, SMT DEF TableInv, Tables
<1> QED
  BY <1>1, <1>2, <1>5, <1>6 DEF TableInv, SeatApart

LEMMA SatInv ==
  ASSUME NEW g, TableInv(g), NEW s \in Names, NEW c \in Sides
  PROVE  TableInv(Sat(g, s, c))
<1> DEFINE h == Sat(g, s, c)
<1>0. g \in Tables
  BY DEF TableInv
<1>1. h \in Tables
  BY <1>0, TableAssumption, SMTT(30) DEF Tables, Sat, MaySit, Other, Sides, Positions, Outcomes
<1>2. SeatApart(h)
  BY TableAssumption, SMTT(30) DEF TableInv, SeatApart, Tables, Sat, MaySit, Other, Sides, Positions, Outcomes
<1> QED
  BY <1>1, <1>2 DEF TableInv

LEMMA ResignedInv ==
  ASSUME NEW g, TableInv(g), NEW s \in Names
  PROVE  TableInv(Resigned(g, s))
<1> DEFINE h == [g EXCEPT !.over = SideOf(g, s), !.offer = NoOne, !.recorded = TRUE]
<1>0. g \in Tables
  BY DEF TableInv
<1>1. SideOf(g, s) \in Outcomes
  BY DEF SideOf, Outcomes
<1>2. h \in Tables
  BY <1>0, <1>1, Zenon DEF Tables
<1>3. h.seat = g.seat
  BY <1>0, SMT DEF Tables
<1>4. Resigned(g, s) = h \/ Resigned(g, s) = g
  BY DEF Resigned
<1> QED
  BY <1>2, <1>3, <1>4 DEF TableInv, SeatApart

LEMMA DrawnInv ==
  ASSUME NEW g, TableInv(g), NEW s \in Names
  PROVE  TableInv(Drawn(g, s))
<1> DEFINE h == [g EXCEPT !.over = "draw", !.offer = NoOne, !.recorded = TRUE]
           f == [g EXCEPT !.offer = s]
<1>0. g \in Tables
  BY DEF TableInv
<1>1. "draw" \in Outcomes
  BY DEF Outcomes
<1>2. h \in Tables /\ f \in Tables
  BY <1>0, <1>1, Zenon DEF Tables
<1>3. h.seat = g.seat /\ f.seat = g.seat
  BY <1>0, SMT DEF Tables
<1>4. Drawn(g, s) \in {g, f, h}
  BY DEF Drawn
<1> QED
  BY <1>2, <1>3, <1>4 DEF TableInv, SeatApart

LEMMA DeclinedInv ==
  ASSUME NEW g, TableInv(g), NEW s \in Names
  PROVE  TableInv(Declined(g, s))
BY SMTT(30) DEF TableInv, SeatApart, Declined, Tables, Sides, Positions, Outcomes

LEMMA LeftInv ==
  ASSUME NEW g, TableInv(g), NEW s \in Names
  PROVE  TableInv(Left(g, s))
<1> DEFINE seat  == [c \in Sides |-> IF g.seat[c] = s /\ c = SideOf(g, s)
                                     THEN NoOne ELSE g.seat[c]]
           offer == IF g.offer = s THEN NoOne ELSE g.offer
           beat  == [g.beat EXCEPT ![s] = "none"]
           h     == [g EXCEPT !.beat = beat, !.offer = offer, !.seat = seat]
<1>0. g \in Tables
  BY DEF TableInv
<1>1. seat \in [Sides -> Names \cup {NoOne}]
  BY <1>0 DEF Tables
<1>2. offer \in Names \cup {NoOne} /\ beat \in [Names -> {"none", "new", "old"}]
  BY <1>0 DEF Tables
<1>3. seat["white"] = seat["black"] => seat["white"] = NoOne
  BY SMT DEF TableInv, SeatApart, SideOf, Sides
<1>4. Left(g, s) = h
  BY <1>0 DEF Left, Tables
<1> HIDE DEF seat, offer, beat
<1>5. h \in Tables
  BY <1>0, <1>1, <1>2, Zenon DEF Tables
<1>6. h.seat = seat
  BY <1>0, SMT DEF Tables
<1> QED
  BY <1>3, <1>4, <1>5, <1>6 DEF TableInv, SeatApart

LEMMA LoadedInv ==
  ASSUME NEW g, TableInv(g), NEW c \in Sides, NEW at \in Positions
  PROVE  TableInv(Loaded(g, c, at))
<1>1. Loaded(g, c, at) \in Tables
  BY Zenon DEF TableInv, Tables, Loaded
<1>2. Loaded(g, c, at).seat = g.seat
  BY SMT DEF TableInv, Tables, Loaded
<1> QED
  BY <1>1, <1>2 DEF TableInv, SeatApart

----------------------------------------------------------------------------
(* Selves.                                                                 *)

LEMMA UnknownType == Unknown \in Selves /\ NoPair \in Pairs
BY LobbyAssumption, SMTT(30)
DEF Unknown, NoPair, Selves, Pairs, Tally, Ages

LEMMA WipedInv ==
  ASSUME NEW l, SelvesInv(l)
  PROVE  SelvesInv(Wiped(l))
<1> DEFINE w == Wiped(l)
<1>1. w \in [Names -> Selves]
  BY UnknownType DEF Wiped, SelvesInv, Sane
<1>2. \A s \in Names : w[s] = l[s] \/ w[s] = Unknown
  BY DEF Wiped
<1>3. Unknown.hosting = FALSE /\ Unknown.pair.live = FALSE /\ Unknown.age = "none"
  BY DEF Unknown, NoPair
<1>4. \A o \in Names : LivePair(w, o) => LivePair(l, o) /\ w[o] = l[o]
  BY <1>2, <1>3 DEF LivePair
<1>5. \A o \in Names : LivePair(w, o) => w[o].pair.partner \in Names \ {o}
  BY <1>4 DEF SelvesInv, Sane
<1> HIDE DEF w
<1>6. Sane(w)
  BY <1>1, <1>2, <1>5 DEF Sane, SelvesInv, Known
<1>7. One(w)
  BY <1>4 DEF One, InPair, SelvesInv
<1>8. Guests(w)
  BY <1>2, <1>3, <1>4, <1>5 DEF Guests, SelvesInv
<1> QED
  BY <1>6, <1>7, <1>8 DEF SelvesInv, w

LEMMA UnknownFacts ==
  Unknown.hosting = FALSE /\ Unknown.pair.live = FALSE /\ Unknown.age = "none"
  /\ Unknown.edges = {}
BY DEF Unknown, NoPair

(* A change of a self that leaves its pairings alone.                      *)
LEMMA AloneInv ==
  ASSUME NEW l, SelvesInv(l), NEW k \in [Names -> Selves],
         \A s \in Names : /\ k[s].pair.live => l[s].pair.live
                          /\ k[s].pair.live => k[s].pair.partner = l[s].pair.partner
                          /\ k[s].guestOf = l[s].guestOf
                          /\ k[s].hosting => l[s].hosting
                          /\ ~Known(k, s) => k[s] = Unknown
  PROVE  SelvesInv(k)
<1>1. \A o \in Names : LivePair(k, o) =>
        LivePair(l, o) /\ k[o].pair.partner = l[o].pair.partner
  BY DEF LivePair
<1>2. \A o \in Names : LivePair(k, o) => k[o].pair.partner \in Names \ {o}
  BY <1>1 DEF SelvesInv, Sane
<1>3. Sane(k)
  BY <1>2 DEF Sane
<1>4. One(k)
  BY <1>1 DEF One, InPair, SelvesInv
<1>5. Guests(k)
  BY <1>1, <1>2 DEF Guests, SelvesInv
<1> QED
  BY <1>3, <1>4, <1>5 DEF SelvesInv

LEMMA HeardInv ==
  ASSUME NEW l, SelvesInv(l), NEW s \in Names
  PROVE  SelvesInv(Heard(l, s)) /\ Known(Heard(l, s), s)
<1> DEFINE k == Heard(l, s)
<1>1. l[s] \in Selves /\ "here" \in Ages
  BY DEF SelvesInv, Sane, Ages
<1>2. [l[s] EXCEPT !.age = "here"] \in Selves
  BY <1>1, Zenon DEF Selves
<1>3. k = [l EXCEPT ![s] = [l[s] EXCEPT !.age = "here"]]
  BY DEF Heard
<1>4. k \in [Names -> Selves]
  BY <1>2, <1>3 DEF SelvesInv, Sane
<1>5. \A r \in Names : /\ r # s => k[r] = l[r]
                       /\ k[r].pair = l[r].pair /\ k[r].guestOf = l[r].guestOf
                       /\ k[r].hosting = l[r].hosting
  BY <1>1, <1>3 DEF SelvesInv, Sane, Selves
<1>6. k[s].age = "here"
  BY <1>1, <1>3 DEF SelvesInv, Sane, Selves
<1> HIDE DEF k
<1>7. SelvesInv(k)
  BY <1>4, <1>5, <1>6, AloneInv DEF Known, SelvesInv, Sane
<1> QED
  BY <1>6, <1>7 DEF Known, k
LEMMA HeldInv ==
  ASSUME NEW l, SelvesInv(l), NEW s \in Names, NEW p \in Pages
  PROVE  SelvesInv(Held(l, s, p)) /\ Known(Held(l, s, p), s)
<1> DEFINE h == Heard(l, s)
           k == Held(l, s, p)
<1>1. SelvesInv(h) /\ Known(h, s)
  BY HeardInv
<1>2. k = [h EXCEPT ![s] = [h[s] EXCEPT !.claim = p]]
  BY DEF Held
<1> HIDE DEF h
<1>3. h[s] \in Selves
  BY <1>1 DEF SelvesInv, Sane
<1>4. [h[s] EXCEPT !.claim = p] \in Selves
  BY <1>3, Zenon DEF Selves
<1>5. k \in [Names -> Selves]
  BY <1>1, <1>2, <1>4 DEF SelvesInv, Sane
<1>6. \A r \in Names : /\ r # s => k[r] = h[r]
                       /\ k[r].pair = h[r].pair /\ k[r].guestOf = h[r].guestOf
                       /\ k[r].hosting = h[r].hosting /\ k[r].age = h[r].age
  BY <1>1, <1>2, <1>3 DEF SelvesInv, Sane, Selves
<1> HIDE DEF k
<1>7. SelvesInv(k)
  BY SMTT(30), <1>1, <1>5, <1>6, AloneInv DEF Known, SelvesInv, Sane
<1> QED
  BY <1>1, <1>6, <1>7 DEF Known, k

(* Any pairings ended, whoever's they are.                                 *)
Fewer(l, S) ==
  [o \in Names |-> IF o \in S THEN [l[o] EXCEPT !.pair.live = FALSE] ELSE l[o]]

SameButLive(k, l) == \A o \in Names :
  /\ k[o].pair.partner = l[o].pair.partner /\ k[o].pair.id = l[o].pair.id
  /\ k[o].age = l[o].age /\ k[o].hosting = l[o].hosting
  /\ k[o].guestOf = l[o].guestOf /\ k[o].edges = l[o].edges /\ k[o].tally = l[o].tally

SameButFlags(k, l) == \A o \in Names :
  /\ k[o].pair = l[o].pair /\ k[o].age = l[o].age /\ k[o].guestOf = l[o].guestOf
  /\ k[o].edges = l[o].edges /\ k[o].tally = l[o].tally

SameButPairs(k, l) == \A o \in Names :
  /\ k[o].pair.id = l[o].pair.id /\ k[o].pair.partner = l[o].pair.partner
  /\ k[o].age = l[o].age /\ k[o].edges = l[o].edges /\ k[o].tally = l[o].tally

(* The pairing at o's table goes on.                                       *)
Stands(k, l, o) == LivePair(k, o) /\ k[o].pair.partner = l[o].pair.partner

LEMMA FewerInv ==
  ASSUME NEW l, SelvesInv(l), NEW S \in SUBSET Names,
         \A o \in S : Known(l, o)
  PROVE  /\ SelvesInv(Fewer(l, S))
         /\ \A o \in Names : LivePair(Fewer(l, S), o) <=> LivePair(l, o) /\ o \notin S
         /\ SameButLive(Fewer(l, S), l)
<1> DEFINE k == Fewer(l, S)
<1>1. l \in [Names -> Selves]
  BY DEF SelvesInv, Sane
<1>2. ASSUME NEW o \in S
      PROVE  /\ k[o] \in Selves
             /\ k[o].pair.live = FALSE
             /\ k[o].pair.partner = l[o].pair.partner /\ k[o].pair.id = l[o].pair.id
             /\ k[o].age = l[o].age /\ k[o].hosting = l[o].hosting
             /\ k[o].guestOf = l[o].guestOf /\ k[o].edges = l[o].edges
             /\ k[o].tally = l[o].tally
  <2> DEFINE q == [l[o].pair EXCEPT !.live = FALSE]
  <2>1. k[o] = [l[o] EXCEPT !.pair = q]
    BY SMT DEF Fewer
  <2>2. l[o] \in Selves /\ l[o].pair \in Pairs
    BY <1>1 DEF Selves
  <2>3. q \in Pairs
    BY <2>2, Zenon DEF Pairs
  <2>4. q.live = FALSE /\ q.partner = l[o].pair.partner /\ q.id = l[o].pair.id
    BY <2>2 DEF Pairs
  <2> HIDE DEF q
  <2>5. k[o] \in Selves
    BY <2>1, <2>2, <2>3, Zenon DEF Selves
  <2> QED
    BY <2>1, <2>2, <2>4, <2>5 DEF Selves
<1>3. \A o \in Names \ S : k[o] = l[o]
  BY DEF Fewer
<1>4. k \in [Names -> Selves]
  BY <1>1, <1>2, <1>3 DEF Fewer
<1> HIDE DEF k
<1>5. \A o \in Names : k[o].age = "none" => k[o] = Unknown
  BY <1>2, <1>3 DEF SelvesInv, Sane, Known
<1>6. SelvesInv(k)
  BY ZenonT(60), <1>2, <1>3, <1>4, <1>5, AloneInv DEF Known
<1> QED
  BY <1>2, <1>3, <1>6 DEF LivePair, SameButLive, k

LEMMA LiveIsKnown ==
  ASSUME NEW l, SelvesInv(l), NEW o \in Names, LivePair(l, o)
  PROVE  Known(l, o)
BY UnknownFacts DEF SelvesInv, Sane, LivePair

LEMMA StaleInv ==
  ASSUME NEW l, SelvesInv(l)
  PROVE  /\ SelvesInv(StaleEnded(l)) /\ Met(StaleEnded(l))
         /\ \A o \in Names : LivePair(StaleEnded(l), o)
              <=> LivePair(l, o) /\ Online(l, o) /\ Online(l, l[o].pair.partner)
         /\ SameButLive(StaleEnded(l), l)
<1> DEFINE S == {o \in Names : LivePair(l, o)
                   /\ ~(Online(l, o) /\ Online(l, l[o].pair.partner))}
           k == StaleEnded(l)
<1>1. k = Fewer(l, S)
  BY DEF StaleEnded, Fewer
<1>2. \A o \in S : Known(l, o)
  BY LiveIsKnown
<1>3. S \in SUBSET Names
  OBVIOUS
<1>4. /\ SelvesInv(k)
      /\ \A o \in Names : LivePair(k, o) <=> LivePair(l, o) /\ o \notin S
      /\ SameButLive(k, l)
  <2> HIDE DEF S, k
  <2> QED
    BY <1>1, <1>2, <1>3, FewerInv
<1> HIDE DEF k
<1>5. \A o \in Names : LivePair(k, o) <=>
        LivePair(l, o) /\ Online(l, o) /\ Online(l, l[o].pair.partner)
  BY <1>4
<1>6. Met(k)
  <2> SUFFICES ASSUME NEW o \in Names, LivePair(k, o)
               PROVE  k[k[o].pair.partner].guestOf = o
    BY DEF Met
  <2>1. l[o].pair.partner \in Names
    BY <1>5 DEF SelvesInv, Sane
  <2>2. l[l[o].pair.partner].guestOf = o
    BY <1>5, <2>1 DEF SelvesInv, Guests, Online
  <2> QED
    BY <1>4, <2>1, <2>2 DEF SameButLive
<1> QED
  BY <1>4, <1>5, <1>6 DEF k
(* The same, once endStaleLocked has run: who is hosting may change too.   *)
LEMMA MetInv ==
  ASSUME NEW l, SelvesInv(l), Met(l), NEW k \in [Names -> Selves],
         \A s \in Names : /\ k[s].pair.live => l[s].pair.live
                          /\ k[s].pair.live => k[s].pair.partner = l[s].pair.partner
                          /\ k[s].guestOf = l[s].guestOf
                          /\ ~Known(k, s) => k[s] = Unknown
  PROVE  SelvesInv(k) /\ Met(k)
<1>1. \A o \in Names : LivePair(k, o) =>
        LivePair(l, o) /\ k[o].pair.partner = l[o].pair.partner
  BY DEF LivePair
<1>2. \A o \in Names : LivePair(k, o) => k[o].pair.partner \in Names \ {o}
  BY <1>1 DEF SelvesInv, Sane
<1>3. Sane(k)
  BY <1>2 DEF Sane
<1>4. One(k)
  BY <1>1 DEF One, InPair, SelvesInv
<1>5. Met(k)
  BY <1>1, <1>2 DEF Met
<1>6. Guests(k)
  BY <1>5 DEF Guests, Met
<1> QED
  BY <1>3, <1>4, <1>5, <1>6 DEF SelvesInv

(* A self that waits, hosts or does not.                                   *)
LEMMA FlagInv ==
  ASSUME NEW l, SelvesInv(l), Met(l), NEW s \in Names, Known(l, s), NEW k,
         \/ k = [l EXCEPT ![s].hosting = TRUE]
         \/ k = [l EXCEPT ![s].waiting = TRUE]
         \/ k = [l EXCEPT ![s].waiting = FALSE]
  PROVE  /\ SelvesInv(k) /\ Met(k)
         /\ \A o \in Names : LivePair(k, o) <=> LivePair(l, o)
         /\ SameButFlags(k, l)
<1> DEFINE q == k[s]
<1>1. l \in [Names -> Selves]
  BY DEF SelvesInv, Sane
<1>2. \/ q = [l[s] EXCEPT !.hosting = TRUE]
      \/ q = [l[s] EXCEPT !.waiting = TRUE]
      \/ q = [l[s] EXCEPT !.waiting = FALSE]
  <2>1. CASE k = [l EXCEPT ![s].hosting = TRUE]
    BY <1>1, <2>1
  <2>2. CASE k = [l EXCEPT ![s].waiting = TRUE]
    BY <1>1, <2>2
  <2>3. CASE k = [l EXCEPT ![s].waiting = FALSE]
    BY <1>1, <2>3
  <2> QED
    BY <2>1, <2>2, <2>3
<1>3. q \in Selves
  BY <1>1, <1>2, Zenon DEF Selves
<1>4. /\ q.pair = l[s].pair /\ q.guestOf = l[s].guestOf /\ q.age = l[s].age
      /\ q.edges = l[s].edges /\ q.tally = l[s].tally
  BY <1>1, <1>2 DEF Selves
<1>5. \A r \in Names \ {s} : k[r] = l[r]
  BY <1>1, SMT
<1>6. k = [l EXCEPT ![s] = q]
  BY <1>1, SMT
<1> HIDE DEF q
<1>7. k \in [Names -> Selves]
  BY <1>1, <1>3, <1>6
<1>8. k[s] = q
  BY DEF q
<1>9. SelvesInv(k) /\ Met(k)
  BY <1>4, <1>5, <1>7, <1>8, MetInv DEF Known, SelvesInv, Sane
<1> QED
  BY <1>4, <1>5, <1>8, <1>9 DEF LivePair, SameButFlags

LEMMA HostingInv ==
  ASSUME NEW l, SelvesInv(l), NEW s \in Names, Known(l, s)
  PROVE  /\ SelvesInv(Hosting(l, s)) /\ Met(Hosting(l, s))
         /\ \A o \in Names : LivePair(Hosting(l, s), o)
              <=> LivePair(l, o) /\ Online(l, o) /\ Online(l, l[o].pair.partner)
         /\ SameButPairs(Hosting(l, s), l)
<1> DEFINE k == StaleEnded(l)
<1>1. /\ SelvesInv(k) /\ Met(k) /\ SameButLive(k, l)
      /\ \A o \in Names : LivePair(k, o)
              <=> LivePair(l, o) /\ Online(l, o) /\ Online(l, l[o].pair.partner)
  BY StaleInv
<1>2. Known(k, s)
  BY <1>1 DEF SameButLive, Known
<1>3. Hosting(l, s) = [k EXCEPT ![s].hosting = TRUE]
  BY DEF Hosting
<1> HIDE DEF k
<1>4. /\ SelvesInv(Hosting(l, s)) /\ Met(Hosting(l, s))
      /\ \A o \in Names : LivePair(Hosting(l, s), o) <=> LivePair(k, o)
      /\ SameButFlags(Hosting(l, s), k)
  BY <1>1, <1>2, <1>3, FlagInv
<1> QED
  BY <1>1, <1>4 DEF SameButLive, SameButFlags, SameButPairs

LEMMA EndedInv ==
  ASSUME NEW l, SelvesInv(l), Met(l), NEW o \in Names \cup {NoOne},
         o # NoOne => LivePair(l, o)
  PROVE  /\ SelvesInv(Ended(l, o)) /\ Met(Ended(l, o))
         /\ \A x \in Names : LivePair(Ended(l, o), x) <=> LivePair(l, x) /\ x # o
         /\ SameButLive(Ended(l, o), l)
<1>1. CASE o = NoOne
  BY <1>1, TableAssumption DEF Ended, SameButLive
<1>2. CASE o # NoOne
  <2> DEFINE k == Fewer(l, {o})
  <2>1. Known(l, o)
    BY <1>2, LiveIsKnown
  <2>2. l \in [Names -> Selves]
    BY DEF SelvesInv, Sane
  <2>3. Ended(l, o) = k
    BY <1>2, <2>2 DEF Ended, Fewer
  <2>4. /\ SelvesInv(k)
        /\ \A x \in Names : LivePair(k, x) <=> LivePair(l, x) /\ x \notin {o}
        /\ SameButLive(k, l)
    BY <1>2, <2>1, FewerInv
  <2> HIDE DEF k
  <2>5. Met(k)
    BY <2>4 DEF Met, SameButLive, SelvesInv, Sane
  <2> QED
    BY <2>3, <2>4, <2>5
<1> QED
  BY <1>1, <1>2

(* Once endStaleLocked has run, pairOfLocked finds a self's one pairing.   *)
LEMMA PairOfFinds ==
  ASSUME NEW l, SelvesInv(l), NEW s \in Names
  PROVE  /\ PairOf(l, s) \in Names \cup {NoOne}
         /\ PairOf(l, s) # NoOne => InPair(l, PairOf(l, s), s)
         /\ Met(l) => \A x \in Names : InPair(l, x, s) => PairOf(l, s) = x
<1>1. l[s].guestOf \in Names \cup {NoOne}
  BY DEF SelvesInv, Sane, Selves
<1>2. PairOf(l, s) \in Names \cup {NoOne}
  BY <1>1 DEF PairOf
<1>3. PairOf(l, s) # NoOne => InPair(l, PairOf(l, s), s)
  BY DEF PairOf, InPair
<1>4. ASSUME Met(l), NEW x \in Names, InPair(l, x, s)
      PROVE  PairOf(l, s) = x
  <2>1. CASE x = s
    BY <1>4, <2>1 DEF PairOf, InPair
  <2>2. CASE x # s
    <3>1. l[x].pair.partner = s /\ LivePair(l, x)
      BY <1>4, <2>2 DEF InPair
    <3>2. ~LivePair(l, s)
      BY <1>4, <2>2 DEF SelvesInv, One, InPair
    <3>3. l[s].guestOf = x
      BY <1>4, <3>1 DEF Met
    <3>4. x # NoOne
      BY TableAssumption
    <3> QED
      BY <3>1, <3>2, <3>3, <3>4 DEF PairOf
  <2> QED
    BY <2>1, <2>2
<1> QED
  BY <1>2, <1>3, <1>4

LEMMA UnpairedInv ==
  ASSUME NEW l, SelvesInv(l), NEW s \in Names, Known(l, s)
  PROVE  /\ SelvesInv(Unpaired(l, s))
         /\ \A o \in Names : /\ Unpaired(l, s)[o].edges = l[o].edges
                             /\ Unpaired(l, s)[o].tally = l[o].tally
         /\ \A o \in Names :
              LivePair(StaleEnded(l), o) /\ ~InPair(l, o, s) => Stands(Unpaired(l, s), l, o)
<1> DEFINE k == StaleEnded(l)
           e == Ended(k, PairOf(k, s))
<1>1. SelvesInv(k) /\ Met(k) /\ SameButLive(k, l)
  BY StaleInv
<1>2. Unpaired(l, s) = [e EXCEPT ![s].waiting = FALSE]
  BY DEF Unpaired
<1> HIDE DEF k
<1>3. /\ PairOf(k, s) \in Names \cup {NoOne}
      /\ PairOf(k, s) # NoOne => LivePair(k, PairOf(k, s)) /\ InPair(k, PairOf(k, s), s)
  BY <1>1, PairOfFinds DEF InPair
<1>4. /\ SelvesInv(e) /\ Met(e) /\ SameButLive(e, k)
      /\ \A o \in Names : LivePair(e, o) <=> LivePair(k, o) /\ o # PairOf(k, s)
  BY <1>1, <1>3, EndedInv
<1>5. Known(e, s)
  BY <1>1, <1>4 DEF SameButLive, Known
<1> HIDE DEF e
<1>6. SelvesInv(Unpaired(l, s)) /\ SameButFlags(Unpaired(l, s), e)
  BY <1>2, <1>4, <1>5, FlagInv
<1>7. ASSUME NEW o \in Names, LivePair(k, o), ~InPair(l, o, s)
      PROVE  Stands(Unpaired(l, s), l, o)
  <2>1. l[o].pair.live = TRUE \/ LivePair(l, o)
    BY <1>7, StaleInv DEF k
  <2>2. ~InPair(k, o, s)
    BY <1>1, <1>7, <2>1 DEF InPair, SameButLive, LivePair
  <2>3. o # PairOf(k, s)
    BY <1>3, <2>2, TableAssumption
  <2>4. LivePair(e, o)
    BY <1>4, <1>7, <2>3
  <2> QED
    BY <1>1, <1>4, <1>6, <2>4 DEF SameButLive, SameButFlags, Stands, LivePair
<1> QED
  BY <1>1, <1>4, <1>6, <1>7 DEF SameButLive, SameButFlags, k
LEMMA StartedInv ==
  ASSUME NEW l, SelvesInv(l), Met(l), NEW o \in Names, NEW g \in Names, o # g,
         Known(l, o), Known(l, g), l[o].pair.id < MaxPairs
  PROVE  /\ SelvesInv(Started(l, o, g))
         /\ \A x \in Names : /\ Started(l, o, g)[x].edges = l[x].edges
                             /\ Started(l, o, g)[x].tally = l[x].tally
         /\ \A x \in Names :
              LivePair(l, x) /\ ~InPair(l, x, o) /\ ~InPair(l, x, g)
                => Stands(Started(l, o, g), l, x)
<1> DEFINE one   == Ended(l, PairOf(l, o))
           apart == Ended(one, PairOf(one, g))
           pair  == [NoPair EXCEPT !.id = l[o].pair.id + 1, !.partner = g, !.live = TRUE]
           own   == [apart[o] EXCEPT !.waiting = FALSE, !.pair = pair]
           sat   == [apart[g] EXCEPT !.waiting = FALSE, !.guestOf = o]
           k     == Started(l, o, g)
<1>1. /\ SelvesInv(one) /\ Met(one) /\ SameButLive(one, l)
      /\ \A x \in Names : LivePair(one, x) <=> LivePair(l, x) /\ x # PairOf(l, o)
  BY PairOfFinds, EndedInv DEF InPair
<1>2. \A x \in Names : ~InPair(one, x, o)
  BY ZenonT(60), <1>1, PairOfFinds DEF InPair, SameButLive
<1> HIDE DEF one
<1>3. /\ SelvesInv(apart) /\ Met(apart) /\ SameButLive(apart, one)
      /\ \A x \in Names : LivePair(apart, x) <=> LivePair(one, x) /\ x # PairOf(one, g)
  BY <1>1, PairOfFinds, EndedInv DEF InPair
<1>4. \A x \in Names : ~InPair(apart, x, o) /\ ~InPair(apart, x, g)
  <2>1. \A x \in Names : InPair(one, x, g) => x = PairOf(one, g)
    BY <1>1, PairOfFinds
  <2>2. \A x \in Names, s \in Names :
          InPair(apart, x, s) => InPair(one, x, s) /\ x # PairOf(one, g)
    BY <1>3 DEF InPair, SameButLive
  <2> QED
    BY <1>2, <2>1, <2>2
<1>5. k = [apart EXCEPT ![o] = own, ![g] = sat]
  BY DEF Started, one
<1>5b. ASSUME NEW x \in Names, LivePair(l, x), ~InPair(l, x, o), ~InPair(l, x, g)
       PROVE  /\ LivePair(apart, x) /\ apart[x].pair.partner = l[x].pair.partner
              /\ x # o /\ x # g
  <2>1. x # PairOf(l, o) /\ x # o /\ x # g
    BY <1>5b, PairOfFinds, TableAssumption DEF InPair
  <2>2. LivePair(one, x)
    BY <1>1, <1>5b, <2>1
  <2>3. one[x].pair.partner = l[x].pair.partner
    BY <1>1 DEF SameButLive
  <2>4. ~InPair(one, x, g)
    BY <1>5b, <2>2, <2>3 DEF InPair
  <2>5. x # PairOf(one, g)
    BY <1>1, <2>4, PairOfFinds, TableAssumption
  <2>6. LivePair(apart, x)
    BY <1>3, <2>2, <2>5
  <2>7. apart[x].pair.partner = one[x].pair.partner
    BY <1>3 DEF SameButLive
  <2> QED
    BY <2>1, <2>3, <2>6, <2>7
<1>6. SameButLive(apart, l)
  BY ZenonT(60), <1>1, <1>3 DEF SameButLive
<1> HIDE DEF apart
<1>7. apart \in [Names -> Selves] /\ apart[o] \in Selves /\ apart[g] \in Selves
  BY <1>3 DEF SelvesInv, Sane
<1>8. l[o].pair.id + 1 \in 0 .. MaxPairs
  BY LobbyAssumption DEF SelvesInv, Sane, Selves, Pairs
<1>9. pair \in Pairs
  <2>1. NoPair \in Pairs
    BY UnknownType
  <2> QED
    BY <1>8, <2>1, Zenon DEF Pairs
<1>10. pair.live = TRUE /\ pair.partner = g
  BY DEF NoPair
<1> HIDE DEF pair
<1>11. own \in Selves /\ sat \in Selves
  BY <1>7, <1>9, Zenon DEF Selves
<1>12. /\ own.pair = pair /\ own.guestOf = apart[o].guestOf /\ own.age = apart[o].age
       /\ own.edges = apart[o].edges /\ own.tally = apart[o].tally
  BY <1>7 DEF Selves
<1>13. /\ sat.pair = apart[g].pair /\ sat.guestOf = o /\ sat.age = apart[g].age
       /\ sat.edges = apart[g].edges /\ sat.tally = apart[g].tally
  BY <1>7 DEF Selves
<1> HIDE DEF own, sat
<1>14. /\ k[o] = own /\ k[g] = sat
       /\ \A x \in Names \ {o, g} : k[x] = apart[x]
       /\ k \in [Names -> Selves]
  BY <1>5, <1>7, <1>11
<1> HIDE DEF k
<1>15. \A x \in Names : /\ k[x].age = apart[x].age /\ k[x].edges = apart[x].edges
                        /\ k[x].tally = apart[x].tally
  BY <1>12, <1>13, <1>14
<1>16. \A x \in Names : LivePair(k, x) =>
         \/ x = o /\ k[x].pair.partner = g
         \/ /\ x \notin {o, g} /\ LivePair(apart, x)
            /\ k[x].pair.partner = apart[x].pair.partner
            /\ k[x].pair.partner \notin {o, g}
  BY <1>4, <1>10, <1>12, <1>13, <1>14 DEF LivePair, InPair
<1>17. \A x \in Names : LivePair(k, x) => k[x].pair.partner \in Names \ {x}
  BY <1>3, <1>16 DEF SelvesInv, Sane
<1>18. Sane(k)
  BY <1>3, <1>6, <1>14, <1>15, <1>17 DEF Sane, SelvesInv, Known, SameButLive
<1>19. One(k)
  <2> SUFFICES ASSUME NEW x \in Names, NEW y \in Names, NEW s \in Names,
                      InPair(k, x, s), InPair(k, y, s)
               PROVE  x = y
    BY DEF One
  <2>1. CASE x = o \/ y = o
    BY <1>16, <2>1 DEF InPair
  <2>2. CASE x # o /\ y # o
    <3>1. InPair(apart, x, s) /\ InPair(apart, y, s)
      BY <1>16, <2>2 DEF InPair
    <3> QED
      BY <1>3, <3>1 DEF SelvesInv, One
  <2> QED
    BY <2>1, <2>2
<1>20. Guests(k)
  <2> SUFFICES ASSUME NEW x \in Names, LivePair(k, x)
               PROVE  k[k[x].pair.partner].guestOf = x
    BY DEF Guests
  <2>1. CASE x = o
    BY <1>13, <1>14, <1>16, <2>1
  <2>2. CASE x # o
    BY <1>3, <1>14, <1>16, <1>17, <2>2 DEF Met
  <2> QED
    BY <2>1, <2>2
<1>21. ASSUME NEW x \in Names, LivePair(l, x), ~InPair(l, x, o), ~InPair(l, x, g)
       PROVE  Stands(k, l, x)
  BY <1>5b, <1>14, <1>21 DEF Stands, LivePair
<1> QED
  BY <1>6, <1>15, <1>18, <1>19, <1>20, <1>21 DEF SelvesInv, SameButLive, k
LEMMA PushedInv ==
  ASSUME NEW l, SelvesInv(l), NEW o \in Names, LivePair(l, o), NEW s \in Names
  PROVE  /\ SelvesInv(Pushed(l, o, s))
         /\ \A x \in Names : /\ Pushed(l, o, s)[x].edges = l[x].edges
                             /\ Pushed(l, o, s)[x].tally = l[x].tally
                             /\ LivePair(l, x) => Stands(Pushed(l, o, s), l, x)
<1> DEFINE r == Append(l[o].pair.record, s)
           a == [l[o].pair EXCEPT !.record = r]
           b == [l[o].pair EXCEPT !.record = Tail(r), !.base = l[o].pair.base + 1]
           k == Pushed(l, o, s)
<1>1. l \in [Names -> Selves] /\ l[o] \in Selves /\ l[o].pair \in Pairs
  BY DEF SelvesInv, Sane, Selves
<1>2. l[o].pair.record \in Seq(Names) /\ l[o].pair.base \in Nat
  BY <1>1 DEF Pairs
<1>3. r \in Seq(Names) /\ Tail(r) \in Seq(Names) /\ l[o].pair.base + 1 \in Nat
  BY <1>2
<1> HIDE DEF r
<1>4. a \in Pairs /\ b \in Pairs
  BY <1>1, <1>3, Zenon DEF Pairs
<1>5. /\ a.live = l[o].pair.live /\ a.partner = l[o].pair.partner
      /\ b.live = l[o].pair.live /\ b.partner = l[o].pair.partner
  BY <1>1 DEF Pairs
<1>6. k = [l EXCEPT ![o].pair = a] \/ k = [l EXCEPT ![o].pair = b]
  <2>1. CASE Len(r) > Relay
    <3>1. k = [l EXCEPT ![o].pair.record = Tail(r), ![o].pair.base = @ + 1]
      BY <2>1 DEF Pushed, r
    <3>2. k = [l EXCEPT ![o].pair = b]
      BY <1>1, <3>1, Zenon DEF Selves, Pairs
    <3> QED
      BY <3>2
  <2>2. CASE ~(Len(r) > Relay)
    <3>1. k = [l EXCEPT ![o].pair.record = r]
      BY <2>2 DEF Pushed, r
    <3>2. k = [l EXCEPT ![o].pair = a]
      BY <1>1, <3>1
    <3> QED
      BY <3>2
  <2> QED
    BY <2>1, <2>2
<1> HIDE DEF a, b, k
<1>7. PICK q \in {a, b} : k = [l EXCEPT ![o].pair = q]
  BY <1>6
<1>8. k = [l EXCEPT ![o] = [l[o] EXCEPT !.pair = q]]
  BY <1>7
<1>9. q \in Pairs /\ q.live = l[o].pair.live /\ q.partner = l[o].pair.partner
  BY <1>4, <1>5
<1>10. [l[o] EXCEPT !.pair = q] \in Selves
  BY <1>1, <1>9, Zenon DEF Selves
<1>11. k \in [Names -> Selves]
  BY <1>1, <1>8, <1>10
<1>12. \A x \in Names : /\ x # o => k[x] = l[x]
                        /\ k[x].pair.live = l[x].pair.live
                        /\ k[x].pair.partner = l[x].pair.partner
                        /\ k[x].guestOf = l[x].guestOf /\ k[x].hosting = l[x].hosting
                        /\ k[x].age = l[x].age /\ k[x].edges = l[x].edges
                        /\ k[x].tally = l[x].tally
  BY <1>1, <1>8, <1>9 DEF Selves
<1>13. Known(l, o)
  BY LiveIsKnown
<1>14. SelvesInv(k)
  BY <1>11, <1>12, <1>13, AloneInv DEF Known, SelvesInv, Sane
<1> QED
  BY <1>12, <1>14 DEF k, Stands, LivePair

LEMMA VisitedInv ==
  ASSUME SelvesInv(selves), NEW s \in Names, NEW m \in Matches
  PROVE  /\ SelvesInv(Kept) /\ SelvesInv(Visited(s, m))
         /\ \A r \in Names : /\ Visited(s, m)[r].edges \subseteq Kept[r].edges \cup {m}
                             /\ Visited(s, m)[r].tally = Kept[r].tally
                             /\ Visited(s, m)[r].pair = Kept[r].pair
<1> DEFINE h == Heard(Kept, s)
           k == Visited(s, m)
           q == [h[s] EXCEPT !.edges = h[s].edges \cup {m}]
<1>1. SelvesInv(Kept)
  BY WipedInv DEF Kept
<1>2. SelvesInv(h) /\ Known(h, s)
  BY <1>1, HeardInv
<1>3. h \in [Names -> Selves] /\ h[s] \in Selves
  BY <1>2 DEF SelvesInv, Sane
<1>4. \A r \in Names : /\ h[r].edges = Kept[r].edges /\ h[r].tally = Kept[r].tally
                       /\ h[r].pair = Kept[r].pair
  BY <1>1 DEF Heard, SelvesInv, Sane, Selves
<1>5. k = [h EXCEPT ![s] = q]
  BY DEF Visited
<1> HIDE DEF h
<1>6. h[s].edges \cup {m} \in SUBSET Matches
  BY <1>3 DEF Selves
<1>7. q \in Selves
  BY <1>3, <1>6, Zenon DEF Selves
<1>8. /\ q.pair = h[s].pair /\ q.guestOf = h[s].guestOf /\ q.age = h[s].age
      /\ q.hosting = h[s].hosting /\ q.tally = h[s].tally
      /\ q.edges = h[s].edges \cup {m}
  BY <1>3 DEF Selves
<1> HIDE DEF q, k
<1>9. k \in [Names -> Selves]
  BY <1>3, <1>5, <1>7
<1>10. k[s] = q /\ \A r \in Names \ {s} : k[r] = h[r]
  BY <1>3, <1>5
<1>11. SelvesInv(k)
  BY <1>2, <1>8, <1>9, <1>10, AloneInv DEF Known, SelvesInv, Sane
<1>12. \A r \in Names : k[r].edges \subseteq Kept[r].edges \cup {m}
                        /\ k[r].tally = Kept[r].tally /\ k[r].pair = Kept[r].pair
  BY <1>4, <1>8, <1>10
<1> QED
  BY <1>1, <1>11, <1>12 DEF k

LEMMA ResultType ==
  ASSUME NEW l, SelvesInv(l), NEW s \in Names, NEW c \in {"none", "draw", "win", "loss"},
         l[s].tally.won + l[s].tally.lost + l[s].tally.drawn < MaxResults
  PROVE  Result(l, s, c) \in Tally
<1> DEFINE t == l[s].tally
<1>1. t \in Tally
  BY DEF SelvesInv, Sane, Selves
<1>2. t.won \in Nat /\ t.lost \in Nat /\ t.drawn \in Nat
  BY <1>1 DEF Tally
<1>3. /\ t.won + 1 \in 0 .. MaxResults /\ t.lost + 1 \in 0 .. MaxResults
      /\ t.drawn + 1 \in 0 .. MaxResults
  BY <1>2, LobbyAssumption
<1>4. Result(l, s, c) \in {t, [t EXCEPT !.won = t.won + 1], [t EXCEPT !.lost = t.lost + 1],
                           [t EXCEPT !.drawn = t.drawn + 1]}
  BY DEF Result
<1> HIDE DEF t
<1> QED
  BY <1>1, <1>3, <1>4 DEF Tally

LEMMA CreditedInv ==
  ASSUME NEW l, SelvesInv(l), NEW g, NEW h, Counts(g, h) => Room(l)
  PROVE  /\ SelvesInv(Credited(l, g, h))
         /\ \A s \in Names : /\ Credited(l, g, h)[s].edges = l[s].edges
                             /\ Credited(l, g, h)[s].pair = l[s].pair
                             /\ Credited(l, g, h)[s].tally # l[s].tally
                                  => Counts(g, h) /\ Seated(h, s)
<1> DEFINE k == Credited(l, g, h)
<1>1. ASSUME NEW s \in Names
      PROVE  /\ k[s] \in Selves
             /\ k[s] = l[s] \/ k[s].age = "here"
             /\ k[s].pair = l[s].pair /\ k[s].guestOf = l[s].guestOf
             /\ k[s].hosting = l[s].hosting /\ k[s].edges = l[s].edges
             /\ k[s].tally # l[s].tally => Counts(g, h) /\ Seated(h, s)
  <2>1. l[s] \in Selves
    BY DEF SelvesInv, Sane
  <2>2. CASE Counts(g, h) /\ Credit(h, s) # "none"
    <3> DEFINE t == Result(l, s, Credit(h, s))
               q == [l[s] EXCEPT !.age = "here", !.tally = t]
    <3>1. Credit(h, s) \in {"none", "draw", "win", "loss"}
      BY DEF Credit
    <3>2. t \in Tally
      BY <2>2, <3>1, ResultType DEF Room
    <3>3. k[s] = q
      BY <2>2 DEF Credited
    <3>6. Seated(h, s)
      BY <2>2, Zenon DEF Credit
    <3> HIDE DEF t
    <3>4. q \in Selves
      BY <2>1, <3>2, Zenon DEF Selves, Ages
    <3>5. /\ q.age = "here" /\ q.pair = l[s].pair /\ q.guestOf = l[s].guestOf
          /\ q.hosting = l[s].hosting /\ q.edges = l[s].edges
      BY <2>1 DEF Selves
    <3> QED
      BY <2>2, <3>3, <3>4, <3>5, <3>6
  <2>3. CASE ~(Counts(g, h) /\ Credit(h, s) # "none")
    BY <2>1, <2>3 DEF Credited
  <2> QED
    BY <2>2, <2>3
<1>2. k \in [Names -> Selves]
  BY <1>1 DEF Credited
<1> HIDE DEF k
<1>3. SelvesInv(k)
  BY <1>1, <1>2, AloneInv DEF Known, SelvesInv, Sane
<1> QED
  BY <1>1, <1>3 DEF k
----------------------------------------------------------------------------
(* The node: what the reaping leaves, and what a verb of the board does.   *)

LEMMA KeptFacts ==
  ASSUME NodeInv
  PROVE  /\ Open \subseteq games
         /\ \A s \in Names : Kept[s].edges \subseteq Open
         /\ \A m \in Matches : TableInv(Board(m))
         /\ \A m \in Matches \ Open : Board(m) = NewTable
         /\ SelvesInv(Kept)
<1>1. SelvesInv(Kept)
  BY WipedInv DEF Kept, NodeInv
<1>2. \A s \in Names : Kept[s].edges \subseteq games
  BY UnknownFacts DEF NodeInv, Kept, Wiped
<1>3. \A s \in Names : Kept[s].edges \subseteq Open
  BY <1>2 DEF Open, StayOpen, Referenced
<1>4. \A m \in Matches : TableInv(Board(m))
  BY NewTableInv DEF NodeInv, Board
<1> QED
  BY <1>1, <1>3, <1>4 DEF Open, StayOpen, Board

LEMMA AtInv ==
  ASSUME NodeInv, NEW s \in Names, NEW m \in Matches
  PROVE  TableInv(At(s, m))
BY KeptFacts, TouchedInv, ReapedInv DEF At

(* A request that changes the board of m and sends the selves to k.        *)
LEMMA BoardStep ==
  ASSUME NodeInv, NEW m \in Matches, NEW g, TableInv(g),
         games' = Open \cup {m}, table' = With(m, g), SelvesInv(selves'),
         \A s \in Names : selves'[s].edges \subseteq Kept[s].edges \cup {m},
         UNCHANGED <<gone, destroyed, area>>
  PROVE  NodeInv'
<1>1. /\ games' \subseteq Matches /\ gone' \subseteq Names /\ area' \in Areas
      /\ destroyed' \subseteq Matches \cup Names
  BY KeptFacts DEF NodeInv
<1>2. \A n \in Matches : table'[n] = IF n = m THEN g ELSE Board(n)
  BY DEF With
<1>3. \A n \in Matches : TableInv(table'[n])
  BY <1>2, KeptFacts
<1>4. table' \in [Matches -> Tables]
  BY <1>3 DEF With, TableInv
<1>5. \A n \in Matches \ games' : table'[n] = NewTable
  BY <1>2, KeptFacts
<1>6. \A s \in Names : selves'[s].edges \subseteq games'
  BY KeptFacts
<1> QED
  BY <1>1, <1>3, <1>4, <1>5, <1>6 DEF NodeInv

LEMMA DoneStep ==
  ASSUME NodeInv, NEW s \in Names, NEW m \in Matches, NEW g, TableInv(g), Done(s, m, g)
  PROVE  NodeInv'
<1> DEFINE l == Visited(s, m)
<1>1. /\ SelvesInv(l)
      /\ \A r \in Names : l[r].edges \subseteq Kept[r].edges \cup {m}
                          /\ l[r].tally = Kept[r].tally
  BY VisitedInv DEF NodeInv
<1>2. selves' = Credited(l, At(s, m), g)
  BY DEF Done
<1>3. Counts(At(s, m), g) => Room(l)
  BY <1>1 DEF Done, Room
<1> HIDE DEF l
<1>4. SelvesInv(selves') /\ \A r \in Names : selves'[r].edges = l[r].edges
  BY <1>1, <1>2, <1>3, CreditedInv
<1> QED
  BY <1>1, <1>4, BoardStep DEF Done

(* A request that leaves the boards but for the reaping.                   *)
LEMMA SweptStep ==
  ASSUME NodeInv, Swept, SelvesInv(selves'),
         \A s \in Names : selves'[s].edges = Kept[s].edges
  PROVE  NodeInv'
<1>1. /\ games' \subseteq Matches /\ gone' \subseteq Names /\ area' \in Areas
      /\ destroyed' \subseteq Matches \cup Names
  BY KeptFacts DEF NodeInv, Swept
<1>2. \A n \in Matches : table'[n] = Board(n)
  BY DEF Swept
<1>3. \A n \in Matches : TableInv(table'[n])
  BY <1>2, KeptFacts
<1>4. table' \in [Matches -> Tables]
  BY <1>3 DEF Swept, TableInv
<1>5. \A n \in Matches \ games' : table'[n] = NewTable
  BY <1>2, KeptFacts DEF Swept
<1>6. \A s \in Names : selves'[s].edges \subseteq games'
  BY KeptFacts DEF Swept
<1> QED
  BY <1>1, <1>3, <1>4, <1>5, <1>6 DEF NodeInv

(* A verb of the shell.                                                    *)
LEMMA HandStep ==
  ASSUME NodeInv, NEW m \in Matches, NEW g, TableInv(g), ByHand(m, g)
  PROVE  NodeInv'
<1>1. /\ m \in games /\ table' = [table EXCEPT ![m] = g]
      /\ selves' = Credited(selves, table[m], g)
      /\ Counts(table[m], g) => Room(selves)
      /\ games' = games /\ gone' = gone /\ area' = area /\ destroyed' = destroyed
  BY DEF ByHand
<1>2. SelvesInv(selves') /\ \A s \in Names : selves'[s].edges = selves[s].edges
  BY <1>1, CreditedInv DEF NodeInv
<1>3. \A n \in Matches : table'[n] = IF n = m THEN g ELSE table[n]
  BY <1>1 DEF NodeInv
<1>4. /\ table' \in [Matches -> Tables]
      /\ \A n \in Matches : TableInv(table'[n])
      /\ \A n \in Matches \ games' : table'[n] = NewTable
  BY <1>1, <1>3 DEF NodeInv, TableInv
<1>5. \A s \in Names : selves'[s].edges \subseteq games'
  BY <1>1, <1>2 DEF NodeInv
<1> QED
  BY <1>1, <1>2, <1>4, <1>5 DEF NodeInv

(* A Delete, which the node does not see.                                  *)
LEMMA DeletedStep ==
  ASSUME NodeInv, NEW x \in Matches \cup Names, Deleted(x)
  PROVE  NodeInv'
BY DEF NodeInv, Deleted, SelvesInv, Sane, One, Guests, InPair, LivePair, Known

----------------------------------------------------------------------------
(* One step per action.                                                    *)

LEMMA AtTableStep ==
  ASSUME NodeInv, NEW s \in Names, NEW m \in Matches, AtTable(s, m)
  PROVE  NodeInv'
<1>1. TableInv(At(s, m))
  BY AtInv
<1>2. CASE Poll(s, m)
  BY <1>1, <1>2, DoneStep DEF Poll
<1>3. CASE BadMove(s, m)
  BY <1>1, <1>3, ClaimedInv, DoneStep DEF BadMove, MoveRefused
<1>4. CASE Resign(s, m)
  BY <1>1, <1>4, ResignedInv, DoneStep DEF Resign
<1>5. CASE Draw(s, m)
  BY <1>1, <1>5, DrawnInv, DoneStep DEF Draw
<1>6. CASE Decline(s, m)
  BY <1>1, <1>6, DeclinedInv, DoneStep DEF Decline
<1>7. CASE Reset(s, m)
  BY <1>7, NewTableInv, DoneStep DEF Reset
<1>8. CASE LeaveTable(s, m)
  <2>1. TableInv(Reaped(Left(Board(m), s)))
    BY KeptFacts, LeftInv, ReapedInv
  <2>2. SelvesInv(selves') /\ \A r \in Names : selves'[r].edges \subseteq Kept[r].edges \cup {m}
    BY <1>8, VisitedInv DEF LeaveTable, NodeInv
  <2> QED
    BY <1>8, <2>1, <2>2, BoardStep DEF LeaveTable
<1>9. ASSUME NEW at \in Positions, Move(s, m, at)
      PROVE  NodeInv'
  BY <1>1, <1>9, MovedInv, DoneStep DEF Move
<1>10. ASSUME NEW c \in Sides, Sit(s, m, c)
       PROVE  NodeInv'
  BY <1>1, <1>10, SatInv, DoneStep DEF Sit
<1> QED
  BY <1>2, <1>3, <1>4, <1>5, <1>6, <1>7, <1>8, <1>9, <1>10 DEF AtTable

LEMMA AtLobbyStep ==
  ASSUME NodeInv, NEW s \in Names, NEW p \in Pages, AtLobby(s, p)
  PROVE  NodeInv'
<1> DEFINE a == Asking(s, p)
           h == Hosting(a, s)
<1>1. SelvesInv(Kept)
  BY KeptFacts
<1>2. SelvesInv(a) /\ Known(a, s)
  BY <1>1, HeldInv DEF Asking
<1>3. \A r \in Names : a[r].edges = Kept[r].edges
  BY <1>1 DEF Asking, Held, Heard, SelvesInv, Sane, Selves
<1>4. Swept
  BY DEF AtLobby, Host, QuickMatch, Unpair, Relayed, Push, VisitLobby, Asks
<1>5. /\ SelvesInv(h) /\ Met(h)
      /\ \A r \in Names : h[r].edges = a[r].edges /\ h[r].age = a[r].age
  <2> HIDE DEF a
  <2> QED
    BY <1>2, HostingInv DEF SameButPairs
<1>6. Known(h, s)
  BY <1>2, <1>5 DEF Known
<1>7. ASSUME NEW o \in Names, o # s, Online(h, o), Meets(h, o, s)
      PROVE  NodeInv'
  <2>1. Known(h, o)
    BY <1>7 DEF Online, Known
  <2> HIDE DEF h
  <2>2. SelvesInv(selves') /\ \A r \in Names : selves'[r].edges = h[r].edges
    BY <1>5, <1>6, <1>7, <2>1, StartedInv DEF Meets
  <2> QED
    BY <1>3, <1>4, <1>5, <2>2, SweptStep
<1>8. CASE selves' = h
  BY <1>3, <1>4, <1>5, <1>8, SweptStep
<1>9. CASE Host(s, p)
  BY <1>8, <1>9 DEF Host
<1>10. CASE QuickMatch(s, p)
  <2>1. CASE selves' = Waiting(h, s)
    <3> HIDE DEF h
    <3>1. SelvesInv(selves') /\ SameButFlags(selves', h)
      BY ZenonT(60), <1>5, <1>6, <2>1, FlagInv DEF Waiting
    <3> QED
      BY <1>3, <1>4, <1>5, <3>1, SweptStep DEF SameButFlags
  <2> QED
    BY <1>7, <1>8, <1>10, <2>1 DEF QuickMatch, Waiters
<1>11. CASE Unpair(s, p)
  <2>1. selves' = Unpaired(a, s)
    BY <1>11 DEF Unpair
  <2> HIDE DEF a
  <2>2. SelvesInv(selves') /\ \A r \in Names : selves'[r].edges = a[r].edges
    BY <1>2, <2>1, UnpairedInv
  <2> QED
    BY <1>3, <1>4, <2>2, SweptStep
<1>12. CASE Relayed(s, p)
  BY <1>2, <1>3, <1>4, <1>12, SweptStep DEF Relayed
<1>13. CASE Push(s, p)
  <2>1. PairOf(a, s) \in Names /\ LivePair(a, PairOf(a, s))
    BY <1>2, <1>13, PairOfFinds DEF Push, InPair
  <2>2. selves' = Pushed(a, PairOf(a, s), s)
    BY <1>13 DEF Push
  <2> HIDE DEF a
  <2>3. SelvesInv(selves') /\ \A r \in Names : selves'[r].edges = a[r].edges
    BY <1>2, <2>1, <2>2, PushedInv
  <2> QED
    BY <1>3, <1>4, <2>3, SweptStep
<1>14. ASSUME NEW o \in Names, VisitLobby(s, p, o)
       PROVE  NodeInv'
  BY <1>7, <1>8, <1>14 DEF VisitLobby
<1> QED
  BY <1>9, <1>10, <1>11, <1>12, <1>13, <1>14 DEF AtLobby
LEMMA ShellStep ==
  ASSUME NodeInv, NEW m \in Matches, Shell(m)
  PROVE  NodeInv'
<1>1. TableInv(table[m])
  BY DEF NodeInv
<1>2. ASSUME NEW s \in Names \cup {NoOne}, NEW at \in Positions, HandMove(m, s, at)
      PROVE  NodeInv'
  BY <1>1, <1>2, MovedInv, HandStep DEF HandMove
<1>3. ASSUME NEW c \in Sides, NEW at \in Positions, HandLoad(m, c, at)
      PROVE  NodeInv'
  BY <1>1, <1>3, LoadedInv, HandStep DEF HandLoad
<1>4. CASE HandReset(m)
  BY <1>4, NewTableInv, HandStep DEF HandReset
<1>5. ASSUME NEW s \in Names, HandLeave(m, s)
      PROVE  NodeInv'
  BY <1>1, <1>5, LeftInv, ReapedInv, HandStep DEF HandLeave
<1>6. CASE HandDelete(m)
  BY <1>6, DeletedStep DEF HandDelete
<1> QED
  BY <1>2, <1>3, <1>4, <1>5, <1>6 DEF Shell

LEMMA CallStep ==
  ASSUME NodeInv, NEW s \in Names, Join(s) \/ Call(s)
  PROVE  NodeInv'
<1>1. CASE Join(s)
  <2>1. PICK m \in Matches : /\ games' = Open \cup {m} /\ selves' = Visited(s, m)
                             /\ m \in Open \/ m \in Matches \ Open
    BY <1>1, KeptFacts DEF Join, NodeInv
  <2>2. table' = [n \in Matches |-> Board(n)] /\ UNCHANGED <<gone, destroyed, area>>
    BY <1>1 DEF Join
  <2>3. table' = With(m, Board(m))
    BY <2>2 DEF With
  <2>4. SelvesInv(selves') /\ \A r \in Names : selves'[r].edges \subseteq Kept[r].edges \cup {m}
    BY <2>1, VisitedInv DEF NodeInv
  <2>5. TableInv(Board(m))
    BY KeptFacts
  <2> QED
    BY <2>1, <2>2, <2>3, <2>4, <2>5, BoardStep
<1>2. CASE Call(s)
  <2>1. SelvesInv(selves')
    BY <1>2, KeptFacts, HeardInv DEF Call
  <2>2. \A r \in Names : selves'[r].edges = Kept[r].edges
    BY <1>2, KeptFacts DEF Call, Heard, SelvesInv, Sane, Selves
  <2> QED
    BY <1>2, <2>1, <2>2, SweptStep DEF Call
<1> QED
  BY <1>1, <1>2

LEMMA LookStep ==
  ASSUME NodeInv, Look \/ Lobbies
  PROVE  NodeInv'
<1>1. CASE Look
  BY <1>1, KeptFacts, SweptStep DEF Look
<1>2. CASE Lobbies
  <2>1. SelvesInv(selves') /\ SameButLive(selves', Kept)
    BY <1>2, KeptFacts, StaleInv DEF Lobbies
  <2> QED
    BY <1>2, <2>1, SweptStep DEF Lobbies, SameButLive
<1> QED
  BY <1>1, <1>2

LEMMA TimeStep ==
  ASSUME NodeInv, NEW s \in Names, Vanish(s) \/ Time(s)
  PROVE  NodeInv'
<1>1. CASE Vanish(s)
  BY <1>1 DEF Vanish, NodeInv
<1>2. ASSUME NEW a \in {"quiet", "expired"}, Known(selves, s),
             selves' = [selves EXCEPT ![s].age = a], UNCHANGED <<games, table, gone, destroyed, area>>
      PROVE  NodeInv'
  <2>1. SelvesInv(selves) /\ selves \in [Names -> Selves] /\ selves[s] \in Selves
    BY DEF NodeInv, SelvesInv, Sane
  <2> DEFINE q == [selves[s] EXCEPT !.age = a]
             k == [selves EXCEPT ![s] = q]
  <2>2. q \in Selves
    BY <1>2, <2>1, Zenon DEF Selves, Ages
  <2>3. selves' = k
    BY <1>2
  <2>4. /\ q.pair = selves[s].pair /\ q.guestOf = selves[s].guestOf /\ q.age = a
        /\ q.hosting = selves[s].hosting /\ q.edges = selves[s].edges
    BY <2>1 DEF Selves
  <2> HIDE DEF q
  <2>5. k \in [Names -> Selves] /\ k[s] = q /\ \A r \in Names \ {s} : k[r] = selves[r]
    BY <2>1, <2>2
  <2> HIDE DEF k
  <2>6. \A r \in Names : ~Known(k, r) => k[r] = Unknown
    BY <1>2, <2>1, <2>4, <2>5 DEF Known, SelvesInv, Sane
  <2>7. SelvesInv(k) /\ \A r \in Names : k[r].edges = selves[r].edges
    BY <2>1, <2>4, <2>5, <2>6, AloneInv
  <2> QED
    BY <1>2, <2>3, <2>7 DEF NodeInv
<1>3. CASE Quiet(s)
  BY <1>2, <1>3 DEF Quiet, Known
<1>4. CASE Expire(s)
  BY <1>2, <1>4 DEF Expire, Known
<1>5. ASSUME NEW m \in Matches, BeatAges(m, s)
      PROVE  NodeInv'
  <2> DEFINE g == [table[m] EXCEPT !.beat = [table[m].beat EXCEPT ![s] = "old"]]
  <2>1. table' = [table EXCEPT ![m] = g]
    BY <1>5 DEF BeatAges
  <2>2. TableInv(table[m]) /\ table[m] \in Tables
    BY DEF NodeInv, TableInv
  <2>3. g \in Tables /\ g.seat = table[m].seat
    BY <2>2 DEF Tables
  <2>4. TableInv(g)
    BY <2>2, <2>3 DEF TableInv, SeatApart
  <2>5. m \in games
    BY <1>5 DEF BeatAges, NodeInv, NewTable
  <2>6. \A n \in Matches : table'[n] = IF n = m THEN g ELSE table[n]
    BY <2>1 DEF NodeInv
  <2> HIDE DEF g
  <2>7. /\ table' \in [Matches -> Tables]
        /\ \A n \in Matches : TableInv(table'[n])
        /\ \A n \in Matches \ games : table'[n] = NewTable
    BY <2>1, <2>3, <2>4, <2>5, <2>6 DEF NodeInv
  <2> QED
    BY <1>5, <2>7 DEF BeatAges, NodeInv
<1> QED
  BY <1>1, <1>3, <1>4, <1>5 DEF Time

LEMMA InvInit == Init => NodeInv
<1> SUFFICES ASSUME Init
             PROVE  NodeInv
  OBVIOUS
<1>1. \A m \in Matches : table[m] = NewTable
  BY DEF Init
<1>2. table \in [Matches -> Tables] /\ \A m \in Matches : TableInv(table[m])
  BY <1>1, NewTableInv DEF Init, TableInv
<1>3. \A s \in Names : selves[s] = Unknown
  BY DEF Init
<1>4. selves \in [Names -> Selves]
  BY UnknownType DEF Init
<1>5. SelvesInv(selves)
  BY <1>3, <1>4, UnknownFacts DEF SelvesInv, Sane, One, Guests, InPair, LivePair
<1>6. \A s \in Names : selves[s].edges \subseteq games
  BY <1>3, UnknownFacts
<1> QED
  BY <1>1, <1>2, <1>5, <1>6 DEF Init, NodeInv

LEMMA InvNext == NodeInv /\ [Next]_vars => NodeInv'
<1> SUFFICES ASSUME NodeInv, [Next]_vars
             PROVE  NodeInv'
  OBVIOUS
<1>1. ASSUME NEW s \in Names, NEW m \in Matches, AtTable(s, m)
      PROVE  NodeInv'
  BY <1>1, AtTableStep
<1>2. ASSUME NEW s \in Names, NEW p \in Pages, AtLobby(s, p)
      PROVE  NodeInv'
  BY <1>2, AtLobbyStep
<1>3. ASSUME NEW s \in Names, Join(s) \/ Call(s) \/ Vanish(s) \/ Time(s) \/ DeleteSelf(s)
      PROVE  NodeInv'
  BY <1>3, CallStep, TimeStep, DeletedStep DEF DeleteSelf
<1>4. ASSUME NEW m \in Matches, Shell(m)
      PROVE  NodeInv'
  BY <1>4, ShellStep
<1>5. CASE Look \/ Lobbies
  BY <1>5, LookStep
<1>6. CASE UNCHANGED vars
  BY <1>6 DEF vars, NodeInv, SelvesInv, Sane, One, Guests, InPair, LivePair, Known
<1> QED
  BY <1>1, <1>2, <1>3, <1>4, <1>5, <1>6 DEF Next

LEMMA InvAlways == Spec => []NodeInv
BY InvInit, InvNext, PTL DEF Spec

----------------------------------------------------------------------------
(* What a step does to the player records and to the pairings that go on.  *)

Going(l, o) == LivePair(l, o) /\ Online(l, o) /\ Online(l, l[o].pair.partner)

LEMMA KeptGoing ==
  ASSUME NodeInv, NEW o \in Names, Going(selves, o)
  PROVE  /\ selves[o].pair.partner \in Names
         /\ Kept[o] = selves[o]
         /\ Kept[selves[o].pair.partner] = selves[selves[o].pair.partner]
         /\ Going(Kept, o)
<1>1. selves[o].pair.partner \in Names
  BY DEF NodeInv, SelvesInv, Sane, Going
<1>2. Kept[o] = selves[o] /\ Kept[selves[o].pair.partner] = selves[selves[o].pair.partner]
  BY <1>1 DEF Going, Online, Kept, Wiped
<1> QED
  BY <1>1, <1>2 DEF Going, Online, LivePair

LEMMA KeptTally ==
  \A r \in Names : Kept[r].tally \in {selves[r].tally, Unknown.tally}
BY DEF Kept, Wiped

(* A call of the lobby: no record changes, and no pairing but the caller's.*)
LEMMA LobbyLeaves ==
  ASSUME NodeInv, NEW s \in Names, NEW p \in Pages, AtLobby(s, p)
  PROVE  /\ \A r \in Names : selves'[r].tally = Kept[r].tally
         /\ \A x \in Names : Going(Kept, x) /\ ~InPair(Kept, x, s) => Stands(selves', Kept, x)
<1> DEFINE a == Asking(s, p)
           h == Hosting(a, s)
<1>1. SelvesInv(Kept)
  BY KeptFacts
<1>2. SelvesInv(a) /\ Known(a, s)
  BY <1>1, HeldInv DEF Asking
<1>3. \A r \in Names : /\ a[r].tally = Kept[r].tally /\ a[r].pair = Kept[r].pair
                       /\ r # s => a[r] = Kept[r]
  BY <1>1 DEF Asking, Held, Heard, SelvesInv, Sane, Selves
<1>4. ASSUME NEW x \in Names, Going(Kept, x), ~InPair(Kept, x, s)
      PROVE  Going(a, x) /\ ~InPair(a, x, s) /\ Stands(a, Kept, x)
  <2>1. x # s /\ Kept[x].pair.partner # s /\ Kept[x].pair.partner \in Names
    BY <1>1, <1>4 DEF InPair, Going, SelvesInv, Sane
  <2>2. a[x] = Kept[x] /\ a[Kept[x].pair.partner] = Kept[Kept[x].pair.partner]
    BY <1>3, <2>1
  <2> QED
    BY <1>4, <2>1, <2>2 DEF Going, Online, InPair, LivePair, Stands
<1> HIDE DEF a
<1>5. /\ SelvesInv(h) /\ Met(h) /\ SameButPairs(h, a)
      /\ \A o \in Names : LivePair(h, o) <=> Going(a, o)
  BY <1>2, HostingInv DEF Going
<1>6. ASSUME NEW x \in Names, Going(Kept, x), ~InPair(Kept, x, s)
      PROVE  LivePair(h, x) /\ ~InPair(h, x, s) /\ Stands(h, Kept, x)
  BY <1>4, <1>5, <1>6 DEF Stands, InPair, LivePair, SameButPairs, Going
<1>7. Known(h, s)
  BY <1>2, <1>5 DEF Known, SameButPairs
<1> HIDE DEF h
<1>8. ASSUME NEW o \in Names, o # s, Online(h, o), PairOf(h, o) = NoOne, Meets(h, o, s)
      PROVE  /\ \A r \in Names : selves'[r].tally = Kept[r].tally
             /\ \A x \in Names : Going(Kept, x) /\ ~InPair(Kept, x, s) => Stands(selves', Kept, x)
  <2>1. Known(h, o)
    BY <1>8 DEF Online, Known
  <2>2. /\ \A x \in Names : selves'[x].tally = h[x].tally
        /\ \A x \in Names : LivePair(h, x) /\ ~InPair(h, x, o) /\ ~InPair(h, x, s)
                              => Stands(selves', h, x)
    BY <1>5, <1>7, <1>8, <2>1, StartedInv DEF Meets
  <2>3. \A x \in Names : ~InPair(h, x, o)
    BY <1>5, <1>8, PairOfFinds, TableAssumption
  <2> QED
    BY <1>3, <1>5, <1>6, <2>2, <2>3 DEF SameButPairs, Stands
<1>9. CASE selves' = h
  BY <1>3, <1>5, <1>6, <1>9 DEF SameButPairs, Stands
<1>10. CASE Host(s, p)
  BY <1>9, <1>10 DEF Host, h, a
<1>11. CASE QuickMatch(s, p)
  <2>1. \/ selves' = h \/ selves' = Waiting(h, s)
        \/ \E o \in Waiters(h, s) : Meets(h, o, s)
    BY <1>11 DEF QuickMatch, h, a
  <2>2. CASE selves' = Waiting(h, s)
    <3>1. SameButFlags(selves', h)
      BY <1>5, <1>7, <2>2, FlagInv DEF Waiting
    <3> QED
      BY <1>3, <1>5, <1>6, <3>1 DEF SameButFlags, SameButPairs, Stands, LivePair
  <2> QED
    BY <1>8, <1>9, <2>1, <2>2 DEF Waiters
<1>12. CASE Unpair(s, p)
  <2>1. selves' = Unpaired(a, s)
    BY <1>12 DEF Unpair, a
  <2>2. /\ \A r \in Names : selves'[r].tally = a[r].tally
        /\ \A x \in Names :
             LivePair(StaleEnded(a), x) /\ ~InPair(a, x, s) => Stands(selves', a, x)
    BY <1>2, <2>1, UnpairedInv
  <2>3. \A x \in Names : LivePair(StaleEnded(a), x) <=> Going(a, x)
    BY <1>2, StaleInv DEF Going
  <2> QED
    BY <1>3, <1>4, <2>2, <2>3 DEF Stands
<1>13. CASE Relayed(s, p)
  BY <1>3, <1>4, <1>13 DEF Relayed, a
<1>14. CASE Push(s, p)
  <2>1. PairOf(a, s) \in Names /\ LivePair(a, PairOf(a, s))
    BY <1>2, <1>14, PairOfFinds DEF Push, InPair, a
  <2>2. selves' = Pushed(a, PairOf(a, s), s)
    BY <1>14 DEF Push, a
  <2>3. \A x \in Names : /\ selves'[x].tally = a[x].tally
                         /\ LivePair(a, x) => Stands(selves', a, x)
    BY <1>2, <2>1, <2>2, PushedInv
  <2> QED
    BY <1>3, <1>4, <2>3 DEF Stands, Going
<1>15. ASSUME NEW o \in Names, VisitLobby(s, p, o)
       PROVE  /\ \A r \in Names : selves'[r].tally = Kept[r].tally
              /\ \A x \in Names : Going(Kept, x) /\ ~InPair(Kept, x, s) => Stands(selves', Kept, x)
  <2>1. selves' = h \/ (o # s /\ Online(h, o) /\ PairOf(h, o) = NoOne /\ Meets(h, o, s))
    BY <1>15 DEF VisitLobby, h, a
  <2> QED
    BY <1>8, <1>9, <2>1
<1> QED
  BY <1>10, <1>11, <1>12, <1>13, <1>14, <1>15 DEF AtLobby

(* A verb at a board: the record of who sits at it, when the game begins   *)
(* to count, and no pairing.                                               *)
LEMMA TableLeaves ==
  ASSUME NodeInv, NEW s \in Names, NEW m \in Matches, AtTable(s, m)
  PROVE  /\ \A r \in Names : selves'[r].pair = Kept[r].pair
         /\ \A r \in Names : selves'[r].tally # Kept[r].tally =>
              table'[m].recorded /\ ~Board(m).recorded /\ Seated(table'[m], r)
<1>1. ASSUME NEW g, Done(s, m, g)
      PROVE  /\ \A r \in Names : selves'[r].pair = Kept[r].pair
             /\ \A r \in Names : selves'[r].tally # Kept[r].tally =>
                  table'[m].recorded /\ ~Board(m).recorded /\ Seated(table'[m], r)
  <2> DEFINE l == Visited(s, m)
  <2>1. /\ SelvesInv(l)
        /\ \A r \in Names : l[r].tally = Kept[r].tally /\ l[r].pair = Kept[r].pair
    BY VisitedInv DEF NodeInv
  <2>2. selves' = Credited(l, At(s, m), g) /\ (Counts(At(s, m), g) => Room(l))
    BY <1>1, <2>1 DEF Done, Room
  <2> HIDE DEF l
  <2>3. \A r \in Names : /\ selves'[r].pair = l[r].pair
                         /\ selves'[r].tally # l[r].tally => Counts(At(s, m), g) /\ Seated(g, r)
    BY <2>1, <2>2, CreditedInv
  <2>4. table'[m] = g
    BY <1>1 DEF Done, With
  <2>5. At(s, m).recorded = Board(m).recorded
    <3>1. Board(m) \in Tables
      BY KeptFacts DEF TableInv
    <3> DEFINE b == Touched(Board(m), s)
    <3>2. b.recorded = Board(m).recorded /\ s \in Live(b) /\ b \in Tables
      BY <3>1 DEF Touched, Tables, Live
    <3> HIDE DEF b
    <3>3. Reaped(b).recorded = b.recorded
      BY <3>2 DEF Reaped, Tables
    <3> QED
      BY <3>2, <3>3 DEF At, b
  <2> QED
    BY <2>1, <2>3, <2>4, <2>5 DEF Counts
<1>2. CASE LeaveTable(s, m)
  BY <1>2, VisitedInv DEF LeaveTable, NodeInv
<1> QED
  BY <1>1, <1>2 DEF AtTable, Poll, Move, BadMove, Sit, Resign, Draw, Decline, Reset

LEMMA HandLeaves ==
  ASSUME NodeInv, NEW m \in Matches, Shell(m)
  PROVE  /\ \A r \in Names : selves'[r].pair = selves[r].pair
         /\ \A r \in Names : selves'[r].tally # selves[r].tally =>
              table'[m].recorded /\ ~Board(m).recorded /\ Seated(table'[m], r)
<1>1. ASSUME NEW g, ByHand(m, g)
      PROVE  /\ \A r \in Names : selves'[r].pair = selves[r].pair
             /\ \A r \in Names : selves'[r].tally # selves[r].tally =>
                  table'[m].recorded /\ ~Board(m).recorded /\ Seated(table'[m], r)
  <2>1. SelvesInv(selves) /\ table \in [Matches -> Tables]
    BY DEF NodeInv
  <2>2. \A r \in Names : /\ selves'[r].pair = selves[r].pair
                         /\ selves'[r].tally # selves[r].tally =>
                              Counts(table[m], g) /\ Seated(g, r)
    BY <1>1, <2>1, CreditedInv DEF ByHand
  <2>3. table'[m] = g
    BY <1>1, <2>1 DEF ByHand
  <2>4. Board(m).recorded => table[m].recorded
    BY DEF Board, NewTable
  <2> QED
    BY <2>2, <2>3, <2>4 DEF Counts
<1>2. CASE HandDelete(m)
  BY <1>2 DEF HandDelete, Deleted
<1> QED
  BY <1>1, <1>2 DEF Shell, HandMove, HandLoad, HandReset, HandLeave

LEMMA RestLeaves ==
  ASSUME NodeInv,
         \/ \E s \in Names : Join(s) \/ Call(s) \/ Vanish(s) \/ Time(s) \/ DeleteSelf(s)
         \/ Look \/ Lobbies
  PROVE  /\ \A r \in Names : selves'[r].tally \in {selves[r].tally, Kept[r].tally}
         /\ \A x \in Names : Going(selves, x) => Stands(selves', selves, x)
<1>1. SelvesInv(Kept) /\ SelvesInv(selves)
  BY KeptFacts DEF NodeInv
<1>2. ASSUME \A r \in Names : selves'[r].tally = Kept[r].tally /\ selves'[r].pair = Kept[r].pair
      PROVE  /\ \A r \in Names : selves'[r].tally \in {selves[r].tally, Kept[r].tally}
             /\ \A x \in Names : Going(selves, x) => Stands(selves', selves, x)
  BY <1>2, KeptGoing DEF Stands, LivePair, Going
<1>3. ASSUME NEW s \in Names, Join(s)
      PROVE  \A r \in Names : selves'[r].tally = Kept[r].tally /\ selves'[r].pair = Kept[r].pair
  <2>1. PICK m \in Matches : selves' = Visited(s, m)
    BY <1>3, KeptFacts DEF Join, NodeInv
  <2> QED
    BY <1>1, <2>1, VisitedInv
<1>4. ASSUME NEW s \in Names, Call(s)
      PROVE  \A r \in Names : selves'[r].tally = Kept[r].tally /\ selves'[r].pair = Kept[r].pair
  BY <1>1, <1>4 DEF Call, Heard, SelvesInv, Sane, Selves
<1>5. ASSUME NEW s \in Names, Vanish(s) \/ Time(s) \/ DeleteSelf(s)
      PROVE  \A r \in Names : selves'[r].tally = selves[r].tally /\ selves'[r].pair = selves[r].pair
  BY <1>1, <1>5 DEF Vanish, Time, DeleteSelf, Deleted, Quiet, Expire, BeatAges, SelvesInv, Sane, Selves
<1>6. CASE Lobbies
  <2>1. selves' = StaleEnded(Kept)
    BY <1>6 DEF Lobbies
  <2>2. /\ SameButLive(selves', Kept)
        /\ \A x \in Names : LivePair(selves', x) <=> Going(Kept, x)
    BY <1>1, <2>1, StaleInv DEF Going
  <2> QED
    BY <2>2, KeptGoing DEF SameButLive, Stands
<1> QED
  BY <1>2, <1>3, <1>4, <1>5, <1>6 DEF Look, Stands, Going, LivePair

----------------------------------------------------------------------------
(* Every variable of the node keeps its type, whatever the selves, pages   *)
(* and boards: an unknown self stays a new one, a closed board too.        *)
THEOREM ChessTypeCorrect == Spec => []TypeOK
<1>1. NodeInv => TypeOK
  BY DEF NodeInv, TypeOK, SelvesInv, Sane
<1> QED
  BY <1>1, InvAlways, PTL

(* No sequence of sits, moves, refused moves, loads at the shell, leaves   *)
(* and reapings puts one token in both seats of a board.                   *)
THEOREM SeatsStayApart == Spec => []SeatsApart
<1>1. NodeInv => SeatsApart
  BY DEF NodeInv, SeatsApart, TableInv, SeatApart
<1> QED
  BY <1>1, InvAlways, PTL

(* No self keeps a pointer to a board the node has closed (reapLocked):    *)
(* where an edge leads to no board, the shell destroyed it.                *)
THEOREM EdgesStayHeld == Spec => []EdgesHold
<1>1. NodeInv => EdgesHold
  BY DEF NodeInv, EdgesHold, Boards
<1> QED
  BY <1>1, InvAlways, PTL

(* No self is ever in two pairings that go on, through expiries, names     *)
(* taken over and matches made in any order (startPairLocked).             *)
THEOREM OneTableEach == Spec => []OneTable
<1>1. NodeInv => OneTable
  BY DEF NodeInv, SelvesInv, One, OneTable
<1> QED
  BY <1>1, InvAlways, PTL

(* A result enters a player's record only with a game that begins to       *)
(* count, for who sits at it: resigning, drawing, mating and loading a     *)
(* position again at the shell never count one game twice.                 *)
THEOREM CountOnce == Spec => ResultsCountOnce
<1> DEFINE Step == \A s \in Names :
       selves'[s].tally \notin {selves[s].tally, Unknown.tally}
         => \E m \in Matches : /\ table'[m].recorded
                               /\ ~Board(m).recorded
                               /\ Seated(table'[m], s)
<1>1. ASSUME NodeInv, Next
      PROVE  Step
  <2> SUFFICES ASSUME NEW s \in Names, selves'[s].tally \notin {selves[s].tally, Unknown.tally}
               PROVE  \E m \in Matches : /\ table'[m].recorded
                                         /\ ~Board(m).recorded
                                         /\ Seated(table'[m], s)
    OBVIOUS
  <2>1. selves'[s].tally # Kept[s].tally
    BY KeptTally
  <2>2. ASSUME NEW t \in Names, NEW m \in Matches, AtTable(t, m)
        PROVE  \E n \in Matches : table'[n].recorded /\ ~Board(n).recorded /\ Seated(table'[n], s)
    BY <1>1, <2>1, <2>2, TableLeaves
  <2>3. ASSUME NEW m \in Matches, Shell(m)
        PROVE  \E n \in Matches : table'[n].recorded /\ ~Board(n).recorded /\ Seated(table'[n], s)
    BY <1>1, <2>3, HandLeaves
  <2>4. ~(\E t \in Names, p \in Pages : AtLobby(t, p))
    BY <1>1, <2>1, LobbyLeaves
  <2>5. ~(\/ \E t \in Names : Join(t) \/ Call(t) \/ Vanish(t) \/ Time(t) \/ DeleteSelf(t)
          \/ Look \/ Lobbies)
    BY <1>1, <2>1, RestLeaves
  <2> QED
    BY <1>1, <2>2, <2>3, <2>4, <2>5 DEF Next
<1>2. NodeInv /\ [Next]_vars => [Step]_vars
  BY <1>1
<1> QED
  BY <1>2, InvAlways, PTL DEF Spec, ResultsCountOnce

(* No third self's call, no request at a board and no verb of the shell    *)
(* ends the pairing of two who are online.                                 *)
THEOREM EndsByItsOwn == Spec => PairEndsByItsOwn
<1> DEFINE Step == \A o \in Names :
       LET g == selves[o].pair.partner
       IN /\ LivePair(selves, o) /\ Online(selves, o) /\ Online(selves, g)
          /\ ~(LivePair(selves', o) /\ selves'[o].pair.partner = g)
          => \/ \E p \in Pages, s \in {o, g} : AtLobby(s, p)
<1>1. ASSUME NodeInv, Next
      PROVE  Step
  <2> SUFFICES ASSUME NEW o \in Names, Going(selves, o), ~Stands(selves', selves, o)
               PROVE  \E p \in Pages, s \in {o, selves[o].pair.partner} : AtLobby(s, p)
    BY DEF Going, Stands
  <2>1. /\ Kept[o] = selves[o] /\ Going(Kept, o)
        /\ selves[o].pair.partner \in Names
    BY <1>1, KeptGoing
  <2>2. ASSUME NEW t \in Names, NEW p \in Pages, AtLobby(t, p)
        PROVE  t \in {o, selves[o].pair.partner}
    BY <1>1, <2>1, <2>2, LobbyLeaves DEF Stands, InPair
  <2>3. ~(\E t \in Names, m \in Matches : AtTable(t, m))
    BY <1>1, <2>1, TableLeaves DEF Stands, Going, LivePair
  <2>4. ~(\E m \in Matches : Shell(m))
    BY <1>1, <2>1, HandLeaves DEF Stands, Going, LivePair
  <2>5. ~(\/ \E t \in Names : Join(t) \/ Call(t) \/ Vanish(t) \/ Time(t) \/ DeleteSelf(t)
          \/ Look \/ Lobbies)
    BY <1>1, RestLeaves
  <2> QED
    BY <1>1, <2>2, <2>3, <2>4, <2>5 DEF Next
<1>2. NodeInv /\ [Next]_vars => [Step]_vars
  BY <1>1
<1> QED
  BY <1>2, InvAlways, PTL DEF Spec, PairEndsByItsOwn
================================================================================

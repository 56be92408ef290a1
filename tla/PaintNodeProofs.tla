---------------------------- MODULE PaintNodeProofs ----------------------------
(***************************************************************************)
(* Proofs about PaintNode, for every set of pages, names and boxes and     *)
(* every bound.  NodeInv is inductive: the types, part by part; that every *)
(* token is of one member and one page (Minted, RosterApart, PagesApart);  *)
(* and what rests on that: one owner, writers among the granted, a hand    *)
(* where its claim is, the first part of a push alone between the two.     *)
(***************************************************************************)
EXTENDS PaintNode, TLAPS

(* The types, one group of variables at a time.                            *)
CountsOK  == minted \in Tokens /\ parted \in 0 .. MaxParts
SharesOK  == page \in [Pages -> Shares]
RosterOK  == roster \in [Names -> Members] /\ host \in Names \cup {NoName}
ClaimsOK  == claims \in [Boxes -> [who : Names \cup {NoName}, idle : BOOLEAN]]
             /\ hand \in [Boxes -> Tokens]
GrantsOK  == granted \in SUBSET Tokens
LinesOK   == lines \in Seq(Lines)

LEMMA Zero == 0 \in Tokens /\ 0 \in 0 .. MaxParts
BY NodeAssumption DEF NodeAssumption, Tokens

(* The members the actions put into a roster are members.                  *)
LEMMA MemberForms ==
  /\ Nobody \in Members
  /\ \A t \in Tokens, r \in Roles : [Nobody EXCEPT !.token = t, !.role = r] \in Members
  /\ \A m \in Members, r \in Roles : [m EXCEPT !.role = r] \in Members
  /\ \A m \in Members, s \in Seq(1 .. MaxParts) : [m EXCEPT !.pending = s] \in Members
<1>1. \A t \in Tokens, r \in Roles : [Nobody EXCEPT !.token = t, !.role = r] \in Members
  <2>1. <<>> \in Seq(1 .. MaxParts)
    OBVIOUS
  <2>q. QED
    BY <2>1 DEF Members, Nobody, Roles
<1>2. Nobody \in Members
  <2>1. <<>> \in Seq(1 .. MaxParts)
    OBVIOUS
  <2>q. QED
    BY <2>1, Zero DEF Members, Nobody, Roles
<1>3. /\ \A m \in Members, r \in Roles : [m EXCEPT !.role = r] \in Members
      /\ \A m \in Members, s \in Seq(1 .. MaxParts) : [m EXCEPT !.pending = s] \in Members
  BY DEF Members
<1>q. QED
  BY <1>1, <1>2, <1>3

-----------------------------------------------------------------------------
(* A step keeps the types.                                                 *)

LEMMA CountsStep == CountsOK /\ [Next]_vars => CountsOK'
<1> SUFFICES ASSUME CountsOK, [Next]_vars PROVE CountsOK'
  OBVIOUS
<1> USE NodeAssumption DEF NodeAssumption
<1>1. ASSUME NEW n \in Names, Open(n) PROVE CountsOK'
  BY <1>1 DEF Open, CountsOK, Tokens
<1>2. ASSUME NEW n \in Names, Reap(n) PROVE CountsOK'
  BY <1>2 DEF Reap, HandWithout, CountsOK, Tokens
<1>3. ASSUME NEW b \in Boxes, GoIdle(b) PROVE CountsOK'
  BY <1>3 DEF GoIdle, CountsOK, Tokens
<1>4. ASSUME NEW p \in Pages, ToldItEnded(p) PROVE CountsOK'
  BY <1>4 DEF ToldItEnded, Leaves, CountsOK, Tokens
<1>5. ASSUME NEW p \in Pages, Leave(p) PROVE CountsOK'
  BY <1>5 DEF Leave, Leaves, CountsOK, Tokens
<1>6. ASSUME NEW p \in Pages, RenameAnswered(p) PROVE CountsOK'
  BY <1>6 DEF RenameAnswered, CountsOK, Tokens
<1>7. ASSUME NEW p \in Pages, Close(p) PROVE CountsOK'
  BY <1>7 DEF Close, Leaves, IsOwner, IsMember, CountsOK, Tokens
<1>8. ASSUME NEW p \in Pages, FirstPart(p) PROVE CountsOK'
  BY <1>8 DEF FirstPart, PartTaken, IsMember, Collected, Goes, CountsOK, Tokens
<1>9. ASSUME NEW p \in Pages, LastPart(p) PROVE CountsOK'
  BY <1>9 DEF LastPart, PartTaken, IsMember, Collected, Goes, PushLocked, Line,
     CountsOK, Tokens
<1>10. ASSUME NEW p \in Pages, PartFails(p) PROVE CountsOK'
  BY <1>10 DEF PartFails, Goes, CountsOK, Tokens
<1>11. ASSUME NEW p \in Pages, NEW n \in Names, JoinAgain(p, n) PROVE CountsOK'
  BY <1>11 DEF JoinAgain, Joined, CountsOK, Tokens
<1>12. ASSUME NEW p \in Pages, NEW n \in Names, Rename(p, n) PROVE CountsOK'
  BY <1>12 DEF Rename, IsMember, Moved, ClaimsMoved, CountsOK, Tokens
<1>13. ASSUME NEW p \in Pages, NEW n \in Names, PutOut(p, n) PROVE CountsOK'
  BY <1>13 DEF PutOut, IsOwner, IsMember, HandWithout, CountsOK, Tokens
<1>14. ASSUME NEW p \in Pages, NEW asked \in Names, NEW n \in Names, Join(p, asked, n) PROVE CountsOK'
  BY <1>14 DEF Join, JoinAs, Joined, CountsOK, Tokens
<1>15. ASSUME NEW p \in Pages, NEW n \in Names, NEW want \in {"reader", "writer"}, SetRole(p, n, want) PROVE CountsOK'
  BY <1>15 DEF SetRole, IsOwner, IsMember, CountsOK, Tokens
<1>16. ASSUME NEW p \in Pages, NEW b \in Boxes, Claim(p, b) PROVE CountsOK'
  BY <1>16 DEF Claim, IsMember, CountsOK, Tokens
<1>17. ASSUME NEW p \in Pages, NEW b \in Boxes, Release(p, b) PROVE CountsOK'
  BY <1>17 DEF Release, IsMember, CountsOK, Tokens
<1>18. ASSUME NEW p \in Pages, NEW b \in Boxes \cup {NoBox}, Push(p, b) PROVE CountsOK'
  BY <1>18 DEF Push, IsMember, PushLocked, Line, CountsOK, Tokens
<1>19. CASE UNCHANGED vars
  BY <1>19 DEF vars, CountsOK, Tokens
<1>q. QED
  BY <1>1, <1>2, <1>3, <1>4, <1>5, <1>6, <1>7, <1>8, <1>9, <1>10, <1>11, <1>12,
     <1>13, <1>14, <1>15, <1>16, <1>17, <1>18, <1>19 DEF Next, PageActs

LEMMA SharesStep == SharesOK /\ CountsOK /\ CountsOK' /\ [Next]_vars => SharesOK'
<1> SUFFICES ASSUME SharesOK, CountsOK, CountsOK', [Next]_vars PROVE SharesOK'
  OBVIOUS
<1> USE Zero
<1>1. ASSUME NEW n \in Names, Open(n) PROVE SharesOK'
  BY <1>1 DEF Open, SharesOK, CountsOK, Shares, Away
<1>2. ASSUME NEW n \in Names, Reap(n) PROVE SharesOK'
  BY <1>2 DEF Reap, HandWithout, SharesOK, CountsOK, Shares, Away
<1>3. ASSUME NEW b \in Boxes, GoIdle(b) PROVE SharesOK'
  BY <1>3 DEF GoIdle, SharesOK, CountsOK, Shares, Away
<1>4. ASSUME NEW p \in Pages, ToldItEnded(p) PROVE SharesOK'
  BY <1>4 DEF ToldItEnded, Leaves, SharesOK, CountsOK, Shares, Away
<1>5. ASSUME NEW p \in Pages, Leave(p) PROVE SharesOK'
  BY <1>5 DEF Leave, Leaves, SharesOK, CountsOK, Shares, Away
<1>6. ASSUME NEW p \in Pages, RenameAnswered(p) PROVE SharesOK'
  BY <1>6 DEF RenameAnswered, SharesOK, CountsOK, Shares, Away
<1>7. ASSUME NEW p \in Pages, Close(p) PROVE SharesOK'
  BY <1>7 DEF Close, Leaves, IsOwner, IsMember, SharesOK, CountsOK, Shares, Away
<1>8. ASSUME NEW p \in Pages, FirstPart(p) PROVE SharesOK'
  BY <1>8 DEF FirstPart, PartTaken, IsMember, Collected, Goes, SharesOK,
     CountsOK, Shares, Away
<1>9. ASSUME NEW p \in Pages, LastPart(p) PROVE SharesOK'
  BY <1>9 DEF LastPart, PartTaken, IsMember, Collected, Goes, PushLocked, Line,
     SharesOK, CountsOK, Shares, Away
<1>10. ASSUME NEW p \in Pages, PartFails(p) PROVE SharesOK'
  BY <1>10 DEF PartFails, Goes, SharesOK, CountsOK, Shares, Away
<1>11. ASSUME NEW p \in Pages, NEW n \in Names, JoinAgain(p, n) PROVE SharesOK'
  BY <1>11 DEF JoinAgain, Joined, SharesOK, CountsOK, Shares, Away
<1>12. ASSUME NEW p \in Pages, NEW n \in Names, Rename(p, n) PROVE SharesOK'
  BY <1>12 DEF Rename, IsMember, Moved, ClaimsMoved, SharesOK, CountsOK, Shares,
     Away
<1>13. ASSUME NEW p \in Pages, NEW n \in Names, PutOut(p, n) PROVE SharesOK'
  BY <1>13 DEF PutOut, IsOwner, IsMember, HandWithout, SharesOK, CountsOK,
     Shares, Away
<1>14. ASSUME NEW p \in Pages, NEW asked \in Names, NEW n \in Names, Join(p, asked, n) PROVE SharesOK'
  BY <1>14 DEF Join, JoinAs, Joined, SharesOK, CountsOK, Shares, Away
<1>15. ASSUME NEW p \in Pages, NEW n \in Names, NEW want \in {"reader", "writer"}, SetRole(p, n, want) PROVE SharesOK'
  BY <1>15 DEF SetRole, IsOwner, IsMember, SharesOK, CountsOK, Shares, Away
<1>16. ASSUME NEW p \in Pages, NEW b \in Boxes, Claim(p, b) PROVE SharesOK'
  BY <1>16 DEF Claim, IsMember, SharesOK, CountsOK, Shares, Away
<1>17. ASSUME NEW p \in Pages, NEW b \in Boxes, Release(p, b) PROVE SharesOK'
  BY <1>17 DEF Release, IsMember, SharesOK, CountsOK, Shares, Away
<1>18. ASSUME NEW p \in Pages, NEW b \in Boxes \cup {NoBox}, Push(p, b) PROVE SharesOK'
  BY <1>18 DEF Push, IsMember, PushLocked, Line, SharesOK, CountsOK, Shares,
     Away
<1>19. CASE UNCHANGED vars
  BY <1>19 DEF vars, SharesOK, CountsOK, Shares, Away
<1>q. QED
  BY <1>1, <1>2, <1>3, <1>4, <1>5, <1>6, <1>7, <1>8, <1>9, <1>10, <1>11, <1>12,
     <1>13, <1>14, <1>15, <1>16, <1>17, <1>18, <1>19 DEF Next, PageActs

LEMMA GrantsStep == GrantsOK /\ RosterOK /\ CountsOK' /\ [Next]_vars => GrantsOK'
<1> SUFFICES ASSUME GrantsOK, RosterOK, CountsOK', [Next]_vars PROVE GrantsOK'
  OBVIOUS
<1> USE Zero
<1>1. ASSUME NEW n \in Names, Open(n) PROVE GrantsOK'
  BY <1>1 DEF Open, GrantsOK, RosterOK, Members, CountsOK
<1>2. ASSUME NEW n \in Names, Reap(n) PROVE GrantsOK'
  BY <1>2 DEF Reap, HandWithout, GrantsOK, RosterOK, Members, CountsOK
<1>3. ASSUME NEW b \in Boxes, GoIdle(b) PROVE GrantsOK'
  BY <1>3 DEF GoIdle, GrantsOK, RosterOK, Members, CountsOK
<1>4. ASSUME NEW p \in Pages, ToldItEnded(p) PROVE GrantsOK'
  BY <1>4 DEF ToldItEnded, Leaves, GrantsOK, RosterOK, Members, CountsOK
<1>5. ASSUME NEW p \in Pages, Leave(p) PROVE GrantsOK'
  BY <1>5 DEF Leave, Leaves, GrantsOK, RosterOK, Members, CountsOK
<1>6. ASSUME NEW p \in Pages, RenameAnswered(p) PROVE GrantsOK'
  BY <1>6 DEF RenameAnswered, GrantsOK, RosterOK, Members, CountsOK
<1>7. ASSUME NEW p \in Pages, Close(p) PROVE GrantsOK'
  BY <1>7 DEF Close, Leaves, IsOwner, IsMember, GrantsOK, RosterOK, Members,
     CountsOK
<1>8. ASSUME NEW p \in Pages, FirstPart(p) PROVE GrantsOK'
  BY <1>8 DEF FirstPart, PartTaken, IsMember, Collected, Goes, GrantsOK,
     RosterOK, Members, CountsOK
<1>9. ASSUME NEW p \in Pages, LastPart(p) PROVE GrantsOK'
  BY <1>9 DEF LastPart, PartTaken, IsMember, Collected, Goes, PushLocked, Line,
     GrantsOK, RosterOK, Members, CountsOK
<1>10. ASSUME NEW p \in Pages, PartFails(p) PROVE GrantsOK'
  BY <1>10 DEF PartFails, Goes, GrantsOK, RosterOK, Members, CountsOK
<1>11. ASSUME NEW p \in Pages, NEW n \in Names, JoinAgain(p, n) PROVE GrantsOK'
  BY <1>11 DEF JoinAgain, Joined, GrantsOK, RosterOK, Members, CountsOK
<1>12. ASSUME NEW p \in Pages, NEW n \in Names, Rename(p, n) PROVE GrantsOK'
  BY <1>12 DEF Rename, IsMember, Moved, ClaimsMoved, GrantsOK, RosterOK,
     Members, CountsOK
<1>13. ASSUME NEW p \in Pages, NEW n \in Names, PutOut(p, n) PROVE GrantsOK'
  BY <1>13 DEF PutOut, IsOwner, IsMember, HandWithout, GrantsOK, RosterOK,
     Members, CountsOK
<1>14. ASSUME NEW p \in Pages, NEW asked \in Names, NEW n \in Names, Join(p, asked, n) PROVE GrantsOK'
  BY <1>14 DEF Join, JoinAs, Joined, GrantsOK, RosterOK, Members, CountsOK
<1>15. ASSUME NEW p \in Pages, NEW n \in Names, NEW want \in {"reader", "writer"}, SetRole(p, n, want) PROVE GrantsOK'
  BY <1>15 DEF SetRole, IsOwner, IsMember, GrantsOK, RosterOK, Members, CountsOK
<1>16. ASSUME NEW p \in Pages, NEW b \in Boxes, Claim(p, b) PROVE GrantsOK'
  BY <1>16 DEF Claim, IsMember, GrantsOK, RosterOK, Members, CountsOK
<1>17. ASSUME NEW p \in Pages, NEW b \in Boxes, Release(p, b) PROVE GrantsOK'
  BY <1>17 DEF Release, IsMember, GrantsOK, RosterOK, Members, CountsOK
<1>18. ASSUME NEW p \in Pages, NEW b \in Boxes \cup {NoBox}, Push(p, b) PROVE GrantsOK'
  BY <1>18 DEF Push, IsMember, PushLocked, Line, GrantsOK, RosterOK, Members,
     CountsOK
<1>19. CASE UNCHANGED vars
  BY <1>19 DEF vars, GrantsOK, RosterOK, Members, CountsOK
<1>q. QED
  BY <1>1, <1>2, <1>3, <1>4, <1>5, <1>6, <1>7, <1>8, <1>9, <1>10, <1>11, <1>12,
     <1>13, <1>14, <1>15, <1>16, <1>17, <1>18, <1>19 DEF Next, PageActs

LEMMA RosterStep == RosterOK /\ SharesOK /\ CountsOK /\ CountsOK' /\ [Next]_vars => RosterOK'
<1> SUFFICES ASSUME RosterOK, SharesOK, CountsOK, CountsOK', [Next]_vars PROVE RosterOK'
  OBVIOUS
<1> USE Zero
<1>1. ASSUME NEW n \in Names, Open(n) PROVE RosterOK'
  BY <1>1, MemberForms DEF Open, CountsOK, RosterOK, Roles
<1>2. ASSUME NEW n \in Names, Reap(n) PROVE RosterOK'
  BY <1>2, MemberForms DEF Reap, RosterOK
<1>3. ASSUME NEW b \in Boxes, GoIdle(b) PROVE RosterOK'
  BY <1>3 DEF GoIdle, RosterOK, SharesOK, Shares
<1>4. ASSUME NEW p \in Pages, ToldItEnded(p) PROVE RosterOK'
  BY <1>4 DEF ToldItEnded, Leaves, RosterOK, SharesOK, Shares
<1>5. ASSUME NEW p \in Pages, Leave(p) PROVE RosterOK'
  BY <1>5 DEF Leave, Leaves, RosterOK, SharesOK, Shares
<1>6. ASSUME NEW p \in Pages, RenameAnswered(p) PROVE RosterOK'
  BY <1>6 DEF RenameAnswered, RosterOK, SharesOK, Shares
<1>7. ASSUME NEW p \in Pages, Close(p) PROVE RosterOK'
  BY <1>7, MemberForms DEF Close, RosterOK
<1>8. ASSUME NEW p \in Pages, FirstPart(p) PROVE RosterOK'
  <2>1. roster' = [roster EXCEPT ![page[p].name].pending = <<parted'>>] /\ host' = host
    BY <1>8 DEF FirstPart, Collected
  <2>2. page[p].name \in Names
    BY <1>8 DEF FirstPart, PartTaken, IsMember
  <2>3. roster' = [roster EXCEPT ![page[p].name] = [roster[page[p].name] EXCEPT !.pending = <<parted'>>]]
    BY <2>1, <2>2 DEF RosterOK
  <2>4. parted' \in 1 .. MaxParts
    BY <1>8, NodeAssumption DEF FirstPart, CountsOK, NodeAssumption
  <2>5. <<parted'>> \in Seq(1 .. MaxParts)
    BY <2>4
  <2>6. roster[page[p].name] \in Members
    BY <2>2 DEF RosterOK
  <2>7. [roster[page[p].name] EXCEPT !.pending = <<parted'>>] \in Members
    BY <2>5, <2>6, MemberForms
  <2>q. QED
    BY <2>1, <2>2, <2>3, <2>7 DEF RosterOK
<1>9. ASSUME NEW p \in Pages, LastPart(p) PROVE RosterOK'
  <2>1. roster' = [roster EXCEPT ![page[p].name].pending = <<>>] /\ host' = host
    BY <1>9 DEF LastPart
  <2>2. page[p].name \in Names
    BY <1>9 DEF LastPart, PartTaken, IsMember
  <2>3. roster' = [roster EXCEPT ![page[p].name] = [roster[page[p].name] EXCEPT !.pending = <<>>]]
    BY <2>1, <2>2 DEF RosterOK
  <2>4. <<>> \in Seq(1 .. MaxParts) /\ roster[page[p].name] \in Members
    BY <2>2 DEF RosterOK
  <2>5. [roster[page[p].name] EXCEPT !.pending = <<>>] \in Members
    BY <2>4, MemberForms
  <2>q. QED
    BY <2>1, <2>2, <2>3, <2>5 DEF RosterOK
<1>10. ASSUME NEW p \in Pages, PartFails(p) PROVE RosterOK'
  BY <1>10 DEF PartFails, Goes, RosterOK, SharesOK, Shares
<1>11. ASSUME NEW p \in Pages, NEW n \in Names, JoinAgain(p, n) PROVE RosterOK'
  BY <1>11 DEF JoinAgain, Joined, RosterOK, SharesOK, Shares
<1>12. ASSUME NEW p \in Pages, NEW n \in Names, Rename(p, n) PROVE RosterOK'
  BY <1>12, MemberForms DEF Rename, IsMember, Moved, RosterOK
<1>13. ASSUME NEW p \in Pages, NEW n \in Names, PutOut(p, n) PROVE RosterOK'
  BY <1>13, MemberForms DEF PutOut, RosterOK
<1>14. ASSUME NEW p \in Pages, NEW asked \in Names, NEW n \in Names, Join(p, asked, n) PROVE RosterOK'
  BY <1>14, MemberForms DEF Join, JoinAs, CountsOK, RosterOK, Roles
<1>15. ASSUME NEW p \in Pages, NEW n \in Names, NEW want \in {"reader", "writer"}, SetRole(p, n, want) PROVE RosterOK'
  BY <1>15, MemberForms DEF SetRole, RosterOK, Roles
<1>16. ASSUME NEW p \in Pages, NEW b \in Boxes, Claim(p, b) PROVE RosterOK'
  BY <1>16 DEF Claim, IsMember, RosterOK, SharesOK, Shares
<1>17. ASSUME NEW p \in Pages, NEW b \in Boxes, Release(p, b) PROVE RosterOK'
  BY <1>17 DEF Release, IsMember, RosterOK, SharesOK, Shares
<1>18. ASSUME NEW p \in Pages, NEW b \in Boxes \cup {NoBox}, Push(p, b) PROVE RosterOK'
  BY <1>18 DEF Push, IsMember, PushLocked, Line, RosterOK, SharesOK, Shares
<1>19. CASE UNCHANGED vars
  BY <1>19 DEF vars, RosterOK, SharesOK, Shares
<1>q. QED
  BY <1>1, <1>2, <1>3, <1>4, <1>5, <1>6, <1>7, <1>8, <1>9, <1>10, <1>11, <1>12,
     <1>13, <1>14, <1>15, <1>16, <1>17, <1>18, <1>19 DEF Next, PageActs

LEMMA ClaimsStep == ClaimsOK /\ SharesOK /\ [Next]_vars => ClaimsOK'
<1> SUFFICES ASSUME ClaimsOK, SharesOK, [Next]_vars PROVE ClaimsOK'
  OBVIOUS
<1> USE Zero
<1>1. ASSUME NEW n \in Names, Open(n) PROVE ClaimsOK'
  BY <1>1 DEF Open, ClaimsOK, SharesOK, Shares, NoClaim
<1>2. ASSUME NEW n \in Names, Reap(n) PROVE ClaimsOK'
  BY <1>2 DEF Reap, HandWithout, ClaimsOK, SharesOK, Shares, NoClaim
<1>3. ASSUME NEW b \in Boxes, GoIdle(b) PROVE ClaimsOK'
  BY <1>3 DEF GoIdle, ClaimsOK, SharesOK, Shares, NoClaim
<1>4. ASSUME NEW p \in Pages, ToldItEnded(p) PROVE ClaimsOK'
  BY <1>4 DEF ToldItEnded, Leaves, ClaimsOK, SharesOK, Shares, NoClaim
<1>5. ASSUME NEW p \in Pages, Leave(p) PROVE ClaimsOK'
  BY <1>5 DEF Leave, Leaves, ClaimsOK, SharesOK, Shares, NoClaim
<1>6. ASSUME NEW p \in Pages, RenameAnswered(p) PROVE ClaimsOK'
  BY <1>6 DEF RenameAnswered, ClaimsOK, SharesOK, Shares, NoClaim
<1>7. ASSUME NEW p \in Pages, Close(p) PROVE ClaimsOK'
  <2>1. NoClaim \in [who : Names \cup {NoName}, idle : BOOLEAN]
    BY DEF NoClaim
  <2>2. CASE IsOwner(p)
    BY <1>7, <2>1, <2>2 DEF Close, ClaimsOK
  <2>3. CASE ~IsOwner(p)
    BY <1>7, <2>3 DEF Close, ClaimsOK
  <2>q. QED
    BY <2>2, <2>3
<1>8. ASSUME NEW p \in Pages, FirstPart(p) PROVE ClaimsOK'
  BY <1>8 DEF FirstPart, PartTaken, IsMember, Collected, Goes, ClaimsOK,
     SharesOK, Shares, NoClaim
<1>9. ASSUME NEW p \in Pages, LastPart(p) PROVE ClaimsOK'
  BY <1>9 DEF LastPart, PartTaken, IsMember, Collected, Goes, PushLocked, Line,
     ClaimsOK, SharesOK, Shares, NoClaim
<1>10. ASSUME NEW p \in Pages, PartFails(p) PROVE ClaimsOK'
  BY <1>10 DEF PartFails, Goes, ClaimsOK, SharesOK, Shares, NoClaim
<1>11. ASSUME NEW p \in Pages, NEW n \in Names, JoinAgain(p, n) PROVE ClaimsOK'
  BY <1>11 DEF JoinAgain, Joined, ClaimsOK, SharesOK, Shares, NoClaim
<1>12. ASSUME NEW p \in Pages, NEW n \in Names, Rename(p, n) PROVE ClaimsOK'
  BY <1>12 DEF Rename, IsMember, Moved, ClaimsMoved, ClaimsOK, SharesOK, Shares,
     NoClaim
<1>13. ASSUME NEW p \in Pages, NEW n \in Names, PutOut(p, n) PROVE ClaimsOK'
  BY <1>13 DEF PutOut, IsOwner, IsMember, HandWithout, ClaimsOK, SharesOK,
     Shares, NoClaim
<1>14. ASSUME NEW p \in Pages, NEW asked \in Names, NEW n \in Names, Join(p, asked, n) PROVE ClaimsOK'
  BY <1>14 DEF Join, JoinAs, Joined, ClaimsOK, SharesOK, Shares, NoClaim
<1>15. ASSUME NEW p \in Pages, NEW n \in Names, NEW want \in {"reader", "writer"}, SetRole(p, n, want) PROVE ClaimsOK'
  BY <1>15 DEF SetRole, IsOwner, IsMember, ClaimsOK, SharesOK, Shares, NoClaim
<1>16. ASSUME NEW p \in Pages, NEW b \in Boxes, Claim(p, b) PROVE ClaimsOK'
  BY <1>16 DEF Claim, IsMember, ClaimsOK, SharesOK, Shares, NoClaim
<1>17. ASSUME NEW p \in Pages, NEW b \in Boxes, Release(p, b) PROVE ClaimsOK'
  BY <1>17 DEF Release, IsMember, ClaimsOK, SharesOK, Shares, NoClaim
<1>18. ASSUME NEW p \in Pages, NEW b \in Boxes \cup {NoBox}, Push(p, b) PROVE ClaimsOK'
  BY <1>18 DEF Push, IsMember, PushLocked, Line, ClaimsOK, SharesOK, Shares,
     NoClaim
<1>19. CASE UNCHANGED vars
  BY <1>19 DEF vars, ClaimsOK, SharesOK, Shares, NoClaim
<1>q. QED
  BY <1>1, <1>2, <1>3, <1>4, <1>5, <1>6, <1>7, <1>8, <1>9, <1>10, <1>11, <1>12,
     <1>13, <1>14, <1>15, <1>16, <1>17, <1>18, <1>19 DEF Next, PageActs

LEMMA LinesStep == LinesOK /\ SharesOK /\ [Next]_vars => LinesOK'
<1> SUFFICES ASSUME LinesOK, SharesOK, [Next]_vars PROVE LinesOK'
  OBVIOUS
<1> USE Zero
<1>1. ASSUME NEW n \in Names, Open(n) PROVE LinesOK'
  BY <1>1 DEF Open, LinesOK
<1>2. ASSUME NEW n \in Names, Reap(n) PROVE LinesOK'
  BY <1>2 DEF Reap, HandWithout, LinesOK
<1>3. ASSUME NEW b \in Boxes, GoIdle(b) PROVE LinesOK'
  BY <1>3 DEF GoIdle, LinesOK
<1>4. ASSUME NEW p \in Pages, ToldItEnded(p) PROVE LinesOK'
  BY <1>4 DEF ToldItEnded, Leaves, LinesOK
<1>5. ASSUME NEW p \in Pages, Leave(p) PROVE LinesOK'
  BY <1>5 DEF Leave, Leaves, LinesOK
<1>6. ASSUME NEW p \in Pages, RenameAnswered(p) PROVE LinesOK'
  BY <1>6 DEF RenameAnswered, LinesOK
<1>7. ASSUME NEW p \in Pages, Close(p) PROVE LinesOK'
  <2>1. <<>> \in Seq(Lines)
    OBVIOUS
  <2>q. QED
    BY <1>7, <2>1 DEF Close, LinesOK
<1>8. ASSUME NEW p \in Pages, FirstPart(p) PROVE LinesOK'
  BY <1>8 DEF FirstPart, PartTaken, IsMember, Collected, Goes, LinesOK
<1>9. ASSUME NEW p \in Pages, LastPart(p) PROVE LinesOK'
  <2>1. page[p].name \in Names /\ page[p].token \in Tokens
    BY <1>9 DEF LastPart, PartTaken, IsMember, SharesOK, Shares
  <2>2. PICK b2 \in Boxes \cup {NoBox}, w \in BOOLEAN : lines' = Append(lines, Line(p, b2, w))
    BY <1>9 DEF LastPart, PushLocked
  <2>3. Line(p, b2, w) \in Lines
    BY <2>1 DEF Line, Lines
  <2>q. QED
    BY <2>2, <2>3 DEF LinesOK
<1>10. ASSUME NEW p \in Pages, PartFails(p) PROVE LinesOK'
  BY <1>10 DEF PartFails, Goes, LinesOK
<1>11. ASSUME NEW p \in Pages, NEW n \in Names, JoinAgain(p, n) PROVE LinesOK'
  BY <1>11 DEF JoinAgain, Joined, LinesOK
<1>12. ASSUME NEW p \in Pages, NEW n \in Names, Rename(p, n) PROVE LinesOK'
  BY <1>12 DEF Rename, IsMember, Moved, ClaimsMoved, LinesOK
<1>13. ASSUME NEW p \in Pages, NEW n \in Names, PutOut(p, n) PROVE LinesOK'
  BY <1>13 DEF PutOut, IsOwner, IsMember, HandWithout, LinesOK
<1>14. ASSUME NEW p \in Pages, NEW asked \in Names, NEW n \in Names, Join(p, asked, n) PROVE LinesOK'
  BY <1>14 DEF Join, JoinAs, Joined, LinesOK
<1>15. ASSUME NEW p \in Pages, NEW n \in Names, NEW want \in {"reader", "writer"}, SetRole(p, n, want) PROVE LinesOK'
  BY <1>15 DEF SetRole, IsOwner, IsMember, LinesOK
<1>16. ASSUME NEW p \in Pages, NEW b \in Boxes, Claim(p, b) PROVE LinesOK'
  BY <1>16 DEF Claim, IsMember, LinesOK
<1>17. ASSUME NEW p \in Pages, NEW b \in Boxes, Release(p, b) PROVE LinesOK'
  BY <1>17 DEF Release, IsMember, LinesOK
<1>18. ASSUME NEW p \in Pages, NEW b \in Boxes \cup {NoBox}, Push(p, b) PROVE LinesOK'
  <2>1. page[p].name \in Names /\ page[p].token \in Tokens
    BY <1>18 DEF Push, PartTaken, IsMember, SharesOK, Shares
  <2>2. PICK b2 \in Boxes \cup {NoBox}, w \in BOOLEAN : lines' = Append(lines, Line(p, b2, w))
    BY <1>18 DEF Push, PushLocked
  <2>3. Line(p, b2, w) \in Lines
    BY <2>1 DEF Line, Lines
  <2>q. QED
    BY <2>2, <2>3 DEF LinesOK
<1>19. CASE UNCHANGED vars
  BY <1>19 DEF vars, LinesOK
<1>q. QED
  BY <1>1, <1>2, <1>3, <1>4, <1>5, <1>6, <1>7, <1>8, <1>9, <1>10, <1>11, <1>12,
     <1>13, <1>14, <1>15, <1>16, <1>17, <1>18, <1>19 DEF Next, PageActs

-----------------------------------------------------------------------------
(* Who has a token has a role, and only they.                              *)
RolesOK == \A n \in Names : Present(n) <=> roster[n].role # "none"

(* No token is in two hands: those of the roster are of the ones minted,   *)
(* and a page holds one that no other page holds or has kept.              *)
Minted ==
  /\ \A n \in Names : roster[n].token <= minted
  /\ \A p \in Pages : page[p].token <= minted /\ page[p].kept <= minted
RosterApart ==
  \A m, n \in Names : Present(n) /\ roster[m].token = roster[n].token => m = n
PagesApart ==
  /\ page[Host].kept = 0
  /\ \A p \in Pages \ {Host} : page[p].token # 0 => page[p].kept = page[p].token
  /\ \A p, q \in Pages : p # q =>
       /\ page[p].token # 0 => page[q].token # page[p].token /\ page[q].kept # page[p].token
       /\ page[p].kept # 0 => page[q].kept # page[p].kept

(* Who may write was let.                                                  *)
Writers == \A n \in Names : CanWrite(n) => roster[n].token \in granted

(* The hand on a box is of the member its claim names, who is there.       *)
Hands ==
  \A b \in Boxes : hand[b] # 0 =>
    /\ claims[b].who \in Names /\ ~claims[b].idle
    /\ roster[claims[b].who].token = hand[b]

(* Between the parts of a push the node holds the first and nothing else.  *)
Sends ==
  \A p \in Pages : page[p].sending # 0 =>
    /\ page[p].token # 0
    /\ \A n \in Names : roster[n].token = page[p].token => roster[n].pending = <<page[p].sending>>

LEMMA RolesStep == RolesOK /\ RosterOK /\ SharesOK /\ CountsOK /\ [Next]_vars => RolesOK'
<1> SUFFICES ASSUME RolesOK, RosterOK, SharesOK, CountsOK, [Next]_vars PROVE RolesOK'
  OBVIOUS
<1> USE NodeAssumption DEF NodeAssumption, Tokens
<1>1. ASSUME NEW n \in Names, Open(n) PROVE RolesOK'
  BY <1>1 DEF Open, RolesOK, RosterOK, SharesOK, CountsOK, Members, Shares,
     Nobody, Present
<1>2. ASSUME NEW n \in Names, Reap(n) PROVE RolesOK'
  BY <1>2 DEF Reap, HandWithout, RolesOK, RosterOK, SharesOK, CountsOK, Members,
     Shares, Nobody, Present
<1>3. ASSUME NEW b \in Boxes, GoIdle(b) PROVE RolesOK'
  BY <1>3 DEF GoIdle, RolesOK, RosterOK, SharesOK, CountsOK, Members, Shares,
     Nobody, Present
<1>4. ASSUME NEW p \in Pages, ToldItEnded(p) PROVE RolesOK'
  BY <1>4 DEF ToldItEnded, Leaves, RolesOK, RosterOK, SharesOK, CountsOK,
     Members, Shares, Nobody, Present
<1>5. ASSUME NEW p \in Pages, Leave(p) PROVE RolesOK'
  BY <1>5 DEF Leave, Leaves, RolesOK, RosterOK, SharesOK, CountsOK, Members,
     Shares, Nobody, Present
<1>6. ASSUME NEW p \in Pages, RenameAnswered(p) PROVE RolesOK'
  BY <1>6 DEF RenameAnswered, RolesOK, RosterOK, SharesOK, CountsOK, Members,
     Shares, Nobody, Present
<1>7. ASSUME NEW p \in Pages, Close(p) PROVE RolesOK'
  BY <1>7 DEF Close, Leaves, IsOwner, IsMember, RolesOK, RosterOK, SharesOK,
     CountsOK, Members, Shares, Nobody, Present
<1>8. ASSUME NEW p \in Pages, FirstPart(p) PROVE RolesOK'
  BY <1>8 DEF FirstPart, PartTaken, IsMember, Collected, Goes, RolesOK,
     RosterOK, SharesOK, CountsOK, Members, Shares, Nobody, Present
<1>9. ASSUME NEW p \in Pages, LastPart(p) PROVE RolesOK'
  BY <1>9 DEF LastPart, PartTaken, IsMember, Collected, Goes, PushLocked, Line,
     RolesOK, RosterOK, SharesOK, CountsOK, Members, Shares, Nobody, Present
<1>10. ASSUME NEW p \in Pages, PartFails(p) PROVE RolesOK'
  BY <1>10 DEF PartFails, Goes, RolesOK, RosterOK, SharesOK, CountsOK, Members,
     Shares, Nobody, Present
<1>11. ASSUME NEW p \in Pages, NEW n \in Names, JoinAgain(p, n) PROVE RolesOK'
  BY <1>11 DEF JoinAgain, Joined, RolesOK, RosterOK, SharesOK, CountsOK,
     Members, Shares, Nobody, Present
<1>12. ASSUME NEW p \in Pages, NEW n \in Names, Rename(p, n) PROVE RolesOK'
  BY <1>12 DEF Rename, IsMember, Moved, ClaimsMoved, RolesOK, RosterOK,
     SharesOK, CountsOK, Members, Shares, Nobody, Present
<1>13. ASSUME NEW p \in Pages, NEW n \in Names, PutOut(p, n) PROVE RolesOK'
  BY <1>13 DEF PutOut, IsOwner, IsMember, HandWithout, RolesOK, RosterOK,
     SharesOK, CountsOK, Members, Shares, Nobody, Present
<1>14. ASSUME NEW p \in Pages, NEW asked \in Names, NEW n \in Names, Join(p, asked, n) PROVE RolesOK'
  BY <1>14 DEF Join, JoinAs, Joined, RolesOK, RosterOK, SharesOK, CountsOK,
     Members, Shares, Nobody, Present
<1>15. ASSUME NEW p \in Pages, NEW n \in Names, NEW want \in {"reader", "writer"}, SetRole(p, n, want) PROVE RolesOK'
  BY <1>15 DEF SetRole, IsOwner, IsMember, RolesOK, RosterOK, SharesOK,
     CountsOK, Members, Shares, Nobody, Present
<1>16. ASSUME NEW p \in Pages, NEW b \in Boxes, Claim(p, b) PROVE RolesOK'
  BY <1>16 DEF Claim, IsMember, RolesOK, RosterOK, SharesOK, CountsOK, Members,
     Shares, Nobody, Present
<1>17. ASSUME NEW p \in Pages, NEW b \in Boxes, Release(p, b) PROVE RolesOK'
  BY <1>17 DEF Release, IsMember, RolesOK, RosterOK, SharesOK, CountsOK,
     Members, Shares, Nobody, Present
<1>18. ASSUME NEW p \in Pages, NEW b \in Boxes \cup {NoBox}, Push(p, b) PROVE RolesOK'
  BY <1>18 DEF Push, IsMember, PushLocked, Line, RolesOK, RosterOK, SharesOK,
     CountsOK, Members, Shares, Nobody, Present
<1>19. CASE UNCHANGED vars
  BY <1>19 DEF vars, RolesOK, RosterOK, SharesOK, CountsOK, Members, Shares,
     Nobody, Present
<1>q. QED
  BY <1>1, <1>2, <1>3, <1>4, <1>5, <1>6, <1>7, <1>8, <1>9, <1>10, <1>11, <1>12,
     <1>13, <1>14, <1>15, <1>16, <1>17, <1>18, <1>19 DEF Next, PageActs

LEMMA MintedStep == Minted /\ RosterOK /\ SharesOK /\ CountsOK /\ [Next]_vars => Minted'
<1> SUFFICES ASSUME Minted, RosterOK, SharesOK, CountsOK, [Next]_vars PROVE Minted'
  OBVIOUS
<1> USE NodeAssumption DEF NodeAssumption, Tokens
<1>1. ASSUME NEW n \in Names, Open(n) PROVE Minted'
  BY SMTT(30), <1>1 DEF Open, Minted, Away, RosterOK, SharesOK, CountsOK, Members, Shares,
     Nobody, Present
<1>2. ASSUME NEW n \in Names, Reap(n) PROVE Minted'
  BY <1>2 DEF Reap, HandWithout, Minted, Away, RosterOK, SharesOK, CountsOK,
     Members, Shares, Nobody, Present
<1>3. ASSUME NEW b \in Boxes, GoIdle(b) PROVE Minted'
  BY <1>3 DEF GoIdle, Minted, Away, RosterOK, SharesOK, CountsOK, Members,
     Shares, Nobody, Present
<1>4. ASSUME NEW p \in Pages, ToldItEnded(p) PROVE Minted'
  BY <1>4 DEF ToldItEnded, Leaves, Minted, Away, RosterOK, SharesOK, CountsOK,
     Members, Shares, Nobody, Present
<1>5. ASSUME NEW p \in Pages, Leave(p) PROVE Minted'
  BY <1>5 DEF Leave, Leaves, Minted, Away, RosterOK, SharesOK, CountsOK,
     Members, Shares, Nobody, Present
<1>6. ASSUME NEW p \in Pages, RenameAnswered(p) PROVE Minted'
  BY <1>6 DEF RenameAnswered, Minted, Away, RosterOK, SharesOK, CountsOK,
     Members, Shares, Nobody, Present
<1>7. ASSUME NEW p \in Pages, Close(p) PROVE Minted'
  BY <1>7 DEF Close, Leaves, IsOwner, IsMember, Minted, Away, RosterOK,
     SharesOK, CountsOK, Members, Shares, Nobody, Present
<1>8. ASSUME NEW p \in Pages, FirstPart(p) PROVE Minted'
  <2>1. \A q \in Pages : /\ page'[q].token = page[q].token /\ page'[q].kept = page[q].kept
                          /\ page'[q].name = page[q].name
    BY <1>8 DEF FirstPart, Goes, SharesOK, Shares
  <2>2. \A m \in Names : roster'[m].token = roster[m].token
    BY <1>8 DEF FirstPart, RosterOK, Members
  <2>3. minted' = minted
    BY <1>8 DEF FirstPart
  <2>q. QED
    BY <2>1, <2>2, <2>3 DEF Minted
<1>9. ASSUME NEW p \in Pages, LastPart(p) PROVE Minted'
  BY <1>9 DEF LastPart, PartTaken, IsMember, Collected, Goes, PushLocked, Line,
     Minted, Away, RosterOK, SharesOK, CountsOK, Members, Shares, Nobody,
     Present
<1>10. ASSUME NEW p \in Pages, PartFails(p) PROVE Minted'
  BY <1>10 DEF PartFails, Goes, Minted, Away, RosterOK, SharesOK, CountsOK,
     Members, Shares, Nobody, Present
<1>11. ASSUME NEW p \in Pages, NEW n \in Names, JoinAgain(p, n) PROVE Minted'
  BY <1>11 DEF JoinAgain, Joined, Minted, Away, RosterOK, SharesOK, CountsOK,
     Members, Shares, Nobody, Present
<1>12. ASSUME NEW p \in Pages, NEW n \in Names, Rename(p, n) PROVE Minted'
  BY <1>12 DEF Rename, IsMember, Moved, ClaimsMoved, Minted, Away, RosterOK,
     SharesOK, CountsOK, Members, Shares, Nobody, Present
<1>13. ASSUME NEW p \in Pages, NEW n \in Names, PutOut(p, n) PROVE Minted'
  BY <1>13 DEF PutOut, IsOwner, IsMember, HandWithout, Minted, Away, RosterOK,
     SharesOK, CountsOK, Members, Shares, Nobody, Present
<1>14. ASSUME NEW p \in Pages, NEW asked \in Names, NEW n \in Names, Join(p, asked, n) PROVE Minted'
  <2>1. minted' = minted + 1 /\ minted \in Nat
    BY <1>14 DEF Join, JoinAs, CountsOK
  <2>2. \A m \in Names : roster'[m].token <= minted'
    BY <1>14, <2>1 DEF Join, JoinAs, Minted, RosterOK, Members, Nobody
  <2>3. \A q \in Pages : page'[q].token <= minted' /\ page'[q].kept <= minted'
    BY <1>14, <2>1 DEF Join, JoinAs, Joined, Minted, SharesOK, Shares, Away
  <2>q. QED
    BY <2>2, <2>3 DEF Minted
<1>15. ASSUME NEW p \in Pages, NEW n \in Names, NEW want \in {"reader", "writer"}, SetRole(p, n, want) PROVE Minted'
  BY <1>15 DEF SetRole, IsOwner, IsMember, Minted, Away, RosterOK, SharesOK,
     CountsOK, Members, Shares, Nobody, Present
<1>16. ASSUME NEW p \in Pages, NEW b \in Boxes, Claim(p, b) PROVE Minted'
  BY <1>16 DEF Claim, IsMember, Minted, Away, RosterOK, SharesOK, CountsOK,
     Members, Shares, Nobody, Present
<1>17. ASSUME NEW p \in Pages, NEW b \in Boxes, Release(p, b) PROVE Minted'
  BY <1>17 DEF Release, IsMember, Minted, Away, RosterOK, SharesOK, CountsOK,
     Members, Shares, Nobody, Present
<1>18. ASSUME NEW p \in Pages, NEW b \in Boxes \cup {NoBox}, Push(p, b) PROVE Minted'
  BY <1>18 DEF Push, IsMember, PushLocked, Line, Minted, Away, RosterOK,
     SharesOK, CountsOK, Members, Shares, Nobody, Present
<1>19. CASE UNCHANGED vars
  BY <1>19 DEF vars, Minted, Away, RosterOK, SharesOK, CountsOK, Members,
     Shares, Nobody, Present
<1>q. QED
  BY <1>1, <1>2, <1>3, <1>4, <1>5, <1>6, <1>7, <1>8, <1>9, <1>10, <1>11, <1>12,
     <1>13, <1>14, <1>15, <1>16, <1>17, <1>18, <1>19 DEF Next, PageActs

LEMMA RosterApartStep == RosterApart /\ Minted /\ RosterOK /\ SharesOK /\ CountsOK /\ [Next]_vars => RosterApart'
<1> SUFFICES ASSUME RosterApart, Minted, RosterOK, SharesOK, CountsOK, [Next]_vars PROVE RosterApart'
  OBVIOUS
<1> USE NodeAssumption DEF NodeAssumption, Tokens
<1>1. ASSUME NEW n \in Names, Open(n) PROVE RosterApart'
  BY <1>1 DEF Open, RosterApart, Minted, RosterOK, SharesOK, CountsOK, Members,
     Shares, Nobody, Present
<1>2. ASSUME NEW n \in Names, Reap(n) PROVE RosterApart'
  BY <1>2 DEF Reap, HandWithout, RosterApart, Minted, RosterOK, SharesOK,
     CountsOK, Members, Shares, Nobody, Present
<1>3. ASSUME NEW b \in Boxes, GoIdle(b) PROVE RosterApart'
  BY <1>3 DEF GoIdle, RosterApart, Minted, RosterOK, SharesOK, CountsOK,
     Members, Shares, Nobody, Present
<1>4. ASSUME NEW p \in Pages, ToldItEnded(p) PROVE RosterApart'
  BY <1>4 DEF ToldItEnded, Leaves, RosterApart, Minted, RosterOK, SharesOK,
     CountsOK, Members, Shares, Nobody, Present
<1>5. ASSUME NEW p \in Pages, Leave(p) PROVE RosterApart'
  BY <1>5 DEF Leave, Leaves, RosterApart, Minted, RosterOK, SharesOK, CountsOK,
     Members, Shares, Nobody, Present
<1>6. ASSUME NEW p \in Pages, RenameAnswered(p) PROVE RosterApart'
  BY <1>6 DEF RenameAnswered, RosterApart, Minted, RosterOK, SharesOK, CountsOK,
     Members, Shares, Nobody, Present
<1>7. ASSUME NEW p \in Pages, Close(p) PROVE RosterApart'
  BY <1>7 DEF Close, Leaves, IsOwner, IsMember, RosterApart, Minted, RosterOK,
     SharesOK, CountsOK, Members, Shares, Nobody, Present
<1>8. ASSUME NEW p \in Pages, FirstPart(p) PROVE RosterApart'
  BY SMTT(30), <1>8 DEF FirstPart, PartTaken, IsMember, Collected, Goes, RosterApart,
     Minted, RosterOK, SharesOK, CountsOK, Members, Shares, Nobody, Present
<1>9. ASSUME NEW p \in Pages, LastPart(p) PROVE RosterApart'
  BY SMTT(30), <1>9 DEF LastPart, PartTaken, IsMember, Collected, Goes, PushLocked, Line,
     RosterApart, Minted, RosterOK, SharesOK, CountsOK, Members, Shares, Nobody,
     Present
<1>10. ASSUME NEW p \in Pages, PartFails(p) PROVE RosterApart'
  BY <1>10 DEF PartFails, Goes, RosterApart, Minted, RosterOK, SharesOK,
     CountsOK, Members, Shares, Nobody, Present
<1>11. ASSUME NEW p \in Pages, NEW n \in Names, JoinAgain(p, n) PROVE RosterApart'
  BY <1>11 DEF JoinAgain, Joined, RosterApart, Minted, RosterOK, SharesOK,
     CountsOK, Members, Shares, Nobody, Present
<1>12. ASSUME NEW p \in Pages, NEW n \in Names, Rename(p, n) PROVE RosterApart'
  BY <1>12 DEF Rename, IsMember, Moved, ClaimsMoved, RosterApart, Minted,
     RosterOK, SharesOK, CountsOK, Members, Shares, Nobody, Present
<1>13. ASSUME NEW p \in Pages, NEW n \in Names, PutOut(p, n) PROVE RosterApart'
  BY <1>13 DEF PutOut, IsOwner, IsMember, HandWithout, RosterApart, Minted,
     RosterOK, SharesOK, CountsOK, Members, Shares, Nobody, Present
<1>14. ASSUME NEW p \in Pages, NEW asked \in Names, NEW n \in Names, Join(p, asked, n) PROVE RosterApart'
  BY SMTT(30), <1>14 DEF Join, JoinAs, Joined, RosterApart, Minted, RosterOK, SharesOK,
     CountsOK, Members, Shares, Nobody, Present
<1>15. ASSUME NEW p \in Pages, NEW n \in Names, NEW want \in {"reader", "writer"}, SetRole(p, n, want) PROVE RosterApart'
  BY <1>15 DEF SetRole, IsOwner, IsMember, RosterApart, Minted, RosterOK,
     SharesOK, CountsOK, Members, Shares, Nobody, Present
<1>16. ASSUME NEW p \in Pages, NEW b \in Boxes, Claim(p, b) PROVE RosterApart'
  BY <1>16 DEF Claim, IsMember, RosterApart, Minted, RosterOK, SharesOK,
     CountsOK, Members, Shares, Nobody, Present
<1>17. ASSUME NEW p \in Pages, NEW b \in Boxes, Release(p, b) PROVE RosterApart'
  BY <1>17 DEF Release, IsMember, RosterApart, Minted, RosterOK, SharesOK,
     CountsOK, Members, Shares, Nobody, Present
<1>18. ASSUME NEW p \in Pages, NEW b \in Boxes \cup {NoBox}, Push(p, b) PROVE RosterApart'
  BY <1>18 DEF Push, IsMember, PushLocked, Line, RosterApart, Minted, RosterOK,
     SharesOK, CountsOK, Members, Shares, Nobody, Present
<1>19. CASE UNCHANGED vars
  BY <1>19 DEF vars, RosterApart, Minted, RosterOK, SharesOK, CountsOK, Members,
     Shares, Nobody, Present
<1>q. QED
  BY <1>1, <1>2, <1>3, <1>4, <1>5, <1>6, <1>7, <1>8, <1>9, <1>10, <1>11, <1>12,
     <1>13, <1>14, <1>15, <1>16, <1>17, <1>18, <1>19 DEF Next, PageActs

LEMMA PagesApartStep == PagesApart /\ Minted /\ RosterOK /\ SharesOK /\ CountsOK /\ [Next]_vars => PagesApart'
<1> SUFFICES ASSUME PagesApart, Minted, RosterOK, SharesOK, CountsOK, [Next]_vars PROVE PagesApart'
  OBVIOUS
<1> USE NodeAssumption DEF NodeAssumption, Tokens
<1>1. ASSUME NEW n \in Names, Open(n) PROVE PagesApart'
  BY SMTT(30), <1>1 DEF Open, PagesApart, Minted, Away, RosterOK, SharesOK, CountsOK,
     Members, Shares, Nobody, Present
<1>2. ASSUME NEW n \in Names, Reap(n) PROVE PagesApart'
  BY <1>2 DEF Reap, HandWithout, PagesApart, Minted, Away, RosterOK, SharesOK,
     CountsOK, Members, Shares, Nobody, Present
<1>3. ASSUME NEW b \in Boxes, GoIdle(b) PROVE PagesApart'
  BY <1>3 DEF GoIdle, PagesApart, Minted, Away, RosterOK, SharesOK, CountsOK,
     Members, Shares, Nobody, Present
<1>4. ASSUME NEW p \in Pages, ToldItEnded(p) PROVE PagesApart'
  BY <1>4 DEF ToldItEnded, Leaves, PagesApart, Minted, Away, RosterOK, SharesOK,
     CountsOK, Members, Shares, Nobody, Present
<1>5. ASSUME NEW p \in Pages, Leave(p) PROVE PagesApart'
  BY <1>5 DEF Leave, Leaves, PagesApart, Minted, Away, RosterOK, SharesOK,
     CountsOK, Members, Shares, Nobody, Present
<1>6. ASSUME NEW p \in Pages, RenameAnswered(p) PROVE PagesApart'
  BY <1>6 DEF RenameAnswered, PagesApart, Minted, Away, RosterOK, SharesOK,
     CountsOK, Members, Shares, Nobody, Present
<1>7. ASSUME NEW p \in Pages, Close(p) PROVE PagesApart'
  BY <1>7 DEF Close, Leaves, IsOwner, IsMember, PagesApart, Minted, Away,
     RosterOK, SharesOK, CountsOK, Members, Shares, Nobody, Present
<1>8. ASSUME NEW p \in Pages, FirstPart(p) PROVE PagesApart'
  <2>1. \A q \in Pages : /\ page'[q].token = page[q].token /\ page'[q].kept = page[q].kept
                          /\ page'[q].name = page[q].name
    BY <1>8 DEF FirstPart, Goes, SharesOK, Shares
  <2>q. QED
    BY <2>1, NodeAssumption DEF PagesApart, NodeAssumption
<1>9. ASSUME NEW p \in Pages, LastPart(p) PROVE PagesApart'
  <2>1. \A q \in Pages : /\ page'[q].token = page[q].token /\ page'[q].kept = page[q].kept
                          /\ page'[q].name = page[q].name
    BY SMTT(30), <1>9 DEF LastPart, Goes, SharesOK, Shares
  <2>q. QED
    BY <2>1, NodeAssumption DEF PagesApart, NodeAssumption
<1>10. ASSUME NEW p \in Pages, PartFails(p) PROVE PagesApart'
  BY SMTT(30), <1>10 DEF PartFails, Goes, PagesApart, Minted, Away, RosterOK, SharesOK,
     CountsOK, Members, Shares, Nobody, Present
<1>11. ASSUME NEW p \in Pages, NEW n \in Names, JoinAgain(p, n) PROVE PagesApart'
  BY <1>11 DEF JoinAgain, Joined, PagesApart, Minted, Away, RosterOK, SharesOK,
     CountsOK, Members, Shares, Nobody, Present
<1>12. ASSUME NEW p \in Pages, NEW n \in Names, Rename(p, n) PROVE PagesApart'
  BY SMTT(30), <1>12 DEF Rename, IsMember, Moved, ClaimsMoved, PagesApart, Minted, Away,
     RosterOK, SharesOK, CountsOK, Members, Shares, Nobody, Present
<1>13. ASSUME NEW p \in Pages, NEW n \in Names, PutOut(p, n) PROVE PagesApart'
  BY <1>13 DEF PutOut, IsOwner, IsMember, HandWithout, PagesApart, Minted, Away,
     RosterOK, SharesOK, CountsOK, Members, Shares, Nobody, Present
<1>14. ASSUME NEW p \in Pages, NEW asked \in Names, NEW n \in Names, Join(p, asked, n) PROVE PagesApart'
  <2>1. page' = [page EXCEPT ![p] = [Away EXCEPT !.name = n, !.token = minted + 1, !.kept = minted + 1]]
    BY <1>14 DEF Join, JoinAs, Joined
  <2>2. page'[p].token = minted + 1 /\ page'[p].kept = minted + 1
    BY <2>1 DEF Away, SharesOK
  <2>3. \A q \in Pages \ {p} : page'[q] = page[q]
    BY <2>1 DEF SharesOK
  <2>4. \A q \in Pages : page[q].token < minted + 1 /\ page[q].kept < minted + 1
    BY DEF Minted, SharesOK, Shares, CountsOK
  <2>5. p # Host
    BY <1>14 DEF Join
  <2>6. minted \in Nat
    BY DEF CountsOK
  <2>7. page'[Host].kept = 0 /\ \A q \in Pages \ {Host} : page'[q].token # 0 => page'[q].kept = page'[q].token
    BY <2>2, <2>3, <2>5 DEF PagesApart
  <2>8. ASSUME NEW q \in Pages, NEW r \in Pages, q # r
        PROVE  /\ page'[q].token # 0 => page'[r].token # page'[q].token /\ page'[r].kept # page'[q].token
               /\ page'[q].kept # 0 => page'[r].kept # page'[q].kept
    <3>1. CASE q = p
      BY <3>1, <2>2, <2>3, <2>4, <2>6, <2>8 DEF SharesOK, Shares
    <3>2. CASE r = p
      BY <3>2, <2>2, <2>3, <2>4, <2>6, <2>8 DEF SharesOK, Shares
    <3>3. CASE q # p /\ r # p
      BY <3>3, <2>3, <2>8 DEF PagesApart
    <3>q. QED
      BY <3>1, <3>2, <3>3
  <2>q. QED
    BY <2>7, <2>8 DEF PagesApart
<1>15. ASSUME NEW p \in Pages, NEW n \in Names, NEW want \in {"reader", "writer"}, SetRole(p, n, want) PROVE PagesApart'
  BY <1>15 DEF SetRole, IsOwner, IsMember, PagesApart, Minted, Away, RosterOK,
     SharesOK, CountsOK, Members, Shares, Nobody, Present
<1>16. ASSUME NEW p \in Pages, NEW b \in Boxes, Claim(p, b) PROVE PagesApart'
  BY <1>16 DEF Claim, IsMember, PagesApart, Minted, Away, RosterOK, SharesOK,
     CountsOK, Members, Shares, Nobody, Present
<1>17. ASSUME NEW p \in Pages, NEW b \in Boxes, Release(p, b) PROVE PagesApart'
  BY <1>17 DEF Release, IsMember, PagesApart, Minted, Away, RosterOK, SharesOK,
     CountsOK, Members, Shares, Nobody, Present
<1>18. ASSUME NEW p \in Pages, NEW b \in Boxes \cup {NoBox}, Push(p, b) PROVE PagesApart'
  BY <1>18 DEF Push, IsMember, PushLocked, Line, PagesApart, Minted, Away,
     RosterOK, SharesOK, CountsOK, Members, Shares, Nobody, Present
<1>19. CASE UNCHANGED vars
  BY <1>19 DEF vars, PagesApart, Minted, Away, RosterOK, SharesOK, CountsOK,
     Members, Shares, Nobody, Present
<1>q. QED
  BY <1>1, <1>2, <1>3, <1>4, <1>5, <1>6, <1>7, <1>8, <1>9, <1>10, <1>11, <1>12,
     <1>13, <1>14, <1>15, <1>16, <1>17, <1>18, <1>19 DEF Next, PageActs

LEMMA WritersStep == Writers /\ RosterApart /\ RolesOK /\ OneOwner /\ RosterOK /\ SharesOK /\ CountsOK /\ [Next]_vars => Writers'
<1> SUFFICES ASSUME Writers, RosterApart, RolesOK, OneOwner, RosterOK, SharesOK, CountsOK, [Next]_vars PROVE Writers'
  OBVIOUS
<1> USE NodeAssumption DEF NodeAssumption, Tokens
<1>1. ASSUME NEW n \in Names, Open(n) PROVE Writers'
  <2>1. \A m \in Names : roster[m].token = 0 /\ roster[m].role = "none"
    BY <1>1 DEF Open, OneOwner, RolesOK, Present
  <2>2. granted' = {minted'}
    BY <1>1 DEF Open
  <2>3. \A m \in Names \ {n} : roster'[m] = roster[m]
    BY <1>1 DEF Open, RosterOK
  <2>4. roster'[n].token = minted'
    BY <1>1 DEF Open, RosterOK, Nobody
  <2>q. QED
    BY <2>1, <2>2, <2>3, <2>4 DEF Writers, CanWrite
<1>2. ASSUME NEW n \in Names, Reap(n) PROVE Writers'
  BY <1>2 DEF Reap, HandWithout, Writers, RosterApart, CanWrite, RolesOK,
     RosterOK, SharesOK, CountsOK, Members, Shares, Nobody, Present
<1>3. ASSUME NEW b \in Boxes, GoIdle(b) PROVE Writers'
  BY <1>3 DEF GoIdle, Writers, RosterApart, CanWrite, RolesOK, RosterOK,
     SharesOK, CountsOK, Members, Shares, Nobody, Present
<1>4. ASSUME NEW p \in Pages, ToldItEnded(p) PROVE Writers'
  BY <1>4 DEF ToldItEnded, Leaves, Writers, RosterApart, CanWrite, RolesOK,
     RosterOK, SharesOK, CountsOK, Members, Shares, Nobody, Present
<1>5. ASSUME NEW p \in Pages, Leave(p) PROVE Writers'
  BY <1>5 DEF Leave, Leaves, Writers, RosterApart, CanWrite, RolesOK, RosterOK,
     SharesOK, CountsOK, Members, Shares, Nobody, Present
<1>6. ASSUME NEW p \in Pages, RenameAnswered(p) PROVE Writers'
  BY <1>6 DEF RenameAnswered, Writers, RosterApart, CanWrite, RolesOK, RosterOK,
     SharesOK, CountsOK, Members, Shares, Nobody, Present
<1>7. ASSUME NEW p \in Pages, Close(p) PROVE Writers'
  BY <1>7 DEF Close, Leaves, IsOwner, IsMember, Writers, RosterApart, CanWrite,
     RolesOK, RosterOK, SharesOK, CountsOK, Members, Shares, Nobody, Present
<1>8. ASSUME NEW p \in Pages, FirstPart(p) PROVE Writers'
  BY <1>8 DEF FirstPart, PartTaken, IsMember, Collected, Goes, Writers,
     RosterApart, CanWrite, RolesOK, RosterOK, SharesOK, CountsOK, Members,
     Shares, Nobody, Present
<1>9. ASSUME NEW p \in Pages, LastPart(p) PROVE Writers'
  BY SMTT(30), <1>9 DEF LastPart, PartTaken, IsMember, Collected, Goes, PushLocked, Line,
     Writers, RosterApart, CanWrite, RolesOK, RosterOK, SharesOK, CountsOK,
     Members, Shares, Nobody, Present
<1>10. ASSUME NEW p \in Pages, PartFails(p) PROVE Writers'
  BY <1>10 DEF PartFails, Goes, Writers, RosterApart, CanWrite, RolesOK,
     RosterOK, SharesOK, CountsOK, Members, Shares, Nobody, Present
<1>11. ASSUME NEW p \in Pages, NEW n \in Names, JoinAgain(p, n) PROVE Writers'
  BY <1>11 DEF JoinAgain, Joined, Writers, RosterApart, CanWrite, RolesOK,
     RosterOK, SharesOK, CountsOK, Members, Shares, Nobody, Present
<1>12. ASSUME NEW p \in Pages, NEW n \in Names, Rename(p, n) PROVE Writers'
  BY <1>12 DEF Rename, IsMember, Moved, ClaimsMoved, Writers, RosterApart,
     CanWrite, RolesOK, RosterOK, SharesOK, CountsOK, Members, Shares, Nobody,
     Present
<1>13. ASSUME NEW p \in Pages, NEW n \in Names, PutOut(p, n) PROVE Writers'
  BY <1>13 DEF PutOut, IsOwner, IsMember, HandWithout, Writers, RosterApart,
     CanWrite, RolesOK, RosterOK, SharesOK, CountsOK, Members, Shares, Nobody,
     Present
<1>14. ASSUME NEW p \in Pages, NEW asked \in Names, NEW n \in Names, Join(p, asked, n) PROVE Writers'
  BY <1>14 DEF Join, JoinAs, Joined, Writers, RosterApart, CanWrite, RolesOK,
     RosterOK, SharesOK, CountsOK, Members, Shares, Nobody, Present
<1>15. ASSUME NEW p \in Pages, NEW n \in Names, NEW want \in {"reader", "writer"}, SetRole(p, n, want) PROVE Writers'
  BY <1>15 DEF SetRole, IsOwner, IsMember, Writers, RosterApart, CanWrite,
     RolesOK, RosterOK, SharesOK, CountsOK, Members, Shares, Nobody, Present
<1>16. ASSUME NEW p \in Pages, NEW b \in Boxes, Claim(p, b) PROVE Writers'
  BY <1>16 DEF Claim, IsMember, Writers, RosterApart, CanWrite, RolesOK,
     RosterOK, SharesOK, CountsOK, Members, Shares, Nobody, Present
<1>17. ASSUME NEW p \in Pages, NEW b \in Boxes, Release(p, b) PROVE Writers'
  BY <1>17 DEF Release, IsMember, Writers, RosterApart, CanWrite, RolesOK,
     RosterOK, SharesOK, CountsOK, Members, Shares, Nobody, Present
<1>18. ASSUME NEW p \in Pages, NEW b \in Boxes \cup {NoBox}, Push(p, b) PROVE Writers'
  BY <1>18 DEF Push, IsMember, PushLocked, Line, Writers, RosterApart, CanWrite,
     RolesOK, RosterOK, SharesOK, CountsOK, Members, Shares, Nobody, Present
<1>19. CASE UNCHANGED vars
  BY <1>19 DEF vars, Writers, RosterApart, CanWrite, RolesOK, RosterOK,
     SharesOK, CountsOK, Members, Shares, Nobody, Present
<1>q. QED
  BY <1>1, <1>2, <1>3, <1>4, <1>5, <1>6, <1>7, <1>8, <1>9, <1>10, <1>11, <1>12,
     <1>13, <1>14, <1>15, <1>16, <1>17, <1>18, <1>19 DEF Next, PageActs

LEMMA HandsStep == Hands /\ RosterApart /\ ClaimsOK /\ OneOwner /\ RosterOK /\ SharesOK /\ CountsOK /\ [Next]_vars => Hands'
<1> SUFFICES ASSUME Hands, RosterApart, ClaimsOK, OneOwner, RosterOK, SharesOK, CountsOK, [Next]_vars PROVE Hands'
  OBVIOUS
<1> USE NodeAssumption DEF NodeAssumption, Tokens
<1>1. ASSUME NEW n \in Names, Open(n) PROVE Hands'
  <2>1. \A m \in Names : roster[m].token = 0
    BY <1>1 DEF Open, OneOwner, Present
  <2>2. \A b \in Boxes : hand[b] = 0
    BY <2>1 DEF Hands
  <2>q. QED
    BY <1>1, <2>2 DEF Open, Hands
<1>2. ASSUME NEW n \in Names, Reap(n) PROVE Hands'
  BY <1>2 DEF Reap, HandWithout, Hands, RosterApart, ClaimsOK, NoClaim,
     RosterOK, SharesOK, CountsOK, Members, Shares, Nobody, Present
<1>3. ASSUME NEW b \in Boxes, GoIdle(b) PROVE Hands'
  BY <1>3 DEF GoIdle, Hands, RosterApart, ClaimsOK, NoClaim, RosterOK, SharesOK,
     CountsOK, Members, Shares, Nobody, Present
<1>4. ASSUME NEW p \in Pages, ToldItEnded(p) PROVE Hands'
  BY <1>4 DEF ToldItEnded, Leaves, Hands, RosterApart, ClaimsOK, NoClaim,
     RosterOK, SharesOK, CountsOK, Members, Shares, Nobody, Present
<1>5. ASSUME NEW p \in Pages, Leave(p) PROVE Hands'
  BY <1>5 DEF Leave, Leaves, Hands, RosterApart, ClaimsOK, NoClaim, RosterOK,
     SharesOK, CountsOK, Members, Shares, Nobody, Present
<1>6. ASSUME NEW p \in Pages, RenameAnswered(p) PROVE Hands'
  BY <1>6 DEF RenameAnswered, Hands, RosterApart, ClaimsOK, NoClaim, RosterOK,
     SharesOK, CountsOK, Members, Shares, Nobody, Present
<1>7. ASSUME NEW p \in Pages, Close(p) PROVE Hands'
  BY <1>7 DEF Close, Leaves, IsOwner, IsMember, Hands, RosterApart, ClaimsOK,
     NoClaim, RosterOK, SharesOK, CountsOK, Members, Shares, Nobody, Present
<1>8. ASSUME NEW p \in Pages, FirstPart(p) PROVE Hands'
  BY <1>8 DEF FirstPart, PartTaken, IsMember, Collected, Goes, Hands,
     RosterApart, ClaimsOK, NoClaim, RosterOK, SharesOK, CountsOK, Members,
     Shares, Nobody, Present
<1>9. ASSUME NEW p \in Pages, LastPart(p) PROVE Hands'
  BY <1>9 DEF LastPart, PartTaken, IsMember, Collected, Goes, PushLocked, Line,
     Hands, RosterApart, ClaimsOK, NoClaim, RosterOK, SharesOK, CountsOK,
     Members, Shares, Nobody, Present
<1>10. ASSUME NEW p \in Pages, PartFails(p) PROVE Hands'
  BY <1>10 DEF PartFails, Goes, Hands, RosterApart, ClaimsOK, NoClaim, RosterOK,
     SharesOK, CountsOK, Members, Shares, Nobody, Present
<1>11. ASSUME NEW p \in Pages, NEW n \in Names, JoinAgain(p, n) PROVE Hands'
  BY <1>11 DEF JoinAgain, Joined, Hands, RosterApart, ClaimsOK, NoClaim,
     RosterOK, SharesOK, CountsOK, Members, Shares, Nobody, Present
<1>12. ASSUME NEW p \in Pages, NEW n \in Names, Rename(p, n) PROVE Hands'
  BY <1>12 DEF Rename, IsMember, Moved, ClaimsMoved, Hands, RosterApart,
     ClaimsOK, NoClaim, RosterOK, SharesOK, CountsOK, Members, Shares, Nobody,
     Present
<1>13. ASSUME NEW p \in Pages, NEW n \in Names, PutOut(p, n) PROVE Hands'
  BY <1>13 DEF PutOut, IsOwner, IsMember, HandWithout, Hands, RosterApart,
     ClaimsOK, NoClaim, RosterOK, SharesOK, CountsOK, Members, Shares, Nobody,
     Present
<1>14. ASSUME NEW p \in Pages, NEW asked \in Names, NEW n \in Names, Join(p, asked, n) PROVE Hands'
  BY <1>14 DEF Join, JoinAs, Joined, Hands, RosterApart, ClaimsOK, NoClaim,
     RosterOK, SharesOK, CountsOK, Members, Shares, Nobody, Present
<1>15. ASSUME NEW p \in Pages, NEW n \in Names, NEW want \in {"reader", "writer"}, SetRole(p, n, want) PROVE Hands'
  BY <1>15 DEF SetRole, IsOwner, IsMember, Hands, RosterApart, ClaimsOK,
     NoClaim, RosterOK, SharesOK, CountsOK, Members, Shares, Nobody, Present
<1>16. ASSUME NEW p \in Pages, NEW b \in Boxes, Claim(p, b) PROVE Hands'
  BY <1>16 DEF Claim, IsMember, Hands, RosterApart, ClaimsOK, NoClaim, RosterOK,
     SharesOK, CountsOK, Members, Shares, Nobody, Present
<1>17. ASSUME NEW p \in Pages, NEW b \in Boxes, Release(p, b) PROVE Hands'
  BY <1>17 DEF Release, IsMember, Hands, RosterApart, ClaimsOK, NoClaim,
     RosterOK, SharesOK, CountsOK, Members, Shares, Nobody, Present
<1>18. ASSUME NEW p \in Pages, NEW b \in Boxes \cup {NoBox}, Push(p, b) PROVE Hands'
  BY <1>18 DEF Push, IsMember, PushLocked, Line, Hands, RosterApart, ClaimsOK,
     NoClaim, RosterOK, SharesOK, CountsOK, Members, Shares, Nobody, Present
<1>19. CASE UNCHANGED vars
  BY <1>19 DEF vars, Hands, RosterApart, ClaimsOK, NoClaim, RosterOK, SharesOK,
     CountsOK, Members, Shares, Nobody, Present
<1>q. QED
  BY <1>1, <1>2, <1>3, <1>4, <1>5, <1>6, <1>7, <1>8, <1>9, <1>10, <1>11, <1>12,
     <1>13, <1>14, <1>15, <1>16, <1>17, <1>18, <1>19 DEF Next, PageActs

LEMMA SendsStep == Sends /\ RosterApart /\ PagesApart /\ Minted /\ RosterOK /\ SharesOK /\ CountsOK /\ [Next]_vars => Sends'
<1> SUFFICES ASSUME Sends, RosterApart, PagesApart, Minted, RosterOK, SharesOK, CountsOK, [Next]_vars PROVE Sends'
  OBVIOUS
<1> USE NodeAssumption DEF NodeAssumption, Tokens
<1>1. ASSUME NEW n \in Names, Open(n) PROVE Sends'
  BY SMTT(30), <1>1 DEF Open, Sends, RosterApart, PagesApart, Minted, Away, RosterOK,
     SharesOK, CountsOK, Members, Shares, Nobody, Present
<1>2. ASSUME NEW n \in Names, Reap(n) PROVE Sends'
  BY <1>2 DEF Reap, HandWithout, Sends, RosterApart, PagesApart, Minted, Away,
     RosterOK, SharesOK, CountsOK, Members, Shares, Nobody, Present
<1>3. ASSUME NEW b \in Boxes, GoIdle(b) PROVE Sends'
  BY <1>3 DEF GoIdle, Sends, RosterApart, PagesApart, Minted, Away, RosterOK,
     SharesOK, CountsOK, Members, Shares, Nobody, Present
<1>4. ASSUME NEW p \in Pages, ToldItEnded(p) PROVE Sends'
  BY <1>4 DEF ToldItEnded, Leaves, Sends, RosterApart, PagesApart, Minted, Away,
     RosterOK, SharesOK, CountsOK, Members, Shares, Nobody, Present
<1>5. ASSUME NEW p \in Pages, Leave(p) PROVE Sends'
  BY <1>5 DEF Leave, Leaves, Sends, RosterApart, PagesApart, Minted, Away,
     RosterOK, SharesOK, CountsOK, Members, Shares, Nobody, Present
<1>6. ASSUME NEW p \in Pages, RenameAnswered(p) PROVE Sends'
  BY <1>6 DEF RenameAnswered, Sends, RosterApart, PagesApart, Minted, Away,
     RosterOK, SharesOK, CountsOK, Members, Shares, Nobody, Present
<1>7. ASSUME NEW p \in Pages, Close(p) PROVE Sends'
  BY SMTT(30), <1>7 DEF Close, Leaves, IsOwner, IsMember, Sends, RosterApart, PagesApart,
     Minted, Away, RosterOK, SharesOK, CountsOK, Members, Shares, Nobody,
     Present
<1>8. ASSUME NEW p \in Pages, FirstPart(p) PROVE Sends'
  <2> DEFINE n == page[p].name
  <2>1. page[p].token # 0 /\ n \in Names /\ roster[n].token = page[p].token
    BY <1>8 DEF FirstPart, PartTaken, IsMember
  <2>2. roster'[n].pending = <<parted'>> /\ \A m \in Names \ {n} : roster'[m] = roster[m]
    BY <1>8, <2>1 DEF FirstPart, Collected, RosterOK, Members
  <2>3. \A m \in Names : roster'[m].token = roster[m].token
    BY <1>8 DEF FirstPart, RosterOK, Members
  <2>4. \A q \in Pages : page'[q].token = page[q].token
    BY <1>8 DEF FirstPart, Goes, SharesOK, Shares
  <2>5. page'[p].sending \in {0, parted'} /\ \A q \in Pages \ {p} : page'[q] = page[q]
    BY <1>8 DEF FirstPart, Goes, SharesOK, Shares
  <2>6. \A m \in Names : roster[m].token = page[p].token => m = n
    BY <2>1 DEF RosterApart, Present
  <2>7. \A q \in Pages \ {p} : page[q].token # page[p].token
    BY <2>1 DEF PagesApart
  <2>8. ASSUME NEW q \in Pages \ {p}, page'[q].sending # 0
        PROVE  page'[q].token # 0 /\ \A m \in Names : roster'[m].token = page'[q].token => roster'[m].pending = <<page'[q].sending>>
    BY <2>8, <2>1, <2>2, <2>3, <2>5, <2>7 DEF Sends
  <2>9. ASSUME page'[p].sending # 0
        PROVE  page'[p].token # 0 /\ \A m \in Names : roster'[m].token = page'[p].token => roster'[m].pending = <<page'[p].sending>>
    BY <2>9, <2>1, <2>2, <2>3, <2>4, <2>5, <2>6
  <2>q. QED
    BY <2>8, <2>9 DEF Sends
<1>9. ASSUME NEW p \in Pages, LastPart(p) PROVE Sends'
  BY SMTT(30), <1>9 DEF LastPart, PartTaken, IsMember, Collected, Goes, PushLocked, Line,
     Sends, RosterApart, PagesApart, Minted, Away, RosterOK, SharesOK, CountsOK,
     Members, Shares, Nobody, Present
<1>10. ASSUME NEW p \in Pages, PartFails(p) PROVE Sends'
  BY <1>10 DEF PartFails, Goes, Sends, RosterApart, PagesApart, Minted, Away,
     RosterOK, SharesOK, CountsOK, Members, Shares, Nobody, Present
<1>11. ASSUME NEW p \in Pages, NEW n \in Names, JoinAgain(p, n) PROVE Sends'
  BY <1>11 DEF JoinAgain, Joined, Sends, RosterApart, PagesApart, Minted, Away,
     RosterOK, SharesOK, CountsOK, Members, Shares, Nobody, Present
<1>12. ASSUME NEW p \in Pages, NEW n \in Names, Rename(p, n) PROVE Sends'
  <2> DEFINE own == page[p].name
  <2>1. roster[own].token # 0 /\ own \in Names /\ own # n /\ roster[n].token = 0
    BY <1>12 DEF Rename, IsMember, Present
  <2>2. /\ roster'[n] = roster[own] /\ roster'[own] = Nobody
        /\ \A m \in Names \ {n, own} : roster'[m] = roster[m]
    BY <1>12, <2>1 DEF Rename, Moved, RosterOK
  <2>3. \A q \in Pages : page'[q].token = page[q].token /\ page'[q].sending = page[q].sending
    BY <1>12 DEF Rename, SharesOK, Shares
  <2>q. QED
    BY <2>1, <2>2, <2>3 DEF Sends, Nobody
<1>13. ASSUME NEW p \in Pages, NEW n \in Names, PutOut(p, n) PROVE Sends'
  BY <1>13 DEF PutOut, IsOwner, IsMember, HandWithout, Sends, RosterApart,
     PagesApart, Minted, Away, RosterOK, SharesOK, CountsOK, Members, Shares,
     Nobody, Present
<1>14. ASSUME NEW p \in Pages, NEW asked \in Names, NEW n \in Names, Join(p, asked, n) PROVE Sends'
  BY SMTT(30), <1>14 DEF Join, JoinAs, Joined, Sends, RosterApart, PagesApart, Minted,
     Away, RosterOK, SharesOK, CountsOK, Members, Shares, Nobody, Present
<1>15. ASSUME NEW p \in Pages, NEW n \in Names, NEW want \in {"reader", "writer"}, SetRole(p, n, want) PROVE Sends'
  BY SMTT(30), <1>15 DEF SetRole, IsOwner, IsMember, Sends, RosterApart, PagesApart,
     Minted, Away, RosterOK, SharesOK, CountsOK, Members, Shares, Nobody,
     Present
<1>16. ASSUME NEW p \in Pages, NEW b \in Boxes, Claim(p, b) PROVE Sends'
  BY <1>16 DEF Claim, IsMember, Sends, RosterApart, PagesApart, Minted, Away,
     RosterOK, SharesOK, CountsOK, Members, Shares, Nobody, Present
<1>17. ASSUME NEW p \in Pages, NEW b \in Boxes, Release(p, b) PROVE Sends'
  BY <1>17 DEF Release, IsMember, Sends, RosterApart, PagesApart, Minted, Away,
     RosterOK, SharesOK, CountsOK, Members, Shares, Nobody, Present
<1>18. ASSUME NEW p \in Pages, NEW b \in Boxes \cup {NoBox}, Push(p, b) PROVE Sends'
  BY <1>18 DEF Push, IsMember, PushLocked, Line, Sends, RosterApart, PagesApart,
     Minted, Away, RosterOK, SharesOK, CountsOK, Members, Shares, Nobody,
     Present
<1>19. CASE UNCHANGED vars
  BY <1>19 DEF vars, Sends, RosterApart, PagesApart, Minted, Away, RosterOK,
     SharesOK, CountsOK, Members, Shares, Nobody, Present
<1>q. QED
  BY <1>1, <1>2, <1>3, <1>4, <1>5, <1>6, <1>7, <1>8, <1>9, <1>10, <1>11, <1>12,
     <1>13, <1>14, <1>15, <1>16, <1>17, <1>18, <1>19 DEF Next, PageActs

LEMMA OneOwnerStep == OneOwner /\ RolesOK /\ RosterOK /\ SharesOK /\ CountsOK /\ [Next]_vars => OneOwner'
<1> SUFFICES ASSUME OneOwner, RolesOK, RosterOK, SharesOK, CountsOK, [Next]_vars PROVE OneOwner'
  OBVIOUS
<1> USE NodeAssumption DEF NodeAssumption, Tokens
<1>1. ASSUME NEW n \in Names, Open(n) PROVE OneOwner'
  BY <1>1 DEF Open, OneOwner, RolesOK, RosterOK, SharesOK, CountsOK, Members,
     Shares, Nobody, Present
<1>2. ASSUME NEW n \in Names, Reap(n) PROVE OneOwner'
  BY <1>2 DEF Reap, HandWithout, OneOwner, RolesOK, RosterOK, SharesOK,
     CountsOK, Members, Shares, Nobody, Present
<1>3. ASSUME NEW b \in Boxes, GoIdle(b) PROVE OneOwner'
  BY <1>3 DEF GoIdle, OneOwner, RolesOK, RosterOK, SharesOK, CountsOK, Members,
     Shares, Nobody, Present
<1>4. ASSUME NEW p \in Pages, ToldItEnded(p) PROVE OneOwner'
  BY <1>4 DEF ToldItEnded, Leaves, OneOwner, RolesOK, RosterOK, SharesOK,
     CountsOK, Members, Shares, Nobody, Present
<1>5. ASSUME NEW p \in Pages, Leave(p) PROVE OneOwner'
  BY <1>5 DEF Leave, Leaves, OneOwner, RolesOK, RosterOK, SharesOK, CountsOK,
     Members, Shares, Nobody, Present
<1>6. ASSUME NEW p \in Pages, RenameAnswered(p) PROVE OneOwner'
  BY <1>6 DEF RenameAnswered, OneOwner, RolesOK, RosterOK, SharesOK, CountsOK,
     Members, Shares, Nobody, Present
<1>7. ASSUME NEW p \in Pages, Close(p) PROVE OneOwner'
  BY <1>7 DEF Close, Leaves, IsOwner, IsMember, OneOwner, RolesOK, RosterOK,
     SharesOK, CountsOK, Members, Shares, Nobody, Present
<1>8. ASSUME NEW p \in Pages, FirstPart(p) PROVE OneOwner'
  BY SMTT(30), <1>8 DEF FirstPart, PartTaken, IsMember, Collected, Goes, OneOwner,
     RolesOK, RosterOK, SharesOK, CountsOK, Members, Shares, Nobody, Present
<1>9. ASSUME NEW p \in Pages, LastPart(p) PROVE OneOwner'
  BY <1>9 DEF LastPart, PartTaken, IsMember, Collected, Goes, PushLocked, Line,
     OneOwner, RolesOK, RosterOK, SharesOK, CountsOK, Members, Shares, Nobody,
     Present
<1>10. ASSUME NEW p \in Pages, PartFails(p) PROVE OneOwner'
  BY <1>10 DEF PartFails, Goes, OneOwner, RolesOK, RosterOK, SharesOK, CountsOK,
     Members, Shares, Nobody, Present
<1>11. ASSUME NEW p \in Pages, NEW n \in Names, JoinAgain(p, n) PROVE OneOwner'
  BY <1>11 DEF JoinAgain, Joined, OneOwner, RolesOK, RosterOK, SharesOK,
     CountsOK, Members, Shares, Nobody, Present
<1>12. ASSUME NEW p \in Pages, NEW n \in Names, Rename(p, n) PROVE OneOwner'
  BY <1>12 DEF Rename, IsMember, Moved, ClaimsMoved, OneOwner, RolesOK,
     RosterOK, SharesOK, CountsOK, Members, Shares, Nobody, Present
<1>13. ASSUME NEW p \in Pages, NEW n \in Names, PutOut(p, n) PROVE OneOwner'
  BY <1>13 DEF PutOut, IsOwner, IsMember, HandWithout, OneOwner, RolesOK,
     RosterOK, SharesOK, CountsOK, Members, Shares, Nobody, Present
<1>14. ASSUME NEW p \in Pages, NEW asked \in Names, NEW n \in Names, Join(p, asked, n) PROVE OneOwner'
  BY <1>14 DEF Join, JoinAs, Joined, OneOwner, RolesOK, RosterOK, SharesOK,
     CountsOK, Members, Shares, Nobody, Present
<1>15. ASSUME NEW p \in Pages, NEW n \in Names, NEW want \in {"reader", "writer"}, SetRole(p, n, want) PROVE OneOwner'
  BY <1>15 DEF SetRole, IsOwner, IsMember, OneOwner, RolesOK, RosterOK,
     SharesOK, CountsOK, Members, Shares, Nobody, Present
<1>16. ASSUME NEW p \in Pages, NEW b \in Boxes, Claim(p, b) PROVE OneOwner'
  BY <1>16 DEF Claim, IsMember, OneOwner, RolesOK, RosterOK, SharesOK, CountsOK,
     Members, Shares, Nobody, Present
<1>17. ASSUME NEW p \in Pages, NEW b \in Boxes, Release(p, b) PROVE OneOwner'
  BY <1>17 DEF Release, IsMember, OneOwner, RolesOK, RosterOK, SharesOK,
     CountsOK, Members, Shares, Nobody, Present
<1>18. ASSUME NEW p \in Pages, NEW b \in Boxes \cup {NoBox}, Push(p, b) PROVE OneOwner'
  BY <1>18 DEF Push, IsMember, PushLocked, Line, OneOwner, RolesOK, RosterOK,
     SharesOK, CountsOK, Members, Shares, Nobody, Present
<1>19. CASE UNCHANGED vars
  BY <1>19 DEF vars, OneOwner, RolesOK, RosterOK, SharesOK, CountsOK, Members,
     Shares, Nobody, Present
<1>q. QED
  BY <1>1, <1>2, <1>3, <1>4, <1>5, <1>6, <1>7, <1>8, <1>9, <1>10, <1>11, <1>12,
     <1>13, <1>14, <1>15, <1>16, <1>17, <1>18, <1>19 DEF Next, PageActs

(***************************************************************************)
(* The theorems                                                            *)

NodeInv ==
  /\ CountsOK /\ SharesOK /\ RosterOK /\ ClaimsOK /\ GrantsOK /\ LinesOK /\ RolesOK
  /\ Minted /\ RosterApart /\ PagesApart /\ OneOwner /\ Writers /\ Hands /\ Sends
  /\ session \in {"none", "open", "closed"} /\ PushesLandWhole

LEMMA NodeInit == Init => NodeInv
<1> SUFFICES ASSUME Init PROVE NodeInv
  OBVIOUS
<1> USE Zero, NodeAssumption DEF Init
<1>1. CountsOK /\ SharesOK /\ session \in {"none", "open", "closed"}
  BY DEF CountsOK, SharesOK, Shares, Away
<1>2. RosterOK /\ RolesOK /\ ClaimsOK /\ GrantsOK
  BY MemberForms DEF RosterOK, RolesOK, ClaimsOK, GrantsOK, Present, Nobody,
     NoClaim
<1>3. LinesOK /\ PushesLandWhole
  <2>1. <<>> \in Seq(Lines)
    OBVIOUS
  <2>q. QED
    BY <2>1 DEF LinesOK, PushesLandWhole
<1>4. RosterApart /\ OneOwner /\ Writers /\ Hands
  BY DEF RosterApart, OneOwner, Writers, Hands, Present, CanWrite, Nobody
<1>5. Minted /\ PagesApart /\ Sends
  BY DEF Minted, PagesApart, Sends, Away, Nobody, NodeAssumption
<1>q. QED
  BY <1>1, <1>2, <1>3, <1>4, <1>5 DEF NodeInv

LEMMA WholeStep == PushesLandWhole /\ LinesOK /\ SharesOK /\ Sends /\ [Next]_vars => PushesLandWhole'
<1> SUFFICES ASSUME PushesLandWhole, LinesOK, SharesOK, Sends, [Next]_vars PROVE PushesLandWhole'
  OBVIOUS
<1>1. CASE lines' = lines \/ lines' = <<>>
  BY <1>1 DEF PushesLandWhole
<1>2. ASSUME NEW x, x.whole, lines' = Append(lines, x)
      PROVE  PushesLandWhole'
  <2>1. /\ Len(lines) \in Nat /\ DOMAIN lines = 1 .. Len(lines)
        /\ DOMAIN lines' = 1 .. Len(lines) + 1
        /\ \A i \in 1 .. Len(lines) : lines'[i] = lines[i]
        /\ lines'[Len(lines) + 1] = x
    BY <1>2 DEF LinesOK
  <2>2. \A i \in 1 .. Len(lines) + 1 : i \in 1 .. Len(lines) \/ i = Len(lines) + 1
    BY <2>1
  <2>q. QED
    BY <1>2, <2>1, <2>2 DEF PushesLandWhole
<1>3. ASSUME NEW p \in Pages, LastPart(p) PROVE PushesLandWhole'
  <2>1. /\ page[p].sending # 0 /\ page[p].name \in Names
        /\ roster[page[p].name].token = page[p].token
    BY <1>3 DEF LastPart, PartTaken, IsMember
  <2>2. roster[page[p].name].pending = <<page[p].sending>>
    BY <2>1 DEF Sends
  <2>3. Collected(page[p].name, 1, page[p].sending) = <<page[p].sending, page[p].sending>>
    <3>1. page[p].sending \in Int
      BY DEF SharesOK, Shares
    <3>2. ASSUME NEW y \in Int PROVE Append(<<y>>, y) = <<y, y>>
      <4>1. <<y>> \in Seq(Int) /\ Len(<<y>>) = 1 /\ <<y>>[1] = y
        OBVIOUS
      <4>2. Append(<<y>>, y) = [i \in 1 .. 2 |-> IF i \in 1 .. 1 THEN <<y>>[i] ELSE y]
        BY <4>1
      <4>3. <<y, y>> = [i \in 1 .. 2 |-> y]
        OBVIOUS
      <4>4. \A i \in 1 .. 2 : (IF i \in 1 .. 1 THEN <<y>>[i] ELSE y) = y
        BY <4>1
      <4>5. [i \in 1 .. 2 |-> IF i \in 1 .. 1 THEN <<y>>[i] ELSE y] = [i \in 1 .. 2 |-> y]
        BY <4>4
      <4>q. QED
        BY <4>2, <4>3, <4>5, Zenon
    <3>q. QED
      BY <2>2, <3>1, <3>2 DEF Collected
  <2>4. lines' = Append(lines, Line(p, NoBox, TRUE))
    BY <1>3, <2>3 DEF LastPart, PushLocked
  <2>5. Line(p, NoBox, TRUE).whole
    BY DEF Line
  <2>q. QED
    BY <2>4, <2>5, <1>2
<1>4. ASSUME NEW p \in Pages, NEW b \in Boxes \cup {NoBox}, Push(p, b) PROVE PushesLandWhole'
  <2>1. Line(p, b, TRUE).whole
    BY DEF Line
  <2>q. QED
    BY <2>1, <1>2, <1>4 DEF Push, PushLocked
<1>5. ASSUME NEW p \in Pages, Close(p) PROVE lines' = lines \/ lines' = <<>>
  BY <1>5 DEF Close
<1>q. QED
  BY ZenonT(60), <1>1, <1>3, <1>4, <1>5 DEF Next, PageActs, vars, Open, Reap, GoIdle,
     ToldItEnded, Leave, RenameAnswered,
     FirstPart, PartFails, JoinAgain, Rename, PutOut, Join, SetRole, Claim, Release

LEMMA SessionStep == session \in {"none", "open", "closed"} /\ [Next]_vars => session' \in {"none", "open", "closed"}
<1> SUFFICES ASSUME session \in {"none", "open", "closed"}, [Next]_vars
    PROVE  session' \in {"none", "open", "closed"}
  OBVIOUS
<1>1. ASSUME NEW n \in Names, Open(n) PROVE session' = "open"
  BY <1>1 DEF Open
<1>2. ASSUME NEW p \in Pages, Close(p) PROVE session' \in {session, "closed"}
  BY <1>2 DEF Close
<1>3. session' = session \/ (\E n \in Names : Open(n)) \/ (\E p \in Pages : Close(p))
  BY ZenonT(60) DEF Next, PageActs, vars, Reap, GoIdle, ToldItEnded, Leave, RenameAnswered,
     LastPart, Push,
         FirstPart, PartFails, JoinAgain, Rename, PutOut, Join, SetRole, Claim, Release
<1>q. QED
  BY <1>1, <1>2, <1>3

LEMMA NodeStep == NodeInv /\ [Next]_vars => NodeInv'
<1> SUFFICES ASSUME NodeInv, [Next]_vars PROVE NodeInv'
  OBVIOUS
<1> USE DEF NodeInv
<1>1. CountsOK' /\ session' \in {"none", "open", "closed"}
  BY CountsStep, SessionStep
<1>2. SharesOK' /\ RosterOK' /\ ClaimsOK' /\ GrantsOK' /\ LinesOK'
  BY <1>1, SharesStep, RosterStep, ClaimsStep, GrantsStep, LinesStep
<1>3. RolesOK' /\ Minted' /\ RosterApart' /\ PagesApart' /\ OneOwner'
  BY RolesStep, MintedStep, RosterApartStep, PagesApartStep, OneOwnerStep
<1>4. Writers' /\ Hands' /\ Sends' /\ PushesLandWhole'
  BY WritersStep, HandsStep, SendsStep, WholeStep
<1>q. QED
  BY <1>1, <1>2, <1>3, <1>4

LEMMA NodeInductive == Spec => []NodeInv
BY NodeInit, NodeStep, PTL DEF Spec

(* Every variable keeps its type, and who has no token has no role.        *)
THEOREM NodeTypeCorrect == Spec => []TypeOK
<1>1. NodeInv => TypeOK
  BY DEF NodeInv, TypeOK, CountsOK, SharesOK, RosterOK, ClaimsOK, GrantsOK,
     LinesOK, RolesOK
<1>q. QED
  BY <1>1, NodeInductive, PTL

(* The session has one owner, its host, for as long as it is open.         *)
THEOREM OwnerStays == Spec => []OneOwner
<1>1. NodeInv => OneOwner
  BY DEF NodeInv
<1>q. QED
  BY <1>1, NodeInductive, PTL

(* No token names two members, and no two pages hold one.                  *)
THEOREM TokensNameOne == Spec => []TokensApart
<1>1. NodeInv => TokensApart
  BY DEF NodeInv, TokensApart, RosterApart, PagesApart
<1>q. QED
  BY <1>1, NodeInductive, PTL

(* Every push in parts is joined as it was sent.                           *)
THEOREM PartsLandWhole == Spec => []PushesLandWhole
<1>1. NodeInv => PushesLandWhole
  BY DEF NodeInv
<1>q. QED
  BY <1>1, NodeInductive, PTL

(* A step that lengthens the record is a push, by a member who may write.  *)
LEMMA LineSteps ==
  ASSUME NodeInv, [Next]_vars, Len(lines') > Len(lines)
  PROVE  \E p \in Pages, b \in Boxes \cup {NoBox}, w \in BOOLEAN :
           /\ IsMember(p) /\ CanWrite(page[p].name)
           /\ b # NoBox => ClaimFree(b, page[p].name)
           /\ lines' = Append(lines, Line(p, b, w))
           /\ lines'[Len(lines')] = Line(p, b, w)
<1>1. lines \in Seq(Lines)
  BY DEF NodeInv, LinesOK
<1>2. lines' # lines /\ lines' # <<>>
  BY <1>1
<1>3. \A p \in Pages, b \in Boxes \cup {NoBox}, w \in BOOLEAN :
        lines' = Append(lines, Line(p, b, w)) => lines'[Len(lines')] = Line(p, b, w)
  BY <1>1
<1>4. ASSUME NEW p \in Pages, Close(p) PROVE lines' = lines \/ lines' = <<>>
  BY <1>4 DEF Close
<1>5. CASE \E p \in Pages, b \in Boxes \cup {NoBox} : Push(p, b)
  BY <1>3, <1>5 DEF Push, PushLocked
<1>6. CASE \E p \in Pages : LastPart(p)
  <2>1. PICK p \in Pages : LastPart(p)
    BY <1>6
  <2>2. PICK w \in BOOLEAN : lines' = Append(lines, Line(p, NoBox, w))
    BY <2>1 DEF LastPart, PushLocked
  <2>3. IsMember(p) /\ CanWrite(page[p].name)
    BY <2>1 DEF LastPart, PartTaken
  <2>q. QED
    BY <1>3, <2>2, <2>3
<1>q. QED
  BY ZenonT(60), <1>2, <1>4, <1>5, <1>6 DEF Next, PageActs, vars, Open, Reap, GoIdle,
     ToldItEnded, Leave, RenameAnswered,
     FirstPart, PartFails, JoinAgain, Rename, PutOut, Join, SetRole, Claim, Release

(* No line is of a member the owner has not let write.                     *)
THEOREM GrantedWrite == Spec => OnlyTheGrantedWrite
<1>1. ASSUME NodeInv, [Next]_vars, Len(lines') > Len(lines) PROVE lines'[Len(lines')].maker \in granted
  <2>1. PICK p \in Pages, b \in Boxes \cup {NoBox}, w \in BOOLEAN :
          /\ IsMember(p) /\ CanWrite(page[p].name) /\ lines'[Len(lines')] = Line(p, b, w)
    BY <1>1, LineSteps
  <2>q. QED
    BY <1>1, <2>1 DEF NodeInv, Writers, IsMember, Line
<1>2. NodeInv /\ [Next]_vars => (Len(lines') > Len(lines) => lines'[Len(lines')].maker \in granted)
  BY <1>1
<1>q. QED
  BY <1>2, NodeInductive, PTL DEF Spec, OnlyTheGrantedWrite

(* No text line for a box comes from another hand than the one it is in.   *)
THEOREM HandWritesText == Spec => TextFollowsTheHand
<1>1. ASSUME NodeInv, [Next]_vars, NEW b \in Boxes, Len(lines') > Len(lines), lines'[Len(lines')].box = b
      PROVE  hand[b] \in {0, lines'[Len(lines')].maker}
  <2>1. PICK p \in Pages, x \in Boxes \cup {NoBox}, w \in BOOLEAN :
          /\ IsMember(p) /\ (x # NoBox => ClaimFree(x, page[p].name))
          /\ lines'[Len(lines')] = Line(p, x, w)
    BY <1>1, LineSteps
  <2>2. x = b /\ lines'[Len(lines')].maker = page[p].token
    BY <1>1, <2>1 DEF Line
  <2>3. b # NoBox /\ NoName \notin Names
    BY NodeAssumption DEF NodeAssumption
  <2>4. ClaimFree(b, page[p].name)
    BY <2>1, <2>2, <2>3
  <2>5. CASE hand[b] # 0
    <3>1. /\ claims[b].who \in Names /\ ~claims[b].idle
          /\ roster[claims[b].who].token = hand[b]
      BY <1>1, <2>5 DEF NodeInv, Hands
    <3>2. claims[b].who = page[p].name
      BY <2>3, <2>4, <2>5, <3>1 DEF ClaimFree, Present
    <3>q. QED
      BY <2>1, <2>2, <3>1, <3>2 DEF IsMember
  <2>q. QED
    BY <2>5
<1>2. NodeInv /\ [Next]_vars =>
        \A b \in Boxes :
          /\ Len(lines') > Len(lines) /\ lines'[Len(lines')].box = b
          => hand[b] \in {0, lines'[Len(lines')].maker}
  BY <1>1
<1>q. QED
  BY <1>2, NodeInductive, PTL DEF Spec, TextFollowsTheHand
==============================================================================

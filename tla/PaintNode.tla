------------------------------- MODULE PaintNode -------------------------------
(***************************************************************************)
(* One session of a canvas's node (PaintProvider.h, PaintNode): who is in  *)
(* the room, who may write, whose hand is on which text box, and the       *)
(* record; and of each page (scripts/www/index.html) what it knows of it:  *)
(* the name and the token its requests carry.                              *)
(*                                                                         *)
(* A request runs whole under m_mu, so it is one step; its answer may be   *)
(* lost.  The answer that matters between two requests is that of a        *)
(* rename: until it is in, the page's other timers ask under the old name. *)
(* A request that failed at the page is not run after a later one of the   *)
(* same page.  Time is the steps GoIdle and Reap; reapLocked opens every   *)
(* request, so between requests it has run or it has not.                  *)
(***************************************************************************)
EXTENDS Integers, Sequences, FiniteSets

CONSTANTS Pages,        \* the pages that open and follow the link
          Host,         \* the page that shares
          Names,        \* the names members go by
          Boxes,        \* the text boxes
          NoName, NoBox,
          MaxTokens,    \* bound: memberships granted
          MaxLines,     \* bound: lines of the record
          MaxParts      \* bound: pushes that go in parts

ASSUME NodeAssumption ==
  /\ Host \in Pages /\ NoName \notin Names /\ NoBox \notin Boxes
  /\ MaxTokens \in Nat /\ MaxLines \in Nat /\ MaxParts \in Nat

VARIABLES session,      \* whether m_sessions holds it
          roster,       \* Session::roster, by name
          host,         \* Session::host
          claims,       \* Session::claims
          lines,        \* Session::lines
          minted,       \* tokens minted so far
          parted,       \* pushes begun in parts so far
          page,         \* share of each page
          granted,      \* history: the tokens the owner lets write
          hand          \* history: the token a box was last given to

vars == <<session, roster, host, claims, lines, minted, parted, page, granted, hand>>

Roles   == {"none", "reader", "writer", "owner"}
Tokens  == 0 .. MaxTokens
Nobody  == [token |-> 0, role |-> "none", pending |-> <<>>]
NoClaim == [who |-> NoName, idle |-> FALSE]
Away    == [name |-> NoName, token |-> 0, kept |-> 0, asked |-> NoName, sending |-> 0]

Init ==
  /\ session = "none"
  /\ roster = [n \in Names |-> Nobody]
  /\ host = NoName
  /\ claims = [b \in Boxes |-> NoClaim]
  /\ lines = <<>>
  /\ minted = 0
  /\ parted = 0
  /\ page = [p \in Pages |-> Away]
  /\ granted = {}
  /\ hand = [b \in Boxes |-> 0]

Present(n)   == roster[n].token # 0
TokensIn     == {roster[n].token : n \in {m \in Names : Present(m)}}
CanWrite(n)  == roster[n].role \in {"writer", "owner"}

(* A request of p reaches its own membership: member().                    *)
IsMember(p) ==
  /\ page[p].token # 0
  /\ page[p].name \in Names
  /\ roster[page[p].name].token = page[p].token

(* Free for n: nobody holds it, n does, or the hand on it went idle or     *)
(* home.                                                                   *)
ClaimFree(b, n) ==
  claims[b].who \notin {NoName, n} => claims[b].idle \/ ~Present(claims[b].who)

(* The boxes whose hand goes when the tokens of out go.                    *)
HandWithout(out) == [b \in Boxes |-> IF hand[b] \in out THEN 0 ELSE hand[b]]

----------------------------------------------------------------------------
(* open and join.                                                          *)

Joined(p, n, t) == [page EXCEPT ![p] = [Away EXCEPT !.name = n, !.token = t, !.kept = t]]

Open(n) ==
  /\ session = "none" /\ minted < MaxTokens
  /\ session' = "open"
  /\ minted' = minted + 1
  /\ roster' = [roster EXCEPT ![n] = [Nobody EXCEPT !.token = minted', !.role = "owner"]]
  /\ host' = n
  /\ page' = [page EXCEPT ![Host] = [Away EXCEPT !.name = n, !.token = minted']]
  /\ granted' = {minted'}
  /\ UNCHANGED <<claims, lines, parted, hand>>

\* Mutant: a name already in the roster is shared rather than suffixed.
JoinAs_ByName(p, asked, n) ==
  /\ n = asked /\ Present(n)
  /\ page' = Joined(p, n, roster[n].token)
  /\ UNCHANGED <<minted, roster>>

(* A new member, as asked or, when that is taken, under a name that is not.*)
JoinAs(p, asked, n) ==
  /\ ~Present(n) /\ (n # asked => Present(asked))
  /\ minted < MaxTokens
  /\ minted' = minted + 1
  /\ roster' = [roster EXCEPT ![n] = [Nobody EXCEPT !.token = minted', !.role = "reader"]]
  /\ page' = Joined(p, n, minted')

Join(p, asked, n) ==
  /\ p # Host /\ page[p].token = 0
  /\ session = "open"
  /\ page[p].kept = 0 \/ page[p].kept \notin TokensIn
  /\ JoinAs(p, asked, n)
  /\ UNCHANGED <<session, host, claims, lines, parted, granted, hand>>

(* A reload comes back with the token it was given and gets its own        *)
(* membership, under the name it has now.                                  *)
JoinAgain(p, n) ==
  /\ p # Host /\ page[p].token = 0
  /\ session = "open"
  /\ page[p].kept # 0 /\ roster[n].token = page[p].kept
  /\ page' = Joined(p, n, page[p].kept)
  /\ UNCHANGED <<session, roster, host, claims, lines, minted, parted, granted, hand>>

(* leaveSession, or a reload: the node hears nothing of either.            *)
Leaves(p) == page' = [page EXCEPT ![p] = [Away EXCEPT !.kept = page[p].kept]]

Leave(p) ==
  /\ page[p].token # 0
  /\ Leaves(p)
  /\ UNCHANGED <<session, roster, host, claims, lines, minted, parted, granted, hand>>

(* A read, or a guest's asking for its role, that is answered FORBIDDEN or *)
(* NO SUCH SESSION.                                                        *)
ToldItEnded(p) ==
  /\ page[p].token # 0 /\ ~IsMember(p)
  /\ Leaves(p)
  /\ UNCHANGED <<session, roster, host, claims, lines, minted, parted, granted, hand>>

----------------------------------------------------------------------------
(* rename, and its answer.                                                 *)

Moved(n, want) == [roster EXCEPT ![n] = Nobody, ![want] = roster[n]]
\* Mutant: the claims stay under the name the member had.
ClaimsMoved_Stay(n, want) == claims
ClaimsMoved(n, want) ==
  [b \in Boxes |-> IF claims[b].who = n THEN [claims[b] EXCEPT !.who = want] ELSE claims[b]]

\* Mutant: the name is not asked after.
Rename_Over(p, want) ==
  LET n == page[p].name IN
  /\ IsMember(p) /\ page[p].asked = NoName /\ want # n
  /\ roster' = Moved(n, want)
  /\ host' = IF host = n THEN want ELSE host
  /\ claims' = ClaimsMoved(n, want)
  /\ page' = [page EXCEPT ![p].asked = want]
  /\ UNCHANGED <<session, lines, minted, parted, granted, hand>>

Rename(p, want) ==
  LET n == page[p].name IN
  /\ IsMember(p) /\ page[p].asked = NoName
  /\ want # n /\ ~Present(want)
  /\ roster' = Moved(n, want)
  /\ host' = IF host = n THEN want ELSE host
  /\ claims' = ClaimsMoved(n, want)
  /\ page' = [page EXCEPT ![p].asked = want]
  /\ UNCHANGED <<session, lines, minted, parted, granted, hand>>

RenameAnswered(p) ==
  /\ page[p].asked # NoName
  /\ \E got \in {page[p].asked, page[p].name} :   \* the second: no answer
        page' = [page EXCEPT ![p].name = got, ![p].asked = NoName]
  /\ UNCHANGED <<session, roster, host, claims, lines, minted, parted, granted, hand>>

----------------------------------------------------------------------------
(* claim and release, and what time does to them.                          *)

Claim(p, b) ==
  LET n == page[p].name IN
  /\ IsMember(p) /\ CanWrite(n) /\ ClaimFree(b, n)
  /\ claims' = [claims EXCEPT ![b] = [who |-> n, idle |-> FALSE]]
  /\ hand' = [hand EXCEPT ![b] = page[p].token]
  /\ UNCHANGED <<session, roster, host, lines, minted, parted, page, granted>>

Release(p, b) ==
  /\ IsMember(p) /\ claims[b].who = page[p].name
  /\ claims' = [claims EXCEPT ![b] = NoClaim]
  /\ hand' = [hand EXCEPT ![b] = 0]
  /\ UNCHANGED <<session, roster, host, lines, minted, parted, page, granted>>

(* kClaimSeconds without a touch.                                          *)
GoIdle(b) ==
  /\ claims[b].who # NoName /\ ~claims[b].idle
  /\ claims' = [claims EXCEPT ![b].idle = TRUE]
  /\ hand' = [hand EXCEPT ![b] = 0]
  /\ UNCHANGED <<session, roster, host, lines, minted, parted, page, granted>>

(* kIdleSeconds without a request: any claim went idle long before.        *)
Reap(n) ==
  /\ Present(n) /\ roster[n].role # "owner"
  /\ \A b \in Boxes : claims[b].who = n => claims[b].idle
  /\ roster' = [roster EXCEPT ![n] = Nobody]
  /\ hand' = HandWithout({roster[n].token})
  /\ UNCHANGED <<session, host, claims, lines, minted, parted, page, granted>>

----------------------------------------------------------------------------
(* push, and a push in two parts.  A line is its author, the box it states *)
(* and whether it is one that a page exported; its maker is history.       *)

Line(p, b, whole) == [author |-> page[p].name, box |-> b, whole |-> whole,
                      maker |-> page[p].token]

\* Mutant: a text line is stored whoever holds the box.
PushLocked_AnyHand(p, b, whole) == lines' = Append(lines, Line(p, b, whole))

PushLocked(p, b, whole) ==
  /\ b # NoBox => ClaimFree(b, page[p].name)
  /\ lines' = Append(lines, Line(p, b, whole))

Push(p, b) ==
  /\ page[p].sending = 0 /\ Len(lines) < MaxLines
  /\ IsMember(p) /\ CanWrite(page[p].name)
  /\ PushLocked(p, b, TRUE)
  /\ UNCHANGED <<session, roster, host, claims, minted, parted, page, granted, hand>>

\* Mutant: part 0 does not start over.
Collected_Kept(n, i, body) == Append(roster[n].pending, body)

Collected(n, i, body) ==
  IF i = 0 THEN <<body>> ELSE Append(roster[n].pending, body)

\* Mutant: a part is taken from any member.
PartTaken_Any(p) == IsMember(p)
PartTaken(p) == IsMember(p) /\ CanWrite(page[p].name)

Goes(p, body) == page' = [page EXCEPT ![p].sending = body]

(* The first part is taken and answered; or it is taken and the page hears *)
(* nothing of it.                                                          *)
FirstPart(p) ==
  LET n == page[p].name IN
  /\ page[p].token # 0 /\ page[p].sending = 0 /\ parted < MaxParts
  /\ parted' = parted + 1
  /\ PartTaken(p)
  /\ roster' = [roster EXCEPT ![n].pending = Collected(n, 0, parted')]
  /\ Goes(p, parted') \/ Goes(p, 0)
  /\ UNCHANGED <<session, host, claims, lines, minted, granted, hand>>

(* The last part is taken, and the whole with it.                          *)
LastPart(p) ==
  LET n == page[p].name
      body == Collected(n, 1, page[p].sending)
  IN
  /\ page[p].sending # 0 /\ Len(lines) < MaxLines
  /\ PartTaken(p)
  /\ roster' = [roster EXCEPT ![n].pending = <<>>]
  /\ PushLocked(p, NoBox, body = <<page[p].sending, page[p].sending>>)
  /\ Goes(p, 0)
  /\ UNCHANGED <<session, host, claims, minted, parted, granted, hand>>

(* The last part is refused, or fails on its way.                          *)
PartFails(p) ==
  /\ page[p].sending # 0
  /\ Goes(p, 0)
  /\ UNCHANGED <<session, roster, host, claims, lines, minted, parted, granted, hand>>

----------------------------------------------------------------------------
(* The host's own verbs.                                                   *)

IsOwner(p) == IsMember(p) /\ roster[page[p].name].role = "owner"

SetRole(p, guest, want) ==
  /\ p = Host /\ IsOwner(p)
  /\ Present(guest) /\ roster[guest].role # "owner"
  /\ roster' = [roster EXCEPT ![guest].role = want]
  /\ granted' = IF want = "writer" THEN granted \cup {roster[guest].token}
                ELSE granted \ {roster[guest].token}
  /\ UNCHANGED <<session, host, claims, lines, minted, parted, page, hand>>

\* Mutant: who is put out keeps the token, with no role.
PutOut_ByRole(p, guest) ==
  /\ p = Host /\ IsOwner(p)
  /\ Present(guest) /\ roster[guest].role # "owner"
  /\ roster' = [roster EXCEPT ![guest].role = "none"]
  /\ granted' = granted \ {roster[guest].token}
  /\ hand' = HandWithout({roster[guest].token})
  /\ UNCHANGED <<session, host, claims, lines, minted, parted, page>>

PutOut(p, guest) ==
  /\ p = Host /\ IsOwner(p)
  /\ Present(guest) /\ roster[guest].role # "owner"
  /\ roster' = [roster EXCEPT ![guest] = Nobody]
  /\ granted' = granted \ {roster[guest].token}
  /\ hand' = HandWithout({roster[guest].token})
  /\ UNCHANGED <<session, host, claims, lines, minted, parted, page>>

(* Closing the sharing window: the page leaves, whatever the answer is.    *)
Close(p) ==
  /\ p = Host /\ page[p].token # 0
  /\ Leaves(p)
  /\ IF IsOwner(p)
     THEN /\ session' = "closed"
          /\ roster' = [n \in Names |-> Nobody]
          /\ host' = NoName
          /\ claims' = [b \in Boxes |-> NoClaim]
          /\ lines' = <<>>
          /\ hand' = [b \in Boxes |-> 0]
     ELSE UNCHANGED <<session, roster, host, claims, lines, hand>>
  /\ UNCHANGED <<minted, parted, granted>>

----------------------------------------------------------------------------
PageActs(p) ==
  \/ ToldItEnded(p) \/ Leave(p) \/ RenameAnswered(p) \/ Close(p)
  \/ FirstPart(p) \/ LastPart(p) \/ PartFails(p)
  \/ \E n \in Names : JoinAgain(p, n) \/ Rename(p, n) \/ PutOut(p, n)
  \/ \E asked, n \in Names : Join(p, asked, n)
  \/ \E n \in Names, want \in {"reader", "writer"} : SetRole(p, n, want)
  \/ \E b \in Boxes : Claim(p, b) \/ Release(p, b)
  \/ \E b \in Boxes \cup {NoBox} : Push(p, b)

Next ==
  \/ \E n \in Names : Open(n) \/ Reap(n)
  \/ \E b \in Boxes : GoIdle(b)
  \/ \E p \in Pages : PageActs(p)

Spec == Init /\ [][Next]_vars

----------------------------------------------------------------------------
(* What every variable holds.                                              *)
Members == [token : Tokens, role : Roles, pending : Seq(1 .. MaxParts)]
Lines   == [author : Names, box : Boxes \cup {NoBox}, whole : BOOLEAN, maker : Tokens]
Shares  == [name : Names \cup {NoName}, token : Tokens, kept : Tokens,
            asked : Names \cup {NoName}, sending : 0 .. MaxParts]

TypeOK ==
  /\ session \in {"none", "open", "closed"}
  /\ roster \in [Names -> Members]
  /\ \A n \in Names : Present(n) <=> roster[n].role # "none"
  /\ host \in Names \cup {NoName}
  /\ claims \in [Boxes -> [who : Names \cup {NoName}, idle : BOOLEAN]]
  /\ lines \in Seq(Lines)
  /\ minted \in Tokens
  /\ parted \in 0 .. MaxParts
  /\ page \in [Pages -> Shares]
  /\ granted \in SUBSET Tokens
  /\ hand \in [Boxes -> Tokens]

(* While a session is open it has one owner, who answers to Session::host, *)
(* through every rename, removal and reaping: so it is never left without  *)
(* the one member who may close it, and reapLocked never finds it empty.   *)
OneOwner ==
  IF session = "open"
  THEN host \in Names /\ \A n \in Names : (roster[n].role = "owner") <=> (n = host)
  ELSE \A n \in Names : ~Present(n)

(* The token is the identity (join): no two members and no two pages hold  *)
(* the same one, whatever name they asked for.                             *)
TokensApart ==
  /\ \A m, n \in Names : Present(n) /\ roster[m].token = roster[n].token => m = n
  /\ \A p, q \in Pages : page[p].token # 0 /\ page[p].token = page[q].token => p = q

(* A box is written by the hand it was given to: from the moment a claim   *)
(* is granted until it is released, goes idle or its member is gone, no    *)
(* text line for it comes from anyone else, whoever is renamed meanwhile.  *)
TextFollowsTheHand ==
  [][\A b \in Boxes :
       /\ Len(lines') > Len(lines) /\ lines'[Len(lines')].box = b
       => hand[b] \in {0, lines'[Len(lines')].maker}]_vars

(* Only who the owner lets write is in the record: a line stored in one    *)
(* request or joined from parts is of a member whose last answer from the  *)
(* owner was "writer", under any name, after any reload.                   *)
OnlyTheGrantedWrite ==
  [][Len(lines') > Len(lines) => lines'[Len(lines')].maker \in granted]_vars

(* A push in parts lands as it was sent: what an abandoned push left       *)
(* behind is in no line, whatever failed and whoever came back.            *)
PushesLandWhole == \A i \in DOMAIN lines : lines[i].whole

(* A page that is told the session ended has been closed or removed (the   *)
(* comment of readTheirs): its membership is gone.                         *)
TheEndedAreOut ==
  [][\A p \in Pages : ToldItEnded(p) => page[p].token \notin TokensIn]_vars

(* Lines under a member's name are that member's, so that an undo takes    *)
(* back strokes of the one who asks for it.                                *)
NamesAreOnePersons ==
  \A i \in DOMAIN lines :
    LET n == lines[i].author IN Present(n) => roster[n].token = lines[i].maker
=============================================================================

------------------------------- MODULE PaintRoom -------------------------------
(***************************************************************************)
(* A shared canvas: the pages of the members (PaintProvider.h), the timers *)
(* that push and read for them (scripts/www/index.html), and the record of *)
(* the node between them (PaintNode), which numbers lines and judges roles *)
(* and draws nothing.                                                      *)
(*                                                                         *)
(* share.busy keeps a page's push and its read apart.  What a page does    *)
(* between asking for a read and importing it leaves the record alone, so  *)
(* a read is one step that takes all there is (a head put back to nothing  *)
(* in that moment, which the answer then overwrites, is left out); a push  *)
(* is two, since what is drawn while it is in flight comes off with it     *)
(* when it is not taken.                                                   *)
(***************************************************************************)
EXTENDS PaintShared

CONSTANTS Owner,        \* the member who opened the session
          Guests,       \* the members who followed the link
          OwnersPage,   \* the layers of the page that is shared
          GuestsPage,   \* the layers of the page a guest puts away
          Stride,       \* bound: marks a member can make
          Budgets       \* bounds: how much of each thing a behaviour may hold

ASSUME RoomAssumption == Owner \notin Guests /\ Stride \in Nat \ {0}

Members == {Owner} \cup Guests

VARIABLES page,         \* m_document of each member
          record,       \* Session::lines
          role,         \* Member::role
          head,         \* share.head
          outbox,       \* what a push in flight carries
          tries,        \* share.tries, no further than 2
          want,         \* share.want_page
          budget,       \* bound: what is left of it
          adrift        \* history: members the record may have left: see Adrift

vars == <<page, record, role, head, outbox, tries, want, budget, adrift>>

FirstOf(m) == IF m = Owner THEN 1
              ELSE 1 + Stride * (CHOOSE i \in 1 .. Cardinality(Guests) :
                                   SetToSeq(Guests)[i] = m)

(* The owner's page has gone to the record; the guests have read nothing.  *)
Init ==
  LET shared == WholePage(FreshPage(OwnersPage, Owner, 1))
  IN /\ page = [m \in Members |-> IF m = Owner THEN shared.doc
                                  ELSE FreshPage(GuestsPage, m, FirstOf(m))]
     /\ record = shared.lines
     /\ role = [m \in Members |-> IF m = Owner THEN "owner" ELSE "writer"]
     /\ head = [m \in Members |-> 0]
     /\ outbox = [m \in Members |-> <<>>]
     /\ tries = [m \in Members |-> 0]
     /\ want = [m \in Members |-> FALSE]
     /\ budget \in Budgets
     /\ adrift = {}

Spends(kind) == budget[kind] > 0 /\ budget' = [budget EXCEPT ![kind] = @ - 1]

roomVars == <<record, role, head, outbox, tries, want, adrift>>

Draws(m, d) == page' = [page EXCEPT ![m] = Pruned(d)] /\ UNCHANGED roomVars

----------------------------------------------------------------------------
(* What a member does to the page in front of them.                        *)

BeginStroke(m) ==
  /\ page[m].open = <<>>
  /\ Spends("marks") /\ Draws(m, StrokeTo(RememberOp(page[m])))
EndStroke(m) == page[m].open # <<>> /\ UNCHANGED budget /\ Draws(m, SealOpenOp(page[m]))

FillLayer(m) ==
  /\ page[m].open = <<>>
  /\ Spends("marks") /\ Draws(m, Perform(page[m], page[m].active, "fill"))
ClearLayer(m) == \E f \in ToSet(page[m].stack) :
  Spends("marks") /\ Draws(m, Perform(page[m], f.key, "clear"))

ChangeFace(m) == \E i \in DOMAIN page[m].stack :
  Spends("stacks") /\ Draws(m, FaceChange(page[m], [page[m].stack EXCEPT ![i].face = 1 - @]))
DeleteLayer(m) == \E i \in 2 .. Len(page[m].stack) :
  Spends("stacks") /\ Draws(m, RemoveLayer(page[m], page[m].stack[i].key))
ResizePage(m) == Spends("pages") /\ Draws(m, Resize(page[m]))
NewPage(m)    == Spends("pages") /\ Draws(m, New(page[m]))

AddBox(m) == \E b \in Boxes :
  /\ \A o \in Members : page[o].text[b] = NoText
  /\ \A i \in DOMAIN record : record[i].box # b
  /\ Spends("texts") /\ Draws(m, SetTextBoxText(PlaceTextBox(page[m], b), b, TRUE))
CloseBox(m) == page[m].sel # NoBox /\ UNCHANGED budget /\ Draws(m, SelectTextBox(page[m], NoBox))

UndoKey(m) == Spends("undos") /\ Draws(m, Retract(Ended(page[m]), "undo"))
RedoKey(m) == Spends("undos") /\ Draws(m, Retract(Ended(page[m]), "redo"))

----------------------------------------------------------------------------
(* pushMine: what is new goes, and comes off again unless the node took it *)
(* and said so.                                                            *)

Statement(lines) == lines # <<>> /\ lines[1].kind = "page"

HasNews(d) ==
  \/ d.changed \/ (d.restate /\ d.open = <<>>)
  \/ \E i \in PendingAt(d) : ~PathOf(d)[i].sent

CanPush(m) == outbox[m] = <<>> /\ HasNews(page[m])

(* Adrift: what the code does not provide for.  A page is stated while a   *)
(* stroke or a box is open in it, or with marks on its path that the       *)
(* record will not have; the statement is not taken; lines it has not read *)
(* are ahead of it; or the page steps back to a path with no keyframe of a *)
(* layer, or of the stack, so that a replay leaves it as it is.            *)
HistoryGoesOn(d) ==
  \/ d.sel # NoBox
  \/ ~d.restate /\ (d.open # <<>> \/ \E i \in DOMAIN PathOf(d) : Marks(PathOf(d)[i]))

Unkeyed(d, e) ==
  \/ OnStack(d, e.layer) /\ ~KeyframedOn(PathOf(d), e.layer)
  \/ Structural(e) /\ \A i \in DOMAIN PathOf(d) : ~Structural(PathOf(d)[i])

(* A mark with no keyframe of its layer above it.                          *)
Grounded(d) ==
  LET path == PathOf(d)
  IN \A i \in DOMAIN path :
       Marks(path[i]) /\ path[i].layer # NoLayer /\ ~Keyframes(path[i])
         => KeyframedOn(SubSeq(path, 1, i), path[i].layer)

LosesGround(d, e) == \E i \in PendingAt(d) : Unkeyed(e, PathOf(d)[i])

Push(m) ==
  LET sent == Export(page[m]) IN
  /\ CanPush(m)
  /\ page' = [page EXCEPT ![m] = Pruned(sent.doc)]
  /\ outbox' = [outbox EXCEPT ![m] = sent.lines]
  /\ adrift' = IF ~Statement(sent.lines) THEN adrift
               ELSE IF HistoryGoesOn(page[m]) THEN adrift \cup {m} ELSE adrift \ {m}
  /\ UNCHANGED <<record, role, head, tries, want, budget>>

Answered(m) ==
  /\ outbox' = [outbox EXCEPT ![m] = <<>>]
  /\ UNCHANGED <<role, head, tries, want>>

Loses == Spends("losses")
Reverts(m) ==
  LET back == Pruned(RevertPending(page[m]))
      left == LosesGround(page[m], back)
              \/ (Statement(outbox[m]) /\ record' = record)
  IN /\ page' = [page EXCEPT ![m] = back]
     /\ adrift' = IF left THEN adrift \cup {m} ELSE adrift
PushTaken(m) ==
  /\ outbox[m] # <<>> /\ role[m] # "reader"
  /\ record' = record \o outbox[m]
  /\ \/ UNCHANGED <<page, budget, adrift>>
     \/ Loses /\ Reverts(m)
  /\ Answered(m)

PushNotTaken(m) ==
  /\ outbox[m] # <<>>
  /\ IF role[m] = "reader" THEN UNCHANGED budget ELSE Loses
  /\ UNCHANGED record
  /\ Reverts(m)
  /\ Answered(m)

----------------------------------------------------------------------------
(* readTheirs.                                                             *)

LastPage == CHOOSE i \in DOMAIN record :
              /\ record[i].kind = "page"
              /\ \A j \in i + 1 .. Len(record) : record[j].kind # "page"

PassesOver(m, i) == record[i].author = m /\ page[m].stated = <<record[i]>>

Unread(m) == SubSeq(record, head[m] + 1, Len(record))

CanRead(m) == outbox[m] = <<>> /\ head[m] < Len(record)

Read(m) ==
  /\ CanRead(m)
  /\ page' = [page EXCEPT ![m] = Pruned(Import(@, Unread(m)))]
  /\ head' = [head EXCEPT ![m] = Len(record)]
  /\ adrift' = IF LastPage > head[m] /\ ~PassesOver(m, LastPage) THEN adrift \ {m}
               ELSE IF ~Grounded(page'[m]) THEN adrift \cup {m}
               ELSE IF LastPage <= head[m] THEN adrift
               ELSE IF \E i \in head[m] + 1 .. LastPage : record[i].author # m
               THEN adrift \cup {m} ELSE adrift
  /\ UNCHANGED <<record, role, outbox, tries, want, budget>>

----------------------------------------------------------------------------
(* readViews: the owner's picture is the room's.  Three ticks at one head  *)
(* are taken as one comparison of settled pictures.                        *)

Compares(m) ==
  /\ m # Owner
  /\ head[m] = head[Owner] /\ head[m] > 0
  /\ Settled(page[m]) /\ Settled(page[Owner])

SamePicture(m) == PictureOf(page[m]) = PictureOf(page[Owner])

Differs(m)  == Compares(m) /\ ~SamePicture(m)
Relieved(m) == Compares(m) /\ SamePicture(m) /\ (tries[m] > 0 \/ want[m])

\* Mutant: a member reads again and again, and never asks for the page.
OutOfStep_NeverAsks(m) ==
  /\ Differs(m)
  /\ tries' = [tries EXCEPT ![m] = IF @ = 2 THEN 2 ELSE @ + 1]
  /\ head' = [head EXCEPT ![m] = 0]
  /\ UNCHANGED <<page, record, role, outbox, want, budget, adrift>>

OutOfStep(m) ==
  /\ Differs(m)
  /\ tries' = [tries EXCEPT ![m] = IF @ = 2 THEN 2 ELSE @ + 1]
  /\ want' = [want EXCEPT ![m] = @ \/ tries[m] >= 1]
  /\ head' = [head EXCEPT ![m] = 0]
  /\ UNCHANGED <<page, record, role, outbox, budget, adrift>>

InStep(m) ==
  /\ Relieved(m)
  /\ tries' = [tries EXCEPT ![m] = 0]
  /\ want' = [want EXCEPT ![m] = FALSE]
  /\ UNCHANGED <<page, record, role, head, outbox, budget, adrift>>

(* At most every twenty seconds: bound, a member that still differs has    *)
(* read what was stated before and has nothing of its own under way.       *)
CanRestate(m) ==
  /\ want[m] /\ Differs(m) /\ head[m] = Len(record)
  /\ outbox[Owner] = <<>> /\ page[Owner].stated = <<>>
  /\ ~page[Owner].restate

Restate(m) ==
  /\ CanRestate(m)
  /\ page' = [page EXCEPT ![Owner].restate = TRUE]
  /\ UNCHANGED <<roomVars, budget>>

----------------------------------------------------------------------------
(* The owner's buttons.                                                    *)

SetRole(m) ==
  /\ m # Owner /\ Spends("roles")
  /\ role' = [role EXCEPT ![m] = IF @ = "reader" THEN "writer" ELSE "reader"]
  /\ UNCHANGED <<page, record, head, outbox, tries, want, adrift>>

Edits(m) ==
  \/ BeginStroke(m) \/ EndStroke(m) \/ FillLayer(m) \/ ClearLayer(m)
  \/ ChangeFace(m) \/ DeleteLayer(m) \/ ResizePage(m) \/ NewPage(m)
  \/ AddBox(m) \/ CloseBox(m)
  \/ UndoKey(m) \/ RedoKey(m)

Next == \E m \in Members :
  \/ Edits(m)
  \/ Push(m) \/ PushTaken(m) \/ PushNotTaken(m) \/ Read(m)
  \/ OutOfStep(m) \/ InStep(m) \/ Restate(m) \/ SetRole(m)

(* The timers run and requests are answered; nobody has to draw.  Each     *)
(* conjunct is WF_vars of its action with the action's guard written out   *)
(* for ENABLED; the last is SF_vars: the owner looks at every tick, and a  *)
(* member out of step takes three of them to give up what it has read.     *)
Fairness == \A m \in Members :
  /\ []<>~CanPush(m) \/ []<><<Push(m)>>_vars
  /\ []<>(outbox[m] = <<>>) \/ []<><<PushTaken(m) \/ PushNotTaken(m)>>_vars
  /\ []<>~CanRead(m) \/ []<><<Read(m)>>_vars
  /\ []<>~Differs(m) \/ []<><<OutOfStep(m)>>_vars
  /\ []<>~Relieved(m) \/ []<><<InStep(m)>>_vars
  /\ <>[]~CanRestate(m) \/ []<><<Restate(m)>>_vars

Spec     == Init /\ [][Next]_vars
FairSpec == Spec /\ Fairness

----------------------------------------------------------------------------
(* The picture a record is: its last page, and the marks after it that     *)
(* nobody took back, in the record's order.                                *)

RecordsPath == SubSeq(record, LastPage + 1, Len(record))

RecordsPicture ==
  LET after == RecordsPath
      gone  == RetractedMask(after)
      stands == SelectSeq([i \in DOMAIN after |-> i],
                          LAMBDA i : i \notin gone /\ ~Retraction(after[i]))
      path  == [k \in DOMAIN stands |-> after[stands[k]]]
      stack == RosterOf(path, record[LastPage].roster)
      draw(l, pic, e) == IF e.layer # l THEN pic
                         ELSE IF Keyframes(e) THEN e.pic
                         ELSE IF Marks(e) THEN Drawn(pic, e) ELSE pic
  IN [stack |-> stack, text |-> TextOf(path, Boxes),
      pic |-> [l \in Layers |-> IF l \notin LayersOf(stack) THEN <<>>
                 ELSE FoldLeft(LAMBDA pic, e : draw(l, pic, e), <<>>, path)]]

UpToDate(m) ==
  /\ head[m] = Len(record) /\ outbox[m] = <<>>
  /\ Settled(page[m]) /\ page[m].stated = <<>>

TypeOK ==
  /\ \A m \in Members :
       /\ LayersOf(page[m].stack) \subseteq Layers
       /\ page[m].active \in LayersOf(page[m].stack)
       /\ page[m].cursor = Len(page[m].book)
       /\ page[m].made \in FirstOf(m) .. FirstOf(m) + Stride
       /\ page[m].left \in 0 .. Len(record) + Len(outbox[m])
       /\ head[m] \in 0 .. Len(record)
       /\ tries[m] \in 0 .. 2
  /\ adrift \subseteq Members

(* A page that has read the record and has nothing of its own under way    *)
(* shows the picture the record is, whoever drew it and whatever order its *)
(* own marks were first drawn in (AcceptOp, "THE ROOM FIRST").             *)
PictureIsTheRecords ==
  \A m \in Members :
    UpToDate(m) /\ m \notin adrift /\ Grounded(page[m])
      => PictureOf(page[m]) = RecordsPicture

(* The same of a page whose history has no ground for a mark: "every       *)
(* member applies the same entries in the same order, the one who made     *)
(* them included" (AcceptOp).                                              *)
PictureIsAlwaysTheRecords ==
  \A m \in Members :
    UpToDate(m) => PictureOf(page[m]) = RecordsPicture

(* An undo in a room takes no other author's mark off the page (retract:   *)
(* "its own, never anybody else's"); one of a clear may bring some back.   *)
MarksOf(o, pic) == ToSet(pic) \cap (FirstOf(o) + 1 .. FirstOf(o) + Stride)

UndoIsOnesOwn ==
  [][\A m \in Members : UndoKey(m) /\ Grounded(page[m]) =>
       \A o \in Members \ {m}, l \in Layers :
         OnStack(page[m], l) /\ OnStack(page'[m], l) =>
           MarksOf(o, page[m].pic[l]) \subseteq MarksOf(o, page'[m].pic[l])]_vars

(* Once nobody holds a stroke or a box open, everybody ends up looking at  *)
(* the owner's picture, whatever was lost or stated on the way.            *)
Together ==
  \A m \in Members : head[m] = Len(record) /\ PictureOf(page[m]) = PictureOf(page[Owner])

Converges ==
  <>[](\A m \in Members : page[m].open = <<>> /\ page[m].sel = NoBox) => <>[]Together
================================================================================

------------------------------ MODULE PaintHistory ------------------------------
(***************************************************************************)
(* A page nobody shares: strokes, fills, carried and pasted selections,    *)
(* layers made, removed, merged, moved and renamed, text boxes, undo and   *)
(* the two redos over the tree of everything that was ever drawn.          *)
(***************************************************************************)
EXTENDS PaintDocument

CONSTANTS FirstPages,   \* the stacks a page can start with, bottom layer first
          Budgets       \* bounds: how many marks, changes of the stack, text
                        \* edits and resizes a behaviour may hold

ASSUME FirstPagesAssumption ==
  \A layers \in FirstPages :
    /\ layers \in Seq(Layers) /\ layers # <<>>
    /\ \A i, j \in DOMAIN layers : layers[i] = layers[j] => i = j

VARIABLES doc,
          budget,       \* bound: what is left of it
          paper,        \* history: the page where its history starts
          torn,         \* history: a replay put down what was carried
          loose         \* history: the boxes changed, or gone, with no entry

vars == <<doc, budget, paper, torn, loose>>

Ground(d) == [pic |-> d.pic, stack |-> d.stack]

Init ==
  /\ \E layers \in FirstPages : doc = FreshPage(layers, NoAuthor, 1)
  /\ budget \in Budgets
  /\ paper = Ground(doc)
  /\ torn = FALSE
  /\ loose = {}

Spends(kind) == budget[kind] > 0 /\ budget' = [budget EXCEPT ![kind] = @ - 1]

Becomes(d) == doc' = d /\ UNCHANGED <<paper, torn, loose>>
Draws(d)   == Becomes(d) /\ UNCHANGED budget

(* A press ends a carry whose release was lost; a paste goes on floating.   *)
Pressed == IF doc.lift # 0 /\ doc.lift \in ToSet(doc.pic[doc.active])
           THEN DropSelection(doc) ELSE doc

BeginStroke == doc.open = <<>> /\ Spends("marks") /\ Becomes(RememberOp(Pressed))
MoveStroke  == doc.open # <<>> /\ Draws(StrokeTo(doc))
EndStroke   == doc.open # <<>> /\ Draws(SealOpenOp(doc))

FillLayer  == Spends("marks") /\ Becomes(Perform(Pressed, doc.active, "fill"))
ClearLayer == \E f \in ToSet(doc.stack) :
                Spends("marks") /\ Becomes(Perform(doc, f.key, "clear"))

Paste == Spends("marks") /\ Becomes(PasteSelection(doc))
Lift  == doc.lift = 0 /\ Spends("marks") /\ Becomes(LiftForCarry(doc))
Drop  == doc.lift # 0 /\ Draws(DropSelection(doc))

Activate == \E f \in ToSet(doc.stack) :
              f.key # doc.active /\ Draws(SetActiveLayer(doc, f.key))

(* A key is a hash of the moment it is made in: never one seen before.     *)
Unseen(l) ==
  /\ l \notin LayersOf(doc.stack) \cup LayersOf(paper.stack)
  /\ \A n \in DOMAIN doc.book : l \notin LayersOf(doc.book[n].roster)

Restacks(d) == Spends("stacks") /\ Becomes(d)

AddLayer == \E l \in Layers : Unseen(l) /\ Restacks(NewLayer(doc, l))

DeleteLayer == \E i \in 2 .. Len(doc.stack) : Restacks(RemoveLayer(doc, doc.stack[i].key))

Merge == \E i \in 1 .. Len(doc.stack) - 1 : \E j \in {i, i + 1} :
           Restacks(MergeLayer(doc, i, doc.stack[j].key))

MoveLayer == \E i, j \in DOMAIN doc.stack :
  i < j /\ Restacks(FaceChange(doc, InsertAt(RemoveAt(doc.stack, i), j, doc.stack[i])))

ChangeFace == \E i \in DOMAIN doc.stack :
  Restacks(FaceChange(doc, [doc.stack EXCEPT ![i].face = 1 - @]))

OnPage == {b \in Boxes : doc.text[b] # NoText}

(* The boxes that no entry accounts for once the page is d: those that were *)
(* loose and have no new entry, and one that the record has and that goes  *)
(* as if it had never been recorded.                                       *)
SaidSince(d) ==
  {b \in Boxes : \E n \in Len(doc.book) + 1 .. Len(d.book) :
                   d.book[n].kind = "text" /\ d.book[n].box = b}
Lost(d) == {b \in OnPage : doc.fresh = b /\ d.text[b] = NoText
                          /\ TextOf(PathOf(doc), Boxes)[b] # NoText}
Unaccounted(d) == (loose \ SaidSince(d)) \cup Lost(d)

Rewords(d) == doc' = d /\ loose' = Unaccounted(d) /\ UNCHANGED <<paper, torn>>

(* A key holds the name of who adds the box and a count: never one seen.   *)
NewBox(b) == /\ b \notin OnPage \cup loose
             /\ \A n \in DOMAIN doc.book : doc.book[n].box # b

AddBox == \E b \in Boxes :
  NewBox(b) /\ Spends("texts") /\ Rewords(PlaceTextBox(doc, b))
AddBoxUnopened == \E b \in Boxes :
  NewBox(b) /\ Spends("texts") /\ Rewords(AddTextBox(doc, b))
PickBox == \E b \in OnPage \cup {NoBox} :
  b # doc.sel /\ UNCHANGED budget /\ Rewords(SelectTextBox(doc, b))
TypeText == \E b \in OnPage, words \in BOOLEAN :
  Spends("texts") /\ Rewords(SetTextBoxText(doc, b, words))
RemoveBox(b) == b \in OnPage /\ Spends("texts") /\ Rewords(RemoveTextBox(doc, b))
DeleteBox == \E b \in Boxes : RemoveBox(b)

(* What becomes of an open box is part of its edit.                        *)
RestyleBox == \E b \in OnPage :
  /\ Spends("texts")
  /\ doc' = Restyled(doc, b)
  /\ loose' = IF b = doc.sel THEN loose ELSE loose \cup {b}
  /\ UNCHANGED <<paper, torn>>

(* Every replay sets all the boxes from the path.                          *)
Replays(d) ==
  /\ doc' = d
  /\ torn' = (torn \/ doc.lift # 0)
  /\ loose' = {}
  /\ UNCHANGED <<budget, paper>>

UndoKey    == NewestMark(Ended(doc)) # 0 /\ Replays(Undo(doc))
RedoKey    == RedoTargets(Ended(doc)) # <<>> /\ Replays(RedoAlong(doc, 1))
RedoAltKey == Len(RedoTargets(Ended(doc))) >= 2 /\ Replays(RedoAlong(doc, 2))

StartsAgain(d) ==
  /\ Spends("clears")
  /\ doc' = d
  /\ paper' = Ground(d)
  /\ torn' = FALSE
  /\ loose' = {}

ResizePage == StartsAgain(Resize(doc))
NewPage    == StartsAgain(New(doc))

Next ==
  \/ BeginStroke \/ MoveStroke \/ EndStroke
  \/ FillLayer \/ ClearLayer
  \/ Paste \/ Lift \/ Drop
  \/ Activate \/ AddLayer \/ DeleteLayer \/ Merge \/ MoveLayer \/ ChangeFace
  \/ AddBox \/ AddBoxUnopened \/ PickBox \/ TypeText \/ RestyleBox \/ DeleteBox
  \/ UndoKey \/ RedoKey \/ RedoAltKey
  \/ ResizePage \/ NewPage

Spec == Init /\ [][Next]_vars

----------------------------------------------------------------------------
(* What a page is: the marks along its path, in order, and nothing of any  *)
(* other branch; no keyframe has a part in it.                             *)

DrawnAlong(path, l) ==
  Laid(path, l, IF l \in LayersOf(paper.stack) THEN paper.pic[l] ELSE <<>>)

(* Every mark was drawn with a keyframe of its layer above it.             *)
Grounded ==
  \A n \in DOMAIN doc.book :
     LET e == doc.book[n] IN
       Marks(e) /\ e.layer # NoLayer /\ ~Keyframes(e)
         => KeyframedOn(Path(doc.book, n), e.layer)

AtRest == doc.open = <<>> /\ doc.lift = 0

PageOf(path) ==
  /\ doc.stack = RosterOf(path, paper.stack)
  /\ \A l \in LayersOf(doc.stack) : doc.pic[l] = DrawnAlong(path, l)

TypeOK ==
  /\ doc.cursor \in 0 .. Len(doc.book)
  /\ \A n \in DOMAIN doc.book : doc.book[n].parent \in 0 .. n - 1
  /\ LayersOf(doc.stack) \subseteq Layers /\ doc.stack # <<>>
  /\ doc.active \in LayersOf(doc.stack)
  /\ doc.since \in [Layers -> -1 .. SnapEvery]
  /\ doc.text \in [Boxes -> -doc.made .. doc.made] /\ loose \subseteq Boxes
  /\ doc.sel \in Boxes \cup {NoBox} /\ doc.fresh \in Boxes \cup {NoBox}
  /\ doc.sel # NoBox => doc.text[doc.sel] # NoText
  /\ doc.lift \in 0 .. doc.made /\ torn \in BOOLEAN

(* Wherever undo and redo have walked to, the layers and the stack are what *)
(* the path to that place drew (Undo: "a tree can simply name a node"),    *)
(* given a keyframe above every mark and no replay under a carry.          *)
PictureFollowsPath == Grounded /\ ~torn /\ AtRest => PageOf(PathOf(doc))

(* The same of every page that can be reached: what ChainTo's comment      *)
(* promises of a replay, that it never "paints a picture nobody ever made".*)
PictureAlwaysFollowsPath == AtRest => PageOf(PathOf(doc))

(* A box as the path says it is; only one without words may be on the page *)
(* with nothing said of it.                                                *)
Follows(b) ==
  \/ doc.text[b] = TextOf(PathOf(doc), Boxes)[b]
  \/ Wordless(doc.text[b]) /\ TextOf(PathOf(doc), Boxes)[b] = NoText

(* With no box open, the boxes are the last word the path said about each  *)
(* (rebuild_text), but for those changed with no entry: whatever was       *)
(* typed, opened, let go, removed, undone and redone, by tool or by verb.  *)
TextFollowsPath == doc.sel = NoBox => \A b \in Boxes \ loose : Follows(b)

(* The same of every box: "letting go ... ENDS THE EDIT, and that is the   *)
(* moment it is recorded ... with the box as it now stands"                *)
(* (SelectTextBox).  A box that is changed while it is not open breaks it. *)
TextAlwaysFollowsPath == doc.sel = NoBox => \A b \in Boxes : Follows(b)

(* A removed box is "gone, as one step of undo" (RemoveTextBox): the path  *)
(* says so.  A box that was written before it was ever opened breaks it.   *)
RemovalIsAStep ==
  [][\A b \in Boxes : RemoveBox(b) => TextOf(PathOf(doc'), Boxes)[b] = NoText]_vars

(* An undo discards nothing: one of the two redo keys brings the page back *)
(* as it stood before, the edit or stroke it ended included.  Of the boxes *)
(* it brings back those the record has: not one changed with no entry, and *)
(* not one without words that no entry is about.                           *)
OnRecord(d) == {b \in Boxes : ~Wordless(d.text[b]) \/ TextOf(PathOf(d), Boxes)[b] # NoText}

SamePage(d, e, boxes) ==
  d.pic = e.pic /\ d.stack = e.stack /\ \A b \in boxes : d.text[b] = e.text[b]

UndoIsReversible ==
  [][UndoKey /\ Grounded /\ ~torn' =>
       \E branch \in {1, 2} :
         SamePage(RedoAlong(doc', branch), Ended(doc),
                  OnRecord(Ended(doc)) \ Unaccounted(Ended(doc)))]_vars
================================================================================

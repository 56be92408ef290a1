----------------------------- MODULE PaintDocument -----------------------------
(***************************************************************************)
(* One page (PaintProvider.h, PaintDocument) as a record, and every        *)
(* operation on it as a function from a page to a page: what the input     *)
(* thread does to a local page, and what the page's half of a shared       *)
(* session does.  m_doc_mu makes each operation one step.                  *)
(*                                                                         *)
(* A mark is a number handed out by the page (made), a face of a layer     *)
(* (name, opacity, visibility) is one of two.  A text box holds 0 when it  *)
(* is not on the page, else the number of its last change (words, place,   *)
(* size, style), with a minus sign while it has no words.  Pixels carried  *)
(* or pasted and not put down yet (lift) have the number of the mark they  *)
(* will be; a carry leaves a hole, the same mark, in the raster it was cut *)
(* from.                                                                   *)
(***************************************************************************)
EXTENDS PaintNotebook

CONSTANTS Layers,       \* the keys a layer can have
          Boxes,        \* the keys a text box can have
          SnapEvery     \* SNAPSHOT_EVERY, 16 in the code

ASSUME SnapEveryAssumption == SnapEvery \in Nat \ {0}

ASSUME NoNameAssumption ==
  NoLayer \notin Layers /\ NoBox \notin Boxes /\ NoPic \notin Seq(Nat) /\ IsFiniteSet(Boxes)

NoText    == 0
EmptyText == -1

Wordless(val) == val < 0

LayersOf(roster) == {roster[i].key : i \in DOMAIN roster}
OnStack(d, l)    == l \in LayersOf(d.stack)
Shared(d)        == d.author # NoAuthor

(* A page as it is created or loaded: its layers on the stack, its rasters *)
(* the ground of its history, an empty notebook.                           *)
FreshPage(layers, who, first) ==
  [book |-> <<>>, cursor |-> 0, since |-> [l \in Layers |-> -1],
   stack |-> [i \in DOMAIN layers |-> [key |-> layers[i], face |-> 0]],
   active |-> layers[Len(layers)], pic |-> [l \in Layers |-> <<>>],
   open |-> <<>>, made |-> first,
   text |-> [b \in Boxes |-> NoText], sel |-> NoBox, before |-> NoText,
   fresh |-> NoBox, author |-> who, lift |-> 0,
   changed |-> FALSE, restate |-> FALSE, stated |-> <<>>, left |-> 0]

PathOf(d) == Path(d.book, d.cursor)

----------------------------------------------------------------------------
(* Appending to the notebook, and what precedes every mark.                *)

(* PaintNotebook::Append and push, with setCursor: the marks of a layer    *)
(* since its last keyframe are counted over the whole book.                *)
Recorded(d, e) ==
  [d EXCEPT !.book = Append(@, [e EXCEPT !.parent = d.cursor]),
            !.cursor = Len(d.book) + 1,
            !.since = [l \in Layers |->
               IF l # e.layer THEN @[l]
               ELSE IF ~Marks(e) THEN 0
               ELSE IF @[l] = -1 THEN 1
               ELSE IF @[l] < SnapEvery THEN @[l] + 1 ELSE @[l]]]

SnapshotDue(d, l) == d.since[l] = -1 \/ d.since[l] >= SnapEvery

(* A stroke that drew nothing leaves no entry.                             *)
SealOpenOp(d) ==
  IF d.open = <<>> THEN d
  ELSE LET e == d.open[1] IN
       IF e.mark = 0 THEN [d EXCEPT !.open = <<>>]
       ELSE Recorded([d EXCEPT !.open = <<>>], e)

AppendSnapshot(d, l) ==
  Recorded(d, [Blank EXCEPT !.layer = l, !.author = d.author, !.pic = d.pic[l],
                            !.sent = TRUE, !.confirmed = TRUE])

KeyframeIfDue(d, l) ==
  LET s == SealOpenOp(d)
  IN IF OnStack(s, l) /\ SnapshotDue(s, l) THEN AppendSnapshot(s, l) ELSE s

----------------------------------------------------------------------------
(* The stack, and an entry laid on the page.                               *)

\* Mutant: the active layer is not chosen anew when its layer goes.
ReconcileLayers_KeepsActive(d, roster) ==
  [d EXCEPT !.stack = roster,
            !.pic = [l \in Layers |-> IF l \in LayersOf(roster) /\ OnStack(d, l)
                                      THEN @[l] ELSE <<>>]]

(* The stack becomes the roster: layers that are not in it are detached    *)
(* with their pixels, layers that are missing are made blank.              *)
ReconcileLayers(d, roster) ==
  [d EXCEPT !.stack = roster,
            !.pic = [l \in Layers |-> IF l \in LayersOf(roster) /\ OnStack(d, l)
                                      THEN @[l] ELSE <<>>],
            !.active = IF @ \in LayersOf(roster) \/ roster = <<>> THEN @
                       ELSE roster[Len(roster)].key]

ApplyTextState(d, b, val) ==
  [d EXCEPT !.text[b] = val, !.sel = IF @ = b /\ val = NoText THEN NoBox ELSE @]

(* ApplyOp: an entry for a layer that is not on the stack is dropped.      *)
ApplyOp(d, e) ==
  IF e.kind = "text" THEN ApplyTextState(d, e.box, IF e.removed THEN NoText ELSE e.val)
  ELSE IF e.kind = "snap" /\ OnStack(d, e.layer) THEN [d EXCEPT !.pic[e.layer] = e.pic]
  ELSE IF Marks(e) /\ OnStack(d, e.layer) THEN [d EXCEPT !.pic[e.layer] = Drawn(@, e)]
  ELSE d

(* The whole carry as one entry, on the layer that is active now.          *)
PutDown(s) ==
  LET whole(pic) == IF s.lift \notin ToSet(pic) THEN pic
                    ELSE RemoveAt(pic, CHOOSE i \in DOMAIN pic : pic[i] = s.lift)
  IN Recorded([s EXCEPT !.pic[s.active] = Append(whole(@), s.lift), !.lift = 0],
              [Blank EXCEPT !.kind = "patch", !.layer = s.active,
                            !.author = s.author, !.mark = s.lift])

DropSelection(d) == IF d.lift = 0 THEN d ELSE PutDown(KeyframeIfDue(d, d.active))

(* replayTo: what is carried is put down first, whatever entry c is; then  *)
(* the stack, then every layer the path has a keyframe for, then           *)
(* the text boxes, from the path to c as the record reads it.  The cursor  *)
(* was c when the replay was called.                                       *)
Redrawn(s, path, text) ==
  [s EXCEPT !.pic = [l \in Layers |-> IF OnStack(s, l)
                                      THEN Replayed(path, l, @[l]) ELSE <<>>],
            !.text = text,
            !.sel = IF @ = NoBox \/ text[@] = NoText THEN NoBox ELSE @]

Restacked(p, path) ==
  IF \E i \in DOMAIN path : Structural(path[i])
  THEN ReconcileLayers(p, RosterOf(path, p.stack)) ELSE p

Reread(p, path) == Redrawn(Restacked(p, path), path, TextOf(path, Boxes))

ReplayTo(d, c) ==
  LET p == DropSelection([d EXCEPT !.cursor = c])
  IN Reread(p, EffectivePath(Path(p.book, c)))

RosterNow(d) == [Blank EXCEPT !.kind = "layers", !.author = d.author, !.roster = d.stack]

KeyframeRoster(d) == Recorded(d, [RosterNow(d) EXCEPT !.keyframe = TRUE])

(* Every raster and the stack, before the stack is changed.                *)
RecordStructure(d) ==
  LET after[i \in 0 .. Len(d.stack)] ==
        IF i = 0 THEN SealOpenOp(d) ELSE AppendSnapshot(after[i - 1], d.stack[i].key)
  IN KeyframeRoster(after[Len(d.stack)])

PerformStack(d, e) ==
  LET s == SealOpenOp(d)
  IN Recorded(ApplyOp(ReconcileLayers(s, e.roster), e), e)

----------------------------------------------------------------------------
(* Strokes and whole-layer changes.                                        *)

RememberOp(d) ==
  LET s == KeyframeIfDue(d, d.active)
  IN [s EXCEPT !.open =
        <<[Blank EXCEPT !.kind = "dab", !.layer = d.active, !.author = d.author]>>]

(* The first point takes the mark's number; the points after it are the    *)
(* same mark.                                                              *)
StrokeTo(d) ==
  IF d.open = <<>> \/ ~OnStack(d, d.open[1].layer) \/ d.open[1].mark # 0 THEN d
  ELSE [d EXCEPT !.open[1].mark = d.made + 1, !.made = @ + 1,
                 !.pic[d.open[1].layer] = Append(@, d.made + 1)]

Perform(d, l, kind) ==
  LET e == [Blank EXCEPT !.kind = kind, !.layer = l, !.author = d.author,
                         !.mark = d.made + 1]
  IN Recorded(ApplyOp([KeyframeIfDue(d, l) EXCEPT !.made = @ + 1], e), e)

(* A paste floats over the page; a carry is lifted off the active layer.   *)
PasteSelection(d) ==
  LET s == DropSelection(d) IN [s EXCEPT !.lift = d.made + 1, !.made = @ + 1]

\* Mutant: the cut comes before the keyframe it needs above it.
LiftForCarry_CutFirst(d) ==
  KeyframeIfDue([d EXCEPT !.lift = d.made + 1, !.made = @ + 1,
                          !.pic[d.active] = Append(@, d.made + 1)], d.active)

LiftForCarry(d) ==
  LET s == KeyframeIfDue(d, d.active)
  IN [s EXCEPT !.lift = d.made + 1, !.made = @ + 1,
               !.pic[s.active] = Append(@, d.made + 1)]

SetActiveLayer(d, l) == [DropSelection(d) EXCEPT !.active = l]

NewLayer(d, l) ==
  LET s == RecordStructure(DropSelection(d))
      at == CHOOSE i \in DOMAIN s.stack : s.stack[i].key = s.active
      roster == InsertAt(s.stack, at + 1, [key |-> l, face |-> 0])
  IN [PerformStack(s, [RosterNow(s) EXCEPT !.roster = roster]) EXCEPT !.active = l]

WithoutLayer(roster, l) == RemoveAt(roster, CHOOSE i \in DOMAIN roster : roster[i].key = l)

(* The base of the page is not removable.                                  *)
RemoveLayer(d, l) ==
  LET s == RecordStructure(DropSelection(d))
  IN PerformStack(s, [RosterNow(s) EXCEPT !.roster = WithoutLayer(s.stack, l)])

(* Layers i and i + 1 of the stack into one, the composite kept by layer   *)
(* keep.  It is made before what is carried is put down.                   *)
MergeLayer(d, i, keep) ==
  LET s == RecordStructure(DropSelection(d))
      gone == CHOOSE l \in {d.stack[i].key, d.stack[i + 1].key} : l # keep
      e == [RosterNow(s) EXCEPT !.roster = WithoutLayer(s.stack, gone), !.layer = keep,
                  !.pic = d.pic[d.stack[i].key] \o d.pic[d.stack[i + 1].key]]
  IN [PerformStack(s, e) EXCEPT !.active = keep]

(* A move of a layer, or a change of its face: the stack before, then the  *)
(* stack after.                                                            *)
FaceChange(d, roster) ==
  LET s == KeyframeRoster(SealOpenOp(d))
  IN PerformStack(s, [RosterNow(s) EXCEPT !.roster = roster])

----------------------------------------------------------------------------
(* Text boxes.                                                             *)

RecordText(d, b, val, keyframe) ==
  Recorded(SealOpenOp(d),
           [Blank EXCEPT !.kind = "text", !.author = d.author, !.box = b, !.val = val,
                         !.removed = (val = NoText), !.keyframe = keyframe])

\* Mutant: only the edit that made the box is recorded.
EndTextEdit_FreshOnly(d, b) ==
  LET s == [d EXCEPT !.fresh = NoBox]
  IN IF b = NoBox \/ d.text[b] = NoText THEN d
     ELSE IF d.fresh # b THEN s
     ELSE IF Wordless(d.text[b]) THEN [s EXCEPT !.text[b] = NoText]
     ELSE RecordText(s, b, d.text[b], FALSE)

(* A box let go without words goes, with no entry, if no edit has ended    *)
(* since it was added; any other edit is one entry.                        *)
EndTextEdit(d, b) ==
  LET fresh == d.fresh = b
      s == [d EXCEPT !.fresh = NoBox]
  IN IF b = NoBox \/ d.text[b] = NoText THEN d
     ELSE IF fresh /\ Wordless(d.text[b]) THEN [s EXCEPT !.text[b] = NoText]
     ELSE IF fresh \/ d.text[b] # d.before THEN RecordText(s, b, d.text[b], FALSE)
     ELSE s

SelectTextBox(d, b) ==
  IF b = d.sel THEN d
  ELSE LET s == EndTextEdit([d EXCEPT !.sel = NoBox], d.sel)
       IN IF b = NoBox \/ s.text[b] = NoText THEN s
          ELSE [s EXCEPT !.sel = b, !.before = s.text[b]]

(* The verb adds a box and does not open it; the text tool opens it too.   *)
AddTextBox(d, b)   == [d EXCEPT !.text[b] = EmptyText, !.fresh = b]
PlaceTextBox(d, b) == SelectTextBox(AddTextBox(d, b), b)

Changed(d, b, words) ==
  [d EXCEPT !.text[b] = IF words THEN d.made + 1 ELSE -(d.made + 1), !.made = @ + 1]

(* A box that is not open is recorded at once; it is as fresh as it was.   *)
SetTextBoxText(d, b, words) ==
  LET s == Changed(d, b, words)
  IN IF b = d.sel THEN s ELSE RecordText(s, b, s.text[b], FALSE)

(* The box itself is changed, open or not: the type, the size and the      *)
(* colour the bar and the verbs set, and a box dragged or resized, which   *)
(* goes on to the release of the button whatever has closed the box.       *)
Restyled(d, b) == Changed(d, b, ~Wordless(d.text[b]))

RemoveTextBox(d, b) ==
  LET s == [d EXCEPT !.text[b] = NoText, !.sel = IF @ = b THEN NoBox ELSE @]
  IN IF d.fresh = b THEN [s EXCEPT !.fresh = NoBox] ELSE RecordText(s, b, NoText, FALSE)

----------------------------------------------------------------------------
(* The history dropped: the page stays, its text boxes start the next one. *)

ClearHistory(d) ==
  LET s == [d EXCEPT !.open = <<>>, !.book = <<>>, !.cursor = 0, !.fresh = NoBox,
                     !.since = [l \in Layers |-> -1]]
      on == SetToSeq({b \in Boxes : d.text[b] # NoText})
      after[i \in 0 .. Len(on)] ==
        IF i = 0 THEN s ELSE RecordText(after[i - 1], on[i], d.text[on[i]], TRUE)
  IN after[Len(on)]

(* Every raster is re-stated at the new size.                              *)
Resize(d) == [ClearHistory(DropSelection(d)) EXCEPT !.changed = TRUE]

(* renew, New: blank layers, no text.                                      *)
Renew(d) ==
  ClearHistory([d EXCEPT !.pic = [l \in Layers |-> <<>>], !.sel = NoBox, !.lift = 0,
                         !.text = [b \in Boxes |-> NoText]])

New(d) == [Renew(d) EXCEPT !.changed = TRUE]

----------------------------------------------------------------------------
(* Undo and redo on a page that is not shared walk the tree.               *)

(* The newest marking entry at or above the cursor, 0 for none.            *)
NewestMark(d) ==
  LET ch == ChainTo(d.book, d.cursor)
      marks == {i \in DOMAIN ch : Marks(d.book[ch[i]])}
  IN IF marks = {} THEN 0 ELSE ch[CHOOSE i \in marks : \A j \in marks : j <= i]

\* Mutant: oldest branch first.
RedoTargets_OldestFirst(d) ==
  LET down[k \in DOMAIN d.book] ==
        IF Marks(d.book[k]) THEN k
        ELSE IF ChildrenOf(d.book, k) = {} THEN 0 ELSE down[Min(ChildrenOf(d.book, k))]
      live == {k \in ChildrenOf(d.book, d.cursor) : down[k] # 0}
      nth(j) == CHOOSE k \in live : Cardinality({i \in live : i <= k}) = j
  IN [j \in 1 .. Cardinality(live) |-> down[nth(j)]]

(* The first marking entry down each branch under the cursor, newest       *)
(* branch first; keyframes are stepped over down their newest child.       *)
RedoTargets(d) ==
  LET down[k \in DOMAIN d.book] ==
        IF Marks(d.book[k]) THEN k
        ELSE IF ChildrenOf(d.book, k) = {} THEN 0 ELSE down[Max(ChildrenOf(d.book, k))]
      live == {k \in ChildrenOf(d.book, d.cursor) : down[k] # 0}
      nth(j) == CHOOSE k \in live : Cardinality({i \in live : i >= k}) = j
  IN [j \in 1 .. Cardinality(live) |-> down[nth(j)]]

Ended(d) == SealOpenOp(IF d.sel = NoBox THEN d ELSE SelectTextBox(d, NoBox))

Undo(d) ==
  LET s == Ended(d)
      m == NewestMark(s)
  IN IF m = 0 THEN s ELSE ReplayTo(s, s.book[m].parent)

RedoAlong(d, branch) ==
  LET s == Ended(d)
      targets == RedoTargets(s)
  IN IF branch > Len(targets) THEN s ELSE ReplayTo(s, targets[branch])
================================================================================

----------------------------- MODULE PaintNotebook -----------------------------
(***************************************************************************)
(* The notebook of a painted page (PaintProvider.h, PaintNotebook): an     *)
(* append-only tree of entries, and the functions that read one path of    *)
(* it.  A path is a sequence of entries, root first.                       *)
(*                                                                         *)
(* Pixels are abstracted to what the code can tell apart by replaying: the *)
(* raster of a layer is the sequence of the marks that were drawn on it,   *)
(* oldest first.  The bytes a keyframe carries are such a sequence, and    *)
(* NoPic is an entry that carries none.                                    *)
(***************************************************************************)
EXTENDS Integers, Sequences, FiniteSets, SequencesExt

CONSTANTS NoLayer,      \* the layer of an entry that names none (key 0)
          NoPic,        \* no raster bytes
          NoBox,        \* no text box
          NoAuthor      \* the author of a page that is not shared

(* One entry: its parent in the tree (0 is "before anything"), its kind,   *)
(* the layer it lands on, its author, the mark it draws, the raster and    *)
(* the stack it states, the text box it states, what it takes back, and    *)
(* how far it has come on its way to the record.                           *)
Blank == [parent |-> 0, kind |-> "snap", layer |-> NoLayer, author |-> NoAuthor,
          mark |-> 0, pic |-> NoPic, roster |-> <<>>, keyframe |-> FALSE,
          box |-> NoBox, val |-> 0, removed |-> FALSE,
          ordinal |-> 0, sent |-> FALSE, confirmed |-> FALSE]

Retraction(e) == e.kind \in {"undo", "redo"}
Structural(e) == e.kind = "layers"
Marks(e)      == e.kind # "snap" /\ ~e.keyframe /\ ~Retraction(e)
Keyframes(e)  == e.kind = "snap" \/ (Structural(e) /\ e.pic # NoPic)

(* Root first, the entries' numbers from the beginning to c.               *)
ChainTo(book, c) ==
  LET up[n \in 0 .. Len(book)] ==
        IF n = 0 THEN <<>> ELSE Append(up[book[n].parent], n)
  IN up[c]

Path(book, c) == LET ch == ChainTo(book, c) IN [i \in DOMAIN ch |-> book[ch[i]]]

ChildrenOf(book, c) == {n \in DOMAIN book : book[n].parent = c}

(* The author's count of marking entries along the path, up to position i. *)
OrdinalAt(path, i, who) ==
  Cardinality({k \in 1 .. i : Marks(path[k]) /\ path[k].author = who})

\* Mutant: the mark at the ordinal, whoever made it.
Names_AnyAuthor(path, r, i) ==
  i < r /\ Marks(path[i]) /\ OrdinalAt(path, i, path[r].author) = path[r].ordinal

(* What the retraction at position r names: an earlier mark of its author. *)
Names(path, r, i) ==
  /\ i < r
  /\ Marks(path[i])
  /\ path[i].author = path[r].author
  /\ OrdinalAt(path, i, path[r].author) = path[r].ordinal

(* The positions taken back: the last retraction that names one decides.   *)
RetractedMask(path) ==
  {i \in DOMAIN path :
     \E r \in DOMAIN path :
        /\ path[r].kind = "undo" /\ Names(path, r, i)
        /\ \A q \in r + 1 .. Len(path) :
              Retraction(path[q]) => ~Names(path, q, i)}

(* The ordinal of the author's newest mark that is, or is not, taken back. *)
Newest(path, who, retracted) ==
  LET gone == RetractedMask(path)
      mine == {i \in DOMAIN path : /\ Marks(path[i]) /\ path[i].author = who
                                   /\ (i \in gone) = retracted}
  IN IF mine = {} THEN 0
     ELSE OrdinalAt(path, CHOOSE i \in mine : \A j \in mine : j <= i, who)

(* The path as the record reads it: without the retractions, the marks     *)
(* they took back, and every keyframe of a layer that was taken after the  *)
(* oldest mark taken back on it.                                           *)
EffectivePath(path) ==
  LET gone == RetractedMask(path)
      stays(i) == /\ ~Retraction(path[i]) /\ i \notin gone
                  /\ ~ /\ Keyframes(path[i])
                       /\ \E g \in gone : g < i /\ path[g].layer = path[i].layer
      upto[i \in 0 .. Len(path)] ==
        IF i = 0 THEN <<>>
        ELSE IF stays(i) THEN Append(upto[i - 1], path[i]) ELSE upto[i - 1]
  IN upto[Len(path)]

(* A raster after one more entry that marks its layer.                     *)
Drawn(pic, e) == CASE e.kind = "clear" -> <<e.mark>>
                   [] e.kind = "layers" -> e.pic
                   [] OTHER -> Append(pic, e.mark)

(* The raster a layer has after a path, from the one it had before it.     *)
Laid(path, l, before) ==
  LET pic[i \in 0 .. Len(path)] ==
        IF i = 0 THEN before
        ELSE IF Marks(path[i]) /\ path[i].layer = l THEN Drawn(pic[i - 1], path[i])
        ELSE pic[i - 1]
  IN pic[Len(path)]

(* The raster of a layer that a path leads to: its newest keyframe and the *)
(* marks after it.  A layer with no keyframe on the path is left alone.    *)
Keys(path, l, i)     == Keyframes(path[i]) /\ path[i].layer = l
KeyframedOn(path, l) == \E i \in DOMAIN path : Keys(path, l, i)

Replayed(path, l, left) ==
  LET base == CHOOSE i \in DOMAIN path :
                 Keys(path, l, i) /\ \A j \in i + 1 .. Len(path) : ~Keys(path, l, j)
  IN IF ~KeyframedOn(path, l) THEN left
     ELSE Laid(SubSeq(path, base + 1, Len(path)), l, path[base].pic)

(* The stack the path leads to: the last one an entry states.              *)
RosterOf(path, left) ==
  LET last == CHOOSE i \in DOMAIN path :
                 Structural(path[i]) /\ \A j \in i + 1 .. Len(path) : ~Structural(path[j])
  IN IF \A i \in DOMAIN path : ~Structural(path[i]) THEN left ELSE path[last].roster

(* The text boxes the path leads to: the last word about each, 0 for none. *)
Says(path, b, i) == path[i].kind = "text" /\ path[i].box = b

TextOf(path, Boxes) ==
  LET last(b) == CHOOSE i \in DOMAIN path :
                    Says(path, b, i) /\ \A j \in i + 1 .. Len(path) : ~Says(path, b, j)
  IN [b \in Boxes |->
        IF (\A i \in DOMAIN path : ~Says(path, b, i)) \/ path[last(b)].removed
        THEN 0 ELSE path[last(b)].val]
================================================================================

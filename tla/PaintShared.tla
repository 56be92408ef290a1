------------------------------ MODULE PaintShared ------------------------------
(***************************************************************************)
(* A page in a shared session (PaintProvider.h, PaintDocument): what it    *)
(* sends (ExportOps, ExportBaseline), what it makes of the record's lines  *)
(* (ImportOps, AcceptOp) and how it puts its own entries behind the room's *)
(* (rewind, confirm_own, finish_rewind, RevertPending).                    *)
(*                                                                         *)
(* A line of the record is an entry without its place and its progress.    *)
(***************************************************************************)
EXTENDS PaintDocument

Wire(e) == [e EXCEPT !.parent = 0, !.sent = FALSE, !.confirmed = FALSE]

Pending(d, e) ==
  Shared(d) /\ e.author = d.author /\ ~e.confirmed /\ e.kind # "snap"

PendingAt(d) == LET path == PathOf(d) IN {i \in DOMAIN path : Pending(d, path[i])}

HasPending(d) == d.open # <<>> \/ d.sel # NoBox \/ PendingAt(d) # {}

(* Everything this page made is in the record.                             *)
Settled(d) ==
  \/ ~Shared(d)
  \/ d.open = <<>> /\ ~d.changed /\ PendingAt(d) = {} /\ d.sel = NoBox

(* What PictureHash is taken of.                                           *)
PictureOf(d) ==
  [stack |-> d.stack, text |-> d.text,
   pic |-> [l \in Layers |-> IF OnStack(d, l) THEN d.pic[l] ELSE <<>>]]

(* Abstraction: the book without its other branches.  A shared page only   *)
(* reads its own path: its undo is an entry, and a rewind copies what it   *)
(* keeps.                                                                  *)
Pruned(d) ==
  LET path == PathOf(d)
  IN [d EXCEPT !.book = [i \in DOMAIN path |-> [path[i] EXCEPT !.parent = i - 1]],
               !.cursor = Len(path)]

----------------------------------------------------------------------------
(* Undo in a room: an entry that names the author's newest mark.           *)

Retract(d, kind) ==
  LET k == Newest(PathOf(d), d.author, kind = "redo")
      s == Recorded(d, [Blank EXCEPT !.kind = kind, !.author = d.author, !.ordinal = k])
  IN IF k = 0 THEN d ELSE ReplayTo(s, s.cursor)

----------------------------------------------------------------------------
(* Out: the entries not sent yet, or the whole page.                       *)

PageLine(d) == [Blank EXCEPT !.kind = "page", !.author = d.author, !.roster = d.stack]

(* write_baseline: the stack, a keyframe of every layer, every text box.   *)
Baseline(d) ==
  LET box(b) == [Blank EXCEPT !.kind = "text", !.author = d.author, !.box = b,
                              !.val = d.text[b], !.keyframe = TRUE]
      boxes  == SetToSeq({b \in Boxes : d.text[b] # NoText})
  IN <<PageLine(d)>>
     \o [i \in DOMAIN d.stack |->
           [Blank EXCEPT !.layer = d.stack[i].key, !.author = d.author,
                         !.pic = d.pic[d.stack[i].key]]]
     \o [i \in DOMAIN boxes |-> box(boxes[i])]

OnPathSet(d, sent, confirmed) ==
  LET ch == ToSet(ChainTo(d.book, d.cursor))
  IN [d EXCEPT !.book = [n \in DOMAIN @ |->
        IF n \notin ch THEN @[n]
        ELSE [@[n] EXCEPT !.sent = sent \/ @, !.confirmed = confirmed \/ @]]]

WholePage(d) ==
  [lines |-> Baseline(d),
   doc |-> [OnPathSet(d, TRUE, TRUE) EXCEPT !.changed = FALSE, !.stated = <<PageLine(d)>>,
                                            !.left = Len(Baseline(d))]]

(* The history starts again with a page that is stated again; not while a  *)
(* stroke is open.                                                         *)
Restated(d) ==
  IF ~d.restate \/ d.open # <<>> THEN d
  ELSE [KeyframeRoster(ClearHistory(d)) EXCEPT !.changed = TRUE, !.restate = FALSE]

Export(d) ==
  LET s == Restated(d)
      unsent == SelectSeq(PathOf(s), LAMBDA e : ~e.sent /\ e.kind # "snap"
                                                /\ e.author = s.author)
  IN IF s.changed THEN WholePage(s)
     ELSE [lines |-> [i \in DOMAIN unsent |-> Wire(unsent[i])],
           doc |-> OnPathSet(s, TRUE, FALSE)]

----------------------------------------------------------------------------
(* In.  While a read lasts the page may be rewound: r.doc is the page, and *)
(* r holds what was set aside, the pending entries, the open stroke and    *)
(* the open box.                                                           *)

Reading(d) == [doc |-> d, rewound |-> FALSE, stash |-> <<>>, open |-> <<>>,
               box |-> NoBox, val |-> NoText, before |-> NoText, fresh |-> NoBox]

Rewind(r) ==
  LET d     == r.doc
      path  == PathOf(d)
      first == IF PendingAt(d) = {} THEN Len(path) + 1
               ELSE CHOOSE i \in PendingAt(d) : \A j \in PendingAt(d) : i <= j
      after == SubSeq(path, first, Len(path))
      kept  == SelectSeq(after, LAMBDA e : e.kind # "snap" /\ ~Pending(d, e))
      base  == [d EXCEPT !.open = <<>>,
                         !.cursor = IF after = <<>> THEN @
                                    ELSE d.book[ChainTo(d.book, @)[first]].parent]
  IN IF r.rewound THEN r
     ELSE [doc |-> FoldLeft(Recorded, base, kept), rewound |-> TRUE,
           stash |-> SelectSeq(after, LAMBDA e : Pending(d, e)), open |-> d.open,
           box |-> d.sel, val |-> IF d.sel = NoBox THEN NoText ELSE d.text[d.sel],
           before |-> d.before, fresh |-> d.fresh]

(* A Page entry replaces the document; the stack it states is the first    *)
(* entry of the history that starts here.                                  *)
BecomePage(d, e) ==
  LET s == ReconcileLayers(Renew(DropSelection(d)), e.roster)
  IN Recorded(s, [e EXCEPT !.kind = "layers", !.keyframe = TRUE,
                           !.sent = TRUE, !.confirmed = TRUE])

ReplayHere(d) == ReplayTo(d, d.cursor)

(* A keyframe if one is due, the stack the entry states, and its mark.     *)
LaidOn(d, e) ==
  LET s == IF Marks(e) /\ OnStack(d, e.layer) /\ SnapshotDue(d, e.layer)
           THEN AppendSnapshot(d, e.layer) ELSE d
  IN ApplyOp(IF Structural(e) THEN ReconcileLayers(s, e.roster) ELSE s, e)

\* Mutant: the room's entry is drawn on top of what is pending here.
AcceptOp_OnTop(r, line) ==
  LET e == [line EXCEPT !.sent = TRUE, !.confirmed = TRUE]
  IN CASE e.kind = "page" -> [r EXCEPT !.doc = BecomePage(@, e)]
       [] Retraction(e)   -> [r EXCEPT !.doc = ReplayHere(Recorded(@, e))]
       [] OTHER           -> [r EXCEPT !.doc = Recorded(LaidOn(@, e), e)]

Accepted(q, e) ==
  CASE e.kind = "page" -> [q EXCEPT !.doc = BecomePage(@, e)]
    [] e.kind # "page" /\ q.rewound -> [q EXCEPT !.doc = Recorded(@, e)]
    [] Retraction(e) /\ ~q.rewound  -> [q EXCEPT !.doc = ReplayHere(Recorded(@, e))]
    [] OTHER -> [q EXCEPT !.doc = Recorded(LaidOn(@, e), e)]

AcceptOp(r, line) ==
  Accepted(IF HasPending(r.doc) THEN Rewind(r) ELSE r,
           [line EXCEPT !.sent = TRUE, !.confirmed = TRUE])

(* The entries in flight, oldest first: in the book, or set aside.         *)
InFlight(r) ==
  IF r.rewound THEN SelectSeq(r.stash, LAMBDA e : e.sent)
  ELSE SelectSeq(PathOf(r.doc), LAMBDA e : Pending(r.doc, e) /\ e.sent)

ComesBack(r, line) == \E i \in DOMAIN InFlight(r) : Wire(InFlight(r)[i]) = line

(* The oldest one a line matches is confirmed; the ones before it were     *)
(* refused, which takes a rewind.                                          *)
TakenFromStash(q, line) ==
  LET k == CHOOSE i \in DOMAIN q.stash :
             /\ q.stash[i].sent /\ Wire(q.stash[i]) = line
             /\ \A j \in 1 .. i - 1 : ~(q.stash[j].sent /\ Wire(q.stash[j]) = line)
  IN [q EXCEPT !.doc = Recorded(@, [q.stash[k] EXCEPT !.confirmed = TRUE]),
               !.stash = SubSeq(@, k + 1, Len(@))]

ConfirmOwn(r, line) ==
  IF ~r.rewound /\ Wire(InFlight(r)[1]) = line
  THEN LET ch == ChainTo(r.doc.book, r.doc.cursor)
           k == CHOOSE i \in DOMAIN ch :
                  /\ Pending(r.doc, r.doc.book[ch[i]]) /\ r.doc.book[ch[i]].sent
                  /\ \A j \in 1 .. i - 1 : ~(Pending(r.doc, r.doc.book[ch[j]])
                                             /\ r.doc.book[ch[j]].sent)
       IN [r EXCEPT !.doc.book[ch[k]].confirmed = TRUE]
  ELSE TakenFromStash(Rewind(r), line)

(* The page's own back after the room's, the path replayed once, and what  *)
(* was in the air put back.                                                *)
Inked(p, r) ==
  IF r.open = <<>> \/ r.open[1].mark = 0 \/ ~OnStack(p, r.open[1].layer) THEN p
  ELSE [p EXCEPT !.pic[r.open[1].layer] = Append(@, r.open[1].mark)]

Typing(p, r) ==
  IF r.box = NoBox THEN p
  ELSE [p EXCEPT !.text[r.box] = r.val, !.sel = r.box, !.before = r.before,
                 !.fresh = r.fresh]

FinishRewind(r) ==
  IF ~r.rewound THEN r.doc
  ELSE LET p == ReplayHere(FoldLeft(Recorded, r.doc, r.stash))
       IN Typing([Inked(p, r) EXCEPT !.open = r.open], r)

(* One line of a read: the lines of the page this one stated are passed    *)
(* over, and the own lines ahead of it.                                    *)
Take(r, line) ==
  LET own  == line.author = r.doc.author
      mine == own /\ r.doc.stated # <<>> /\ line = r.doc.stated[1]
      s    == IF mine THEN [r EXCEPT !.doc.stated = <<>>] ELSE r
  IN IF own /\ s.doc.stated # <<>> THEN s
     ELSE IF own /\ s.doc.left > 0 THEN [s EXCEPT !.doc.left = @ - 1]
     ELSE IF own /\ ComesBack(s, line) THEN ConfirmOwn(s, line)
     ELSE AcceptOp(s, line)

Import(d, lines) == FinishRewind(FoldLeft(Take, Reading(d), lines))

RevertPending(d) ==
  LET s == [d EXCEPT !.stated = <<>>, !.left = 0]
  IN IF PendingAt(s) = {} THEN s
     ELSE FinishRewind([Rewind(Reading(s)) EXCEPT !.stash = <<>>])
================================================================================

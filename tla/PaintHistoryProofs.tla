--------------------------- MODULE PaintHistoryProofs ---------------------------
(***************************************************************************)
(* Proofs about PaintHistory: the page nobody shares keeps its types, its  *)
(* text boxes follow the path the cursor is at, and so does its picture;   *)
(* and an undo is taken back by one of the two redo keys.                  *)
(*                                                                         *)
(* None of this is inductive.  What an operation needs to know is that     *)
(* every entry of the notebook told the truth when it was made: a snapshot *)
(* is the raster its path had drawn, a statement of the stack the stack it *)
(* found, and a change of the stack has the old stack and its rasters      *)
(* stated above it (Truthful).  A replay reads some path of the tree, and  *)
(* the truth of the entries on it is what makes the newest keyframe of a   *)
(* layer as good as everything before it.                                  *)
(*                                                                         *)
(* To take an undo back a redo key must reach the mark it stepped over.    *)
(* Every mark is made as the newest branch of its place, and the two keys, *)
(* the only way down the tree again, reach no branch older than the second *)
(* that has a mark: so at every mark on the way to the cursor at most one  *)
(* newer branch of its place can be redone (Redoable).                     *)
(*                                                                         *)
(* Good(d, g, t) is the invariant as a predicate of a page d, the ground g *)
(* its history starts from and whether a replay tore a carry, t; there is  *)
(* a lemma ...Good for every operation of PaintDocument.                   *)
(***************************************************************************)
EXTENDS PaintHistory, TLAPS, WellFoundedInduction, NaturalsInduction, FiniteSetTheorems
----------------------------------------------------------------------------
(* Numbers and the tree: a path is a walk from parent to child.            *)

(* A set of natural numbers that is not empty has a least element.         *)
LEMMA NatMin ==
  ASSUME NEW S \in SUBSET Nat, S # {}
  PROVE  \E x \in S : \A y \in S : x <= y
<1>1. IsWellFoundedOn(OpToRel(<,Nat), Nat)
  BY NatLessThanWellFounded
<1>2. PICK x \in S : \A y \in S : ~(<<y, x>> \in OpToRel(<,Nat))
  BY <1>1, WFMin, Zenon
<1>3. \A y \in S : <<y, x>> \in OpToRel(<,Nat) <=> y < x
  BY DEF OpToRel
<1>4. x \in S /\ \A y \in S : ~(y < x)
  BY <1>2, <1>3
<1> QED
  BY <1>4, SMT

(* What holds at 0 and is handed on by every number up to k.               *)
LEMMA CountUp ==
  ASSUME NEW k \in Nat, NEW G, 0 \in G, \A i \in 1 .. k : i - 1 \in G => i \in G
  PROVE  \A i \in 0 .. k : i \in G
<1> DEFINE B == {i \in 0 .. k : i \notin G}
<1> SUFFICES ASSUME B # {} PROVE FALSE
  OBVIOUS
<1>1. PICK x \in B : \A y \in B : x <= y
  BY NatMin, B \in SUBSET Nat
<1>2. x \in 1 .. k /\ x - 1 \in 0 .. k /\ x - 1 \notin B
  BY <1>1
<1> QED
  BY <1>1, <1>2

(* What every number hands down to the one below it holds from k to 1: how *)
(* the branches of the tree are read, deepest entry first.                 *)
LEMMA CountDown ==
  ASSUME NEW k \in Nat, NEW G, \A i \in 1 .. k : (\A j \in i + 1 .. k : j \in G) => i \in G
  PROVE  \A i \in 1 .. k : i \in G
<1> DEFINE B == {i \in 0 .. k : \E j \in 1 .. k : j = k - i /\ j \notin G}
<1> SUFFICES ASSUME NEW i \in 1 .. k, i \notin G PROVE FALSE
  OBVIOUS
<1>0. k - i \in B
  OBVIOUS
<1>1. PICK x \in B : \A y \in B : x <= y
  BY NatMin, B \in SUBSET Nat, <1>0
<1>2. PICK j \in 1 .. k : j = k - x /\ j \notin G
  BY <1>1
<1>3. \A q \in j + 1 .. k : q \in G
  <2> SUFFICES ASSUME NEW q \in j + 1 .. k, q \notin G PROVE FALSE
    OBVIOUS
  <2>1. k - q \in B
    BY <1>2
  <2> QED
    BY <2>1, <1>1, <1>2
<1> QED
  BY <1>2, <1>3

(* The tree.                                                               *)

Tree(book) == \A n \in DOMAIN book : book[n].parent \in 0 .. n - 1

(* Induction over the tree: what holds before anything and is handed on    *)
(* from every parent to its child holds at every entry.                    *)
LEMMA TreeInd ==
  ASSUME NEW E, NEW book \in Seq(E), Tree(book), NEW G, 0 \in G,
         \A n \in 1 .. Len(book) : book[n].parent \in G => n \in G
  PROVE  \A n \in 0 .. Len(book) : n \in G
<1> DEFINE B == {i \in 0 .. Len(book) : i \notin G}
<1> SUFFICES ASSUME B # {} PROVE FALSE
  OBVIOUS
<1>1. PICK x \in B : \A y \in B : x <= y
  BY NatMin, B \in SUBSET Nat
<1>2. x \in 1 .. Len(book)
  BY <1>1
<1>3. book[x].parent \in 0 .. x - 1
  BY <1>2 DEF Tree
<1>4. book[x].parent \notin B /\ book[x].parent \in 0 .. Len(book)
  BY <1>1, <1>2, <1>3
<1> QED
  BY <1>1, <1>2, <1>4

ChainOf(book) == CHOOSE up : up = [n \in 0 .. Len(book) |->
                    IF n = 0 THEN <<>> ELSE Append(up[book[n].parent], n)]

ChainUpTo(book, k, up) == up = [n \in 0 .. k |->
                    IF n = 0 THEN <<>> ELSE Append(up[book[n].parent], n)]

(* ChainTo reads one function of the book, whatever entry it is asked for. *)
LEMMA ChainToIs ==
  ASSUME NEW book, NEW c
  PROVE  ChainTo(book, c) = ChainOf(book)[c]
BY DEF ChainTo, ChainOf

(* ChainTo walks parent by parent: the chain of an entry is its parent's   *)
(* chain and the entry itself.                                             *)
LEMMA ChainStep ==
  ASSUME NEW E, NEW book \in Seq(E), Tree(book)
  PROVE  /\ ChainTo(book, 0) = <<>>
         /\ \A n \in 1 .. Len(book) :
              ChainTo(book, n) = Append(ChainTo(book, book[n].parent), n)
<1> DEFINE G == {k \in 0 .. Len(book) : \E up : ChainUpTo(book, k, up)}
<1>1. 0 \in G
  <2>1. ChainUpTo(book, 0, [n \in 0 .. 0 |-> <<>>])
    BY DEF ChainUpTo
  <2> QED
    BY <2>1
<1>2. ASSUME NEW k \in 1 .. Len(book), k - 1 \in G PROVE k \in G
  <2>1. PICK f : ChainUpTo(book, k - 1, f)
    BY <1>2
  <2> DEFINE g == [n \in 0 .. k |-> IF n = k THEN Append(f[book[k].parent], k) ELSE f[n]]
  <2>2. \A n \in 0 .. k - 1 : g[n] = f[n]
    OBVIOUS
  <2>3. book[k].parent \in 0 .. k - 1
    BY DEF Tree
  <2>4. \A n \in 1 .. k - 1 : book[n].parent \in 0 .. n - 1
    BY DEF Tree
  <2>5. \A n \in 0 .. k : g[n] = IF n = 0 THEN <<>> ELSE Append(g[book[n].parent], n)
    <3> SUFFICES ASSUME NEW n \in 0 .. k
                 PROVE  g[n] = IF n = 0 THEN <<>> ELSE Append(g[book[n].parent], n)
      OBVIOUS
    <3>1. CASE n = k
      BY <3>1, <2>2, <2>3
    <3>2. CASE n # k
      <4>1. n \in 0 .. k - 1 /\ g[n] = f[n]
        BY <3>2
      <4>2. f[n] = IF n = 0 THEN <<>> ELSE Append(f[book[n].parent], n)
        BY <4>1, <2>1 DEF ChainUpTo
      <4>3. n # 0 => book[n].parent \in 0 .. k - 1
        BY <4>1, <2>4
      <4> QED
        BY <4>1, <4>2, <4>3, <2>2
    <3> QED
      BY <3>1, <3>2
  <2>6. ChainUpTo(book, k, g)
    BY <2>5 DEF ChainUpTo
  <2> QED
    BY <2>6
<1>3. Len(book) \in G
  <2>1. Len(book) \in Nat
    OBVIOUS
  <2> HIDE DEF G
  <2>2. \A i \in 0 .. Len(book) : i \in G
    BY <1>1, <1>2, <2>1, CountUp, ZenonT(60)
  <2> QED
    BY <2>1, <2>2
<1>4. ChainUpTo(book, Len(book), ChainOf(book))
  BY <1>3, ZenonT(60) DEF ChainUpTo, ChainOf
<1>5. \A n \in 1 .. Len(book) : book[n].parent \in 0 .. Len(book)
  BY DEF Tree
<1>6. \A n \in 0 .. Len(book) : ChainOf(book)[n] =
        IF n = 0 THEN <<>> ELSE Append(ChainOf(book)[book[n].parent], n)
  BY <1>4 DEF ChainUpTo
<1>7. Len(book) \in Nat
  OBVIOUS
<1>8. \A n \in 0 .. Len(book) : ChainTo(book, n) = ChainOf(book)[n]
  BY ChainToIs
<1>9. \A n \in 1 .. Len(book) : ChainTo(book, n) = ChainOf(book)[n]
        /\ ChainTo(book, book[n].parent) = ChainOf(book)[book[n].parent]
        /\ ChainOf(book)[n] = Append(ChainOf(book)[book[n].parent], n)
  <2> SUFFICES ASSUME NEW n \in 1 .. Len(book)
               PROVE  ChainTo(book, n) = ChainOf(book)[n]
        /\ ChainTo(book, book[n].parent) = ChainOf(book)[book[n].parent]
        /\ ChainOf(book)[n] = Append(ChainOf(book)[book[n].parent], n)
    OBVIOUS
  <2>1. n \in 0 .. Len(book) /\ n # 0
    OBVIOUS
  <2>2. ChainOf(book)[n] = Append(ChainOf(book)[book[n].parent], n)
    BY <1>6, <2>1
  <2> QED
    BY <1>5, <1>8, <2>1, <2>2
<1> QED
  BY <1>6, <1>7, <1>8, <1>9

(* A chain to entry c names entries of the book, none after c.             *)
LEMMA ChainType ==
  ASSUME NEW E, NEW book \in Seq(E), Tree(book), NEW c \in 0 .. Len(book)
  PROVE  ChainTo(book, c) \in Seq(1 .. c)
<1> DEFINE G == {n \in 0 .. Len(book) : ChainTo(book, n) \in Seq(1 .. n)}
<1>1. 0 \in G
  <2>1. ChainTo(book, 0) = <<>>
    BY ChainStep
  <2>2. <<>> \in Seq(1 .. 0) /\ 0 \in 0 .. Len(book)
    OBVIOUS
  <2>3. ChainTo(book, 0) \in Seq(1 .. 0)
    BY <2>1, <2>2
  <2> QED
    BY <2>2, <2>3, Zenon
<1>2. ASSUME NEW n \in 1 .. Len(book), book[n].parent \in G PROVE n \in G
  <2>1. ChainTo(book, n) = Append(ChainTo(book, book[n].parent), n)
    BY ChainStep
  <2>2. ChainTo(book, book[n].parent) \in Seq(1 .. book[n].parent) /\ book[n].parent \in 0 .. n - 1
    BY <1>2 DEF Tree
  <2>3. ChainTo(book, book[n].parent) \in Seq(1 .. n)
    BY <2>2
  <2> QED
    BY <2>1, <2>3
<1> HIDE DEF G
<1>3. c \in G
  BY <1>1, <1>2, TreeInd
<1> QED
  BY <1>3 DEF G

(* The path to an entry is the path to its parent and the entry: what makes*)
(* every reading of a path an induction over the tree.                     *)
LEMMA PathStep ==
  ASSUME NEW E, NEW book \in Seq(E), Tree(book)
  PROVE  /\ Path(book, 0) = <<>>
         /\ \A n \in 1 .. Len(book) : Path(book, n) = Append(Path(book, book[n].parent), book[n])
         /\ \A n \in 0 .. Len(book) : Path(book, n) \in Seq(E)
<1>1. Path(book, 0) = <<>>
  BY ChainStep DEF Path
<1>2. ASSUME NEW n \in 0 .. Len(book)
      PROVE  Path(book, n) \in Seq(E) /\ Len(Path(book, n)) = Len(ChainTo(book, n))
  <2>1. ChainTo(book, n) \in Seq(1 .. n)
    BY ChainType
  <2> DEFINE ch == ChainTo(book, n)
  <2>2. Path(book, n) = [i \in 1 .. Len(ch) |-> book[ch[i]]]
    BY <2>1 DEF Path
  <2>3. \A i \in 1 .. Len(ch) : ch[i] \in 1 .. Len(book) /\ book[ch[i]] \in E
    BY <2>1
  <2>4. Len(ch) \in Nat
    BY <2>1
  <2> HIDE DEF ch
  <2>5. Path(book, n) \in Seq(E)
    BY <2>2, <2>3, <2>4
  <2> QED
    BY <2>2, <2>4, <2>5 DEF ch
<1>3. ASSUME NEW n \in 1 .. Len(book)
      PROVE  Path(book, n) = Append(Path(book, book[n].parent), book[n])
  <2> DEFINE p == book[n].parent
             a == ChainTo(book, p)
             b == ChainTo(book, n)
  <2>1. p \in 0 .. Len(book) /\ b = Append(a, n)
    BY ChainStep DEF Tree
  <2>a. p \in 0 .. Len(book) /\ n \in 0 .. Len(book)
    BY <2>1
  <2> HIDE DEF p
  <2>2. a \in Seq(1 .. p) /\ b \in Seq(1 .. n)
    BY <2>a, ChainType
  <2> HIDE DEF p, a, b
  <2>3. Len(b) = Len(a) + 1 /\ b[Len(a) + 1] = n /\ \A i \in 1 .. Len(a) : b[i] = a[i]
    BY <2>1, <2>2
  <2>4. Path(book, n) = [i \in 1 .. Len(b) |-> book[b[i]]]
    BY <2>2 DEF Path, b
  <2>5. Path(book, p) = [i \in 1 .. Len(a) |-> book[a[i]]]
    BY <2>2 DEF Path, a
  <2>6. Path(book, p) \in Seq(E) /\ Len(Path(book, p)) = Len(a) /\ Path(book, n) \in Seq(E)
        /\ Len(Path(book, n)) = Len(b) /\ book[n] \in E /\ Len(a) \in Nat
    BY <1>2, <2>1, <2>2 DEF a, b
  <2> DEFINE q == Append(Path(book, p), book[n])
  <2>7. q \in Seq(E) /\ Len(q) = Len(b) /\ q[Len(a) + 1] = book[n]
        /\ \A i \in 1 .. Len(a) : q[i] = Path(book, p)[i]
    BY <2>6, <2>3
  <2>8. \A i \in 1 .. Len(b) : q[i] = Path(book, n)[i]
    BY <2>3, <2>4, <2>5, <2>6, <2>7
  <2>9. Path(book, n) = q
    BY <2>6, <2>7, <2>8
  <2> QED
    BY <2>9 DEF p
<1> QED
  BY <1>1, <1>2, <1>3

(* A book that goes on where another one ends.                             *)
GoesOn(longer, book) ==
  /\ Len(book) <= Len(longer)
  /\ \A n \in 1 .. Len(book) : longer[n] = book[n]

(* Appending leaves every path there was as it was: the notebook only grows*)
(* (PaintNotebook::Append).                                                *)
LEMMA PathGoesOn ==
  ASSUME NEW E, NEW book \in Seq(E), NEW longer \in Seq(E), Tree(longer),
         GoesOn(longer, book)
  PROVE  Tree(book) /\ \A c \in 0 .. Len(book) : Path(longer, c) = Path(book, c)
<1>1. Tree(book)
  BY DEF Tree, GoesOn
<1> DEFINE G == {c \in 0 .. Len(book) : Path(longer, c) = Path(book, c)}
<1>2. 0 \in G
  BY <1>1, PathStep
<1>3. ASSUME NEW n \in 1 .. Len(book), book[n].parent \in G PROVE n \in G
  <2>1. n \in 1 .. Len(longer) /\ longer[n] = book[n]
    BY DEF GoesOn
  <2>2. Path(longer, n) = Append(Path(longer, longer[n].parent), longer[n])
    BY <2>1, PathStep
  <2>3. Path(book, n) = Append(Path(book, book[n].parent), book[n])
    BY <1>1, PathStep
  <2>4. Path(longer, book[n].parent) = Path(book, book[n].parent)
    BY <1>3
  <2>5. Path(longer, n) = Path(book, n)
    BY <2>1, <2>2, <2>3, <2>4
  <2> QED
    BY <2>5
<1> HIDE DEF G
<1>4. \A c \in 0 .. Len(book) : c \in G
  BY <1>1, <1>2, <1>3, TreeInd
<1> QED
  BY <1>1, <1>4 DEF G

----------------------------------------------------------------------------
(* What a path lays on a layer.                                            *)

LaidFcn(path, l, before) ==
  CHOOSE pic : pic = [i \in 0 .. Len(path) |->
        IF i = 0 THEN before
        ELSE IF Marks(path[i]) /\ path[i].layer = l THEN Drawn(pic[i - 1], path[i])
        ELSE pic[i - 1]]

LaidUpTo(path, l, before, k, pic) == pic = [i \in 0 .. k |->
        IF i = 0 THEN before
        ELSE IF Marks(path[i]) /\ path[i].layer = l THEN Drawn(pic[i - 1], path[i])
        ELSE pic[i - 1]]

LaidIsSo(path, l, before, pic) ==
  /\ Laid(path, l, before) = pic[Len(path)]
  /\ pic[0] = before
  /\ \A i \in 1 .. Len(path) : pic[i] =
        IF Marks(path[i]) /\ path[i].layer = l THEN Drawn(pic[i - 1], path[i]) ELSE pic[i - 1]

(* Laid reads its own recursive function at the path's end.                *)
LEMMA LaidIs ==
  ASSUME NEW E, NEW path \in Seq(E), NEW l, NEW before
  PROVE  LaidIsSo(path, l, before, LaidFcn(path, l, before))
<1> DEFINE G == {k \in 0 .. Len(path) : \E f : LaidUpTo(path, l, before, k, f)}
<1>1. 0 \in G
  <2>1. LaidUpTo(path, l, before, 0, [n \in 0 .. 0 |-> before])
    BY DEF LaidUpTo
  <2> QED
    BY <2>1
<1>2. ASSUME NEW k \in 1 .. Len(path), k - 1 \in G PROVE k \in G
  <2>1. PICK f : LaidUpTo(path, l, before, k - 1, f)
    BY <1>2
  <2> DEFINE top == IF Marks(path[k]) /\ path[k].layer = l THEN Drawn(f[k - 1], path[k])
                    ELSE f[k - 1]
             g == [n \in 0 .. k |-> IF n = k THEN top ELSE f[n]]
  <2>2. \A n \in 0 .. k - 1 : g[n] = f[n]
    OBVIOUS
  <2>3. g[k] = top
    OBVIOUS
  <2> HIDE DEF g
  <2>5. \A n \in 0 .. k : g[n] = IF n = 0 THEN before
             ELSE IF Marks(path[n]) /\ path[n].layer = l THEN Drawn(g[n - 1], path[n])
             ELSE g[n - 1]
    <3> SUFFICES ASSUME NEW n \in 0 .. k
                 PROVE  g[n] = IF n = 0 THEN before
             ELSE IF Marks(path[n]) /\ path[n].layer = l THEN Drawn(g[n - 1], path[n])
             ELSE g[n - 1]
      OBVIOUS
    <3>1. CASE n = k
      <4>1. n # 0 /\ g[n - 1] = f[k - 1]
        BY <3>1, <2>2
      <4> QED
        BY <3>1, <2>3, <4>1
    <3>2. CASE n # k
      <4>1. n \in 0 .. k - 1 /\ g[n] = f[n]
        BY <3>2, <2>2
      <4>2. f[n] = IF n = 0 THEN before
             ELSE IF Marks(path[n]) /\ path[n].layer = l THEN Drawn(f[n - 1], path[n])
             ELSE f[n - 1]
        BY <4>1, <2>1 DEF LaidUpTo
      <4>3. n # 0 => g[n - 1] = f[n - 1]
        BY <4>1, <2>2
      <4> QED
        BY <4>1, <4>2, <4>3
    <3> QED
      BY <3>1, <3>2
  <2>6. LaidUpTo(path, l, before, k, g)
    BY <2>5 DEF LaidUpTo, g
  <2> QED
    BY <2>6
<1>a. Len(path) \in Nat
  OBVIOUS
<1>3. Len(path) \in G
  <2> HIDE DEF G
  <2>2. \A i \in 0 .. Len(path) : i \in G
    BY <1>1, <1>2, <1>a, CountUp
  <2> QED
    BY <1>a, <2>2
<1>4. LaidUpTo(path, l, before, Len(path), LaidFcn(path, l, before))
  BY <1>3 DEF LaidUpTo, LaidFcn
<1>6. \A i \in 0 .. Len(path) : LaidFcn(path, l, before)[i] =
        IF i = 0 THEN before
        ELSE IF Marks(path[i]) /\ path[i].layer = l
        THEN Drawn(LaidFcn(path, l, before)[i - 1], path[i])
        ELSE LaidFcn(path, l, before)[i - 1]
  BY <1>4 DEF LaidUpTo
<1>7. Laid(path, l, before) = LaidFcn(path, l, before)[Len(path)]
  BY DEF Laid, LaidFcn
<1> QED
  BY <1>6, <1>7, <1>a DEF LaidIsSo

(* Append, element by element.                                             *)
LEMMA AppendIs ==
  ASSUME NEW E, NEW path \in Seq(E), NEW e \in E
  PROVE  /\ Append(path, e) \in Seq(E)
         /\ Len(Append(path, e)) = Len(path) + 1
         /\ Len(path) \in Nat
         /\ Append(path, e)[Len(path) + 1] = e
         /\ \A i \in 1 .. Len(path) : Append(path, e)[i] = path[i]
         /\ DOMAIN path = 1 .. Len(path)
         /\ DOMAIN Append(path, e) = 1 .. Len(path) + 1
OBVIOUS

(* One more entry lays one more mark on its layer, and nothing on any      *)
(* other.                                                                  *)
LEMMA LaidStep ==
  ASSUME NEW E, NEW path \in Seq(E), NEW e \in E, NEW l, NEW before
  PROVE  /\ Laid(<<>>, l, before) = before
         /\ Laid(Append(path, e), l, before) =
              IF Marks(e) /\ e.layer = l THEN Drawn(Laid(path, l, before), e)
              ELSE Laid(path, l, before)
<1>q. PICK q : q = Append(path, e)
  OBVIOUS
<1> DEFINE f == LaidFcn(path, l, before)
           g == LaidFcn(q, l, before)
           G == {i \in 0 .. Len(path) : g[i] = f[i]}
<1>0. /\ q \in Seq(E) /\ Len(q) = Len(path) + 1 /\ q[Len(path) + 1] = e /\ Len(path) \in Nat
      /\ \A i \in 1 .. Len(path) : q[i] = path[i]
  BY AppendIs, <1>q
<1>1. Laid(<<>>, l, before) = before
  <2>1. <<>> \in Seq(E) /\ Len(<<>>) = 0
    OBVIOUS
  <2>2. LaidIsSo(<<>>, l, before, LaidFcn(<<>>, l, before))
    BY <2>1, LaidIs
  <2> QED
    BY <2>1, <2>2 DEF LaidIsSo
<1>a. LaidIsSo(q, l, before, g) /\ LaidIsSo(path, l, before, f)
  BY <1>0, LaidIs
<1> HIDE DEF f, g
<1>2. /\ f[0] = before /\ g[0] = before
      /\ Laid(path, l, before) = f[Len(path)] /\ Laid(q, l, before) = g[Len(path) + 1]
  BY <1>0, <1>a DEF LaidIsSo
<1>3. \A i \in 1 .. Len(path) : f[i] = IF Marks(path[i]) /\ path[i].layer = l
              THEN Drawn(f[i - 1], path[i]) ELSE f[i - 1]
  BY <1>a DEF LaidIsSo
<1>4. \A i \in 1 .. Len(path) + 1 : g[i] = IF Marks(q[i]) /\ q[i].layer = l
              THEN Drawn(g[i - 1], q[i]) ELSE g[i - 1]
  BY <1>a, <1>0 DEF LaidIsSo
<1>5. \A i \in 0 .. Len(path) : i \in G
  <2>1. 0 \in G
    BY <1>2, <1>0
  <2>2. ASSUME NEW i \in 1 .. Len(path), i - 1 \in G PROVE i \in G
    <3>1. i \in 1 .. Len(path) + 1
      BY <1>0
    <3>2. q[i] = path[i] /\ g[i - 1] = f[i - 1]
      BY <1>0, <2>2
    <3>3. f[i] = g[i]
      BY <1>3, <1>4, <3>1, <3>2
    <3> QED
      BY <3>3
  <2> HIDE DEF G
  <2> QED
    BY <2>1, <2>2, <1>0, CountUp
<1>6. g[Len(path)] = f[Len(path)]
  BY <1>5, <1>0
<1>7. g[Len(path) + 1] = IF Marks(e) /\ e.layer = l
              THEN Drawn(g[Len(path)], e) ELSE g[Len(path)]
  BY <1>4, <1>0
<1> QED
  BY <1>1, <1>2, <1>6, <1>7, <1>q

----------------------------------------------------------------------------
(* The last word of a path on the stack, a box, a layer.                   *)

(* A set of positions that is not empty has a last one.                    *)
LEMMA NatMax ==
  ASSUME NEW n \in Nat, NEW S \in SUBSET (1 .. n), S # {}
  PROVE  \E i \in S : \A j \in S : j <= i
<1> DEFINE B == {k \in 0 .. n : \E j \in S : k = n - j}
<1>0. B \in SUBSET Nat
  OBVIOUS
<1>4. \A j \in S : n - j \in B
  OBVIOUS
<1>1. B # {}
  BY <1>4
<1>2. PICK k \in B : \A m \in B : k <= m
  BY <1>0, <1>1, NatMin
<1>3. PICK i \in S : k = n - i
  BY <1>2
<1> QED
  BY <1>2, <1>3, <1>4

(* The last position of a path at which something is the case.             *)
Latest(n, S, i) == i \in S /\ \A j \in i + 1 .. n : j \notin S

(* There is one last position at which something is the case.              *)
LEMMA LatestIs ==
  ASSUME NEW n \in Nat, NEW S \in SUBSET (1 .. n), S # {}
  PROVE  /\ \E i \in 1 .. n : Latest(n, S, i)
         /\ \A i, j \in 1 .. n : Latest(n, S, i) /\ Latest(n, S, j) => i = j
<1>1. PICK i \in S : \A j \in S : j <= i
  BY NatMax
<1>2. Latest(n, S, i)
  BY <1>1 DEF Latest
<1> QED
  BY <1>2 DEF Latest

(* After one more position, the last one is that one, or the one it was.   *)
LEMMA LatestAppend ==
  ASSUME NEW n \in Nat, NEW S \in SUBSET (1 .. n), NEW U \in SUBSET (1 .. n + 1),
         U \cap (1 .. n) = S
  PROVE  /\ n + 1 \in U => \A i \in 1 .. n + 1 : Latest(n + 1, U, i) <=> i = n + 1
         /\ n + 1 \notin U =>
              U = S /\ \A i \in 1 .. n + 1 : Latest(n + 1, U, i) <=> i \in 1 .. n /\ Latest(n, S, i)
<1>1. ASSUME n + 1 \in U, NEW i \in 1 .. n + 1
      PROVE  Latest(n + 1, U, i) <=> i = n + 1
  <2>1. i # n + 1 => n + 1 \in i + 1 .. n + 1
    OBVIOUS
  <2>2. i = n + 1 => i + 1 .. n + 1 = {}
    OBVIOUS
  <2> QED
    BY <1>1, <2>1, <2>2 DEF Latest
<1>2. ASSUME n + 1 \notin U, NEW i \in 1 .. n + 1
      PROVE  U = S /\ (Latest(n + 1, U, i) <=> i \in 1 .. n /\ Latest(n, S, i))
  <2>1. U = S
    <3>1. \A x \in U : x \in 1 .. n
      BY <1>2
    <3> QED
      BY <3>1
  <2>2. \A j \in i + 1 .. n + 1 : j \in U => j \in i + 1 .. n
    BY <1>2
  <2>3. \A j \in i + 1 .. n : j \in i + 1 .. n + 1
    OBVIOUS
  <2> QED
    BY <2>1, <2>2, <2>3 DEF Latest
<1>3. n + 1 \notin U => U = S
  BY <1>2
<1> QED
  BY <1>1, <1>2, <1>3

LastRoster(path) == CHOOSE i \in DOMAIN path :
    Structural(path[i]) /\ \A j \in i + 1 .. Len(path) : ~Structural(path[j])

Restates(path) == {i \in DOMAIN path : Structural(path[i])}

(* RosterOf reads the last entry that states a stack, and leaves the stack *)
(* alone where none does.                                                  *)
LEMMA LastRosterIs ==
  ASSUME NEW E, NEW path \in Seq(E)
  PROVE  /\ \A left : RosterOf(path, left) =
              IF Restates(path) = {} THEN left ELSE path[LastRoster(path)].roster
         /\ Restates(path) # {} =>
              LastRoster(path) \in 1 .. Len(path)
              /\ Latest(Len(path), Restates(path), LastRoster(path))
         /\ Restates(path) \in SUBSET (1 .. Len(path)) /\ Len(path) \in Nat
<1> DEFINE S == Restates(path)
<1>1. S \in SUBSET (1 .. Len(path)) /\ Len(path) \in Nat /\ DOMAIN path = 1 .. Len(path)
  BY DEF Restates
<1>2. \A i \in 1 .. Len(path) : i \in S <=> Structural(path[i])
  BY DEF Restates
<1>3. \A i \in DOMAIN path : Latest(Len(path), S, i)
        <=> Structural(path[i]) /\ \A j \in i + 1 .. Len(path) : ~Structural(path[j])
  <2> SUFFICES ASSUME NEW i \in 1 .. Len(path)
               PROVE  Latest(Len(path), S, i)
        <=> Structural(path[i]) /\ \A j \in i + 1 .. Len(path) : ~Structural(path[j])
    BY <1>1
  <2>1. \A j \in i + 1 .. Len(path) : j \in S <=> Structural(path[j])
    BY <1>1, <1>2
  <2> QED
    BY <1>2, <2>1 DEF Latest
<1> HIDE DEF S
<1>4. S # {} => \E i \in DOMAIN path : Latest(Len(path), S, i)
  BY <1>1, LatestIs
<1>5. S # {} => LastRoster(path) \in DOMAIN path /\ Latest(Len(path), S, LastRoster(path))
  BY <1>3, <1>4 DEF LastRoster
<1>6. S = {} <=> \A i \in DOMAIN path : ~Structural(path[i])
  BY <1>1, <1>2
<1>7. \A left : RosterOf(path, left) = IF S = {} THEN left ELSE path[LastRoster(path)].roster
  BY <1>6 DEF RosterOf, LastRoster
<1> QED
  BY <1>1, <1>5, <1>7 DEF S

(* One more entry is the word on the stack if it states one.               *)
LEMMA RosterStep ==
  ASSUME NEW E, NEW path \in Seq(E), NEW e \in E, NEW left
  PROVE  /\ RosterOf(<<>>, left) = left
         /\ RosterOf(Append(path, e), left) =
              IF Structural(e) THEN e.roster ELSE RosterOf(path, left)
         /\ Restates(Append(path, e)) # {} <=> Restates(path) # {} \/ Structural(e)
<1>q. PICK q : q = Append(path, e)
  OBVIOUS
<1> DEFINE n == Len(path)
<1>0. /\ q \in Seq(E) /\ Len(q) = n + 1 /\ q[n + 1] = e /\ n \in Nat
      /\ \A i \in 1 .. n : q[i] = path[i]
      /\ DOMAIN q = 1 .. n + 1 /\ DOMAIN path = 1 .. n
  BY AppendIs, <1>q
<1>1. RosterOf(<<>>, left) = left
  BY DEF RosterOf
<1>2. /\ RosterOf(q, left) = IF Restates(q) = {} THEN left ELSE q[LastRoster(q)].roster
      /\ Restates(q) # {} => LastRoster(q) \in 1 .. Len(q)
                             /\ Latest(Len(q), Restates(q), LastRoster(q))
      /\ Restates(q) \in SUBSET (1 .. Len(q))
  BY <1>0, LastRosterIs
<1>3. /\ RosterOf(path, left) = IF Restates(path) = {} THEN left ELSE path[LastRoster(path)].roster
      /\ Restates(path) # {} => LastRoster(path) \in 1 .. Len(path)
                             /\ Latest(Len(path), Restates(path), LastRoster(path))
      /\ Restates(path) \in SUBSET (1 .. Len(path))
  BY <1>0, LastRosterIs
<1>4. Restates(q) \cap (1 .. n) = Restates(path) /\ (n + 1 \in Restates(q) <=> Structural(e))
  BY <1>0 DEF Restates
<1> HIDE DEF n
<1>5. /\ n + 1 \in Restates(q) =>
           \A i \in 1 .. n + 1 : Latest(n + 1, Restates(q), i) <=> i = n + 1
      /\ n + 1 \notin Restates(q) => Restates(q) = Restates(path)
           /\ \A i \in 1 .. n + 1 : Latest(n + 1, Restates(q), i)
                                    <=> i \in 1 .. n /\ Latest(n, Restates(path), i)
  <2>1. Restates(q) \in SUBSET (1 .. n + 1) /\ Restates(path) \in SUBSET (1 .. n)
    BY <1>0, <1>2, <1>3 DEF n
  <2> QED
    BY <1>0, <1>4, <2>1, LatestAppend
<1>6. CASE Structural(e)
  BY <1>0, <1>2, <1>4, <1>5, <1>6, <1>1, <1>q
<1>7. CASE ~Structural(e)
  <2>1. Restates(q) = Restates(path)
    BY <1>4, <1>5, <1>7
  <2>2. CASE Restates(path) = {}
    BY <2>1, <2>2, <1>1, <1>2, <1>3, <1>7, <1>q
  <2>3. CASE Restates(path) # {}
    <3>1. LastRoster(q) \in 1 .. n /\ Latest(n, Restates(path), LastRoster(q))
      BY <2>1, <2>3, <1>0, <1>2, <1>5, <1>4, <1>7
    <3>2. LastRoster(q) = LastRoster(path)
      <4>1. LastRoster(path) \in 1 .. n /\ Latest(n, Restates(path), LastRoster(path))
        BY <2>3, <1>3 DEF n
      <4>2. Restates(path) \in SUBSET (1 .. n) /\ n \in Nat
        BY <1>3, <1>0 DEF n
      <4> QED
        BY <3>1, <4>1, <4>2, <2>3, LatestIs
    <3> QED
      BY <3>1, <3>2, <2>1, <2>3, <1>0, <1>1, <1>2, <1>3, <1>7, <1>q
  <2> QED
    BY <2>2, <2>3
<1> QED
  BY <1>6, <1>7

Said(path, b) == {i \in DOMAIN path : Says(path, b, i)}

LastSaid(path, b) == CHOOSE i \in DOMAIN path :
    Says(path, b, i) /\ \A j \in i + 1 .. Len(path) : ~Says(path, b, j)

(* TextOf reads the last word about a box.                                 *)
LEMMA LastSaidIs ==
  ASSUME NEW E, NEW path \in Seq(E), NEW b
  PROVE  /\ \A B : b \in B => TextOf(path, B)[b] =
              IF Said(path, b) = {} THEN 0 ELSE IF path[LastSaid(path, b)].removed THEN 0 ELSE path[LastSaid(path, b)].val
         /\ Said(path, b) # {} =>
              LastSaid(path, b) \in 1 .. Len(path)
              /\ Latest(Len(path), Said(path, b), LastSaid(path, b))
         /\ Said(path, b) \in SUBSET (1 .. Len(path)) /\ Len(path) \in Nat
<1> DEFINE S == Said(path, b)
<1>1. S \in SUBSET (1 .. Len(path)) /\ Len(path) \in Nat /\ DOMAIN path = 1 .. Len(path)
  BY DEF Said
<1>2. \A i \in 1 .. Len(path) : i \in S <=> Says(path, b, i)
  BY DEF Said
<1>3. \A i \in DOMAIN path : Latest(Len(path), S, i)
        <=> Says(path, b, i) /\ \A j \in i + 1 .. Len(path) : ~Says(path, b, j)
  <2> SUFFICES ASSUME NEW i \in 1 .. Len(path)
               PROVE  Latest(Len(path), S, i)
        <=> Says(path, b, i) /\ \A j \in i + 1 .. Len(path) : ~Says(path, b, j)
    BY <1>1
  <2>1. \A j \in i + 1 .. Len(path) : j \in S <=> Says(path, b, j)
    BY <1>1, <1>2
  <2> QED
    BY <1>2, <2>1 DEF Latest
<1> HIDE DEF S
<1>4. S # {} => \E i \in DOMAIN path : Latest(Len(path), S, i)
  BY <1>1, LatestIs
<1>5. S # {} => LastSaid(path, b) \in DOMAIN path /\ Latest(Len(path), S, LastSaid(path, b))
  BY <1>3, <1>4 DEF LastSaid
<1>6. S = {} <=> \A i \in DOMAIN path : ~Says(path, b, i)
  BY <1>1, <1>2
<1>7. \A B : b \in B => TextOf(path, B)[b] = IF S = {} THEN 0 ELSE IF path[LastSaid(path, b)].removed THEN 0 ELSE path[LastSaid(path, b)].val
  BY <1>6 DEF TextOf, LastSaid
<1> QED
  BY <1>1, <1>5, <1>7 DEF S

(* One more entry is the last word about its own box and about no other.   *)
LEMMA TextStep ==
  ASSUME NEW E, NEW path \in Seq(E), NEW e \in E, NEW B, NEW b \in B
  PROVE  /\ TextOf(<<>>, B)[b] = 0
         /\ TextOf(Append(path, e), B)[b] =
              IF e.kind = "text" /\ e.box = b
              THEN IF e.removed THEN 0 ELSE e.val ELSE TextOf(path, B)[b]
<1>q. PICK q : q = Append(path, e)
  OBVIOUS
<1> DEFINE n == Len(path)
<1>0. /\ q \in Seq(E) /\ Len(q) = n + 1 /\ q[n + 1] = e /\ n \in Nat
      /\ \A i \in 1 .. n : q[i] = path[i]
      /\ DOMAIN q = 1 .. n + 1 /\ DOMAIN path = 1 .. n
  BY AppendIs, <1>q
<1>1. TextOf(<<>>, B)[b] = 0
  BY DEF TextOf
<1>2. /\ TextOf(q, B)[b] = IF Said(q, b) = {} THEN 0
              ELSE IF q[LastSaid(q, b)].removed THEN 0 ELSE q[LastSaid(q, b)].val
      /\ Said(q, b) # {} => LastSaid(q, b) \in 1 .. Len(q)
                             /\ Latest(Len(q), Said(q, b), LastSaid(q, b))
      /\ Said(q, b) \in SUBSET (1 .. Len(q))
  BY <1>0, LastSaidIs
<1>3. /\ TextOf(path, B)[b] = IF Said(path, b) = {} THEN 0
              ELSE IF path[LastSaid(path, b)].removed THEN 0 ELSE path[LastSaid(path, b)].val
      /\ Said(path, b) # {} => LastSaid(path, b) \in 1 .. Len(path)
                             /\ Latest(Len(path), Said(path, b), LastSaid(path, b))
      /\ Said(path, b) \in SUBSET (1 .. Len(path))
  BY <1>0, LastSaidIs
<1>4. Said(q, b) \cap (1 .. n) = Said(path, b) /\ (n + 1 \in Said(q, b) <=> (e.kind = "text" /\ e.box = b))
  BY <1>0 DEF Said, Says
<1> HIDE DEF n
<1>5. /\ n + 1 \in Said(q, b) =>
           \A i \in 1 .. n + 1 : Latest(n + 1, Said(q, b), i) <=> i = n + 1
      /\ n + 1 \notin Said(q, b) => Said(q, b) = Said(path, b)
           /\ \A i \in 1 .. n + 1 : Latest(n + 1, Said(q, b), i)
                                    <=> i \in 1 .. n /\ Latest(n, Said(path, b), i)
  <2>1. Said(q, b) \in SUBSET (1 .. n + 1) /\ Said(path, b) \in SUBSET (1 .. n)
    BY <1>0, <1>2, <1>3 DEF n
  <2> QED
    BY <1>0, <1>4, <2>1, LatestAppend
<1>6. CASE (e.kind = "text" /\ e.box = b)
  BY <1>0, <1>2, <1>4, <1>5, <1>6, <1>1, <1>q
<1>7. CASE ~(e.kind = "text" /\ e.box = b)
  <2>1. Said(q, b) = Said(path, b)
    BY <1>4, <1>5, <1>7
  <2>2. CASE Said(path, b) = {}
    BY <2>1, <2>2, <1>1, <1>2, <1>3, <1>7, <1>q
  <2>3. CASE Said(path, b) # {}
    <3>1. LastSaid(q, b) \in 1 .. n /\ Latest(n, Said(path, b), LastSaid(q, b))
      BY <2>1, <2>3, <1>0, <1>2, <1>5, <1>4, <1>7
    <3>2. LastSaid(q, b) = LastSaid(path, b)
      <4>1. LastSaid(path, b) \in 1 .. n /\ Latest(n, Said(path, b), LastSaid(path, b))
        BY <2>3, <1>3 DEF n
      <4>2. Said(path, b) \in SUBSET (1 .. n) /\ n \in Nat
        BY <1>3, <1>0 DEF n
      <4> QED
        BY <3>1, <4>1, <4>2, <2>3, LatestIs
    <3> QED
      BY <3>1, <3>2, <2>1, <2>3, <1>0, <1>1, <1>2, <1>3, <1>7, <1>q
  <2> QED
    BY <2>2, <2>3
<1> QED
  BY <1>6, <1>7

KeysOf(path, l) == {i \in DOMAIN path : Keys(path, l, i)}

LastKey(path, l) == CHOOSE i \in DOMAIN path :
    Keys(path, l, i) /\ \A j \in i + 1 .. Len(path) : ~Keys(path, l, j)

(* Replayed starts from the newest keyframe of the layer.                  *)
LEMMA LastKeyIs ==
  ASSUME NEW E, NEW path \in Seq(E), NEW l
  PROVE  /\ \A left : Replayed(path, l, left) =
              IF KeysOf(path, l) = {} THEN left
              ELSE Laid(SubSeq(path, LastKey(path, l) + 1, Len(path)), l, path[LastKey(path, l)].pic)
         /\ KeysOf(path, l) # {} =>
              LastKey(path, l) \in 1 .. Len(path)
              /\ Latest(Len(path), KeysOf(path, l), LastKey(path, l))
         /\ KeysOf(path, l) \in SUBSET (1 .. Len(path)) /\ Len(path) \in Nat
<1> DEFINE S == KeysOf(path, l)
<1>1. S \in SUBSET (1 .. Len(path)) /\ Len(path) \in Nat /\ DOMAIN path = 1 .. Len(path)
  BY DEF KeysOf
<1>2. \A i \in 1 .. Len(path) : i \in S <=> Keys(path, l, i)
  BY DEF KeysOf
<1>3. \A i \in DOMAIN path : Latest(Len(path), S, i)
        <=> Keys(path, l, i) /\ \A j \in i + 1 .. Len(path) : ~Keys(path, l, j)
  <2> SUFFICES ASSUME NEW i \in 1 .. Len(path)
               PROVE  Latest(Len(path), S, i)
        <=> Keys(path, l, i) /\ \A j \in i + 1 .. Len(path) : ~Keys(path, l, j)
    BY <1>1
  <2>1. \A j \in i + 1 .. Len(path) : j \in S <=> Keys(path, l, j)
    BY <1>1, <1>2
  <2> QED
    BY <1>2, <2>1 DEF Latest
<1> HIDE DEF S
<1>4. S # {} => \E i \in DOMAIN path : Latest(Len(path), S, i)
  BY <1>1, LatestIs
<1>5. S # {} => LastKey(path, l) \in DOMAIN path /\ Latest(Len(path), S, LastKey(path, l))
  BY <1>3, <1>4 DEF LastKey
<1>6. S = {} <=> \A i \in DOMAIN path : ~Keys(path, l, i)
  BY <1>1, <1>2
<1>7. \A left : Replayed(path, l, left) = IF S = {} THEN left
              ELSE Laid(SubSeq(path, LastKey(path, l) + 1, Len(path)), l, path[LastKey(path, l)].pic)
  BY <1>6 DEF Replayed, LastKey, KeyframedOn
<1> QED
  BY <1>1, <1>5, <1>7 DEF S

(* A path has a keyframe of a layer once an entry on it was one.           *)
LEMMA KeyframedStep ==
  ASSUME NEW E, NEW path \in Seq(E), NEW e \in E, NEW l
  PROVE  /\ ~KeyframedOn(<<>>, l)
         /\ KeyframedOn(Append(path, e), l) <=> KeyframedOn(path, l) \/ (Keyframes(e) /\ e.layer = l)
<1>q. PICK q : q = Append(path, e)
  OBVIOUS
<1>0. /\ q[Len(path) + 1] = e /\ Len(path) \in Nat
      /\ \A i \in 1 .. Len(path) : q[i] = path[i]
      /\ DOMAIN q = 1 .. Len(path) + 1 /\ DOMAIN path = 1 .. Len(path)
  BY AppendIs, <1>q
<1>1. KeyframedOn(q, l) <=> KeyframedOn(path, l) \/ (Keyframes(e) /\ e.layer = l)
  BY <1>0 DEF KeyframedOn, Keys
<1>2. ~KeyframedOn(<<>>, l)
  BY DEF KeyframedOn
<1> QED
  BY <1>1, <1>2, <1>q

(* A replay of one more entry: a keyframe is the raster, a mark goes on    *)
(* top.                                                                    *)
LEMMA ReplayedStep ==
  ASSUME NEW E, NEW path \in Seq(E), NEW e \in E, NEW l, NEW left
  PROVE  Replayed(Append(path, e), l, left) =
           IF Keyframes(e) /\ e.layer = l THEN e.pic
           ELSE IF ~KeyframedOn(path, l) THEN left
           ELSE IF Marks(e) /\ e.layer = l THEN Drawn(Replayed(path, l, left), e)
           ELSE Replayed(path, l, left)
<1>q. PICK q : q = Append(path, e)
  OBVIOUS
<1> DEFINE n == Len(path)
           keys == Keyframes(e) /\ e.layer = l
<1>0. /\ q \in Seq(E) /\ Len(q) = n + 1 /\ q[n + 1] = e /\ n \in Nat
      /\ \A i \in 1 .. n : q[i] = path[i]
      /\ DOMAIN q = 1 .. n + 1 /\ DOMAIN path = 1 .. n
  BY AppendIs, <1>q
<1>2. /\ Replayed(q, l, left) = IF KeysOf(q, l) = {} THEN left
              ELSE Laid(SubSeq(q, LastKey(q, l) + 1, Len(q)), l, q[LastKey(q, l)].pic)
      /\ KeysOf(q, l) # {} => LastKey(q, l) \in 1 .. Len(q)
                             /\ Latest(Len(q), KeysOf(q, l), LastKey(q, l))
      /\ KeysOf(q, l) \in SUBSET (1 .. Len(q))
  BY <1>0, LastKeyIs
<1>3. /\ Replayed(path, l, left) = IF KeysOf(path, l) = {} THEN left
              ELSE Laid(SubSeq(path, LastKey(path, l) + 1, Len(path)), l, path[LastKey(path, l)].pic)
      /\ KeysOf(path, l) # {} => LastKey(path, l) \in 1 .. Len(path)
                             /\ Latest(Len(path), KeysOf(path, l), LastKey(path, l))
      /\ KeysOf(path, l) \in SUBSET (1 .. Len(path))
  BY <1>0, LastKeyIs
<1>4. KeysOf(q, l) \cap (1 .. n) = KeysOf(path, l) /\ (n + 1 \in KeysOf(q, l) <=> keys)
  BY <1>0 DEF KeysOf, Keys
<1>k. KeysOf(path, l) # {} <=> KeyframedOn(path, l)
  BY DEF KeysOf, KeyframedOn
<1> HIDE DEF n, keys
<1>5. /\ n + 1 \in KeysOf(q, l) =>
           \A i \in 1 .. n + 1 : Latest(n + 1, KeysOf(q, l), i) <=> i = n + 1
      /\ n + 1 \notin KeysOf(q, l) => KeysOf(q, l) = KeysOf(path, l)
           /\ \A i \in 1 .. n + 1 : Latest(n + 1, KeysOf(q, l), i)
                                    <=> i \in 1 .. n /\ Latest(n, KeysOf(path, l), i)
  <2>1. KeysOf(q, l) \in SUBSET (1 .. n + 1) /\ KeysOf(path, l) \in SUBSET (1 .. n)
    BY <1>0, <1>2, <1>3 DEF n
  <2> QED
    BY <1>0, <1>4, <2>1, LatestAppend
<1>6. CASE keys
  <2>1. LastKey(q, l) = n + 1 /\ KeysOf(q, l) # {}
    BY <1>0, <1>2, <1>4, <1>5, <1>6
  <2>2. SubSeq(q, n + 1 + 1, n + 1) = <<>>
    BY <1>0
  <2>3. Laid(<<>>, l, e.pic) = e.pic
    BY LaidStep
  <2>4. Replayed(q, l, left) = e.pic
    BY <2>1, <2>2, <2>3, <1>0, <1>2
  <2> QED
    BY <2>4, <1>6, <1>q DEF keys
<1>7. CASE ~keys
  <2>1. KeysOf(q, l) = KeysOf(path, l)
    BY <1>4, <1>5, <1>7
  <2>2. CASE KeysOf(path, l) = {}
    <3>1. Replayed(q, l, left) = left
      BY <2>1, <2>2, <1>2
    <3> QED
      BY <3>1, <2>2, <1>k, <1>7, <1>q DEF keys
  <2>3. CASE KeysOf(path, l) # {}
    <3>1. LastKey(q, l) \in 1 .. n /\ Latest(n, KeysOf(path, l), LastKey(q, l))
      BY <2>1, <2>3, <1>0, <1>2, <1>5, <1>4, <1>7
    <3>a. LastKey(path, l) \in 1 .. n /\ Latest(n, KeysOf(path, l), LastKey(path, l))
      BY <2>3, <1>3 DEF n
    <3>2. LastKey(q, l) = LastKey(path, l)
      <4>2. KeysOf(path, l) \in SUBSET (1 .. n) /\ n \in Nat
        BY <1>3, <1>0 DEF n
      <4> QED
        BY <3>1, <3>a, <4>2, <2>3, LatestIs
    <3>3. PICK b \in 1 .. n : b = LastKey(path, l)
      BY <3>a
    <3>4. PICK tail : tail = SubSeq(path, b + 1, n)
      OBVIOUS
    <3>5. tail \in Seq(E) /\ SubSeq(q, b + 1, n + 1) = Append(tail, e)
      <4>1. tail \in Seq(E) /\ Len(tail) = n - b /\ \A i \in 1 .. n - b : tail[i] = path[b + i]
        BY <3>3, <3>4, <1>0 DEF n
      <4>2. PICK u : u = SubSeq(q, b + 1, n + 1)
        OBVIOUS
      <4>3. u \in Seq(E) /\ Len(u) = n + 1 - b /\ \A i \in 1 .. n + 1 - b : u[i] = q[b + i]
        BY <3>3, <4>2, <1>0
      <4>4. PICK v : v = Append(tail, e)
        OBVIOUS
      <4>5. v \in Seq(E) /\ Len(v) = n - b + 1 /\ v[n - b + 1] = e
            /\ \A i \in 1 .. n - b : v[i] = tail[i]
        BY <4>1, <4>4, AppendIs
      <4>6. \A i \in 1 .. n + 1 - b : u[i] = v[i]
        <5> SUFFICES ASSUME NEW i \in 1 .. n + 1 - b PROVE u[i] = v[i]
          OBVIOUS
        <5>1. CASE i = n + 1 - b
          <6>1. b + i = n + 1 /\ i = n - b + 1 /\ i \in 1 .. n + 1 - b
            BY <5>1, <1>0, <3>3
          <6>2. u[i] = q[n + 1] /\ v[i] = e
            BY <6>1, <4>3, <4>5
          <6> QED
            BY <6>2, <1>0
        <5>2. CASE i # n + 1 - b
          <6>1. i \in 1 .. n - b /\ b + i \in 1 .. n
            BY <5>2, <1>0, <3>3
          <6> QED
            BY <6>1, <4>1, <4>3, <4>5, <1>0
        <5> QED
          BY <5>1, <5>2
      <4>7. Len(u) = Len(v)
        BY <4>3, <4>5, <1>0, <3>3
      <4>8. u = v
        BY <4>3, <4>5, <4>6, <4>7
      <4> QED
        BY <4>1, <4>2, <4>4, <4>8
    <3>6. PICK p : p = path[b].pic
      OBVIOUS
    <3>7. Replayed(path, l, left) = Laid(tail, l, p)
      BY <3>3, <3>4, <3>6, <1>3, <2>3 DEF n
    <3>8. Replayed(q, l, left) = Laid(Append(tail, e), l, p)
      BY <3>2, <3>3, <3>5, <3>6, <1>0, <1>2, <2>1, <2>3
    <3>9. Laid(Append(tail, e), l, p) = IF Marks(e) /\ e.layer = l THEN Drawn(Laid(tail, l, p), e)
                                      ELSE Laid(tail, l, p)
      BY <3>5, LaidStep
    <3> QED
      BY <3>7, <3>8, <3>9, <1>7, <1>k, <2>3, <1>q DEF keys
  <2> QED
    BY <2>2, <2>3
<1> QED
  BY <1>6, <1>7

----------------------------------------------------------------------------
(* A path with nothing taken back.                                         *)

Stays(path, i) ==
  /\ ~Retraction(path[i]) /\ i \notin RetractedMask(path)
  /\ ~ /\ Keyframes(path[i])
       /\ \E g \in RetractedMask(path) : g < i /\ path[g].layer = path[i].layer

KeptFcn(path) ==
  CHOOSE upto : upto = [i \in 0 .. Len(path) |->
    IF i = 0 THEN <<>>
    ELSE IF Stays(path, i) THEN Append(upto[i - 1], path[i]) ELSE upto[i - 1]]

IsKept(path, upto) == upto = [i \in 0 .. Len(path) |->
    IF i = 0 THEN <<>>
    ELSE IF Stays(path, i) THEN Append(upto[i - 1], path[i]) ELSE upto[i - 1]]

(* A path with no retraction is read as it is.                             *)
LEMMA EffectiveIs ==
  ASSUME NEW E, NEW path \in Seq(E), \A i \in 1 .. Len(path) : ~Retraction(path[i])
  PROVE  EffectivePath(path) = path
<1>1. EffectivePath(path) = KeptFcn(path)[Len(path)]
  BY DEF EffectivePath, KeptFcn, Stays
<1>2. DOMAIN path = 1 .. Len(path) /\ Len(path) \in Nat
  OBVIOUS
<1>3. RetractedMask(path) = {}
  <2>1. \A r \in DOMAIN path : path[r].kind # "undo"
    BY <1>2 DEF Retraction
  <2> QED
    BY <2>1 DEF RetractedMask
<1>4. \A i \in 1 .. Len(path) : Stays(path, i)
  BY <1>3 DEF Stays
<1> DEFINE f == [i \in 0 .. Len(path) |-> SubSeq(path, 1, i)]
<1>5. SubSeq(path, 1, 0) = <<>> /\ SubSeq(path, 1, Len(path)) = path
  OBVIOUS
<1>6. \A i \in 1 .. Len(path) : SubSeq(path, 1, i) = Append(SubSeq(path, 1, i - 1), path[i])
  <2> SUFFICES ASSUME NEW i \in 1 .. Len(path)
               PROVE  SubSeq(path, 1, i) = Append(SubSeq(path, 1, i - 1), path[i])
    OBVIOUS
  <2>1. PICK a : a = SubSeq(path, 1, i)
    OBVIOUS
  <2>2. PICK b : b = SubSeq(path, 1, i - 1)
    OBVIOUS
  <2>3. a \in Seq(E) /\ Len(a) = i /\ \A j \in 1 .. i : a[j] = path[j]
    BY <2>1
  <2>4. b \in Seq(E) /\ Len(b) = i - 1 /\ \A j \in 1 .. i - 1 : b[j] = path[j]
    BY <2>2
  <2>5. PICK c : c = Append(b, path[i])
    OBVIOUS
  <2>6. path[i] \in E
    BY <1>2
  <2>7. c \in Seq(E) /\ Len(c) = i - 1 + 1 /\ c[i - 1 + 1] = path[i]
        /\ \A j \in 1 .. i - 1 : c[j] = b[j]
    BY <2>4, <2>5, <2>6, AppendIs
  <2>8. \A j \in 1 .. i : a[j] = c[j]
    BY <2>3, <2>4, <2>7
  <2>9. a = c
    BY <2>3, <2>7, <2>8
  <2> QED
    BY <2>1, <2>2, <2>5, <2>9
<1>7. IsKept(path, f)
  <2>1. \A i \in 0 .. Len(path) : f[i] = IF i = 0 THEN <<>>
          ELSE IF Stays(path, i) THEN Append(f[i - 1], path[i]) ELSE f[i - 1]
    <3> SUFFICES ASSUME NEW i \in 0 .. Len(path)
                 PROVE  f[i] = IF i = 0 THEN <<>>
          ELSE IF Stays(path, i) THEN Append(f[i - 1], path[i]) ELSE f[i - 1]
      OBVIOUS
    <3>1. CASE i = 0
      BY <3>1, <1>5
    <3>2. CASE i # 0
      <4>1. i \in 1 .. Len(path) /\ i - 1 \in 0 .. Len(path)
        BY <3>2
      <4>2. f[i] = SubSeq(path, 1, i) /\ f[i - 1] = SubSeq(path, 1, i - 1)
        BY <4>1
      <4> QED
        BY <4>1, <4>2, <1>4, <1>6, <3>2
    <3> QED
      BY <3>1, <3>2
  <2> QED
    BY <2>1 DEF IsKept
<1>8. IsKept(path, KeptFcn(path))
  BY <1>7, ZenonT(60) DEF IsKept, KeptFcn
<1> DEFINE G == {i \in 0 .. Len(path) : KeptFcn(path)[i] = SubSeq(path, 1, i)}
<1>9. \A i \in 0 .. Len(path) : KeptFcn(path)[i] = IF i = 0 THEN <<>>
          ELSE IF Stays(path, i) THEN Append(KeptFcn(path)[i - 1], path[i])
          ELSE KeptFcn(path)[i - 1]
  BY <1>8 DEF IsKept
<1>10. \A i \in 0 .. Len(path) : i \in G
  <2>1. 0 \in G
    <3>1. 0 \in 0 .. Len(path)
      BY <1>2
    <3>2. KeptFcn(path)[0] = <<>>
      BY <1>9, <3>1
    <3> QED
      BY <3>1, <3>2, <1>5
  <2>2. ASSUME NEW i \in 1 .. Len(path), i - 1 \in G PROVE i \in G
    <3>1. i \in 0 .. Len(path) /\ i # 0
      OBVIOUS
    <3>2. KeptFcn(path)[i] = Append(KeptFcn(path)[i - 1], path[i])
      BY <3>1, <1>4, <1>9
    <3>3. KeptFcn(path)[i - 1] = SubSeq(path, 1, i - 1)
      BY <2>2
    <3>4. KeptFcn(path)[i] = SubSeq(path, 1, i)
      BY <3>2, <3>3, <1>6
    <3> QED
      BY <3>1, <3>4
  <2> HIDE DEF G
  <2> QED
    BY <1>2, <2>1, <2>2, CountUp
<1>11. KeptFcn(path)[Len(path)] = SubSeq(path, 1, Len(path))
  BY <1>2, <1>10
<1> QED
  BY <1>1, <1>5, <1>11

----------------------------------------------------------------------------
(* The invariant.                                                          *)

(* Types: an entry, a page and the ground of its history, with marks no    *)
(* further than m.                                                         *)
Kinds     == {"snap", "dab", "fill", "clear", "patch", "layers", "text"}
Faces     == [key : Layers, face : {0, 1}]
Rasters(m) == Seq(1 .. m)

Keyed(roster) ==
  /\ roster # <<>>
  /\ \A i, j \in DOMAIN roster : roster[i].key = roster[j].key => i = j

(* What an entry of each kind states.                                      *)
Formed(e) ==
  /\ e.kind = "snap" => e.layer # NoLayer /\ e.pic # NoPic /\ ~e.keyframe
  /\ e.kind \in {"dab", "fill", "clear", "patch"} =>
       e.layer # NoLayer /\ e.mark # 0 /\ ~e.keyframe
  /\ e.kind = "layers" => /\ Keyed(e.roster) /\ (e.pic = NoPic <=> e.layer = NoLayer)
                          /\ e.keyframe => e.pic = NoPic
  /\ e.kind = "text" => e.layer = NoLayer
  /\ e.kind # "layers" => e.roster = <<>>

Fields(m) ==
  [parent : Nat, kind : Kinds, layer : Layers \cup {NoLayer}, author : {NoAuthor},
   mark : 0 .. m, pic : Rasters(m) \cup {NoPic}, roster : Seq(Faces), keyframe : BOOLEAN,
   box : Boxes \cup {NoBox}, val : -m .. m, removed : BOOLEAN,
   ordinal : {0}, sent : BOOLEAN, confirmed : BOOLEAN]

Entries(m) == {e \in Fields(m) : Formed(e)}

Docs(m) ==
  [book : Seq(Entries(m)), cursor : Nat, since : [Layers -> -1 .. SnapEvery],
   stack : Seq(Faces), active : Layers, pic : [Layers -> Rasters(m)],
   open : Seq(Fields(m)), made : {m},
   text : [Boxes -> -m .. m], sel : Boxes \cup {NoBox}, before : -m .. m,
   fresh : Boxes \cup {NoBox}, author : {NoAuthor}, lift : 0 .. m,
   changed : BOOLEAN, restate : {FALSE}, stated : {<<>>}, left : {0}]

(* A layer somebody has seen: on the ground of the history or on a roster. *)
Known(book, g, l) ==
  l \in LayersOf(g.stack) \/ \E n \in DOMAIN book : l \in LayersOf(book[n].roster)

(* The entries on the way to entry c.                                      *)
Way(book, c) == ToSet(ChainTo(book, c))

(* The mark a redo down branch k finds.                                    *)
DownOf(book) ==
  CHOOSE down : down = [k \in DOMAIN book |->
        IF Marks(book[k]) THEN k
        ELSE IF ChildrenOf(book, k) = {} THEN 0 ELSE down[Max(ChildrenOf(book, k))]]

(* The branches under the cursor that a mark was made on, newest first.    *)
LiveOf(book, c) == {k \in ChildrenOf(book, c) : DownOf(book)[k] # 0}

(* What a page needs for an undo to be taken back: nothing is kept of a    *)
(* layer that is off the stack; the words that open a history have no mark *)
(* above them; and at every mark on the way to the cursor at most one      *)
(* newer branch of its parent can be redone.                               *)
Bare(d)        == \A l \in Layers : l \notin LayersOf(d.stack) => d.pic[l] = <<>>
Unmarked(book, n) == \A k \in Way(book, n) : ~Marks(book[k])
Openings(book) ==
  \A n \in DOMAIN book : book[n].kind = "text" /\ ~Marks(book[n]) => Unmarked(book, n)
Redoable(book, c) ==
  \A k \in Way(book, c) : Marks(book[k]) =>
    \A i, j \in LiveOf(book, book[k].parent) : i > k /\ j > k => i = j
Returns(d) == Bare(d) /\ Openings(d.book) /\ Redoable(d.book, d.cursor)

Open(d, e) == e.kind = "dab" /\ e.layer \in LayersOf(d.stack) /\ ~e.keyframe
              /\ e.roster = <<>> /\ e.pic = NoPic

Sane(d, g) ==
  /\ d.made \in Nat \ {0} /\ d \in Docs(d.made)
  /\ Tree(d.book) /\ d.cursor \in 0 .. Len(d.book)
  /\ Keyed(d.stack) /\ d.active \in LayersOf(d.stack)
  /\ d.open = <<>> \/ (Len(d.open) = 1 /\ Open(d, d.open[1]))
  /\ d.sel # NoBox => d.text[d.sel] # NoText
  /\ g \in [pic : [Layers -> Rasters(d.made)], stack : Seq(Faces)] /\ Keyed(g.stack)
  /\ \A n \in DOMAIN d.book : d.book[n].layer # NoLayer => Known(d.book, g, d.book[n].layer)
  /\ \A l \in LayersOf(d.stack) : Known(d.book, g, l)
  /\ Returns(d)

(* The boxes but those in w: the last word on the path about each, if it   *)
(* is not the one that is open and changed, and the ones without words.    *)
Unsaid(v, said) == v = said \/ (Wordless(v) /\ said = NoText)

WordsOf(d, w) ==
  LET said == TextOf(PathOf(d), Boxes)
  IN /\ \A b \in Boxes \ w : b # d.sel => Unsaid(d.text[b], said[b])
     /\ d.sel # NoBox /\ d.sel \notin w /\ d.text[d.sel] = d.before =>
          Unsaid(d.before, said[d.sel])

Worded(d) == WordsOf(d, loose)

GroundedBook(book) ==
  \A n \in DOMAIN book :
     Marks(book[n]) /\ book[n].layer # NoLayer /\ ~Keyframes(book[n])
       => KeyframedOn(Path(book, n), book[n].layer)

Ink(g, path, l) == Laid(path, l, IF l \in LayersOf(g.stack) THEN g.pic[l] ELSE <<>>)

(* What an entry says of the path it was made on.                          *)
TruthOf(e, above, g) ==
  LET stack == RosterOf(above, g.stack)
  IN /\ e.kind = "snap" => e.pic = Ink(g, above, e.layer)
     /\ Structural(e) /\ e.keyframe => e.roster = stack
     /\ Structural(e) /\ ~e.keyframe =>
          /\ Restates(above) # {}
          /\ \A l \in LayersOf(stack) : l \in LayersOf(e.roster) \/ KeyframedOn(above, l)
          /\ e.layer # NoLayer => KeyframedOn(above, e.layer)
          /\ \A l \in LayersOf(e.roster) \ LayersOf(stack) :
               /\ l \notin LayersOf(g.stack) /\ l # e.layer
               /\ \A i \in DOMAIN above : above[i].layer # l

Truthful(book, g, n) == TruthOf(book[n], Path(book, book[n].parent), g)

Wet(d, l)    == d.open # <<>> /\ d.open[1].layer = l /\ d.open[1].mark # 0
Carried(d)   == d.lift # 0 /\ d.lift \in ToSet(d.pic[d.active])
Shows(d, g, l) ==
  LET ink == Ink(g, PathOf(d), l)
  IN d.pic[l] = IF Wet(d, l) THEN Append(ink, d.open[1].mark)
                ELSE IF Carried(d) /\ l = d.active THEN Append(ink, d.lift) ELSE ink

Pictured(d, g) ==
  /\ d.stack = RosterOf(PathOf(d), g.stack)
  /\ \A l \in LayersOf(d.stack) : Shows(d, g, l)
  /\ Carried(d) => /\ d.open = <<>> /\ ~SnapshotDue(d, d.active)
                   /\ d.lift \notin ToSet(Ink(g, PathOf(d), d.active))
  /\ \A n \in DOMAIN d.book : Truthful(d.book, g, n)

HistoryInv ==
  /\ torn \in BOOLEAN
  /\ loose \subseteq Boxes
  /\ Sane(doc, paper)
  /\ Worded(doc)
  /\ ~torn /\ GroundedBook(doc.book) => Pictured(doc, paper)

(* Handing out numbers takes no entry and no raster out of the types.      *)
LEMMA Grows ==
  ASSUME NEW m \in Nat, NEW k \in Nat, m <= k
  PROVE  /\ Rasters(m) \subseteq Rasters(k)
         /\ Fields(m) \subseteq Fields(k)
         /\ Entries(m) \subseteq Entries(k)
<1>1. 0 .. m \subseteq 0 .. k /\ 1 .. m \subseteq 1 .. k /\ -m .. m \subseteq -k .. k
  OBVIOUS
<1>2. Rasters(m) \subseteq Rasters(k)
  BY <1>1 DEF Rasters
<1>3. Fields(m) \subseteq Fields(k)
  BY <1>1, <1>2 DEF Fields
<1>4. Entries(m) \subseteq Entries(k)
  BY <1>3 DEF Entries
<1> QED
  BY <1>2, <1>3, <1>4

Placed(e, c) == [e EXCEPT !.parent = c]

(* An entry is the same entry wherever in the tree it goes.                *)
LEMMA PlacedIs ==
  ASSUME NEW m \in Nat, NEW e \in Entries(m), NEW c \in Nat
  PROVE  /\ Placed(e, c) \in Entries(m)
         /\ Placed(e, c).parent = c
         /\ Placed(e, c).kind = e.kind /\ Placed(e, c).layer = e.layer
         /\ Placed(e, c).mark = e.mark /\ Placed(e, c).pic = e.pic
         /\ Placed(e, c).roster = e.roster /\ Placed(e, c).keyframe = e.keyframe
         /\ Placed(e, c).box = e.box /\ Placed(e, c).val = e.val
         /\ Placed(e, c).removed = e.removed
BY DEF Placed, Entries, Fields, Formed

(* What Recorded does, field by field.                                     *)
LEMMA RecordedIs ==
  ASSUME NEW m \in Nat, NEW d \in Docs(m), NEW e \in Entries(m)
  PROVE  /\ Recorded(d, e) \in Docs(m)
         /\ Recorded(d, e).book = Append(d.book, Placed(e, d.cursor))
         /\ Recorded(d, e).cursor = Len(d.book) + 1
         /\ Recorded(d, e).stack = d.stack /\ Recorded(d, e).active = d.active
         /\ Recorded(d, e).pic = d.pic /\ Recorded(d, e).open = d.open
         /\ Recorded(d, e).text = d.text /\ Recorded(d, e).sel = d.sel
         /\ Recorded(d, e).before = d.before /\ Recorded(d, e).fresh = d.fresh
         /\ Recorded(d, e).lift = d.lift
         /\ \A l \in Layers : l # e.layer => Recorded(d, e).since[l] = d.since[l]
         /\ ~Marks(e) /\ e.layer \in Layers => Recorded(d, e).since[e.layer] = 0
<1>1. PICK since : since = [l \in Layers |->
               IF l # e.layer THEN d.since[l]
               ELSE IF ~Marks(e) THEN 0
               ELSE IF d.since[l] = -1 THEN 1
               ELSE IF d.since[l] < SnapEvery THEN d.since[l] + 1 ELSE d.since[l]]
  OBVIOUS
<1>2. since \in [Layers -> -1 .. SnapEvery]
  BY <1>1, SnapEveryAssumption DEF Docs
<1>3. PICK p : p = Placed(e, d.cursor)
  OBVIOUS
<1>4. p \in Entries(m)
  BY <1>3, PlacedIs DEF Docs
<1>5. PICK book : book = Append(d.book, p)
  OBVIOUS
<1>6. book \in Seq(Entries(m)) /\ Len(d.book) \in Nat
  BY <1>4, <1>5 DEF Docs
<1>7. Recorded(d, e) = [d EXCEPT !.book = book, !.cursor = Len(d.book) + 1, !.since = since]
  BY <1>1, <1>3, <1>5 DEF Recorded, Placed, Docs
<1>8. PICK c \in Nat : c = Len(d.book) + 1
  BY <1>6
<1>9. PICK r : r = [d EXCEPT !.book = book, !.cursor = c, !.since = since]
  OBVIOUS
<1>10. /\ r \in Docs(m)
       /\ r.book = book /\ r.cursor = c
       /\ r.stack = d.stack /\ r.active = d.active
       /\ r.pic = d.pic /\ r.open = d.open /\ r.text = d.text /\ r.sel = d.sel
       /\ r.before = d.before /\ r.fresh = d.fresh /\ r.lift = d.lift /\ r.since = since
  BY <1>2, <1>6, <1>8, <1>9 DEF Docs
<1>11. /\ \A l \in Layers : l # e.layer => r.since[l] = d.since[l]
       /\ ~Marks(e) /\ e.layer \in Layers => r.since[e.layer] = 0
  BY <1>1, <1>10
<1> QED
  BY <1>3, <1>5, <1>7, <1>8, <1>9, <1>10, <1>11

----------------------------------------------------------------------------
(* One more entry in a book.                                               *)

(* A book with one entry more, made at c.                                  *)
OneMore(m, book, c, e, long) ==
  /\ long \in Seq(Entries(m)) /\ Tree(long) /\ GoesOn(long, book)
  /\ Len(book) \in Nat /\ Len(long) = Len(book) + 1 /\ long[Len(book) + 1] = e
  /\ DOMAIN long = 1 .. Len(book) + 1 /\ DOMAIN book = 1 .. Len(book)
  /\ \A n \in 1 .. Len(book) : long[n] = book[n]
  /\ \A k \in 0 .. Len(book) : Path(long, k) = Path(book, k)
  /\ Path(long, Len(book) + 1) = Append(Path(book, c), e)
  /\ Path(book, c) \in Seq(Entries(m))

(* What a book with one more entry is: a tree that goes on where the other *)
(* ended.                                                                  *)
LEMMA BookStep ==
  ASSUME NEW m \in Nat, NEW book \in Seq(Entries(m)), Tree(book),
         NEW c \in 0 .. Len(book), NEW e \in Entries(m), e.parent = c,
         NEW long, long = Append(book, e)
  PROVE  OneMore(m, book, c, e, long)
<1>1. /\ long \in Seq(Entries(m)) /\ Len(book) \in Nat /\ Len(long) = Len(book) + 1
      /\ long[Len(book) + 1] = e /\ \A n \in 1 .. Len(book) : long[n] = book[n]
  BY AppendIs
<1>2. Tree(long)
  <2> SUFFICES ASSUME NEW n \in 1 .. Len(book) + 1 PROVE long[n].parent \in 0 .. n - 1
    BY <1>1 DEF Tree
  <2>1. CASE n = Len(book) + 1
    BY <2>1, <1>1
  <2>2. CASE n # Len(book) + 1
    <3>1. n \in 1 .. Len(book)
      BY <2>2, <1>1
    <3> QED
      BY <3>1, <1>1 DEF Tree
  <2> QED
    BY <2>1, <2>2
<1>3. GoesOn(long, book)
  BY <1>1 DEF GoesOn
<1>4. \A k \in 0 .. Len(book) : Path(long, k) = Path(book, k)
  BY <1>1, <1>2, <1>3, PathGoesOn
<1>5. Path(long, Len(book) + 1) = Append(Path(book, c), e)
  <2>1. Len(book) + 1 \in 1 .. Len(long)
    BY <1>1
  <2>2. Path(long, Len(book) + 1) = Append(Path(long, long[Len(book) + 1].parent), long[Len(book) + 1])
    BY <2>1, <1>1, <1>2, PathStep
  <2> QED
    BY <2>2, <1>1, <1>4
<1>6. Path(book, c) \in Seq(Entries(m))
  BY PathStep
<1> QED
  BY <1>1, <1>2, <1>3, <1>4, <1>5, <1>6 DEF OneMore

(* The layers on an earlier book are known on a longer one.                *)
LEMMA KnownStep ==
  ASSUME NEW m \in Nat, NEW book \in Seq(Entries(m)), NEW e \in Entries(m), NEW g, NEW l
  PROVE  /\ Known(book, g, l) => Known(Append(book, e), g, l)
         /\ l \in LayersOf(e.roster) => Known(Append(book, e), g, l)
<1>q. PICK q : q = Append(book, e)
  OBVIOUS
<1>1. /\ q[Len(book) + 1] = e /\ Len(book) \in Nat
      /\ \A i \in 1 .. Len(book) : q[i] = book[i]
      /\ DOMAIN q = 1 .. Len(book) + 1 /\ DOMAIN book = 1 .. Len(book)
  BY AppendIs, <1>q
<1>2. \A n \in DOMAIN book : n \in DOMAIN q /\ q[n] = book[n]
  BY <1>1
<1>3. Len(book) + 1 \in DOMAIN q
  BY <1>1
<1>4. Known(book, g, l) => Known(q, g, l)
  BY <1>2 DEF Known
<1>5. l \in LayersOf(e.roster) => Known(q, g, l)
  BY <1>1, <1>3 DEF Known
<1> QED
  BY <1>4, <1>5, <1>q

(* What a path has drawn on a layer after one more entry.                  *)
LEMMA InkStep ==
  ASSUME NEW m \in Nat, NEW path \in Seq(Entries(m)), NEW e \in Entries(m), NEW g, NEW l
  PROVE  Ink(g, Append(path, e), l) =
           IF Marks(e) /\ e.layer = l THEN Drawn(Ink(g, path, l), e) ELSE Ink(g, path, l)
BY LaidStep DEF Ink

(* What was grounded and truthful stays so, and what the new entry owes.   *)
LEMMA GroundStep ==
  ASSUME NEW m \in Nat, NEW book \in Seq(Entries(m)), Tree(book),
         NEW c \in 0 .. Len(book), NEW e \in Entries(m), e.parent = c,
         NEW long, long = Append(book, e)
  PROVE  GroundedBook(long) =>
           /\ GroundedBook(book)
           /\ Marks(e) /\ e.layer # NoLayer /\ ~Keyframes(e) => KeyframedOn(Path(book, c), e.layer)
<1>1. /\ Len(book) \in Nat /\ Len(long) = Len(book) + 1 /\ long[Len(book) + 1] = e
      /\ long \in Seq(Entries(m))
      /\ \A n \in 1 .. Len(book) : long[n] = book[n]
      /\ \A k \in 0 .. Len(book) : Path(long, k) = Path(book, k)
      /\ Path(long, Len(book) + 1) = Append(Path(book, c), e)
      /\ Path(book, c) \in Seq(Entries(m))
  <2>1. OneMore(m, book, c, e, long)
    BY BookStep
  <2> QED
    BY <2>1 DEF OneMore
<1> SUFFICES ASSUME GroundedBook(long)
             PROVE  /\ GroundedBook(book)
                    /\ Marks(e) /\ e.layer # NoLayer /\ ~Keyframes(e) => KeyframedOn(Path(book, c), e.layer)
  OBVIOUS
<1>2. DOMAIN long = 1 .. Len(book) + 1 /\ DOMAIN book = 1 .. Len(book)
  BY <1>1
<1>3. GroundedBook(book)
  <2> SUFFICES ASSUME NEW n \in 1 .. Len(book), Marks(book[n]), book[n].layer # NoLayer, ~Keyframes(book[n])
               PROVE  KeyframedOn(Path(book, n), book[n].layer)
    BY <1>2 DEF GroundedBook
  <2>1. n \in DOMAIN long /\ long[n] = book[n] /\ Path(long, n) = Path(book, n)
    BY <1>1, <1>2
  <2> QED
    BY <2>1 DEF GroundedBook
<1>4. ASSUME Marks(e), e.layer # NoLayer, ~Keyframes(e) PROVE KeyframedOn(Path(book, c), e.layer)
  <2>1. Len(book) + 1 \in DOMAIN long
    BY <1>1, <1>2
  <2>2. KeyframedOn(Append(Path(book, c), e), e.layer)
    BY <2>1, <1>1, <1>4 DEF GroundedBook
  <2> QED
    BY <2>2, <1>1, <1>4, KeyframedStep
<1> QED
  BY <1>3, <1>4

(* Entries that told the truth of the paths above them go on telling it.   *)
LEMMA TruthStep ==
  ASSUME NEW m \in Nat, NEW book \in Seq(Entries(m)), Tree(book),
         NEW c \in 0 .. Len(book), NEW e \in Entries(m), e.parent = c,
         NEW long, long = Append(book, e), NEW g,
         \A n \in DOMAIN book : Truthful(book, g, n),
         Truthful(long, g, Len(book) + 1)
  PROVE  \A n \in DOMAIN long : Truthful(long, g, n)
<1>1. /\ Len(book) \in Nat /\ Len(long) = Len(book) + 1
      /\ long \in Seq(Entries(m))
      /\ \A n \in 1 .. Len(book) : long[n] = book[n]
      /\ \A k \in 0 .. Len(book) : Path(long, k) = Path(book, k)
  <2>1. OneMore(m, book, c, e, long)
    BY BookStep
  <2> QED
    BY <2>1 DEF OneMore
<1> SUFFICES ASSUME NEW n \in 1 .. Len(book) PROVE Truthful(long, g, n)
  BY <1>1
<1>2. book[n].parent \in 0 .. Len(book) /\ n \in DOMAIN book /\ long[n] = book[n]
  BY <1>1 DEF Tree
<1>3. Path(long, long[n].parent) = Path(book, book[n].parent)
  BY <1>1, <1>2
<1>4. Truthful(book, g, n)
  BY <1>2
<1> QED
  BY <1>2, <1>3, <1>4 DEF Truthful

(* The marks of a raster with one more.                                    *)
LEMMA ToSetAppend ==
  ASSUME NEW S, NEW q \in Seq(S), NEW e \in S
  PROVE  \A v : v \in ToSet(Append(q, e)) <=> v \in ToSet(q) \/ v = e
<1>a. PICK a : a = Append(q, e)
  OBVIOUS
<1>1. /\ Len(q) \in Nat /\ a[Len(q) + 1] = e /\ \A i \in 1 .. Len(q) : a[i] = q[i]
      /\ DOMAIN q = 1 .. Len(q) /\ DOMAIN a = 1 .. Len(q) + 1
  BY <1>a, AppendIs
<1> SUFFICES ASSUME NEW v PROVE v \in ToSet(a) <=> v \in ToSet(q) \/ v = e
  BY <1>a
<1>2. ASSUME v \in ToSet(a) PROVE v \in ToSet(q) \/ v = e
  <2>1. PICK i \in 1 .. Len(q) + 1 : a[i] = v
    BY <1>1, <1>2 DEF ToSet
  <2>2. CASE i = Len(q) + 1
    BY <2>1, <2>2, <1>1
  <2>3. CASE i # Len(q) + 1
    <3>1. i \in 1 .. Len(q)
      BY <2>3, <1>1
    <3> QED
      BY <3>1, <2>1, <1>1 DEF ToSet
  <2> QED
    BY <2>2, <2>3
<1>3. ASSUME v \in ToSet(q) PROVE v \in ToSet(a)
  <2>1. PICK i \in 1 .. Len(q) : q[i] = v
    BY <1>1, <1>3 DEF ToSet
  <2>2. i \in 1 .. Len(q) + 1 /\ a[i] = v
    BY <2>1, <1>1
  <2> QED
    BY <2>2, <1>1 DEF ToSet
<1>4. e \in ToSet(a)
  <2>1. Len(q) + 1 \in DOMAIN a
    BY <1>1
  <2> QED
    BY <2>1, <1>1 DEF ToSet
<1> QED
  BY <1>2, <1>3, <1>4

(* The children of an entry come after it.                                 *)
LEMMA ChildrenAre ==
  ASSUME NEW E, NEW book \in Seq(E), Tree(book), NEW c \in 0 .. Len(book)
  PROVE  /\ ChildrenOf(book, c) \in SUBSET (c + 1 .. Len(book))
         /\ \A k \in ChildrenOf(book, c) : book[k].parent = c
         /\ ChildrenOf(book, c) # {} => Max(ChildrenOf(book, c)) \in ChildrenOf(book, c)
<1>1. PICK n \in Nat : n = Len(book)
  OBVIOUS
<1>2. PICK S : S = ChildrenOf(book, c)
  OBVIOUS
<1>3. S \in SUBSET (1 .. n) /\ \A k \in S : book[k].parent = c /\ k > c /\ k \in Nat
  BY <1>1, <1>2 DEF ChildrenOf, Tree
<1>4. S # {} => Max(S) \in S
  <2>1. S # {} => \E i \in S : \A j \in S : j <= i
    BY <1>3, NatMax
  <2>2. S # {} => \E i \in S : \A j \in S : i >= j
    BY <1>3, <2>1
  <2> QED
    BY <2>2 DEF Max
<1> QED
  BY <1>1, <1>2, <1>3, <1>4

DownFrom(book, n, a, down) == down = [k \in a .. n |->
        IF Marks(book[k]) THEN k
        ELSE IF ChildrenOf(book, k) = {} THEN 0 ELSE down[Max(ChildrenOf(book, k))]]

(* Down a branch: the entry if it is a mark, else down its newest child.   *)
LEMMA DownStep ==
  ASSUME NEW E, NEW book \in Seq(E), Tree(book), NEW k \in 1 .. Len(book)
  PROVE  DownOf(book)[k] =
           IF Marks(book[k]) THEN k
           ELSE IF ChildrenOf(book, k) = {} THEN 0 ELSE DownOf(book)[Max(ChildrenOf(book, k))]
<1>1. PICK n \in Nat : n = Len(book)
  OBVIOUS
<1> DEFINE G == {i \in 0 .. n : \E down : DownFrom(book, n, n + 1 - i, down)}
<1>2. 0 \in G
  <2>1. n + 1 .. n = {}
    OBVIOUS
  <2>2. PICK h : h = [x \in n + 1 .. n |-> 0]
    OBVIOUS
  <2>3. DownFrom(book, n, n + 1, h)
    BY <2>1, <2>2 DEF DownFrom
  <2> QED
    BY <2>3
<1>3. ASSUME NEW i \in 1 .. n, i - 1 \in G PROVE i \in G
  <2>1. PICK a \in 1 .. n : a = n + 1 - i
    OBVIOUS
  <2>2. PICK f : DownFrom(book, n, a + 1, f)
    <3>1. n + 1 - (i - 1) = a + 1
      BY <2>1
    <3> QED
      BY <1>3, <3>1
  <2>3. \A x \in a .. n : ChildrenOf(book, x) # {} => Max(ChildrenOf(book, x)) \in a + 1 .. n
    <3> TAKE x \in a .. n
    <3>1. x \in 0 .. Len(book)
      BY <1>1, <2>1
    <3>2. ChildrenOf(book, x) # {} => Max(ChildrenOf(book, x)) \in x + 1 .. n
      BY <1>1, <3>1, ChildrenAre
    <3> QED
      BY <2>1, <3>2
  <2> DEFINE F(down, x) ==
        IF Marks(book[x]) THEN x
        ELSE IF ChildrenOf(book, x) = {} THEN 0 ELSE down[Max(ChildrenOf(book, x))]
  <2>4. PICK h : h = [x \in a .. n |-> F(f, x)]
    OBVIOUS
  <2>5. \A x \in a + 1 .. n : f[x] = F(f, x)
    BY <2>2 DEF DownFrom
  <2>6. \A x \in a + 1 .. n : h[x] = f[x]
    BY <2>1, <2>4, <2>5
  <2>7. \A x \in a .. n : F(f, x) = F(h, x)
    BY <2>3, <2>6
  <2>8. h = [x \in a .. n |-> F(h, x)]
    BY <2>4, <2>7
  <2>9. DownFrom(book, n, a, h)
    BY <2>8 DEF DownFrom
  <2> QED
    BY <2>1, <2>9
<1>4. n \in G
  <2> HIDE DEF G
  <2> QED
    BY <1>2, <1>3, CountUp
<1>5. PICK down : DownFrom(book, n, 1, down)
  <2>1. n + 1 - n = 1
    OBVIOUS
  <2> QED
    BY <1>4, <2>1
<1>6. DOMAIN book = 1 .. n
  BY <1>1
<1>7. DownOf(book) = [x \in DOMAIN book |->
        IF Marks(book[x]) THEN x
        ELSE IF ChildrenOf(book, x) = {} THEN 0 ELSE DownOf(book)[Max(ChildrenOf(book, x))]]
  BY <1>5, <1>6 DEF DownFrom, DownOf
<1>8. PICK D : D = DownOf(book)
  OBVIOUS
<1>9. D = [x \in DOMAIN book |->
        IF Marks(book[x]) THEN x
        ELSE IF ChildrenOf(book, x) = {} THEN 0 ELSE D[Max(ChildrenOf(book, x))]]
  BY <1>7, <1>8
<1>10. D[k] = IF Marks(book[k]) THEN k
              ELSE IF ChildrenOf(book, k) = {} THEN 0 ELSE D[Max(ChildrenOf(book, k))]
  BY <1>9, <1>6, <1>1
<1> QED
  BY <1>8, <1>10

(* The way to an entry is the way to its parent and the entry.             *)
LEMMA WayStep ==
  ASSUME NEW E, NEW book \in Seq(E), Tree(book)
  PROVE  /\ Way(book, 0) = {}
         /\ \A n \in 1 .. Len(book) : Way(book, n) = Way(book, book[n].parent) \cup {n}
<1>1. ChainTo(book, 0) = <<>>
  BY ChainStep
<1>2. Way(book, 0) = {}
  BY <1>1 DEF Way, ToSet
<1>3. ASSUME NEW n \in 1 .. Len(book)
      PROVE  Way(book, n) = Way(book, book[n].parent) \cup {n}
  <2>1. PICK c : c = book[n].parent
    OBVIOUS
  <2>2. c \in 0 .. Len(book)
    BY <2>1 DEF Tree
  <2>3. PICK up, ch : up = ChainTo(book, c) /\ ch = ChainTo(book, n)
    OBVIOUS
  <2>4. up \in Seq(Nat)
    <3>1. up \in Seq(1 .. c)
      BY <2>2, <2>3, ChainType
    <3> QED
      BY <3>1, <2>2
  <2>5. ch = Append(up, n) /\ n \in Nat
    BY <2>1, <2>3, ChainStep
  <2>6. \A v : v \in ToSet(ch) <=> v \in ToSet(up) \/ v = n
    BY <2>4, <2>5, ToSetAppend
  <2> QED
    BY <2>1, <2>3, <2>6 DEF Way
<1> QED
  BY <1>2, <1>3

(* An entry is on its own way, and nothing after it is.                    *)
LEMMA WayIs ==
  ASSUME NEW E, NEW book \in Seq(E), Tree(book)
  PROVE  \A n \in 0 .. Len(book) : Way(book, n) \in SUBSET (1 .. n) /\ (n # 0 => n \in Way(book, n))
<1> DEFINE G == {n \in 0 .. Len(book) :
              Way(book, n) \in SUBSET (1 .. n) /\ (n # 0 => n \in Way(book, n))}
<1>1. 0 \in G
  BY WayStep
<1>2. ASSUME NEW n \in 1 .. Len(book), book[n].parent \in G PROVE n \in G
  <2>1. PICK c \in 0 .. n - 1 : c = book[n].parent
    BY DEF Tree
  <2>2. Way(book, c) \in SUBSET (1 .. c)
    BY <1>2, <2>1
  <2>3. Way(book, n) = Way(book, c) \cup {n}
    BY <2>1, WayStep
  <2> QED
    BY <2>2, <2>3
<1> HIDE DEF G
<1>3. \A n \in 0 .. Len(book) : n \in G
  BY <1>1, <1>2, TreeInd
<1> QED
  BY <1>3 DEF G

(* What is on the way to an entry of the way is on the way.                *)
LEMMA WayUp ==
  ASSUME NEW E, NEW book \in Seq(E), Tree(book)
  PROVE  \A n \in 0 .. Len(book) : \A k \in Way(book, n) :
            /\ Way(book, k) \in SUBSET Way(book, n)
            /\ Way(book, book[k].parent) \in SUBSET Way(book, n)
<1> DEFINE W(n) == \A k \in Way(book, n) : Way(book, k) \in SUBSET Way(book, n)
           G == {n \in 0 .. Len(book) : W(n)}
<1>1. 0 \in G
  BY WayStep
<1>2. ASSUME NEW n \in 1 .. Len(book), book[n].parent \in G PROVE n \in G
  <2>1. Way(book, n) = Way(book, book[n].parent) \cup {n}
    BY WayStep
  <2>2. W(book[n].parent)
    BY <1>2
  <2>3. W(n)
    BY <2>1, <2>2
  <2> QED
    BY <2>3
<1>3. \A n \in 0 .. Len(book) : n \in G
  <2> HIDE DEF G
  <2> QED
    BY <1>1, <1>2, TreeInd
<1>4. ASSUME NEW n \in 0 .. Len(book), NEW k \in Way(book, n)
      PROVE  /\ Way(book, k) \in SUBSET Way(book, n)
             /\ Way(book, book[k].parent) \in SUBSET Way(book, n)
  <2>1. Way(book, k) \in SUBSET Way(book, n)
    BY <1>3
  <2>2. k \in 1 .. Len(book)
    BY WayIs
  <2>3. Way(book, k) = Way(book, book[k].parent) \cup {k}
    BY <2>2, WayStep
  <2> QED
    BY <2>1, <2>3
<1> QED
  BY <1>4

(* A way goes down one branch of every entry on it.                        *)
LEMMA WayOnce ==
  ASSUME NEW E, NEW book \in Seq(E), Tree(book)
  PROVE  \A n \in 0 .. Len(book) : \A i, k \in Way(book, n) :
            book[i].parent = book[k].parent => i = k
<1> DEFINE W(n) == \A i, k \in Way(book, n) : book[i].parent = book[k].parent => i = k
           G == {n \in 0 .. Len(book) : W(n)}
<1>1. 0 \in G
  BY WayStep
<1>2. ASSUME NEW n \in 1 .. Len(book), book[n].parent \in G PROVE n \in G
  <2>1. PICK c \in 0 .. n - 1 : c = book[n].parent
    BY DEF Tree
  <2>2. Way(book, n) = Way(book, c) \cup {n}
    BY <2>1, WayStep
  <2>3. W(c)
    BY <1>2, <2>1
  <2>4. ASSUME NEW i \in Way(book, c) PROVE book[i].parent # c
    <3>1. c \in 0 .. Len(book)
      BY <2>1
    <3>2. i \in 1 .. c
      BY <3>1, WayIs
    <3>3. book[i].parent \in 0 .. i - 1
      BY <3>1, <3>2 DEF Tree
    <3> QED
      BY <3>1, <3>2, <3>3
  <2>5. W(n)
    BY <2>1, <2>2, <2>3, <2>4
  <2> QED
    BY <2>5
<1> HIDE DEF G
<1>3. \A n \in 0 .. Len(book) : n \in G
  BY <1>1, <1>2, TreeInd
<1> QED
  BY <1>3 DEF G

(* A longer book has the same ways to the entries it shares.               *)
LEMMA WayGoesOn ==
  ASSUME NEW E, NEW book \in Seq(E), NEW longer \in Seq(E), Tree(longer), GoesOn(longer, book)
  PROVE  \A c \in 0 .. Len(book) : Way(longer, c) = Way(book, c)
<1>1. Tree(book)
  BY DEF Tree, GoesOn
<1> DEFINE G == {c \in 0 .. Len(book) : Way(longer, c) = Way(book, c)}
<1>2. 0 \in G
  <2>1. Way(longer, 0) = {}
    BY WayStep
  <2>2. Way(book, 0) = {}
    BY <1>1, WayStep
  <2>3. Way(longer, 0) = Way(book, 0)
    BY <2>1, <2>2
  <2> QED
    BY <2>3
<1>3. ASSUME NEW n \in 1 .. Len(book), book[n].parent \in G PROVE n \in G
  <2>1. n \in 1 .. Len(longer) /\ longer[n] = book[n]
    BY DEF GoesOn
  <2>2. Way(longer, n) = Way(longer, longer[n].parent) \cup {n}
    BY <2>1, WayStep
  <2>3. Way(book, n) = Way(book, book[n].parent) \cup {n}
    BY <1>1, WayStep
  <2>4. Way(longer, book[n].parent) = Way(book, book[n].parent)
    BY <1>3
  <2>5. Way(longer, n) = Way(book, n)
    BY <2>1, <2>2, <2>3, <2>4
  <2> QED
    BY <2>5
<1> HIDE DEF G
<1>4. \A c \in 0 .. Len(book) : c \in G
  BY <1>1, <1>2, <1>3, TreeInd
<1> QED
  BY <1>4 DEF G

(* What lies down a branch the way to the cursor does not go is not        *)
(* changed by an entry made at the cursor.                                 *)
LEMMA DownGoesOn ==
  ASSUME NEW m \in Nat, NEW book \in Seq(Entries(m)), Tree(book),
         NEW c \in 0 .. Len(book), NEW e \in Entries(m), e.parent = c,
         NEW long, OneMore(m, book, c, e, long)
  PROVE  /\ \A j \in 1 .. Len(book) : j \notin Way(book, c) => DownOf(long)[j] = DownOf(book)[j]
         /\ \A p \in 0 .. Len(book) : p # c => ChildrenOf(long, p) = ChildrenOf(book, p)
<1>2. PICK n \in Nat : n = Len(book)
  OBVIOUS
<1>3. /\ long \in Seq(Entries(m)) /\ Tree(long) /\ Len(long) = n + 1 /\ long[n + 1] = e
      /\ DOMAIN long = 1 .. n + 1 /\ DOMAIN book = 1 .. n
      /\ \A i \in 1 .. n : long[i] = book[i]
  BY <1>2 DEF OneMore
<1>4. ASSUME NEW p \in 0 .. n, p # c PROVE ChildrenOf(long, p) = ChildrenOf(book, p)
  BY <1>3, <1>4 DEF ChildrenOf
<1>5. ASSUME NEW j \in 1 .. n, j \notin Way(book, c), NEW i \in ChildrenOf(book, j)
      PROVE  i \in 1 .. n /\ i \notin Way(book, c)
  <2>1. i \in 1 .. n /\ book[i].parent = j
    BY <1>3 DEF ChildrenOf
  <2>2. ASSUME i \in Way(book, c) PROVE FALSE
    <3>1. Way(book, book[i].parent) \in SUBSET Way(book, c)
      BY <2>2, WayUp
    <3>2. Way(book, j) \in SUBSET Way(book, c)
      BY <2>1, <3>1
    <3>3. j \in 0 .. Len(book) /\ j # 0
      BY <1>2
    <3>4. j \in Way(book, j)
      BY <3>3, WayIs
    <3> QED
      BY <1>5, <3>2, <3>4
  <2> QED
    BY <2>1, <2>2
<1> DEFINE G == {j \in 1 .. n : j \notin Way(book, c) => DownOf(long)[j] = DownOf(book)[j]}
<1>6. ASSUME NEW j \in 1 .. n, \A i \in j + 1 .. n : i \in G PROVE j \in G
  <2>1. SUFFICES ASSUME j \notin Way(book, c) PROVE DownOf(long)[j] = DownOf(book)[j]
    OBVIOUS
  <2>2. j # c
    <3>1. c # 0 => c \in Way(book, c)
      BY WayIs
    <3> QED
      BY <2>1, <3>1
  <2>3. PICK C, x : C = ChildrenOf(book, j) /\ x = Max(C)
    OBVIOUS
  <2>4. ChildrenOf(long, j) = C
    BY <1>4, <2>2, <2>3
  <2>5. j \in 1 .. Len(book) /\ j \in 1 .. Len(long) /\ j \in 0 .. Len(book) /\ long[j] = book[j]
    BY <1>2, <1>3
  <2>6. DownOf(book)[j] = IF Marks(book[j]) THEN j ELSE IF C = {} THEN 0 ELSE DownOf(book)[x]
    BY <2>3, <2>5, DownStep
  <2>7. DownOf(long)[j] = IF Marks(book[j]) THEN j ELSE IF C = {} THEN 0 ELSE DownOf(long)[x]
    <3>1. DownOf(long)[j] = IF Marks(long[j]) THEN j ELSE IF ChildrenOf(long, j) = {} THEN 0
                            ELSE DownOf(long)[Max(ChildrenOf(long, j))]
      BY <1>3, <2>5, DownStep
    <3> QED
      BY <2>3, <2>4, <2>5, <3>1
  <2>8. CASE Marks(book[j]) \/ C = {}
    BY <2>6, <2>7, <2>8
  <2>9. CASE C # {}
    <3>1. C \in SUBSET (j + 1 .. n) /\ x \in C
      BY <1>2, <2>3, <2>5, <2>9, ChildrenAre
    <3>2. x \notin Way(book, c)
      BY <1>5, <2>1, <2>3, <3>1
    <3>3. DownOf(long)[x] = DownOf(book)[x]
      BY <1>6, <3>1, <3>2
    <3> QED
      BY <2>6, <2>7, <3>3
  <2> QED
    BY <2>8, <2>9
<1>7. \A j \in 1 .. n : j \in G
  <2> HIDE DEF G
  <2> QED
    BY <1>6, CountDown
<1> QED
  BY <1>2, <1>4, <1>7

(* A branch that can be redone and is newer than a mark on the way to c    *)
(* could be redone before an entry was made at c.                          *)
LEMMA LiveBefore ==
  ASSUME NEW m \in Nat, NEW book \in Seq(Entries(m)), Tree(book),
         NEW c \in 0 .. Len(book), NEW e \in Entries(m), e.parent = c,
         NEW long, OneMore(m, book, c, e, long), NEW k \in Way(book, c),
         NEW i \in LiveOf(long, book[k].parent), i > k
  PROVE  i \in LiveOf(book, book[k].parent)
<1>0. /\ \A j \in 1 .. Len(book) : j \notin Way(book, c) => DownOf(long)[j] = DownOf(book)[j]
      /\ \A p \in 0 .. Len(book) : p # c => ChildrenOf(long, p) = ChildrenOf(book, p)
  BY DownGoesOn
<1>1. k \in 1 .. c
  BY WayIs
<1>2. PICK p \in 0 .. k - 1 : p = book[k].parent
  BY <1>1 DEF Tree
<1>3. p \in 0 .. Len(book) /\ p # c
  BY <1>1, <1>2
<1>4. ChildrenOf(long, p) = ChildrenOf(book, p)
  BY <1>0, <1>3
<1>5. i \in ChildrenOf(book, p) /\ DownOf(long)[i] # 0
  BY <1>2, <1>4 DEF LiveOf
<1>6. i \in 1 .. Len(book) /\ book[i].parent = p
  BY <1>5 DEF ChildrenOf
<1>7. i \notin Way(book, c)
  <2>1. SUFFICES ASSUME i \in Way(book, c) PROVE FALSE
    OBVIOUS
  <2>2. book[i].parent = book[k].parent => i = k
    BY <2>1, WayOnce
  <2>3. i = k
    BY <1>2, <1>6, <2>2
  <2> QED
    BY <1>1, <2>3
<1>8. DownOf(long)[i] = DownOf(book)[i]
  BY <1>0, <1>6, <1>7
<1> QED
  BY <1>2, <1>5, <1>8 DEF LiveOf

(* One more entry at the cursor.                                           *)
LEMMA RedoableStep ==
  ASSUME NEW m \in Nat, NEW book \in Seq(Entries(m)), Tree(book),
         NEW c \in 0 .. Len(book), NEW e \in Entries(m), e.parent = c,
         NEW long, OneMore(m, book, c, e, long), NEW z, z = Len(book) + 1, Redoable(book, c)
  PROVE  Redoable(long, z)
<1>2. PICK n \in Nat : n = Len(book)
  OBVIOUS
<1>3. /\ long \in Seq(Entries(m)) /\ Tree(long) /\ Len(long) = n + 1 /\ long[n + 1] = e
      /\ GoesOn(long, book) /\ DOMAIN long = 1 .. n + 1 /\ DOMAIN book = 1 .. n
      /\ \A i \in 1 .. n : long[i] = book[i]
  BY <1>2 DEF OneMore
<1>4. z \in 1 .. Len(long) /\ z = n + 1 /\ long[z].parent = c
  BY <1>2, <1>3
<1>5. Way(long, z) = Way(book, c) \cup {z}
  <2>1. Way(long, z) = Way(long, long[z].parent) \cup {z}
    BY <1>3, <1>4, WayStep
  <2>2. Way(long, c) = Way(book, c)
    BY <1>3, WayGoesOn
  <2> QED
    BY <1>4, <2>1, <2>2
<1>6. Way(book, c) \in SUBSET (1 .. n)
  <2>1. Way(book, c) \in SUBSET (1 .. c)
    BY WayIs
  <2> QED
    BY <1>2, <2>1
<1>7. ASSUME NEW k \in Way(long, z), Marks(long[k]),
             NEW i \in LiveOf(long, long[k].parent), NEW j \in LiveOf(long, long[k].parent),
             i > k, j > k
      PROVE  i = j
  <2>1. CASE k = z
    <3>1. i \in 1 .. n + 1
      BY <1>3 DEF LiveOf, ChildrenOf
    <3> QED
      BY <1>4, <1>7, <2>1, <3>1
  <2>2. CASE k \in Way(book, c)
    <3>1. long[k] = book[k]
      BY <1>3, <1>6, <2>2
    <3>2. i \in LiveOf(book, book[k].parent)
      BY <1>7, <2>2, <3>1, LiveBefore
    <3>3. j \in LiveOf(book, book[k].parent)
      BY <1>7, <2>2, <3>1, LiveBefore
    <3> QED
      BY <1>7, <2>2, <3>1, <3>2, <3>3 DEF Redoable
  <2> QED
    BY <1>5, <1>7, <2>1, <2>2
<1> QED
  BY <1>7 DEF Redoable

(* A word that is no mark is only written where no mark is above it, so the*)
(* opening words keep opening the history.                                 *)
LEMMA OpeningsStep ==
  ASSUME NEW m \in Nat, NEW book \in Seq(Entries(m)), Tree(book),
         NEW c \in 0 .. Len(book), NEW e \in Entries(m), e.parent = c,
         NEW long, OneMore(m, book, c, e, long), Openings(book),
         e.kind = "text" /\ ~Marks(e) => Unmarked(book, c)
  PROVE  Openings(long)
<1>2. PICK n \in Nat : n = Len(book)
  OBVIOUS
<1>3. /\ long \in Seq(Entries(m)) /\ Tree(long) /\ Len(long) = n + 1 /\ long[n + 1] = e
      /\ GoesOn(long, book) /\ DOMAIN long = 1 .. n + 1 /\ DOMAIN book = 1 .. n
      /\ \A i \in 1 .. n : long[i] = book[i]
  BY <1>2 DEF OneMore
<1>4. ASSUME NEW a \in 0 .. n PROVE Way(long, a) = Way(book, a) /\ Way(book, a) \in SUBSET (1 .. n)
  <2>1. Way(book, a) \in SUBSET (1 .. a)
    BY <1>2, WayIs
  <2>2. Way(long, a) = Way(book, a)
    BY <1>2, <1>3, WayGoesOn
  <2> QED
    BY <2>1, <2>2
<1>5. ASSUME NEW a \in 0 .. n, Unmarked(book, a) PROVE Unmarked(long, a)
  BY <1>3, <1>4, <1>5 DEF Unmarked
<1>6. ASSUME NEW x \in 1 .. n, long[x].kind = "text", ~Marks(long[x]) PROVE Unmarked(long, x)
  <2>1. Unmarked(book, x)
    BY <1>3, <1>6 DEF Openings
  <2> QED
    BY <1>5, <2>1
<1>7. ASSUME NEW x, x = n + 1, e.kind = "text", ~Marks(e) PROVE Unmarked(long, x)
  <2>1. Unmarked(long, c)
    BY <1>2, <1>5, <1>7
  <2>2. x \in 1 .. Len(long) /\ long[x] = e
    BY <1>3, <1>7
  <2>3. Way(long, x) = Way(long, c) \cup {x}
    <3>1. Way(long, x) = Way(long, long[x].parent) \cup {x}
      BY <1>3, <2>2, WayStep
    <3> QED
      BY <2>2, <3>1
  <2> QED
    BY <1>7, <2>1, <2>2, <2>3 DEF Unmarked
<1>8. \A x \in 1 .. n + 1 : x \in 1 .. n \/ x = n + 1
  BY <1>2
<1> QED
  BY <1>3, <1>6, <1>7, <1>8 DEF Openings

(* One more entry in the notebook of a sound page.                         *)
Entered(d, e, s) ==
  /\ s \in Docs(d.made) /\ s.made = d.made
  /\ OneMore(d.made, d.book, d.cursor, Placed(e, d.cursor), s.book)
  /\ s.cursor = Len(d.book) + 1
  /\ PathOf(d) \in Seq(Entries(d.made))
  /\ PathOf(s) = Append(PathOf(d), Placed(e, d.cursor))
  /\ s.book = Append(d.book, Placed(e, d.cursor))
  /\ s.stack = d.stack /\ s.active = d.active
  /\ s.pic = d.pic /\ s.open = d.open
  /\ s.text = d.text /\ s.sel = d.sel
  /\ s.before = d.before /\ s.fresh = d.fresh
  /\ s.lift = d.lift
  /\ \A l \in Layers : l # e.layer => s.since[l] = d.since[l]
  /\ ~Marks(e) /\ e.layer \in Layers => s.since[e.layer] = 0

(* Recorded puts an entry at the cursor and moves nothing else of the page.*)
LEMMA RecordedEnters ==
  ASSUME NEW d, NEW g, Sane(d, g), NEW e \in Entries(d.made)
  PROVE  Entered(d, e, Recorded(d, e))
<1>1. /\ d.made \in Nat /\ d \in Docs(d.made) /\ Tree(d.book) /\ d.cursor \in 0 .. Len(d.book)
  BY DEF Sane
<1>2. d.book \in Seq(Entries(d.made)) /\ d.cursor \in Nat
  BY <1>1 DEF Docs
<1>3. PICK p : p = Placed(e, d.cursor)
  OBVIOUS
<1>4. p \in Entries(d.made) /\ p.parent = d.cursor
  BY <1>2, <1>1, <1>3, PlacedIs
<1>5. PICK s : s = Recorded(d, e)
  OBVIOUS
<1>6. /\ s \in Docs(d.made)
      /\ s.book = Append(d.book, p)
      /\ s.cursor = Len(d.book) + 1
      /\ s.stack = d.stack /\ s.active = d.active
      /\ s.pic = d.pic /\ s.open = d.open
      /\ s.text = d.text /\ s.sel = d.sel
      /\ s.before = d.before /\ s.fresh = d.fresh
      /\ s.lift = d.lift
      /\ \A l \in Layers : l # e.layer => s.since[l] = d.since[l]
      /\ ~Marks(e) /\ e.layer \in Layers => s.since[e.layer] = 0
  BY <1>1, <1>3, <1>5, RecordedIs
<1>7. s.made = d.made
  BY <1>6 DEF Docs
<1>8. OneMore(d.made, d.book, d.cursor, p, s.book)
  BY <1>1, <1>2, <1>4, <1>6, BookStep
<1>9. PathOf(d) \in Seq(Entries(d.made)) /\ PathOf(s) = Append(PathOf(d), p)
  BY <1>6, <1>8 DEF OneMore, PathOf
<1> QED
  BY <1>3, <1>5, <1>6, <1>7, <1>8, <1>9 DEF Entered

(* A page stays sane when an entry about a layer it knows is recorded.     *)
LEMMA RecordSane ==
  ASSUME NEW d, NEW g, Sane(d, g), NEW e \in Entries(d.made),
         e.layer # NoLayer => Known(d.book, g, e.layer),
         e.kind = "text" /\ ~Marks(e) => Unmarked(d.book, d.cursor),
         NEW s, Entered(d, e, s)
  PROVE  /\ Sane(s, g)
         /\ \A l : Known(d.book, g, l) => Known(s.book, g, l)
         /\ \A l : Known(s.book, g, l) => Known(d.book, g, l) \/ l \in LayersOf(e.roster)
<1>1. /\ d.made \in Nat \ {0} /\ d \in Docs(d.made)
      /\ Tree(d.book) /\ d.cursor \in 0 .. Len(d.book)
      /\ Keyed(d.stack) /\ d.active \in LayersOf(d.stack)
      /\ d.open = <<>> \/ (Len(d.open) = 1 /\ Open(d, d.open[1]))
      /\ d.sel # NoBox => d.text[d.sel] # NoText
      /\ g \in [pic : [Layers -> Rasters(d.made)], stack : Seq(Faces)] /\ Keyed(g.stack)
      /\ \A n \in DOMAIN d.book : d.book[n].layer # NoLayer => Known(d.book, g, d.book[n].layer)
      /\ \A l \in LayersOf(d.stack) : Known(d.book, g, l)
      /\ Returns(d)
  BY DEF Sane
<1>2. PICK p : p = Placed(e, d.cursor)
  OBVIOUS
<1>3. d.made \in Nat /\ d.book \in Seq(Entries(d.made)) /\ d.cursor \in Nat
  BY <1>1 DEF Docs
<1>4. p \in Entries(d.made) /\ p.layer = e.layer /\ p.roster = e.roster
  BY <1>2, <1>3, PlacedIs, ZenonT(60)
<1>5. s \in Docs(d.made) /\ s.made = d.made /\ s.book = Append(d.book, p) /\ s.cursor = Len(d.book) + 1
      /\ s.stack = d.stack /\ s.active = d.active /\ s.open = d.open /\ s.text = d.text /\ s.sel = d.sel
  BY <1>2 DEF Entered
<1>6. /\ Tree(s.book) /\ Len(d.book) \in Nat /\ Len(s.book) = Len(d.book) + 1
      /\ s.book[Len(d.book) + 1] = p
      /\ DOMAIN s.book = 1 .. Len(d.book) + 1 /\ DOMAIN d.book = 1 .. Len(d.book)
      /\ \A n \in 1 .. Len(d.book) : s.book[n] = d.book[n]
  BY <1>2 DEF Entered, OneMore
<1>7. \A l : Known(d.book, g, l) => Known(s.book, g, l)
  BY <1>1, <1>3, <1>4, <1>5, KnownStep
<1>8. \A n \in DOMAIN s.book : s.book[n].layer # NoLayer => Known(s.book, g, s.book[n].layer)
  <2> SUFFICES ASSUME NEW n \in 1 .. Len(d.book) + 1, s.book[n].layer # NoLayer
               PROVE  Known(s.book, g, s.book[n].layer)
    BY <1>6
  <2>1. CASE n = Len(d.book) + 1
    BY <2>1, <1>4, <1>6, <1>7
  <2>2. CASE n # Len(d.book) + 1
    <3>1. n \in DOMAIN d.book /\ s.book[n] = d.book[n]
      BY <2>2, <1>6
    <3> QED
      BY <3>1, <1>1, <1>7
  <2> QED
    BY <2>1, <2>2
<1>9. \A l \in LayersOf(s.stack) : Known(s.book, g, l)
  BY <1>1, <1>5, <1>7
<1>10. s.cursor \in 0 .. Len(s.book)
  BY <1>5, <1>6
<1>11. s.open = <<>> \/ (Len(s.open) = 1 /\ Open(s, s.open[1]))
  BY <1>1, <1>5 DEF Open
<1>14. Returns(s)
  <2>1. Bare(d) /\ Openings(d.book) /\ Redoable(d.book, d.cursor)
    BY <1>1 DEF Returns
  <2>2. PICK m, c, z : m = d.made /\ c = d.cursor /\ z = Len(d.book) + 1
    OBVIOUS
  <2>3. /\ m \in Nat /\ d.book \in Seq(Entries(m)) /\ Tree(d.book) /\ c \in 0 .. Len(d.book)
        /\ p \in Entries(m)
    BY <1>1, <1>3, <1>4, <2>2
  <2>4. p.parent = c /\ p.kind = e.kind /\ p.keyframe = e.keyframe
    BY <1>2, <1>3, <2>2, PlacedIs, ZenonT(60)
  <2>5. OneMore(m, d.book, c, p, s.book)
    BY <1>2, <2>2 DEF Entered
  <2>6. Redoable(s.book, z)
    BY <2>1, <2>2, <2>3, <2>4, <2>5, RedoableStep
  <2>7. p.kind = "text" /\ ~Marks(p) => Unmarked(d.book, c)
    BY <2>2, <2>4 DEF Marks, Retraction
  <2>8. Openings(s.book)
    BY <2>1, <2>3, <2>4, <2>5, <2>7, OpeningsStep
  <2>9. s.pic = d.pic
    BY DEF Entered
  <2>10. Bare(s)
    BY <2>1, <2>9, <1>5 DEF Bare
  <2> QED
    BY <2>2, <2>6, <2>8, <2>10, <1>5 DEF Returns
<1>12. Sane(s, g)
  BY <1>1, <1>5, <1>6, <1>8, <1>9, <1>10, <1>11, <1>14 DEF Sane
<1>13. \A l : Known(s.book, g, l) => Known(d.book, g, l) \/ l \in LayersOf(e.roster)
  <2> SUFFICES ASSUME NEW l, NEW n \in 1 .. Len(d.book) + 1, l \in LayersOf(s.book[n].roster)
               PROVE  Known(d.book, g, l) \/ l \in LayersOf(e.roster)
    BY <1>6 DEF Known
  <2>1. CASE n = Len(d.book) + 1
    BY <2>1, <1>4, <1>6
  <2>2. CASE n # Len(d.book) + 1
    <3>1. n \in DOMAIN d.book /\ s.book[n] = d.book[n]
      BY <2>2, <1>6
    <3> QED
      BY <3>1 DEF Known
  <2> QED
    BY <2>1, <2>2
<1> QED
  BY <1>7, <1>12, <1>13

(* An entry that is not about text leaves the text as it was.              *)
LEMMA RecordWorded ==
  ASSUME NEW d, NEW g, Sane(d, g), NEW e \in Entries(d.made), e.kind # "text",
         NEW s, Entered(d, e, s)
  PROVE  /\ \A b \in Boxes : TextOf(PathOf(s), Boxes)[b] = TextOf(PathOf(d), Boxes)[b]
         /\ Worded(d) => Worded(s)
<1>1. PICK p : p = Placed(e, d.cursor)
  OBVIOUS
<1>2. d.made \in Nat /\ d \in Docs(d.made) /\ d.cursor \in 0 .. Len(d.book)
  BY DEF Sane
<1>3. d.cursor \in Nat /\ d.sel \in Boxes \cup {NoBox} /\ d.fresh \in Boxes \cup {NoBox}
  BY <1>2 DEF Docs
<1>4. p \in Entries(d.made) /\ p.kind = e.kind
  BY <1>1, <1>2, <1>3, PlacedIs
<1>5. /\ PathOf(d) \in Seq(Entries(d.made)) /\ PathOf(s) = Append(PathOf(d), p)
      /\ s.text = d.text /\ s.sel = d.sel /\ s.before = d.before /\ s.fresh = d.fresh
  BY <1>1 DEF Entered
<1>6. \A b \in Boxes : TextOf(PathOf(s), Boxes)[b] = TextOf(PathOf(d), Boxes)[b]
  BY <1>4, <1>5, TextStep
<1>7. PICK a, z : a = TextOf(PathOf(d), Boxes) /\ z = TextOf(PathOf(s), Boxes)
  OBVIOUS
<1>8. Worded(d) => Worded(s)
  BY <1>3, <1>5, <1>6, <1>7 DEF Worded, WordsOf
<1> QED
  BY <1>6, <1>8

(* What the path says after one more entry.                                *)
Reads(d, e, s, g) ==
  /\ RosterOf(PathOf(s), g.stack) =
       IF Structural(e) THEN e.roster ELSE RosterOf(PathOf(d), g.stack)
  /\ Restates(PathOf(s)) # {} <=> Restates(PathOf(d)) # {} \/ Structural(e)
  /\ \A l : KeyframedOn(PathOf(s), l) <=>
              KeyframedOn(PathOf(d), l) \/ (Keyframes(e) /\ e.layer = l)
  /\ \A l : Ink(g, PathOf(s), l) =
       IF Marks(e) /\ e.layer = l THEN Drawn(Ink(g, PathOf(d), l), e) ELSE Ink(g, PathOf(d), l)
  /\ GroundedBook(s.book) => GroundedBook(d.book)
  /\ (\A n \in DOMAIN d.book : Truthful(d.book, g, n)) /\ TruthOf(e, PathOf(d), g)
       => \A n \in DOMAIN s.book : Truthful(s.book, g, n)

(* What the longer path says of the stack, the keyframes and the rasters.  *)
LEMMA RecordReads ==
  ASSUME NEW d, NEW g, Sane(d, g), NEW e \in Entries(d.made), NEW s, Entered(d, e, s)
  PROVE  Reads(d, e, s, g)
<1>1. PICK p : p = Placed(e, d.cursor)
  OBVIOUS
<1>2. d.made \in Nat /\ d \in Docs(d.made) /\ d.cursor \in 0 .. Len(d.book) /\ Tree(d.book)
  BY DEF Sane
<1>3. d.cursor \in Nat /\ d.book \in Seq(Entries(d.made))
  BY <1>2 DEF Docs
<1>4. /\ p \in Entries(d.made) /\ p.kind = e.kind /\ p.layer = e.layer /\ p.roster = e.roster
      /\ p.pic = e.pic /\ p.mark = e.mark /\ p.keyframe = e.keyframe /\ p.parent = d.cursor
  BY <1>1, <1>2, <1>3, PlacedIs, ZenonT(60)
<1>5. /\ PathOf(d) \in Seq(Entries(d.made)) /\ PathOf(s) = Append(PathOf(d), p)
      /\ s.book = Append(d.book, p) /\ OneMore(d.made, d.book, d.cursor, p, s.book)
  BY <1>1 DEF Entered
<1>6. /\ Structural(p) = Structural(e) /\ Keyframes(p) = Keyframes(e) /\ Marks(p) = Marks(e)
      /\ \A pic : Drawn(pic, p) = Drawn(pic, e)
  BY <1>4 DEF Structural, Keyframes, Marks, Retraction, Drawn
<1>7. RosterOf(PathOf(s), g.stack) =
       IF Structural(e) THEN e.roster ELSE RosterOf(PathOf(d), g.stack)
  BY <1>4, <1>5, <1>6, RosterStep
<1>8. Restates(PathOf(s)) # {} <=> Restates(PathOf(d)) # {} \/ Structural(e)
  <2>1. PICK path \in Seq(Entries(d.made)) : path = PathOf(d)
    BY <1>5
  <2>2. Restates(Append(path, p)) # {} <=> Restates(path) # {} \/ Structural(p)
    BY <1>4, RosterStep
  <2> QED
    BY <2>1, <2>2, <1>5, <1>6
<1>9. \A l : KeyframedOn(PathOf(s), l) <=>
              KeyframedOn(PathOf(d), l) \/ (Keyframes(e) /\ e.layer = l)
  BY <1>4, <1>5, <1>6, KeyframedStep
<1>10. \A l : Ink(g, PathOf(s), l) =
       IF Marks(e) /\ e.layer = l THEN Drawn(Ink(g, PathOf(d), l), e) ELSE Ink(g, PathOf(d), l)
  <2> TAKE l
  <2>1. Ink(g, Append(PathOf(d), p), l) =
          IF Marks(p) /\ p.layer = l THEN Drawn(Ink(g, PathOf(d), l), p) ELSE Ink(g, PathOf(d), l)
    BY <1>2, <1>4, <1>5, InkStep
  <2> QED
    BY <2>1, <1>4, <1>5, <1>6
<1>11. GroundedBook(s.book) => GroundedBook(d.book)
  BY <1>2, <1>3, <1>4, <1>5, GroundStep
<1>12. ASSUME \A n \in DOMAIN d.book : Truthful(d.book, g, n), TruthOf(e, PathOf(d), g)
       PROVE  \A n \in DOMAIN s.book : Truthful(s.book, g, n)
  <2>1. TruthOf(p, PathOf(d), g)
    BY <1>4, <1>6, <1>12 DEF TruthOf
  <2>2. /\ s.book[Len(d.book) + 1] = p
        /\ Path(s.book, d.cursor) = Path(d.book, d.cursor)
    BY <1>2, <1>5 DEF OneMore
  <2>3. Truthful(s.book, g, Len(d.book) + 1)
    BY <2>1, <2>2, <1>4 DEF Truthful, PathOf
  <2> QED
    BY <2>3, <1>2, <1>3, <1>4, <1>5, <1>12, TruthStep
<1> QED
  BY <1>7, <1>8, <1>9, <1>10, <1>11, <1>12 DEF Reads

----------------------------------------------------------------------------
(* Sealing, snapshots and keyframes.                                       *)

Good(d, g, t) ==
  /\ Sane(d, g)
  /\ Worded(d)
  /\ ~t /\ GroundedBook(d.book) => Pictured(d, g)

(* The same page, with more in the notebook.                               *)
Same(d, s, g) ==
  /\ s.made = d.made /\ s.stack = d.stack /\ s.active = d.active /\ s.pic = d.pic
  /\ s.text = d.text /\ s.sel = d.sel /\ s.before = d.before /\ s.fresh = d.fresh
  /\ s.lift = d.lift
  /\ \A l : Known(s.book, g, l) => Known(d.book, g, l)
  /\ \A b \in Boxes : TextOf(PathOf(s), Boxes)[b] = TextOf(PathOf(d), Boxes)[b]

(* The layers of a roster are layers.                                      *)
LEMMA RosterKeys ==
  ASSUME NEW roster \in Seq(Faces)
  PROVE  LayersOf(roster) \subseteq Layers
<1>1. ASSUME NEW i \in DOMAIN roster PROVE roster[i].key \in Layers
  <2>1. roster[i] \in Faces
    OBVIOUS
  <2> QED
    BY <2>1 DEF Faces
<1> QED
  BY <1>1 DEF LayersOf

(* The fields of a page and their types.                                   *)
LEMMA DocFields ==
  ASSUME NEW m, NEW d \in Docs(m)
  PROVE  /\ d.book \in Seq(Entries(m)) /\ d.cursor \in Nat /\ d.since \in [Layers -> -1 .. SnapEvery]
         /\ d.stack \in Seq(Faces) /\ d.active \in Layers /\ d.pic \in [Layers -> Rasters(m)]
         /\ d.open \in Seq(Fields(m)) /\ d.made = m /\ d.text \in [Boxes -> -m .. m]
         /\ d.sel \in Boxes \cup {NoBox} /\ d.before \in -m .. m
         /\ d.fresh \in Boxes \cup {NoBox} /\ d.author = NoAuthor /\ d.lift \in 0 .. m
         /\ d.changed \in BOOLEAN
BY DEF Docs

(* The layers of a sane page, and the rasters and numbers on it.           *)
LEMMA SaneLayers ==
  ASSUME NEW d, NEW g, Sane(d, g)
  PROVE  /\ LayersOf(d.stack) \subseteq Layers /\ d.active \in Layers
         /\ NoLayer \notin LayersOf(d.stack)
         /\ d.made \in Nat \ {0} /\ d.lift \in 0 .. d.made
         /\ d.pic \in [Layers -> Rasters(d.made)]
         /\ d.stack \in Seq(Faces)
<1>1. d.made \in Nat \ {0} /\ d \in Docs(d.made)
  BY DEF Sane
<1>2. /\ d.active \in Layers /\ d.lift \in 0 .. d.made
      /\ d.pic \in [Layers -> Rasters(d.made)] /\ d.stack \in Seq(Faces)
  BY <1>1, DocFields
<1>3. LayersOf(d.stack) \subseteq Layers
  BY <1>2, RosterKeys
<1> QED
  BY <1>1, <1>2, <1>3, NoNameAssumption

(* A page whose open entry is taken off it has the same fields otherwise.  *)
LEMMA DocClosed ==
  ASSUME NEW m, NEW d \in Docs(m), NEW s, s = [d EXCEPT !.open = <<>>]
  PROVE  /\ s \in Docs(m) /\ s.open = <<>> /\ s.book = d.book /\ s.cursor = d.cursor
         /\ s.made = d.made /\ s.stack = d.stack /\ s.active = d.active /\ s.pic = d.pic
         /\ s.text = d.text /\ s.sel = d.sel /\ s.before = d.before /\ s.fresh = d.fresh
         /\ s.lift = d.lift /\ s.since = d.since
<1>1. <<>> \in Seq(Fields(m))
  OBVIOUS
<1> QED
  BY <1>1 DEF Docs

(* The open entry is taken off the page.                                   *)
LEMMA SaneClosed ==
  ASSUME NEW d, NEW g, Sane(d, g), NEW s, s = [d EXCEPT !.open = <<>>]
  PROVE  /\ Sane(s, g) /\ s.open = <<>> /\ s.book = d.book /\ s.cursor = d.cursor
         /\ s.made = d.made /\ s.stack = d.stack /\ s.active = d.active /\ s.pic = d.pic
         /\ s.text = d.text /\ s.sel = d.sel /\ s.before = d.before /\ s.fresh = d.fresh
         /\ s.lift = d.lift /\ s.since = d.since /\ PathOf(s) = PathOf(d)
         /\ Worded(d) => Worded(s)
<1>1. /\ d.made \in Nat \ {0} /\ d \in Docs(d.made)
      /\ Tree(d.book) /\ d.cursor \in 0 .. Len(d.book)
      /\ Keyed(d.stack) /\ d.active \in LayersOf(d.stack)
      /\ d.sel # NoBox => d.text[d.sel] # NoText
      /\ g \in [pic : [Layers -> Rasters(d.made)], stack : Seq(Faces)] /\ Keyed(g.stack)
      /\ \A n \in DOMAIN d.book : d.book[n].layer # NoLayer => Known(d.book, g, d.book[n].layer)
      /\ \A l \in LayersOf(d.stack) : Known(d.book, g, l)
      /\ Returns(d)
  BY DEF Sane
<1>2. /\ s \in Docs(d.made) /\ s.open = <<>> /\ s.book = d.book /\ s.cursor = d.cursor
      /\ s.made = d.made /\ s.stack = d.stack /\ s.active = d.active /\ s.pic = d.pic
      /\ s.text = d.text /\ s.sel = d.sel /\ s.before = d.before /\ s.fresh = d.fresh
      /\ s.lift = d.lift /\ s.since = d.since
  BY <1>1, DocClosed
<1>3. Sane(s, g)
  <2>1. Returns(s)
    BY <1>1, <1>2 DEF Returns, Bare
  <2> QED
    BY <1>1, <1>2, <2>1 DEF Sane
<1>4. PathOf(s) = PathOf(d)
  BY <1>2 DEF PathOf
<1>5. Worded(d) => Worded(s)
  BY <1>2, <1>4 DEF Worded, WordsOf
<1> QED
  BY <1>2, <1>3, <1>4, <1>5

(* All of it but the text boxes.                                           *)
Paged(d, g, t) ==
  /\ Sane(d, g)
  /\ ~t /\ GroundedBook(d.book) => Pictured(d, g)

(* Sealing the open entry (sealOpenOp) keeps what the page shows: the mark *)
(* that was on top of the path is on the path.                             *)
LEMMA SealPaged ==
  ASSUME NEW d, NEW g, NEW t, Paged(d, g, t), NEW s, s = SealOpenOp(d)
  PROVE  /\ Paged(s, g, t) /\ s.open = <<>> /\ Same(d, s, g)
         /\ d.open = <<>> => s = d
         /\ GroundedBook(s.book) => GroundedBook(d.book)
         /\ Worded(d) => Worded(s)
         /\ Pictured(d, g) => Pictured(s, g)
<1>0. Sane(d, g) /\ (~t /\ GroundedBook(d.book) => Pictured(d, g))
  BY DEF Paged
<1>1. CASE d.open = <<>>
  <2>1. s = d
    BY <1>1 DEF SealOpenOp
  <2> QED
    BY <2>1, <1>1 DEF Same
<1> SUFFICES ASSUME d.open # <<>>
             PROVE  /\ Paged(s, g, t) /\ s.open = <<>> /\ Same(d, s, g)
                    /\ GroundedBook(s.book) => GroundedBook(d.book)
                    /\ Worded(d) => Worded(s)
                    /\ Pictured(d, g) => Pictured(s, g)
  BY <1>1
<1>2. PICK o : o = [d EXCEPT !.open = <<>>]
  OBVIOUS
<1>3. /\ Sane(o, g) /\ o.open = <<>> /\ o.book = d.book /\ o.cursor = d.cursor
      /\ o.made = d.made /\ o.stack = d.stack /\ o.active = d.active /\ o.pic = d.pic
      /\ o.text = d.text /\ o.sel = d.sel /\ o.before = d.before /\ o.fresh = d.fresh
      /\ o.lift = d.lift /\ o.since = d.since /\ PathOf(o) = PathOf(d)
      /\ Worded(d) => Worded(o)
  BY <1>0, <1>2, SaneClosed
<1>4. PICK e : e = d.open[1]
  OBVIOUS
<1>5. Len(d.open) = 1 /\ Open(d, e) /\ e \in Fields(d.made)
  <2>1. Len(d.open) = 1 /\ Open(d, e) /\ d \in Docs(d.made)
    BY <1>0, <1>4 DEF Sane
  <2>2. d.open \in Seq(Fields(d.made))
    BY <2>1 DEF Docs
  <2> QED
    BY <2>1, <2>2, <1>4
<1>6. /\ LayersOf(d.stack) \subseteq Layers /\ NoLayer \notin LayersOf(d.stack) /\ d.made \in Nat
      /\ d.lift \in 0 .. d.made
  BY <1>0, SaneLayers
<1>7. CASE e.mark = 0
  <2>1. s = o
    BY <1>2, <1>4, <1>7 DEF SealOpenOp
  <2>2. Same(d, s, g)
    BY <2>1, <1>3 DEF Same
  <2>3. ASSUME Pictured(d, g) PROVE Pictured(s, g)
    <3>1. Pictured(d, g)
      BY <2>3
    <3>2. ~Carried(d) /\ ~Carried(s)
      BY <3>1, <2>1, <1>3 DEF Pictured, Carried
    <3>3. \A l : ~Wet(d, l) /\ ~Wet(s, l)
      BY <1>4, <1>7, <1>3, <2>1 DEF Wet
    <3>4. \A l \in LayersOf(s.stack) : Shows(s, g, l)
      BY <3>1, <3>2, <3>3, <2>1, <1>3 DEF Pictured, Shows
    <3> QED
      BY <3>1, <3>2, <3>4, <2>1, <1>3 DEF Pictured
  <2> QED
    BY <1>0, <2>1, <2>2, <2>3, <1>3 DEF Paged, Worded, WordsOf
<1>8. CASE e.mark # 0
  <2>1. s = Recorded(o, e)
    BY <1>2, <1>4, <1>8 DEF SealOpenOp
  <2>2. /\ e \in Entries(o.made) /\ e.kind = "dab" /\ e.layer \in LayersOf(d.stack)
        /\ e.roster = <<>> /\ Marks(e) /\ ~Structural(e) /\ ~Keyframes(e)
    BY <1>3, <1>5, <1>6, <1>8 DEF Open, Entries, Formed, Marks, Structural, Keyframes, Retraction
  <2>3. Entered(o, e, s)
    BY <1>3, <2>1, <2>2, RecordedEnters
  <2>4. Known(o.book, g, e.layer)
    BY <1>3, <2>2 DEF Sane
  <2>5. LayersOf(e.roster) = {}
    BY <2>2 DEF LayersOf
  <2>6. Sane(s, g) /\ \A l : Known(s.book, g, l) => Known(o.book, g, l)
    BY <1>3, <2>2, <2>3, <2>4, <2>5, RecordSane
  <2>7. (Worded(o) => Worded(s)) /\ \A b \in Boxes : TextOf(PathOf(s), Boxes)[b] = TextOf(PathOf(o), Boxes)[b]
    BY <1>3, <2>2, <2>3, RecordWorded
  <2>8. /\ s.made = d.made /\ s.stack = d.stack /\ s.active = d.active /\ s.pic = d.pic
        /\ s.text = d.text /\ s.sel = d.sel /\ s.before = d.before /\ s.fresh = d.fresh
        /\ s.lift = d.lift /\ s.open = <<>>
    BY <2>3, <1>3 DEF Entered
  <2>9. Same(d, s, g)
    BY <2>6, <2>7, <2>8, <1>3 DEF Same
  <2>10. Reads(o, e, s, g)
    BY <1>3, <2>2, <2>3, RecordReads
  <2>11. ASSUME Pictured(d, g) PROVE Pictured(s, g)
    <3>1. Pictured(d, g)
      BY <2>11
    <3>2. ~Carried(d) /\ ~Carried(s)
      BY <3>1, <2>8 DEF Pictured, Carried
    <3>3. \A l : ~Wet(s, l) /\ (Wet(d, l) <=> l = e.layer)
      BY <1>4, <1>8, <2>8 DEF Wet
    <3>4. \A l \in LayersOf(s.stack) : Shows(s, g, l)
      <4> SUFFICES ASSUME NEW l \in LayersOf(d.stack) PROVE Shows(s, g, l)
        BY <2>8
      <4>1. Shows(d, g, l)
        BY <3>1 DEF Pictured
      <4>2. Ink(g, PathOf(s), l) = IF e.layer = l THEN Append(Ink(g, PathOf(d), l), e.mark)
                                   ELSE Ink(g, PathOf(d), l)
        BY <2>10, <2>2, <1>3 DEF Reads, Drawn
      <4> QED
        BY <4>1, <4>2, <3>2, <3>3, <2>8, <1>4 DEF Shows
    <3>5. s.stack = RosterOf(PathOf(s), g.stack)
      BY <3>1, <2>10, <2>2, <2>8, <1>3 DEF Reads, Pictured
    <3>6. TruthOf(e, PathOf(o), g)
      BY <2>2 DEF TruthOf
    <3>7. \A n \in DOMAIN s.book : Truthful(s.book, g, n)
      BY <3>1, <3>6, <2>10, <1>3 DEF Reads, Pictured
    <3> QED
      BY <3>2, <3>4, <3>5, <3>7 DEF Pictured
  <2>12. GroundedBook(s.book) => GroundedBook(d.book)
    BY <2>10, <1>3 DEF Reads
  <2> QED
    BY <1>0, <1>3, <2>6, <2>7, <2>8, <2>9, <2>11, <2>12 DEF Paged
<1> QED
  BY <1>7, <1>8

(* Sealing keeps the whole of the inductive invariant.                     *)
LEMMA SealGood ==
  ASSUME NEW d, NEW g, NEW t, Good(d, g, t), NEW s, s = SealOpenOp(d)
  PROVE  /\ Good(s, g, t) /\ s.open = <<>> /\ Same(d, s, g)
         /\ d.open = <<>> => s = d
         /\ GroundedBook(s.book) => GroundedBook(d.book)
         /\ Pictured(d, g) => Pictured(s, g)
<1>1. Paged(d, g, t) /\ Worded(d)
  BY DEF Good, Paged
<1>2. /\ Paged(s, g, t) /\ s.open = <<>> /\ Same(d, s, g)
      /\ d.open = <<>> => s = d
      /\ GroundedBook(s.book) => GroundedBook(d.book)
      /\ Worded(d) => Worded(s)
      /\ Pictured(d, g) => Pictured(s, g)
  BY <1>1, SealPaged
<1> QED
  BY <1>1, <1>2 DEF Good, Paged

(* The path has not lost a keyframe nor a statement of the stack.          *)
Further(d, s) ==
  /\ \A l : KeyframedOn(PathOf(d), l) => KeyframedOn(PathOf(s), l)
  /\ Restates(PathOf(d)) # {} => Restates(PathOf(s)) # {}
  /\ GroundedBook(s.book) => GroundedBook(d.book)

BlankIs(m, e) ==
  /\ e \in Fields(m) /\ e.kind = "snap" /\ e.layer = NoLayer /\ e.mark = 0 /\ e.pic = NoPic
  /\ e.roster = <<>> /\ e.keyframe = FALSE /\ e.box = NoBox /\ e.removed = FALSE

(* The fields of an entry that says nothing.                               *)
LEMMA BlankHolds ==
  ASSUME NEW m \in Nat
  PROVE  BlankIs(m, Blank)
<1>1. <<>> \in Seq(Faces) /\ 0 \in 0 .. m
  OBVIOUS
<1> QED
  BY <1>1 DEF BlankIs, Blank, Fields, Kinds

SnapOf(l, p) == [Blank EXCEPT !.layer = l, !.author = NoAuthor, !.pic = p,
                              !.sent = TRUE, !.confirmed = TRUE]

(* A snapshot is an entry, a keyframe and no mark.                         *)
LEMMA SnapIsEntry ==
  ASSUME NEW m \in Nat, NEW l \in Layers, NEW p \in Rasters(m), NEW e, e = SnapOf(l, p)
  PROVE  /\ e \in Entries(m) /\ e.kind = "snap" /\ e.layer = l /\ e.roster = <<>> /\ e.pic = p
         /\ ~Marks(e) /\ ~Structural(e) /\ Keyframes(e)
<1>1. PICK b : b = Blank
  OBVIOUS
<1>2. BlankIs(m, b)
  BY <1>1, BlankHolds
<1>3. e = [b EXCEPT !.layer = l, !.author = NoAuthor, !.pic = p, !.sent = TRUE, !.confirmed = TRUE]
  BY <1>1 DEF SnapOf
<1>4. /\ e.kind = "snap" /\ e.layer = l /\ e.roster = <<>> /\ e.pic = p /\ e.keyframe = FALSE
      /\ e \in Fields(m)
  BY <1>2, <1>3, ZenonT(60) DEF BlankIs, Fields
<1>5. p # NoPic /\ l # NoLayer
  BY NoNameAssumption DEF Rasters
<1> QED
  BY <1>4, <1>5 DEF Entries, Formed, Marks, Structural, Keyframes

(* A snapshot is the raster its path drew, so it may be taken wherever     *)
(* nothing is lifted off the layer (appendSnapshot).                       *)
LEMMA SnapGood ==
  ASSUME NEW d, NEW g, NEW t, Good(d, g, t), d.open = <<>>, NEW l \in LayersOf(d.stack),
         ~t /\ GroundedBook(d.book) /\ Carried(d) => l # d.active,
         NEW s, s = AppendSnapshot(d, l)
  PROVE  /\ Good(s, g, t) /\ s.open = <<>> /\ Same(d, s, g) /\ Further(d, s)
         /\ KeyframedOn(PathOf(s), l) /\ ~SnapshotDue(s, l)
<1>0. Sane(d, g) /\ Worded(d) /\ (~t /\ GroundedBook(d.book) => Pictured(d, g))
  BY DEF Good
<1>1. /\ LayersOf(d.stack) \subseteq Layers /\ l \in Layers /\ NoLayer \notin LayersOf(d.stack)
      /\ d.made \in Nat
  BY <1>0, SaneLayers
<1>2. d \in Docs(d.made)
  BY <1>0 DEF Sane
<1>3. PICK e : e = [Blank EXCEPT !.layer = l, !.author = d.author, !.pic = d.pic[l],
                           !.sent = TRUE, !.confirmed = TRUE]
  OBVIOUS
<1>4. /\ e \in Entries(d.made) /\ e.kind = "snap" /\ e.layer = l /\ e.roster = <<>> /\ e.pic = d.pic[l]
      /\ ~Marks(e) /\ ~Structural(e) /\ Keyframes(e)
  <2>1. d.author = NoAuthor /\ d.pic[l] \in Rasters(d.made)
    BY <1>1, <1>2, DocFields
  <2>2. e = SnapOf(l, d.pic[l])
    BY <1>3, <2>1 DEF SnapOf
  <2> QED
    BY <1>1, <2>1, <2>2, SnapIsEntry
<1>5. s = Recorded(d, e)
  BY <1>3 DEF AppendSnapshot
<1>6. Entered(d, e, s)
  BY <1>0, <1>4, <1>5, RecordedEnters
<1>7. Known(d.book, g, e.layer) /\ LayersOf(e.roster) = {}
  BY <1>0, <1>4 DEF Sane, LayersOf
<1>8. Sane(s, g) /\ \A k : Known(s.book, g, k) => Known(d.book, g, k)
  BY <1>0, <1>4, <1>6, <1>7, RecordSane
<1>9. Worded(s) /\ \A b \in Boxes : TextOf(PathOf(s), Boxes)[b] = TextOf(PathOf(d), Boxes)[b]
  BY <1>0, <1>4, <1>6, RecordWorded
<1>10. /\ s.made = d.made /\ s.stack = d.stack /\ s.active = d.active /\ s.pic = d.pic
       /\ s.text = d.text /\ s.sel = d.sel /\ s.before = d.before /\ s.fresh = d.fresh
       /\ s.lift = d.lift /\ s.open = <<>>
       /\ \A k \in Layers : k # l => s.since[k] = d.since[k]
       /\ s.since[l] = 0
  BY <1>1, <1>4, <1>6 DEF Entered
<1>11. Same(d, s, g)
  BY <1>8, <1>9, <1>10 DEF Same
<1>12. Reads(d, e, s, g)
  BY <1>0, <1>4, <1>6, RecordReads
<1>13. Further(d, s) /\ KeyframedOn(PathOf(s), l)
  BY <1>12, <1>4 DEF Reads, Further
<1>14. ~SnapshotDue(s, l)
  BY <1>10, SnapEveryAssumption DEF SnapshotDue
<1>15. ASSUME ~t, GroundedBook(s.book) PROVE Pictured(s, g)
  <2>1. Pictured(d, g) /\ (Carried(d) => l # d.active)
    BY <1>0, <1>13, <1>15 DEF Further
  <2>2. \A k : Ink(g, PathOf(s), k) = Ink(g, PathOf(d), k)
    BY <1>12, <1>4 DEF Reads
  <2>3. \A k : ~Wet(s, k) /\ ~Wet(d, k)
    BY <1>10 DEF Wet
  <2>4. Carried(s) = Carried(d)
    BY <1>10 DEF Carried
  <2>5. \A k \in LayersOf(s.stack) : Shows(s, g, k)
    BY <2>1, <2>2, <2>3, <2>4, <1>10 DEF Pictured, Shows
  <2>6. s.stack = RosterOf(PathOf(s), g.stack)
    BY <2>1, <1>12, <1>4, <1>10 DEF Reads, Pictured
  <2>7. d.pic[l] = Ink(g, PathOf(d), l)
    BY <2>1, <2>3 DEF Pictured, Shows
  <2>8. TruthOf(e, PathOf(d), g)
    BY <2>7, <1>4 DEF TruthOf
  <2>9. \A n \in DOMAIN s.book : Truthful(s.book, g, n)
    BY <2>1, <2>8, <1>12 DEF Reads, Pictured
  <2>10. Carried(s) => /\ s.open = <<>> /\ ~SnapshotDue(s, s.active)
                       /\ s.lift \notin ToSet(Ink(g, PathOf(s), s.active))
    <3>1. SUFFICES ASSUME Carried(d) PROVE ~SnapshotDue(s, s.active) /\ s.lift \notin ToSet(Ink(g, PathOf(s), s.active))
      BY <2>4, <1>10
    <3>2. d.active \in Layers /\ d.active # l
      BY <3>1, <2>1, <1>0, SaneLayers
    <3>3. s.since[s.active] = d.since[d.active]
      BY <3>2, <1>10
    <3> QED
      BY <3>1, <3>3, <2>1, <2>2, <1>10 DEF Pictured, SnapshotDue
  <2> QED
    BY <2>5, <2>6, <2>9, <2>10 DEF Pictured
<1> QED
  BY <1>8, <1>9, <1>10, <1>11, <1>13, <1>14, <1>15 DEF Good

(* Sealing takes no keyframe off the path.                                 *)
LEMMA SealFurther ==
  ASSUME NEW d, NEW g, Sane(d, g), NEW s, s = SealOpenOp(d)
  PROVE  Further(d, s) /\ (d.open = <<>> => s = d)
<1>1. CASE d.open = <<>>
  BY <1>1 DEF SealOpenOp, Further
<1> SUFFICES ASSUME d.open # <<>> PROVE Further(d, s)
  BY <1>1
<1>2. PICK o : o = [d EXCEPT !.open = <<>>]
  OBVIOUS
<1>3. Sane(o, g) /\ PathOf(o) = PathOf(d) /\ o.book = d.book /\ o.made = d.made
  BY <1>2, SaneClosed
<1>4. PICK e : e = d.open[1]
  OBVIOUS
<1>5. CASE e.mark = 0
  BY <1>2, <1>3, <1>4, <1>5 DEF SealOpenOp, Further
<1>6. CASE e.mark # 0
  <2>1. s = Recorded(o, e)
    BY <1>2, <1>4, <1>6 DEF SealOpenOp
  <2>2. LayersOf(d.stack) \subseteq Layers /\ NoLayer \notin LayersOf(d.stack)
    BY SaneLayers
  <2>3. Len(d.open) = 1 /\ Open(d, e) /\ d \in Docs(d.made)
    BY <1>4 DEF Sane
  <2>4. d.open \in Seq(Fields(d.made))
    BY <2>3, DocFields
  <2>5. e \in Fields(d.made)
    BY <2>3, <2>4, <1>4
  <2>6. e \in Entries(o.made)
    BY <1>3, <1>6, <2>2, <2>3, <2>5 DEF Open, Entries, Formed
  <2>7. Reads(o, e, s, g)
    BY <1>3, <2>1, <2>6, RecordedEnters, RecordReads
  <2> QED
    BY <2>7, <1>3 DEF Reads, Further
<1> QED
  BY <1>5, <1>6

(* Two steps that lose no keyframe lose none together.                     *)
LEMMA FurtherOn ==
  ASSUME NEW d, NEW s, NEW u, Further(d, s), Further(s, u)
  PROVE  Further(d, u)
BY DEF Further

(* Two steps that change nothing but the notebook change nothing else      *)
(* together.                                                               *)
LEMMA SameOn ==
  ASSUME NEW g, NEW d, NEW s, NEW u, Same(d, s, g), Same(s, u, g)
  PROVE  Same(d, u, g)
BY DEF Same

(* A keyframe when one is due: never of a layer something is lifted off.   *)
LEMMA KeyframeGood ==
  ASSUME NEW d, NEW g, NEW t, Good(d, g, t), NEW l, NEW s, s = KeyframeIfDue(d, l)
  PROVE  /\ Good(s, g, t) /\ s.open = <<>> /\ Same(d, s, g) /\ Further(d, s)
         /\ l \in LayersOf(d.stack) => ~SnapshotDue(s, l)
<1>1. PICK o : o = SealOpenOp(d)
  OBVIOUS
<1>2. Good(o, g, t) /\ o.open = <<>> /\ Same(d, o, g) /\ Further(d, o)
  BY <1>1, SealGood, SealFurther DEF Good
<1>3. l \in LayersOf(o.stack) <=> l \in LayersOf(d.stack)
  BY <1>2 DEF Same
<1>4. CASE OnStack(o, l) /\ SnapshotDue(o, l)
  <2>1. s = AppendSnapshot(o, l)
    BY <1>1, <1>4 DEF KeyframeIfDue
  <2>2. ASSUME ~t, GroundedBook(o.book), Carried(o) PROVE l # o.active
    BY <2>2, <1>2, <1>4 DEF Good, Pictured
  <2>3. /\ Good(s, g, t) /\ s.open = <<>> /\ Same(o, s, g) /\ Further(o, s)
        /\ ~SnapshotDue(s, l)
    BY <2>1, <2>2, <1>2, <1>4, SnapGood DEF OnStack
  <2> QED
    BY <2>3, <1>2, FurtherOn, SameOn
<1>5. CASE ~(OnStack(o, l) /\ SnapshotDue(o, l))
  <2>1. s = o
    BY <1>1, <1>5 DEF KeyframeIfDue
  <2> QED
    BY <2>1, <1>2, <1>3, <1>5 DEF OnStack
<1> QED
  BY <1>4, <1>5

----------------------------------------------------------------------------
(* Holes in rasters.                                                       *)

(* Sequences with one element less or one more in the middle.              *)
Joined(S, a, z, k, n, y) ==
  /\ y \in Seq(S) /\ Len(y) = k + n
  /\ \A i \in 1 .. k : y[i] = a[i]
  /\ \A i \in k + 1 .. k + n : y[i] = z[i - k]

(* A concatenation, element by element.                                    *)
LEMMA ConcatIs ==
  ASSUME NEW S, NEW k \in Nat, NEW n \in Nat, NEW a \in Seq(S), NEW z \in Seq(S),
         Len(a) = k, Len(z) = n
  PROVE  Joined(S, a, z, k, n, a \o z)
BY DEF Joined

(* Position k of the sequence q gone, an element put in at position k.     *)
Cut(S, q, n, k, r) ==
  /\ r \in Seq(S) /\ Len(r) = n - 1
  /\ \A i \in 1 .. n - 1 : r[i] = IF i < k THEN q[i] ELSE q[i + 1]

Put(S, q, n, k, e, r) ==
  /\ r \in Seq(S) /\ Len(r) = n + 1
  /\ \A i \in 1 .. n + 1 : r[i] = IF i < k THEN q[i] ELSE IF i = k THEN e ELSE q[i - 1]

(* RemoveAt, element by element.                                           *)
LEMMA RemoveAtIs ==
  ASSUME NEW S, NEW q \in Seq(S), NEW n \in Nat, Len(q) = n, NEW k \in 1 .. n
  PROVE  Cut(S, q, n, k, RemoveAt(q, k))
<1>1. PICK x \in Nat, y \in Nat : x = k - 1 /\ y = n - k
  OBVIOUS
<1>2. PICK a : a = SubSeq(q, 1, k - 1)
  OBVIOUS
<1>3. PICK z : z = SubSeq(q, k + 1, n)
  OBVIOUS
<1>4. a \in Seq(S) /\ Len(a) = x /\ \A i \in 1 .. x : a[i] = q[i]
  BY <1>1, <1>2
<1>5. z \in Seq(S) /\ Len(z) = y /\ \A i \in 1 .. y : z[i] = q[k + i]
  BY <1>1, <1>3
<1>6. PICK r : r = RemoveAt(q, k)
  OBVIOUS
<1>7. r = a \o z
  BY <1>2, <1>3, <1>6 DEF RemoveAt
<1>8. Joined(S, a, z, x, y, r)
  BY <1>4, <1>5, <1>7, ConcatIs
<1>9. r \in Seq(S) /\ Len(r) = n - 1
  BY <1>1, <1>8 DEF Joined
<1>10. ASSUME NEW i \in 1 .. n - 1 PROVE r[i] = IF i < k THEN q[i] ELSE q[i + 1]
  <2>1. CASE i < k
    <3>1. i \in 1 .. x
      BY <2>1, <1>1
    <3> QED
      BY <3>1, <2>1, <1>4, <1>8 DEF Joined
  <2>2. CASE ~(i < k)
    <3>1. i \in x + 1 .. x + y
      BY <2>2, <1>1
    <3>2. PICK j \in 1 .. y : j = i - x
      BY <3>1, <1>1
    <3>3. r[i] = z[j] /\ z[j] = q[k + j]
      BY <3>1, <3>2, <1>5, <1>8 DEF Joined
    <3>4. k + j = i + 1
      BY <3>2, <1>1
    <3> QED
      BY <3>3, <3>4, <2>2
  <2> QED
    BY <2>1, <2>2
<1> QED
  BY <1>6, <1>9, <1>10 DEF Cut

(* InsertAt, element by element.                                           *)
LEMMA InsertAtIs ==
  ASSUME NEW S, NEW q \in Seq(S), NEW n \in Nat, Len(q) = n, NEW k \in 1 .. n + 1, NEW e \in S
  PROVE  Put(S, q, n, k, e, InsertAt(q, k, e))
<1>1. PICK x \in Nat, y \in Nat : x = k - 1 /\ y = n + 1 - k
  OBVIOUS
<1>2. PICK a : a = SubSeq(q, 1, k - 1)
  OBVIOUS
<1>3. PICK z : z = SubSeq(q, k, n)
  OBVIOUS
<1>4. a \in Seq(S) /\ Len(a) = x /\ \A i \in 1 .. x : a[i] = q[i]
  BY <1>1, <1>2
<1>5. z \in Seq(S) /\ Len(z) = y /\ \A i \in 1 .. y : z[i] = q[x + i]
  BY <1>1, <1>3
<1>6. PICK u : u = a \o <<e>>
  OBVIOUS
<1>s. <<e>> \in Seq(S) /\ Len(<<e>>) = 1 /\ <<e>>[1] = e
  OBVIOUS
<1>u. PICK v \in Seq(S) : v = <<e>>
  BY <1>s
<1>7. Joined(S, a, v, x, 1, u)
  BY <1>4, <1>6, <1>s, <1>u, ConcatIs
<1>8. k \in Nat /\ u \in Seq(S) /\ Len(u) = k /\ u[k] = e /\ \A i \in 1 .. x : u[i] = q[i]
  <2>1. k = x + 1 /\ k \in x + 1 .. x + 1 /\ k - x = 1 /\ k \in Nat
    BY <1>1
  <2>2. u[k] = v[1]
    BY <2>1, <1>7 DEF Joined
  <2> QED
    BY <2>1, <2>2, <1>4, <1>7, <1>s, <1>u DEF Joined
<1>9. PICK r : r = InsertAt(q, k, e)
  OBVIOUS
<1>10. r = u \o z
  BY <1>2, <1>3, <1>6, <1>9 DEF InsertAt
<1>11. Joined(S, u, z, k, y, r)
  BY <1>5, <1>8, <1>10, ConcatIs
<1>12. r \in Seq(S) /\ Len(r) = n + 1
  BY <1>1, <1>11 DEF Joined
<1>13. ASSUME NEW i \in 1 .. n + 1
       PROVE  r[i] = IF i < k THEN q[i] ELSE IF i = k THEN e ELSE q[i - 1]
  <2>1. CASE i < k
    <3>1. i \in 1 .. k /\ i \in 1 .. x
      BY <2>1, <1>1
    <3> QED
      BY <3>1, <2>1, <1>8, <1>11 DEF Joined
  <2>2. CASE i = k
    <3>1. i \in 1 .. k /\ ~(i < k)
      BY <2>2, <1>1
    <3> QED
      BY <3>1, <2>2, <1>8, <1>11 DEF Joined
  <2>3. CASE i > k
    <3>1. i \in k + 1 .. k + y /\ ~(i < k) /\ i # k
      BY <2>3, <1>1
    <3>2. PICK j \in 1 .. y : j = i - k
      BY <3>1, <1>1
    <3>3. r[i] = z[j] /\ z[j] = q[x + j]
      BY <3>1, <3>2, <1>5, <1>11 DEF Joined
    <3>4. x + j = i - 1
      BY <3>2, <1>1
    <3> QED
      BY <3>1, <3>3, <3>4
  <2> QED
    BY <2>1, <2>2, <2>3
<1> QED
  BY <1>9, <1>12, <1>13 DEF Put

(* A raster with the hole at its end has the hole nowhere else.            *)
LEMMA HoleIsLast ==
  ASSUME NEW S, NEW ink \in Seq(S), NEW v \in S, v \notin ToSet(ink), NEW k,
         k = CHOOSE i \in DOMAIN Append(ink, v) : Append(ink, v)[i] = v
  PROVE  RemoveAt(Append(ink, v), k) = ink
<1>q. PICK q : q = Append(ink, v)
  OBVIOUS
<1>1. /\ q \in Seq(S) /\ Len(ink) \in Nat /\ Len(q) = Len(ink) + 1 /\ q[Len(ink) + 1] = v
      /\ \A i \in 1 .. Len(ink) : q[i] = ink[i]
      /\ DOMAIN q = 1 .. Len(ink) + 1 /\ DOMAIN ink = 1 .. Len(ink)
  BY <1>q, AppendIs
<1>2. \A i \in 1 .. Len(ink) : ink[i] # v
  BY <1>1 DEF ToSet
<1>3. k \in DOMAIN q /\ q[k] = v
  BY <1>q, <1>1
<1>4. k = Len(ink) + 1
  BY <1>1, <1>2, <1>3
<1>5. PICK r : r = RemoveAt(q, k)
  OBVIOUS
<1>6. r \in Seq(S) /\ Len(r) = Len(ink) /\ \A i \in 1 .. Len(ink) : r[i] = ink[i]
  <2>1. PICK n \in Nat : n = Len(ink) + 1
    BY <1>1
  <2>2. n \in 1 .. n /\ Len(q) = n /\ k = n /\ n - 1 = Len(ink)
    BY <2>1, <1>1, <1>4
  <2>3. Cut(S, q, n, n, r)
    BY <2>2, <1>1, <1>5, RemoveAtIs
  <2>4. \A i \in 1 .. n - 1 : i < n
    OBVIOUS
  <2>5. r \in Seq(S) /\ Len(r) = n - 1 /\ \A i \in 1 .. n - 1 : r[i] = q[i]
    BY <2>3, <2>4 DEF Cut
  <2> QED
    BY <2>2, <2>5, <1>1
<1>7. r = ink
  BY <1>6, <1>1
<1> QED
  BY <1>7, <1>5, <1>q

(* What is under the hole.                                                 *)
Whole(pic, lift) ==
  IF lift \notin ToSet(pic) THEN pic
  ELSE RemoveAt(pic, CHOOSE i \in DOMAIN pic : pic[i] = lift)

IsWhole(S, pic, lift, w) ==
  /\ w \in Seq(S)
  /\ lift \notin ToSet(pic) => w = pic
  /\ \A ink \in Seq(S) : lift \in S /\ lift \notin ToSet(ink) /\ pic = Append(ink, lift) => w = ink

(* A raster without its hole is what was under the hole.                   *)
LEMMA WholeIs ==
  ASSUME NEW S, NEW pic \in Seq(S), NEW lift
  PROVE  IsWhole(S, pic, lift, Whole(pic, lift))
<1>1. Whole(pic, lift) \in Seq(S)
  <2>1. CASE lift \notin ToSet(pic)
    BY <2>1 DEF Whole
  <2>2. CASE lift \in ToSet(pic)
    <3>1. PICK k : k = CHOOSE i \in DOMAIN pic : pic[i] = lift
      OBVIOUS
    <3>2. k \in 1 .. Len(pic)
      BY <3>1, <2>2 DEF ToSet
    <3>3. Len(pic) \in Nat
      OBVIOUS
    <3> QED
      BY <3>1, <3>2, <3>3, <2>2, RemoveAtIs DEF Whole, Cut
  <2> QED
    BY <2>1, <2>2
<1>2. lift \notin ToSet(pic) => Whole(pic, lift) = pic
  BY DEF Whole
<1>3. ASSUME NEW ink \in Seq(S), lift \in S, lift \notin ToSet(ink), pic = Append(ink, lift)
      PROVE  Whole(pic, lift) = ink
  <2>1. pic[Len(ink) + 1] = lift /\ Len(ink) + 1 \in DOMAIN pic
    BY <1>3
  <2>2. lift \in ToSet(pic)
    BY <2>1 DEF ToSet
  <2> QED
    BY <2>2, <1>3, HoleIsLast DEF Whole
<1> QED
  BY <1>1, <1>2, <1>3 DEF IsWhole

----------------------------------------------------------------------------
(* Marks.                                                                  *)

(* The page but for its rasters, what is lifted and the numbers given out. *)
Redone(d, s) ==
  /\ s.book = d.book /\ s.cursor = d.cursor /\ s.since = d.since /\ s.stack = d.stack
  /\ s.active = d.active /\ s.open = d.open /\ s.text = d.text /\ s.sel = d.sel
  /\ s.before = d.before /\ s.fresh = d.fresh

Repainted(d, pic, v) == [d EXCEPT !.pic = pic, !.lift = v]
Numbered(d, k)       == [d EXCEPT !.made = k]

(* Other rasters on the page: every other field stays.                     *)
LEMMA DocRepainted ==
  ASSUME NEW m, NEW d \in Docs(m), NEW pic \in [Layers -> Rasters(m)], NEW v \in 0 .. m,
         NEW s, s = Repainted(d, pic, v)
  PROVE  s \in Docs(m) /\ Redone(d, s) /\ s.made = d.made /\ s.pic = pic /\ s.lift = v
BY DEF Docs, Redone, Repainted

(* One more number handed out: every other field stays.                    *)
LEMMA DocNumbered ==
  ASSUME NEW m \in Nat, NEW d \in Docs(m), NEW s, s = Numbered(d, m + 1)
  PROVE  s \in Docs(m + 1) /\ Redone(d, s) /\ s.made = m + 1 /\ s.pic = d.pic /\ s.lift = d.lift
<1>1. PICK k \in Nat : k = m + 1
  OBVIOUS
<1>2. m <= k
  BY <1>1
<1>3. Rasters(m) \subseteq Rasters(k) /\ Fields(m) \subseteq Fields(k) /\ Entries(m) \subseteq Entries(k)
  BY <1>2, Grows
<1>4. 0 .. m \subseteq 0 .. k /\ -m .. m \subseteq -k .. k
  BY <1>2
<1>5. /\ d.book \in Seq(Entries(k)) /\ d.pic \in [Layers -> Rasters(k)] /\ d.open \in Seq(Fields(k))
      /\ d.text \in [Boxes -> -k .. k] /\ d.before \in -k .. k /\ d.lift \in 0 .. k
  <2>1. /\ d.book \in Seq(Entries(m)) /\ d.pic \in [Layers -> Rasters(m)] /\ d.open \in Seq(Fields(m))
        /\ d.text \in [Boxes -> -m .. m] /\ d.before \in -m .. m /\ d.lift \in 0 .. m
    BY DocFields
  <2>2. d.book \in Seq(Entries(k)) /\ d.open \in Seq(Fields(k))
    BY <2>1, <1>3
  <2>3. d.pic \in [Layers -> Rasters(k)]
    BY <2>1, <1>3
  <2>4. d.text \in [Boxes -> -k .. k] /\ d.before \in -k .. k /\ d.lift \in 0 .. k
    BY <2>1, <1>4
  <2> QED
    BY <2>2, <2>3, <2>4
<1>6. s = [d EXCEPT !.made = k]
  BY <1>1 DEF Numbered
<1>7. s.made = k /\ Redone(d, s) /\ s.pic = d.pic /\ s.lift = d.lift
  BY <1>6 DEF Docs, Redone
<1>8. s \in Docs(k)
  BY <1>5, <1>6 DEF Docs
<1> QED
  BY <1>1, <1>7, <1>8

(* A mark on a layer of the stack leaves the layers off it bare.           *)
LEMMA StillBare ==
  ASSUME NEW d, NEW g, Sane(d, g), NEW l \in LayersOf(d.stack), NEW s, s.stack = d.stack,
         \A k \in Layers : k # l => s.pic[k] = d.pic[k]
  PROVE  Bare(s)
<1>1. Bare(d)
  BY DEF Sane, Returns
<1> QED
  BY <1>1 DEF Bare

(* The same layers with the same rasters: nothing is kept off the stack.   *)
LEMMA BareAlike ==
  ASSUME NEW d, NEW g, Sane(d, g), NEW s, s.stack = d.stack, s.pic = d.pic
  PROVE  Bare(s)
<1>1. Bare(d)
  BY DEF Sane, Returns
<1> QED
  BY <1>1 DEF Bare

(* A page stays sane when only its rasters, its lift and its numbers       *)
(* change.                                                                 *)
LEMMA SaneRedone ==
  ASSUME NEW d, NEW g, Sane(d, g), NEW s, NEW m \in Nat, d.made <= m, s \in Docs(m), Redone(d, s),
         Bare(s)
  PROVE  /\ Sane(s, g) /\ PathOf(s) = PathOf(d)
         /\ Worded(d) => Worded(s)
<1>1. /\ d.made \in Nat \ {0} /\ d \in Docs(d.made)
      /\ Tree(d.book) /\ d.cursor \in 0 .. Len(d.book)
      /\ Keyed(d.stack) /\ d.active \in LayersOf(d.stack)
      /\ d.open = <<>> \/ (Len(d.open) = 1 /\ Open(d, d.open[1]))
      /\ d.sel # NoBox => d.text[d.sel] # NoText
      /\ g \in [pic : [Layers -> Rasters(d.made)], stack : Seq(Faces)] /\ Keyed(g.stack)
      /\ \A n \in DOMAIN d.book : d.book[n].layer # NoLayer => Known(d.book, g, d.book[n].layer)
      /\ \A l \in LayersOf(d.stack) : Known(d.book, g, l)
      /\ Returns(d)
  BY DEF Sane
<1>2. s.made = m /\ m \in Nat \ {0}
  BY <1>1, DocFields
<1>3. g \in [pic : [Layers -> Rasters(m)], stack : Seq(Faces)]
  <2>1. Rasters(d.made) \subseteq Rasters(m)
    BY <1>1, Grows
  <2> QED
    BY <1>1, <2>1
<1>4. s.open = <<>> \/ (Len(s.open) = 1 /\ Open(s, s.open[1]))
  BY <1>1 DEF Open, Redone
<1>5. Sane(s, g)
  <2>1. /\ s.book = d.book /\ s.cursor = d.cursor /\ s.stack = d.stack
        /\ s.active = d.active /\ s.text = d.text /\ s.sel = d.sel
    BY DEF Redone
  <2>2. Returns(s)
    BY <2>1, <1>1 DEF Returns
  <2> QED
    BY <2>1, <2>2, <1>1, <1>2, <1>3, <1>4 DEF Sane
<1>6. PathOf(s) = PathOf(d)
  BY DEF PathOf, Redone
<1>7. Worded(d) => Worded(s)
  BY <1>6 DEF Worded, WordsOf, Redone
<1> QED
  BY <1>5, <1>6, <1>7

MarkOf(kind, l, mark) ==
  [Blank EXCEPT !.kind = kind, !.layer = l, !.author = NoAuthor, !.mark = mark]

MarkFrom(b, kind, l, mark) ==
  [b EXCEPT !.kind = kind, !.layer = l, !.author = NoAuthor, !.mark = mark]

(* The fields of an entry that draws.                                      *)
LEMMA MarkFields ==
  ASSUME NEW m, NEW b \in Fields(m), NEW kind \in Kinds, NEW l \in Layers \cup {NoLayer},
         NEW mark \in 0 .. m, NEW e, e = MarkFrom(b, kind, l, mark)
  PROVE  /\ e \in Fields(m) /\ e.kind = kind /\ e.layer = l /\ e.mark = mark
         /\ e.roster = b.roster /\ e.pic = b.pic /\ e.keyframe = b.keyframe /\ e.box = b.box
         /\ e.removed = b.removed
BY DEF Fields, MarkFrom

(* A stroke, a fill, a clear and a patch are entries that mark their layer *)
(* and state nothing.                                                      *)
LEMMA MarkIsEntry ==
  ASSUME NEW m \in Nat, NEW kind \in {"dab", "fill", "clear", "patch"}, NEW l \in Layers,
         NEW mark \in 1 .. m, NEW e, e = MarkOf(kind, l, mark)
  PROVE  /\ e \in Entries(m) /\ e.kind = kind /\ e.layer = l /\ e.mark = mark /\ e.roster = <<>>
         /\ Marks(e) /\ ~Structural(e) /\ ~Keyframes(e)
<1>1. PICK b : b = Blank
  OBVIOUS
<1>2. BlankIs(m, b)
  BY <1>1, BlankHolds
<1>3. e = MarkFrom(b, kind, l, mark)
  BY <1>1 DEF MarkOf, MarkFrom
<1>4. kind \in Kinds /\ mark \in 0 .. m
  BY DEF Kinds
<1>5. /\ e.kind = kind /\ e.layer = l /\ e.mark = mark /\ e.roster = <<>> /\ e.pic = NoPic
      /\ e.keyframe = FALSE /\ e \in Fields(m)
  BY <1>2, <1>3, <1>4, MarkFields DEF BlankIs
<1>6. e \in Entries(m)
  BY <1>5, NoNameAssumption DEF Entries, Formed
<1> QED
  BY <1>5, <1>6 DEF Marks, Structural, Keyframes, Retraction

(* The same page but for its rasters and what is lifted.                   *)
Kept(d, s, g) ==
  /\ s.stack = d.stack /\ s.active = d.active
  /\ s.text = d.text /\ s.sel = d.sel /\ s.before = d.before /\ s.fresh = d.fresh
  /\ \A l : Known(s.book, g, l) => Known(d.book, g, l)
  /\ \A b \in Boxes : TextOf(PathOf(s), Boxes)[b] = TextOf(PathOf(d), Boxes)[b]

DrawnOn(d, x, s, g, t, m) ==
  /\ Good(s, g, t) /\ s.open = <<>> /\ Further(d, s) /\ Kept(d, s, g)
  /\ s.made = m /\ s.pic = x.pic /\ s.lift = x.lift

(* A mark drawn on a layer of the page and recorded.                       *)
LEMMA DrawnGood ==
  ASSUME NEW d, NEW g, NEW t, Good(d, g, t), d.open = <<>>, NEW l \in LayersOf(d.stack),
         NEW x, Redone(d, x), NEW m \in Nat, d.made <= m, x \in Docs(m),
         NEW e \in Entries(m), e.layer = l, e.roster = <<>>, e.kind # "text",
         Marks(e), ~Structural(e), ~Keyframes(e),
         \A k \in Layers : k # l => x.pic[k] = d.pic[k],
         ~t /\ Pictured(d, g) =>
           /\ x.pic[l] = Drawn(Ink(g, PathOf(d), l), e)
           /\ l = d.active => ~Carried(x)
           /\ l # d.active => x.lift = d.lift,
         NEW s, s = Recorded(x, e)
  PROVE  DrawnOn(d, x, s, g, t, m)
<1>0. Sane(d, g) /\ Worded(d) /\ (~t /\ GroundedBook(d.book) => Pictured(d, g))
  BY DEF Good
<1>1. Sane(x, g) /\ PathOf(x) = PathOf(d) /\ Worded(x)
  <2>1. x.stack = d.stack
    BY DEF Redone
  <2>2. Bare(x)
    BY <1>0, <2>1, StillBare
  <2> QED
    BY <1>0, <2>2, SaneRedone
<1>2. x.made = m /\ LayersOf(d.stack) \subseteq Layers /\ d.active \in Layers
  BY <1>0, DocFields, SaneLayers
<1>3. /\ x.stack = d.stack /\ x.active = d.active /\ x.text = d.text /\ x.sel = d.sel
      /\ x.before = d.before /\ x.fresh = d.fresh /\ x.open = <<>> /\ x.book = d.book
      /\ x.since = d.since
  BY DEF Redone
<1>4. Entered(x, e, s)
  BY <1>1, <1>2, RecordedEnters
<1>5. Known(x.book, g, e.layer) /\ LayersOf(e.roster) = {}
  BY <1>0, <1>3 DEF Sane, LayersOf
<1>6. Sane(s, g) /\ \A k : Known(s.book, g, k) => Known(d.book, g, k)
  BY <1>1, <1>2, <1>3, <1>4, <1>5, RecordSane
<1>7. Worded(s) /\ \A b \in Boxes : TextOf(PathOf(s), Boxes)[b] = TextOf(PathOf(x), Boxes)[b]
  BY <1>1, <1>2, <1>4, RecordWorded
<1>8. /\ s.stack = d.stack /\ s.active = d.active /\ s.text = d.text /\ s.sel = d.sel
      /\ s.before = d.before /\ s.fresh = d.fresh /\ s.open = <<>>
      /\ s.made = m /\ s.pic = x.pic /\ s.lift = x.lift
      /\ \A k \in Layers : k # l => s.since[k] = d.since[k]
  BY <1>2, <1>3, <1>4 DEF Entered
<1>9. Reads(x, e, s, g)
  BY <1>1, <1>2, <1>4, RecordReads
<1>10. Further(d, s)
  BY <1>1, <1>3, <1>9 DEF Reads, Further
<1>11. ASSUME ~t, GroundedBook(s.book) PROVE Pictured(s, g)
  <2>1. Pictured(d, g)
    BY <1>0, <1>10, <1>11 DEF Further
  <2>2. /\ x.pic[l] = Drawn(Ink(g, PathOf(d), l), e)
        /\ l = d.active => ~Carried(x)
        /\ l # d.active => x.lift = d.lift
    BY <2>1, <1>11
  <2>3. \A k : Ink(g, PathOf(s), k) = IF k = l THEN Drawn(Ink(g, PathOf(d), k), e) ELSE Ink(g, PathOf(d), k)
    BY <1>1, <1>9 DEF Reads
  <2>4. \A k : ~Wet(s, k) /\ ~Wet(d, k)
    BY <1>8 DEF Wet
  <2>5. Carried(s) = Carried(x)
    BY <1>3, <1>8 DEF Carried
  <2>6. l # d.active => Carried(x) = Carried(d)
    BY <2>2, <1>2, <1>3 DEF Carried
  <2>7. \A k \in LayersOf(s.stack) : Shows(s, g, k)
    <3> SUFFICES ASSUME NEW k \in LayersOf(d.stack) PROVE Shows(s, g, k)
      BY <1>8
    <3>1. Shows(d, g, k)
      BY <2>1 DEF Pictured
    <3>2. CASE k = l
      BY <3>2, <2>2, <2>3, <2>4, <2>5, <1>8 DEF Shows
    <3>3. CASE k # l
      <4>1. s.pic[k] = d.pic[k]
        BY <3>3, <1>2, <1>8
      <4>2. Ink(g, PathOf(s), k) = Ink(g, PathOf(d), k)
        BY <3>3, <2>3
      <4>3. k = d.active => Carried(s) = Carried(d) /\ s.lift = d.lift
        BY <3>3, <2>2, <2>5, <2>6, <1>8
      <4>4. CASE Carried(s)
        <5>1. Carried(d) /\ s.lift = d.lift
          BY <4>4, <2>2, <2>5, <2>6, <1>8
        <5> QED
          BY <5>1, <4>1, <4>2, <4>4, <3>1, <2>4, <1>8 DEF Shows
      <4>5. CASE ~Carried(s)
        BY <4>1, <4>2, <4>3, <4>5, <3>1, <2>4, <1>8 DEF Shows
      <4> QED
        BY <4>4, <4>5
    <3> QED
      BY <3>2, <3>3
  <2>8. s.stack = RosterOf(PathOf(s), g.stack)
    BY <2>1, <1>1, <1>8, <1>9 DEF Reads, Pictured
  <2>9. TruthOf(e, PathOf(x), g)
    BY DEF TruthOf, Marks
  <2>10. \A n \in DOMAIN s.book : Truthful(s.book, g, n)
    BY <2>1, <2>9, <1>3, <1>9 DEF Reads, Pictured
  <2>11. Carried(s) => /\ s.open = <<>> /\ ~SnapshotDue(s, s.active)
                       /\ s.lift \notin ToSet(Ink(g, PathOf(s), s.active))
    <3> SUFFICES ASSUME Carried(s) PROVE ~SnapshotDue(s, s.active) /\ s.lift \notin ToSet(Ink(g, PathOf(s), s.active))
      BY <1>8
    <3>1. l # d.active /\ Carried(d) /\ s.lift = d.lift
      BY <2>2, <2>5, <2>6, <1>8
    <3>2. s.since[s.active] = d.since[d.active] /\ Ink(g, PathOf(s), s.active) = Ink(g, PathOf(d), d.active)
      BY <3>1, <2>3, <1>2, <1>8
    <3> QED
      BY <3>1, <3>2, <2>1, <1>8 DEF Pictured, SnapshotDue
  <2> QED
    BY <2>7, <2>8, <2>10, <2>11 DEF Pictured
<1>12. Good(s, g, t)
  BY <1>6, <1>7, <1>11 DEF Good
<1> QED
  BY <1>1, <1>6, <1>7, <1>8, <1>10, <1>12 DEF DrawnOn, Kept

(* A raster with one more mark is a raster.                                *)
LEMMA DrawnType ==
  ASSUME NEW m \in Nat, NEW e \in Entries(m), Marks(e), e.layer # NoLayer, NEW p \in Rasters(m)
  PROVE  Drawn(p, e) \in Rasters(m)
<1>1. /\ e.kind \in {"dab", "fill", "clear", "patch", "layers"} /\ e.mark \in 0 .. m
      /\ e.kind # "layers" => e.mark # 0
      /\ e.kind = "layers" => e.pic \in Rasters(m)
  BY DEF Marks, Entries, Formed, Fields, Kinds
<1>2. CASE e.kind = "layers"
  BY <1>1, <1>2 DEF Drawn
<1>3. CASE e.kind # "layers"
  <2>1. e.mark \in 1 .. m
    BY <1>1, <1>3
  <2>2. PICK v \in 1 .. m : v = e.mark
    BY <2>1
  <2>3. <<v>> \in Seq(1 .. m) /\ Append(p, v) \in Seq(1 .. m)
    BY DEF Rasters
  <2> QED
    BY <2>2, <2>3, <1>3 DEF Drawn, Rasters
<1> QED
  BY <1>2, <1>3

(* A path lays a raster.                                                   *)
LEMMA LaidType ==
  ASSUME NEW m \in Nat, NEW path \in Seq(Entries(m)), NEW l \in Layers, NEW before \in Rasters(m)
  PROVE  Laid(path, l, before) \in Rasters(m)
<1>1. PICK pic : pic = LaidFcn(path, l, before)
  OBVIOUS
<1>2. LaidIsSo(path, l, before, pic)
  BY <1>1, LaidIs
<1>3. PICK n \in Nat : n = Len(path)
  OBVIOUS
<1>4. /\ Laid(path, l, before) = pic[n] /\ pic[0] = before
      /\ \A i \in 1 .. n : pic[i] =
           IF Marks(path[i]) /\ path[i].layer = l THEN Drawn(pic[i - 1], path[i]) ELSE pic[i - 1]
  BY <1>2, <1>3 DEF LaidIsSo
<1> DEFINE G == {i \in 0 .. n : pic[i] \in Rasters(m)}
<1>5. 0 \in G
  BY <1>4
<1>6. \A i \in 1 .. n : i - 1 \in G => i \in G
  <2> SUFFICES ASSUME NEW i \in 1 .. n, pic[i - 1] \in Rasters(m) PROVE pic[i] \in Rasters(m)
    OBVIOUS
  <2>1. PICK e \in Entries(m) : e = path[i]
    BY <1>3
  <2>l. Marks(e) /\ e.layer = l => Marks(e) /\ e.layer # NoLayer
    BY NoNameAssumption
  <2>2. PICK p \in Rasters(m) : p = pic[i - 1]
    OBVIOUS
  <2>3. Marks(e) /\ e.layer # NoLayer => Drawn(p, e) \in Rasters(m)
    BY DrawnType
  <2> QED
    BY <2>1, <2>l, <2>2, <2>3, <1>4
<1> HIDE DEF G
<1>7. \A i \in 0 .. n : i \in G
  BY <1>3, <1>5, <1>6, CountUp
<1>8. n \in G
  BY <1>7, <1>3
<1> QED
  BY <1>4, <1>8 DEF G

(* What a path drew is a raster.                                           *)
LEMMA InkType ==
  ASSUME NEW m \in Nat, NEW path \in Seq(Entries(m)), NEW l \in Layers, NEW g,
         g \in [pic : [Layers -> Rasters(m)], stack : Seq(Faces)]
  PROVE  Ink(g, path, l) \in Rasters(m)
<1>1. LayersOf(g.stack) \subseteq Layers
  BY RosterKeys
<1>2. PICK before : before = IF l \in LayersOf(g.stack) THEN g.pic[l] ELSE <<>>
  OBVIOUS
<1>3. before \in Rasters(m)
  <2>1. <<>> \in Rasters(m)
    BY DEF Rasters
  <2> QED
    BY <2>1, <1>1, <1>2
<1> QED
  BY <1>2, <1>3, LaidType DEF Ink

(* A page with only its notebook changed has kept its rosters and boxes.   *)
LEMMA SameIsKept ==
  ASSUME NEW d, NEW s, NEW g, Same(d, s, g)
  PROVE  Kept(d, s, g)
BY DEF Same, Kept

(* Two steps that keep the stack and the boxes keep them together.         *)
LEMMA KeptOn ==
  ASSUME NEW g, NEW d, NEW s, NEW u, Kept(d, s, g), Kept(s, u, g)
  PROVE  Kept(d, u, g)
BY DEF Kept

(* What is carried is put down as one patch over the raster it came from:  *)
(* the hole becomes the mark that made it.                                 *)
LEMMA PutDownGood ==
  ASSUME NEW d, NEW g, NEW t, Good(d, g, t), d.open = <<>>, d.lift # 0, NEW s, s = PutDown(d)
  PROVE  /\ Good(s, g, t) /\ s.open = <<>> /\ s.lift = 0 /\ s.made = d.made
         /\ Further(d, s) /\ Kept(d, s, g)
<1>0. Sane(d, g) /\ Worded(d) /\ (~t /\ GroundedBook(d.book) => Pictured(d, g))
  BY DEF Good
<1>1. /\ d.active \in LayersOf(d.stack) /\ d.active \in Layers /\ d.made \in Nat
      /\ d.lift \in 1 .. d.made /\ d.pic \in [Layers -> Rasters(d.made)] /\ d \in Docs(d.made)
  <2>1. d.active \in LayersOf(d.stack) /\ d \in Docs(d.made)
    BY <1>0 DEF Sane
  <2>2. /\ d.active \in Layers /\ d.made \in Nat /\ d.lift \in 0 .. d.made
        /\ d.pic \in [Layers -> Rasters(d.made)]
    BY <1>0, SaneLayers
  <2> QED
    BY <2>1, <2>2
<1>2. PICK l : l = d.active
  OBVIOUS
<1>3. PICK m : m = d.made
  OBVIOUS
<1>4. d.pic[l] \in Seq(1 .. m)
  BY <1>1, <1>2, <1>3 DEF Rasters
<1>5. PICK w : w = Whole(d.pic[l], d.lift)
  OBVIOUS
<1>6. /\ w \in Seq(1 .. m)
      /\ d.lift \notin ToSet(d.pic[l]) => w = d.pic[l]
      /\ \A ink \in Seq(1 .. m) : d.lift \in 1 .. m /\ d.lift \notin ToSet(ink) /\ d.pic[l] = Append(ink, d.lift)
               => w = ink
  <2>1. PICK S : S = 1 .. m
    OBVIOUS
  <2>2. IsWhole(S, d.pic[l], d.lift, w)
    BY <2>1, <1>4, <1>5, WholeIs
  <2> QED
    BY <2>1, <2>2 DEF IsWhole
<1>7. PICK p \in Rasters(m) : p = Append(w, d.lift)
  <2>1. w \in Seq(1 .. m) /\ d.lift \in 1 .. m
    BY <1>1, <1>3, <1>6
  <2>2. PICK S : S = 1 .. m
    OBVIOUS
  <2>3. Append(w, d.lift) \in Seq(S)
    BY <2>1, <2>2, AppendIs
  <2> QED
    BY <2>2, <2>3 DEF Rasters
<1>8. PICK pic : pic = [d.pic EXCEPT ![l] = p]
  OBVIOUS
<1>9. pic \in [Layers -> Rasters(m)] /\ pic[l] = p /\ \A k \in Layers : k # l => pic[k] = d.pic[k]
  BY <1>1, <1>2, <1>3, <1>7, <1>8
<1>10. PICK x : x = Repainted(d, pic, 0)
  OBVIOUS
<1>11. x \in Docs(m) /\ Redone(d, x) /\ x.made = m /\ x.pic = pic /\ x.lift = 0
  <2>1. m \in Nat /\ 0 \in 0 .. m /\ d \in Docs(m)
    BY <1>1, <1>3
  <2> QED
    BY <2>1, <1>3, <1>9, <1>10, DocRepainted
<1>12. PICK e : e = MarkOf("patch", l, d.lift)
  OBVIOUS
<1>13. /\ e \in Entries(m) /\ e.kind = "patch" /\ e.layer = l /\ e.mark = d.lift /\ e.roster = <<>>
       /\ Marks(e) /\ ~Structural(e) /\ ~Keyframes(e)
  BY <1>1, <1>2, <1>3, <1>12, MarkIsEntry
<1>14. s = Recorded(x, e)
  <2>1. d.author = NoAuthor
    BY <1>1, DocFields
  <2>2. pic = [d.pic EXCEPT ![d.active] = Append(Whole(@, d.lift), d.lift)]
    BY <1>2, <1>5, <1>7, <1>8
  <2>3. e = [Blank EXCEPT !.kind = "patch", !.layer = d.active,
                            !.author = d.author, !.mark = d.lift]
    BY <2>1, <1>2, <1>12 DEF MarkOf
  <2>4. PutDown(d) = Recorded([d EXCEPT !.pic[d.active] = Append(Whole(@, d.lift), d.lift), !.lift = 0],
                              [Blank EXCEPT !.kind = "patch", !.layer = d.active,
                                            !.author = d.author, !.mark = d.lift])
    BY DEF PutDown, Whole
  <2>5. x = [d EXCEPT !.pic[d.active] = Append(Whole(@, d.lift), d.lift), !.lift = 0]
    BY <1>10, <2>2 DEF Repainted
  <2> QED
    BY <2>3, <2>4, <2>5
<1>15. ASSUME ~t, Pictured(d, g)
       PROVE  x.pic[l] = Drawn(Ink(g, PathOf(d), l), e)
  <2>1. PICK ink : ink = Ink(g, PathOf(d), l)
    OBVIOUS
  <2>2. ~Wet(d, l)
    BY DEF Wet
  <2>3. d.pic[l] = IF Carried(d) THEN Append(ink, d.lift) ELSE ink
    BY <1>1, <1>2, <1>15, <2>1, <2>2 DEF Pictured, Shows
  <2>4. w = ink
    <3>1. CASE Carried(d)
      <4>1. d.lift \notin ToSet(ink) /\ d.pic[l] = Append(ink, d.lift)
        BY <3>1, <2>1, <2>3, <1>2, <1>15 DEF Pictured
      <4>2. ink \in Seq(1 .. m)
        <5>1. PathOf(d) \in Seq(Entries(m))
          BY <1>0, <1>3, <1>1, DocFields, PathStep DEF PathOf, Sane
        <5>2. l \in Layers /\ m \in Nat /\ g \in [pic : [Layers -> Rasters(m)], stack : Seq(Faces)]
          BY <1>0, <1>1, <1>2, <1>3 DEF Sane
        <5> QED
          BY <5>1, <5>2, <2>1, InkType DEF Rasters
      <4> QED
        BY <4>1, <4>2, <1>1, <1>3, <1>6
    <3>2. CASE ~Carried(d)
      BY <3>2, <2>3, <1>2, <1>6 DEF Carried
    <3> QED
      BY <3>1, <3>2
  <2>5. Drawn(ink, e) = Append(ink, d.lift)
    BY <1>13 DEF Drawn
  <2> QED
    BY <2>1, <2>4, <2>5, <1>7, <1>9, <1>11
<1>16. ~Carried(x)
  BY <1>11 DEF Carried
<1>17. DrawnOn(d, x, s, g, t, m)
  <2>1. m \in Nat /\ d.made <= m /\ l \in LayersOf(d.stack) /\ e.kind # "text"
    BY <1>1, <1>2, <1>3, <1>13
  <2>2. \A k \in Layers : k # l => x.pic[k] = d.pic[k]
    BY <1>9, <1>11
  <2> QED
    BY <2>1, <2>2, <1>2, <1>11, <1>13, <1>14, <1>15, <1>16, DrawnGood
<1> QED
  BY <1>3, <1>11, <1>17 DEF DrawnOn

(* What was lifted is put down as one patch, whole.                        *)
LEMMA DropGood ==
  ASSUME NEW d, NEW g, NEW t, Good(d, g, t), NEW s, s = DropSelection(d)
  PROVE  /\ Good(s, g, t) /\ s.lift = 0 /\ s.made = d.made
         /\ Further(d, s) /\ Kept(d, s, g)
         /\ d.lift = 0 => s = d
         /\ d.lift # 0 => s.open = <<>>
<1>1. CASE d.lift = 0
  <2>1. s = d
    BY <1>1 DEF DropSelection
  <2> QED
    BY <2>1, <1>1 DEF Further, Kept
<1>2. CASE d.lift # 0
  <2>1. PICK k : k = KeyframeIfDue(d, d.active)
    OBVIOUS
  <2>2. Good(k, g, t) /\ k.open = <<>> /\ Same(d, k, g) /\ Further(d, k)
    BY <2>1, KeyframeGood
  <2>3. s = PutDown(k) /\ k.lift # 0 /\ k.made = d.made
    BY <2>1, <2>2, <1>2 DEF DropSelection, Same
  <2>4. /\ Good(s, g, t) /\ s.open = <<>> /\ s.lift = 0 /\ s.made = k.made
        /\ Further(k, s) /\ Kept(k, s, g)
    BY <2>2, <2>3, PutDownGood
  <2> QED
    BY <2>2, <2>3, <2>4, <1>2, FurtherOn, KeptOn, SameIsKept
<1> QED
  BY <1>1, <1>2

(* Two changes of the rasters and numbers are one.                         *)
LEMMA RedoneOn ==
  ASSUME NEW d, NEW s, NEW u, Redone(d, s), Redone(s, u)
  PROVE  Redone(d, u)
BY DEF Redone

(* The marks of a raster are of its type.                                  *)
LEMMA ToSetType ==
  ASSUME NEW S, NEW q \in Seq(S), NEW v \in ToSet(q)
  PROVE  v \in S
<1>1. PICK i \in DOMAIN q : q[i] = v
  BY DEF ToSet
<1> QED
  BY <1>1

(* A fill or a clear.  A fill is only drawn on a layer nothing is lifted   *)
(* off.                                                                    *)
LEMMA PerformGood ==
  ASSUME NEW d, NEW g, NEW t, Good(d, g, t), NEW l \in LayersOf(d.stack),
         NEW kind \in {"fill", "clear"}, kind = "fill" => ~Carried(d),
         NEW s, s = Perform(d, l, kind)
  PROVE  Good(s, g, t)
<1>1. PICK k : k = KeyframeIfDue(d, l)
  OBVIOUS
<1>2. Good(k, g, t) /\ k.open = <<>> /\ Same(d, k, g)
  BY <1>1, KeyframeGood
<1>3. /\ k.made = d.made /\ l \in LayersOf(k.stack) /\ Carried(k) = Carried(d)
      /\ Sane(k, g)
  BY <1>2 DEF Same, Carried, Good
<1>4. /\ k.made \in Nat \ {0} /\ k.lift \in 0 .. k.made /\ k.active \in Layers /\ l \in Layers
      /\ k.pic \in [Layers -> Rasters(k.made)]
  BY <1>3, SaneLayers
<1>5. k \in Docs(k.made)
  BY <1>3 DEF Sane
<1>6. PICK m \in Nat : m = k.made + 1
  BY <1>4
<1>7. m \in 1 .. m /\ k.made <= m /\ k.lift # m
  BY <1>4, <1>6
<1>8. PICK n : n = Numbered(k, m)
  OBVIOUS
<1>9. n \in Docs(m) /\ Redone(k, n) /\ n.made = m /\ n.pic = k.pic /\ n.lift = k.lift
  <2>1. n = Numbered(k, k.made + 1)
    BY <1>6, <1>8
  <2>2. PICK h \in Nat : h = k.made
    BY <1>4
  <2> QED
    BY <2>1, <2>2, <1>5, <1>6, DocNumbered
<1>10. PICK e : e = MarkOf(kind, l, m)
  OBVIOUS
<1>11. /\ e \in Entries(m) /\ e.kind = kind /\ e.layer = l /\ e.mark = m /\ e.roster = <<>>
       /\ Marks(e) /\ ~Structural(e) /\ ~Keyframes(e)
  BY <1>4, <1>7, <1>10, MarkIsEntry
<1>12. e.layer # NoLayer /\ e.kind # "text" /\ e.kind # "snap"
  BY <1>4, <1>11, NoNameAssumption
<1>13. n.pic \in [Layers -> Rasters(m)] /\ n.lift \in 0 .. m
  BY <1>9, DocFields
<1>14. PICK p \in Rasters(m) : p = Drawn(n.pic[l], e)
  BY <1>4, <1>11, <1>12, <1>13, DrawnType
<1>15. PICK pic : pic = [n.pic EXCEPT ![l] = p]
  OBVIOUS
<1>16. pic \in [Layers -> Rasters(m)] /\ pic[l] = p /\ \A h \in Layers : h # l => pic[h] = k.pic[h]
  BY <1>4, <1>9, <1>13, <1>15
<1>17. PICK x : x = Repainted(n, pic, n.lift)
  OBVIOUS
<1>18. x \in Docs(m) /\ Redone(n, x) /\ x.made = m /\ x.pic = pic /\ x.lift = k.lift
  BY <1>9, <1>13, <1>16, <1>17, DocRepainted
<1>19. x = ApplyOp(n, e)
  <2>1. OnStack(n, l)
    BY <1>3, <1>9 DEF Redone, OnStack
  <2>2. ApplyOp(n, e) = [n EXCEPT !.pic[l] = Drawn(@, e)]
    BY <2>1, <1>11, <1>12 DEF ApplyOp
  <2>3. pic = [n.pic EXCEPT ![l] = Drawn(@, e)]
    BY <1>14, <1>15
  <2>4. x = [n EXCEPT !.pic = pic]
    BY <1>17, <1>9 DEF Repainted, Docs
  <2> QED
    BY <2>2, <2>3, <2>4
<1>20. s = Recorded(x, e)
  <2>1. d.author = NoAuthor /\ n = [k EXCEPT !.made = @ + 1]
    <3>1. d \in Docs(d.made)
      BY DEF Good, Sane
    <3> QED
      BY <3>1, <1>6, <1>8, DocFields DEF Numbered
  <2>2. e = [Blank EXCEPT !.kind = kind, !.layer = l, !.author = d.author, !.mark = d.made + 1]
    BY <2>1, <1>3, <1>6, <1>10 DEF MarkOf
  <2> QED
    BY <2>1, <2>2, <1>1, <1>19 DEF Perform
<1>21. Redone(k, x)
  BY <1>9, <1>18, RedoneOn
<1>23. ASSUME ~t, Pictured(k, g) PROVE x.pic[l] = Drawn(Ink(g, PathOf(k), l), e)
  <2>1. x.pic[l] = Drawn(k.pic[l], e)
    BY <1>9, <1>14, <1>16, <1>18
  <2>2. CASE kind = "clear"
    BY <2>1, <2>2, <1>11 DEF Drawn
  <2>3. CASE kind = "fill"
    <3>1. ~Carried(k) /\ ~Wet(k, l)
      BY <2>3, <1>2, <1>3 DEF Wet
    <3>2. k.pic[l] = Ink(g, PathOf(k), l)
      BY <3>1, <1>3, <1>23 DEF Pictured, Shows
    <3> QED
      BY <2>1, <3>2
  <2> QED
    BY <2>2, <2>3
<1>24. ASSUME l = k.active PROVE ~Carried(x)
  <2> SUFFICES ASSUME x.lift # 0 PROVE x.lift \notin ToSet(x.pic[x.active])
    BY DEF Carried
  <2>1. x.active = l /\ x.lift = k.lift /\ x.pic[l] = Drawn(k.pic[l], e)
    BY <1>9, <1>14, <1>16, <1>18, <1>21, <1>24 DEF Redone
  <2>2. k.lift # m
    BY <1>7
  <2>3. CASE kind = "clear"
    <3>1. x.pic[l] = <<m>>
      BY <2>1, <2>3, <1>11 DEF Drawn
    <3>2. ToSet(<<m>>) = {m}
      BY DEF ToSet
    <3> QED
      BY <3>1, <3>2, <2>1, <2>2
  <2>4. CASE kind = "fill"
    <3>1. x.pic[l] = Append(k.pic[l], m)
      BY <2>1, <2>4, <1>11 DEF Drawn
    <3>2. k.lift \notin ToSet(k.pic[l])
      BY <2>1, <2>4, <1>3, <1>24 DEF Carried
    <3>3. k.pic[l] \in Rasters(m)
      BY <1>4, <1>9, <1>13
    <3>s. PICK S : S = 1 .. m
      OBVIOUS
    <3>q. k.pic[l] \in Seq(S) /\ m \in S
      BY <3>3, <3>s, <1>7 DEF Rasters
    <3>4. \A v : v \in ToSet(Append(k.pic[l], m)) <=> v \in ToSet(k.pic[l]) \/ v = m
      BY <3>q, ToSetAppend
    <3> QED
      BY <3>1, <3>2, <3>4, <2>1, <2>2
  <2> QED
    BY <2>3, <2>4
<1>25. DrawnOn(k, x, s, g, t, m)
  <2>1. \A h \in Layers : h # l => x.pic[h] = k.pic[h]
    BY <1>16, <1>18
  <2> QED
    BY <2>1, <1>2, <1>3, <1>7, <1>11, <1>12, <1>18, <1>20, <1>21, <1>23, <1>24, DrawnGood
<1> QED
  BY <1>25 DEF DrawnOn

(* The invariant holds of a page that differs in its rasters as long as the*)
(* picture is argued anew.                                                 *)
LEMMA RedoneGood ==
  ASSUME NEW d, NEW g, NEW t, Good(d, g, t), NEW s, NEW m \in Nat, d.made <= m,
         s \in Docs(m), Redone(d, s), Bare(s), ~t /\ Pictured(d, g) => Pictured(s, g)
  PROVE  Good(s, g, t)
<1>1. Sane(s, g) /\ Worded(s)
  BY SaneRedone DEF Good
<1>2. s.book = d.book
  BY DEF Redone
<1> QED
  BY <1>1, <1>2 DEF Good

(* A raster with one mark more, whose number is the next one.              *)
NextMark(d, m) ==
  /\ m \in Nat /\ m = d.made + 1 /\ m \in 1 .. m /\ d.made <= m /\ d.lift # m /\ m # 0
  /\ Numbered(d, m) \in Docs(m) /\ Redone(d, Numbered(d, m))
  /\ Numbered(d, m).made = m /\ Numbered(d, m).pic = d.pic /\ Numbered(d, m).lift = d.lift
  /\ \A l \in Layers : /\ d.pic[l] \in Rasters(m) /\ Append(d.pic[l], m) \in Rasters(m)
                       /\ m \notin ToSet(d.pic[l])
                       /\ \A v : v \in ToSet(Append(d.pic[l], m)) <=> v \in ToSet(d.pic[l]) \/ v = m

(* The next number is on no raster and is not what is lifted.              *)
LEMMA NextMarkIs ==
  ASSUME NEW d, NEW g, Sane(d, g), NEW m, m = d.made + 1
  PROVE  NextMark(d, m)
<1>1. d.made \in Nat /\ d \in Docs(d.made) /\ d.lift \in 0 .. d.made /\ d.pic \in [Layers -> Rasters(d.made)]
  <2>1. d \in Docs(d.made)
    BY DEF Sane
  <2> QED
    BY <2>1, SaneLayers
<1>2. m \in Nat /\ m \in 1 .. m /\ d.made <= m /\ d.lift # m /\ m # 0
  BY <1>1
<1>3. /\ Numbered(d, m) \in Docs(m) /\ Redone(d, Numbered(d, m))
      /\ Numbered(d, m).made = m /\ Numbered(d, m).pic = d.pic /\ Numbered(d, m).lift = d.lift
  <2>1. PICK h \in Nat : h = d.made
    BY <1>1
  <2>2. m = h + 1 /\ d \in Docs(h)
    BY <1>1, <2>1
  <2> QED
    BY <2>1, <2>2, DocNumbered
<1>4. ASSUME NEW l \in Layers
      PROVE  /\ d.pic[l] \in Rasters(m) /\ Append(d.pic[l], m) \in Rasters(m)
             /\ m \notin ToSet(d.pic[l])
             /\ \A v : v \in ToSet(Append(d.pic[l], m)) <=> v \in ToSet(d.pic[l]) \/ v = m
  <2>1. PICK S : S = 1 .. m
    OBVIOUS
  <2>2. PICK R : R = 1 .. d.made
    OBVIOUS
  <2>3. d.pic[l] \in Seq(R) /\ d.pic[l] \in Rasters(d.made)
    BY <1>1, <2>2 DEF Rasters
  <2>4. d.pic[l] \in Rasters(m)
    BY <1>1, <1>2, <2>3, Grows
  <2>5. d.pic[l] \in Seq(S) /\ m \in S
    BY <1>2, <2>1, <2>4 DEF Rasters
  <2>6. Append(d.pic[l], m) \in Seq(S)
    BY <2>5, AppendIs
  <2>7. m \notin ToSet(d.pic[l])
    <3>1. m \notin R
      BY <1>1, <2>2
    <3> QED
      BY <3>1, <2>3, ToSetType
  <2>8. \A v : v \in ToSet(Append(d.pic[l], m)) <=> v \in ToSet(d.pic[l]) \/ v = m
    BY <2>5, ToSetAppend
  <2> QED
    BY <2>1, <2>4, <2>6, <2>7, <2>8 DEF Rasters
<1> QED
  BY <1>2, <1>3, <1>4 DEF NextMark

(* A paste floats.                                                         *)
LEMMA PasteGood ==
  ASSUME NEW d, NEW g, NEW t, Good(d, g, t), NEW s, s = PasteSelection(d)
  PROVE  Good(s, g, t)
<1>1. PICK k : k = DropSelection(d)
  OBVIOUS
<1>2. Good(k, g, t) /\ k.lift = 0 /\ k.made = d.made /\ Sane(k, g)
  <2>1. Good(k, g, t) /\ k.lift = 0 /\ k.made = d.made
    BY <1>1, DropGood
  <2> QED
    BY <2>1 DEF Good
<1>3. PICK m : m = k.made + 1
  OBVIOUS
<1>4. NextMark(k, m)
  BY <1>2, <1>3, NextMarkIs
<1>5. PICK n : n = Numbered(k, m)
  OBVIOUS
<1>6. n \in Docs(m) /\ Redone(k, n) /\ n.made = m /\ n.pic = k.pic /\ m \in Nat /\ k.made <= m /\ m \in 0 .. m
  BY <1>4, <1>5 DEF NextMark
<1>7. s = Repainted(n, n.pic, m)
  <2>1. s = [k EXCEPT !.lift = m, !.made = m]
    BY <1>1, <1>2, <1>3 DEF PasteSelection
  <2>2. k \in Docs(k.made)
    BY <1>2 DEF Sane
  <2> QED
    BY <2>1, <2>2, <1>5 DEF Numbered, Repainted, Docs
<1>8. s \in Docs(m) /\ Redone(n, s) /\ s.pic = k.pic /\ s.lift = m
  <2>1. n.pic \in [Layers -> Rasters(m)]
    BY <1>6, DocFields
  <2> QED
    BY <2>1, <1>6, <1>7, DocRepainted
<1>9. Redone(k, s)
  BY <1>6, <1>8, RedoneOn
<1>10. ASSUME ~t, Pictured(k, g) PROVE Pictured(s, g)
  <2>1. k.active \in Layers
    BY <1>2, SaneLayers
  <2>2. ~Carried(k) /\ ~Carried(s)
    BY <2>1, <1>2, <1>4, <1>8, <1>9 DEF Carried, NextMark, Redone
  <2>3. s.book = k.book /\ s.stack = k.stack /\ PathOf(s) = PathOf(k) /\ s.open = k.open
    BY <1>9 DEF Redone, PathOf
  <2>4. \A l \in LayersOf(s.stack) : Shows(s, g, l)
    BY <2>2, <2>3, <1>8, <1>10 DEF Pictured, Shows, Wet
  <2> QED
    BY <2>2, <2>3, <2>4, <1>10 DEF Pictured
<1> QED
  <2>1. s.stack = k.stack
    BY <1>9 DEF Redone
  <2>2. Bare(s)
    BY <2>1, <1>2, <1>8, BareAlike
  <2> QED
    BY <2>2, <1>2, <1>6, <1>8, <1>9, <1>10, RedoneGood

(* A carry leaves its hole, under the keyframe it needs above it.          *)
LEMMA LiftGood ==
  ASSUME NEW d, NEW g, NEW t, Good(d, g, t), d.lift = 0, NEW s, s = LiftForCarry(d)
  PROVE  Good(s, g, t)
<1>1. PICK k : k = KeyframeIfDue(d, d.active)
  OBVIOUS
<1>2. /\ Good(k, g, t) /\ k.open = <<>> /\ k.lift = 0 /\ k.made = d.made /\ Sane(k, g)
      /\ k.active = d.active /\ ~SnapshotDue(k, k.active)
  <2>1. Good(k, g, t) /\ k.open = <<>> /\ Same(d, k, g)
    BY <1>1, KeyframeGood
  <2>2. d.active \in LayersOf(d.stack)
    BY DEF Good, Sane
  <2>3. ~SnapshotDue(k, d.active)
    BY <1>1, <2>2, KeyframeGood
  <2> QED
    BY <2>1, <2>3 DEF Good, Same
<1>3. PICK m : m = k.made + 1
  OBVIOUS
<1>4. NextMark(k, m)
  BY <1>2, <1>3, NextMarkIs
<1>5. PICK n : n = Numbered(k, m)
  OBVIOUS
<1>6. n \in Docs(m) /\ Redone(k, n) /\ n.made = m /\ n.pic = k.pic /\ m \in Nat /\ k.made <= m /\ m \in 0 .. m /\ m # 0
  BY <1>4, <1>5 DEF NextMark
<1>7. PICK l \in Layers : l = k.active
  BY <1>2, SaneLayers
<1>8. PICK p \in Rasters(m) : p = Append(k.pic[l], m)
  BY <1>4 DEF NextMark
<1>9. PICK pic : pic = [k.pic EXCEPT ![l] = p]
  OBVIOUS
<1>10. pic \in [Layers -> Rasters(m)] /\ pic[l] = p /\ \A h \in Layers : h # l => pic[h] = k.pic[h]
  <2>1. n.pic \in [Layers -> Rasters(m)]
    BY <1>6, DocFields
  <2> QED
    BY <2>1, <1>6, <1>9
<1>11. s = Repainted(n, pic, m)
  <2>1. s = [k EXCEPT !.lift = m, !.made = m, !.pic[l] = Append(@, m)]
    BY <1>1, <1>2, <1>3, <1>7 DEF LiftForCarry
  <2>2. pic = [k.pic EXCEPT ![l] = Append(@, m)]
    BY <1>8, <1>9
  <2>3. k \in Docs(k.made)
    BY <1>2 DEF Sane
  <2>4. s = [k EXCEPT !.lift = m, !.made = m, !.pic = pic]
    BY <2>1, <2>2
  <2> QED
    BY <2>3, <2>4, <1>5 DEF Numbered, Repainted, Docs
<1>12. s \in Docs(m) /\ Redone(n, s) /\ s.pic = pic /\ s.lift = m
  BY <1>6, <1>10, <1>11, DocRepainted
<1>13. Redone(k, s)
  BY <1>6, <1>12, RedoneOn
<1>14. ASSUME ~t, Pictured(k, g) PROVE Pictured(s, g)
  <2>1. /\ s.book = k.book /\ s.stack = k.stack /\ PathOf(s) = PathOf(k) /\ s.open = <<>>
        /\ s.active = l /\ s.since = k.since
    BY <1>2, <1>7, <1>13 DEF Redone, PathOf
  <2>2. ~Carried(k) /\ \A h : ~Wet(k, h) /\ ~Wet(s, h)
    BY <2>1, <1>2 DEF Carried, Wet
  <2>3. Carried(s)
    BY <2>1, <1>4, <1>6, <1>8, <1>10, <1>12 DEF Carried, NextMark
  <2>4. \A h \in LayersOf(k.stack) : k.pic[h] = Ink(g, PathOf(k), h)
    BY <2>2, <1>14 DEF Pictured, Shows
  <2>5. LayersOf(k.stack) \subseteq Layers /\ l \in LayersOf(k.stack)
    BY <1>2, <1>7, SaneLayers DEF Sane
  <2>6. \A h \in LayersOf(s.stack) : Shows(s, g, h)
    <3> SUFFICES ASSUME NEW h \in LayersOf(k.stack) PROVE Shows(s, g, h)
      BY <2>1
    <3>1. CASE h = l
      BY <3>1, <2>1, <2>2, <2>3, <2>4, <1>8, <1>10, <1>12 DEF Shows
    <3>2. CASE h # l
      <4>1. s.pic[h] = k.pic[h]
        BY <3>2, <2>5, <1>10, <1>12
      <4> QED
        BY <3>2, <4>1, <2>1, <2>2, <2>4 DEF Shows
    <3> QED
      BY <3>1, <3>2
  <2>7. s.lift \notin ToSet(Ink(g, PathOf(s), s.active))
    BY <2>1, <2>4, <2>5, <1>4, <1>12 DEF NextMark
  <2>8. ~SnapshotDue(s, s.active)
    BY <2>1, <1>2, <1>7 DEF SnapshotDue
  <2> QED
    BY <2>1, <2>6, <2>7, <2>8, <1>14 DEF Pictured
<1> QED
  <2>1. s.stack = k.stack /\ l \in LayersOf(k.stack)
    BY <1>2, <1>7, <1>13 DEF Redone, Sane
  <2>2. Bare(s)
    BY <2>1, <1>2, <1>10, <1>12, StillBare
  <2> QED
    BY <2>2, <1>2, <1>6, <1>12, <1>13, <1>14, RedoneGood

----------------------------------------------------------------------------
(* Strokes, and the active layer.                                          *)

(* A sequence of one element is not empty.                                 *)
LEMMA OneIsSome ==
  ASSUME NEW S, NEW o \in Seq(S), Len(o) = 1
  PROVE  o # <<>>
OBVIOUS

Reopened(d, open) == [d EXCEPT !.open = open]

(* An open entry on the page: every other field stays.                     *)
LEMMA DocReopened ==
  ASSUME NEW m, NEW d \in Docs(m), NEW open \in Seq(Fields(m)), NEW s, s = Reopened(d, open)
  PROVE  /\ s \in Docs(m) /\ s.open = open /\ s.book = d.book /\ s.cursor = d.cursor
         /\ s.made = d.made /\ s.stack = d.stack /\ s.active = d.active /\ s.pic = d.pic
         /\ s.text = d.text /\ s.sel = d.sel /\ s.before = d.before /\ s.fresh = d.fresh
         /\ s.lift = d.lift /\ s.since = d.since
BY DEF Docs, Reopened

ReopenedIs(d, s, g, open) ==
  /\ Sane(s, g) /\ PathOf(s) = PathOf(d) /\ s.open = open /\ s.book = d.book
  /\ s.stack = d.stack /\ s.active = d.active /\ s.pic = d.pic /\ s.lift = d.lift
  /\ Worded(d) => Worded(s)

(* A page stays sane when an entry is opened on one of its layers.         *)
LEMMA SaneReopened ==
  ASSUME NEW d, NEW g, Sane(d, g), NEW open \in Seq(Fields(d.made)), Len(open) = 1, Open(d, open[1]),
         NEW s, s = Reopened(d, open)
  PROVE  ReopenedIs(d, s, g, open)
<1>1. /\ d.made \in Nat \ {0} /\ d \in Docs(d.made)
      /\ Tree(d.book) /\ d.cursor \in 0 .. Len(d.book)
      /\ Keyed(d.stack) /\ d.active \in LayersOf(d.stack)
      /\ d.sel # NoBox => d.text[d.sel] # NoText
      /\ g \in [pic : [Layers -> Rasters(d.made)], stack : Seq(Faces)] /\ Keyed(g.stack)
      /\ \A n \in DOMAIN d.book : d.book[n].layer # NoLayer => Known(d.book, g, d.book[n].layer)
      /\ \A l \in LayersOf(d.stack) : Known(d.book, g, l)
      /\ Returns(d)
  BY DEF Sane
<1>2. /\ s \in Docs(d.made) /\ s.open = open /\ s.book = d.book /\ s.cursor = d.cursor
      /\ s.made = d.made /\ s.stack = d.stack /\ s.active = d.active /\ s.pic = d.pic
      /\ s.text = d.text /\ s.sel = d.sel /\ s.before = d.before /\ s.fresh = d.fresh
      /\ s.lift = d.lift /\ s.since = d.since
  BY <1>1, DocReopened
<1>3. Open(s, s.open[1])
  BY <1>2 DEF Open
<1>4. Sane(s, g)
  <2>1. Returns(s)
    BY <1>1, <1>2 DEF Returns, Bare
  <2> QED
    BY <1>1, <1>2, <1>3, <2>1 DEF Sane
<1>5. PathOf(s) = PathOf(d)
  BY <1>2 DEF PathOf
<1>6. Worded(d) => Worded(s)
  BY <1>2, <1>5 DEF Worded, WordsOf
<1> QED
  BY <1>2, <1>4, <1>5, <1>6 DEF ReopenedIs

DabOf(l) == [Blank EXCEPT !.kind = "dab", !.layer = l, !.author = NoAuthor]

DabIs(m, l, e) ==
  /\ e \in Fields(m) /\ e.kind = "dab" /\ e.layer = l /\ e.mark = 0 /\ e.pic = NoPic
  /\ e.roster = <<>> /\ e.keyframe = FALSE

(* The fields of an entry a stroke opens.                                  *)
LEMMA DabFields ==
  ASSUME NEW m \in Nat, NEW l \in Layers, NEW e, e = DabOf(l)
  PROVE  DabIs(m, l, e)
<1>1. PICK b : b = Blank
  OBVIOUS
<1>2. BlankIs(m, b)
  BY <1>1, BlankHolds
<1>3. e = [b EXCEPT !.kind = "dab", !.layer = l, !.author = NoAuthor]
  BY <1>1 DEF DabOf
<1> QED
  BY <1>2, <1>3, ZenonT(60) DEF BlankIs, Fields, Kinds, DabIs

(* A stroke begins: a keyframe if one is due, and an open entry.           *)
LEMMA RememberGood ==
  ASSUME NEW d, NEW g, NEW t, Good(d, g, t), ~Carried(d), NEW s, s = RememberOp(d)
  PROVE  Good(s, g, t)
<1>1. PICK k : k = KeyframeIfDue(d, d.active)
  OBVIOUS
<1>2. Good(k, g, t) /\ k.open = <<>> /\ Same(d, k, g)
  BY <1>1, KeyframeGood
<1>3. /\ Sane(k, g) /\ Worded(k) /\ (~t /\ GroundedBook(k.book) => Pictured(k, g))
      /\ k.active = d.active /\ ~Carried(k)
  BY <1>2 DEF Good, Same, Carried
<1>4. /\ k.active \in LayersOf(k.stack) /\ k.active \in Layers /\ k.made \in Nat
  <2>1. k.active \in LayersOf(k.stack)
    BY <1>3 DEF Sane
  <2> QED
    BY <2>1, <1>3, SaneLayers
<1>5. PICK e : e = DabOf(d.active)
  OBVIOUS
<1>6. /\ e \in Fields(k.made) /\ e.kind = "dab" /\ e.layer = k.active /\ e.mark = 0 /\ e.pic = NoPic
      /\ e.roster = <<>> /\ e.keyframe = FALSE
  <2>1. e = DabOf(k.active)
    BY <1>3, <1>5
  <2>2. DabIs(k.made, k.active, e)
    BY <2>1, <1>4, DabFields
  <2> QED
    BY <2>2 DEF DabIs
<1>7. s = Reopened(k, <<e>>)
  <2>1. d.author = NoAuthor
    <3>1. d \in Docs(d.made)
      BY DEF Good, Sane
    <3> QED
      BY <3>1, DocFields
  <2> QED
    BY <2>1, <1>1, <1>5 DEF RememberOp, DabOf, Reopened
<1>8. PICK open : open = <<e>>
  OBVIOUS
<1>9. open \in Seq(Fields(k.made)) /\ Len(open) = 1 /\ open[1] = e
  BY <1>6, <1>8
<1>10. Open(k, open[1])
  BY <1>4, <1>6, <1>9 DEF Open
<1>11. /\ Sane(s, g) /\ PathOf(s) = PathOf(k) /\ s.open = open /\ s.book = k.book
       /\ s.stack = k.stack /\ s.active = k.active /\ s.pic = k.pic /\ s.lift = k.lift /\ Worded(s)
  <2>1. ReopenedIs(k, s, g, open)
    BY <1>3, <1>7, <1>8, <1>9, <1>10, SaneReopened
  <2> QED
    BY <2>1, <1>3 DEF ReopenedIs
<1>12. ASSUME ~t, GroundedBook(s.book) PROVE Pictured(s, g)
  <2>1. Pictured(k, g)
    BY <1>3, <1>11, <1>12
  <2>2. ~Carried(s) /\ \A l : ~Wet(s, l) /\ ~Wet(k, l)
    BY <1>2, <1>3, <1>6, <1>9, <1>11 DEF Carried, Wet
  <2>3. \A l \in LayersOf(s.stack) : Shows(s, g, l)
    BY <2>1, <2>2, <1>3, <1>11 DEF Pictured, Shows
  <2> QED
    BY <2>1, <2>2, <2>3, <1>11 DEF Pictured
<1> QED
  BY <1>11, <1>12 DEF Good

(* The first point of a stroke is its mark.                                *)
LEMMA StrokeGood ==
  ASSUME NEW d, NEW g, NEW t, Good(d, g, t), NEW s, s = StrokeTo(d)
  PROVE  Good(s, g, t)
<1>1. CASE d.open = <<>> \/ ~OnStack(d, d.open[1].layer) \/ d.open[1].mark # 0
  BY <1>1 DEF StrokeTo
<1>2. CASE ~(d.open = <<>> \/ ~OnStack(d, d.open[1].layer) \/ d.open[1].mark # 0)
  <2>0. /\ Sane(d, g) /\ Worded(d) /\ (~t /\ GroundedBook(d.book) => Pictured(d, g))
        /\ d \in Docs(d.made) /\ d.open # <<>> /\ Len(d.open) = 1 /\ Open(d, d.open[1])
    BY <1>2 DEF Good, Sane
  <2>1. PICK m : m = d.made + 1
    OBVIOUS
  <2>2. NextMark(d, m)
    BY <2>0, <2>1, NextMarkIs
  <2>3. PICK n : n = Numbered(d, m)
    OBVIOUS
  <2>4. /\ n \in Docs(m) /\ Redone(d, n) /\ n.made = m /\ n.pic = d.pic /\ n.lift = d.lift
        /\ m \in Nat /\ d.made <= m /\ m \in 0 .. m /\ m # 0 /\ d.lift # m
    BY <2>2, <2>3 DEF NextMark
  <2>5. PICK e : e = d.open[1]
    OBVIOUS
  <2>6. e.layer \in LayersOf(d.stack) /\ e.mark = 0
    BY <2>5, <1>2 DEF OnStack
  <2>7. PICK l \in Layers : l = e.layer
    BY <2>0, <2>6, SaneLayers
  <2>8. PICK p \in Rasters(m) : p = Append(d.pic[l], m)
    BY <2>2 DEF NextMark
  <2>9. PICK pic : pic = [d.pic EXCEPT ![l] = p]
    OBVIOUS
  <2>10. pic \in [Layers -> Rasters(m)] /\ pic[l] = p /\ \A h \in Layers : h # l => pic[h] = d.pic[h]
    <3>1. n.pic \in [Layers -> Rasters(m)]
      BY <2>4, DocFields
    <3> QED
      BY <3>1, <2>4, <2>9
  <2>11. PICK x : x = Repainted(n, pic, n.lift)
    OBVIOUS
  <2>12. x \in Docs(m) /\ Redone(d, x) /\ x.pic = pic /\ x.lift = d.lift /\ x.made = m
    <3>1. n.lift \in 0 .. m
      BY <2>4, DocFields
    <3>2. x \in Docs(m) /\ Redone(n, x) /\ x.pic = pic /\ x.lift = n.lift /\ x.made = n.made
      BY <3>1, <2>4, <2>10, <2>11, DocRepainted
    <3> QED
      BY <3>2, <2>4, RedoneOn
  <2>13. PICK open : open = [d.open EXCEPT ![1].mark = m]
    OBVIOUS
  <2>14. /\ open \in Seq(Fields(m)) /\ Len(open) = 1 /\ open[1].mark = m /\ open[1].layer = l
         /\ open[1].kind = e.kind /\ open[1].pic = e.pic /\ open[1].roster = e.roster
         /\ open[1].keyframe = e.keyframe
    <3>1. n.open = d.open /\ n.open \in Seq(Fields(m))
      BY <2>4, DocFields DEF Redone
    <3>2. e \in Fields(m)
      BY <3>1, <2>0, <2>5
    <3>3. PICK f : f = [e EXCEPT !.mark = m]
      OBVIOUS
    <3>4. /\ f \in Fields(m) /\ f.mark = m /\ f.layer = e.layer /\ f.kind = e.kind /\ f.pic = e.pic
          /\ f.roster = e.roster /\ f.keyframe = e.keyframe
      BY <3>2, <3>3, <2>4 DEF Fields
    <3>5. open = [d.open EXCEPT ![1] = f]
      BY <3>3, <2>5, <2>13
    <3>6. open \in Seq(Fields(m)) /\ Len(open) = 1 /\ open[1] = f
      BY <3>1, <3>4, <3>5, <2>0
    <3> QED
      BY <3>4, <3>6, <2>7
  <2>15. s = Reopened(x, open)
    <3>1. s = [d EXCEPT !.open[1].mark = m, !.made = m, !.pic[l] = Append(@, m)]
      BY <1>2, <2>1, <2>5, <2>7 DEF StrokeTo
    <3>2. s = [d EXCEPT !.open = open, !.made = m, !.pic = pic]
      BY <3>1, <2>8, <2>9, <2>13
    <3> QED
      BY <3>2, <2>0, <2>3, <2>11 DEF Numbered, Repainted, Reopened, Docs
  <2>16. Sane(x, g) /\ Worded(x) /\ PathOf(x) = PathOf(d)
    <3>1. x.stack = d.stack /\ l \in LayersOf(d.stack)
      BY <2>6, <2>7, <2>12 DEF Redone
    <3>2. Bare(x)
      BY <3>1, <2>0, <2>10, <2>12, StillBare
    <3> QED
      BY <3>2, <2>0, <2>4, <2>12, SaneRedone
  <2>17. Open(x, open[1])
    BY <2>0, <2>5, <2>6, <2>7, <2>12, <2>14 DEF Open, Redone
  <2>18. /\ Sane(s, g) /\ PathOf(s) = PathOf(x) /\ s.open = open /\ s.book = x.book
         /\ s.stack = x.stack /\ s.active = x.active /\ s.pic = x.pic /\ s.lift = x.lift /\ Worded(s)
    <3>1. ReopenedIs(x, s, g, open)
      BY <2>12, <2>14, <2>15, <2>16, <2>17, SaneReopened
    <3> QED
      BY <3>1, <2>16 DEF ReopenedIs
  <2>19. s.book = d.book /\ s.stack = d.stack /\ s.active = d.active /\ PathOf(s) = PathOf(d)
    BY <2>12, <2>16, <2>18 DEF Redone
  <2>20. ASSUME ~t, GroundedBook(s.book) PROVE Pictured(s, g)
    <3>1. Pictured(d, g)
      BY <2>0, <2>19, <2>20
    <3>2. ~Carried(d)
      BY <3>1, <2>0 DEF Pictured
    <3>3. ~Carried(s)
      <4> SUFFICES ASSUME d.lift # 0 PROVE d.lift \notin ToSet(pic[d.active])
        BY <2>12, <2>18, <2>19 DEF Carried
      <4>1. d.active \in Layers /\ d.lift \notin ToSet(d.pic[d.active])
        BY <3>2, <2>0, SaneLayers DEF Carried
      <4>2. CASE d.active = l
        BY <4>1, <4>2, <2>2, <2>8, <2>10 DEF NextMark
      <4>3. CASE d.active # l
        BY <4>1, <4>3, <2>10
      <4> QED
        BY <4>2, <4>3
    <3>4. \A h : ~Wet(d, h) /\ (Wet(s, h) <=> h = l)
      <4>1. s.open # <<>> /\ s.open[1].layer = l /\ s.open[1].mark # 0 /\ d.open[1].mark = 0
        <5>1. s.open # <<>>
          <6>1. PICK o \in Seq(Fields(m)) : o = open
            BY <2>14
          <6>2. Len(o) = 1
            BY <6>1, <2>14
          <6>3. o # <<>>
            BY <6>1, <6>2, OneIsSome
          <6> QED
            BY <6>1, <6>3, <2>18
        <5> QED
          BY <5>1, <2>4, <2>5, <2>6, <2>14, <2>18
      <4> QED
        BY <4>1 DEF Wet
    <3>5. LayersOf(d.stack) \subseteq Layers
      BY <2>0, SaneLayers
    <3>6. \A h \in LayersOf(s.stack) : Shows(s, g, h)
      <4> SUFFICES ASSUME NEW h \in LayersOf(d.stack) PROVE Shows(s, g, h)
        BY <2>19
      <4>1. d.pic[h] = Ink(g, PathOf(d), h)
        BY <3>1, <3>2, <3>4 DEF Pictured, Shows
      <4>2. CASE h = l
        BY <4>1, <4>2, <3>3, <3>4, <2>8, <2>10, <2>12, <2>14, <2>18, <2>19 DEF Shows
      <4>3. CASE h # l
        BY <4>1, <4>3, <3>3, <3>4, <3>5, <2>10, <2>12, <2>18, <2>19 DEF Shows
      <4> QED
        BY <4>2, <4>3
    <3> QED
      BY <3>1, <3>3, <3>6, <2>19 DEF Pictured
  <2> QED
    BY <2>18, <2>20 DEF Good
<1> QED
  BY <1>1, <1>2

(* Another active layer: every other field stays.                          *)
LEMMA DocActivated ==
  ASSUME NEW m, NEW d \in Docs(m), NEW l \in Layers, NEW s, s = [d EXCEPT !.active = l]
  PROVE  /\ s \in Docs(m) /\ s.active = l /\ s.open = d.open /\ s.book = d.book /\ s.cursor = d.cursor
         /\ s.made = d.made /\ s.stack = d.stack /\ s.pic = d.pic
         /\ s.text = d.text /\ s.sel = d.sel /\ s.before = d.before /\ s.fresh = d.fresh
         /\ s.lift = d.lift /\ s.since = d.since
BY DEF Docs

(* Another layer is chosen while nothing is lifted.                        *)
LEMMA ActivatedGood ==
  ASSUME NEW d, NEW g, NEW t, Good(d, g, t), d.lift = 0, NEW l \in LayersOf(d.stack),
         NEW s, s = [d EXCEPT !.active = l]
  PROVE  Good(s, g, t)
<1>0. /\ Sane(d, g) /\ Worded(d) /\ (~t /\ GroundedBook(d.book) => Pictured(d, g)) /\ l \in Layers
  BY SaneLayers DEF Good
<1>1. /\ d.made \in Nat \ {0} /\ d \in Docs(d.made)
      /\ Tree(d.book) /\ d.cursor \in 0 .. Len(d.book)
      /\ Keyed(d.stack)
      /\ d.open = <<>> \/ (Len(d.open) = 1 /\ Open(d, d.open[1]))
      /\ d.sel # NoBox => d.text[d.sel] # NoText
      /\ g \in [pic : [Layers -> Rasters(d.made)], stack : Seq(Faces)] /\ Keyed(g.stack)
      /\ \A n \in DOMAIN d.book : d.book[n].layer # NoLayer => Known(d.book, g, d.book[n].layer)
      /\ \A h \in LayersOf(d.stack) : Known(d.book, g, h)
      /\ Returns(d)
  BY <1>0 DEF Sane
<1>2. /\ s \in Docs(d.made) /\ s.active = l /\ s.open = d.open /\ s.book = d.book /\ s.cursor = d.cursor
      /\ s.made = d.made /\ s.stack = d.stack /\ s.pic = d.pic
      /\ s.text = d.text /\ s.sel = d.sel /\ s.before = d.before /\ s.fresh = d.fresh
      /\ s.lift = d.lift /\ s.since = d.since
  BY <1>0, <1>1, DocActivated
<1>3. s.open = <<>> \/ (Len(s.open) = 1 /\ Open(s, s.open[1]))
  BY <1>1, <1>2 DEF Open
<1>4. Sane(s, g)
  <2>1. Returns(s)
    BY <1>1, <1>2 DEF Returns, Bare
  <2> QED
    BY <1>1, <1>2, <1>3, <2>1 DEF Sane
<1>5. PathOf(s) = PathOf(d) /\ Worded(s)
  BY <1>0, <1>2 DEF PathOf, Worded, WordsOf
<1>6. ASSUME ~t, GroundedBook(s.book) PROVE Pictured(s, g)
  <2>1. Pictured(d, g) /\ ~Carried(d) /\ ~Carried(s)
    BY <1>0, <1>2, <1>6 DEF Carried
  <2>2. \A h \in LayersOf(s.stack) : Shows(s, g, h)
    BY <2>1, <1>2, <1>5 DEF Pictured, Shows, Wet
  <2> QED
    BY <2>1, <2>2, <1>2, <1>5 DEF Pictured
<1> QED
  BY <1>4, <1>5, <1>6 DEF Good

(* What is lifted goes down on the layer it was over, and then another     *)
(* layer is chosen (setActiveLayer).                                       *)
LEMMA SetActiveGood ==
  ASSUME NEW d, NEW g, NEW t, Good(d, g, t), NEW l \in LayersOf(d.stack), NEW s, s = SetActiveLayer(d, l)
  PROVE  Good(s, g, t)
<1>1. PICK k : k = DropSelection(d)
  OBVIOUS
<1>2. Good(k, g, t) /\ k.lift = 0 /\ Kept(d, k, g)
  BY <1>1, DropGood
<1>3. l \in LayersOf(k.stack) /\ s = [k EXCEPT !.active = l]
  BY <1>1, <1>2 DEF SetActiveLayer, Kept
<1> QED
  BY <1>2, <1>3, ActivatedGood

----------------------------------------------------------------------------
(* The stack stated.                                                       *)

(* The snapshots RecordStructure makes, one layer after the other.         *)
SnappedFcn(d) ==
  CHOOSE after : after = [i \in 0 .. Len(d.stack) |->
    IF i = 0 THEN SealOpenOp(d) ELSE AppendSnapshot(after[i - 1], d.stack[i].key)]

SnappedUpTo(d, k, after) == after = [i \in 0 .. k |->
    IF i = 0 THEN SealOpenOp(d) ELSE AppendSnapshot(after[i - 1], d.stack[i].key)]

SnappedIsSo(d, after) ==
  /\ RecordStructure(d) = KeyframeRoster(after[Len(d.stack)])
  /\ after[0] = SealOpenOp(d)
  /\ \A i \in 1 .. Len(d.stack) : after[i] = AppendSnapshot(after[i - 1], d.stack[i].key)

(* RecordStructure, one snapshot after the other.                          *)
LEMMA SnappedIs ==
  ASSUME NEW d, d.stack \in Seq(Faces)
  PROVE  SnappedIsSo(d, SnappedFcn(d))
<1>a. PICK n \in Nat : n = Len(d.stack)
  OBVIOUS
<1> DEFINE G == {k \in 0 .. n : \E f : SnappedUpTo(d, k, f)}
<1>1. 0 \in G
  <2>1. SnappedUpTo(d, 0, [i \in 0 .. 0 |-> SealOpenOp(d)])
    BY DEF SnappedUpTo
  <2> QED
    BY <2>1
<1>2. ASSUME NEW k \in 1 .. n, k - 1 \in G PROVE k \in G
  <2>1. PICK f : SnappedUpTo(d, k - 1, f)
    BY <1>2
  <2> DEFINE top == AppendSnapshot(f[k - 1], d.stack[k].key)
             h == [i \in 0 .. k |-> IF i = k THEN top ELSE f[i]]
  <2>2. \A i \in 0 .. k - 1 : h[i] = f[i]
    OBVIOUS
  <2>3. h[k] = top
    OBVIOUS
  <2> HIDE DEF h
  <2>5. \A i \in 0 .. k : h[i] = IF i = 0 THEN SealOpenOp(d)
             ELSE AppendSnapshot(h[i - 1], d.stack[i].key)
    <3> SUFFICES ASSUME NEW i \in 0 .. k
                 PROVE  h[i] = IF i = 0 THEN SealOpenOp(d)
                               ELSE AppendSnapshot(h[i - 1], d.stack[i].key)
      OBVIOUS
    <3>1. CASE i = k
      <4>1. i # 0 /\ h[i - 1] = f[k - 1]
        BY <3>1, <2>2
      <4> QED
        BY <3>1, <2>3, <4>1
    <3>2. CASE i # k
      <4>1. i \in 0 .. k - 1 /\ h[i] = f[i]
        BY <3>2, <2>2
      <4>2. f[i] = IF i = 0 THEN SealOpenOp(d) ELSE AppendSnapshot(f[i - 1], d.stack[i].key)
        BY <4>1, <2>1 DEF SnappedUpTo
      <4>3. i # 0 => h[i - 1] = f[i - 1]
        BY <4>1, <2>2
      <4> QED
        BY <4>1, <4>2, <4>3
    <3> QED
      BY <3>1, <3>2
  <2>6. SnappedUpTo(d, k, h)
    BY <2>5 DEF SnappedUpTo, h
  <2> QED
    BY <2>6
<1>3. n \in G
  <2> HIDE DEF G
  <2>2. \A i \in 0 .. n : i \in G
    BY <1>1, <1>2, <1>a, CountUp
  <2> QED
    BY <1>a, <2>2
<1>4. SnappedUpTo(d, n, SnappedFcn(d))
  BY <1>3, <1>a DEF SnappedUpTo, SnappedFcn
<1>6. \A i \in 0 .. n : SnappedFcn(d)[i] =
        IF i = 0 THEN SealOpenOp(d) ELSE AppendSnapshot(SnappedFcn(d)[i - 1], d.stack[i].key)
  BY <1>4 DEF SnappedUpTo
<1>7. RecordStructure(d) = KeyframeRoster(SnappedFcn(d)[Len(d.stack)])
  BY DEF RecordStructure, SnappedFcn
<1>8. PICK after : after = SnappedFcn(d)
  OBVIOUS
<1>9. after[0] = SealOpenOp(d)
  BY <1>6, <1>8, <1>a
<1>10. \A i \in 1 .. n : after[i] = AppendSnapshot(after[i - 1], d.stack[i].key)
  BY <1>6, <1>8, <1>a
<1> QED
  BY <1>7, <1>8, <1>9, <1>10, <1>a DEF SnappedIsSo

(* The entries that state a stack: as it is, as it becomes, and as it      *)
(* becomes with a composite.                                               *)
StackAsIs(roster)        == [Blank EXCEPT !.kind = "layers", !.author = NoAuthor, !.roster = roster,
                                          !.keyframe = TRUE]
StackAnew(roster)        == [Blank EXCEPT !.kind = "layers", !.author = NoAuthor, !.roster = roster]
StackMerged(roster, l, p) == [Blank EXCEPT !.kind = "layers", !.author = NoAuthor, !.roster = roster,
                                           !.layer = l, !.pic = p]

RosterIs(m, roster, keyframe, layer, pic, e) ==
  /\ e \in Entries(m) /\ e.kind = "layers" /\ e.layer = layer /\ e.pic = pic
  /\ e.roster = roster /\ e.keyframe = keyframe
  /\ Structural(e) /\ (Marks(e) <=> ~keyframe) /\ (Keyframes(e) <=> pic # NoPic)

(* The entry that states the stack as it is keys no raster and is no mark. *)
LEMMA AsIsFields ==
  ASSUME NEW m \in Nat, NEW roster \in Seq(Faces), Keyed(roster)
  PROVE  RosterIs(m, roster, TRUE, NoLayer, NoPic, StackAsIs(roster))
<1>1. PICK b : b = Blank
  OBVIOUS
<1>2. BlankIs(m, b)
  BY <1>1, BlankHolds
<1>3. PICK e : e = [b EXCEPT !.kind = "layers", !.author = NoAuthor, !.roster = roster,
                             !.keyframe = TRUE]
  OBVIOUS
<1>4. /\ e \in Fields(m) /\ e.kind = "layers" /\ e.layer = NoLayer /\ e.pic = NoPic
      /\ e.roster = roster /\ e.keyframe = TRUE
  BY <1>2, <1>3, ZenonT(60) DEF BlankIs, Fields, Kinds
<1>5. e = StackAsIs(roster)
  BY <1>1, <1>3 DEF StackAsIs
<1>6. e \in Entries(m)
  BY <1>4 DEF Entries, Formed
<1> QED
  BY <1>4, <1>5, <1>6 DEF RosterIs, Structural, Marks, Keyframes, Retraction

(* The entry that states a new stack is a mark.                            *)
LEMMA AnewFields ==
  ASSUME NEW m \in Nat, NEW roster \in Seq(Faces), Keyed(roster)
  PROVE  RosterIs(m, roster, FALSE, NoLayer, NoPic, StackAnew(roster))
<1>1. PICK b : b = Blank
  OBVIOUS
<1>2. BlankIs(m, b)
  BY <1>1, BlankHolds
<1>3. PICK e : e = [b EXCEPT !.kind = "layers", !.author = NoAuthor, !.roster = roster]
  OBVIOUS
<1>4. /\ e \in Fields(m) /\ e.kind = "layers" /\ e.layer = NoLayer /\ e.pic = NoPic
      /\ e.roster = roster /\ e.keyframe = FALSE
  BY <1>2, <1>3, ZenonT(60) DEF BlankIs, Fields, Kinds
<1>5. e = StackAnew(roster)
  BY <1>1, <1>3 DEF StackAnew
<1>6. e \in Entries(m)
  BY <1>4 DEF Entries, Formed
<1> QED
  BY <1>4, <1>5, <1>6 DEF RosterIs, Structural, Marks, Keyframes, Retraction

(* The entry that states a stack with a composite is a mark and a keyframe *)
(* of the layer kept.                                                      *)
LEMMA MergedFields ==
  ASSUME NEW m \in Nat, NEW roster \in Seq(Faces), Keyed(roster), NEW l \in Layers, NEW p \in Rasters(m)
  PROVE  RosterIs(m, roster, FALSE, l, p, StackMerged(roster, l, p)) /\ p # NoPic
<1>1. PICK b : b = Blank
  OBVIOUS
<1>2. BlankIs(m, b)
  BY <1>1, BlankHolds
<1>3. PICK e : e = [b EXCEPT !.kind = "layers", !.author = NoAuthor, !.roster = roster,
                             !.layer = l, !.pic = p]
  OBVIOUS
<1>4. /\ e \in Fields(m) /\ e.kind = "layers" /\ e.layer = l /\ e.pic = p
      /\ e.roster = roster /\ e.keyframe = FALSE
  BY <1>2, <1>3, ZenonT(60) DEF BlankIs, Fields, Kinds
<1>5. e = StackMerged(roster, l, p)
  BY <1>1, <1>3 DEF StackMerged
<1>6. p # NoPic /\ l # NoLayer
  BY NoNameAssumption DEF Rasters
<1>7. e \in Entries(m)
  BY <1>4, <1>6 DEF Entries, Formed
<1> QED
  BY <1>4, <1>5, <1>6, <1>7 DEF RosterIs, Structural, Marks, Keyframes, Retraction

(* The stack as the page has it, stated on the path.                       *)
LEMMA KeyframeRosterGood ==
  ASSUME NEW d, NEW g, NEW t, Good(d, g, t), NEW s, s = KeyframeRoster(d)
  PROVE  /\ Good(s, g, t) /\ Same(d, s, g) /\ Further(d, s) /\ s.open = d.open
         /\ Restates(PathOf(s)) # {}
<1>0. Sane(d, g) /\ Worded(d) /\ (~t /\ GroundedBook(d.book) => Pictured(d, g))
  BY DEF Good
<1>1. /\ d.stack \in Seq(Faces) /\ d.made \in Nat /\ LayersOf(d.stack) \subseteq Layers
      /\ d.active \in Layers
  BY <1>0, SaneLayers
<1>2. Keyed(d.stack) /\ d \in Docs(d.made) /\ \A l \in LayersOf(d.stack) : Known(d.book, g, l)
  BY <1>0 DEF Sane
<1>3. PICK e : e = StackAsIs(d.stack)
  OBVIOUS
<1>4. RosterIs(d.made, d.stack, TRUE, NoLayer, NoPic, e)
  BY <1>1, <1>2, <1>3, AsIsFields
<1>5. /\ e \in Entries(d.made) /\ e.kind = "layers" /\ e.layer = NoLayer /\ e.pic = NoPic
      /\ e.roster = d.stack /\ e.keyframe = TRUE /\ Structural(e) /\ ~Marks(e) /\ ~Keyframes(e)
  BY <1>4 DEF RosterIs
<1>6. s = Recorded(d, e)
  <2>1. d.author = NoAuthor
    BY <1>2, DocFields
  <2>2. e = [RosterNow(d) EXCEPT !.keyframe = TRUE]
    BY <2>1, <1>3 DEF StackAsIs, RosterNow
  <2> QED
    BY <2>2 DEF KeyframeRoster
<1>7. Entered(d, e, s)
  BY <1>0, <1>5, <1>6, RecordedEnters
<1>8. Sane(s, g) /\ \A l : Known(s.book, g, l) => Known(d.book, g, l)
  BY <1>0, <1>2, <1>5, <1>7, RecordSane
<1>9. Worded(s) /\ \A b \in Boxes : TextOf(PathOf(s), Boxes)[b] = TextOf(PathOf(d), Boxes)[b]
  BY <1>0, <1>5, <1>7, RecordWorded
<1>10. /\ s.made = d.made /\ s.stack = d.stack /\ s.active = d.active /\ s.pic = d.pic
       /\ s.text = d.text /\ s.sel = d.sel /\ s.before = d.before /\ s.fresh = d.fresh
       /\ s.lift = d.lift /\ s.open = d.open
       /\ \A l \in Layers : s.since[l] = d.since[l]
  BY <1>5, <1>7, NoNameAssumption DEF Entered
<1>11. Same(d, s, g)
  BY <1>8, <1>9, <1>10 DEF Same
<1>12. Reads(d, e, s, g)
  BY <1>0, <1>5, <1>7, RecordReads
<1>13. Further(d, s) /\ Restates(PathOf(s)) # {}
  BY <1>5, <1>12 DEF Reads, Further
<1>14. ASSUME ~t, GroundedBook(s.book) PROVE Pictured(s, g)
  <2>1. Pictured(d, g)
    BY <1>0, <1>13, <1>14 DEF Further
  <2>2. \A l : Ink(g, PathOf(s), l) = Ink(g, PathOf(d), l)
    BY <1>5, <1>12 DEF Reads
  <2>3. Carried(s) = Carried(d) /\ \A l : Wet(s, l) = Wet(d, l)
    BY <1>10 DEF Carried, Wet
  <2>4. \A l \in LayersOf(s.stack) : Shows(s, g, l)
    BY <2>1, <2>2, <2>3, <1>10 DEF Pictured, Shows
  <2>5. s.stack = RosterOf(PathOf(s), g.stack)
    BY <1>5, <1>10, <1>12 DEF Reads
  <2>6. TruthOf(e, PathOf(d), g)
    BY <2>1, <1>5 DEF TruthOf, Pictured
  <2>7. \A n \in DOMAIN s.book : Truthful(s.book, g, n)
    BY <2>1, <2>6, <1>12 DEF Reads, Pictured
  <2>8. SnapshotDue(s, s.active) = SnapshotDue(d, d.active)
    BY <1>1, <1>10 DEF SnapshotDue
  <2> QED
    BY <2>1, <2>2, <2>3, <2>4, <2>5, <2>7, <2>8, <1>10 DEF Pictured
<1> QED
  BY <1>8, <1>9, <1>10, <1>11, <1>13, <1>14 DEF Good

(* A keyframe of every layer and of the stack, before the stack changes.   *)
LEMMA StructureGood ==
  ASSUME NEW d, NEW g, NEW t, Good(d, g, t), d.lift = 0, NEW s, s = RecordStructure(d)
  PROVE  /\ Good(s, g, t) /\ Same(d, s, g) /\ Further(d, s) /\ s.open = <<>>
         /\ Restates(PathOf(s)) # {}
         /\ \A l \in LayersOf(s.stack) : KeyframedOn(PathOf(s), l)
<1>1. d.stack \in Seq(Faces)
  BY SaneLayers DEF Good
<1>2. PICK after : after = SnappedFcn(d)
  OBVIOUS
<1>3. PICK n \in Nat : n = Len(d.stack)
  BY <1>1
<1>4. /\ s = KeyframeRoster(after[n]) /\ after[0] = SealOpenOp(d)
      /\ \A i \in 1 .. n : after[i] = AppendSnapshot(after[i - 1], d.stack[i].key)
  <2>1. SnappedIsSo(d, after)
    BY <1>1, <1>2, SnappedIs
  <2> QED
    BY <2>1, <1>3 DEF SnappedIsSo
<1> DEFINE Fine(i) == /\ Good(after[i], g, t) /\ after[i].open = <<>> /\ Same(d, after[i], g)
                      /\ Further(d, after[i])
                      /\ \A j \in 1 .. i : KeyframedOn(PathOf(after[i]), d.stack[j].key)
           G == {i \in 0 .. n : Fine(i)}
<1>5. Fine(0)
  <2>1. Good(after[0], g, t) /\ after[0].open = <<>> /\ Same(d, after[0], g)
    BY <1>4, SealGood
  <2>2. Further(d, after[0])
    BY <1>4, SealFurther DEF Good
  <2> QED
    BY <2>1, <2>2
<1>6. ASSUME NEW i \in 1 .. n, Fine(i - 1) PROVE Fine(i)
  <2>1. PICK a : a = after[i - 1]
    OBVIOUS
  <2>2. PICK l : l = d.stack[i].key
    OBVIOUS
  <2>3. Good(a, g, t) /\ a.open = <<>> /\ Same(d, a, g) /\ Further(d, a) /\ ~Carried(a)
    BY <1>6, <2>1 DEF Same, Carried
  <2>4. l \in LayersOf(a.stack)
    <3>1. i \in DOMAIN d.stack
      BY <1>1, <1>3
    <3> QED
      BY <3>1, <2>2, <2>3 DEF LayersOf, Same
  <2>5. PICK z : z = AppendSnapshot(a, l)
    OBVIOUS
  <2>6. after[i] = z
    BY <1>4, <2>1, <2>2, <2>5
  <2>7. /\ Good(z, g, t) /\ z.open = <<>> /\ Same(a, z, g) /\ Further(a, z)
        /\ KeyframedOn(PathOf(z), l)
    BY <2>3, <2>4, <2>5, SnapGood
  <2>8. Same(d, z, g) /\ Further(d, z)
    BY <2>3, <2>7, SameOn, FurtherOn
  <2>9. \A j \in 1 .. i : KeyframedOn(PathOf(z), d.stack[j].key)
    <3> SUFFICES ASSUME NEW j \in 1 .. i PROVE KeyframedOn(PathOf(z), d.stack[j].key)
      OBVIOUS
    <3>1. CASE j = i
      BY <3>1, <2>2, <2>7
    <3>2. CASE j # i
      <4>1. j \in 1 .. i - 1
        BY <3>2
      <4>2. KeyframedOn(PathOf(a), d.stack[j].key)
        BY <4>1, <1>6, <2>1
      <4> QED
        BY <4>2, <2>7 DEF Further
    <3> QED
      BY <3>1, <3>2
  <2> QED
    BY <2>6, <2>7, <2>8, <2>9
<1>7. Fine(n)
  <2>1. 0 \in G
    BY <1>5
  <2>2. \A i \in 1 .. n : i - 1 \in G => i \in G
    BY <1>6
  <2>3. n \in G
    <3> HIDE DEF G
    <3>1. \A i \in 0 .. n : i \in G
      BY <2>1, <2>2, CountUp
    <3> QED
      BY <3>1
  <2> QED
    BY <2>3
<1> HIDE DEF G
<1>8. PICK a : a = after[n]
  OBVIOUS
<1>9. /\ Good(a, g, t) /\ a.open = <<>> /\ Same(d, a, g) /\ Further(d, a)
      /\ \A j \in 1 .. n : KeyframedOn(PathOf(a), d.stack[j].key)
  BY <1>7, <1>8
<1>10. /\ Good(s, g, t) /\ Same(a, s, g) /\ Further(a, s) /\ s.open = <<>> /\ Restates(PathOf(s)) # {}
  BY <1>4, <1>8, <1>9, KeyframeRosterGood
<1>11. Same(d, s, g) /\ Further(d, s)
  BY <1>9, <1>10, SameOn, FurtherOn
<1>12. \A l \in LayersOf(s.stack) : KeyframedOn(PathOf(s), l)
  <2> SUFFICES ASSUME NEW l \in LayersOf(d.stack) PROVE KeyframedOn(PathOf(s), l)
    BY <1>11 DEF Same
  <2>1. PICK j \in 1 .. n : l = d.stack[j].key
    BY <1>1, <1>3 DEF LayersOf
  <2> QED
    BY <2>1, <1>9, <1>10 DEF Further
<1> QED
  BY <1>10, <1>11, <1>12

----------------------------------------------------------------------------
(* The stack changed.                                                      *)

(* The layers of a stack after one is taken out, one put in.               *)
LEMMA CutLayers ==
  ASSUME NEW q \in Seq(Faces), Keyed(q), NEW n \in Nat, Len(q) = n, n >= 2, NEW k \in 1 .. n,
         NEW r, Cut(Faces, q, n, k, r)
  PROVE  r \in Seq(Faces) /\ Len(r) = n - 1 /\ Keyed(r)
         /\ LayersOf(r) = LayersOf(q) \ {q[k].key}
<1>1. r \in Seq(Faces) /\ Len(r) = n - 1 /\ DOMAIN r = 1 .. n - 1 /\ DOMAIN q = 1 .. n
  BY DEF Cut
<1>2. r # <<>>
  BY <1>1
<1>3. ASSUME NEW i \in 1 .. n - 1
      PROVE  /\ i < k => i \in 1 .. n /\ r[i] = q[i]
             /\ ~(i < k) => i + 1 \in 1 .. n /\ r[i] = q[i + 1]
  BY DEF Cut
<1>4. ASSUME NEW i \in 1 .. n - 1, NEW j \in 1 .. n - 1, r[i].key = r[j].key PROVE i = j
  <2>1. PICK x \in 1 .. n : r[i] = q[x] /\ x = IF i < k THEN i ELSE i + 1
    BY <1>3
  <2>2. PICK y \in 1 .. n : r[j] = q[y] /\ y = IF j < k THEN j ELSE j + 1
    BY <1>3
  <2>3. x = y
    BY <2>1, <2>2, <1>1, <1>4 DEF Keyed
  <2> QED
    BY <2>1, <2>2, <2>3
<1>5. Keyed(r)
  BY <1>1, <1>2, <1>4 DEF Keyed
<1>6. ASSUME NEW l \in LayersOf(r) PROVE l \in LayersOf(q) \ {q[k].key}
  <2>1. PICK i \in 1 .. n - 1 : l = r[i].key
    BY <1>1 DEF LayersOf
  <2>2. PICK x \in 1 .. n : r[i] = q[x] /\ x # k
    BY <1>3
  <2>3. q[x].key # q[k].key
    BY <2>2, <1>1 DEF Keyed
  <2> QED
    BY <2>1, <2>2, <2>3, <1>1 DEF LayersOf
<1>7. ASSUME NEW l \in LayersOf(q) \ {q[k].key} PROVE l \in LayersOf(r)
  <2>1. PICK x \in 1 .. n : l = q[x].key
    BY <1>1 DEF LayersOf
  <2>2. x # k
    BY <2>1
  <2>3. PICK i \in 1 .. n - 1 : i = IF x < k THEN x ELSE x - 1
    BY <2>2
  <2>4. r[i] = q[x]
    BY <2>2, <2>3, <1>3
  <2> QED
    BY <2>1, <2>4, <1>1 DEF LayersOf
<1> QED
  BY <1>1, <1>5, <1>6, <1>7

(* The layers of a stack with one more.                                    *)
LEMMA PutLayers ==
  ASSUME NEW q \in Seq(Faces), Keyed(q), NEW n \in Nat, Len(q) = n, NEW k \in 1 .. n + 1,
         NEW e \in Faces, e.key \notin LayersOf(q), NEW r, Put(Faces, q, n, k, e, r)
  PROVE  r \in Seq(Faces) /\ Keyed(r) /\ LayersOf(r) = LayersOf(q) \cup {e.key}
<1>1. r \in Seq(Faces) /\ Len(r) = n + 1 /\ DOMAIN r = 1 .. n + 1 /\ DOMAIN q = 1 .. n
  BY DEF Put
<1>2. r # <<>>
  BY <1>1
<1>3. ASSUME NEW i \in 1 .. n + 1
      PROVE  /\ i < k => i \in 1 .. n /\ r[i] = q[i]
             /\ i = k => r[i] = e
             /\ i > k => i - 1 \in 1 .. n /\ r[i] = q[i - 1]
  BY DEF Put
<1>4. \A x \in 1 .. n : q[x].key # e.key
  BY <1>1 DEF LayersOf
<1>5. ASSUME NEW i \in 1 .. n + 1, NEW j \in 1 .. n + 1, r[i].key = r[j].key PROVE i = j
  <2>1. CASE i = k /\ j = k
    BY <2>1
  <2>2. CASE i = k /\ j # k
    <3>1. PICK y \in 1 .. n : r[j] = q[y]
      BY <2>2, <1>3
    <3> QED
      BY <3>1, <2>2, <1>3, <1>4, <1>5
  <2>3. CASE i # k /\ j = k
    <3>1. PICK y \in 1 .. n : r[i] = q[y]
      BY <2>3, <1>3
    <3> QED
      BY <3>1, <2>3, <1>3, <1>4, <1>5
  <2>4. CASE i # k /\ j # k
    <3>1. PICK x \in 1 .. n : r[i] = q[x] /\ x = IF i < k THEN i ELSE i - 1
      BY <2>4, <1>3
    <3>2. PICK y \in 1 .. n : r[j] = q[y] /\ y = IF j < k THEN j ELSE j - 1
      BY <2>4, <1>3
    <3>3. x = y
      BY <3>1, <3>2, <1>1, <1>5 DEF Keyed
    <3> QED
      BY <3>1, <3>2, <3>3, <2>4
  <2> QED
    BY <2>1, <2>2, <2>3, <2>4
<1>6. Keyed(r)
  BY <1>1, <1>2, <1>5 DEF Keyed
<1>7. ASSUME NEW l \in LayersOf(r) PROVE l \in LayersOf(q) \cup {e.key}
  <2>1. PICK i \in 1 .. n + 1 : l = r[i].key
    BY <1>1 DEF LayersOf
  <2>2. r[i] = e \/ \E x \in 1 .. n : r[i] = q[x]
    BY <1>3
  <2> QED
    BY <2>1, <2>2, <1>1 DEF LayersOf
<1>8. ASSUME NEW l \in LayersOf(q) \cup {e.key} PROVE l \in LayersOf(r)
  <2>1. CASE l = e.key
    <3>1. k \in 1 .. n + 1 /\ r[k] = e
      BY <1>3
    <3> QED
      BY <2>1, <3>1, <1>1 DEF LayersOf
  <2>2. CASE l # e.key
    <3>1. PICK x \in 1 .. n : l = q[x].key
      BY <2>2, <1>1 DEF LayersOf
    <3>2. PICK i \in 1 .. n + 1 : i = IF x < k THEN x ELSE x + 1
      OBVIOUS
    <3>3. r[i] = q[x]
      BY <3>2, <1>3
    <3> QED
      BY <3>1, <3>3, <1>1 DEF LayersOf
  <2> QED
    BY <2>1, <2>2
<1> QED
  BY <1>1, <1>6, <1>7, <1>8

(* A stack without one of its layers.                                      *)
LEMMA WithoutIs ==
  ASSUME NEW q \in Seq(Faces), Keyed(q), Len(q) >= 2, NEW l \in LayersOf(q),
         NEW r, r = WithoutLayer(q, l)
  PROVE  r \in Seq(Faces) /\ Keyed(r) /\ LayersOf(r) = LayersOf(q) \ {l}
<1>1. PICK n \in Nat : n = Len(q)
  OBVIOUS
<1>2. PICK k : k = CHOOSE i \in DOMAIN q : q[i].key = l
  OBVIOUS
<1>3. \E i \in DOMAIN q : q[i].key = l
  BY DEF LayersOf
<1>4. k \in DOMAIN q /\ q[k].key = l
  BY <1>2, <1>3
<1>5. k \in 1 .. n
  BY <1>1, <1>4
<1>6. r = RemoveAt(q, k)
  BY <1>2 DEF WithoutLayer
<1>7. Cut(Faces, q, n, k, r)
  BY <1>1, <1>5, <1>6, RemoveAtIs
<1> QED
  BY <1>1, <1>4, <1>5, <1>7, CutLayers

(* Where a stack holds a layer (layerManager.indexOf).                     *)
HeldAt(q, a) == CHOOSE i \in DOMAIN q : q[i].key = a

(* A stack with one more layer.                                            *)
LEMMA WithIs ==
  ASSUME NEW q \in Seq(Faces), Keyed(q), NEW a \in LayersOf(q), NEW l \in Layers, l \notin LayersOf(q),
         NEW r, r = InsertAt(q, HeldAt(q, a) + 1, [key |-> l, face |-> 0])
  PROVE  r \in Seq(Faces) /\ Keyed(r) /\ LayersOf(r) = LayersOf(q) \cup {l}
<1>1. PICK n \in Nat : n = Len(q)
  OBVIOUS
<1>2. PICK i : i = HeldAt(q, a)
  OBVIOUS
<1>3. \E j \in DOMAIN q : q[j].key = a
  BY DEF LayersOf
<1>4. i \in DOMAIN q
  BY <1>2, <1>3 DEF HeldAt
<1>5. PICK k \in 1 .. n + 1 : k = i + 1
  BY <1>1, <1>4
<1>6. PICK e \in Faces : e = [key |-> l, face |-> 0]
  BY DEF Faces
<1>7. r = InsertAt(q, k, e) /\ e.key = l
  BY <1>2, <1>5, <1>6
<1>8. Put(Faces, q, n, k, e, r)
  BY <1>1, <1>7, InsertAtIs
<1>9. /\ Len(q) = n
      /\ e.key \notin LayersOf(q)
      /\ n \in Nat
      /\ k \in 1 .. n + 1
      /\ e \in Faces
      /\ q \in Seq(Faces)
      /\ Keyed(q)
  BY <1>1, <1>7
<1>10. r \in Seq(Faces) /\ Keyed(r) /\ LayersOf(r) = LayersOf(q) \cup {e.key}
  BY <1>8, <1>9, PutLayers
<1> QED
  BY <1>7, <1>10

(* A stack with a layer moved up.                                          *)
LEMMA MovedIs ==
  ASSUME NEW q \in Seq(Faces), Keyed(q), NEW i \in DOMAIN q, NEW j \in DOMAIN q, i < j,
         NEW r, r = InsertAt(RemoveAt(q, i), j, q[i])
  PROVE  r \in Seq(Faces) /\ Keyed(r) /\ LayersOf(r) = LayersOf(q)
<1>1. PICK n \in Nat : n = Len(q)
  OBVIOUS
<1>2. i \in 1 .. n /\ j \in 1 .. n /\ n >= 2
  BY <1>1
<1>3. PICK c : c = RemoveAt(q, i)
  OBVIOUS
<1>4. Cut(Faces, q, n, i, c)
  BY <1>1, <1>2, <1>3, RemoveAtIs
<1>5. c \in Seq(Faces) /\ Len(c) = n - 1 /\ Keyed(c) /\ LayersOf(c) = LayersOf(q) \ {q[i].key}
  BY <1>1, <1>2, <1>4, CutLayers
<1>6. PICK k \in Nat : k = n - 1
  BY <1>2
<1>7. PICK e \in Faces : e = q[i]
  OBVIOUS
<1>8. Len(c) = k /\ j \in 1 .. k + 1 /\ r = InsertAt(c, j, e)
  BY <1>2, <1>3, <1>5, <1>6, <1>7
<1>9. Put(Faces, c, k, j, e, r)
  BY <1>5, <1>8, InsertAtIs
<1>10. e.key \notin LayersOf(c)
  BY <1>5, <1>7
<1>11. r \in Seq(Faces) /\ Keyed(r) /\ LayersOf(r) = LayersOf(c) \cup {e.key}
  BY <1>5, <1>8, <1>9, <1>10, PutLayers
<1>12. q[i].key \in LayersOf(q)
  BY DEF LayersOf
<1> QED
  BY <1>5, <1>7, <1>11, <1>12

(* A stack with one of its faces changed.                                  *)
LEMMA FacedIs ==
  ASSUME NEW q \in Seq(Faces), Keyed(q), NEW i \in DOMAIN q,
         NEW r, r = [q EXCEPT ![i].face = 1 - @]
  PROVE  r \in Seq(Faces) /\ Keyed(r) /\ LayersOf(r) = LayersOf(q)
<1>0. PICK h \in Faces : h = q[i]
  OBVIOUS
<1>1. PICK f : f = [h EXCEPT !.face = 1 - @]
  OBVIOUS
<1>2. f \in Faces /\ f.key = q[i].key
  BY <1>0, <1>1 DEF Faces
<1>3. r = [q EXCEPT ![i] = f]
  BY <1>0, <1>1
<1>4. r \in Seq(Faces) /\ DOMAIN r = DOMAIN q /\ Len(r) = Len(q)
  BY <1>2, <1>3
<1>5. \A j \in DOMAIN q : r[j].key = q[j].key
  BY <1>2, <1>3
<1>6. r # <<>>
  BY <1>4 DEF Keyed
<1> QED
  BY <1>4, <1>5, <1>6 DEF Keyed, LayersOf

(* A layer that nothing on the path is about has the raster it had before. *)
LEMMA LaidNone ==
  ASSUME NEW E, NEW path \in Seq(E), NEW l, NEW before, \A i \in 1 .. Len(path) : path[i].layer # l
  PROVE  Laid(path, l, before) = before
<1>1. PICK pic : pic = LaidFcn(path, l, before)
  OBVIOUS
<1>2. LaidIsSo(path, l, before, pic)
  BY <1>1, LaidIs
<1>3. PICK n \in Nat : n = Len(path)
  OBVIOUS
<1>4. /\ Laid(path, l, before) = pic[n] /\ pic[0] = before
      /\ \A i \in 1 .. n : pic[i] = pic[i - 1]
  BY <1>2, <1>3 DEF LaidIsSo
<1> DEFINE G == {i \in 0 .. n : pic[i] = before}
<1>5. 0 \in G
  BY <1>4
<1>6. \A i \in 1 .. n : i - 1 \in G => i \in G
  BY <1>4
<1>7. n \in G
  <2> HIDE DEF G
  <2>1. \A i \in 0 .. n : i \in G
    BY <1>5, <1>6, CountUp
  <2> QED
    BY <2>1
<1> QED
  BY <1>4, <1>7

(* The entries of a path are entries of the book.                          *)
LEMMA PathInBook ==
  ASSUME NEW E, NEW book \in Seq(E), Tree(book), NEW c \in 0 .. Len(book)
  PROVE  \A i \in 1 .. Len(Path(book, c)) : \E n \in 1 .. c : Path(book, c)[i] = book[n]
<1>1. PICK ch : ch = ChainTo(book, c)
  OBVIOUS
<1>2. ch \in Seq(1 .. c)
  BY <1>1, ChainType
<1>3. Path(book, c) = [i \in 1 .. Len(ch) |-> book[ch[i]]]
  BY <1>1, <1>2 DEF Path
<1>4. Len(Path(book, c)) = Len(ch)
  BY <1>2, <1>3
<1>5. ASSUME NEW i \in 1 .. Len(ch) PROVE ch[i] \in 1 .. c /\ Path(book, c)[i] = book[ch[i]]
  BY <1>2, <1>3
<1> QED
  BY <1>4, <1>5

(* What nobody has seen no entry is about.                                 *)
LEMMA UnknownInk ==
  ASSUME NEW d, NEW g, Sane(d, g), NEW l \in Layers, ~Known(d.book, g, l)
  PROVE  /\ \A i \in DOMAIN PathOf(d) : PathOf(d)[i].layer # l
         /\ l \notin LayersOf(g.stack)
         /\ Ink(g, PathOf(d), l) = <<>>
<1>1. PICK m \in Nat : m = d.made
  BY DEF Sane
<1>2. /\ d.book \in Seq(Entries(m)) /\ Tree(d.book) /\ d.cursor \in 0 .. Len(d.book)
      /\ \A n \in DOMAIN d.book : d.book[n].layer # NoLayer => Known(d.book, g, d.book[n].layer)
  BY <1>1, DocFields DEF Sane
<1>3. l # NoLayer
  BY NoNameAssumption
<1>4. \A n \in DOMAIN d.book : d.book[n].layer # l
  BY <1>2, <1>3
<1>5. PICK path : path = PathOf(d)
  OBVIOUS
<1>6. path \in Seq(Entries(m))
  BY <1>2, <1>5, PathStep DEF PathOf
<1>7. \A i \in 1 .. Len(path) : \E n \in 1 .. d.cursor : path[i] = d.book[n]
  <2>1. PICK book \in Seq(Entries(m)) : book = d.book
    BY <1>2
  <2>2. PICK c \in 0 .. Len(book) : c = d.cursor
    BY <1>2, <2>1
  <2>3. Tree(book) /\ path = Path(book, c)
    BY <1>2, <1>5, <2>1, <2>2 DEF PathOf
  <2>4. \A i \in 1 .. Len(Path(book, c)) : \E n \in 1 .. c : Path(book, c)[i] = book[n]
    BY <2>3, PathInBook
  <2> QED
    BY <2>1, <2>2, <2>3, <2>4
<1>8. \A n \in 1 .. d.cursor : n \in DOMAIN d.book
  BY <1>2
<1>9. \A i \in 1 .. Len(path) : path[i].layer # l
  BY <1>4, <1>7, <1>8
<1>10. l \notin LayersOf(g.stack)
  BY DEF Known
<1>11. \A before : Laid(path, l, before) = before
  BY <1>6, <1>9, LaidNone
<1>12. Ink(g, path, l) = <<>>
  BY <1>10, <1>11 DEF Ink
<1> QED
  BY <1>5, <1>6, <1>9, <1>10, <1>12

Stacked(d, roster, pic, active) == [d EXCEPT !.stack = roster, !.pic = pic, !.active = active]

(* Another stack on the page, its rasters and its active layer with it:    *)
(* every other field stays.                                                *)
LEMMA DocStacked ==
  ASSUME NEW m, NEW d \in Docs(m), NEW roster \in Seq(Faces), NEW pic \in [Layers -> Rasters(m)],
         NEW active \in Layers, NEW s, s = Stacked(d, roster, pic, active)
  PROVE  /\ s \in Docs(m) /\ s.stack = roster /\ s.pic = pic /\ s.active = active
         /\ s.book = d.book /\ s.cursor = d.cursor /\ s.open = d.open
         /\ s.made = d.made /\ s.text = d.text /\ s.sel = d.sel /\ s.before = d.before
         /\ s.fresh = d.fresh /\ s.lift = d.lift /\ s.since = d.since
BY DEF Docs, Stacked

(* The stack becomes the roster and the entry that says so is recorded.    *)
NewPic(d, roster, e) ==
  [l \in Layers |-> IF l = e.layer THEN e.pic
                    ELSE IF l \in LayersOf(roster) /\ l \in LayersOf(d.stack) THEN d.pic[l] ELSE <<>>]
NewActive(d, roster) ==
  IF d.active \in LayersOf(roster) THEN d.active ELSE roster[Len(roster)].key

PerformMade(d, roster, e) ==
  PerformStack(d, e) = Stacked(Recorded(d, e), roster, NewPic(d, roster, e), NewActive(d, roster))

(* PerformStack reconciles the layers, lays the composite and records the  *)
(* entry: the same page as recording first and changing the stack after.   *)
LEMMA PerformStackIs ==
  ASSUME NEW m \in Nat, NEW d \in Docs(m), d.open = <<>>, NEW roster \in Seq(Faces), roster # <<>>,
         NEW layer, NEW p, NEW e, RosterIs(m, roster, FALSE, layer, p, e),
         layer \in LayersOf(roster) \cup {NoLayer}
  PROVE  PerformMade(d, roster, e)
<1>1. /\ e.kind = "layers" /\ e.layer = layer /\ e.pic = p /\ e.roster = roster /\ Marks(e)
  BY DEF RosterIs
<1>2. LayersOf(roster) \subseteq Layers /\ NoLayer \notin LayersOf(roster) /\ NoLayer \notin Layers
  BY RosterKeys, NoNameAssumption
<1>3. SealOpenOp(d) = d
  BY DEF SealOpenOp
<1>4. PICK pic1 : pic1 = [l \in Layers |-> IF l \in LayersOf(roster) /\ l \in LayersOf(d.stack)
                                           THEN d.pic[l] ELSE <<>>]
  OBVIOUS
<1>5. PICK active : active = NewActive(d, roster)
  OBVIOUS
<1>6. PICK x : x = Stacked(d, roster, pic1, active)
  OBVIOUS
<1>7. ReconcileLayers(d, roster) = x
  BY <1>4, <1>5, <1>6 DEF ReconcileLayers, Stacked, NewActive, OnStack, Docs
<1>8. PICK pic2 : pic2 = NewPic(d, roster, e)
  OBVIOUS
<1>9. x.stack = roster /\ x.pic = pic1
  BY <1>6 DEF Stacked, Docs
<1>10. ApplyOp(x, e) = Stacked(d, roster, pic2, active)
  <2>1. Drawn(pic1[e.layer], e) = e.pic
    BY <1>1 DEF Drawn
  <2>2. CASE layer \in LayersOf(roster)
    <3>1. ApplyOp(x, e) = [x EXCEPT !.pic[e.layer] = Drawn(@, e)]
      BY <2>2, <1>1, <1>9 DEF ApplyOp, OnStack
    <3>2. [pic1 EXCEPT ![e.layer] = e.pic] = pic2
      BY <2>2, <1>1, <1>2, <1>4, <1>8 DEF NewPic
    <3>3. [x EXCEPT !.pic[e.layer] = Drawn(@, e)] = [x EXCEPT !.pic = pic2]
      BY <3>2, <2>1, <1>9
    <3>4. [x EXCEPT !.pic = pic2] = Stacked(d, roster, pic2, active)
      BY <1>6 DEF Stacked, Docs
    <3> QED
      BY <3>1, <3>3, <3>4
  <2>3. CASE layer \notin LayersOf(roster)
    <3>1. ApplyOp(x, e) = x
      BY <2>3, <1>1, <1>9 DEF ApplyOp, OnStack
    <3>2. layer \notin Layers
      BY <2>3, <1>2
    <3>3. pic2 = pic1
      BY <3>2, <1>1, <1>4, <1>8 DEF NewPic
    <3> QED
      BY <3>1, <3>3, <1>6
  <2> QED
    BY <2>2, <2>3
<1>11. PICK since : since = [l \in Layers |->
               IF l # e.layer THEN d.since[l]
               ELSE IF ~Marks(e) THEN 0
               ELSE IF d.since[l] = -1 THEN 1
               ELSE IF d.since[l] < SnapEvery THEN d.since[l] + 1 ELSE d.since[l]]
  OBVIOUS
<1>12. PICK book : book = Append(d.book, [e EXCEPT !.parent = d.cursor])
  OBVIOUS
<1>13. Recorded(d, e) = [d EXCEPT !.book = book, !.cursor = Len(d.book) + 1, !.since = since]
  BY <1>11, <1>12 DEF Recorded, Docs
<1>14. PICK y : y = Stacked(d, roster, pic2, active)
  OBVIOUS
<1>15. y.book = d.book /\ y.cursor = d.cursor /\ y.since = d.since
  BY <1>14 DEF Stacked, Docs
<1>16. Recorded(y, e) = [y EXCEPT !.book = book, !.cursor = Len(d.book) + 1, !.since = since]
  BY <1>11, <1>12, <1>14, <1>15 DEF Recorded, Docs, Stacked
<1>17. Recorded(y, e) = Stacked(Recorded(d, e), roster, pic2, active)
  BY <1>13, <1>14, <1>16, ZenonT(60) DEF Stacked, Docs
<1>18. PerformStack(d, e) = Recorded(y, e)
  BY <1>1, <1>3, <1>7, <1>10, <1>14 DEF PerformStack
<1> QED
  BY <1>5, <1>8, <1>17, <1>18 DEF PerformMade

StackedIs(y, roster, pic, active, s, g) ==
  /\ Sane(s, g) /\ PathOf(s) = PathOf(y) /\ s.book = y.book /\ s.since = y.since
  /\ s.stack = roster /\ s.pic = pic /\ s.active = active /\ s.open = <<>> /\ s.lift = y.lift
  /\ s.made = y.made
  /\ Worded(y) => Worded(s)

(* A page with another stack of layers that somebody has seen.             *)
LEMMA StackedSane ==
  ASSUME NEW y, NEW g, Sane(y, g), y.open = <<>>, NEW roster \in Seq(Faces), Keyed(roster),
         \A l \in LayersOf(roster) : Known(y.book, g, l),
         NEW pic, pic \in [Layers -> Rasters(y.made)], NEW active \in LayersOf(roster),
         \A l \in Layers : l \notin LayersOf(roster) => pic[l] = <<>>,
         NEW s, s = Stacked(y, roster, pic, active)
  PROVE  StackedIs(y, roster, pic, active, s, g)
<1>1. PICK m \in Nat : m = y.made /\ y \in Docs(m)
  BY DEF Sane
<1>2. active \in Layers
  BY RosterKeys
<1>3. /\ s \in Docs(m) /\ s.stack = roster /\ s.pic = pic /\ s.active = active
      /\ s.book = y.book /\ s.cursor = y.cursor /\ s.open = y.open
      /\ s.made = y.made /\ s.text = y.text /\ s.sel = y.sel /\ s.before = y.before
      /\ s.fresh = y.fresh /\ s.lift = y.lift /\ s.since = y.since
  BY <1>1, <1>2, DocStacked
<1>4. Sane(s, g)
  <2>1. Returns(y)
    BY DEF Sane
  <2>2. Returns(s)
    BY <2>1, <1>3 DEF Returns, Bare
  <2> QED
    BY <2>2, <1>1, <1>3 DEF Sane
<1>5. PathOf(s) = PathOf(y)
  BY <1>3 DEF PathOf
<1>6. Worded(y) => Worded(s)
  BY <1>3, <1>5 DEF Worded, WordsOf
<1> QED
  BY <1>3, <1>4, <1>5, <1>6 DEF StackedIs

(* What a change of the stack to a roster must meet.                       *)
Restackable(d, g, roster, layer) ==
  /\ Restates(PathOf(d)) # {}
  /\ \A l \in LayersOf(d.stack) \ LayersOf(roster) : KeyframedOn(PathOf(d), l)
  /\ layer # NoLayer => layer \in LayersOf(roster) \cap LayersOf(d.stack)
                        /\ KeyframedOn(PathOf(d), layer)
  /\ \A l \in LayersOf(roster) \ LayersOf(d.stack) : ~Known(d.book, g, l)
  /\ d.lift = 0 \/ (LayersOf(roster) = LayersOf(d.stack) /\ layer = NoLayer)

(* An entry that changes the stack tells the truth of the path it is made  *)
(* on, once the old stack and its rasters are stated above it.             *)
LEMMA RestackTruth ==
  ASSUME NEW d, NEW g, Sane(d, g), NEW roster \in Seq(Faces), Keyed(roster),
         NEW layer, NEW p, NEW e, RosterIs(d.made, roster, FALSE, layer, p, e),
         Restackable(d, g, roster, layer), d.stack = RosterOf(PathOf(d), g.stack)
  PROVE  TruthOf(e, PathOf(d), g)
<1>1. e.kind = "layers" /\ e.layer = layer /\ e.roster = roster /\ e.keyframe = FALSE
  BY DEF RosterIs
<1>2. LayersOf(roster) \subseteq Layers
  BY RosterKeys
<1>3. ASSUME NEW l \in LayersOf(roster) \ LayersOf(d.stack)
      PROVE  /\ l \notin LayersOf(g.stack) /\ l # layer
             /\ \A i \in DOMAIN PathOf(d) : PathOf(d)[i].layer # l
  <2>1. ~Known(d.book, g, l) /\ l \in Layers
    BY <1>2, <1>3 DEF Restackable
  <2>2. /\ \A i \in DOMAIN PathOf(d) : PathOf(d)[i].layer # l
        /\ l \notin LayersOf(g.stack)
    BY <2>1, UnknownInk
  <2>3. l # layer
    BY <1>3, <2>1, NoNameAssumption DEF Restackable
  <2> QED
    BY <2>2, <2>3
<1>4. PICK stack : stack = d.stack
  OBVIOUS
<1>5. PICK above : above = PathOf(d)
  OBVIOUS
<1>6. /\ Restates(above) # {}
      /\ \A l \in LayersOf(stack) : l \in LayersOf(e.roster) \/ KeyframedOn(above, l)
      /\ e.layer # NoLayer => KeyframedOn(above, e.layer)
      /\ \A l \in LayersOf(e.roster) \ LayersOf(stack) :
               /\ l \notin LayersOf(g.stack) /\ l # e.layer
               /\ \A i \in DOMAIN above : above[i].layer # l
  BY <1>1, <1>3, <1>4, <1>5 DEF Restackable
<1>7. RosterOf(above, g.stack) = stack
  BY <1>4, <1>5
<1> QED
  BY <1>1, <1>5, <1>6, <1>7 DEF TruthOf

(* The layers of the new stack show what the path draws.                   *)
LEMMA RestackShows ==
  ASSUME NEW d, NEW g, Sane(d, g), d.open = <<>>, NEW roster \in Seq(Faces), Keyed(roster),
         NEW layer, NEW p, NEW e, RosterIs(d.made, roster, FALSE, layer, p, e),
         Restackable(d, g, roster, layer), Pictured(d, g),
         NEW y, Reads(d, e, y, g), Entered(d, e, y), NEW s, NEW active \in LayersOf(roster),
         StackedIs(y, roster, NewPic(d, roster, e), active, s, g),
         d.lift # 0 => active = d.active
  PROVE  Pictured(s, g)
<1>1. e.kind = "layers" /\ e.layer = layer /\ e.roster = roster /\ e.pic = p /\ Structural(e) /\ Marks(e)
  BY DEF RosterIs
<1>2. LayersOf(roster) \subseteq Layers
  BY RosterKeys
<1>3. PICK np : np = NewPic(d, roster, e)
  OBVIOUS
<1>4. \A l \in LayersOf(roster) :
        np[l] = IF l = layer THEN p ELSE IF l \in LayersOf(d.stack) THEN d.pic[l] ELSE <<>>
  BY <1>1, <1>2, <1>3 DEF NewPic
<1>5. /\ s.pic = np /\ s.stack = roster /\ s.active = active /\ s.open = <<>>
      /\ PathOf(s) = PathOf(y) /\ s.lift = d.lift /\ s.since = y.since /\ s.book = y.book
  BY <1>3 DEF StackedIs, Entered
<1>6. RosterOf(PathOf(s), g.stack) = s.stack
  BY <1>1, <1>5 DEF Reads
<1>7. ASSUME NEW l \in LayersOf(roster)
      PROVE  Ink(g, PathOf(s), l) = IF l = layer THEN p ELSE Ink(g, PathOf(d), l)
  <2>1. Drawn(Ink(g, PathOf(d), l), e) = p
    BY <1>1 DEF Drawn
  <2> QED
    BY <2>1, <1>1, <1>5 DEF Reads
<1>8. TruthOf(e, PathOf(d), g)
  BY RestackTruth DEF Pictured
<1>9. \A n \in DOMAIN s.book : Truthful(s.book, g, n)
  BY <1>5, <1>8 DEF Reads, Pictured
<1>10. ASSUME NEW l \in LayersOf(roster), l \notin LayersOf(d.stack)
       PROVE  np[l] = Ink(g, PathOf(s), l)
  <2>1. l # layer /\ ~Known(d.book, g, l)
    BY <1>2, <1>10, NoNameAssumption DEF Restackable
  <2>2. Ink(g, PathOf(d), l) = <<>>
    BY <2>1, <1>2, UnknownInk
  <2> QED
    BY <2>1, <2>2, <1>4, <1>7, <1>10
<1>11. ASSUME NEW l \in LayersOf(roster), l = layer PROVE np[l] = Ink(g, PathOf(s), l)
  BY <1>4, <1>7, <1>11
<1>12. ASSUME NEW l \in LayersOf(roster), l # layer, l \in LayersOf(d.stack)
       PROVE  np[l] = IF Carried(d) /\ l = d.active THEN Append(Ink(g, PathOf(s), l), d.lift)
                      ELSE Ink(g, PathOf(s), l)
  <2>1. Shows(d, g, l)
    BY <1>12 DEF Pictured
  <2>2. np[l] = d.pic[l] /\ Ink(g, PathOf(s), l) = Ink(g, PathOf(d), l)
    BY <1>4, <1>7, <1>12
  <2> QED
    BY <2>1, <2>2 DEF Shows, Wet
<1>13. CASE d.lift = 0
  <2>1. ~Carried(d) /\ ~Carried(s)
    BY <1>13, <1>5 DEF Carried
  <2>2. \A l \in LayersOf(s.stack) : np[l] = Ink(g, PathOf(s), l)
    BY <1>5, <1>10, <1>11, <1>12, <2>1
  <2>3. \A l \in LayersOf(s.stack) : Shows(s, g, l)
    BY <1>5, <2>1, <2>2 DEF Shows, Wet
  <2> QED
    BY <1>6, <1>9, <2>1, <2>3 DEF Pictured
<1>14. CASE d.lift # 0
  <2>1. LayersOf(roster) = LayersOf(d.stack) /\ layer = NoLayer /\ active = d.active
    BY <1>14 DEF Restackable
  <2>2. active # layer /\ active \in Layers
    BY <2>1, <1>2, NoNameAssumption
  <2>3. np[active] = d.pic[active]
    BY <2>1, <2>2, <1>4
  <2>4. Carried(s) <=> Carried(d)
    BY <2>1, <2>3, <1>5 DEF Carried
  <2>5. \A l \in LayersOf(s.stack) :
           np[l] = IF Carried(s) /\ l = s.active THEN Append(Ink(g, PathOf(s), l), s.lift)
                   ELSE Ink(g, PathOf(s), l)
    BY <1>2, <1>5, <1>12, <2>1, <2>4, NoNameAssumption
  <2>6. \A l \in LayersOf(s.stack) : Shows(s, g, l)
    BY <1>5, <2>5 DEF Shows, Wet
  <2>7. ASSUME Carried(s)
        PROVE  ~SnapshotDue(s, s.active) /\ s.lift \notin ToSet(Ink(g, PathOf(s), s.active))
    <3>1. /\ ~SnapshotDue(d, d.active) /\ d.lift \notin ToSet(Ink(g, PathOf(d), d.active))
      BY <2>4, <2>7 DEF Pictured
    <3>2. s.since[active] = d.since[active]
      BY <1>1, <1>5, <2>2 DEF Entered
    <3>3. Ink(g, PathOf(s), active) = Ink(g, PathOf(d), active)
      BY <1>7, <2>2
    <3> QED
      BY <3>1, <3>2, <3>3, <2>1, <1>5 DEF SnapshotDue
  <2> QED
    BY <1>5, <1>6, <1>9, <2>6, <2>7 DEF Pictured
<1> QED
  BY <1>13, <1>14

RestackedGood(d, roster, s, g, t) ==
  /\ Good(s, g, t) /\ s.stack = roster /\ s.lift = d.lift /\ s.open = <<>>

(* The stack becomes a roster, and an entry says so.                       *)
LEMMA PerformStackGood ==
  ASSUME NEW d, NEW g, NEW t, Good(d, g, t), d.open = <<>>, NEW roster \in Seq(Faces), Keyed(roster),
         NEW layer, NEW p, NEW e, RosterIs(d.made, roster, FALSE, layer, p, e),
         Restackable(d, g, roster, layer), p \in Rasters(d.made) \cup {NoPic},
         layer # NoLayer => p # NoPic, NEW s, s = PerformStack(d, e)
  PROVE  RestackedGood(d, roster, s, g, t)
<1>1. PICK m \in Nat : m = d.made /\ d \in Docs(m)
  BY DEF Good, Sane
<1>2. /\ e \in Entries(m) /\ e.kind = "layers" /\ e.layer = layer /\ e.pic = p /\ e.roster = roster
      /\ Structural(e)
  BY <1>1 DEF RosterIs
<1>3. /\ layer \in LayersOf(roster) \cup {NoLayer} /\ roster # <<>>
      /\ LayersOf(roster) \subseteq Layers /\ NoLayer \notin Layers
  BY RosterKeys, NoNameAssumption DEF Restackable, Keyed
<1>4. PICK np : np = NewPic(d, roster, e)
  OBVIOUS
<1>5. PICK na : na = NewActive(d, roster)
  OBVIOUS
<1>6. PICK y : y = Recorded(d, e)
  OBVIOUS
<1>7. s = Stacked(y, roster, np, na)
  <2>0. RosterIs(m, roster, FALSE, layer, p, e)
    BY <1>1
  <2>1. PerformMade(d, roster, e)
    BY <2>0, <1>1, <1>3, PerformStackIs
  <2> QED
    BY <2>1, <1>4, <1>5, <1>6 DEF PerformMade
<1>8. Entered(d, e, y)
  BY <1>1, <1>2, <1>6, RecordedEnters DEF Good
<1>9. e.layer # NoLayer => Known(d.book, g, e.layer)
  <2>1. e.layer # NoLayer => e.layer \in LayersOf(d.stack)
    BY <1>2 DEF Restackable
  <2> QED
    BY <2>1 DEF Good, Sane
<1>10. Sane(y, g) /\ \A l : Known(d.book, g, l) => Known(y.book, g, l)
  BY <1>1, <1>2, <1>8, <1>9, RecordSane DEF Good
<1>11. Worded(y)
  <2>1. e.kind # "text"
    BY <1>2
  <2> QED
    BY <2>1, <1>1, <1>2, <1>8, RecordWorded DEF Good
<1>12. y.open = <<>> /\ y.made = m /\ y.lift = d.lift /\ y.book = Append(d.book, Placed(e, d.cursor))
  BY <1>1, <1>8 DEF Entered
<1>13. \A l \in LayersOf(roster) : Known(y.book, g, l)
  <2>1. d.book \in Seq(Entries(m)) /\ d.cursor \in Nat
    BY <1>1, DocFields
  <2>2. PICK w : w = Placed(e, d.cursor)
    OBVIOUS
  <2>3. w \in Entries(m) /\ w.roster = roster
    BY <1>2, <2>1, <2>2, PlacedIs
  <2>4. \A l : l \in LayersOf(w.roster) => Known(Append(d.book, w), g, l)
    BY <2>1, <2>3, KnownStep
  <2> QED
    BY <2>2, <2>3, <2>4, <1>12
<1>14. np \in [Layers -> Rasters(m)]
  <2>1. d.pic \in [Layers -> Rasters(m)]
    BY <1>1, DocFields
  <2>2. <<>> \in Rasters(m)
    BY DEF Rasters
  <2>3. layer \in Layers => p \in Rasters(m)
    BY <1>1, <1>3
  <2>4. ASSUME NEW l \in Layers PROVE np[l] \in Rasters(m)
    BY <2>1, <2>2, <2>3, <1>2, <1>4 DEF NewPic
  <2> QED
    BY <2>4, <1>4 DEF NewPic
<1>15. na \in LayersOf(roster)
  BY <1>3, <1>5 DEF NewActive, LayersOf
<1>16. StackedIs(y, roster, np, na, s, g)
  <2>1. \A l \in Layers : l \notin LayersOf(roster) => np[l] = <<>>
    BY <1>2, <1>3, <1>4 DEF NewPic
  <2> QED
    BY <2>1, <1>7, <1>10, <1>12, <1>13, <1>14, <1>15, StackedSane
<1>17. Reads(d, e, y, g)
  BY <1>1, <1>2, <1>8, RecordReads DEF Good
<1>18. d.lift # 0 => na = d.active
  <2>1. d.active \in LayersOf(d.stack)
    BY DEF Good, Sane
  <2> QED
    BY <2>1, <1>5 DEF Restackable, NewActive
<1>19. ASSUME Pictured(d, g) PROVE Pictured(s, g)
  <2>1. Sane(d, g)
    BY DEF Good
  <2>2. StackedIs(y, roster, NewPic(d, roster, e), na, s, g)
    BY <1>16, <1>4
  <2> QED
    BY <2>1, <2>2, <1>8, <1>15, <1>17, <1>18, <1>19, RestackShows
<1>20. GroundedBook(s.book) => GroundedBook(d.book)
  BY <1>16, <1>17 DEF StackedIs, Reads
<1> QED
  BY <1>11, <1>12, <1>16, <1>19, <1>20 DEF StackedIs, Good, RestackedGood

(* The entry RosterNow starts from, with another roster.                   *)
LEMMA RosterNowIs ==
  ASSUME NEW d, NEW g, Sane(d, g), NEW r
  PROVE  [RosterNow(d) EXCEPT !.roster = r] = StackAnew(r)
<1>1. d.author = NoAuthor
  BY DocFields DEF Sane
<1> QED
  BY <1>1, ZenonT(60) DEF RosterNow, StackAnew, Blank

NowMerged(d, r, l, p) == [RosterNow(d) EXCEPT !.roster = r, !.layer = l, !.pic = p]

(* The entry RosterNow starts from, with another roster and a composite.   *)
LEMMA RosterMergedIs ==
  ASSUME NEW d, NEW g, Sane(d, g), NEW r, NEW l, NEW p
  PROVE  NowMerged(d, r, l, p) = StackMerged(r, l, p)
<1>1. d.author = NoAuthor
  BY DocFields DEF Sane
<1> QED
  BY <1>1, ZenonT(60) DEF NowMerged, RosterNow, StackMerged, Blank

(* A layer moved or its face changed: the stack before and the stack after.*)
LEMMA FaceChangeGood ==
  ASSUME NEW d, NEW g, NEW t, Good(d, g, t), NEW roster \in Seq(Faces), Keyed(roster),
         LayersOf(roster) = LayersOf(d.stack), NEW s, s = FaceChange(d, roster)
  PROVE  Good(s, g, t)
<1>1. PICK u : u = SealOpenOp(d)
  OBVIOUS
<1>2. Good(u, g, t) /\ u.open = <<>> /\ Same(d, u, g)
  BY <1>1, SealGood
<1>3. PICK v : v = KeyframeRoster(u)
  OBVIOUS
<1>4. Good(v, g, t) /\ Same(u, v, g) /\ v.open = u.open /\ Restates(PathOf(v)) # {}
  BY <1>2, <1>3, KeyframeRosterGood
<1>5. PICK e : e = StackAnew(roster)
  OBVIOUS
<1>6. s = PerformStack(v, e)
  <2>1. [RosterNow(v) EXCEPT !.roster = roster] = StackAnew(roster)
    BY <1>4, RosterNowIs DEF Good
  <2> QED
    BY <2>1, <1>1, <1>3, <1>5 DEF FaceChange
<1>7. LayersOf(roster) = LayersOf(v.stack)
  BY <1>2, <1>4 DEF Same
<1>8. Restackable(v, g, roster, NoLayer)
  BY <1>4, <1>7 DEF Restackable
<1>9. PICK m \in Nat : m = v.made
  BY <1>4 DEF Good, Sane
<1>10. RosterIs(v.made, roster, FALSE, NoLayer, NoPic, e)
  BY <1>5, <1>9, AnewFields
<1>11. v.open = <<>>
  BY <1>2, <1>4
<1>12. RestackedGood(v, roster, s, g, t)
  BY <1>4, <1>6, <1>8, <1>10, <1>11, PerformStackGood
<1> QED
  BY <1>12 DEF RestackedGood

(* What is common to the changes of the stack that put the lifted down.    *)
Prepared(d, v, g, t) ==
  /\ Good(v, g, t) /\ v.open = <<>> /\ v.lift = 0 /\ v.made = d.made /\ v.stack = d.stack
  /\ v.active = d.active
  /\ \A l : Known(v.book, g, l) => Known(d.book, g, l)
  /\ Restates(PathOf(v)) # {}
  /\ \A l \in LayersOf(d.stack) : KeyframedOn(PathOf(v), l)
  /\ v.stack \in Seq(Faces) /\ Keyed(v.stack) /\ v.active \in LayersOf(v.stack)

(* What a change of the stack starts from: what was lifted is down, and    *)
(* every raster and the stack are on the path (recordStructure).           *)
LEMMA PreparedIs ==
  ASSUME NEW d, NEW g, NEW t, Good(d, g, t), NEW v, v = RecordStructure(DropSelection(d))
  PROVE  Prepared(d, v, g, t)
<1>1. PICK x : x = DropSelection(d)
  OBVIOUS
<1>2. Good(x, g, t) /\ x.lift = 0 /\ x.made = d.made /\ Kept(d, x, g)
  BY <1>1, DropGood
<1>3. v = RecordStructure(x)
  BY <1>1
<1>4. /\ Good(v, g, t) /\ Same(x, v, g) /\ v.open = <<>> /\ Restates(PathOf(v)) # {}
      /\ \A l \in LayersOf(v.stack) : KeyframedOn(PathOf(v), l)
  BY <1>2, <1>3, StructureGood
<1>5. v.stack \in Seq(Faces) /\ Keyed(v.stack) /\ v.active \in LayersOf(v.stack)
  <2>1. Sane(v, g)
    BY <1>4 DEF Good
  <2>2. v.stack \in Seq(Faces)
    BY <2>1, SaneLayers
  <2> QED
    BY <2>1, <2>2 DEF Sane
<1> QED
  BY <1>2, <1>4, <1>5 DEF Prepared, Same, Kept

(* A layer is removed: its raster stays on the path for an undo to find.   *)
LEMMA RemoveLayerGood ==
  ASSUME NEW d, NEW g, NEW t, Good(d, g, t), NEW l \in LayersOf(d.stack), Len(d.stack) >= 2,
         NEW s, s = RemoveLayer(d, l)
  PROVE  Good(s, g, t)
<1>1. PICK v : v = RecordStructure(DropSelection(d))
  OBVIOUS
<1>2. Prepared(d, v, g, t)
  BY <1>1, PreparedIs
<1>3. PICK roster : roster = WithoutLayer(v.stack, l)
  OBVIOUS
<1>4. roster \in Seq(Faces) /\ Keyed(roster) /\ LayersOf(roster) = LayersOf(v.stack) \ {l}
  <2>1. v.stack \in Seq(Faces) /\ Keyed(v.stack) /\ Len(v.stack) >= 2 /\ l \in LayersOf(v.stack)
    BY <1>2 DEF Prepared
  <2> QED
    BY <2>1, <1>3, WithoutIs
<1>5. PICK e : e = StackAnew(roster)
  OBVIOUS
<1>6. s = PerformStack(v, e)
  <2>1. [RosterNow(v) EXCEPT !.roster = roster] = StackAnew(roster)
    BY <1>2, RosterNowIs DEF Good, Prepared
  <2> QED
    BY <2>1, <1>1, <1>3, <1>5 DEF RemoveLayer
<1>7. Restackable(v, g, roster, NoLayer)
  BY <1>2, <1>4 DEF Restackable, Prepared
<1>8. RosterIs(v.made, roster, FALSE, NoLayer, NoPic, e)
  <2>1. PICK m \in Nat : m = v.made
    BY <1>2 DEF Prepared, Good, Sane
  <2> QED
    BY <2>1, <1>4, <1>5, AnewFields
<1>9. Good(v, g, t) /\ v.open = <<>>
  BY <1>2 DEF Prepared
<1>10. RestackedGood(v, roster, s, g, t)
  BY <1>4, <1>6, <1>7, <1>8, <1>9, PerformStackGood
<1> QED
  BY <1>10 DEF RestackedGood

(* A layer is made under a key nobody has seen.                            *)
LEMMA NewLayerGood ==
  ASSUME NEW d, NEW g, NEW t, Good(d, g, t), NEW l \in Layers, ~Known(d.book, g, l),
         NEW s, s = NewLayer(d, l)
  PROVE  Good(s, g, t)
<1>1. PICK v : v = RecordStructure(DropSelection(d))
  OBVIOUS
<1>2. Prepared(d, v, g, t)
  BY <1>1, PreparedIs
<1>3. PICK roster : roster = InsertAt(v.stack,
          (CHOOSE i \in DOMAIN v.stack : v.stack[i].key = v.active) + 1, [key |-> l, face |-> 0])
  OBVIOUS
<1>4. roster \in Seq(Faces) /\ Keyed(roster) /\ LayersOf(roster) = LayersOf(v.stack) \cup {l}
  <2>1. v.stack \in Seq(Faces) /\ Keyed(v.stack) /\ v.active \in LayersOf(v.stack)
    BY <1>2 DEF Prepared
  <2>2. l \notin LayersOf(v.stack)
    BY <1>2 DEF Prepared, Good, Sane
  <2>3. PICK q : q = v.stack
    OBVIOUS
  <2>4. PICK a : a = v.active
    OBVIOUS
  <2> QED
    BY <2>1, <2>2, <2>3, <2>4, <1>3, WithIs DEF HeldAt
<1>5. PICK e : e = StackAnew(roster)
  OBVIOUS
<1>6. PICK w : w = PerformStack(v, e)
  OBVIOUS
<1>7. s = [w EXCEPT !.active = l]
  <2>1. [RosterNow(v) EXCEPT !.roster = roster] = StackAnew(roster)
    BY <1>2, RosterNowIs DEF Good, Prepared
  <2> QED
    BY <2>1, <1>1, <1>3, <1>5, <1>6 DEF NewLayer
<1>8. Restackable(v, g, roster, NoLayer)
  BY <1>2, <1>4 DEF Restackable, Prepared
<1>9. RosterIs(v.made, roster, FALSE, NoLayer, NoPic, e)
  <2>1. PICK m \in Nat : m = v.made
    BY <1>2 DEF Prepared, Good, Sane
  <2> QED
    BY <2>1, <1>4, <1>5, AnewFields
<1>10. Good(v, g, t) /\ v.open = <<>> /\ v.lift = 0
  BY <1>2 DEF Prepared
<1>11. RestackedGood(v, roster, w, g, t)
  BY <1>4, <1>6, <1>8, <1>9, <1>10, PerformStackGood
<1>12. Good(w, g, t) /\ w.lift = 0 /\ l \in LayersOf(w.stack)
  BY <1>4, <1>10, <1>11 DEF RestackedGood
<1> QED
  BY <1>7, <1>12, ActivatedGood

(* Two layers become one: the composite is on the path with the stack that *)
(* keeps one of them.                                                      *)
LEMMA MergeLayerGood ==
  ASSUME NEW d, NEW g, NEW t, Good(d, g, t), NEW i \in 1 .. Len(d.stack) - 1,
         NEW keep \in {d.stack[i].key, d.stack[i + 1].key}, NEW s, s = MergeLayer(d, i, keep)
  PROVE  Good(s, g, t)
<1>1. PICK v : v = RecordStructure(DropSelection(d))
  OBVIOUS
<1>2. Prepared(d, v, g, t)
  BY <1>1, PreparedIs
<1>3. PICK a : a = d.stack[i].key
  OBVIOUS
<1>4. PICK z : z = d.stack[i + 1].key
  OBVIOUS
<1>5. d.stack \in Seq(Faces) /\ Keyed(d.stack)
  BY <1>2 DEF Prepared
<1>6. PICK j : j = i + 1
  OBVIOUS
<1>7. i \in DOMAIN d.stack /\ j \in DOMAIN d.stack /\ i # j /\ Len(d.stack) >= 2
  BY <1>5, <1>6
<1>8. a # z /\ a \in LayersOf(d.stack) /\ z \in LayersOf(d.stack)
  BY <1>3, <1>4, <1>5, <1>6, <1>7 DEF Keyed, LayersOf
<1>9. PICK gone : gone = CHOOSE l \in {d.stack[i].key, d.stack[i + 1].key} : l # keep
  OBVIOUS
<1>10. gone \in {a, z} /\ gone # keep
  <2>1. gone = CHOOSE l \in {a, z} : l # keep
    BY <1>3, <1>4, <1>9
  <2>2. \E l \in {a, z} : l # keep
    BY <1>8
  <2> QED
    BY <2>1, <2>2
<1>11. gone \in LayersOf(v.stack) /\ keep \in LayersOf(v.stack)
  BY <1>2, <1>3, <1>4, <1>8, <1>10 DEF Prepared
<1>12. PICK roster : roster = WithoutLayer(v.stack, gone)
  OBVIOUS
<1>13. roster \in Seq(Faces) /\ Keyed(roster) /\ LayersOf(roster) = LayersOf(v.stack) \ {gone}
  <2>1. v.stack \in Seq(Faces) /\ Keyed(v.stack) /\ Len(v.stack) >= 2
    BY <1>2, <1>7 DEF Prepared
  <2> QED
    BY <2>1, <1>11, <1>12, WithoutIs
<1>14. PICK p : p = d.pic[a] \o d.pic[z]
  OBVIOUS
<1>15. PICK m \in Nat : m = v.made
  BY <1>2 DEF Prepared, Good, Sane
<1>16. p \in Rasters(m) /\ keep \in Layers
  <2>1. LayersOf(d.stack) \subseteq Layers /\ d.pic \in [Layers -> Rasters(d.made)]
    BY SaneLayers DEF Good
  <2>2. d.made = m
    BY <1>2, <1>15 DEF Prepared
  <2>3. d.pic[a] \in Rasters(m) /\ d.pic[z] \in Rasters(m)
    BY <2>1, <2>2, <1>8
  <2>4. p \in Rasters(m)
    BY <2>3, <1>14 DEF Rasters
  <2> QED
    BY <2>1, <2>4, <1>11, <1>2 DEF Prepared
<1>17. PICK e : e = NowMerged(v, roster, keep, p)
  OBVIOUS
<1>18. PICK w : w = PerformStack(v, e)
  OBVIOUS
<1>19. s = [w EXCEPT !.active = keep]
  BY <1>1, <1>3, <1>4, <1>9, <1>12, <1>14, <1>17, <1>18, ZenonT(60) DEF MergeLayer, NowMerged
<1>20. RosterIs(v.made, roster, FALSE, keep, p, e) /\ p # NoPic
  <2>1. Sane(v, g)
    BY <1>2 DEF Good, Prepared
  <2>2. e = StackMerged(roster, keep, p)
    BY <2>1, <1>17, RosterMergedIs
  <2> QED
    BY <2>2, <1>13, <1>15, <1>16, MergedFields
<1>21. Restackable(v, g, roster, keep)
  BY <1>2, <1>10, <1>11, <1>13 DEF Restackable, Prepared
<1>22. Good(v, g, t) /\ v.open = <<>> /\ v.lift = 0
  BY <1>2 DEF Prepared
<1>23. RestackedGood(v, roster, w, g, t)
  BY <1>13, <1>15, <1>16, <1>18, <1>20, <1>21, <1>22, PerformStackGood
<1>24. Good(w, g, t) /\ w.lift = 0 /\ keep \in LayersOf(w.stack)
  BY <1>10, <1>11, <1>13, <1>22, <1>23 DEF RestackedGood
<1> QED
  BY <1>19, <1>24, ActivatedGood

----------------------------------------------------------------------------
(* Text boxes.                                                             *)

(* The page but for its text boxes and the numbers given out.              *)
Written(d, s) ==
  /\ s.book = d.book /\ s.cursor = d.cursor /\ s.since = d.since /\ s.stack = d.stack
  /\ s.active = d.active /\ s.pic = d.pic /\ s.open = d.open /\ s.lift = d.lift

Reworded(d, text, sel, before, fresh, made) ==
  [d EXCEPT !.text = text, !.sel = sel, !.before = before, !.fresh = fresh, !.made = made]

IsReworded(d, s, text, sel, before, fresh, k) ==
  /\ s \in Docs(k) /\ Written(d, s) /\ s.made = k /\ s.text = text /\ s.sel = sel
  /\ s.before = before /\ s.fresh = fresh

(* Other words in the boxes: every other field stays.                      *)
LEMMA DocWritten ==
  ASSUME NEW m \in Nat, NEW d \in Docs(m), NEW k \in Nat, m <= k, NEW text \in [Boxes -> -k .. k],
         NEW sel \in Boxes \cup {NoBox}, NEW before \in -k .. k, NEW fresh \in Boxes \cup {NoBox},
         NEW s, s = Reworded(d, text, sel, before, fresh, k)
  PROVE  IsReworded(d, s, text, sel, before, fresh, k)
<1>1. Rasters(m) \subseteq Rasters(k) /\ Fields(m) \subseteq Fields(k) /\ Entries(m) \subseteq Entries(k)
  BY Grows
<1>2. Seq(Fields(m)) \subseteq Seq(Fields(k)) /\ Seq(Entries(m)) \subseteq Seq(Entries(k))
  BY <1>1
<1>3. d.pic \in [Layers -> Rasters(k)]
  BY <1>1 DEF Docs
<1>4. d.open \in Seq(Fields(k)) /\ d.book \in Seq(Entries(k))
  BY <1>2 DEF Docs
<1>5. 0 .. m \subseteq 0 .. k
  OBVIOUS
<1> QED
  BY <1>3, <1>4, <1>5 DEF Docs, Reworded, Written, IsReworded

(* Only words have changed: the picture has not.                           *)
LEMMA WrittenPaged ==
  ASSUME NEW d, NEW g, NEW t, Paged(d, g, t), NEW s, Written(d, s), s \in Docs(s.made),
         s.made \in Nat, d.made <= s.made, s.sel # NoBox => s.text[s.sel] # NoText
  PROVE  Paged(s, g, t) /\ PathOf(s) = PathOf(d) /\ (Pictured(d, g) => Pictured(s, g))
<1>1. PathOf(s) = PathOf(d)
  BY DEF Written, PathOf
<1>2. Sane(d, g)
  BY DEF Paged
<1>3. s.made \in Nat \ {0}
  BY <1>2 DEF Sane
<1>4. g \in [pic : [Layers -> Rasters(s.made)], stack : Seq(Faces)]
  <2>1. d.made \in Nat /\ g \in [pic : [Layers -> Rasters(d.made)], stack : Seq(Faces)]
    BY <1>2 DEF Sane
  <2>2. Rasters(d.made) \subseteq Rasters(s.made)
    BY <2>1, Grows
  <2>3. [Layers -> Rasters(d.made)] \subseteq [Layers -> Rasters(s.made)]
    BY <2>2
  <2> QED
    BY <2>1, <2>3
<1>5. Sane(s, g)
  <2>1. Returns(d)
    BY <1>2 DEF Sane
  <2>2. Returns(s)
    BY <2>1 DEF Returns, Bare, Written
  <2> QED
    BY <2>2, <1>2, <1>3, <1>4 DEF Sane, Written, Open
<1>6. ASSUME Pictured(d, g) PROVE Pictured(s, g)
  <2>1. Carried(s) = Carried(d) /\ \A l : Wet(s, l) = Wet(d, l)
    BY DEF Carried, Wet, Written
  <2>2. \A l \in LayersOf(s.stack) : Shows(s, g, l)
    BY <1>1, <1>6, <2>1 DEF Pictured, Shows, Written
  <2>3. SnapshotDue(s, s.active) = SnapshotDue(d, d.active)
    BY DEF SnapshotDue, Written
  <2> QED
    BY <1>1, <1>6, <2>1, <2>2, <2>3 DEF Pictured, Written
<1> QED
  BY <1>1, <1>5, <1>6 DEF Paged, Written

(* The boxes a text entry is about that page s has and page d had not yet. *)
Between(d, s) ==
  {b \in Boxes : \E n \in Len(d.book) + 1 .. Len(s.book) : s.book[n].kind = "text" /\ s.book[n].box = b}

(* A page whose notebook has not grown: no box has a new entry.            *)
LEMMA NoneBetween ==
  ASSUME NEW d, NEW g, Sane(d, g), NEW s, s.book = d.book
  PROVE  Between(d, s) = {}
<1>1. PICK n \in Nat : n = Len(d.book)
  BY DocFields DEF Sane
<1>2. n + 1 .. n = {}
  OBVIOUS
<1> QED
  BY <1>1, <1>2 DEF Between

(* Sealing a stroke says nothing of a text box.                            *)
LEMMA SealSays ==
  ASSUME NEW x, NEW g, Sane(x, g), NEW s, s = SealOpenOp(x)
  PROVE  \A d : Between(d, s) \subseteq Between(d, x)
<1>1. PICK o : o = [x EXCEPT !.open = <<>>]
  OBVIOUS
<1>2. Sane(o, g) /\ o.book = x.book /\ o.cursor = x.cursor /\ o.made = x.made
  BY <1>1, SaneClosed
<1>3. CASE s.book = x.book
  BY <1>3 DEF Between
<1>4. CASE s.book # x.book
  <2>1. PICK e : e = x.open[1]
    OBVIOUS
  <2>2. s = Recorded(o, e) /\ x.open # <<>> /\ e.mark # 0
    BY <1>1, <1>2, <1>4, <2>1 DEF SealOpenOp
  <2>3. Len(x.open) = 1 /\ Open(x, e) /\ e \in Fields(x.made)
    <3>1. Len(x.open) = 1 /\ Open(x, e) /\ x \in Docs(x.made)
      BY <2>1, <2>2 DEF Sane
    <3>2. x.open \in Seq(Fields(x.made))
      BY <3>1 DEF Docs
    <3> QED
      BY <3>1, <3>2, <2>1
  <2>4. e \in Entries(o.made) /\ e.kind = "dab"
    <3>1. NoLayer \notin LayersOf(x.stack)
      BY SaneLayers
    <3> QED
      BY <3>1, <1>2, <2>2, <2>3 DEF Open, Entries, Formed
  <2>5. Entered(o, e, s)
    BY <1>2, <2>2, <2>4, RecordedEnters
  <2>6. PICK p, n : p = Placed(e, o.cursor) /\ n = Len(x.book)
    OBVIOUS
  <2>7. p.kind = "dab"
    BY <2>4, <2>6 DEF Placed, Entries, Fields
  <2>8. /\ n \in Nat /\ Len(s.book) = n + 1 /\ s.book[n + 1] = p
        /\ \A i \in 1 .. n : s.book[i] = x.book[i]
    BY <1>2, <2>5, <2>6 DEF Entered, OneMore
  <2>9. SUFFICES ASSUME NEW d, NEW b \in Boxes, NEW i \in Len(d.book) + 1 .. n + 1,
                        s.book[i].kind = "text", s.book[i].box = b
                 PROVE  \E j \in Len(d.book) + 1 .. n : x.book[j].kind = "text" /\ x.book[j].box = b
    BY <2>6, <2>8 DEF Between
  <2>10. i # n + 1
    BY <2>7, <2>8, <2>9
  <2> QED
    BY <2>8, <2>9, <2>10
<1> QED
  BY <1>3, <1>4

TextEntry(b, val, keyframe) ==
  [Blank EXCEPT !.kind = "text", !.author = NoAuthor, !.box = b, !.val = val,
                !.removed = (val = NoText), !.keyframe = keyframe]
TextFrom(blank, b, val, removed, keyframe) ==
  [blank EXCEPT !.kind = "text", !.author = NoAuthor, !.box = b, !.val = val,
                !.removed = removed, !.keyframe = keyframe]

TextEntryIs(m, b, val, keyframe, e) ==
  /\ e \in Entries(m) /\ e.kind = "text" /\ e.layer = NoLayer /\ e.box = b /\ e.val = val
  /\ e.roster = <<>>
  /\ (e.removed <=> val = NoText)
  /\ ~Structural(e) /\ ~Keyframes(e) /\ (Marks(e) <=> ~keyframe)

(* The fields of an entry about a text box.                                *)
LEMMA TextFields ==
  ASSUME NEW m \in Nat, NEW b \in Boxes, NEW val \in -m .. m, NEW keyframe \in BOOLEAN
  PROVE  TextEntryIs(m, b, val, keyframe, TextEntry(b, val, keyframe))
<1>1. BlankIs(m, Blank)
  BY BlankHolds
<1>2. PICK blank : blank = Blank
  OBVIOUS
<1>3. blank \in Fields(m) /\ blank.layer = NoLayer /\ blank.roster = <<>> /\ blank.pic = NoPic
  BY <1>1, <1>2 DEF BlankIs
<1>4. PICK removed \in BOOLEAN : removed <=> val = NoText
  OBVIOUS
<1>5. PICK e : e = TextFrom(blank, b, val, removed, keyframe)
  OBVIOUS
<1>6. /\ e \in Fields(m) /\ e.kind = "text" /\ e.layer = NoLayer /\ e.box = b /\ e.val = val
      /\ e.roster = <<>> /\ e.removed = removed /\ e.pic = NoPic /\ e.keyframe = keyframe
  BY <1>3, <1>5, ZenonT(60) DEF TextFrom, Fields, Kinds
<1>7. removed = (val = NoText)
  BY <1>4
<1>8. TextEntry(b, val, keyframe) = e
  BY <1>2, <1>5, <1>7 DEF TextEntry, TextFrom
<1>9. e \in Entries(m)
  BY <1>6 DEF Entries, Formed
<1>10. ~Structural(e) /\ ~Keyframes(e)
  BY <1>6 DEF Structural, Keyframes
<1>11. Marks(e) <=> ~keyframe
  BY <1>6 DEF Marks, Retraction
<1> QED
  BY <1>4, <1>6, <1>8, <1>9, <1>10, <1>11 DEF TextEntryIs

(* A notebook no mark has been made in yet.                                *)
Unmade(book) == \A n \in DOMAIN book : ~Marks(book[n])

(* In a notebook without marks no way has one.                             *)
LEMMA UnmadeIs ==
  ASSUME NEW d, NEW g, Sane(d, g), Unmade(d.book)
  PROVE  Unmarked(d.book, d.cursor)
<1>1. /\ d.book \in Seq(Entries(d.made)) /\ Tree(d.book) /\ d.cursor \in 0 .. Len(d.book)
      /\ DOMAIN d.book = 1 .. Len(d.book)
  BY DocFields DEF Sane
<1>2. Way(d.book, d.cursor) \in SUBSET (1 .. d.cursor)
  BY <1>1, WayIs
<1> QED
  BY <1>1, <1>2 DEF Unmade, Unmarked

(* One word about a text box: the picture is as it was.                    *)
RecordedText(d, s, b, val, g, t) ==
  /\ Paged(s, g, t) /\ s.open = <<>> /\ (Pictured(d, g) => Pictured(s, g))
  /\ s.made = d.made /\ s.text = d.text /\ s.sel = d.sel /\ s.before = d.before
  /\ s.fresh = d.fresh /\ s.lift = d.lift /\ s.stack = d.stack /\ s.pic = d.pic
  /\ Between(d, s) \subseteq {b}
  /\ \A c \in Boxes : TextOf(PathOf(s), Boxes)[c] =
                        IF c = b THEN val ELSE TextOf(PathOf(d), Boxes)[c]

(* After recordText the path says of its box what was written, and of every*)
(* other box what it said.                                                 *)
LEMMA RecordTextIs ==
  ASSUME NEW d, NEW g, NEW t, Paged(d, g, t), NEW b \in Boxes, NEW val \in -(d.made) .. d.made,
         NEW keyframe \in BOOLEAN, keyframe => d.open = <<>> /\ Unmade(d.book),
         NEW s, s = RecordText(d, b, val, keyframe)
  PROVE  RecordedText(d, s, b, val, g, t) /\ (keyframe => s.open = <<>> /\ Unmade(s.book))
<1>1. PICK u : u = SealOpenOp(d)
  OBVIOUS
<1>2. Paged(u, g, t) /\ u.open = <<>> /\ Same(d, u, g) /\ (Pictured(d, g) => Pictured(u, g))
  BY <1>1, SealPaged
<1>3. PICK m \in Nat : m = u.made /\ u \in Docs(m)
  BY <1>2 DEF Paged, Sane
<1>4. Sane(u, g) /\ m = d.made
  BY <1>2, <1>3 DEF Paged, Same
<1>5. PICK e : e = TextEntry(b, val, keyframe)
  OBVIOUS
<1>6. TextEntryIs(m, b, val, keyframe, e)
  BY <1>4, <1>5, TextFields
<1>7. /\ e \in Entries(m) /\ e.kind = "text" /\ e.layer = NoLayer /\ e.box = b /\ e.val = val
      /\ e.roster = <<>> /\ (e.removed <=> val = NoText) /\ ~Structural(e) /\ ~Keyframes(e)
      /\ (Marks(e) <=> ~keyframe)
  BY <1>6 DEF TextEntryIs
<1>8. s = Recorded(u, e)
  <2>1. d.author = NoAuthor
    BY DocFields DEF Paged, Sane
  <2> QED
    BY <2>1, <1>1, <1>5 DEF RecordText, TextEntry
<1>9. Entered(u, e, s)
  BY <1>3, <1>4, <1>7, <1>8, RecordedEnters
<1>10a. ASSUME keyframe PROVE u = d /\ Unmarked(u.book, u.cursor) /\ Unmade(s.book)
  <2>1. u = d
    BY <1>1, <1>10a DEF SealOpenOp
  <2>2. Unmarked(u.book, u.cursor)
    BY <2>1, <1>4, <1>10a, UnmadeIs
  <2>3. PICK p, n : p = Placed(e, u.cursor) /\ n = Len(u.book)
    OBVIOUS
  <2>4. u.cursor \in Nat
    BY <1>3, DocFields
  <2>5. p.kind = e.kind /\ p.keyframe = e.keyframe
    BY <2>3, <2>4, <1>7, PlacedIs, ZenonT(60)
  <2>6. ~Marks(p)
    BY <2>5, <1>7, <1>10a DEF Marks, Retraction
  <2>7. /\ DOMAIN s.book = 1 .. n + 1 /\ DOMAIN u.book = 1 .. n /\ n \in Nat
        /\ s.book[n + 1] = p /\ \A i \in 1 .. n : s.book[i] = u.book[i]
    BY <2>3, <1>9 DEF Entered, OneMore
  <2>8. Unmade(s.book)
    <3> SUFFICES ASSUME NEW i \in 1 .. n + 1 PROVE ~Marks(s.book[i])
      BY <2>7 DEF Unmade
    <3>1. CASE i = n + 1
      BY <3>1, <2>6, <2>7
    <3>2. CASE i \in 1 .. n
      BY <3>2, <2>1, <2>7, <1>10a DEF Unmade
    <3> QED
      BY <3>1, <3>2, <2>7
  <2> QED
    BY <2>1, <2>2, <2>8
<1>10. Sane(s, g)
  <2>1. e.kind = "text" /\ ~Marks(e) => Unmarked(u.book, u.cursor)
    BY <1>7, <1>10a
  <2> QED
    BY <2>1, <1>3, <1>4, <1>7, <1>9, RecordSane
<1>11. /\ s.made = u.made /\ s.text = u.text /\ s.sel = u.sel /\ s.before = u.before
       /\ s.fresh = u.fresh /\ s.lift = u.lift /\ s.open = u.open /\ s.stack = u.stack
       /\ s.active = u.active /\ s.pic = u.pic
       /\ \A l \in Layers : s.since[l] = u.since[l]
  BY <1>7, <1>9, NoNameAssumption DEF Entered
<1>12. Reads(u, e, s, g)
  BY <1>3, <1>4, <1>7, <1>9, RecordReads
<1>13. ASSUME Pictured(u, g) PROVE Pictured(s, g)
  <2>1. Pictured(u, g)
    BY <1>13
  <2>2. LayersOf(u.stack) \subseteq Layers /\ u.active \in Layers
    BY <1>4, SaneLayers
  <2>3. \A l \in Layers : Ink(g, PathOf(s), l) = Ink(g, PathOf(u), l)
    BY <1>7, <1>12, NoNameAssumption DEF Reads
  <2>4. Carried(s) = Carried(u) /\ \A l : Wet(s, l) = Wet(u, l)
    BY <1>11 DEF Carried, Wet
  <2>5. \A l \in LayersOf(s.stack) : Shows(s, g, l)
    <3> SUFFICES ASSUME NEW l \in LayersOf(u.stack) PROVE Shows(s, g, l)
      BY <1>11
    <3>1. Shows(u, g, l) /\ l \in Layers
      BY <2>1, <2>2 DEF Pictured
    <3> QED
      BY <3>1, <2>3, <2>4, <1>11 DEF Shows
  <2>6. s.stack = RosterOf(PathOf(s), g.stack)
    BY <2>1, <1>7, <1>11, <1>12 DEF Reads, Pictured
  <2>7. TruthOf(e, PathOf(u), g)
    BY <1>7 DEF TruthOf
  <2>8. \A n \in DOMAIN s.book : Truthful(s.book, g, n)
    BY <2>1, <2>7, <1>12 DEF Reads, Pictured
  <2>9. SnapshotDue(s, s.active) = SnapshotDue(u, u.active)
    BY <2>2, <1>11 DEF SnapshotDue
  <2>10. Carried(s) => /\ s.open = <<>> /\ ~SnapshotDue(s, s.active)
                       /\ s.lift \notin ToSet(Ink(g, PathOf(s), s.active))
    BY <2>1, <2>2, <2>3, <2>4, <2>9, <1>11 DEF Pictured
  <2> QED
    BY <2>5, <2>6, <2>8, <2>10 DEF Pictured
<1>14. ASSUME NEW c \in Boxes
       PROVE  TextOf(PathOf(s), Boxes)[c] = IF c = b THEN val ELSE TextOf(PathOf(d), Boxes)[c]
  <2>1. PICK p : p = Placed(e, u.cursor)
    OBVIOUS
  <2>2. u.cursor \in Nat
    BY <1>3, DocFields
  <2>3a. p \in Entries(m) /\ p.kind = e.kind /\ p.box = e.box /\ p.val = e.val /\ p.removed = e.removed
    BY <2>1, <2>2, <1>7, PlacedIs, ZenonT(60)
  <2>3. p \in Entries(m) /\ p.kind = "text" /\ p.box = b /\ p.val = val /\ (p.removed <=> val = NoText)
    BY <2>3a, <1>7
  <2>4. PathOf(s) = Append(PathOf(u), p) /\ PathOf(u) \in Seq(Entries(m))
    BY <2>1, <1>3, <1>9 DEF Entered
  <2>5. TextOf(PathOf(s), Boxes)[c] = IF p.kind = "text" /\ p.box = c
              THEN IF p.removed THEN 0 ELSE p.val ELSE TextOf(PathOf(u), Boxes)[c]
    BY <2>3, <2>4, TextStep
  <2>6. TextOf(PathOf(u), Boxes)[c] = TextOf(PathOf(d), Boxes)[c]
    BY <1>2 DEF Same
  <2> QED
    BY <2>3, <2>5, <2>6 DEF NoText
<1>15. Paged(s, g, t)
  BY <1>2, <1>10, <1>12, <1>13 DEF Paged, Reads
<1>16. Between(d, s) \subseteq {b}
  <2>1. Sane(d, g) /\ Between(d, d) = {}
    BY NoneBetween DEF Paged
  <2>2. Between(d, u) = {}
    BY <2>1, <1>1, SealSays
  <2>3. PICK k, n : k = Len(d.book) /\ n = Len(u.book)
    OBVIOUS
  <2>4. k \in Nat
    BY <2>1, <2>3, DocFields DEF Sane
  <2>5. PICK p : p = Placed(e, u.cursor)
    OBVIOUS
  <2>6. u.cursor \in Nat
    BY <1>3, DocFields
  <2>7. p.box = b
    BY <2>5, <2>6, <1>7, PlacedIs, ZenonT(60)
  <2>8. /\ n \in Nat /\ Len(s.book) = n + 1 /\ s.book[n + 1] = p
        /\ \A i \in 1 .. n : s.book[i] = u.book[i]
    BY <2>3, <2>5, <1>9 DEF Entered, OneMore
  <2>9. ASSUME NEW c \in Between(d, s) PROVE c = b
    <3>1. PICK i \in k + 1 .. n + 1 : s.book[i].kind = "text" /\ s.book[i].box = c
      BY <2>3, <2>8, <2>9 DEF Between
    <3>2. CASE i = n + 1
      BY <3>1, <3>2, <2>7, <2>8
    <3>3. CASE i # n + 1
      <4>1. i \in k + 1 .. n /\ u.book[i] = s.book[i]
        BY <3>3, <2>4, <2>8
      <4>2. c \in Between(d, u)
        BY <3>1, <4>1, <2>3, <2>9 DEF Between
      <4> QED
        BY <4>2, <2>2
    <3> QED
      BY <3>2, <3>3
  <2> QED
    BY <2>9
<1> QED
  BY <1>2, <1>10a, <1>11, <1>13, <1>14, <1>15, <1>16 DEF RecordedText, Same

(* The page with other words in its boxes.                                 *)
RewordedIs(d, s, text, sel, before, fresh, k, g, t) ==
  /\ Paged(s, g, t) /\ PathOf(s) = PathOf(d) /\ s.text = text /\ s.sel = sel
  /\ s.before = before /\ s.fresh = fresh /\ s.made = k /\ s.lift = d.lift /\ s.open = d.open
  /\ s.book = d.book /\ (Pictured(d, g) => Pictured(s, g))

(* Other words leave the picture as it was.                                *)
LEMMA RewordedPaged ==
  ASSUME NEW d, NEW g, NEW t, Paged(d, g, t), NEW k \in Nat, d.made <= k,
         NEW text \in [Boxes -> -k .. k], NEW sel \in Boxes \cup {NoBox}, NEW before \in -k .. k,
         NEW fresh \in Boxes \cup {NoBox}, sel # NoBox => text[sel] # NoText,
         NEW s, s = Reworded(d, text, sel, before, fresh, k)
  PROVE  RewordedIs(d, s, text, sel, before, fresh, k, g, t)
<1>1. PICK m \in Nat : m = d.made /\ d \in Docs(m) /\ m <= k
  BY DEF Paged, Sane
<1>1a. IsReworded(d, s, text, sel, before, fresh, k)
  BY <1>1, DocWritten
<1>2. /\ s \in Docs(k) /\ Written(d, s) /\ s.made = k /\ s.text = text /\ s.sel = sel
      /\ s.before = before /\ s.fresh = fresh
  BY <1>1a DEF IsReworded
<1>3. Paged(s, g, t) /\ PathOf(s) = PathOf(d) /\ (Pictured(d, g) => Pictured(s, g))
  BY <1>2, WrittenPaged
<1> QED
  BY <1>2, <1>3 DEF RewordedIs, Written

WordFields(d, m) ==
  /\ m \in Nat \ {0} /\ d.made = m /\ d \in Docs(m) /\ d.text \in [Boxes -> -m .. m]
  /\ d.sel \in Boxes \cup {NoBox} /\ d.fresh \in Boxes \cup {NoBox} /\ d.before \in -m .. m
  /\ (d.sel # NoBox => d.text[d.sel] # NoText) /\ NoBox \notin Boxes
  /\ NoText \in -m .. m /\ EmptyText \in -m .. m /\ d.lift \in 0 .. m

(* The fields of a page its text boxes are kept in.                        *)
LEMMA WordFieldsOf ==
  ASSUME NEW d, NEW g, Sane(d, g), NEW m, m = d.made
  PROVE  WordFields(d, m)
<1>1. m \in Nat \ {0} /\ d \in Docs(m) /\ (d.sel # NoBox => d.text[d.sel] # NoText)
  BY DEF Sane
<1>2. /\ d.text \in [Boxes -> -m .. m] /\ d.sel \in Boxes \cup {NoBox} /\ d.before \in -m .. m
      /\ d.fresh \in Boxes \cup {NoBox} /\ d.lift \in 0 .. m
  BY <1>1, DocFields
<1>3. NoText \in -m .. m /\ EmptyText \in -m .. m
  BY <1>1 DEF NoText, EmptyText
<1> QED
  BY <1>1, <1>2, <1>3, NoNameAssumption DEF WordFields

SaidOn(d) == TextOf(PathOf(d), Boxes)

(* Of the boxes in w, those with no new entry when page d has become s, and *)
(* a box the record has that went as if it had never been recorded.        *)
Dropped(d, s) ==
  {b \in Boxes : d.text[b] # NoText /\ d.fresh = b /\ s.text[b] = NoText /\ SaidOn(d)[b] # NoText}
After(d, w, s) == (w \ Between(d, s)) \cup Dropped(d, s)

(* Fewer boxes to follow the path are no harder.                           *)
LEMMA WordsOfMore ==
  ASSUME NEW d, NEW w, NEW v, WordsOf(d, w), w \cap Boxes \subseteq v, d.sel \in Boxes \cup {NoBox}
  PROVE  WordsOf(d, v)
BY NoNameAssumption DEF WordsOf

(* With no box open, every box but those in w says what the path says.     *)
Settled(d, w) ==
  d.sel = NoBox /\ \A b \in Boxes \ w : Unsaid(d.text[b], SaidOn(d)[b])

(* With no box open, boxes that say what the path says are all the text    *)
(* invariant asks.                                                         *)
LEMMA SettledWords ==
  ASSUME NEW d, NEW w, Settled(d, w)
  PROVE  WordsOf(d, w)
BY DEF Settled, WordsOf, SaidOn

(* The edit of box b as it ends, on a page where b has been deselected.    *)
Editing(d, b, w, g, t) ==
  /\ Paged(d, g, t) /\ d.sel = NoBox /\ d.text[b] # NoText
  /\ \A c \in Boxes \ w : c # b => Unsaid(d.text[c], SaidOn(d)[c])
  /\ b \notin w /\ d.text[b] = d.before => Unsaid(d.text[b], SaidOn(d)[b])

EditEnded(d, s, b, w, g, t) ==
  /\ Paged(s, g, t) /\ Settled(s, After(d, w, s)) /\ s.lift = d.lift /\ s.made = d.made
  /\ Pictured(d, g) => Pictured(s, g)
  /\ \A c \in Boxes : c # b => s.text[c] = d.text[c] /\ SaidOn(s)[c] = SaidOn(d)[c]

(* An edit ends: the box is on the path as it stands, or goes if no edit   *)
(* has ended since it was added and it has no words (endTextEdit).         *)
LEMMA EndEditGood ==
  ASSUME NEW d, NEW g, NEW t, NEW b \in Boxes, NEW w, Editing(d, b, w, g, t),
         NEW s, s = EndTextEdit(d, b)
  PROVE  EditEnded(d, s, b, w, g, t)
<1>1. Paged(d, g, t) /\ Sane(d, g) /\ d.text[b] # NoText /\ d.sel = NoBox /\ b # NoBox
  BY NoNameAssumption DEF Editing, Paged
<1>2. PICK m : m = d.made
  OBVIOUS
<1>3. WordFields(d, m)
  BY <1>1, <1>2, WordFieldsOf
<1>4. PICK x : x = [d EXCEPT !.fresh = NoBox]
  OBVIOUS
<1>5. x = Reworded(d, d.text, NoBox, d.before, NoBox, m)
  BY <1>1, <1>3, <1>4 DEF WordFields, Docs, Reworded
<1>6. RewordedIs(d, x, d.text, NoBox, d.before, NoBox, m, g, t)
  BY <1>1, <1>3, <1>5, RewordedPaged DEF WordFields
<1>7. /\ Paged(x, g, t) /\ SaidOn(x) = SaidOn(d) /\ x.text = d.text /\ x.sel = NoBox
      /\ x.book = d.book /\ x.before = d.before /\ x.fresh = NoBox /\ x.made = m
      /\ x.lift = d.lift /\ (Pictured(d, g) => Pictured(x, g))
  BY <1>6 DEF RewordedIs, SaidOn
<1>8. CASE d.fresh = b /\ Wordless(d.text[b])
  <2>1. s = [x EXCEPT !.text[b] = NoText]
    BY <1>1, <1>4, <1>8 DEF EndTextEdit
  <2>2. PICK text : text = [d.text EXCEPT ![b] = NoText]
    OBVIOUS
  <2>3. text \in [Boxes -> -m .. m] /\ text[b] = NoText /\ \A c \in Boxes : c # b => text[c] = d.text[c]
    BY <1>3, <2>2 DEF WordFields
  <2>4. s = Reworded(d, text, NoBox, d.before, NoBox, m)
    BY <1>1, <1>3, <1>4, <2>1, <2>2, ZenonT(60) DEF WordFields, Docs, Reworded
  <2>5. RewordedIs(d, s, text, NoBox, d.before, NoBox, m, g, t)
    BY <1>1, <1>3, <2>3, <2>4, RewordedPaged DEF WordFields
  <2>6. /\ Paged(s, g, t) /\ SaidOn(s) = SaidOn(d) /\ s.text = text /\ s.sel = NoBox
        /\ s.book = d.book /\ s.made = m /\ s.lift = d.lift
        /\ Pictured(d, g) => Pictured(s, g)
    BY <2>5 DEF RewordedIs, SaidOn
  <2>7. b \in Dropped(d, s) \/ SaidOn(d)[b] = NoText
    BY <1>1, <1>8, <2>3, <2>6 DEF Dropped
  <2>8. Between(d, s) = {}
    BY <1>1, <2>6, NoneBetween
  <2>9. ASSUME NEW c \in Boxes \ After(d, w, s) PROVE Unsaid(s.text[c], SaidOn(s)[c])
    <3>1. c \notin w /\ c \notin Dropped(d, s)
      BY <2>8, <2>9 DEF After
    <3>2. CASE c = b
      BY <3>1, <3>2, <2>3, <2>6, <2>7 DEF Unsaid
    <3>3. CASE c # b
      BY <3>1, <3>3, <2>3, <2>6 DEF Editing
    <3> QED
      BY <3>2, <3>3
  <2> QED
    BY <1>2, <2>3, <2>6, <2>9 DEF EditEnded, Settled
<1>9. CASE ~(d.fresh = b /\ Wordless(d.text[b])) /\ (d.fresh = b \/ d.text[b] # d.before)
  <2>1. s = RecordText(x, b, d.text[b], FALSE)
    BY <1>1, <1>4, <1>9 DEF EndTextEdit
  <2>2. d.text[b] \in -(x.made) .. x.made
    BY <1>3, <1>7 DEF WordFields
  <2>3. RecordedText(x, s, b, d.text[b], g, t)
    BY <1>7, <2>1, <2>2, RecordTextIs
  <2>4. /\ Paged(s, g, t) /\ s.text = d.text /\ s.sel = NoBox /\ s.made = m
        /\ s.lift = d.lift /\ (Pictured(d, g) => Pictured(s, g))
        /\ \A c \in Boxes : SaidOn(s)[c] = IF c = b THEN d.text[b] ELSE SaidOn(d)[c]
    BY <1>7, <2>3 DEF RecordedText, SaidOn
  <2>5. Between(d, s) \subseteq {b}
    BY <1>7, <2>3 DEF RecordedText, Between
  <2>6. ASSUME NEW c \in Boxes \ After(d, w, s) PROVE Unsaid(s.text[c], SaidOn(s)[c])
    <3>1. CASE c = b
      BY <3>1, <2>4 DEF Unsaid
    <3>2. CASE c # b
      <4>1. c \notin w
        BY <3>2, <2>5, <2>6 DEF After
      <4> QED
        BY <3>2, <4>1, <2>4 DEF Editing
    <3> QED
      BY <3>1, <3>2
  <2> QED
    BY <1>2, <2>4, <2>6 DEF EditEnded, Settled
<1>10. CASE d.fresh # b /\ d.text[b] = d.before
  <2>1. s = x
    BY <1>1, <1>4, <1>10 DEF EndTextEdit
  <2>2. Between(d, s) = {}
    BY <1>1, <1>7, <2>1, NoneBetween
  <2>3. \A c \in Boxes \ After(d, w, s) : Unsaid(s.text[c], SaidOn(s)[c])
    BY <1>7, <1>10, <2>1, <2>2 DEF Editing, After
  <2> QED
    BY <1>2, <1>7, <2>1, <2>3 DEF EditEnded, Settled
<1> QED
  BY <1>8, <1>9, <1>10

(* The open box, deselected: its edit ends.                                *)
LEMMA DeselectGood ==
  ASSUME NEW d, NEW g, NEW t, NEW w, Paged(d, g, t), WordsOf(d, w),
         NEW s, s = EndTextEdit([d EXCEPT !.sel = NoBox], d.sel)
  PROVE  /\ Paged(s, g, t) /\ Settled(s, After(d, w, s)) /\ s.lift = d.lift
         /\ Pictured(d, g) => Pictured(s, g)
<1>1. Sane(d, g)
  BY DEF Paged
<1>2. PICK m : m = d.made
  OBVIOUS
<1>3. WordFields(d, m)
  BY <1>1, <1>2, WordFieldsOf
<1>4. PICK x : x = [d EXCEPT !.sel = NoBox]
  OBVIOUS
<1>5. x = Reworded(d, d.text, NoBox, d.before, d.fresh, m)
  BY <1>3, <1>4 DEF WordFields, Docs, Reworded
<1>6. RewordedIs(d, x, d.text, NoBox, d.before, d.fresh, m, g, t)
  BY <1>1, <1>3, <1>5, RewordedPaged DEF WordFields
<1>7. /\ Paged(x, g, t) /\ SaidOn(x) = SaidOn(d) /\ x.text = d.text /\ x.sel = NoBox
      /\ x.book = d.book /\ x.before = d.before /\ x.fresh = d.fresh /\ x.made = m
      /\ x.lift = d.lift /\ (Pictured(d, g) => Pictured(x, g))
  BY <1>6 DEF RewordedIs, SaidOn
<1>8. s = EndTextEdit(x, d.sel)
  BY <1>4
<1>9. /\ \A b \in Boxes \ w : b # d.sel => Unsaid(d.text[b], SaidOn(d)[b])
      /\ d.sel # NoBox /\ d.sel \notin w /\ d.text[d.sel] = d.before =>
           Unsaid(d.before, SaidOn(d)[d.sel])
  BY DEF WordsOf, SaidOn
<1>10. CASE d.sel = NoBox
  <2>1. s = x
    BY <1>8, <1>10 DEF EndTextEdit
  <2>2. \A b \in Boxes : b # d.sel
    BY <1>3, <1>10 DEF WordFields
  <2>3. Between(d, s) = {}
    BY <1>1, <1>7, <2>1, NoneBetween
  <2>4. \A b \in Boxes \ After(d, w, s) : Unsaid(s.text[b], SaidOn(s)[b])
    BY <1>7, <1>9, <2>1, <2>2, <2>3 DEF After
  <2> QED
    BY <1>7, <2>1, <2>4 DEF Settled
<1>11. CASE d.sel # NoBox
  <2>1. d.sel \in Boxes /\ d.text[d.sel] # NoText
    BY <1>3, <1>11 DEF WordFields
  <2>2. Editing(x, d.sel, w, g, t)
    BY <1>7, <1>9, <1>11, <2>1 DEF Editing
  <2>3. EditEnded(x, s, d.sel, w, g, t)
    BY <1>8, <2>1, <2>2, EndEditGood
  <2>4. After(x, w, s) = After(d, w, s)
    BY <1>7 DEF After, Between, Dropped
  <2> QED
    BY <1>7, <2>3, <2>4 DEF EditEnded
<1> QED
  BY <1>10, <1>11

(* A box is chosen, or none, on a page where every edit has ended.         *)
Chosen(s, b) ==
  IF b = NoBox \/ s.text[b] = NoText THEN s ELSE [s EXCEPT !.sel = b, !.before = s.text[b]]

(* A box is opened with the word the path has for it.                      *)
LEMMA ChosenGood ==
  ASSUME NEW d, NEW g, NEW t, NEW w, Paged(d, g, t), Settled(d, w), NEW b \in Boxes \cup {NoBox},
         NEW s, s = Chosen(d, b)
  PROVE  Paged(s, g, t) /\ WordsOf(s, w) /\ s.lift = d.lift /\ s.book = d.book /\ s.text = d.text
<1>1. Sane(d, g)
  BY DEF Paged
<1>2. CASE b = NoBox \/ d.text[b] = NoText
  BY <1>2, SettledWords DEF Chosen
<1>3. CASE b # NoBox /\ d.text[b] # NoText
  <2>1. PICK m : m = d.made
    OBVIOUS
  <2>2. WordFields(d, m)
    BY <1>1, <2>1, WordFieldsOf
  <2>3. b \in Boxes
    BY <1>3
  <2>4. PICK v \in -m .. m : v = d.text[b]
    BY <2>2, <2>3 DEF WordFields
  <2>5. s = [d EXCEPT !.sel = b, !.before = v]
    BY <1>3, <2>4 DEF Chosen
  <2>6. s = Reworded(d, d.text, b, v, d.fresh, m)
    BY <2>2, <2>5, ZenonT(60) DEF WordFields, Docs, Reworded
  <2>7. RewordedIs(d, s, d.text, b, v, d.fresh, m, g, t)
    BY <1>3, <2>2, <2>6, RewordedPaged DEF WordFields
  <2>8. /\ Paged(s, g, t) /\ SaidOn(s) = SaidOn(d) /\ s.text = d.text /\ s.sel = b
        /\ s.before = v /\ s.lift = d.lift /\ s.book = d.book
    BY <2>7 DEF RewordedIs, SaidOn
  <2>9. \A c \in Boxes \ w : Unsaid(s.text[c], SaidOn(s)[c])
    BY <2>8 DEF Settled
  <2>10. WordsOf(s, w)
    BY <2>3, <2>4, <2>8, <2>9 DEF WordsOf, SaidOn
  <2> QED
    BY <2>8, <2>10
<1> QED
  BY <1>2, <1>3

(* Another box is selected, or none: the edit of the one before has ended. *)
LEMMA SelectGood ==
  ASSUME NEW d, NEW g, NEW t, NEW w, Paged(d, g, t), WordsOf(d, w), NEW b \in Boxes \cup {NoBox},
         NEW s, s = SelectTextBox(d, b)
  PROVE  /\ Paged(s, g, t) /\ WordsOf(s, After(d, w, s)) /\ s.lift = d.lift
         /\ b = NoBox => /\ Settled(s, After(d, w, s))
                         /\ Pictured(d, g) => Pictured(s, g)
<1>0. Sane(d, g) /\ d.sel \in Boxes \cup {NoBox}
  BY DocFields DEF Paged, Sane
<1>1. CASE b = d.sel
  <2>1. s = d
    BY <1>1 DEF SelectTextBox
  <2>2. Between(d, s) = {}
    BY <1>0, <2>1, NoneBetween
  <2>3. w \subseteq After(d, w, s)
    BY <2>2 DEF After
  <2>4. WordsOf(s, After(d, w, s))
    BY <1>0, <2>1, <2>3, WordsOfMore
  <2>5. b = NoBox => Settled(s, After(d, w, s))
    BY <1>1, <2>1, <2>4, NoNameAssumption DEF WordsOf, Settled, SaidOn
  <2> QED
    BY <2>1, <2>4, <2>5
<1>2. CASE b # d.sel
  <2>1. PICK x : x = EndTextEdit([d EXCEPT !.sel = NoBox], d.sel)
    OBVIOUS
  <2>2. /\ Paged(x, g, t) /\ Settled(x, After(d, w, x)) /\ x.lift = d.lift
        /\ Pictured(d, g) => Pictured(x, g)
    BY <2>1, DeselectGood
  <2>3. s = Chosen(x, b)
    BY <1>2, <2>1 DEF SelectTextBox, Chosen
  <2>4. /\ Paged(s, g, t) /\ WordsOf(s, After(d, w, x)) /\ s.lift = x.lift
        /\ s.book = x.book /\ s.text = x.text
    BY <2>2, <2>3, ChosenGood
  <2>5. b = NoBox => s = x
    BY <2>3 DEF Chosen
  <2>6. After(d, w, x) = After(d, w, s)
    BY <2>4 DEF After, Between, Dropped
  <2> QED
    BY <2>2, <2>4, <2>5, <2>6
<1> QED
  BY <1>1, <1>2

(* What a page is when undo or redo begins.                                *)
LEMMA EndedGood ==
  ASSUME NEW d, NEW g, NEW t, NEW w, Paged(d, g, t), WordsOf(d, w), NEW s, s = Ended(d)
  PROVE  /\ Paged(s, g, t) /\ Settled(s, After(d, w, s)) /\ s.lift = d.lift /\ s.open = <<>>
         /\ Pictured(d, g) => Pictured(s, g)
<1>1. PICK x : x = IF d.sel = NoBox THEN d ELSE SelectTextBox(d, NoBox)
  OBVIOUS
<1>2. x = SelectTextBox(d, NoBox)
  BY <1>1 DEF SelectTextBox
<1>3. /\ Paged(x, g, t) /\ x.lift = d.lift /\ Settled(x, After(d, w, x))
      /\ Pictured(d, g) => Pictured(x, g)
  BY <1>2, SelectGood
<1>4. s = SealOpenOp(x)
  BY <1>1 DEF Ended
<1>5. Paged(s, g, t) /\ s.open = <<>> /\ Same(x, s, g) /\ (Pictured(x, g) => Pictured(s, g))
  BY <1>3, <1>4, SealPaged
<1>6. /\ s.text = x.text /\ s.sel = x.sel /\ s.lift = x.lift
      /\ \A b \in Boxes : SaidOn(s)[b] = SaidOn(x)[b]
  BY <1>5 DEF Same, SaidOn
<1>7. Between(d, s) \subseteq Between(d, x)
  BY <1>3, <1>4, SealSays DEF Paged
<1>8. After(d, w, x) \subseteq After(d, w, s)
  BY <1>6, <1>7 DEF After, Dropped
<1>9. Settled(s, After(d, w, s))
  BY <1>3, <1>6, <1>8 DEF Settled
<1> QED
  BY <1>3, <1>5, <1>6, <1>9

(* A box no entry is about: the path says nothing of it.                   *)
LEMMA NothingSaid ==
  ASSUME NEW d, NEW g, Sane(d, g), NEW b \in Boxes, \A n \in DOMAIN d.book : d.book[n].box # b
  PROVE  SaidOn(d)[b] = NoText
<1>1. PICK m \in Nat : m = d.made
  BY DEF Sane
<1>2. d.book \in Seq(Entries(m)) /\ Tree(d.book) /\ d.cursor \in 0 .. Len(d.book)
  BY <1>1, DocFields DEF Sane
<1>3. PICK book \in Seq(Entries(m)) : book = d.book
  BY <1>2
<1>4. PICK c \in 0 .. Len(book) : c = d.cursor
  BY <1>2, <1>3
<1>5. PICK path : path = Path(book, c)
  OBVIOUS
<1>6. path \in Seq(Entries(m)) /\ PathOf(d) = path
  BY <1>2, <1>3, <1>4, <1>5, PathStep DEF PathOf
<1>7. \A i \in 1 .. Len(Path(book, c)) : \E n \in 1 .. c : Path(book, c)[i] = book[n]
  BY <1>2, <1>3, PathInBook
<1>8. \A n \in 1 .. c : n \in DOMAIN d.book
  BY <1>3
<1>9. \A i \in DOMAIN path : path[i].box # b
  BY <1>3, <1>5, <1>6, <1>7, <1>8
<1>10. Said(path, b) = {}
  BY <1>9 DEF Said, Says
<1>11. TextOf(path, Boxes)[b] = 0
  BY <1>6, <1>10, LastSaidIs
<1> QED
  BY <1>6, <1>11 DEF SaidOn, NoText

(* A box is put on the page, empty and not open.                           *)
LEMMA AddTextGood ==
  ASSUME NEW d, NEW g, NEW t, NEW w, Paged(d, g, t), WordsOf(d, w), NEW b \in Boxes,
         d.text[b] = NoText, \A n \in DOMAIN d.book : d.book[n].box # b,
         NEW s, s = AddTextBox(d, b)
  PROVE  /\ Paged(s, g, t) /\ WordsOf(s, w) /\ s.book = d.book
         /\ \A u : Dropped(s, u) = {}
<1>1. Sane(d, g)
  BY DEF Paged
<1>2. PICK m : m = d.made
  OBVIOUS
<1>3. WordFields(d, m)
  BY <1>1, <1>2, WordFieldsOf
<1>4. b # d.sel
  BY <1>3 DEF WordFields
<1>5. SaidOn(d)[b] = NoText
  BY <1>1, NothingSaid
<1>6. PICK text : text = [d.text EXCEPT ![b] = EmptyText]
  OBVIOUS
<1>7. text \in [Boxes -> -m .. m] /\ text[b] = EmptyText /\ \A c \in Boxes : c # b => text[c] = d.text[c]
  BY <1>3, <1>6 DEF WordFields
<1>8. s = Reworded(d, text, d.sel, d.before, b, m)
  BY <1>3, <1>6 DEF WordFields, Docs, Reworded, AddTextBox
<1>9. d.sel # NoBox => text[d.sel] # NoText
  BY <1>3, <1>4, <1>7 DEF WordFields
<1>10. RewordedIs(d, s, text, d.sel, d.before, b, m, g, t)
  BY <1>3, <1>7, <1>8, <1>9, RewordedPaged DEF WordFields
<1>11. /\ Paged(s, g, t) /\ SaidOn(s) = SaidOn(d) /\ s.text = text /\ s.sel = d.sel
       /\ s.before = d.before /\ s.fresh = b /\ s.book = d.book
  BY <1>10 DEF RewordedIs, SaidOn
<1>12. Unsaid(EmptyText, SaidOn(d)[b])
  BY <1>5 DEF Unsaid, Wordless, EmptyText
<1>13. \A c \in Boxes \ w : c # s.sel => Unsaid(s.text[c], SaidOn(s)[c])
  BY <1>7, <1>11, <1>12 DEF WordsOf, SaidOn
<1>14. s.sel # NoBox => s.text[s.sel] = d.text[d.sel]
  BY <1>3, <1>4, <1>7, <1>11 DEF WordFields
<1>15. WordsOf(s, w)
  BY <1>11, <1>13, <1>14 DEF WordsOf, SaidOn
<1>16. \A u : Dropped(s, u) = {}
  BY <1>5, <1>11 DEF Dropped
<1> QED
  BY <1>11, <1>15, <1>16

(* A box is put down by the verb: it is not open, and nothing is said.     *)
LEMMA AddedGood ==
  ASSUME NEW d, NEW g, NEW t, NEW w, Paged(d, g, t), WordsOf(d, w), NEW b \in Boxes,
         d.text[b] = NoText, \A n \in DOMAIN d.book : d.book[n].box # b,
         NEW s, s = AddTextBox(d, b)
  PROVE  Paged(s, g, t) /\ WordsOf(s, After(d, w, s))
<1>1. Paged(s, g, t) /\ WordsOf(s, w) /\ s.book = d.book
  BY AddTextGood
<1>2. Between(d, s) = {}
  BY <1>1, NoneBetween DEF Paged
<1>3. s.sel \in Boxes \cup {NoBox}
  BY <1>1, DocFields DEF Paged, Sane
<1> QED
  BY <1>1, <1>2, <1>3, WordsOfMore DEF After

(* A box is put down, empty, and selected for typing.                      *)
LEMMA PlaceGood ==
  ASSUME NEW d, NEW g, NEW t, NEW w, Paged(d, g, t), WordsOf(d, w), NEW b \in Boxes,
         d.text[b] = NoText, \A n \in DOMAIN d.book : d.book[n].box # b,
         NEW s, s = PlaceTextBox(d, b)
  PROVE  Paged(s, g, t) /\ WordsOf(s, After(d, w, s))
<1>1. PICK y : y = AddTextBox(d, b)
  OBVIOUS
<1>2. Paged(y, g, t) /\ WordsOf(y, w) /\ y.book = d.book /\ \A u : Dropped(y, u) = {}
  BY <1>1, AddTextGood
<1>3. s = SelectTextBox(y, b)
  BY <1>1 DEF PlaceTextBox
<1>4. Paged(s, g, t) /\ WordsOf(s, After(y, w, s))
  BY <1>2, <1>3, SelectGood
<1>5. After(y, w, s) \subseteq After(d, w, s)
  BY <1>2 DEF After, Between
<1>6. s.sel \in Boxes \cup {NoBox}
  BY <1>4, DocFields DEF Paged, Sane
<1> QED
  BY <1>4, <1>5, <1>6, WordsOfMore

(* A change of a box, its words or its looks: a value it never had.        *)
ChangedBox(d, s, b, v, g, t) ==
  /\ Paged(s, g, t) /\ SaidOn(s) = SaidOn(d) /\ s.book = d.book /\ s.sel = d.sel
  /\ s.before = d.before /\ s.fresh = d.fresh /\ s.made \in Nat /\ v \in -(s.made) .. s.made
  /\ v # NoText /\ v # d.before /\ s.text[b] = v
  /\ \A c \in Boxes : c # b => s.text[c] = d.text[c]

(* Changing a box changes nothing else of the page.                        *)
LEMMA ChangedBoxIs ==
  ASSUME NEW d, NEW g, NEW t, Paged(d, g, t), NEW b \in Boxes, NEW words \in BOOLEAN,
         NEW s, s = Changed(d, b, words)
  PROVE  \E v : ChangedBox(d, s, b, v, g, t)
<1>1. Sane(d, g)
  BY DEF Paged
<1>2. PICK m : m = d.made
  OBVIOUS
<1>3. WordFields(d, m)
  BY <1>1, <1>2, WordFieldsOf
<1>4. PICK k \in Nat : k = m + 1
  BY <1>3 DEF WordFields
<1>5. PICK v : v = IF words THEN k ELSE -k
  OBVIOUS
<1>6. /\ m <= k /\ v # NoText /\ v \in -k .. k
      /\ \A i \in -m .. m : i \in -k .. k /\ i # v
  BY <1>3, <1>4, <1>5 DEF WordFields, NoText
<1>7. PICK text : text = [d.text EXCEPT ![b] = v]
  OBVIOUS
<1>8. text \in [Boxes -> -k .. k] /\ text[b] = v /\ \A c \in Boxes : c # b => text[c] = d.text[c]
  BY <1>3, <1>6, <1>7 DEF WordFields
<1>9. s = [d EXCEPT !.text[b] = v, !.made = k]
  BY <1>2, <1>3, <1>4, <1>5 DEF Changed, WordFields, Docs
<1>10. s = Reworded(d, text, d.sel, d.before, d.fresh, k)
  BY <1>3, <1>7, <1>9 DEF WordFields, Docs, Reworded
<1>11. d.before \in -k .. k /\ v # d.before
  BY <1>3, <1>6 DEF WordFields
<1>12. d.sel # NoBox => text[d.sel] # NoText
  BY <1>3, <1>6, <1>8 DEF WordFields
<1>13. RewordedIs(d, s, text, d.sel, d.before, d.fresh, k, g, t)
  <2>1. d.made <= k /\ d.sel \in Boxes \cup {NoBox} /\ d.fresh \in Boxes \cup {NoBox}
    BY <1>2, <1>3, <1>6 DEF WordFields
  <2> QED
    BY <1>8, <1>10, <1>11, <1>12, <2>1, RewordedPaged
<1>14. /\ Paged(s, g, t) /\ SaidOn(s) = SaidOn(d) /\ s.text = text /\ s.sel = d.sel
       /\ s.before = d.before /\ s.fresh = d.fresh /\ s.made = k /\ s.book = d.book
  BY <1>13 DEF RewordedIs, SaidOn
<1> QED
  BY <1>6, <1>8, <1>11, <1>14 DEF ChangedBox

(* A box is changed and its edit, if it is open, has still to end.         *)
LEMMA RestyleGood ==
  ASSUME NEW d, NEW g, NEW t, NEW w, Paged(d, g, t), WordsOf(d, w), NEW b \in Boxes,
         NEW s, s = Restyled(d, b)
  PROVE  Paged(s, g, t) /\ WordsOf(s, IF b = d.sel THEN w ELSE w \cup {b})
<1>1. PICK words \in BOOLEAN : words = ~Wordless(d.text[b])
  OBVIOUS
<1>2. s = Changed(d, b, words)
  BY <1>1 DEF Restyled
<1>3. PICK v : ChangedBox(d, s, b, v, g, t)
  BY <1>2, ChangedBoxIs
<1>4. /\ Paged(s, g, t) /\ SaidOn(s) = SaidOn(d) /\ s.sel = d.sel /\ s.before = d.before
      /\ v # d.before /\ s.text[b] = v /\ \A c \in Boxes : c # b => s.text[c] = d.text[c]
  BY <1>3 DEF ChangedBox
<1>5. d.sel \in Boxes \cup {NoBox}
  BY DocFields DEF Paged, Sane
<1>6. CASE b = d.sel
  <2>1. WordsOf(s, w)
    BY <1>4, <1>6 DEF WordsOf, SaidOn
  <2> QED
    BY <1>4, <1>6, <2>1
<1>7. CASE b # d.sel
  <2>1. WordsOf(s, w \cup {b})
    BY <1>4, <1>5, <1>7 DEF WordsOf, SaidOn
  <2> QED
    BY <1>4, <1>7, <2>1
<1> QED
  BY <1>6, <1>7

(* Words are set: of the open box when its edit ends, of another at once.  *)
LEMMA SetTextGood ==
  ASSUME NEW d, NEW g, NEW t, NEW w, Paged(d, g, t), WordsOf(d, w), NEW b \in Boxes,
         NEW words \in BOOLEAN, NEW s, s = SetTextBoxText(d, b, words)
  PROVE  Paged(s, g, t) /\ WordsOf(s, After(d, w, s))
<1>1. PICK x : x = Changed(d, b, words)
  OBVIOUS
<1>2. PICK v : ChangedBox(d, x, b, v, g, t)
  BY <1>1, ChangedBoxIs
<1>3. /\ Paged(x, g, t) /\ SaidOn(x) = SaidOn(d) /\ x.book = d.book /\ x.sel = d.sel
      /\ x.before = d.before /\ v \in -(x.made) .. x.made
      /\ v # d.before /\ x.text[b] = v /\ \A c \in Boxes : c # b => x.text[c] = d.text[c]
  BY <1>2 DEF ChangedBox
<1>4. d.sel \in Boxes \cup {NoBox} /\ Sane(d, g)
  BY DocFields DEF Paged, Sane
<1>5. CASE b = d.sel
  <2>1. s = x
    BY <1>1, <1>5 DEF SetTextBoxText
  <2>2. WordsOf(x, w)
    BY <1>3, <1>5 DEF WordsOf, SaidOn
  <2>3. Between(d, s) = {}
    BY <1>3, <1>4, <2>1, NoneBetween
  <2>4. w \cap Boxes \subseteq After(d, w, s)
    BY <2>3 DEF After
  <2> QED
    BY <1>3, <1>4, <2>1, <2>2, <2>4, WordsOfMore
<1>6. CASE b # d.sel
  <2>1. s = RecordText(x, b, v, FALSE)
    BY <1>1, <1>3, <1>6 DEF SetTextBoxText
  <2>2. RecordedText(x, s, b, v, g, t)
    BY <1>3, <2>1, RecordTextIs
  <2>3. /\ Paged(s, g, t) /\ s.text = x.text /\ s.sel = d.sel /\ s.before = d.before
        /\ \A c \in Boxes : SaidOn(s)[c] = IF c = b THEN v ELSE SaidOn(d)[c]
    BY <1>3, <2>2 DEF RecordedText, SaidOn
  <2>4. Between(d, s) \subseteq {b}
    BY <1>3, <2>2 DEF RecordedText, Between
  <2>5. ASSUME NEW c \in Boxes \ After(d, w, s), c # s.sel
        PROVE  Unsaid(s.text[c], SaidOn(s)[c])
    <3>1. CASE c = b
      BY <3>1, <1>3, <2>3 DEF Unsaid
    <3>2. CASE c # b
      <4>1. c \notin w
        BY <3>2, <2>4, <2>5 DEF After
      <4> QED
        BY <3>2, <4>1, <2>3, <2>5, <1>3 DEF WordsOf, SaidOn
    <3> QED
      BY <3>1, <3>2
  <2>6. ASSUME s.sel # NoBox, s.sel \notin After(d, w, s), s.text[s.sel] = s.before
        PROVE  Unsaid(s.before, SaidOn(s)[s.sel])
    <3>1. d.sel \in Boxes /\ d.sel # b /\ d.sel \notin w
      BY <1>4, <1>6, <2>3, <2>4, <2>6 DEF After
    <3>2. d.text[d.sel] = d.before /\ SaidOn(s)[d.sel] = SaidOn(d)[d.sel]
      BY <3>1, <1>3, <2>3, <2>6
    <3> QED
      BY <3>1, <3>2, <2>3, <2>6 DEF WordsOf, SaidOn
  <2>7. WordsOf(s, After(d, w, s))
    BY <2>5, <2>6 DEF WordsOf, SaidOn
  <2> QED
    BY <2>3, <2>7
<1> QED
  BY <1>5, <1>6

(* A box is removed: the path now says that it is gone, if its edit is not *)
(* the first since it was added.                                           *)
LEMMA RemoveGood ==
  ASSUME NEW d, NEW g, NEW t, NEW w, Paged(d, g, t), WordsOf(d, w), NEW b \in Boxes,
         d.text[b] # NoText, NEW s, s = RemoveTextBox(d, b)
  PROVE  Paged(s, g, t) /\ WordsOf(s, After(d, w, s))
<1>1. Sane(d, g)
  BY DEF Paged
<1>2. PICK m : m = d.made
  OBVIOUS
<1>3. WordFields(d, m)
  BY <1>1, <1>2, WordFieldsOf
<1>4. PICK sel : sel = IF d.sel = b THEN NoBox ELSE d.sel
  OBVIOUS
<1>5. PICK text : text = [d.text EXCEPT ![b] = NoText]
  OBVIOUS
<1>6. text \in [Boxes -> -m .. m] /\ text[b] = NoText /\ \A c \in Boxes : c # b => text[c] = d.text[c]
  BY <1>3, <1>5 DEF WordFields
<1>7. /\ sel \in Boxes \cup {NoBox}
      /\ (sel # NoBox => sel \in Boxes /\ sel # b /\ sel = d.sel /\ text[sel] # NoText)
  BY <1>3, <1>4, <1>6 DEF WordFields
<1>8. PICK x : x = [d EXCEPT !.text[b] = NoText, !.sel = IF @ = b THEN NoBox ELSE @]
  OBVIOUS
<1>9. x = Reworded(d, text, sel, d.before, d.fresh, m)
  BY <1>3, <1>4, <1>5, <1>8 DEF WordFields, Docs, Reworded
<1>10. RewordedIs(d, x, text, sel, d.before, d.fresh, m, g, t)
  BY <1>1, <1>3, <1>6, <1>7, <1>9, RewordedPaged DEF WordFields
<1>11. /\ Paged(x, g, t) /\ SaidOn(x) = SaidOn(d) /\ x.text = text /\ x.sel = sel
       /\ x.before = d.before /\ x.fresh = d.fresh /\ x.made = m /\ x.book = d.book
  BY <1>10 DEF RewordedIs, SaidOn
<1>12. /\ \A c \in Boxes \ w : c # d.sel => Unsaid(d.text[c], SaidOn(d)[c])
       /\ d.sel # NoBox /\ d.sel \notin w /\ d.text[d.sel] = d.before =>
            Unsaid(d.before, SaidOn(d)[d.sel])
  BY DEF WordsOf, SaidOn
<1>13. CASE d.fresh = b
  <2>1. s = [x EXCEPT !.fresh = NoBox]
    BY <1>8, <1>13 DEF RemoveTextBox
  <2>2. s = Reworded(d, text, sel, d.before, NoBox, m)
    BY <1>3, <1>9, <2>1 DEF WordFields, Docs, Reworded
  <2>3. RewordedIs(d, s, text, sel, d.before, NoBox, m, g, t)
    BY <1>1, <1>3, <1>6, <1>7, <2>2, RewordedPaged DEF WordFields
  <2>4. /\ Paged(s, g, t) /\ SaidOn(s) = SaidOn(d) /\ s.text = text /\ s.sel = sel
        /\ s.before = d.before /\ s.book = d.book
    BY <2>3 DEF RewordedIs, SaidOn
  <2>5. Between(d, s) = {}
    BY <1>1, <2>4, NoneBetween
  <2>6. b \in Dropped(d, s) \/ SaidOn(d)[b] = NoText
    BY <1>6, <1>13, <2>4 DEF Dropped
  <2>7. \A c : c \notin After(d, w, s) => c \notin w /\ c \notin Dropped(d, s)
    BY <2>5 DEF After
  <2>8. ASSUME NEW c \in Boxes \ After(d, w, s), c # s.sel
        PROVE  Unsaid(s.text[c], SaidOn(s)[c])
    <3>1. CASE c = b
      BY <3>1, <1>6, <2>4, <2>6, <2>7, <2>8 DEF Unsaid
    <3>2. CASE c # b
      BY <3>2, <1>4, <1>6, <1>12, <2>4, <2>7, <2>8
    <3> QED
      BY <3>1, <3>2
  <2>9. ASSUME s.sel # NoBox, s.sel \notin After(d, w, s), s.text[s.sel] = s.before
        PROVE  Unsaid(s.before, SaidOn(s)[s.sel])
    BY <1>6, <1>7, <1>12, <2>4, <2>7, <2>9
  <2>10. WordsOf(s, After(d, w, s))
    BY <2>8, <2>9 DEF WordsOf, SaidOn
  <2> QED
    BY <2>4, <2>10
<1>14. CASE d.fresh # b
  <2>1. s = RecordText(x, b, NoText, FALSE)
    BY <1>8, <1>14 DEF RemoveTextBox
  <2>2. NoText \in -(x.made) .. x.made
    BY <1>3, <1>11 DEF WordFields
  <2>3. RecordedText(x, s, b, NoText, g, t)
    BY <1>11, <2>1, <2>2, RecordTextIs
  <2>4. /\ Paged(s, g, t) /\ s.text = text /\ s.sel = sel /\ s.before = d.before
        /\ \A c \in Boxes : SaidOn(s)[c] = IF c = b THEN NoText ELSE SaidOn(d)[c]
    BY <1>11, <2>3 DEF RecordedText, SaidOn
  <2>5. Between(d, s) \subseteq {b}
    BY <1>11, <2>3 DEF RecordedText, Between
  <2>6. \A c : c # b /\ c \notin After(d, w, s) => c \notin w
    BY <2>5 DEF After
  <2>7. ASSUME NEW c \in Boxes \ After(d, w, s), c # s.sel
        PROVE  Unsaid(s.text[c], SaidOn(s)[c])
    <3>1. CASE c = b
      BY <3>1, <1>6, <2>4 DEF Unsaid
    <3>2. CASE c # b
      BY <3>2, <1>4, <1>6, <1>12, <2>4, <2>6, <2>7
    <3> QED
      BY <3>1, <3>2
  <2>8. ASSUME s.sel # NoBox, s.sel \notin After(d, w, s), s.text[s.sel] = s.before
        PROVE  Unsaid(s.before, SaidOn(s)[s.sel])
    BY <1>6, <1>7, <1>12, <2>4, <2>6, <2>8
  <2>9. WordsOf(s, After(d, w, s))
    BY <2>7, <2>8 DEF WordsOf, SaidOn
  <2> QED
    BY <2>4, <2>9
<1> QED
  BY <1>13, <1>14

----------------------------------------------------------------------------
(* A history that starts again.                                            *)

(* A page whose boxes all follow the path.                                 *)
Tidy(d, g, t) == Paged(d, g, t) /\ WordsOf(d, {})

(* A set listed as a sequence: nothing else and nothing left out.          *)
Lists(S, q, n) == n \in Nat /\ q \in [1 .. n -> S] /\ Len(q) = n /\ \A x \in S : \E i \in 1 .. n : q[i] = x

(* SetToSeq lists a finite set: every element once.                        *)
LEMMA SetToSeqLists ==
  ASSUME NEW S, IsFiniteSet(S)
  PROVE  Lists(S, SetToSeq(S), Cardinality(S))
<1>1. PICK n : n = Cardinality(S)
  OBVIOUS
<1>2. n \in Nat /\ ExistsBijection(1 .. n, S)
  BY <1>1, FS_CardinalityType
<1>3. \E f \in [1 .. n -> S] : IsInjective(f)
  BY <1>2 DEF ExistsBijection, Bijection, Injection
<1>4. PICK q : q = SetToSeq(S)
  OBVIOUS
<1>5. q \in [1 .. n -> S] /\ IsInjective(q)
  BY <1>1, <1>3, <1>4 DEF SetToSeq
<1>6. q \in Injection(1 .. n, S)
  BY <1>5 DEF Injection
<1>7. IsFiniteSet(1 .. n) /\ Cardinality(1 .. n) = n
  <2>1. Cardinality(1 .. n) = IF 1 > n THEN 0 ELSE n - 1 + 1
    BY <1>2, FS_Interval
  <2>2. IsFiniteSet(1 .. n)
    BY <1>2, FS_Interval
  <2> QED
    BY <2>1, <2>2, <1>2
<1>8. q \in Surjection(1 .. n, S)
  BY <1>1, <1>6, <1>7, FS_Injection
<1>9. \A x \in S : \E i \in 1 .. n : q[i] = x
  BY <1>8 DEF Surjection
<1>10. Len(q) = n
  BY <1>2, <1>5
<1> QED
  BY <1>1, <1>2, <1>4, <1>5, <1>9, <1>10 DEF Lists

(* What an empty path leads to: the ground it starts from.                 *)
LEMMA EmptyPath ==
  /\ \A left : RosterOf(<<>>, left) = left
  /\ \A l, before : Laid(<<>>, l, before) = before
  /\ \A b \in Boxes : TextOf(<<>>, Boxes)[b] = 0
  /\ \A l : ~KeyframedOn(<<>>, l)
<1>0. <<>> \in Seq({0})
  OBVIOUS
<1>1. PICK q \in Seq({0}) : q = <<>>
  BY <1>0
<1>2. \A left : RosterOf(<<>>, left) = left
  BY <1>1, RosterStep
<1>3. \A l, before : Laid(<<>>, l, before) = before
  BY <1>1, LaidStep
<1>4. \A b \in Boxes : TextOf(<<>>, Boxes)[b] = 0
  BY <1>1, TextStep
<1>5. \A l : ~KeyframedOn(<<>>, l)
  BY <1>1, KeyframedStep
<1> QED
  BY <1>2, <1>3, <1>4, <1>5

(* A page with an empty notebook: its rasters are the ground it starts on. *)
Emptied(d) == [d EXCEPT !.open = <<>>, !.book = <<>>, !.cursor = 0, !.fresh = NoBox,
                        !.since = [l \in Layers |-> -1]]

Starts(s, g) ==
  /\ Paged(s, g, FALSE) /\ g = Ground(s) /\ s.open = <<>> /\ s.fresh = NoBox
  /\ \A b \in Boxes : SaidOn(s)[b] = NoText

(* A page with an empty notebook follows it, its own rasters being the     *)
(* ground.                                                                 *)
LEMMA StartsIs ==
  ASSUME NEW s, NEW m \in Nat \ {0}, s \in Docs(m), s.book = <<>>, s.cursor = 0, s.open = <<>>,
         s.fresh = NoBox, s.lift = 0, Keyed(s.stack), s.active \in LayersOf(s.stack),
         s.sel # NoBox => s.text[s.sel] # NoText, Bare(s), NEW g, g = Ground(s)
  PROVE  Starts(s, g)
<1>1. /\ s.pic \in [Layers -> Rasters(m)] /\ s.stack \in Seq(Faces) /\ s.made = m
      /\ s.book \in Seq(Entries(m))
  BY DocFields
<1>2. g.pic = s.pic /\ g.stack = s.stack
  BY DEF Ground
<1>3. g \in [pic : [Layers -> Rasters(m)], stack : Seq(Faces)]
  BY <1>1 DEF Ground
<1>4. Tree(s.book) /\ DOMAIN s.book = {}
  BY DEF Tree
<1>5. PathOf(s) = <<>>
  BY <1>1, <1>4, PathStep DEF PathOf
<1>5a. Returns(s)
  <2>1. Way(s.book, 0) = {}
    BY <1>1, <1>4, WayStep
  <2> QED
    BY <2>1, <1>4 DEF Returns, Openings, Redoable
<1>6. Sane(s, g)
  BY <1>1, <1>2, <1>3, <1>4, <1>5a DEF Sane, Known
<1>7. ~Carried(s) /\ \A l : ~Wet(s, l)
  BY DEF Carried, Wet
<1>8. s.stack = RosterOf(PathOf(s), g.stack)
  BY <1>2, <1>5, EmptyPath
<1>9. \A l \in LayersOf(s.stack) : Shows(s, g, l)
  <2> SUFFICES ASSUME NEW l \in LayersOf(s.stack) PROVE Shows(s, g, l)
    OBVIOUS
  <2>1. Ink(g, PathOf(s), l) = s.pic[l]
    BY <1>2, <1>5, EmptyPath DEF Ink
  <2> QED
    BY <2>1, <1>7 DEF Shows
<1>10. Pictured(s, g)
  BY <1>4, <1>7, <1>8, <1>9 DEF Pictured
<1>11. \A b \in Boxes : SaidOn(s)[b] = NoText
  BY <1>5, EmptyPath DEF SaidOn, NoText
<1> QED
  BY <1>6, <1>10, <1>11 DEF Starts, Paged

(* A page with its notebook dropped: every other field stays.              *)
LEMMA DocEmptied ==
  ASSUME NEW m, NEW d \in Docs(m), NEW s, s = Emptied(d)
  PROVE  /\ s \in Docs(m) /\ s.book = <<>> /\ s.cursor = 0 /\ s.open = <<>> /\ s.fresh = NoBox
         /\ s.lift = d.lift /\ s.stack = d.stack /\ s.active = d.active /\ s.text = d.text
         /\ s.sel = d.sel /\ s.before = d.before /\ s.pic = d.pic /\ s.made = d.made
<1>1. PICK since : since = [l \in Layers |-> -1]
  OBVIOUS
<1>2. since \in [Layers -> -1 .. SnapEvery]
  <2>1. -1 \in -1 .. SnapEvery
    BY SnapEveryAssumption
  <2> QED
    BY <1>1, <2>1
<1>3. s = [d EXCEPT !.open = <<>>, !.book = <<>>, !.cursor = 0, !.fresh = NoBox, !.since = since]
  BY <1>1 DEF Emptied
<1>4. <<>> \in Seq(Entries(m)) /\ <<>> \in Seq(Fields(m))
  OBVIOUS
<1>5. PICK book \in Seq(Entries(m)) : book = <<>>
  BY <1>4
<1>6. PICK open \in Seq(Fields(m)) : open = <<>>
  BY <1>4
<1>6a. PICK c \in Nat : c = 0
  OBVIOUS
<1>6b. PICK b \in Boxes \cup {NoBox} : b = NoBox
  OBVIOUS
<1>7. s = [d EXCEPT !.open = open, !.book = book, !.cursor = c, !.fresh = b, !.since = since]
  BY <1>3, <1>5, <1>6, <1>6a, <1>6b
<1>8. s \in Docs(m)
  BY <1>2, <1>5, <1>6, <1>7, ZenonT(60) DEF Docs
<1>9. /\ s.book = book /\ s.cursor = c /\ s.open = open /\ s.fresh = b
      /\ s.lift = d.lift /\ s.stack = d.stack /\ s.active = d.active /\ s.text = d.text
      /\ s.sel = d.sel /\ s.before = d.before /\ s.pic = d.pic /\ s.made = d.made
  BY <1>7 DEF Docs
<1> QED
  BY <1>5, <1>6, <1>6a, <1>6b, <1>8, <1>9

(* The entries that open the next history, one box after the other.        *)
Told(d, b, val) == RecordText(d, b, val, TRUE)
ToldFcn(s, on, text) ==
  CHOOSE after : after = [i \in 0 .. Len(on) |->
    IF i = 0 THEN s ELSE Told(after[i - 1], on[i], text[on[i]])]
ToldUpTo(s, on, text, k, after) == after = [i \in 0 .. k |->
    IF i = 0 THEN s ELSE Told(after[i - 1], on[i], text[on[i]])]
ToldIsSo(s, on, text, n, after) ==
  /\ after[0] = s
  /\ \A i \in 1 .. n : after[i] = Told(after[i - 1], on[i], text[on[i]])

(* ClearHistory tells the new notebook of the boxes one after the other.   *)
LEMMA ToldIs ==
  ASSUME NEW s, NEW on, NEW text, NEW n \in Nat, Len(on) = n
  PROVE  ToldIsSo(s, on, text, n, ToldFcn(s, on, text))
<1> DEFINE G == {k \in 0 .. n : \E f : ToldUpTo(s, on, text, k, f)}
<1>1. 0 \in G
  <2>1. ToldUpTo(s, on, text, 0, [i \in 0 .. 0 |-> s])
    BY DEF ToldUpTo
  <2> QED
    BY <2>1
<1>2. ASSUME NEW k \in 1 .. n, k - 1 \in G PROVE k \in G
  <2>1. PICK f : ToldUpTo(s, on, text, k - 1, f)
    BY <1>2
  <2> DEFINE top == Told(f[k - 1], on[k], text[on[k]])
             h == [i \in 0 .. k |-> IF i = k THEN top ELSE f[i]]
  <2>2. \A i \in 0 .. k - 1 : h[i] = f[i]
    OBVIOUS
  <2>3. h[k] = top
    OBVIOUS
  <2> HIDE DEF h
  <2>4. \A i \in 0 .. k : h[i] = IF i = 0 THEN s ELSE Told(h[i - 1], on[i], text[on[i]])
    <3> SUFFICES ASSUME NEW i \in 0 .. k
                 PROVE  h[i] = IF i = 0 THEN s ELSE Told(h[i - 1], on[i], text[on[i]])
      OBVIOUS
    <3>1. CASE i = k
      <4>1. i # 0 /\ h[i - 1] = f[k - 1]
        BY <3>1, <2>2
      <4> QED
        BY <3>1, <2>3, <4>1
    <3>2. CASE i # k
      <4>1. i \in 0 .. k - 1 /\ h[i] = f[i]
        BY <3>2, <2>2
      <4>2. f[i] = IF i = 0 THEN s ELSE Told(f[i - 1], on[i], text[on[i]])
        BY <4>1, <2>1 DEF ToldUpTo
      <4>3. i # 0 => h[i - 1] = f[i - 1]
        BY <4>1, <2>2
      <4> QED
        BY <4>1, <4>2, <4>3
    <3> QED
      BY <3>1, <3>2
  <2>5. ToldUpTo(s, on, text, k, h)
    BY <2>4 DEF ToldUpTo, h
  <2> QED
    BY <2>5
<1>3. n \in G
  <2> HIDE DEF G
  <2>1. \A i \in 0 .. n : i \in G
    BY <1>1, <1>2, CountUp
  <2> QED
    BY <2>1
<1>4. ToldUpTo(s, on, text, n, ToldFcn(s, on, text))
  BY <1>3 DEF ToldUpTo, ToldFcn
<1>5. \A i \in 0 .. n : ToldFcn(s, on, text)[i] =
        IF i = 0 THEN s ELSE Told(ToldFcn(s, on, text)[i - 1], on[i], text[on[i]])
  BY <1>4 DEF ToldUpTo
<1>6. PICK after : after = ToldFcn(s, on, text)
  OBVIOUS
<1>7. after[0] = s
  BY <1>5, <1>6
<1>8. \A i \in 1 .. n : after[i] = Told(after[i - 1], on[i], text[on[i]])
  BY <1>5, <1>6
<1> QED
  BY <1>6, <1>7, <1>8 DEF ToldIsSo

(* What a new history of a page has told of its boxes so far.              *)
Telling(d, x, g, on, i) ==
  /\ Paged(x, g, FALSE)
  /\ x.text = d.text /\ x.sel = d.sel /\ x.fresh = NoBox /\ x.made = d.made
  /\ x.pic = d.pic /\ x.stack = d.stack /\ x.open = <<>> /\ Unmade(x.book)
  /\ \A b \in Boxes : SaidOn(x)[b] = d.text[b] \/ SaidOn(x)[b] = NoText
  /\ \A j \in 1 .. i : SaidOn(x)[on[j]] = d.text[on[j]]

(* One more box told: the new path says of it what the page has.           *)
LEMMA TellingStep ==
  ASSUME NEW d, NEW g, NEW n \in Nat, NEW on \in [1 .. n -> Boxes], NEW i \in 1 .. n, NEW x,
         Telling(d, x, g, on, i - 1), d.text \in [Boxes -> -(d.made) .. d.made],
         NEW y, y = Told(x, on[i], d.text[on[i]])
  PROVE  Telling(d, y, g, on, i)
<1>1. PICK b \in Boxes : b = on[i]
  OBVIOUS
<1>2. PICK v : v = d.text[b]
  OBVIOUS
<1>3. Paged(x, g, FALSE) /\ v \in -(x.made) .. x.made
  BY <1>2 DEF Telling
<1>4. y = RecordText(x, b, v, TRUE)
  BY <1>1, <1>2 DEF Told
<1>5. RecordedText(x, y, b, v, g, FALSE) /\ y.open = <<>> /\ Unmade(y.book)
  <2>1. TRUE => x.open = <<>> /\ Unmade(x.book)
    BY DEF Telling
  <2>2. RecordedText(x, y, b, v, g, FALSE) /\ (TRUE => y.open = <<>> /\ Unmade(y.book))
    BY <2>1, <1>3, <1>4, RecordTextIs
  <2> QED
    BY <2>2
<1>6. /\ Paged(y, g, FALSE) /\ y.made = x.made /\ y.text = x.text /\ y.sel = x.sel
      /\ y.fresh = x.fresh /\ y.stack = x.stack /\ y.pic = x.pic
      /\ \A c \in Boxes : SaidOn(y)[c] = IF c = b THEN v ELSE SaidOn(x)[c]
  BY <1>5 DEF RecordedText, SaidOn
<1>7. \A j \in 1 .. i : SaidOn(y)[on[j]] = d.text[on[j]]
  <2> SUFFICES ASSUME NEW j \in 1 .. i PROVE SaidOn(y)[on[j]] = d.text[on[j]]
    OBVIOUS
  <2>1. on[j] \in Boxes
    OBVIOUS
  <2>2. CASE on[j] = b
    BY <2>1, <2>2, <1>2, <1>6
  <2>3. CASE on[j] # b
    <3>1. j \in 1 .. i - 1
      BY <2>3, <1>1
    <3>2. SaidOn(x)[on[j]] = d.text[on[j]]
      BY <3>1 DEF Telling
    <3> QED
      BY <2>1, <2>3, <3>2, <1>6
  <2> QED
    BY <2>2, <2>3
<1>8. \A c \in Boxes : SaidOn(y)[c] = d.text[c] \/ SaidOn(y)[c] = NoText
  BY <1>2, <1>6 DEF Telling
<1>9. /\ y.text = d.text /\ y.sel = d.sel /\ y.fresh = NoBox /\ y.made = d.made
      /\ y.pic = d.pic /\ y.stack = d.stack
  BY <1>6 DEF Telling
<1> QED
  BY <1>5, <1>6, <1>7, <1>8, <1>9 DEF Telling

(* ClearHistory is the last of those pages.                                *)
LEMMA ClearIs ==
  ASSUME NEW d, NEW on, NEW n, on = SetToSeq({b \in Boxes : d.text[b] # NoText}), n = Len(on)
  PROVE  ClearHistory(d) = ToldFcn(Emptied(d), on, d.text)[n]
BY DEF ClearHistory, ToldFcn, Emptied, Told

(* The history dropped: the page stays, and its boxes start the next one.  *)
LEMMA ClearGood ==
  ASSUME NEW m \in Nat \ {0}, NEW d \in Docs(m), Keyed(d.stack), d.active \in LayersOf(d.stack),
         d.sel # NoBox => d.text[d.sel] # NoText, d.lift = 0, Bare(d),
         NEW s, s = ClearHistory(d)
  PROVE  Tidy(s, Ground(s), FALSE)
<1>1. PICK x : x = Emptied(d)
  OBVIOUS
<1>2. PICK g : g = Ground(x)
  OBVIOUS
<1>3. d.made = m /\ d.text \in [Boxes -> -(d.made) .. d.made] /\ d.sel \in Boxes \cup {NoBox}
  BY DocFields
<1>4. /\ x \in Docs(m) /\ x.book = <<>> /\ x.cursor = 0 /\ x.open = <<>> /\ x.fresh = NoBox
      /\ x.lift = d.lift /\ x.stack = d.stack /\ x.active = d.active /\ x.text = d.text
      /\ x.sel = d.sel /\ x.before = d.before /\ x.pic = d.pic /\ x.made = d.made
  BY <1>1, DocEmptied
<1>5. Starts(x, g)
  <2>1. Bare(x)
    BY <1>4 DEF Bare
  <2> QED
    BY <2>1, <1>2, <1>4, StartsIs
<1>6. PICK S : S = {b \in Boxes : d.text[b] # NoText}
  OBVIOUS
<1>7. IsFiniteSet(S)
  BY <1>6, NoNameAssumption, FS_Subset
<1>8. PICK on : on = SetToSeq(S)
  OBVIOUS
<1>9. PICK n : n = Cardinality(S)
  OBVIOUS
<1>10. Lists(S, on, n)
  BY <1>7, <1>8, <1>9, SetToSeqLists
<1>11. /\ n \in Nat /\ on \in [1 .. n -> Boxes] /\ Len(on) = n
       /\ \A b \in S : \E i \in 1 .. n : on[i] = b
  BY <1>6, <1>10 DEF Lists
<1>12. PICK after : after = ToldFcn(x, on, d.text)
  OBVIOUS
<1>13. ToldIsSo(x, on, d.text, n, after)
  BY <1>11, <1>12, ToldIs
<1>14. s = after[n]
  <2>1. on = SetToSeq({b \in Boxes : d.text[b] # NoText}) /\ n = Len(on)
    BY <1>6, <1>8, <1>11
  <2>2. ClearHistory(d) = ToldFcn(Emptied(d), on, d.text)[n]
    BY <2>1, ClearIs
  <2> QED
    BY <2>2, <1>1, <1>12
<1>15. after[0] = x /\ \A i \in 1 .. n : after[i] = Told(after[i - 1], on[i], d.text[on[i]])
  BY <1>13 DEF ToldIsSo
<1> DEFINE G == {i \in 0 .. n : Telling(d, after[i], g, on, i)}
<1>16. 0 \in G
  <2>0. Paged(x, g, FALSE) /\ \A b \in Boxes : SaidOn(x)[b] = NoText
    BY <1>5 DEF Starts
  <2>0a. \A j \in 1 .. 0 : SaidOn(x)[on[j]] = d.text[on[j]]
    OBVIOUS
  <2>0b. Unmade(x.book)
    BY <1>4 DEF Unmade
  <2>1. Telling(d, x, g, on, 0)
    BY <2>0, <2>0a, <2>0b, <1>4 DEF Telling
  <2> QED
    BY <2>1, <1>11, <1>15
<1>17. ASSUME NEW i \in 1 .. n, i - 1 \in G PROVE i \in G
  <2>1. PICK y : y = after[i - 1]
    OBVIOUS
  <2>2. PICK z : z = Told(y, on[i], d.text[on[i]])
    OBVIOUS
  <2>3. after[i] = z
    BY <2>1, <2>2, <1>15
  <2>4. Telling(d, y, g, on, i - 1)
    BY <2>1, <1>17
  <2>5. Telling(d, z, g, on, i)
    BY <2>2, <2>4, <1>3, <1>11, TellingStep
  <2> QED
    BY <2>3, <2>5, <1>11
<1>18. n \in G
  <2> HIDE DEF G
  <2>1. \A i \in 0 .. n : i \in G
    BY <1>11, <1>16, <1>17, CountUp
  <2> QED
    BY <2>1, <1>11
<1>19. Telling(d, s, g, on, n)
  BY <1>14, <1>18
<1>20. ASSUME NEW b \in Boxes PROVE SaidOn(s)[b] = s.text[b]
  <2>1. CASE b \in S
    <3>1. PICK i \in 1 .. n : on[i] = b
      BY <2>1, <1>11
    <3> QED
      BY <3>1, <1>19 DEF Telling
  <2>2. CASE b \notin S
    BY <2>2, <1>6, <1>19 DEF Telling
  <2> QED
    BY <2>1, <2>2
<1>21. WordsOf(s, {})
  <2>1. s.sel = d.sel
    BY <1>19 DEF Telling
  <2> QED
    BY <2>1, <1>3, <1>20 DEF WordsOf, SaidOn, Unsaid
<1>22. Ground(s) = g
  BY <1>2, <1>4, <1>19 DEF Ground, Telling
<1> QED
  BY <1>19, <1>21, <1>22 DEF Telling, Tidy

(* That a page has changed is no part of what it shows.                    *)
LEMMA ChangedGood ==
  ASSUME NEW d, NEW g, NEW t, Tidy(d, g, t), NEW s, s = [d EXCEPT !.changed = TRUE]
  PROVE  Tidy(s, g, t) /\ Ground(s) = Ground(d)
<1>1. d \in Docs(d.made) /\ Sane(d, g) /\ WordsOf(d, {})
  BY DEF Tidy, Paged, Sane
<1>2. /\ s \in Docs(d.made) /\ s.book = d.book /\ s.cursor = d.cursor /\ s.open = d.open
      /\ s.made = d.made /\ s.stack = d.stack /\ s.active = d.active /\ s.pic = d.pic
      /\ s.text = d.text /\ s.sel = d.sel /\ s.before = d.before /\ s.fresh = d.fresh
      /\ s.lift = d.lift /\ s.since = d.since
  BY <1>1 DEF Docs
<1>3. PathOf(s) = PathOf(d)
  BY <1>2 DEF PathOf
<1>3a. Returns(s)
  <2>1. Returns(d)
    BY <1>1 DEF Sane
  <2> QED
    BY <2>1, <1>2 DEF Returns, Bare
<1>4. Sane(s, g)
  BY <1>1, <1>2, <1>3a DEF Sane, Open
<1>5. WordsOf(s, {})
  BY <1>1, <1>2, <1>3 DEF WordsOf
<1>6. ASSUME Pictured(d, g) PROVE Pictured(s, g)
  <2>1. Carried(s) = Carried(d) /\ \A l : Wet(s, l) = Wet(d, l)
    BY <1>2 DEF Carried, Wet
  <2>2. \A l \in LayersOf(s.stack) : Shows(s, g, l)
    <3> SUFFICES ASSUME NEW l \in LayersOf(d.stack) PROVE Shows(s, g, l)
      BY <1>2
    <3>1. Shows(d, g, l) /\ Wet(s, l) = Wet(d, l)
      BY <1>6, <2>1 DEF Pictured
    <3> QED
      BY <3>1, <2>1, <1>2, <1>3 DEF Shows
  <2>3. SnapshotDue(s, s.active) = SnapshotDue(d, d.active)
    BY <1>2 DEF SnapshotDue
  <2> QED
    BY <1>2, <1>3, <1>6, <2>1, <2>2, <2>3 DEF Pictured
<1>7. Ground(s) = Ground(d)
  BY <1>2 DEF Ground
<1> QED
  BY <1>2, <1>4, <1>5, <1>6, <1>7 DEF Tidy, Paged

(* A page of another size: what is lifted goes down, the history goes.     *)
LEMMA ResizeGood ==
  ASSUME NEW d, NEW g, NEW t, Good(d, g, t), NEW s, s = Resize(d)
  PROVE  Tidy(s, Ground(s), FALSE)
<1>1. PICK x : x = DropSelection(d)
  OBVIOUS
<1>2. Sane(x, g) /\ x.lift = 0
  BY <1>1, DropGood DEF Good
<1>3. PICK m \in Nat \ {0} : m = x.made /\ x \in Docs(m)
  BY <1>2 DEF Sane
<1>4. PICK y : y = ClearHistory(x)
  OBVIOUS
<1>5. /\ Keyed(x.stack) /\ x.active \in LayersOf(x.stack)
      /\ x.sel # NoBox => x.text[x.sel] # NoText
      /\ Bare(x)
  BY <1>2 DEF Sane, Returns
<1>6. Tidy(y, Ground(y), FALSE)
  BY <1>2, <1>3, <1>4, <1>5, ClearGood
<1>7. s = [y EXCEPT !.changed = TRUE]
  BY <1>1, <1>4 DEF Resize
<1>8. Tidy(s, Ground(y), FALSE) /\ Ground(s) = Ground(y)
  BY <1>6, <1>7, ChangedGood
<1> QED
  BY <1>8

(* A new page: blank layers, no text.                                      *)
LEMMA NewGood ==
  ASSUME NEW d, NEW g, NEW t, Good(d, g, t), NEW s, s = New(d)
  PROVE  Tidy(s, Ground(s), FALSE)
<1>1. PICK pic : pic = [l \in Layers |-> <<>>]
  OBVIOUS
<1>2. PICK text : text = [b \in Boxes |-> NoText]
  OBVIOUS
<1>3. PICK x : x = [d EXCEPT !.pic = pic, !.sel = NoBox, !.lift = 0, !.text = text]
  OBVIOUS
<1>4. PICK m \in Nat \ {0} : m = d.made /\ d \in Docs(m)
  BY DEF Good, Sane
<1>5. pic \in [Layers -> Rasters(m)] /\ text \in [Boxes -> -m .. m]
  <2>1. <<>> \in Rasters(m)
    BY DEF Rasters
  <2> QED
    BY <1>1, <1>2, <2>1 DEF NoText
<1>5a. PICK c \in 0 .. m : c = 0
  OBVIOUS
<1>5b. PICK b \in Boxes \cup {NoBox} : b = NoBox
  OBVIOUS
<1>5c. x = [d EXCEPT !.pic = pic, !.sel = b, !.lift = c, !.text = text]
  BY <1>3, <1>5a, <1>5b
<1>5d. /\ x \in Docs(m) /\ x.sel = b /\ x.lift = c /\ x.stack = d.stack /\ x.active = d.active
       /\ x.pic = pic
  BY <1>4, <1>5, <1>5c, ZenonT(60) DEF Docs
<1>6. /\ x \in Docs(m) /\ x.sel = NoBox /\ x.lift = 0 /\ x.stack = d.stack /\ x.active = d.active
  BY <1>5a, <1>5b, <1>5d
<1>7. Keyed(x.stack) /\ x.active \in LayersOf(x.stack) /\ Bare(x)
  BY <1>1, <1>5d, <1>6 DEF Good, Sane, Bare
<1>8. PICK y : y = ClearHistory(x)
  OBVIOUS
<1>9. Tidy(y, Ground(y), FALSE)
  BY <1>6, <1>7, <1>8, ClearGood
<1>10. s = [y EXCEPT !.changed = TRUE]
  BY <1>1, <1>2, <1>3, <1>8 DEF New, Renew
<1>11. Tidy(s, Ground(y), FALSE) /\ Ground(s) = Ground(y)
  BY <1>9, <1>10, ChangedGood
<1> QED
  BY <1>11

(* The page as it is created: the first state of the notebook.             *)
LEMMA FreshGood ==
  ASSUME NEW layers \in FirstPages, NEW s, s = FreshPage(layers, NoAuthor, 1)
  PROVE  Tidy(s, Ground(s), FALSE)
<1>1. /\ layers \in Seq(Layers) /\ layers # <<>>
      /\ \A i, j \in DOMAIN layers : layers[i] = layers[j] => i = j
  BY FirstPagesAssumption
<1>2. PICK n \in Nat : n = Len(layers)
  BY <1>1
<1>3. n # 0
  BY <1>1, <1>2
<1>4. PICK stack : stack = [i \in DOMAIN layers |-> [key |-> layers[i], face |-> 0]]
  OBVIOUS
<1>5. DOMAIN layers = 1 .. n /\ \A i \in 1 .. n : layers[i] \in Layers
  BY <1>1, <1>2
<1>6. \A i \in 1 .. n : stack[i] \in Faces /\ stack[i].key = layers[i]
  BY <1>4, <1>5 DEF Faces
<1>7. stack \in Seq(Faces) /\ Len(stack) = n /\ DOMAIN stack = 1 .. n
  BY <1>4, <1>5, <1>6
<1>8. Keyed(stack)
  <2>1. stack # <<>>
    BY <1>3, <1>7
  <2> QED
    BY <1>1, <1>5, <1>6, <1>7, <2>1 DEF Keyed
<1>9. PICK a \in Layers : a = layers[Len(layers)]
  BY <1>2, <1>3, <1>5
<1>10. a \in LayersOf(stack)
  BY <1>2, <1>3, <1>6, <1>7, <1>9 DEF LayersOf
<1>11. PICK since : since = [l \in Layers |-> -1]
  OBVIOUS
<1>12. PICK pic : pic = [l \in Layers |-> <<>>]
  OBVIOUS
<1>13. PICK text : text = [b \in Boxes |-> NoText]
  OBVIOUS
<1>14. PICK m \in Nat \ {0} : m = 1
  OBVIOUS
<1>15. pic \in [Layers -> Rasters(m)] /\ text \in [Boxes -> -m .. m] /\ since \in [Layers -> -1 .. SnapEvery]
  <2>1. <<>> \in Rasters(m)
    BY DEF Rasters
  <2>2. -1 \in -1 .. SnapEvery
    BY SnapEveryAssumption
  <2> QED
    BY <1>11, <1>12, <1>13, <1>14, <2>1, <2>2 DEF NoText
<1>16. PICK book \in Seq(Entries(m)) : book = <<>>
  <2>1. <<>> \in Seq(Entries(m))
    OBVIOUS
  <2> QED
    BY <2>1
<1>17. PICK open \in Seq(Fields(m)) : open = <<>>
  <2>1. <<>> \in Seq(Fields(m))
    OBVIOUS
  <2> QED
    BY <2>1
<1>18. PICK cursor \in Nat, before \in -m .. m, lift \in 0 .. m, left \in {0} :
         cursor = 0 /\ before = 0 /\ lift = 0 /\ left = 0
  OBVIOUS
<1>18a. PICK sel \in Boxes \cup {NoBox}, fresh \in Boxes \cup {NoBox}, author \in {NoAuthor} :
         sel = NoBox /\ fresh = NoBox /\ author = NoAuthor
  OBVIOUS
<1>18b. PICK changed \in BOOLEAN, restate \in {FALSE}, stated \in {<<>>}, made \in {m} :
         changed = FALSE /\ restate = FALSE /\ stated = <<>> /\ made = m
  OBVIOUS
<1>18c. s = [book |-> book, cursor |-> cursor, since |-> since, stack |-> stack,
            active |-> a, pic |-> pic, open |-> open, made |-> made,
            text |-> text, sel |-> sel, before |-> before,
            fresh |-> fresh, author |-> author, lift |-> lift,
            changed |-> changed, restate |-> restate, stated |-> stated, left |-> left]
  BY <1>4, <1>9, <1>11, <1>12, <1>13, <1>14, <1>16, <1>17, <1>18, <1>18a, <1>18b DEF FreshPage, NoText
<1>19. s \in Docs(m)
  <2>1. stack \in Seq(Faces)
    BY <1>7
  <2> QED
    <3>1. [book |-> book, cursor |-> cursor, since |-> since, stack |-> stack,
            active |-> a, pic |-> pic, open |-> open, made |-> made,
            text |-> text, sel |-> sel, before |-> before,
            fresh |-> fresh, author |-> author, lift |-> lift,
            changed |-> changed, restate |-> restate, stated |-> stated, left |-> left] \in Docs(m)
      BY <2>1, <1>15 DEF Docs
    <3> QED
      BY <3>1, <1>18c
<1>20. /\ s.book = <<>> /\ s.cursor = 0 /\ s.open = <<>> /\ s.fresh = NoBox /\ s.lift = 0
       /\ s.stack = stack /\ s.active = a /\ s.sel = NoBox /\ s.text = text /\ s.pic = pic
  BY <1>16, <1>17, <1>18, <1>18a, <1>18c
<1>21. PICK g : g = Ground(s)
  OBVIOUS
<1>21a. Bare(s)
  BY <1>12, <1>20 DEF Bare
<1>22. Starts(s, g)
  BY <1>21a, <1>8, <1>10, <1>19, <1>20, <1>21, StartsIs
<1>23. WordsOf(s, {})
  <2>1. Settled(s, {})
    BY <1>13, <1>20, <1>22 DEF Starts, Settled, Unsaid
  <2> QED
    BY <2>1, SettledWords
<1> QED
  BY <1>21, <1>22, <1>23 DEF Starts, Tidy

----------------------------------------------------------------------------
(* Replays.                                                                *)

(* What a replay reads off a path is of the types of the page.             *)
LEMMA ReplayedType ==
  ASSUME NEW m \in Nat, NEW path \in Seq(Entries(m)), NEW l \in Layers, NEW left \in Rasters(m)
  PROVE  Replayed(path, l, left) \in Rasters(m)
<1>1. CASE KeysOf(path, l) = {}
  <2>1. Replayed(path, l, left) = left
    BY <1>1, LastKeyIs
  <2> QED
    BY <2>1
<1>2. CASE KeysOf(path, l) # {}
  <2>1. PICK k : k = LastKey(path, l)
    OBVIOUS
  <2>2. PICK n \in Nat : n = Len(path)
    OBVIOUS
  <2>3. k \in 1 .. n /\ k \in KeysOf(path, l)
    BY <1>2, <2>1, <2>2, LastKeyIs DEF Latest
  <2>4. Replayed(path, l, left) = Laid(SubSeq(path, k + 1, Len(path)), l, path[k].pic)
    BY <1>2, <2>1, LastKeyIs
  <2>5. PICK rest : rest = SubSeq(path, k + 1, Len(path))
    OBVIOUS
  <2>6. rest \in Seq(Entries(m))
    BY <2>2, <2>3, <2>5
  <2>7. PICK e \in Entries(m) : e = path[k]
    BY <2>2, <2>3
  <2>8. Keyframes(e)
    BY <2>3, <2>7 DEF KeysOf, Keys
  <2>9. e.pic \in Rasters(m)
    BY <2>8 DEF Keyframes, Structural, Entries, Fields, Formed
  <2> QED
    BY <2>4, <2>5, <2>6, <2>7, <2>9, LaidType
<1> QED
  BY <1>1, <1>2

(* The text a path leads to is text a page can hold.                       *)
LEMMA TextType ==
  ASSUME NEW m \in Nat, NEW path \in Seq(Entries(m))
  PROVE  TextOf(path, Boxes) \in [Boxes -> -m .. m]
<1>1. ASSUME NEW b \in Boxes PROVE TextOf(path, Boxes)[b] \in -m .. m
  <2>1. CASE Said(path, b) = {}
    <3>1. TextOf(path, Boxes)[b] = 0
      BY <2>1, LastSaidIs
    <3> QED
      BY <3>1
  <2>2. CASE Said(path, b) # {}
    <3>1. PICK k \in 1 .. Len(path) : k = LastSaid(path, b)
      BY <2>2, LastSaidIs
    <3>2. PICK e \in Entries(m) : e = path[k]
      BY <3>1
    <3>3. e.val \in -m .. m /\ 0 \in -m .. m
      BY DEF Entries, Fields
    <3>4. TextOf(path, Boxes)[b] = IF e.removed THEN 0 ELSE e.val
      BY <2>2, <3>1, <3>2, LastSaidIs
    <3> QED
      BY <3>3, <3>4
  <2> QED
    BY <2>1, <2>2
<1>2. PICK f : f = TextOf(path, Boxes)
  OBVIOUS
<1>3. DOMAIN f = Boxes /\ f = [b \in Boxes |-> f[b]]
  BY <1>2 DEF TextOf
<1> QED
  BY <1>1, <1>2, <1>3

(* The stack a path leads to is one that some entry of it states.          *)
LEMMA RosterType ==
  ASSUME NEW m \in Nat, NEW path \in Seq(Entries(m)), Restates(path) # {}, NEW left
  PROVE  /\ RosterOf(path, left) \in Seq(Faces) /\ Keyed(RosterOf(path, left))
         /\ \E i \in 1 .. Len(path) : RosterOf(path, left) = path[i].roster
<1>1. PICK k \in 1 .. Len(path) : k = LastRoster(path) /\ k \in Restates(path)
  BY LastRosterIs DEF Latest
<1>2. RosterOf(path, left) = path[k].roster
  BY <1>1, LastRosterIs
<1>3. PICK e \in Entries(m) : e = path[k]
  BY <1>1
<1>4. e.kind = "layers"
  BY <1>1, <1>3 DEF Restates, Structural
<1>5. e.roster \in Seq(Faces) /\ Keyed(e.roster)
  BY <1>4 DEF Entries, Fields, Formed
<1> QED
  BY <1>1, <1>2, <1>3, <1>5

(* On a page nobody shares no entry takes another back, so a path is read  *)
(* as it is.                                                               *)
LEMMA NoRetraction ==
  ASSUME NEW m \in Nat, NEW path \in Seq(Entries(m))
  PROVE  EffectivePath(path) = path
<1>1. \A e \in Entries(m) : ~Retraction(e)
  BY DEF Entries, Fields, Kinds, Retraction
<1>2. \A i \in 1 .. Len(path) : ~Retraction(path[i])
  BY <1>1
<1> QED
  BY <1>2, EffectiveIs

(* A page whose cursor has been moved to another entry of its notebook.    *)
Moved(d, c) == [d EXCEPT !.cursor = c]

MovedTo(d, s, c, g) ==
  /\ Sane(s, g) /\ s.book = d.book /\ s.cursor = c /\ s.made = d.made /\ s.stack = d.stack
  /\ s.active = d.active /\ s.pic = d.pic /\ s.open = d.open /\ s.sel = d.sel
  /\ s.fresh = d.fresh /\ s.lift = d.lift /\ s.since = d.since

(* A page stays sane wherever in its notebook the cursor goes.             *)
LEMMA MovedSane ==
  ASSUME NEW d, NEW g, Sane(d, g), NEW c \in 0 .. Len(d.book), Redoable(d.book, c),
         NEW s, s = Moved(d, c)
  PROVE  MovedTo(d, s, c, g)
<1>1. d \in Docs(d.made) /\ d.book \in Seq(Entries(d.made))
  BY DocFields DEF Sane
<1>2. c \in Nat
  BY <1>1
<1>3. /\ s \in Docs(d.made) /\ s.book = d.book /\ s.cursor = c /\ s.open = d.open
      /\ s.made = d.made /\ s.stack = d.stack /\ s.active = d.active /\ s.pic = d.pic
      /\ s.text = d.text /\ s.sel = d.sel /\ s.before = d.before /\ s.fresh = d.fresh
      /\ s.lift = d.lift /\ s.since = d.since
  BY <1>1, <1>2 DEF Docs, Moved
<1>3a. Returns(s)
  <2>1. Bare(d) /\ Openings(d.book)
    BY DEF Sane, Returns
  <2> QED
    BY <2>1, <1>3 DEF Returns, Bare
<1>4. Sane(s, g)
  BY <1>1, <1>3, <1>3a DEF Sane, Open
<1> QED
  BY <1>3, <1>4 DEF MovedTo

(* The notebook goes on, with nothing about text on the way.               *)
Onward(d, s, g) ==
  /\ Sane(s, g) /\ GoesOn(s.book, d.book)
  /\ s.made = d.made /\ s.stack = d.stack /\ s.active = d.active
  /\ s.sel = d.sel /\ s.fresh = d.fresh
  /\ \A b \in Boxes : SaidOn(s)[b] = SaidOn(d)[b]

(* An entry that is not about text leaves the words of the path as they    *)
(* were.                                                                   *)
LEMMA RecordOnward ==
  ASSUME NEW d, NEW g, Sane(d, g), NEW e \in Entries(d.made), e.kind # "text",
         e.layer # NoLayer => Known(d.book, g, e.layer), NEW s, s = Recorded(d, e)
  PROVE  Onward(d, s, g) /\ s.open = d.open /\ s.lift = d.lift /\ s.pic = d.pic
<1>1. Entered(d, e, s)
  BY RecordedEnters
<1>2. Sane(s, g)
  BY <1>1, RecordSane
<1>3. \A b \in Boxes : SaidOn(s)[b] = SaidOn(d)[b]
  BY <1>1, RecordWorded DEF SaidOn
<1>4. /\ s.made = d.made /\ s.stack = d.stack /\ s.active = d.active /\ s.open = d.open
      /\ s.sel = d.sel /\ s.fresh = d.fresh /\ s.lift = d.lift /\ s.pic = d.pic
      /\ GoesOn(s.book, d.book)
  BY <1>1 DEF Entered, OneMore
<1> QED
  BY <1>2, <1>3, <1>4 DEF Onward

(* Two steps on are one.                                                   *)
LEMMA OnwardOn ==
  ASSUME NEW d, NEW s, NEW u, NEW g, d.book \in Seq(Entries(d.made)), Onward(d, s, g), Onward(s, u, g)
  PROVE  Onward(d, u, g)
<1>1. PICK a \in Nat, b \in Nat, c \in Nat : a = Len(d.book) /\ b = Len(s.book) /\ c = Len(u.book)
  <2>1. s.book \in Seq(Entries(s.made)) /\ u.book \in Seq(Entries(u.made))
    BY DocFields DEF Onward, Sane
  <2> QED
    BY <2>1
<1>2. GoesOn(u.book, d.book)
  BY <1>1 DEF Onward, GoesOn
<1> QED
  BY <1>2 DEF Onward

(* What is put down in the middle of a replay goes into the notebook at the*)
(* entry the replay is for.                                                *)
LEMMA PutDownOnward ==
  ASSUME NEW d, NEW g, Sane(d, g), d.open = <<>>, d.lift # 0, NEW s, s = PutDown(d)
  PROVE  Onward(d, s, g) /\ s.open = <<>> /\ s.lift = 0
<1>1. /\ d.active \in LayersOf(d.stack) /\ d.active \in Layers /\ d.made \in Nat
      /\ d.lift \in 1 .. d.made /\ d.pic \in [Layers -> Rasters(d.made)] /\ d \in Docs(d.made)
  <2>1. d.active \in LayersOf(d.stack) /\ d \in Docs(d.made)
    BY DEF Sane
  <2>2. /\ d.active \in Layers /\ d.made \in Nat /\ d.lift \in 0 .. d.made
        /\ d.pic \in [Layers -> Rasters(d.made)]
    BY SaneLayers
  <2> QED
    BY <2>1, <2>2
<1>2. PICK l : l = d.active
  OBVIOUS
<1>3. PICK m : m = d.made
  OBVIOUS
<1>4. d.pic[l] \in Seq(1 .. m)
  BY <1>1, <1>2, <1>3 DEF Rasters
<1>5. PICK w : w = Whole(d.pic[l], d.lift)
  OBVIOUS
<1>6. w \in Seq(1 .. m)
  <2>1. PICK S : S = 1 .. m
    OBVIOUS
  <2>2. IsWhole(S, d.pic[l], d.lift, w)
    BY <2>1, <1>4, <1>5, WholeIs
  <2> QED
    BY <2>1, <2>2 DEF IsWhole
<1>7. PICK p \in Rasters(m) : p = Append(w, d.lift)
  <2>1. w \in Seq(1 .. m) /\ d.lift \in 1 .. m
    BY <1>1, <1>3, <1>6
  <2>2. PICK S : S = 1 .. m
    OBVIOUS
  <2>3. Append(w, d.lift) \in Seq(S)
    BY <2>1, <2>2, AppendIs
  <2> QED
    BY <2>2, <2>3 DEF Rasters
<1>8. PICK pic : pic = [d.pic EXCEPT ![l] = p]
  OBVIOUS
<1>9. pic \in [Layers -> Rasters(m)]
  BY <1>1, <1>2, <1>3, <1>7, <1>8
<1>10. PICK x : x = Repainted(d, pic, 0)
  OBVIOUS
<1>11. x \in Docs(m) /\ Redone(d, x) /\ x.made = m /\ x.lift = 0
  <2>1. m \in Nat /\ 0 \in 0 .. m /\ d \in Docs(m)
    BY <1>1, <1>3
  <2> QED
    BY <2>1, <1>3, <1>9, <1>10, DocRepainted
<1>12. PICK e : e = MarkOf("patch", l, d.lift)
  OBVIOUS
<1>13. e \in Entries(m) /\ e.kind = "patch" /\ e.layer = l
  BY <1>1, <1>2, <1>3, <1>12, MarkIsEntry
<1>14. s = Recorded(x, e)
  <2>1. d.author = NoAuthor
    BY <1>1, DocFields
  <2>2. pic = [d.pic EXCEPT ![d.active] = Append(Whole(@, d.lift), d.lift)]
    BY <1>2, <1>5, <1>7, <1>8
  <2>3. e = [Blank EXCEPT !.kind = "patch", !.layer = d.active,
                            !.author = d.author, !.mark = d.lift]
    BY <2>1, <1>2, <1>12 DEF MarkOf
  <2>4. PutDown(d) = Recorded([d EXCEPT !.pic[d.active] = Append(Whole(@, d.lift), d.lift), !.lift = 0],
                              [Blank EXCEPT !.kind = "patch", !.layer = d.active,
                                            !.author = d.author, !.mark = d.lift])
    BY DEF PutDown, Whole
  <2>5. x = [d EXCEPT !.pic[d.active] = Append(Whole(@, d.lift), d.lift), !.lift = 0]
    BY <1>10, <2>2 DEF Repainted
  <2> QED
    BY <2>3, <2>4, <2>5
<1>15. Sane(x, g) /\ PathOf(x) = PathOf(d)
  <2>1. d.made <= m /\ m \in Nat
    BY <1>1, <1>3
  <2>2. Bare(x)
    <3>1. x.stack = d.stack /\ l \in LayersOf(d.stack) /\ x.pic = pic
      <4>1. m \in Nat /\ 0 \in 0 .. m /\ d \in Docs(m)
        BY <1>1, <1>3
      <4> QED
        BY <4>1, <1>1, <1>2, <1>9, <1>10, <1>11, DocRepainted DEF Redone
    <3>2. \A k \in Layers : k # l => x.pic[k] = d.pic[k]
      BY <3>1, <1>1, <1>2, <1>8
    <3> QED
      BY <3>1, <3>2, StillBare
  <2> QED
    BY <2>1, <2>2, <1>11, SaneRedone
<1>16. /\ x.book = d.book /\ x.stack = d.stack /\ x.active = d.active /\ x.open = d.open
       /\ x.sel = d.sel /\ x.fresh = d.fresh /\ x.made = d.made /\ SaidOn(x) = SaidOn(d)
  BY <1>3, <1>11, <1>15 DEF Redone, SaidOn
<1>17. Known(x.book, g, l)
  BY <1>1, <1>2, <1>16 DEF Sane
<1>18. Onward(x, s, g) /\ s.open = x.open /\ s.lift = x.lift
  BY <1>3, <1>13, <1>14, <1>15, <1>16, <1>17, RecordOnward
<1> QED
  BY <1>11, <1>16, <1>18 DEF Onward

(* No step at all is a step on.                                            *)
LEMMA OnwardSelf ==
  ASSUME NEW d, NEW g, Sane(d, g)
  PROVE  Onward(d, d, g)
<1>1. PICK a \in Nat : a = Len(d.book)
  <2>1. d.book \in Seq(Entries(d.made))
    BY DocFields DEF Sane
  <2> QED
    BY <2>1
<1> QED
  BY <1>1 DEF Onward, GoesOn

(* A snapshot is a step on.                                                *)
LEMMA SnapOnward ==
  ASSUME NEW d, NEW g, Sane(d, g), NEW l \in LayersOf(d.stack), NEW s, s = AppendSnapshot(d, l)
  PROVE  Onward(d, s, g) /\ s.open = d.open /\ s.lift = d.lift
<1>1. l \in Layers /\ d.made \in Nat
  BY SaneLayers
<1>2. d \in Docs(d.made)
  BY DEF Sane
<1>3. PICK e : e = [Blank EXCEPT !.layer = l, !.author = d.author, !.pic = d.pic[l],
                           !.sent = TRUE, !.confirmed = TRUE]
  OBVIOUS
<1>4. e \in Entries(d.made) /\ e.kind = "snap" /\ e.layer = l
  <2>1. d.author = NoAuthor /\ d.pic[l] \in Rasters(d.made)
    BY <1>1, <1>2, DocFields
  <2>2. e = SnapOf(l, d.pic[l])
    BY <1>3, <2>1 DEF SnapOf
  <2> QED
    BY <1>1, <2>1, <2>2, SnapIsEntry
<1>5. s = Recorded(d, e)
  BY <1>3 DEF AppendSnapshot
<1>6. Known(d.book, g, e.layer)
  BY <1>4 DEF Sane
<1> QED
  BY <1>4, <1>5, <1>6, RecordOnward

(* What is lifted goes down wherever the cursor is.                        *)
LEMMA DropOnward ==
  ASSUME NEW d, NEW g, Sane(d, g), d.open = <<>>, NEW s, s = DropSelection(d)
  PROVE  /\ Onward(d, s, g) /\ s.open = <<>> /\ s.lift = 0
         /\ d.lift = 0 => s = d
<1>1. CASE d.lift = 0
  <2>1. s = d
    BY <1>1 DEF DropSelection
  <2> QED
    BY <2>1, <1>1, OnwardSelf
<1>2. CASE d.lift # 0
  <2>1. PICK y : y = KeyframeIfDue(d, d.active)
    OBVIOUS
  <2>2. s = PutDown(y)
    BY <1>2, <2>1 DEF DropSelection
  <2>3. SealOpenOp(d) = d
    BY DEF SealOpenOp
  <2>4. y = d \/ y = AppendSnapshot(d, d.active)
    BY <2>1, <2>3 DEF KeyframeIfDue
  <2>5. d.active \in LayersOf(d.stack)
    BY DEF Sane
  <2>6. Onward(d, y, g) /\ y.open = <<>> /\ y.lift = d.lift
    BY <2>4, <2>5, OnwardSelf, SnapOnward
  <2>7. Onward(y, s, g) /\ s.open = <<>> /\ s.lift = 0
    <3>1. Sane(y, g) /\ y.lift # 0
      BY <1>2, <2>6 DEF Onward
    <3> QED
      BY <3>1, <2>2, <2>6, PutDownOnward
  <2>8. d.book \in Seq(Entries(d.made))
    BY DocFields DEF Sane
  <2>9. Onward(d, s, g)
    BY <2>6, <2>7, <2>8, OnwardOn
  <2> QED
    BY <1>2, <2>7, <2>9
<1> QED
  BY <1>1, <1>2

(* A truthful book: replaying a path from its newest keyframe of a layer   *)
(* gives what the path draws on it from the beginning.                     *)
LEMMA ReplayIsInk ==
  ASSUME NEW m \in Nat, NEW book \in Seq(Entries(m)), Tree(book), NEW g,
         \A n \in DOMAIN book : Truthful(book, g, n), NEW l \in Layers, NEW left
  PROVE  \A n \in 0 .. Len(book) : KeyframedOn(Path(book, n), l) =>
            Replayed(Path(book, n), l, left) = Ink(g, Path(book, n), l)
<1> DEFINE G == {n \in 0 .. Len(book) : KeyframedOn(Path(book, n), l) =>
            Replayed(Path(book, n), l, left) = Ink(g, Path(book, n), l)}
<1>1. 0 \in G
  <2>1. Path(book, 0) = <<>> /\ 0 \in 0 .. Len(book)
    BY PathStep
  <2>2. ~KeyframedOn(<<>>, l)
    BY EmptyPath
  <2> QED
    BY <2>1, <2>2
<1>2. ASSUME NEW n \in 1 .. Len(book), book[n].parent \in G PROVE n \in G
  <2>1. PICK c : c = book[n].parent
    OBVIOUS
  <2>2. PICK e \in Entries(m) : e = book[n]
    OBVIOUS
  <2>3. c \in 0 .. Len(book) /\ (KeyframedOn(Path(book, c), l) =>
            Replayed(Path(book, c), l, left) = Ink(g, Path(book, c), l))
    BY <1>2, <2>1
  <2>4. PICK above \in Seq(Entries(m)) : above = Path(book, c)
    BY <2>3, PathStep
  <2>5. PICK path : path = Append(above, e)
    OBVIOUS
  <2>6. Path(book, n) = path
    BY <2>1, <2>2, <2>4, <2>5, PathStep
  <2>7. TruthOf(e, above, g)
    BY <2>1, <2>2, <2>4 DEF Truthful
  <2>8. KeyframedOn(above, l) => Replayed(above, l, left) = Ink(g, above, l)
    BY <2>3, <2>4
  <2>9. KeyframedOn(path, l) <=> KeyframedOn(above, l) \/ (Keyframes(e) /\ e.layer = l)
    BY <2>5, KeyframedStep
  <2>10. Replayed(path, l, left) =
           IF Keyframes(e) /\ e.layer = l THEN e.pic
           ELSE IF ~KeyframedOn(above, l) THEN left
           ELSE IF Marks(e) /\ e.layer = l THEN Drawn(Replayed(above, l, left), e)
           ELSE Replayed(above, l, left)
    BY <2>5, ReplayedStep
  <2>11. Ink(g, path, l) =
           IF Marks(e) /\ e.layer = l THEN Drawn(Ink(g, above, l), e) ELSE Ink(g, above, l)
    BY <2>5, InkStep
  <2>12. CASE Keyframes(e) /\ e.layer = l
    <3>1. CASE e.kind = "snap"
      <4>1. ~Marks(e)
        BY <3>1 DEF Marks
      <4>2. e.pic = Ink(g, above, l)
        BY <3>1, <2>7, <2>12 DEF TruthOf
      <4>3. Replayed(path, l, left) = Ink(g, path, l)
        BY <4>1, <4>2, <2>10, <2>11, <2>12
      <4> QED
        BY <4>3, <2>6
    <3>2. CASE e.kind # "snap"
      <4>1. e.kind = "layers" /\ e.pic # NoPic
        BY <3>2, <2>12 DEF Keyframes, Structural
      <4>2. ~e.keyframe
        BY <4>1 DEF Entries, Formed
      <4>3. Marks(e)
        BY <4>1, <4>2 DEF Marks, Retraction
      <4>4. Drawn(Ink(g, above, l), e) = e.pic
        BY <4>1 DEF Drawn
      <4>5. Replayed(path, l, left) = Ink(g, path, l)
        BY <4>3, <4>4, <2>10, <2>11, <2>12
      <4> QED
        BY <4>5, <2>6
    <3> QED
      BY <3>1, <3>2
  <2>13. CASE ~(Keyframes(e) /\ e.layer = l)
    <3>1. KeyframedOn(path, l) => Replayed(path, l, left) = Ink(g, path, l)
      BY <2>8, <2>9, <2>10, <2>11, <2>13
    <3> QED
      BY <3>1, <2>6
  <2> QED
    BY <2>12, <2>13
<1>3. \A n \in 0 .. Len(book) : n \in G
  <2> HIDE DEF G
  <2> QED
    BY <1>1, <1>2, TreeInd
<1> QED
  BY <1>3

(* A layer with no keyframe on a path has the raster it had on the ground. *)
LEMMA UnkeyedInk ==
  ASSUME NEW m \in Nat, NEW book \in Seq(Entries(m)), Tree(book), NEW g,
         GroundedBook(book), NEW l \in Layers
  PROVE  \A n \in 0 .. Len(book) : ~KeyframedOn(Path(book, n), l) =>
            Ink(g, Path(book, n), l) = IF l \in LayersOf(g.stack) THEN g.pic[l] ELSE <<>>
<1> DEFINE G == {n \in 0 .. Len(book) : ~KeyframedOn(Path(book, n), l) =>
            Ink(g, Path(book, n), l) = IF l \in LayersOf(g.stack) THEN g.pic[l] ELSE <<>>}
<1>1. 0 \in G
  <2>1. Path(book, 0) = <<>> /\ 0 \in 0 .. Len(book)
    BY PathStep
  <2>2. Ink(g, <<>>, l) = IF l \in LayersOf(g.stack) THEN g.pic[l] ELSE <<>>
    BY EmptyPath DEF Ink
  <2> QED
    BY <2>1, <2>2
<1>2. ASSUME NEW n \in 1 .. Len(book), book[n].parent \in G PROVE n \in G
  <2>1. PICK c : c = book[n].parent
    OBVIOUS
  <2>2. PICK e \in Entries(m) : e = book[n]
    OBVIOUS
  <2>3. c \in 0 .. Len(book) /\ (~KeyframedOn(Path(book, c), l) =>
            Ink(g, Path(book, c), l) = IF l \in LayersOf(g.stack) THEN g.pic[l] ELSE <<>>)
    BY <1>2, <2>1
  <2>4. PICK above \in Seq(Entries(m)) : above = Path(book, c)
    BY <2>3, PathStep
  <2>5. PICK path : path = Append(above, e)
    OBVIOUS
  <2>6. Path(book, n) = path
    BY <2>1, <2>2, <2>4, <2>5, PathStep
  <2>7. ~KeyframedOn(above, l) =>
            Ink(g, above, l) = IF l \in LayersOf(g.stack) THEN g.pic[l] ELSE <<>>
    BY <2>3, <2>4
  <2>8. KeyframedOn(path, l) <=> KeyframedOn(above, l) \/ (Keyframes(e) /\ e.layer = l)
    BY <2>5, KeyframedStep
  <2>9. Ink(g, path, l) =
           IF Marks(e) /\ e.layer = l THEN Drawn(Ink(g, above, l), e) ELSE Ink(g, above, l)
    BY <2>5, InkStep
  <2>10. Marks(e) /\ e.layer = l /\ ~Keyframes(e) => KeyframedOn(path, l)
    <3>1. l # NoLayer
      BY NoNameAssumption
    <3> QED
      BY <3>1, <2>2, <2>6 DEF GroundedBook
  <2>11. ~KeyframedOn(path, l) =>
            Ink(g, path, l) = IF l \in LayersOf(g.stack) THEN g.pic[l] ELSE <<>>
    BY <2>7, <2>8, <2>9, <2>10
  <2> QED
    BY <2>11, <2>6
<1>3. \A n \in 0 .. Len(book) : n \in G
  <2> HIDE DEF G
  <2> QED
    BY <1>1, <1>2, TreeInd
<1> QED
  BY <1>3

(* The page with the stack a path leads to.                                *)
KeptPic(p, roster) ==
  [l \in Layers |-> IF l \in LayersOf(roster) /\ l \in LayersOf(p.stack) THEN p.pic[l] ELSE <<>>]
RestackedIs(p, path, q, g) ==
  /\ Sane(q, g) /\ PathOf(q) = PathOf(p) /\ q.book = p.book /\ q.made = p.made
  /\ q.open = <<>> /\ q.lift = p.lift /\ q.sel = p.sel /\ q.fresh = p.fresh
  /\ q.stack = RosterOf(path, p.stack)
  /\ \A l \in LayersOf(q.stack) : q.pic[l] = IF l \in LayersOf(p.stack) THEN p.pic[l] ELSE <<>>

(* The stack a path leads to, on the page: layers that were on it keep     *)
(* their rasters, the others are blank (reconcileLayers).                  *)
LEMMA RestackedSane ==
  ASSUME NEW p, NEW g, Sane(p, g), p.open = <<>>, NEW c \in 0 .. Len(p.book),
         NEW path, path = Path(p.book, c), NEW q, q = Restacked(p, path)
  PROVE  RestackedIs(p, path, q, g)
<1>1. PICK m : m = p.made
  OBVIOUS
<1>2. p.book \in Seq(Entries(m)) /\ Tree(p.book) /\ m \in Nat
  BY <1>1, DocFields DEF Sane
<1>3. path \in Seq(Entries(m))
  BY <1>2, PathStep
<1>4. Restates(path) = {} <=> ~\E i \in DOMAIN path : Structural(path[i])
  BY DEF Restates
<1>5. CASE Restates(path) = {}
  <2>1. q = p
    BY <1>4, <1>5 DEF Restacked
  <2>2. RosterOf(path, p.stack) = p.stack
    BY <1>3, <1>5, LastRosterIs
  <2> QED
    BY <2>1, <2>2 DEF RestackedIs
<1>6. CASE Restates(path) # {}
  <2>1. PICK roster : roster = RosterOf(path, p.stack)
    OBVIOUS
  <2>2. /\ roster \in Seq(Faces) /\ Keyed(roster)
        /\ \E i \in 1 .. Len(path) : roster = path[i].roster
    BY <1>2, <1>3, <1>6, <2>1, RosterType
  <2>3. PICK n \in DOMAIN p.book : roster = p.book[n].roster
    BY <1>2, <2>2, PathInBook
  <2>4. \A l \in LayersOf(roster) : Known(p.book, g, l)
    BY <2>3 DEF Known
  <2>5. PICK pic : pic = KeptPic(p, roster)
    OBVIOUS
  <2>6. p.pic \in [Layers -> Rasters(m)] /\ p \in Docs(m)
    BY <1>1, SaneLayers DEF Sane
  <2>7. pic \in [Layers -> Rasters(m)]
    <3>1. <<>> \in Rasters(m)
      BY DEF Rasters
    <3> QED
      BY <3>1, <2>5, <2>6 DEF KeptPic
  <2>8. PICK active : active = NewActive(p, roster)
    OBVIOUS
  <2>9. active \in LayersOf(roster)
    BY <2>2, <2>8 DEF NewActive, Keyed, LayersOf
  <2>10. q = Stacked(p, roster, pic, active)
    <3>1. q = ReconcileLayers(p, roster)
      BY <1>4, <1>6, <2>1 DEF Restacked
    <3>2. roster # <<>>
      BY <2>2 DEF Keyed
    <3> QED
      BY <3>1, <3>2, <2>5, <2>6, <2>8
         DEF ReconcileLayers, Stacked, KeptPic, NewActive, OnStack, Docs
  <2>10a. \A l \in Layers : l \notin LayersOf(roster) => pic[l] = <<>>
    BY <2>5 DEF KeptPic
  <2>11. StackedIs(p, roster, pic, active, q, g)
    BY <1>1, <2>2, <2>4, <2>7, <2>9, <2>10, <2>10a, StackedSane
  <2>12. q.sel = p.sel /\ q.fresh = p.fresh
    <3>1. LayersOf(roster) \subseteq Layers
      BY <2>2, RosterKeys
    <3> QED
      BY <3>1, <2>2, <2>6, <2>7, <2>9, <2>10, DocStacked
  <2>13. \A l \in LayersOf(roster) : l \in Layers
    BY <2>2, RosterKeys
  <2> QED
    BY <2>1, <2>5, <2>11, <2>12, <2>13 DEF RestackedIs, StackedIs, KeptPic
<1> QED
  BY <1>5, <1>6

(* The rasters and the boxes read anew off a path.                         *)
RedrawnIs(q, path, s, g) ==
  /\ Sane(s, g) /\ PathOf(s) = PathOf(q) /\ s.book = q.book /\ s.stack = q.stack
  /\ s.open = <<>> /\ s.lift = q.lift /\ s.sel = NoBox
  /\ s.text = TextOf(path, Boxes)
  /\ \A l \in LayersOf(q.stack) : s.pic[l] = Replayed(path, l, q.pic[l])

(* The rasters and the boxes of a path, on the page (replayTo).            *)
LEMMA RedrawnSane ==
  ASSUME NEW q, NEW g, Sane(q, g), q.open = <<>>, q.sel = NoBox,
         NEW path \in Seq(Entries(q.made)),
         NEW s, s = Redrawn(q, path, TextOf(path, Boxes))
  PROVE  RedrawnIs(q, path, s, g)
<1>1. PICK m : m = q.made
  OBVIOUS
<1>2. m \in Nat /\ q \in Docs(m) /\ q.pic \in [Layers -> Rasters(m)] /\ q.lift \in 0 .. m
      /\ LayersOf(q.stack) \subseteq Layers
  BY <1>1, SaneLayers DEF Sane
<1>3. PICK pic : pic = [l \in Layers |-> IF OnStack(q, l) THEN Replayed(path, l, q.pic[l]) ELSE <<>>]
  OBVIOUS
<1>4. pic \in [Layers -> Rasters(m)]
  <2>1. <<>> \in Rasters(m)
    BY DEF Rasters
  <2>2. \A l \in Layers : Replayed(path, l, q.pic[l]) \in Rasters(m)
    BY <1>1, <1>2, ReplayedType
  <2> QED
    BY <2>1, <2>2, <1>3
<1>5. PICK x : x = Repainted(q, pic, q.lift)
  OBVIOUS
<1>6. x \in Docs(m) /\ Redone(q, x) /\ x.made = q.made /\ x.pic = pic /\ x.lift = q.lift
  BY <1>2, <1>4, <1>5, DocRepainted
<1>7. Sane(x, g) /\ PathOf(x) = PathOf(q)
  <2>1. Bare(x)
    BY <1>3, <1>6 DEF Bare, Redone, OnStack
  <2> QED
    BY <2>1, <1>1, <1>2, <1>6, SaneRedone
<1>8. PICK text : text = TextOf(path, Boxes)
  OBVIOUS
<1>9. text \in [Boxes -> -m .. m]
  BY <1>1, <1>2, <1>8, TextType
<1>10. q.before \in -m .. m /\ q.fresh \in Boxes \cup {NoBox}
  BY <1>2, DocFields
<1>11. s = Reworded(x, text, NoBox, q.before, q.fresh, m)
  BY <1>1, <1>2, <1>3, <1>5, <1>8 DEF Redrawn, Reworded, Repainted, Docs
<1>12. RewordedIs(x, s, text, NoBox, q.before, q.fresh, m, g, TRUE)
  <2>1. Paged(x, g, TRUE)
    BY <1>7 DEF Paged
  <2>2. x.made <= m /\ NoBox \in Boxes \cup {NoBox}
    BY <1>1, <1>2, <1>6
  <2> QED
    BY <2>1, <2>2, <1>2, <1>9, <1>10, <1>11, RewordedPaged
<1>13. Sane(s, g) /\ PathOf(s) = PathOf(q) /\ s.book = q.book /\ s.open = <<>> /\ s.lift = q.lift
       /\ s.sel = NoBox /\ s.text = text
  BY <1>6, <1>7, <1>12 DEF RewordedIs, Paged, Redone
<1>14. s.stack = q.stack /\ s.pic = pic
  BY <1>2, <1>6, <1>11 DEF Reworded, Docs, Redone
<1>15. \A l \in LayersOf(q.stack) : pic[l] = Replayed(path, l, q.pic[l])
  BY <1>2, <1>3 DEF OnStack
<1> QED
  BY <1>8, <1>13, <1>14, <1>15 DEF RedrawnIs

(* The page as a replay of entry c finds it: the stack is the ground's     *)
(* when the path to c states none, and a layer with no keyframe on that    *)
(* path shows what the path draws on it.                                   *)
Near(d, g, c) ==
  /\ Restates(Path(d.book, c)) = {} => d.stack = g.stack
  /\ \A l \in LayersOf(RosterOf(Path(d.book, c), g.stack)) :
       KeyframedOn(Path(d.book, c), l) \/
       (IF l \in LayersOf(d.stack) THEN d.pic[l] ELSE <<>>) = Ink(g, Path(d.book, c), l)

ReplayedIs(d, p, q, s, c, path, g) ==
  /\ Onward(Moved(d, c), p, g) /\ p.lift = 0
  /\ d.lift = 0 => p = Moved(d, c)
  /\ path = Path(d.book, c) /\ path \in Seq(Entries(d.made))
  /\ RestackedIs(p, path, q, g)
  /\ RedrawnIs(q, path, s, g)
  /\ SaidOn(s) = SaidOn(p)
  /\ \A b \in Boxes : SaidOn(p)[b] = TextOf(path, Boxes)[b]

(* A replay of any entry of the notebook gives a sane page whose boxes are *)
(* what the path says, even when it put down what was carried.             *)
LEMMA ReplayedSane ==
  ASSUME NEW d, NEW g, Sane(d, g), d.open = <<>>, d.sel = NoBox,
         NEW c \in 0 .. Len(d.book), Redoable(d.book, c), NEW s, s = ReplayTo(d, c)
  PROVE  \E p, q, path : ReplayedIs(d, p, q, s, c, path, g)
<1>1. PICK o : o = Moved(d, c)
  OBVIOUS
<1>2. MovedTo(d, o, c, g)
  BY <1>1, MovedSane
<1>3. /\ Sane(o, g) /\ o.book = d.book /\ o.cursor = c /\ o.made = d.made
      /\ o.open = <<>> /\ o.sel = NoBox /\ o.lift = d.lift
  BY <1>2 DEF MovedTo
<1>4. PICK p : p = DropSelection(o)
  OBVIOUS
<1>5. Onward(o, p, g) /\ p.open = <<>> /\ p.lift = 0 /\ (o.lift = 0 => p = o)
  BY <1>3, <1>4, DropOnward
<1>6. /\ Sane(p, g) /\ GoesOn(p.book, d.book) /\ p.made = d.made
      /\ p.sel = NoBox /\ \A b \in Boxes : SaidOn(p)[b] = SaidOn(o)[b]
  BY <1>3, <1>5 DEF Onward
<1>7. PICK path : path = Path(d.book, c)
  OBVIOUS
<1>8. PICK m : m = d.made
  OBVIOUS
<1>9. m \in Nat /\ d.book \in Seq(Entries(m)) /\ p.book \in Seq(Entries(m)) /\ Tree(p.book) /\ Tree(d.book)
  BY <1>6, <1>8, DocFields DEF Sane
<1>10. Path(p.book, c) = path
  BY <1>6, <1>7, <1>9, PathGoesOn
<1>11. path \in Seq(Entries(m))
  BY <1>7, <1>9, PathStep
<1>12. EffectivePath(path) = path
  BY <1>9, <1>11, NoRetraction
<1>13. c \in 0 .. Len(p.book)
  <2>1. Len(p.book) \in Nat /\ Len(d.book) \in Nat
    BY <1>9
  <2> QED
    BY <2>1, <1>6 DEF GoesOn
<1>14. PICK q : q = Restacked(p, path)
  OBVIOUS
<1>15. RestackedIs(p, path, q, g)
  BY <1>5, <1>6, <1>10, <1>13, <1>14, RestackedSane
<1>16. s = Redrawn(q, path, TextOf(path, Boxes))
  BY <1>1, <1>4, <1>10, <1>12, <1>14 DEF ReplayTo, Reread, Moved
<1>17. /\ Sane(q, g) /\ q.open = <<>> /\ q.sel = NoBox
       /\ q.made = m /\ PathOf(q) = PathOf(p)
  BY <1>6, <1>8, <1>15 DEF RestackedIs
<1>18. RedrawnIs(q, path, s, g)
  BY <1>11, <1>16, <1>17, RedrawnSane
<1>19. SaidOn(s) = SaidOn(p)
  BY <1>17, <1>18 DEF RedrawnIs, SaidOn
<1>20. SaidOn(o) = TextOf(path, Boxes)
  BY <1>3, <1>7 DEF SaidOn, PathOf
<1>21. \A b \in Boxes : SaidOn(p)[b] = TextOf(path, Boxes)[b]
  BY <1>6, <1>20
<1>22. d.lift = 0 => p = Moved(d, c)
  BY <1>1, <1>3, <1>5
<1> QED
  BY <1>1, <1>5, <1>7, <1>8, <1>11, <1>15, <1>18, <1>19, <1>21, <1>22 DEF ReplayedIs

(* The page is replayed to an entry of its notebook.                       *)
LEMMA ReplayGood ==
  ASSUME NEW d, NEW g, NEW t, Paged(d, g, t), d.open = <<>>, d.sel = NoBox,
         NEW c \in 0 .. Len(d.book), Redoable(d.book, c),
         ~t /\ GroundedBook(d.book) /\ d.lift = 0 => Near(d, g, c),
         NEW s, s = ReplayTo(d, c)
  PROVE  Tidy(s, g, t \/ d.lift # 0)
<1>0. Sane(d, g) /\ (~t /\ GroundedBook(d.book) => Pictured(d, g))
  BY DEF Paged
<1>1. PICK p, q, path : ReplayedIs(d, p, q, s, c, path, g)
  BY <1>0, ReplayedSane
<1>2. Sane(s, g) /\ s.sel = NoBox /\ s.text = TextOf(path, Boxes)
  BY <1>1 DEF ReplayedIs, RedrawnIs
<1>3. WordsOf(s, {})
  <2>1. \A b \in Boxes : s.text[b] = SaidOn(s)[b]
    BY <1>1, <1>2 DEF ReplayedIs
  <2>2. Settled(s, {})
    BY <1>2, <2>1 DEF Settled, Unsaid
  <2> QED
    BY <2>2, SettledWords
<1>4. ASSUME ~t, d.lift = 0, GroundedBook(s.book) PROVE Pictured(s, g)
  <2>1. p = Moved(d, c) /\ p.lift = 0
    BY <1>1, <1>4 DEF ReplayedIs
  <2>2. PICK m : m = d.made
    OBVIOUS
  <2>3. m \in Nat /\ d \in Docs(m) /\ d.book \in Seq(Entries(m)) /\ Tree(d.book)
    BY <1>0, <2>2, DocFields DEF Sane
  <2>4. MovedTo(d, p, c, g)
    BY <1>0, <2>1, MovedSane
  <2>5. p.book = d.book /\ p.cursor = c /\ p.stack = d.stack /\ p.pic = d.pic
    BY <2>4 DEF MovedTo
  <2>6. /\ PathOf(q) = PathOf(p) /\ q.book = p.book /\ q.lift = p.lift
        /\ q.stack = RosterOf(path, p.stack)
        /\ \A l \in LayersOf(q.stack) : q.pic[l] = IF l \in LayersOf(p.stack) THEN p.pic[l] ELSE <<>>
    BY <1>1 DEF ReplayedIs, RestackedIs
  <2>7. /\ PathOf(s) = PathOf(q) /\ s.book = q.book /\ s.stack = q.stack
        /\ s.open = <<>> /\ s.lift = q.lift
        /\ \A l \in LayersOf(q.stack) : s.pic[l] = Replayed(path, l, q.pic[l])
    BY <1>1 DEF ReplayedIs, RedrawnIs
  <2>8. path = Path(d.book, c) /\ path \in Seq(Entries(m))
    BY <1>1, <2>2 DEF ReplayedIs
  <2>9. PathOf(s) = path /\ s.book = d.book /\ s.lift = 0
    BY <2>1, <2>5, <2>6, <2>7, <2>8 DEF PathOf
  <2>10. GroundedBook(d.book) /\ Pictured(d, g)
    BY <1>0, <1>4, <2>9
  <2>11. Near(d, g, c)
    BY <1>4, <2>10
  <2>12. \A n \in DOMAIN d.book : Truthful(d.book, g, n)
    BY <2>10 DEF Pictured
  <2>13. s.stack = RosterOf(path, g.stack)
    <3>1. CASE Restates(path) = {}
      <4>1. RosterOf(path, p.stack) = p.stack /\ RosterOf(path, g.stack) = g.stack
        BY <2>8, <3>1, LastRosterIs
      <4>2. d.stack = g.stack
        BY <2>8, <2>11, <3>1 DEF Near
      <4> QED
        BY <4>1, <4>2, <2>5, <2>6, <2>7
    <3>2. CASE Restates(path) # {}
      <4>1. RosterOf(path, p.stack) = RosterOf(path, g.stack)
        BY <2>8, <3>2, LastRosterIs
      <4> QED
        BY <4>1, <2>6, <2>7
    <3> QED
      BY <3>1, <3>2
  <2>14. ASSUME NEW l \in LayersOf(s.stack) PROVE s.pic[l] = Ink(g, path, l)
    <3>1. l \in Layers
      BY <1>2, SaneLayers
    <3>2. s.pic[l] = Replayed(path, l, q.pic[l])
      BY <2>7
    <3>3. CASE KeyframedOn(path, l)
      <4>1. Replayed(path, l, q.pic[l]) = Ink(g, path, l)
        BY <2>3, <2>8, <2>12, <3>1, <3>3, ReplayIsInk
      <4> QED
        BY <3>2, <4>1
    <3>4. CASE ~KeyframedOn(path, l)
      <4>1. KeysOf(path, l) = {}
        BY <3>4 DEF KeyframedOn, KeysOf
      <4>2. Replayed(path, l, q.pic[l]) = q.pic[l]
        BY <2>8, <4>1, LastKeyIs
      <4>3. q.pic[l] = IF l \in LayersOf(d.stack) THEN d.pic[l] ELSE <<>>
        BY <2>5, <2>6, <2>7
      <4>4. l \in LayersOf(RosterOf(path, g.stack))
        BY <2>13
      <4>5. (IF l \in LayersOf(d.stack) THEN d.pic[l] ELSE <<>>) = Ink(g, path, l)
        BY <2>8, <2>11, <3>4, <4>4 DEF Near
      <4> QED
        BY <3>2, <4>2, <4>3, <4>5
    <3> QED
      BY <3>3, <3>4
  <2>15. ~Carried(s) /\ \A l : ~Wet(s, l)
    BY <2>7, <2>9 DEF Carried, Wet
  <2>16. \A l \in LayersOf(s.stack) : Shows(s, g, l)
    BY <2>9, <2>14, <2>15 DEF Shows
  <2> QED
    BY <2>9, <2>12, <2>13, <2>15, <2>16 DEF Pictured
<1> QED
  BY <1>2, <1>3, <1>4 DEF Tidy, Paged

----------------------------------------------------------------------------
(* Undo.                                                                   *)

(* Two entries of a book between which no mark was made.                   *)
Level(book, g, a, b) ==
  /\ RosterOf(Path(book, a), g.stack) = RosterOf(Path(book, b), g.stack)
  /\ \A l \in Layers : Ink(g, Path(book, a), l) = Ink(g, Path(book, b), l)
  /\ \A l \in Layers : KeyframedOn(Path(book, a), l) => KeyframedOn(Path(book, b), l)
  /\ Restates(Path(book, a)) # {} => Restates(Path(book, b)) # {}

(* No mark between a and b and none between b and c: none between a and c. *)
LEMMA LevelOn ==
  ASSUME NEW book, NEW g, NEW a, NEW b, NEW c, Level(book, g, a, b), Level(book, g, b, c)
  PROVE  Level(book, g, a, c)
BY DEF Level

(* A step along the book: the path to an entry and the one above it.       *)
StepOn(book, g, n, e, c, above) ==
  /\ e = book[n] /\ c = book[n].parent /\ c \in 0 .. Len(book) /\ c < n
  /\ above = Path(book, c)
  /\ RosterOf(Path(book, n), g.stack) = IF Structural(e) THEN e.roster ELSE RosterOf(above, g.stack)
  /\ Restates(Path(book, n)) # {} <=> Restates(above) # {} \/ Structural(e)
  /\ \A l \in Layers : KeyframedOn(Path(book, n), l) <=> KeyframedOn(above, l) \/ (Keyframes(e) /\ e.layer = l)
  /\ \A l \in Layers : Ink(g, Path(book, n), l) =
           IF Marks(e) /\ e.layer = l THEN Drawn(Ink(g, above, l), e) ELSE Ink(g, above, l)

(* What one entry of a book adds to the path above it.                     *)
LEMMA StepIs ==
  ASSUME NEW m \in Nat, NEW book \in Seq(Entries(m)), Tree(book), NEW g, NEW n \in 1 .. Len(book)
  PROVE  StepOn(book, g, n, book[n], book[n].parent, Path(book, book[n].parent))
<1>1. PICK c : c = book[n].parent
  OBVIOUS
<1>2. PICK e \in Entries(m) : e = book[n]
  OBVIOUS
<1>3. c \in 0 .. Len(book) /\ c < n
  BY <1>1 DEF Tree
<1>4. PICK above \in Seq(Entries(m)) : above = Path(book, c)
  BY <1>3, PathStep
<1>5. PICK path : path = Append(above, e)
  OBVIOUS
<1>6. Path(book, n) = path
  BY <1>1, <1>2, <1>4, <1>5, PathStep
<1>7. /\ RosterOf(path, g.stack) = IF Structural(e) THEN e.roster ELSE RosterOf(above, g.stack)
      /\ Restates(path) # {} <=> Restates(above) # {} \/ Structural(e)
  BY <1>5, RosterStep
<1>8. \A l : KeyframedOn(path, l) <=> KeyframedOn(above, l) \/ (Keyframes(e) /\ e.layer = l)
  BY <1>5, KeyframedStep
<1>9. \A l : Ink(g, path, l) =
           IF Marks(e) /\ e.layer = l THEN Drawn(Ink(g, above, l), e) ELSE Ink(g, above, l)
  BY <1>5, InkStep
<1> QED
  BY <1>1, <1>2, <1>3, <1>4, <1>6, <1>7, <1>8, <1>9 DEF StepOn

(* An entry that is not a mark leads to the same stack and the same rasters*)
(* as the entry above it.                                                  *)
LEMMA LevelStep ==
  ASSUME NEW m \in Nat, NEW book \in Seq(Entries(m)), Tree(book), NEW g, NEW n \in 1 .. Len(book),
         Truthful(book, g, n), ~Marks(book[n])
  PROVE  Level(book, g, book[n].parent, n)
<1>1. PICK e, c, above : e = book[n] /\ c = book[n].parent /\ above = Path(book, c)
  OBVIOUS
<1>2. StepOn(book, g, n, e, c, above)
  BY <1>1, StepIs
<1>3. Structural(e) => e.roster = RosterOf(above, g.stack)
  <2>1. Structural(e) => e.keyframe
    BY <1>1 DEF Structural, Marks, Retraction
  <2> QED
    BY <1>1, <2>1 DEF Truthful, TruthOf
<1> QED
  BY <1>1, <1>2, <1>3 DEF StepOn, Level

(* The newest mark on the way to entry c, 0 for none.                      *)
MarksOn(book, ch) == {i \in DOMAIN ch : Marks(book[ch[i]])}
NewestOn(book, c) ==
  LET ch == ChainTo(book, c)
  IN IF MarksOn(book, ch) = {} THEN 0
     ELSE ch[CHOOSE i \in MarksOn(book, ch) : \A j \in MarksOn(book, ch) : j <= i]

(* The newest mark of a path is its last entry, if that is one, else that  *)
(* of its parent.                                                          *)
LEMMA NewestStep ==
  ASSUME NEW E, NEW book \in Seq(E), Tree(book)
  PROVE  /\ NewestOn(book, 0) = 0
         /\ \A n \in 1 .. Len(book) :
              NewestOn(book, n) = IF Marks(book[n]) THEN n ELSE NewestOn(book, book[n].parent)
<1>1. NewestOn(book, 0) = 0
  <2>1. ChainTo(book, 0) = <<>>
    BY ChainStep
  <2> QED
    BY <2>1 DEF NewestOn, MarksOn
<1>2. ASSUME NEW n \in 1 .. Len(book)
      PROVE  NewestOn(book, n) = IF Marks(book[n]) THEN n ELSE NewestOn(book, book[n].parent)
  <2>1. PICK c : c = book[n].parent
    OBVIOUS
  <2>2. c \in 0 .. Len(book)
    BY <2>1 DEF Tree
  <2>3. PICK up, ch : up = ChainTo(book, c) /\ ch = ChainTo(book, n)
    OBVIOUS
  <2>4. up \in Seq(Nat)
    <3>1. up \in Seq(1 .. c)
      BY <2>2, <2>3, ChainType
    <3> QED
      BY <3>1, <2>2
  <2>5. ch = Append(up, n)
    BY <2>1, <2>3, ChainStep
  <2>6. PICK k \in Nat : k = Len(up)
    BY <2>4
  <2>7. /\ DOMAIN up = 1 .. k /\ DOMAIN ch = 1 .. k + 1 /\ ch[k + 1] = n
        /\ \A i \in 1 .. k : ch[i] = up[i]
    BY <2>4, <2>5, <2>6, AppendIs
  <2>8. PICK S, U : S = MarksOn(book, up) /\ U = MarksOn(book, ch)
    OBVIOUS
  <2>9. CASE Marks(book[n])
    <3>1. k + 1 \in U /\ \A j \in U : j \in 1 .. k + 1
      BY <2>7, <2>8, <2>9 DEF MarksOn
    <3>2. (CHOOSE i \in U : \A j \in U : j <= i) = k + 1
      BY <3>1
    <3>3. U # {}
      BY <3>1
    <3>4. NewestOn(book, n) = ch[CHOOSE i \in U : \A j \in U : j <= i]
      BY <2>3, <2>8, <3>3 DEF NewestOn
    <3> QED
      BY <2>7, <2>9, <3>2, <3>4
  <2>10. CASE ~Marks(book[n])
    <3>1. U = S
      BY <2>7, <2>8, <2>10 DEF MarksOn
    <3>2. NewestOn(book, n) = IF S = {} THEN 0 ELSE ch[CHOOSE i \in S : \A j \in S : j <= i]
      BY <2>3, <2>8, <3>1 DEF NewestOn
    <3>3. NewestOn(book, c) = IF S = {} THEN 0 ELSE up[CHOOSE i \in S : \A j \in S : j <= i]
      BY <2>3, <2>8 DEF NewestOn
    <3>4. CASE S = {}
      BY <2>1, <2>10, <3>2, <3>3, <3>4
    <3>5. CASE S # {}
      <4>1. S \in SUBSET (1 .. k)
        BY <2>7, <2>8 DEF MarksOn
      <4>2. \E i \in S : \A j \in S : j <= i
        BY <4>1, <3>5, NatMax
      <4>3. PICK i \in S : i = CHOOSE z \in S : \A j \in S : j <= z
        BY <4>2
      <4>4. ch[i] = up[i]
        BY <4>1, <4>3, <2>7
      <4> QED
        BY <2>1, <2>10, <3>2, <3>3, <3>5, <4>3, <4>4
    <3> QED
      BY <3>4, <3>5
  <2> QED
    BY <2>9, <2>10
<1> QED
  BY <1>1, <1>2

(* The newest mark is a mark, and none was made after it on the way.       *)
LEMMA NewestIs ==
  ASSUME NEW m \in Nat, NEW book \in Seq(Entries(m)), Tree(book)
  PROVE  \A n \in 0 .. Len(book) :
           LET k == NewestOn(book, n) IN
             k # 0 => /\ k \in 1 .. Len(book) /\ Marks(book[k])
                      /\ \A g : (\A i \in DOMAIN book : Truthful(book, g, i)) => Level(book, g, k, n)
<1> DEFINE H(k, n) == k # 0 => /\ k \in 1 .. Len(book) /\ Marks(book[k])
                      /\ \A g : (\A i \in DOMAIN book : Truthful(book, g, i)) => Level(book, g, k, n)
           G == {n \in 0 .. Len(book) : H(NewestOn(book, n), n)}
<1>1. 0 \in G
  <2>1. NewestOn(book, 0) = 0 /\ 0 \in 0 .. Len(book)
    BY NewestStep
  <2> QED
    BY <2>1
<1>2. ASSUME NEW n \in 1 .. Len(book), book[n].parent \in G PROVE n \in G
  <2>1. PICK c : c = book[n].parent
    OBVIOUS
  <2>2. PICK j, k : j = NewestOn(book, c) /\ k = NewestOn(book, n)
    OBVIOUS
  <2>3. H(j, c)
    BY <1>2, <2>1, <2>2
  <2>4. k = IF Marks(book[n]) THEN n ELSE j
    BY <2>1, <2>2, NewestStep
  <2>5. H(k, n)
    <3>1. CASE Marks(book[n])
      <4>1. k = n
        BY <2>4, <3>1
      <4>2. \A g : Level(book, g, n, n)
        BY DEF Level
      <4> QED
        BY <3>1, <4>1, <4>2
    <3>2. CASE ~Marks(book[n])
      <4>1. k = j
        BY <2>4, <3>2
      <4>2. ASSUME NEW g, \A i \in DOMAIN book : Truthful(book, g, i), k # 0 PROVE Level(book, g, k, n)
        <5>1. Level(book, g, k, c)
          BY <2>3, <4>1, <4>2
        <5>2. Level(book, g, c, n)
          BY <2>1, <3>2, <4>2, LevelStep
        <5> QED
          BY <5>1, <5>2, LevelOn
      <4> QED
        BY <2>3, <4>1, <4>2
    <3> QED
      BY <3>1, <3>2
  <2> HIDE DEF H
  <2> QED
    BY <2>2, <2>5
<1>3. \A n \in 0 .. Len(book) : n \in G
  <2> HIDE DEF G
  <2> QED
    BY <1>1, <1>2, TreeInd
<1> QED
  BY <1>3

(* A page on which nothing is under way shows what its path draws.         *)
Resting(d, g) ==
  /\ d.stack = RosterOf(PathOf(d), g.stack)
  /\ \A l \in LayersOf(d.stack) : d.pic[l] = Ink(g, PathOf(d), l)

(* With no stroke open and nothing lifted, every layer shows what the path *)
(* drew.                                                                   *)
LEMMA RestingIs ==
  ASSUME NEW d, NEW g, Pictured(d, g), d.open = <<>>, d.lift = 0
  PROVE  Resting(d, g)
<1>1. ~Carried(d) /\ \A l : ~Wet(d, l)
  BY DEF Carried, Wet
<1> QED
  BY <1>1 DEF Pictured, Shows, Resting

(* The page above the newest mark.                                         *)
LEMMA UndoNear ==
  ASSUME NEW d, NEW g, Sane(d, g), Resting(d, g), GroundedBook(d.book),
         \A n \in DOMAIN d.book : Truthful(d.book, g, n),
         NEW k \in 1 .. Len(d.book), Marks(d.book[k]), Level(d.book, g, k, d.cursor)
  PROVE  Near(d, g, d.book[k].parent)
<1>1. PICK m : m = d.made
  OBVIOUS
<1>2. PICK book : book = d.book
  OBVIOUS
<1>3. m \in Nat /\ book \in Seq(Entries(m)) /\ Tree(book)
  BY <1>1, <1>2, DocFields DEF Sane
<1>4. PICK e, c, above : e = book[k] /\ c = book[k].parent /\ above = Path(book, c)
  OBVIOUS
<1>5. StepOn(book, g, k, e, c, above)
  BY <1>2, <1>3, <1>4, StepIs
<1>6. TruthOf(e, above, g) /\ Marks(e) /\ e \in Entries(m)
  BY <1>2, <1>3, <1>4 DEF Truthful
<1>7. Structural(e) => /\ Restates(above) # {}
                       /\ \A l \in LayersOf(RosterOf(above, g.stack)) :
                            l \in LayersOf(e.roster) \/ KeyframedOn(above, l)
                       /\ e.layer # NoLayer => KeyframedOn(above, e.layer)
  <2>1. ~e.keyframe
    BY <1>6 DEF Marks
  <2> QED
    BY <1>6, <2>1 DEF TruthOf
<1>8. d.stack = RosterOf(Path(book, k), g.stack)
  BY <1>2 DEF Resting, Level, PathOf
<1>9. ASSUME Restates(above) = {} PROVE d.stack = g.stack
  <2>1. ~Structural(e)
    BY <1>7, <1>9
  <2>2. d.stack = RosterOf(above, g.stack)
    BY <1>5, <1>8, <2>1 DEF StepOn
  <2>3. above \in Seq(Entries(m))
    BY <1>3, <1>4, <1>5, PathStep DEF StepOn
  <2>4. RosterOf(above, g.stack) = g.stack
    BY <1>9, <2>3, LastRosterIs
  <2> QED
    BY <2>2, <2>4
<1>10. ASSUME NEW l \in LayersOf(RosterOf(above, g.stack)), ~KeyframedOn(above, l)
       PROVE  (IF l \in LayersOf(d.stack) THEN d.pic[l] ELSE <<>>) = Ink(g, above, l)
  <2>1. l \in LayersOf(d.stack)
    <3>1. CASE Structural(e)
      <4>1. l \in LayersOf(e.roster)
        BY <1>7, <1>10, <3>1
      <4>2. d.stack = e.roster
        BY <1>5, <1>8, <3>1 DEF StepOn
      <4> QED
        BY <4>1, <4>2
    <3>2. CASE ~Structural(e)
      <4>1. d.stack = RosterOf(above, g.stack)
        BY <1>5, <1>8, <3>2 DEF StepOn
      <4> QED
        BY <1>10, <4>1
    <3> QED
      BY <3>1, <3>2
  <2>2. l \in Layers /\ l # NoLayer
    BY <2>1, SaneLayers
  <2>3. d.pic[l] = Ink(g, Path(book, k), l)
    BY <1>2, <2>1, <2>2 DEF Resting, Level, PathOf
  <2>4. e.layer # l
    <3>1. ASSUME e.layer = l PROVE FALSE
      <4>1. CASE Keyframes(e)
        <5>1. Structural(e)
          BY <4>1, <1>6 DEF Marks, Keyframes
        <5> QED
          BY <5>1, <3>1, <2>2, <1>7, <1>10
      <4>2. CASE ~Keyframes(e)
        <5>1. KeyframedOn(Path(book, k), l)
          BY <1>2, <1>3, <1>4, <1>6, <2>2, <3>1, <4>2 DEF GroundedBook
        <5>2. KeyframedOn(above, l)
          BY <5>1, <4>2, <2>2, <1>5 DEF StepOn
        <5> QED
          BY <5>2, <1>10
      <4> QED
        BY <4>1, <4>2
    <3> QED
      BY <3>1
  <2>5. Ink(g, Path(book, k), l) = Ink(g, above, l)
    BY <1>5, <2>2, <2>4 DEF StepOn
  <2> QED
    BY <2>1, <2>3, <2>5
<1> QED
  BY <1>2, <1>4, <1>9, <1>10 DEF Near

(* NewestMark walks up from the cursor.                                    *)
LEMMA NewestMarkIs ==
  ASSUME NEW d
  PROVE  NewestMark(d) = NewestOn(d.book, d.cursor)
BY DEF NewestMark, NewestOn, MarksOn

(* The newest mark on the way to an entry is on that way.                  *)
LEMMA NewestOnWay ==
  ASSUME NEW E, NEW book \in Seq(E), Tree(book)
  PROVE  \A n \in 0 .. Len(book) : NewestOn(book, n) # 0 => NewestOn(book, n) \in Way(book, n)
<1> DEFINE H(n) == NewestOn(book, n) # 0 => NewestOn(book, n) \in Way(book, n)
           G == {n \in 0 .. Len(book) : H(n)}
<1>1. 0 \in G
  BY NewestStep
<1>2. ASSUME NEW n \in 1 .. Len(book), book[n].parent \in G PROVE n \in G
  <2>1. Way(book, n) = Way(book, book[n].parent) \cup {n}
    BY WayStep
  <2>2. NewestOn(book, n) = IF Marks(book[n]) THEN n ELSE NewestOn(book, book[n].parent)
    BY NewestStep
  <2>3. H(book[n].parent)
    BY <1>2
  <2>4. H(n)
    BY <2>1, <2>2, <2>3
  <2> QED
    BY <2>4
<1>3. \A n \in 0 .. Len(book) : n \in G
  <2> HIDE DEF G
  <2> QED
    BY <1>1, <1>2, TreeInd
<1> QED
  BY <1>3

(* What can be redone above an entry that is on the way to the cursor.     *)
LEMMA RedoableUp ==
  ASSUME NEW E, NEW book \in Seq(E), Tree(book), NEW n \in 0 .. Len(book), Redoable(book, n),
         NEW k \in Way(book, n)
  PROVE  Redoable(book, book[k].parent)
<1>1. Way(book, book[k].parent) \in SUBSET Way(book, n)
  BY WayUp
<1> QED
  BY <1>1 DEF Redoable

(* Undo keeps the invariant: whatever branch the cursor is on, the page it *)
(* steps back to is the one the path above the mark drew (Undo).           *)
LEMMA UndoGood ==
  ASSUME NEW d, NEW g, NEW t, Good(d, g, t), NewestMark(Ended(d)) # 0,
         NEW s, s = Undo(d)
  PROVE  Tidy(s, g, t \/ d.lift # 0)
<1>1. PICK u : u = Ended(d)
  OBVIOUS
<1>2. Paged(u, g, t) /\ u.lift = d.lift /\ u.open = <<>> /\ u.sel = NoBox
  <2>1. Paged(d, g, t) /\ WordsOf(d, loose)
    BY DEF Good, Paged, Worded
  <2> QED
    BY <2>1, <1>1, EndedGood DEF Settled
<1>3. PICK k : k = NewestMark(u)
  OBVIOUS
<1>4. s = IF k = 0 THEN u ELSE ReplayTo(u, u.book[k].parent)
  BY <1>1, <1>3 DEF Undo
<1>6. k # 0
  BY <1>1, <1>3
<1>7. Tidy(s, g, t \/ d.lift # 0)
  <2>1. PICK m : m = u.made
    OBVIOUS
  <2>2. Sane(u, g) /\ (~t /\ GroundedBook(u.book) => Pictured(u, g))
    BY <1>2 DEF Paged
  <2>3. m \in Nat /\ u.book \in Seq(Entries(m)) /\ Tree(u.book) /\ u.cursor \in 0 .. Len(u.book)
    BY <2>1, <2>2, DocFields DEF Sane
  <2>4. k = NewestOn(u.book, u.cursor)
    BY <1>3, NewestMarkIs
  <2>5. /\ k \in 1 .. Len(u.book) /\ Marks(u.book[k])
        /\ (\A i \in DOMAIN u.book : Truthful(u.book, g, i)) => Level(u.book, g, k, u.cursor)
    BY <1>6, <2>3, <2>4, NewestIs
  <2>6. PICK c : c = u.book[k].parent
    OBVIOUS
  <2>7. c \in 0 .. Len(u.book)
    BY <2>3, <2>5, <2>6 DEF Tree
  <2>7a. Redoable(u.book, c)
    <3>1. k \in Way(u.book, u.cursor)
      BY <1>6, <2>3, <2>4, NewestOnWay
    <3>2. Redoable(u.book, u.cursor)
      BY <2>2 DEF Sane, Returns
    <3> QED
      BY <3>1, <3>2, <2>3, <2>6, RedoableUp
  <2>8. ASSUME ~t, GroundedBook(u.book), u.lift = 0 PROVE Near(u, g, c)
    <3>1. Pictured(u, g)
      BY <2>2, <2>8
    <3>2. Resting(u, g)
      BY <1>2, <2>8, <3>1, RestingIs
    <3>3. \A i \in DOMAIN u.book : Truthful(u.book, g, i)
      BY <3>1 DEF Pictured
    <3> QED
      BY <2>2, <2>5, <2>6, <2>8, <3>2, <3>3, UndoNear
  <2>9. s = ReplayTo(u, c)
    BY <1>4, <1>6, <2>6
  <2>10. Tidy(s, g, t \/ u.lift # 0)
    BY <1>2, <2>7, <2>7a, <2>8, <2>9, ReplayGood
  <2> QED
    BY <1>2, <2>10
<1> QED
  BY <1>7

----------------------------------------------------------------------------
(* Redo.                                                                   *)

(* Counting a finite set of numbers from the top.                          *)
Above(S, k) == {i \in S : i >= k}

(* Counting the numbers of a set from k up.                                *)
LEMMA AboveIs ==
  ASSUME NEW n \in Nat, NEW S \in SUBSET (1 .. n)
  PROVE  /\ IsFiniteSet(S) /\ Cardinality(S) \in Nat
         /\ \A k \in Nat : IsFiniteSet(Above(S, k)) /\ Cardinality(Above(S, k)) \in Nat
         /\ Cardinality(Above(S, 1)) = Cardinality(S)
         /\ Cardinality(Above(S, n + 1)) = 0
<1>1. IsFiniteSet(S) /\ \A i \in S : i \in Nat /\ i >= 1 /\ i <= n
  <2>1. IsFiniteSet(1 .. n)
    BY FS_Interval
  <2>2. IsFiniteSet(S)
    BY <2>1, FS_Subset
  <2> QED
    BY <2>2
<1>2. Cardinality(S) \in Nat
  BY <1>1, FS_CardinalityType
<1>3. ASSUME NEW k \in Nat PROVE IsFiniteSet(Above(S, k)) /\ Cardinality(Above(S, k)) \in Nat
  <2>1. Above(S, k) \in SUBSET S
    BY DEF Above
  <2>2. IsFiniteSet(Above(S, k))
    BY <1>1, <2>1, FS_Subset
  <2> QED
    BY <2>2, FS_CardinalityType
<1>4. Above(S, 1) = S
  BY <1>1 DEF Above
<1>5. Cardinality(Above(S, n + 1)) = 0
  <2>1. \A i \in S : ~(i >= n + 1)
    BY <1>1
  <2>2. Above(S, n + 1) = {}
    BY <2>1, Zenon DEF Above
  <2> QED
    BY <2>2, FS_EmptySet
<1> QED
  BY <1>1, <1>2, <1>3, <1>4, <1>5

(* One number further down counts one more if it is in the set.            *)
LEMMA AboveStep ==
  ASSUME NEW n \in Nat, NEW S \in SUBSET (1 .. n), NEW k \in 1 .. n, NEW z \in Nat, z = k + 1
  PROVE  Cardinality(Above(S, k)) =
           IF k \in S THEN Cardinality(Above(S, z)) + 1 ELSE Cardinality(Above(S, z))
<1>1. \A i \in S : i >= k <=> i >= z \/ i = k
  <2>1. \A i \in S : i \in Nat
    OBVIOUS
  <2> QED
    BY <2>1
<1>2. ~(k >= z)
  OBVIOUS
<1>3. CASE k \in S
  <2>1. Above(S, k) = Above(S, z) \cup {k}
    <3>1. k >= k
      OBVIOUS
    <3> QED
      BY <1>1, <1>3, <3>1, Zenon DEF Above
  <2>2. k \notin Above(S, z)
    BY <1>2 DEF Above
  <2>3. IsFiniteSet(Above(S, z))
    BY AboveIs
  <2>4. Cardinality(Above(S, z) \cup {k}) = Cardinality(Above(S, z)) + 1
    BY <2>2, <2>3, FS_AddElement
  <2> QED
    BY <1>3, <2>1, <2>4
<1>4. CASE k \notin S
  <2>1. \A i \in S : i >= k <=> i >= z
    BY <1>1, <1>4
  <2>2. Above(S, k) = Above(S, z)
    BY <2>1, Zenon DEF Above
  <2> QED
    BY <1>4, <2>2
<1> QED
  BY <1>3, <1>4

(* At most one number is above one that is first or second from the top.   *)
LEMMA OneAbove ==
  ASSUME NEW n \in Nat, NEW S \in SUBSET (1 .. n), NEW k \in S
  PROVE  Cardinality(Above(S, k)) \in {1, 2} <=>
           \A i, j \in S : i > k /\ j > k => i = j
<1>1. k \in Nat /\ k >= k /\ \A i \in S : i \in Nat
  OBVIOUS
<1>2. PICK T : T = Above(S, k)
  OBVIOUS
<1>3. IsFiniteSet(T) /\ k \in T /\ \A i : i \in T <=> i \in S /\ (i > k \/ i = k)
  <2>1. IsFiniteSet(T)
    BY <1>1, <1>2, AboveIs
  <2>2. \A i \in S : i >= k <=> i > k \/ i = k
    BY <1>1
  <2> QED
    BY <1>1, <1>2, <2>1, <2>2 DEF Above
<1>4. \A i : IsFiniteSet({i}) /\ Cardinality({i}) = 1
  BY FS_Singleton
<1>5. ASSUME NEW i \in S, i > k
      PROVE  IsFiniteSet({k, i}) /\ Cardinality({k, i}) = 2
  <2>1. i \notin {k} /\ {k} \cup {i} = {k, i}
    BY <1>1, <1>5
  <2>2. IsFiniteSet({k} \cup {i}) /\ Cardinality({k} \cup {i}) = Cardinality({k}) + 1
    BY <1>4, <2>1, FS_AddElement
  <2>3. Cardinality({k}) + 1 = 2
    BY <1>4
  <2> QED
    BY <2>1, <2>2, <2>3
<1>6. ASSUME NEW i \in S, NEW j \in S, i > k, j > k, i # j
      PROVE  Cardinality(T) \notin {1, 2}
  <2>1. j \notin {k, i}
    BY <1>1, <1>6
  <2>2. /\ IsFiniteSet({k, i} \cup {j})
        /\ Cardinality({k, i} \cup {j}) = Cardinality({k, i}) + 1
    BY <1>5, <1>6, <2>1, FS_AddElement
  <2>3. Cardinality({k, i} \cup {j}) = 3
    BY <1>5, <1>6, <2>2
  <2>4. {k, i} \cup {j} \in SUBSET T
    BY <1>3, <1>6
  <2>5. Cardinality({k, i} \cup {j}) <= Cardinality(T)
    BY <1>3, <2>4, FS_Subset
  <2>6. Cardinality(T) \in Nat
    BY <1>3, FS_CardinalityType
  <2> QED
    BY <2>3, <2>5, <2>6
<1>7. ASSUME \A i, j \in S : i > k /\ j > k => i = j
      PROVE  Cardinality(T) \in {1, 2}
  <2>1. CASE \E i \in S : i > k
    <3>1. PICK i \in S : i > k
      BY <2>1
    <3>2. \A j : j \in T <=> j \in {k, i}
      BY <1>3, <1>7, <3>1
    <3>3. T = {k, i}
      BY <3>2
    <3> QED
      BY <1>5, <3>1, <3>3
  <2>2. CASE ~\E i \in S : i > k
    <3>1. \A j : j \in T <=> j \in {k}
      BY <1>3, <2>2
    <3>2. T = {k}
      BY <3>1
    <3> QED
      BY <1>4, <3>2
  <2> QED
    BY <2>1, <2>2
<1> QED
  BY <1>2, <1>6, <1>7

(* Counted from the top, every place of a finite set is taken.             *)
LEMMA CountedFromTop ==
  ASSUME NEW n \in Nat, NEW S \in SUBSET (1 .. n), NEW j \in 1 .. Cardinality(S)
  PROVE  \E k \in S : Cardinality({i \in S : i >= k}) = j
<1> DEFINE U == {k \in 1 .. n : Cardinality(Above(S, k)) >= j}
<1>1. Cardinality(S) \in Nat /\ Cardinality(Above(S, 1)) = Cardinality(S)
      /\ Cardinality(Above(S, n + 1)) = 0
  BY AboveIs
<1>2. j \in Nat /\ j >= 1 /\ j <= Cardinality(S)
  BY <1>1
<1>3. n >= 1
  <2>1. ASSUME n = 0 PROVE FALSE
    <3>1. n + 1 = 1
      BY <2>1
    <3> QED
      BY <1>1, <1>2, <3>1
  <2> QED
    BY <2>1
<1>4. 1 \in U
  BY <1>1, <1>2, <1>3
<1>5. PICK k \in U : \A i \in U : i <= k
  <2>1. U \in SUBSET (1 .. n) /\ U # {}
    BY <1>4
  <2> HIDE DEF U
  <2> QED
    BY <2>1, NatMax
<1>6. k \in 1 .. n /\ k \in Nat /\ Cardinality(Above(S, k)) >= j
  BY <1>5
<1>7. PICK z \in Nat : z = k + 1
  BY <1>6
<1>8. PICK a \in Nat, b \in Nat : a = Cardinality(Above(S, k)) /\ b = Cardinality(Above(S, z))
  BY <1>6, AboveIs
<1>9. b < j
  <2>1. CASE z \in 1 .. n
    <3>1. z \notin U
      BY <1>5, <1>6, <1>7
    <3>2. ~(b >= j)
      BY <2>1, <3>1, <1>8
    <3> QED
      BY <1>2, <1>8, <3>2
  <2>2. CASE z \notin 1 .. n
    <3>1. z = n + 1
      BY <1>6, <1>7, <2>2
    <3>2. b = 0
      BY <3>1, <1>1, <1>8
    <3> QED
      BY <3>2, <1>2
  <2> QED
    BY <2>1, <2>2
<1>10. k \notin S => a = b
  BY <1>6, <1>7, <1>8, AboveStep
<1>11. k \in S => a = b + 1
  BY <1>6, <1>7, <1>8, AboveStep
<1>12. a >= j
  BY <1>6, <1>8
<1>13. k \in S /\ a = j
  BY <1>2, <1>8, <1>9, <1>10, <1>11, <1>12
<1> QED
  BY <1>8, <1>13 DEF Above

(* What a redo finds down a branch is a mark, and the first one on its way.*)
LEMMA DownIs ==
  ASSUME NEW m \in Nat, NEW book \in Seq(Entries(m)), Tree(book)
  PROVE  \A k \in 1 .. Len(book) :
           LET t == DownOf(book)[k] IN
             t # 0 => /\ t \in 1 .. Len(book) /\ Marks(book[t])
                      /\ \A g : (\A i \in DOMAIN book : Truthful(book, g, i)) =>
                                  Level(book, g, book[k].parent, book[t].parent)
<1> DEFINE H(t, k) == t # 0 => /\ t \in 1 .. Len(book) /\ Marks(book[t])
                      /\ \A g : (\A i \in DOMAIN book : Truthful(book, g, i)) =>
                                  Level(book, g, book[k].parent, book[t].parent)
           G == {k \in 1 .. Len(book) : H(DownOf(book)[k], k)}
<1>1. PICK n \in Nat : n = Len(book)
  OBVIOUS
<1>2. ASSUME NEW k \in 1 .. n, \A j \in k + 1 .. n : j \in G PROVE k \in G
  <2>1. PICK t : t = DownOf(book)[k]
    OBVIOUS
  <2>2. k \in 1 .. Len(book)
    BY <1>1
  <2>3. CASE Marks(book[k])
    <3>1. t = k
      BY <2>1, <2>2, <2>3, DownStep
    <3>2. \A g : Level(book, g, book[k].parent, book[k].parent)
      BY DEF Level
    <3>3. H(t, k)
      BY <2>2, <2>3, <3>1, <3>2
    <3> HIDE DEF H
    <3> QED
      BY <2>1, <2>2, <3>3
  <2>4. CASE ~Marks(book[k]) /\ ChildrenOf(book, k) = {}
    <3>1. t = 0
      BY <2>1, <2>2, <2>4, DownStep
    <3>2. H(t, k)
      BY <3>1
    <3> HIDE DEF H
    <3> QED
      BY <2>1, <2>2, <3>2
  <2>5. CASE ~Marks(book[k]) /\ ChildrenOf(book, k) # {}
    <3>1. PICK j : j = Max(ChildrenOf(book, k))
      OBVIOUS
    <3>2. j \in k + 1 .. n /\ book[j].parent = k
      <4>1. k \in 0 .. Len(book)
        BY <2>2
      <4>2. ChildrenOf(book, k) \in SUBSET (k + 1 .. Len(book)) /\ j \in ChildrenOf(book, k)
        BY <2>5, <3>1, <4>1, ChildrenAre
      <4>3. \A i \in ChildrenOf(book, k) : book[i].parent = k
        BY <4>1, ChildrenAre
      <4> QED
        BY <4>2, <4>3, <1>1
    <3>3. t = DownOf(book)[j]
      BY <2>1, <2>2, <2>5, <3>1, DownStep
    <3>4. H(t, j)
      BY <1>2, <3>2, <3>3
    <3>5. ASSUME NEW g, \A i \in DOMAIN book : Truthful(book, g, i), t # 0
          PROVE  Level(book, g, book[k].parent, book[t].parent)
      <4>1. Level(book, g, k, book[t].parent)
        BY <3>2, <3>4, <3>5
      <4>2. Level(book, g, book[k].parent, k)
        BY <2>2, <2>5, <3>5, LevelStep
      <4> QED
        BY <4>1, <4>2, LevelOn
    <3>6. H(t, k)
      BY <3>4, <3>5
    <3> HIDE DEF H
    <3> QED
      BY <2>1, <2>2, <3>6
  <2> QED
    BY <2>3, <2>4, <2>5
<1>3. \A k \in 1 .. n : k \in G
  <2> HIDE DEF G
  <2> QED
    BY <1>2, CountDown
<1> QED
  BY <1>1, <1>3

(* The marks on the way to what a redo finds are the ones on the way to    *)
(* where it starts, and the one it finds.                                  *)
DownOn(book, k, t) ==
  /\ t = k \/ t = Max(ChildrenOf(book, book[t].parent))
  /\ \A x \in Way(book, t) : Marks(book[x]) => x = t \/ x \in Way(book, book[k].parent)

(* Keyframes are stepped over down their newest child, so a mark a redo    *)
(* finds is the branch itself or the newest child of what is above it.     *)
LEMMA DownWay ==
  ASSUME NEW E, NEW book \in Seq(E), Tree(book)
  PROVE  \A k \in 1 .. Len(book) : DownOf(book)[k] # 0 => DownOn(book, k, DownOf(book)[k])
<1> DEFINE H(t, k) == t # 0 => DownOn(book, k, t)
           G == {k \in 1 .. Len(book) : H(DownOf(book)[k], k)}
<1>1. PICK n \in Nat : n = Len(book)
  OBVIOUS
<1>2. ASSUME NEW k \in 1 .. n, \A j \in k + 1 .. n : j \in G PROVE k \in G
  <2>1. PICK t : t = DownOf(book)[k]
    OBVIOUS
  <2>2. k \in 1 .. Len(book) /\ k \in 0 .. Len(book)
    BY <1>1
  <2>2a. Way(book, k) = Way(book, book[k].parent) \cup {k}
    BY <2>2, WayStep
  <2>3. CASE Marks(book[k])
    <3>1. t = k
      BY <2>1, <2>2, <2>3, DownStep
    <3>2. H(t, k)
      BY <2>2a, <3>1 DEF DownOn
    <3> HIDE DEF H
    <3> QED
      BY <2>1, <2>2, <3>2
  <2>4. CASE ~Marks(book[k]) /\ ChildrenOf(book, k) = {}
    <3>1. t = 0
      BY <2>1, <2>2, <2>4, DownStep
    <3>2. H(t, k)
      BY <3>1
    <3> HIDE DEF H
    <3> QED
      BY <2>1, <2>2, <3>2
  <2>5. CASE ~Marks(book[k]) /\ ChildrenOf(book, k) # {}
    <3>1. PICK j : j = Max(ChildrenOf(book, k))
      OBVIOUS
    <3>2. j \in k + 1 .. n /\ book[j].parent = k
      <4>2. ChildrenOf(book, k) \in SUBSET (k + 1 .. Len(book)) /\ j \in ChildrenOf(book, k)
        BY <2>2, <2>5, <3>1, ChildrenAre
      <4>3. \A i \in ChildrenOf(book, k) : book[i].parent = k
        BY <2>2, ChildrenAre
      <4> QED
        BY <4>2, <4>3, <1>1
    <3>3. t = DownOf(book)[j]
      BY <2>1, <2>2, <2>5, <3>1, DownStep
    <3>4. H(t, j)
      BY <1>2, <3>2, <3>3
    <3>5. H(t, k)
      BY <2>2a, <2>5, <3>1, <3>2, <3>4 DEF DownOn
    <3> HIDE DEF H
    <3> QED
      BY <2>1, <2>2, <3>5
  <2> QED
    BY <2>3, <2>4, <2>5
<1>3. \A k \in 1 .. n : k \in G
  <2> HIDE DEF G
  <2> QED
    BY <1>2, CountDown
<1> QED
  BY <1>1, <1>3

(* The j-th of a set of numbers, counted from the top.                     *)
NthOf(S, j) == CHOOSE k \in S : Cardinality({i \in S : i >= k}) = j

(* RedoTargets, branch by branch.                                          *)
LEMMA RedoTargetsAre ==
  ASSUME NEW d
  PROVE  RedoTargets(d) =
           [j \in 1 .. Cardinality(LiveOf(d.book, d.cursor)) |->
              DownOf(d.book)[NthOf(LiveOf(d.book, d.cursor), j)]]
BY DEF RedoTargets, LiveOf, NthOf, DownOf

(* The branches that can be redone, counted.                               *)
LEMMA RedoTargetsLen ==
  ASSUME NEW d, NEW g, Sane(d, g)
  PROVE  Len(RedoTargets(d)) \in Nat /\ (RedoTargets(d) # <<>> => Len(RedoTargets(d)) >= 1)
<1>1. PICK m : m = d.made
  OBVIOUS
<1>2. m \in Nat /\ d.book \in Seq(Entries(m)) /\ Tree(d.book) /\ d.cursor \in 0 .. Len(d.book)
  BY <1>1, DocFields DEF Sane
<1>3. PICK S : S = LiveOf(d.book, d.cursor)
  OBVIOUS
<1>4. S \in SUBSET (1 .. Len(d.book)) /\ Len(d.book) \in Nat
  BY <1>2, <1>3, ChildrenAre DEF LiveOf
<1>5. PICK size \in Nat : size = Cardinality(S)
  BY <1>4, AboveIs
<1>6. RedoTargets(d) = [i \in 1 .. size |-> DownOf(d.book)[NthOf(S, i)]]
  BY <1>3, <1>5, RedoTargetsAre
<1> QED
  BY <1>6

(* What redo leads to: a mark, with no other between it and the cursor.    *)
RedoTargetIs(d, t) ==
  /\ t \in 1 .. Len(d.book) /\ Marks(d.book[t]) /\ Redoable(d.book, t)
  /\ \A g : (\A i \in DOMAIN d.book : Truthful(d.book, g, i)) =>
              Level(d.book, g, d.cursor, d.book[t].parent)

(* Both redo keys lead to a mark, with no mark between the cursor and it.  *)
LEMMA RedoLeadsTo ==
  ASSUME NEW m \in Nat, NEW d, d.book \in Seq(Entries(m)), Tree(d.book), d.cursor \in 0 .. Len(d.book),
         NEW j \in {1, 2}, j <= Len(RedoTargets(d)), Redoable(d.book, d.cursor)
  PROVE  RedoTargetIs(d, RedoTargets(d)[j])
<1>1. PICK book, c : book = d.book /\ c = d.cursor
  OBVIOUS
<1>2. PICK S : S = LiveOf(book, c)
  OBVIOUS
<1>3. PICK n \in Nat : n = Len(book)
  BY <1>1
<1>4. S \in SUBSET (1 .. n) /\ \A k \in S : book[k].parent = c /\ DownOf(book)[k] # 0
  <2>1. c \in 0 .. Len(book) /\ book \in Seq(Entries(m)) /\ Tree(book)
    BY <1>1
  <2>2. /\ ChildrenOf(book, c) \in SUBSET (c + 1 .. Len(book))
        /\ \A k \in ChildrenOf(book, c) : book[k].parent = c
    BY <2>1, ChildrenAre
  <2> QED
    BY <2>1, <2>2, <1>2, <1>3 DEF LiveOf
<1>5. PICK size \in Nat : size = Cardinality(S)
  BY <1>4, AboveIs
<1>6. RedoTargets(d) = [i \in 1 .. size |-> DownOf(book)[NthOf(S, i)]]
  BY <1>1, <1>2, <1>5, RedoTargetsAre
<1>7. j \in 1 .. size
  <2>1. Len(RedoTargets(d)) = size
    BY <1>6
  <2> QED
    BY <2>1
<1>8. PICK k : k = NthOf(S, j)
  OBVIOUS
<1>9. k \in S /\ Cardinality({x \in S : x >= k}) = j
  <2>1. \E i \in S : Cardinality({x \in S : x >= i}) = j
    BY <1>4, <1>5, <1>7, CountedFromTop
  <2> QED
    BY <1>8, <2>1 DEF NthOf
<1>10. PICK t : t = DownOf(book)[k]
  OBVIOUS
<1>11. RedoTargets(d)[j] = t
  BY <1>6, <1>7, <1>8, <1>10
<1>12. /\ t \in 1 .. Len(book) /\ Marks(book[t])
       /\ \A g : (\A i \in DOMAIN book : Truthful(book, g, i)) =>
                   Level(book, g, book[k].parent, book[t].parent)
  <2>1. k \in 1 .. Len(book) /\ t # 0
    BY <1>3, <1>4, <1>9, <1>10
  <2> QED
    BY <2>1, <1>1, <1>10, DownIs
<1>13. \A x, y \in S : x > k /\ y > k => x = y
  <2>1. Cardinality(Above(S, k)) \in {1, 2}
    BY <1>9 DEF Above
  <2> QED
    BY <1>4, <1>9, <2>1, OneAbove
<1>14. Redoable(book, t)
  <2>1. k \in 1 .. Len(book) /\ t # 0
    BY <1>3, <1>4, <1>9, <1>10
  <2>2. DownOn(book, k, t) /\ book[k].parent = c
    BY <2>1, <1>1, <1>4, <1>9, <1>10, DownWay
  <2>3. PICK p : p = book[t].parent
    OBVIOUS
  <2>4. p \in 0 .. Len(book)
    BY <1>1, <1>12, <2>3 DEF Tree
  <2>5. ASSUME NEW x \in LiveOf(book, p), NEW y \in LiveOf(book, p), x > t, y > t PROVE x = y
    <3>1. CASE t = k
      BY <1>2, <1>13, <2>2, <2>3, <2>5, <3>1
    <3>2. CASE t # k
      <4>1. t = Max(ChildrenOf(book, p))
        BY <2>2, <2>3, <3>2 DEF DownOn
      <4>2. x \in ChildrenOf(book, p) /\ ChildrenOf(book, p) \in SUBSET (1 .. Len(book))
        BY <1>1, <2>4, ChildrenAre DEF LiveOf
      <4>3. \E i \in ChildrenOf(book, p) : \A j1 \in ChildrenOf(book, p) : j1 <= i
        <5>1. ChildrenOf(book, p) \in SUBSET (1 .. n) /\ ChildrenOf(book, p) # {}
          BY <4>2, <1>3
        <5> QED
          BY <5>1, NatMax
      <4>4. \A i \in ChildrenOf(book, p) : i \in Nat
        BY <4>2, <1>3
      <4>5. \A i \in ChildrenOf(book, p) : i <= Max(ChildrenOf(book, p))
        BY <4>3, <4>4 DEF Max
      <4> QED
        BY <4>1, <4>2, <4>4, <4>5, <2>5, <1>12
    <3> QED
      BY <3>1, <3>2
  <2>6. Redoable(book, c)
    BY <1>1
  <2> QED
    BY <2>2, <2>3, <2>5, <2>6 DEF Redoable, DownOn
<1> QED
  BY <1>1, <1>4, <1>9, <1>11, <1>12, <1>14 DEF RedoTargetIs

(* The page before the mark a redo leads to.                               *)
LEMMA RedoNear ==
  ASSUME NEW d, NEW g, Sane(d, g), Resting(d, g), GroundedBook(d.book),
         \A n \in DOMAIN d.book : Truthful(d.book, g, n),
         NEW k \in 1 .. Len(d.book), Marks(d.book[k]), Level(d.book, g, d.cursor, d.book[k].parent)
  PROVE  Near(d, g, k)
<1>1. PICK m : m = d.made
  OBVIOUS
<1>2. PICK book : book = d.book
  OBVIOUS
<1>3. m \in Nat /\ book \in Seq(Entries(m)) /\ Tree(book) /\ d.cursor \in 0 .. Len(book)
  BY <1>1, <1>2, DocFields DEF Sane
<1>4. PICK e, c, above : e = book[k] /\ c = book[k].parent /\ above = Path(book, c)
  OBVIOUS
<1>5. StepOn(book, g, k, e, c, above)
  BY <1>2, <1>3, <1>4, StepIs
<1>6. TruthOf(e, above, g) /\ Marks(e) /\ e \in Entries(m)
  BY <1>2, <1>3, <1>4 DEF Truthful
<1>7. Structural(e) => \A l \in LayersOf(e.roster) \ LayersOf(RosterOf(above, g.stack)) :
                          l \notin LayersOf(g.stack)
  <2>1. ~Structural(e) \/ ~e.keyframe
    BY <1>6 DEF Marks
  <2> QED
    BY <1>6, <2>1 DEF TruthOf
<1>8. PathOf(d) = Path(book, d.cursor)
  BY <1>2 DEF PathOf
<1>9. /\ d.stack = RosterOf(above, g.stack)
      /\ \A l \in Layers : KeyframedOn(PathOf(d), l) => KeyframedOn(above, l)
      /\ Restates(PathOf(d)) # {} => Restates(above) # {}
  BY <1>2, <1>4, <1>8 DEF Resting, Level
<1>10. ASSUME Restates(Path(book, k)) = {} PROVE d.stack = g.stack
  <2>1. Restates(PathOf(d)) = {}
    BY <1>5, <1>9, <1>10 DEF StepOn
  <2>2. PathOf(d) \in Seq(Entries(m))
    BY <1>3, <1>8, PathStep
  <2>3. RosterOf(PathOf(d), g.stack) = g.stack
    BY <2>1, <2>2, LastRosterIs
  <2> QED
    BY <2>3 DEF Resting
<1>11. ASSUME NEW l \in LayersOf(RosterOf(Path(book, k), g.stack)), ~KeyframedOn(Path(book, k), l)
       PROVE  (IF l \in LayersOf(d.stack) THEN d.pic[l] ELSE <<>>) = Ink(g, Path(book, k), l)
  <2>1. l \in LayersOf(d.stack) \/ (Structural(e) /\ l \in LayersOf(e.roster))
    BY <1>5, <1>9, <1>11 DEF StepOn
  <2>2. l \in Layers
    <3>1. CASE l \in LayersOf(d.stack)
      BY <3>1, SaneLayers
    <3>2. CASE Structural(e) /\ l \in LayersOf(e.roster)
      <4>1. e.roster \in Seq(Faces)
        BY <1>6 DEF Entries, Fields
      <4> QED
        BY <3>2, <4>1, RosterKeys
    <3> QED
      BY <2>1, <3>1, <3>2
  <2>3. ~KeyframedOn(above, l)
    BY <1>5, <1>11, <2>2 DEF StepOn
  <2>4. ~KeyframedOn(Path(book, d.cursor), l)
    BY <1>8, <1>9, <2>2, <2>3
  <2>5. /\ Ink(g, Path(book, k), l) = IF l \in LayersOf(g.stack) THEN g.pic[l] ELSE <<>>
        /\ Ink(g, Path(book, d.cursor), l) = IF l \in LayersOf(g.stack) THEN g.pic[l] ELSE <<>>
    <3>1. GroundedBook(book) /\ k \in 0 .. Len(book)
      BY <1>2
    <3> QED
      BY <1>3, <1>11, <2>2, <2>4, <3>1, UnkeyedInk
  <2>6. CASE l \in LayersOf(d.stack)
    <3>1. d.pic[l] = Ink(g, Path(book, d.cursor), l)
      BY <1>8, <2>6 DEF Resting
    <3> QED
      BY <2>5, <2>6, <3>1
  <2>7. CASE l \notin LayersOf(d.stack)
    <3>1. l \notin LayersOf(g.stack)
      BY <1>7, <1>9, <2>1, <2>7
    <3> QED
      BY <2>5, <2>7, <3>1
  <2> QED
    BY <2>6, <2>7
<1> QED
  BY <1>2, <1>10, <1>11 DEF Near

(* Redo keeps the invariant along whichever branch it takes (RedoAlong).   *)
LEMMA RedoGood ==
  ASSUME NEW d, NEW g, NEW t, Good(d, g, t), NEW branch \in {1, 2},
         branch <= Len(RedoTargets(Ended(d))), NEW s, s = RedoAlong(d, branch)
  PROVE  Tidy(s, g, t \/ d.lift # 0)
<1>1. PICK u : u = Ended(d)
  OBVIOUS
<1>2. Paged(u, g, t) /\ u.lift = d.lift /\ u.open = <<>> /\ u.sel = NoBox
  <2>1. Paged(d, g, t) /\ WordsOf(d, loose)
    BY DEF Good, Paged, Worded
  <2> QED
    BY <2>1, <1>1, EndedGood DEF Settled
<1>3. s = IF branch > Len(RedoTargets(u)) THEN u ELSE ReplayTo(u, RedoTargets(u)[branch])
  BY <1>1 DEF RedoAlong
<1>4. branch <= Len(RedoTargets(u)) /\ Len(RedoTargets(u)) \in Nat
  BY <1>1, <1>2, RedoTargetsLen DEF Paged
<1>5. s = ReplayTo(u, RedoTargets(u)[branch])
  BY <1>3, <1>4
<1>6. Tidy(s, g, t \/ d.lift # 0)
  <2>1. PICK m : m = u.made
    OBVIOUS
  <2>2. Sane(u, g) /\ (~t /\ GroundedBook(u.book) => Pictured(u, g))
    BY <1>2 DEF Paged
  <2>3. m \in Nat /\ u.book \in Seq(Entries(m)) /\ Tree(u.book) /\ u.cursor \in 0 .. Len(u.book)
    BY <2>1, <2>2, DocFields DEF Sane
  <2>4. branch <= Len(RedoTargets(u))
    BY <1>4
  <2>5. PICK c : c = RedoTargets(u)[branch]
    OBVIOUS
  <2>6. RedoTargetIs(u, c)
    <3>1. Redoable(u.book, u.cursor)
      BY <2>2 DEF Sane, Returns
    <3> QED
      BY <3>1, <2>3, <2>4, <2>5, RedoLeadsTo
  <2>7. /\ c \in 1 .. Len(u.book) /\ Marks(u.book[c]) /\ Redoable(u.book, c)
        /\ (\A i \in DOMAIN u.book : Truthful(u.book, g, i)) => Level(u.book, g, u.cursor, u.book[c].parent)
    BY <2>6 DEF RedoTargetIs
  <2>8. ASSUME ~t, GroundedBook(u.book), u.lift = 0 PROVE Near(u, g, c)
    <3>1. Pictured(u, g)
      BY <2>2, <2>8
    <3>2. Resting(u, g)
      BY <1>2, <2>8, <3>1, RestingIs
    <3>3. \A i \in DOMAIN u.book : Truthful(u.book, g, i)
      BY <3>1 DEF Pictured
    <3> QED
      BY <2>2, <2>7, <2>8, <3>2, <3>3, RedoNear
  <2>9. s = ReplayTo(u, c) /\ c \in 0 .. Len(u.book)
    BY <1>5, <2>5, <2>7
  <2>10. Tidy(s, g, t \/ u.lift # 0)
    BY <1>2, <2>7, <2>8, <2>9, ReplayGood
  <2> QED
    BY <1>2, <2>10
<1> QED
  BY <1>6

(* A press ends a carry: nothing is under the hole afterwards.             *)
LEMMA PressedGood ==
  ASSUME NEW d, NEW g, NEW t, Good(d, g, t), NEW s, s = IF Carried(d) THEN DropSelection(d) ELSE d
  PROVE  Good(s, g, t) /\ ~Carried(s) /\ s.stack = d.stack /\ s.active = d.active
<1>1. CASE Carried(d)
  <2>1. s = DropSelection(d)
    BY <1>1
  <2>2. Good(s, g, t) /\ s.lift = 0 /\ Kept(d, s, g)
    BY <2>1, DropGood
  <2> QED
    BY <2>2 DEF Kept, Carried
<1>2. CASE ~Carried(d)
  BY <1>2
<1> QED
  BY <1>1, <1>2

----------------------------------------------------------------------------
(* Every step.                                                             *)

(* The inductive invariant as the lemmas about the operations have it.     *)
LEMMA InvIsGood ==
  HistoryInv <=> torn \in BOOLEAN /\ loose \subseteq Boxes /\ Good(doc, paper, torn)
BY DEF HistoryInv, Good

(* The boxes no entry accounts for, as the lemmas have them.               *)
LEMMA UnaccountedIs ==
  ASSUME NEW s
  PROVE  Unaccounted(s) = After(doc, loose, s)
<1>1. SaidSince(s) = Between(doc, s)
  BY DEF SaidSince, Between
<1>2. Lost(s) = Dropped(doc, s)
  BY DEF Lost, OnPage, Dropped, SaidOn
<1> QED
  BY <1>1, <1>2 DEF Unaccounted, After

(* The invariant after an action that leaves a page the lemmas call paged, *)
(* with boxes that follow the path but for those that are loose then.      *)
LEMMA GoodAfter ==
  ASSUME NEW s, NEW g, NEW t \in BOOLEAN, NEW w \in SUBSET Boxes, Paged(s, g, t), WordsOf(s, w),
         doc' = s, paper' = g, torn' = t, loose' = w
  PROVE  HistoryInv'
<1>1. Sane(doc', paper') /\ (~torn' /\ GroundedBook(doc'.book) => Pictured(doc', paper'))
  BY DEF Paged
<1>2. WordsOf(doc', loose')
  OBVIOUS
<1>3. torn' \in BOOLEAN /\ loose' \subseteq Boxes
  OBVIOUS
<1> QED
  BY <1>1, <1>2, <1>3 DEF HistoryInv, Worded

(* The same of the actions that change nothing about the boxes.            *)
LEMMA BecomesGood ==
  ASSUME HistoryInv, NEW s, Good(s, paper, torn), Becomes(s)
  PROVE  HistoryInv'
<1>1. doc' = s /\ paper' = paper /\ torn' = torn /\ loose' = loose
  BY DEF Becomes
<1>2. torn \in BOOLEAN /\ loose \in SUBSET Boxes
  BY DEF HistoryInv
<1>3. Paged(s, paper, torn) /\ WordsOf(s, loose)
  BY DEF Good, Paged, Worded
<1> QED
  BY <1>1, <1>2, <1>3, GoodAfter

(* The same of the actions on the boxes: those that no entry accounts for  *)
(* are loose.                                                              *)
LEMMA RewordsGood ==
  ASSUME HistoryInv, NEW s, Paged(s, paper, torn), WordsOf(s, After(doc, loose, s)), Rewords(s)
  PROVE  HistoryInv'
<1>1. doc' = s /\ paper' = paper /\ torn' = torn /\ loose' = Unaccounted(s)
  BY DEF Rewords
<1>2. torn \in BOOLEAN /\ loose \subseteq Boxes
  BY DEF HistoryInv
<1>3. Unaccounted(s) = After(doc, loose, s)
  BY UnaccountedIs
<1>4. After(doc, loose, s) \in SUBSET Boxes
  BY <1>2 DEF After, Dropped
<1> QED
  BY <1>1, <1>2, <1>3, <1>4, GoodAfter

(* The same of undo and the two redos, which remember whether they tore a  *)
(* carry.                                                                  *)
LEMMA ReplaysGood ==
  ASSUME HistoryInv, NEW s, Tidy(s, paper, torn \/ doc.lift # 0), Replays(s)
  PROVE  HistoryInv'
<1>1. doc' = s /\ paper' = paper /\ torn' = (torn \/ doc.lift # 0) /\ loose' = {}
  BY DEF Replays
<1>2. (torn \/ doc.lift # 0) \in BOOLEAN /\ {} \in SUBSET Boxes
  OBVIOUS
<1> QED
  BY <1>1, <1>2, GoodAfter DEF Tidy

(* The same of the two actions that start the history again.               *)
LEMMA StartsAgainGood ==
  ASSUME HistoryInv, NEW s, Tidy(s, Ground(s), FALSE), StartsAgain(s)
  PROVE  HistoryInv'
<1>1. doc' = s /\ paper' = Ground(s) /\ torn' = FALSE /\ loose' = {}
  BY DEF StartsAgain
<1>2. {} \in SUBSET Boxes
  OBVIOUS
<1> QED
  BY <1>1, <1>2, GoodAfter DEF Tidy

(* The page, its layers and its stack, as the actions find them.           *)
Found(d, g, t) ==
  /\ Good(d, g, t) /\ Sane(d, g) /\ d.stack \in Seq(Faces) /\ Keyed(d.stack)
  /\ d.active \in LayersOf(d.stack) /\ LayersOf(d.stack) \subseteq Layers
  /\ \A f \in ToSet(d.stack) : f.key \in LayersOf(d.stack)
  /\ \A i \in 1 .. Len(d.stack) : d.stack[i].key \in LayersOf(d.stack)
  /\ DOMAIN d.stack = 1 .. Len(d.stack) /\ Len(d.stack) \in Nat

(* What the actions find on a page of which the invariant holds.           *)
LEMMA FoundIs ==
  ASSUME HistoryInv
  PROVE  Found(doc, paper, torn)
<1>1. Good(doc, paper, torn)
  BY InvIsGood
<1>2. Sane(doc, paper)
  BY <1>1 DEF Good
<1>3. doc.stack \in Seq(Faces) /\ LayersOf(doc.stack) \subseteq Layers
  BY <1>2, SaneLayers
<1>4. Keyed(doc.stack) /\ doc.active \in LayersOf(doc.stack)
  BY <1>2 DEF Sane
<1>5. DOMAIN doc.stack = 1 .. Len(doc.stack) /\ Len(doc.stack) \in Nat
  BY <1>3
<1>6. \A f \in ToSet(doc.stack) : f.key \in LayersOf(doc.stack)
  BY DEF ToSet, LayersOf
<1>7. \A i \in 1 .. Len(doc.stack) : doc.stack[i].key \in LayersOf(doc.stack)
  BY <1>5 DEF LayersOf
<1> QED
  BY <1>1, <1>2, <1>3, <1>4, <1>5, <1>6, <1>7 DEF Found

(* Strokes, fills, clears, pastes, carries and the choice of a layer keep  *)
(* the invariant.                                                          *)
LEMMA DrawingStep ==
  ASSUME HistoryInv, BeginStroke \/ MoveStroke \/ EndStroke \/ FillLayer \/ ClearLayer
                     \/ Paste \/ Lift \/ Drop \/ Activate
  PROVE  HistoryInv'
<1>1. Found(doc, paper, torn)
  BY FoundIs
<1>2. Good(doc, paper, torn)
  BY <1>1 DEF Found
<1>3. Pressed = IF Carried(doc) THEN DropSelection(doc) ELSE doc
  BY DEF Pressed, Carried
<1>4. PICK p : p = Pressed
  OBVIOUS
<1>5. Good(p, paper, torn) /\ ~Carried(p) /\ p.stack = doc.stack
  BY <1>2, <1>3, <1>4, PressedGood
<1>6. CASE BeginStroke
  <2>1. Becomes(RememberOp(p))
    BY <1>4, <1>6 DEF BeginStroke
  <2>2. Good(RememberOp(p), paper, torn)
    BY <1>5, RememberGood
  <2> QED
    BY <2>1, <2>2, BecomesGood
<1>7. CASE MoveStroke
  <2>1. Becomes(StrokeTo(doc))
    BY <1>7 DEF MoveStroke, Draws
  <2>2. Good(StrokeTo(doc), paper, torn)
    BY <1>2, StrokeGood
  <2> QED
    BY <2>1, <2>2, BecomesGood
<1>8. CASE EndStroke
  <2>1. Becomes(SealOpenOp(doc))
    BY <1>8 DEF EndStroke, Draws
  <2>2. Good(SealOpenOp(doc), paper, torn)
    BY <1>2, SealGood
  <2> QED
    BY <2>1, <2>2, BecomesGood
<1>9. CASE FillLayer
  <2>1. Becomes(Perform(p, doc.active, "fill"))
    BY <1>4, <1>9 DEF FillLayer
  <2>2. doc.active \in LayersOf(p.stack)
    BY <1>1, <1>5 DEF Found
  <2>3. Good(Perform(p, doc.active, "fill"), paper, torn)
    BY <1>5, <2>2, PerformGood
  <2> QED
    BY <2>1, <2>3, BecomesGood
<1>10. CASE ClearLayer
  <2>1. PICK f \in ToSet(doc.stack) : Becomes(Perform(doc, f.key, "clear"))
    BY <1>10 DEF ClearLayer
  <2>2. f.key \in LayersOf(doc.stack)
    BY <1>1 DEF Found
  <2>3. "clear" # "fill"
    OBVIOUS
  <2>4. Good(Perform(doc, f.key, "clear"), paper, torn)
    BY <1>2, <2>2, <2>3, PerformGood
  <2> QED
    BY <2>1, <2>4, BecomesGood
<1>11. CASE Paste
  <2>1. Becomes(PasteSelection(doc))
    BY <1>11 DEF Paste
  <2>2. Good(PasteSelection(doc), paper, torn)
    BY <1>2, PasteGood
  <2> QED
    BY <2>1, <2>2, BecomesGood
<1>12. CASE Lift
  <2>1. Becomes(LiftForCarry(doc)) /\ doc.lift = 0
    BY <1>12 DEF Lift
  <2>2. Good(LiftForCarry(doc), paper, torn)
    BY <1>2, <2>1, LiftGood
  <2> QED
    BY <2>1, <2>2, BecomesGood
<1>13. CASE Drop
  <2>1. Becomes(DropSelection(doc))
    BY <1>13 DEF Drop, Draws
  <2>2. Good(DropSelection(doc), paper, torn)
    BY <1>2, DropGood
  <2> QED
    BY <2>1, <2>2, BecomesGood
<1>14. CASE Activate
  <2>1. PICK f \in ToSet(doc.stack) : Becomes(SetActiveLayer(doc, f.key))
    BY <1>14 DEF Activate, Draws
  <2>2. f.key \in LayersOf(doc.stack)
    BY <1>1 DEF Found
  <2>3. Good(SetActiveLayer(doc, f.key), paper, torn)
    BY <1>2, <2>2, SetActiveGood
  <2> QED
    BY <2>1, <2>3, BecomesGood
<1> QED
  BY <1>6, <1>7, <1>8, <1>9, <1>10, <1>11, <1>12, <1>13, <1>14

(* The changes of the stack keep the invariant.                            *)
LEMMA StackStep ==
  ASSUME HistoryInv, AddLayer \/ DeleteLayer \/ Merge \/ MoveLayer \/ ChangeFace
  PROVE  HistoryInv'
<1>1. Found(doc, paper, torn)
  BY FoundIs
<1>2. Good(doc, paper, torn)
  BY <1>1 DEF Found
<1>3. PICK q \in Seq(Faces) : q = doc.stack
  BY <1>1 DEF Found
<1>4. /\ Keyed(q) /\ DOMAIN q = 1 .. Len(q) /\ Len(q) \in Nat
      /\ \A i \in 1 .. Len(q) : q[i].key \in LayersOf(q)
  BY <1>1, <1>3 DEF Found
<1>5. CASE AddLayer
  <2>1. PICK l \in Layers : Unseen(l) /\ Becomes(NewLayer(doc, l))
    BY <1>5 DEF AddLayer, Restacks
  <2>2. ~Known(doc.book, paper, l)
    BY <2>1 DEF Unseen, Known
  <2>3. Good(NewLayer(doc, l), paper, torn)
    BY <1>2, <2>2, NewLayerGood
  <2> QED
    BY <2>1, <2>3, BecomesGood
<1>6. CASE DeleteLayer
  <2>1. PICK i \in 2 .. Len(doc.stack) : Becomes(RemoveLayer(doc, doc.stack[i].key))
    BY <1>6 DEF DeleteLayer, Restacks
  <2>2. doc.stack[i].key \in LayersOf(doc.stack) /\ Len(doc.stack) >= 2
    <3>1. i \in 1 .. Len(q) /\ Len(q) >= 2
      BY <2>1, <1>3, <1>4
    <3> QED
      BY <3>1, <1>3, <1>4
  <2>3. PICK l \in LayersOf(doc.stack) : l = doc.stack[i].key
    BY <2>2
  <2>4. Good(RemoveLayer(doc, l), paper, torn)
    BY <1>2, <2>2, RemoveLayerGood
  <2> QED
    BY <2>1, <2>3, <2>4, BecomesGood
<1>7. CASE Merge
  <2>1. PICK i \in 1 .. Len(doc.stack) - 1 : \E j \in {i, i + 1} :
           Becomes(MergeLayer(doc, i, doc.stack[j].key))
    BY <1>7 DEF Merge, Restacks
  <2>2. PICK keep \in {doc.stack[i].key, doc.stack[i + 1].key} : Becomes(MergeLayer(doc, i, keep))
    BY <2>1
  <2>3. Good(MergeLayer(doc, i, keep), paper, torn)
    BY <1>2, <2>2, MergeLayerGood
  <2> QED
    BY <2>2, <2>3, BecomesGood
<1>8. CASE MoveLayer
  <2>1. PICK i \in DOMAIN q, j \in DOMAIN q :
           i < j /\ Becomes(FaceChange(doc, InsertAt(RemoveAt(q, i), j, q[i])))
    BY <1>3, <1>8 DEF MoveLayer, Restacks
  <2>2. PICK r : r = InsertAt(RemoveAt(q, i), j, q[i])
    OBVIOUS
  <2>3. r \in Seq(Faces) /\ Keyed(r) /\ LayersOf(r) = LayersOf(q)
    BY <1>4, <2>1, <2>2, MovedIs
  <2>4. Good(FaceChange(doc, r), paper, torn)
    BY <1>2, <1>3, <2>3, FaceChangeGood
  <2> QED
    BY <2>1, <2>2, <2>4, BecomesGood
<1>9. CASE ChangeFace
  <2>1. PICK i \in DOMAIN q : Becomes(FaceChange(doc, [q EXCEPT ![i].face = 1 - @]))
    BY <1>3, <1>9 DEF ChangeFace, Restacks
  <2>2. PICK r : r = [q EXCEPT ![i].face = 1 - @]
    OBVIOUS
  <2>3. r \in Seq(Faces) /\ Keyed(r) /\ LayersOf(r) = LayersOf(q)
    BY <1>4, <2>2, FacedIs
  <2>4. Good(FaceChange(doc, r), paper, torn)
    BY <1>2, <1>3, <2>3, FaceChangeGood
  <2> QED
    BY <2>1, <2>2, <2>4, BecomesGood
<1> QED
  BY <1>5, <1>6, <1>7, <1>8, <1>9

(* What is done to the text boxes keeps the invariant.                     *)
LEMMA BoxStep ==
  ASSUME HistoryInv,
         AddBox \/ AddBoxUnopened \/ PickBox \/ TypeText \/ RestyleBox \/ DeleteBox
  PROVE  HistoryInv'
<1>1. Paged(doc, paper, torn) /\ WordsOf(doc, loose) /\ torn \in BOOLEAN /\ loose \subseteq Boxes
  BY DEF HistoryInv, Paged, Worded
<1>2. \A b \in Boxes : NewBox(b) =>
        doc.text[b] = NoText /\ \A n \in DOMAIN doc.book : doc.book[n].box # b
  BY DEF NewBox, OnPage
<1>3. CASE AddBox
  <2>1. PICK b \in Boxes : NewBox(b) /\ Rewords(PlaceTextBox(doc, b))
    BY <1>3 DEF AddBox
  <2>2. PICK s : s = PlaceTextBox(doc, b)
    OBVIOUS
  <2>3. Paged(s, paper, torn) /\ WordsOf(s, After(doc, loose, s))
    BY <1>1, <1>2, <2>1, <2>2, PlaceGood
  <2> QED
    BY <2>1, <2>2, <2>3, RewordsGood
<1>4. CASE AddBoxUnopened
  <2>1. PICK b \in Boxes : NewBox(b) /\ Rewords(AddTextBox(doc, b))
    BY <1>4 DEF AddBoxUnopened
  <2>2. PICK s : s = AddTextBox(doc, b)
    OBVIOUS
  <2>3. Paged(s, paper, torn) /\ WordsOf(s, After(doc, loose, s))
    BY <1>1, <1>2, <2>1, <2>2, AddedGood
  <2> QED
    BY <2>1, <2>2, <2>3, RewordsGood
<1>5. CASE PickBox
  <2>1. PICK b \in Boxes \cup {NoBox} : Rewords(SelectTextBox(doc, b))
    BY <1>5 DEF PickBox, OnPage
  <2>2. PICK s : s = SelectTextBox(doc, b)
    OBVIOUS
  <2>3. Paged(s, paper, torn) /\ WordsOf(s, After(doc, loose, s))
    BY <1>1, <2>2, SelectGood
  <2> QED
    BY <2>1, <2>2, <2>3, RewordsGood
<1>6. CASE TypeText
  <2>1. PICK b \in Boxes, words \in BOOLEAN : Rewords(SetTextBoxText(doc, b, words))
    BY <1>6 DEF TypeText, OnPage
  <2>2. PICK s : s = SetTextBoxText(doc, b, words)
    OBVIOUS
  <2>3. Paged(s, paper, torn) /\ WordsOf(s, After(doc, loose, s))
    BY <1>1, <2>2, SetTextGood
  <2> QED
    BY <2>1, <2>2, <2>3, RewordsGood
<1>7. CASE RestyleBox
  <2>1. PICK b \in Boxes : /\ doc' = Restyled(doc, b)
                           /\ loose' = IF b = doc.sel THEN loose ELSE loose \cup {b}
                           /\ UNCHANGED <<paper, torn>>
    BY <1>7 DEF RestyleBox, OnPage
  <2>2. PICK s, w : s = Restyled(doc, b) /\ w = IF b = doc.sel THEN loose ELSE loose \cup {b}
    OBVIOUS
  <2>3. Paged(s, paper, torn) /\ WordsOf(s, w)
    BY <1>1, <2>2, RestyleGood
  <2>4. w \in SUBSET Boxes
    BY <1>1, <2>2
  <2>5. doc' = s /\ paper' = paper /\ torn' = torn /\ loose' = w
    BY <2>1, <2>2
  <2> QED
    BY <1>1, <2>3, <2>4, <2>5, GoodAfter
<1>8. CASE DeleteBox
  <2>1. PICK b \in Boxes : doc.text[b] # NoText /\ Rewords(RemoveTextBox(doc, b))
    BY <1>8 DEF DeleteBox, RemoveBox, OnPage
  <2>2. PICK s : s = RemoveTextBox(doc, b)
    OBVIOUS
  <2>3. Paged(s, paper, torn) /\ WordsOf(s, After(doc, loose, s))
    BY <1>1, <2>1, <2>2, RemoveGood
  <2> QED
    BY <2>1, <2>2, <2>3, RewordsGood
<1> QED
  BY <1>3, <1>4, <1>5, <1>6, <1>7, <1>8

(* A page as it is created meets the invariant.                            *)
LEMMA HistoryStart ==
  ASSUME Init
  PROVE  HistoryInv
<1>1. PICK layers \in FirstPages : doc = FreshPage(layers, NoAuthor, 1)
  BY DEF Init
<1>2. Tidy(doc, Ground(doc), FALSE)
  BY <1>1, FreshGood
<1>3. paper = Ground(doc) /\ torn = FALSE /\ loose = {}
  BY DEF Init
<1> QED
  BY <1>2, <1>3 DEF HistoryInv, Tidy, Paged, Worded

(* Every action keeps the invariant.                                       *)
LEMMA HistoryStep ==
  ASSUME HistoryInv, [Next]_vars
  PROVE  HistoryInv'
<1>1. Good(doc, paper, torn) /\ Sane(doc, paper) /\ Paged(doc, paper, torn)
  BY DEF HistoryInv, Good, Paged
<1>1a. PICK u : u = Ended(doc)
  OBVIOUS
<1>1b. Sane(u, paper)
  BY <1>1, <1>1a, EndedGood DEF Good, Worded, Paged
<1>2. CASE UndoKey
  <2>1. NewestMark(Ended(doc)) # 0 /\ Replays(Undo(doc))
    BY <1>2 DEF UndoKey
  <2>2. Tidy(Undo(doc), paper, torn \/ doc.lift # 0)
    BY <1>1, <2>1, UndoGood
  <2> QED
    BY <2>1, <2>2, ReplaysGood
<1>3. CASE RedoKey
  <2>1. RedoTargets(u) # <<>> /\ Replays(RedoAlong(doc, 1))
    BY <1>3, <1>1a DEF RedoKey
  <2>2. 1 <= Len(RedoTargets(u))
    BY <2>1, <1>1b, RedoTargetsLen
  <2>3. Tidy(RedoAlong(doc, 1), paper, torn \/ doc.lift # 0)
    BY <1>1, <1>1a, <2>2, RedoGood
  <2> QED
    BY <2>1, <2>3, ReplaysGood
<1>4. CASE RedoAltKey
  <2>1. Len(RedoTargets(u)) >= 2 /\ Replays(RedoAlong(doc, 2))
    BY <1>4, <1>1a DEF RedoAltKey
  <2>2. 2 <= Len(RedoTargets(u))
    BY <2>1, <1>1b, RedoTargetsLen
  <2>3. Tidy(RedoAlong(doc, 2), paper, torn \/ doc.lift # 0)
    BY <1>1, <1>1a, <2>2, RedoGood
  <2> QED
    BY <2>1, <2>3, ReplaysGood
<1>5. CASE ResizePage
  <2>1. StartsAgain(Resize(doc))
    BY <1>5 DEF ResizePage
  <2>2. Tidy(Resize(doc), Ground(Resize(doc)), FALSE)
    BY <1>1, ResizeGood, ZenonT(60)
  <2> QED
    BY <2>1, <2>2, StartsAgainGood, ZenonT(60)
<1>6. CASE NewPage
  <2>1. StartsAgain(New(doc))
    BY <1>6 DEF NewPage
  <2>2. Tidy(New(doc), Ground(New(doc)), FALSE)
    BY <1>1, NewGood, ZenonT(60)
  <2> QED
    BY <2>1, <2>2, StartsAgainGood, ZenonT(60)
<1>7. CASE UNCHANGED vars
  <2>1. doc' = doc /\ paper' = paper /\ torn' = torn /\ loose' = loose
    BY <1>7 DEF vars
  <2> QED
    BY <2>1, BecomesGood, <1>1 DEF Becomes
<1> QED
  BY <1>2, <1>3, <1>4, <1>5, <1>6, <1>7, DrawingStep, StackStep, BoxStep DEF Next

(* THE INDUCTIVE INVARIANT holds on every page nobody shares: a sane page  *)
(* and notebook from which every undo can be taken back; boxes that follow *)
(* the path but for those changed with no entry since the last replay (by  *)
(* a verb or a drag, not being open); and, where every mark has a keyframe *)
(* above it and no replay tore a carry, a picture that is the path with    *)
(* what is under way on top.                                               *)
THEOREM HistoryInvariant == Spec => []HistoryInv
<1>1. Init => HistoryInv
  BY HistoryStart
<1>2. HistoryInv /\ [Next]_vars => HistoryInv'
  BY HistoryStep
<1> QED
  BY <1>1, <1>2, PTL DEF Spec

(* The invariant contains the type invariant.                              *)
LEMMA InvType ==
  ASSUME HistoryInv
  PROVE  TypeOK
<1>1. Sane(doc, paper) /\ torn \in BOOLEAN /\ loose \subseteq Boxes
  BY DEF HistoryInv
<1>2. PICK m : m = doc.made
  OBVIOUS
<1>3. doc \in Docs(m)
  BY <1>1, <1>2 DEF Sane
<1>4. /\ doc.since \in [Layers -> -1 .. SnapEvery] /\ doc.text \in [Boxes -> -m .. m]
      /\ doc.sel \in Boxes \cup {NoBox} /\ doc.fresh \in Boxes \cup {NoBox} /\ doc.lift \in 0 .. m
  BY <1>3, DocFields
<1>5. /\ doc.cursor \in 0 .. Len(doc.book) /\ Tree(doc.book)
      /\ Keyed(doc.stack) /\ doc.active \in LayersOf(doc.stack)
      /\ doc.sel # NoBox => doc.text[doc.sel] # NoText
  BY <1>1 DEF Sane
<1>6. LayersOf(doc.stack) \subseteq Layers
  BY <1>1, SaneLayers
<1> QED
  BY <1>1, <1>2, <1>4, <1>5, <1>6 DEF TypeOK, Tree, Keyed

(* The invariant contains that text follows the path.                      *)
LEMMA InvText ==
  ASSUME HistoryInv
  PROVE  TextFollowsPath
<1>1. WordsOf(doc, loose)
  BY DEF HistoryInv, Worded
<1>2. ASSUME doc.sel = NoBox, NEW b \in Boxes \ loose
      PROVE  Follows(b)
  <2>1. b # doc.sel
    BY <1>2, NoNameAssumption
  <2>2. Unsaid(doc.text[b], TextOf(PathOf(doc), Boxes)[b])
    BY <1>1, <1>2, <2>1 DEF WordsOf
  <2> QED
    BY <2>2 DEF Unsaid, Follows
<1> QED
  BY <1>2 DEF TextFollowsPath

(* The invariant contains that the picture follows the path.               *)
LEMMA InvPicture ==
  ASSUME HistoryInv
  PROVE  PictureFollowsPath
<1>1. ASSUME Grounded, ~torn, AtRest PROVE PageOf(PathOf(doc))
  <2>1. GroundedBook(doc.book)
    BY <1>1 DEF Grounded, GroundedBook
  <2>2. Pictured(doc, paper)
    BY <1>1, <2>1 DEF HistoryInv
  <2>3. Resting(doc, paper)
    BY <1>1, <2>2, RestingIs DEF AtRest
  <2>4. \A l : DrawnAlong(PathOf(doc), l) = Ink(paper, PathOf(doc), l)
    BY DEF DrawnAlong, Ink
  <2> QED
    BY <2>3, <2>4 DEF PageOf, Resting
<1> QED
  BY <1>1 DEF PictureFollowsPath

(* The page and its notebook keep their types: the cursor is in the tree,  *)
(* every parent comes before its child, the active layer is on the stack   *)
(* (PaintDocument, PaintNotebook).                                         *)
THEOREM HistoryTypeCorrect == Spec => []TypeOK
<1>1. HistoryInv => TypeOK
  BY InvType
<1> QED
  BY <1>1, HistoryInvariant, PTL

(* Between edits the text boxes are the last word of the path about each,  *)
(* whatever undo, redo, resize or branch led there (rebuild_text), but for *)
(* the boxes changed with no entry since: one restyled, moved or sized     *)
(* while it was not open, and one taken away unrecorded.  Only a box       *)
(* without words may be on the page unsaid.                                *)
THEOREM HistoryTextFollowsPath == Spec => []TextFollowsPath
<1>1. HistoryInv => TextFollowsPath
  BY InvText
<1> QED
  BY <1>1, HistoryInvariant, PTL

(* Wherever undo and redo have walked to, the stack and every layer on it  *)
(* are what the path to that place drew, and no keyframe and no other      *)
(* branch has a part in it (replayTo, recordStructure).                    *)
THEOREM HistoryPictureFollowsPath == Spec => []PictureFollowsPath
<1>1. HistoryInv => PictureFollowsPath
  BY InvPicture
<1> QED
  BY <1>1, HistoryInvariant, PTL

----------------------------------------------------------------------------
(* An undo taken back.                                                     *)

(* Nothing was said of the text boxes after the newest mark on a way.      *)
LEMMA NewestText ==
  ASSUME NEW m \in Nat, NEW book \in Seq(Entries(m)), Tree(book), Openings(book)
  PROVE  \A n \in 0 .. Len(book) : NewestOn(book, n) # 0 =>
           \A b \in Boxes : TextOf(Path(book, NewestOn(book, n)), Boxes)[b] =
                              TextOf(Path(book, n), Boxes)[b]
<1> DEFINE H(k, n) == k # 0 => \A b \in Boxes : TextOf(Path(book, k), Boxes)[b] =
                                                  TextOf(Path(book, n), Boxes)[b]
           G == {n \in 0 .. Len(book) : H(NewestOn(book, n), n)}
<1>1. 0 \in G
  BY NewestStep
<1>2. ASSUME NEW n \in 1 .. Len(book), book[n].parent \in G PROVE n \in G
  <2>1. PICK c, e, j, k : c = book[n].parent /\ e = book[n] /\ j = NewestOn(book, c) /\ k = NewestOn(book, n)
    OBVIOUS
  <2>2. k = IF Marks(e) THEN n ELSE j
    BY <2>1, NewestStep
  <2>3. H(j, c)
    BY <1>2, <2>1
  <2>4. H(k, n)
    <3>1. CASE Marks(e)
      BY <2>2, <3>1
    <3>2. CASE ~Marks(e)
      <4> SUFFICES ASSUME k # 0, NEW b \in Boxes
                   PROVE  TextOf(Path(book, k), Boxes)[b] = TextOf(Path(book, n), Boxes)[b]
        OBVIOUS
      <4>1. k \in Way(book, n) /\ Marks(book[k])
        <5>1. n \in 0 .. Len(book)
          OBVIOUS
        <5>2. k \in Way(book, n)
          BY <5>1, <2>1, NewestOnWay
        <5>3. Marks(book[k])
          BY <5>1, <2>1, NewestIs
        <5> QED
          BY <5>2, <5>3
      <4>2. e.kind # "text"
        BY <2>1, <3>2, <4>1 DEF Openings, Unmarked
      <4>3. PICK path : path = Path(book, c)
        OBVIOUS
      <4>4. path \in Seq(Entries(m)) /\ e \in Entries(m) /\ Path(book, n) = Append(path, e)
        <5>1. c \in 0 .. Len(book)
          BY <2>1 DEF Tree
        <5> QED
          BY <5>1, <2>1, <4>3, PathStep
      <4>5. TextOf(Path(book, n), Boxes)[b] = TextOf(path, Boxes)[b]
        BY <4>2, <4>4, TextStep
      <4> QED
        BY <2>2, <2>3, <3>2, <4>3, <4>5
    <3> QED
      BY <3>1, <3>2
  <2> HIDE DEF H
  <2> QED
    BY <2>1, <2>4
<1>3. \A n \in 0 .. Len(book) : n \in G
  <2> HIDE DEF G
  <2> QED
    BY <1>1, <1>2, TreeInd
<1> QED
  BY <1>3

(* A number is found again by its rank.                                    *)
LEMMA NthIs ==
  ASSUME NEW n \in Nat, NEW S \in SUBSET (1 .. n), NEW k \in S
  PROVE  /\ Cardinality(Above(S, k)) \in 1 .. Cardinality(S)
         /\ NthOf(S, Cardinality(Above(S, k))) = k
<1>1. k \in Nat /\ IsFiniteSet(S) /\ \A i \in S : i \in Nat
  BY AboveIs
<1>2. \A x \in S : IsFiniteSet(Above(S, x)) /\ Cardinality(Above(S, x)) \in Nat
  BY <1>1, AboveIs
<1>3. ASSUME NEW x \in S, NEW y \in S, x > y
      PROVE  Cardinality(Above(S, x)) < Cardinality(Above(S, y))
  <2>1. Above(S, x) \in SUBSET Above(S, y)
    <3>1. \A i \in S : i >= x => i >= y
      BY <1>1, <1>3
    <3> QED
      BY <3>1, Zenon DEF Above
  <2>2. y \in Above(S, y) /\ y \notin Above(S, x)
    BY <1>1, <1>3 DEF Above
  <2>3. Cardinality(Above(S, x) \cup {y}) = Cardinality(Above(S, x)) + 1
    BY <1>2, <2>2, FS_AddElement
  <2>4. Above(S, x) \cup {y} \in SUBSET Above(S, y)
    BY <2>1, <2>2
  <2>5. Cardinality(Above(S, x) \cup {y}) <= Cardinality(Above(S, y))
    BY <1>2, <2>4, FS_Subset
  <2> QED
    BY <1>2, <2>3, <2>5
<1>4. \A x \in S : Cardinality(Above(S, x)) = Cardinality(Above(S, k)) => x = k
  <2> SUFFICES ASSUME NEW x \in S, Cardinality(Above(S, x)) = Cardinality(Above(S, k)), x # k
               PROVE  FALSE
    OBVIOUS
  <2>1. x > k \/ k > x
    BY <1>1
  <2>2. PICK a \in Nat : a = Cardinality(Above(S, x)) /\ a = Cardinality(Above(S, k))
    BY <1>2
  <2>3. a < a
    BY <1>3, <2>1, <2>2
  <2> QED
    BY <2>3
<1>5. NthOf(S, Cardinality(Above(S, k))) = k
  <2>1. \A x \in S : Cardinality({i \in S : i >= x}) = Cardinality(Above(S, k)) <=> x = k
    BY <1>4 DEF Above
  <2> QED
    BY <2>1 DEF NthOf
<1>6. Cardinality(Above(S, k)) \in 1 .. Cardinality(S)
  <2>1. Above(S, k) \in SUBSET S
    BY DEF Above
  <2>2. Cardinality(Above(S, k)) <= Cardinality(S) /\ Cardinality(S) \in Nat
    BY <1>1, <2>1, FS_Subset, FS_CardinalityType
  <2>3. {k} \in SUBSET Above(S, k)
    BY <1>1 DEF Above
  <2>4. Cardinality({k}) <= Cardinality(Above(S, k)) /\ Cardinality({k}) = 1
    BY <1>2, <2>3, FS_Subset, FS_Singleton
  <2> QED
    BY <1>2, <2>2, <2>4
<1> QED
  BY <1>5, <1>6

(* A page with nothing lifted, replayed to entry c.                        *)
RasterOn(d, l) == IF l \in LayersOf(d.stack) THEN d.pic[l] ELSE <<>>
ReplayOf(d, s, c, g) ==
  LET path == Path(d.book, c)
  IN /\ Sane(s, g) /\ s.book = d.book /\ s.cursor = c
     /\ s.open = <<>> /\ s.sel = NoBox /\ s.lift = 0
     /\ s.stack = RosterOf(path, d.stack) /\ s.text = TextOf(path, Boxes)
     /\ \A l \in LayersOf(s.stack) : s.pic[l] = Replayed(path, l, RasterOn(d, l))

(* A replay under which nothing is lifted leaves the cursor at the entry it*)
(* is for.                                                                 *)
LEMMA ReplayCursor ==
  ASSUME NEW d, NEW g, Sane(d, g), d.lift = 0, NEW c \in 0 .. Len(d.book), Redoable(d.book, c),
         NEW s, s = ReplayTo(d, c)
  PROVE  s.cursor = c
<1>1. PICK o : o = Moved(d, c)
  OBVIOUS
<1>2. Sane(o, g) /\ o.cursor = c /\ o.lift = 0
  BY <1>1, MovedSane DEF MovedTo
<1>3. PICK m : m = o.made /\ o \in Docs(m)
  BY <1>2 DEF Sane
<1>4. DropSelection(o) = o
  BY <1>2 DEF DropSelection
<1>5. PICK path : path = EffectivePath(Path(o.book, c))
  OBVIOUS
<1>6. s = Reread(o, path)
  BY <1>1, <1>4, <1>5 DEF ReplayTo, Moved
<1>7. PICK q : q = Restacked(o, path)
  OBVIOUS
<1>8. q.cursor = c /\ "cursor" \in DOMAIN q
  BY <1>2, <1>3, <1>7 DEF Restacked, ReconcileLayers, Docs
<1>9. s = Redrawn(q, path, TextOf(path, Boxes))
  BY <1>6, <1>7 DEF Reread
<1> QED
  BY <1>8, <1>9 DEF Redrawn

(* What such a replay makes of the page, field by field: the stack and the *)
(* rasters of the path where it states them, those of the page before where*)
(* it does not.                                                            *)
LEMMA ReplayIs ==
  ASSUME NEW d, NEW g, Sane(d, g), d.open = <<>>, d.sel = NoBox, d.lift = 0,
         NEW c \in 0 .. Len(d.book), Redoable(d.book, c), NEW s, s = ReplayTo(d, c)
  PROVE  ReplayOf(d, s, c, g)
<1>1. PICK p, q, path : ReplayedIs(d, p, q, s, c, path, g)
  BY ReplayedSane
<1>2. p = Moved(d, c) /\ p.lift = 0 /\ path = Path(d.book, c)
  BY <1>1 DEF ReplayedIs
<1>3. p.book = d.book /\ p.stack = d.stack /\ p.pic = d.pic
  BY <1>2, MovedSane DEF MovedTo
<1>4. /\ q.book = p.book /\ q.lift = p.lift /\ q.stack = RosterOf(path, p.stack)
      /\ \A l \in LayersOf(q.stack) : q.pic[l] = IF l \in LayersOf(p.stack) THEN p.pic[l] ELSE <<>>
  BY <1>1 DEF ReplayedIs, RestackedIs
<1>5. /\ Sane(s, g) /\ s.book = q.book /\ s.stack = q.stack
      /\ s.open = <<>> /\ s.lift = q.lift /\ s.sel = NoBox
      /\ s.text = TextOf(path, Boxes)
      /\ \A l \in LayersOf(q.stack) : s.pic[l] = Replayed(path, l, q.pic[l])
  BY <1>1 DEF ReplayedIs, RedrawnIs
<1>6. s.cursor = c
  BY ReplayCursor
<1>7. \A l \in LayersOf(s.stack) : s.pic[l] = Replayed(path, l, RasterOn(d, l))
  BY <1>3, <1>4, <1>5 DEF RasterOn
<1> QED
  BY <1>2, <1>3, <1>4, <1>5, <1>6, <1>7 DEF ReplayOf

(* An undo and the redo of what it took back: the page as it was.  e is    *)
(* the page with nothing under way, k its newest mark, u the page without  *)
(* it and r the page with it again; w are the boxes no entry accounts for. *)
Back(e, w, g, k, c, u, r) ==
  /\ Sane(e, g) /\ Resting(e, g) /\ Settled(e, w)
  /\ \A n \in DOMAIN e.book : Truthful(e.book, g, n)
  /\ k \in 1 .. Len(e.book) /\ k = NewestOn(e.book, e.cursor) /\ c = e.book[k].parent
  /\ Level(e.book, g, k, e.cursor) /\ Marks(e.book[k])
  /\ ReplayOf(e, u, c, g) /\ ReplayOf(u, r, k, g)

(* The stack an undo and its redo lead to is the one before; a layer the   *)
(* undo took off it was blank, because a change of the stack has the layers*)
(* it found stated above it.                                               *)
LEMMA StackComesBack ==
  ASSUME NEW e, NEW w, NEW g, NEW k, NEW c, NEW u, NEW r, Back(e, w, g, k, c, u, r)
  PROVE  /\ r.stack = e.stack
         /\ \A l \in LayersOf(e.stack) : l \notin LayersOf(u.stack) => e.pic[l] = <<>>
<1>1. PICK m, book, x : m = e.made /\ book = e.book /\ x = book[k]
  OBVIOUS
<1>2. m \in Nat /\ book \in Seq(Entries(m)) /\ Tree(book) /\ k \in 1 .. Len(book) /\ x \in Entries(m)
  BY <1>1, DocFields DEF Back, Sane
<1>3. PICK above, path : above = Path(book, c) /\ path = Path(book, k)
  OBVIOUS
<1>4. StepOn(book, g, k, x, c, above)
  BY <1>1, <1>2, <1>3, StepIs DEF Back
<1>5. c \in 0 .. Len(book)
  BY <1>4 DEF StepOn
<1>6. above \in Seq(Entries(m)) /\ path \in Seq(Entries(m))
  BY <1>2, <1>3, <1>5, PathStep
<1>7. TruthOf(x, above, g) /\ Marks(x)
  BY <1>1, <1>2, <1>3, <1>4 DEF Back, Truthful, StepOn
<1>8. e.stack = RosterOf(path, g.stack)
  BY <1>1, <1>3 DEF Back, Resting, Level, PathOf
<1>9. u.stack = RosterOf(above, e.stack) /\ u.book = book /\ r.stack = RosterOf(path, u.stack)
  BY <1>1, <1>3 DEF Back, ReplayOf
<1>10. \A left, other : Restates(path) # {} => RosterOf(path, left) = RosterOf(path, other)
  BY <1>6, LastRosterIs
<1>11. \A left, other : Restates(above) # {} => RosterOf(above, left) = RosterOf(above, other)
  BY <1>6, LastRosterIs
<1>12. \A left : /\ Restates(path) = {} => RosterOf(path, left) = left
                 /\ Restates(above) = {} => RosterOf(above, left) = left
  BY <1>6, LastRosterIs
<1>13. Restates(path) # {} <=> Restates(above) # {} \/ Structural(x)
  BY <1>3, <1>4 DEF StepOn
<1>14. r.stack = e.stack
  BY <1>8, <1>9, <1>10, <1>12, <1>13
<1>15. ASSUME NEW l \in LayersOf(e.stack), l \notin LayersOf(u.stack)
       PROVE  e.pic[l] = <<>>
  <2>1. l \in Layers /\ l # NoLayer
    BY <1>15, SaneLayers DEF Back
  <2>2. RosterOf(path, g.stack) = IF Structural(x) THEN x.roster ELSE RosterOf(above, g.stack)
    BY <1>3, <1>4 DEF StepOn
  <2>3. Structural(x)
    BY <1>8, <1>9, <1>11, <1>12, <1>13, <1>15, <2>2
  <2>4. ~x.keyframe
    BY <1>7 DEF Marks
  <2>5. /\ Restates(above) # {}
        /\ \A v \in LayersOf(x.roster) \ LayersOf(RosterOf(above, g.stack)) :
             /\ v \notin LayersOf(g.stack) /\ v # x.layer
             /\ \A i \in DOMAIN above : above[i].layer # v
    BY <1>7, <2>3, <2>4 DEF TruthOf
  <2>6. u.stack = RosterOf(above, g.stack) /\ e.stack = x.roster
    BY <1>8, <1>9, <1>11, <2>2, <2>3, <2>5
  <2>7. l \notin LayersOf(g.stack) /\ l # x.layer /\ \A i \in DOMAIN above : above[i].layer # l
    BY <1>15, <2>5, <2>6
  <2>8. \A i \in 1 .. Len(above) : above[i].layer # l
    BY <1>6, <2>7
  <2>9. Ink(g, above, l) = <<>>
    BY <1>6, <2>7, <2>8, LaidNone DEF Ink
  <2>10. Ink(g, path, l) = Ink(g, above, l)
    BY <1>3, <1>4, <2>1, <2>7 DEF StepOn
  <2>11. e.pic[l] = Ink(g, PathOf(e), l)
    BY <1>15 DEF Back, Resting
  <2>12. Ink(g, path, l) = Ink(g, PathOf(e), l)
    BY <1>1, <1>3, <2>1 DEF Back, Level, PathOf
  <2> QED
    BY <2>9, <2>10, <2>11, <2>12
<1> QED
  BY <1>14, <1>15

(* So are the rasters: of a layer with a keyframe on the path, what the    *)
(* path drew; of one without, what no replay has touched.                  *)
LEMMA PictureComesBack ==
  ASSUME NEW e, NEW w, NEW g, NEW k, NEW c, NEW u, NEW r, Back(e, w, g, k, c, u, r)
  PROVE  r.pic = e.pic /\ r.stack = e.stack
<1>1. PICK m, book : m = e.made /\ book = e.book
  OBVIOUS
<1>2. m \in Nat /\ book \in Seq(Entries(m)) /\ Tree(book) /\ k \in 1 .. Len(book)
  BY <1>1, DocFields DEF Back, Sane
<1>3. PICK above, path : above = Path(book, c) /\ path = Path(book, k)
  OBVIOUS
<1>4. StepOn(book, g, k, book[k], c, above)
  BY <1>1, <1>2, <1>3, StepIs DEF Back
<1>5. c \in 0 .. Len(book)
  BY <1>4 DEF StepOn
<1>6. above \in Seq(Entries(m)) /\ path \in Seq(Entries(m))
  BY <1>2, <1>3, <1>5, PathStep
<1>7. r.stack = e.stack /\ \A l \in LayersOf(e.stack) : l \notin LayersOf(u.stack) => e.pic[l] = <<>>
  BY StackComesBack
<1>8. /\ \A l \in LayersOf(u.stack) : u.pic[l] = Replayed(above, l, RasterOn(e, l))
      /\ \A l \in LayersOf(r.stack) : r.pic[l] = Replayed(path, l, RasterOn(u, l))
  BY <1>1, <1>3 DEF Back, ReplayOf
<1>9. ASSUME NEW l \in Layers PROVE r.pic[l] = e.pic[l]
  <2>1. CASE l \notin LayersOf(e.stack)
    <3>1. Bare(e) /\ Bare(r)
      BY DEF Back, ReplayOf, Sane, Returns
    <3> QED
      BY <3>1, <2>1, <1>7 DEF Bare
  <2>2. CASE l \in LayersOf(e.stack) /\ KeyframedOn(path, l)
    <3>1. \A left : Replayed(path, l, left) = Ink(g, path, l)
      <4>1. \A n \in DOMAIN book : Truthful(book, g, n)
        BY <1>1 DEF Back
      <4>2. k \in 0 .. Len(book)
        BY <1>2
      <4> QED
        BY <4>1, <4>2, <1>2, <1>3, <2>2, ReplayIsInk
    <3>2. Ink(g, path, l) = Ink(g, PathOf(e), l)
      BY <1>1, <1>3 DEF Back, Level, PathOf
    <3>3. e.pic[l] = Ink(g, PathOf(e), l)
      BY <2>2 DEF Back, Resting
    <3> QED
      BY <3>1, <3>2, <3>3, <2>2, <1>7, <1>8
  <2>3. CASE l \in LayersOf(e.stack) /\ ~KeyframedOn(path, l)
    <3>1. ~KeyframedOn(above, l)
      BY <1>3, <1>4, <2>3 DEF StepOn
    <3>2. KeysOf(path, l) = {} /\ KeysOf(above, l) = {}
      BY <2>3, <3>1 DEF KeyframedOn, KeysOf
    <3>3. \A left : Replayed(path, l, left) = left /\ Replayed(above, l, left) = left
      BY <1>6, <3>2, LastKeyIs
    <3>4. r.pic[l] = RasterOn(u, l)
      BY <1>7, <1>8, <2>3, <3>3
    <3>5. CASE l \in LayersOf(u.stack)
      <4>1. u.pic[l] = RasterOn(e, l)
        BY <1>8, <3>3, <3>5
      <4> QED
        BY <2>3, <3>4, <3>5, <4>1 DEF RasterOn
    <3>6. CASE l \notin LayersOf(u.stack)
      BY <1>7, <2>3, <3>4, <3>6 DEF RasterOn
    <3> QED
      BY <3>5, <3>6
  <2> QED
    BY <2>1, <2>2, <2>3
<1>10. r.pic \in [Layers -> Rasters(r.made)] /\ e.pic \in [Layers -> Rasters(e.made)]
  <2>1. Sane(r, g) /\ Sane(e, g)
    BY DEF Back, ReplayOf
  <2> QED
    BY <2>1, SaneLayers
<1>11. r.pic = e.pic
  BY <1>9, <1>10
<1> QED
  BY <1>7, <1>11

(* And so are the boxes, because no text was said after the newest mark.   *)
LEMMA WordsComeBack ==
  ASSUME NEW e, NEW w, NEW g, NEW k, NEW c, NEW u, NEW r, Back(e, w, g, k, c, u, r)
  PROVE  \A b \in OnRecord(e) \ w : r.text[b] = e.text[b]
<1>1. PICK m, book : m = e.made /\ book = e.book
  OBVIOUS
<1>2. /\ m \in Nat /\ book \in Seq(Entries(m)) /\ Tree(book) /\ k \in 1 .. Len(book)
      /\ e.cursor \in 0 .. Len(book)
  BY <1>1, DocFields DEF Back, Sane
<1>3. Openings(book)
  BY <1>1 DEF Back, Sane, Returns
<1>4. k = NewestOn(book, e.cursor) /\ k # 0
  BY <1>1, <1>2 DEF Back
<1>5. r.text = TextOf(Path(book, k), Boxes)
  BY <1>1 DEF Back, ReplayOf
<1>6. ASSUME NEW b \in OnRecord(e) \ w PROVE r.text[b] = e.text[b]
  <2>0. b \in Boxes /\ b \notin w
    BY <1>6 DEF OnRecord
  <2>1. r.text[b] = TextOf(Path(book, e.cursor), Boxes)[b]
    BY <1>2, <1>3, <1>4, <1>5, <2>0, NewestText
  <2>2. Unsaid(e.text[b], TextOf(Path(book, e.cursor), Boxes)[b])
    BY <1>1, <2>0 DEF Back, Settled, SaidOn, PathOf
  <2>3. ~Wordless(e.text[b]) \/ TextOf(Path(book, e.cursor), Boxes)[b] # NoText
    BY <1>1, <1>6 DEF OnRecord, PathOf
  <2> QED
    BY <2>1, <2>2, <2>3 DEF Unsaid
<1> QED
  BY <1>6

(* The page as it was before the undo.                                     *)
LEMMA PageComesBack ==
  ASSUME NEW e, NEW w, NEW g, NEW k, NEW c, NEW u, NEW r, Back(e, w, g, k, c, u, r)
  PROVE  SamePage(r, e, OnRecord(e) \ w)
BY PictureComesBack, WordsComeBack DEF SamePage

(* The cursor is above mark k of the way to entry n; a redo leads to it.   *)
AboveMark(m, u, n, k) ==
  /\ m \in Nat /\ u.book \in Seq(Entries(m)) /\ Tree(u.book)
  /\ n \in 0 .. Len(u.book) /\ Redoable(u.book, n) /\ k \in Way(u.book, n)
  /\ Marks(u.book[k]) /\ u.cursor = u.book[k].parent
LeadsTo(u, branch, k) == ~(branch > Len(RedoTargets(u))) /\ RedoTargets(u)[branch] = k

(* The branch a mark is found down again, from the place above it.         *)
LEMMA RedoFinds ==
  ASSUME NEW m, NEW u, NEW n, NEW k, AboveMark(m, u, n, k)
  PROVE  \E branch \in {1, 2} : LeadsTo(u, branch, k)
<1>0. /\ m \in Nat /\ u.book \in Seq(Entries(m)) /\ Tree(u.book)
      /\ n \in 0 .. Len(u.book) /\ Redoable(u.book, n) /\ k \in Way(u.book, n)
      /\ Marks(u.book[k]) /\ u.cursor = u.book[k].parent
  BY DEF AboveMark
<1>1. PICK book, c : book = u.book /\ c = u.cursor
  OBVIOUS
<1>2. PICK S : S = LiveOf(book, c)
  OBVIOUS
<1>3. PICK z \in Nat : z = Len(book)
  BY <1>0, <1>1
<1>4. book \in Seq(Entries(m)) /\ Tree(book) /\ k \in 1 .. z /\ c = book[k].parent
  <2>1. Way(book, n) \in SUBSET (1 .. n)
    BY <1>0, <1>1, WayIs
  <2> QED
    BY <2>1, <1>0, <1>1, <1>3
<1>5. c \in 0 .. z
  <2>1. DOMAIN book = 1 .. z
    BY <1>3, <1>4
  <2>2. book[k].parent \in 0 .. k - 1
    BY <2>1, <1>4 DEF Tree
  <2> QED
    BY <2>2, <1>4
<1>6. S \in SUBSET (1 .. z)
  <2>1. ChildrenOf(book, c) \in SUBSET (c + 1 .. Len(book))
    BY <1>3, <1>4, <1>5, ChildrenAre
  <2> QED
    BY <2>1, <1>2, <1>3, <1>5 DEF LiveOf
<1>7. DownOf(book)[k] = k
  BY <1>0, <1>1, <1>3, <1>4, DownStep
<1>8. k \in S
  <2>1. k \in ChildrenOf(book, c)
    BY <1>3, <1>4 DEF ChildrenOf
  <2> QED
    BY <2>1, <1>2, <1>4, <1>7 DEF LiveOf
<1>9. \A i, j \in S : i > k /\ j > k => i = j
  BY <1>0, <1>1, <1>2 DEF Redoable
<1>10. PICK branch : branch = Cardinality(Above(S, k))
  OBVIOUS
<1>11. branch \in {1, 2}
  BY <1>6, <1>8, <1>9, <1>10, OneAbove
<1>12. PICK size \in Nat : size = Cardinality(S)
  BY <1>6, AboveIs
<1>13. branch \in 1 .. size /\ NthOf(S, branch) = k
  BY <1>6, <1>8, <1>10, <1>12, NthIs
<1>14. RedoTargets(u) = [j \in 1 .. size |-> DownOf(book)[NthOf(S, j)]]
  BY <1>1, <1>2, <1>12, RedoTargetsAre
<1>15. Len(RedoTargets(u)) = size /\ RedoTargets(u)[branch] = k
  BY <1>7, <1>13, <1>14
<1> QED
  BY <1>11, <1>13, <1>15 DEF LeadsTo

(* One of the two redos leads to the mark an undo took back, and to the    *)
(* page it was taken off.                                                  *)
LEMMA UndoneRedone ==
  ASSUME NEW d, NEW g, Paged(d, g, FALSE), GroundedBook(d.book), d.lift = 0,
         NEW x, WordsOf(d, x), NEW e, e = Ended(d), NewestMark(e) # 0, NEW u, u = Undo(d),
         NEW w, w = After(d, x, e)
  PROVE  \E branch \in {1, 2} : SamePage(RedoAlong(u, branch), e, OnRecord(e) \ w)
<1>1. /\ Paged(e, g, FALSE) /\ Settled(e, w) /\ e.lift = 0 /\ e.open = <<>> /\ e.sel = NoBox
      /\ Pictured(e, g)
  <2>1. Pictured(d, g)
    BY DEF Paged
  <2> QED
    BY <2>1, EndedGood DEF Settled
<1>2. Sane(e, g)
  BY <1>1 DEF Paged
<1>3. Resting(e, g) /\ \A n \in DOMAIN e.book : Truthful(e.book, g, n)
  <2>1. Resting(e, g)
    BY <1>1, RestingIs
  <2> QED
    BY <2>1, <1>1 DEF Pictured
<1>5. PICK m, book, k : m = e.made /\ book = e.book /\ k = NewestMark(e)
  OBVIOUS
<1>6. m \in Nat /\ book \in Seq(Entries(m)) /\ Tree(book) /\ e.cursor \in 0 .. Len(book)
  BY <1>2, <1>5, DocFields DEF Sane
<1>7. k = NewestOn(book, e.cursor) /\ k # 0
  BY <1>5, NewestMarkIs
<1>8. k \in 1 .. Len(book) /\ Marks(book[k]) /\ Level(book, g, k, e.cursor)
  BY <1>3, <1>5, <1>6, <1>7, NewestIs
<1>9. k \in Way(book, e.cursor) /\ Redoable(book, e.cursor)
  <2>1. Redoable(book, e.cursor)
    BY <1>2, <1>5 DEF Sane, Returns
  <2> QED
    BY <2>1, <1>6, <1>7, NewestOnWay
<1>10. PICK c : c = book[k].parent
  OBVIOUS
<1>11. c \in 0 .. Len(book)
  BY <1>6, <1>8, <1>10 DEF Tree
<1>12. Redoable(book, c)
  BY <1>6, <1>9, <1>10, RedoableUp
<1>13. Redoable(book, k)
  <2>1. Way(book, k) \in SUBSET Way(book, e.cursor)
    BY <1>6, <1>9, WayUp
  <2> QED
    BY <2>1, <1>9 DEF Redoable
<1>14. u = ReplayTo(e, c)
  BY <1>5, <1>7, <1>10 DEF Undo
<1>15. ReplayOf(e, u, c, g)
  BY <1>1, <1>2, <1>5, <1>11, <1>12, <1>14, ReplayIs
<1>16. /\ Sane(u, g) /\ u.book = book /\ u.cursor = c
       /\ u.open = <<>> /\ u.sel = NoBox /\ u.lift = 0
  BY <1>5, <1>15 DEF ReplayOf
<1>17. PICK r : r = ReplayTo(u, k)
  OBVIOUS
<1>18. ReplayOf(u, r, k, g)
  <2>1. k \in 0 .. Len(u.book)
    BY <1>8, <1>16
  <2> QED
    BY <2>1, <1>13, <1>16, <1>17, ReplayIs
<1>19. Back(e, w, g, k, c, u, r)
  <2>1. /\ k \in 1 .. Len(e.book) /\ k = NewestOn(e.book, e.cursor) /\ c = e.book[k].parent
        /\ Level(e.book, g, k, e.cursor) /\ Marks(e.book[k])
    BY <1>5, <1>7, <1>8, <1>10
  <2> QED
    BY <2>1, <1>1, <1>2, <1>3, <1>15, <1>18 DEF Back
<1>20. SamePage(r, e, OnRecord(e) \ w)
  BY <1>19, PageComesBack
<1>21. Ended(u) = u
  BY <1>16 DEF Ended, SealOpenOp
<1>22. PICK branch \in {1, 2} : LeadsTo(u, branch, k)
  <2>1. AboveMark(m, u, e.cursor, k)
    BY <1>6, <1>8, <1>9, <1>10, <1>16 DEF AboveMark
  <2> QED
    BY <2>1, RedoFinds
<1>23. RedoAlong(u, branch) = r
  BY <1>17, <1>21, <1>22 DEF RedoAlong, LeadsTo
<1> QED
  BY <1>20, <1>22, <1>23

(* The same of the step the undo key takes.                                *)
LEMMA UndoStep ==
  ASSUME HistoryInv, UndoKey, Grounded, ~torn'
  PROVE  \E branch \in {1, 2} :
           SamePage(RedoAlong(doc', branch), Ended(doc),
                    OnRecord(Ended(doc)) \ Unaccounted(Ended(doc)))
<1>1. /\ NewestMark(Ended(doc)) # 0 /\ doc' = Undo(doc) /\ torn' = (torn \/ doc.lift # 0)
  BY DEF UndoKey, Replays
<1>2. doc.lift = 0 /\ ~torn
  BY <1>1
<1>3. Paged(doc, paper, FALSE) /\ WordsOf(doc, loose)
  BY <1>2 DEF HistoryInv, Paged, Worded
<1>4. GroundedBook(doc.book)
  BY DEF Grounded, GroundedBook
<1>5. PICK e, w : e = Ended(doc) /\ w = After(doc, loose, e)
  OBVIOUS
<1>6. w = Unaccounted(e)
  BY <1>5, UnaccountedIs
<1>7. \E branch \in {1, 2} : SamePage(RedoAlong(doc', branch), e, OnRecord(e) \ w)
  BY <1>1, <1>2, <1>3, <1>4, <1>5, UndoneRedone
<1> QED
  BY <1>5, <1>6, <1>7

(* An undo is taken back by one of the two redo keys: every layer, the     *)
(* stack, and every box the record has as it stood, but for the boxes that *)
(* had changed with no entry (restyled, moved or sized while not open, or  *)
(* taken away unrecorded).                                                 *)
THEOREM HistoryUndoIsReversible == Spec => UndoIsReversible
<1>1. HistoryInv /\ [Next]_vars =>
        [UndoKey /\ Grounded /\ ~torn' =>
           \E branch \in {1, 2} :
             SamePage(RedoAlong(doc', branch), Ended(doc),
                      OnRecord(Ended(doc)) \ Unaccounted(Ended(doc)))]_vars
  BY UndoStep
<1> QED
  BY <1>1, HistoryInvariant, PTL DEF Spec, UndoIsReversible
================================================================================

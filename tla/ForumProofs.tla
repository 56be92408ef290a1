----------------------------- MODULE ForumProofs -----------------------------
(***************************************************************************)
(* Proofs about a forum, for any clients, texts, numbers of threads and    *)
(* chunks, and any order of requests, statements, refusals, crashes and    *)
(* rows: what was answered is kept, what is served verifies, and a new     *)
(* thread's number is fresh.                                               *)
(*                                                                         *)
(* The rows of a thread on disk are Sound at every moment, a transaction   *)
(* being open or not (DiskInv); of one that is being written only its own  *)
(* rows differ from the disk's, by as much as its statements have done     *)
(* (StoreInv, Progress); and memory is a thread's rows in the order of     *)
(* their numbers (MemInv).  A chain is a fact about the order of a         *)
(* sequence in memory and about a set of rows on disk: ListedChained and   *)
(* ChainedListed carry it from one to the other.                           *)
(*                                                                         *)
(* A refused statement spoils its thread, a refused COMMIT every thread;   *)
(* hence ForumInv is Good or nothing.                                      *)
(***************************************************************************)
EXTENDS Forum, TLAPS, SequenceTheorems, FiniteSetTheorems, WellFoundedInduction

-----------------------------------------------------------------------------
(* Types                                                                   *)

Entries    == Nat \X Tokens \X Texts
Pieces     == [part : Nat, of : Texts]
HeaderRows == [key : Keys, title : Titles, op : Tokens \cup {Nobody}, locked : BOOLEAN]
PostRows   == [key : Keys, seq : Nat, author : Tokens, tomb : BOOLEAN, chash : Texts,
               ihash : Seq(Entries)]
BodyRows   == [key : Keys, seq : Nat, part : Nat, of : Texts]
Tables     == [header : SUBSET HeaderRows, post : SUBSET PostRows, body : SUBSET BodyRows]
Entered    == [seq : Nat, author : Tokens, tomb : BOOLEAN, body : SUBSET Pieces, chash : Texts,
               ihash : Seq(Entries)]
Threads    == [there : BOOLEAN, title : Titles, op : Tokens \cup {Nobody}, locked : BOOLEAN,
               next : Nat, posts : Seq(Entered)]

-----------------------------------------------------------------------------
(* The operators                                                           *)

LEMMA NatMin ==
  ASSUME NEW S \in SUBSET Nat, S # {}
  PROVE  \E x \in S : \A y \in S : x <= y
<1>1. IsWellFoundedOn(OpToRel(<,Nat), Nat)
  BY NatLessThanWellFounded
<1>2. PICK x \in S : \A y \in S : ~(<<y, x>> \in OpToRel(<,Nat))
  BY <1>1, WFMin, Zenon
<1>3. \A y \in S : <<y, x>> \in OpToRel(<,Nat) <=> y < x
  BY DEF OpToRel
<1>4. x \in S /\ \A y \in S : ~(y < x)
  BY <1>2, <1>3
<1> QED
  BY <1>4, SMT

LEMMA MinIs ==
  ASSUME NEW S \in SUBSET Nat, S # {}
  PROVE  Min(S) \in S /\ \A y \in S : Min(S) <= y
<1>1. \E x \in S : \A y \in S : x <= y
  BY NatMin
<1> QED
  BY <1>1 DEF Min

\* The statements that persist a post: the row, the chunks it had, its chunks,
\* and the commit.
LastOf(p)      == IF p.tomb THEN 4 ELSE 4 + Chunks[p.chash]
ChunkRow(p, i) == [key |-> p.key, seq |-> p.seq, part |-> i, of |-> p.chash]
Statement(p, j) ==
    IF j = 1 THEN Begin(p.key)
    ELSE IF j = 2 THEN PutPost(p)
    ELSE IF j = 3 THEN DropBody(p.key, p.seq)
    ELSE IF j = LastOf(p) THEN Commit(p.key) ELSE PutChunk(ChunkRow(p, j - 3))

LEMMA StatementsOf ==
  ASSUME NEW k \in Keys, NEW e \in Entered, NEW p \in PostRows, p = PostRow(k, e)
  PROVE  /\ PostStatements(k, e) \in Seq({Statement(p, j) : j \in Nat})
         /\ Len(PostStatements(k, e)) = LastOf(p)
         /\ \A j \in 1..LastOf(p) : PostStatements(k, e)[j] = Statement(p, j)
<1> DEFINE c == Chunks[p.chash]
           S == {Statement(p, j) : j \in Nat}
           head == <<Begin(k), PutPost(p), DropBody(k, p.seq)>>
           mid  == IF p.tomb THEN <<>> ELSE ChunkRows(k, e)
           tail == <<Commit(k)>>
           m == IF p.tomb THEN 0 ELSE c
<1>1. /\ p.key = k /\ p.seq = e.seq /\ p.tomb = e.tomb /\ p.chash = e.chash
      /\ p.chash \in Texts /\ p.tomb \in BOOLEAN
  BY DEF PostRow, Entered
<1>2. c \in Nat /\ c > 0 /\ m \in Nat /\ LastOf(p) = 4 + m
  BY <1>1, ForumAssumption DEF LastOf
<1>3. PostStatements(k, e) = head \o mid \o tail
  BY <1>1 DEF PostStatements
<1>s. \A j \in Nat : Statement(p, j) \in S
  OBVIOUS
<1>4. /\ head \in Seq(S) /\ Len(head) = 3
      /\ head[1] = Statement(p, 1) /\ head[2] = Statement(p, 2) /\ head[3] = Statement(p, 3)
  <2>1. Begin(k) = Statement(p, 1) /\ PutPost(p) = Statement(p, 2) /\ DropBody(k, p.seq) = Statement(p, 3)
    BY <1>1 DEF Statement
  <2> HIDE DEF S
  <2> QED
    BY <2>1, <1>s
<1>5. mid \in Seq(S) /\ Len(mid) = m /\ \A i \in 1..m : mid[i] = Statement(p, i + 3)
  <2>1. CASE p.tomb
    BY <2>1
  <2>2. CASE ~p.tomb
    <3>1. mid = [i \in 1..c |-> PutChunk(ChunkRow(p, i))]
      BY <2>2, <1>1 DEF ChunkRows, ChunkRow
    <3>2. \A i \in 1..c : PutChunk(ChunkRow(p, i)) = Statement(p, i + 3)
      BY <2>2, <1>2 DEF Statement
    <3>3. \A i \in 1..c : Statement(p, i + 3) \in S
      BY <1>2
    <3> HIDE DEF S, c
    <3> QED
      BY <2>2, <3>1, <3>2, <3>3, <1>2
  <2> QED
    BY <2>1, <2>2
<1>6. tail \in Seq(S) /\ Len(tail) = 1 /\ tail[1] = Statement(p, 4 + m)
  <2>1. Commit(k) = Statement(p, 4 + m)
    BY <1>1, <1>2 DEF Statement
  <2>2. Statement(p, 4 + m) \in S
    BY <1>2
  <2> HIDE DEF S
  <2> QED
    BY <2>1, <2>2
<1> HIDE DEF head, mid, tail, m, S, c
<1>7. /\ head \o mid \in Seq(S) /\ Len(head \o mid) = 3 + m
      /\ \A i \in 1..(3 + m) : (head \o mid)[i] = Statement(p, i)
  <2>1. /\ head \o mid \in Seq(S) /\ Len(head \o mid) = Len(head) + Len(mid)
        /\ \A i \in 1..Len(head) + Len(mid) :
              (head \o mid)[i] = IF i <= Len(head) THEN head[i] ELSE mid[i - Len(head)]
    BY <1>4, <1>5, ConcatProperties, Zenon
  <2>2. ASSUME NEW i \in 1..(3 + m) PROVE (head \o mid)[i] = Statement(p, i)
    <3>1. (head \o mid)[i] = IF i <= 3 THEN head[i] ELSE mid[i - 3]
      BY <2>1, <1>4, <1>5
    <3>2. CASE i <= 3
      <4>1. i \in {1, 2, 3}
        BY <3>2
      <4> QED
        BY <3>1, <3>2, <4>1, <1>4
    <3>3. CASE ~(i <= 3)
      <4>1. i - 3 \in 1..m /\ (i - 3) + 3 = i
        BY <3>3, <1>2
      <4> QED
        BY <3>1, <3>3, <4>1, <1>5
    <3> QED
      BY <3>2, <3>3
  <2> QED
    BY <2>1, <2>2, <1>4, <1>5
<1> DEFINE front == head \o mid
<1>7a. /\ front \in Seq(S) /\ Len(front) = 3 + m
       /\ \A i \in 1..(3 + m) : front[i] = Statement(p, i)
  BY <1>7
<1> HIDE DEF front
<1>8. /\ front \o tail \in Seq(S) /\ Len(front \o tail) = 4 + m
      /\ \A i \in 1..(4 + m) : (front \o tail)[i] = Statement(p, i)
  <2>1. /\ front \o tail \in Seq(S) /\ Len(front \o tail) = Len(front) + Len(tail)
        /\ \A i \in 1..Len(front) + Len(tail) :
              (front \o tail)[i] =
                 IF i <= Len(front) THEN front[i] ELSE tail[i - Len(front)]
    BY <1>6, <1>7a, ConcatProperties, Zenon
  <2>2. ASSUME NEW i \in 1..(4 + m) PROVE (front \o tail)[i] = Statement(p, i)
    <3>1. (front \o tail)[i] = IF i <= 3 + m THEN front[i] ELSE tail[i - (3 + m)]
      BY <2>1, <1>6, <1>7a, <1>2
    <3>2. CASE i <= 3 + m
      BY <3>1, <3>2, <1>7a, <1>2
    <3>3. CASE ~(i <= 3 + m)
      <4>1. i - (3 + m) = 1 /\ i = 4 + m
        BY <3>3, <1>2
      <4> QED
        BY <3>1, <3>3, <4>1, <1>6
    <3> QED
      BY <3>2, <3>3
  <2> QED
    BY <2>1, <2>2, <1>6, <1>7a, <1>2
<1> QED
  BY <1>2, <1>3, <1>8 DEF S, front

\* By their numbers, each but once.
Sorted(q) == \A i, j \in 1..Len(q) : i < j => q[i].seq < q[j].seq

LEMMA Inserted ==
  ASSUME NEW S, NEW q \in Seq(S), NEW n \in 0..Len(q), NEW e \in S
  PROVE  /\ InsertAt(q, n + 1, e) \in Seq(S)
         /\ Len(InsertAt(q, n + 1, e)) = Len(q) + 1
         /\ \A j \in 1..Len(q) + 1 : InsertAt(q, n + 1, e)[j] =
                 IF j <= n THEN q[j] ELSE IF j = n + 1 THEN e ELSE q[j - 1]
<1> DEFINE l == SubSeq(q, 1, n)
           r == SubSeq(q, n + 1, Len(q))
           f == l \o <<e>>
<1>0. n \in Nat /\ Len(q) \in Nat /\ n <= Len(q)
  OBVIOUS
<1>1. l \in Seq(S) /\ Len(l) = n /\ \A j \in 1..n : l[j] = q[j]
  BY <1>0
<1>2. r \in Seq(S) /\ Len(r) = Len(q) - n /\ \A j \in 1..Len(q) - n : r[j] = q[n + j]
  BY <1>0
<1>3. (n + 1) - 1 = n
  BY <1>0
<1>4. InsertAt(q, n + 1, e) = l \o <<e>> \o r
  BY <1>3 DEF InsertAt
<1>5. <<e>> \in Seq(S) /\ Len(<<e>>) = 1 /\ <<e>>[1] = e
  OBVIOUS
<1> HIDE DEF l, r
<1>6. /\ f \in Seq(S) /\ Len(f) = n + 1
      /\ \A j \in 1..n + 1 : f[j] = IF j <= n THEN q[j] ELSE e
  <2>1. /\ f \in Seq(S) /\ Len(f) = Len(l) + Len(<<e>>)
        /\ \A j \in 1..Len(l) + Len(<<e>>) : f[j] = IF j <= Len(l) THEN l[j] ELSE <<e>>[j - Len(l)]
    BY <1>1, <1>5, ConcatProperties, Zenon
  <2> HIDE DEF f
  <2>2. ASSUME NEW j \in 1..n + 1 PROVE f[j] = IF j <= n THEN q[j] ELSE e
    <3>1. CASE j <= n
      BY <2>1, <3>1, <1>0, <1>1, <1>5
    <3>2. CASE ~(j <= n)
      <4>1. j - n = 1
        BY <3>2, <1>0
      <4> QED
        BY <2>1, <3>2, <4>1, <1>1, <1>5
    <3> QED
      BY <3>1, <3>2
  <2> QED
    BY <2>1, <2>2, <1>1, <1>5
<1> HIDE DEF f
<1>7. /\ f \o r \in Seq(S) /\ Len(f \o r) = Len(q) + 1
      /\ \A j \in 1..Len(q) + 1 : (f \o r)[j] = IF j <= n + 1 THEN f[j] ELSE r[j - (n + 1)]
  <2>1. /\ f \o r \in Seq(S) /\ Len(f \o r) = Len(f) + Len(r)
        /\ \A j \in 1..Len(f) + Len(r) : (f \o r)[j] = IF j <= Len(f) THEN f[j] ELSE r[j - Len(f)]
    BY <1>2, <1>6, ConcatProperties, Zenon
  <2> QED
    BY <2>1, <1>0, <1>2, <1>6
<1>8. ASSUME NEW j \in 1..Len(q) + 1
      PROVE  (f \o r)[j] = IF j <= n THEN q[j] ELSE IF j = n + 1 THEN e ELSE q[j - 1]
  <2>1. CASE j <= n + 1
    BY <2>1, <1>0, <1>6, <1>7
  <2>2. CASE ~(j <= n + 1)
    <3>1. j - (n + 1) \in 1..Len(q) - n /\ n + (j - (n + 1)) = j - 1 /\ ~(j <= n) /\ j # n + 1
      BY <2>2, <1>0
    <3>2. (f \o r)[j] = r[j - (n + 1)]
      BY <2>2, <1>7
    <3>3. r[j - (n + 1)] = q[n + (j - (n + 1))]
      BY <3>1, <1>2
    <3> QED
      BY <3>1, <3>2, <3>3
  <2> QED
    BY <2>1, <2>2
<1>9. InsertAt(q, n + 1, e) = f \o r
  BY <1>4 DEF f
<1> DEFINE w == f \o r
<1>10. /\ w \in Seq(S) /\ Len(w) = Len(q) + 1
       /\ \A j \in 1..Len(q) + 1 : w[j] = IF j <= n THEN q[j] ELSE IF j = n + 1 THEN e ELSE q[j - 1]
  BY <1>7, <1>8
<1>11. InsertAt(q, n + 1, e) = w
  BY <1>9
<1> HIDE DEF w
<1> QED
  BY <1>10, <1>11

LEMMA InsertType ==
  ASSUME NEW q \in Seq(Entered), NEW p \in Entered
  PROVE  InsertBySeq(q, p) \in Seq(Entered)
<1> DEFINE same  == {i \in DOMAIN q : q[i].seq = p.seq}
           places == {n \in 0..Len(q) : \A i \in n + 1..Len(q) : q[i].seq > p.seq}
<1>1. CASE same # {}
  <2>1. InsertBySeq(q, p) = [q EXCEPT ![Min(same)] = p]
    BY <1>1 DEF InsertBySeq
  <2>2. same \in SUBSET Nat
    OBVIOUS
  <2>3. Min(same) \in same
    <3> HIDE DEF same
    <3> QED
      BY <1>1, <2>2, MinIs
  <2> QED
    BY <2>1, <2>3
<1>2. CASE same = {}
  <2>1. InsertBySeq(q, p) = InsertAt(q, Min(places) + 1, p)
    BY <1>2 DEF InsertBySeq
  <2>2. places \in SUBSET Nat /\ Len(q) \in places
    OBVIOUS
  <2>3. Min(places) \in places
    <3> HIDE DEF places
    <3> QED
      BY <2>2, MinIs
  <2> QED
    BY <2>1, <2>3, Inserted
<1> QED
  BY <1>1, <1>2

LEMMA InsertedBySeq ==
  ASSUME NEW q \in Seq(Entered), Sorted(q), NEW p \in Entered,
         \A i \in 1..Len(q) : q[i].seq # p.seq
  PROVE  /\ InsertBySeq(q, p) \in Seq(Entered) /\ Sorted(InsertBySeq(q, p))
         /\ \A j \in 1..Len(InsertBySeq(q, p)) :
               InsertBySeq(q, p)[j] = p \/ \E i \in 1..Len(q) : InsertBySeq(q, p)[j] = q[i]
         /\ \E j \in 1..Len(InsertBySeq(q, p)) : InsertBySeq(q, p)[j] = p
         /\ \A i \in 1..Len(q) : \E j \in 1..Len(InsertBySeq(q, p)) : InsertBySeq(q, p)[j] = q[i]
<1> DEFINE same  == {i \in DOMAIN q : q[i].seq = p.seq}
           above(n) == \A i \in n + 1..Len(q) : q[i].seq > p.seq
           places == {n \in 0..Len(q) : above(n)}
           n == Min(places)
           u == InsertAt(q, n + 1, p)
<1>0. Len(q) \in Nat /\ DOMAIN q = 1..Len(q) /\ p.seq \in Nat /\ \A i \in 1..Len(q) : q[i].seq \in Nat
  <2>1. \A i \in 1..Len(q) : q[i] \in Entered
    OBVIOUS
  <2> QED
    BY <2>1 DEF Entered
<1>1. same = {}
  BY <1>0
<1>2. n \in places /\ \A m \in places : n <= m
  <2>1. Len(q) \in places
    BY <1>0
  <2>2. places \in SUBSET Nat
    BY <1>0
  <2> HIDE DEF places
  <2> QED
    BY <2>1, <2>2, MinIs
<1>3. InsertBySeq(q, p) = u
  BY <1>1 DEF InsertBySeq
<1>4. n \in 0..Len(q) /\ above(n)
  BY <1>2
<1>5. \A i \in 1..n : q[i].seq < p.seq
  <2>1. SUFFICES ASSUME NEW i \in 1..n, ~(q[i].seq < p.seq) PROVE FALSE
    OBVIOUS
  <2>2. i \in 1..Len(q) /\ q[i].seq > p.seq
    <3>1. i \in 1..Len(q)
      BY <1>0, <1>4
    <3> HIDE DEF n
    <3>2. q[i].seq \in Nat /\ p.seq \in Nat /\ q[i].seq # p.seq
      BY <3>1, <1>0
    <3> QED
      BY <2>1, <3>1, <3>2
  <2>3. above(i - 1)
    <3> SUFFICES ASSUME NEW j \in i..Len(q) PROVE q[j].seq > p.seq
      BY <2>2
    <3>1. j \in 1..Len(q) /\ (j = i \/ i < j)
      BY <2>2
    <3> QED
      BY <3>1, <2>2, <1>0 DEF Sorted
  <2>4. i - 1 \in places
    BY <2>2, <2>3, <1>0
  <2> HIDE DEF places
  <2> QED
    BY <2>2, <2>4, <1>2, <1>4
<1> HIDE DEF n, same, places
<1>6. /\ u \in Seq(Entered) /\ Len(u) = Len(q) + 1
      /\ \A j \in 1..Len(q) + 1 : u[j] = IF j <= n THEN q[j] ELSE IF j = n + 1 THEN p ELSE q[j - 1]
  BY <1>4, Inserted
<1> HIDE DEF u
<1>7. Sorted(u)
  <2> SUFFICES ASSUME NEW i \in 1..Len(q) + 1, NEW j \in 1..Len(q) + 1, i < j PROVE u[i].seq < u[j].seq
    BY <1>6 DEF Sorted
  <2>0. n \in Nat /\ n <= Len(q)
    BY <1>0, <1>4
  <2>1. CASE j <= n
    <3>1. u[i] = q[i] /\ u[j] = q[j] /\ i \in 1..Len(q) /\ j \in 1..Len(q)
      BY <2>0, <2>1, <1>6
    <3> QED
      BY <3>1 DEF Sorted
  <2>2. CASE j = n + 1
    <3>1. u[i] = q[i] /\ u[j] = p /\ i \in 1..n
      BY <2>0, <2>2, <1>6
    <3> QED
      BY <3>1, <1>5
  <2>3. CASE j > n + 1
    <3>1. u[j] = q[j - 1] /\ j - 1 \in 1..Len(q) /\ j - 1 \in n + 1..Len(q)
      BY <2>0, <2>3, <1>6
    <3>2. CASE i <= n
      <4>1. u[i] = q[i] /\ i \in 1..Len(q) /\ i < j - 1
        BY <2>0, <2>3, <3>2, <1>6
      <4> QED
        BY <3>1, <4>1 DEF Sorted
    <3>3. CASE i = n + 1
      <4>1. u[i] = p
        BY <3>3, <2>0, <1>6
      <4> QED
        BY <3>1, <4>1, <1>4, <1>0
    <3>4. CASE i > n + 1
      <4>1. u[i] = q[i - 1] /\ i - 1 \in 1..Len(q) /\ i - 1 < j - 1
        BY <2>0, <3>4, <1>6
      <4> QED
        BY <3>1, <4>1 DEF Sorted
    <3> QED
      BY <3>2, <3>3, <3>4, <2>0
  <2> QED
    BY <2>0, <2>1, <2>2, <2>3
<1>8. \A j \in 1..Len(u) : u[j] = p \/ \E i \in 1..Len(q) : u[j] = q[i]
  <2> TAKE j \in 1..Len(u)
  <2>1. CASE j <= n
    <3>1. j \in 1..Len(q) /\ u[j] = q[j]
      BY <2>1, <1>0, <1>4, <1>6
    <3> QED
      BY <3>1
  <2>2. CASE j = n + 1
    BY <2>2, <1>0, <1>4, <1>6
  <2>3. CASE j > n + 1
    <3>1. u[j] = q[j - 1] /\ j - 1 \in 1..Len(q)
      BY <2>3, <1>0, <1>4, <1>6
    <3> QED
      BY <3>1
  <2> QED
    BY <2>1, <2>2, <2>3, <1>0, <1>4, <1>6
<1>9. \E j \in 1..Len(u) : u[j] = p
  <2>1. n + 1 \in 1..Len(u) /\ u[n + 1] = p
    BY <1>0, <1>4, <1>6
  <2> QED
    BY <2>1
<1>10. \A i \in 1..Len(q) : \E j \in 1..Len(u) : u[j] = q[i]
  <2> TAKE i \in 1..Len(q)
  <2>1. CASE i <= n
    <3>1. i \in 1..Len(u) /\ u[i] = q[i]
      BY <2>1, <1>0, <1>4, <1>6
    <3> QED
      BY <3>1
  <2>2. CASE i > n
    <3>1. i + 1 \in 1..Len(u) /\ u[i + 1] = q[i]
      <4>1. i + 1 \in 1..Len(q) + 1 /\ ~(i + 1 <= n) /\ i + 1 # n + 1 /\ (i + 1) - 1 = i
        BY <2>2, <1>0, <1>4
      <4> QED
        BY <4>1, <1>6
    <3> QED
      BY <3>1
  <2> QED
    BY <2>1, <2>2, <1>0, <1>4
<1> QED
  BY <1>3, <1>6, <1>7, <1>8, <1>9, <1>10

-----------------------------------------------------------------------------
(* A thread's rows: what they say, and how they chain                      *)

Of(rows, k) == {r \in rows : r.key = k}

\* INSERT OR REPLACE of a post.
Put(rows, p) == {x \in rows : ~SamePost(x, p)} \cup {p}

Entry(r) == <<r.seq, r.author, r.chash>>

\* A row chains to the one below it among R.
Chained(R, r) ==
    \/ /\ \A q \in R : q.seq >= r.seq
       /\ r.ihash = Append(<<>>, Entry(r))
    \/ \E q \in R : /\ q.seq < r.seq /\ \A x \in R : x.seq < r.seq => x.seq <= q.seq
                    /\ r.ihash = Append(q.ihash, Entry(r))

\* The posts of thread k as the rows have them: each once, chained, and the
\* chunks those of its text; of a removed one none.
Sound(d, k) ==
    /\ \A r, q \in Of(d.post, k) : r.seq = q.seq => r = q
    /\ \A r \in Of(d.post, k) : Chained(Of(d.post, k), r)
    /\ \A b \in Of(d.body, k) : \E r \in Of(d.post, k) : /\ b.seq = r.seq /\ ~r.tomb /\ b.of = r.chash
                                                         /\ b.part \in 1..Chunks[r.chash]
    /\ \A r \in Of(d.post, k) : ~r.tomb => \A i \in 1..Chunks[r.chash] : ChunkRow(r, i) \in Of(d.body, k)

\* q is what rows R have of thread k, and its next number is not taken.
Listed(q, next, k, R) ==
    /\ Sorted(q)
    /\ \A i \in 1..Len(q) : q[i].seq < next /\ PostRow(k, q[i]) \in R
    /\ \A r \in Of(R, k) : \E i \in 1..Len(q) : r = PostRow(k, q[i])

Chains(q) == \A i \in 1..Len(q) :
    q[i].ihash = Append(IF i = 1 THEN <<>> ELSE q[i - 1].ihash, Entry(q[i]))

Texted(q) == \A i \in 1..Len(q) : q[i].body = IF q[i].tomb THEN {} ELSE Whole(q[i].chash)

Removal(r) == [r EXCEPT !.tomb = TRUE]

LEMMA RowFields ==
  ASSUME NEW k \in Keys, NEW e \in Entered
  PROVE  /\ PostRow(k, e) \in PostRows
         /\ PostRow(k, e).key = k /\ PostRow(k, e).seq = e.seq /\ PostRow(k, e).author = e.author
         /\ PostRow(k, e).tomb = e.tomb /\ PostRow(k, e).chash = e.chash /\ PostRow(k, e).ihash = e.ihash
         /\ e.seq \in Nat /\ e.chash \in Texts /\ e.tomb \in BOOLEAN
BY DEF PostRow, PostRows, Entered

LEMMA RemovalIs ==
  ASSUME NEW x \in PostRows
  PROVE  Removal(x) = [key |-> x.key, seq |-> x.seq, author |-> x.author, tomb |-> TRUE,
                       chash |-> x.chash, ihash |-> x.ihash]
<1> DEFINE y == Removal(x)
<1>1. /\ y \in PostRows /\ y.tomb = TRUE /\ y.key = x.key /\ y.seq = x.seq /\ y.author = x.author
      /\ y.chash = x.chash /\ y.ihash = x.ihash
  BY DEF Removal, PostRows
<1> HIDE DEF y
<1>2. y = [key |-> y.key, seq |-> y.seq, author |-> y.author, tomb |-> y.tomb,
           chash |-> y.chash, ihash |-> y.ihash]
  BY <1>1 DEF PostRows
<1> QED
  BY <1>1, <1>2 DEF y

LEMMA ElementIs == ASSUME NEW q \in Seq(Entered), NEW i \in 1..Len(q) PROVE q[i] \in Entered
OBVIOUS

\* A thread in memory that chains has rows that chain.
LEMMA ListedChained ==
  ASSUME NEW q \in Seq(Entered), NEW next, NEW k \in Keys, NEW R \in SUBSET PostRows,
         Listed(q, next, k, R), Chains(q)
  PROVE  /\ \A r, x \in Of(R, k) : r.seq = x.seq => r = x
         /\ \A r \in Of(R, k) : Chained(Of(R, k), r)
<1> DEFINE O == Of(R, k)
           row(i) == PostRow(k, q[i])
<1>0. Len(q) \in Nat
  OBVIOUS
<1>1. \A i \in 1..Len(q) : /\ row(i) \in O /\ row(i).seq = q[i].seq /\ row(i).ihash = q[i].ihash
                           /\ Entry(row(i)) = Entry(q[i]) /\ q[i].seq \in Nat
  <2> TAKE i \in 1..Len(q)
  <2>1. q[i] \in Entered
    BY ElementIs
  <2> QED
    BY <2>1, RowFields DEF Listed, Of, Entry
<1>2. \A r \in O : \E i \in 1..Len(q) : r = row(i)
  BY DEF Listed
<1>3. \A i, j \in 1..Len(q) : i < j => q[i].seq < q[j].seq
  BY DEF Listed, Sorted
<1> HIDE DEF O, row
<1>4. \A r, x \in O : r.seq = x.seq => r = x
  <2> TAKE r, x \in O
  <2>1. PICK i \in 1..Len(q), j \in 1..Len(q) : r = row(i) /\ x = row(j)
    BY <1>2
  <2>2. i < j \/ i = j \/ j < i
    BY <1>0
  <2> QED
    BY <2>1, <2>2, <1>1, <1>3
<1>5. ASSUME NEW r \in O PROVE Chained(O, r)
  <2>1. PICK i \in 1..Len(q) : r = row(i)
    BY <1>2
  <2>2. CASE i = 1
    <3>1. \A x \in O : x.seq >= r.seq
      <4> TAKE x \in O
      <4>1. PICK j \in 1..Len(q) : x = row(j)
        BY <1>2
      <4>2. i = j \/ i < j
        BY <2>2, <1>0
      <4> QED
        BY <2>1, <4>1, <4>2, <1>1, <1>3
    <3>2. r.ihash = Append(<<>>, Entry(r))
      BY <2>1, <2>2, <1>1 DEF Chains
    <3> QED
      BY <3>1, <3>2 DEF Chained
  <2>3. CASE i # 1
    <3> DEFINE h == i - 1
    <3>1. h \in 1..Len(q) /\ h < i /\ h \in Nat /\ i \in Nat /\ i = h + 1
      BY <2>3, <1>0
    <3> HIDE DEF h
    <3>2. row(h) \in O /\ row(h).seq < r.seq
      BY <2>1, <3>1, <1>1, <1>3
    <3>3. \A x \in O : x.seq < r.seq => x.seq <= row(h).seq
      <4> SUFFICES ASSUME NEW x \in O, x.seq < r.seq PROVE x.seq <= row(h).seq
        OBVIOUS
      <4>1. PICK j \in 1..Len(q) : x = row(j)
        BY <1>2
      <4>2. j < i
        <5>1. CASE j = i
          BY <2>1, <4>1, <5>1, <1>1
        <5>2. CASE i < j
          BY <2>1, <4>1, <5>2, <1>1, <1>3
        <5> QED
          BY <5>1, <5>2, <1>0
      <4>3. j = h \/ j < h
        BY <3>1, <4>2
      <4> QED
        BY <4>1, <4>3, <3>1, <1>1, <1>3
    <3>4. r.ihash = Append(row(h).ihash, Entry(r))
      <4>1. q[i].ihash = Append(q[h].ihash, Entry(q[i]))
        BY <2>3 DEF Chains, h
      <4> QED
        BY <2>1, <3>1, <4>1, <1>1
    <3> QED
      BY <3>2, <3>3, <3>4 DEF Chained
  <2> QED
    BY <2>2, <2>3
<1> QED
  BY <1>4, <1>5 DEF O

\* Rows that chain, in the order of their numbers, are a thread that chains.
LEMMA ChainedListed ==
  ASSUME NEW q \in Seq(Entered), NEW next, NEW k \in Keys, NEW R \in SUBSET PostRows,
         Listed(q, next, k, R), \A r \in Of(R, k) : Chained(Of(R, k), r)
  PROVE  Chains(q)
<1> DEFINE O == Of(R, k)
           row(i) == PostRow(k, q[i])
<1>0. Len(q) \in Nat
  OBVIOUS
<1>1. \A i \in 1..Len(q) : /\ row(i) \in O /\ row(i).seq = q[i].seq /\ row(i).ihash = q[i].ihash
                           /\ Entry(row(i)) = Entry(q[i]) /\ q[i].seq \in Nat
  <2> TAKE i \in 1..Len(q)
  <2>1. q[i] \in Entered
    BY ElementIs
  <2> QED
    BY <2>1, RowFields DEF Listed, Of, Entry
<1>2. \A r \in O : \E i \in 1..Len(q) : r = row(i)
  BY DEF Listed
<1>3. \A i, j \in 1..Len(q) : i < j => q[i].seq < q[j].seq
  BY DEF Listed, Sorted
<1>c. \A r \in O : Chained(O, r)
  OBVIOUS
<1> HIDE DEF O, row
<1>4. ASSUME NEW i \in 1..Len(q)
      PROVE  q[i].ihash = Append(IF i = 1 THEN <<>> ELSE q[i - 1].ihash, Entry(q[i]))
  <2>1. row(i) \in O /\ Chained(O, row(i))
    BY <1>1, <1>c
  <2>2. CASE i = 1
    <3>1. \A x \in O : ~(x.seq < row(i).seq)
      <4> TAKE x \in O
      <4>1. PICK j \in 1..Len(q) : x = row(j)
        BY <1>2
      <4>2. i = j \/ i < j
        BY <2>2, <1>0
      <4> QED
        BY <4>1, <4>2, <1>1, <1>3
    <3>2. row(i).ihash = Append(<<>>, Entry(row(i)))
      BY <2>1, <3>1 DEF Chained
    <3> QED
      BY <2>2, <3>2, <1>1
  <2>3. CASE i # 1
    <3> DEFINE h == i - 1
    <3>1. h \in 1..Len(q) /\ h < i /\ h \in Nat /\ i \in Nat /\ i = h + 1
      BY <2>3, <1>0
    <3>e. h = i - 1
      OBVIOUS
    <3> HIDE DEF h
    <3>2. row(h) \in O /\ row(h).seq < row(i).seq /\ row(h).seq \in Nat /\ row(i).seq \in Nat
      BY <3>1, <1>1, <1>3
    <3>3. PICK x \in O : /\ x.seq < row(i).seq /\ row(h).seq <= x.seq
                         /\ row(i).ihash = Append(x.ihash, Entry(row(i)))
      <4>1. ~(\A y \in O : y.seq >= row(i).seq)
        BY <3>2
      <4> QED
        BY <2>1, <3>2, <4>1 DEF Chained
    <3>4. PICK j \in 1..Len(q) : x = row(j)
      BY <1>2
    <3>5. j = h
      <4>1. ~(j = i) /\ ~(i < j)
        BY <3>3, <3>4, <1>1, <1>3
      <4>2. ~(j < h)
        BY <3>1, <3>3, <3>4, <1>1, <1>3
      <4> QED
        BY <4>1, <4>2, <3>1
    <3>6. q[i].ihash = Append(q[h].ihash, Entry(q[i]))
      BY <3>1, <3>3, <3>4, <3>5, <1>1
    <3> QED
      BY <2>3, <3>6, <3>e
  <2> QED
    BY <2>2, <2>3
<1> QED
  BY <1>4 DEF Chains

-----------------------------------------------------------------------------
(* The invariant                                                           *)

Writing == answer.what \in {"post", "tomb"}
Done    == LastOf(answer.post) - Len(todo)

RowKeys(d) == {r.key : r \in d.header} \cup {r.key : r \in d.post} \cup {r.key : r \in d.body}

AnswerOk ==
    \/ answer = NoAnswer
    \/ answer.what \in {"new", "header"} /\ answer.key \in Keys
    \/ /\ answer.what \in {"post", "tomb"} /\ answer.key \in Keys
       /\ answer.post \in PostRows /\ answer.post.key = answer.key
       /\ answer.what = "tomb" <=> answer.post.tomb

Typed ==
    /\ up \in Loading \cup {"down", "serving"}
    /\ threads \in [Keys -> Threads]
    /\ counter \in 0..MaxKeys
    /\ store \in [disk : Tables, seen : Tables, open : BOOLEAN]
    /\ said \subseteq PostRows /\ removed \subseteq PostRows
    /\ up \in Loading => sent \subseteq store.seen[up]
    /\ up \notin Loading => sent = {}
    /\ AnswerOk
    /\ up # "serving" => todo = <<>> /\ answer = NoAnswer

\* What the running request has still to execute.
TodoInv ==
    /\ Writing => /\ todo \in Seq({Statement(answer.post, j) : j \in Nat})
                  /\ Len(todo) <= LastOf(answer.post)
                  /\ \A i \in 1..Len(todo) : todo[i] = Statement(answer.post, Done + i)
    /\ ~Writing => todo \in Seq({PutHeader(r) : r \in {h \in HeaderRows : h.key = answer.key}})

\* A transaction is open only while a post's statements run, and only the rows
\* of that post's thread are not yet on disk.
StoreInv ==
    /\ ~store.open => store.disk = store.seen
    /\ store.open => Writing /\ todo # <<>>
    /\ Writing => \A j \in Keys \ {answer.key} :
          /\ Of(store.disk.post, j) = Of(store.seen.post, j)
          /\ Of(store.disk.body, j) = Of(store.seen.body, j)

\* Every row is of a thread that is there, so that there is room for it again.
KeyInv ==
    /\ \A k \in Keys : Posts(k) # <<>> => threads[k].there
    /\ up = "serving" =>
          /\ RowKeys(store.disk) \subseteq Open(threads) /\ RowKeys(store.seen) \subseteq Open(threads)
          /\ Cardinality(Open(threads)) <= MaxThreads
          /\ answer # NoAnswer => answer.key \in Open(threads)
    /\ up # "serving" =>
          /\ Cardinality(RowKeys(store.seen)) <= MaxThreads
          /\ Open(threads) \subseteq RowKeys(store.seen)
    /\ up \in Loading => {r.key : r \in sent} \subseteq Open(threads)
    /\ up \in {"post", "body"} => {r.key : r \in store.seen.header} \subseteq Open(threads)
    /\ up = "body" => {r.key : r \in store.seen.post} \subseteq Open(threads)

\* How far the statements of a post have come, if none of them was refused.
Progress ==
    Writing /\ answer.key \in Spared =>
       /\ todo = <<>> => answer.post \in store.disk.post
       /\ todo # <<>> =>
            /\ store.open <=> Done >= 1
            /\ store.seen.post = IF Done < 2 THEN store.disk.post ELSE Put(store.disk.post, answer.post)
            /\ store.seen.body =
                  IF Done < 3 THEN store.disk.body
                  ELSE {x \in store.disk.body : ~SamePost(x, answer.post)}
                       \cup {ChunkRow(answer.post, i) : i \in 1..(Done - 3)}
            /\ answer.post.tomb => \E r \in store.disk.post : ~r.tomb /\ answer.post = Removal(r)
            /\ ~answer.post.tomb => \A r \in store.disk.post : ~SamePost(r, answer.post)

\* The rows that memory stands for.
Target(k) == IF Writing /\ answer.key = k THEN Put(store.disk.post, answer.post) ELSE store.disk.post

\* What has come back so far of the text of a post.
Text(p, k) == {[part |-> b.part, of |-> b.of] : b \in {c \in sent : c.key = k /\ c.seq = p.seq}}

MemoryInv(k) ==
    /\ up \in {"down", "header"} => Posts(k) = <<>>
    /\ up = "post" => /\ Listed(Posts(k), threads[k].next, k, sent)
                      /\ \A i \in 1..Len(Posts(k)) : Posts(k)[i].body = {}
    /\ up = "body" => /\ Listed(Posts(k), threads[k].next, k, store.disk.post)
                      /\ \A i \in 1..Len(Posts(k)) : Posts(k)[i].body = Text(Posts(k)[i], k)
    /\ up = "serving" => /\ Listed(Posts(k), threads[k].next, k, Target(k))
                         /\ Chains(Posts(k)) /\ Texted(Posts(k))

SaidInv ==
    /\ \A p \in said : p.key \in Spared => \E r \in store.disk.post : r = p \/ r = Removal(p)
    /\ \A p \in removed : p.key \in Spared => p.tomb /\ p \in store.disk.post

DiskInv == \A k \in Spared : Sound(store.disk, k)
MemInv  == \A k \in Spared : MemoryInv(k)

Good == Typed /\ TodoInv /\ StoreInv /\ KeyInv /\ Progress /\ DiskInv /\ MemInv /\ SaidInv /\ NewIsEmpty

\* A COMMIT refused spoils every thread; else all is well.
ForumInv == Keys \subseteq hurt \/ Good

LEMMA NoWriting == ASSUME answer = NoAnswer PROVE ~Writing
BY DEF Writing, NoAnswer

LEMMA EmptyThread == NoThread \in Threads /\ ~NoThread.there /\ NoThread.posts = <<>> /\ NoThread.next = 1
BY DEF NoThread, Threads, Titles

LEMMA FreshThread == NewThread \in Threads /\ NewThread.there /\ NewThread.posts = <<>>
<1> HIDE DEF NoThread
<1> QED
  BY EmptyThread DEF NewThread, Threads

LEMMA EmptyStore ==
  /\ NewStore \in [disk : Tables, seen : Tables, open : BOOLEAN]
  /\ NewStore.disk = NoRows /\ NewStore.seen = NoRows /\ ~NewStore.open
  /\ NoRows.post = {} /\ NoRows.body = {} /\ NoRows.header = {}
BY DEF NewStore, NoRows, Tables

LEMMA ListedNone ==
  ASSUME NEW k, NEW next, NEW R, Of(R, k) = {}
  PROVE  Listed(<<>>, next, k, R) /\ Chains(<<>>) /\ Texted(<<>>)
BY DEF Listed, Sorted, Chains, Texted

LEMMA ForumInit == Init => Good
<1> SUFFICES ASSUME Init PROVE Good
  OBVIOUS
<1> USE ForumAssumption
<1>e. answer = NoAnswer /\ ~Writing /\ todo = <<>> /\ up = "serving" /\ said = {} /\ removed = {} /\ sent = {}
  BY NoWriting DEF Init
<1>s. /\ store \in [disk : Tables, seen : Tables, open : BOOLEAN]
      /\ store.disk = NoRows /\ store.seen = NoRows /\ ~store.open
      /\ NoRows.post = {} /\ NoRows.body = {} /\ NoRows.header = {}
  BY EmptyStore DEF Init
<1>t. threads \in [Keys -> Threads] /\ Open(threads) = {} /\ \A k \in Keys : Posts(k) = <<>>
  BY EmptyThread DEF Init, Open, Posts
<1>1. Typed
  BY <1>e, <1>s, <1>t DEF Typed, AnswerOk, Init, Loading
<1>2. TodoInv
  BY <1>e DEF TodoInv
<1>3. StoreInv
  BY <1>e, <1>s DEF StoreInv
<1>4. KeyInv
  <2>1. RowKeys(NoRows) = {}
    BY <1>s DEF RowKeys
  <2>2. Cardinality({}) = 0
    BY FS_EmptySet
  <2> QED
    BY <1>e, <1>s, <1>t, <2>1, <2>2 DEF KeyInv, Loading
<1>5. Progress /\ SaidInv
  BY <1>e DEF Progress, SaidInv
<1>6. NewIsEmpty
  BY <1>e DEF NewIsEmpty, NoAnswer
<1>7. DiskInv
  BY <1>s DEF DiskInv, Sound, Of
<1>8. MemInv
  <2>1. \A k \in Keys : Of(Target(k), k) = {}
    BY <1>e, <1>s DEF Target, Of
  <2> QED
    BY <1>e, <1>t, <2>1, ListedNone DEF MemInv, MemoryInv, Spared
<1> QED
  BY <1>1, <1>2, <1>3, <1>4, <1>5, <1>6, <1>7, <1>8 DEF Good

-----------------------------------------------------------------------------
(* The requests                                                            *)

LEMMA KeysFinite == IsFiniteSet(Keys) /\ \A S \in SUBSET Keys : IsFiniteSet(S) /\ Cardinality(S) \in Nat
<1>1. IsFiniteSet(Keys)
  BY ForumAssumption, FS_Interval DEF Keys
<1> QED
  BY <1>1, FS_Subset, FS_CardinalityType

LEMMA IdleFacts ==
  ASSUME Good, Idle
  PROVE  /\ up = "serving" /\ todo = <<>> /\ answer = NoAnswer /\ ~Writing
         /\ ~store.open /\ store.disk = store.seen
         /\ RowKeys(store.disk) \subseteq Open(threads)
<1>1. up = "serving" /\ todo = <<>> /\ answer = NoAnswer
  BY DEF Idle, work
<1>2. ~Writing
  BY <1>1, NoWriting
<1> QED
  BY <1>1, <1>2 DEF Good, StoreInv, KeyInv

\* While nothing is being written and the store stands, only the threads
\* that change need another look.
LEMMA Calm ==
  ASSUME Good, ~Writing, Writing' = FALSE, UNCHANGED <<store, up, sent, said, removed>>,
         Spared' \subseteq Spared,
         \A k \in Spared' : \/ Posts(k)' = Posts(k) /\ threads'[k].next = threads[k].next
                            \/ MemoryInv(k)'
  PROVE  StoreInv' /\ Progress' /\ SaidInv' /\ DiskInv' /\ MemInv'
<1>1. StoreInv'
  BY DEF Good, StoreInv
<1>2. Progress'
  BY DEF Progress
<1>3. SaidInv'
  BY DEF Good, SaidInv
<1>4. DiskInv'
  BY DEF Good, DiskInv
<1>5. MemInv'
  <2> SUFFICES ASSUME NEW k \in Spared' PROVE MemoryInv(k)'
    BY DEF MemInv
  <2>1. CASE Posts(k)' = Posts(k) /\ threads'[k].next = threads[k].next
    <3>1. MemoryInv(k)
      BY DEF Good, MemInv
    <3>2. Target(k)' = Target(k)
      BY DEF Target
    <3>3. \A p : Text(p, k)' = Text(p, k)
      BY DEF Text
    <3> QED
      BY <2>1, <3>1, <3>2, <3>3 DEF MemoryInv
  <2> QED
    BY <2>1
<1> QED
  BY <1>1, <1>2, <1>3, <1>4, <1>5

LEMMA HeaderType ==
  ASSUME NEW k \in Keys, NEW t \in Threads
  PROVE  Header(k, t) \in Seq({PutHeader(r) : r \in {h \in HeaderRows : h.key = k}})
<1>1. HeaderRow(k, t) \in HeaderRows /\ HeaderRow(k, t).key = k
  BY DEF HeaderRow, HeaderRows, Threads
<1> DEFINE S == {PutHeader(r) : r \in {h \in HeaderRows : h.key = k}}
<1>2. PutHeader(HeaderRow(k, t)) \in S
  BY <1>1
<1> HIDE DEF S
<1>3. Header(k, t) \in Seq(S)
  BY <1>2 DEF Header
<1> QED
  BY <1>3 DEF S

LEMMA MintedIs ==
  ASSUME Typed, MintedKey \in Keys
  PROVE  MintedKey \notin Open(threads)
<1> DEFINE S == {k \in counter + 1..MaxKeys + 1 : k \notin Open(threads)}
<1>1. counter \in 0..MaxKeys /\ MaxKeys \in Nat
  BY ForumAssumption DEF Typed
<1>2. MaxKeys + 1 \in S
  BY <1>1 DEF Open, Keys
<1>3. S \in SUBSET Nat
  BY <1>1
<1> HIDE DEF S
<1>4. Min(S) \in S
  BY <1>2, <1>3, MinIs
<1> QED
  BY <1>4 DEF S, MintedKey

\* A thread answered for is on disk, and so is its key.
LEMMA SaidKey ==
  ASSUME Good, NEW p \in said, p.key \in Spared
  PROVE  p.key \in RowKeys(store.disk)
<1>1. p \in PostRows
  BY DEF Good, Typed
<1>2. PICK r \in store.disk.post : r = p \/ r = Removal(p)
  BY DEF Good, SaidInv
<1>3. Removal(p).key = p.key
  BY <1>1 DEF Removal, PostRows
<1> QED
  BY <1>2, <1>3 DEF RowKeys

LEMMA NewStep ==
  ASSUME Good, NEW who \in Tokens, NEW title \in Titles, New(who, title)
  PROVE  Good'
<1> PICK k \in Keys : k = MintedKey
  BY DEF New
<1> DEFINE t == [NewThread EXCEPT !.title = title]
<1>i. /\ up = "serving" /\ todo = <<>> /\ answer = NoAnswer /\ ~Writing
      /\ ~store.open /\ store.disk = store.seen /\ RowKeys(store.disk) \subseteq Open(threads)
  BY IdleFacts DEF New, Request
<1>n. /\ k \in Keys /\ Cardinality(Open(threads)) < MaxThreads /\ counter' = k
      /\ threads' = [threads EXCEPT ![k] = t]
      /\ todo' = (IF title = "-" THEN <<>> ELSE Header(k, t)) \o Header(k, t)
      /\ answer' = [what |-> "new", key |-> k] /\ wiped' = wiped
      /\ UNCHANGED <<up, store, sent, said, removed, hurt>>
  BY DEF New, Request
<1>1. k \notin Open(threads)
  BY <1>n, MintedIs DEF Good
<1>2. t \in Threads /\ t.there /\ t.posts = <<>>
  BY FreshThread DEF Threads
<1> HIDE DEF t
<1>3. /\ threads \in [Keys -> Threads] /\ threads' \in [Keys -> Threads] /\ threads'[k] = t
      /\ \A j \in Keys \ {k} : threads'[j] = threads[j]
  BY <1>n, <1>2 DEF Good, Typed
<1>a. answer'.what = "new" /\ answer'.key = k /\ (answer' # NoAnswer)
  BY <1>n DEF NoAnswer
<1>w. Writing' = FALSE
  BY <1>a DEF Writing
<1>4. Open(threads') = Open(threads) \cup {k}
  BY <1>n, <1>2, <1>3 DEF Open
<1>5. Typed'
  <2>1. counter' \in 0..MaxKeys
    BY <1>n, ForumAssumption DEF Keys
  <2>2. AnswerOk'
    BY <1>a, <1>n DEF AnswerOk
  <2> QED
    BY <1>i, <1>n, <1>3, <2>1, <2>2 DEF Good, Typed, Loading
<1>6. TodoInv'
  <2> DEFINE S == {PutHeader(r) : r \in {h \in HeaderRows : h.key = k}}
  <2>1. Header(k, t) \in Seq(S) /\ <<>> \in Seq(S)
    BY <1>n, <1>2, HeaderType
  <2> HIDE DEF S
  <2>2. todo' \in Seq(S)
    BY <1>n, <2>1
  <2> QED
    BY <1>w, <1>a, <2>2 DEF TodoInv, S
<1>7. KeyInv'
  <2>1. Cardinality(Open(threads) \cup {k}) = Cardinality(Open(threads)) + 1
    <3>1. Open(threads) \in SUBSET Keys
      BY DEF Open
    <3> QED
      BY <1>1, <3>1, KeysFinite, FS_AddElement
  <2>2. Cardinality(Open(threads)) \in Nat
    BY KeysFinite DEF Open
  <2>3. Cardinality(Open(threads')) <= MaxThreads
    <3>1. MaxThreads \in Nat
      BY ForumAssumption
    <3>2. Cardinality(Open(threads')) = Cardinality(Open(threads)) + 1
      BY <1>4, <2>1
    <3> HIDE DEF t
    <3> QED
      BY <1>n, <2>2, <3>1, <3>2
  <2> QED
    BY <1>i, <1>n, <1>a, <1>2, <1>3, <1>4, <2>3 DEF Good, KeyInv, Loading, Posts
<1>8. NewIsEmpty'
  BY <1>a, <1>n, <1>i, <1>1, SaidKey DEF NewIsEmpty, Spared
<1>9. Of(store.disk.post, k) = {}
  BY <1>1, <1>i DEF Of, RowKeys
<1>10. MemoryInv(k)'
  <2>1. Target(k)' = store.disk.post
    BY <1>w, <1>n DEF Target
  <2>2. Posts(k)' = <<>>
    BY <1>2, <1>3 DEF Posts
  <2> QED
    BY <1>i, <1>n, <1>9, <2>1, <2>2, ListedNone DEF MemoryInv
<1>11. \A j \in Spared' : \/ Posts(j)' = Posts(j) /\ threads'[j].next = threads[j].next
                          \/ MemoryInv(j)'
  <2>1. \A j \in Spared' : j \in Keys
    BY DEF Spared
  <2> QED
    BY <1>3, <1>10, <2>1 DEF Posts
<1>12. Spared' \subseteq Spared
  BY <1>n DEF Spared
<1>13. StoreInv' /\ Progress' /\ SaidInv' /\ DiskInv' /\ MemInv'
  BY <1>i, <1>w, <1>n, <1>11, <1>12, Calm
<1> QED
  BY <1>5, <1>6, <1>7, <1>8, <1>13 DEF Good

LEMMA NewRefusedStep == ASSUME Good, NewRefused PROVE Good'
<1>i. /\ up = "serving" /\ todo = <<>> /\ answer = NoAnswer /\ ~Writing
      /\ ~store.open /\ store.disk = store.seen /\ RowKeys(store.disk) \subseteq Open(threads)
  BY IdleFacts DEF NewRefused, Request
<1>n. /\ MintedKey \in Keys /\ counter' = MintedKey
      /\ UNCHANGED <<threads, todo, answer, wiped, up, store, sent, said, removed, hurt>>
  BY DEF NewRefused, Request, work
<1>1. counter' \in 0..MaxKeys
  BY <1>n, ForumAssumption DEF Keys
<1>2. Typed'
  BY <1>n, <1>1 DEF Good, Typed, AnswerOk
<1>w. Writing' = FALSE
  BY <1>i, <1>n DEF Writing
<1>3. TodoInv'
  BY <1>n, <1>w, <1>i DEF Good, TodoInv
<1>4. KeyInv'
  BY <1>n DEF Good, KeyInv, Posts
<1>5. NewIsEmpty'
  BY <1>n DEF Good, NewIsEmpty, Spared
<1>6. \A j \in Spared' : Posts(j)' = Posts(j) /\ threads'[j].next = threads[j].next
  BY <1>n DEF Posts
<1>7. Spared' \subseteq Spared
  BY <1>n DEF Spared
<1>8. StoreInv' /\ Progress' /\ SaidInv' /\ DiskInv' /\ MemInv'
  BY <1>i, <1>w, <1>n, <1>6, <1>7, Calm
<1> QED
  BY <1>2, <1>3, <1>4, <1>5, <1>8 DEF Good

\* A header changes and is persisted; the posts stay.
LEMMA HeaderStep ==
  ASSUME Good, NEW k \in Keys, NEW t \in Threads, Request, threads[k].there, t.there,
         t.posts = threads[k].posts, t.next = threads[k].next,
         Changed(k, t, Header(k, t), [what |-> "header", key |-> k]), UNCHANGED wiped
  PROVE  Good'
<1>i. /\ up = "serving" /\ todo = <<>> /\ answer = NoAnswer /\ ~Writing
      /\ ~store.open /\ store.disk = store.seen /\ RowKeys(store.disk) \subseteq Open(threads)
  BY IdleFacts DEF Request
<1>n. /\ counter' = counter /\ threads' = [threads EXCEPT ![k] = t]
      /\ todo' = Header(k, t)
      /\ answer' = [what |-> "header", key |-> k]
      /\ UNCHANGED <<up, store, sent, said, removed, hurt, wiped>>
  BY DEF Request, Changed
<1>3. /\ threads \in [Keys -> Threads] /\ threads' \in [Keys -> Threads] /\ threads'[k] = t
      /\ \A j \in Keys \ {k} : threads'[j] = threads[j]
  BY <1>n DEF Good, Typed
<1>a. answer'.what = "header" /\ answer'.key = k /\ (answer' # NoAnswer)
  BY <1>n DEF NoAnswer
<1>w. Writing' = FALSE
  BY <1>a DEF Writing
<1>4. Open(threads') = Open(threads) /\ k \in Open(threads)
  BY <1>n, <1>3 DEF Open
<1>5. Typed'
  <2>2. AnswerOk'
    BY <1>a DEF AnswerOk
  <2> QED
    BY <1>i, <1>n, <1>3, <2>2 DEF Good, Typed, Loading
<1>6. TodoInv'
  <2>1. Header(k, t) \in Seq({PutHeader(r) : r \in {h \in HeaderRows : h.key = k}})
    BY HeaderType
  <2> QED
    BY <1>n, <1>w, <1>a, <2>1 DEF TodoInv
<1>7. KeyInv'
  BY <1>i, <1>n, <1>a, <1>3, <1>4 DEF Good, KeyInv, Loading, Posts
<1>8. NewIsEmpty'
  BY <1>a DEF NewIsEmpty
<1>11. \A j \in Spared' : Posts(j)' = Posts(j) /\ threads'[j].next = threads[j].next
  <2>1. \A j \in Spared' : j \in Keys
    BY DEF Spared
  <2> QED
    BY <1>3, <2>1 DEF Posts
<1>12. Spared' \subseteq Spared
  BY <1>n DEF Spared
<1>13. StoreInv' /\ Progress' /\ SaidInv' /\ DiskInv' /\ MemInv'
  BY <1>i, <1>w, <1>n, <1>11, <1>12, Calm
<1> QED
  BY <1>5, <1>6, <1>7, <1>8, <1>13 DEF Good

LEMMA TitleStep ==
  ASSUME Good, NEW who \in Tokens, NEW k \in Keys, NEW title \in Titles, Title(who, k, title)
  PROVE  Good'
<1> DEFINE t == [threads[k] EXCEPT !.title = title]
<1>1. threads[k] \in Threads
  BY DEF Good, Typed
<1>2. /\ t \in Threads /\ t.there = threads[k].there /\ t.posts = threads[k].posts
      /\ t.next = threads[k].next
  BY <1>1 DEF Threads
<1>3. /\ Request /\ threads[k].there
      /\ Changed(k, t, Header(k, t), [what |-> "header", key |-> k]) /\ UNCHANGED wiped
  <2>1. t.there
    BY DEF Title
  <2> QED
    BY <1>2, <2>1 DEF Title
<1>4. PICK x : x = t
  OBVIOUS
<1> HIDE DEF t
<1> QED
  BY <1>2, <1>3, <1>4, HeaderStep

LEMMA LockStep ==
  ASSUME Good, NEW who \in Tokens, NEW k \in Keys, Lock(who, k)
  PROVE  Good'
<1> DEFINE t == [threads[k] EXCEPT !.locked = ~@]
<1>1. threads[k] \in Threads
  BY DEF Good, Typed
<1>2. /\ t \in Threads /\ t.there = threads[k].there /\ t.posts = threads[k].posts
      /\ t.next = threads[k].next
  BY <1>1 DEF Threads
<1>3. /\ Request /\ threads[k].there
      /\ Changed(k, t, Header(k, t), [what |-> "header", key |-> k]) /\ UNCHANGED wiped
  <2>1. t.there
    BY DEF Lock
  <2> QED
    BY <1>2, <2>1 DEF Lock
<1>4. PICK x : x = t
  OBVIOUS
<1> HIDE DEF t
<1> QED
  BY <1>2, <1>3, <1>4, HeaderStep

LEMMA ResetStep == ASSUME Good, NEW k \in Keys, Reset(k) PROVE Good'
<1> DEFINE t == [NewThread EXCEPT !.title = threads[k].title]
<1>i. /\ up = "serving" /\ todo = <<>> /\ answer = NoAnswer /\ ~Writing
      /\ ~store.open /\ store.disk = store.seen /\ RowKeys(store.disk) \subseteq Open(threads)
  BY IdleFacts DEF Reset, Request
<1>n. /\ threads[k].there /\ counter' = counter /\ threads' = [threads EXCEPT ![k] = t]
      /\ todo' = <<>> /\ answer' = NoAnswer /\ wiped' = wiped \cup {k}
      /\ UNCHANGED <<up, store, sent, said, removed, hurt>>
  BY DEF Reset, Request, Changed
<1>2. t \in Threads /\ t.there
  <2>2. threads[k].title \in Titles
    BY DEF Good, Typed, Threads
  <2> QED
    BY <2>2, FreshThread DEF Threads
<1> HIDE DEF t
<1>3. /\ threads \in [Keys -> Threads] /\ threads' \in [Keys -> Threads] /\ threads'[k] = t
      /\ \A j \in Keys \ {k} : threads'[j] = threads[j]
  BY <1>n, <1>2 DEF Good, Typed
<1>w. Writing' = FALSE
  BY <1>n DEF Writing, NoAnswer
<1>4. Open(threads') = Open(threads)
  BY <1>n, <1>2, <1>3 DEF Open
<1>5. Typed'
  <2>2. AnswerOk'
    BY <1>n DEF AnswerOk
  <2> QED
    BY <1>i, <1>n, <1>3, <2>2 DEF Good, Typed, Loading
<1>6. TodoInv'
  BY <1>n, <1>w DEF TodoInv
<1>7. KeyInv'
  BY <1>i, <1>n, <1>2, <1>3, <1>4 DEF Good, KeyInv, Loading, Posts
<1>8. NewIsEmpty'
  BY <1>n DEF NewIsEmpty, NoAnswer
<1>12. Spared' \subseteq Spared \ {k}
  BY <1>n DEF Spared
<1>11. \A j \in Spared' : Posts(j)' = Posts(j) /\ threads'[j].next = threads[j].next
  <2>1. \A j \in Spared' : j \in Keys \ {k}
    BY <1>12 DEF Spared
  <2> QED
    BY <1>3, <2>1 DEF Posts
<1>13. StoreInv' /\ Progress' /\ SaidInv' /\ DiskInv' /\ MemInv'
  <2>1. Spared' \subseteq Spared
    BY <1>12
  <2> QED
    BY <1>i, <1>w, <1>n, <1>11, <2>1, Calm
<1> QED
  BY <1>5, <1>6, <1>7, <1>8, <1>13 DEF Good

\* Beginning to write a post: its statements are to be executed, and memory
\* stands for the rows there will be.
LEMMA WriteStep ==
  ASSUME Good, NEW k \in Keys, Request, UNCHANGED wiped,
         NEW p \in Entered, NEW r, r = PostRow(k, p), NEW t \in Threads, threads[k].there, t.there,
         NEW w \in {"post", "tomb"}, w = "tomb" <=> p.tomb,
         Changed(k, t, PostStatements(k, p), [what |-> w, key |-> k, post |-> r]),
         k \in Spared => /\ Listed(t.posts, t.next, k, Put(store.disk.post, r))
                         /\ Chains(t.posts) /\ Texted(t.posts),
         k \in Spared => /\ p.tomb => \E x \in store.disk.post : ~x.tomb /\ r = Removal(x)
                         /\ ~p.tomb => \A x \in store.disk.post : ~SamePost(x, r)
  PROVE  Good'
<1>i. /\ up = "serving" /\ todo = <<>> /\ answer = NoAnswer /\ ~Writing
      /\ ~store.open /\ store.disk = store.seen /\ RowKeys(store.disk) \subseteq Open(threads)
  BY IdleFacts DEF Request
<1>n. /\ counter' = counter /\ threads' = [threads EXCEPT ![k] = t]
      /\ todo' = PostStatements(k, p)
      /\ answer' = [what |-> w, key |-> k, post |-> r]
      /\ UNCHANGED <<up, store, sent, said, removed, hurt, wiped>>
  BY DEF Request, Changed
<1>r. r \in PostRows /\ r.key = k /\ r.tomb = p.tomb
  BY RowFields
<1>a. answer'.what = w /\ answer'.key = k /\ answer'.post = r
  BY <1>n
<1>b. answer' # NoAnswer
  BY <1>a DEF NoAnswer
<1>w. Writing' = TRUE
  BY <1>a DEF Writing
<1>3. /\ threads \in [Keys -> Threads] /\ threads' \in [Keys -> Threads] /\ threads'[k] = t
      /\ \A j \in Keys \ {k} : threads'[j] = threads[j]
  BY <1>n DEF Good, Typed
<1>4. Open(threads') = Open(threads) /\ k \in Open(threads)
  BY <1>n, <1>3 DEF Open
<1>s. /\ todo' \in Seq({Statement(r, j) : j \in Nat}) /\ Len(todo') = LastOf(r)
      /\ \A j \in 1..LastOf(r) : todo'[j] = Statement(r, j)
  BY <1>n, <1>r, StatementsOf
<1>l. LastOf(r) \in Nat /\ LastOf(r) >= 4
  <2>1. r.tomb \in BOOLEAN /\ r.chash \in Texts
    BY <1>r DEF PostRows
  <2>2. Chunks[r.chash] \in Nat
    BY <2>1, ForumAssumption
  <2> QED
    BY <2>1, <2>2 DEF LastOf
<1>d. Done' = 0
  BY <1>a, <1>s, <1>l DEF Done
<1>5. Typed'
  <2>1. w = "tomb" <=> r.tomb
    BY <1>r
  <2>2. AnswerOk'
    BY <1>a, <1>r, <2>1 DEF AnswerOk
  <2> QED
    BY <1>i, <1>n, <1>3, <2>2 DEF Good, Typed, Loading
<1>6. TodoInv'
  <2>1. /\ todo' \in Seq({Statement(answer'.post, j) : j \in Nat})
        /\ Len(todo') <= LastOf(answer'.post)
    BY <1>a, <1>s, <1>l
  <2>2. ASSUME NEW i \in 1..Len(todo') PROVE todo'[i] = Statement(answer'.post, Done' + i)
    <3>1. Done' + i = i /\ i \in 1..LastOf(r)
      BY <1>d, <1>s
    <3> QED
      BY <3>1, <1>a, <1>s
  <2> QED
    BY <1>w, <2>1, <2>2 DEF TodoInv
<1>7. StoreInv'
  BY <1>i, <1>n, <1>w DEF StoreInv
<1>8. KeyInv'
  BY <1>i, <1>n, <1>a, <1>3, <1>4 DEF Good, KeyInv, Loading, Posts
<1>9. NewIsEmpty'
  BY <1>a DEF NewIsEmpty
<1>10. Progress'
  <2>1. SUFFICES ASSUME k \in Spared PROVE Progress'
    BY <1>a, <1>n DEF Progress, Spared
  <2>2. todo' # <<>>
    BY <1>s, <1>l
  <2> QED
    BY <1>a, <1>d, <1>i, <1>n, <1>r, <2>1, <2>2 DEF Progress
<1>11. SaidInv'
  BY <1>n DEF Good, SaidInv, Spared
<1>12. DiskInv'
  BY <1>n DEF Good, DiskInv, Spared
<1>13. MemInv'
  <2> SUFFICES ASSUME NEW j \in Keys, j \in Spared PROVE MemoryInv(j)'
    BY <1>n DEF MemInv, Spared
  <2>1. CASE j = k
    <3>1. Target(j)' = Put(store.disk.post, r)
      BY <1>w, <1>a, <1>n, <2>1 DEF Target
    <3>2. Posts(j)' = t.posts /\ threads'[j] = t
      BY <1>3, <2>1 DEF Posts
    <3> QED
      BY <1>i, <1>n, <2>1, <3>1, <3>2 DEF MemoryInv
  <2>2. CASE j # k
    <3>1. Target(j)' = store.disk.post /\ Target(j) = store.disk.post
      BY <1>i, <1>a, <1>n, <2>2 DEF Target
    <3>2. Posts(j)' = Posts(j) /\ threads'[j] = threads[j]
      BY <1>3, <2>2 DEF Posts
    <3>3. MemoryInv(j)
      BY DEF Good, MemInv
    <3> QED
      BY <1>i, <1>n, <3>1, <3>2, <3>3 DEF MemoryInv
  <2> QED
    BY <2>1, <2>2
<1> QED
  BY <1>5, <1>6, <1>7, <1>8, <1>9, <1>10, <1>11, <1>12, <1>13 DEF Good

LEMMA PutFacts ==
  ASSUME NEW R \in SUBSET PostRows, NEW r \in PostRows
  PROVE  /\ Put(R, r) \in SUBSET PostRows /\ r \in Put(R, r)
         /\ \A x \in R : ~SamePost(x, r) => x \in Put(R, r)
         /\ \A x \in Put(R, r) : x = r \/ (x \in R /\ ~SamePost(x, r))
BY DEF Put

LEMMA DiskTyped ==
  ASSUME Typed
  PROVE  /\ store.disk.post \in SUBSET PostRows /\ store.seen.post \in SUBSET PostRows
         /\ store.disk.body \in SUBSET BodyRows /\ store.seen.body \in SUBSET BodyRows
         /\ store.disk.header \in SUBSET HeaderRows /\ store.seen.header \in SUBSET HeaderRows
BY DEF Typed, Tables

\* A post goes after the others, with a number above theirs.
LEMMA Appended ==
  ASSUME NEW q \in Seq(Entered), NEW n \in Nat, NEW k \in Keys, NEW R \in SUBSET PostRows,
         Listed(q, n, k, R), NEW p \in Entered, p.seq = n
  PROVE  /\ Listed(Append(q, p), n + 1, k, Put(R, PostRow(k, p)))
         /\ \A x \in R : ~SamePost(x, PostRow(k, p))
<1> DEFINE r == PostRow(k, p)
           u == Append(q, p)
<1>0. Len(q) \in Nat
  OBVIOUS
<1>1. r \in PostRows /\ r.key = k /\ r.seq = n
  BY RowFields
<1>2. \A i \in 1..Len(q) : /\ q[i] \in Entered /\ q[i].seq \in Nat /\ q[i].seq < n /\ PostRow(k, q[i]) \in R
                           /\ PostRow(k, q[i]).seq = q[i].seq
  BY ElementIs, RowFields DEF Listed
<1>3. \A x \in Of(R, k) : \E i \in 1..Len(q) : x = PostRow(k, q[i])
  BY DEF Listed
<1>4. \A x \in R : ~SamePost(x, r)
  <2> SUFFICES ASSUME NEW x \in R, SamePost(x, r) PROVE FALSE
    OBVIOUS
  <2>1. x \in Of(R, k) /\ x.seq = n
    BY <1>1 DEF SamePost, Of
  <2>2. PICK i \in 1..Len(q) : x = PostRow(k, q[i])
    BY <1>3, <2>1
  <2> QED
    BY <2>1, <2>2, <1>2
<1>5. /\ Len(u) = Len(q) + 1 /\ u[Len(q) + 1] = p /\ \A i \in 1..Len(q) : u[i] = q[i]
  OBVIOUS
<1> HIDE DEF u, r
<1>6. Sorted(u)
  <2> SUFFICES ASSUME NEW i \in 1..Len(q) + 1, NEW j \in 1..Len(q) + 1, i < j PROVE u[i].seq < u[j].seq
    BY <1>5 DEF Sorted
  <2>1. i \in 1..Len(q) /\ u[i] = q[i]
    BY <1>0, <1>5
  <2>2. CASE j = Len(q) + 1
    BY <1>2, <1>5, <2>1, <2>2
  <2>3. CASE j \in 1..Len(q)
    BY <1>5, <2>1, <2>3 DEF Listed, Sorted
  <2> QED
    BY <1>0, <2>2, <2>3
<1>7. \A i \in 1..Len(u) : u[i].seq < n + 1 /\ PostRow(k, u[i]) \in Put(R, r)
  <2> TAKE i \in 1..Len(u)
  <2>1. CASE i \in 1..Len(q)
    <3>1. u[i] = q[i] /\ q[i].seq \in Nat /\ q[i].seq < n /\ PostRow(k, q[i]) \in R
      BY <1>2, <1>5, <2>1
    <3>2. PostRow(k, q[i]) \in Put(R, r)
      BY <3>1, <1>1, <1>4, PutFacts
    <3> QED
      BY <3>1, <3>2
  <2>2. CASE i = Len(q) + 1
    <3>1. u[i] = p /\ PostRow(k, p) \in Put(R, r)
      BY <1>1, <1>5, <2>2, PutFacts DEF r
    <3> QED
      BY <3>1
  <2> QED
    BY <1>0, <1>5, <2>1, <2>2
<1>8. \A x \in Of(Put(R, r), k) : \E i \in 1..Len(u) : x = PostRow(k, u[i])
  <2> TAKE x \in Of(Put(R, r), k)
  <2>1. CASE x = r
    <3>1. Len(q) + 1 \in 1..Len(u) /\ x = PostRow(k, u[Len(q) + 1])
      BY <1>0, <1>5, <2>1 DEF r
    <3> QED
      BY <3>1
  <2>2. CASE x \in R
    <3>1. PICK i \in 1..Len(q) : x = PostRow(k, q[i])
      BY <1>3, <2>2 DEF Of
    <3>2. i \in 1..Len(u) /\ u[i] = q[i]
      BY <1>0, <1>5
    <3> QED
      BY <3>1, <3>2
  <2> QED
    BY <1>1, <2>1, <2>2, PutFacts DEF Of
<1> QED
  BY <1>4, <1>6, <1>7, <1>8 DEF Listed, r, u

LEMMA PostStep ==
  ASSUME Good, NEW who \in Tokens, NEW k \in Keys, NEW text \in Texts, Post(who, k, text)
  PROVE  Good'
<1> DEFINE q == threads[k].posts
           n == threads[k].next
           e == [seq |-> n, author |-> who, tomb |-> FALSE, body |-> Whole(text), chash |-> text,
                 ihash |-> Append(Head16(q), <<n, who, text>>)]
           s == [threads[k] EXCEPT !.next = @ + 1, !.posts = Append(@, e),
                                   !.op = IF @ = Nobody THEN who ELSE @]
<1>1. threads[k] \in Threads /\ n \in Nat /\ q \in Seq(Entered)
  BY DEF Good, Typed, Threads
<1>2. Head16(q) = IF q = <<>> THEN <<>> ELSE q[Len(q)].ihash
  BY <1>1 DEF Head16, Last
<1>3. Head16(q) \in Seq(Entries)
  <2>1. CASE q = <<>>
    BY <1>2, <2>1
  <2>2. CASE q # <<>>
    <3>1. q[Len(q)] \in Entered
      BY <1>1, <2>2
    <3> QED
      BY <1>2, <2>2, <3>1 DEF Entered
  <2> QED
    BY <2>1, <2>2
<1>4. Whole(text) \in SUBSET Pieces
  <2>1. Chunks[text] \in Nat
    BY ForumAssumption
  <2> QED
    BY <2>1 DEF Whole, Pieces
<1>5. e \in Entered
  <2>1. <<n, who, text>> \in Entries
    BY <1>1 DEF Entries
  <2>2. Append(Head16(q), <<n, who, text>>) \in Seq(Entries)
    BY <1>3, <2>1
  <2> HIDE DEF n, q
  <2> QED
    BY <1>1, <1>4, <2>2 DEF Entered
<1>6. s \in Threads /\ s.there = threads[k].there /\ s.posts = Append(q, e) /\ s.next = n + 1
  <2> DEFINE a == threads[k]
             o == IF a.op = Nobody THEN who ELSE a.op
             m == n + 1
             u == Append(q, e)
  <2>1. s = [[[a EXCEPT !.next = m] EXCEPT !.posts = u] EXCEPT !.op = o]
    BY <1>1 DEF Threads
  <2>2. a \in Threads /\ o \in Tokens \cup {Nobody} /\ m \in Nat /\ u \in Seq(Entered)
    BY <1>1, <1>5 DEF Threads
  <2> HIDE DEF s, e, q, n, a, o, m, u
  <2>3. s \in Threads /\ s.there = a.there /\ s.posts = u /\ s.next = m
    BY <2>1, <2>2 DEF Threads
  <2> QED
    BY <2>3 DEF a, m, u
<1>7. /\ Request /\ threads[k].there
      /\ Changed(k, s, PostStatements(k, e), [what |-> "post", key |-> k, post |-> PostRow(k, e)])
      /\ UNCHANGED wiped
  BY DEF Post
<1>e. e.seq = n /\ e.tomb = FALSE /\ e.body = Whole(text) /\ e.chash = text /\ e.author = who
      /\ e.ihash = Append(Head16(q), <<n, who, text>>)
  OBVIOUS
<1>8. PICK p \in Entered : p = e
  BY <1>5
<1>9. PICK t \in Threads : t = s
  BY <1>6
<1>10. PICK r : r = PostRow(k, p)
  OBVIOUS
<1>i. up = "serving" /\ ~Writing
  BY <1>7, IdleFacts DEF Request
<1> HIDE DEF e, s, q, n
<1>11. k \in Spared => /\ Listed(t.posts, t.next, k, Put(store.disk.post, r))
                       /\ Chains(t.posts) /\ Texted(t.posts)
                       /\ \A x \in store.disk.post : ~SamePost(x, r)
  <2> SUFFICES ASSUME k \in Spared
               PROVE  /\ Listed(t.posts, t.next, k, Put(store.disk.post, r))
                      /\ Chains(t.posts) /\ Texted(t.posts)
                      /\ \A x \in store.disk.post : ~SamePost(x, r)
    OBVIOUS
  <2>1. Listed(q, n, k, store.disk.post) /\ Chains(q) /\ Texted(q)
    <3>1. MemoryInv(k)
      BY DEF Good, MemInv
    <3> QED
      BY <1>i, <3>1 DEF MemoryInv, Target, Posts, q, n
  <2>2. store.disk.post \in SUBSET PostRows
    BY DiskTyped DEF Good
  <2>3. /\ Listed(Append(q, p), n + 1, k, Put(store.disk.post, PostRow(k, p)))
        /\ \A x \in store.disk.post : ~SamePost(x, PostRow(k, p))
    BY <1>1, <1>8, <1>e, <2>1, <2>2, Appended
  <2> DEFINE u == Append(q, p)
  <2>4. Len(q) \in Nat /\ Len(u) = Len(q) + 1 /\ u[Len(q) + 1] = p /\ \A i \in 1..Len(q) : u[i] = q[i]
    BY <1>1
  <2> HIDE DEF u
  <2>5. Chains(u)
    <3> SUFFICES ASSUME NEW i \in 1..Len(u)
                 PROVE  u[i].ihash = Append(IF i = 1 THEN <<>> ELSE u[i - 1].ihash, Entry(u[i]))
      BY DEF Chains
    <3>1. CASE i \in 1..Len(q)
      <4>1. u[i] = q[i] /\ (i # 1 => u[i - 1] = q[i - 1])
        BY <2>4, <3>1
      <4> QED
        BY <2>1, <3>1, <4>1 DEF Chains
    <3>2. CASE i = Len(q) + 1
      <4>1. Entry(p) = <<n, who, text>>
        BY <1>8, <1>e DEF Entry
      <4>2. u[i] = p /\ p.ihash = Append(Head16(q), Entry(p))
        BY <1>8, <1>e, <2>4, <3>2, <4>1
      <4>3. CASE q = <<>>
        <5>1. i = 1 /\ Head16(q) = <<>>
          BY <3>2, <4>3, <1>2
        <5> QED
          BY <4>2, <5>1
      <4>4. CASE q # <<>>
        <5>1. Len(q) # 0
          BY <1>1, <4>4
        <5>2. i # 1 /\ i - 1 = Len(q) /\ u[i - 1] = q[Len(q)] /\ Head16(q) = q[Len(q)].ihash
          BY <3>2, <4>4, <5>1, <2>4, <1>2
        <5> QED
          BY <4>2, <5>2
      <4> QED
        BY <4>3, <4>4
    <3> QED
      BY <2>4, <3>1, <3>2
  <2>6. Texted(u)
    <3> SUFFICES ASSUME NEW i \in 1..Len(u)
                 PROVE  u[i].body = IF u[i].tomb THEN {} ELSE Whole(u[i].chash)
      BY DEF Texted
    <3>1. CASE i \in 1..Len(q)
      BY <2>1, <2>4, <3>1 DEF Texted
    <3>2. CASE i = Len(q) + 1
      BY <1>8, <1>e, <2>4, <3>2
    <3> QED
      BY <2>4, <3>1, <3>2
  <2>7. t.posts = u /\ t.next = n + 1
    BY <1>6, <1>8, <1>9 DEF u
  <2> QED
    BY <1>10, <2>3, <2>5, <2>6, <2>7 DEF u
<1>12. /\ p.tomb = FALSE /\ t.there
       /\ Changed(k, t, PostStatements(k, p), [what |-> "post", key |-> k, post |-> r])
  BY <1>6, <1>7, <1>8, <1>9, <1>10, <1>e
<1> QED
  BY <1>7, <1>10, <1>11, <1>12, WriteStep

LEMMA TombStep ==
  ASSUME Good, NEW who \in Tokens, NEW k \in Keys, NEW i \in DOMAIN Posts(k), Tomb(who, k, i)
  PROVE  Good'
<1> DEFINE q == threads[k].posts
           n == threads[k].next
           e == [q[i] EXCEPT !.tomb = TRUE, !.body = {}]
           u == [q EXCEPT ![i] = e]
           s == [threads[k] EXCEPT !.posts[i] = e]
<1>1. threads[k] \in Threads /\ n \in Nat /\ q \in Seq(Entered)
  BY DEF Good, Typed, Threads
<1>2. Len(q) \in Nat /\ i \in 1..Len(q) /\ q[i] \in Entered
  <2>1. i \in DOMAIN q
    BY DEF Posts
  <2> QED
    BY <2>1, <1>1
<1>3. /\ e \in Entered /\ e.tomb = TRUE /\ e.body = {} /\ e.seq = q[i].seq /\ e.author = q[i].author
      /\ e.chash = q[i].chash /\ e.ihash = q[i].ihash
  <2> HIDE DEF q
  <2> QED
    BY <1>2 DEF Entered
<1>4. /\ u \in Seq(Entered) /\ Len(u) = Len(q) /\ u[i] = e
      /\ \A j \in 1..Len(q) : j # i => u[j] = q[j]
  <2> HIDE DEF e, q
  <2> QED
    BY <1>1, <1>2, <1>3
<1>5. s \in Threads /\ s.there = threads[k].there /\ s.posts = u /\ s.next = n
  <2>1. s = [threads[k] EXCEPT !.posts = u]
    OBVIOUS
  <2> HIDE DEF s, u
  <2> QED
    BY <1>1, <1>4, <2>1 DEF Threads
<1>6. /\ Request /\ ~q[i].tomb
      /\ Changed(k, s, PostStatements(k, e), [what |-> "tomb", key |-> k, post |-> PostRow(k, e)])
      /\ UNCHANGED wiped
  BY DEF Tomb
<1>i. up = "serving" /\ ~Writing
  BY <1>6, IdleFacts DEF Request
<1>9. PICK p \in Entered, t \in Threads : p = e /\ t = s
  BY <1>3, <1>5
<1>10. PICK r : p = e /\ t = s /\ r = PostRow(k, p)
  BY <1>9
<1> HIDE DEF e, u, s, q, n
<1>r. r \in PostRows /\ r.key = k /\ r.seq = q[i].seq
  BY <1>3, <1>10, RowFields
<1>11. k \in Spared => /\ Listed(q, n, k, store.disk.post) /\ Chains(q) /\ Texted(q)
  <2> SUFFICES ASSUME k \in Spared PROVE Listed(q, n, k, store.disk.post) /\ Chains(q) /\ Texted(q)
    OBVIOUS
  <2>1. MemoryInv(k)
    BY DEF Good, MemInv
  <2> QED
    BY <1>i, <2>1 DEF MemoryInv, Target, Posts, q, n
<1>d. store.disk.post \in SUBSET PostRows
  BY DiskTyped DEF Good
<1>12. ASSUME k \in Spared
       PROVE  Listed(u, n, k, Put(store.disk.post, r)) /\ Chains(u) /\ Texted(u)
  <2>0. Listed(q, n, k, store.disk.post) /\ Chains(q) /\ Texted(q)
    BY <1>11, <1>12
  <2>1. \A j \in 1..Len(q) : /\ u[j].seq = q[j].seq /\ u[j].ihash = q[j].ihash /\ Entry(u[j]) = Entry(q[j])
                             /\ q[j].seq \in Nat
    <3> TAKE j \in 1..Len(q)
    <3>1. q[j] \in Entered
      BY <1>1
    <3>2. q[j].seq \in Nat
      BY <3>1 DEF Entered
    <3> QED
      BY <3>2, <1>3, <1>4 DEF Entry
  <2>2. Sorted(u)
    BY <2>0, <2>1, <1>4 DEF Listed, Sorted
  <2>3. \A j \in 1..Len(q) : j # i => q[j].seq # q[i].seq
    <3> SUFFICES ASSUME NEW j \in 1..Len(q), j # i PROVE q[j].seq # q[i].seq
      OBVIOUS
    <3>1. j < i \/ i < j
      BY <1>2
    <3> QED
      BY <3>1, <2>0, <2>1, <1>2 DEF Listed, Sorted
  <2>4. \A j \in 1..Len(q) : PostRow(k, q[j]) \in PostRows /\ PostRow(k, q[j]).seq = q[j].seq
    BY <1>1, ElementIs, RowFields
  <2>5. \A j \in 1..Len(u) : u[j].seq < n /\ PostRow(k, u[j]) \in Put(store.disk.post, r)
    <3> SUFFICES ASSUME NEW j \in 1..Len(q)
                 PROVE  u[j].seq < n /\ PostRow(k, u[j]) \in Put(store.disk.post, r)
      BY <1>4
    <3>1. u[j].seq < n
      BY <2>0, <2>1 DEF Listed
    <3>2. CASE j = i
      BY <1>4, <1>10, <1>d, <1>r, <3>1, <3>2, PutFacts
    <3>3. CASE j # i
      <4>1. u[j] = q[j] /\ PostRow(k, q[j]) \in store.disk.post
        BY <1>4, <2>0, <3>3 DEF Listed
      <4>2. ~SamePost(PostRow(k, q[j]), r)
        BY <1>r, <2>3, <2>4, <3>3 DEF SamePost
      <4> QED
        BY <3>1, <4>1, <4>2, <1>d, <1>r, PutFacts
    <3> QED
      BY <3>2, <3>3
  <2>6. \A x \in Of(Put(store.disk.post, r), k) : \E j \in 1..Len(u) : x = PostRow(k, u[j])
    <3> TAKE x \in Of(Put(store.disk.post, r), k)
    <3>1. x.key = k /\ (x = r \/ (x \in store.disk.post /\ ~SamePost(x, r)))
      BY <1>d, <1>r, PutFacts DEF Of
    <3>2. CASE x = r
      BY <3>2, <1>2, <1>4, <1>10
    <3>3. CASE x \in store.disk.post /\ ~SamePost(x, r)
      <4>1. PICK j \in 1..Len(q) : x = PostRow(k, q[j])
        BY <3>1, <3>3, <2>0 DEF Listed, Of
      <4>2. j # i
        BY <3>1, <3>3, <4>1, <2>4, <1>r DEF SamePost
      <4> QED
        BY <4>1, <4>2, <1>4
    <3> QED
      BY <3>1, <3>2, <3>3
  <2>7. Chains(u)
    <3> SUFFICES ASSUME NEW j \in 1..Len(q)
                 PROVE  u[j].ihash = Append(IF j = 1 THEN <<>> ELSE u[j - 1].ihash, Entry(u[j]))
      BY <1>4 DEF Chains
    <3>1. j # 1 => u[j - 1].ihash = q[j - 1].ihash
      BY <2>1, <1>2
    <3>2. q[j].ihash = Append(IF j = 1 THEN <<>> ELSE q[j - 1].ihash, Entry(q[j]))
      BY <2>0 DEF Chains
    <3>3. u[j].ihash = q[j].ihash /\ Entry(u[j]) = Entry(q[j])
      BY <2>1
    <3> QED
      BY <3>1, <3>2, <3>3
  <2>8. Texted(u)
    <3> SUFFICES ASSUME NEW j \in 1..Len(q)
                 PROVE  u[j].body = IF u[j].tomb THEN {} ELSE Whole(u[j].chash)
      BY <1>4 DEF Texted
    <3>1. CASE j = i
      BY <3>1, <1>3, <1>4
    <3>2. CASE j # i
      BY <3>2, <1>4, <2>0 DEF Texted
    <3> QED
      BY <3>1, <3>2
  <2> QED
    BY <2>2, <2>5, <2>6, <2>7, <2>8 DEF Listed
<1>13. ASSUME k \in Spared PROVE \E x \in store.disk.post : ~x.tomb /\ r = Removal(x)
  <2>1. PostRow(k, q[i]) \in store.disk.post /\ ~PostRow(k, q[i]).tomb
    BY <1>2, <1>6, <1>11, <1>13, RowFields DEF Listed
  <2>2. r = Removal(PostRow(k, q[i]))
    <3>1. Removal(PostRow(k, q[i])) = [key |-> k, seq |-> q[i].seq, author |-> q[i].author, tomb |-> TRUE,
                                       chash |-> q[i].chash, ihash |-> q[i].ihash]
      <4> DEFINE x == PostRow(k, q[i])
      <4>1. /\ x \in PostRows /\ x.key = k /\ x.seq = q[i].seq /\ x.author = q[i].author
            /\ x.chash = q[i].chash /\ x.ihash = q[i].ihash
        BY <1>2, RowFields
      <4> HIDE DEF x
      <4>2. Removal(x) = [key |-> x.key, seq |-> x.seq, author |-> x.author, tomb |-> TRUE,
                          chash |-> x.chash, ihash |-> x.ihash]
        BY <4>1, RemovalIs
      <4>3. Removal(x) = [key |-> k, seq |-> q[i].seq, author |-> q[i].author, tomb |-> TRUE,
                          chash |-> q[i].chash, ihash |-> q[i].ihash]
        BY <4>1, <4>2
      <4> QED
        BY <4>3 DEF x
    <3>2. r = [key |-> k, seq |-> p.seq, author |-> p.author, tomb |-> p.tomb,
               chash |-> p.chash, ihash |-> p.ihash]
      BY <1>10 DEF PostRow
    <3> QED
      BY <3>1, <3>2, <1>3, <1>10
  <2> QED
    BY <2>1, <2>2
<1>14. /\ p.tomb = TRUE /\ t.there /\ threads[k].there
       /\ Changed(k, t, PostStatements(k, p), [what |-> "tomb", key |-> k, post |-> r])
  <2>1. threads[k].there
    <3>1. Posts(k) # <<>>
      BY <1>2 DEF Posts, q
    <3> QED
      BY <3>1 DEF Good, KeyInv
  <2> QED
    BY <1>3, <1>5, <1>6, <1>10, <2>1
<1> QED
  BY <1>5, <1>6, <1>10, <1>12, <1>13, <1>14, WriteStep

-----------------------------------------------------------------------------
(* The statements                                                          *)

LEMMA TailIs ==
  ASSUME NEW S, NEW s \in Seq(S), s # <<>>
  PROVE  /\ Head(s) = s[1] /\ Head(s) \in S /\ Tail(s) \in Seq(S)
         /\ Len(s) \in Nat \ {0} /\ Len(Tail(s)) = Len(s) - 1
         /\ \A i \in 1..Len(Tail(s)) : Tail(s)[i] = s[i + 1]
OBVIOUS

LEMMA EmptyIs == ASSUME NEW S, NEW s \in Seq(S) PROVE s = <<>> <=> Len(s) = 0
OBVIOUS

LEMMA ExecutedIs ==
  ASSUME NEW d, NEW s
  PROVE  /\ s.do = "begin" => Executed(d, s) = [disk |-> d.disk, seen |-> d.seen, open |-> TRUE]
         /\ s.do = "commit" => Executed(d, s) = [disk |-> d.seen, seen |-> d.seen, open |-> FALSE]
         /\ s.do \notin {"begin", "commit"} =>
              Executed(d, s) = [disk |-> IF d.open THEN d.disk ELSE Written(d.seen, s),
                                seen |-> Written(d.seen, s), open |-> d.open]
BY Zenon DEF Executed

LEMMA LastIs ==
  ASSUME NEW p \in PostRows
  PROVE  /\ Chunks[p.chash] \in Nat \ {0} /\ LastOf(p) \in Nat /\ LastOf(p) >= 4
         /\ p.tomb => LastOf(p) = 4
         /\ ~p.tomb => LastOf(p) = 4 + Chunks[p.chash]
<1>1. p.tomb \in BOOLEAN /\ p.chash \in Texts
  BY DEF PostRows
<1>2. Chunks[p.chash] \in Nat \ {0}
  BY <1>1, ForumAssumption
<1> QED
  BY <1>1, <1>2 DEF LastOf

\* Where the statements of a post stand.
LEMMA WritingFacts ==
  ASSUME Typed, TodoInv, Writing, todo # <<>>
  PROVE  /\ up = "serving" /\ answer.key \in Keys
         /\ answer.post \in PostRows /\ answer.post.key = answer.key
         /\ Done \in Nat /\ Done < LastOf(answer.post)
         /\ Head(todo) = Statement(answer.post, Done + 1)
<1>1. answer.what \in {"post", "tomb"} /\ answer # NoAnswer
  BY NoWriting DEF Writing
<1>2. answer.key \in Keys /\ answer.post \in PostRows /\ answer.post.key = answer.key
  BY <1>1 DEF Typed, AnswerOk
<1>3. up = "serving"
  BY DEF Typed
<1> DEFINE S == {Statement(answer.post, j) : j \in Nat}
           L == LastOf(answer.post)
<1>4. /\ todo \in Seq(S) /\ Len(todo) <= L
      /\ \A i \in 1..Len(todo) : todo[i] = Statement(answer.post, Done + i)
  BY DEF TodoInv
<1>5. L \in Nat
  BY <1>2, LastIs
<1> HIDE DEF S, L
<1>6. Len(todo) \in Nat /\ Len(todo) >= 1 /\ Head(todo) = todo[1]
  BY <1>4, TailIs
<1>7. Done \in Nat /\ Done < L
  BY <1>4, <1>5, <1>6 DEF Done, L
<1>8. Head(todo) = Statement(answer.post, Done + 1)
  BY <1>4, <1>6
<1> QED
  BY <1>2, <1>3, <1>7, <1>8 DEF L

LEMMA Consumed ==
  ASSUME Typed, TodoInv, Writing, todo # <<>>, todo' = Tail(todo), answer' = answer
  PROVE  /\ Done' = Done + 1 /\ TodoInv' /\ Writing' = TRUE
         /\ todo' = <<>> <=> Done + 1 = LastOf(answer.post)
<1> DEFINE S == {Statement(answer.post, j) : j \in Nat}
           L == LastOf(answer.post)
<1>1. /\ todo \in Seq(S) /\ Len(todo) <= L
      /\ \A i \in 1..Len(todo) : todo[i] = Statement(answer.post, Done + i)
  BY DEF TodoInv
<1>2. answer.post \in PostRows
  BY WritingFacts
<1>3. L \in Nat
  BY <1>2, LastIs
<1>d. Done = L - Len(todo) /\ Done' = L - Len(todo')
  BY DEF Done
<1>w. Writing' = TRUE
  BY DEF Writing
<1> HIDE DEF S, L
<1>4. /\ todo' \in Seq(S) /\ Len(todo) \in Nat \ {0} /\ Len(todo') = Len(todo) - 1
      /\ \A i \in 1..Len(todo') : todo'[i] = todo[i + 1]
  BY <1>1, TailIs
<1>5. Done' = Done + 1 /\ Done \in Int
  BY <1>3, <1>4, <1>d
<1>6. ASSUME NEW i \in 1..Len(todo') PROVE todo'[i] = Statement(answer'.post, Done' + i)
  <2>1. i + 1 \in 1..Len(todo) /\ Done + (i + 1) = Done' + i
    BY <1>4, <1>5
  <2> QED
    BY <2>1, <1>1, <1>4
<1>7. TodoInv'
  BY <1>1, <1>3, <1>4, <1>6, <1>w DEF TodoInv, S, L
<1>8. todo' = <<>> <=> Done + 1 = L
  <2>1. todo' = <<>> <=> Len(todo') = 0
    BY <1>4, EmptyIs
  <2> QED
    BY <2>1, <1>3, <1>4, <1>5, <1>d
<1> QED
  BY <1>5, <1>7, <1>8, <1>w DEF L

\* A statement that writes touches its own thread's rows, and keeps the types.
LEMMA WrittenIs ==
  ASSUME NEW d \in Tables, NEW k \in Keys, NEW s,
         \/ \E r \in HeaderRows : r.key = k /\ s = PutHeader(r)
         \/ \E r \in PostRows : r.key = k /\ s = PutPost(r)
         \/ \E n \in Nat : s = DropBody(k, n)
         \/ \E r \in BodyRows : r.key = k /\ s = PutChunk(r)
  PROVE  /\ s.do \notin {"begin", "commit"} /\ Written(d, s) \in Tables
         /\ \A j \in Keys \ {k} : /\ Of(Written(d, s).post, j) = Of(d.post, j)
                                  /\ Of(Written(d, s).body, j) = Of(d.body, j)
         /\ RowKeys(Written(d, s)) \subseteq RowKeys(d) \cup {k}
<1>d. d.header \in SUBSET HeaderRows /\ d.post \in SUBSET PostRows /\ d.body \in SUBSET BodyRows
  BY DEF Tables
<1>1. ASSUME NEW r \in HeaderRows, r.key = k, s = PutHeader(r)
      PROVE  /\ s.do \notin {"begin", "commit"} /\ Written(d, s) \in Tables
             /\ \A j \in Keys \ {k} : /\ Of(Written(d, s).post, j) = Of(d.post, j)
                                      /\ Of(Written(d, s).body, j) = Of(d.body, j)
             /\ RowKeys(Written(d, s)) \subseteq RowKeys(d) \cup {k}
  <2>1. s.do = "header" /\ Written(d, s) = Headed(d, r)
    BY <1>1 DEF PutHeader, Written
  <2>2. /\ Headed(d, r).header = {x \in d.header : ~SameThread(x, r)} \cup {r}
        /\ Headed(d, r).post = d.post /\ Headed(d, r).body = d.body
    BY DEF Headed
  <2>3. Headed(d, r) \in Tables
    BY <1>d DEF Headed, Tables
  <2>4. RowKeys(Headed(d, r)) \subseteq RowKeys(d) \cup {k}
    BY <1>1, <2>2 DEF RowKeys
  <2> QED
    BY <2>1, <2>2, <2>3, <2>4
<1>2. ASSUME NEW r \in PostRows, r.key = k, s = PutPost(r)
      PROVE  /\ s.do \notin {"begin", "commit"} /\ Written(d, s) \in Tables
             /\ \A j \in Keys \ {k} : /\ Of(Written(d, s).post, j) = Of(d.post, j)
                                      /\ Of(Written(d, s).body, j) = Of(d.body, j)
             /\ RowKeys(Written(d, s)) \subseteq RowKeys(d) \cup {k}
  <2>1. s.do = "post" /\ Written(d, s) = Posted(d, r)
    BY <1>2 DEF PutPost, Written
  <2>2. /\ Posted(d, r).post = {x \in d.post : ~SamePost(x, r)} \cup {r}
        /\ Posted(d, r).header = d.header /\ Posted(d, r).body = d.body
    BY DEF Posted
  <2>3. Posted(d, r) \in Tables
    BY <1>d DEF Posted, Tables
  <2>4. RowKeys(Posted(d, r)) \subseteq RowKeys(d) \cup {k}
    BY <1>2, <2>2 DEF RowKeys
  <2>5. \A j \in Keys \ {k} : Of(Posted(d, r).post, j) = Of(d.post, j)
    BY <1>2, <2>2 DEF Of, SamePost
  <2> QED
    BY <2>1, <2>2, <2>3, <2>4, <2>5
<1>3. ASSUME NEW n \in Nat, s = DropBody(k, n)
      PROVE  /\ s.do \notin {"begin", "commit"} /\ Written(d, s) \in Tables
             /\ \A j \in Keys \ {k} : /\ Of(Written(d, s).post, j) = Of(d.post, j)
                                      /\ Of(Written(d, s).body, j) = Of(d.body, j)
             /\ RowKeys(Written(d, s)) \subseteq RowKeys(d) \cup {k}
  <2> DEFINE r == [key |-> k, seq |-> n]
  <2>1. s.do = "drop" /\ Written(d, s) = Dropped(d, r)
    BY <1>3 DEF DropBody, Written
  <2>0. r.key = k
    OBVIOUS
  <2> HIDE DEF r
  <2>2. /\ Dropped(d, r).body = {x \in d.body : ~SamePost(x, r)}
        /\ Dropped(d, r).header = d.header /\ Dropped(d, r).post = d.post
    BY DEF Dropped
  <2>3. Dropped(d, r) \in Tables
    BY <1>d DEF Dropped, Tables
  <2>4. RowKeys(Dropped(d, r)) \subseteq RowKeys(d) \cup {k}
    BY <2>2 DEF RowKeys
  <2>5. \A j \in Keys \ {k} : Of(Dropped(d, r).body, j) = Of(d.body, j)
    BY <2>0, <2>2 DEF Of, SamePost
  <2> QED
    BY <2>1, <2>2, <2>3, <2>4, <2>5
<1>4. ASSUME NEW r \in BodyRows, r.key = k, s = PutChunk(r)
      PROVE  /\ s.do \notin {"begin", "commit"} /\ Written(d, s) \in Tables
             /\ \A j \in Keys \ {k} : /\ Of(Written(d, s).post, j) = Of(d.post, j)
                                      /\ Of(Written(d, s).body, j) = Of(d.body, j)
             /\ RowKeys(Written(d, s)) \subseteq RowKeys(d) \cup {k}
  <2>1. s.do = "body" /\ Written(d, s) = Chunked(d, r)
    BY <1>4 DEF PutChunk, Written
  <2>2. /\ Chunked(d, r).body = {x \in d.body : ~SameChunk(x, r)} \cup {r}
        /\ Chunked(d, r).header = d.header /\ Chunked(d, r).post = d.post
    BY DEF Chunked
  <2>3. Chunked(d, r) \in Tables
    BY <1>d DEF Chunked, Tables
  <2>4. RowKeys(Chunked(d, r)) \subseteq RowKeys(d) \cup {k}
    BY <1>4, <2>2 DEF RowKeys
  <2>5. \A j \in Keys \ {k} : Of(Chunked(d, r).body, j) = Of(d.body, j)
    BY <1>4, <2>2 DEF Of, SameChunk, SamePost
  <2> QED
    BY <2>1, <2>2, <2>3, <2>4, <2>5
<1> QED
  BY <1>1, <1>2, <1>3, <1>4

LEMMA SoundAt ==
  ASSUME NEW d, NEW e, NEW k, Of(d.post, k) = Of(e.post, k), Of(d.body, k) = Of(e.body, k), Sound(d, k)
  PROVE  Sound(e, k)
BY DEF Sound

LEMMA ListedAt ==
  ASSUME NEW q, NEW n, NEW k, NEW R, NEW S, Of(R, k) = Of(S, k), Listed(q, n, k, R)
  PROVE  Listed(q, n, k, S)
<1>1. \A i : PostRow(k, q[i]).key = k
  BY DEF PostRow
<1> QED
  BY <1>1 DEF Listed, Of

\* A header's statement outside a transaction.
LEMMA ExecuteHeader ==
  ASSUME Good, Execute, ~Writing
  PROVE  Good'
<1>n. /\ todo # <<>> /\ todo' = Tail(todo) /\ store' = Executed(store, Head(todo))
      /\ UNCHANGED <<up, threads, counter, answer, sent, said, removed, hurt, wiped>>
  BY DEF Execute, memory, ghosts
<1>u. up = "serving"
  BY <1>n DEF Good, Typed
<1>w. Writing' = FALSE
  BY <1>n DEF Writing
<1>o. ~store.open /\ store.disk = store.seen /\ store.seen \in Tables
  BY DEF Good, StoreInv, Typed
<1> DEFINE S == {PutHeader(r) : r \in {h \in HeaderRows : h.key = answer.key}}
<1>1. todo \in Seq(S)
  BY DEF Good, TodoInv
<1>2. Head(todo) \in S /\ todo' \in Seq(S)
  <2> HIDE DEF S
  <2> QED
    BY <1>1, <1>n, TailIs
<1>3. PICK r \in HeaderRows : r.key = answer.key /\ Head(todo) = PutHeader(r)
  BY <1>2
<1>k. answer.key \in Keys /\ (answer # NoAnswer)
  BY <1>3 DEF HeaderRows, NoAnswer, Keys
<1> DEFINE d == Written(store.seen, Head(todo))
<1>4. /\ Head(todo).do \notin {"begin", "commit"} /\ d \in Tables
      /\ RowKeys(d) \subseteq RowKeys(store.seen) \cup {answer.key}
  BY <1>3, <1>k, <1>o, WrittenIs
<1>5. d.post = store.seen.post /\ d.body = store.seen.body
  BY <1>3 DEF Written, PutHeader, Headed
<1> HIDE DEF d
<1>6. store' = [disk |-> IF store.open THEN store.disk ELSE d, seen |-> d, open |-> store.open]
  BY <1>n, <1>4, ExecutedIs DEF d
<1>7. /\ store'.disk = d /\ store'.seen = d /\ ~store'.open
      /\ store' \in [disk : Tables, seen : Tables, open : BOOLEAN]
  <2>1. store.open \in BOOLEAN
    BY DEF Good, Typed
  <2> QED
    BY <1>4, <1>6, <1>o, <2>1
<1>8. Typed'
  BY <1>n, <1>u, <1>7 DEF Good, Typed, AnswerOk, Loading
<1>9. TodoInv'
  BY <1>n, <1>w, <1>2 DEF TodoInv
<1>10. StoreInv'
  BY <1>w, <1>7 DEF StoreInv
<1>11. KeyInv'
  <2>1. RowKeys(d) \subseteq Open(threads)
    BY <1>4, <1>k, <1>u DEF Good, KeyInv
  <2> QED
    BY <2>1, <1>n, <1>u, <1>7 DEF Good, KeyInv, Posts, Loading
<1>12. Progress'
  BY <1>w DEF Progress
<1>13. SaidInv'
  BY <1>n, <1>5, <1>7, <1>o DEF Good, SaidInv, Spared
<1>14. DiskInv'
  <2>1. \A k \in Spared : Sound(store'.disk, k)
    BY <1>5, <1>7, <1>o, SoundAt DEF Good, DiskInv
  <2> QED
    BY <1>n, <2>1 DEF DiskInv, Spared
<1>15. MemInv'
  <2> SUFFICES ASSUME NEW k \in Spared PROVE MemoryInv(k)'
    BY <1>n DEF MemInv, Spared
  <2>1. Target(k)' = Target(k)
    BY <1>w, <1>5, <1>7, <1>o DEF Target
  <2>2. MemoryInv(k)
    BY DEF Good, MemInv
  <2> QED
    BY <1>n, <1>u, <2>1, <2>2 DEF MemoryInv, Posts
<1>16. NewIsEmpty'
  BY <1>n DEF Good, NewIsEmpty, Spared
<1> QED
  BY <1>8, <1>9, <1>10, <1>11, <1>12, <1>13, <1>14, <1>15, <1>16 DEF Good

LEMMA StatementIs ==
  ASSUME NEW p \in PostRows, NEW j \in 1..LastOf(p)
  PROVE  /\ j = 1 => Statement(p, j) = Begin(p.key)
         /\ j = 2 => Statement(p, j) = PutPost(p)
         /\ j = 3 => Statement(p, j) = DropBody(p.key, p.seq)
         /\ j = LastOf(p) => Statement(p, j) = Commit(p.key)
         /\ j > 3 /\ j < LastOf(p) => /\ Statement(p, j) = PutChunk(ChunkRow(p, j - 3))
                                      /\ ChunkRow(p, j - 3) \in BodyRows
<1>1. LastOf(p) \in Nat /\ LastOf(p) >= 4
  BY LastIs
<1>2. p.key \in Keys /\ p.seq \in Nat /\ p.chash \in Texts
  BY DEF PostRows
<1> QED
  BY <1>1, <1>2 DEF Statement, ChunkRow, BodyRows

\* One statement of a post: what is not on disk yet is its own thread's.
LEMMA ExecuteFrame ==
  ASSUME Good, Execute, Writing
  PROVE  /\ Typed' /\ TodoInv' /\ StoreInv' /\ KeyInv' /\ NewIsEmpty'
         /\ \A j \in Keys \ {answer.key} : /\ Of(store'.disk.post, j) = Of(store.disk.post, j)
                                           /\ Of(store'.disk.body, j) = Of(store.disk.body, j)
<1>n. /\ todo # <<>> /\ todo' = Tail(todo) /\ store' = Executed(store, Head(todo))
      /\ UNCHANGED <<up, threads, counter, answer, sent, said, removed, hurt, wiped>>
  BY DEF Execute, memory, ghosts
<1> DEFINE p == answer.post
           k == answer.key
           s == Head(todo)
           L == LastOf(p)
<1>f. /\ up = "serving" /\ k \in Keys /\ p \in PostRows /\ p.key = k /\ Done \in Nat /\ Done < L
      /\ s = Statement(p, Done + 1)
  BY <1>n, WritingFacts DEF Good
<1>c. Done' = Done + 1 /\ TodoInv' /\ Writing' = TRUE /\ (todo' = <<>> <=> Done + 1 = L)
  BY <1>n, Consumed DEF Good
<1>l. L \in Nat /\ L >= 4 /\ Done + 1 \in 1..L
  BY <1>f, LastIs
<1>o. store.disk \in Tables /\ store.seen \in Tables /\ store.open \in BOOLEAN
  BY DEF Good, Typed
<1>b. \A j \in Keys \ {k} : /\ Of(store.disk.post, j) = Of(store.seen.post, j)
                            /\ Of(store.disk.body, j) = Of(store.seen.body, j)
  BY DEF Good, StoreInv
<1>k. /\ RowKeys(store.disk) \subseteq Open(threads) /\ RowKeys(store.seen) \subseteq Open(threads)
      /\ k \in Open(threads)
  <2>1. answer # NoAnswer
    BY NoWriting
  <2> QED
    BY <1>f, <2>1 DEF Good, KeyInv
<1>z. ~store.open => store.disk = store.seen
  BY DEF Good, StoreInv
<1> HIDE DEF L, s, k, p
<1>1. /\ store'.disk \in Tables /\ store'.seen \in Tables /\ store'.open \in BOOLEAN
      /\ store' \in [disk : Tables, seen : Tables, open : BOOLEAN]
      /\ RowKeys(store'.disk) \subseteq Open(threads) /\ RowKeys(store'.seen) \subseteq Open(threads)
      /\ ~store'.open => store'.disk = store'.seen
      /\ store'.open => Done + 1 # L
      /\ \A j \in Keys \ {k} : /\ Of(store'.disk.post, j) = Of(store.disk.post, j)
                               /\ Of(store'.disk.body, j) = Of(store.disk.body, j)
                               /\ Of(store'.seen.post, j) = Of(store.disk.post, j)
                               /\ Of(store'.seen.body, j) = Of(store.disk.body, j)
  <2>1. CASE Done = 0
    <3>1. s.do = "begin"
      BY <1>f, <1>l, <2>1, StatementIs DEF Begin, L
    <3>2. store' = [disk |-> store.disk, seen |-> store.seen, open |-> TRUE]
      BY <1>n, <3>1, ExecutedIs DEF s
    <3>3. store'.disk = store.disk /\ store'.seen = store.seen /\ store'.open = TRUE
      BY <3>2
    <3>4. store' \in [disk : Tables, seen : Tables, open : BOOLEAN]
      BY <3>2, <1>o
    <3> QED
      BY <3>3, <3>4, <1>o, <1>k, <1>b, <1>l, <2>1
  <2>2. CASE Done + 1 = L
    <3>1. s.do = "commit"
      BY <1>f, <1>l, <2>2, StatementIs DEF Commit, L
    <3>2. store' = [disk |-> store.seen, seen |-> store.seen, open |-> FALSE]
      BY <1>n, <3>1, ExecutedIs DEF s
    <3>3. store'.disk = store.seen /\ store'.seen = store.seen /\ ~store'.open
      BY <3>2
    <3>4. store' \in [disk : Tables, seen : Tables, open : BOOLEAN]
      BY <3>2, <1>o
    <3> QED
      BY <3>3, <3>4, <1>o, <1>k, <1>b, <1>l, <2>2
  <2>3. CASE Done # 0 /\ Done + 1 # L
    <3> DEFINE d == Written(store.seen, s)
    <3>1. \/ \E r \in PostRows : r.key = k /\ s = PutPost(r)
          \/ \E n \in Nat : s = DropBody(k, n)
          \/ \E r \in BodyRows : r.key = k /\ s = PutChunk(r)
      <4>1. CASE Done + 1 = 2
        BY <1>f, <1>l, <4>1, StatementIs DEF L
      <4>2. CASE Done + 1 = 3
        <5>1. s = DropBody(k, p.seq)
          BY <1>f, <1>l, <4>2, StatementIs DEF L
        <5>2. p.seq \in Nat
          BY <1>f DEF PostRows
        <5> QED
          BY <5>1, <5>2
      <4>3. CASE Done + 1 > 3
        <5>1. s = PutChunk(ChunkRow(p, Done + 1 - 3)) /\ ChunkRow(p, Done + 1 - 3) \in BodyRows
          BY <1>f, <1>l, <2>3, <4>3, StatementIs DEF L
        <5>2. ChunkRow(p, Done + 1 - 3).key = k
          BY <1>f DEF ChunkRow
        <5> QED
          BY <5>1, <5>2
      <4> QED
        BY <1>f, <1>l, <2>3, <4>1, <4>2, <4>3
    <3>2. /\ s.do \notin {"begin", "commit"} /\ d \in Tables
          /\ \A j \in Keys \ {k} : /\ Of(d.post, j) = Of(store.seen.post, j)
                                   /\ Of(d.body, j) = Of(store.seen.body, j)
          /\ RowKeys(d) \subseteq RowKeys(store.seen) \cup {k}
      BY <1>f, <1>o, <3>1, WrittenIs
    <3>3. store' = [disk |-> IF store.open THEN store.disk ELSE d, seen |-> d, open |-> store.open]
      BY <1>n, <3>2, ExecutedIs DEF s
    <3> HIDE DEF d
    <3>4. /\ store'.disk = IF store.open THEN store.disk ELSE d
          /\ store'.seen = d /\ store'.open = store.open
      BY <3>3
    <3>5. store' \in [disk : Tables, seen : Tables, open : BOOLEAN]
      BY <3>3, <3>2, <1>o
    <3>6. RowKeys(d) \subseteq Open(threads)
      BY <3>2, <1>k
    <3>7. CASE store.open
      BY <3>2, <3>4, <3>5, <3>6, <3>7, <1>o, <1>k, <1>b, <2>3
    <3>8. CASE ~store.open
      BY <3>2, <3>4, <3>5, <3>6, <3>8, <1>o, <1>k, <1>b, <1>z, <2>3
    <3> QED
      BY <3>7, <3>8
  <2> QED
    BY <2>1, <2>2, <2>3
<1>2. Typed'
  BY <1>n, <1>f, <1>1 DEF Good, Typed, AnswerOk, Loading
<1>3. StoreInv'
  BY <1>n, <1>1, <1>c DEF StoreInv, k
<1>4. KeyInv'
  BY <1>n, <1>f, <1>1 DEF Good, KeyInv, Posts, Loading
<1>5. NewIsEmpty'
  BY <1>n DEF Good, NewIsEmpty, Spared
<1> QED
  BY <1>c, <1>1, <1>2, <1>3, <1>4, <1>5 DEF k

FirstChunks(p, i) == {ChunkRow(p, j) : j \in 1..i}

LEMMA ChunkFields ==
  ASSUME NEW p, NEW i
  PROVE  /\ ChunkRow(p, i).key = p.key /\ ChunkRow(p, i).seq = p.seq
         /\ ChunkRow(p, i).part = i /\ ChunkRow(p, i).of = p.chash
BY DEF ChunkRow

\* A post's rows, all of them written, are sound if the others were.
LEMMA CommitSound ==
  ASSUME NEW e \in Tables, NEW d \in Tables, NEW k \in Keys, NEW p \in PostRows, p.key = k,
         Sound(e, k), NEW q \in Seq(Entered), NEW n, Listed(q, n, k, d.post), Chains(q),
         d.post = Put(e.post, p),
         d.body = {x \in e.body : ~SamePost(x, p)} \cup {ChunkRow(p, i) : i \in 1..(LastOf(p) - 4)}
  PROVE  Sound(d, k)
<1>t. e.post \in SUBSET PostRows /\ d.post \in SUBSET PostRows /\ d.body \in SUBSET BodyRows
  BY DEF Tables
<1>1. /\ \A r, x \in Of(d.post, k) : r.seq = x.seq => r = x
      /\ \A r \in Of(d.post, k) : Chained(Of(d.post, k), r)
  BY <1>t, ListedChained
<1>l. (p.tomb => LastOf(p) - 4 = 0) /\ (~p.tomb => LastOf(p) - 4 = Chunks[p.chash])
  BY LastIs
<1>m. p \in d.post /\ p \in Of(d.post, k)
  BY <1>t, PutFacts DEF Of
<1>2. ASSUME NEW b \in Of(d.body, k)
      PROVE  \E r \in Of(d.post, k) : /\ b.seq = r.seq /\ ~r.tomb /\ b.of = r.chash
                                      /\ b.part \in 1..Chunks[r.chash]
  <2>1. CASE b \in e.body /\ ~SamePost(b, p)
    <3>1. PICK r \in Of(e.post, k) : /\ b.seq = r.seq /\ ~r.tomb /\ b.of = r.chash
                                     /\ b.part \in 1..Chunks[r.chash]
      BY <2>1, <1>2 DEF Sound, Of
    <3>2. r \in e.post /\ ~SamePost(r, p) /\ r.key = k
      BY <2>1, <3>1, <1>2 DEF Of, SamePost
    <3>3. r \in Of(d.post, k)
      BY <1>t, <3>2, PutFacts DEF Of
    <3> QED
      BY <3>1, <3>3
  <2>2. CASE \E i \in 1..(LastOf(p) - 4) : b = ChunkRow(p, i)
    <3>1. PICK i \in 1..(LastOf(p) - 4) : b = ChunkRow(p, i)
      BY <2>2
    <3>2. ~p.tomb /\ i \in 1..Chunks[p.chash]
      BY <1>l
    <3>3. b.seq = p.seq /\ b.part = i /\ b.of = p.chash
      BY <3>1, ChunkFields
    <3> QED
      BY <1>m, <3>2, <3>3
  <2> QED
    BY <1>2, <2>1, <2>2 DEF Of
<1>3. ASSUME NEW r \in Of(d.post, k), ~r.tomb, NEW i \in 1..Chunks[r.chash]
      PROVE  ChunkRow(r, i) \in Of(d.body, k)
  <2>0. ChunkRow(r, i).key = r.key /\ ChunkRow(r, i).seq = r.seq /\ r.key = k
    BY ChunkFields DEF Of
  <2>1. CASE r = p
    BY <1>3, <1>l, <2>0, <2>1 DEF Of
  <2>2. CASE r \in e.post /\ ~SamePost(r, p)
    <3>1. ChunkRow(r, i) \in e.body
      BY <1>3, <2>0, <2>2 DEF Sound, Of
    <3>2. ~SamePost(ChunkRow(r, i), p)
      BY <2>0, <2>2 DEF SamePost
    <3> QED
      BY <2>0, <3>1, <3>2 DEF Of
  <2> QED
    BY <1>t, <2>1, <2>2, PutFacts DEF Of
<1> QED
  BY <1>1, <1>2, <1>3 DEF Sound

\* Writing a post takes nothing that was there but the text of what it removes.
LEMMA CommitKeeps ==
  ASSUME NEW R \in SUBSET PostRows, NEW k \in Keys, NEW p \in PostRows, p.key = k,
         \A r, x \in Of(R, k) : r.seq = x.seq => r = x,
         p.tomb => \E r \in R : ~r.tomb /\ p = Removal(r),
         ~p.tomb => \A r \in R : ~SamePost(r, p)
  PROVE  \A r \in R : r.key = k =>
             r \in Put(R, p) \/ (~r.tomb /\ p = Removal(r))
<1> SUFFICES ASSUME NEW r \in R, r.key = k, r \notin Put(R, p)
             PROVE  ~r.tomb /\ p = Removal(r)
  OBVIOUS
<1>1. SamePost(r, p)
  BY PutFacts
<1>2. PICK y \in R : ~y.tomb /\ p = Removal(y)
  BY <1>1
<1>3. p.key = y.key /\ p.seq = y.seq
  BY <1>2 DEF Removal, PostRows
<1>4. y = r
  BY <1>1, <1>3 DEF SamePost, Of
<1> QED
  BY <1>2, <1>4

LEMMA RemovalOnce ==
  ASSUME NEW x \in PostRows
  PROVE  Removal(x).tomb /\ Removal(x).key = x.key /\ Removal(x).seq = x.seq
         /\ Removal(Removal(x)) = Removal(x)
BY DEF Removal, PostRows

\* Within the transaction, up to its commit.
LEMMA ExecuteSpared ==
  ASSUME Good, Execute, Writing, answer.key \in Spared
  PROVE  /\ Progress'
         /\ Done + 1 # LastOf(answer.post) => store'.disk = store.disk
         /\ Done + 1 = LastOf(answer.post) =>
              /\ store'.disk = store.seen
              /\ store.seen.post = Put(store.disk.post, answer.post)
              /\ store.seen.body = {x \in store.disk.body : ~SamePost(x, answer.post)}
                      \cup {ChunkRow(answer.post, i) : i \in 1..(LastOf(answer.post) - 4)}
<1>n. /\ todo # <<>> /\ todo' = Tail(todo) /\ store' = Executed(store, Head(todo))
      /\ UNCHANGED <<up, threads, counter, answer, sent, said, removed, hurt, wiped>>
  BY DEF Execute, memory, ghosts
<1> DEFINE p == answer.post
           k == answer.key
           s == Head(todo)
           L == LastOf(p)
           B == {x \in store.disk.body : ~SamePost(x, p)}
<1>f. /\ up = "serving" /\ k \in Keys /\ p \in PostRows /\ p.key = k /\ Done \in Nat /\ Done < L
      /\ s = Statement(p, Done + 1)
  BY <1>n, WritingFacts DEF Good
<1>c. Done' = Done + 1 /\ Writing' = TRUE /\ (todo' = <<>> <=> Done + 1 = L)
  BY <1>n, Consumed DEF Good
<1>l. L \in Nat /\ L >= 4 /\ Done + 1 \in 1..L
  BY <1>f, LastIs
<1>o. store.disk \in Tables /\ store.seen \in Tables /\ store.open \in BOOLEAN
  BY DEF Good, Typed
<1>p. /\ store.open <=> Done >= 1
      /\ store.seen.post = IF Done < 2 THEN store.disk.post ELSE Put(store.disk.post, p)
      /\ store.seen.body = IF Done < 3 THEN store.disk.body ELSE B \cup FirstChunks(p, Done - 3)
      /\ p.tomb => \E r \in store.disk.post : ~r.tomb /\ p = Removal(r)
      /\ ~p.tomb => \A r \in store.disk.post : ~SamePost(r, p)
  BY <1>n DEF Good, Progress, FirstChunks
<1>s. answer'.key \in Spared' /\ answer'.post = p
  BY <1>n DEF Spared
<1> HIDE DEF L, s, k, p, B
<1>1. CASE Done = 0
  <2>1. s.do = "begin"
    BY <1>f, <1>l, <1>1, StatementIs DEF Begin, L
  <2>2. store' = [disk |-> store.disk, seen |-> store.seen, open |-> TRUE]
    BY <1>n, <2>1, ExecutedIs DEF s
  <2>3. store'.disk = store.disk /\ store'.seen = store.seen /\ store'.open = TRUE
    BY <2>2
  <2>4. Progress'
    <3>1. Done' = 1 /\ todo' # <<>> /\ Done < 2 /\ Done < 3
      BY <1>1, <1>c, <1>l
    <3>2. /\ store'.seen.post = store'.disk.post /\ store'.seen.body = store'.disk.body
          /\ store'.open <=> Done' >= 1
      BY <1>p, <2>3, <3>1
    <3> QED
      BY <1>p, <1>s, <2>3, <3>1, <3>2 DEF Progress
  <2> QED
    BY <1>1, <1>l, <2>3, <2>4 DEF L, p
<1>2. CASE Done + 1 = L
  <2>1. s.do = "commit"
    BY <1>f, <1>l, <1>2, StatementIs DEF Commit, L
  <2>2. store' = [disk |-> store.seen, seen |-> store.seen, open |-> FALSE]
    BY <1>n, <2>1, ExecutedIs DEF s
  <2>3. store'.disk = store.seen
    BY <2>2
  <2>4. store.seen.post = Put(store.disk.post, p) /\ store.seen.body = B \cup FirstChunks(p, L - 4)
    <3>1. ~(Done < 2) /\ ~(Done < 3) /\ Done - 3 = L - 4
      BY <1>2, <1>l, <1>f
    <3> QED
      BY <1>p, <3>1
  <2>5. p \in store'.disk.post
    BY <2>3, <2>4 DEF Put
  <2>6. Progress'
    BY <1>2, <1>c, <1>s, <2>5 DEF Progress
  <2> QED
    BY <1>2, <2>3, <2>4, <2>6 DEF L, p, B, FirstChunks
<1>3. CASE Done # 0 /\ Done + 1 # L
  <2> DEFINE d == Written(store.seen, s)
  <2>1. s.do \notin {"begin", "commit"}
        /\ (Done + 1 = 2 => s = PutPost(p)) /\ (Done + 1 = 3 => s = DropBody(k, p.seq))
        /\ (Done + 1 > 3 => s = PutChunk(ChunkRow(p, Done - 2)))
    <3>1. CASE Done + 1 = 2
      BY <1>f, <1>l, <3>1, StatementIs DEF L, PutPost
    <3>2. CASE Done + 1 = 3
      BY <1>f, <1>l, <3>2, StatementIs DEF L, DropBody
    <3>3. CASE Done + 1 > 3
      <4>1. (Done + 1) - 3 = Done - 2
        BY <1>f
      <4> QED
        BY <1>f, <1>l, <1>3, <3>3, <4>1, StatementIs DEF L, PutChunk
    <3> QED
      BY <1>f, <1>3, <3>1, <3>2, <3>3
  <2>2. store' = [disk |-> IF store.open THEN store.disk ELSE d, seen |-> d, open |-> store.open]
    BY <1>n, <2>1, ExecutedIs DEF s
  <2>3. store.open = TRUE
    BY <1>f, <1>o, <1>p, <1>3
  <2> HIDE DEF d
  <2>4. store'.disk = store.disk /\ store'.seen = d /\ store'.open = TRUE
    BY <2>2, <2>3
  <2>5. d.post = Put(store.disk.post, p)
    <3>1. CASE Done + 1 = 2
      <4>1. d = Posted(store.seen, p)
        BY <2>1, <3>1 DEF d, Written, PutPost
      <4>2. store.seen.post = store.disk.post
        BY <1>p, <3>1, <1>f
      <4> QED
        BY <4>1, <4>2 DEF Posted, Put
    <3>2. CASE Done + 1 # 2
      <4>1. ~(Done < 2) /\ Done + 1 >= 3
        BY <1>f, <1>3, <3>2
      <4>2. d.post = store.seen.post
        <5>1. CASE Done + 1 = 3
          BY <2>1, <5>1 DEF d, Written, DropBody, Dropped
        <5>2. CASE Done + 1 > 3
          BY <2>1, <5>2 DEF d, Written, PutChunk, Chunked
        <5> QED
          BY <4>1, <1>f, <5>1, <5>2
      <4> QED
        BY <1>p, <4>1, <4>2
    <3> QED
      BY <3>1, <3>2
  <2>6. d.body = IF Done + 1 < 3 THEN store.disk.body ELSE B \cup FirstChunks(p, Done + 1 - 3)
    <3>1. CASE Done + 1 = 2
      <4>1. d.body = store.seen.body
        BY <2>1, <3>1 DEF d, Written, PutPost, Posted
      <4> QED
        BY <1>p, <4>1, <3>1, <1>f
    <3>2. CASE Done + 1 = 3
      <4>1. d.body = {x \in store.seen.body : ~SamePost(x, [key |-> k, seq |-> p.seq])}
        BY <2>1, <3>2 DEF d, Written, DropBody, Dropped
      <4>2. \A x : SamePost(x, [key |-> k, seq |-> p.seq]) <=> SamePost(x, p)
        BY <1>f DEF SamePost
      <4>3. store.seen.body = store.disk.body
        BY <1>p, <3>2, <1>f
      <4>4. d.body = B
        BY <4>1, <4>2, <4>3 DEF B
      <4>5. FirstChunks(p, Done + 1 - 3) = {}
        BY <3>2, <1>f DEF FirstChunks
      <4> QED
        BY <3>2, <4>4, <4>5, <1>f
    <3>3. CASE Done + 1 > 3
      <4> DEFINE c == ChunkRow(p, Done - 2)
      <4>1. d.body = {x \in store.seen.body : ~SameChunk(x, c)} \cup {c}
        BY <2>1, <3>3 DEF d, Written, PutChunk, Chunked
      <4>2. store.seen.body = B \cup FirstChunks(p, Done - 3)
        <5>1. ~(Done < 3)
          BY <1>f, <3>3
        <5> QED
          BY <1>p, <5>1
      <4>3. c.key = p.key /\ c.seq = p.seq /\ c.part = Done - 2
        BY ChunkFields
      <4>4. \A x \in B : ~SameChunk(x, c)
        BY <4>3 DEF B, SameChunk, SamePost
      <4>5. \A x \in FirstChunks(p, Done - 3) : ~SameChunk(x, c)
        <5> SUFFICES ASSUME NEW j \in 1..(Done - 3) PROVE ~SameChunk(ChunkRow(p, j), c)
          BY DEF FirstChunks
        <5>1. ChunkRow(p, j).part = j /\ j # Done - 2
          BY ChunkFields, <1>f
        <5> QED
          BY <5>1, <4>3 DEF SameChunk
      <4>6. FirstChunks(p, Done + 1 - 3) = FirstChunks(p, Done - 3) \cup {c}
        <5>1. \A j : j \in 1..(Done + 1 - 3) <=> (j \in 1..(Done - 3) \/ j = Done - 2)
          BY <1>f, <3>3
        <5> QED
          BY <5>1 DEF FirstChunks
      <4> HIDE DEF c
      <4>7. d.body = B \cup FirstChunks(p, Done + 1 - 3)
        BY <4>1, <4>2, <4>4, <4>5, <4>6
      <4>8. ~(Done + 1 < 3)
        BY <1>f, <3>3
      <4> QED
        BY <4>7, <4>8
    <3> QED
      BY <1>f, <1>3, <3>1, <3>2, <3>3
  <2>7. Progress'
    <3>1. Done' = Done + 1 /\ todo' # <<>> /\ Done' >= 1 /\ ~(Done' < 2)
      BY <1>3, <1>c, <1>f
    <3>2. /\ store'.seen.post = Put(store'.disk.post, p)
          /\ store'.seen.body = IF Done' < 3 THEN store'.disk.body ELSE B \cup FirstChunks(p, Done' - 3)
          /\ store'.open <=> Done' >= 1
      <4>1. store'.disk.post = store.disk.post /\ store'.disk.body = store.disk.body
        BY <2>4
      <4>2. store'.seen.post = Put(store'.disk.post, p) /\ store'.open
        BY <2>4, <2>5, <4>1
      <4>3. store'.seen.body = IF Done' < 3 THEN store'.disk.body ELSE B \cup FirstChunks(p, Done' - 3)
        <5>1. store'.seen.body = d.body
          BY <2>4
        <5>2. store'.seen.body = IF Done + 1 < 3 THEN store'.disk.body
                                 ELSE B \cup FirstChunks(p, Done + 1 - 3)
          BY <2>6, <4>1, <5>1, Zenon
        <5>3. (Done' < 3 <=> Done + 1 < 3) /\ Done' - 3 = Done + 1 - 3
          BY <3>1, <1>f
        <5>4. FirstChunks(p, Done' - 3) = FirstChunks(p, Done + 1 - 3)
          BY <5>3, Zenon
        <5> QED
          BY <5>2, <5>3, <5>4, Zenon
      <4> QED
        BY <3>1, <4>2, <4>3
    <3>3. B = {x \in store'.disk.body : ~SamePost(x, p)}
      BY <2>4 DEF B
    <3> QED
      BY <1>p, <1>s, <2>4, <3>1, <3>2, <3>3 DEF Progress, FirstChunks
  <2> QED
    BY <1>3, <2>4, <2>7 DEF L, p
<1> QED
  BY <1>1, <1>2, <1>3

LEMMA ExecuteStep == ASSUME Good, Execute PROVE Good'
<1>1. CASE ~Writing
  BY <1>1, ExecuteHeader
<1>2. CASE Writing
  <2> DEFINE p == answer.post
             k == answer.key
             L == LastOf(p)
  <2>n. /\ todo # <<>> /\ todo' = Tail(todo)
        /\ UNCHANGED <<up, threads, counter, answer, sent, said, removed, hurt, wiped>>
    BY DEF Execute, memory, ghosts
  <2>f. up = "serving" /\ k \in Keys /\ p \in PostRows /\ p.key = k
    BY <1>2, <2>n, WritingFacts DEF Good
  <2>1. /\ Typed' /\ TodoInv' /\ StoreInv' /\ KeyInv' /\ NewIsEmpty'
        /\ \A j \in Keys \ {k} : /\ Of(store'.disk.post, j) = Of(store.disk.post, j)
                                 /\ Of(store'.disk.body, j) = Of(store.disk.body, j)
    BY <1>2, ExecuteFrame
  <2>2. k \in Spared => /\ Progress'
                        /\ Done + 1 # L => store'.disk = store.disk
                        /\ Done + 1 = L =>
                             /\ store'.disk = store.seen
                             /\ store.seen.post = Put(store.disk.post, p)
                             /\ store.seen.body = {x \in store.disk.body : ~SamePost(x, p)}
                                                  \cup {ChunkRow(p, i) : i \in 1..(L - 4)}
    BY <1>2, ExecuteSpared
  <2>3. Progress'
    BY <2>2, <2>n DEF Progress, Spared
  <2>w. Writing' = TRUE
    BY <1>2, <2>n DEF Writing
  <2>s. Spared' = Spared /\ \A j \in Spared : j \in Keys
    BY <2>n DEF Spared
  <2>d. store.disk \in Tables /\ store.seen \in Tables /\ store'.disk \in Tables
    BY <2>1 DEF Good, Typed
  <2>e. /\ store.disk.post \in SUBSET PostRows /\ store'.disk.post \in SUBSET PostRows
    BY <2>d DEF Tables
  <2>m. \A j \in Spared : /\ Listed(Posts(j), threads[j].next, j, Target(j))
                          /\ Chains(Posts(j)) /\ Texted(Posts(j))
    BY <2>f DEF Good, MemInv, MemoryInv
  <2>g. \A j \in Spared : Sound(store.disk, j)
    BY DEF Good, DiskInv
  <2>q. Posts(k) \in Seq(Entered)
    BY <2>f DEF Good, Typed, Threads, Posts
  <2> HIDE DEF L, k, p
  <2>t. \A j \in Keys : j = k => /\ Target(j) = Put(store.disk.post, p)
                                  /\ Target(j)' = Put(store'.disk.post, p)
    <3> TAKE j \in Keys
    <3>1. j = k => Target(j) = Put(store.disk.post, p)
      BY <1>2 DEF Target, k, p
    <3>2. j = k => Target(j)' = Put(store'.disk.post, p)
      BY <2>n, <2>w DEF Target, k, p
    <3> QED
      BY <3>1, <3>2
  <2>u. \A j \in Keys \ {k} : Target(j) = store.disk.post /\ Target(j)' = store'.disk.post
    BY <2>n DEF Target, k
  <2>c. ASSUME k \in Spared
        PROVE  /\ Sound(store'.disk, k) /\ Put(store'.disk.post, p) = Put(store.disk.post, p)
               /\ \A x \in said : x.key = k => \E r \in store'.disk.post : r = x \/ r = Removal(x)
               /\ \A x \in removed : x.key = k => x.tomb /\ x \in store'.disk.post
    <3>o. /\ \A x \in said : x.key = k => \E r \in store.disk.post : r = x \/ r = Removal(x)
          /\ \A x \in removed : x.key = k => x.tomb /\ x \in store.disk.post
      BY <2>c DEF Good, SaidInv
    <3>a. CASE Done + 1 # L
      BY <2>c, <2>2, <2>g, <3>a, <3>o
    <3>b. CASE Done + 1 = L
      <4>1. store'.disk.post = Put(store.disk.post, p)
        BY <2>c, <2>2, <3>b
      <4>2. Sound(store'.disk, k)
        <5>1. Listed(Posts(k), threads[k].next, k, store'.disk.post) /\ Chains(Posts(k))
          <6> PICK j \in Keys : j = k
            BY <2>f
          <6>1. Target(j) = Put(store.disk.post, p)
            BY <2>t
          <6>2. Listed(Posts(j), threads[j].next, j, Target(j)) /\ Chains(Posts(j))
            BY <2>c, <2>m
          <6> QED
            BY <4>1, <6>1, <6>2
        <5>2. store'.disk.body = {x \in store.disk.body : ~SamePost(x, p)}
                                 \cup {ChunkRow(p, i) : i \in 1..(LastOf(p) - 4)}
          BY <2>c, <2>2, <3>b DEF L
        <5>3. Sound(store.disk, k)
          BY <2>c, <2>g
        <5> QED
          BY <2>f, <2>d, <2>q, <4>1, <5>1, <5>2, <5>3, CommitSound
      <4>3. Put(store'.disk.post, p) = Put(store.disk.post, p)
        BY <4>1 DEF Put
      <4>4. \A r \in store.disk.post : r.key = k => r \in store'.disk.post \/ (~r.tomb /\ p = Removal(r))
        <5>1. \A r, x \in Of(store.disk.post, k) : r.seq = x.seq => r = x
          BY <2>c, <2>g DEF Sound
        <5>2. /\ p.tomb => \E r \in store.disk.post : ~r.tomb /\ p = Removal(r)
              /\ ~p.tomb => \A r \in store.disk.post : ~SamePost(r, p)
          BY <1>2, <2>c, <2>n DEF Good, Progress, k, p
        <5> QED
          BY <2>e, <2>f, <4>1, <5>1, <5>2, CommitKeeps
      <4>5. p \in store'.disk.post
        BY <4>1 DEF Put
      <4>6. \A x \in said : x.key = k => \E r \in store'.disk.post : r = x \/ r = Removal(x)
        <5> SUFFICES ASSUME NEW x \in said, x.key = k
                     PROVE  \E r \in store'.disk.post : r = x \/ r = Removal(x)
          OBVIOUS
        <5>1. PICK r \in store.disk.post : r = x \/ r = Removal(x)
          BY <3>o
        <5>2. x \in PostRows
          BY DEF Good, Typed
        <5>3. r.key = k
          BY <5>1, <5>2, RemovalOnce
        <5>4. CASE ~r.tomb /\ p = Removal(r)
          BY <4>5, <5>1, <5>2, <5>4, RemovalOnce
        <5> QED
          BY <4>4, <5>1, <5>3, <5>4
      <4>7. \A x \in removed : x.key = k => x.tomb /\ x \in store'.disk.post
        BY <3>o, <4>4
      <4> QED
        BY <4>2, <4>3, <4>6, <4>7
    <3> QED
      BY <3>a, <3>b
  <2>4. DiskInv'
    <3> SUFFICES ASSUME NEW j \in Spared PROVE Sound(store'.disk, j)
      BY <2>s DEF DiskInv
    <3>1. CASE j = k
      BY <2>c, <3>1
    <3>2. CASE j # k
      BY <2>1, <2>g, <2>s, <3>2, SoundAt
    <3> QED
      BY <3>1, <3>2
  <2>5. MemInv'
    <3> SUFFICES ASSUME NEW j \in Spared PROVE MemoryInv(j)'
      BY <2>s DEF MemInv
    <3>1. Listed(Posts(j), threads[j].next, j, Target(j)')
      <4>1. CASE j = k
        BY <2>c, <2>m, <2>s, <2>t, <4>1
      <4>2. CASE j # k
        BY <2>1, <2>m, <2>s, <2>u, <4>2, ListedAt
      <4> QED
        BY <4>1, <4>2
    <3> QED
      BY <2>f, <2>m, <2>n, <3>1 DEF MemoryInv, Posts
  <2>6. SaidInv'
    <3>1. \A x \in said : x.key \in Spared /\ x.key # k =>
             \E r \in store'.disk.post : r = x \/ r = Removal(x)
      <4> SUFFICES ASSUME NEW x \in said, x.key \in Spared, x.key # k
                   PROVE  \E r \in store'.disk.post : r = x \/ r = Removal(x)
        OBVIOUS
      <4>1. PICK r \in store.disk.post : r = x \/ r = Removal(x)
        BY DEF Good, SaidInv
      <4>2. x \in PostRows
        BY DEF Good, Typed
      <4>3. r.key = x.key
        BY <4>1, <4>2, RemovalOnce
      <4>4. r \in Of(store'.disk.post, x.key)
        BY <2>1, <2>s, <4>3 DEF Of
      <4> QED
        BY <4>1, <4>4 DEF Of
    <3>2. \A x \in removed : x.key \in Spared /\ x.key # k => x.tomb /\ x \in store'.disk.post
      <4> SUFFICES ASSUME NEW x \in removed, x.key \in Spared, x.key # k
                   PROVE  x.tomb /\ x \in store'.disk.post
        OBVIOUS
      <4>1. x.tomb /\ x \in Of(store.disk.post, x.key)
        BY DEF Good, SaidInv, Of
      <4> QED
        BY <2>1, <2>s, <4>1 DEF Of
    <3> QED
      BY <2>c, <2>n, <2>s, <3>1, <3>2 DEF SaidInv
  <2> QED
    BY <2>1, <2>3, <2>4, <2>5, <2>6 DEF Good
<1> QED
  BY <1>1, <1>2

LEMMA RefusedStep == ASSUME Good, ExecuteRefused PROVE ForumInv'
<1>n. /\ todo # <<>> /\ todo' = Tail(todo)
      /\ hurt' = hurt \cup (IF Head(todo).do = "commit" THEN Keys ELSE {Head(todo).row.key})
      /\ UNCHANGED <<up, threads, counter, answer, store, sent, said, removed, wiped>>
  BY DEF ExecuteRefused, memory
<1>1. CASE Head(todo).do = "commit"
  BY <1>n, <1>1 DEF ForumInv
<1>2. CASE Head(todo).do # "commit"
  <2>h. hurt' = hurt \cup {Head(todo).row.key}
    BY <1>n, <1>2
  <2>1. /\ Head(todo).row.key = answer.key /\ TodoInv'
        /\ store.open => Writing /\ todo' # <<>>
    <3>1. CASE ~Writing
      <4> DEFINE S == {PutHeader(r) : r \in {h \in HeaderRows : h.key = answer.key}}
      <4>1. todo \in Seq(S)
        BY <3>1 DEF Good, TodoInv
      <4>2. Head(todo) \in S /\ todo' \in Seq(S)
        <5> HIDE DEF S
        <5> QED
          BY <4>1, <1>n, TailIs
      <4>3. Head(todo).row.key = answer.key
        <5>1. PICK r \in HeaderRows : r.key = answer.key /\ Head(todo) = PutHeader(r)
          BY <4>2
        <5> QED
          BY <5>1 DEF PutHeader
      <4>4. TodoInv'
        BY <3>1, <1>n, <4>2 DEF TodoInv, Writing
      <4>5. ~store.open
        BY <3>1 DEF Good, StoreInv
      <4> QED
        BY <4>3, <4>4, <4>5
    <3>2. CASE Writing
      <4> DEFINE p == answer.post
                 L == LastOf(p)
      <4>1. /\ p \in PostRows /\ p.key = answer.key /\ Done \in Nat /\ Done < L
            /\ Head(todo) = Statement(p, Done + 1)
        BY <1>n, <3>2, WritingFacts DEF Good
      <4>2. /\ TodoInv' /\ (todo' = <<>> <=> Done + 1 = L)
        BY <1>n, <3>2, Consumed DEF Good
      <4>3. Done + 1 \in 1..L /\ L \in Nat
        BY <4>1, LastIs
      <4>4. Done + 1 # L
        BY <1>2, <4>1, <4>3, StatementIs DEF Commit
      <4>5. Head(todo).row.key = answer.key
        <5>1. CASE Done + 1 = 1
          BY <4>1, <4>3, <5>1, StatementIs DEF Begin
        <5>2. CASE Done + 1 = 2
          BY <4>1, <4>3, <5>2, StatementIs DEF PutPost
        <5>3. CASE Done + 1 = 3
          BY <4>1, <4>3, <5>3, StatementIs DEF DropBody
        <5>4. CASE Done + 1 > 3
          BY <4>1, <4>3, <4>4, <5>4, StatementIs, ChunkFields DEF PutChunk
        <5> QED
          BY <4>1, <5>1, <5>2, <5>3, <5>4
      <4> QED
        BY <3>2, <4>2, <4>4, <4>5
    <3> QED
      BY <3>1, <3>2
  <2>s. Spared' \subseteq Spared /\ answer.key \notin Spared'
    BY <1>n, <2>h, <2>1 DEF Spared
  <2>2. Typed'
    BY <1>n DEF Good, Typed, AnswerOk
  <2>3. StoreInv'
    BY <1>n, <2>1 DEF Good, StoreInv, Writing
  <2>4. KeyInv'
    BY <1>n DEF Good, KeyInv, Posts
  <2>5. Progress'
    BY <1>n, <2>s DEF Progress
  <2>6. SaidInv'
    BY <1>n, <2>s DEF Good, SaidInv
  <2>7. DiskInv'
    BY <1>n, <2>s DEF Good, DiskInv
  <2>8. MemInv'
    <3> SUFFICES ASSUME NEW k \in Spared' PROVE MemoryInv(k)'
      BY DEF MemInv
    <3>1. MemoryInv(k)
      BY <2>s DEF Good, MemInv
    <3>2. Target(k)' = Target(k)
      BY <1>n DEF Target, Writing
    <3>3. \A p : Text(p, k)' = Text(p, k)
      BY <1>n DEF Text
    <3> QED
      BY <1>n, <3>1, <3>2, <3>3 DEF MemoryInv, Posts
  <2>9. NewIsEmpty'
    BY <1>n, <2>s DEF Good, NewIsEmpty
  <2> QED
    BY <2>1, <2>2, <2>3, <2>4, <2>5, <2>6, <2>7, <2>8, <2>9 DEF Good, ForumInv
<1> QED
  BY <1>1, <1>2

LEMMA AnswerStep == ASSUME Good, Answer PROVE Good'
<1>n. /\ todo = <<>> /\ (answer # NoAnswer) /\ answer' = NoAnswer
      /\ said' = IF answer.what = "post" THEN said \cup {answer.post} ELSE said
      /\ removed' = IF answer.what = "tomb" THEN removed \cup {answer.post} ELSE removed
      /\ UNCHANGED <<up, threads, counter, todo, store, sent, hurt, wiped>>
  BY DEF Answer, memory
<1>u. up = "serving"
  BY <1>n DEF Good, Typed
<1>o. ~store.open /\ store.disk = store.seen
  BY <1>n DEF Good, StoreInv
<1>w. Writing' = FALSE
  BY <1>n DEF Writing, NoAnswer
<1>s. Spared' = Spared /\ \A j \in Spared : j \in Keys
  BY <1>n DEF Spared
<1>a. Writing => answer.key \in Keys /\ answer.post \in PostRows /\ answer.post.key = answer.key
                 /\ (answer.what = "tomb" <=> answer.post.tomb)
  <2>1. answer.what \in {"new", "header"} => ~Writing
    BY DEF Writing
  <2> QED
    BY <1>n, <2>1 DEF Good, Typed, AnswerOk
<1>d. Writing /\ answer.key \in Spared => answer.post \in store.disk.post
  BY <1>n DEF Good, Progress
<1>b. \A p \in said' : p \in said \/ (Writing /\ p = answer.post)
  BY <1>n DEF Writing
<1>c. \A p \in removed' : p \in removed \/ (Writing /\ p = answer.post /\ answer.what = "tomb")
  BY <1>n DEF Writing
<1>1. Typed'
  <2>1. said' \subseteq PostRows /\ removed' \subseteq PostRows
    BY <1>a, <1>b, <1>c DEF Good, Typed
  <2> QED
    BY <1>n, <1>u, <2>1 DEF Good, Typed, AnswerOk, Loading
<1>2. TodoInv'
  BY <1>n, <1>w DEF TodoInv
<1>3. StoreInv'
  BY <1>n, <1>o, <1>w DEF StoreInv
<1>4. KeyInv'
  BY <1>n DEF Good, KeyInv, Posts
<1>5. Progress'
  BY <1>w DEF Progress
<1>6. SaidInv'
  <2>1. \A p \in said' : p.key \in Spared => \E r \in store.disk.post : r = p \/ r = Removal(p)
    BY <1>a, <1>b, <1>d DEF Good, SaidInv
  <2>2. \A p \in removed' : p.key \in Spared => p.tomb /\ p \in store.disk.post
    BY <1>a, <1>c, <1>d DEF Good, SaidInv
  <2> QED
    BY <1>n, <1>s, <2>1, <2>2 DEF SaidInv
<1>7. DiskInv'
  BY <1>n, <1>s DEF Good, DiskInv
<1>8. MemInv'
  <2> SUFFICES ASSUME NEW k \in Spared PROVE MemoryInv(k)'
    BY <1>s DEF MemInv
  <2>1. MemoryInv(k) /\ Sound(store.disk, k)
    BY DEF Good, MemInv, DiskInv
  <2>2. Target(k)' = store.disk.post
    BY <1>n, <1>w DEF Target
  <2>3. Of(Target(k), k) = Of(store.disk.post, k)
    <3>1. CASE Writing /\ answer.key = k
      <4> DEFINE p == answer.post
      <4>1. Target(k) = Put(store.disk.post, p) /\ p \in Of(store.disk.post, k)
        BY <1>a, <1>d, <3>1 DEF Target, Of
      <4>2. \A x \in Of(store.disk.post, k) : SamePost(x, p) => x = p
        BY <2>1, <4>1 DEF Sound, SamePost
      <4> HIDE DEF p
      <4> QED
        BY <4>1, <4>2 DEF Of, Put
    <3>2. CASE ~(Writing /\ answer.key = k)
      BY <3>2 DEF Target
    <3> QED
      BY <3>1, <3>2
  <2>4. Listed(Posts(k), threads[k].next, k, store.disk.post)
    BY <1>u, <2>1, <2>3, ListedAt DEF MemoryInv
  <2> QED
    BY <1>n, <1>u, <2>1, <2>2, <2>4 DEF MemoryInv, Posts
<1>9. NewIsEmpty'
  BY <1>n DEF NewIsEmpty, NoAnswer
<1> QED
  BY <1>1, <1>2, <1>3, <1>4, <1>5, <1>6, <1>7, <1>8, <1>9 DEF Good

-----------------------------------------------------------------------------
(* Crash and load                                                          *)

\* Without a request the store is whole.
LEMMA NotServing ==
  ASSUME Good, up # "serving"
  PROVE  /\ todo = <<>> /\ answer = NoAnswer /\ ~Writing
         /\ ~store.open /\ store.disk = store.seen
<1>1. todo = <<>> /\ answer = NoAnswer
  BY DEF Good, Typed
<1> QED
  BY <1>1, NoWriting DEF Good, StoreInv

LEMMA CrashStep == ASSUME Good, Crash PROVE Good'
<1>n. /\ up # "down" /\ up' = "down" /\ sent' = {} /\ threads' = [k \in Keys |-> NoThread]
      /\ counter' = 0 /\ todo' = <<>> /\ answer' = NoAnswer /\ store' = Recovered(store)
      /\ UNCHANGED <<said, removed, hurt, wiped>>
  BY DEF Crash, ghosts
<1>w. Writing' = FALSE
  BY <1>n DEF Writing, NoAnswer
<1>o. /\ store'.disk = store.disk /\ store'.seen = store.disk /\ store'.open = FALSE
      /\ store' \in [disk : Tables, seen : Tables, open : BOOLEAN]
  <2>1. store.disk \in Tables
    BY DEF Good, Typed
  <2> QED
    BY <1>n, <2>1 DEF Recovered
<1>t. /\ threads' \in [Keys -> Threads] /\ Open(threads') = {}
      /\ \A k \in Keys : Posts(k)' = <<>>
  BY <1>n, EmptyThread DEF Open, Posts
<1>s. Spared' = Spared /\ \A j \in Spared : j \in Keys
  BY <1>n DEF Spared
<1>1. Typed'
  <2>1. counter' \in 0..MaxKeys
    BY <1>n, ForumAssumption
  <2> QED
    BY <1>n, <1>o, <1>t, <2>1 DEF Good, Typed, AnswerOk, Loading
<1>2. TodoInv'
  BY <1>n, <1>w DEF TodoInv
<1>3. StoreInv'
  BY <1>o, <1>w DEF StoreInv
<1>4. KeyInv'
  <2>1. Cardinality(RowKeys(store.disk)) <= MaxThreads
    <3>1. CASE up = "serving"
      <4>1. RowKeys(store.disk) \subseteq Open(threads) /\ Cardinality(Open(threads)) <= MaxThreads
        BY <3>1 DEF Good, KeyInv
      <4>2. Open(threads) \in SUBSET Keys
        BY DEF Open
      <4>3. /\ Cardinality(RowKeys(store.disk)) <= Cardinality(Open(threads))
            /\ Cardinality(RowKeys(store.disk)) \in Nat /\ Cardinality(Open(threads)) \in Nat
        <5>1. RowKeys(store.disk) \in SUBSET Keys
          BY <4>1, <4>2
        <5> QED
          BY <4>1, <4>2, <5>1, KeysFinite, FS_Subset
      <4>4. MaxThreads \in Nat
        BY ForumAssumption
      <4> QED
        BY <4>1, <4>3, <4>4
    <3>2. CASE up # "serving"
      BY <3>2, NotServing DEF Good, KeyInv
    <3> QED
      BY <3>1, <3>2
  <2> QED
    BY <1>n, <1>o, <1>t, <2>1 DEF KeyInv, Loading
<1>5. Progress'
  BY <1>w DEF Progress
<1>6. SaidInv'
  BY <1>n, <1>o, <1>s DEF Good, SaidInv
<1>7. DiskInv'
  BY <1>o, <1>s DEF Good, DiskInv
<1>8. MemInv'
  BY <1>n, <1>s, <1>t DEF MemInv, MemoryInv
<1>9. NewIsEmpty'
  BY <1>n DEF NewIsEmpty, NoAnswer
<1> QED
  BY <1>1, <1>2, <1>3, <1>4, <1>5, <1>6, <1>7, <1>8, <1>9 DEF Good

LEMMA RestartStep == ASSUME Good, Restart PROVE Good'
<1>n. /\ up = "down" /\ up' = "header"
      /\ UNCHANGED <<threads, counter, todo, answer, store, sent, said, removed, hurt, wiped>>
  BY DEF Restart, memory, work, ghosts
<1>o. todo = <<>> /\ answer = NoAnswer /\ ~Writing /\ ~store.open /\ store.disk = store.seen /\ sent = {}
  BY <1>n, NotServing DEF Good, Typed, Loading
<1>w. Writing' = FALSE
  BY <1>n, <1>o DEF Writing
<1>s. Spared' = Spared /\ \A j \in Spared : j \in Keys
  BY <1>n DEF Spared
<1>1. Typed'
  BY <1>n, <1>o DEF Good, Typed, AnswerOk, Loading
<1>2. TodoInv'
  BY <1>n, <1>o, <1>w DEF TodoInv
<1>3. StoreInv'
  BY <1>n, <1>o, <1>w DEF StoreInv
<1>4. KeyInv'
  BY <1>n, <1>o DEF Good, KeyInv, Posts, Loading
<1>5. Progress'
  BY <1>w DEF Progress
<1>6. SaidInv' /\ DiskInv'
  BY <1>n, <1>s DEF Good, SaidInv, DiskInv
<1>8. MemInv'
  BY <1>n, <1>s DEF Good, MemInv, MemoryInv, Posts
<1>9. NewIsEmpty'
  BY <1>n, <1>o DEF NewIsEmpty, NoAnswer
<1> QED
  BY <1>1, <1>2, <1>3, <1>4, <1>5, <1>6, <1>8, <1>9 DEF Good

\* There is room for every row's thread.
LEMMA KnownKey ==
  ASSUME Good, up # "serving", NEW k \in RowKeys(store.seen)
  PROVE  Known(k)
<1>1. Cardinality(RowKeys(store.seen)) <= MaxThreads /\ Open(threads) \subseteq RowKeys(store.seen)
  BY DEF Good, KeyInv
<1>2. RowKeys(store.seen) \in SUBSET Keys
  <2>1. /\ store.seen.header \in SUBSET HeaderRows /\ store.seen.post \in SUBSET PostRows
        /\ store.seen.body \in SUBSET BodyRows
    BY DiskTyped DEF Good
  <2> QED
    BY <2>1 DEF RowKeys, HeaderRows, PostRows, BodyRows
<1>3. SUFFICES ASSUME ~threads[k].there PROVE Cardinality(Open(threads)) < MaxThreads
  BY DEF Known
<1>4. Open(threads) \in SUBSET Keys /\ k \notin Open(threads)
  BY <1>3 DEF Open
<1>5. Cardinality(Open(threads) \cup {k}) = Cardinality(Open(threads)) + 1
  BY <1>4, KeysFinite, FS_AddElement
<1>6. Cardinality(Open(threads) \cup {k}) <= Cardinality(RowKeys(store.seen))
  BY <1>1, <1>2, KeysFinite, FS_Subset
<1>7. Cardinality(RowKeys(store.seen)) \in Nat /\ Cardinality(Open(threads)) \in Nat /\ MaxThreads \in Nat
  BY <1>2, <1>4, KeysFinite, ForumAssumption
<1> QED
  BY <1>1, <1>5, <1>6, <1>7

\* A row is loaded into its thread; the other threads stand.
LEMMA LoadFrame ==
  ASSUME Good, up \in Loading, NEW r \in store.seen[up] \ sent, NEW t \in Threads, t.there, r.key \in Keys,
         r.key \in RowKeys(store.seen), counter' \in 0..MaxKeys,
         threads' = [threads EXCEPT ![r.key] = t], sent' = sent \cup {r},
         UNCHANGED <<up, todo, answer, store, said, removed, hurt, wiped>>,
         r.key \in Spared => MemoryInv(r.key)'
  PROVE  Good'
<1>o. /\ todo = <<>> /\ answer = NoAnswer /\ ~Writing /\ ~store.open /\ store.disk = store.seen
      /\ up # "serving" /\ up # "down"
  BY NotServing DEF Loading
<1>w. Writing' = FALSE
  BY <1>o DEF Writing
<1>s. Spared' = Spared /\ \A j \in Spared : j \in Keys
  BY DEF Spared
<1>t. /\ threads \in [Keys -> Threads] /\ threads' \in [Keys -> Threads] /\ threads'[r.key] = t
      /\ \A j \in Keys \ {r.key} : threads'[j] = threads[j]
  BY DEF Good, Typed
<1>k. Open(threads') = Open(threads) \cup {r.key}
  BY <1>t DEF Open
<1>1. Typed'
  BY <1>o, <1>t DEF Good, Typed, AnswerOk
<1>2. TodoInv'
  BY <1>o, <1>w DEF TodoInv
<1>3. StoreInv'
  BY <1>o, <1>w DEF StoreInv
<1>4. KeyInv'
  <2>1. \A k \in Keys : Posts(k)' # <<>> => threads'[k].there
    BY <1>t DEF Good, KeyInv, Posts
  <2>2. Cardinality(RowKeys(store.seen)) <= MaxThreads /\ Open(threads') \subseteq RowKeys(store.seen)
    BY <1>o, <1>k DEF Good, KeyInv
  <2>3. {x.key : x \in sent'} \subseteq Open(threads')
    BY <1>k DEF Good, KeyInv
  <2>4. /\ up \in {"post", "body"} => {x.key : x \in store.seen.header} \subseteq Open(threads')
        /\ up = "body" => {x.key : x \in store.seen.post} \subseteq Open(threads')
    BY <1>k DEF Good, KeyInv
  <2> QED
    BY <1>o, <2>1, <2>2, <2>3, <2>4 DEF KeyInv
<1>5. Progress'
  BY <1>w DEF Progress
<1>6. SaidInv' /\ DiskInv'
  BY <1>s DEF Good, SaidInv, DiskInv
<1>8. MemInv'
  <2> SUFFICES ASSUME NEW k \in Spared, k # r.key PROVE MemoryInv(k)'
    <3>1. ASSUME NEW k \in Spared, k = r.key PROVE MemoryInv(k)'
      BY <3>1
    <3> QED
      BY <1>s, <3>1 DEF MemInv
  <2>1. MemoryInv(k) /\ threads'[k] = threads[k]
    BY <1>s, <1>t DEF Good, MemInv
  <2>2. Of(sent', k) = Of(sent, k)
    BY DEF Of
  <2>3. \A p : Text(p, k)' = Text(p, k)
    BY DEF Text
  <2>4. up = "post" => Listed(Posts(k), threads[k].next, k, sent')
    BY <2>1, <2>2, ListedAt DEF MemoryInv
  <2> QED
    BY <1>o, <2>1, <2>3, <2>4 DEF MemoryInv, Posts
<1>9. NewIsEmpty'
  BY <1>o DEF NewIsEmpty, NoAnswer
<1> QED
  BY <1>1, <1>2, <1>3, <1>4, <1>5, <1>6, <1>8, <1>9 DEF Good

LEMMA LoadHeaderStep == ASSUME Good, NEW r \in store.seen.header, LoadHeader(r) PROVE Good'
<1>n. /\ up = "header" /\ r \in store.seen[up] \ sent /\ sent' = sent \cup {r}
      /\ UNCHANGED <<up, todo, answer, store, said, removed, hurt, wiped>>
  BY DEF LoadHeader, Row, work, ghosts
<1>r. r \in HeaderRows /\ r.key \in Keys /\ r.title \in Titles /\ r.op \in Tokens \cup {Nobody}
      /\ r.locked \in BOOLEAN
  <2>1. r \in HeaderRows
    BY DiskTyped DEF Good
  <2> QED
    BY <2>1 DEF HeaderRows
<1>k. r.key \in RowKeys(store.seen)
  BY DEF RowKeys
<1> DEFINE t == [Loaded(r.key) EXCEPT !.title = r.title, !.op = r.op, !.locked = r.locked]
<1>1. threads' = [threads EXCEPT ![r.key] = t] /\ counter' = IF r.key > counter THEN r.key ELSE counter
  BY <1>n, <1>k, KnownKey DEF LoadHeader
<1>2. counter' \in 0..MaxKeys
  BY <1>1, <1>r, ForumAssumption DEF Good, Typed, Keys
<1>3. t \in Threads /\ t.there /\ t.posts = Posts(r.key)
  <2>1. threads[r.key] \in Threads
    BY <1>r DEF Good, Typed
  <2>2. Loaded(r.key) \in Threads /\ Loaded(r.key).there /\ Loaded(r.key).posts = Posts(r.key)
    BY <2>1 DEF Loaded, Threads, Posts
  <2> QED
    BY <1>r, <2>2 DEF Threads
<1>4. PICK s \in Threads : s = t
  BY <1>3
<1> HIDE DEF t
<1>5. r.key \in Spared => MemoryInv(r.key)'
  <2> SUFFICES ASSUME r.key \in Spared PROVE MemoryInv(r.key)'
    OBVIOUS
  <2>1. Posts(r.key) = <<>>
    BY <1>n DEF Good, MemInv, MemoryInv
  <2>2. threads'[r.key] = t
    BY <1>1, <1>r DEF Good, Typed
  <2> QED
    BY <1>n, <1>3, <2>1, <2>2 DEF MemoryInv, Posts
<1> QED
  BY <1>n, <1>r, <1>k, <1>1, <1>2, <1>3, <1>4, <1>5, LoadFrame DEF Loading

\* A row of a post comes to its place among those that came.
LEMMA RowInserted ==
  ASSUME NEW q \in Seq(Entered), NEW n \in Nat, NEW k \in Keys, NEW R \in SUBSET PostRows,
         Listed(q, n, k, R), \A i \in 1..Len(q) : q[i].body = {},
         NEW p \in Entered, p.body = {}, NEW r, r = PostRow(k, p), r \notin R,
         \A x \in Of(R, k) : x.seq # p.seq
  PROVE  /\ Listed(InsertBySeq(q, p), NextSeq(n, p.seq), k, R \cup {r})
         /\ \A i \in 1..Len(InsertBySeq(q, p)) : InsertBySeq(q, p)[i].body = {}
<1> DEFINE u == InsertBySeq(q, p)
           m == NextSeq(n, p.seq)
<1>1. \A i \in 1..Len(q) : /\ q[i] \in Entered /\ q[i].seq < n /\ q[i].seq \in Nat /\ PostRow(k, q[i]) \in R
                           /\ PostRow(k, q[i]) \in Of(R, k) /\ PostRow(k, q[i]).seq = q[i].seq
  BY ElementIs, RowFields DEF Listed, Of
<1>2. \A i \in 1..Len(q) : q[i].seq # p.seq
  BY <1>1
<1>3. /\ u \in Seq(Entered) /\ Sorted(u)
      /\ \A j \in 1..Len(u) : u[j] = p \/ \E i \in 1..Len(q) : u[j] = q[i]
      /\ \E j \in 1..Len(u) : u[j] = p
      /\ \A i \in 1..Len(q) : \E j \in 1..Len(u) : u[j] = q[i]
  BY <1>2, InsertedBySeq DEF Listed
<1>4. m \in Nat /\ n <= m /\ p.seq < m
  BY RowFields DEF NextSeq
<1> HIDE DEF u, m
<1>5. ASSUME NEW j \in 1..Len(u)
      PROVE  u[j].seq < m /\ PostRow(k, u[j]) \in R \cup {r} /\ u[j].body = {}
  <2>1. CASE u[j] = p
    BY <1>4, <2>1
  <2>2. CASE \E i \in 1..Len(q) : u[j] = q[i]
    <3>1. PICK i \in 1..Len(q) : u[j] = q[i]
      BY <2>2
    <3>2. q[i].seq < m
      BY <1>1, <1>4
    <3> QED
      BY <1>1, <3>1, <3>2
  <2> QED
    BY <1>3, <2>1, <2>2
<1>6. \A x \in Of(R \cup {r}, k) : \E j \in 1..Len(u) : x = PostRow(k, u[j])
  <2> TAKE x \in Of(R \cup {r}, k)
  <2>1. CASE x = r
    BY <1>3, <2>1
  <2>2. CASE x \in R
    <3>1. PICK i \in 1..Len(q) : x = PostRow(k, q[i])
      BY <2>2 DEF Listed, Of
    <3>2. PICK j \in 1..Len(u) : u[j] = q[i]
      BY <1>3
    <3> QED
      BY <3>1, <3>2
  <2> QED
    BY <2>1, <2>2 DEF Of
<1> QED
  BY <1>3, <1>5, <1>6 DEF Listed, u, m

LEMMA LoadPostStep == ASSUME Good, NEW r \in store.seen.post, LoadPost(r) PROVE Good'
<1>n. /\ up = "post" /\ r \in store.seen[up] \ sent /\ r \notin sent /\ sent' = sent \cup {r}
      /\ UNCHANGED <<up, counter, todo, answer, store, said, removed, hurt, wiped>>
  BY DEF LoadPost, Row, work, ghosts
<1>o. store.disk = store.seen /\ sent \subseteq store.seen.post
  BY <1>n, NotServing DEF Good, Typed, Loading
<1>r. r \in PostRows /\ r.key \in Keys
  <2>1. r \in PostRows
    BY DiskTyped DEF Good
  <2> QED
    BY <2>1 DEF PostRows
<1>k. r.key \in RowKeys(store.seen)
  BY DEF RowKeys
<1> DEFINE e == [seq |-> r.seq, author |-> r.author, tomb |-> r.tomb, body |-> {},
                 chash |-> r.chash, ihash |-> r.ihash]
<1>e. e \in Entered /\ e.body = {} /\ e.seq = r.seq /\ PostRow(r.key, e) = r
  <2>1. e \in Entered
    BY <1>r DEF Entered, PostRows
  <2>2. PostRow(r.key, e) = [key |-> r.key, seq |-> r.seq, author |-> r.author, tomb |-> r.tomb,
                             chash |-> r.chash, ihash |-> r.ihash]
    BY DEF PostRow
  <2>3. r = [key |-> r.key, seq |-> r.seq, author |-> r.author, tomb |-> r.tomb,
             chash |-> r.chash, ihash |-> r.ihash]
    BY <1>r DEF PostRows
  <2> QED
    BY <2>1, <2>2, <2>3
<1>p. PICK p \in Entered : p = e
  BY <1>e
<1> DEFINE t == [Loaded(r.key) EXCEPT !.posts = InsertBySeq(@, p), !.next = NextSeq(@, r.seq)]
<1>1. threads' = [threads EXCEPT ![r.key] = t]
  BY <1>n, <1>k, <1>p, KnownKey DEF LoadPost
<1> HIDE DEF e
<1> DEFINE q == Posts(r.key)
           n == threads[r.key].next
<1>2. threads[r.key] \in Threads /\ q \in Seq(Entered) /\ n \in Nat
  BY <1>r DEF Good, Typed, Threads, Posts
<1>3. t \in Threads /\ t.there /\ t.posts = InsertBySeq(q, p) /\ t.next = NextSeq(n, p.seq)
  <2> DEFINE a == Loaded(r.key)
             u == InsertBySeq(q, p)
             m == NextSeq(n, p.seq)
  <2>1. a \in Threads /\ a.there /\ a.posts = q /\ a.next = n
    BY <1>2 DEF Loaded, Threads, Posts
  <2>2. u \in Seq(Entered)
    BY <1>2, InsertType
  <2>3. m \in Nat
    BY <1>2, <1>r, <1>e, <1>p DEF NextSeq, PostRows
  <2>4. t = [[a EXCEPT !.posts = u] EXCEPT !.next = m]
    <3>1. p.seq = r.seq
      BY <1>e, <1>p
    <3> QED
      BY <2>1, <3>1 DEF Threads
  <2> HIDE DEF a, u, m, q, n, t
  <2>5. t \in Threads /\ t.there /\ t.posts = u /\ t.next = m
    BY <2>1, <2>2, <2>3, <2>4 DEF Threads
  <2> QED
    BY <2>5 DEF u, m
<1>4. PICK s \in Threads : s = t
  BY <1>3
<1> HIDE DEF t
<1>5. r.key \in Spared => MemoryInv(r.key)'
  <2> SUFFICES ASSUME r.key \in Spared PROVE MemoryInv(r.key)'
    OBVIOUS
  <2> DEFINE k == r.key
  <2>1. Listed(q, n, k, sent) /\ \A i \in 1..Len(q) : q[i].body = {}
    BY <1>n DEF Good, MemInv, MemoryInv
  <2>2. \A x \in Of(sent, k) : x.seq # p.seq
    <3>1. Sound(store.disk, k)
      BY DEF Good, DiskInv
    <3>2. r \in Of(store.disk.post, k)
      BY <1>o DEF Of
    <3> SUFFICES ASSUME NEW x \in Of(sent, k), x.seq = p.seq PROVE FALSE
      OBVIOUS
    <3>3. x \in Of(store.disk.post, k) /\ x \in sent
      BY <1>o DEF Of
    <3>4. x.seq = r.seq
      BY <1>e, <1>p
    <3> QED
      BY <1>n, <3>1, <3>2, <3>3, <3>4 DEF Sound
  <2>3. sent \in SUBSET PostRows
    BY <1>o, DiskTyped DEF Good
  <2>4. /\ Listed(InsertBySeq(q, p), NextSeq(n, p.seq), k, sent \cup {r})
        /\ \A i \in 1..Len(InsertBySeq(q, p)) : InsertBySeq(q, p)[i].body = {}
    <3>1. r = PostRow(k, p) /\ p.body = {} /\ r \notin sent /\ k \in Keys
      BY <1>e, <1>n, <1>p, <1>r
    <3> HIDE DEF q, n, k
    <3>2. q \in Seq(Entered) /\ n \in Nat
      BY <1>2
    <3> QED
      BY <2>1, <2>2, <2>3, <3>1, <3>2, RowInserted
  <2>5. threads'[r.key] = t
    BY <1>1, <1>r DEF Good, Typed
  <2> QED
    BY <1>n, <1>3, <2>4, <2>5 DEF MemoryInv, Posts
<1>6. counter' \in 0..MaxKeys
  BY <1>n DEF Good, Typed
<1> QED
  BY <1>n, <1>r, <1>k, <1>1, <1>3, <1>4, <1>5, <1>6, LoadFrame DEF Loading

\* A chunk is the only one of its place in a sound table.
LEMMA ChunkOnce ==
  ASSUME NEW d \in Tables, NEW k \in Keys, Sound(d, k),
         NEW b \in Of(d.body, k), NEW c \in Of(d.body, k), b.seq = c.seq, b.part = c.part
  PROVE  b = c
<1>1. PICK r \in Of(d.post, k), x \in Of(d.post, k) : /\ b.seq = r.seq /\ b.of = r.chash
                                                      /\ c.seq = x.seq /\ c.of = x.chash
  BY DEF Sound
<1>2. r = x
  BY <1>1 DEF Sound
<1>3. b \in BodyRows /\ c \in BodyRows /\ b.key = c.key
  BY DEF Tables, Of
<1>4. b.of = c.of
  BY <1>1, <1>2
<1> QED
  BY <1>3, <1>4 DEF BodyRows

LEMMA LoadBodyStep == ASSUME Good, NEW r \in store.seen.body, LoadBody(r) PROVE Good'
<1>n. /\ up = "body" /\ r \in store.seen[up] \ sent /\ r \notin sent /\ sent' = sent \cup {r}
      /\ UNCHANGED <<up, counter, todo, answer, store, said, removed, hurt, wiped>>
  BY DEF LoadBody, Row, work, ghosts
<1>o. store.disk = store.seen /\ sent \subseteq store.seen.body
  BY <1>n, NotServing DEF Good, Typed, Loading
<1>r. r \in BodyRows /\ r.key \in Keys
  <2>1. r \in BodyRows
    BY DiskTyped DEF Good
  <2> QED
    BY <2>1 DEF BodyRows
<1>k. r.key \in RowKeys(store.seen)
  BY DEF RowKeys
<1> DEFINE piece == [part |-> r.part, of |-> r.of]
           Filled(p) == IF p.seq # r.seq THEN p
                        ELSE [p EXCEPT !.body = {c \in @ : c.part # r.part} \cup {piece}]
           t == [Loaded(r.key) EXCEPT !.posts = [i \in DOMAIN @ |-> Filled(@[i])]]
           q == Posts(r.key)
           n == threads[r.key].next
           u == [i \in 1..Len(q) |-> Filled(q[i])]
<1>1. threads' = [threads EXCEPT ![r.key] = t]
  <2>1. Known(r.key)
    BY <1>n, <1>k, KnownKey
  <2> QED
    BY <2>1, Zenon DEF LoadBody
<1>2. threads[r.key] \in Threads /\ q \in Seq(Entered) /\ n \in Nat /\ Len(q) \in Nat
  BY <1>r DEF Good, Typed, Threads, Posts
<1>3. piece \in Pieces
  BY <1>r DEF Pieces, BodyRows
<1> HIDE DEF piece
<1>4. \A e \in Entered : /\ Filled(e) \in Entered /\ Filled(e).seq = e.seq
                         /\ PostRow(r.key, Filled(e)) = PostRow(r.key, e)
                         /\ e.seq # r.seq => Filled(e).body = e.body
                         /\ e.seq = r.seq => Filled(e).body = {c \in e.body : c.part # r.part} \cup {piece}
  <2> SUFFICES ASSUME NEW e \in Entered
               PROVE  /\ Filled(e) \in Entered /\ Filled(e).seq = e.seq
                      /\ PostRow(r.key, Filled(e)) = PostRow(r.key, e)
                      /\ e.seq # r.seq => Filled(e).body = e.body
                      /\ e.seq = r.seq => Filled(e).body = {c \in e.body : c.part # r.part} \cup {piece}
    OBVIOUS
  <2>1. CASE e.seq # r.seq
    BY <2>1
  <2>2. CASE e.seq = r.seq
    <3> DEFINE b == {c \in e.body : c.part # r.part} \cup {piece}
    <3>1. b \in SUBSET Pieces
      BY <1>3 DEF Entered
    <3>2. Filled(e) = [e EXCEPT !.body = b]
      BY <2>2
    <3> HIDE DEF b, Filled
    <3>3. /\ Filled(e) \in Entered /\ Filled(e).body = b /\ Filled(e).seq = e.seq
          /\ Filled(e).author = e.author /\ Filled(e).tomb = e.tomb /\ Filled(e).chash = e.chash
          /\ Filled(e).ihash = e.ihash
      BY <3>1, <3>2 DEF Entered
    <3>4. PostRow(r.key, Filled(e)) = PostRow(r.key, e)
      BY <3>3 DEF PostRow
    <3> QED
      BY <2>2, <3>3, <3>4 DEF b
  <2> QED
    BY <2>1, <2>2
<1> HIDE DEF Filled
<1>5. /\ u \in Seq(Entered) /\ Len(u) = Len(q)
      /\ \A i \in 1..Len(q) : q[i] \in Entered /\ u[i] = Filled(q[i])
  <2>1. \A i \in 1..Len(q) : q[i] \in Entered /\ Filled(q[i]) \in Entered
    BY <1>2, <1>4, ElementIs
  <2> HIDE DEF q
  <2> QED
    BY <2>1, <1>2
<1>6. t \in Threads /\ t.there /\ t.posts = u /\ t.next = n
  <2> DEFINE a == Loaded(r.key)
  <2>1. a \in Threads /\ a.there /\ a.posts = q /\ a.next = n /\ DOMAIN a.posts = 1..Len(q)
    <3>1. a \in Threads /\ a.there /\ a.posts = q /\ a.next = n
      BY <1>2 DEF Loaded, Threads, Posts
    <3>2. DOMAIN q = 1..Len(q)
      BY <1>2
    <3> QED
      BY <3>1, <3>2
  <2>2. t = [a EXCEPT !.posts = u]
    <3>1. t = [a EXCEPT !.posts = [i \in DOMAIN a.posts |-> Filled(a.posts[i])]]
      OBVIOUS
    <3> HIDE DEF a, q, t
    <3> QED
      BY <2>1, <3>1
  <2> HIDE DEF a, u, n, t
  <2>3. t \in Threads /\ t.there /\ t.posts = u /\ t.next = n
    BY <1>5, <2>1, <2>2 DEF Threads
  <2> QED
    BY <2>3
<1>7. PICK s \in Threads : s = t
  BY <1>6
<1> HIDE DEF t, u
<1>8. r.key \in Spared => MemoryInv(r.key)'
  <2> SUFFICES ASSUME r.key \in Spared PROVE MemoryInv(r.key)'
    OBVIOUS
  <2> DEFINE k == r.key
  <2>1. Listed(q, n, k, store.disk.post) /\ \A i \in 1..Len(q) : q[i].body = Text(q[i], k)
    BY <1>n DEF Good, MemInv, MemoryInv
  <2>2. Sound(store.disk, k)
    BY DEF Good, DiskInv
  <2>3. \A i \in 1..Len(q) : u[i].seq = q[i].seq /\ PostRow(k, u[i]) = PostRow(k, q[i])
    BY <1>4, <1>5
  <2>4. Listed(u, n, k, store.disk.post)
    <3> HIDE DEF q, n
    <3>1. Sorted(u)
      BY <1>5, <2>1, <2>3 DEF Listed, Sorted
    <3> QED
      BY <1>5, <2>1, <2>3, <3>1 DEF Listed
  <2>5. ASSUME NEW i \in 1..Len(u), NEW e, e = u[i] PROVE e.body = Text(e, k)'
    <3> DEFINE T == {[part |-> b.part, of |-> b.of] : b \in {c \in sent : c.key = k /\ c.seq = q[i].seq}}
               W == {[part |-> b.part, of |-> b.of] : b \in {c \in sent' : c.key = k /\ c.seq = q[i].seq}}
    <3>0. i \in 1..Len(q) /\ u[i].seq = q[i].seq /\ q[i] \in Entered /\ u[i] = Filled(q[i])
      BY <1>5, <2>3
    <3>1. q[i].body = T
      BY <3>0, <2>1 DEF Text
    <3>2. Text(e, k)' = W
      BY <2>5, <3>0 DEF Text
    <3>3. CASE q[i].seq # r.seq
      <4>1. W = T
        BY <1>n, <3>3
      <4> QED
        BY <1>4, <2>5, <3>0, <3>1, <3>2, <3>3, <4>1
    <3>4. CASE q[i].seq = r.seq
      <4>1. W = T \cup {piece}
        BY <1>n, <3>4 DEF piece
      <4>2. \A c \in T : c.part # r.part
        <5> SUFFICES ASSUME NEW b \in sent, b.key = k, b.seq = q[i].seq, b.part = r.part PROVE FALSE
          OBVIOUS
        <5>1. b \in Of(store.disk.body, k) /\ r \in Of(store.disk.body, k)
          BY <1>o DEF Of
        <5>2. store.disk \in Tables
          BY DEF Good, Typed
        <5>3. b = r
          BY <1>r, <2>2, <3>4, <5>1, <5>2, ChunkOnce
        <5> QED
          BY <1>n, <5>3
      <4>3. u[i].body = {c \in T : c.part # r.part} \cup {piece}
        BY <1>4, <3>0, <3>1, <3>4
      <4> HIDE DEF T, W
      <4> QED
        BY <2>5, <3>2, <4>1, <4>2, <4>3
    <3> QED
      BY <3>3, <3>4
  <2>6. threads'[r.key] = t
    BY <1>1, <1>r DEF Good, Typed
  <2>7. PICK w : w = u
    OBVIOUS
  <2>8. \A i \in 1..Len(w) : w[i].body = Text(w[i], k)'
    BY <2>5, <2>7
  <2>9. Posts(k)' = w /\ threads'[k].next = n
    BY <1>6, <2>6, <2>7 DEF Posts
  <2>10. \A i \in 1..Len(Posts(k)') : Posts(k)'[i].body = Text(Posts(k)[i], k)'
    BY <2>8, <2>9
  <2> QED
    BY <1>n, <2>4, <2>7, <2>9, <2>10 DEF MemoryInv
<1>9. counter' \in 0..MaxKeys
  BY <1>n DEF Good, Typed
<1> QED
  BY <1>n, <1>r, <1>k, <1>1, <1>6, <1>7, <1>8, <1>9, LoadFrame DEF Loading

\* What has come back of a post whose chunks have all come is its text.
LEMMA TextWhole ==
  ASSUME NEW d \in Tables, NEW k \in Keys, Sound(d, k), NEW e \in Entered, PostRow(k, e) \in d.post
  PROVE  {[part |-> b.part, of |-> b.of] : b \in {c \in d.body : c.key = k /\ c.seq = e.seq}}
            = IF e.tomb THEN {} ELSE Whole(e.chash)
<1> DEFINE r == PostRow(k, e)
           T == {[part |-> b.part, of |-> b.of] : b \in {c \in d.body : c.key = k /\ c.seq = e.seq}}
<1>1. r \in Of(d.post, k) /\ r.key = k /\ r.seq = e.seq /\ r.tomb = e.tomb /\ r.chash = e.chash
  BY RowFields DEF Of
<1> HIDE DEF r
<1>2. ASSUME NEW b \in d.body, b.key = k, b.seq = e.seq
      PROVE  ~e.tomb /\ b.of = e.chash /\ b.part \in 1..Chunks[e.chash]
  <2>1. PICK x \in Of(d.post, k) : /\ b.seq = x.seq /\ ~x.tomb /\ b.of = x.chash
                                   /\ b.part \in 1..Chunks[x.chash]
    BY <1>2 DEF Sound, Of
  <2>2. x = r
    BY <1>1, <1>2, <2>1 DEF Sound
  <2> QED
    BY <1>1, <2>1, <2>2
<1>3. CASE e.tomb
  BY <1>2, <1>3
<1>4. CASE ~e.tomb
  <2>1. \A c \in T : c \in Whole(e.chash)
    <3> SUFFICES ASSUME NEW b \in d.body, b.key = k, b.seq = e.seq
                 PROVE  [part |-> b.part, of |-> b.of] \in Whole(e.chash)
      OBVIOUS
    <3>1. b.of = e.chash /\ b.part \in 1..Chunks[e.chash]
      BY <1>2
    <3> QED
      BY <3>1 DEF Whole
  <2>2. \A c \in Whole(e.chash) : c \in T
    <3> SUFFICES ASSUME NEW i \in 1..Chunks[e.chash] PROVE [part |-> i, of |-> e.chash] \in T
      BY DEF Whole
    <3> DEFINE b == ChunkRow(r, i)
    <3>1. b \in d.body
      BY <1>1, <1>4 DEF Sound, Of
    <3>2. b.key = k /\ b.seq = e.seq /\ b.part = i /\ b.of = e.chash
      BY <1>1, ChunkFields
    <3> HIDE DEF b
    <3> QED
      BY <3>1, <3>2
  <2> HIDE DEF T
  <2>3. T = Whole(e.chash)
    BY <2>1, <2>2
  <2> QED
    BY <1>4, <2>3 DEF T
<1> QED
  BY <1>3, <1>4

LEMMA NextTableStep == ASSUME Good, NextTable PROVE Good'
<1>n. /\ up \in Loading /\ sent = store.seen[up] /\ sent' = {}
      /\ up' = IF up = "header" THEN "post" ELSE IF up = "post" THEN "body" ELSE "serving"
      /\ UNCHANGED <<threads, counter, todo, answer, store, said, removed, hurt, wiped>>
  BY DEF NextTable, memory, work, ghosts
<1>o. /\ todo = <<>> /\ answer = NoAnswer /\ ~Writing /\ ~store.open /\ store.disk = store.seen
      /\ up # "serving" /\ up # "down"
  <2>1. up # "serving" /\ up # "down"
    BY <1>n DEF Loading
  <2> QED
    BY <2>1, NotServing
<1>u. \/ up = "header" /\ up' = "post" /\ sent = store.seen.header
      \/ up = "post" /\ up' = "body" /\ sent = store.seen.post
      \/ up = "body" /\ up' = "serving" /\ sent = store.seen.body
  BY <1>n DEF Loading
<1>w. Writing' = FALSE
  BY <1>n, <1>o DEF Writing
<1>s. Spared' = Spared /\ \A j \in Spared : j \in Keys
  BY <1>n DEF Spared
<1>d. store.disk \in Tables
  BY DEF Good, Typed
<1>1. Typed'
  BY <1>n, <1>o, <1>u DEF Good, Typed, AnswerOk, Loading
<1>2. TodoInv'
  BY <1>n, <1>o, <1>w DEF TodoInv
<1>3. StoreInv'
  BY <1>n, <1>o, <1>w DEF StoreInv
<1>4. KeyInv'
  <2>1. \A k \in Keys : Posts(k)' # <<>> => threads'[k].there
    BY <1>n DEF Good, KeyInv, Posts
  <2>2. /\ Cardinality(RowKeys(store.seen)) <= MaxThreads /\ Open(threads) \subseteq RowKeys(store.seen)
        /\ {r.key : r \in sent} \subseteq Open(threads)
        /\ up \in {"post", "body"} => {r.key : r \in store.seen.header} \subseteq Open(threads)
        /\ up = "body" => {r.key : r \in store.seen.post} \subseteq Open(threads)
    BY <1>n, <1>o DEF Good, KeyInv
  <2>3. CASE up # "body"
    BY <1>n, <1>u, <2>1, <2>2, <2>3 DEF KeyInv, Loading
  <2>4. CASE up = "body"
    <3>1. RowKeys(store.seen) \subseteq Open(threads)
      BY <1>u, <2>2, <2>4 DEF RowKeys
    <3>2. Open(threads) = RowKeys(store.seen)
      BY <2>2, <3>1
    <3>3. Cardinality(Open(threads)) <= MaxThreads
      BY <2>2, <3>2
    <3> QED
      BY <1>n, <1>o, <1>u, <2>1, <2>4, <3>1, <3>3 DEF KeyInv, Loading
  <2> QED
    BY <2>3, <2>4
<1>5. Progress'
  BY <1>w DEF Progress
<1>6. SaidInv' /\ DiskInv'
  BY <1>n, <1>s DEF Good, SaidInv, DiskInv
<1>7. MemInv'
  <2> SUFFICES ASSUME NEW k \in Spared PROVE MemoryInv(k)'
    BY <1>s DEF MemInv
  <2> DEFINE q == Posts(k)
             n == threads[k].next
  <2>1. MemoryInv(k) /\ Sound(store.disk, k)
    BY DEF Good, MemInv, DiskInv
  <2>2. Posts(k)' = q /\ threads'[k].next = n
    BY <1>n DEF Posts
  <2>3. CASE up = "header"
    <3>1. q = <<>> /\ up' = "post" /\ sent' = {}
      BY <1>n, <1>u, <2>1, <2>3 DEF MemoryInv
    <3>2. Listed(<<>>, n, k, {})
      BY ListedNone DEF Of
    <3> QED
      BY <2>2, <3>1, <3>2 DEF MemoryInv
  <2>4. CASE up = "post"
    <3>1. /\ Listed(q, n, k, store.disk.post) /\ \A i \in 1..Len(q) : q[i].body = {}
          /\ up' = "body" /\ sent' = {}
      BY <1>n, <1>o, <1>u, <2>1, <2>4 DEF MemoryInv
    <3>2. \A p : Text(p, k)' = {}
      BY <3>1 DEF Text
    <3> QED
      BY <1>n, <2>2, <3>1, <3>2 DEF MemoryInv
  <2>5. CASE up = "body"
    <3>1. /\ Listed(q, n, k, store.disk.post) /\ \A i \in 1..Len(q) : q[i].body = Text(q[i], k)
          /\ up' = "serving" /\ sent = store.disk.body
      BY <1>o, <1>u, <2>1, <2>5 DEF MemoryInv
    <3>2. q \in Seq(Entered) /\ store.disk.post \in SUBSET PostRows
      BY <1>s, <1>d DEF Good, Typed, Threads, Posts, Tables
    <3>3. Chains(q)
      <4>1. \A r \in Of(store.disk.post, k) : Chained(Of(store.disk.post, k), r)
        BY <2>1 DEF Sound
      <4> HIDE DEF q, n
      <4> QED
        BY <1>s, <3>1, <3>2, <4>1, ChainedListed
    <3>4. Texted(q)
      <4> SUFFICES ASSUME NEW i \in 1..Len(q)
                   PROVE  q[i].body = IF q[i].tomb THEN {} ELSE Whole(q[i].chash)
        BY DEF Texted
      <4>1. PICK e \in Entered : e = q[i]
        BY <3>2, ElementIs
      <4>2. PostRow(k, e) \in store.disk.post
        BY <3>1, <4>1 DEF Listed
      <4>3. {[part |-> b.part, of |-> b.of] : b \in {c \in store.disk.body : c.key = k /\ c.seq = e.seq}}
               = IF e.tomb THEN {} ELSE Whole(e.chash)
        BY <1>d, <1>s, <2>1, <4>2, TextWhole
      <4>4. e.body = Text(e, k)
        BY <3>1, <4>1
      <4> QED
        BY <3>1, <4>1, <4>3, <4>4 DEF Text
    <3>5. Target(k)' = store.disk.post
      BY <1>n, <1>w DEF Target
    <3> QED
      BY <2>2, <3>1, <3>3, <3>4, <3>5 DEF MemoryInv
  <2> QED
    BY <1>u, <2>3, <2>4, <2>5
<1>9. NewIsEmpty'
  BY <1>n, <1>o DEF NewIsEmpty, NoAnswer
<1> QED
  BY <1>1, <1>2, <1>3, <1>4, <1>5, <1>6, <1>7, <1>9 DEF Good

-----------------------------------------------------------------------------
LEMMA ForumStep == ForumInv /\ [Next]_vars => ForumInv'
<1> SUFFICES ASSUME ForumInv, [Next]_vars PROVE ForumInv'
  OBVIOUS
<1>1. CASE Keys \subseteq hurt
  <2>1. hurt \subseteq hurt'
    <3>1. CASE UNCHANGED vars
      BY <3>1 DEF vars, ghosts
    <3>2. CASE Next
      <4>0. Request => hurt' = hurt
        BY DEF Request
      <4>1. /\ \A who, k, text : Post(who, k, text) => Request
            /\ \A who, k, i : Tomb(who, k, i) => Request
            /\ \A who, k, title : Title(who, k, title) => Request
            /\ \A who, k : Lock(who, k) => Request
            /\ \A who, title : New(who, title) => Request
            /\ \A k : Reset(k) => Request
            /\ NewRefused => Request
        BY Zenon DEF Post, Tomb, Title, Lock, New, Reset, NewRefused
      <4>2. /\ Execute \/ Answer \/ Crash \/ Restart \/ NextTable => hurt' = hurt
            /\ \A r : LoadHeader(r) \/ LoadPost(r) \/ LoadBody(r) => hurt' = hurt
        BY Zenon DEF Execute, Answer, Crash, Restart, NextTable, LoadHeader, LoadPost, LoadBody, Row, ghosts
      <4>3. ExecuteRefused => hurt \subseteq hurt'
        BY DEF ExecuteRefused
      <4> QED
        BY <3>2, <4>0, <4>1, <4>2, <4>3, Zenon DEF Next
    <3> QED
      BY <3>1, <3>2
  <2> QED
    BY <1>1, <2>1 DEF ForumInv
<1>2. CASE Good
  <2> USE <1>2
  <2>1. CASE UNCHANGED vars
    <3>1. UNCHANGED <<up, threads, counter, todo, answer, store, sent, said, removed, hurt, wiped>>
      BY <2>1 DEF vars, memory, work, ghosts
    <3>2. Writing' = Writing /\ Done' = Done /\ Spared' = Spared
      BY <3>1 DEF Writing, Done, Spared
    <3>3. Typed' /\ TodoInv' /\ StoreInv' /\ KeyInv'
      BY <3>1, <3>2 DEF Good, Typed, AnswerOk, TodoInv, StoreInv, KeyInv, Posts
    <3>4. Progress' /\ DiskInv' /\ SaidInv' /\ NewIsEmpty'
      BY <3>1, <3>2 DEF Good, Progress, DiskInv, SaidInv, NewIsEmpty
    <3>5. MemInv'
      <4> SUFFICES ASSUME NEW k \in Spared PROVE MemoryInv(k)'
        BY <3>2 DEF MemInv
      <4>1. MemoryInv(k)
        BY DEF Good, MemInv
      <4>2. Target(k)' = Target(k) /\ \A p : Text(p, k)' = Text(p, k)
        BY <3>1, <3>2 DEF Target, Text
      <4> QED
        BY <3>1, <4>1, <4>2 DEF MemoryInv, Posts
    <3> QED
      BY <3>3, <3>4, <3>5 DEF Good, ForumInv
  <2>2. ASSUME NEW who \in Tokens, NEW title \in Titles, New(who, title) PROVE ForumInv'
    BY <2>2, NewStep DEF ForumInv
  <2>3. ASSUME NEW who \in Tokens, NEW k \in Keys, NEW text \in Texts, Post(who, k, text) PROVE ForumInv'
    BY <2>3, PostStep DEF ForumInv
  <2>4. ASSUME NEW who \in Tokens, NEW k \in Keys, NEW i \in DOMAIN Posts(k), Tomb(who, k, i) PROVE ForumInv'
    BY <2>4, TombStep DEF ForumInv
  <2>5. ASSUME NEW who \in Tokens, NEW k \in Keys, NEW title \in Titles, Title(who, k, title) PROVE ForumInv'
    BY <2>5, TitleStep DEF ForumInv
  <2>6. ASSUME NEW who \in Tokens, NEW k \in Keys, Lock(who, k) PROVE ForumInv'
    BY <2>6, LockStep DEF ForumInv
  <2>7. CASE NewRefused
    BY <2>7, NewRefusedStep DEF ForumInv
  <2>8. ASSUME NEW k \in Keys, Reset(k) PROVE ForumInv'
    BY <2>8, ResetStep DEF ForumInv
  <2>9. CASE Execute
    BY <2>9, ExecuteStep DEF ForumInv
  <2>10. CASE ExecuteRefused
    BY <2>10, RefusedStep
  <2>11. CASE Answer
    BY <2>11, AnswerStep DEF ForumInv
  <2>12. CASE Crash
    BY <2>12, CrashStep DEF ForumInv
  <2>13. CASE Restart
    BY <2>13, RestartStep DEF ForumInv
  <2>14. CASE NextTable
    BY <2>14, NextTableStep DEF ForumInv
  <2>15. ASSUME NEW r \in store.seen.header, LoadHeader(r) PROVE ForumInv'
    BY <2>15, LoadHeaderStep DEF ForumInv
  <2>16. ASSUME NEW r \in store.seen.post, LoadPost(r) PROVE ForumInv'
    BY <2>16, LoadPostStep DEF ForumInv
  <2>17. ASSUME NEW r \in store.seen.body, LoadBody(r) PROVE ForumInv'
    BY <2>17, LoadBodyStep DEF ForumInv
  <2> QED
    BY <2>1, <2>2, <2>3, <2>4, <2>5, <2>6, <2>7, <2>8, <2>9, <2>10, <2>11, <2>12, <2>13, <2>14,
       <2>15, <2>16, <2>17 DEF Next
<1> QED
  BY <1>1, <1>2 DEF ForumInv

LEMMA ForumInvariant == Spec => []ForumInv
<1>1. Init => ForumInv
  BY ForumInit DEF ForumInv
<1> QED
  BY <1>1, ForumStep, PTL DEF Spec

-----------------------------------------------------------------------------
\* What a client was told is on disk in every state, with all of its text: a
\* post's rows are written in one transaction, and answered for only after its
\* commit (persistPostLocked, renderPost).
THEOREM AnsweredIsKept == Spec => []WhatWasSaidStands
<1>1. ForumInv => WhatWasSaidStands
  <2> SUFFICES ASSUME ForumInv PROVE WhatWasSaidStands
    OBVIOUS
  <2>1. CASE Keys \subseteq hurt
    <3>1. Spared = {}
      BY <2>1 DEF Spared
    <3> QED
      BY <3>1 DEF WhatWasSaidStands, AnsweredStands, RemovedStands
  <2>2. CASE Good
    <3>1. RemovedStands
      BY <2>2 DEF Good, SaidInv, RemovedStands
    <3>2. AnsweredStands
      <4> SUFFICES ASSUME NEW p \in said, p.key \in Spared
                   PROVE  \E r \in store.disk.post :
                             /\ r = p \/ r = [p EXCEPT !.tomb = TRUE]
                             /\ LET kept == {b \in store.disk.body : SamePost(b, r)}
                                IN IF r.tomb THEN kept = {}
                                   ELSE {[part |-> b.part, of |-> b.of] : b \in kept} = Whole(p.chash)
        BY DEF AnsweredStands
      <4>1. PICK r \in store.disk.post : r = p \/ r = Removal(p)
        BY <2>2 DEF Good, SaidInv
      <4> DEFINE k == p.key
                 kept == {b \in store.disk.body : SamePost(b, r)}
                 e == [seq |-> r.seq, author |-> r.author, tomb |-> r.tomb, body |-> {},
                       chash |-> r.chash, ihash |-> r.ihash]
      <4>2. p \in PostRows /\ r \in PostRows /\ store.disk \in Tables /\ k \in Keys
        BY <2>2, DiskTyped DEF Good, Typed, Spared
      <4>3. r.key = k /\ r.chash = p.chash
        BY <4>1, <4>2 DEF Removal, PostRows
      <4>4. e \in Entered /\ PostRow(k, e) = r /\ e.tomb = r.tomb /\ e.chash = p.chash /\ e.seq = r.seq
        <5>1. e \in Entered
          BY <4>2 DEF Entered, PostRows
        <5>2. PostRow(k, e) = [key |-> r.key, seq |-> r.seq, author |-> r.author, tomb |-> r.tomb,
                               chash |-> r.chash, ihash |-> r.ihash]
          BY <4>3 DEF PostRow
        <5>3. r = [key |-> r.key, seq |-> r.seq, author |-> r.author, tomb |-> r.tomb,
                   chash |-> r.chash, ihash |-> r.ihash]
          BY <4>2 DEF PostRows
        <5> QED
          BY <4>3, <5>1, <5>2, <5>3
      <4>5. Sound(store.disk, k)
        BY <2>2 DEF Good, DiskInv
      <4> HIDE DEF e
      <4>6. {[part |-> b.part, of |-> b.of] : b \in {c \in store.disk.body : c.key = k /\ c.seq = e.seq}}
               = IF e.tomb THEN {} ELSE Whole(e.chash)
        BY <4>1, <4>2, <4>4, <4>5, TextWhole
      <4>7. {c \in store.disk.body : c.key = k /\ c.seq = e.seq} = kept
        BY <4>3, <4>4 DEF SamePost
      <4> HIDE DEF kept
      <4>8. {[part |-> b.part, of |-> b.of] : b \in kept} = IF r.tomb THEN {} ELSE Whole(p.chash)
        BY <4>4, <4>6, <4>7
      <4>9. r.tomb => kept = {}
        BY <4>8
      <4> QED
        BY <4>1, <4>8, <4>9 DEF kept, Removal
    <3> QED
      BY <3>1, <3>2 DEF WhatWasSaidStands
  <2> QED
    BY <2>1, <2>2 DEF ForumInv
<1> QED
  BY <1>1, ForumInvariant, PTL

\* Whenever the node serves, every text is the one its hash names and every
\* post chains to the one before it, in whatever order a load brought the rows
\* (LoadRows, insertBySeq; what renderVerifyLocked looks for).
THEOREM ServesWhatVerifies == Spec => []Verifies
<1>1. ForumInv => Verifies
  <2> SUFFICES ASSUME ForumInv, up = "serving", NEW k \in Spared, NEW i \in DOMAIN Posts(k)
               PROVE  VerifiesPost(k, i)
    BY DEF Verifies
  <2>1. Good /\ k \in Keys
    BY DEF ForumInv, Spared
  <2>2. Posts(k) \in Seq(Entered)
    BY <2>1 DEF Good, Typed, Threads, Posts
  <2>3. i \in 1..Len(Posts(k))
    BY <2>2
  <2>4. Chains(Posts(k)) /\ Texted(Posts(k))
    BY <2>1 DEF Good, MemInv, MemoryInv
  <2>5. Posts(k)[i].tomb \in BOOLEAN
    <3>1. Posts(k)[i] \in Entered
      BY <2>2, <2>3, ElementIs
    <3> QED
      BY <3>1 DEF Entered
  <2>6. ~Posts(k)[i].tomb => Posts(k)[i].body = Whole(Posts(k)[i].chash)
    BY <2>3, <2>4, <2>5 DEF Texted
  <2>7. Posts(k)[i].ihash = Append(IF i = 1 THEN <<>> ELSE Posts(k)[i - 1].ihash, Entry(Posts(k)[i]))
    BY <2>3, <2>4 DEF Chains
  <2> QED
    BY <2>6, <2>7 DEF VerifiesPost, Entry
<1> QED
  BY <1>1, ForumInvariant, PTL

\* A thread's number is never given out while an answered post is kept under it,
\* however the counter came back (newThreadLocked, LoadRows).
THEOREM NumbersAreFresh == Spec => []NewIsEmpty
<1>1. ForumInv => NewIsEmpty
  BY DEF ForumInv, Good, NewIsEmpty, Spared
<1> QED
  BY <1>1, ForumInvariant, PTL

=============================================================================

----------------------------- MODULE ForumStore -----------------------------
(***************************************************************************)
(* What the forum asks of its database: three tables, the statements that  *)
(* write them, and one connection that may have a transaction open.  A     *)
(* store is what is on disk, what the connection sees, and whether a       *)
(* transaction is open; a crash leaves what is on disk.                    *)
(*                                                                         *)
(* header  the threads: title, op, locked                                  *)
(* post    the posts: author, tombstone and the two hashes                 *)
(* body    the texts, in chunks; a chunk is its place and the text it is of *)
(***************************************************************************)
EXTENDS Naturals, Sequences

NoRows    == [header |-> {}, post |-> {}, body |-> {}]
NewStore  == [disk |-> NoRows, seen |-> NoRows, open |-> FALSE]

\* The statements, each with the thread it is for.
Begin(k)      == [do |-> "begin", row |-> [key |-> k]]
Commit(k)     == [do |-> "commit", row |-> [key |-> k]]
PutHeader(r)  == [do |-> "header", row |-> r]
PutPost(r)    == [do |-> "post", row |-> r]
DropBody(k, n) == [do |-> "drop", row |-> [key |-> k, seq |-> n]]
PutChunk(r)   == [do |-> "body", row |-> r]

SameThread(a, b) == a.key = b.key
SamePost(a, b)   == a.key = b.key /\ a.seq = b.seq
SameChunk(a, b)  == SamePost(a, b) /\ a.part = b.part

\* INSERT OR REPLACE by primary key, and the DELETE of a post's chunks.
Headed(rows, r)  == [header |-> {x \in rows.header : ~SameThread(x, r)} \cup {r},
                     post |-> rows.post, body |-> rows.body]
Posted(rows, r)  == [header |-> rows.header,
                     post |-> {x \in rows.post : ~SamePost(x, r)} \cup {r}, body |-> rows.body]
Dropped(rows, r) == [header |-> rows.header, post |-> rows.post,
                     body |-> {x \in rows.body : ~SamePost(x, r)}]
Chunked(rows, r) == [header |-> rows.header, post |-> rows.post,
                     body |-> {x \in rows.body : ~SameChunk(x, r)} \cup {r}]

Written(rows, s) ==
    IF s.do = "header" THEN Headed(rows, s.row)
    ELSE IF s.do = "post" THEN Posted(rows, s.row)
    ELSE IF s.do = "drop" THEN Dropped(rows, s.row)
    ELSE Chunked(rows, s.row)

\* One statement: a BEGIN inside a transaction and a COMMIT outside one are
\* errors that change nothing; outside a transaction every write commits.
Executed(d, s) ==
    IF s.do = "begin" THEN [disk |-> d.disk, seen |-> d.seen, open |-> TRUE]
    ELSE IF s.do = "commit" THEN [disk |-> d.seen, seen |-> d.seen, open |-> FALSE]
    ELSE LET rows == Written(d.seen, s)
         IN [disk |-> IF d.open THEN d.disk ELSE rows, seen |-> rows, open |-> d.open]

\* Mutant: the journal is not rolled back.
Recovered_Keeps(d) == [disk |-> d.seen, seen |-> d.seen, open |-> FALSE]

\* What a process that opens the file after a crash finds.
Recovered(d) == [disk |-> d.disk, seen |-> d.disk, open |-> FALSE]
=============================================================================

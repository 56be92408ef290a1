------------------------------- MODULE Forum -------------------------------
(***************************************************************************)
(* A forum node: threads in memory, one thread of execution that orders    *)
(* every request, and the database it writes each change to, statement by  *)
(* statement, before it answers.  The process may crash between any two    *)
(* statements; it comes back empty, reads the three tables again, one row  *)
(* at a time and in no order within a table, and only then serves.         *)
(*                                                                         *)
(* A post carries the hash of its text and the hash that chains it to what *)
(* came before.  Hashes do not collide: chash is the text, and ihash the   *)
(* whole of what it commits to, the (seq, author, chash) of each post down *)
(* to the first.  A text is a number of chunks.  A thread's key is its     *)
(* number.  The database is the forum's own; it may refuse a statement,    *)
(* which the node only logs.  Sessions (selves, readers) are left out.     *)
(***************************************************************************)
EXTENDS ForumStore, FiniteSets, FiniteSetsExt, SequencesExt

CONSTANTS
    Tokens,         \* the identities that clients claim
    Texts, Chunks,  \* bodies, and how many rows of kDbChunk bytes each takes
    MaxThreads,     \* kMaxThreads
    MaxKeys, MaxRequests, MaxCrashes, MaxRefusals   \* bounds on the environment

ASSUME ForumAssumption ==
    /\ Chunks \in [Texts -> Nat \ {0}]
    /\ {MaxThreads, MaxKeys, MaxRequests, MaxCrashes, MaxRefusals} \subseteq Nat

Keys   == 1..MaxKeys
Nobody == "nobody"

\* A title may make the header's statement longer than kSqlMax.
Titles == {"-", "fits", "wide"}
Fits(title) == title # "wide"

VARIABLES
    up,         \* "down", the table being loaded, or "serving"
    threads,    \* threads_
    counter,    \* counter_
    todo,       \* the statements the running request has still to execute
    answer,     \* what it answers then
    store,      \* the database
    sent,       \* the rows the producer has sent of the table being loaded
    \* history: what clients have been told, and what to except
    said, removed,  \* posts and removals answered
    hurt,           \* threads of which a statement was refused
    wiped,          \* threads that somebody reset
    requests, crashes, refusals

memory == <<threads, counter>>
work   == <<todo, answer>>
ghosts == <<said, removed, hurt, wiped>>
bounds == <<requests, crashes, refusals>>
vars   == <<up, memory, work, store, sent, ghosts, bounds>>

Loading  == {"header", "post", "body"}
NoThread == [there |-> FALSE, title |-> "-", op |-> Nobody, locked |-> FALSE,
             next |-> 1, posts |-> <<>>]
NewThread == [NoThread EXCEPT !.there = TRUE]
NoAnswer == [what |-> "none", key |-> 0]

Whole(text) == {[part |-> i, of |-> text] : i \in 1..Chunks[text]}

\* headLocked
Head16(posts) == IF posts = <<>> THEN <<>> ELSE Last(posts).ihash

Open(t)  == {k \in Keys : t[k].there}
Posts(k) == threads[k].posts

Init ==
    /\ up = "serving" /\ counter = 0
    /\ threads = [k \in Keys |-> NoThread]
    /\ todo = <<>> /\ answer = NoAnswer
    /\ store = NewStore /\ sent = {}
    /\ said = {} /\ removed = {} /\ hurt = {} /\ wiped = {}
    /\ requests = 0 /\ crashes = 0 /\ refusals = 0

-----------------------------------------------------------------------------
(* Persisting                                                              *)

HeaderRow(k, t) == [key |-> k, title |-> t.title, op |-> t.op, locked |-> t.locked]

\* A statement that would not fit is dropped, and logged.
Header(k, t) == IF Fits(t.title) THEN <<PutHeader(HeaderRow(k, t))>> ELSE <<>>

PostRow(k, p) == [key |-> k, seq |-> p.seq, author |-> p.author, tomb |-> p.tomb,
                  chash |-> p.chash, ihash |-> p.ihash]

ChunkRows(k, p) ==
    [i \in 1..Chunks[p.chash] |-> PutChunk([key |-> k, seq |-> p.seq, part |-> i, of |-> p.chash])]

\* Mutant: a removal keeps the chunks it had.
PostStatements_KeepChunks(k, p) ==
    <<Begin(k), PutPost(PostRow(k, p))>>
    \o (IF p.tomb THEN <<>> ELSE <<DropBody(k, p.seq)>> \o ChunkRows(k, p)) \o <<Commit(k)>>

\* Mutant: one statement, one commit.
PostStatements_Alone(k, p) ==
    <<PutPost(PostRow(k, p)), DropBody(k, p.seq)>>
    \o (IF p.tomb THEN <<>> ELSE ChunkRows(k, p))

\* persistPostLocked: the row, and its chunks anew, in one transaction.
PostStatements(k, p) ==
    <<Begin(k), PutPost(PostRow(k, p)), DropBody(k, p.seq)>>
    \o (IF p.tomb THEN <<>> ELSE ChunkRows(k, p)) \o <<Commit(k)>>

-----------------------------------------------------------------------------
(* Requests                                                                *)

Idle == up = "serving" /\ work = <<<<>>, NoAnswer>>

Request == /\ Idle /\ requests < MaxRequests
           /\ requests' = requests + 1
           /\ UNCHANGED <<up, store, sent, said, removed, hurt, crashes, refusals>>

\* Mutant: the next number, whoever has it.
MintedKey_Next == counter + 1

\* The first number above counter_ that no thread has.
MintedKey == Min({k \in counter + 1..MaxKeys + 1 : k \notin Open(threads)})

\* newThreadLocked: the title's own save, and then the thread's.
New(who, title) ==
    LET k == MintedKey
        t == [NewThread EXCEPT !.title = title]
    IN /\ Request /\ k \in Keys
       /\ Cardinality(Open(threads)) < MaxThreads
       /\ counter' = k
       /\ threads' = [threads EXCEPT ![k] = t]
       /\ todo' = (IF title = "-" THEN <<>> ELSE Header(k, t)) \o Header(k, t)
       /\ answer' = [what |-> "new", key |-> k]
       /\ UNCHANGED wiped

\* The cap refuses a thread after its number was taken.
NewRefused ==
    /\ Request /\ MintedKey \in Keys
    /\ Cardinality(Open(threads)) >= MaxThreads
    /\ counter' = MintedKey
    /\ UNCHANGED <<threads, work, wiped>>

Changed(k, t, statements, reply) ==
    /\ threads' = [threads EXCEPT ![k] = t]
    /\ todo' = statements
    /\ answer' = reply
    /\ UNCHANGED counter

\* appendLocked: the first poster becomes the thread's op.
Post(who, k, text) ==
    LET t == threads[k]
        p == [seq |-> t.next, author |-> who, tomb |-> FALSE, body |-> Whole(text), chash |-> text,
              ihash |-> Append(Head16(t.posts), <<t.next, who, text>>)]
    IN /\ Request /\ t.there /\ ~t.locked
       /\ Changed(k, [t EXCEPT !.next = @ + 1, !.posts = Append(@, p),
                               !.op = IF @ = Nobody THEN who ELSE @],
                  PostStatements(k, p), [what |-> "post", key |-> k, post |-> PostRow(k, p)])
       /\ UNCHANGED wiped

\* tombLocked: the author's, or the op's; the hashes stay.
Tomb(who, k, i) ==
    LET t == threads[k]
        p == t.posts[i]
        q == [p EXCEPT !.tomb = TRUE, !.body = {}]
    IN /\ Request /\ i \in DOMAIN t.posts
       /\ ~p.tomb /\ who \in {p.author, t.op}
       /\ Changed(k, [t EXCEPT !.posts[i] = q],
                  PostStatements(k, q), [what |-> "tomb", key |-> k, post |-> PostRow(k, q)])
       /\ UNCHANGED wiped

\* titleLocked, lockLocked
Title(who, k, title) ==
    LET t == [threads[k] EXCEPT !.title = title] IN
    /\ Request /\ t.there /\ title # "-" /\ t.op \in {Nobody, who}
    /\ Changed(k, t, Header(k, t), [what |-> "header", key |-> k])
    /\ UNCHANGED wiped

Lock(who, k) ==
    LET t == [threads[k] EXCEPT !.locked = ~@] IN
    /\ Request /\ t.there /\ t.op = who
    /\ Changed(k, t, Header(k, t), [what |-> "header", key |-> k])
    /\ UNCHANGED wiped

\* resetLocked: memory only; the title stays.
Reset(k) ==
    /\ Request /\ threads[k].there
    /\ Changed(k, [NewThread EXCEPT !.title = threads[k].title], <<>>, NoAnswer)
    /\ wiped' = wiped \cup {k}

-----------------------------------------------------------------------------
(* The database, and the answer                                            *)

Execute ==
    /\ todo # <<>>
    /\ store' = Executed(store, Head(todo))
    /\ todo' = Tail(todo)
    /\ UNCHANGED <<up, memory, answer, sent, ghosts, bounds>>

\* The database reports an error; the node goes on with the next statement.  A
\* COMMIT refused leaves the transaction open for whatever comes next.
ExecuteRefused ==
    /\ todo # <<>> /\ refusals < MaxRefusals
    /\ refusals' = refusals + 1
    /\ todo' = Tail(todo)
    /\ hurt' = hurt \cup (IF Head(todo).do = "commit" THEN Keys ELSE {Head(todo).row.key})
    /\ UNCHANGED <<up, memory, answer, store, sent, said, removed, wiped, requests, crashes>>

Answer ==
    /\ todo = <<>> /\ answer # NoAnswer
    /\ answer' = NoAnswer
    /\ said' = IF answer.what = "post" THEN said \cup {answer.post} ELSE said
    /\ removed' = IF answer.what = "tomb" THEN removed \cup {answer.post} ELSE removed
    /\ UNCHANGED <<up, memory, todo, store, sent, hurt, wiped, bounds>>

-----------------------------------------------------------------------------
(* Crash, restart and load                                                 *)

Crash ==
    /\ up # "down" /\ crashes < MaxCrashes
    /\ crashes' = crashes + 1
    /\ up' = "down" /\ sent' = {}
    /\ threads' = [k \in Keys |-> NoThread] /\ counter' = 0
    /\ todo' = <<>> /\ answer' = NoAnswer
    /\ store' = Recovered(store)
    /\ UNCHANGED <<ghosts, requests, refusals>>

Restart ==
    /\ up = "down" /\ up' = "header"
    /\ UNCHANGED <<memory, work, store, sent, ghosts, bounds>>

\* RowProduce and LoadRows: one row of the table, whichever comes next.
Row(table, r) ==
    /\ up = table /\ r \in store.seen[table] \ sent
    /\ sent' = sent \cup {r}
    /\ UNCHANGED <<up, work, store, ghosts, bounds>>

\* A row's thread, opened by its first row if there is room.
Known(k) == threads[k].there \/ Cardinality(Open(threads)) < MaxThreads
Loaded(k) == [threads[k] EXCEPT !.there = TRUE]

LoadHeader(r) ==
    /\ Row("header", r)
    /\ IF Known(r.key)
       THEN /\ threads' = [threads EXCEPT ![r.key] =
                 [Loaded(r.key) EXCEPT !.title = r.title, !.op = r.op, !.locked = r.locked]]
            /\ counter' = IF r.key > counter THEN r.key ELSE counter
       ELSE UNCHANGED memory

\* Mutant: as they come.
InsertBySeq_Appends(posts, p) == Append(posts, p)

\* A post of the same number is replaced; else it goes after the last that is
\* not above it.
InsertBySeq(posts, p) ==
    LET same  == {i \in DOMAIN posts : posts[i].seq = p.seq}
        place == Min({n \in 0..Len(posts) : \A i \in n + 1..Len(posts) : posts[i].seq > p.seq})
    IN IF same # {} THEN [posts EXCEPT ![Min(same)] = p] ELSE InsertAt(posts, place + 1, p)

\* Mutant: the numbers start again.
NextSeq_Forgets(next, seq) == next

NextSeq(next, seq) == IF next <= seq THEN seq + 1 ELSE next

LoadPost(r) ==
    LET p == [seq |-> r.seq, author |-> r.author, tomb |-> r.tomb, body |-> {},
              chash |-> r.chash, ihash |-> r.ihash]
    IN /\ Row("post", r)
       /\ threads' = IF Known(r.key)
                     THEN [threads EXCEPT ![r.key] =
                             [Loaded(r.key) EXCEPT !.posts = InsertBySeq(@, p),
                                                   !.next = NextSeq(@, r.seq)]]
                     ELSE threads
       /\ UNCHANGED counter

\* A chunk goes to its own place; the chunk of a post nobody has is dropped.
LoadBody(r) ==
    LET Filled(p) == IF p.seq # r.seq THEN p
                     ELSE [p EXCEPT !.body = {c \in @ : c.part # r.part}
                                             \cup {[part |-> r.part, of |-> r.of]}]
    IN /\ Row("body", r)
       /\ threads' = IF Known(r.key)
                     THEN [threads EXCEPT ![r.key] =
                            [Loaded(r.key) EXCEPT !.posts = [i \in DOMAIN @ |-> Filled(@[i])]]]
                     ELSE threads
       /\ UNCHANGED counter

\* forum_thread, then forum_post, then forum_body; then the node serves.
NextTable ==
    /\ up \in Loading /\ sent = store.seen[up]
    /\ up' = IF up = "header" THEN "post" ELSE IF up = "post" THEN "body" ELSE "serving"
    /\ sent' = {}
    /\ UNCHANGED <<memory, work, store, ghosts, bounds>>

-----------------------------------------------------------------------------
Next ==
    \/ \E who \in Tokens :
          \/ \E title \in Titles : New(who, title)
          \/ \E k \in Keys :
               \/ \E text \in Texts : Post(who, k, text)
               \/ \E i \in DOMAIN Posts(k) : Tomb(who, k, i)
               \/ \E title \in Titles : Title(who, k, title)
               \/ Lock(who, k)
    \/ NewRefused
    \/ \E k \in Keys : Reset(k)
    \/ Execute \/ ExecuteRefused \/ Answer
    \/ Crash \/ Restart \/ NextTable
    \/ \E r \in store.seen.header : LoadHeader(r)
    \/ \E r \in store.seen.post : LoadPost(r)
    \/ \E r \in store.seen.body : LoadBody(r)

Spec == Init /\ [][Next]_vars

-----------------------------------------------------------------------------
(* Properties                                                              *)

Spared == Keys \ (hurt \cup wiped)

\* "A forum that loses posts on a crash is not a forum": what a client was told
\* is on disk, at every moment.  An answered post is there with its author, its
\* hashes and all of its text, unless it has been removed since; an answered
\* removal is there, and of its text nothing is.
AnsweredStands ==
    \A p \in said : p.key \in Spared =>
        \E r \in store.disk.post :
            /\ r = p \/ r = [p EXCEPT !.tomb = TRUE]
            /\ LET kept == {b \in store.disk.body : SamePost(b, r)}
               IN IF r.tomb THEN kept = {}
                  ELSE {[part |-> b.part, of |-> b.of] : b \in kept} = Whole(p.chash)
RemovedStands ==
    \A p \in removed : p.key \in Spared => p \in store.disk.post
WhatWasSaidStands == AnsweredStands /\ RemovedStands

\* renderVerifyLocked finds nothing, whenever the node serves: after any crash
\* and whatever order the rows came back in, every text is the one its hash
\* names and every post chains to the one before it.
VerifiesPost(k, i) ==
    LET p    == Posts(k)[i]
        prev == IF i = 1 THEN <<>> ELSE Posts(k)[i - 1].ihash
    IN /\ ~p.tomb => p.body = Whole(p.chash)
       /\ p.ihash = Append(prev, <<p.seq, p.author, p.chash>>)
Verifies ==
    up = "serving" => \A k \in Spared : \A i \in DOMAIN Posts(k) : VerifiesPost(k, i)

\* "A user opening a new thread silently lands in an old one": a key is never
\* given out while a post that was answered is kept under it.
NewIsEmpty ==
    answer.what = "new" /\ answer.key \in Spared
        => \A p \in said : p.key # answer.key

\* "First poster": the op of a thread with posts is who wrote the first of them.
OpIsFirstPoster ==
    \A k \in Spared : Posts(k) # <<>> /\ up = "serving" /\ threads[k].op # Nobody
                         => threads[k].op = Posts(k)[1].author
=============================================================================

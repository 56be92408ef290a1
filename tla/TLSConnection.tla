--------------------------- MODULE TLSConnection ---------------------------
(***************************************************************************)
(* One TLS client of a gate, from its accept to the end of its session:    *)
(* the handshake onConnection drives, the reads and writes of a served     *)
(* connection (TLSConnectionIO.h), the ciphertext staged between mbedtls   *)
(* and the ring (TLSServerContext), and the part of Close that concerns a  *)
(* connection still shaking hands.                                         *)
(*                                                                         *)
(* Every function there is handed one reference and says by a boolean      *)
(* whether the continuation it called has taken that reference over.  A    *)
(* stack of calls runs until it submits an operation or returns; what it   *)
(* still holds then is released frame by frame (spare), while the          *)
(* operation's completion may already run on another worker.  A step       *)
(* touches what other threads see at most once; a guard and the call it    *)
(* guards are two steps.                                                   *)
(*                                                                         *)
(* mbedtls and the peer follow one session: whose turn it is, and of how   *)
(* many units of ciphertext.  Slots and descriptors are SocketConnection's *)
(* subject, so here is one slot and one client.                            *)
(***************************************************************************)
EXTENDS Integers, Sequences

CONSTANTS
    Sessions,     \* what mbedtls and a peer may say to each other, turn by turn
    MaxNotes,     \* bound: what reads may leave to be sent besides the turns
    Chunk,        \* units of ciphertext that one piece of a response makes
    InCap, OutCap \* units CipherIn and CipherOut hold

\* A turn of the handshake, a part of a request that does not complete it
\* ("more") or does ("ask"), or a response.
Turns == [by : {"peer", "server"}, units : Nat \ {0},
          of : {"handshake", "more", "ask", "reply"}]

\* A session is a handshake, and then requests and their responses.
Follows(s, i, what) == i > 1 /\ s[i - 1].of = what
ASSUME TLSAssumption ==
    /\ {Chunk, InCap, OutCap} \subseteq Nat \ {0} /\ MaxNotes \in Nat
    /\ \A s \in Sessions :
         /\ s \in Seq(Turns) /\ s # <<>>
         /\ \A i \in DOMAIN s :
              /\ s[i].of = "handshake" => i = 1 \/ Follows(s, i, "handshake")
              /\ s[i].of \in {"more", "ask"} => i > 1 /\ s[i].by = "peer"
              /\ s[i].of = "ask" => i < Len(s) /\ s[i + 1].of = "reply"
              /\ s[i].of = "reply" => /\ Follows(s, i, "ask")
                                     /\ s[i].by = "server" /\ s[i].units % Chunk = 0

VARIABLES
    \* SocketConnectionState
    life,     \* phase_; "new" before the accept, "free" after the finalize
    refs,     \* io_inflight_
    cancel,   \* a Cancel of the connection's descriptor is under way
    \* the stack that runs on the connection, if one does
    run,      \* the function about to run and what it was told
    handles,  \* ConnRefs its frames hold
    spare,    \* ConnRefs of stacks that are returning
    op,       \* the operation in the ring, if one is
    \* TLSServerContext
    tls,      \* phase_, the turn reached and how much of it is done
    in, out,  \* CipherIn and CipherOut
    \* HttpServer::Serve
    reply,    \* pieces of the response mbedtls has yet to take, and keep
    \* ConnectionManager
    tls_handshakes,
    gate,     \* where Close is, and what it saw
    killed,   \* the scopes that were interrupted
    \* the other side
    peer,
    session   \* what this session is made of

slotVars  == <<life, refs, cancel>>
stackVars == <<run, handles, spare, op>>
dataVars  == <<tls, in, out, reply, session>>
gateVars  == <<tls_handshakes, gate, killed>>
vars      == <<slotVars, stackVars, dataVars, gateVars, peer>>

Functions == {"init", "count", "drive", "handshake", "settled", "dispatch",
              "until", "acquire", "recv", "read", "bytes",
              "acquire_send", "send", "write", "progress", "flush"}
Continuations == {"drive", "finished", "recv", "bytes", "nothing", "send", "failed"}

Told(f, b) == [fn |-> f, ok |-> b, then |-> "drive"]
At(f)      == Told(f, FALSE)
Flush(c)   == [fn |-> "flush", ok |-> FALSE, then |-> c]
Nobody     == At("none")
NoOp       == [kind |-> "none", then |-> "drive", cancelled |-> FALSE]
Empty      == [len |-> 0, off |-> 0, note |-> FALSE]
Idle       == [phase |-> "idle", turn |-> 1, done |-> 0, notes |-> 0]

TypeOK ==
    /\ life \in {"new", "serving", "draining", "free"}
    /\ refs \in Nat /\ handles \in Nat /\ spare \in Nat
    /\ cancel \in BOOLEAN
    /\ run \in [fn : Functions \cup {"none"}, ok : BOOLEAN, then : Continuations]
    /\ op \in [kind : {"none", "recv", "send"}, then : Continuations, cancelled : BOOLEAN]
    /\ tls \in [phase : {"idle", "handshaking", "established", "error"},
                turn : Nat, done : Nat, notes : 0..MaxNotes]
    /\ in \in 0..InCap
    /\ out \in [len : 0..OutCap, off : 0..OutCap, note : BOOLEAN]
    /\ reply \in [left : Nat, keep : BOOLEAN]
    /\ tls_handshakes \in Int
    /\ gate \in [pc : {"open", "retire", "drain", "closed"}, seen : BOOLEAN, retired : BOOLEAN]
    /\ killed \subseteq {"accept", "serve"}
    /\ peer \in [turn : Nat, done : Nat, wire : Nat, here : BOOLEAN]
    /\ session \in Sessions

Init ==
    /\ life = "new" /\ refs = 0 /\ cancel = FALSE
    /\ run = Nobody /\ handles = 0 /\ spare = 0 /\ op = NoOp
    /\ tls = Idle /\ in = 0 /\ out = Empty
    /\ reply = [left |-> 0, keep |-> FALSE]
    /\ tls_handshakes = 0 /\ killed = {}
    /\ gate = [pc |-> "open", seen |-> FALSE, retired |-> FALSE]
    /\ peer = [turn |-> 1, done |-> 0, wire |-> 0, here |-> TRUE]
    /\ session \in Sessions

-----------------------------------------------------------------------------
(* References and the end of a stack                                       *)

Running(f) == run.fn = f

\* A continuation wraps the reference it is called with, and the caller told
\* TRUE disarms its own: the stack holds what it held.
HandedOn(told) == handles' = handles + 1 - (IF told THEN 1 ELSE 0)

\* The stack returns.  What its frames hold is released one by one.
Returns == /\ run' = Nobody
           /\ handles' = 0 /\ spare' = spare + handles

\* The stack goes on with r.
GoesOn(r) == /\ run' = r
             /\ HandedOn(TRUE)
             /\ UNCHANGED spare

\* Mutant: the Cancel is left out.
ResetConcrete_Quiet == /\ life' = IF life = "serving" THEN "draining" ELSE life
                       /\ UNCHANGED cancel

\* ResetConcrete: the first one starts the drain and submits the Cancel.  Its
\* finalize finds the reference that Delivered says is there.
ResetConcrete == /\ life' = IF life = "serving" THEN "draining" ELSE life
                 /\ cancel' = (cancel \/ (life = "serving" /\ refs > 0))

ResetIf(b) == IF b THEN ResetConcrete ELSE UNCHANGED <<life, cancel>>

\* ConnRef::Acquire.
Acquires == refs' = refs + 1 /\ handles' = handles + 1

\* IOSubmission taken by the ring: the operation has its own reference, and
\* every frame of the stack is told FALSE or has nothing left to do.
Submits(kind, c) == /\ op' = [kind |-> kind, then |-> c, cancelled |-> FALSE]
                    /\ refs' = refs + 1
                    /\ Returns

\* What a drained buffer, a read completed or a failure of either goes on to.
\* "finished" is a handshake whose last flight went out, "bytes" and "nothing"
\* a read that had or had not a result, "failed" a write that mbedtls refused.
After(c, ok) ==
    IF ok /\ c \in {"drive", "recv", "send"} THEN At(c)
    ELSE IF c \in {"drive", "finished"} THEN Told("settled", ok /\ c = "finished")
    ELSE IF c \in {"recv", "bytes", "nothing"} THEN Told("bytes", ok /\ c = "bytes")
    ELSE Told("progress", FALSE)

\* SubmitTLSSend resets before it reports a failure.
ResetsAfter(c, ok) == After(c, ok) = Told("progress", FALSE)

\* A failure is delivered: the continuation is called with it.
Fails(c) == /\ GoesOn(After(c, FALSE))
            /\ ResetIf(ResetsAfter(c, FALSE))
            /\ UNCHANGED <<refs, op>>

\* Mutant: a refused submission drops the reference and calls nobody.
Refused_Silent(c) == Returns /\ UNCHANGED <<life, cancel, refs, op>>

\* Mutant: a refused submission calls its continuation, then reports FALSE.
Refused_SaysFalse(c) == /\ run' = After(c, FALSE)
                        /\ HandedOn(FALSE)
                        /\ ResetIf(ResetsAfter(c, FALSE))
                        /\ UNCHANGED <<refs, spare, op>>

\* The ring refuses a submission, or CipherIn has no room for what it would bring.
Refused(c) == Fails(c)

\* A read of ciphertext is submitted, or refused.
Parks(c) == \/ in < InCap /\ Submits("recv", c) /\ UNCHANGED <<life, cancel>>
            \/ Refused(c)

-----------------------------------------------------------------------------
(* mbedtls                                                                 *)

Turn(t)   == session[t.turn]
Talks(t, who, what) == t.turn \in DOMAIN session /\ Turn(t).by = who /\ Turn(t).of \in what
Missing(t) == Turn(t).units - t.done

\* n units of the current turn are through.
Passed(t, n) == IF n = Missing(t) THEN [t EXCEPT !.turn = @ + 1, !.done = 0]
                                  ELSE [t EXCEPT !.done = @ + n]

Least(a, b) == IF a < b THEN a ELSE b

\* bioRecv: what is staged is taken, as far as the peer's turn goes.
Takes(t, n) == IF n > 0 /\ Talks(t, "peer", {"handshake", "more", "ask"}) THEN Least(n, Missing(t)) ELSE 0

\* bioSend: n units are copied as far as there is room.
Stages(o, n) == [o EXCEPT !.len = @ + Least(n, OutCap - o.len)]

\* One call of mbedtls_ssl_handshake: it takes what the peer said and stages
\* its own turn, as much of either as there is.
Handshaken ==
    LET took == Takes(tls, in)
        t    == IF took > 0 THEN Passed(tls, took) ELSE tls
        says == Talks(t, "server", {"handshake"})
        o    == IF says THEN Stages(out, Missing(t)) ELSE out
        u    == IF o.len > out.len THEN Passed(t, o.len - out.len) ELSE t
    IN [tls |-> u, in |-> in - took, out |-> o,
        ret |-> IF u.turn \in DOMAIN session /\ Turn(u).of = "handshake"
                THEN IF Turn(u).by = "peer" THEN "want_read" ELSE "want_write"
                ELSE "done"]

\* One call of mbedtls_ssl_read: "some" plaintext when the peer's turn is
\* complete.
Plain ==
    LET took == Takes(tls, in)
        t    == IF took > 0 THEN Passed(tls, took) ELSE tls
    IN [tls |-> t, in |-> in - took, some |-> t.turn > tls.turn]

\* One call of mbedtls_ssl_write: the rest of the piece begun, or a new one;
\* it is taken when the whole of it is staged.
Written ==
    LET owed == Chunk - (tls.done % Chunk)
        o    == Stages(out, owed)
        n    == o.len - out.len
    IN [tls |-> Passed(tls, n), out |-> o, taken |-> n = owed]

Unread(o) == o.len - o.off

-----------------------------------------------------------------------------
(* onConnection and DriveTLSHandshake, for the gate                        *)

\* A client is accepted while the gate is open; the claim seeds the reference.
Accept ==
    /\ life = "new" /\ gate.pc = "open"
    /\ life' = "serving" /\ refs' = 1
    /\ run' = At("init") /\ handles' = 1
    /\ UNCHANGED <<cancel, spare, op, dataVars, gateVars, peer>>

\* TLSServerContext::Init, which may fail.
InitTLS ==
    /\ Running("init")
    /\ \/ /\ tls' = [tls EXCEPT !.phase = "handshaking"]
          /\ in' = 0 /\ out' = Empty
          /\ run' = At("count")
          /\ UNCHANGED <<life, cancel, handles, spare>>
       \/ ResetConcrete /\ Returns /\ UNCHANGED <<tls, in, out>>
    /\ UNCHANGED <<refs, op, reply, session, gateVars, peer>>

CountHandshake ==
    /\ Running("count")
    /\ tls_handshakes' = tls_handshakes + 1
    /\ run' = At("drive")
    /\ UNCHANGED <<slotVars, handles, spare, op, dataVars, gate, killed, peer>>

\* DriveTLSHandshake's guards.
CheckDrive ==
    /\ Running("drive")
    /\ IF "accept" \in killed \/ life # "serving"
       THEN GoesOn(Told("settled", FALSE))
       ELSE run' = At("handshake") /\ UNCHANGED <<handles, spare>>
    /\ UNCHANGED <<slotVars, op, dataVars, gateVars, peer>>

\* Mutant: ciphertext is flushed when mbedtls says WANT_WRITE.
Owes_WhenTold(o, ret) == ret = "want_write"

\* There is output: flush, before the read it answers and before success.
Owes(o, ret) == Unread(o) > 0

\* The call, and what follows it: a failure, a flush, success, or a read.
DriveHandshake ==
    /\ Running("handshake")
    /\ \/ /\ tls' = [tls EXCEPT !.phase = "error"]
          /\ Fails("drive") /\ UNCHANGED <<in, out>>
       \/ LET h == Handshaken IN
          /\ tls' = [h.tls EXCEPT !.phase = IF h.ret = "done" THEN "established" ELSE @]
          /\ in' = h.in /\ out' = h.out
          /\ IF Owes(h.out, h.ret)
             THEN /\ run' = Flush(IF h.ret = "done" THEN "finished" ELSE "drive")
                  /\ UNCHANGED <<slotVars, handles, spare, op>>
             ELSE IF h.ret = "done"
             THEN /\ GoesOn(Told("settled", TRUE))
                  /\ UNCHANGED <<slotVars, op>>
             ELSE Parks("drive")
    /\ UNCHANGED <<reply, session, gateVars, peer>>

\* onConnection's continuation: counted done first, then dispatched or reset.
Settle ==
    /\ Running("settled")
    /\ tls_handshakes' = tls_handshakes - 1
    /\ IF run.ok
       THEN run' = At("dispatch") /\ UNCHANGED <<life, cancel, handles, spare>>
       ELSE ResetConcrete /\ Returns
    /\ UNCHANGED <<refs, op, dataVars, gate, killed, peer>>

\* dispatchToSubscribers: Serve acquires a reference of its own for the chain;
\* without a taker the connection is reset.
Dispatch ==
    /\ Running("dispatch")
    /\ \/ Acquires /\ run' = At("until") /\ UNCHANGED <<life, cancel, spare>>
       \/ ResetConcrete /\ Returns /\ UNCHANGED refs
    /\ UNCHANGED <<op, dataVars, gateVars, peer>>

-----------------------------------------------------------------------------
(* FlushCipherOut, and the completions of what was submitted               *)

\* The context a function was called with: accept_ctx_ until the handshake has
\* settled, Serve's from then on.
Scope == IF tls_handshakes > 0 THEN "accept" ELSE "serve"

\* An interrupt ends it; nothing left to send is success; else one more Send,
\* or a refusal.  A connection that drains is not looked at.
FlushCipherOut ==
    /\ Running("flush")
    /\ \/ /\ Scope \in killed
          /\ Fails(run.then) /\ UNCHANGED out
       \/ /\ Scope \notin killed
          /\ IF Unread(out) = 0
             THEN /\ out' = Empty
                  /\ GoesOn(After(run.then, TRUE))
                  /\ ResetIf(ResetsAfter(run.then, TRUE))
                  /\ UNCHANGED <<refs, op>>
             ELSE /\ \/ Submits("send", run.then) /\ UNCHANGED <<life, cancel>>
                     \/ Refused(run.then)
                  /\ UNCHANGED out
    /\ UNCHANGED <<tls, in, reply, session, gateVars, peer>>

\* An operation leaves the ring.  Its completion wraps the reference and runs
\* as a stack of its own.
Completes == /\ op.kind # "none"
             /\ op' = NoOp /\ handles' = handles + 1

\* What the peer hears of n units; a note is no part of its turn.
Heard(n) == IF ~out.note /\ Talks(peer, "server", {"handshake", "reply"})
            THEN Passed(peer, n) ELSE peer

\* A Send of some of what is unread; FlushCipherOut goes on from there.
SendDone ==
    /\ op.kind = "send" /\ ~op.cancelled
    /\ Completes
    /\ \E n \in 1..Unread(out) :
         /\ peer' = Heard(n)
         /\ out' = [out EXCEPT !.off = @ + n]
    /\ run' = Flush(op.then)
    /\ UNCHANGED <<slotVars, spare, tls, in, reply, session, gateVars>>

\* A Recv of some of what is on the wire.
RecvDone ==
    /\ op.kind = "recv" /\ ~op.cancelled
    /\ Completes
    /\ \E n \in 1..Least(peer.wire, InCap - in) :
         /\ in' = in + n
         /\ peer' = [peer EXCEPT !.wire = @ - n]
    /\ run' = At(op.then)
    /\ UNCHANGED <<slotVars, spare, tls, out, reply, session, gateVars>>

\* Cancelled, or the peer is gone: the completion's result is not positive.
OpFails ==
    /\ op.cancelled \/ (~peer.here /\ (op.kind = "recv" => peer.wire = 0))
    /\ Completes
    /\ run' = After(op.then, FALSE)
    /\ ResetIf(ResetsAfter(op.then, FALSE))
    /\ UNCHANGED <<refs, spare, dataVars, gateVars, peer>>

-----------------------------------------------------------------------------
(* ReadUntilParsed and SubmitTLSRecv, for a served connection              *)

\* ReadUntilParsed's guards; the entry reference was passed in.
CheckUntil ==
    /\ Running("until")
    /\ \/ /\ life = "serving"                      \* checkTimeout
          /\ ResetConcrete /\ Returns
       \/ /\ life # "serving"
          /\ Returns /\ UNCHANGED <<life, cancel>>
       \/ /\ life = "serving" /\ "serve" \in killed
          /\ ResetConcrete /\ Returns
       \/ /\ life = "serving" /\ "serve" \notin killed
          /\ run' = At("acquire") /\ UNCHANGED <<life, cancel, handles, spare>>
    /\ UNCHANGED <<refs, op, dataVars, gateVars, peer>>

\* work, or do_send's: the entry reference stays armed beside it.
AcquireWork ==
    /\ \/ Running("acquire") /\ run' = At("recv")
       \/ Running("acquire_send") /\ run' = At("send")
    /\ Acquires
    /\ UNCHANGED <<life, cancel, spare, op, dataVars, gateVars, peer>>

CheckRecv ==
    /\ Running("recv")
    /\ IF "serve" \in killed \/ life # "serving"
       THEN GoesOn(Told("bytes", FALSE))
       ELSE run' = At("read") /\ UNCHANGED <<handles, spare>>
    /\ UNCHANGED <<slotVars, op, dataVars, gateVars, peer>>

\* ReadPlain.  Besides plaintext it may leave a note to the peer to be
\* flushed first; an error, and a peer's close_notify, are results too.
ReadPlain ==
    /\ Running("read")
    /\ \E note \in BOOLEAN, sound \in BOOLEAN :
         LET o == IF note THEN [Stages(out, 1) EXCEPT !.note = TRUE] ELSE out
             p == Plain
             c == IF ~sound THEN "nothing" ELSE IF p.some THEN "bytes" ELSE "recv"
         IN /\ note => tls.notes < MaxNotes
            /\ tls' = [(IF sound THEN p.tls ELSE [tls EXCEPT !.phase = "error"])
                         EXCEPT !.notes = IF note THEN @ + 1 ELSE @]
            /\ in' = IF sound THEN p.in ELSE in
            /\ out' = o
            /\ IF Unread(o) > 0
               THEN run' = Flush(c) /\ UNCHANGED <<slotVars, handles, spare, op>>
               ELSE IF c = "recv" THEN Parks("recv")
               ELSE GoesOn(After(c, TRUE)) /\ UNCHANGED <<slotVars, op>>
    /\ UNCHANGED <<reply, session, gateVars, peer>>

\* on_bytes.  The parser gives up, wants more, or has the request, and
\* on_request answers it.
OnBytes ==
    /\ Running("bytes")
    /\ LET last == tls.turn > 1 /\ session[tls.turn - 1].of = "ask" IN
       \/ ResetConcrete /\ Returns /\ UNCHANGED reply
       \/ /\ run.ok /\ ~last
          /\ GoesOn(At("until")) /\ UNCHANGED <<life, cancel, reply>>
       \/ /\ run.ok /\ last
          /\ \E keep \in BOOLEAN : reply' = [left |-> Turn(tls).units \div Chunk, keep |-> keep]
          /\ GoesOn(At("acquire_send")) /\ UNCHANGED <<life, cancel>>
    /\ UNCHANGED <<refs, op, tls, in, out, session, gateVars, peer>>

-----------------------------------------------------------------------------
(* SubmitTLSSend and do_send's continuation                                *)

CheckSend ==
    /\ Running("send")
    /\ IF reply.left = 0
       THEN GoesOn(Told("progress", TRUE)) /\ UNCHANGED <<life, cancel>>
       ELSE IF "serve" \in killed \/ life # "serving"
       THEN GoesOn(Told("progress", FALSE)) /\ ResetConcrete
       ELSE run' = At("write") /\ UNCHANGED <<life, cancel, handles, spare>>
    /\ UNCHANGED <<refs, op, dataVars, gateVars, peer>>

\* WritePlain stages ciphertext, or fails, with an alert to flush or without.
\* Renegotiation is not enabled, so it never asks for a read.
WritePlain ==
    /\ Running("write")
    /\ \/ LET w == Written IN
          /\ tls' = w.tls /\ out' = w.out
          /\ reply' = IF w.taken THEN [reply EXCEPT !.left = @ - 1] ELSE reply
          /\ run' = Flush("send")
          /\ UNCHANGED <<slotVars, handles, spare, op>>
       \/ /\ tls' = [tls EXCEPT !.phase = "error"]
          /\ \/ /\ out' = [Stages(out, 1) EXCEPT !.note = TRUE]
                /\ run' = Flush("failed")
                /\ UNCHANGED <<slotVars, handles, spare, op>>
             \/ Fails("send") /\ UNCHANGED out
          /\ UNCHANGED reply
    /\ UNCHANGED <<in, session, gateVars, peer>>

\* The whole response is out: read the next request, or reset.  After a
\* failure SubmitTLSSend has reset already.
OnProgress ==
    /\ Running("progress")
    /\ IF run.ok /\ reply.keep /\ life = "serving"
       THEN GoesOn(At("until")) /\ UNCHANGED <<life, cancel>>
       ELSE Returns /\ ResetIf(run.ok)
    /\ UNCHANGED <<refs, op, dataVars, gateVars, peer>>

-----------------------------------------------------------------------------
(* Everybody else                                                          *)

\* A frame releases its ConnRef.  The last release of a draining connection
\* finalizes it: the descriptor is closed and the session freed.
Release ==
    /\ spare > 0
    /\ spare' = spare - 1 /\ refs' = refs - 1
    /\ IF refs = 1 /\ life = "draining"
       THEN life' = "free" /\ tls' = Idle /\ in' = 0 /\ out' = Empty
       ELSE UNCHANGED <<life, tls, in, out>>
    /\ UNCHANGED <<cancel, run, handles, op, reply, session, gateVars, peer>>

\* The kernel processes the Cancel: what is in the ring now is cancelled.
ProcessCancel ==
    /\ cancel /\ cancel' = FALSE
    /\ op' = IF op.kind = "none" THEN op ELSE [op EXCEPT !.cancelled = TRUE]
    /\ UNCHANGED <<life, refs, run, handles, spare, dataVars, gateVars, peer>>

\* reapIdle, while the gate's maintenance thread runs.
Reap ==
    /\ gate.pc = "open" /\ life = "serving"
    /\ ResetConcrete
    /\ UNCHANGED <<refs, stackVars, dataVars, gateVars, peer>>

\* `kill accept`, or the interrupt of the server's scope: one of them, once.
Kill(s) ==
    /\ killed = {} /\ killed' = {s}
    /\ UNCHANGED <<slotVars, stackVars, dataVars, tls_handshakes, gate, peer>>

\* Close's snapshot of the connections in mid-handshake.
CloseLook ==
    /\ gate.pc = "open"
    /\ gate' = [gate EXCEPT !.pc = "retire", !.seen =
                  life \in {"serving", "draining"} /\ tls.phase = "handshaking"]
    /\ UNCHANGED <<slotVars, stackVars, dataVars, tls_handshakes, killed, peer>>

\* Outside the lock it resets what it saw; retired says that the Reset was
\* the first and found an operation to cancel.
CloseRetire ==
    /\ gate.pc = "retire"
    /\ gate' = [pc |-> "drain", seen |-> FALSE,
                retired |-> gate.seen /\ life = "serving" /\ op.kind # "none"]
    /\ ResetIf(gate.seen)
    /\ UNCHANGED <<refs, stackVars, dataVars, tls_handshakes, killed, peer>>

CloseDrained ==
    /\ gate.pc = "drain" /\ tls_handshakes <= 0
    /\ gate' = [gate EXCEPT !.pc = "closed", !.retired = FALSE]
    /\ UNCHANGED <<slotVars, stackVars, dataVars, tls_handshakes, killed, peer>>

\* The peer takes its turn, or goes away for good.
PeerSays ==
    /\ peer.here /\ Talks(peer, "peer", {"handshake", "more", "ask"})
    /\ peer' = [Passed(peer, Turn(peer).units) EXCEPT !.wire = @ + Turn(peer).units]
    /\ UNCHANGED <<slotVars, stackVars, dataVars, gateVars>>

PeerLeaves ==
    /\ peer.here /\ peer' = [peer EXCEPT !.here = FALSE]
    /\ UNCHANGED <<slotVars, stackVars, dataVars, gateVars>>

-----------------------------------------------------------------------------
Stack == \/ InitTLS \/ CountHandshake \/ CheckDrive \/ DriveHandshake \/ Settle \/ Dispatch
         \/ FlushCipherOut
         \/ CheckUntil \/ AcquireWork \/ CheckRecv \/ ReadPlain \/ OnBytes
         \/ CheckSend \/ WritePlain \/ OnProgress

Completion == SendDone \/ RecvDone \/ OpFails

Close == CloseLook \/ CloseRetire \/ CloseDrained

Next == \/ Accept \/ Stack \/ Completion \/ Release \/ ProcessCancel
        \/ Reap \/ Close \/ \E s \in {"accept", "serve"} : Kill(s)
        \/ PeerSays \/ PeerLeaves

Spec == Init /\ [][Next]_vars

(***************************************************************************)
(* Workers run what is ready, the kernel processes a Cancel, completes     *)
(* what was cancelled and takes what is sent into the socket's buffer,     *)
(* and a Close once begun goes on.  A peer may be silent for ever.         *)
(***************************************************************************)
FairSpec == /\ Spec
            /\ WF_vars(Stack) /\ WF_vars(Release) /\ WF_vars(ProcessCancel)
            /\ WF_vars(SendDone \/ OpFails)
            /\ WF_vars(CloseRetire \/ CloseDrained)

-----------------------------------------------------------------------------
(* Properties                                                              *)

\* io_inflight_ is the references that are really there: one for the
\* operation in the ring, one for every ConnRef of the stack that runs and of
\* the stacks that are returning; so what each function of TLSConnectionIO.h
\* told its caller was true on every path, a refusal in the middle of a
\* response included, and the slot is freed exactly when nobody is left.
RefsExact ==
    /\ refs = handles + spare + (IF op.kind = "none" THEN 0 ELSE 1)
    /\ life \in {"new", "free"} <=> refs = 0

\* "Failures are delivered, not swallowed": a connection that serves has an
\* operation pending or a function running, never nobody, and a handshake
\* begun is counted until its continuation has been told how it ended.
Delivered ==
    /\ life = "serving" => op.kind # "none" \/ ~Running("none")
    /\ tls_handshakes = IF \/ run.fn \in {"drive", "handshake", "settled"}
                           \/ Running("flush") /\ run.then \in {"drive", "finished"}
                           \/ op.kind # "none" /\ op.then \in {"drive", "finished"}
                        THEN 1 ELSE 0

\* When the server turns to its peer, by a read it waits on, by reporting the
\* handshake or by asking for the next request, the peer has all that mbedtls
\* has produced: the two never wait for each other, and no subscriber serves
\* a client that has not got the server's Finished.
NothingHeldBack ==
    \/ op.kind = "recv"
    \/ run = Told("settled", TRUE) \/ run.fn \in {"dispatch", "until"}
    => /\ Unread(out) = 0
       /\ peer.here => peer.turn >= tls.turn /\ ~Talks(tls, "server", {"handshake", "reply"})

\* A Close that reset a connection in mid-handshake, with an operation
\* pending, does end, however silent the peer is.
CloseEnds == (gate.pc = "drain" /\ gate.retired) ~> (gate.pc = "closed")
=============================================================================

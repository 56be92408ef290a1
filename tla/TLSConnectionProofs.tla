------------------------ MODULE TLSConnectionProofs ------------------------
(***************************************************************************)
(* Proofs about TLSConnection, for any sessions, any sizes of the staging  *)
(* buffers and any schedule of refusals, kills, resets and a Close.        *)
(***************************************************************************)
EXTENDS TLSConnection, TLAPS

-----------------------------------------------------------------------------
(* The references, the stack and the count of handshakes                   *)

\* What the control of a connection ranges over.
ControlTyped ==
    /\ life \in {"new", "serving", "draining", "free"}
    /\ refs \in Nat /\ handles \in Nat /\ spare \in Nat
    /\ run \in [fn : Functions \cup {"none"}, ok : BOOLEAN, then : Continuations]
    /\ op \in [kind : {"none", "recv", "send"}, then : Continuations, cancelled : BOOLEAN]

\* A stack that runs holds a reference and excludes an operation in the ring;
\* the one that brings the news of a failed response has been reset.
StackHolds ==
    /\ handles = 0 <=> Running("none")
    /\ op.kind # "none" => Running("none")
    /\ op.kind = "recv" => op.then \in {"drive", "recv"}
    /\ Running("progress") /\ ~run.ok => life # "serving"

ControlInv == ControlTyped /\ StackHolds /\ RefsExact /\ Delivered

-----------------------------------------------------------------------------
(* What a step can do to them                                              *)

Frames == [fn : Functions, ok : BOOLEAN, then : Continuations]
HandshakeEnds == {"drive", "finished"}

\* The function is part of the handshake onConnection started.
Shaking(r) == r.fn \in {"drive", "handshake", "settled"} \/ (r.fn = "flush" /\ r.then \in HandshakeEnds)

\* A first Reset happened, or none.
Drains == life' = life \/ (life = "serving" /\ life' = "draining")

\* The stack goes on, with one reference more or not.
Moves == /\ ~Running("none") /\ Drains
         /\ \E r \in Frames :
              /\ run' = r
              /\ r.fn = "progress" /\ ~r.ok => life' # "serving"
              /\ \/ tls_handshakes' = tls_handshakes /\ (Shaking(r) <=> Shaking(run))
                 \/ tls_handshakes' = tls_handshakes + 1 /\ Shaking(r) /\ ~Shaking(run)
                 \/ tls_handshakes' = tls_handshakes - 1 /\ ~Shaking(r) /\ Shaking(run)
         /\ UNCHANGED <<spare, op>>
         /\ \/ UNCHANGED <<refs, handles>>
            \/ refs' = refs + 1 /\ handles' = handles + 1

\* It returns and nothing of the connection is left but a drain.
Ends == /\ ~Running("none") /\ Drains /\ life' # "serving"
        /\ Returns
        /\ UNCHANGED <<refs, op>>
        /\ \/ tls_handshakes' = tls_handshakes /\ ~Shaking(run)
           \/ tls_handshakes' = tls_handshakes - 1 /\ Shaking(run)

\* It returns and an operation is in the ring.
Waits == /\ ~Running("none") /\ life' = life
         /\ \E kind \in {"recv", "send"}, c \in Continuations :
              /\ Submits(kind, c)
              /\ kind = "recv" => c \in {"drive", "recv"}
              /\ c \in HandshakeEnds <=> Shaking(run)
         /\ tls_handshakes' = tls_handshakes

\* A completion starts a stack.
Starts == /\ Completes /\ Drains
          /\ \E r \in Frames :
               /\ run' = r
               /\ Shaking(r) <=> op.then \in HandshakeEnds
               /\ r.fn = "progress" /\ ~r.ok => life' # "serving"
          /\ UNCHANGED <<refs, spare, tls_handshakes>>

\* Somebody else's step.
Elsewhere == /\ Drains /\ UNCHANGED <<refs, run, handles, spare, tls_handshakes>>
             /\ op' \in [kind : {op.kind}, then : {op.then}, cancelled : BOOLEAN]

LEMMA ControlInit == Init => ControlInv
BY DEF Init, ControlInv, ControlTyped, StackHolds, RefsExact, Delivered, Running, Nobody, At, Told, NoOp,
       Functions, Continuations

LEMMA EffectKeeps ==
    ASSUME ControlInv, Accept \/ Moves \/ Ends \/ Waits \/ Starts \/ Elsewhere \/ Release
    PROVE  ControlInv'
<1> USE DEF ControlInv, ControlTyped, StackHolds, RefsExact, Delivered, Running, Functions, Continuations,
            Frames, Shaking, HandshakeEnds, Drains, Nobody, At, Told, NoOp
<1>1. CASE Accept
  BY <1>1 DEF Accept, stackVars, dataVars, gateVars
<1>2. CASE Moves
  BY <1>2 DEF Moves
<1>3. CASE Ends
  BY <1>3 DEF Ends, Returns
<1>4. CASE Waits
  BY <1>4 DEF Waits, Submits, Returns
<1>5. CASE Starts
  BY <1>5 DEF Starts, Completes
<1>6. CASE Elsewhere
  BY <1>6 DEF Elsewhere
<1>7. CASE Release
  BY <1>7 DEF Release, gateVars
<1>q. QED
  BY <1>1, <1>2, <1>3, <1>4, <1>5, <1>6, <1>7
-----------------------------------------------------------------------------
(* Every step is one of these                                              *)

Effect == Accept \/ Moves \/ Ends \/ Waits \/ Starts \/ Elsewhere \/ Release

LEMMA ResetDrains ==
    /\ ResetConcrete => Drains /\ life' # "serving"
    /\ \A b \in BOOLEAN : ResetIf(b) => Drains /\ (b => life' # "serving")
BY DEF ResetIf, ResetConcrete, Drains

\* What is next is one of the functions.
LEMMA AfterFrames ==
    ASSUME NEW c \in Continuations, NEW ok \in BOOLEAN
    PROVE  /\ After(c, ok) \in Frames
           /\ Shaking(After(c, ok)) <=> c \in HandshakeEnds
           /\ After(c, ok).fn = "progress" => ResetsAfter(c, ok)
BY DEF After, At, Told, Functions, Continuations, Frames, Shaking, HandshakeEnds, ResetsAfter

\* The stack goes on with what follows c.
LEMMA AfterMoves ==
    ASSUME ControlInv, ~Running("none"), NEW c \in Continuations, NEW ok \in BOOLEAN,
           Shaking(run) <=> c \in HandshakeEnds,
           GoesOn(After(c, ok)), ResetIf(ResetsAfter(c, ok)),
           UNCHANGED <<refs, op, tls_handshakes>>
    PROVE  Moves
<1>1. ResetsAfter(c, ok) \in BOOLEAN
  BY DEF ResetsAfter
<1>2. Drains /\ (ResetsAfter(c, ok) => life' # "serving")
  BY <1>1, ResetDrains
<1>3. run' = After(c, ok) /\ handles' = handles /\ UNCHANGED spare
  BY DEF GoesOn, HandedOn, ControlInv, ControlTyped
<1>q. QED
  BY <1>2, <1>3, AfterFrames DEF Moves

LEMMA FailsMoves ==
    ASSUME ControlInv, ~Running("none"), NEW c \in Continuations,
           Shaking(run) <=> c \in HandshakeEnds, Fails(c), UNCHANGED tls_handshakes
    PROVE  Moves
BY AfterMoves DEF Fails

LEMMA ParksEffect ==
    ASSUME ControlInv, ~Running("none"), NEW c \in {"drive", "recv"},
           Shaking(run) <=> c \in HandshakeEnds, Parks(c), UNCHANGED tls_handshakes
    PROVE  Moves \/ Waits
BY FailsMoves DEF Parks, Refused, Waits, Continuations

\* A stack that only goes on, by a call or by a function's next step.
LEMMA GoesMove ==
    ASSUME ControlInv, ~Running("none"), NEW r \in Frames,
           GoesOn(r) \/ (run' = r /\ UNCHANGED <<handles, spare>>),
           r.fn # "progress" \/ r.ok \/ life' # "serving",
           Drains, UNCHANGED <<refs, op, tls_handshakes>>, Shaking(r) <=> Shaking(run)
    PROVE  Moves
<1>1. run' = r /\ UNCHANGED <<handles, spare>>
  BY DEF GoesOn, HandedOn, ControlInv, ControlTyped
<1>q. QED
  BY <1>1 DEF Moves

LEMMA ResetEnds ==
    ASSUME ~Running("none"), ResetConcrete, Returns, UNCHANGED <<refs, op>>,
           \/ tls_handshakes' = tls_handshakes /\ ~Shaking(run)
           \/ tls_handshakes' = tls_handshakes - 1 /\ Shaking(run)
    PROVE  Ends
BY ResetDrains DEF Ends

LEMMA ControlEffect == ControlInv /\ [Next]_vars => Effect
<1> SUFFICES ASSUME ControlInv, [Next]_vars PROVE Effect
  OBVIOUS
<1>t. /\ op \in [kind : {op.kind}, then : {op.then}, cancelled : BOOLEAN]
      /\ run \in [fn : Functions \cup {"none"}, ok : BOOLEAN, then : Continuations]
      /\ tls_handshakes \in Int
  BY DEF ControlInv, ControlTyped, Delivered
<1>f. \A f \in Functions : \A b \in BOOLEAN :
         Told(f, b) \in Frames /\ Told(f, b).fn = f /\ Told(f, b).ok = b
  BY DEF Told, Frames, Continuations
<1>g. \A c \in Continuations : Flush(c) \in Frames /\ Flush(c).fn = "flush" /\ Flush(c).then = c
  BY DEF Flush, Frames, Functions
<1> USE DEF Running, Functions, Shaking, At
<1>2. CASE InitTLS
  <2>1. run.fn = "init" /\ UNCHANGED <<refs, op, tls_handshakes>>
    BY <1>2, Zenon DEF InitTLS, gateVars
  <2>2. \/ run' = At("count") /\ UNCHANGED <<life, handles, spare>>
        \/ ResetConcrete /\ Returns
    BY <1>2, Zenon DEF InitTLS
  <2>3. ASSUME run' = At("count"), UNCHANGED <<life, handles, spare>> PROVE Moves
    BY <1>f, <2>1, <2>3, GoesMove DEF Drains
  <2>q. QED
    BY <1>t, <2>1, <2>2, <2>3, ResetEnds DEF Effect
<1>3. CASE CountHandshake
  <2>1. /\ run.fn = "count" /\ run' = At("drive") /\ tls_handshakes' = tls_handshakes + 1
        /\ UNCHANGED <<life, refs, handles, spare, op>>
    BY <1>3 DEF CountHandshake, slotVars
  <2>q. QED
    BY <1>f, <2>1 DEF Moves, Drains, Effect
<1>4. CASE CheckDrive
  <2>1. /\ run.fn = "drive" /\ UNCHANGED <<life, refs, op, tls_handshakes>>
        /\ \/ GoesOn(Told("settled", FALSE))
           \/ run' = At("handshake") /\ UNCHANGED <<handles, spare>>
    BY <1>4 DEF CheckDrive, slotVars, gateVars
  <2>q. QED
    BY <1>f, <2>1, GoesMove DEF Drains, Effect
<1>5. CASE DriveHandshake
  <2>1. run.fn = "handshake" /\ UNCHANGED tls_handshakes
    BY <1>5, Zenon DEF DriveHandshake, gateVars
  <2>2. \/ Fails("drive") \/ Parks("drive")
        \/ /\ UNCHANGED <<slotVars, op>>
           /\ \/ run' = Flush("finished") /\ UNCHANGED <<handles, spare>>
              \/ run' = Flush("drive") /\ UNCHANGED <<handles, spare>>
              \/ GoesOn(Told("settled", TRUE))
    BY <1>5, Zenon DEF DriveHandshake
  <2>3. CASE Fails("drive") \/ Parks("drive")
    BY <2>1, <2>3, FailsMoves, ParksEffect DEF Continuations, HandshakeEnds, Effect
  <2>4. CASE /\ UNCHANGED <<slotVars, op>>
             /\ \/ run' = Flush("finished") /\ UNCHANGED <<handles, spare>>
                \/ run' = Flush("drive") /\ UNCHANGED <<handles, spare>>
                \/ GoesOn(Told("settled", TRUE))
    <3>1. Moves
      BY <1>f, <1>g, <2>1, <2>4, GoesMove DEF Drains, Continuations, HandshakeEnds, slotVars
    <3>q. QED
      BY <3>1 DEF Effect
  <2>q. QED
    BY <2>2, <2>3, <2>4
<1>6. CASE Settle
  <2>1. /\ run.fn = "settled" /\ UNCHANGED <<refs, op>> /\ tls_handshakes' = tls_handshakes - 1
        /\ \/ run' = At("dispatch") /\ UNCHANGED <<life, handles, spare>>
           \/ ResetConcrete /\ Returns
    BY <1>6 DEF Settle
  <2>2. CASE run' = At("dispatch") /\ UNCHANGED <<life, handles, spare>>
    BY <1>f, <2>1, <2>2 DEF Moves, Drains, Effect
  <2>q. QED
    BY <1>t, <2>1, <2>2, ResetEnds DEF Effect
<1>7. CASE Dispatch
  <2>1. /\ run.fn = "dispatch" /\ UNCHANGED <<op, tls_handshakes>>
        /\ \/ Acquires /\ run' = At("until") /\ UNCHANGED <<life, spare>>
           \/ ResetConcrete /\ Returns /\ UNCHANGED refs
    BY <1>7 DEF Dispatch, gateVars
  <2>2. CASE Acquires /\ run' = At("until") /\ UNCHANGED <<life, spare>>
    BY <1>f, <2>1, <2>2 DEF Moves, Acquires, Drains, Effect
  <2>q. QED
    BY <1>t, <2>1, <2>2, ResetEnds DEF Effect
<1>8. CASE FlushCipherOut
  <2>1. run.fn = "flush" /\ run.then \in Continuations /\ UNCHANGED tls_handshakes
    BY <1>t, <1>8, Zenon DEF FlushCipherOut, gateVars
  <2>2. \/ Fails(run.then) \/ Refused(run.then)
        \/ /\ GoesOn(After(run.then, TRUE)) /\ ResetIf(ResetsAfter(run.then, TRUE))
           /\ UNCHANGED <<refs, op>>
        \/ Submits("send", run.then) /\ UNCHANGED life
    BY <1>8, Zenon DEF FlushCipherOut
  <2>3. CASE Submits("send", run.then) /\ UNCHANGED life
    BY <2>1, <2>3 DEF Waits, Effect
  <2>q. QED
    BY <2>1, <2>2, <2>3, FailsMoves, AfterMoves DEF Refused, Effect
<1>9. CASE CheckUntil
  <2>1. /\ run.fn = "until" /\ UNCHANGED <<refs, op, tls_handshakes>>
        /\ \/ ResetConcrete /\ Returns
           \/ life # "serving" /\ Returns /\ UNCHANGED life
           \/ run' = At("acquire") /\ UNCHANGED <<life, handles, spare>>
    BY <1>9 DEF CheckUntil, gateVars
  <2>2. CASE life # "serving" /\ Returns /\ UNCHANGED life
    BY <1>t, <2>1, <2>2 DEF Ends, Drains, Effect
  <2>3. CASE run' = At("acquire") /\ UNCHANGED <<life, handles, spare>>
    BY <1>f, <2>1, <2>3, GoesMove DEF Drains, Effect
  <2>q. QED
    BY <1>t, <2>1, <2>2, <2>3, ResetEnds DEF Effect
<1>10. CASE AcquireWork
  <2>1. /\ run.fn \in {"acquire", "acquire_send"} /\ Acquires
        /\ run' = At("recv") \/ run' = At("send")
        /\ UNCHANGED <<life, spare, op, tls_handshakes>>
    BY <1>10 DEF AcquireWork, gateVars
  <2>2. PICK r \in Frames : run' = r /\ r.fn \in {"recv", "send"} /\ ~r.ok
    BY <1>f, <2>1
  <2>3. Drains /\ refs' = refs + 1 /\ handles' = handles + 1
    BY <2>1 DEF Acquires, Drains
  <2>4. ~Shaking(r) /\ ~Shaking(run)
    BY <2>1, <2>2
  <2>5. Moves
    BY <2>1, <2>2, <2>3, <2>4 DEF Moves
  <2>q. QED
    BY <2>5 DEF Effect
<1>11. CASE CheckRecv
  <2>1. /\ run.fn = "recv" /\ UNCHANGED <<life, refs, op, tls_handshakes>>
        /\ \/ GoesOn(Told("bytes", FALSE))
           \/ run' = At("read") /\ UNCHANGED <<handles, spare>>
    BY <1>11 DEF CheckRecv, slotVars, gateVars
  <2>q. QED
    BY <1>f, <2>1, GoesMove DEF Drains, Effect
<1>12. CASE ReadPlain
  <2>1. run.fn = "read" /\ UNCHANGED tls_handshakes
    BY <1>12, Zenon DEF ReadPlain, gateVars
  <2>2. \/ Parks("recv")
        \/ /\ UNCHANGED <<slotVars, op>>
           /\ \E c \in {"recv", "bytes", "nothing"} :
                \/ run' = Flush(c) /\ UNCHANGED <<handles, spare>>
                \/ c # "recv" /\ GoesOn(After(c, TRUE))
    BY <1>12, Zenon DEF ReadPlain
  <2>3. CASE Parks("recv")
    BY <2>1, <2>3, ParksEffect DEF Continuations, HandshakeEnds, Effect
  <2>4. ASSUME UNCHANGED <<slotVars, op>>, NEW c \in {"recv", "bytes", "nothing"},
               \/ run' = Flush(c) /\ UNCHANGED <<handles, spare>>
               \/ c # "recv" /\ GoesOn(After(c, TRUE))
        PROVE  Moves
    <3>1. CASE run' = Flush(c) /\ UNCHANGED <<handles, spare>>
      BY <1>g, <2>1, <2>4, <3>1, GoesMove DEF Drains, Continuations, HandshakeEnds, slotVars
    <3>2. CASE c # "recv" /\ GoesOn(After(c, TRUE))
      <4>1. /\ After(c, TRUE) \in Frames /\ After(c, TRUE).fn = "bytes"
        BY <3>2 DEF After, At, Told, Frames, Continuations
      <4>q. QED
        BY <2>1, <2>4, <3>2, <4>1, GoesMove DEF Drains, slotVars
    <3>q. QED
      BY <2>4, <3>1, <3>2
  <2>q. QED
    BY <2>2, <2>3, <2>4 DEF Effect
<1>13. CASE OnBytes
  <2>1. /\ run.fn = "bytes" /\ UNCHANGED <<refs, op, tls_handshakes>>
        /\ \/ ResetConcrete /\ Returns
           \/ GoesOn(At("until")) /\ UNCHANGED life
           \/ GoesOn(At("acquire_send")) /\ UNCHANGED life
    BY <1>13, Zenon DEF OnBytes, gateVars
  <2>2. CASE (GoesOn(At("until")) \/ GoesOn(At("acquire_send"))) /\ UNCHANGED life
    BY <1>f, <2>1, <2>2, GoesMove DEF Drains, Effect
  <2>q. QED
    BY <1>t, <2>1, <2>2, ResetEnds DEF Effect
<1>14. CASE CheckSend
  <2>1. /\ run.fn = "send" /\ UNCHANGED <<refs, op, tls_handshakes>>
        /\ \/ GoesOn(Told("progress", TRUE)) /\ UNCHANGED life
           \/ GoesOn(Told("progress", FALSE)) /\ ResetConcrete
           \/ run' = At("write") /\ UNCHANGED <<life, handles, spare>>
    BY <1>14 DEF CheckSend, gateVars
  <2>q. QED
    BY <1>f, <2>1, GoesMove, ResetDrains DEF Drains, Effect
<1>15. CASE WritePlain
  <2>1. run.fn = "write" /\ UNCHANGED tls_handshakes
    BY <1>15, Zenon DEF WritePlain, gateVars
  <2>2. \/ Fails("send")
        \/ /\ UNCHANGED <<slotVars, handles, spare, op>>
           /\ run' = Flush("send") \/ run' = Flush("failed")
    BY <1>15, Zenon DEF WritePlain
  <2>3. CASE Fails("send")
    BY <2>1, <2>3, FailsMoves DEF Continuations, HandshakeEnds, Effect
  <2>4. CASE /\ UNCHANGED <<slotVars, handles, spare, op>>
             /\ run' = Flush("send") \/ run' = Flush("failed")
    BY <1>g, <2>1, <2>4, GoesMove DEF Drains, Continuations, HandshakeEnds, slotVars, Effect
  <2>q. QED
    BY <2>2, <2>3, <2>4
<1>16. CASE OnProgress
  <2>1. run.fn = "progress" /\ UNCHANGED <<refs, op, tls_handshakes>>
    BY <1>16 DEF OnProgress, gateVars
  <2>2. CASE GoesOn(At("until")) /\ UNCHANGED life
    BY <1>f, <2>1, <2>2, GoesMove DEF Drains, Effect
  <2>3. CASE Returns /\ ResetIf(run.ok)
    <3>1. Drains /\ (run.ok => life' # "serving")
      BY <1>t, <2>3, ResetDrains
    <3>2. life' # "serving"
      BY <2>1, <3>1 DEF ControlInv, StackHolds, Drains
    <3>q. QED
      BY <1>t, <2>1, <2>3, <3>1, <3>2 DEF Ends, Effect
  <2>q. QED
    BY <1>16, <2>2, <2>3 DEF OnProgress
<1>17. CASE SendDone
  <2>1. Completes /\ run' = Flush(op.then) /\ UNCHANGED <<life, refs, spare, tls_handshakes>>
    BY <1>17, Zenon DEF SendDone, slotVars, gateVars
  <2>2. op.then \in Continuations
    BY DEF ControlInv, ControlTyped
  <2>q. QED
    BY <1>g, <2>1, <2>2 DEF Starts, Drains, Effect
<1>18. CASE RecvDone
  <2>1. Completes /\ run' = At(op.then) /\ UNCHANGED <<life, refs, spare, tls_handshakes>>
    BY <1>18, Zenon DEF RecvDone, slotVars, gateVars
  <2>2. op.then \in {"drive", "recv"}
    BY <1>18 DEF RecvDone, ControlInv, StackHolds
  <2>q. QED
    BY <1>f, <2>1, <2>2 DEF Starts, Drains, Effect, HandshakeEnds
<1>19. CASE OpFails
  <2>1. /\ Completes /\ run' = After(op.then, FALSE) /\ ResetIf(ResetsAfter(op.then, FALSE))
        /\ UNCHANGED <<refs, spare, tls_handshakes>>
    BY <1>19, Zenon DEF OpFails, gateVars
  <2>2. op.then \in Continuations
    BY DEF ControlInv, ControlTyped
  <2>3. Drains /\ (ResetsAfter(op.then, FALSE) => life' # "serving")
    BY <2>1, ResetDrains DEF ResetsAfter
  <2>q. QED
    BY <2>1, <2>2, <2>3, AfterFrames DEF Starts, Effect
<1>21. CASE ProcessCancel
  <2>1. /\ UNCHANGED <<life, refs, run, handles, spare, tls_handshakes>>
        /\ op' = op \/ op' = [op EXCEPT !.cancelled = TRUE]
    BY <1>21, Zenon DEF ProcessCancel, gateVars
  <2>2. op' \in [kind : {op.kind}, then : {op.then}, cancelled : BOOLEAN]
    BY <1>t, <2>1
  <2>q. QED
    BY <2>1, <2>2 DEF Elsewhere, Drains, Effect
<1>22. CASE Reap
  <2>1. Drains /\ UNCHANGED <<refs, run, handles, spare, op, tls_handshakes>>
    BY <1>22, ResetDrains DEF Reap, stackVars, gateVars
  <2>q. QED
    BY <1>t, <2>1 DEF Elsewhere, Effect
<1>23. ASSUME NEW s \in {"accept", "serve"}, Kill(s) PROVE Effect
  BY <1>t, <1>23 DEF Kill, Elsewhere, stackVars, slotVars, Drains, Effect
<1>24. CASE CloseLook
  <2>1. UNCHANGED <<life, refs, run, handles, spare, op, tls_handshakes>>
    BY <1>24, Zenon DEF CloseLook, stackVars, slotVars
  <2>q. QED
    BY <1>t, <2>1 DEF Elsewhere, Drains, Effect
<1>25. CASE CloseRetire
  <2>1. ResetIf(gate.seen) /\ UNCHANGED <<refs, run, handles, spare, op, tls_handshakes>>
    BY <1>25, Zenon DEF CloseRetire, stackVars
  <2>2. Drains
    BY <2>1 DEF ResetIf, ResetConcrete, Drains
  <2>q. QED
    BY <1>t, <2>1, <2>2 DEF Elsewhere, Effect
<1>26. CASE CloseDrained
  <2>1. UNCHANGED <<life, refs, run, handles, spare, op, tls_handshakes>>
    BY <1>26, Zenon DEF CloseDrained, stackVars, slotVars
  <2>q. QED
    BY <1>t, <2>1 DEF Elsewhere, Drains, Effect
<1>27. CASE PeerSays \/ PeerLeaves \/ UNCHANGED vars
  <2>1. UNCHANGED <<life, refs, run, handles, spare, op, tls_handshakes>>
    BY <1>27, Zenon DEF PeerSays, PeerLeaves, vars, stackVars, slotVars, gateVars
  <2>q. QED
    BY <1>t, <2>1 DEF Elsewhere, Drains, Effect
<1>q. QED
  BY <1>2, <1>3, <1>4, <1>5, <1>6, <1>7, <1>8, <1>9, <1>10, <1>11, <1>12, <1>13, <1>14, <1>15, <1>16, <1>17, <1>18, <1>19, <1>21, <1>22, <1>23, <1>24, <1>25, <1>26, <1>27 DEF Next, Stack, Completion, Close, Effect
LEMMA ControlStep == ControlInv /\ [Next]_vars => ControlInv'
BY ControlEffect, EffectKeeps DEF Effect

LEMMA ControlAlways == Spec => []ControlInv
BY ControlInit, ControlStep, PTL DEF Spec

\* Every function of TLSConnectionIO.h tells its caller the truth about the
\* reference it was handed, on every path: what io_inflight_ counts is there.
THEOREM ReferencesTrue == Spec => []RefsExact
<1>1. ControlInv => RefsExact
  BY DEF ControlInv
<1>q. QED
  BY <1>1, ControlAlways, PTL

\* A connection that serves is never left to nobody, and a handshake is
\* counted exactly until its continuation has run.
THEOREM FailuresDelivered == Spec => []Delivered
<1>1. ControlInv => Delivered
  BY DEF ControlInv
<1>q. QED
  BY <1>1, ControlAlways, PTL

-----------------------------------------------------------------------------
(* What has been said, what is staged and what is heard                    *)

\* A turn of the session and a number of its units, or the end.
Place(turn, done) ==
    /\ turn \in 1..(Len(session) + 1) /\ done \in Nat
    /\ IF turn \in DOMAIN session THEN done < session[turn].units ELSE done = 0

IsBy(turn, who)  == turn \in DOMAIN session /\ session[turn].by = who
IsOf(turn, what) == turn \in DOMAIN session /\ session[turn].of = what

\* The peer has heard what mbedtls produced: the two are at the same unit of
\* the server's turn, or all turns that mbedtls is behind are the peer's, and
\* what it has not taken of them (n) is staged or on the wire.  Upto counts
\* the units the peer has said.
Counts(Upto, from, to) ==
    \A i \in from..(to - 1) : /\ Upto[i] <= Upto[to]
                              /\ Upto[i + 1] = Upto[i] + session[i].units
Abreast(turn, done, pturn, pdone, n) ==
    /\ turn <= pturn
    /\ \A i \in turn..(pturn - 1) : session[i].by = "peer"
    /\ IF turn = pturn THEN n = 0 /\ done = pdone
       ELSE /\ pdone = 0
            /\ \E Upto \in [Nat -> Nat] : /\ Counts(Upto, turn, pturn)
                                          /\ Upto[turn] + done + n = Upto[pturn]

\* u units of the server's turn are staged or on their way.
Ahead(turn, done, pturn, pdone, n, u) ==
    /\ IsBy(pturn, "server") /\ n = 0
    /\ \/ turn = pturn /\ done = pdone + u
       \/ turn = pturn + 1 /\ done = 0 /\ session[pturn].units = pdone + u

\* What the connection does next.
Before    == {"init", "count", "drive", "handshake"}
Between   == {"dispatch", "until", "acquire", "recv", "read"}
Replying  == {"acquire_send", "send", "write"}
Reports   == {"settled", "bytes", "progress"}

\* Where in the session each of them finds mbedtls.
Listening == tls.turn \notin DOMAIN session \/ session[tls.turn].of \in {"more", "ask"}
HasRead   == /\ tls.turn - 1 \in DOMAIN session
             /\ \/ IsOf(tls.turn - 1, "more") /\ Listening
                \/ IsOf(tls.turn - 1, "ask") /\ IsOf(tls.turn, "reply") /\ tls.done = 0
Answering == IF reply.left = 0 THEN Listening
             ELSE /\ IsOf(tls.turn, "reply")
                  /\ \E k \in Nat : /\ session[tls.turn].units = Chunk * (reply.left + k)
                                    /\ Chunk * k <= tls.done /\ tls.done < Chunk * k + Chunk

AllHeard == Abreast(tls.turn, tls.done, peer.turn, peer.done, in + peer.wire)
Staged   == Ahead(tls.turn, tls.done, peer.turn, peer.done, in + peer.wire, Unread(out))

\* What a stack expects that goes on to c when out is drained.
GoalFits(c) ==
    /\ c = "drive" => IsOf(tls.turn, "handshake")
    /\ c \in {"finished", "recv"} => Listening
    /\ c = "bytes" => HasRead
    /\ c = "send" => Answering

\* What the function r expects.  One that was not told of a failure has
\* nothing to send, and nothing but out was not sent.
Expects(r) ==
    /\ r.fn = "init" => in = 0
    /\ r.fn \in Before => IsOf(tls.turn, "handshake")
    /\ r.fn \in Between \/ (r.fn = "settled" /\ r.ok) => Listening
    /\ r.fn = "bytes" /\ r.ok => HasRead
    /\ r.fn \in Replying => Answering /\ (r.fn = "write" => reply.left # 0)
    /\ r.fn = "progress" /\ r.ok => reply.left = 0 /\ Listening
    /\ r.fn = "flush" => GoalFits(r.then)
InTime(r) == r.fn \in Before \cup Between \cup Replying \/ (r.fn \in Reports /\ r.ok)
Flowing   == IF out.note \/ Unread(out) = 0 THEN AllHeard ELSE Staged
RunOk(r)  == /\ Expects(r)
             /\ InTime(r) => out = Empty /\ AllHeard
             /\ r.fn = "flush" => Flowing

\* What an operation finds when it completes.
OpOk(o) == /\ o.kind # "none" => GoalFits(o.then)
           /\ o.kind = "recv" => out = Empty /\ AllHeard /\ (o.then = "drive" => IsBy(tls.turn, "peer"))
           /\ o.kind = "send" => Flowing

Contexts == [phase : {"idle", "handshaking", "established", "error"},
             turn : Nat, done : Nat, notes : 0..MaxNotes]
Peers    == [turn : Nat, done : Nat, wire : Nat, here : BOOLEAN]
Buffers  == [len : 0..OutCap, off : 0..OutCap, note : BOOLEAN]

DataTyped ==
    /\ session \in Sessions
    /\ tls \in Contexts /\ Place(tls.turn, tls.done)
    /\ in \in 0..InCap
    /\ out \in Buffers /\ out.off <= out.len
    /\ reply \in [left : Nat, keep : BOOLEAN]
    /\ peer \in Peers /\ Place(peer.turn, peer.done)
    /\ IsBy(peer.turn, "peer") => peer.done = 0

DataInv ==
    /\ DataTyped
    /\ life = "new" => RunOk(At("init"))
    /\ RunOk(run) /\ OpOk(op)

-----------------------------------------------------------------------------
(* Turns and places                                                        *)

LEMMA SessionFacts ==
    ASSUME session \in Sessions
    PROVE  /\ session \in Seq(Turns) /\ Len(session) \in Nat /\ DOMAIN session = 1..Len(session)
           /\ 1 \in DOMAIN session /\ session[1].of = "handshake"
           /\ \A i \in DOMAIN session :
                /\ i \in Nat /\ session[i] \in Turns /\ session[i].units \in Nat \ {0}
                /\ session[i].by \in {"peer", "server"}
                /\ session[i].of \in {"handshake", "more", "ask", "reply"}
                /\ session[i].of \in {"more", "ask"} => session[i].by = "peer"
                /\ session[i].of = "reply" => session[i].by = "server" /\ session[i].units % Chunk = 0
<1>1. session \in Seq(Turns) /\ session # <<>>
  BY TLSAssumption
<1>2. /\ Len(session) \in Nat /\ DOMAIN session = 1..Len(session) /\ 1 \in DOMAIN session
      /\ \A i \in DOMAIN session : i \in Nat /\ session[i] \in Turns
  BY <1>1
<1>3. \A i \in DOMAIN session :
         /\ session[i].of = "handshake" => i = 1 \/ Follows(session, i, "handshake")
         /\ session[i].of \in {"more", "ask"} => i > 1 /\ session[i].by = "peer"
         /\ session[i].of = "reply" => /\ Follows(session, i, "ask")
                                      /\ session[i].by = "server" /\ session[i].units % Chunk = 0
  BY TLSAssumption
<1>4. \A i \in DOMAIN session : /\ session[i].units \in Nat \ {0}
                                /\ session[i].by \in {"peer", "server"}
                                /\ session[i].of \in {"handshake", "more", "ask", "reply"}
  BY <1>2 DEF Turns
<1>5. session[1].of = "handshake"
  BY <1>2, <1>3, <1>4 DEF Follows
<1>q. QED
  BY <1>1, <1>2, <1>3, <1>4, <1>5

\* What comes next in a session.
LEMMA NextTurn ==
    ASSUME session \in Sessions, NEW i \in DOMAIN session
    PROVE  /\ i + 1 \in 1..(Len(session) + 1)
           /\ session[i].of = "handshake" /\ i + 1 \in DOMAIN session => session[i + 1].of # "reply"
           /\ session[i].of \in {"more", "reply"} /\ i + 1 \in DOMAIN session =>
                session[i + 1].of \in {"more", "ask"}
           /\ session[i].of = "ask" => i + 1 \in DOMAIN session /\ session[i + 1].of = "reply"
<1>1. /\ session \in Seq(Turns) /\ Len(session) \in Nat /\ DOMAIN session = 1..Len(session) /\ i \in Nat
      /\ i + 1 \in DOMAIN session => session[i + 1].of \in {"handshake", "more", "ask", "reply"}
  BY SessionFacts
<1>2. session[i].of = "ask" => i < Len(session) /\ session[i + 1].of = "reply"
  BY TLSAssumption
<1>3. ASSUME i + 1 \in DOMAIN session
      PROVE  /\ session[i + 1].of = "handshake" => session[i].of = "handshake"
             /\ session[i + 1].of = "reply" => session[i].of = "ask"
  <2>1. PICK j \in DOMAIN session : j = i + 1
    BY <1>3
  <2>2. /\ session[j].of = "handshake" => j = 1 \/ Follows(session, j, "handshake")
        /\ session[j].of = "reply" => Follows(session, j, "ask")
    BY TLSAssumption
  <2>3. j # 1 /\ j - 1 = i
    BY <2>1, <1>1
  <2>q. QED
    BY <2>1, <2>2, <2>3 DEF Follows
<1>q. QED
  BY <1>1, <1>2, <1>3

\* n units of the current turn are through.
LEMMA PassedPlace ==
    ASSUME session \in Sessions, NEW turn \in DOMAIN session, NEW done \in Nat, Place(turn, done),
           NEW n \in Nat, 0 < n, n <= session[turn].units - done
    PROVE  IF n = session[turn].units - done THEN Place(turn + 1, 0) ELSE Place(turn, done + n)
<1>1. /\ Len(session) \in Nat /\ DOMAIN session = 1..Len(session)
      /\ \A i \in DOMAIN session : session[i].units \in Nat \ {0}
  BY SessionFacts
<1>q. QED
  BY <1>1 DEF Place

LEMMA PassedContext ==
    ASSUME session \in Sessions, NEW t \in Contexts, t.turn \in DOMAIN session, Place(t.turn, t.done),
           NEW n \in Nat, 0 < n, n <= Missing(t)
    PROVE  /\ Passed(t, n) \in Contexts /\ Place(Passed(t, n).turn, Passed(t, n).done)
           /\ Passed(t, n).turn = IF n = Missing(t) THEN t.turn + 1 ELSE t.turn
           /\ Passed(t, n).done = IF n = Missing(t) THEN 0 ELSE t.done + n
           /\ Missing(t) = session[t.turn].units - t.done
<1>1. t.turn \in Nat /\ t.done \in Nat
  BY DEF Contexts
<1>2. Missing(t) = session[t.turn].units - t.done
  BY DEF Missing, Turn
<1>3. CASE n = Missing(t)
  <2>1. Passed(t, n) = [t EXCEPT !.turn = t.turn + 1, !.done = 0]
    BY <1>3 DEF Passed
  <2>2. PICK a \in Nat : a = t.turn + 1
    BY <1>1
  <2>3. PICK u : u = [t EXCEPT !.turn = a, !.done = 0]
    OBVIOUS
  <2>4. u \in Contexts
    BY <2>3 DEF Contexts
  <2>5. u.turn = a
    BY <2>3 DEF Contexts
  <2>6. u.done = 0
    BY <2>3 DEF Contexts
  <2>7. Passed(t, n) = u
    BY <2>1, <2>2, <2>3
  <2>8. Place(a, 0)
    BY <1>1, <1>2, <1>3, <2>2, PassedPlace
  <2>q. QED
    BY <1>2, <1>3, <2>2, <2>4, <2>5, <2>6, <2>7, <2>8
<1>4. CASE n # Missing(t)
  <2>1. Passed(t, n) = [t EXCEPT !.done = t.done + n]
    BY <1>4 DEF Passed
  <2>2. /\ Passed(t, n) \in Contexts
        /\ Passed(t, n).turn = t.turn /\ Passed(t, n).done = t.done + n
    BY <1>1, <2>1 DEF Contexts
  <2>q. QED
    BY <1>1, <1>2, <1>4, <2>2, PassedPlace
<1>q. QED
  BY <1>3, <1>4

LEMMA PassedPeer ==
    ASSUME session \in Sessions, NEW t \in Peers, t.turn \in DOMAIN session, Place(t.turn, t.done),
           NEW n \in Nat, 0 < n, n <= Missing(t)
    PROVE  /\ Passed(t, n) \in Peers /\ Place(Passed(t, n).turn, Passed(t, n).done)
           /\ Passed(t, n).turn = IF n = Missing(t) THEN t.turn + 1 ELSE t.turn
           /\ Passed(t, n).done = IF n = Missing(t) THEN 0 ELSE t.done + n
           /\ Passed(t, n).wire = t.wire
           /\ Missing(t) = session[t.turn].units - t.done
<1>1. t.turn \in Nat /\ t.done \in Nat
  BY DEF Peers
<1>2. Missing(t) = session[t.turn].units - t.done
  BY DEF Missing, Turn
<1>3. CASE n = Missing(t)
  <2>1. Passed(t, n) = [t EXCEPT !.turn = t.turn + 1, !.done = 0]
    BY <1>3 DEF Passed
  <2>2. PICK a \in Nat : a = t.turn + 1
    BY <1>1
  <2>3. PICK u : u = [t EXCEPT !.turn = a, !.done = 0]
    OBVIOUS
  <2>4. u \in Peers
    BY <2>3 DEF Peers
  <2>5. u.turn = a
    BY <2>3 DEF Peers
  <2>6. u.done = 0 /\ u.wire = t.wire
    BY <2>3 DEF Peers
  <2>7. Passed(t, n) = u
    BY <2>1, <2>2, <2>3
  <2>8. Place(a, 0)
    BY <1>1, <1>2, <1>3, <2>2, PassedPlace
  <2>q. QED
    BY <1>2, <1>3, <2>2, <2>4, <2>5, <2>6, <2>7, <2>8
<1>4. CASE n # Missing(t)
  <2>1. Passed(t, n) = [t EXCEPT !.done = t.done + n]
    BY <1>4 DEF Passed
  <2>2. /\ Passed(t, n) \in Peers /\ Passed(t, n).wire = t.wire
        /\ Passed(t, n).turn = t.turn /\ Passed(t, n).done = t.done + n
    BY <1>1, <2>1 DEF Peers
  <2>q. QED
    BY <1>1, <1>2, <1>4, <2>2, PassedPlace
<1>q. QED
  BY <1>3, <1>4

-----------------------------------------------------------------------------
(* mbedtls takes, the peer says, mbedtls stages, the peer hears            *)

LEMMA TakeKeeps ==
    ASSUME session \in Sessions, NEW turn \in DOMAIN session, NEW done \in Nat, NEW pturn \in Nat, NEW pdone \in Nat,
           NEW n \in Nat, NEW m \in Nat, 0 < m, m <= n, m <= session[turn].units - done,
           Abreast(turn, done, pturn, pdone, n)
    PROVE  IF m = session[turn].units - done THEN Abreast(turn + 1, 0, pturn, pdone, n - m)
                                             ELSE Abreast(turn, done + m, pturn, pdone, n - m)
<1>1. turn \in Nat /\ session[turn].units \in Nat
  BY SessionFacts
<1>2. turn < pturn /\ pdone = 0 /\ \A i \in turn..(pturn - 1) : session[i].by = "peer"
  BY <1>1 DEF Abreast
<1>3. PICK Upto \in [Nat -> Nat] : Counts(Upto, turn, pturn) /\ Upto[turn] + done + n = Upto[pturn]
  BY <1>1, <1>2 DEF Abreast
<1>4. CASE m = session[turn].units - done
  <2>1. Upto[turn + 1] = Upto[turn] + session[turn].units
    BY <1>1, <1>2, <1>3 DEF Counts
  <2>2. Upto[turn] \in Nat /\ Upto[turn + 1] \in Nat /\ Upto[pturn] \in Nat
    BY <1>1, <1>3
  <2>3. Upto[turn + 1] + 0 + (n - m) = Upto[pturn]
    BY <1>1, <1>3, <1>4, <2>1, <2>2
  <2>4. CASE turn + 1 = pturn
    <3>1. n - m = 0
      BY <2>2, <2>3, <2>4
    <3>q. QED
      BY <1>1, <1>2, <1>4, <2>4, <3>1 DEF Abreast
  <2>5. CASE turn + 1 < pturn
    <3>1. Counts(Upto, turn + 1, pturn)
      BY <1>1, <1>3 DEF Counts
    <3>q. QED
      BY <1>1, <1>2, <1>3, <1>4, <2>3, <2>5, <3>1 DEF Abreast
  <2>q. QED
    BY <1>1, <1>2, <2>4, <2>5
<1>5. CASE m # session[turn].units - done
  <2>1. Upto[turn] \in Nat /\ Upto[pturn] \in Nat
    BY <1>1, <1>3
  <2>2. Upto[turn] + (done + m) + (n - m) = Upto[pturn]
    BY <1>3, <2>1
  <2>q. QED
    BY <1>1, <1>2, <1>3, <1>5, <2>2 DEF Abreast
<1>q. QED
  BY <1>4, <1>5

LEMMA SayKeeps ==
    ASSUME session \in Sessions, NEW turn \in Nat, NEW done \in Nat, NEW pturn \in DOMAIN session, session[pturn].by = "peer",
           NEW n \in Nat, Abreast(turn, done, pturn, 0, n)
    PROVE  Abreast(turn, done, pturn + 1, 0, n + session[pturn].units)
<1>1. pturn \in Nat /\ session[pturn].units \in Nat /\ session[pturn].units > 0
  BY SessionFacts
<1>2. turn <= pturn /\ turn # pturn + 1 /\ \A i \in turn..((pturn + 1) - 1) : session[i].by = "peer"
  BY <1>1 DEF Abreast
<1>3. \E Upto \in [Nat -> Nat] : Counts(Upto, turn, pturn + 1) /\ Upto[turn] + done + (n + session[pturn].units) = Upto[pturn + 1]
  <2>1. CASE turn = pturn
    <3> DEFINE V == [j \in Nat |-> IF j = pturn + 1 THEN session[pturn].units ELSE 0]
    <3>1. V \in [Nat -> Nat] /\ V[pturn] = 0 /\ V[pturn + 1] = session[pturn].units
      BY <1>1
    <3>2. done = 0 /\ n = 0
      BY <2>1 DEF Abreast
    <3> HIDE DEF V
    <3>3. Counts(V, turn, pturn + 1)
      BY <1>1, <2>1, <3>1 DEF Counts
    <3>q. QED
      BY <1>1, <2>1, <3>1, <3>2, <3>3
  <2>2. CASE turn < pturn
    <3>1. PICK U \in [Nat -> Nat] : Counts(U, turn, pturn) /\ U[turn] + done + n = U[pturn]
      BY <1>1, <2>2 DEF Abreast
    <3> DEFINE V == [j \in Nat |-> IF j = pturn + 1 THEN U[pturn] + session[pturn].units ELSE U[j]]
    <3>2. /\ V \in [Nat -> Nat] /\ V[pturn + 1] = U[pturn] + session[pturn].units
          /\ \A j \in Nat : j # pturn + 1 => V[j] = U[j]
      BY <1>1, <3>1
    <3>3. U[turn] \in Nat /\ U[pturn] \in Nat /\ V[turn] = U[turn]
      BY <1>1, <1>2, <3>1, <3>2
    <3> HIDE DEF V
    <3>4. Counts(V, turn, pturn + 1)
      <4> SUFFICES ASSUME NEW i \in turn..((pturn + 1) - 1)
                   PROVE  V[i] <= V[pturn + 1] /\ V[i + 1] = V[i] + session[i].units
        BY DEF Counts
      <4>1. CASE i = pturn
        BY <1>1, <3>2, <3>3, <4>1
      <4>2. CASE i # pturn
        <5>1. i \in turn..(pturn - 1) /\ i \in Nat /\ i + 1 # pturn + 1 /\ i # pturn + 1 /\ i + 1 \in Nat
          BY <1>1, <4>2
        <5>2. U[i] \in Nat /\ U[i] <= U[pturn] /\ U[i + 1] = U[i] + session[i].units
          BY <3>1, <5>1 DEF Counts
        <5>q. QED
          BY <1>1, <3>2, <3>3, <5>1, <5>2
      <4>q. QED
        BY <4>1, <4>2
    <3>5. V[turn] + done + (n + session[pturn].units) = V[pturn + 1]
      BY <1>1, <3>1, <3>2, <3>3
    <3>q. QED
      BY <3>2, <3>4, <3>5
  <2>q. QED
    BY <1>1, <1>2, <2>1, <2>2
<1>q. QED
  BY <1>1, <1>2, <1>3 DEF Abreast

LEMMA StageIsAhead ==
    ASSUME session \in Sessions, NEW turn \in Nat, NEW done \in Nat, NEW pturn \in Nat, NEW pdone \in Nat,
           NEW n \in Nat, NEW m \in Nat, 0 < m, IsBy(turn, "server"), m <= session[turn].units - done,
           Abreast(turn, done, pturn, pdone, n)
    PROVE  IF m = session[turn].units - done THEN Ahead(turn + 1, 0, pturn, pdone, n, m)
                                             ELSE Ahead(turn, done + m, pturn, pdone, n, m)
<1>1. session[turn].units \in Nat
  BY SessionFacts DEF IsBy
<1>2. turn = pturn /\ n = 0 /\ done = pdone
  BY DEF Abreast, IsBy
<1>q. QED
  BY <1>1, <1>2 DEF Ahead

LEMMA HearKeeps ==
    ASSUME session \in Sessions, NEW turn \in Nat, NEW done \in Nat, NEW pturn \in Nat, NEW pdone \in Nat,
           Place(turn, done), Place(pturn, pdone),
           NEW n \in Nat, NEW u \in Nat, NEW m \in 1..u, Ahead(turn, done, pturn, pdone, n, u)
    PROVE  /\ m <= session[pturn].units - pdone
           /\ LET qturn == IF m = session[pturn].units - pdone THEN pturn + 1 ELSE pturn
                  qdone == IF m = session[pturn].units - pdone THEN 0 ELSE pdone + m
              IN IF m = u THEN Abreast(turn, done, qturn, qdone, n)
                          ELSE Ahead(turn, done, qturn, qdone, n, u - m)
<1>1. pturn \in DOMAIN session /\ session[pturn].units \in Nat /\ session[pturn].by = "server" /\ n = 0
  BY SessionFacts DEF Ahead, IsBy
<1>2. CASE turn = pturn /\ done = pdone + u
  <2>1. done < session[pturn].units
    BY <1>1, <1>2 DEF Place
  <2>2. m # session[pturn].units - pdone /\ m <= session[pturn].units - pdone
    BY <1>1, <1>2, <2>1
  <2>q. QED
    BY <1>1, <1>2, <2>2 DEF Ahead, Abreast, IsBy
<1>3. CASE turn = pturn + 1 /\ done = 0 /\ session[pturn].units = pdone + u
  <2>1. m <= session[pturn].units - pdone /\ (m = u <=> m = session[pturn].units - pdone)
    BY <1>1, <1>3
  <2>2. CASE m = u
    BY <1>1, <1>3, <2>1, <2>2 DEF Abreast
  <2>3. CASE m # u
    BY <1>1, <1>3, <2>1, <2>3 DEF Ahead, IsBy
  <2>q. QED
    BY <2>1, <2>2, <2>3
<1>q. QED
  BY <1>2, <1>3 DEF Ahead

-----------------------------------------------------------------------------
(* Steps that leave the data alone                                         *)

Same == /\ UNCHANGED <<session, in, out, reply>>
        /\ tls' \in Contexts /\ tls'.turn = tls.turn /\ tls'.done = tls.done
        /\ peer' \in Peers /\ peer'.turn = peer.turn /\ peer'.done = peer.done /\ peer'.wire = peer.wire

LEMMA SameKeeps ==
    ASSUME DataTyped, Same
    PROVE  /\ DataTyped'
           /\ \A r : RunOk(r)' <=> RunOk(r)
           /\ \A o : OpOk(o)' <=> OpOk(o)
<1>1. DataTyped'
  BY DEF DataTyped, Same, Place, IsBy
<1>2. /\ AllHeard' <=> AllHeard
      /\ Staged' <=> Staged
  BY DEF AllHeard, Staged, Abreast, Ahead, Counts, IsBy, Same, Unread
<1>3. /\ Listening' <=> Listening
      /\ HasRead' <=> HasRead
      /\ Answering' <=> Answering
      /\ \A w : IsOf(tls.turn, w)' <=> IsOf(tls.turn, w)
      /\ \A w : IsBy(tls.turn, w)' <=> IsBy(tls.turn, w)
  BY DEF Listening, HasRead, Answering, IsOf, IsBy, Same
<1>4. Flowing' <=> Flowing
  BY <1>2 DEF Flowing, Same, Unread
<1>5. \A c : GoalFits(c)' <=> GoalFits(c)
  BY <1>3 DEF GoalFits
<1>6. \A r : Expects(r)' <=> Expects(r)
  BY <1>3, <1>5 DEF Expects, Same
<1>7. \A r : RunOk(r)' <=> RunOk(r)
  BY <1>2, <1>4, <1>6 DEF RunOk, InTime, Same
<1>8. \A o : OpOk(o)' <=> OpOk(o)
  BY <1>2, <1>3, <1>4, <1>5 DEF OpOk, Same
<1>q. QED
  BY <1>1, <1>7, <1>8

\* The stack goes on to what the data is fit for, and no operation appears.
LEMMA QuietStep ==
    ASSUME DataInv, Same, life' = "new" => life = "new", NEW r, run' = r, RunOk(r), NEW o, op' = o, OpOk(o)
    PROVE  DataInv'
<1>1. DataTyped' /\ (RunOk(r)' <=> RunOk(r)) /\ (OpOk(o)' <=> OpOk(o)) /\ (RunOk(At("init"))' <=> RunOk(At("init")))
  BY SameKeeps DEF DataInv
<1>2. RunOk(run)' <=> RunOk(r)'
  BY DEF RunOk, Expects, InTime
<1>3. OpOk(op)' <=> OpOk(o)'
  BY DEF OpOk
<1>q. QED
  BY <1>1, <1>2, <1>3 DEF DataInv

LEMMA RestFits == RunOk(Nobody) /\ OpOk(NoOp)
BY DEF RunOk, OpOk, Expects, InTime, Before, Between, Replying, Reports, Nobody, NoOp, At, Told

\* A function told of a failure expects nothing.
LEMMA FailureFits ==
    ASSUME NEW c \in Continuations
    PROVE  RunOk(After(c, FALSE))
BY DEF After, RunOk, Expects, InTime, Before, Between, Replying, Reports, At, Told, Continuations

\* What follows a drained buffer finds what it expects.
LEMMA DrainedFits ==
    ASSUME NEW c \in Continuations, GoalFits(c), out = Empty, AllHeard
    PROVE  RunOk(After(c, TRUE))
<1> USE DEF After, RunOk, Expects, InTime, Before, Between, Replying, Reports, At, Told, GoalFits
<1>1. CASE c = "drive"
  BY <1>1
<1>2. CASE c = "finished"
  BY <1>2
<1>3. CASE c \in {"recv", "bytes", "nothing"}
  BY <1>3
<1>4. CASE c \in {"send", "failed"}
  BY <1>4
<1>q. QED
  BY <1>1, <1>2, <1>3, <1>4 DEF Continuations

LEMMA DataInit == Init => DataInv
<1> SUFFICES ASSUME Init PROVE DataInv
  OBVIOUS
<1>1. /\ session \in Sessions /\ tls = Idle /\ in = 0 /\ out = Empty /\ run = Nobody /\ op = NoOp
      /\ reply = [left |-> 0, keep |-> FALSE] /\ peer = [turn |-> 1, done |-> 0, wire |-> 0, here |-> TRUE]
  BY DEF Init
<1>2. /\ Len(session) \in Nat /\ DOMAIN session = 1..Len(session) /\ 1 \in DOMAIN session
      /\ session[1].of = "handshake" /\ session[1].units \in Nat \ {0}
  BY <1>1, SessionFacts
<1>3. {Chunk, InCap, OutCap} \subseteq Nat \ {0} /\ MaxNotes \in Nat
  BY TLSAssumption
<1>4. tls \in Contexts /\ in \in 0..InCap /\ out \in Buffers /\ out.off <= out.len /\ peer \in Peers
      /\ reply \in [left : Nat, keep : BOOLEAN]
  BY <1>1, <1>3 DEF Contexts, Buffers, Peers, Idle, Empty
<1>5. tls.turn = 1 /\ tls.done = 0 /\ peer.turn = 1 /\ peer.done = 0 /\ peer.wire = 0
  BY <1>1 DEF Idle
<1>6. DataTyped
  BY <1>1, <1>2, <1>4, <1>5 DEF DataTyped, Place
<1>7. AllHeard /\ IsOf(tls.turn, "handshake")
  BY <1>1, <1>2, <1>5 DEF AllHeard, Abreast, IsOf
<1>8. RunOk(At("init"))
  BY <1>1, <1>7 DEF RunOk, Expects, InTime, Before, Between, Replying, Reports, At, Told
<1>q. QED
  BY <1>1, <1>6, <1>8, RestFits DEF DataInv

\* A connection with a stack or an operation is not new, and has not both.
LEMMA BusyFacts ==
    ASSUME ControlInv, ~Running("none") \/ op.kind # "none"
    PROVE  /\ life # "new"
           /\ ~Running("none") => op.kind = "none"
BY DEF ControlInv, ControlTyped, StackHolds, RefsExact, Running

LEMMA SameData == DataInv /\ UNCHANGED <<dataVars, peer>> => Same
BY DEF DataInv, DataTyped, dataVars, Same

LEMMA StackStep ==
    ASSUME ControlInv, DataInv, Same, life' = "new" => life = "new", NEW r, run' = r, RunOk(r), UNCHANGED op
    PROVE  DataInv'
BY QuietStep DEF DataInv

\* Resets never make a connection new.
LEMMA ResetOld ==
    /\ ResetConcrete => (life' = "new" => life = "new")
    /\ \A b : ResetIf(b) => (life' = "new" => life = "new")
BY DEF ResetConcrete, ResetIf

LEMMA QuietStacks ==
    ASSUME ControlInv, DataInv,
           \/ InitTLS \/ CountHandshake \/ CheckDrive \/ Settle \/ Dispatch \/ CheckUntil
           \/ AcquireWork \/ CheckRecv \/ CheckSend \/ OnProgress
    PROVE  DataInv'
<1> USE DEF Running
<1>r. RunOk(run) /\ RunOk(Nobody)
  BY RestFits DEF DataInv
<1>s. UNCHANGED <<dataVars, peer>> => Same
  BY SameData
<1>1. CASE InitTLS
  <2>1. run.fn = "init" /\ op' = op /\ UNCHANGED <<reply, session, peer>>
    BY <1>1, Zenon DEF InitTLS
  <2>2. \/ /\ tls' = [tls EXCEPT !.phase = "handshaking"] /\ in' = 0 /\ out' = Empty
           /\ run' = At("count") /\ life' = life
        \/ ResetConcrete /\ run' = Nobody /\ UNCHANGED <<tls, in, out>>
    BY <1>1, Zenon DEF InitTLS, Returns
  <2>3. in = 0 /\ out = Empty /\ AllHeard /\ IsOf(tls.turn, "handshake")
    BY <1>r, <2>1 DEF RunOk, Expects, InTime, Before
  <2>4. tls \in Contexts /\ peer \in Peers
    BY DEF DataInv, DataTyped
  <2>5. Same
    BY <2>1, <2>2, <2>3, <2>4 DEF Same, Contexts
  <2>6. RunOk(At("count"))
    BY <2>3 DEF At, Told, RunOk, Expects, InTime, Before, Between, Replying, Reports
  <2>q. QED
    BY <1>r, <2>1, <2>2, <2>5, <2>6, ResetOld, StackStep
<1>2. CASE CountHandshake
  <2>1. run.fn = "count" /\ run' = At("drive") /\ UNCHANGED <<life, op, dataVars, peer>>
    BY <1>2, Zenon DEF CountHandshake, slotVars
  <2>2. RunOk(At("drive"))
    BY <1>r, <2>1 DEF At, Told, RunOk, Expects, InTime, Before, Between, Replying, Reports
  <2>q. QED
    BY <1>s, <2>1, <2>2, StackStep
<1>3. CASE CheckDrive
  <2>1. run.fn = "drive" /\ run' \in {Told("settled", FALSE), At("handshake")} /\ UNCHANGED <<life, op, dataVars, peer>>
    BY <1>3 DEF CheckDrive, slotVars, GoesOn
  <2>2. RunOk(Told("settled", FALSE)) /\ RunOk(At("handshake"))
    BY <1>r, <2>1 DEF At, Told, RunOk, Expects, InTime, Before, Between, Replying, Reports
  <2>q. QED
    BY <1>s, <2>1, <2>2, StackStep
<1>4. CASE Settle
  <2>1. /\ run.fn = "settled" /\ UNCHANGED <<op, dataVars, peer>>
        /\ \/ run.ok /\ run' = At("dispatch") /\ life' = life
           \/ ResetConcrete /\ run' = Nobody
    BY <1>4 DEF Settle, Returns
  <2>2. run.ok => RunOk(At("dispatch"))
    BY <1>r, <2>1 DEF At, Told, RunOk, Expects, InTime, Before, Between, Replying, Reports
  <2>q. QED
    BY <1>r, <1>s, <2>1, <2>2, ResetOld, StackStep
<1>5. CASE Dispatch
  <2>1. /\ run.fn = "dispatch" /\ UNCHANGED <<op, dataVars, peer>>
        /\ \/ run' = At("until") /\ life' = life
           \/ ResetConcrete /\ run' = Nobody
    BY <1>5 DEF Dispatch, Returns
  <2>2. RunOk(At("until"))
    BY <1>r, <2>1 DEF At, Told, RunOk, Expects, InTime, Before, Between, Replying, Reports
  <2>q. QED
    BY <1>r, <1>s, <2>1, <2>2, ResetOld, StackStep
<1>6. CASE CheckUntil
  <2>1. /\ run.fn = "until" /\ UNCHANGED <<op, dataVars, peer>>
        /\ \/ run' = At("acquire") /\ life' = life
           \/ (ResetConcrete \/ life' = life) /\ run' = Nobody
    BY <1>6 DEF CheckUntil, Returns
  <2>2. RunOk(At("acquire"))
    BY <1>r, <2>1 DEF At, Told, RunOk, Expects, InTime, Before, Between, Replying, Reports
  <2>q. QED
    BY <1>r, <1>s, <2>1, <2>2, ResetOld, StackStep
<1>7. CASE AcquireWork
  <2>1. /\ UNCHANGED <<life, op, dataVars, peer>>
        /\ \/ run.fn = "acquire" /\ run' = At("recv")
           \/ run.fn = "acquire_send" /\ run' = At("send")
    BY <1>7, Zenon DEF AcquireWork
  <2>2. /\ run.fn = "acquire" => RunOk(At("recv"))
        /\ run.fn = "acquire_send" => RunOk(At("send"))
    BY <1>r, <2>1 DEF At, Told, RunOk, Expects, InTime, Before, Between, Replying, Reports
  <2>q. QED
    BY <1>s, <2>1, <2>2, StackStep
<1>8. CASE CheckRecv
  <2>1. run.fn = "recv" /\ run' \in {Told("bytes", FALSE), At("read")} /\ UNCHANGED <<life, op, dataVars, peer>>
    BY <1>8 DEF CheckRecv, slotVars, GoesOn
  <2>2. RunOk(Told("bytes", FALSE)) /\ RunOk(At("read"))
    BY <1>r, <2>1 DEF At, Told, RunOk, Expects, InTime, Before, Between, Replying, Reports
  <2>q. QED
    BY <1>s, <2>1, <2>2, StackStep
<1>9. CASE CheckSend
  <2>1. /\ run.fn = "send" /\ UNCHANGED <<op, dataVars, peer>>
        /\ \/ reply.left = 0 /\ run' = Told("progress", TRUE) /\ life' = life
           \/ ResetConcrete /\ run' = Told("progress", FALSE)
           \/ reply.left # 0 /\ run' = At("write") /\ life' = life
    BY <1>9 DEF CheckSend, GoesOn
  <2>2. /\ reply.left = 0 => RunOk(Told("progress", TRUE))
        /\ reply.left # 0 => RunOk(At("write"))
        /\ RunOk(Told("progress", FALSE))
    BY <1>r, <2>1 DEF At, Told, RunOk, Expects, InTime, Before, Between, Replying, Reports, Answering
  <2>q. QED
    BY <1>s, <2>1, <2>2, ResetOld, StackStep
<1>10. CASE OnProgress
  <2>1. /\ run.fn = "progress" /\ UNCHANGED <<op, dataVars, peer>>
        /\ \/ run.ok /\ run' = At("until") /\ life' = life
           \/ ResetIf(run.ok) /\ run' = Nobody
    BY <1>10 DEF OnProgress, GoesOn, Returns
  <2>2. run.ok => RunOk(At("until"))
    BY <1>r, <2>1 DEF At, Told, RunOk, Expects, InTime, Before, Between, Replying, Reports
  <2>q. QED
    BY <1>r, <1>s, <2>1, <2>2, ResetOld, StackStep
<1>q. QED
  BY <1>1, <1>2, <1>3, <1>4, <1>5, <1>6, <1>7, <1>8, <1>9, <1>10

\* Steps of others than the stack.
LEMMA QuietOthers ==
    ASSUME ControlInv, DataInv,
           \/ Accept \/ OpFails \/ ProcessCancel \/ Reap \/ (\E s \in {"accept", "serve"} : Kill(s)) \/ Close
           \/ PeerLeaves \/ UNCHANGED vars
    PROVE  DataInv'
<1>r. RunOk(run) /\ OpOk(op)
  BY DEF DataInv
<1>s. UNCHANGED <<dataVars, peer>> => Same
  BY SameData
<1>1. CASE Accept
  <2>1. life = "new" /\ life' = "serving" /\ run' = At("init") /\ UNCHANGED <<op, dataVars, peer>>
    BY <1>1, Zenon DEF Accept
  <2>q. QED
    BY <1>s, <2>1, StackStep DEF DataInv
<1>2. CASE OpFails
  <2>1. op.kind # "none" /\ op' = NoOp /\ run' = After(op.then, FALSE) /\ UNCHANGED <<dataVars, peer>>
    BY <1>2, Zenon DEF OpFails, Completes
  <2>2. life' = "new" => life = "new"
    BY <1>2, ResetOld DEF OpFails
  <2>3. op.then \in Continuations
    BY DEF ControlInv, ControlTyped
  <2>q. QED
    BY <1>s, <2>1, <2>2, <2>3, FailureFits, RestFits, QuietStep
<1>3. CASE ProcessCancel
  <2>1. UNCHANGED <<life, run, dataVars, peer>> /\ (op' = op \/ op' = [op EXCEPT !.cancelled = TRUE])
    BY <1>3, Zenon DEF ProcessCancel
  <2>2. op \in [kind : {"none", "recv", "send"}, then : Continuations, cancelled : BOOLEAN]
    BY DEF ControlInv, ControlTyped
  <2>3. PICK o : op' = o
    OBVIOUS
  <2>4. o.kind = op.kind /\ o.then = op.then
    BY <2>1, <2>2, <2>3
  <2>5. OpOk(o)
    BY <1>r, <2>4 DEF OpOk
  <2>q. QED
    BY <1>r, <1>s, <2>1, <2>3, <2>5, QuietStep
<1>4. CASE Reap
  <2>1. ResetConcrete /\ UNCHANGED <<run, op, dataVars, peer>>
    BY <1>4, Zenon DEF Reap, stackVars
  <2>q. QED
    BY <1>r, <1>s, <2>1, ResetOld, StackStep
<1>5. CASE \E s \in {"accept", "serve"} : Kill(s)
  <2>1. UNCHANGED <<life, run, op, dataVars, peer>>
    BY <1>5 DEF Kill, stackVars, slotVars
  <2>q. QED
    BY <1>r, <1>s, <2>1, StackStep
<1>6. CASE Close
  <2>1. UNCHANGED <<run, op, dataVars, peer>> /\ (life' = life \/ ResetIf(gate.seen))
    BY <1>6, Zenon DEF Close, CloseLook, CloseRetire, CloseDrained, stackVars, slotVars
  <2>q. QED
    BY <1>r, <1>s, <2>1, ResetOld, StackStep
<1>7. CASE PeerLeaves
  <2>1. UNCHANGED <<life, run, op, dataVars>> /\ peer' = [peer EXCEPT !.here = FALSE]
    BY <1>7, Zenon DEF PeerLeaves, stackVars, slotVars
  <2>2. peer \in Peers /\ tls \in Contexts
    BY DEF DataInv, DataTyped
  <2>3. Same
    BY <2>1, <2>2 DEF Same, Peers, dataVars
  <2>q. QED
    BY <1>r, <2>1, <2>3, StackStep
<1>8. CASE UNCHANGED vars
  <2>1. UNCHANGED <<life, run, op, dataVars, peer>>
    BY <1>8, Zenon DEF vars, stackVars, slotVars
  <2>q. QED
    BY <1>r, <1>s, <2>1, StackStep
<1>q. QED
  BY <1>1, <1>2, <1>3, <1>4, <1>5, <1>6, <1>7, <1>8

-----------------------------------------------------------------------------
(* Operations, the peer and the end                                        *)

\* A step of the stack or of a completion that changes the data.
LEMMA FreshStep ==
    ASSUME DataTyped', life' # "new", NEW r, run' = r, RunOk(r)', NEW o, op' = o, OpOk(o)'
    PROVE  DataInv'
<1>1. RunOk(run)' <=> RunOk(r)'
  BY DEF RunOk, Expects, InTime
<1>2. OpOk(op)' <=> OpOk(o)'
  BY DEF OpOk
<1>q. QED
  BY <1>1, <1>2 DEF DataInv

LEMMA IdleOp == \A o : o.kind = "none" => OpOk(o)
BY DEF OpOk
LEMMA IdleOpNext == \A o : o.kind = "none" => OpOk(o)'
BY DEF OpOk

LEMMA BusyStays ==
    ASSUME ControlInv, ~Running("none") \/ op.kind # "none",
           life' = life \/ ResetConcrete \/ (\E b : ResetIf(b))
    PROVE  life' # "new"
BY BusyFacts, ResetOld

LEMMA SameFits ==
    ASSUME UNCHANGED <<session, reply>>, tls'.turn = tls.turn, tls'.done = tls.done
    PROVE  /\ \A c : GoalFits(c)' <=> GoalFits(c)
           /\ Listening' <=> Listening
           /\ HasRead' <=> HasRead
           /\ Answering' <=> Answering
           /\ \A w : IsOf(tls.turn, w)' <=> IsOf(tls.turn, w)
           /\ \A w : IsBy(tls.turn, w)' <=> IsBy(tls.turn, w)
<1>1. /\ Listening' <=> Listening
      /\ HasRead' <=> HasRead
      /\ Answering' <=> Answering
      /\ \A w : IsOf(tls.turn, w)' <=> IsOf(tls.turn, w)
      /\ \A w : IsBy(tls.turn, w)' <=> IsBy(tls.turn, w)
  BY DEF Listening, HasRead, Answering, IsOf, IsBy
<1>q. QED
  BY <1>1 DEF GoalFits

LEMMA HeardStays ==
    ASSUME UNCHANGED session, tls'.turn = tls.turn, tls'.done = tls.done,
           peer'.turn = peer.turn, peer'.done = peer.done, in' + peer'.wire = in + peer.wire
    PROVE  AllHeard' <=> AllHeard
BY DEF AllHeard, Abreast, Counts

LEMMA SizesFacts == /\ Chunk \in Nat /\ Chunk > 0 /\ InCap \in Nat /\ InCap > 0
                    /\ OutCap \in Nat /\ OutCap > 0 /\ MaxNotes \in Nat
BY TLSAssumption

LEMMA EmptyFacts == Empty \in Buffers /\ Empty.len = 0 /\ Empty.off = 0 /\ ~Empty.note /\ Unread(Empty) = 0
BY SizesFacts DEF Empty, Buffers, Unread

LEMMA DrainedNext ==
    ASSUME NEW c \in Continuations
    PROVE  GoalFits(c)' /\ out' = Empty /\ AllHeard' => RunOk(After(c, TRUE))'
<1>1. GoalFits(c) /\ out = Empty /\ AllHeard => RunOk(After(c, TRUE))
  BY DrainedFits
<1>2. (GoalFits(c) /\ out = Empty /\ AllHeard => RunOk(After(c, TRUE)))'
  BY <1>1, PTL
<1>q. QED
  BY <1>2

LEMMA FlushKeeps == ControlInv /\ DataInv /\ FlushCipherOut => DataInv'
<1> SUFFICES ASSUME ControlInv, DataInv, FlushCipherOut PROVE DataInv'
  OBVIOUS
<1> PICK c : c = run.then
  OBVIOUS
<1>1. /\ run.fn = "flush" /\ ~Running("none") /\ c \in Continuations /\ UNCHANGED <<tls, in, reply, session, peer>>
  BY Zenon DEF FlushCipherOut, Running, ControlInv, ControlTyped
<1>2. GoalFits(c) /\ Flowing
  BY <1>1 DEF DataInv, RunOk, Expects
<1>3. OpOk(op) /\ op.kind = "none" /\ life # "new"
  BY <1>1, BusyFacts DEF DataInv
<1>4. \/ Fails(c) /\ out' = out
      \/ /\ Unread(out) = 0 /\ out' = Empty
         /\ run' = After(c, TRUE) /\ (\E b : ResetIf(b)) /\ op' = op
      \/ Submits("send", c) /\ life' = life /\ out' = out
  BY Zenon DEF FlushCipherOut, Refused, GoesOn
<1>5. CASE Fails(c) /\ out' = out
  <2>1. Same /\ run' = After(c, FALSE) /\ op' = op
    BY <1>1, <1>5, SameData DEF Fails, GoesOn, dataVars
  <2>2. life' = "new" => life = "new"
    BY <1>5, ResetOld DEF Fails
  <2>q. QED
    BY <1>1, <2>1, <2>2, FailureFits, StackStep
<1>6. CASE /\ Unread(out) = 0 /\ out' = Empty
           /\ run' = After(c, TRUE) /\ (\E b : ResetIf(b)) /\ op' = op
  <2>1. AllHeard
    BY <1>2, <1>6 DEF Flowing
  <2>2. AllHeard'
    BY <1>1, <2>1, HeardStays
  <2>3. GoalFits(c)'
    BY <1>1, <1>2, SameFits
  <2>4. RunOk(After(c, TRUE))'
    BY <1>1, <1>6, <2>2, <2>3, DrainedNext
  <2>5. DataTyped'
    BY <1>1, <1>6, EmptyFacts DEF DataInv, DataTyped, Place, IsBy
  <2>6. life' # "new"
    BY <1>1, <1>6, BusyStays
  <2>q. QED
    BY <1>3, <1>6, <2>2, <2>3, <2>4, <2>5, <2>6, IdleOpNext, FreshStep
<1>7. CASE Submits("send", c) /\ life' = life /\ out' = out
  <2>1. Same /\ run' = Nobody /\ op' = [kind |-> "send", then |-> c, cancelled |-> FALSE]
    BY <1>1, <1>7, SameData DEF Submits, Returns, dataVars
  <2>2. OpOk([kind |-> "send", then |-> c, cancelled |-> FALSE])
    BY <1>2 DEF OpOk
  <2>q. QED
    BY <1>7, <2>1, <2>2, RestFits, QuietStep
<1>q. QED
  BY <1>4, <1>5, <1>6, <1>7

LEMMA RecvKeeps == ControlInv /\ DataInv /\ RecvDone => DataInv'
<1> SUFFICES ASSUME ControlInv, DataInv, RecvDone PROVE DataInv'
  OBVIOUS
<1> PICK c : c = op.then
  OBVIOUS
<1>1. /\ op.kind = "recv" /\ op' = NoOp /\ run' = At(c) /\ UNCHANGED <<life, tls, out, reply, session>>
      /\ \E n \in 1..Least(peer.wire, InCap - in) : in' = in + n /\ peer' = [peer EXCEPT !.wire = @ - n]
  BY Zenon DEF RecvDone, Completes, slotVars
<1>2. c \in {"drive", "recv"} /\ life' # "new"
  BY <1>1, BusyFacts DEF ControlInv, StackHolds
<1>3. out = Empty /\ AllHeard /\ GoalFits(c)
  BY <1>1 DEF DataInv, OpOk
<1>4. PICK n \in 1..Least(peer.wire, InCap - in) : in' = in + n /\ peer' = [peer EXCEPT !.wire = @ - n]
  BY <1>1
<1>5. peer \in Peers /\ in \in 0..InCap /\ InCap \in Nat
  BY SizesFacts DEF DataInv, DataTyped
<1>6. n \in Nat /\ n <= peer.wire /\ n <= InCap - in /\ peer.wire \in Nat
  BY <1>5 DEF Least, Peers
<1>7. /\ peer' \in Peers /\ peer'.turn = peer.turn /\ peer'.done = peer.done /\ peer'.wire = peer.wire - n
  BY <1>4, <1>5, <1>6 DEF Peers
<1>8. in' \in 0..InCap /\ in' + peer'.wire = in + peer.wire
  BY <1>4, <1>5, <1>6, <1>7
<1>9. DataTyped'
  BY <1>1, <1>7, <1>8 DEF DataInv, DataTyped, Place, IsBy
<1>10. AllHeard'
  BY <1>1, <1>3, <1>7, <1>8, HeardStays
<1>11. GoalFits(c)'
  BY <1>1, <1>3, SameFits
<1>12. RunOk(At(c))'
  BY <1>1, <1>2, <1>3, <1>10, <1>11
     DEF RunOk, Expects, InTime, Before, Between, Replying, Reports, At, Told, GoalFits
<1>q. QED
  BY <1>1, <1>2, <1>9, <1>12, IdleOpNext, FreshStep DEF NoOp

LEMMA SendKeeps == ControlInv /\ DataInv /\ SendDone => DataInv'
<1> SUFFICES ASSUME ControlInv, DataInv, SendDone PROVE DataInv'
  OBVIOUS
<1> PICK c : c = op.then
  OBVIOUS
<1>1. /\ op.kind = "send" /\ op' = NoOp /\ run' = Flush(c) /\ UNCHANGED <<life, tls, in, reply, session>>
      /\ \E n \in 1..Unread(out) : peer' = Heard(n) /\ out' = [out EXCEPT !.off = @ + n]
  BY Zenon DEF SendDone, Completes, slotVars
<1>2. life' # "new"
  BY <1>1, BusyFacts
<1>3. Flowing /\ GoalFits(c)
  BY <1>1 DEF DataInv, OpOk
<1>4. PICK n \in 1..Unread(out) : peer' = Heard(n) /\ out' = [out EXCEPT !.off = @ + n]
  BY <1>1
<1>5. /\ peer \in Peers /\ Place(peer.turn, peer.done) /\ out \in Buffers /\ out.off <= out.len /\ session \in Sessions
      /\ Place(tls.turn, tls.done) /\ tls \in Contexts /\ in \in Nat /\ OutCap \in Nat
      /\ IsBy(peer.turn, "peer") => peer.done = 0
  BY SizesFacts DEF DataInv, DataTyped
<1>6. Unread(out) = out.len - out.off /\ out.off \in Nat /\ out.len \in 0..OutCap /\ n \in Nat /\ n >= 1
  BY <1>5 DEF Unread, Buffers
<1>7. /\ out' \in Buffers /\ out'.off <= out'.len /\ out'.note = out.note /\ Unread(out)' = Unread(out) - n
  <2>1. PICK m : m = out.off + n
    OBVIOUS
  <2>2. m \in 0..OutCap /\ m <= out.len
    BY <1>5, <1>6, <2>1
  <2>3. PICK o : o = [out EXCEPT !.off = m]
    OBVIOUS
  <2>4. o \in Buffers /\ o.off = m /\ o.len = out.len /\ o.note = out.note
    BY <1>5, <2>2, <2>3 DEF Buffers
  <2>5. out' = o
    BY <1>4, <2>1, <2>3
  <2>q. QED
    BY <1>6, <2>1, <2>2, <2>4, <2>5 DEF Unread
<1>8. ASSUME out.note PROVE Flowing' /\ DataTyped'
  <2>1. peer' = peer
    BY <1>4, <1>8 DEF Heard
  <2>2. AllHeard'
    BY <1>1, <1>3, <1>8, <2>1, HeardStays DEF Flowing
  <2>3. Flowing'
    BY <1>7, <1>8, <2>2 DEF Flowing
  <2>4. DataTyped'
    BY <1>1, <1>5, <1>7, <2>1 DEF DataInv, DataTyped, Place, IsBy
  <2>q. QED
    BY <2>3, <2>4
<1>9. ASSUME ~out.note PROVE Flowing' /\ DataTyped'
  <2>1. Staged
    BY <1>3, <1>6, <1>9 DEF Flowing
  <2>2. peer.turn \in DOMAIN session /\ session[peer.turn].by = "server" /\ peer.turn \in Nat /\ peer.done \in Nat
    BY <1>5, <2>1 DEF Staged, Ahead, IsBy, Peers
  <2>3. session[peer.turn].of \in {"handshake", "reply"}
    BY <1>5, <2>2, SessionFacts
  <2>4. peer' = Passed(peer, n)
    BY <1>4, <1>9, <2>2, <2>3 DEF Heard, Talks, Turn
  <2>5. PICK t, d, q, e, w, u : /\ t = tls.turn /\ d = tls.done /\ q = peer.turn /\ e = peer.done
                                /\ w = in + peer.wire /\ u = Unread(out)
    OBVIOUS
  <2>6. /\ t \in Nat /\ d \in Nat /\ q \in Nat /\ e \in Nat /\ w \in Nat /\ u \in Nat /\ n \in 1..u
        /\ Place(t, d) /\ Place(q, e) /\ Ahead(t, d, q, e, w, u)
    BY <1>5, <1>6, <2>1, <2>5 DEF Contexts, Peers, Staged
  <2>7. PICK r, f : /\ r = IF n = session[q].units - e THEN q + 1 ELSE q
                    /\ f = IF n = session[q].units - e THEN 0 ELSE e + n
    OBVIOUS
  <2>8. /\ n <= session[q].units - e
        /\ IF n = u THEN Abreast(t, d, r, f, w) ELSE Ahead(t, d, r, f, w, u - n)
    BY <1>5, <2>6, <2>7, HearKeeps
  <2>9. Missing(peer) = session[q].units - e
    BY <2>5 DEF Missing, Turn
  <2>10. /\ peer' \in Peers /\ Place(peer'.turn, peer'.done) /\ peer'.turn = r /\ peer'.done = f
         /\ peer'.wire = peer.wire
    BY <1>5, <1>6, <2>2, <2>4, <2>5, <2>7, <2>8, <2>9, PassedPeer
  <2>11. IsBy(r, "peer") => f = 0
    BY <2>2, <2>5, <2>7 DEF IsBy
  <2>12. DataTyped'
    BY <1>1, <1>5, <1>7, <2>10, <2>11 DEF DataInv, DataTyped, Place, IsBy
  <2>13. Flowing'
    <3>1. CASE n = u
      <4>1. Abreast(t, d, r, f, w)
        BY <2>8, <3>1
      <4>2. AllHeard'
        BY <1>1, <2>5, <2>10, <4>1 DEF AllHeard, Abreast, Counts
      <4>q. QED
        BY <1>6, <1>7, <2>5, <3>1, <4>2 DEF Flowing
    <3>2. CASE n # u
      <4>1. Ahead(t, d, r, f, w, u - n)
        BY <2>8, <3>2
      <4>2. Unread(out)' = u - n /\ Unread(out)' # 0
        BY <1>7, <2>5, <2>6, <3>2
      <4>3. Staged'
        BY <1>1, <2>5, <2>10, <4>1, <4>2 DEF Staged, Ahead, IsBy, Unread
      <4>q. QED
        BY <1>7, <1>9, <4>2, <4>3 DEF Flowing
    <3>q. QED
      BY <3>1, <3>2
  <2>q. QED
    BY <2>12, <2>13
<1>10. Flowing' /\ DataTyped'
  BY <1>8, <1>9
<1>11. GoalFits(c)'
  BY <1>1, <1>3, SameFits
<1>12. RunOk(Flush(c))'
  BY <1>10, <1>11 DEF RunOk, Expects, InTime, Before, Between, Replying, Reports, Flush
<1>q. QED
  BY <1>1, <1>2, <1>10, <1>12, IdleOpNext, FreshStep DEF NoOp

LEMMA SayStep == ControlInv /\ DataInv /\ PeerSays => DataInv'
<1> SUFFICES ASSUME ControlInv, DataInv, PeerSays PROVE DataInv'
  OBVIOUS
<1>1. /\ Talks(peer, "peer", {"handshake", "more", "ask"})
      /\ peer' = [Passed(peer, Turn(peer).units) EXCEPT !.wire = @ + Turn(peer).units]
      /\ UNCHANGED <<life, run, op, tls, in, out, reply, session>>
  BY Zenon DEF PeerSays, slotVars, stackVars, dataVars
<1>2. /\ peer \in Peers /\ Place(peer.turn, peer.done) /\ session \in Sessions /\ in \in Nat
      /\ tls \in Contexts
      /\ IsBy(peer.turn, "peer") => peer.done = 0
  BY SizesFacts DEF DataInv, DataTyped
<1>3. peer.turn \in DOMAIN session /\ session[peer.turn].by = "peer"
  BY <1>1 DEF Talks, Turn
<1>4. PICK q, u, w : q = peer.turn /\ u = session[q].units /\ w = in + peer.wire
  OBVIOUS
<1>5. peer.done = 0 /\ q \in Nat /\ u \in Nat /\ u > 0 /\ w \in Nat /\ peer.wire \in Nat
  BY <1>2, <1>3, <1>4, SessionFacts DEF IsBy, Peers
<1>6. Turn(peer).units = u /\ Missing(peer) = u
  BY <1>4, <1>5 DEF Turn, Missing
<1>7. PICK p : p = Passed(peer, u)
  OBVIOUS
<1>8. p \in Peers /\ Place(p.turn, p.done) /\ p.turn = q + 1 /\ p.done = 0 /\ p.wire = peer.wire
  BY <1>2, <1>3, <1>4, <1>5, <1>6, <1>7, PassedPeer
<1>9. /\ peer' \in Peers /\ peer'.turn = q + 1 /\ peer'.done = 0 /\ peer'.wire = peer.wire + u
      /\ Place(peer'.turn, peer'.done)
  <2>1. PICK v : v = p.wire + u
    OBVIOUS
  <2>2. v \in Nat /\ v = peer.wire + u
    BY <1>5, <1>8, <2>1
  <2>3. peer' = [p EXCEPT !.wire = v]
    BY <1>1, <1>6, <1>7, <2>1
  <2>q. QED
    BY <1>8, <2>2, <2>3 DEF Peers
<1>10. DataTyped'
  BY <1>1, <1>2, <1>9 DEF DataInv, DataTyped, Place, IsBy
<1>11. AllHeard => AllHeard'
  <2> SUFFICES ASSUME AllHeard PROVE AllHeard'
    OBVIOUS
  <2>1. PICK t, d : t = tls.turn /\ d = tls.done
    OBVIOUS
  <2>2. t \in Nat /\ d \in Nat /\ Abreast(t, d, q, 0, w)
    BY <1>2, <1>4, <1>5, <2>1 DEF AllHeard, Contexts
  <2>3. Abreast(t, d, q + 1, 0, w + u)
    BY <1>2, <1>3, <1>4, <1>5, <2>2, SayKeeps
  <2>4. in' + peer'.wire = w + u
    BY <1>1, <1>2, <1>4, <1>5, <1>9
  <2>q. QED
    BY <1>1, <1>9, <2>1, <2>3, <2>4 DEF AllHeard, Abreast, Counts
<1>12. ~Staged
  BY <1>3 DEF Staged, Ahead, IsBy
<1>13. Flowing => Flowing'
  BY <1>1, <1>11, <1>12 DEF Flowing, Unread
<1>14. /\ \A c : GoalFits(c)' <=> GoalFits(c)
       /\ Listening' <=> Listening
       /\ HasRead' <=> HasRead
       /\ Answering' <=> Answering
       /\ \A x : IsOf(tls.turn, x)' <=> IsOf(tls.turn, x)
       /\ \A x : IsBy(tls.turn, x)' <=> IsBy(tls.turn, x)
  BY <1>1, SameFits
<1>15. \A r : RunOk(r) => RunOk(r)'
  BY <1>1, <1>11, <1>13, <1>14 DEF RunOk, Expects, InTime
<1>16. \A o : OpOk(o) => OpOk(o)'
  BY <1>1, <1>11, <1>13, <1>14 DEF OpOk
<1>17. (life' = "new" => RunOk(At("init"))') /\ RunOk(run)' /\ OpOk(op)'
  <2>1. PICK r, o : r = run /\ o = op
    OBVIOUS
  <2>2. RunOk(r)' /\ OpOk(o)' /\ (life' = "new" => RunOk(At("init"))')
    BY <1>1, <1>15, <1>16, <2>1 DEF DataInv
  <2>q. QED
    BY <1>1, <2>1, <2>2 DEF RunOk, Expects, InTime, OpOk
<1>q. QED
  BY <1>10, <1>17 DEF DataInv

LEMMA ReleaseKeeps == ControlInv /\ DataInv /\ Release => DataInv'
<1> SUFFICES ASSUME ControlInv, DataInv, Release PROVE DataInv'
  OBVIOUS
<1>1. /\ spare > 0 /\ UNCHANGED <<run, op, reply, session, peer>>
      /\ \/ /\ refs = 1 /\ life' = "free" /\ tls' = Idle /\ in' = 0 /\ out' = Empty
         \/ UNCHANGED <<life, tls, in, out>>
  BY Zenon DEF Release
<1>2. CASE UNCHANGED <<life, tls, in, out>>
  BY <1>1, <1>2, SameData, StackStep DEF dataVars, DataInv
<1>3. CASE refs = 1 /\ life' = "free" /\ tls' = Idle /\ in' = 0 /\ out' = Empty
  <2>1. Running("none") /\ op.kind = "none"
    BY <1>1, <1>3 DEF ControlInv, ControlTyped, StackHolds, RefsExact
  <2>2. session \in Sessions /\ 1 \in DOMAIN session /\ session[1].units \in Nat \ {0} /\ Len(session) \in Nat
    BY SessionFacts DEF DataInv, DataTyped
  <2>3. Idle \in Contexts /\ Idle.turn = 1 /\ Idle.done = 0
    BY SizesFacts DEF Idle, Contexts
  <2>4. DataTyped'
    BY <1>1, <1>3, <2>2, <2>3, EmptyFacts, SizesFacts DEF DataInv, DataTyped, Place, IsBy
  <2>5. RunOk(run)'
    BY <1>1, <2>1 DEF RunOk, Expects, InTime, Before, Between, Replying, Reports, Running
  <2>q. QED
    BY <1>1, <1>3, <2>1, <2>4, <2>5 DEF DataInv, OpOk
<1>q. QED
  BY <1>1, <1>2, <1>3

-----------------------------------------------------------------------------
(* A request and its response                                              *)

LEMMA BytesKeeps == ControlInv /\ DataInv /\ OnBytes => DataInv'
<1> SUFFICES ASSUME ControlInv, DataInv, OnBytes PROVE DataInv'
  OBVIOUS
<1> DEFINE last == tls.turn > 1 /\ session[tls.turn - 1].of = "ask"
<1>1. /\ run.fn = "bytes" /\ ~Running("none") /\ UNCHANGED <<op, tls, in, out, session, peer>>
      /\ \/ ResetConcrete /\ run' = Nobody /\ reply' = reply
         \/ run.ok /\ ~last /\ run' = At("until") /\ UNCHANGED <<life, reply>>
         \/ /\ run.ok /\ last /\ run' = At("acquire_send") /\ life' = life
            /\ \E keep \in BOOLEAN : reply' = [left |-> Turn(tls).units \div Chunk, keep |-> keep]
  BY DEF OnBytes, Running, Returns, GoesOn
<1>2. RunOk(run) /\ op.kind = "none" /\ life # "new"
  BY <1>1, BusyFacts DEF DataInv
<1>3. tls \in Contexts /\ session \in Sessions /\ tls.turn \in Nat
  BY DEF DataInv, DataTyped, Contexts
<1>4. CASE ResetConcrete /\ run' = Nobody /\ reply' = reply
  BY <1>1, <1>4, SameData, ResetOld, RestFits, StackStep DEF dataVars
<1>5. CASE run.ok /\ ~last /\ run' = At("until") /\ UNCHANGED <<life, reply>>
  <2>1. HasRead /\ out = Empty /\ AllHeard
    BY <1>1, <1>2, <1>5 DEF RunOk, Expects, InTime, Reports
  <2>2. tls.turn > 1
    BY <1>3, <2>1, SessionFacts DEF HasRead
  <2>3. Listening
    BY <1>5, <2>1, <2>2 DEF HasRead, IsOf
  <2>4. RunOk(At("until"))
    BY <2>1, <2>3 DEF At, Told, RunOk, Expects, InTime, Before, Between, Replying, Reports
  <2>q. QED
    BY <1>1, <1>5, <2>4, SameData, StackStep DEF dataVars
<1>6. CASE /\ run.ok /\ last /\ run' = At("acquire_send") /\ life' = life
           /\ \E keep \in BOOLEAN : reply' = [left |-> Turn(tls).units \div Chunk, keep |-> keep]
  <2>1. HasRead /\ out = Empty /\ AllHeard
    BY <1>1, <1>2, <1>6 DEF RunOk, Expects, InTime, Reports
  <2>2. tls.turn \in DOMAIN session /\ session[tls.turn].of = "reply" /\ tls.done = 0
    BY <1>6, <2>1 DEF HasRead, IsOf
  <2>3. PICK u : u = session[tls.turn].units
    OBVIOUS
  <2>4. u \in Nat /\ u > 0 /\ u % Chunk = 0
    BY <1>3, <2>2, <2>3, SessionFacts
  <2>5. PICK l : l = u \div Chunk
    OBVIOUS
  <2>6. l \in Nat /\ l > 0 /\ u = Chunk * l
    BY <2>4, <2>5, SizesFacts
  <2>7. reply' \in [left : Nat, keep : BOOLEAN] /\ reply'.left = l
    BY <1>6, <2>3, <2>5, <2>6 DEF Turn
  <2>8. Answering'
    <3>1. session[tls.turn].units = Chunk * (l + 0) /\ Chunk * 0 <= tls.done /\ tls.done < Chunk * 0 + Chunk
      BY <2>2, <2>3, <2>6, SizesFacts
    <3>q. QED
      BY <1>1, <2>2, <2>6, <2>7, <3>1 DEF Answering, IsOf
  <2>9. AllHeard'
    BY <1>1, <2>1, HeardStays
  <2>10. DataTyped'
    BY <1>1, <2>7 DEF DataInv, DataTyped, Place, IsBy
  <2>11. RunOk(At("acquire_send"))'
    BY <1>1, <2>1, <2>8, <2>9 DEF At, Told, RunOk, Expects, InTime, Before, Between, Replying, Reports
  <2>q. QED
    BY <1>1, <1>2, <1>6, <2>10, <2>11, IdleOpNext, FreshStep
<1>q. QED
  BY <1>1, <1>4, <1>5, <1>6

\* The pieces of a response, counted by division.
LEMMA Pieces ==
    ASSUME NEW k \in Nat, NEW d \in Nat, Chunk * k <= d, d < Chunk * k + Chunk
    PROVE  d % Chunk = d - Chunk * k
<1>1. PICK a \in Nat : a = Chunk * k
  BY SizesFacts
<1>2. PICK r \in Nat : d = a + r /\ r < Chunk
  BY <1>1, SizesFacts
<1>3. (Chunk * k + r) % Chunk = r
  BY <1>2, SizesFacts
<1>q. QED
  BY <1>1, <1>2, <1>3

LEMMA LeastFacts ==
    ASSUME NEW a \in Nat, NEW b \in Nat
    PROVE  Least(a, b) \in Nat /\ Least(a, b) <= a /\ Least(a, b) <= b /\ (a > 0 /\ b > 0 => Least(a, b) > 0)
BY DEF Least

\* bioSend into a drained buffer.
LEMMA StagesFacts ==
    ASSUME NEW n \in Nat, n > 0, NEW o, o = Stages(Empty, n)
    PROVE  /\ o \in Buffers /\ o.off = 0 /\ ~o.note /\ o.len = Least(n, OutCap) /\ Unread(o) = Least(n, OutCap)
           /\ o.len \in Nat /\ o.len > 0 /\ o.len <= n
<1>1. PICK l : l = Least(n, OutCap)
  OBVIOUS
<1>2. l \in Nat /\ l > 0 /\ l <= n /\ l \in 0..OutCap
  BY <1>1, LeastFacts, SizesFacts
<1>3. o = [Empty EXCEPT !.len = l]
  BY <1>1, <1>2, SizesFacts DEF Stages, Empty
<1>4. o \in Buffers /\ o.off = 0 /\ ~o.note /\ o.len = l
  BY <1>2, <1>3, EmptyFacts DEF Empty, Buffers
<1>q. QED
  BY <1>1, <1>2, <1>4 DEF Unread

\* A failure without ciphertext, or with a note to be flushed first.
LEMMA ErrorKeeps ==
    ASSUME ControlInv, DataInv, ~Running("none"), NEW c \in Continuations,
           tls' = [tls EXCEPT !.phase = "error"], Fails(c), UNCHANGED <<in, out, reply, session, peer>>
    PROVE  DataInv'
<1>1. tls \in Contexts /\ peer \in Peers
  BY DEF DataInv, DataTyped
<1>2. Same
  BY <1>1 DEF Same, Contexts
<1>3. run' = After(c, FALSE) /\ op' = op /\ (life' = "new" => life = "new")
  BY ResetOld DEF Fails, GoesOn
<1>q. QED
  BY <1>2, <1>3, FailureFits, StackStep

LEMMA WriteStages ==
    ASSUME ControlInv, DataInv, Running("write"), NEW w, w = Written, tls' = w.tls, out' = w.out,
           reply' = IF w.taken THEN [reply EXCEPT !.left = @ - 1] ELSE reply,
           run' = Flush("send"), UNCHANGED <<slotVars, op, in, session, peer>>
    PROVE  DataInv'
<1>1. RunOk(run) /\ op.kind = "none" /\ life # "new"
  BY BusyFacts DEF DataInv, Running
<1>2. out = Empty /\ AllHeard /\ Answering /\ reply.left # 0
  BY <1>1 DEF Running, RunOk, Expects, InTime, Replying
<1>3. /\ tls \in Contexts /\ session \in Sessions /\ Place(tls.turn, tls.done) /\ in \in Nat
      /\ reply \in [left : Nat, keep : BOOLEAN] /\ peer \in Peers
  BY SizesFacts DEF DataInv, DataTyped
<1>4. PICK t, d, left, u : t = tls.turn /\ d = tls.done /\ left = reply.left /\ u = session[t].units
  OBVIOUS
<1>5. /\ t \in DOMAIN session /\ session[t].of = "reply" /\ d \in Nat /\ left \in Nat /\ left >= 1 /\ u \in Nat
      /\ t \in Nat /\ session[t].by = "server" /\ d < u
  BY <1>2, <1>3, <1>4, SessionFacts DEF Answering, IsOf, Contexts, Place
<1>6. PICK k \in Nat : u = Chunk * (left + k) /\ Chunk * k <= d /\ d < Chunk * k + Chunk
  BY <1>2, <1>4 DEF Answering
<1>7. PICK a \in Nat : a = Chunk * k /\ d % Chunk = d - a
  BY <1>5, <1>6, Pieces, SizesFacts
<1>8. PICK b \in Nat : b = Chunk * (left - 1)
  BY <1>5, SizesFacts
<1>9. /\ u = a + Chunk + b /\ a <= d /\ d < a + Chunk /\ (b = 0 <=> left = 1)
      /\ a + Chunk = Chunk * (k + 1) /\ u = Chunk * ((left - 1) + (k + 1))
  <2>1. Chunk * (left + k) = Chunk * k + Chunk + Chunk * (left - 1)
    BY <1>5, SizesFacts
  <2>2. Chunk * (k + 1) = Chunk * k + Chunk
    BY SizesFacts
  <2>3. (left - 1) + (k + 1) = left + k
    BY <1>5
  <2>4. Chunk * (left - 1) = 0 <=> left = 1
    BY <1>5, SizesFacts
  <2>q. QED
    BY <1>6, <1>7, <1>8, <2>1, <2>2, <2>3, <2>4
<1>10. PICK owed \in Nat : owed = Chunk - (d % Chunk) /\ owed > 0 /\ owed = a + Chunk - d
  BY <1>5, <1>7, <1>9, SizesFacts
<1>11. PICK o : o = Stages(Empty, owed)
  OBVIOUS
<1>12. PICK n \in Nat : n = o.len
  BY <1>10, <1>11, StagesFacts
<1>13. /\ o \in Buffers /\ o.off = 0 /\ ~o.note /\ Unread(o) = n /\ n > 0 /\ n <= owed /\ n <= u - d
  BY <1>5, <1>9, <1>10, <1>11, <1>12, StagesFacts, SizesFacts
<1>14. w = [tls |-> Passed(tls, n), out |-> o, taken |-> n = owed]
  BY <1>2, <1>4, <1>10, <1>11, <1>12, <1>13, EmptyFacts DEF Written
<1>15. tls' = Passed(tls, n) /\ out' = o /\ (w.taken <=> n = owed)
  <2>1. w.tls = Passed(tls, n) /\ w.out = o
    BY <1>14
  <2>2. PICK whole \in BOOLEAN : whole <=> n = owed
    OBVIOUS
  <2>3. w = [tls |-> Passed(tls, n), out |-> o, taken |-> whole]
    BY <1>14, <2>2
  <2>4. w.taken <=> whole
    BY <2>3
  <2>q. QED
    BY <2>1, <2>2, <2>4
<1>16. /\ tls' \in Contexts /\ Place(tls'.turn, tls'.done)
       /\ tls'.turn = IF n = u - d THEN t + 1 ELSE t
       /\ tls'.done = IF n = u - d THEN 0 ELSE d + n
  BY <1>3, <1>4, <1>5, <1>13, <1>15, PassedContext DEF Missing, Turn
<1>17. /\ reply' \in [left : Nat, keep : BOOLEAN]
       /\ reply'.left = IF n = owed THEN left - 1 ELSE left
  <2>1. PICK l \in Nat : l = left - 1
    BY <1>5
  <2>2. [reply EXCEPT !.left = l] \in [left : Nat, keep : BOOLEAN] /\ [reply EXCEPT !.left = l].left = l
    BY <1>3
  <2>q. QED
    BY <1>3, <1>4, <1>15, <2>1, <2>2
<1>18. Answering'
  <2>1. CASE n = u - d
    <3>1. n = owed /\ left = 1
      BY <1>5, <1>9, <1>10, <1>13, <2>1, SizesFacts
    <3>2. reply'.left = 0 /\ tls'.turn = t + 1
      <4>1. reply'.left = left - 1
        BY <1>17, <3>1
      <4>2. tls'.turn = t + 1
        BY <1>16, <2>1
      <4>q. QED
        BY <3>1, <4>1, <4>2
    <3>3. t + 1 \in DOMAIN session => session[t + 1].of \in {"more", "ask"}
      BY <1>3, <1>5, NextTurn
    <3>q. QED
      BY <3>2, <3>3 DEF Answering, Listening
  <2>2. CASE n # u - d /\ n = owed
    <3>1. d + n = a + Chunk /\ left # 1
      BY <1>5, <1>9, <1>10, <1>13, <2>2, SizesFacts
    <3>2. /\ reply'.left = left - 1 /\ reply'.left # 0 /\ tls'.turn = t /\ tls'.done = d + n
      BY <1>5, <1>16, <1>17, <2>2, <3>1
    <3>3. /\ session[t].units = Chunk * (reply'.left + (k + 1)) /\ Chunk * (k + 1) <= tls'.done
          /\ tls'.done < Chunk * (k + 1) + Chunk /\ k + 1 \in Nat
      BY <1>4, <1>9, <3>1, <3>2, SizesFacts
    <3>q. QED
      BY <1>5, <3>2, <3>3 DEF Answering, IsOf
  <2>3. CASE n # u - d /\ n # owed
    <3>1. reply'.left = left /\ tls'.turn = t /\ tls'.done = d + n /\ d + n < a + Chunk /\ a <= d + n
      <4>1. d + n < a + Chunk /\ a <= d + n
        BY <1>5, <1>9, <1>10, <1>13, <2>3, SizesFacts
      <4>2. reply'.left = left
        BY <1>17, <2>3
      <4>3. tls'.turn = t /\ tls'.done = d + n
        BY <1>16, <2>3
      <4>q. QED
        BY <4>1, <4>2, <4>3
    <3>2. /\ session[t].units = Chunk * (reply'.left + k) /\ Chunk * k <= tls'.done
          /\ tls'.done < Chunk * k + Chunk
      BY <1>4, <1>6, <1>7, <3>1
    <3>q. QED
      BY <1>5, <3>1, <3>2 DEF Answering, IsOf
  <2>q. QED
    BY <2>1, <2>2, <2>3
<1>19. Flowing'
  <2>1. PICK q, e, x : q = peer.turn /\ e = peer.done /\ x = in + peer.wire
    OBVIOUS
  <2>2. q \in Nat /\ e \in Nat /\ x \in Nat /\ Abreast(t, d, q, e, x)
    BY <1>2, <1>3, <1>4, <2>1 DEF AllHeard, Peers
  <2>3. IF n = u - d THEN Ahead(t + 1, 0, q, e, x, n) ELSE Ahead(t, d + n, q, e, x, n)
    <3>1. IsBy(t, "server") /\ n <= session[t].units - d /\ 0 < n
      BY <1>4, <1>5, <1>13 DEF IsBy
    <3>2. IF n = session[t].units - d THEN Ahead(t + 1, 0, q, e, x, n) ELSE Ahead(t, d + n, q, e, x, n)
      BY <1>3, <1>5, <2>2, <3>1, StageIsAhead
    <3>q. QED
      BY <1>4, <3>2
  <2>4. PICK t2, d2 : t2 = tls'.turn /\ d2 = tls'.done
    OBVIOUS
  <2>5. Ahead(t2, d2, q, e, x, n)
    BY <1>16, <2>3, <2>4
  <2>6. Unread(out)' = n
    BY <1>13, <1>15 DEF Unread
  <2>7. Staged'
    BY <1>15, <2>1, <2>4, <2>5, <2>6 DEF Staged, Ahead, IsBy, Unread
  <2>q. QED
    BY <1>13, <1>15, <2>6, <2>7 DEF Flowing
<1>20. DataTyped'
  BY <1>13, <1>15, <1>16, <1>17 DEF DataInv, DataTyped, Place, IsBy, Buffers
<1>21. RunOk(Flush("send"))'
  BY <1>18, <1>19 DEF RunOk, Expects, InTime, Before, Between, Replying, Reports, Flush, GoalFits
<1>q. QED
  BY <1>1, <1>20, <1>21, IdleOpNext, FreshStep DEF slotVars

LEMMA WriteKeeps == ControlInv /\ DataInv /\ WritePlain => DataInv'
<1> SUFFICES ASSUME ControlInv, DataInv, WritePlain PROVE DataInv'
  OBVIOUS
<1>1. /\ Running("write") /\ UNCHANGED <<in, session, peer>>
      /\ \/ \E w : /\ w = Written /\ tls' = w.tls /\ out' = w.out
                   /\ reply' = IF w.taken THEN [reply EXCEPT !.left = @ - 1] ELSE reply
                   /\ run' = Flush("send") /\ UNCHANGED <<slotVars, op>>
         \/ /\ tls' = [tls EXCEPT !.phase = "error"] /\ reply' = reply
            /\ \/ /\ out' = [Stages(out, 1) EXCEPT !.note = TRUE]
                  /\ run' = Flush("failed") /\ UNCHANGED <<slotVars, op>>
               \/ Fails("send") /\ out' = out
  BY DEF WritePlain, gateVars
<1>2. CASE \E w : /\ w = Written /\ tls' = w.tls /\ out' = w.out
                  /\ reply' = IF w.taken THEN [reply EXCEPT !.left = @ - 1] ELSE reply
                  /\ run' = Flush("send") /\ UNCHANGED <<slotVars, op>>
  BY <1>1, <1>2, WriteStages
<1>3. CASE /\ tls' = [tls EXCEPT !.phase = "error"] /\ reply' = reply
           /\ out' = [Stages(out, 1) EXCEPT !.note = TRUE]
           /\ run' = Flush("failed") /\ UNCHANGED <<slotVars, op>>
  <2>1. RunOk(run) /\ op.kind = "none" /\ life # "new" /\ life' = life
    BY <1>1, <1>3, BusyFacts DEF DataInv, Running, slotVars
  <2>2. out = Empty /\ AllHeard
    BY <1>1, <2>1 DEF Running, RunOk, InTime, Replying
  <2>3. tls \in Contexts /\ peer \in Peers
    BY DEF DataInv, DataTyped
  <2>4. tls' \in Contexts /\ tls'.turn = tls.turn /\ tls'.done = tls.done
    BY <1>3, <2>3 DEF Contexts
  <2>5. PICK o : o = Stages(Empty, 1)
    OBVIOUS
  <2>6. o \in Buffers /\ o.off = 0 /\ o.len \in Nat
    BY <2>5, StagesFacts
  <2>7. out' = [o EXCEPT !.note = TRUE]
    BY <1>3, <2>2, <2>5
  <2>8. out' \in Buffers /\ out'.off <= out'.len /\ out'.note
    <3>1. PICK v : v = [o EXCEPT !.note = TRUE]
      OBVIOUS
    <3>2. v \in Buffers /\ v.off = 0 /\ v.len = o.len
      BY <2>6, <3>1 DEF Buffers
    <3>3. v.note
      BY <2>6, <3>1 DEF Buffers
    <3>q. QED
      BY <2>6, <2>7, <3>1, <3>2, <3>3
  <2>9. AllHeard'
    BY <1>1, <2>2, <2>4, HeardStays
  <2>10. DataTyped'
    BY <1>1, <1>3, <2>3, <2>4, <2>8 DEF DataInv, DataTyped, Place, IsBy
  <2>11. RunOk(Flush("failed"))'
    BY <2>8, <2>9 DEF RunOk, Expects, InTime, Before, Between, Replying, Reports, Flush, GoalFits, Flowing
  <2>q. QED
    BY <1>3, <2>1, <2>10, <2>11, IdleOpNext, FreshStep
<1>4. CASE tls' = [tls EXCEPT !.phase = "error"] /\ reply' = reply /\ Fails("send") /\ out' = out
  BY <1>1, <1>4, ErrorKeeps DEF Running, Continuations
<1>q. QED
  BY <1>1, <1>2, <1>3, <1>4

-----------------------------------------------------------------------------
(* mbedtls reads                                                           *)

\* What mbedtls takes of what is staged, it takes of its peer's turn.
LEMMA Taken ==
    ASSUME session \in Sessions, tls \in Contexts, Place(tls.turn, tls.done), peer \in Peers, in \in Nat, AllHeard,
           NEW k, k = Takes(tls, in), NEW t, t = IF k > 0 THEN Passed(tls, k) ELSE tls
    PROVE  /\ k \in Nat /\ k <= in /\ t \in Contexts /\ Place(t.turn, t.done)
           /\ Abreast(t.turn, t.done, peer.turn, peer.done, (in - k) + peer.wire)
           /\ \/ t.turn = tls.turn
              \/ t.turn = tls.turn + 1 /\ t.done = 0 /\ tls.turn \in DOMAIN session
<1>1. /\ tls.turn \in Nat /\ tls.done \in Nat /\ peer.turn \in Nat /\ peer.done \in Nat /\ peer.wire \in Nat
      /\ Abreast(tls.turn, tls.done, peer.turn, peer.done, in + peer.wire)
  BY DEF Contexts, Peers, AllHeard
<1>2. CASE Talks(tls, "peer", {"handshake", "more", "ask"}) /\ in > 0
  <2>1. tls.turn \in DOMAIN session /\ k = Least(in, Missing(tls))
    BY <1>2 DEF Takes, Talks
  <2>2. PICK u : u = session[tls.turn].units
    OBVIOUS
  <2>3. u \in Nat /\ tls.done < u
    BY <2>1, <2>2, SessionFacts DEF Place
  <2>4. PICK m \in Nat : m = u - tls.done /\ m > 0 /\ Missing(tls) = m
    BY <1>1, <2>2, <2>3 DEF Missing, Turn
  <2>5. k \in Nat /\ k > 0 /\ k <= in /\ k <= m
    BY <1>2, <2>1, <2>4, LeastFacts
  <2>6. /\ t \in Contexts /\ Place(t.turn, t.done)
        /\ t.turn = IF k = m THEN tls.turn + 1 ELSE tls.turn
        /\ t.done = IF k = m THEN 0 ELSE tls.done + k
    BY <2>1, <2>4, <2>5, PassedContext
  <2>7. PICK n \in Nat : n = in + peer.wire /\ k <= n /\ n - k = (in - k) + peer.wire
    BY <1>1, <2>5
  <2>8. IF k = m THEN Abreast(tls.turn + 1, 0, peer.turn, peer.done, n - k)
                 ELSE Abreast(tls.turn, tls.done + k, peer.turn, peer.done, n - k)
    BY <1>1, <2>1, <2>2, <2>4, <2>5, <2>7, TakeKeeps
  <2>9. Abreast(t.turn, t.done, peer.turn, peer.done, n - k)
    BY <2>6, <2>8
  <2>q. QED
    BY <2>1, <2>5, <2>6, <2>7, <2>9
<1>3. CASE ~(Talks(tls, "peer", {"handshake", "more", "ask"}) /\ in > 0)
  <2>1. k = 0 /\ t = tls
    BY <1>3 DEF Takes
  <2>2. in - 0 = in
    OBVIOUS
  <2>q. QED
    BY <1>1, <2>1, <2>2
<1>q. QED
  BY <1>2, <1>3

LEMMA HandshakenFacts ==
    ASSUME DataTyped, out = Empty, AllHeard, IsOf(tls.turn, "handshake"), NEW h, h = Handshaken
    PROVE  /\ h.tls \in Contexts /\ Place(h.tls.turn, h.tls.done)
           /\ h.in \in 0..InCap
           /\ h.out \in Buffers /\ h.out.off <= h.out.len /\ ~h.out.note
           /\ IF Unread(h.out) = 0
              THEN h.out = Empty /\ Abreast(h.tls.turn, h.tls.done, peer.turn, peer.done, h.in + peer.wire)
              ELSE Unread(h.out) > 0 /\ Ahead(h.tls.turn, h.tls.done, peer.turn, peer.done, h.in + peer.wire, Unread(h.out))
           /\ IF h.ret = "done"
              THEN h.tls.turn \notin DOMAIN session \/ session[h.tls.turn].of \in {"more", "ask"}
              ELSE IsOf(h.tls.turn, "handshake") /\ (Unread(h.out) = 0 => IsBy(h.tls.turn, "peer"))
<1>1. /\ session \in Sessions /\ tls \in Contexts /\ Place(tls.turn, tls.done) /\ peer \in Peers
      /\ in \in 0..InCap /\ in \in Nat /\ InCap \in Nat
  BY SizesFacts DEF DataTyped
<1>2. PICK k : k = Takes(tls, in)
  OBVIOUS
<1>3. PICK t : t = IF k > 0 THEN Passed(tls, k) ELSE tls
  OBVIOUS
<1>4. /\ k \in Nat /\ k <= in /\ t \in Contexts /\ Place(t.turn, t.done)
      /\ Abreast(t.turn, t.done, peer.turn, peer.done, (in - k) + peer.wire)
      /\ \/ t.turn = tls.turn
         \/ t.turn = tls.turn + 1 /\ t.done = 0 /\ tls.turn \in DOMAIN session
  BY <1>1, <1>2, <1>3, Taken
<1>5. t.turn \in DOMAIN session => session[t.turn].of # "reply"
  BY <1>1, <1>4, NextTurn DEF IsOf
<1>6. \A i \in DOMAIN session : /\ session[i].of \in {"handshake", "more", "ask", "reply"}
                                /\ session[i].by \in {"peer", "server"}
  BY <1>1, SessionFacts
<1>7. PICK i : i = in - k
  OBVIOUS
<1>8. i \in 0..InCap /\ i \in Nat
  BY <1>1, <1>4, <1>7
<1> DEFINE Ret(u) == IF u.turn \in DOMAIN session /\ Turn(u).of = "handshake"
                     THEN IF Turn(u).by = "peer" THEN "want_read" ELSE "want_write"
                     ELSE "done"
<1>9. CASE Talks(t, "server", {"handshake"})
  <2>1. PICK m : m = Missing(t)
    OBVIOUS
  <2>2. t.turn \in DOMAIN session /\ session[t.turn].by = "server" /\ session[t.turn].of = "handshake"
    BY <1>9 DEF Talks, Turn
  <2>3. m \in Nat /\ m > 0 /\ m = session[t.turn].units - t.done /\ t.turn \in Nat /\ t.done \in Nat
    BY <1>1, <1>4, <2>1, <2>2, SessionFacts DEF Missing, Turn, Place, Contexts
  <2>4. PICK o : o = Stages(Empty, m)
    OBVIOUS
  <2>5. PICK n : n = o.len
    OBVIOUS
  <2>6. o \in Buffers /\ o.off = 0 /\ ~o.note /\ Unread(o) = n /\ n \in Nat /\ n > 0 /\ n <= m /\ o.len = n
    BY <2>3, <2>4, <2>5, StagesFacts
  <2>7. PICK u : u = Passed(t, n)
    OBVIOUS
  <2>8. /\ u \in Contexts /\ Place(u.turn, u.done)
        /\ u.turn = IF n = m THEN t.turn + 1 ELSE t.turn
        /\ u.done = IF n = m THEN 0 ELSE t.done + n
    BY <1>1, <1>4, <2>1, <2>2, <2>6, <2>7, PassedContext
  <2>9. /\ h.tls = u /\ h.in = i /\ h.out = o /\ h.ret = Ret(u)
    <3>1. o.len > Empty.len /\ o.len - Empty.len = n
      BY <2>6, EmptyFacts
    <3>2. h = [tls |-> u, in |-> i, out |-> o, ret |-> Ret(u)]
      BY <1>2, <1>3, <1>7, <1>9, <2>1, <2>4, <2>7, <3>1 DEF Handshaken
    <3>q. QED
      BY <3>2
  <2>10. PICK x \in Nat : x = i + peer.wire
    BY <1>1, <1>8 DEF Peers
  <2>11. Ahead(u.turn, u.done, peer.turn, peer.done, x, n)
    <3>1. peer.turn \in Nat /\ peer.done \in Nat /\ IsBy(t.turn, "server")
      BY <1>1, <2>2 DEF Peers, IsBy
    <3>2. IF n = m THEN Ahead(t.turn + 1, 0, peer.turn, peer.done, x, n)
                   ELSE Ahead(t.turn, t.done + n, peer.turn, peer.done, x, n)
      <4>1. Abreast(t.turn, t.done, peer.turn, peer.done, x)
        BY <1>4, <1>7, <2>10
      <4>2. n <= session[t.turn].units - t.done
        BY <2>3, <2>6
      <4>3. PICK a, b, c, d : a = t.turn /\ b = t.done /\ c = peer.turn /\ d = peer.done
        OBVIOUS
      <4>4. IF n = session[a].units - b THEN Ahead(a + 1, 0, c, d, x, n) ELSE Ahead(a, b + n, c, d, x, n)
        <5>1. /\ a \in Nat /\ b \in Nat /\ c \in Nat /\ d \in Nat /\ IsBy(a, "server")
              /\ n \in Nat /\ 0 < n /\ n <= session[a].units - b /\ Abreast(a, b, c, d, x)
          BY <2>3, <2>6, <3>1, <4>1, <4>2, <4>3
        <5>q. QED
          BY <1>1, <5>1, StageIsAhead
      <4>q. QED
        BY <2>3, <4>3, <4>4
    <3>q. QED
      BY <2>8, <3>2
  <2>12. u.turn \in DOMAIN session => session[u.turn].of # "reply"
    BY <1>1, <1>5, <2>2, <2>8, NextTurn
  <2>13. IF Ret(u) = "done" THEN u.turn \notin DOMAIN session \/ session[u.turn].of \in {"more", "ask"}
                            ELSE IsOf(u.turn, "handshake")
    BY <1>6, <2>12 DEF Turn, IsOf
  <2>q. QED
    BY <1>8, <2>6, <2>8, <2>9, <2>10, <2>11, <2>13
<1>10. CASE ~Talks(t, "server", {"handshake"})
  <2>1. /\ h.tls = t /\ h.in = i /\ h.out = Empty /\ h.ret = Ret(t)
    <3>1. h = [tls |-> t, in |-> i, out |-> Empty, ret |-> Ret(t)]
      BY <1>2, <1>3, <1>7, <1>10, EmptyFacts DEF Handshaken
    <3>q. QED
      BY <3>1
  <2>2. IF Ret(t) = "done" THEN t.turn \notin DOMAIN session \/ session[t.turn].of \in {"more", "ask"}
                           ELSE IsOf(t.turn, "handshake") /\ IsBy(t.turn, "peer")
    BY <1>5, <1>6, <1>10 DEF Turn, IsOf, IsBy, Talks
  <2>q. QED
    BY <1>4, <1>7, <1>8, <2>1, <2>2, EmptyFacts
<1>q. QED
  BY <1>9, <1>10

LEMMA FailureNext ==
    ASSUME NEW c \in Continuations
    PROVE  RunOk(After(c, FALSE))'
<1>1. RunOk(After(c, FALSE))
  BY FailureFits
<1>q. QED
  BY <1>1, PTL

\* A read of ciphertext is submitted or refused: all is sent that was made.
LEMMA ParkKeeps ==
    ASSUME ControlInv, DataInv, ~Running("none"), NEW c \in {"drive", "recv"}, Parks(c),
           DataTyped', out' = Empty, AllHeard', GoalFits(c)', c = "drive" => IsBy(tls.turn, "peer")'
    PROVE  DataInv'
<1>1. c \in Continuations /\ op.kind = "none"
  BY BusyFacts DEF Continuations
<1>2. life' # "new"
  BY BusyStays DEF Parks, Refused, Fails
<1>3. CASE Submits("recv", c)
  <2>1. PICK o : o = [kind |-> "recv", then |-> c, cancelled |-> FALSE]
    OBVIOUS
  <2>2. op' = o /\ run' = Nobody
    BY <1>3, <2>1 DEF Submits, Returns
  <2>3. OpOk(o)'
    BY <2>1 DEF OpOk
  <2>4. RunOk(Nobody)'
    BY DEF RunOk, Expects, InTime, Before, Between, Replying, Reports, Nobody, At, Told
  <2>q. QED
    BY <1>2, <2>2, <2>3, <2>4, FreshStep
<1>4. CASE Fails(c)
  <2>1. run' = After(c, FALSE) /\ op' = op
    BY <1>4 DEF Fails, GoesOn
  <2>q. QED
    BY <1>1, <1>2, <2>1, IdleOpNext, FailureNext, FreshStep
<1>q. QED
  BY <1>3, <1>4 DEF Parks, Refused

LEMMA DriveKeeps == ControlInv /\ DataInv /\ DriveHandshake => DataInv'
<1> SUFFICES ASSUME ControlInv, DataInv, DriveHandshake PROVE DataInv'
  OBVIOUS
<1>1. /\ Running("handshake") /\ ~Running("none") /\ UNCHANGED <<reply, session, peer>>
      /\ \/ tls' = [tls EXCEPT !.phase = "error"] /\ Fails("drive") /\ UNCHANGED <<in, out>>
         \/ \E h : /\ h = Handshaken
                   /\ tls' = [h.tls EXCEPT !.phase = IF h.ret = "done" THEN "established" ELSE @]
                   /\ in' = h.in /\ out' = h.out
                   /\ IF Unread(h.out) > 0
                      THEN run' = Flush(IF h.ret = "done" THEN "finished" ELSE "drive") /\ UNCHANGED <<slotVars, op>>
                      ELSE IF h.ret = "done"
                      THEN run' = Told("settled", TRUE) /\ UNCHANGED <<slotVars, op>>
                      ELSE Parks("drive")
  BY DEF DriveHandshake, Running, Owes, GoesOn
<1>2. /\ RunOk(run) /\ op.kind = "none" /\ life # "new" /\ out = Empty /\ AllHeard /\ IsOf(tls.turn, "handshake")
      /\ peer \in Peers
  BY <1>1, BusyFacts DEF DataInv, DataTyped, Running, RunOk, Expects, InTime, Before
<1>3. CASE tls' = [tls EXCEPT !.phase = "error"] /\ Fails("drive") /\ UNCHANGED <<in, out>>
  BY <1>1, <1>3, ErrorKeeps DEF Continuations
<1>4. ASSUME NEW h, h = Handshaken,
             tls' = [h.tls EXCEPT !.phase = IF h.ret = "done" THEN "established" ELSE @],
             in' = h.in, out' = h.out,
             IF Unread(h.out) > 0
             THEN run' = Flush(IF h.ret = "done" THEN "finished" ELSE "drive") /\ UNCHANGED <<slotVars, op>>
             ELSE IF h.ret = "done"
             THEN run' = Told("settled", TRUE) /\ UNCHANGED <<slotVars, op>>
             ELSE Parks("drive")
      PROVE  DataInv'
  <2>1. PICK t, i, o, r : t = h.tls /\ i = h.in /\ o = h.out /\ r = h.ret
    OBVIOUS
  <2>2. /\ t \in Contexts /\ Place(t.turn, t.done) /\ i \in 0..InCap
        /\ o \in Buffers /\ o.off <= o.len /\ ~o.note
        /\ IF Unread(o) = 0
           THEN o = Empty /\ Abreast(t.turn, t.done, peer.turn, peer.done, i + peer.wire)
           ELSE Unread(o) > 0 /\ Ahead(t.turn, t.done, peer.turn, peer.done, i + peer.wire, Unread(o))
        /\ IF r = "done"
           THEN t.turn \notin DOMAIN session \/ session[t.turn].of \in {"more", "ask"}
           ELSE IsOf(t.turn, "handshake") /\ (Unread(o) = 0 => IsBy(t.turn, "peer"))
    BY <1>2, <1>4, <2>1, HandshakenFacts DEF DataInv
  <2>3. tls' \in Contexts /\ tls'.turn = t.turn /\ tls'.done = t.done
    <3>1. PICK f : f = IF r = "done" THEN "established" ELSE t.phase
      OBVIOUS
    <3>2. tls' = [t EXCEPT !.phase = f]
      BY <1>4, <2>1, <3>1
    <3>3. f \in {"idle", "handshaking", "established", "error"}
      BY <2>2, <3>1 DEF Contexts
    <3>q. QED
      BY <2>2, <3>2, <3>3 DEF Contexts
  <2>4. DataTyped'
    BY <1>1, <1>4, <2>1, <2>2, <2>3 DEF DataInv, DataTyped, Place, IsBy
  <2>5. Unread(o) \in Nat
    BY <2>2, SizesFacts DEF Buffers, Unread
  <2>6. IF r = "done" THEN Listening' ELSE IsOf(tls.turn, "handshake")' /\ (Unread(o) = 0 => IsBy(tls.turn, "peer")')
    BY <1>1, <2>2, <2>3 DEF Listening, IsOf, IsBy
  <2>7. CASE Unread(o) > 0
    <3>1. PICK c : c = IF r = "done" THEN "finished" ELSE "drive"
      OBVIOUS
    <3>2. run' = Flush(c) /\ UNCHANGED <<slotVars, op>>
      BY <1>4, <2>1, <2>7, <3>1
    <3>3. GoalFits(c)'
      BY <2>6, <3>1 DEF GoalFits
    <3>4. Staged'
      <4>1. PICK a, d, x, u : a = t.turn /\ d = t.done /\ x = i + peer.wire /\ u = Unread(o)
        OBVIOUS
      <4>2. Ahead(a, d, peer.turn, peer.done, x, u)
        BY <2>2, <2>7, <4>1
      <4>3. tls'.turn = a /\ tls'.done = d /\ in' + peer'.wire = x /\ out'.len - out'.off = u
        BY <1>1, <1>4, <2>1, <2>3, <4>1 DEF Unread
      <4>q. QED
        BY <1>1, <4>2, <4>3 DEF Staged, Ahead, IsBy, Unread
    <3>5. Flowing'
      BY <1>4, <2>1, <2>2, <2>7, <3>4 DEF Flowing, Unread
    <3>6. RunOk(Flush(c))'
      BY <3>3, <3>5 DEF RunOk, Expects, InTime, Before, Between, Replying, Reports, Flush
    <3>q. QED
      BY <1>2, <2>4, <3>2, <3>6, IdleOpNext, FreshStep DEF slotVars
  <2>8. CASE ~(Unread(o) > 0)
    <3>1. Unread(o) = 0 /\ out' = Empty
      BY <1>4, <2>1, <2>2, <2>5, <2>8
    <3>2. AllHeard'
      <4>1. PICK a, d, x : a = t.turn /\ d = t.done /\ x = i + peer.wire
        OBVIOUS
      <4>2. Abreast(a, d, peer.turn, peer.done, x)
        BY <2>2, <3>1, <4>1
      <4>3. tls'.turn = a /\ tls'.done = d /\ in' + peer'.wire = x
        BY <1>1, <1>4, <2>1, <2>3, <4>1
      <4>q. QED
        BY <1>1, <4>2, <4>3 DEF AllHeard, Abreast, Counts
    <3>3. CASE r = "done"
      <4>1. run' = Told("settled", TRUE) /\ UNCHANGED <<slotVars, op>>
        BY <1>4, <2>1, <2>8, <3>3
      <4>2. RunOk(Told("settled", TRUE))'
        BY <2>6, <3>1, <3>2, <3>3 DEF RunOk, Expects, InTime, Before, Between, Replying, Reports, Told
      <4>q. QED
        BY <1>2, <2>4, <4>1, <4>2, IdleOpNext, FreshStep DEF slotVars
    <3>4. CASE r # "done"
      <4>1. Parks("drive")
        BY <1>4, <2>1, <2>8, <3>4
      <4>2. GoalFits("drive")' /\ IsBy(tls.turn, "peer")'
        BY <2>6, <3>1, <3>4 DEF GoalFits
      <4>q. QED
        BY <1>1, <2>4, <3>1, <3>2, <4>1, <4>2, ParkKeeps
    <3>q. QED
      BY <3>3, <3>4
  <2>q. QED
    BY <2>7, <2>8
<1>q. QED
  BY <1>1, <1>3, <1>4

\* One call of mbedtls_ssl_read that finds a connection it listens on.
LEMMA PlainFacts ==
    ASSUME DataTyped, AllHeard, Listening, NEW p, p = Plain
    PROVE  /\ p.tls \in Contexts /\ Place(p.tls.turn, p.tls.done) /\ p.in \in 0..InCap
           /\ Abreast(p.tls.turn, p.tls.done, peer.turn, peer.done, p.in + peer.wire)
           /\ IF p.some
              THEN /\ p.tls.turn = tls.turn + 1 /\ p.tls.done = 0
                   /\ IsOf(tls.turn, "more") \/ IsOf(tls.turn, "ask")
              ELSE p.tls.turn = tls.turn
<1>1. /\ session \in Sessions /\ tls \in Contexts /\ Place(tls.turn, tls.done) /\ peer \in Peers
      /\ in \in 0..InCap /\ in \in Nat /\ InCap \in Nat
  BY SizesFacts DEF DataTyped
<1>2. PICK k : k = Takes(tls, in)
  OBVIOUS
<1>3. PICK t : t = IF k > 0 THEN Passed(tls, k) ELSE tls
  OBVIOUS
<1>4. /\ k \in Nat /\ k <= in /\ t \in Contexts /\ Place(t.turn, t.done)
      /\ Abreast(t.turn, t.done, peer.turn, peer.done, (in - k) + peer.wire)
      /\ \/ t.turn = tls.turn
         \/ t.turn = tls.turn + 1 /\ t.done = 0 /\ tls.turn \in DOMAIN session
  BY <1>1, <1>2, <1>3, Taken
<1>5. PICK i, b : i = in - k /\ b \in BOOLEAN /\ (b <=> t.turn > tls.turn)
  OBVIOUS
<1>6. i \in 0..InCap
  BY <1>1, <1>4, <1>5
<1>7. p = [tls |-> t, in |-> i, some |-> b]
  BY <1>2, <1>3, <1>5 DEF Plain
<1>8. p.tls = t /\ p.in = i /\ (p.some <=> b)
  BY <1>7
<1>9. tls.turn \in Nat /\ (tls.turn \in DOMAIN session => IsOf(tls.turn, "more") \/ IsOf(tls.turn, "ask"))
  BY <1>1 DEF Listening, IsOf, Contexts
<1>q. QED
  BY <1>4, <1>5, <1>6, <1>8, <1>9

\* What ReadPlain does: it leaves a note or not, and fails or not.
ReadsTo(note, sound, o, p, c) ==
    /\ o = IF note THEN [Stages(out, 1) EXCEPT !.note = TRUE] ELSE out
    /\ p = Plain
    /\ c = IF ~sound THEN "nothing" ELSE IF p.some THEN "bytes" ELSE "recv"
    /\ note => tls.notes < MaxNotes
    /\ tls' = [(IF sound THEN p.tls ELSE [tls EXCEPT !.phase = "error"])
                 EXCEPT !.notes = IF note THEN @ + 1 ELSE @]
    /\ in' = IF sound THEN p.in ELSE in
    /\ out' = o
    /\ IF Unread(o) > 0
       THEN run' = Flush(c) /\ UNCHANGED <<slotVars, op>>
       ELSE IF c = "recv" THEN Parks("recv")
       ELSE run' = After(c, TRUE) /\ UNCHANGED <<slotVars, op>>

LEMMA ReadKeeps == ControlInv /\ DataInv /\ ReadPlain => DataInv'
<1> SUFFICES ASSUME ControlInv, DataInv, ReadPlain PROVE DataInv'
  OBVIOUS
<1>1. /\ Running("read") /\ ~Running("none") /\ UNCHANGED <<reply, session, peer>>
      /\ \E note \in BOOLEAN, sound \in BOOLEAN :
           \E o, p, c : ReadsTo(note, sound, o, p, c)
  BY DEF ReadPlain, Running, GoesOn, ReadsTo
<1>2. /\ RunOk(run) /\ op.kind = "none" /\ life # "new" /\ out = Empty /\ AllHeard /\ Listening
      /\ peer \in Peers /\ tls \in Contexts /\ DataTyped
  BY <1>1, BusyFacts DEF DataInv, DataTyped, Running, RunOk, Expects, InTime, Between
<1>3. ASSUME NEW note \in BOOLEAN, NEW sound \in BOOLEAN, NEW o, NEW p, NEW c, ReadsTo(note, sound, o, p, c)
      PROVE  DataInv'
  <2>0. /\ o = IF note THEN [Stages(out, 1) EXCEPT !.note = TRUE] ELSE out
        /\ p = Plain
        /\ c = IF ~sound THEN "nothing" ELSE IF p.some THEN "bytes" ELSE "recv"
        /\ note => tls.notes < MaxNotes
        /\ tls' = [(IF sound THEN p.tls ELSE [tls EXCEPT !.phase = "error"])
                     EXCEPT !.notes = IF note THEN @ + 1 ELSE @]
        /\ in' = IF sound THEN p.in ELSE in
        /\ out' = o
        /\ IF Unread(o) > 0
           THEN run' = Flush(c) /\ UNCHANGED <<slotVars, op>>
           ELSE IF c = "recv" THEN Parks("recv")
           ELSE run' = After(c, TRUE) /\ UNCHANGED <<slotVars, op>>
    BY <1>3, Zenon DEF ReadsTo
  <2>1. c \in Continuations
    BY <2>0 DEF Continuations
  <2>2. PICK t, i : t = p.tls /\ i = p.in
    OBVIOUS
  <2>3. /\ t \in Contexts /\ Place(t.turn, t.done) /\ i \in 0..InCap
        /\ Abreast(t.turn, t.done, peer.turn, peer.done, i + peer.wire)
        /\ IF p.some
           THEN t.turn = tls.turn + 1 /\ t.done = 0 /\ (IsOf(tls.turn, "more") \/ IsOf(tls.turn, "ask"))
           ELSE t.turn = tls.turn
    BY <1>2, <2>0, <2>2, PlainFacts
  <2>4. PICK v : v = IF sound THEN t ELSE [tls EXCEPT !.phase = "error"]
    OBVIOUS
  <2>5. /\ v \in Contexts /\ v.turn = (IF sound THEN t.turn ELSE tls.turn)
        /\ v.done = (IF sound THEN t.done ELSE tls.done)
    BY <1>2, <2>3, <2>4 DEF Contexts
  <2>6. tls' \in Contexts /\ tls'.turn = v.turn /\ tls'.done = v.done
    <3>1. PICK n : n = IF note THEN v.notes + 1 ELSE v.notes
      OBVIOUS
    <3>2. tls' = [v EXCEPT !.notes = n]
      BY <2>0, <2>2, <2>4, <3>1
    <3>3. note => v.notes < MaxNotes
      <4>1. [tls EXCEPT !.phase = "error"].notes = tls.notes
        BY <1>2 DEF Contexts
      <4>2. t.notes = tls.notes
        BY <1>2, <2>0, <2>2 DEF Plain, Passed, Contexts
      <4>q. QED
        BY <2>0, <2>4, <4>1, <4>2
    <3>4. n \in 0..MaxNotes
      BY <2>5, <3>1, <3>3, SizesFacts DEF Contexts
    <3>q. QED
      BY <2>5, <3>2, <3>4 DEF Contexts
  <2>7. AllHeard'
    <3>1. CASE sound
      <4>1. PICK a, d, x : a = t.turn /\ d = t.done /\ x = i + peer.wire
        OBVIOUS
      <4>2. Abreast(a, d, peer.turn, peer.done, x)
        BY <2>3, <4>1
      <4>3. tls'.turn = a /\ tls'.done = d /\ in' + peer'.wire = x
        BY <1>1, <2>0, <2>2, <2>5, <2>6, <3>1, <4>1
      <4>q. QED
        BY <1>1, <4>2, <4>3 DEF AllHeard, Abreast, Counts
    <3>2. CASE ~sound
      BY <1>1, <1>2, <2>0, <2>5, <2>6, <3>2, HeardStays
    <3>q. QED
      BY <3>1, <3>2
  <2>8. GoalFits(c)'
    <3>1. CASE c = "nothing"
      BY <3>1 DEF GoalFits
    <3>2. CASE c = "recv"
      <4>1. tls'.turn = tls.turn
        BY <2>0, <2>3, <2>5, <2>6, <3>2
      <4>q. QED
        BY <1>1, <1>2, <3>2, <4>1 DEF GoalFits, Listening
    <3>3. CASE c = "bytes"
      <4>1. PICK s : s = tls.turn
        OBVIOUS
      <4>2. /\ s \in DOMAIN session /\ s \in Nat /\ session[s].of \in {"more", "ask"}
            /\ tls'.turn = s + 1 /\ tls'.done = 0
        BY <1>2, <2>0, <2>3, <2>5, <2>6, <3>3, <4>1 DEF IsOf, Contexts
      <4>3. session \in Sessions /\ (s + 1) - 1 = s
        BY <1>2, <4>2 DEF DataTyped
      <4>4. /\ session[s].of = "more" /\ s + 1 \in DOMAIN session => session[s + 1].of \in {"more", "ask"}
            /\ session[s].of = "ask" => s + 1 \in DOMAIN session /\ session[s + 1].of = "reply"
        BY <4>2, <4>3, NextTurn
      <4>5. HasRead'
        BY <1>1, <4>2, <4>3, <4>4 DEF HasRead, IsOf, Listening
      <4>q. QED
        BY <3>3, <4>5 DEF GoalFits
    <3>q. QED
      BY <2>0, <3>1, <3>2, <3>3
  <2>9. o \in Buffers /\ o.off <= o.len /\ (IF note THEN o.note ELSE o = Empty)
    <3>1. CASE ~note
      BY <1>2, <2>0, <3>1, EmptyFacts, SizesFacts
    <3>2. CASE note
      <4>1. PICK m : m = Stages(Empty, 1)
        OBVIOUS
      <4>2. m \in Buffers /\ m.off = 0 /\ m.len \in Nat
        BY <4>1, StagesFacts
      <4>3. o = [m EXCEPT !.note = TRUE]
        BY <1>2, <2>0, <3>2, <4>1
      <4>4. o \in Buffers /\ o.off = 0 /\ o.len = m.len
        BY <4>2, <4>3 DEF Buffers
      <4>5. o.note
        BY <4>2, <4>3 DEF Buffers
      <4>q. QED
        BY <3>2, <4>2, <4>4, <4>5
    <3>q. QED
      BY <3>1, <3>2
  <2>10. DataTyped'
    <3>1. Place(v.turn, v.done) /\ in' \in 0..InCap
      BY <1>2, <2>0, <2>2, <2>3, <2>5 DEF DataTyped
    <3>q. QED
      BY <1>1, <1>2, <2>0, <2>6, <2>9, <3>1 DEF DataTyped, Place, IsBy
  <2>11. CASE Unread(o) > 0
    <3>1. note
      BY <2>9, <2>11, EmptyFacts
    <3>2. Flowing'
      BY <2>0, <2>7, <2>9, <3>1 DEF Flowing
    <3>3. RunOk(Flush(c))'
      BY <2>8, <3>2 DEF RunOk, Expects, InTime, Before, Between, Replying, Reports, Flush
    <3>q. QED
      BY <1>2, <2>0, <2>10, <2>11, <3>3, IdleOpNext, FreshStep DEF slotVars
  <2>12. CASE ~(Unread(o) > 0)
    <3>1. o = Empty
      <4>1. CASE note
        <5>1. PICK m : m = Stages(Empty, 1)
          OBVIOUS
        <5>2. m \in Buffers /\ m.off = 0 /\ m.len \in Nat /\ m.len > 0
          BY <5>1, StagesFacts
        <5>3. o = [m EXCEPT !.note = TRUE]
          BY <1>2, <2>0, <4>1, <5>1
        <5>4. o.off = 0 /\ o.len = m.len
          BY <5>2, <5>3 DEF Buffers
        <5>q. QED
          BY <2>12, <5>2, <5>4 DEF Unread
      <4>q. QED
        BY <2>9, <4>1
    <3>2. CASE c = "recv"
      BY <1>1, <2>0, <2>7, <2>8, <2>10, <2>12, <3>1, <3>2, ParkKeeps
    <3>3. CASE c # "recv"
      <4>1. run' = After(c, TRUE) /\ UNCHANGED <<slotVars, op>>
        BY <2>0, <2>12, <3>3
      <4>2. RunOk(After(c, TRUE))'
        BY <2>0, <2>1, <2>7, <2>8, <3>1, DrainedNext
      <4>q. QED
        BY <1>2, <2>10, <4>1, <4>2, IdleOpNext, FreshStep DEF slotVars
    <3>q. QED
      BY <3>2, <3>3
  <2>q. QED
    BY <2>11, <2>12
<1>q. QED
  BY <1>1, <1>3

-----------------------------------------------------------------------------
(* What the server has produced                                            *)

LEMMA DataStep ==
    ASSUME ControlInv, DataInv, [Next]_vars
    PROVE  DataInv'
<1>1. CASE Accept
  BY <1>1, QuietOthers
<1>2. CASE Stack
  <2>1. CASE \/ InitTLS \/ CountHandshake \/ CheckDrive \/ Settle \/ Dispatch \/ CheckUntil
             \/ AcquireWork \/ CheckRecv \/ CheckSend \/ OnProgress
    BY <2>1, QuietStacks
  <2>2. CASE DriveHandshake
    BY <2>2, DriveKeeps
  <2>3. CASE FlushCipherOut
    BY <2>3, FlushKeeps
  <2>4. CASE ReadPlain
    BY <2>4, ReadKeeps
  <2>5. CASE OnBytes
    BY <2>5, BytesKeeps
  <2>6. CASE WritePlain
    BY <2>6, WriteKeeps
  <2>q. QED
    BY <1>2, <2>1, <2>2, <2>3, <2>4, <2>5, <2>6 DEF Stack
<1>3. CASE Completion
  <2>1. CASE SendDone
    BY <2>1, SendKeeps
  <2>2. CASE RecvDone
    BY <2>2, RecvKeeps
  <2>3. CASE OpFails
    BY <2>3, QuietOthers
  <2>q. QED
    BY <1>3, <2>1, <2>2, <2>3 DEF Completion
<1>4. CASE Release
  BY <1>4, ReleaseKeeps
<1>5. CASE ProcessCancel \/ Reap \/ (\E s \in {"accept", "serve"} : Kill(s)) \/ Close \/ PeerLeaves \/ UNCHANGED vars
  BY <1>5, QuietOthers
<1>6. CASE PeerSays
  BY <1>6, SayStep
<1>q. QED
  BY <1>1, <1>2, <1>3, <1>4, <1>5, <1>6 DEF Next

\* The peer has heard every turn that mbedtls is past, and no turn of the
\* server's is begun and unheard.
LEMMA HeardMeansAbreast ==
    ASSUME DataTyped, AllHeard
    PROVE  peer.turn >= tls.turn
BY DEF DataTyped, AllHeard, Abreast, Contexts, Peers

LEMMA DataImplies == ControlInv /\ DataInv => NothingHeldBack
<1> SUFFICES ASSUME ControlInv, DataInv,
                    \/ op.kind = "recv"
                    \/ run = Told("settled", TRUE) \/ run.fn \in {"dispatch", "until"}
             PROVE  /\ Unread(out) = 0
                    /\ peer.here => peer.turn >= tls.turn /\ ~Talks(tls, "server", {"handshake", "reply"})
  BY DEF NothingHeldBack
<1>1. DataTyped /\ RunOk(run) /\ OpOk(op) /\ session \in Sessions
  BY DEF DataInv, DataTyped
<1>2. out = Empty /\ AllHeard /\ (Listening \/ IsBy(tls.turn, "peer"))
  <2>1. CASE op.kind = "recv"
    <3>1. op.then \in {"drive", "recv"}
      BY <2>1 DEF ControlInv, StackHolds
    <3>q. QED
      BY <1>1, <2>1, <3>1 DEF OpOk, GoalFits
  <2>2. CASE run = Told("settled", TRUE) \/ run.fn \in {"dispatch", "until"}
    <3>1. (run.fn = "settled" /\ run.ok) \/ run.fn \in {"dispatch", "until"}
      BY <2>2 DEF Told
    <3>q. QED
      BY <1>1, <3>1 DEF RunOk, Expects, InTime, Between, Reports
  <2>q. QED
    BY <2>1, <2>2
<1>3. ~Talks(tls, "server", {"handshake", "reply"})
  BY <1>1, <1>2, SessionFacts DEF Talks, Turn, Listening, IsBy
<1>q. QED
  BY <1>1, <1>2, <1>3, HeardMeansAbreast, EmptyFacts

LEMMA DataAlways == Spec => [](ControlInv /\ DataInv)
<1>1. Init => ControlInv /\ DataInv
  BY ControlInit, DataInit
<1>2. ControlInv /\ DataInv /\ [Next]_vars => (ControlInv /\ DataInv)'
  BY ControlStep, DataStep
<1>q. QED
  BY <1>1, <1>2, PTL DEF Spec

\* When the server waits for its peer, reports the handshake or asks for the
\* next request, the peer has all that mbedtls produced: FlushCipherOut came
\* first on every path of DriveTLSHandshake, SubmitTLSRecv and SubmitTLSSend.
THEOREM PeerHasAll == Spec => []NothingHeldBack
BY DataAlways, DataImplies, PTL

\* What no other invariant types.
GateTyped ==
    /\ cancel \in BOOLEAN
    /\ gate \in [pc : {"open", "retire", "drain", "closed"}, seen : BOOLEAN, retired : BOOLEAN]
    /\ killed \subseteq {"accept", "serve"}

LEMMA GateStep ==
    ASSUME GateTyped, [Next]_vars
    PROVE  GateTyped'
<1>1. cancel' \in BOOLEAN
  <2>1. \/ cancel' = cancel \/ cancel' = FALSE \/ ResetConcrete \/ \E b : ResetIf(b)
    BY DEF Next, Accept, Stack, Completion, Close, InitTLS, CountHandshake, CheckDrive, DriveHandshake, Settle,
           Dispatch, FlushCipherOut, CheckUntil, AcquireWork, CheckRecv, ReadPlain, OnBytes, CheckSend, WritePlain,
           OnProgress, SendDone, RecvDone, OpFails, Release, ProcessCancel, Reap, Kill, CloseLook, CloseRetire,
           CloseDrained, PeerSays, PeerLeaves, Parks, Refused, Fails, slotVars, vars
  <2>q. QED
    BY <2>1 DEF GateTyped, ResetConcrete, ResetIf
<1>2. gate' = gate \/ CloseLook \/ CloseRetire \/ CloseDrained
  BY DEF Next, Accept, Stack, Completion, Close, InitTLS, CountHandshake, CheckDrive, DriveHandshake, Settle,
         Dispatch, FlushCipherOut, CheckUntil, AcquireWork, CheckRecv, ReadPlain, OnBytes, CheckSend, WritePlain,
         OnProgress, SendDone, RecvDone, OpFails, Release, ProcessCancel, Reap, Kill,
         PeerSays, PeerLeaves, gateVars, vars
<1>3. killed' = killed \/ \E s \in {"accept", "serve"} : killed' = {s}
  BY DEF Next, Accept, Stack, Completion, Close, InitTLS, CountHandshake, CheckDrive, DriveHandshake, Settle,
         Dispatch, FlushCipherOut, CheckUntil, AcquireWork, CheckRecv, ReadPlain, OnBytes, CheckSend, WritePlain,
         OnProgress, SendDone, RecvDone, OpFails, Release, ProcessCancel, Reap, Kill, CloseLook, CloseRetire,
         CloseDrained, PeerSays, PeerLeaves, gateVars, vars
<1>4. gate' \in [pc : {"open", "retire", "drain", "closed"}, seen : BOOLEAN, retired : BOOLEAN]
  <2>1. CASE gate' = gate
    BY <2>1 DEF GateTyped
  <2>2. CASE CloseLook
    <3>1. PICK b \in BOOLEAN : b <=> (life \in {"serving", "draining"} /\ tls.phase = "handshaking")
      OBVIOUS
    <3>2. gate' = [gate EXCEPT !.pc = "retire", !.seen = b]
      BY <2>2, <3>1, Zenon DEF CloseLook
    <3>q. QED
      BY <3>2 DEF GateTyped
  <2>3. CASE CloseRetire
    <3>1. PICK b \in BOOLEAN : b <=> (gate.seen /\ life = "serving" /\ op.kind # "none")
      OBVIOUS
    <3>2. gate' = [pc |-> "drain", seen |-> FALSE, retired |-> b]
      BY <2>3, <3>1 DEF CloseRetire
    <3>q. QED
      BY <3>2
  <2>4. CASE CloseDrained
    BY <2>4 DEF CloseDrained, GateTyped
  <2>q. QED
    BY <1>2, <2>1, <2>2, <2>3, <2>4
<1>q. QED
  BY <1>1, <1>3, <1>4 DEF GateTyped

\* Every variable keeps its type: the staging buffers never hold more than
\* their capacity, mbedtls and the peer stay inside the session, and no
\* count of references is negative.
THEOREM TLSTypeCorrect == Spec => []TypeOK
<1>1. Init => GateTyped
  <2>1. [pc |-> "open", seen |-> FALSE, retired |-> FALSE]
          \in [pc : {"open", "retire", "drain", "closed"}, seen : BOOLEAN, retired : BOOLEAN]
    OBVIOUS
  <2>q. QED
    BY <2>1 DEF Init, GateTyped
<1>2. Spec => []GateTyped
  BY <1>1, GateStep, PTL DEF Spec
<1>3. ControlInv /\ DataInv /\ GateTyped => TypeOK
  BY DEF TypeOK, ControlInv, ControlTyped, Delivered, DataInv, DataTyped, GateTyped, Contexts, Buffers, Peers
<1>q. QED
  BY <1>2, <1>3, DataAlways, PTL
=============================================================================

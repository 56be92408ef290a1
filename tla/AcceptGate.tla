----------------------------- MODULE AcceptGate -----------------------------
(***************************************************************************)
(* The gate of ConnectionManager: Open, the window of pending accepts that *)
(* re-arms itself, the maintenance thread and Close.                       *)
(*                                                                         *)
(* inflight_ counts the accepts that have been or are about to be          *)
(* submitted.  Close may give the listening descriptor back only when that *)
(* count has come down to zero, and a Cancel is what brings it down.       *)
(*                                                                         *)
(* A thread is a worker running an accept completion, a shell running Open *)
(* or Close, or the maintenance thread.  A listener is named by the order  *)
(* of its Open.  What happens to an accepted client is SocketConnection's; *)
(* gates without TLS only, so tls_handshakes_ stays zero.                  *)
(***************************************************************************)
EXTENDS Integers, FiniteSets

CONSTANTS
    Workers,        \* threads that run completions
    Shells,         \* threads that call Open and Close
    Maint,          \* the maintenance thread
    Window,         \* kAcceptWindow
    MayKill,        \* TRUE iff somebody may `kill accept`
    CancelMayFail,  \* TRUE iff the ring may refuse Close's Cancel
    MaxRetry,       \* refusals after which one submitAccept gives up
    MaxOpens, MaxArrivals, MaxRefusals  \* bounds on the environment

Threads   == Workers \cup Shells \cup {Maint}
NoFd      == 0
Listeners == 1..MaxOpens

ASSUME GateAssumption ==
    /\ Maint \notin Workers \cup Shells /\ Workers \cap Shells = {}
    /\ IsFiniteSet(Threads)
    /\ MayKill \in BOOLEAN /\ CancelMayFail \in BOOLEAN
    /\ Window \in Nat \ {0} /\ MaxRetry \in Nat
    /\ MaxOpens \in Nat /\ MaxArrivals \in Nat /\ MaxRefusals \in Nat

VARIABLES
    \* ConnectionManager
    listen_fd, stopping, inflight, maintain_running,
    scope,      \* accept_scope_ and accept_ctx_: "none", "live" or "killed"
    \* the stack of each thread
    pc,
    todo,       \* submitAccept calls its loop has still to make
    after,      \* where it goes when they are made
    retry,      \* submitAccept's parameter
    fd,         \* sub.fd, or closing_fd
    armed,      \* cancel_armed
    result,     \* the completion a callback runs for
    \* ring, kernel and environment
    pending,    \* accepts in the ring, by listener; NoFd: failed or cancelled ones
    cancels,    \* listeners a Cancel is under way for
    open,       \* listeners whose descriptor is open
    opened, arrivals, refusals

gateVars == <<listen_fd, stopping, inflight, maintain_running, scope>>
callVars == <<todo, after, retry, fd, armed, result>>
ringVars == <<pending, cancels, open, opened, arrivals, refusals>>
vars     == <<gateVars, pc, callVars, ringVars>>

SubmitPcs   == {"sa_check", "sa_inc", "sa_fd", "sa_submit", "sa_undo"}
CallbackPcs == {"cb_dec", "cb_kill", "cb_stop", "connect"}
ClosePcs    == {"cl_check", "cl_stop", "cl_exchange", "cl_join", "cl_take", "cl_retire",
                "cl_cancel", "cl_drain", "cl_close", "cl_scope"}
MaintPcs    == {"m_loop", "m_check", "m_done", "none"}
Pcs == {"idle", "open_ready", "open_maint", "topup", "loop"}
       \cup SubmitPcs \cup CallbackPcs \cup ClosePcs \cup MaintPcs

Types ==
    /\ listen_fd \in {NoFd} \cup Listeners
    /\ stopping \in BOOLEAN /\ maintain_running \in BOOLEAN
    /\ inflight \in Int
    /\ scope \in {"none", "live", "killed"}
    /\ pc \in [Threads -> Pcs]
    /\ todo \in [Threads -> Nat]
    /\ after \in [Threads -> {"idle", "open_maint", "connect", "m_loop"}]
    /\ retry \in [Threads -> Nat]
    /\ fd \in [Threads -> {NoFd} \cup Listeners]
    /\ armed \in [Threads -> BOOLEAN]
    /\ result \in [Threads -> {"none", "client", "error"}]
    /\ pending \in [{NoFd} \cup Listeners -> Nat]
    /\ cancels \subseteq {NoFd} \cup Listeners
    /\ open \subseteq Listeners
    /\ opened \in 0..MaxOpens /\ arrivals \in 0..MaxArrivals /\ refusals \in 0..MaxRefusals

\* Every variable has its type, and the count of accepts, a signed int in the
\* code, is never negative: no path counts an accept done twice.
TypeOK == Types /\ inflight >= 0

Init ==
    /\ listen_fd = NoFd /\ inflight = 0 /\ scope = "none"
    /\ stopping = FALSE /\ maintain_running = FALSE
    /\ pc = [t \in Threads |-> IF t = Maint THEN "none" ELSE "idle"]
    /\ todo = [t \in Threads |-> 0] /\ retry = [t \in Threads |-> 0]
    /\ after = [t \in Threads |-> "idle"]
    /\ fd = [t \in Threads |-> NoFd] /\ armed = [t \in Threads |-> FALSE]
    /\ result = [t \in Threads |-> "none"]
    /\ pending = [l \in {NoFd} \cup Listeners |-> 0]
    /\ cancels = {} /\ open = {}
    /\ opened = 0 /\ arrivals = 0 /\ refusals = 0

Goto(t, from, to) == pc[t] = from /\ pc' = [pc EXCEPT ![t] = to]

Killed == scope = "killed"     \* accept_ctx_.isInterrupted() || isTerminated()

-----------------------------------------------------------------------------
(* Open                                                                    *)

\* socket, bind, listen, then listen_fd_ = fd.
OpenListen(t) ==
    /\ listen_fd = NoFd /\ opened < MaxOpens
    /\ Goto(t, "idle", "open_ready")
    /\ opened' = opened + 1
    /\ listen_fd' = opened + 1
    /\ open' = open \cup {opened + 1}
    /\ UNCHANGED <<stopping, inflight, maintain_running, scope, callVars,
                   pending, cancels, arrivals, refusals>>

\* stopping_ = false, the accept scope, and a full window to submit.
OpenReady(t) ==
    /\ Goto(t, "open_ready", "loop")
    /\ stopping' = FALSE /\ scope' = "live"
    /\ todo' = [todo EXCEPT ![t] = Window]
    /\ after' = [after EXCEPT ![t] = "open_maint"]
    /\ UNCHANGED <<listen_fd, inflight, maintain_running, retry, fd, armed, result, ringVars>>

\* startMaintenance: the exchange, and a thread if there was none.
StartMaintenance(t) ==
    /\ pc[t] = "open_maint"
    /\ maintain_running' = TRUE
    /\ IF maintain_running
       THEN pc' = [pc EXCEPT ![t] = "idle"]
       ELSE pc[Maint] = "none" /\ pc' = [pc EXCEPT ![t] = "idle", ![Maint] = "m_loop"]
    /\ UNCHANGED <<listen_fd, stopping, inflight, scope, callVars, ringVars>>

-----------------------------------------------------------------------------
(* submitAccept, in a loop of todo calls                                   *)

\* topUpAccepts reads inflight_ once.
TopUp(t) ==
    /\ Goto(t, "topup", "loop")
    /\ todo' = [todo EXCEPT ![t] = IF inflight < Window THEN Window - inflight ELSE 0]
    /\ UNCHANGED <<gateVars, after, retry, fd, armed, result, ringVars>>

NextSubmission(t) ==
    /\ todo[t] > 0
    /\ Goto(t, "loop", "sa_check")
    /\ todo' = [todo EXCEPT ![t] = @ - 1]
    /\ retry' = [retry EXCEPT ![t] = 0]
    /\ UNCHANGED <<gateVars, after, fd, armed, result, ringVars>>

LoopDone(t) ==
    /\ todo[t] = 0
    /\ Goto(t, "loop", after[t])
    /\ UNCHANGED <<gateVars, callVars, ringVars>>

CheckGate(t) ==
    /\ Goto(t, "sa_check", IF stopping \/ listen_fd = NoFd \/ Killed THEN "loop" ELSE "sa_inc")
    /\ UNCHANGED <<gateVars, callVars, ringVars>>

CountAccept(t) ==
    /\ Goto(t, "sa_inc", "sa_fd")
    /\ inflight' = inflight + 1
    /\ UNCHANGED <<listen_fd, stopping, maintain_running, scope, callVars, ringVars>>

LoadListener(t) ==
    /\ Goto(t, "sa_fd", "sa_submit")
    /\ fd' = [fd EXCEPT ![t] = listen_fd]
    /\ UNCHANGED <<gateVars, todo, after, retry, armed, result, ringVars>>

\* On a descriptor that is not open, the operation fails at once.
SubmitAccept(t) ==
    /\ Goto(t, "sa_submit", "loop")
    /\ pending' = [pending EXCEPT ![IF fd[t] \in open THEN fd[t] ELSE NoFd] = @ + 1]
    /\ fd' = [fd EXCEPT ![t] = NoFd]
    /\ UNCHANGED <<gateVars, todo, after, retry, armed, result,
                   cancels, open, opened, arrivals, refusals>>

SubmitRefused(t) ==
    /\ refusals < MaxRefusals
    /\ Goto(t, "sa_submit", "sa_undo")
    /\ refusals' = refusals + 1
    /\ fd' = [fd EXCEPT ![t] = NoFd]
    /\ UNCHANGED <<gateVars, todo, after, retry, armed, result,
                   pending, cancels, open, opened, arrivals>>

\* Mutant: the refused accept stays counted.
UndoAccept_Keeps(t) ==
    /\ Goto(t, "sa_undo", IF retry[t] >= MaxRetry THEN "loop" ELSE "sa_check")
    /\ retry' = [retry EXCEPT ![t] = @ + 1]
    /\ UNCHANGED <<gateVars, todo, after, fd, armed, result, ringVars>>

UndoAccept(t) ==
    /\ Goto(t, "sa_undo", IF retry[t] >= MaxRetry THEN "loop" ELSE "sa_check")
    /\ inflight' = inflight - 1
    /\ retry' = [retry EXCEPT ![t] = @ + 1]
    /\ UNCHANGED <<listen_fd, stopping, maintain_running, scope,
                   todo, after, fd, armed, result, ringVars>>

-----------------------------------------------------------------------------
(* The accept completion                                                   *)

TakeCompletion(t, l, r) ==
    /\ pending[l] > 0
    /\ Goto(t, "idle", "cb_dec")
    /\ pending' = [pending EXCEPT ![l] = @ - 1]
    /\ result' = [result EXCEPT ![t] = r]
    /\ UNCHANGED <<gateVars, todo, after, retry, fd, armed, cancels, open, opened, refusals>>

\* A client connects, or the accept fails for a reason of its own.
AcceptEnds(t, l, r) ==
    /\ arrivals < MaxArrivals
    /\ TakeCompletion(t, l, r)
    /\ arrivals' = arrivals + 1

AcceptDead(t) == TakeCompletion(t, NoFd, "error") /\ UNCHANGED arrivals

\* The callback counts itself done before anything else.
CountDone(t) ==
    /\ Goto(t, "cb_dec", "cb_kill")
    /\ inflight' = inflight - 1
    /\ UNCHANGED <<listen_fd, stopping, maintain_running, scope, callVars, ringVars>>

\* A killed scope: what was accepted is closed, and so is the gate.
CallbackKilled(t) ==
    /\ Killed
    /\ Goto(t, "cb_kill", "cl_check")
    /\ result' = [result EXCEPT ![t] = "none"]
    /\ UNCHANGED <<gateVars, todo, after, retry, fd, armed, ringVars>>

\* Mutant: the error path counts the accept done a second time.
CallbackError_CountsAgain(t) ==
    /\ ~Killed /\ result[t] = "error"
    /\ Goto(t, "cb_kill", "loop")
    /\ inflight' = inflight - 1
    /\ result' = [result EXCEPT ![t] = "none"]
    /\ todo' = [todo EXCEPT ![t] = 1]
    /\ after' = [after EXCEPT ![t] = "idle"]
    /\ UNCHANGED <<listen_fd, stopping, maintain_running, scope, retry, fd, armed, ringVars>>

CallbackError(t) ==
    /\ ~Killed /\ result[t] = "error"
    /\ Goto(t, "cb_kill", "loop")
    /\ result' = [result EXCEPT ![t] = "none"]
    /\ todo' = [todo EXCEPT ![t] = 1]
    /\ after' = [after EXCEPT ![t] = "idle"]
    /\ UNCHANGED <<gateVars, retry, fd, armed, ringVars>>

CallbackClient(t) ==
    /\ ~Killed /\ result[t] = "client"
    /\ Goto(t, "cb_kill", "cb_stop")
    /\ UNCHANGED <<gateVars, callVars, ringVars>>

\* Accepted after shutdown began: closed.  Otherwise the window is topped up
\* before the client is looked after.
CheckStopping(t) ==
    LET late == stopping \/ Killed IN
    /\ Goto(t, "cb_stop", IF late THEN "idle" ELSE "topup")
    /\ result' = [result EXCEPT ![t] = IF late THEN "none" ELSE @]
    /\ after' = [after EXCEPT ![t] = "connect"]
    /\ UNCHANGED <<gateVars, todo, retry, fd, armed, ringVars>>

OnConnection(t) ==
    /\ Goto(t, "connect", "idle")
    /\ result' = [result EXCEPT ![t] = "none"]
    /\ UNCHANGED <<gateVars, todo, after, retry, fd, armed, ringVars>>

-----------------------------------------------------------------------------
(* The maintenance thread; reapIdle is SocketConnection's                  *)

MaintLoop ==
    /\ Goto(Maint, "m_loop", IF maintain_running /\ ~stopping THEN "m_check" ELSE "m_done")
    /\ UNCHANGED <<gateVars, callVars, ringVars>>

\* Mutant: the window is not looked at.
MaintCheck_ReapsOnly ==
    /\ Goto(Maint, "m_check", IF stopping \/ listen_fd = NoFd \/ Killed THEN "m_done" ELSE "m_loop")
    /\ UNCHANGED <<gateVars, callVars, ringVars>>

MaintCheck ==
    /\ Goto(Maint, "m_check", IF stopping \/ listen_fd = NoFd \/ Killed THEN "m_done"
                              ELSE IF inflight < Window THEN "topup" ELSE "m_loop")
    /\ after' = [after EXCEPT ![Maint] = "m_loop"]
    /\ UNCHANGED <<gateVars, todo, retry, fd, armed, result, ringVars>>

-----------------------------------------------------------------------------
(* CloseConcrete                                                           *)

ShellClose(t) ==
    /\ Goto(t, "idle", "cl_check")
    /\ UNCHANGED <<gateVars, callVars, ringVars>>

CloseCheck(t) ==
    /\ Goto(t, "cl_check", IF listen_fd = NoFd THEN "idle" ELSE "cl_stop")
    /\ UNCHANGED <<gateVars, callVars, ringVars>>

CloseStop(t) ==
    /\ Goto(t, "cl_stop", "cl_exchange")
    /\ stopping' = TRUE
    /\ UNCHANGED <<listen_fd, inflight, maintain_running, scope, callVars, ringVars>>

CloseExchange(t) ==
    /\ Goto(t, "cl_exchange", IF maintain_running /\ pc[Maint] # "none" THEN "cl_join" ELSE "cl_take")
    /\ maintain_running' = FALSE
    /\ UNCHANGED <<listen_fd, stopping, inflight, scope, callVars, ringVars>>

CloseJoin(t) ==
    /\ pc[t] = "cl_join" /\ pc[Maint] = "m_done"
    /\ pc' = [pc EXCEPT ![t] = "cl_take", ![Maint] = "none"]
    /\ UNCHANGED <<gateVars, callVars, ringVars>>

\* closing_fd = listen_fd_; listen_fd_ = -1: two plain accesses.
CloseTake(t) ==
    /\ Goto(t, "cl_take", "cl_retire")
    /\ fd' = [fd EXCEPT ![t] = listen_fd]
    /\ UNCHANGED <<gateVars, todo, after, retry, armed, result, ringVars>>

CloseRetire(t) ==
    /\ Goto(t, "cl_retire", "cl_cancel")
    /\ listen_fd' = NoFd
    /\ UNCHANGED <<stopping, inflight, maintain_running, scope, callVars, ringVars>>

CloseCancel(t) ==
    /\ Goto(t, "cl_cancel", "cl_drain")
    /\ \/ /\ cancels' = cancels \cup {fd[t]}
          /\ armed' = [armed EXCEPT ![t] = TRUE]
       \/ CancelMayFail /\ UNCHANGED <<cancels, armed>>
    /\ UNCHANGED <<gateVars, todo, after, retry, fd, result,
                   pending, open, opened, arrivals, refusals>>

\* Mutant: the descriptor is closed right after the Cancel is submitted.
CloseDrain_NoWait(t) ==
    /\ Goto(t, "cl_drain", "cl_close")
    /\ UNCHANGED <<gateVars, callVars, ringVars>>

\* A Close whose Cancel was refused does not wait.  The pool neither drains
\* away nor loses a worker here, the loop's two other ways out.
CloseDrain(t) ==
    /\ ~armed[t] \/ inflight <= 0
    /\ Goto(t, "cl_drain", "cl_close")
    /\ UNCHANGED <<gateVars, callVars, ringVars>>

CloseListener(t) ==
    /\ Goto(t, "cl_close", "cl_scope")
    /\ open' = open \ {fd[t]}
    /\ fd' = [fd EXCEPT ![t] = NoFd]
    /\ UNCHANGED <<gateVars, todo, after, retry, armed, result,
                   pending, cancels, opened, arrivals, refusals>>

CloseScope(t) ==
    /\ Goto(t, "cl_scope", "idle")
    /\ scope' = "none"
    /\ armed' = [armed EXCEPT ![t] = FALSE]
    /\ UNCHANGED <<listen_fd, stopping, inflight, maintain_running,
                   todo, after, retry, fd, result, ringVars>>

-----------------------------------------------------------------------------
(* Kernel and environment                                                  *)

\* A Cancel retires the accepts pending on the descriptor it finds open.
ProcessCancel(l) ==
    /\ l \in cancels
    /\ cancels' = cancels \ {l}
    /\ pending' = IF l \in open
                  THEN [pending EXCEPT ![l] = 0, ![NoFd] = @ + pending[l]] ELSE pending
    /\ UNCHANGED <<gateVars, pc, callVars, open, opened, arrivals, refusals>>

\* `kill accept`: the scope's context is interrupted.
Kill ==
    /\ MayKill /\ scope = "live"
    /\ scope' = "killed"
    /\ UNCHANGED <<listen_fd, stopping, inflight, maintain_running, pc, callVars, ringVars>>

-----------------------------------------------------------------------------
SubmitStep(t) == TopUp(t) \/ NextSubmission(t) \/ LoopDone(t) \/ CheckGate(t) \/ CountAccept(t)
                 \/ LoadListener(t) \/ SubmitAccept(t) \/ SubmitRefused(t) \/ UndoAccept(t)

CallbackStep(t) == CountDone(t) \/ CallbackKilled(t) \/ CallbackError(t) \/ CallbackClient(t)
                   \/ CheckStopping(t) \/ OnConnection(t)

CloseStep(t) == CloseCheck(t) \/ CloseStop(t) \/ CloseExchange(t) \/ CloseJoin(t) \/ CloseTake(t)
                \/ CloseRetire(t) \/ CloseCancel(t) \/ CloseDrain(t) \/ CloseListener(t) \/ CloseScope(t)

Run(t) == \/ OpenReady(t) \/ StartMaintenance(t)
          \/ SubmitStep(t) \/ CallbackStep(t) \/ CloseStep(t)

Starts(t) == \/ t \in Shells /\ (OpenListen(t) \/ ShellClose(t))
             \/ t \in Workers /\ \E l \in Listeners, r \in {"client", "error"} : AcceptEnds(t, l, r)

Next == \/ \E t \in Threads : Run(t) \/ Starts(t)
        \/ MaintLoop \/ MaintCheck
        \/ \E t \in Workers : AcceptDead(t)
        \/ \E l \in cancels : ProcessCancel(l)
        \/ Kill

Spec == Init /\ [][Next]_vars

(***************************************************************************)
(* Threads are scheduled and the kernel delivers what is ready.  Nobody    *)
(* has to connect: a pending accept may wait for ever.                     *)
(***************************************************************************)
Scheduling == /\ \A t \in Threads : WF_vars(Run(t))
              /\ WF_vars(MaintLoop \/ MaintCheck)
              /\ WF_vars(\E t \in Workers : AcceptDead(t))
              /\ WF_vars(\E l \in cancels : ProcessCancel(l))

FairSpec == Spec /\ Scheduling

-----------------------------------------------------------------------------
(* Properties                                                              *)

\* inflight_ is the number of accepts in the ring and of those being
\* submitted, taken back or delivered: a Close that waits for it waits for
\* the right thing, whatever was refused, failed or killed.
InRing == UNION {{l} \X (1..pending[l]) : l \in {NoFd} \cup Listeners}
InHand == {t \in Threads : pc[t] \in {"sa_fd", "sa_submit", "sa_undo", "cb_dec"}}
AcceptsCounted == inflight = Cardinality(InRing) + Cardinality(InHand)

\* The listening descriptor outlives every accept that names it, in the ring
\* or about to be submitted: "the descriptor is closed after the drain".
ListenerOutlivesAccepts ==
    /\ \A l \in Listeners : pending[l] > 0 => l \in open
    /\ \A t \in Threads : pc[t] = "sa_submit" /\ fd[t] # NoFd => fd[t] \in open

\* While the gate is open a window that has shrunk is brought back, whatever
\* was refused: the maintenance thread's second job.
WindowRecovers ==
    listen_fd # NoFd /\ ~stopping /\ inflight < Window ~> inflight >= Window \/ stopping

\* "Do not report closed while a completion could still fire and touch this
\* entity": a Close past its drain finds no other thread inside a callback.
Inside(t) == pc[t] \in CallbackPcs \cup SubmitPcs \cup {"topup", "loop"}
ClosedMeansQuiet ==
    \A t \in Threads : pc[t] = "cl_scope" /\ armed[t] =>
        \A u \in Threads \ {t} : ~Inside(u)
=============================================================================

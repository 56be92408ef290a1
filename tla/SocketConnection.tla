-------------------------- MODULE SocketConnection --------------------------
(***************************************************************************)
(* The life of a pooled connection in NetworkProvider, one atomic          *)
(* instruction of SocketConnectionState per step.                          *)
(*                                                                         *)
(* A slot of the pool is claimed by an accept completion (TryClaim), is    *)
(* driven by one chain of recv and send submissions, is torn down by Reset *)
(* and becomes reusable in finalizeIfDraining.  Nothing locks a slot: four *)
(* atomics (phase_, io_inflight_, client_fd_, the pool's in_use_) and the  *)
(* ConnRef ownership protocol are all that keep one client's teardown from *)
(* meeting the next client's request.                                      *)
(*                                                                         *)
(* Workers are the ThreadPool threads that run accept, recv and send       *)
(* completions; they touch a slot while they own a reference to it.        *)
(* Resetters own no reference: the maintenance thread (reapIdle) and       *)
(* whoever types a SocketConnectionState verb at the shell.                *)
(*                                                                         *)
(* The ring and the descriptor table are the kernel's: an operation holds  *)
(* its file, a Cancel resolves its descriptor number when it is processed, *)
(* and an accept may return any number that is closed at that moment.      *)
(***************************************************************************)
EXTENDS Integers, FiniteSets

CONSTANTS
    Slots,          \* the SocketConnectionState objects of the pool
    Fds,            \* descriptor numbers
    Workers,        \* threads that run completions
    Resetters,      \* threads that call Reset without owning a reference
    ShellVerbs,     \* verbs a Resetter may issue: a subset of {"Reap", "Reset", "Close"}
    Filtered,       \* the answers hasFilteredSubscriber() may give
    RingMayRefuse,  \* TRUE iff ThreadPool::submit may return false (SQ full)
    MayInterrupt,   \* TRUE iff the context the chain runs under may be killed
    MaxAccepts,     \* bound: connections the environment opens
    MaxKeepAlive,   \* kMaxKeepAlive
    NoSlot, NoFd, NoThread

Threads == Workers \cup Resetters
Clients == 1..MaxAccepts        \* a client is named by the order of its accept
NoClient == 0

ASSUME ConstantsAssumption ==
    /\ NoSlot \notin Slots /\ NoFd \notin Fds /\ NoThread \notin Threads
    /\ Workers \cap Resetters = {}
    /\ ShellVerbs \subseteq {"Reap", "Reset", "Close"}
    /\ Filtered \subseteq BOOLEAN
    /\ RingMayRefuse \in BOOLEAN /\ MayInterrupt \in BOOLEAN
    /\ MaxAccepts \in Nat /\ MaxKeepAlive \in Nat

ASSUME FiniteAssumption == IsFiniteSet(Threads) /\ IsFiniteSet(Slots)

VARIABLES
    \* SocketConnectionState, per slot
    phase,          \* phase_
    io_inflight,    \* io_inflight_
    client_fd,      \* client_fd_
    expired,        \* last_activity_ is more than TIMEOUT_SECONDS ago
    parsed,         \* parser_ holds a complete request
    served,         \* served_
    owner,          \* auxiliary: the client this tenure of the slot is for
    \* ConnectionManager
    in_use,         \* in_use_
    pool_mutex,     \* the thread inside pool_mutex_, or NoThread
    \* the stack of each thread
    pc, slot,       \* next instruction, and the connection it is about
    held,           \* the armed ConnRefs in this thread's frames
    stage,          \* which continuation the chain carries
    fd,             \* local copy of a descriptor number
    aim,            \* auxiliary: the client a Reset under way was decided for
    live,           \* reapIdle's snapshot
    \* ring, kernel and environment
    ops, cancels,   \* submissions not yet retired
    file,           \* the client whose socket a descriptor number names
    accepted, interrupted

slotVars   == <<phase, io_inflight, client_fd, expired, parsed, served, owner>>
poolVars   == <<in_use, pool_mutex>>
threadVars == <<pc, slot, held, stage, fd, aim, live>>
ringVars   == <<ops, cancels, file, accepted, interrupted>>
vars       == <<slotVars, poolVars, threadVars, ringVars>>

Phases == {"Free", "Serving", "Draining", "Clearing"}

(***************************************************************************)
(* The ConnRefs a frame can have armed on its connection: the dispatch     *)
(* reference of dispatchToSubscribers, the entry reference of the chain    *)
(* (ReadUntilParsed, on_request, do_send and every completion), and the    *)
(* work reference acquired for a submission about to be made.              *)
(***************************************************************************)
RefKinds == {"dispatch", "chain", "work"}

(***************************************************************************)
(* What the chain does with its next bytes: "pre" is the gate's pre-parse, *)
(* which continues into dispatch; "read" is Serve's recv, which continues  *)
(* into on_request; the replies remember the keep decision on_request made.*)
(***************************************************************************)
Stages == {"pre", "read", "reply_keep", "reply_close"}

ClaimPcs  == {"set_fd", "mark", "count"}
ChainPcs  == {"chk_phase", "chk_time", "chk_open", "chk_signal", "prep",
              "acquire", "submit", "on_bytes", "respond", "sent", "send_end", "recycle"}
ResetPcs  == {"rst_cas", "rst_fd", "rst_cancel", "fin_load", "fin_cas"}
ClearPcs  == {"fin_exchange", "fin_close", "fin_clear", "fin_counter", "fin_seed", "fin_free"}
ShutPcs   == {"shut_exchange", "shut_close"}
Pcs == {"idle", "lock", "claim", "begin", "dispatch", "unwind", "sweep"}
       \cup ClaimPcs \cup ChainPcs \cup ResetPcs \cup ClearPcs \cup ShutPcs

Op     == [slot : Slots, fd : Fds \cup {NoFd}, file : Clients \cup {NoClient},
           stage : Stages, dead : BOOLEAN]
Cancel == [fd : Fds, aim : Clients \cup {NoClient}]

TypeOK ==
    /\ phase \in [Slots -> Phases]
    /\ io_inflight \in [Slots -> Int]
    /\ client_fd \in [Slots -> Fds \cup {NoFd}]
    /\ expired \in [Slots -> BOOLEAN]
    /\ parsed \in [Slots -> BOOLEAN]
    /\ served \in [Slots -> Nat]
    /\ owner \in [Slots -> Clients \cup {NoClient}]
    /\ in_use \in Int
    /\ pool_mutex \in Threads \cup {NoThread}
    /\ pc \in [Threads -> Pcs]
    /\ slot \in [Threads -> Slots \cup {NoSlot}]
    /\ held \in [Threads -> SUBSET RefKinds]
    /\ stage \in [Threads -> Stages]
    /\ fd \in [Threads -> Fds \cup {NoFd}]
    /\ aim \in [Threads -> Clients \cup {NoClient}]
    /\ live \in [Threads -> SUBSET Slots]
    /\ ops \subseteq Op
    /\ cancels \subseteq Cancel
    /\ file \in [Fds -> Clients \cup {NoClient}]
    /\ accepted \in 0..MaxAccepts
    /\ interrupted \in BOOLEAN

Init ==
    /\ phase = [c \in Slots |-> "Free"]
    /\ io_inflight = [c \in Slots |-> 1]
    /\ client_fd = [c \in Slots |-> NoFd]
    /\ expired = [c \in Slots |-> FALSE]
    /\ parsed = [c \in Slots |-> FALSE]
    /\ served = [c \in Slots |-> 0]
    /\ owner = [c \in Slots |-> NoClient]
    /\ in_use = 0
    /\ pool_mutex = NoThread
    /\ pc = [t \in Threads |-> "idle"]
    /\ slot = [t \in Threads |-> NoSlot]
    /\ held = [t \in Threads |-> {}]
    /\ stage = [t \in Threads |-> "pre"]
    /\ fd = [t \in Threads |-> NoFd]
    /\ aim = [t \in Threads |-> NoClient]
    /\ live = [t \in Threads |-> {}]
    /\ ops = {} /\ cancels = {}
    /\ file = [f \in Fds |-> NoClient]
    /\ accepted = 0 /\ interrupted = FALSE

Goto(t, from, to) == pc[t] = from /\ pc' = [pc EXCEPT ![t] = to]

-----------------------------------------------------------------------------
(* Accept: submitAccept's completion, acquireConnection, onConnection      *)

\* The kernel completes an accept; the callback enters acquireConnection.  What
\* is accepted after the kill the callback closes on the spot.
Accept(t, f) ==
    /\ accepted < MaxAccepts
    /\ ~interrupted
    /\ file[f] = NoClient
    /\ Goto(t, "idle", "lock")
    /\ accepted' = accepted + 1
    /\ file' = [file EXCEPT ![f] = accepted + 1]
    /\ fd' = [fd EXCEPT ![t] = f]
    /\ UNCHANGED <<slotVars, poolVars, slot, held, stage, aim, live,
                   ops, cancels, interrupted>>

LockPool(t) ==
    /\ Goto(t, "lock", "claim")
    /\ pool_mutex = NoThread
    /\ pool_mutex' = t
    /\ UNCHANGED <<slotVars, in_use, slot, held, stage, fd, aim, live, ringVars>>

\* TryClaim's CAS Free -> Serving.  The dispatch reference is already counted.
Claim(t, c) ==
    /\ phase[c] = "Free"
    /\ Goto(t, "claim", "set_fd")
    /\ phase' = [phase EXCEPT ![c] = "Serving"]
    /\ owner' = [owner EXCEPT ![c] = file[fd[t]]]
    /\ slot' = [slot EXCEPT ![t] = c]
    /\ held' = [held EXCEPT ![t] = {"dispatch"}]
    /\ UNCHANGED <<io_inflight, client_fd, expired, parsed, served,
                   poolVars, stage, fd, aim, live, ringVars>>

\* Mutant: a refused client's descriptor is never closed.
RefuseClient_Leaks(t) ==
    /\ \A c \in Slots : phase[c] # "Free"
    /\ Goto(t, "claim", "idle")
    /\ pool_mutex' = NoThread
    /\ fd' = [fd EXCEPT ![t] = NoFd]
    /\ UNCHANGED <<slotVars, in_use, slot, held, stage, aim, live, ringVars>>

\* The pool is exhausted: onConnection closes what it accepted.
RefuseClient(t) ==
    /\ \A c \in Slots : phase[c] # "Free"
    /\ Goto(t, "claim", "idle")
    /\ pool_mutex' = NoThread
    /\ file' = [file EXCEPT ![fd[t]] = NoClient]
    /\ fd' = [fd EXCEPT ![t] = NoFd]
    /\ UNCHANGED <<slotVars, in_use, slot, held, stage, aim, live,
                   ops, cancels, accepted, interrupted>>

SetClientFd(t) ==
    /\ Goto(t, "set_fd", "mark")
    /\ client_fd' = [client_fd EXCEPT ![slot[t]] = fd[t]]
    /\ fd' = [fd EXCEPT ![t] = NoFd]
    /\ UNCHANGED <<phase, io_inflight, expired, parsed, served, owner, poolVars,
                   slot, held, stage, aim, live, ringVars>>

MarkClaimed(t) ==
    /\ Goto(t, "mark", "count")
    /\ expired' = [expired EXCEPT ![slot[t]] = FALSE]
    /\ UNCHANGED <<phase, io_inflight, client_fd, parsed, served, owner, poolVars,
                   slot, held, stage, fd, aim, live, ringVars>>

\* in_use_ goes up inside the same critical section as the claim.
CountClaim(t) ==
    /\ Goto(t, "count", "begin")
    /\ in_use' = in_use + 1
    /\ pool_mutex' = NoThread
    /\ UNCHANGED <<slotVars, slot, held, stage, fd, aim, live, ringVars>>

\* beginDispatch: with a filtered subscriber registered, the dispatch
\* reference becomes the entry reference of a pre-parsing ReadUntilParsed.
BeginDispatch(t, filtered) ==
    /\ Goto(t, "begin", IF filtered THEN "chk_phase" ELSE "dispatch")
    /\ stage' = [stage EXCEPT ![t] = "pre"]
    /\ held' = [held EXCEPT ![t] = IF filtered THEN {"chain"} ELSE {"dispatch"}]
    /\ UNCHANGED <<slotVars, poolVars, slot, fd, aim, live, ringVars>>

\* Mutant: Serve spends the dispatch reference instead of acquiring its own.
Serve_Spends(t) ==
    /\ Goto(t, "dispatch", "chk_phase")
    /\ held' = [held EXCEPT ![t] = {"dispatch", "chain"}]
    /\ stage' = [stage EXCEPT ![t] = "read"]
    /\ UNCHANGED <<slotVars, poolVars, slot, fd, aim, live, ringVars>>

\* dispatchToSubscribers hands the connection to HttpServer::Serve, which
\* acquires a reference of its own and enters ReadUntilParsed with it.
Serve(t) ==
    /\ Goto(t, "dispatch", "chk_phase")
    /\ io_inflight' = [io_inflight EXCEPT ![slot[t]] = @ + 1]
    /\ held' = [held EXCEPT ![t] = {"dispatch", "chain"}]
    /\ stage' = [stage EXCEPT ![t] = "read"]
    /\ UNCHANGED <<phase, client_fd, expired, parsed, served, owner, poolVars,
                   slot, fd, aim, live, ringVars>>

\* Serve returns early (not this server's gate, child not found) without a
\* Reset; the call did not throw, so dispatch takes it for delivered.
ServeDeclines(t) ==
    /\ Goto(t, "dispatch", "unwind")
    /\ UNCHANGED <<slotVars, poolVars, slot, held, stage, fd, aim, live, ringVars>>

\* No subscriber, or none took it: dispatch resets the connection.
NobodyTakes(t) ==
    /\ Goto(t, "dispatch", "rst_cas")
    /\ UNCHANGED <<slotVars, poolVars, slot, held, stage, fd, aim, live, ringVars>>

-----------------------------------------------------------------------------
(* The chain: ReadUntilParsed, its completions, on_request and do_send     *)

\* checkTimeout, first load.  A Resetter runs the same function on the slots
\* of its snapshot and goes on to the next one instead.
CheckPhase(t) ==
    /\ Goto(t, "chk_phase",
            IF phase[slot[t]] = "Serving" THEN "chk_time"
            ELSE IF t \in Workers THEN "chk_open" ELSE "unwind")
    /\ UNCHANGED <<slotVars, poolVars, slot, held, stage, fd, aim, live, ringVars>>

\* checkTimeout, the comparison with last_activity_.
CheckTime(t) ==
    /\ Goto(t, "chk_time",
            IF expired[slot[t]] THEN "rst_cas"
            ELSE IF t \in Workers THEN "chk_open" ELSE "unwind")
    /\ UNCHANGED <<slotVars, poolVars, slot, held, stage, fd, aim, live, ringVars>>

IsConnectionOpen(c) == phase[c] = "Serving" /\ client_fd[c] # NoFd

CheckOpen(t) ==
    /\ Goto(t, "chk_open", IF IsConnectionOpen(slot[t]) THEN "chk_signal" ELSE "unwind")
    /\ UNCHANGED <<slotVars, poolVars, slot, held, stage, fd, aim, live, ringVars>>

\* on_complete takes the chain's reference: dispatch after a pre-parse,
\* on_request after Serve's own read.
OnComplete(t) == IF stage[t] = "pre" THEN "dispatch" ELSE "respond"
HandedOn(t)   == IF stage[t] = "pre" THEN {"dispatch"} ELSE held[t]

\* A killed context resets; an already parsed request skips the recv.
CheckSignal(t) ==
    LET ready == ~interrupted /\ parsed[slot[t]] IN
    /\ Goto(t, "chk_signal", IF interrupted THEN "rst_cas"
                             ELSE IF ready THEN OnComplete(t) ELSE "prep")
    /\ held' = [held EXCEPT ![t] = IF ready THEN HandedOn(t) ELSE @]
    /\ UNCHANGED <<slotVars, poolVars, slot, stage, fd, aim, live, ringVars>>

\* sub.fd = GetClientFd(): the number the submission will carry.
PrepareOp(t) ==
    /\ Goto(t, "prep", "acquire")
    /\ fd' = [fd EXCEPT ![t] = client_fd[slot[t]]]
    /\ UNCHANGED <<slotVars, poolVars, slot, held, stage, aim, live, ringVars>>

\* ConnRef::Acquire
AcquireWork(t) ==
    /\ Goto(t, "acquire", "submit")
    /\ io_inflight' = [io_inflight EXCEPT ![slot[t]] = @ + 1]
    /\ held' = [held EXCEPT ![t] = @ \cup {"work"}]
    /\ UNCHANGED <<phase, client_fd, expired, parsed, served, owner, poolVars,
                   slot, stage, fd, aim, live, ringVars>>

FileOf(f) == IF f = NoFd THEN NoClient ELSE file[f]

\* Mutant: no return after the submission that was accepted.
SubmitOp_GoesOn(t) ==
    /\ Goto(t, "submit", "prep")
    /\ ops' = ops \cup {[slot  |-> slot[t], fd |-> fd[t], file |-> FileOf(fd[t]),
                         stage |-> stage[t], dead |-> FileOf(fd[t]) = NoClient]}
    /\ held' = [held EXCEPT ![t] = @ \ {"work"}]
    /\ fd' = [fd EXCEPT ![t] = NoFd]
    /\ UNCHANGED <<slotVars, poolVars, slot, stage, aim, live,
                   cancels, file, accepted, interrupted>>

\* The ring takes the operation and with it the work reference (disarm).
SubmitOp(t) ==
    /\ Goto(t, "submit", "unwind")
    /\ ops' = ops \cup {[slot  |-> slot[t], fd |-> fd[t], file |-> FileOf(fd[t]),
                         stage |-> stage[t], dead |-> FileOf(fd[t]) = NoClient]}
    /\ held' = [held EXCEPT ![t] = @ \ {"work"}]
    /\ fd' = [fd EXCEPT ![t] = NoFd]
    /\ UNCHANGED <<slotVars, poolVars, slot, stage, aim, live,
                   cancels, file, accepted, interrupted>>

\* Mutant: a submission reported as refused is in the ring all the same.
SubmitRefused_Queued(t) ==
    /\ RingMayRefuse
    /\ Goto(t, "submit", "rst_cas")
    /\ ops' = ops \cup {[slot  |-> slot[t], fd |-> fd[t], file |-> FileOf(fd[t]),
                         stage |-> stage[t], dead |-> FileOf(fd[t]) = NoClient]}
    /\ fd' = [fd EXCEPT ![t] = NoFd]
    /\ UNCHANGED <<slotVars, poolVars, slot, held, stage, aim, live,
                   cancels, file, accepted, interrupted>>

\* SQ full: Reset, then both references go with their frames.
SubmitRefused(t) ==
    /\ RingMayRefuse
    /\ Goto(t, "submit", "rst_cas")
    /\ fd' = [fd EXCEPT ![t] = NoFd]
    /\ UNCHANGED <<slotVars, poolVars, slot, held, stage, aim, live, ringVars>>

\* A worker runs a completion; the operation's reference becomes its entry.
TakeCompletion(t, o, next) ==
    /\ Goto(t, "idle", next)
    /\ o \in ops
    /\ ops' = ops \ {o}
    /\ slot' = [slot EXCEPT ![t] = o.slot]
    /\ held' = [held EXCEPT ![t] = {"chain"}]
    /\ stage' = [stage EXCEPT ![t] = o.stage]
    /\ UNCHANGED <<slotVars, poolVars, fd, aim, live, cancels, file, accepted, interrupted>>

CompleteBytes(t, o) ==
    /\ ~o.dead
    /\ TakeCompletion(t, o, IF o.stage \in {"pre", "read"} THEN "on_bytes" ELSE "sent")

\* result <= 0: the peer closed or the operation failed.
CompleteClosed(t, o) == ~o.dead /\ TakeCompletion(t, o, "rst_cas")

\* -ECANCELED, or -EBADF for a descriptor that was already gone.
CompleteDead(t, o) == o.dead /\ TakeCompletion(t, o, "rst_cas")

\* on_bytes, with what FeedRaw makes of the bytes.
OnBytes(t, outcome) ==
    LET c == slot[t] IN
    /\ Goto(t, "on_bytes",
            CASE outcome = "error"      -> "rst_cas"
              [] outcome = "incomplete" -> "chk_phase"
              [] outcome = "complete"   -> OnComplete(t))
    /\ expired' = [expired EXCEPT ![c] = FALSE]
    /\ parsed' = [parsed EXCEPT ![c] = @ \/ outcome = "complete"]
    /\ held' = [held EXCEPT ![t] = IF outcome = "complete" THEN HandedOn(t) ELSE @]
    /\ UNCHANGED <<phase, io_inflight, client_fd, served, owner, poolVars,
                   slot, stage, fd, aim, live, ringVars>>

CanKeepAlive(c) == served[c] < MaxKeepAlive

\* on_request decides keep-alive, formats the answer and calls do_send(0).
Respond(t, persistent) ==
    /\ Goto(t, "respond", "prep")
    /\ stage' = [stage EXCEPT ![t] = IF persistent /\ CanKeepAlive(slot[t])
                                     THEN "reply_keep" ELSE "reply_close"]
    /\ UNCHANGED <<slotVars, poolVars, slot, held, fd, aim, live, ringVars>>

\* A send completion: a prefix went out (do_send again), or all of it.
Sent(t, all) ==
    /\ Goto(t, "sent", IF all THEN "send_end" ELSE "prep")
    /\ UNCHANGED <<slotVars, poolVars, slot, held, stage, fd, aim, live, ringVars>>

SendEnd(t) ==
    /\ Goto(t, "send_end", IF stage[t] = "reply_keep" /\ IsConnectionOpen(slot[t])
                           THEN "recycle" ELSE "rst_cas")
    /\ UNCHANGED <<slotVars, poolVars, slot, held, stage, fd, aim, live, ringVars>>

RecycleForNextRequest(t) ==
    LET c == slot[t] IN
    /\ Goto(t, "recycle", "chk_phase")
    /\ served' = [served EXCEPT ![c] = @ + 1]
    /\ parsed' = [parsed EXCEPT ![c] = FALSE]
    /\ expired' = [expired EXCEPT ![c] = FALSE]
    /\ stage' = [stage EXCEPT ![t] = "read"]
    /\ UNCHANGED <<phase, io_inflight, client_fd, owner, poolVars,
                   slot, held, fd, aim, live, ringVars>>

-----------------------------------------------------------------------------
(* ResetConcrete, NoteComplete, finalizeIfDraining, CloseConnection        *)

ResetCas(t) ==
    LET c == slot[t] IN
    /\ Goto(t, "rst_cas", IF phase[c] = "Serving" THEN "rst_fd" ELSE "unwind")
    /\ phase' = [phase EXCEPT ![c] = IF @ = "Serving" THEN "Draining" ELSE @]
    /\ aim' = [aim EXCEPT ![t] = IF phase[c] = "Serving" THEN owner[c] ELSE @]
    /\ UNCHANGED <<io_inflight, client_fd, expired, parsed, served, owner, poolVars,
                   slot, held, stage, fd, live, ringVars>>

ResetLoadFd(t) ==
    /\ Goto(t, "rst_fd", "rst_cancel")
    /\ fd' = [fd EXCEPT ![t] = client_fd[slot[t]]]
    /\ UNCHANGED <<slotVars, poolVars, slot, held, stage, aim, live, ringVars>>

\* Mutant: the descriptor is not checked before it is named in the Cancel.
ResetCancel_AnyFd(t) ==
    /\ Goto(t, "rst_cancel", "fin_load")
    /\ cancels' = IF io_inflight[slot[t]] > 0
                  THEN cancels \cup {[fd |-> fd[t], aim |-> aim[t]]} ELSE cancels
    /\ fd' = [fd EXCEPT ![t] = NoFd]
    /\ aim' = [aim EXCEPT ![t] = NoClient]
    /\ UNCHANGED <<slotVars, poolVars, slot, held, stage, live, ops, file, accepted, interrupted>>

\* The Cancel's own submission is not checked: a refused one is just lost.
ResetCancel(t) ==
    LET wanted == io_inflight[slot[t]] > 0 /\ fd[t] # NoFd
        cancel == [fd |-> fd[t], aim |-> aim[t]]
    IN
    /\ Goto(t, "rst_cancel", "fin_load")
    /\ \/ cancels' = IF wanted THEN cancels \cup {cancel} ELSE cancels
       \/ RingMayRefuse /\ UNCHANGED cancels
    /\ fd' = [fd EXCEPT ![t] = NoFd]
    /\ aim' = [aim EXCEPT ![t] = NoClient]
    /\ UNCHANGED <<slotVars, poolVars, slot, held, stage, live, ops, file, accepted, interrupted>>

\* Mutant: finalize does not wait for the references.
FinalizeLoad_NoWait(t) ==
    /\ Goto(t, "fin_load", "fin_cas")
    /\ UNCHANGED <<slotVars, poolVars, slot, held, stage, fd, aim, live, ringVars>>

FinalizeLoad(t) ==
    /\ Goto(t, "fin_load", IF io_inflight[slot[t]] # 0 THEN "unwind" ELSE "fin_cas")
    /\ UNCHANGED <<slotVars, poolVars, slot, held, stage, fd, aim, live, ringVars>>

\* Mutant: a plain store of Clearing in place of the CAS.
FinalizeCas_Store(t) ==
    /\ Goto(t, "fin_cas", "fin_exchange")
    /\ phase' = [phase EXCEPT ![slot[t]] = "Clearing"]
    /\ UNCHANGED <<io_inflight, client_fd, expired, parsed, served, owner, poolVars,
                   slot, held, stage, fd, aim, live, ringVars>>

FinalizeCas(t) ==
    LET c == slot[t] IN
    /\ Goto(t, "fin_cas", IF phase[c] = "Draining" THEN "fin_exchange" ELSE "unwind")
    /\ phase' = [phase EXCEPT ![c] = IF @ = "Draining" THEN "Clearing" ELSE @]
    /\ UNCHANGED <<io_inflight, client_fd, expired, parsed, served, owner, poolVars,
                   slot, held, stage, fd, aim, live, ringVars>>

\* Mutant: test-then-set, the number stays in client_fd_ while it is closed.
ExchangeFd_Load(t, from, to) ==
    /\ Goto(t, from, to)
    /\ fd' = [fd EXCEPT ![t] = client_fd[slot[t]]]
    /\ UNCHANGED <<slotVars, poolVars, slot, held, stage, aim, live, ringVars>>

\* CloseConnection: the exchange, then ::close on what it returned.
ExchangeFd(t, from, to) ==
    /\ Goto(t, from, to)
    /\ fd' = [fd EXCEPT ![t] = client_fd[slot[t]]]
    /\ client_fd' = [client_fd EXCEPT ![slot[t]] = NoFd]
    /\ UNCHANGED <<phase, io_inflight, expired, parsed, served, owner, poolVars,
                   slot, held, stage, aim, live, ringVars>>

CloseFd(t, from, to) ==
    /\ Goto(t, from, to)
    /\ file' = IF fd[t] = NoFd THEN file ELSE [file EXCEPT ![fd[t]] = NoClient]
    /\ fd' = [fd EXCEPT ![t] = NoFd]
    /\ UNCHANGED <<slotVars, poolVars, slot, held, stage, aim, live,
                   ops, cancels, accepted, interrupted>>

FinalizeExchange(t) == ExchangeFd(t, "fin_exchange", "fin_close")
FinalizeClose(t)    == CloseFd(t, "fin_close", "fin_clear")

\* TLS session, page, parser and buffers.  served_ is not among them.
FinalizeClear(t) ==
    /\ Goto(t, "fin_clear", "fin_counter")
    /\ parsed' = [parsed EXCEPT ![slot[t]] = FALSE]
    /\ UNCHANGED <<phase, io_inflight, client_fd, expired, served, owner, poolVars,
                   slot, held, stage, fd, aim, live, ringVars>>

FinalizeCounter(t) ==
    /\ Goto(t, "fin_counter", "fin_seed")
    /\ in_use' = in_use - 1
    /\ UNCHANGED <<slotVars, pool_mutex, slot, held, stage, fd, aim, live, ringVars>>

\* Mutant: the next claimer's dispatch reference is not seeded.
FinalizeSeed_Skipped(t) ==
    /\ Goto(t, "fin_seed", "fin_free")
    /\ UNCHANGED <<slotVars, poolVars, slot, held, stage, fd, aim, live, ringVars>>

FinalizeSeed(t) ==
    /\ Goto(t, "fin_seed", "fin_free")
    /\ io_inflight' = [io_inflight EXCEPT ![slot[t]] = 1]
    /\ UNCHANGED <<phase, client_fd, expired, parsed, served, owner, poolVars,
                   slot, held, stage, fd, aim, live, ringVars>>

FinalizeFree(t) ==
    /\ Goto(t, "fin_free", "unwind")
    /\ phase' = [phase EXCEPT ![slot[t]] = "Free"]
    /\ owner' = [owner EXCEPT ![slot[t]] = NoClient]
    /\ UNCHANGED <<io_inflight, client_fd, expired, parsed, served, poolVars,
                   slot, held, stage, fd, aim, live, ringVars>>

\* Destructors run innermost first.
Innermost(t) == IF "work" \in held[t] THEN "work"
                ELSE IF "chain" \in held[t] THEN "chain" ELSE "dispatch"

\* Mutant: the last NoteComplete does not try to finalize.
Release_NoFinalize(t) ==
    /\ held[t] # {}
    /\ Goto(t, "unwind", "unwind")
    /\ io_inflight' = [io_inflight EXCEPT ![slot[t]] = @ - 1]
    /\ held' = [held EXCEPT ![t] = @ \ {Innermost(t)}]
    /\ UNCHANGED <<phase, client_fd, expired, parsed, served, owner, poolVars,
                   slot, stage, fd, aim, live, ringVars>>

\* NoteComplete, for the next armed ConnRef of the frames being left.
Release(t) ==
    LET c == slot[t] IN
    /\ held[t] # {}
    /\ Goto(t, "unwind", IF io_inflight[c] = 1 THEN "fin_load" ELSE "unwind")
    /\ io_inflight' = [io_inflight EXCEPT ![c] = @ - 1]
    /\ held' = [held EXCEPT ![t] = @ \ {Innermost(t)}]
    /\ UNCHANGED <<phase, client_fd, expired, parsed, served, owner, poolVars,
                   slot, stage, fd, aim, live, ringVars>>

\* The last frame is left: a worker is free, reapIdle looks at its next slot.
Return(t) ==
    /\ held[t] = {}
    /\ Goto(t, "unwind", IF live[t] = {} THEN "idle" ELSE "sweep")
    /\ slot' = [slot EXCEPT ![t] = NoSlot]
    /\ stage' = [stage EXCEPT ![t] = "pre"]
    /\ UNCHANGED <<slotVars, poolVars, held, fd, aim, live, ringVars>>

-----------------------------------------------------------------------------
(* Threads that own no reference                                           *)

\* reapIdle: snapshot the active slots under pool_mutex_ ...
Snapshot(t) ==
    /\ "Reap" \in ShellVerbs
    /\ pool_mutex = NoThread
    /\ \E c \in Slots : phase[c] # "Free"
    /\ Goto(t, "idle", "sweep")
    /\ live' = [live EXCEPT ![t] = {c \in Slots : phase[c] # "Free"}]
    /\ UNCHANGED <<slotVars, poolVars, slot, held, stage, fd, aim, ringVars>>

\* ... and run checkTimeout on each of them outside it.
Visit(t, c) ==
    /\ c \in live[t]
    /\ Goto(t, "sweep", "chk_phase")
    /\ slot' = [slot EXCEPT ![t] = c]
    /\ live' = [live EXCEPT ![t] = @ \ {c}]
    /\ UNCHANGED <<slotVars, poolVars, held, stage, fd, aim, ringVars>>

\* NetworkProvider::SocketConnectionState.Reset <rid>
ShellReset(t, c) ==
    /\ "Reset" \in ShellVerbs
    /\ Goto(t, "idle", "rst_cas")
    /\ slot' = [slot EXCEPT ![t] = c]
    /\ UNCHANGED <<slotVars, poolVars, held, stage, fd, aim, live, ringVars>>

\* NetworkProvider::SocketConnectionState.Close <rid>
ShellClose(t, c) ==
    /\ "Close" \in ShellVerbs
    /\ Goto(t, "idle", "shut_exchange")
    /\ slot' = [slot EXCEPT ![t] = c]
    /\ UNCHANGED <<slotVars, poolVars, held, stage, fd, aim, live, ringVars>>

ShutExchange(t) == ExchangeFd(t, "shut_exchange", "shut_close")
ShutClose(t)    == CloseFd(t, "shut_close", "unwind")

-----------------------------------------------------------------------------
(* Kernel and environment                                                  *)

\* A Cancel retires every operation on the file its number names now.
ProcessCancel(x) ==
    /\ x \in cancels
    /\ cancels' = cancels \ {x}
    /\ ops' = {IF o.file = file[x.fd] /\ o.file # NoClient
               THEN [o EXCEPT !.dead = TRUE] ELSE o : o \in ops}
    /\ UNCHANGED <<slotVars, poolVars, threadVars, file, accepted, interrupted>>

\* TIMEOUT_SECONDS pass with no markActive on the slot.
TimePasses(c) ==
    /\ ~expired[c]
    /\ expired' = [expired EXCEPT ![c] = TRUE]
    /\ UNCHANGED <<phase, io_inflight, client_fd, parsed, served, owner,
                   poolVars, threadVars, ringVars>>

Interrupt ==
    /\ MayInterrupt /\ ~interrupted
    /\ interrupted' = TRUE
    /\ UNCHANGED <<slotVars, poolVars, threadVars, ops, cancels, file, accepted>>

-----------------------------------------------------------------------------
AcceptStep(t) == LockPool(t) \/ (\E c \in Slots : Claim(t, c)) \/ RefuseClient(t)
                 \/ SetClientFd(t) \/ MarkClaimed(t) \/ CountClaim(t)
                 \/ \E filtered \in Filtered : BeginDispatch(t, filtered)

DispatchStep(t) == Serve(t) \/ ServeDeclines(t) \/ NobodyTakes(t)

ChainStep(t) == CheckPhase(t) \/ CheckTime(t) \/ CheckOpen(t) \/ CheckSignal(t)
                \/ PrepareOp(t) \/ AcquireWork(t) \/ SubmitOp(t) \/ SubmitRefused(t)
                \/ (\E r \in {"error", "incomplete", "complete"} : OnBytes(t, r))
                \/ (\E persistent \in BOOLEAN : Respond(t, persistent))
                \/ (\E all \in BOOLEAN : Sent(t, all))
                \/ SendEnd(t) \/ RecycleForNextRequest(t)

TeardownStep(t) == ResetCas(t) \/ ResetLoadFd(t) \/ ResetCancel(t)
                   \/ FinalizeLoad(t) \/ FinalizeCas(t) \/ FinalizeExchange(t)
                   \/ FinalizeClose(t) \/ FinalizeClear(t) \/ FinalizeCounter(t)
                   \/ FinalizeSeed(t) \/ FinalizeFree(t) \/ Release(t) \/ Return(t)

\* What a thread does once it has been given something to do.
Run(t) == AcceptStep(t) \/ DispatchStep(t) \/ ChainStep(t) \/ TeardownStep(t)
          \/ (\E c \in Slots : Visit(t, c)) \/ ShutExchange(t) \/ ShutClose(t)

WorkerStarts(t) == \/ \E f \in Fds : Accept(t, f)
                   \/ \E o \in ops : CompleteBytes(t, o) \/ CompleteClosed(t, o)

ResetterStarts(t) == \/ Snapshot(t)
                     \/ \E c \in Slots : ShellReset(t, c) \/ ShellClose(t, c)

Next == \/ \E t \in Threads : Run(t)
        \/ \E t \in Workers : WorkerStarts(t) \/ \E o \in ops : CompleteDead(t, o)
        \/ \E t \in Resetters : ResetterStarts(t)
        \/ \E x \in cancels : ProcessCancel(x)
        \/ \E c \in Slots : TimePasses(c)
        \/ Interrupt

Spec == Init /\ [][Next]_vars

(***************************************************************************)
(* Threads are scheduled and the kernel processes what was submitted: a    *)
(* thread in the middle of a function keeps running, a Cancel is processed *)
(* and a failed operation is delivered.  Nothing is assumed of the peer:   *)
(* a live operation may stay pending for ever.                             *)
(***************************************************************************)
Scheduling == /\ \A t \in Threads : WF_vars(Run(t))
              /\ WF_vars(\E x \in cancels : ProcessCancel(x))
              /\ WF_vars(\E t \in Workers : \E o \in ops : CompleteDead(t, o))

FairSpec == Spec /\ Scheduling

-----------------------------------------------------------------------------
(* Properties                                                              *)

ThreadRefs(c) == {r \in Threads \X RefKinds : slot[r[1]] = c /\ r[2] \in held[r[1]]}
RingRefs(c)   == {o \in ops : o.slot = c}

\* io_inflight_ is exactly the number of references alive: none is leaked,
\* none is released twice, on any path through dispatch, chain and teardown.
RefsCounted ==
    \A c \in Slots : phase[c] \in {"Serving", "Draining"} =>
        io_inflight[c] = Cardinality(ThreadRefs(c)) + Cardinality(RingRefs(c))

\* "No stale completion can exist at reacquire time": a slot that is free or
\* being cleared is named by no operation and by no armed ConnRef.
NoStaleCompletion ==
    \A c \in Slots : phase[c] \in {"Free", "Clearing"} =>
        ThreadRefs(c) = {} /\ RingRefs(c) = {}

\* A pending operation works on the descriptor of the client its slot serves
\* now, and that descriptor has not gone back to the kernel.
OpsNameOwnSocket ==
    \A o \in ops : /\ o.fd # NoFd
                   /\ file[o.fd] = o.file
                   /\ owner[o.slot] = o.file
                   /\ client_fd[o.slot] = o.fd

\* One driver per connection: its parser and buffers are written by one
\* chain at a time, whatever threads the completions land on.
Drivers(c) == {t \in Workers : slot[t] = c /\ pc[t] \in ChainPcs \cup {"dispatch"}}
OneDriver == \A c \in Slots : Cardinality(Drivers(c)) + Cardinality(RingRefs(c)) <= 1

\* The Draining -> Clearing CAS admits one thread, and nobody else can take
\* the slot out of Clearing before that thread publishes Free.
Finalizing(t, c) == slot[t] = c /\ pc[t] \in ClearPcs
FinalizeExclusive ==
    \A c \in Slots :
        /\ \A t, u \in Threads : Finalizing(t, c) /\ Finalizing(u, c) => t = u
        /\ phase[c] = "Clearing" <=> \E t \in Threads : Finalizing(t, c)

\* in_use_ counts the slots that are not Free; it lags only inside a claim
\* (CAS done, increment to come) and inside finalize (decrement done, Free to
\* come), so rebalanceLocked never sees it drift.
Active   == {c \in Slots : phase[c] # "Free"}
Claiming == {t \in Threads : pc[t] \in ClaimPcs}
Leaving  == {t \in Threads : pc[t] \in {"fin_seed", "fin_free"}}
InUseExact ==
    in_use + Cardinality(Claiming) + Cardinality(Leaving) = Cardinality(Active)

\* Every close is of an open descriptor, and no two threads are about to
\* close the same number (exchange, not test-then-set).
ClosePcs == {"fin_close", "shut_close"}
CloseOnce ==
    \A t \in Threads : pc[t] \in ClosePcs /\ fd[t] # NoFd =>
        /\ file[fd[t]] # NoClient
        /\ \A u \in Threads \ {t} : ~(pc[u] \in ClosePcs /\ fd[u] = fd[t])

\* No path out of accept, dispatch or teardown loses a descriptor: each open
\* one is on its way into a slot, in a slot, or about to be closed, and only
\* one of these holds it.
Carrying(f) == {t \in Threads : fd[t] = f /\ pc[t] \in {"lock", "claim", "set_fd"} \cup ClosePcs}
Keeping(f)  == {c \in Slots : client_fd[c] = f}
DescriptorsAccounted ==
    \A f \in Fds : Cardinality(Carrying(f)) + Cardinality(Keeping(f))
                   = IF file[f] = NoClient THEN 0 ELSE 1

\* A Cancel reaches no operation of a client other than the one whose
\* connection was being reset: "the number is only released once nothing
\* names it".
CancelHitsOwnClient ==
    \A x \in cancels, o \in ops : o.fd = x.fd /\ o.file = file[x.fd] => o.file = x.aim

\* Every connection that starts to drain becomes reusable, peer or no peer.
DrainConverges == \A c \in Slots : phase[c] = "Draining" ~> phase[c] = "Free"

\* The pool's promise, with Clearing still part of the drain and every armed
\* ConnRef and pending operation a reference.
SlotUse  == [c \in Slots |-> IF phase[c] = "Free" THEN "free"
                             ELSE IF phase[c] = "Serving" THEN "serving" ELSE "draining"]
SlotRefs == [c \in Slots |-> Cardinality(ThreadRefs(c)) + Cardinality(RingRefs(c))]

Promise == INSTANCE PooledSlot WITH use <- SlotUse, refs <- SlotRefs

ImplementsPromise == Promise!Spec
=============================================================================

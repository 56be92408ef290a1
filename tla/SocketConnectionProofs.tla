---------------------- MODULE SocketConnectionProofs ----------------------
(***************************************************************************)
(* Proofs about SocketConnection, for every number of slots, descriptors,  *)
(* workers, resetters and accepts.                                         *)
(*                                                                         *)
(*  - TypeCorrect, TeardownExclusive, PoolCountExact and ClosedOnce hold   *)
(*    whoever resets, the threads that own no reference included.          *)
(*  - ReferencesExact, ReuseIsClean and what follows them hold as long as  *)
(*    only the threads that run the connection reset it (Resetters = {});  *)
(*    the run connection_stale shows that they do not hold otherwise.      *)
(***************************************************************************)
EXTENDS SocketConnection, TLAPS, FiniteSetTheorems

-----------------------------------------------------------------------------
(* What every step preserves, whoever resets                               *)

\* A thread with something to do on a connection has one.
AtWork == Pcs \ {"idle", "lock", "claim", "sweep"}
SlotKnown == \A t \in Threads : pc[t] \in AtWork => slot[t] \in Slots

\* An accept completion carries a real descriptor until it is stored.
FdInHand == \A t \in Threads : pc[t] \in {"lock", "claim", "set_fd"} => fd[t] \in Fds

BaseInv == TypeOK /\ SlotKnown /\ FdInHand

LEMMA BaseInit == Init => BaseInv
<1> SUFFICES ASSUME Init PROVE BaseInv
  OBVIOUS
<1> USE ConstantsAssumption DEF Init, ConstantsAssumption
<1>1. /\ phase \in [Slots -> Phases]
      /\ io_inflight \in [Slots -> Int]
      /\ client_fd \in [Slots -> Fds \cup {NoFd}]
      /\ expired \in [Slots -> BOOLEAN]
      /\ parsed \in [Slots -> BOOLEAN]
      /\ served \in [Slots -> Nat]
      /\ owner \in [Slots -> Clients \cup {NoClient}]
      /\ in_use \in Int
      /\ pool_mutex \in Threads \cup {NoThread}
  BY DEF Phases
<1>2. /\ pc \in [Threads -> Pcs]
      /\ slot \in [Threads -> Slots \cup {NoSlot}]
      /\ held \in [Threads -> SUBSET RefKinds]
      /\ stage \in [Threads -> Stages]
      /\ fd \in [Threads -> Fds \cup {NoFd}]
      /\ aim \in [Threads -> Clients \cup {NoClient}]
      /\ live \in [Threads -> SUBSET Slots]
  BY DEF Pcs, Stages
<1>3. ops \subseteq Op /\ cancels \subseteq Cancel
  OBVIOUS
<1>4. file \in [Fds -> Clients \cup {NoClient}]
  OBVIOUS
<1>5. accepted \in 0..MaxAccepts
  OBVIOUS
<1>6. interrupted \in BOOLEAN
  OBVIOUS
<1>7. SlotKnown /\ FdInHand
  BY DEF SlotKnown, FdInHand, AtWork
<1>q. QED
  BY <1>1, <1>2, <1>3, <1>4, <1>5, <1>6, <1>7 DEF BaseInv, TypeOK

LEMMA DeadOp == \A o \in Op : [o EXCEPT !.dead = TRUE] \in Op
  BY DEF Op

LEMMA BaseStep == BaseInv /\ [Next]_vars => BaseInv'
<1> SUFFICES ASSUME BaseInv, [Next]_vars PROVE BaseInv'
  OBVIOUS
<1> USE ConstantsAssumption
    DEF BaseInv, TypeOK, SlotKnown, FdInHand, AtWork, Goto,
        vars, slotVars, poolVars, threadVars, ringVars, Pcs, ClaimPcs, ChainPcs, ResetPcs,
        ClearPcs, ShutPcs, Phases, RefKinds, Stages, Threads, Clients, NoClient
<1>1. ASSUME NEW t \in Threads, AcceptStep(t) PROVE BaseInv'
  <2>1. CASE LockPool(t)
    BY <2>1 DEF LockPool
  <2>2. ASSUME NEW c \in Slots, Claim(t, c) PROVE BaseInv'
    BY <2>2 DEF Claim
  <2>3. CASE RefuseClient(t)
    BY <2>3 DEF RefuseClient
  <2>4. CASE SetClientFd(t)
    BY <2>4 DEF SetClientFd
  <2>5. CASE MarkClaimed(t)
    BY <2>5 DEF MarkClaimed
  <2>6. CASE CountClaim(t)
    BY <2>6 DEF CountClaim
  <2>7. ASSUME NEW filtered \in Filtered, BeginDispatch(t, filtered) PROVE BaseInv'
    BY <2>7 DEF BeginDispatch
  <2>q. QED
    BY <1>1, <2>1, <2>2, <2>3, <2>4, <2>5, <2>6, <2>7 DEF AcceptStep
<1>2. ASSUME NEW t \in Threads, DispatchStep(t) PROVE BaseInv'
  <2>1. CASE Serve(t)
    BY <2>1 DEF Serve
  <2>2. CASE ServeDeclines(t)
    BY <2>2 DEF ServeDeclines
  <2>3. CASE NobodyTakes(t)
    BY <2>3 DEF NobodyTakes
  <2>q. QED
    BY <1>2, <2>1, <2>2, <2>3 DEF DispatchStep
<1>3. ASSUME NEW t \in Threads, ChainStep(t) PROVE BaseInv'
  <2>1. CASE CheckPhase(t)
    BY <2>1 DEF CheckPhase
  <2>2. CASE CheckTime(t)
    BY <2>2 DEF CheckTime
  <2>3. CASE CheckOpen(t)
    BY <2>3 DEF CheckOpen
  <2>4. CASE CheckSignal(t)
    BY <2>4 DEF CheckSignal, OnComplete, HandedOn
  <2>5. CASE PrepareOp(t)
    BY <2>5 DEF PrepareOp
  <2>6. CASE AcquireWork(t)
    BY <2>6 DEF AcquireWork
  <2>7. CASE SubmitOp(t)
    <3>a. [slot |-> slot[t], fd |-> fd[t], file |-> FileOf(fd[t]),
           stage |-> stage[t], dead |-> FileOf(fd[t]) = NoClient] \in Op
      BY <2>7 DEF SubmitOp, FileOf, Op
    <3>q. QED
      BY <2>7, <3>a DEF SubmitOp
  <2>8. CASE SubmitRefused(t)
    BY <2>8 DEF SubmitRefused
  <2>9. ASSUME NEW r \in {"error", "incomplete", "complete"}, OnBytes(t, r) PROVE BaseInv'
    BY <2>9 DEF OnBytes, OnComplete, HandedOn
  <2>10. ASSUME NEW persistent \in BOOLEAN, Respond(t, persistent) PROVE BaseInv'
    BY <2>10 DEF Respond
  <2>11. ASSUME NEW all \in BOOLEAN, Sent(t, all) PROVE BaseInv'
    BY <2>11 DEF Sent
  <2>12. CASE SendEnd(t)
    BY <2>12 DEF SendEnd
  <2>13. CASE RecycleForNextRequest(t)
    BY <2>13 DEF RecycleForNextRequest
  <2>q. QED
    BY <1>3, <2>1, <2>2, <2>3, <2>4, <2>5, <2>6, <2>7, <2>8, <2>9, <2>10, <2>11, <2>12, <2>13 DEF ChainStep
<1>4. ASSUME NEW t \in Threads, TeardownStep(t) PROVE BaseInv'
  <2>1. CASE ResetCas(t)
    BY <2>1 DEF ResetCas
  <2>2. CASE ResetLoadFd(t)
    BY <2>2 DEF ResetLoadFd
  <2>3. CASE ResetCancel(t)
    BY <2>3 DEF ResetCancel, Cancel
  <2>4. CASE FinalizeLoad(t)
    BY <2>4 DEF FinalizeLoad
  <2>5. CASE FinalizeCas(t)
    BY <2>5 DEF FinalizeCas
  <2>6. CASE FinalizeExchange(t)
    BY <2>6 DEF FinalizeExchange, ExchangeFd
  <2>7. CASE FinalizeClose(t)
    BY <2>7 DEF FinalizeClose, CloseFd
  <2>8. CASE FinalizeClear(t)
    BY <2>8 DEF FinalizeClear
  <2>9. CASE FinalizeCounter(t)
    BY <2>9 DEF FinalizeCounter
  <2>10. CASE FinalizeSeed(t)
    BY <2>10 DEF FinalizeSeed
  <2>11. CASE FinalizeFree(t)
    BY <2>11 DEF FinalizeFree
  <2>12. CASE Release(t)
    BY <2>12 DEF Release, Innermost
  <2>13. CASE Return(t)
    BY <2>13 DEF Return
  <2>q. QED
    BY <1>4, <2>1, <2>2, <2>3, <2>4, <2>5, <2>6, <2>7, <2>8, <2>9, <2>10, <2>11, <2>12, <2>13 DEF TeardownStep
<1>5. ASSUME NEW t \in Threads, NEW c \in Slots, Visit(t, c) PROVE BaseInv'
  BY <1>5 DEF Visit
<1>6. ASSUME NEW t \in Threads, ShutExchange(t) PROVE BaseInv'
  BY <1>6 DEF ShutExchange, ExchangeFd
<1>7. ASSUME NEW t \in Threads, ShutClose(t) PROVE BaseInv'
  BY <1>7 DEF ShutClose, CloseFd
<1>8. ASSUME NEW t \in Workers, NEW f \in Fds, Accept(t, f) PROVE BaseInv'
  BY <1>8 DEF Accept
<1>9. ASSUME NEW t \in Workers, NEW o \in ops, CompleteBytes(t, o) PROVE BaseInv'
  BY <1>9 DEF CompleteBytes, TakeCompletion, Op
<1>10. ASSUME NEW t \in Workers, NEW o \in ops, CompleteClosed(t, o) PROVE BaseInv'
  BY <1>10 DEF CompleteClosed, TakeCompletion, Op
<1>11. ASSUME NEW t \in Workers, NEW o \in ops, CompleteDead(t, o) PROVE BaseInv'
  BY <1>11 DEF CompleteDead, TakeCompletion, Op
<1>12. ASSUME NEW t \in Resetters, Snapshot(t) PROVE BaseInv'
  BY <1>12 DEF Snapshot
<1>13. ASSUME NEW t \in Resetters, NEW c \in Slots, ShellReset(t, c) PROVE BaseInv'
  BY <1>13 DEF ShellReset
<1>14. ASSUME NEW t \in Resetters, NEW c \in Slots, ShellClose(t, c) PROVE BaseInv'
  BY <1>14 DEF ShellClose
<1>15. ASSUME NEW x \in cancels, ProcessCancel(x) PROVE BaseInv'
  BY <1>15, DeadOp DEF ProcessCancel
<1>16. ASSUME NEW c \in Slots, TimePasses(c) PROVE BaseInv'
  BY <1>16 DEF TimePasses
<1>17. ASSUME Interrupt PROVE BaseInv'
  BY <1>17 DEF Interrupt
<1>18. CASE UNCHANGED vars
  BY <1>18
<1>q. QED
  <2> HIDE DEF Threads, BaseInv
  <2>q. QED
    BY <1>1, <1>2, <1>3, <1>4, <1>5, <1>6, <1>7, <1>8, <1>9, <1>10, <1>11, <1>12, <1>13, <1>14, <1>15, <1>16, <1>17, <1>18 DEF Next, Run, WorkerStarts, ResetterStarts

-----------------------------------------------------------------------------
(* Five steps matter to the end of a teardown and to the pool counter      *)

Loud == \E t \in Threads : \/ \E c \in Slots : Claim(t, c)
                           \/ CountClaim(t) \/ FinalizeCas(t)
                           \/ FinalizeCounter(t) \/ FinalizeFree(t)

\* The others move no thread into or out of a claim or a finalize, no slot
\* into or out of Free or Clearing, and leave in_use_ alone.
Quiet ==
    /\ in_use' = in_use
    /\ \A t \in Threads : pc[t] \in ClaimPcs <=> pc'[t] \in ClaimPcs
    /\ \A t \in Threads : pc[t] \in {"fin_seed", "fin_free"} <=> pc'[t] \in {"fin_seed", "fin_free"}
    /\ \A t \in Threads : pc[t] \in ClearPcs <=> pc'[t] \in ClearPcs
    /\ \A t \in Threads : pc[t] \in ClearPcs => slot'[t] = slot[t]
    /\ \A c \in Slots : phase[c] = "Free" <=> phase'[c] = "Free"
    /\ \A c \in Slots : phase[c] = "Clearing" <=> phase'[c] = "Clearing"

LEMMA QuietOrLoud == BaseInv /\ [Next]_vars => Quiet \/ Loud
<1> SUFFICES ASSUME BaseInv, [Next]_vars PROVE Quiet \/ Loud
  OBVIOUS
<1> USE ConstantsAssumption
    DEF BaseInv, TypeOK, SlotKnown, AtWork, Goto, vars, slotVars, poolVars, threadVars, ringVars,
        Pcs, ClaimPcs, ChainPcs, ResetPcs, ClearPcs, ShutPcs, Phases, Threads, Quiet
<1>1. ASSUME NEW t \in Threads, AcceptStep(t) PROVE Quiet \/ Loud
  <2>1. CASE LockPool(t)
    BY <2>1 DEF LockPool
  <2>2. ASSUME NEW c \in Slots, Claim(t, c) PROVE Quiet \/ Loud
    BY <2>2 DEF Loud
  <2>3. CASE RefuseClient(t)
    BY <2>3 DEF RefuseClient
  <2>4. CASE SetClientFd(t)
    BY <2>4 DEF SetClientFd
  <2>5. CASE MarkClaimed(t)
    BY <2>5 DEF MarkClaimed
  <2>6. CASE CountClaim(t)
    BY <2>6 DEF Loud
  <2>7. ASSUME NEW filtered \in Filtered, BeginDispatch(t, filtered) PROVE Quiet \/ Loud
    BY <2>7 DEF BeginDispatch
  <2>q. QED
    BY <1>1, <2>1, <2>2, <2>3, <2>4, <2>5, <2>6, <2>7 DEF AcceptStep
<1>2. ASSUME NEW t \in Threads, DispatchStep(t) PROVE Quiet \/ Loud
  <2>1. CASE Serve(t)
    BY <2>1 DEF Serve
  <2>2. CASE ServeDeclines(t)
    BY <2>2 DEF ServeDeclines
  <2>3. CASE NobodyTakes(t)
    BY <2>3 DEF NobodyTakes
  <2>q. QED
    BY <1>2, <2>1, <2>2, <2>3 DEF DispatchStep
<1>3. ASSUME NEW t \in Threads, ChainStep(t) PROVE Quiet \/ Loud
  <2>1. CASE CheckPhase(t)
    BY <2>1 DEF CheckPhase
  <2>2. CASE CheckTime(t)
    BY <2>2 DEF CheckTime
  <2>3. CASE CheckOpen(t)
    BY <2>3 DEF CheckOpen
  <2>4. CASE CheckSignal(t)
    BY <2>4 DEF CheckSignal, OnComplete, HandedOn
  <2>5. CASE PrepareOp(t)
    BY <2>5 DEF PrepareOp
  <2>6. CASE AcquireWork(t)
    BY <2>6 DEF AcquireWork
  <2>7. CASE SubmitOp(t)
    BY <2>7 DEF SubmitOp
  <2>8. CASE SubmitRefused(t)
    BY <2>8 DEF SubmitRefused
  <2>9. ASSUME NEW r \in {"error", "incomplete", "complete"}, OnBytes(t, r) PROVE Quiet \/ Loud
    BY <2>9 DEF OnBytes, OnComplete, HandedOn
  <2>10. ASSUME NEW persistent \in BOOLEAN, Respond(t, persistent) PROVE Quiet \/ Loud
    BY <2>10 DEF Respond
  <2>11. ASSUME NEW all \in BOOLEAN, Sent(t, all) PROVE Quiet \/ Loud
    BY <2>11 DEF Sent
  <2>12. CASE SendEnd(t)
    BY <2>12 DEF SendEnd
  <2>13. CASE RecycleForNextRequest(t)
    BY <2>13 DEF RecycleForNextRequest
  <2>q. QED
    BY <1>3, <2>1, <2>2, <2>3, <2>4, <2>5, <2>6, <2>7, <2>8, <2>9, <2>10, <2>11, <2>12, <2>13 DEF ChainStep
<1>4. ASSUME NEW t \in Threads, TeardownStep(t) PROVE Quiet \/ Loud
  <2>1. CASE ResetCas(t)
    BY <2>1 DEF ResetCas
  <2>2. CASE ResetLoadFd(t)
    BY <2>2 DEF ResetLoadFd
  <2>3. CASE ResetCancel(t)
    BY <2>3 DEF ResetCancel
  <2>4. CASE FinalizeLoad(t)
    BY <2>4 DEF FinalizeLoad
  <2>5. CASE FinalizeCas(t)
    BY <2>5 DEF Loud
  <2>6. CASE FinalizeExchange(t)
    BY <2>6 DEF FinalizeExchange, ExchangeFd
  <2>7. CASE FinalizeClose(t)
    BY <2>7 DEF FinalizeClose, CloseFd
  <2>8. CASE FinalizeClear(t)
    BY <2>8 DEF FinalizeClear
  <2>9. CASE FinalizeCounter(t)
    BY <2>9 DEF Loud
  <2>10. CASE FinalizeSeed(t)
    BY <2>10 DEF FinalizeSeed
  <2>11. CASE FinalizeFree(t)
    BY <2>11 DEF Loud
  <2>12. CASE Release(t)
    BY <2>12 DEF Release
  <2>13. CASE Return(t)
    BY <2>13 DEF Return
  <2>q. QED
    BY <1>4, <2>1, <2>2, <2>3, <2>4, <2>5, <2>6, <2>7, <2>8, <2>9, <2>10, <2>11, <2>12, <2>13 DEF TeardownStep
<1>5. ASSUME NEW t \in Threads, NEW c \in Slots, Visit(t, c) PROVE Quiet \/ Loud
  BY <1>5 DEF Visit
<1>6. ASSUME NEW t \in Threads, ShutExchange(t) PROVE Quiet \/ Loud
  BY <1>6 DEF ShutExchange, ExchangeFd
<1>7. ASSUME NEW t \in Threads, ShutClose(t) PROVE Quiet \/ Loud
  BY <1>7 DEF ShutClose, CloseFd
<1>8. ASSUME NEW t \in Workers, NEW f \in Fds, Accept(t, f) PROVE Quiet \/ Loud
  BY <1>8 DEF Accept
<1>9. ASSUME NEW t \in Workers, NEW o \in ops, CompleteBytes(t, o) PROVE Quiet \/ Loud
  BY <1>9 DEF CompleteBytes, TakeCompletion
<1>10. ASSUME NEW t \in Workers, NEW o \in ops, CompleteClosed(t, o) PROVE Quiet \/ Loud
  BY <1>10 DEF CompleteClosed, TakeCompletion
<1>11. ASSUME NEW t \in Workers, NEW o \in ops, CompleteDead(t, o) PROVE Quiet \/ Loud
  BY <1>11 DEF CompleteDead, TakeCompletion
<1>12. ASSUME NEW t \in Resetters, Snapshot(t) PROVE Quiet \/ Loud
  BY <1>12 DEF Snapshot
<1>13. ASSUME NEW t \in Resetters, NEW c \in Slots, ShellReset(t, c) PROVE Quiet \/ Loud
  BY <1>13 DEF ShellReset
<1>14. ASSUME NEW t \in Resetters, NEW c \in Slots, ShellClose(t, c) PROVE Quiet \/ Loud
  BY <1>14 DEF ShellClose
<1>15. ASSUME NEW x \in cancels, ProcessCancel(x) PROVE Quiet \/ Loud
  BY <1>15 DEF ProcessCancel
<1>16. ASSUME NEW c \in Slots, TimePasses(c) PROVE Quiet \/ Loud
  BY <1>16 DEF TimePasses
<1>17. ASSUME Interrupt PROVE Quiet \/ Loud
  BY <1>17 DEF Interrupt
<1>18. CASE UNCHANGED vars
  BY <1>18
<1>q. QED
  <2> HIDE DEF Threads, Quiet, BaseInv
  <2>q. QED
    BY <1>1, <1>2, <1>3, <1>4, <1>5, <1>6, <1>7, <1>8, <1>9, <1>10, <1>11, <1>12, <1>13, <1>14, <1>15, <1>16, <1>17, <1>18 DEF Next, Run, WorkerStarts, ResetterStarts

\* Entering Clearing is a CAS from Draining, leaving it is the last store of
\* the thread that entered.
LEMMA ExclusiveStep == BaseInv /\ FinalizeExclusive /\ [Next]_vars => FinalizeExclusive'
<1> SUFFICES ASSUME BaseInv, FinalizeExclusive, [Next]_vars PROVE FinalizeExclusive'
  OBVIOUS
<1> DEFINE Same == /\ \A u \in Threads, d \in Slots : Finalizing(u, d)' <=> Finalizing(u, d)
                   /\ \A d \in Slots : phase'[d] = "Clearing" <=> phase[d] = "Clearing"
<1>s. Same => FinalizeExclusive'
  BY Zenon DEF FinalizeExclusive
<1> USE DEF Finalizing
<1>1. CASE Quiet
  <2>1. Same
    BY <1>1 DEF Quiet
  <2>q. QED
    BY <2>1, <1>s
<1> USE DEF BaseInv, TypeOK, SlotKnown, AtWork, Goto, Pcs, ClaimPcs, ClearPcs, Phases
<1>2. ASSUME NEW t \in Threads, NEW c \in Slots, Claim(t, c) PROVE FinalizeExclusive'
  <2>1. Same
    BY <1>2 DEF Claim
  <2>q. QED
    BY <2>1, <1>s
<1>3. ASSUME NEW t \in Threads, CountClaim(t) PROVE FinalizeExclusive'
  <2>1. Same
    BY <1>3 DEF CountClaim, slotVars
  <2>q. QED
    BY <2>1, <1>s
<1>4. ASSUME NEW t \in Threads, FinalizeCas(t) PROVE FinalizeExclusive'
  BY <1>4 DEF FinalizeExclusive, FinalizeCas
<1>5. ASSUME NEW t \in Threads, FinalizeCounter(t) PROVE FinalizeExclusive'
  <2>1. Same
    BY <1>5 DEF FinalizeCounter, slotVars
  <2>q. QED
    BY <2>1, <1>s
<1>6. ASSUME NEW t \in Threads, FinalizeFree(t) PROVE FinalizeExclusive'
  BY <1>6 DEF FinalizeExclusive, FinalizeFree
<1>q. QED
  <2> HIDE DEF BaseInv
  <2>q. QED
    BY QuietOrLoud, <1>1, <1>2, <1>3, <1>4, <1>5, <1>6 DEF Loud

LEMMA FiniteCounts == /\ IsFiniteSet(Claiming) /\ IsFiniteSet(Leaving) /\ IsFiniteSet(Active)
                      /\ Cardinality(Claiming) \in Nat
                      /\ Cardinality(Leaving) \in Nat
                      /\ Cardinality(Active) \in Nat
<1>1. Claiming \subseteq Threads /\ Leaving \subseteq Threads /\ Active \subseteq Slots
  BY DEF Claiming, Leaving, Active
<1>2. IsFiniteSet(Claiming) /\ IsFiniteSet(Leaving) /\ IsFiniteSet(Active)
  BY <1>1, FS_Subset, FiniteAssumption DEF FiniteAssumption
<1>q. QED
  BY <1>2, FS_CardinalityType

LEMMA CountStep == BaseInv /\ FinalizeExclusive /\ InUseExact /\ [Next]_vars => InUseExact'
<1> SUFFICES ASSUME BaseInv, FinalizeExclusive, InUseExact, [Next]_vars PROVE InUseExact'
  OBVIOUS
<1>a. CASE Quiet
  <2>1. Claiming' = Claiming /\ Leaving' = Leaving /\ Active' = Active
    BY <1>a DEF Quiet, Claiming, Leaving, Active
  <2>q. QED
    BY <2>1, <1>a DEF InUseExact, Quiet
<1>b. ASSUME NEW t \in Threads, FinalizeCas(t) PROVE InUseExact'
  <2>1. Claiming' = Claiming /\ Leaving' = Leaving /\ Active' = Active /\ in_use' = in_use
    BY <1>b DEF FinalizeCas, Goto, Claiming, Leaving, Active, BaseInv, TypeOK, ClaimPcs, poolVars,
                SlotKnown, AtWork, Pcs, ResetPcs
  <2>q. QED
    BY <2>1 DEF InUseExact
<1>c. ASSUME NEW t \in Threads, NEW c \in Slots, Claim(t, c) PROVE InUseExact'
  <2>1. /\ t \notin Claiming /\ Claiming' = Claiming \cup {t} /\ Leaving' = Leaving
        /\ c \notin Active /\ Active' = Active \cup {c} /\ in_use' = in_use
    BY <1>c DEF Claim, Goto, Claiming, Leaving, Active, BaseInv, TypeOK, ClaimPcs, poolVars
  <2>2. Cardinality(Claiming') = Cardinality(Claiming) + 1
        /\ Cardinality(Active') = Cardinality(Active) + 1
    BY <2>1, FiniteCounts, FS_AddElement
  <2>q. QED
    BY <2>1, <2>2, FiniteCounts DEF InUseExact, BaseInv, TypeOK
<1>d. ASSUME NEW t \in Threads, CountClaim(t) PROVE InUseExact'
  <2>1. /\ t \in Claiming /\ Claiming' = Claiming \ {t} /\ Leaving' = Leaving
        /\ Active' = Active /\ in_use' = in_use + 1
    BY <1>d DEF CountClaim, Goto, Claiming, Leaving, Active, BaseInv, TypeOK, ClaimPcs, slotVars
  <2>2. Cardinality(Claiming') = Cardinality(Claiming) - 1
    BY <2>1, FiniteCounts, FS_RemoveElement
  <2>q. QED
    BY <2>1, <2>2, FiniteCounts DEF InUseExact, BaseInv, TypeOK
<1>e. ASSUME NEW t \in Threads, FinalizeCounter(t) PROVE InUseExact'
  <2>1. /\ t \notin Leaving /\ Leaving' = Leaving \cup {t} /\ Claiming' = Claiming
        /\ Active' = Active /\ in_use' = in_use - 1
    BY <1>e DEF FinalizeCounter, Goto, Claiming, Leaving, Active, BaseInv, TypeOK, ClaimPcs, slotVars
  <2>2. Cardinality(Leaving') = Cardinality(Leaving) + 1
    BY <2>1, FiniteCounts, FS_AddElement
  <2>q. QED
    BY <2>1, <2>2, FiniteCounts DEF InUseExact, BaseInv, TypeOK
<1>f. ASSUME NEW t \in Threads, FinalizeFree(t) PROVE InUseExact'
  <2> DEFINE c == slot[t]
  <2>0. c \in Slots /\ phase[c] = "Clearing"
    BY <1>f DEF FinalizeFree, Goto, BaseInv, SlotKnown, AtWork, Pcs, ClearPcs,
                FinalizeExclusive, Finalizing
  <2>1. /\ t \in Leaving /\ Leaving' = Leaving \ {t} /\ Claiming' = Claiming
        /\ c \in Active /\ Active' = Active \ {c} /\ in_use' = in_use
    BY <1>f, <2>0 DEF FinalizeFree, Goto, Claiming, Leaving, Active, BaseInv, TypeOK, ClaimPcs, poolVars
  <2>2. Cardinality(Leaving') = Cardinality(Leaving) - 1
        /\ Cardinality(Active') = Cardinality(Active) - 1
    BY <2>1, FiniteCounts, FS_RemoveElement
  <2>q. QED
    BY <2>1, <2>2, FiniteCounts DEF InUseExact, BaseInv, TypeOK
<1>q. QED
  BY QuietOrLoud, <1>a, <1>b, <1>c, <1>d, <1>e, <1>f DEF Loud

LEMMA CountInit == Init => FinalizeExclusive /\ InUseExact
<1> SUFFICES ASSUME Init PROVE FinalizeExclusive /\ InUseExact
  OBVIOUS
<1>1. Claiming = {} /\ Leaving = {} /\ Active = {}
  BY DEF Init, Claiming, Leaving, Active, ClaimPcs
<1>2. InUseExact
  BY <1>1, FS_EmptySet DEF Init, InUseExact
<1>3. FinalizeExclusive
  BY DEF Init, FinalizeExclusive, Finalizing, ClearPcs
<1>q. QED
  BY <1>2, <1>3

-----------------------------------------------------------------------------
(* Descriptors: seven steps take, move or close one                        *)

CarryPcs   == {"lock", "claim", "set_fd"} \cup ClosePcs
Carries(t) == pc[t] \in CarryPcs /\ fd[t] # NoFd

FdMoves == \E t \in Threads : \/ \E f \in Fds : Accept(t, f)
                              \/ RefuseClient(t) \/ SetClientFd(t)
                              \/ FinalizeExchange(t) \/ FinalizeClose(t)
                              \/ ShutExchange(t) \/ ShutClose(t)

\* The others leave every descriptor where it is.
FdStill ==
    /\ file' = file /\ client_fd' = client_fd
    /\ \A u \in Threads : Carries(u)' <=> Carries(u)
    /\ \A u \in Threads : Carries(u) => fd'[u] = fd[u]

LEMMA FdStillOrMoves == BaseInv /\ [Next]_vars => FdStill \/ FdMoves
<1> SUFFICES ASSUME BaseInv, [Next]_vars PROVE FdStill \/ FdMoves
  OBVIOUS
<1> USE ConstantsAssumption
    DEF BaseInv, TypeOK, SlotKnown, AtWork, Goto, vars, slotVars, poolVars, threadVars, ringVars,
        Pcs, ClaimPcs, ChainPcs, ResetPcs, ClearPcs, ShutPcs, Phases, Threads, FdStill, Carries, CarryPcs, ClosePcs
<1>1. ASSUME NEW t \in Threads, AcceptStep(t) PROVE FdStill \/ FdMoves
  <2>1. CASE LockPool(t)
    BY <2>1 DEF LockPool
  <2>2. ASSUME NEW c \in Slots, Claim(t, c) PROVE FdStill \/ FdMoves
    BY <2>2 DEF Claim
  <2>3. CASE RefuseClient(t)
    BY <2>3 DEF FdMoves
  <2>4. CASE SetClientFd(t)
    BY <2>4 DEF FdMoves
  <2>5. CASE MarkClaimed(t)
    BY <2>5 DEF MarkClaimed
  <2>6. CASE CountClaim(t)
    BY <2>6 DEF CountClaim
  <2>7. ASSUME NEW filtered \in Filtered, BeginDispatch(t, filtered) PROVE FdStill \/ FdMoves
    BY <2>7 DEF BeginDispatch
  <2>q. QED
    BY <1>1, <2>1, <2>2, <2>3, <2>4, <2>5, <2>6, <2>7 DEF AcceptStep
<1>2. ASSUME NEW t \in Threads, DispatchStep(t) PROVE FdStill \/ FdMoves
  <2>1. CASE Serve(t)
    BY <2>1 DEF Serve
  <2>2. CASE ServeDeclines(t)
    BY <2>2 DEF ServeDeclines
  <2>3. CASE NobodyTakes(t)
    BY <2>3 DEF NobodyTakes
  <2>q. QED
    BY <1>2, <2>1, <2>2, <2>3 DEF DispatchStep
<1>3. ASSUME NEW t \in Threads, ChainStep(t) PROVE FdStill \/ FdMoves
  <2>1. CASE CheckPhase(t)
    BY <2>1 DEF CheckPhase
  <2>2. CASE CheckTime(t)
    BY <2>2 DEF CheckTime
  <2>3. CASE CheckOpen(t)
    BY <2>3 DEF CheckOpen
  <2>4. CASE CheckSignal(t)
    BY <2>4 DEF CheckSignal, OnComplete, HandedOn
  <2>5. CASE PrepareOp(t)
    BY <2>5 DEF PrepareOp
  <2>6. CASE AcquireWork(t)
    BY <2>6 DEF AcquireWork
  <2>7. CASE SubmitOp(t)
    BY <2>7 DEF SubmitOp
  <2>8. CASE SubmitRefused(t)
    BY <2>8 DEF SubmitRefused
  <2>9. ASSUME NEW r \in {"error", "incomplete", "complete"}, OnBytes(t, r) PROVE FdStill \/ FdMoves
    BY <2>9 DEF OnBytes, OnComplete, HandedOn
  <2>10. ASSUME NEW persistent \in BOOLEAN, Respond(t, persistent) PROVE FdStill \/ FdMoves
    BY <2>10 DEF Respond
  <2>11. ASSUME NEW all \in BOOLEAN, Sent(t, all) PROVE FdStill \/ FdMoves
    BY <2>11 DEF Sent
  <2>12. CASE SendEnd(t)
    BY <2>12 DEF SendEnd
  <2>13. CASE RecycleForNextRequest(t)
    BY <2>13 DEF RecycleForNextRequest
  <2>q. QED
    BY <1>3, <2>1, <2>2, <2>3, <2>4, <2>5, <2>6, <2>7, <2>8, <2>9, <2>10, <2>11, <2>12, <2>13 DEF ChainStep
<1>4. ASSUME NEW t \in Threads, TeardownStep(t) PROVE FdStill \/ FdMoves
  <2>1. CASE ResetCas(t)
    BY <2>1 DEF ResetCas
  <2>2. CASE ResetLoadFd(t)
    BY <2>2 DEF ResetLoadFd
  <2>3. CASE ResetCancel(t)
    BY <2>3 DEF ResetCancel
  <2>4. CASE FinalizeLoad(t)
    BY <2>4 DEF FinalizeLoad
  <2>5. CASE FinalizeCas(t)
    BY <2>5 DEF FinalizeCas
  <2>6. CASE FinalizeExchange(t)
    BY <2>6 DEF FdMoves
  <2>7. CASE FinalizeClose(t)
    BY <2>7 DEF FdMoves
  <2>8. CASE FinalizeClear(t)
    BY <2>8 DEF FinalizeClear
  <2>9. CASE FinalizeCounter(t)
    BY <2>9 DEF FinalizeCounter
  <2>10. CASE FinalizeSeed(t)
    BY <2>10 DEF FinalizeSeed
  <2>11. CASE FinalizeFree(t)
    BY <2>11 DEF FinalizeFree
  <2>12. CASE Release(t)
    BY <2>12 DEF Release
  <2>13. CASE Return(t)
    BY <2>13 DEF Return
  <2>q. QED
    BY <1>4, <2>1, <2>2, <2>3, <2>4, <2>5, <2>6, <2>7, <2>8, <2>9, <2>10, <2>11, <2>12, <2>13 DEF TeardownStep
<1>5. ASSUME NEW t \in Threads, NEW c \in Slots, Visit(t, c) PROVE FdStill \/ FdMoves
  BY <1>5 DEF Visit
<1>6. ASSUME NEW t \in Threads, ShutExchange(t) PROVE FdStill \/ FdMoves
  BY <1>6 DEF FdMoves
<1>7. ASSUME NEW t \in Threads, ShutClose(t) PROVE FdStill \/ FdMoves
  BY <1>7 DEF FdMoves
<1>8. ASSUME NEW t \in Workers, NEW f \in Fds, Accept(t, f) PROVE FdStill \/ FdMoves
  BY <1>8 DEF FdMoves
<1>9. ASSUME NEW t \in Workers, NEW o \in ops, CompleteBytes(t, o) PROVE FdStill \/ FdMoves
  BY <1>9 DEF CompleteBytes, TakeCompletion
<1>10. ASSUME NEW t \in Workers, NEW o \in ops, CompleteClosed(t, o) PROVE FdStill \/ FdMoves
  BY <1>10 DEF CompleteClosed, TakeCompletion
<1>11. ASSUME NEW t \in Workers, NEW o \in ops, CompleteDead(t, o) PROVE FdStill \/ FdMoves
  BY <1>11 DEF CompleteDead, TakeCompletion
<1>12. ASSUME NEW t \in Resetters, Snapshot(t) PROVE FdStill \/ FdMoves
  BY <1>12 DEF Snapshot
<1>13. ASSUME NEW t \in Resetters, NEW c \in Slots, ShellReset(t, c) PROVE FdStill \/ FdMoves
  BY <1>13 DEF ShellReset
<1>14. ASSUME NEW t \in Resetters, NEW c \in Slots, ShellClose(t, c) PROVE FdStill \/ FdMoves
  BY <1>14 DEF ShellClose
<1>15. ASSUME NEW x \in cancels, ProcessCancel(x) PROVE FdStill \/ FdMoves
  BY <1>15 DEF ProcessCancel
<1>16. ASSUME NEW c \in Slots, TimePasses(c) PROVE FdStill \/ FdMoves
  BY <1>16 DEF TimePasses
<1>17. ASSUME Interrupt PROVE FdStill \/ FdMoves
  BY <1>17 DEF Interrupt
<1>18. CASE UNCHANGED vars
  BY <1>18
<1>q. QED
  <2> HIDE DEF Threads, FdStill, BaseInv
  <2>q. QED
    BY <1>1, <1>2, <1>3, <1>4, <1>5, <1>6, <1>7, <1>8, <1>9, <1>10, <1>11, <1>12, <1>13, <1>14, <1>15, <1>16, <1>17, <1>18 DEF Next, Run, WorkerStarts, ResetterStarts


\* A descriptor that a frame is about to store or to close is open, and in
\* one place: in one frame or in one slot.
FdsApart ==
    /\ \A t \in Threads : Carries(t) => file[fd[t]] # NoClient
    /\ \A c \in Slots : client_fd[c] # NoFd => file[client_fd[c]] # NoClient
    /\ \A t, u \in Threads : Carries(t) /\ Carries(u) /\ fd[t] = fd[u] => t = u
    /\ \A c, d \in Slots : client_fd[c] # NoFd /\ client_fd[c] = client_fd[d] => c = d
    /\ \A t \in Threads, c \in Slots : Carries(t) => client_fd[c] # fd[t]

LEMMA FdsApartStep == BaseInv /\ FdsApart /\ [Next]_vars => FdsApart'
<1> SUFFICES ASSUME BaseInv, FdsApart, [Next]_vars PROVE FdsApart'
  OBVIOUS
<1>1. CASE FdStill
  <2> USE DEF FdStill, FdsApart
  <2>q. QED
    BY <1>1
<1> USE ConstantsAssumption
    DEF ConstantsAssumption, BaseInv, TypeOK, SlotKnown, FdInHand, AtWork, Goto, Pcs, ClaimPcs, ClearPcs, ShutPcs, Clients, NoClient,
        Carries, CarryPcs, ClosePcs
<1>2. ASSUME NEW t \in Threads, NEW f \in Fds, Accept(t, f) PROVE FdsApart'
  BY <1>2 DEF Accept, slotVars, FdsApart
<1>3. ASSUME NEW t \in Threads, RefuseClient(t) PROVE FdsApart'
  BY <1>3 DEF RefuseClient, slotVars, FdsApart
<1>4. ASSUME NEW t \in Threads, SetClientFd(t) PROVE FdsApart'
  BY <1>4 DEF SetClientFd, ringVars, FdsApart
<1>5. ASSUME NEW t \in Threads, FinalizeExchange(t) \/ ShutExchange(t) PROVE FdsApart'
  <2>1. /\ slot[t] \in Slots /\ file' = file /\ ~Carries(t)
        /\ client_fd' = [client_fd EXCEPT ![slot[t]] = NoFd]
        /\ fd' = [fd EXCEPT ![t] = client_fd[slot[t]]]
        /\ \A u \in Threads \ {t} : pc'[u] = pc[u]
    BY <1>5 DEF FinalizeExchange, ShutExchange, ExchangeFd, ringVars
  <2>2. \A u \in Threads \ {t} : (Carries(u)' <=> Carries(u)) /\ fd'[u] = fd[u]
    BY <2>1
  <2>3. fd'[t] = client_fd[slot[t]]
    BY <2>1
  <2>4. /\ client_fd'[slot[t]] = NoFd
        /\ \A d \in Slots \ {slot[t]} : client_fd'[d] = client_fd[d]
    BY <2>1
  <2>5. Carries(t)' => client_fd[slot[t]] # NoFd
    BY <2>3
  <2> HIDE DEF Carries, BaseInv
  <2>6. \A u \in Threads : Carries(u)' => file'[fd'[u]] # NoClient
    BY <2>1, <2>2, <2>3, <2>5 DEF FdsApart
  <2>7. /\ \A c \in Slots : client_fd'[c] # NoFd => file'[client_fd'[c]] # NoClient
        /\ \A c, d \in Slots : client_fd'[c] # NoFd /\ client_fd'[c] = client_fd'[d] => c = d
    BY <2>1, <2>4 DEF FdsApart
  <2>8. \A u, v \in Threads : Carries(u)' /\ Carries(v)' /\ fd'[u] = fd'[v] => u = v
    BY <2>1, <2>2, <2>3, <2>5 DEF FdsApart
  <2>9. \A u \in Threads, c \in Slots : Carries(u)' => client_fd'[c] # fd'[u]
    <3> SUFFICES ASSUME NEW u \in Threads, NEW c \in Slots, Carries(u)' PROVE client_fd'[c] # fd'[u]
      OBVIOUS
    <3>1. CASE u = t
      BY <2>1, <2>3, <2>4, <2>5, <3>1 DEF FdsApart
    <3>2. CASE u # t
      <4>1. fd'[u] # NoFd
        BY DEF Carries
      <4>q. QED
        BY <2>1, <2>2, <2>4, <3>2, <4>1 DEF FdsApart
    <3>q. QED
      BY <3>1, <3>2
  <2>q. QED
    BY <2>6, <2>7, <2>8, <2>9 DEF FdsApart
<1>6. ASSUME NEW t \in Threads, FinalizeClose(t) \/ ShutClose(t) PROVE FdsApart'
  <2>1. /\ client_fd' = client_fd /\ ~Carries(t)'
        /\ \A u \in Threads \ {t} : pc'[u] = pc[u] /\ fd'[u] = fd[u]
        /\ file' = IF fd[t] = NoFd THEN file ELSE [file EXCEPT ![fd[t]] = NoClient]
    BY <1>6 DEF FinalizeClose, ShutClose, CloseFd, slotVars
  <2>2. \A u \in Threads \ {t} : (Carries(u)' <=> Carries(u)) /\ fd'[u] = fd[u]
    BY <2>1
  <2>3. fd[t] # NoFd => Carries(t)
    BY <1>6 DEF FinalizeClose, ShutClose, CloseFd
  <2>4. /\ \A u \in Threads : Carries(u) => fd[u] \in Fds
        /\ \A f \in Fds : file'[f] = file[f] \/ f = fd[t]
    BY <2>1
  <2>5. \A c \in Slots : client_fd[c] # NoFd => client_fd[c] \in Fds
    OBVIOUS
  <2>6. fd[t] # NoFd => /\ \A u \in Threads \ {t} : Carries(u) => fd[u] # fd[t]
                       /\ \A c \in Slots : client_fd[c] # fd[t]
    BY <2>3 DEF FdsApart
  <2> HIDE DEF Carries, BaseInv
  <2>7. \A u \in Threads : Carries(u)' => file'[fd'[u]] # NoClient
    BY <2>1, <2>2, <2>4, <2>6 DEF FdsApart
  <2>8. \A c \in Slots : client_fd'[c] # NoFd => file'[client_fd'[c]] # NoClient
    BY <2>1, <2>5, <2>4, <2>6 DEF FdsApart
  <2>9. /\ \A u, v \in Threads : Carries(u)' /\ Carries(v)' /\ fd'[u] = fd'[v] => u = v
        /\ \A u \in Threads, c \in Slots : Carries(u)' => client_fd'[c] # fd'[u]
    BY <2>1, <2>2 DEF FdsApart
  <2>q. QED
    BY <2>1, <2>7, <2>8, <2>9 DEF FdsApart
<1>q. QED
  <2> HIDE DEF BaseInv
  <2>q. QED
    BY FdStillOrMoves, <1>1, <1>2, <1>3, <1>4, <1>5, <1>6 DEF FdMoves

LEMMA FdsApartInit == Init => FdsApart
  BY DEF Init, FdsApart, Carries, CarryPcs, ClosePcs

LEMMA ApartClosesOnce == BaseInv /\ FdsApart => CloseOnce
  BY DEF FdsApart, CloseOnce, Carries, CarryPcs

-----------------------------------------------------------------------------
(* The theorems that hold whoever resets                                   *)

\* Every variable keeps its type, and a thread at work has a slot.
THEOREM TypeCorrect == Spec => []TypeOK
<1>1. BaseInv => TypeOK
  BY DEF BaseInv
<1>q. QED
  BY <1>1, BaseInit, BaseStep, PTL DEF Spec

\* finalizeIfDraining is exclusive: one thread at a time is past the
\* Draining -> Clearing CAS of a slot, and the slot is Clearing exactly then.
THEOREM TeardownExclusive == Spec => []FinalizeExclusive
  BY BaseInit, CountInit, BaseStep, ExclusiveStep, PTL DEF Spec

\* in_use_ is the number of slots that are not Free, up to the claims and the
\* teardowns under way, in every interleaving of every number of threads.
THEOREM PoolCountExact == Spec => []InUseExact
  BY BaseInit, CountInit, BaseStep, ExclusiveStep, CountStep, PTL DEF Spec

\* Every ::close is of an open descriptor, and no two threads are about to
\* close the same number: CloseConnection's exchange hands it to one of them,
\* whoever else resets or closes the connection meanwhile.
THEOREM ClosedOnce == Spec => []CloseOnce
  BY BaseInit, BaseStep, FdsApartInit, FdsApartStep, ApartClosesOnce, PTL DEF Spec

-----------------------------------------------------------------------------
(* The reference protocol, as long as only the threads that run a           *)
(* connection reset it (Resetters = {}): io_inflight_ is the number of      *)
(* references alive, a slot that goes back to the pool is named by none,    *)
(* one chain drives a connection, an operation works on its own client's    *)
(* socket, no descriptor is lost, and the slot implements the safety half   *)
(* of PooledSlot step by step.  MCSocketConnection_stale.cfg shows that a   *)
(* thread that resets without owning a reference breaks the second.         *)

\* Which references the frames of a worker hold at each instruction.
DrivePcs == ClaimPcs \cup ChainPcs \cup {"begin", "dispatch"}
HeldBy(t) ==
    /\ pc[t] \in {"idle", "lock", "claim"} => held[t] = {}
    /\ pc[t] \in ClaimPcs \cup {"begin", "dispatch"} => held[t] = {"dispatch"}
    /\ pc[t] \in ChainPcs => "chain" \in held[t]
    /\ pc[t] \in ChainPcs => ("work" \in held[t] <=> pc[t] = "submit")
    /\ pc[t] \in ChainPcs /\ stage[t] = "pre" => "dispatch" \notin held[t]
    /\ pc[t] \in {"rst_cas", "rst_fd", "rst_cancel"} => held[t] # {}
    /\ pc[t] \notin {"sweep"} \cup ShutPcs
    /\ live[t] = {}
HeldInv == \A t \in Threads : HeldBy(t)

\* The thread whose NoteComplete took the count to zero: there is one, and
\* nobody can count a reference before it has published Free, or has found
\* the slot still Serving and left it.
LastPcs == {"fin_load", "fin_cas"} \cup ClearPcs
Ending(t) == pc[t] \in LastPcs /\ held[t] = {}
EndHolds == \A t \in Threads : pc[t] \in {"fin_cas"} \cup ClearPcs => held[t] = {}
EndAlone == \A t, u \in Threads : Ending(t) /\ Ending(u) /\ slot[t] = slot[u] => t = u
EndCount == \A t \in Threads : Ending(t) =>
                IF pc[t] \in ClearPcs
                THEN io_inflight[slot[t]] = IF pc[t] = "fin_free" THEN 1 ELSE 0
                ELSE phase[slot[t]] \in {"Serving", "Draining"} /\ io_inflight[slot[t]] = 0
LastInv  == EndHolds /\ EndAlone /\ EndCount

\* A free slot already counts the dispatch reference of its next claimer.
FreeInv == \A c \in Slots : phase[c] = "Free" => io_inflight[c] = 1

\* One thread drives a connection, and none while an operation is pending;
\* one operation is pending at a time.
Driving(t, c) == slot[t] = c /\ pc[t] \in DrivePcs
DriverInv ==
    /\ \A c \in Slots : \A t, u \in Threads : Driving(t, c) /\ Driving(u, c) => t = u
    /\ \A t \in Threads, o \in ops : ~Driving(t, o.slot)
    /\ \A o, p \in ops : o.slot = p.slot => o = p

\* RefsCounted and NoStaleCompletion, with the only pending operation of a
\* slot counted by its existence.
Pending(c)  == \E o \in ops : o.slot = c
InRing(c)   == IF Pending(c) THEN 1 ELSE 0
CountedInv  == \A c \in Slots : phase[c] \in {"Serving", "Draining"} =>
                   io_inflight[c] = Cardinality(ThreadRefs(c)) + InRing(c)
Unnamed(c)  == (\A t \in Threads : slot[t] = c => held[t] = {}) /\ ~Pending(c)
CleanInv    == \A c \in Slots : phase[c] \in {"Free", "Clearing"} => Unnamed(c)

RefInv == /\ BaseInv /\ FinalizeExclusive /\ HeldInv
          /\ LastInv /\ FreeInv /\ DriverInv /\ CountedInv /\ CleanInv

-----------------------------------------------------------------------------
(* The references a worker holds at each instruction                       *)

LEMMA HeldStep == Resetters = {} /\ BaseInv /\ HeldInv /\ [Next]_vars => HeldInv'
<1> SUFFICES ASSUME Resetters = {}, BaseInv, HeldInv, [Next]_vars PROVE HeldInv'
  OBVIOUS
<1> USE DEF BaseInv, TypeOK, Goto, vars, slotVars, poolVars, threadVars, ringVars,
        Pcs, ClaimPcs, ChainPcs, ResetPcs, ClearPcs, ShutPcs, Stages, Threads, HeldInv, HeldBy
<1>1. ASSUME NEW t \in Threads, AcceptStep(t) PROVE HeldInv'
  <2>1. CASE LockPool(t)
    BY <2>1 DEF LockPool
  <2>2. ASSUME NEW c \in Slots, Claim(t, c) PROVE HeldInv'
    BY <2>2 DEF Claim
  <2>3. CASE RefuseClient(t)
    BY <2>3 DEF RefuseClient
  <2>4. CASE SetClientFd(t)
    BY <2>4 DEF SetClientFd
  <2>5. CASE MarkClaimed(t)
    BY <2>5 DEF MarkClaimed
  <2>6. CASE CountClaim(t)
    BY <2>6 DEF CountClaim
  <2>7. ASSUME NEW filtered \in Filtered, BeginDispatch(t, filtered) PROVE HeldInv'
    BY <2>7 DEF BeginDispatch
  <2>q. QED
    BY <1>1, <2>1, <2>2, <2>3, <2>4, <2>5, <2>6, <2>7 DEF AcceptStep
<1>2. ASSUME NEW t \in Threads, DispatchStep(t) PROVE HeldInv'
  <2>1. CASE Serve(t)
    BY <2>1 DEF Serve
  <2>2. CASE ServeDeclines(t)
    BY <2>2 DEF ServeDeclines
  <2>3. CASE NobodyTakes(t)
    BY <2>3 DEF NobodyTakes
  <2>q. QED
    BY <1>2, <2>1, <2>2, <2>3 DEF DispatchStep
<1>3. ASSUME NEW t \in Threads, ChainStep(t) PROVE HeldInv'
  <2>1. CASE CheckPhase(t)
    BY <2>1 DEF CheckPhase
  <2>2. CASE CheckTime(t)
    BY <2>2 DEF CheckTime
  <2>3. CASE CheckOpen(t)
    BY <2>3 DEF CheckOpen
  <2>4. CASE CheckSignal(t)
    BY <2>4 DEF CheckSignal, OnComplete, HandedOn
  <2>5. CASE PrepareOp(t)
    BY <2>5 DEF PrepareOp
  <2>6. CASE AcquireWork(t)
    BY <2>6 DEF AcquireWork
  <2>7. CASE SubmitOp(t)
    BY <2>7 DEF SubmitOp
  <2>8. CASE SubmitRefused(t)
    BY <2>8 DEF SubmitRefused
  <2>9. ASSUME NEW r \in {"error", "incomplete", "complete"}, OnBytes(t, r) PROVE HeldInv'
    BY <2>9 DEF OnBytes, OnComplete, HandedOn
  <2>10. ASSUME NEW persistent \in BOOLEAN, Respond(t, persistent) PROVE HeldInv'
    BY <2>10 DEF Respond
  <2>11. ASSUME NEW all \in BOOLEAN, Sent(t, all) PROVE HeldInv'
    BY <2>11 DEF Sent
  <2>12. CASE SendEnd(t)
    BY <2>12 DEF SendEnd
  <2>13. CASE RecycleForNextRequest(t)
    BY <2>13 DEF RecycleForNextRequest
  <2>q. QED
    BY <1>3, <2>1, <2>2, <2>3, <2>4, <2>5, <2>6, <2>7, <2>8, <2>9, <2>10, <2>11, <2>12, <2>13 DEF ChainStep
<1>4. ASSUME NEW t \in Threads, TeardownStep(t) PROVE HeldInv'
  <2>1. CASE ResetCas(t)
    BY <2>1 DEF ResetCas
  <2>2. CASE ResetLoadFd(t)
    BY <2>2 DEF ResetLoadFd
  <2>3. CASE ResetCancel(t)
    BY <2>3 DEF ResetCancel
  <2>4. CASE FinalizeLoad(t)
    BY <2>4 DEF FinalizeLoad
  <2>5. CASE FinalizeCas(t)
    BY <2>5 DEF FinalizeCas
  <2>6. CASE FinalizeExchange(t)
    BY <2>6 DEF FinalizeExchange, ExchangeFd
  <2>7. CASE FinalizeClose(t)
    BY <2>7 DEF FinalizeClose, CloseFd
  <2>8. CASE FinalizeClear(t)
    BY <2>8 DEF FinalizeClear
  <2>9. CASE FinalizeCounter(t)
    BY <2>9 DEF FinalizeCounter
  <2>10. CASE FinalizeSeed(t)
    BY <2>10 DEF FinalizeSeed
  <2>11. CASE FinalizeFree(t)
    BY <2>11 DEF FinalizeFree
  <2>12. CASE Release(t)
    BY <2>12 DEF Release
  <2>13. CASE Return(t)
    BY <2>13 DEF Return
  <2>q. QED
    BY <1>4, <2>1, <2>2, <2>3, <2>4, <2>5, <2>6, <2>7, <2>8, <2>9, <2>10, <2>11, <2>12, <2>13 DEF TeardownStep
<1>5. ASSUME NEW t \in Threads, NEW c \in Slots, Visit(t, c) PROVE HeldInv'
  BY <1>5 DEF Visit
<1>6. ASSUME NEW t \in Threads, ShutExchange(t) PROVE HeldInv'
  BY <1>6 DEF ShutExchange, ExchangeFd
<1>7. ASSUME NEW t \in Threads, ShutClose(t) PROVE HeldInv'
  BY <1>7 DEF ShutClose, CloseFd
<1>8. ASSUME NEW t \in Workers, NEW f \in Fds, Accept(t, f) PROVE HeldInv'
  BY <1>8 DEF Accept
<1>9. ASSUME NEW t \in Workers, NEW o \in ops, CompleteBytes(t, o) PROVE HeldInv'
  BY <1>9 DEF CompleteBytes, TakeCompletion
<1>10. ASSUME NEW t \in Workers, NEW o \in ops, CompleteClosed(t, o) PROVE HeldInv'
  BY <1>10 DEF CompleteClosed, TakeCompletion
<1>11. ASSUME NEW t \in Workers, NEW o \in ops, CompleteDead(t, o) PROVE HeldInv'
  BY <1>11 DEF CompleteDead, TakeCompletion
<1>12. ASSUME NEW t \in Resetters, Snapshot(t) PROVE HeldInv'
  BY <1>12 DEF Snapshot
<1>13. ASSUME NEW t \in Resetters, NEW c \in Slots, ShellReset(t, c) PROVE HeldInv'
  BY <1>13 DEF ShellReset
<1>14. ASSUME NEW t \in Resetters, NEW c \in Slots, ShellClose(t, c) PROVE HeldInv'
  BY <1>14 DEF ShellClose
<1>15. ASSUME NEW x \in cancels, ProcessCancel(x) PROVE HeldInv'
  BY <1>15 DEF ProcessCancel
<1>16. ASSUME NEW c \in Slots, TimePasses(c) PROVE HeldInv'
  BY <1>16 DEF TimePasses
<1>17. ASSUME Interrupt PROVE HeldInv'
  BY <1>17 DEF Interrupt
<1>18. CASE UNCHANGED vars
  BY <1>18
<1>q. QED
  <2> HIDE DEF Threads, HeldInv, BaseInv
  <2>q. QED
    BY <1>1, <1>2, <1>3, <1>4, <1>5, <1>6, <1>7, <1>8, <1>9, <1>10, <1>11, <1>12, <1>13, <1>14, <1>15, <1>16, <1>17, <1>18 DEF Next, Run, WorkerStarts, ResetterStarts

-----------------------------------------------------------------------------
(* What a step can do to the references                                    *)

\* Nothing, as far as they are concerned.
Calm ==
    /\ ops' = ops /\ io_inflight' = io_inflight
    /\ phase' = phase \/ \E c \in Slots : /\ phase[c] = "Serving"
                                         /\ phase' = [phase EXCEPT ![c] = "Draining"]
    /\ \A u \in Threads : held'[u] = held[u]
    /\ \A u \in Threads : held[u] # {} => slot'[u] = slot[u]
    /\ \A u \in Threads : pc'[u] \in DrivePcs => pc[u] \in DrivePcs
    /\ \A u \in Threads : pc'[u] \in LastPcs /\ (held[u] = {} \/ pc'[u] # "fin_load") =>
          /\ slot'[u] = slot[u] /\ pc[u] \in LastPcs
          /\ pc'[u] = "fin_load" <=> pc[u] = "fin_load"
          /\ pc'[u] \in ClearPcs <=> pc[u] \in ClearPcs
          /\ pc'[u] = "fin_free" <=> pc[u] = "fin_free"

\* The driver of a connection goes on driving it ...
DrivesOn(t) ==
    /\ pc[t] \in DrivePcs /\ pc'[t] \in DrivePcs
    /\ \A u \in Threads \ {t} : pc'[u] = pc[u]
    /\ ops' = ops /\ phase' = phase /\ slot' = slot

\* ... with another name for its reference (Disarm and adopt) ...
HandOver(t) ==
    /\ DrivesOn(t)
    /\ io_inflight' = io_inflight
    /\ \E a, b \in RefKinds : held[t] = {a} /\ held' = [held EXCEPT ![t] = {b}]

\* ... or with one more (Acquire).
AddRef(t) ==
    /\ DrivesOn(t)
    /\ io_inflight' = [io_inflight EXCEPT ![slot[t]] = @ + 1]
    /\ held[t] # {}
    /\ \E r \in RefKinds \ held[t] : held' = [held EXCEPT ![t] = @ \cup {r}]

Take(t, o) == \E next \in {"on_bytes", "sent", "rst_cas"} : TakeCompletion(t, o, next)

Stirs == \/ \E t \in Threads : \/ \E c \in Slots : Claim(t, c)
                               \/ HandOver(t) \/ AddRef(t) \/ SubmitOp(t)
                               \/ \E o \in ops : Take(t, o)
                               \/ FinalizeLoad(t) \/ FinalizeCas(t)
                               \/ FinalizeSeed(t) \/ FinalizeFree(t)
                               \/ Release(t)
         \/ \E x \in cancels : ProcessCancel(x)

LEMMA CalmOrStirs == Resetters = {} /\ BaseInv /\ HeldInv /\ [Next]_vars => Calm \/ Stirs
<1> SUFFICES ASSUME Resetters = {}, BaseInv, HeldInv, [Next]_vars PROVE Calm \/ Stirs
  OBVIOUS
<1> USE DEF BaseInv, TypeOK, SlotKnown, AtWork, Goto, vars, slotVars, poolVars, threadVars, ringVars,
        Pcs, ClaimPcs, ChainPcs, ResetPcs, ClearPcs, ShutPcs, Stages, Phases, Threads,
        HeldInv, HeldBy, DrivePcs, LastPcs, RefKinds, Calm
<1>1. ASSUME NEW t \in Threads, AcceptStep(t) PROVE Calm \/ Stirs
  <2>1. CASE LockPool(t)
    BY <2>1 DEF LockPool
  <2>2. ASSUME NEW c \in Slots, Claim(t, c) PROVE Calm \/ Stirs
    BY <2>2 DEF Stirs
  <2>3. CASE RefuseClient(t)
    BY <2>3 DEF RefuseClient
  <2>4. CASE SetClientFd(t)
    BY <2>4 DEF SetClientFd
  <2>5. CASE MarkClaimed(t)
    BY <2>5 DEF MarkClaimed
  <2>6. CASE CountClaim(t)
    BY <2>6 DEF CountClaim
  <2>7. ASSUME NEW filtered \in Filtered, BeginDispatch(t, filtered) PROVE Calm \/ Stirs
    <3>1. Calm \/ HandOver(t)
      BY <2>7 DEF BeginDispatch, HandOver, DrivesOn
    <3>q. QED
      BY <3>1 DEF Stirs
  <2>q. QED
    BY <1>1, <2>1, <2>2, <2>3, <2>4, <2>5, <2>6, <2>7 DEF AcceptStep
<1>2. ASSUME NEW t \in Threads, DispatchStep(t) PROVE Calm \/ Stirs
  <2>1. CASE Serve(t)
    <3>1. held[t] = {"dispatch"} /\ held' = [held EXCEPT ![t] = {"dispatch", "chain"}]
      BY <2>1 DEF Serve
    <3>2. {"dispatch", "chain"} = {"dispatch"} \cup {"chain"} /\ "chain" \in RefKinds \ {"dispatch"}
      OBVIOUS
    <3>3. \E r \in RefKinds \ held[t] : held' = [held EXCEPT ![t] = held[t] \cup {r}]
      BY <3>1, <3>2, Zenon
    <3>4. DrivesOn(t)
      BY <2>1 DEF Serve, DrivesOn
    <3>5. AddRef(t)
      BY <2>1, <3>1, <3>3, <3>4 DEF Serve, AddRef
    <3>q. QED
      BY <3>5 DEF Stirs
  <2>2. CASE ServeDeclines(t)
    BY <2>2 DEF ServeDeclines
  <2>3. CASE NobodyTakes(t)
    BY <2>3 DEF NobodyTakes
  <2>q. QED
    BY <1>2, <2>1, <2>2, <2>3 DEF DispatchStep
<1>3. ASSUME NEW t \in Threads, ChainStep(t) PROVE Calm \/ Stirs
  <2>1. CASE CheckPhase(t)
    BY <2>1 DEF CheckPhase
  <2>2. CASE CheckTime(t)
    BY <2>2 DEF CheckTime
  <2>3. CASE CheckOpen(t)
    BY <2>3 DEF CheckOpen
  <2>4. CASE CheckSignal(t)
    <3>1. CASE ~interrupted /\ parsed[slot[t]] /\ stage[t] = "pre"
      <4>1. held[t] = {"chain"} /\ held' = [held EXCEPT ![t] = {"dispatch"}]
        BY <2>4, <3>1 DEF CheckSignal, HandedOn
      <4>2. DrivesOn(t)
        BY <2>4, <3>1 DEF CheckSignal, OnComplete, DrivesOn
      <4>3. HandOver(t)
        BY <2>4, <4>1, <4>2 DEF CheckSignal, HandOver
      <4>q. QED
        BY <4>3 DEF Stirs
    <3>2. CASE ~(~interrupted /\ parsed[slot[t]] /\ stage[t] = "pre")
      BY <2>4, <3>2 DEF CheckSignal, OnComplete, HandedOn
    <3>q. QED
      BY <3>1, <3>2
  <2>5. CASE PrepareOp(t)
    BY <2>5 DEF PrepareOp
  <2>6. CASE AcquireWork(t)
    <3>1. Calm \/ AddRef(t)
      BY <2>6 DEF AcquireWork, AddRef, DrivesOn
    <3>q. QED
      BY <3>1 DEF Stirs
  <2>7. CASE SubmitOp(t)
    BY <2>7 DEF Stirs
  <2>8. CASE SubmitRefused(t)
    BY <2>8 DEF SubmitRefused
  <2>9. ASSUME NEW r \in {"error", "incomplete", "complete"}, OnBytes(t, r) PROVE Calm \/ Stirs
    <3>1. CASE r = "complete" /\ stage[t] = "pre"
      <4>1. held[t] = {"chain"} /\ held' = [held EXCEPT ![t] = {"dispatch"}]
        BY <2>9, <3>1 DEF OnBytes, HandedOn
      <4>2. DrivesOn(t)
        BY <2>9, <3>1 DEF OnBytes, OnComplete, DrivesOn
      <4>3. HandOver(t)
        BY <2>9, <4>1, <4>2 DEF OnBytes, HandOver
      <4>q. QED
        BY <4>3 DEF Stirs
    <3>2. CASE ~(r = "complete" /\ stage[t] = "pre")
      BY <2>9, <3>2 DEF OnBytes, OnComplete, HandedOn
    <3>q. QED
      BY <3>1, <3>2
  <2>10. ASSUME NEW persistent \in BOOLEAN, Respond(t, persistent) PROVE Calm \/ Stirs
    BY <2>10 DEF Respond
  <2>11. ASSUME NEW all \in BOOLEAN, Sent(t, all) PROVE Calm \/ Stirs
    BY <2>11 DEF Sent
  <2>12. CASE SendEnd(t)
    BY <2>12 DEF SendEnd
  <2>13. CASE RecycleForNextRequest(t)
    BY <2>13 DEF RecycleForNextRequest
  <2>q. QED
    BY <1>3, <2>1, <2>2, <2>3, <2>4, <2>5, <2>6, <2>7, <2>8, <2>9, <2>10, <2>11, <2>12, <2>13 DEF ChainStep
<1>4. ASSUME NEW t \in Threads, TeardownStep(t) PROVE Calm \/ Stirs
  <2>1. CASE ResetCas(t)
    BY <2>1 DEF ResetCas
  <2>2. CASE ResetLoadFd(t)
    BY <2>2 DEF ResetLoadFd
  <2>3. CASE ResetCancel(t)
    BY <2>3 DEF ResetCancel
  <2>4. CASE FinalizeLoad(t)
    BY <2>4 DEF Stirs
  <2>5. CASE FinalizeCas(t)
    BY <2>5 DEF Stirs
  <2>6. CASE FinalizeExchange(t)
    BY <2>6 DEF FinalizeExchange, ExchangeFd
  <2>7. CASE FinalizeClose(t)
    BY <2>7 DEF FinalizeClose, CloseFd
  <2>8. CASE FinalizeClear(t)
    BY <2>8 DEF FinalizeClear
  <2>9. CASE FinalizeCounter(t)
    BY <2>9 DEF FinalizeCounter
  <2>10. CASE FinalizeSeed(t)
    BY <2>10 DEF Stirs
  <2>11. CASE FinalizeFree(t)
    BY <2>11 DEF Stirs
  <2>12. CASE Release(t)
    BY <2>12 DEF Stirs
  <2>13. CASE Return(t)
    BY <2>13 DEF Return
  <2>q. QED
    BY <1>4, <2>1, <2>2, <2>3, <2>4, <2>5, <2>6, <2>7, <2>8, <2>9, <2>10, <2>11, <2>12, <2>13 DEF TeardownStep
<1>5. ASSUME NEW t \in Threads, NEW c \in Slots, Visit(t, c) PROVE Calm \/ Stirs
  BY <1>5 DEF Visit
<1>6. ASSUME NEW t \in Threads, ShutExchange(t) PROVE Calm \/ Stirs
  BY <1>6 DEF ShutExchange, ExchangeFd
<1>7. ASSUME NEW t \in Threads, ShutClose(t) PROVE Calm \/ Stirs
  BY <1>7 DEF ShutClose, CloseFd
<1>8. ASSUME NEW t \in Workers, NEW f \in Fds, Accept(t, f) PROVE Calm \/ Stirs
  BY <1>8 DEF Accept
<1>9. ASSUME NEW t \in Workers, NEW o \in ops, CompleteBytes(t, o) PROVE Calm \/ Stirs
  <2>1. Take(t, o)
    BY <1>9 DEF Take, CompleteBytes
  <2>q. QED
    BY <2>1 DEF Stirs
<1>10. ASSUME NEW t \in Workers, NEW o \in ops, CompleteClosed(t, o) PROVE Calm \/ Stirs
  <2>1. Take(t, o)
    BY <1>10 DEF Take, CompleteClosed
  <2>q. QED
    BY <2>1 DEF Stirs
<1>11. ASSUME NEW t \in Workers, NEW o \in ops, CompleteDead(t, o) PROVE Calm \/ Stirs
  <2>1. Take(t, o)
    BY <1>11 DEF Take, CompleteDead
  <2>q. QED
    BY <2>1 DEF Stirs
<1>12. ASSUME NEW t \in Resetters, Snapshot(t) PROVE Calm \/ Stirs
  BY <1>12 DEF Snapshot
<1>13. ASSUME NEW t \in Resetters, NEW c \in Slots, ShellReset(t, c) PROVE Calm \/ Stirs
  BY <1>13 DEF ShellReset
<1>14. ASSUME NEW t \in Resetters, NEW c \in Slots, ShellClose(t, c) PROVE Calm \/ Stirs
  BY <1>14 DEF ShellClose
<1>15. ASSUME NEW x \in cancels, ProcessCancel(x) PROVE Calm \/ Stirs
  BY <1>15 DEF Stirs
<1>16. ASSUME NEW c \in Slots, TimePasses(c) PROVE Calm \/ Stirs
  BY <1>16 DEF TimePasses
<1>17. ASSUME Interrupt PROVE Calm \/ Stirs
  BY <1>17 DEF Interrupt
<1>18. CASE UNCHANGED vars
  BY <1>18
<1>q. QED
  <2> HIDE DEF Threads, HeldInv, BaseInv, Calm
  <2>q. QED
    BY <1>1, <1>2, <1>3, <1>4, <1>5, <1>6, <1>7, <1>8, <1>9, <1>10, <1>11, <1>12, <1>13, <1>14, <1>15, <1>16, <1>17, <1>18 DEF Next, Run, WorkerStarts, ResetterStarts

-----------------------------------------------------------------------------
(* Counting                                                                *)

LEMMA FiniteRefs == \A c \in Slots : IsFiniteSet(ThreadRefs(c)) /\ Cardinality(ThreadRefs(c)) \in Nat
<1>1. IsFiniteSet(RefKinds)
  <2>1. IsFiniteSet({"dispatch"}) /\ IsFiniteSet({"chain"}) /\ IsFiniteSet({"work"})
    BY FS_Singleton
  <2>2. IsFiniteSet({"dispatch"} \cup {"chain"})
    BY <2>1, FS_Union
  <2>3. IsFiniteSet(({"dispatch"} \cup {"chain"}) \cup {"work"})
    BY <2>1, <2>2, FS_Union
  <2>4. RefKinds = ({"dispatch"} \cup {"chain"}) \cup {"work"}
    BY DEF RefKinds
  <2>q. QED
    BY <2>3, <2>4
<1>2. IsFiniteSet(Threads \X RefKinds)
  BY <1>1, FS_Product, FiniteAssumption DEF FiniteAssumption
<1>3. \A c \in Slots : ThreadRefs(c) \in SUBSET (Threads \X RefKinds)
  BY DEF ThreadRefs
<1>4. \A c \in Slots : IsFiniteSet(ThreadRefs(c))
  BY <1>2, <1>3, FS_Subset
<1>q. QED
  BY <1>4, FS_CardinalityType

LEMMA RefsIn == \A c, t, r : <<t, r>> \in ThreadRefs(c) <=>
                    t \in Threads /\ r \in RefKinds /\ slot[t] = c /\ r \in held[t]
  BY DEF ThreadRefs

\* What the counts say of the references and of the phase.
LEMMA Alive ==
    ASSUME RefInv
    PROVE  /\ \A t \in Threads : held[t] # {} => /\ slot[t] \in Slots
                                                 /\ phase[slot[t]] \in {"Serving", "Draining"}
                                                 /\ io_inflight[slot[t]] >= 1
           /\ \A o \in ops : /\ o.slot \in Slots
                             /\ phase[o.slot] \in {"Serving", "Draining"}
                             /\ io_inflight[o.slot] >= 1
           /\ \A c \in Slots : phase[c] \in {"Serving", "Draining"} /\ io_inflight[c] = 0 => Unnamed(c)
<1>1. \A t \in Threads : held[t] # {} => slot[t] \in Slots /\ phase[slot[t]] \in {"Serving", "Draining"}
  BY DEF RefInv, BaseInv, TypeOK, SlotKnown, AtWork, Pcs, ClaimPcs, ChainPcs, ResetPcs, ClearPcs, ShutPcs,
         HeldInv, HeldBy, CleanInv, Unnamed, Phases
<1>2. \A o \in ops : o.slot \in Slots /\ phase[o.slot] \in {"Serving", "Draining"}
  BY DEF RefInv, BaseInv, TypeOK, Op, CleanInv, Unnamed, Pending, Phases
<1>3. ASSUME NEW c \in Slots, phase[c] \in {"Serving", "Draining"}, io_inflight[c] < 1
      PROVE  Unnamed(c)
  <2>1. io_inflight[c] = Cardinality(ThreadRefs(c)) + InRing(c) /\ Cardinality(ThreadRefs(c)) \in Nat
        /\ IsFiniteSet(ThreadRefs(c)) /\ io_inflight[c] \in Int
    BY <1>3, FiniteRefs DEF RefInv, CountedInv, BaseInv, TypeOK
  <2>2. Cardinality(ThreadRefs(c)) = 0 /\ ~Pending(c)
    BY <1>3, <2>1 DEF InRing
  <2>3. ThreadRefs(c) = {}
    BY <2>1, <2>2, FS_EmptySet
  <2>4. \A t \in Threads : slot[t] = c => held[t] = {}
    BY <2>3, RefsIn DEF RefInv, BaseInv, TypeOK
  <2>q. QED
    BY <2>2, <2>4 DEF Unnamed
<1>q. QED
  BY <1>1, <1>2, <1>3 DEF Unnamed, Pending, RefInv, BaseInv, TypeOK

\* The reference whose release takes the count to zero is the last one.
LEMMA OnlyOne ==
    ASSUME RefInv, NEW t \in Threads, held[t] # {}, io_inflight[slot[t]] = 1
    PROVE  /\ ~Pending(slot[t])
           /\ \E r \in RefKinds : held[t] = {r}
           /\ \A u \in Threads \ {t} : slot[u] = slot[t] => held[u] = {}
<1> DEFINE c == slot[t]
<1>1. c \in Slots /\ phase[c] \in {"Serving", "Draining"}
  BY Alive
<1>2. io_inflight[c] = Cardinality(ThreadRefs(c)) + InRing(c) /\ Cardinality(ThreadRefs(c)) \in Nat
      /\ IsFiniteSet(ThreadRefs(c))
  BY <1>1, FiniteRefs DEF RefInv, CountedInv
<1>3. PICK r \in RefKinds : r \in held[t]
  BY DEF RefInv, BaseInv, TypeOK
<1>4. <<t, r>> \in ThreadRefs(c)
  BY <1>3, RefsIn
<1>5. Cardinality(ThreadRefs(c)) # 0
  BY <1>2, <1>4, FS_EmptySet
<1>6. Cardinality(ThreadRefs(c)) = 1 /\ ~Pending(c)
  BY <1>2, <1>5 DEF InRing
<1>7. PICK x : ThreadRefs(c) = {x}
  BY <1>2, <1>6, FS_Singleton
<1>8. \A u \in Threads, q \in RefKinds : slot[u] = c /\ q \in held[u] => u = t /\ q = r
  <2> SUFFICES ASSUME NEW u \in Threads, NEW q \in RefKinds, slot[u] = c, q \in held[u]
               PROVE  u = t /\ q = r
    OBVIOUS
  <2>1. <<u, q>> \in ThreadRefs(c)
    BY RefsIn
  <2>2. <<u, q>> = <<t, r>>
    BY <2>1, <1>4, <1>7
  <2>q. QED
    BY <2>2
<1>9. held \in [Threads -> SUBSET RefKinds]
  BY DEF RefInv, BaseInv, TypeOK
<1>10. held[t] = {r}
  BY <1>3, <1>8, <1>9
<1>11. \A u \in Threads \ {t} : slot[u] = c => held[u] = {}
  BY <1>8, <1>9
<1>q. QED
  BY <1>6, <1>10, <1>11

LEMMA RefTypes ==
    ASSUME RefInv
    PROVE  /\ phase \in [Slots -> Phases] /\ io_inflight \in [Slots -> Int]
           /\ pc \in [Threads -> Pcs] /\ slot \in [Threads -> Slots \cup {NoSlot}]
           /\ held \in [Threads -> SUBSET RefKinds]
           /\ \A o \in ops : o.slot \in Slots
  BY DEF RefInv, BaseInv, TypeOK, Op

\* Whoever drives a connection holds a reference to it.
LEMMA DriverHolds == RefInv => \A t \in Threads : pc[t] \in DrivePcs => held[t] # {}
  BY DEF RefInv, HeldInv, HeldBy, DrivePcs

\* Nothing names the slot of the thread that took its count to zero.
LEMMA EndNamesNothing ==
    ASSUME RefInv
    PROVE  /\ \A u \in Threads : Ending(u) => slot[u] \in Slots /\ phase[slot[u]] # "Free"
           /\ \A t, u \in Threads : Ending(u) /\ slot[t] = slot[u] => held[t] = {}
           /\ \A o \in ops, u \in Threads : Ending(u) => o.slot # slot[u]
           /\ \A u \in Threads : pc[u] \in ClearPcs => phase[slot[u]] = "Clearing"
<1>1. \A u \in Threads : Ending(u) => slot[u] \in Slots
  BY DEF RefInv, BaseInv, SlotKnown, AtWork, Pcs, ResetPcs, Ending, LastPcs, ClearPcs
<1>2. \A u \in Threads : pc[u] \in ClearPcs => slot[u] \in Slots /\ phase[slot[u]] = "Clearing"
  <2>1. \A u \in Threads : pc[u] \in ClearPcs => Ending(u)
    BY DEF RefInv, LastInv, EndHolds, Ending, LastPcs
  <2>q. QED
    BY <1>1, <2>1 DEF RefInv, FinalizeExclusive, Finalizing
<1>3. \A u \in Threads : Ending(u) /\ pc[u] \notin ClearPcs =>
          phase[slot[u]] \in {"Serving", "Draining"} /\ io_inflight[slot[u]] = 0
  BY DEF RefInv, LastInv, EndCount
<1>4. \A u \in Threads : Ending(u) => Unnamed(slot[u])
  BY <1>1, <1>2, <1>3, Alive DEF RefInv, CleanInv
<1>q. QED
  BY <1>1, <1>2, <1>3, <1>4 DEF Unnamed, Pending

\* What single instructions know of the references their thread holds.
LEMMA HeldIdle == RefInv => \A t \in Threads : pc[t] \in {"idle", "claim"} => held[t] = {}
  BY DEF RefInv, HeldInv, HeldBy

LEMMA SlotAtWork == RefInv => \A t \in Threads : pc[t] \in {"submit", "unwind"} \cup LastPcs =>
                                  slot[t] \in Slots \/ (pc[t] = "unwind" /\ held[t] = {})
  BY DEF RefInv, BaseInv, SlotKnown, AtWork, Pcs, ClaimPcs, ChainPcs, ResetPcs, ClearPcs, LastPcs

LEMMA HeldSubmit == RefInv => \A t \in Threads : pc[t] = "submit" => "work" \in held[t] /\ slot[t] \in Slots
  BY Alive DEF RefInv, HeldInv, HeldBy, ChainPcs

LEMMA EndAt ==
    ASSUME RefInv
    PROVE  \A t \in Threads : pc[t] \in {"fin_cas", "fin_seed", "fin_free"} =>
               /\ held[t] = {} /\ Ending(t) /\ slot[t] \in Slots
               /\ pc[t] = "fin_free" => io_inflight[slot[t]] = 1
               /\ pc[t] \in {"fin_seed", "fin_free"} => pc[t] \in ClearPcs
  BY EndNamesNothing DEF RefInv, LastInv, EndHolds, EndCount, Ending, LastPcs, ClearPcs

LEMMA InnermostHeld == RefInv => \A t \in Threads : held[t] # {} => Innermost(t) \in held[t]
  BY RefTypes DEF Innermost, RefKinds

-----------------------------------------------------------------------------
(* Each kind of step                                                       *)

Protocol == LastInv /\ FreeInv /\ DriverInv /\ CountedInv /\ CleanInv

LEMMA SameRefs ==
    ASSUME NEW c, \A u \in Threads, r \in RefKinds :
                      slot'[u] = c /\ r \in held'[u] <=> slot[u] = c /\ r \in held[u]
    PROVE  ThreadRefs(c)' = ThreadRefs(c)
  BY DEF ThreadRefs

LEMMA OneMore ==
    ASSUME NEW c \in Slots, NEW x, x \notin ThreadRefs(c), ThreadRefs(c)' = ThreadRefs(c) \cup {x}
    PROVE  Cardinality(ThreadRefs(c)') = Cardinality(ThreadRefs(c)) + 1
  BY FiniteRefs, FS_AddElement, Zenon

LEMMA OneLess ==
    ASSUME NEW c \in Slots, NEW x \in ThreadRefs(c), ThreadRefs(c)' = ThreadRefs(c) \ {x}
    PROVE  Cardinality(ThreadRefs(c)') = Cardinality(ThreadRefs(c)) - 1
  BY FiniteRefs, FS_RemoveElement, Zenon

LEMMA CalmStep ==
    ASSUME RefInv, Calm
    PROVE  Protocol'
<1>i. LastInv /\ FreeInv /\ DriverInv /\ CountedInv /\ CleanInv
  BY DEF RefInv
<1>s. \A d \in Slots : io_inflight'[d] = io_inflight[d]
      /\ \A c \in Slots : phase'[c] = phase[c] \/ (phase[c] = "Serving" /\ phase'[c] = "Draining")
  BY RefTypes, Alive DEF Calm, Goto
<1>o. ops' = ops
  BY DEF Calm
<1>h. /\ \A u \in Threads : held'[u] = held[u]
      /\ \A u \in Threads : held[u] # {} => slot'[u] = slot[u]
      /\ \A u \in Threads : pc'[u] \in DrivePcs => pc[u] \in DrivePcs
      /\ \A u \in Threads : pc'[u] \in LastPcs /\ (held[u] = {} \/ pc'[u] # "fin_load") =>
            /\ slot'[u] = slot[u] /\ pc[u] \in LastPcs
            /\ pc'[u] = "fin_load" <=> pc[u] = "fin_load"
            /\ pc'[u] \in ClearPcs <=> pc[u] \in ClearPcs
            /\ pc'[u] = "fin_free" <=> pc[u] = "fin_free"
  BY DEF Calm
<1>1. EndHolds'
  BY RefTypes, Alive, EndNamesNothing, DriverHolds, <1>i, <1>s, <1>o, <1>h DEF LastInv, EndHolds, LastPcs, ClearPcs
<1>2. EndAlone'
  BY RefTypes, Alive, EndNamesNothing, DriverHolds, <1>i, <1>s, <1>o, <1>h DEF LastInv, EndAlone, Ending, LastPcs, ClearPcs
<1>3. EndCount'
  BY RefTypes, Alive, EndNamesNothing, DriverHolds, <1>i, <1>s, <1>o, <1>h DEF LastInv, EndCount, Ending, LastPcs, ClearPcs
<1>4. FreeInv'
  BY RefTypes, Alive, EndNamesNothing, DriverHolds, <1>i, <1>s, <1>o, <1>h DEF FreeInv, Phases, Ending, LastPcs
<1>5. DriverInv'
  BY RefTypes, Alive, EndNamesNothing, DriverHolds, <1>i, <1>s, <1>o, <1>h DEF DriverInv, Driving, CleanInv, Unnamed, Pending
<1>6. CleanInv'
  BY RefTypes, Alive, EndNamesNothing, DriverHolds, <1>i, <1>s, <1>o, <1>h DEF CleanInv, Unnamed, Pending, Phases
<1>7. CountedInv'
  <2>1. ASSUME NEW d \in Slots PROVE ThreadRefs(d)' = ThreadRefs(d)
    BY RefTypes, Alive, EndNamesNothing, DriverHolds, <1>i, <1>s, <1>o, <1>h, SameRefs
  <2>2. \A d \in Slots : Pending(d)' <=> Pending(d)
    BY <1>o DEF Pending
  <2>q. QED
    BY RefTypes, Alive, EndNamesNothing, DriverHolds, <1>i, <1>s, <1>o, <1>h, <2>1, <2>2 DEF CountedInv, InRing, Phases
<1>q. QED
  BY <1>1, <1>2, <1>3, <1>4, <1>5, <1>6, <1>7 DEF Protocol, LastInv

LEMMA ClaimStep ==
    ASSUME RefInv, NEW t \in Threads, NEW c \in Slots, Claim(t, c)
    PROVE  Protocol'
<1>i. LastInv /\ FreeInv /\ DriverInv /\ CountedInv /\ CleanInv
  BY DEF RefInv
<1>f. \A u \in Threads \ {t} : pc'[u] = pc[u] /\ slot'[u] = slot[u] /\ held'[u] = held[u]
  BY RefTypes DEF Goto, Claim, ringVars
<1>t. /\ pc'[t] = "set_fd" /\ slot'[t] = c /\ held'[t] = {"dispatch"} /\ held[t] = {} /\ pc[t] = "claim"
  BY RefTypes, Alive, HeldIdle DEF Claim, ringVars, Goto
<1>s. /\ \A d \in Slots : io_inflight'[d] = io_inflight[d]
      /\ phase[c] = "Free" /\ phase'[c] = "Serving" /\ \A d \in Slots \ {c} : phase'[d] = phase[d]
  BY RefTypes, Alive, <1>t DEF Claim, ringVars, Goto
<1>o. ops' = ops
  BY DEF Claim, ringVars
<1>1. EndHolds'
  BY RefTypes, Alive, EndNamesNothing, DriverHolds, <1>i, <1>f, <1>t, <1>s, <1>o DEF LastInv, EndHolds, LastPcs, ClearPcs, DrivePcs, ClaimPcs, ChainPcs
<1>2. EndAlone'
  BY RefTypes, Alive, EndNamesNothing, DriverHolds, <1>i, <1>f, <1>t, <1>s, <1>o DEF LastInv, EndAlone, Ending, LastPcs, ClearPcs, DrivePcs, ClaimPcs, ChainPcs
<1>3. EndCount'
  BY RefTypes, Alive, EndNamesNothing, DriverHolds, <1>i, <1>f, <1>t, <1>s, <1>o DEF LastInv, EndCount, Ending, LastPcs, ClearPcs, DrivePcs, ClaimPcs, ChainPcs
<1>4. FreeInv'
  BY RefTypes, Alive, EndNamesNothing, DriverHolds, <1>i, <1>f, <1>t, <1>s, <1>o DEF FreeInv, Phases, Ending, LastPcs
<1>5. DriverInv'
  BY RefTypes, Alive, EndNamesNothing, DriverHolds, <1>i, <1>f, <1>t, <1>s, <1>o DEF DriverInv, Driving, CleanInv, Unnamed, Pending, DrivePcs, ClaimPcs, ChainPcs
<1>6. CleanInv'
  BY RefTypes, Alive, EndNamesNothing, DriverHolds, <1>i, <1>f, <1>t, <1>s, <1>o DEF CleanInv, Unnamed, Pending, Phases
<1>7. CountedInv'
  <2>1. ASSUME NEW d \in Slots \ {c} PROVE ThreadRefs(d)' = ThreadRefs(d)
    BY RefTypes, Alive, EndNamesNothing, DriverHolds, <1>i, <1>f, <1>t, <1>s, <1>o, SameRefs
  <2>2. \A d \in Slots : Pending(d)' <=> Pending(d)
    BY <1>o DEF Pending
  <2>3. Unnamed(c) /\ io_inflight[c] = 1
    BY <1>i, <1>s DEF CleanInv, FreeInv
  <2>4. ThreadRefs(c)' = {<<t, "dispatch">>}
    BY RefTypes, Alive, EndNamesNothing, DriverHolds, <1>i, <1>f, <1>t, <1>s, <1>o, <2>3 DEF ThreadRefs, Unnamed, RefKinds
  <2>5. Cardinality(ThreadRefs(c)') = 1
    BY <2>4, FS_Singleton
  <2>q. QED
    BY RefTypes, Alive, EndNamesNothing, DriverHolds, <1>i, <1>f, <1>t, <1>s, <1>o, <2>1, <2>2, <2>3, <2>5 DEF CountedInv, InRing, Unnamed
<1>q. QED
  BY <1>1, <1>2, <1>3, <1>4, <1>5, <1>6, <1>7 DEF Protocol, LastInv

LEMMA HandOverStep ==
    ASSUME RefInv, NEW t \in Threads, HandOver(t)
    PROVE  Protocol'
<1>i. LastInv /\ FreeInv /\ DriverInv /\ CountedInv /\ CleanInv
  BY DEF RefInv
<1>f. \A u \in Threads \ {t} : pc'[u] = pc[u] /\ slot'[u] = slot[u] /\ held'[u] = held[u]
  BY RefTypes DEF Goto, HandOver, DrivesOn
<1>t. /\ pc[t] \in DrivePcs /\ pc'[t] \in DrivePcs /\ slot'[t] = slot[t] /\ held[t] # {} /\ slot[t] \in Slots
      /\ \E a, b \in RefKinds : held[t] = {a} /\ held'[t] = {b}
  BY RefTypes, Alive, DriverHolds DEF HandOver, DrivesOn, Goto
<1>s. \A d \in Slots : io_inflight'[d] = io_inflight[d] /\ phase'[d] = phase[d]
  BY RefTypes, Alive, <1>t DEF HandOver, DrivesOn, Goto
<1>o. ops' = ops
  BY DEF HandOver, DrivesOn
<1>1. EndHolds'
  BY RefTypes, Alive, EndNamesNothing, DriverHolds, <1>i, <1>f, <1>t, <1>s, <1>o DEF LastInv, EndHolds, LastPcs, ClearPcs, DrivePcs, ClaimPcs, ChainPcs
<1>2. EndAlone'
  BY RefTypes, Alive, EndNamesNothing, DriverHolds, <1>i, <1>f, <1>t, <1>s, <1>o DEF LastInv, EndAlone, Ending, LastPcs, ClearPcs, DrivePcs, ClaimPcs, ChainPcs
<1>3. EndCount'
  BY RefTypes, Alive, EndNamesNothing, DriverHolds, <1>i, <1>f, <1>t, <1>s, <1>o DEF LastInv, EndCount, Ending, LastPcs, ClearPcs, DrivePcs, ClaimPcs, ChainPcs
<1>4. FreeInv'
  BY RefTypes, Alive, EndNamesNothing, DriverHolds, <1>i, <1>f, <1>t, <1>s, <1>o DEF FreeInv, Phases, Ending, LastPcs
<1>5. DriverInv'
  BY RefTypes, Alive, EndNamesNothing, DriverHolds, <1>i, <1>f, <1>t, <1>s, <1>o DEF DriverInv, Driving, CleanInv, Unnamed, Pending, DrivePcs, ClaimPcs, ChainPcs
<1>6. CleanInv'
  BY RefTypes, Alive, EndNamesNothing, DriverHolds, <1>i, <1>f, <1>t, <1>s, <1>o DEF CleanInv, Unnamed, Pending, Phases
<1>7. CountedInv'
  <2> DEFINE c == slot[t]
  <2>1. ASSUME NEW d \in Slots \ {c} PROVE ThreadRefs(d)' = ThreadRefs(d)
    BY RefTypes, Alive, EndNamesNothing, DriverHolds, <1>i, <1>f, <1>t, <1>s, <1>o, SameRefs
  <2>2. \A d \in Slots : Pending(d)' <=> Pending(d)
    BY <1>o DEF Pending
  <2>3. PICK a \in RefKinds, b \in RefKinds : held[t] = {a} /\ held'[t] = {b}
    BY <1>t
  <2> DEFINE R == ThreadRefs(c) \ {<<t, a>>}
  <2>4. ThreadRefs(c)' = R \cup {<<t, b>>} /\ <<t, a>> \in ThreadRefs(c) /\ <<t, b>> \notin R
    <3>1. <<t, a>> \in ThreadRefs(c)
      BY <2>3, RefsIn
    <3>2. \A u \in Threads \ {t}, r \in RefKinds : <<u, r>> \in ThreadRefs(c)' <=> <<u, r>> \in ThreadRefs(c)
      BY <1>f, <1>t DEF ThreadRefs
    <3>3. \A r : <<t, r>> \in ThreadRefs(c) <=> r = a
      BY <2>3 DEF ThreadRefs
    <3>4. \A r : <<t, r>> \in ThreadRefs(c)' <=> r = b
      BY <2>3, <1>t DEF ThreadRefs
    <3>5. ThreadRefs(c) \subseteq Threads \X RefKinds /\ ThreadRefs(c)' \subseteq Threads \X RefKinds
      BY DEF ThreadRefs
    <3>6. <<t, b>> \notin R
      BY <3>3
    <3>7. ASSUME NEW x \in ThreadRefs(c)' PROVE x \in R \cup {<<t, b>>}
      <4>1. PICK u \in Threads, r \in RefKinds : x = <<u, r>>
        BY <3>5
      <4>q. QED
        BY <4>1, <3>2, <3>4
    <3>8. ASSUME NEW x \in R \cup {<<t, b>>} PROVE x \in ThreadRefs(c)'
      <4>1. PICK u \in Threads, r \in RefKinds : x = <<u, r>>
        BY <2>3, <3>5
      <4>q. QED
        BY <4>1, <3>2, <3>3, <3>4
    <3>q. QED
      BY <3>1, <3>6, <3>7, <3>8
  <2> HIDE DEF R
  <2>5. IsFiniteSet(R) /\ Cardinality(R) = Cardinality(ThreadRefs(c)) - 1
    BY <1>t, <2>4, FiniteRefs, FS_RemoveElement, Zenon DEF R
  <2>6. Cardinality(R \cup {<<t, b>>}) = Cardinality(R) + 1
    BY <2>4, <2>5, FS_AddElement, Zenon
  <2>7. Cardinality(ThreadRefs(c)') = Cardinality(ThreadRefs(c))
    BY <1>t, <2>4, <2>5, <2>6, FiniteRefs
  <2>q. QED
    BY RefTypes, Alive, EndNamesNothing, DriverHolds, <1>i, <1>f, <1>t, <1>s, <1>o, <2>1, <2>2, <2>7 DEF CountedInv, InRing
<1>q. QED
  BY <1>1, <1>2, <1>3, <1>4, <1>5, <1>6, <1>7 DEF Protocol, LastInv

LEMMA AddRefStep ==
    ASSUME RefInv, NEW t \in Threads, AddRef(t)
    PROVE  Protocol'
<1>i. LastInv /\ FreeInv /\ DriverInv /\ CountedInv /\ CleanInv
  BY DEF RefInv
<1>f. \A u \in Threads \ {t} : pc'[u] = pc[u] /\ slot'[u] = slot[u] /\ held'[u] = held[u]
  BY RefTypes DEF Goto, AddRef, DrivesOn
<1>t. /\ pc[t] \in DrivePcs /\ pc'[t] \in DrivePcs /\ slot'[t] = slot[t] /\ held[t] # {} /\ slot[t] \in Slots
      /\ \E r \in RefKinds \ held[t] : held'[t] = held[t] \cup {r}
  BY RefTypes, Alive, DriverHolds DEF AddRef, DrivesOn, Goto
<1>s. /\ \A d \in Slots : phase'[d] = phase[d]
      /\ io_inflight'[slot[t]] = io_inflight[slot[t]] + 1 /\ \A d \in Slots \ {slot[t]} : io_inflight'[d] = io_inflight[d]
  BY RefTypes, Alive, <1>t DEF AddRef, DrivesOn, Goto
<1>o. ops' = ops
  BY DEF AddRef, DrivesOn
<1>1. EndHolds'
  BY RefTypes, Alive, EndNamesNothing, DriverHolds, <1>i, <1>f, <1>t, <1>s, <1>o DEF LastInv, EndHolds, LastPcs, ClearPcs, DrivePcs, ClaimPcs, ChainPcs
<1>2. EndAlone'
  BY RefTypes, Alive, EndNamesNothing, DriverHolds, <1>i, <1>f, <1>t, <1>s, <1>o DEF LastInv, EndAlone, Ending, LastPcs, ClearPcs, DrivePcs, ClaimPcs, ChainPcs
<1>3. EndCount'
  BY RefTypes, Alive, EndNamesNothing, DriverHolds, <1>i, <1>f, <1>t, <1>s, <1>o DEF LastInv, EndCount, Ending, LastPcs, ClearPcs, DrivePcs, ClaimPcs, ChainPcs
<1>4. FreeInv'
  BY RefTypes, Alive, EndNamesNothing, DriverHolds, <1>i, <1>f, <1>t, <1>s, <1>o DEF FreeInv, Phases, Ending, LastPcs
<1>5. DriverInv'
  BY RefTypes, Alive, EndNamesNothing, DriverHolds, <1>i, <1>f, <1>t, <1>s, <1>o DEF DriverInv, Driving, CleanInv, Unnamed, Pending, DrivePcs, ClaimPcs, ChainPcs
<1>6. CleanInv'
  BY RefTypes, Alive, EndNamesNothing, DriverHolds, <1>i, <1>f, <1>t, <1>s, <1>o DEF CleanInv, Unnamed, Pending, Phases
<1>7. CountedInv'
  <2> DEFINE c == slot[t]
  <2>0. PICK r \in RefKinds \ held[t] : held'[t] = held[t] \cup {r}
    BY <1>t
  <2>1. ASSUME NEW d \in Slots \ {c} PROVE ThreadRefs(d)' = ThreadRefs(d)
    BY RefTypes, Alive, EndNamesNothing, DriverHolds, <1>i, <1>f, <1>t, <1>s, <1>o, <2>0, SameRefs
  <2>2. \A d \in Slots : Pending(d)' <=> Pending(d)
    BY RefTypes, Alive, EndNamesNothing, DriverHolds, <1>i, <1>f, <1>t, <1>s, <1>o, <2>0 DEF Pending, DriverInv, Driving, DrivePcs, ChainPcs
  <2>3. ThreadRefs(c)' = ThreadRefs(c) \cup {<<t, r>>} /\ <<t, r>> \notin ThreadRefs(c)
    BY RefTypes, Alive, EndNamesNothing, DriverHolds, <1>i, <1>f, <1>t, <1>s, <1>o, <2>0 DEF ThreadRefs, RefKinds
  <2>4. Cardinality(ThreadRefs(c)') = Cardinality(ThreadRefs(c)) + 1
    BY <1>t, <2>3, OneMore
  <2>q. QED
    BY RefTypes, Alive, EndNamesNothing, DriverHolds, <1>i, <1>f, <1>t, <1>s, <1>o, <2>0, <2>1, <2>2, <2>4, FiniteRefs DEF CountedInv, InRing
<1>q. QED
  BY <1>1, <1>2, <1>3, <1>4, <1>5, <1>6, <1>7 DEF Protocol, LastInv

LEMMA SubmitStep ==
    ASSUME RefInv, NEW t \in Threads, SubmitOp(t)
    PROVE  Protocol'
<1>i. LastInv /\ FreeInv /\ DriverInv /\ CountedInv /\ CleanInv
  BY DEF RefInv
<1>f. \A u \in Threads \ {t} : pc'[u] = pc[u] /\ slot'[u] = slot[u] /\ held'[u] = held[u]
  BY RefTypes DEF Goto, SubmitOp, slotVars
<1>t. /\ pc[t] = "submit" /\ pc'[t] = "unwind" /\ slot'[t] = slot[t] /\ slot[t] \in Slots
      /\ "work" \in held[t] /\ held'[t] = held[t] \ {"work"}
  BY RefTypes, Alive, HeldSubmit DEF SubmitOp, slotVars, Goto
<1>s. \A d \in Slots : io_inflight'[d] = io_inflight[d] /\ phase'[d] = phase[d]
  BY RefTypes, Alive, <1>t DEF SubmitOp, slotVars, Goto
<1>o. \E o : o.slot = slot[t] /\ ops' = ops \cup {o}
  <2> DEFINE o == [slot |-> slot[t], fd |-> fd[t], file |-> FileOf(fd[t]),
                   stage |-> stage[t], dead |-> FileOf(fd[t]) = NoClient]
  <2>1. o.slot = slot[t]
    OBVIOUS
  <2>2. ops' = ops \cup {o}
    BY DEF SubmitOp
  <2> HIDE DEF o
  <2>q. QED
    BY <2>1, <2>2
<1>1. EndHolds'
  BY RefTypes, Alive, EndNamesNothing, DriverHolds, <1>i, <1>f, <1>t, <1>s, <1>o DEF LastInv, EndHolds, LastPcs, ClearPcs, DrivePcs, ClaimPcs, ChainPcs
<1>2. EndAlone'
  BY RefTypes, Alive, EndNamesNothing, DriverHolds, <1>i, <1>f, <1>t, <1>s, <1>o DEF LastInv, EndAlone, Ending, LastPcs, ClearPcs, DrivePcs, ClaimPcs, ChainPcs
<1>3. EndCount'
  BY RefTypes, Alive, EndNamesNothing, DriverHolds, <1>i, <1>f, <1>t, <1>s, <1>o DEF LastInv, EndCount, Ending, LastPcs, ClearPcs, DrivePcs, ClaimPcs, ChainPcs
<1>4. FreeInv'
  BY RefTypes, Alive, EndNamesNothing, DriverHolds, <1>i, <1>f, <1>t, <1>s, <1>o DEF FreeInv, Phases, Ending, LastPcs
<1>5. DriverInv'
  BY RefTypes, Alive, EndNamesNothing, DriverHolds, <1>i, <1>f, <1>t, <1>s, <1>o DEF DriverInv, Driving, CleanInv, Unnamed, Pending, DrivePcs, ClaimPcs, ChainPcs
<1>6. CleanInv'
  BY RefTypes, Alive, EndNamesNothing, DriverHolds, <1>i, <1>f, <1>t, <1>s, <1>o DEF CleanInv, Unnamed, Pending, Phases
<1>7. CountedInv'
  <2> DEFINE c == slot[t]
  <2>1. ASSUME NEW d \in Slots \ {c} PROVE ThreadRefs(d)' = ThreadRefs(d)
    BY RefTypes, Alive, EndNamesNothing, DriverHolds, <1>i, <1>f, <1>t, <1>s, <1>o, SameRefs
  <2>2. Pending(c)' /\ ~Pending(c) /\ \A d \in Slots \ {c} : Pending(d)' <=> Pending(d)
    BY RefTypes, Alive, EndNamesNothing, DriverHolds, <1>i, <1>f, <1>t, <1>s, <1>o DEF Pending, DriverInv, Driving, DrivePcs, ChainPcs
  <2>3. ThreadRefs(c)' = ThreadRefs(c) \ {<<t, "work">>} /\ <<t, "work">> \in ThreadRefs(c)
    BY RefTypes, Alive, EndNamesNothing, DriverHolds, <1>i, <1>f, <1>t, <1>s, <1>o DEF ThreadRefs, RefKinds
  <2>4. Cardinality(ThreadRefs(c)') = Cardinality(ThreadRefs(c)) - 1
    BY <1>t, <2>3, OneLess
  <2>q. QED
    BY RefTypes, Alive, EndNamesNothing, DriverHolds, <1>i, <1>f, <1>t, <1>s, <1>o, <2>1, <2>2, <2>4, FiniteRefs DEF CountedInv, InRing
<1>q. QED
  BY <1>1, <1>2, <1>3, <1>4, <1>5, <1>6, <1>7 DEF Protocol, LastInv

LEMMA TakeStep ==
    ASSUME RefInv, NEW t \in Threads, NEW o \in ops, Take(t, o)
    PROVE  Protocol'
<1>i. LastInv /\ FreeInv /\ DriverInv /\ CountedInv /\ CleanInv
  BY DEF RefInv
<1>f. \A u \in Threads \ {t} : pc'[u] = pc[u] /\ slot'[u] = slot[u] /\ held'[u] = held[u]
  BY RefTypes DEF Goto, Take, TakeCompletion, slotVars
<1>t. /\ pc[t] = "idle" /\ held[t] = {} /\ held'[t] = {"chain"} /\ slot'[t] = o.slot /\ o.slot \in Slots
      /\ pc'[t] \in {"on_bytes", "sent", "rst_cas"}
  BY RefTypes, Alive, HeldIdle DEF Take, TakeCompletion, slotVars, Goto
<1>s. \A d \in Slots : io_inflight'[d] = io_inflight[d] /\ phase'[d] = phase[d]
  BY RefTypes, Alive, <1>t DEF Take, TakeCompletion, slotVars, Goto
<1>o. ops' = ops \ {o}
  BY DEF Take, TakeCompletion, slotVars
<1>1. EndHolds'
  BY RefTypes, Alive, EndNamesNothing, DriverHolds, <1>i, <1>f, <1>t, <1>s, <1>o DEF LastInv, EndHolds, LastPcs, ClearPcs, DrivePcs, ClaimPcs, ChainPcs
<1>2. EndAlone'
  BY RefTypes, Alive, EndNamesNothing, DriverHolds, <1>i, <1>f, <1>t, <1>s, <1>o DEF LastInv, EndAlone, Ending, LastPcs, ClearPcs, DrivePcs, ClaimPcs, ChainPcs
<1>3. EndCount'
  BY RefTypes, Alive, EndNamesNothing, DriverHolds, <1>i, <1>f, <1>t, <1>s, <1>o DEF LastInv, EndCount, Ending, LastPcs, ClearPcs, DrivePcs, ClaimPcs, ChainPcs
<1>4. FreeInv'
  BY RefTypes, Alive, EndNamesNothing, DriverHolds, <1>i, <1>f, <1>t, <1>s, <1>o DEF FreeInv, Phases, Ending, LastPcs
<1>5. DriverInv'
  BY RefTypes, Alive, EndNamesNothing, DriverHolds, <1>i, <1>f, <1>t, <1>s, <1>o DEF DriverInv, Driving, CleanInv, Unnamed, Pending, DrivePcs, ClaimPcs, ChainPcs
<1>6. CleanInv'
  BY RefTypes, Alive, EndNamesNothing, DriverHolds, <1>i, <1>f, <1>t, <1>s, <1>o DEF CleanInv, Unnamed, Pending, Phases
<1>7. CountedInv'
  <2> DEFINE c == o.slot
  <2>1. ASSUME NEW d \in Slots \ {c} PROVE ThreadRefs(d)' = ThreadRefs(d)
    BY RefTypes, Alive, EndNamesNothing, DriverHolds, <1>i, <1>f, <1>t, <1>s, <1>o, SameRefs
  <2>2. Pending(c) /\ ~Pending(c)' /\ \A d \in Slots \ {c} : Pending(d)' <=> Pending(d)
    BY RefTypes, Alive, EndNamesNothing, DriverHolds, <1>i, <1>f, <1>t, <1>s, <1>o DEF Pending, DriverInv, Driving, DrivePcs, ChainPcs
  <2>3. ThreadRefs(c)' = ThreadRefs(c) \cup {<<t, "chain">>} /\ <<t, "chain">> \notin ThreadRefs(c)
    BY RefTypes, Alive, EndNamesNothing, DriverHolds, <1>i, <1>f, <1>t, <1>s, <1>o DEF ThreadRefs, RefKinds
  <2>4. Cardinality(ThreadRefs(c)') = Cardinality(ThreadRefs(c)) + 1
    BY <1>t, <2>3, OneMore
  <2>q. QED
    BY RefTypes, Alive, EndNamesNothing, DriverHolds, <1>i, <1>f, <1>t, <1>s, <1>o, <2>1, <2>2, <2>4, FiniteRefs DEF CountedInv, InRing
<1>q. QED
  BY <1>1, <1>2, <1>3, <1>4, <1>5, <1>6, <1>7 DEF Protocol, LastInv

LEMMA FinalizeLoadStep ==
    ASSUME RefInv, NEW t \in Threads, FinalizeLoad(t)
    PROVE  Protocol'
<1>i. LastInv /\ FreeInv /\ DriverInv /\ CountedInv /\ CleanInv
  BY DEF RefInv
<1>f. \A u \in Threads \ {t} : pc'[u] = pc[u] /\ slot'[u] = slot[u] /\ held'[u] = held[u]
  BY RefTypes DEF Goto, FinalizeLoad, slotVars, ringVars, LastPcs
<1>t. /\ pc[t] = "fin_load" /\ slot'[t] = slot[t] /\ held'[t] = held[t] /\ slot[t] \in Slots
      /\ pc'[t] = IF io_inflight[slot[t]] # 0 THEN "unwind" ELSE "fin_cas"
  BY RefTypes, Alive, SlotAtWork DEF FinalizeLoad, slotVars, ringVars, LastPcs, Goto
<1>s. \A d \in Slots : io_inflight'[d] = io_inflight[d] /\ phase'[d] = phase[d]
  BY RefTypes, Alive, <1>t DEF FinalizeLoad, slotVars, ringVars, LastPcs, Goto
<1>o. ops' = ops
  BY DEF FinalizeLoad, slotVars, ringVars, LastPcs
<1>1. EndHolds'
  BY RefTypes, Alive, EndNamesNothing, DriverHolds, <1>i, <1>f, <1>t, <1>s, <1>o DEF LastInv, EndHolds, LastPcs, ClearPcs, DrivePcs, ClaimPcs, ChainPcs
<1>2. EndAlone'
  BY RefTypes, Alive, EndNamesNothing, DriverHolds, <1>i, <1>f, <1>t, <1>s, <1>o DEF LastInv, EndAlone, Ending, LastPcs, ClearPcs, DrivePcs, ClaimPcs, ChainPcs
<1>3. EndCount'
  BY RefTypes, Alive, EndNamesNothing, DriverHolds, <1>i, <1>f, <1>t, <1>s, <1>o DEF LastInv, EndCount, Ending, LastPcs, ClearPcs, DrivePcs, ClaimPcs, ChainPcs
<1>4. FreeInv'
  BY RefTypes, Alive, EndNamesNothing, DriverHolds, <1>i, <1>f, <1>t, <1>s, <1>o DEF FreeInv, Phases, Ending, LastPcs
<1>5. DriverInv'
  BY RefTypes, Alive, EndNamesNothing, DriverHolds, <1>i, <1>f, <1>t, <1>s, <1>o DEF DriverInv, Driving, CleanInv, Unnamed, Pending, DrivePcs, ClaimPcs, ChainPcs
<1>6. CleanInv'
  BY RefTypes, Alive, EndNamesNothing, DriverHolds, <1>i, <1>f, <1>t, <1>s, <1>o DEF CleanInv, Unnamed, Pending, Phases
<1>7. CountedInv'
  <2>1. ASSUME NEW d \in Slots PROVE ThreadRefs(d)' = ThreadRefs(d)
    BY RefTypes, Alive, EndNamesNothing, DriverHolds, <1>i, <1>f, <1>t, <1>s, <1>o, SameRefs
  <2>2. \A d \in Slots : Pending(d)' <=> Pending(d)
    BY <1>o DEF Pending
  <2>q. QED
    BY RefTypes, Alive, EndNamesNothing, DriverHolds, <1>i, <1>f, <1>t, <1>s, <1>o, <2>1, <2>2 DEF CountedInv, InRing, Phases
<1>q. QED
  BY <1>1, <1>2, <1>3, <1>4, <1>5, <1>6, <1>7 DEF Protocol, LastInv

LEMMA FinalizeCasStep ==
    ASSUME RefInv, NEW t \in Threads, FinalizeCas(t)
    PROVE  Protocol'
<1>i. LastInv /\ FreeInv /\ DriverInv /\ CountedInv /\ CleanInv
  BY DEF RefInv
<1>f. \A u \in Threads \ {t} : pc'[u] = pc[u] /\ slot'[u] = slot[u] /\ held'[u] = held[u]
  BY RefTypes DEF Goto, FinalizeCas, ringVars
<1>t. /\ pc[t] = "fin_cas" /\ slot'[t] = slot[t] /\ held'[t] = held[t] /\ slot[t] \in Slots /\ held[t] = {} /\ Ending(t)
      /\ pc'[t] = IF phase[slot[t]] = "Draining" THEN "fin_exchange" ELSE "unwind"
  BY RefTypes, Alive, SlotAtWork, EndAt DEF FinalizeCas, ringVars, Goto
<1>s. /\ (\A d \in Slots : io_inflight'[d] = io_inflight[d]) /\ \A d \in Slots \ {slot[t]} : phase'[d] = phase[d]
      /\ phase'[slot[t]] = IF phase[slot[t]] = "Draining" THEN "Clearing" ELSE phase[slot[t]]
  BY RefTypes, Alive, <1>t DEF FinalizeCas, ringVars, Goto
<1>o. ops' = ops
  BY DEF FinalizeCas, ringVars
<1>1. EndHolds'
  BY RefTypes, Alive, EndNamesNothing, DriverHolds, <1>i, <1>f, <1>t, <1>s, <1>o DEF LastInv, EndHolds, LastPcs, ClearPcs, DrivePcs, ClaimPcs, ChainPcs
<1>2. EndAlone'
  BY RefTypes, Alive, EndNamesNothing, DriverHolds, <1>i, <1>f, <1>t, <1>s, <1>o DEF LastInv, EndAlone, Ending, LastPcs, ClearPcs, DrivePcs, ClaimPcs, ChainPcs
<1>3. EndCount'
  <2>1. ASSUME NEW u \in Threads \ {t}, Ending(u)' PROVE Ending(u) /\ slot[u] # slot[t]
    BY <1>f, <1>i, <1>t, <2>1 DEF LastInv, EndAlone, Ending
  <2>2. ASSUME NEW u \in Threads \ {t}, Ending(u)'
        PROVE  IF pc'[u] \in ClearPcs
               THEN io_inflight'[slot'[u]] = IF pc'[u] = "fin_free" THEN 1 ELSE 0
               ELSE phase'[slot'[u]] \in {"Serving", "Draining"} /\ io_inflight'[slot'[u]] = 0
    BY <2>1, <2>2, <1>f, <1>s, <1>i, EndNamesNothing DEF LastInv, EndCount
  <2>3. Ending(t)' => IF pc'[t] \in ClearPcs
               THEN io_inflight'[slot'[t]] = IF pc'[t] = "fin_free" THEN 1 ELSE 0
               ELSE phase'[slot'[t]] \in {"Serving", "Draining"} /\ io_inflight'[slot'[t]] = 0
    BY <1>t, <1>s, <1>i DEF LastInv, EndCount, Ending, LastPcs, ClearPcs
  <2>q. QED
    BY <2>2, <2>3 DEF EndCount
<1>4. FreeInv'
  BY RefTypes, Alive, EndNamesNothing, DriverHolds, <1>i, <1>f, <1>t, <1>s, <1>o DEF FreeInv, Phases, Ending, LastPcs
<1>5. DriverInv'
  BY RefTypes, Alive, EndNamesNothing, DriverHolds, <1>i, <1>f, <1>t, <1>s, <1>o DEF DriverInv, Driving, CleanInv, Unnamed, Pending, DrivePcs, ClaimPcs, ChainPcs
<1>6. CleanInv'
  BY RefTypes, Alive, EndNamesNothing, DriverHolds, <1>i, <1>f, <1>t, <1>s, <1>o DEF CleanInv, Unnamed, Pending, Phases
<1>7. CountedInv'
  <2>1. ASSUME NEW d \in Slots PROVE ThreadRefs(d)' = ThreadRefs(d)
    BY RefTypes, Alive, EndNamesNothing, DriverHolds, <1>i, <1>f, <1>t, <1>s, <1>o, SameRefs
  <2>2. \A d \in Slots : Pending(d)' <=> Pending(d)
    BY <1>o DEF Pending
  <2>q. QED
    BY RefTypes, Alive, EndNamesNothing, DriverHolds, <1>i, <1>f, <1>t, <1>s, <1>o, <2>1, <2>2 DEF CountedInv, InRing, Phases
<1>q. QED
  BY <1>1, <1>2, <1>3, <1>4, <1>5, <1>6, <1>7 DEF Protocol, LastInv

LEMMA FinalizeSeedStep ==
    ASSUME RefInv, NEW t \in Threads, FinalizeSeed(t)
    PROVE  Protocol'
<1>i. LastInv /\ FreeInv /\ DriverInv /\ CountedInv /\ CleanInv
  BY DEF RefInv
<1>f. \A u \in Threads \ {t} : pc'[u] = pc[u] /\ slot'[u] = slot[u] /\ held'[u] = held[u]
  BY RefTypes DEF Goto, FinalizeSeed, ringVars
<1>t. /\ pc[t] = "fin_seed" /\ slot'[t] = slot[t] /\ held'[t] = held[t] /\ slot[t] \in Slots /\ held[t] = {} /\ Ending(t)
      /\ pc'[t] = "fin_free" /\ phase[slot[t]] = "Clearing"
  BY RefTypes, Alive, SlotAtWork, EndAt, EndNamesNothing DEF FinalizeSeed, ringVars, Goto
<1>s. /\ \A d \in Slots : phase'[d] = phase[d]
      /\ io_inflight'[slot[t]] = 1 /\ \A d \in Slots \ {slot[t]} : io_inflight'[d] = io_inflight[d]
  BY RefTypes, Alive, <1>t DEF FinalizeSeed, ringVars, Goto
<1>o. ops' = ops
  BY DEF FinalizeSeed, ringVars
<1>1. EndHolds'
  BY RefTypes, Alive, EndNamesNothing, DriverHolds, <1>i, <1>f, <1>t, <1>s, <1>o DEF LastInv, EndHolds, LastPcs, ClearPcs, DrivePcs, ClaimPcs, ChainPcs
<1>2. EndAlone'
  BY RefTypes, Alive, EndNamesNothing, DriverHolds, <1>i, <1>f, <1>t, <1>s, <1>o DEF LastInv, EndAlone, Ending, LastPcs, ClearPcs, DrivePcs, ClaimPcs, ChainPcs
<1>3. EndCount'
  <2>1. ASSUME NEW u \in Threads \ {t}, Ending(u)' PROVE Ending(u) /\ slot[u] # slot[t]
    BY <1>f, <1>i, <1>t, <2>1 DEF LastInv, EndAlone, Ending
  <2>2. ASSUME NEW u \in Threads \ {t}, Ending(u)'
        PROVE  IF pc'[u] \in ClearPcs
               THEN io_inflight'[slot'[u]] = IF pc'[u] = "fin_free" THEN 1 ELSE 0
               ELSE phase'[slot'[u]] \in {"Serving", "Draining"} /\ io_inflight'[slot'[u]] = 0
    BY <2>1, <2>2, <1>f, <1>s, <1>i, EndNamesNothing DEF LastInv, EndCount
  <2>3. Ending(t)' => IF pc'[t] \in ClearPcs
               THEN io_inflight'[slot'[t]] = IF pc'[t] = "fin_free" THEN 1 ELSE 0
               ELSE phase'[slot'[t]] \in {"Serving", "Draining"} /\ io_inflight'[slot'[t]] = 0
    BY <1>t, <1>s, <1>i DEF LastInv, EndCount, Ending, LastPcs, ClearPcs
  <2>q. QED
    BY <2>2, <2>3 DEF EndCount
<1>4. FreeInv'
  BY RefTypes, Alive, EndNamesNothing, DriverHolds, <1>i, <1>f, <1>t, <1>s, <1>o DEF FreeInv, Phases, Ending, LastPcs
<1>5. DriverInv'
  BY RefTypes, Alive, EndNamesNothing, DriverHolds, <1>i, <1>f, <1>t, <1>s, <1>o DEF DriverInv, Driving, CleanInv, Unnamed, Pending, DrivePcs, ClaimPcs, ChainPcs
<1>6. CleanInv'
  BY RefTypes, Alive, EndNamesNothing, DriverHolds, <1>i, <1>f, <1>t, <1>s, <1>o DEF CleanInv, Unnamed, Pending, Phases
<1>7. CountedInv'
  <2>1. ASSUME NEW d \in Slots PROVE ThreadRefs(d)' = ThreadRefs(d)
    BY RefTypes, Alive, EndNamesNothing, DriverHolds, <1>i, <1>f, <1>t, <1>s, <1>o, SameRefs
  <2>2. \A d \in Slots : Pending(d)' <=> Pending(d)
    BY <1>o DEF Pending
  <2>q. QED
    BY RefTypes, Alive, EndNamesNothing, DriverHolds, <1>i, <1>f, <1>t, <1>s, <1>o, <2>1, <2>2 DEF CountedInv, InRing, Phases
<1>q. QED
  BY <1>1, <1>2, <1>3, <1>4, <1>5, <1>6, <1>7 DEF Protocol, LastInv

LEMMA FinalizeFreeStep ==
    ASSUME RefInv, NEW t \in Threads, FinalizeFree(t)
    PROVE  Protocol'
<1>i. LastInv /\ FreeInv /\ DriverInv /\ CountedInv /\ CleanInv
  BY DEF RefInv
<1>f. \A u \in Threads \ {t} : pc'[u] = pc[u] /\ slot'[u] = slot[u] /\ held'[u] = held[u]
  BY RefTypes DEF Goto, FinalizeFree, ringVars
<1>t. /\ pc[t] = "fin_free" /\ slot'[t] = slot[t] /\ held'[t] = held[t] /\ slot[t] \in Slots /\ held[t] = {} /\ Ending(t)
      /\ pc'[t] = "unwind" /\ phase[slot[t]] = "Clearing" /\ io_inflight[slot[t]] = 1
  BY RefTypes, Alive, SlotAtWork, EndAt, EndNamesNothing DEF FinalizeFree, ringVars, Goto
<1>s. /\ (\A d \in Slots : io_inflight'[d] = io_inflight[d])
      /\ phase'[slot[t]] = "Free" /\ \A d \in Slots \ {slot[t]} : phase'[d] = phase[d]
  BY RefTypes, Alive, <1>t DEF FinalizeFree, ringVars, Goto
<1>o. ops' = ops
  BY DEF FinalizeFree, ringVars
<1>1. EndHolds'
  BY RefTypes, Alive, EndNamesNothing, DriverHolds, <1>i, <1>f, <1>t, <1>s, <1>o DEF LastInv, EndHolds, LastPcs, ClearPcs, DrivePcs, ClaimPcs, ChainPcs
<1>2. EndAlone'
  BY RefTypes, Alive, EndNamesNothing, DriverHolds, <1>i, <1>f, <1>t, <1>s, <1>o DEF LastInv, EndAlone, Ending, LastPcs, ClearPcs, DrivePcs, ClaimPcs, ChainPcs
<1>3. EndCount'
  BY RefTypes, Alive, EndNamesNothing, DriverHolds, <1>i, <1>f, <1>t, <1>s, <1>o DEF LastInv, EndCount, Ending, LastPcs, ClearPcs, DrivePcs, ClaimPcs, ChainPcs
<1>4. FreeInv'
  BY RefTypes, Alive, EndNamesNothing, DriverHolds, <1>i, <1>f, <1>t, <1>s, <1>o DEF FreeInv, Phases, Ending, LastPcs
<1>5. DriverInv'
  BY RefTypes, Alive, EndNamesNothing, DriverHolds, <1>i, <1>f, <1>t, <1>s, <1>o DEF DriverInv, Driving, CleanInv, Unnamed, Pending, DrivePcs, ClaimPcs, ChainPcs
<1>6. CleanInv'
  BY RefTypes, Alive, EndNamesNothing, DriverHolds, <1>i, <1>f, <1>t, <1>s, <1>o DEF CleanInv, Unnamed, Pending, Phases
<1>7. CountedInv'
  <2>1. ASSUME NEW d \in Slots PROVE ThreadRefs(d)' = ThreadRefs(d)
    BY RefTypes, Alive, EndNamesNothing, DriverHolds, <1>i, <1>f, <1>t, <1>s, <1>o, SameRefs
  <2>2. \A d \in Slots : Pending(d)' <=> Pending(d)
    BY <1>o DEF Pending
  <2>q. QED
    BY RefTypes, Alive, EndNamesNothing, DriverHolds, <1>i, <1>f, <1>t, <1>s, <1>o, <2>1, <2>2 DEF CountedInv, InRing, Phases
<1>q. QED
  BY <1>1, <1>2, <1>3, <1>4, <1>5, <1>6, <1>7 DEF Protocol, LastInv

LEMMA ReleaseStep ==
    ASSUME RefInv, NEW t \in Threads, Release(t)
    PROVE  Protocol'
<1>i. LastInv /\ FreeInv /\ DriverInv /\ CountedInv /\ CleanInv
  BY DEF RefInv
<1>f. \A u \in Threads \ {t} : pc'[u] = pc[u] /\ slot'[u] = slot[u] /\ held'[u] = held[u]
  BY RefTypes DEF Goto, Release, ringVars
<1>t. /\ pc[t] = "unwind" /\ slot'[t] = slot[t] /\ slot[t] \in Slots /\ held[t] # {}
      /\ pc'[t] = (IF io_inflight[slot[t]] = 1 THEN "fin_load" ELSE "unwind")
      /\ \E r \in held[t] : held'[t] = held[t] \ {r}
  BY RefTypes, Alive, InnermostHeld DEF Release, ringVars, Goto
<1>s. /\ \A d \in Slots : phase'[d] = phase[d]
      /\ io_inflight'[slot[t]] = io_inflight[slot[t]] - 1 /\ \A d \in Slots \ {slot[t]} : io_inflight'[d] = io_inflight[d]
  BY RefTypes, Alive, <1>t DEF Release, ringVars, Goto
<1>o. ops' = ops
  BY DEF Release, ringVars
<1>1. EndHolds'
  BY RefTypes, Alive, EndNamesNothing, DriverHolds, <1>i, <1>f, <1>t, <1>s, <1>o DEF LastInv, EndHolds, LastPcs, ClearPcs, DrivePcs, ClaimPcs, ChainPcs
<1>2. EndAlone'
  BY RefTypes, Alive, EndNamesNothing, DriverHolds, <1>i, <1>f, <1>t, <1>s, <1>o, OnlyOne DEF LastInv, EndAlone, Ending, LastPcs, ClearPcs, DrivePcs, ClaimPcs, ChainPcs
<1>3. EndCount'
  BY RefTypes, Alive, EndNamesNothing, DriverHolds, <1>i, <1>f, <1>t, <1>s, <1>o, OnlyOne DEF LastInv, EndCount, Ending, LastPcs, ClearPcs, DrivePcs, ClaimPcs, ChainPcs
<1>4. FreeInv'
  BY RefTypes, Alive, EndNamesNothing, DriverHolds, <1>i, <1>f, <1>t, <1>s, <1>o DEF FreeInv, Phases, Ending, LastPcs
<1>5. DriverInv'
  BY RefTypes, Alive, EndNamesNothing, DriverHolds, <1>i, <1>f, <1>t, <1>s, <1>o DEF DriverInv, Driving, CleanInv, Unnamed, Pending, DrivePcs, ClaimPcs, ChainPcs
<1>6. CleanInv'
  BY RefTypes, Alive, EndNamesNothing, DriverHolds, <1>i, <1>f, <1>t, <1>s, <1>o DEF CleanInv, Unnamed, Pending, Phases
<1>7. CountedInv'
  <2> DEFINE c == slot[t]
  <2>0. PICK r \in held[t] : held'[t] = held[t] \ {r}
    BY <1>t
  <2>1. ASSUME NEW d \in Slots \ {c} PROVE ThreadRefs(d)' = ThreadRefs(d)
    BY RefTypes, Alive, EndNamesNothing, DriverHolds, <1>i, <1>f, <1>t, <1>s, <1>o, <2>0, SameRefs
  <2>2. \A d \in Slots : Pending(d)' <=> Pending(d)
    BY RefTypes, Alive, EndNamesNothing, DriverHolds, <1>i, <1>f, <1>t, <1>s, <1>o, <2>0 DEF Pending, DriverInv, Driving, DrivePcs, ChainPcs
  <2>3. ThreadRefs(c)' = ThreadRefs(c) \ {<<t, r>>} /\ <<t, r>> \in ThreadRefs(c)
    BY RefTypes, Alive, EndNamesNothing, DriverHolds, <1>i, <1>f, <1>t, <1>s, <1>o, <2>0 DEF ThreadRefs, RefKinds
  <2>4. Cardinality(ThreadRefs(c)') = Cardinality(ThreadRefs(c)) - 1
    BY <1>t, <2>3, OneLess
  <2>q. QED
    BY RefTypes, Alive, EndNamesNothing, DriverHolds, <1>i, <1>f, <1>t, <1>s, <1>o, <2>0, <2>1, <2>2, <2>4, FiniteRefs DEF CountedInv, InRing
<1>q. QED
  BY <1>1, <1>2, <1>3, <1>4, <1>5, <1>6, <1>7 DEF Protocol, LastInv

LEMMA CancelStep ==
    ASSUME RefInv, NEW x \in cancels, ProcessCancel(x)
    PROVE  Protocol'
<1>i. LastInv /\ FreeInv /\ DriverInv /\ CountedInv /\ CleanInv
  BY DEF RefInv
<1>s. slot' = slot /\ pc' = pc /\ held' = held /\ phase' = phase /\ io_inflight' = io_inflight
  BY RefTypes, Alive DEF ProcessCancel, slotVars, threadVars, poolVars, Goto
<1>o. ops' = {IF o.file = file[x.fd] /\ o.file # NoClient THEN [o EXCEPT !.dead = TRUE] ELSE o : o \in ops}
  BY DEF ProcessCancel, slotVars, threadVars, poolVars
<1>p. /\ \A o \in ops : \E p \in ops' : p.slot = o.slot
      /\ \A p \in ops' : \E o \in ops : p.slot = o.slot
      /\ \A p, q \in ops' : p.slot = q.slot => p = q
  <2> DEFINE Killed(o) == IF o.file = file[x.fd] /\ o.file # NoClient THEN [o EXCEPT !.dead = TRUE] ELSE o
  <2>1. \A o \in ops : Killed(o).slot = o.slot
    BY DEF RefInv, BaseInv, TypeOK, Op
  <2>2. ops' = {Killed(o) : o \in ops}
    BY <1>o
  <2> HIDE DEF Killed
  <2>3. \A p, q \in ops' : p.slot = q.slot => p = q
    BY <1>i, <2>1, <2>2 DEF DriverInv
  <2>q. QED
    BY <2>1, <2>2, <2>3
<1>1. EndHolds'
  BY RefTypes, Alive, EndNamesNothing, DriverHolds, <1>i, <1>s, <1>p DEF LastInv, EndHolds, LastPcs, ClearPcs, DrivePcs, ClaimPcs, ChainPcs
<1>2. EndAlone'
  BY RefTypes, Alive, EndNamesNothing, DriverHolds, <1>i, <1>s, <1>p DEF LastInv, EndAlone, Ending, LastPcs, ClearPcs, DrivePcs, ClaimPcs, ChainPcs
<1>3. EndCount'
  BY RefTypes, Alive, EndNamesNothing, DriverHolds, <1>i, <1>s, <1>p DEF LastInv, EndCount, Ending, LastPcs, ClearPcs, DrivePcs, ClaimPcs, ChainPcs
<1>4. FreeInv'
  BY RefTypes, Alive, EndNamesNothing, DriverHolds, <1>i, <1>s, <1>p DEF FreeInv, Phases, Ending, LastPcs
<1>5. DriverInv'
  BY RefTypes, Alive, EndNamesNothing, DriverHolds, <1>i, <1>s, <1>p DEF DriverInv, Driving, CleanInv, Unnamed, Pending, DrivePcs, ClaimPcs, ChainPcs
<1>6. CleanInv'
  BY RefTypes, Alive, EndNamesNothing, DriverHolds, <1>i, <1>s, <1>p DEF CleanInv, Unnamed, Pending, Phases
<1>7. CountedInv'
  <2>1. ASSUME NEW d \in Slots PROVE ThreadRefs(d)' = ThreadRefs(d)
    BY RefTypes, Alive, EndNamesNothing, DriverHolds, <1>i, <1>s, <1>p, SameRefs
  <2>2. \A d \in Slots : Pending(d)' <=> Pending(d)
    BY <1>p DEF Pending
  <2>q. QED
    BY RefTypes, Alive, EndNamesNothing, DriverHolds, <1>i, <1>s, <1>p, <2>1, <2>2 DEF CountedInv, InRing, Phases
<1>q. QED
  BY <1>1, <1>2, <1>3, <1>4, <1>5, <1>6, <1>7 DEF Protocol, LastInv

-----------------------------------------------------------------------------
(* The inductive invariant                                                 *)

LEMMA RefInit == Init => RefInv
<1> SUFFICES ASSUME Init PROVE RefInv
  OBVIOUS
<1>1. BaseInv /\ FinalizeExclusive
  BY BaseInit, CountInit
<1>2. HeldInv
  BY DEF Init, HeldInv, HeldBy, ClaimPcs, ChainPcs, ShutPcs
<1>3. LastInv
  BY DEF Init, LastInv, EndHolds, EndAlone, EndCount, Ending, LastPcs, ClearPcs
<1>4. FreeInv /\ DriverInv
  BY DEF Init, FreeInv, DriverInv, Driving, DrivePcs, ClaimPcs, ChainPcs
<1>5. CountedInv /\ CleanInv
  BY DEF Init, CountedInv, CleanInv, Unnamed, Pending
<1>q. QED
  BY <1>1, <1>2, <1>3, <1>4, <1>5 DEF RefInv

LEMMA RefStep == Resetters = {} /\ RefInv /\ [Next]_vars => RefInv'
<1> SUFFICES ASSUME Resetters = {}, RefInv, [Next]_vars PROVE RefInv'
  OBVIOUS
<1>1. BaseInv' /\ FinalizeExclusive'
  BY BaseStep, ExclusiveStep DEF RefInv
<1>2. HeldInv'
  BY HeldStep DEF RefInv
<1>3. Protocol'
  <2>1. Calm \/ Stirs
    BY CalmOrStirs DEF RefInv
  <2>q. QED
    BY <2>1, CalmStep, ClaimStep, HandOverStep, AddRefStep, SubmitStep, TakeStep, FinalizeLoadStep,
       FinalizeCasStep, FinalizeSeedStep, FinalizeFreeStep, ReleaseStep, CancelStep DEF Stirs
<1>q. QED
  BY <1>1, <1>2, <1>3 DEF RefInv, Protocol

LEMMA RingCounts ==
    ASSUME RefInv
    PROVE  \A c \in Slots : /\ IsFiniteSet(RingRefs(c)) /\ Cardinality(RingRefs(c)) = InRing(c)
                            /\ Pending(c) <=> RingRefs(c) # {}
<1> SUFFICES ASSUME NEW c \in Slots
             PROVE  /\ IsFiniteSet(RingRefs(c)) /\ Cardinality(RingRefs(c)) = InRing(c)
                    /\ Pending(c) <=> RingRefs(c) # {}
  OBVIOUS
<1>1. CASE Pending(c)
  <2>1. PICK o \in ops : o.slot = c
    BY <1>1 DEF Pending
  <2>2. RingRefs(c) = {o}
    BY <2>1 DEF RingRefs, RefInv, DriverInv
  <2>q. QED
    BY <1>1, <2>2, FS_Singleton DEF InRing
<1>2. CASE ~Pending(c)
  <2>1. RingRefs(c) = {}
    BY <1>2 DEF Pending, RingRefs
  <2>q. QED
    BY <1>2, <2>1, FS_EmptySet DEF InRing
<1>q. QED
  BY <1>1, <1>2

LEMMA RefInvImplies == RefInv => RefsCounted /\ NoStaleCompletion /\ OneDriver
<1> SUFFICES ASSUME RefInv PROVE RefsCounted /\ NoStaleCompletion /\ OneDriver
  OBVIOUS
<1>1. RefsCounted
  BY RingCounts DEF RefsCounted, RefInv, CountedInv
<1>2. NoStaleCompletion
  <2>1. \A c \in Slots : Unnamed(c) => ThreadRefs(c) = {} /\ RingRefs(c) = {}
    BY RingCounts DEF Unnamed, ThreadRefs
  <2>q. QED
    BY <2>1 DEF NoStaleCompletion, RefInv, CleanInv
<1>3. OneDriver
  <2> SUFFICES ASSUME NEW c \in Slots
               PROVE  Cardinality(Drivers(c)) + Cardinality(RingRefs(c)) <= 1
    BY DEF OneDriver
  <2>1. \A t \in Drivers(c) : t \in Threads /\ Driving(t, c)
    BY DEF Drivers, Driving, DrivePcs, Threads
  <2>2. CASE Drivers(c) = {}
    BY <2>2, RingCounts, FS_EmptySet DEF InRing
  <2>3. ASSUME NEW t \in Drivers(c) PROVE Cardinality(Drivers(c)) + Cardinality(RingRefs(c)) <= 1
    <3>1. Drivers(c) = {t}
      BY <2>1 DEF RefInv, DriverInv
    <3>2. RingRefs(c) = {}
      BY <2>1 DEF RefInv, DriverInv, RingRefs
    <3>3. Cardinality(Drivers(c)) = 1
      BY <3>1, FS_Singleton, Zenon
    <3>4. Cardinality(RingRefs(c)) = 0
      BY <3>2, FS_EmptySet, Zenon
    <3>q. QED
      BY <3>3, <3>4
  <2>q. QED
    BY <2>2, <2>3
<1>q. QED
  BY <1>1, <1>2, <1>3

-----------------------------------------------------------------------------
(* Whose descriptor a slot, a frame or an operation names                  *)

\* The slot of a client keeps that client's descriptor, except while the
\* accept completion that claimed it has yet to store it.
Storing(c) == \E t \in Threads : pc[t] = "set_fd" /\ slot[t] = c
KeepsOwn  == \A c \in Slots : phase[c] \in {"Serving", "Draining"} /\ ~Storing(c) =>
                 client_fd[c] \in Fds /\ file[client_fd[c]] = owner[c]
StoresOwn == \A t \in Threads : pc[t] = "set_fd" =>
                 client_fd[slot[t]] = NoFd /\ file[fd[t]] = owner[slot[t]]

\* finalizeIfDraining leaves no descriptor behind.
EmptiedPcs == {"fin_close", "fin_clear", "fin_counter", "fin_seed", "fin_free"}
BareInv   == /\ \A c \in Slots : phase[c] = "Free" => client_fd[c] = NoFd
             /\ \A t \in Threads : pc[t] \in EmptiedPcs => client_fd[slot[t]] = NoFd

\* The number read for a submission is still the slot's when it is used.
NamesOwn  == \A t \in Threads : pc[t] \in {"acquire", "submit"} => fd[t] = client_fd[slot[t]]
OpsOwn    == \A o \in ops : o.fd = client_fd[o.slot] /\ o.file = owner[o.slot]

\* An open descriptor is somewhere.
NoneLost  == \A f \in Fds : file[f] # NoClient => \/ \E t \in Threads : Carries(t) /\ fd[t] = f
                                                  \/ \E c \in Slots : client_fd[c] = f

OwnInv    == KeepsOwn /\ StoresOwn /\ BareInv /\ NamesOwn /\ OpsOwn /\ NoneLost

OwnMoves == \E t \in Threads : \/ \E f \in Fds : Accept(t, f)
                               \/ \E c \in Slots : Claim(t, c)
                               \/ RefuseClient(t) \/ SetClientFd(t) \/ SubmitOp(t)
                               \/ FinalizeCas(t) \/ FinalizeExchange(t)
                               \/ FinalizeClose(t) \/ FinalizeFree(t)

\* The other steps leave descriptors, owners and operations alone, and start
\* nothing that depends on them but PrepareOp's read.
OwnStill ==
    /\ file' = file /\ client_fd' = client_fd /\ owner' = owner
    /\ \A c \in Slots : phase'[c] = phase[c] \/ (phase[c] = "Serving" /\ phase'[c] = "Draining")
    /\ \A u \in Threads : Carries(u)' <=> Carries(u)
    /\ \A u \in Threads : Carries(u) => fd'[u] = fd[u]
    /\ \A u \in Threads : pc'[u] = "set_fd" <=> pc[u] = "set_fd"
    /\ \A u \in Threads : pc'[u] \in {"set_fd"} \cup EmptiedPcs => slot'[u] = slot[u]
    /\ \A u \in Threads : pc'[u] \in EmptiedPcs => pc[u] \in EmptiedPcs
    /\ \A u \in Threads : pc'[u] \in {"acquire", "submit"} =>
           /\ slot'[u] = slot[u]
           /\ fd'[u] = client_fd[slot[u]] \/ (pc[u] \in {"acquire", "submit"} /\ fd'[u] = fd[u])
    /\ \A p \in ops' : \E o \in ops : p.slot = o.slot /\ p.fd = o.fd /\ p.file = o.file

LEMMA OwnStillOrMoves == Resetters = {} /\ BaseInv /\ HeldInv /\ [Next]_vars => OwnStill \/ OwnMoves
<1> SUFFICES ASSUME Resetters = {}, BaseInv, HeldInv, [Next]_vars PROVE OwnStill \/ OwnMoves
  OBVIOUS
<1> USE DEF BaseInv, TypeOK, Goto, vars, slotVars, poolVars, threadVars, ringVars,
        Pcs, ClaimPcs, ChainPcs, ResetPcs, ClearPcs, ShutPcs, Stages, Phases, Threads,
        HeldInv, HeldBy, Carries, CarryPcs, ClosePcs, EmptiedPcs, OwnStill
<1>1. ASSUME NEW t \in Threads, AcceptStep(t) PROVE OwnStill \/ OwnMoves
  <2>1. CASE LockPool(t)
    BY <2>1 DEF LockPool
  <2>2. ASSUME NEW c \in Slots, Claim(t, c) PROVE OwnStill \/ OwnMoves
    BY <2>2 DEF OwnMoves
  <2>3. CASE RefuseClient(t)
    BY <2>3 DEF OwnMoves
  <2>4. CASE SetClientFd(t)
    BY <2>4 DEF OwnMoves
  <2>5. CASE MarkClaimed(t)
    BY <2>5 DEF MarkClaimed
  <2>6. CASE CountClaim(t)
    BY <2>6 DEF CountClaim
  <2>7. ASSUME NEW filtered \in Filtered, BeginDispatch(t, filtered) PROVE OwnStill \/ OwnMoves
    BY <2>7 DEF BeginDispatch
  <2>q. QED
    BY <1>1, <2>1, <2>2, <2>3, <2>4, <2>5, <2>6, <2>7 DEF AcceptStep
<1>2. ASSUME NEW t \in Threads, DispatchStep(t) PROVE OwnStill \/ OwnMoves
  <2>1. CASE Serve(t)
    BY <2>1 DEF Serve
  <2>2. CASE ServeDeclines(t)
    BY <2>2 DEF ServeDeclines
  <2>3. CASE NobodyTakes(t)
    BY <2>3 DEF NobodyTakes
  <2>q. QED
    BY <1>2, <2>1, <2>2, <2>3 DEF DispatchStep
<1>3. ASSUME NEW t \in Threads, ChainStep(t) PROVE OwnStill \/ OwnMoves
  <2>1. CASE CheckPhase(t)
    BY <2>1 DEF CheckPhase
  <2>2. CASE CheckTime(t)
    BY <2>2 DEF CheckTime
  <2>3. CASE CheckOpen(t)
    BY <2>3 DEF CheckOpen
  <2>4. CASE CheckSignal(t)
    BY <2>4 DEF CheckSignal, OnComplete, HandedOn
  <2>5. CASE PrepareOp(t)
    BY <2>5 DEF PrepareOp
  <2>6. CASE AcquireWork(t)
    BY <2>6 DEF AcquireWork
  <2>7. CASE SubmitOp(t)
    BY <2>7 DEF OwnMoves
  <2>8. CASE SubmitRefused(t)
    BY <2>8 DEF SubmitRefused
  <2>9. ASSUME NEW r \in {"error", "incomplete", "complete"}, OnBytes(t, r) PROVE OwnStill \/ OwnMoves
    BY <2>9 DEF OnBytes, OnComplete, HandedOn
  <2>10. ASSUME NEW persistent \in BOOLEAN, Respond(t, persistent) PROVE OwnStill \/ OwnMoves
    BY <2>10 DEF Respond
  <2>11. ASSUME NEW all \in BOOLEAN, Sent(t, all) PROVE OwnStill \/ OwnMoves
    BY <2>11 DEF Sent
  <2>12. CASE SendEnd(t)
    BY <2>12 DEF SendEnd
  <2>13. CASE RecycleForNextRequest(t)
    BY <2>13 DEF RecycleForNextRequest
  <2>q. QED
    BY <1>3, <2>1, <2>2, <2>3, <2>4, <2>5, <2>6, <2>7, <2>8, <2>9, <2>10, <2>11, <2>12, <2>13 DEF ChainStep
<1>4. ASSUME NEW t \in Threads, TeardownStep(t) PROVE OwnStill \/ OwnMoves
  <2>1. CASE ResetCas(t)
    BY <2>1 DEF ResetCas
  <2>2. CASE ResetLoadFd(t)
    BY <2>2 DEF ResetLoadFd
  <2>3. CASE ResetCancel(t)
    BY <2>3 DEF ResetCancel
  <2>4. CASE FinalizeLoad(t)
    BY <2>4 DEF FinalizeLoad
  <2>5. CASE FinalizeCas(t)
    BY <2>5 DEF OwnMoves
  <2>6. CASE FinalizeExchange(t)
    BY <2>6 DEF OwnMoves
  <2>7. CASE FinalizeClose(t)
    BY <2>7 DEF OwnMoves
  <2>8. CASE FinalizeClear(t)
    BY <2>8 DEF FinalizeClear
  <2>9. CASE FinalizeCounter(t)
    BY <2>9 DEF FinalizeCounter
  <2>10. CASE FinalizeSeed(t)
    BY <2>10 DEF FinalizeSeed
  <2>11. CASE FinalizeFree(t)
    BY <2>11 DEF OwnMoves
  <2>12. CASE Release(t)
    BY <2>12 DEF Release
  <2>13. CASE Return(t)
    BY <2>13 DEF Return
  <2>q. QED
    BY <1>4, <2>1, <2>2, <2>3, <2>4, <2>5, <2>6, <2>7, <2>8, <2>9, <2>10, <2>11, <2>12, <2>13 DEF TeardownStep
<1>5. ASSUME NEW t \in Threads, NEW c \in Slots, Visit(t, c) PROVE OwnStill \/ OwnMoves
  BY <1>5 DEF Visit
<1>6. ASSUME NEW t \in Threads, ShutExchange(t) PROVE OwnStill \/ OwnMoves
  BY <1>6 DEF ShutExchange, ExchangeFd
<1>7. ASSUME NEW t \in Threads, ShutClose(t) PROVE OwnStill \/ OwnMoves
  BY <1>7 DEF ShutClose, CloseFd
<1>8. ASSUME NEW t \in Workers, NEW f \in Fds, Accept(t, f) PROVE OwnStill \/ OwnMoves
  BY <1>8 DEF OwnMoves
<1>9. ASSUME NEW t \in Workers, NEW o \in ops, CompleteBytes(t, o) PROVE OwnStill \/ OwnMoves
  BY <1>9 DEF CompleteBytes, TakeCompletion
<1>10. ASSUME NEW t \in Workers, NEW o \in ops, CompleteClosed(t, o) PROVE OwnStill \/ OwnMoves
  BY <1>10 DEF CompleteClosed, TakeCompletion
<1>11. ASSUME NEW t \in Workers, NEW o \in ops, CompleteDead(t, o) PROVE OwnStill \/ OwnMoves
  BY <1>11 DEF CompleteDead, TakeCompletion
<1>12. ASSUME NEW t \in Resetters, Snapshot(t) PROVE OwnStill \/ OwnMoves
  BY <1>12 DEF Snapshot
<1>13. ASSUME NEW t \in Resetters, NEW c \in Slots, ShellReset(t, c) PROVE OwnStill \/ OwnMoves
  BY <1>13 DEF ShellReset
<1>14. ASSUME NEW t \in Resetters, NEW c \in Slots, ShellClose(t, c) PROVE OwnStill \/ OwnMoves
  BY <1>14 DEF ShellClose
<1>15. ASSUME NEW x \in cancels, ProcessCancel(x) PROVE OwnStill \/ OwnMoves
  <2> DEFINE Killed(o) == IF o.file = file[x.fd] /\ o.file # NoClient THEN [o EXCEPT !.dead = TRUE] ELSE o
  <2>1. \A o \in ops : Killed(o).slot = o.slot /\ Killed(o).fd = o.fd /\ Killed(o).file = o.file
    BY DEF Op
  <2>2. ops' = {Killed(o) : o \in ops}
    BY <1>15 DEF ProcessCancel
  <2> HIDE DEF Killed
  <2>3. \A p \in ops' : \E o \in ops : p.slot = o.slot /\ p.fd = o.fd /\ p.file = o.file
    BY <2>1, <2>2
  <2>q. QED
    BY <1>15, <2>3 DEF ProcessCancel
<1>16. ASSUME NEW c \in Slots, TimePasses(c) PROVE OwnStill \/ OwnMoves
  BY <1>16 DEF TimePasses
<1>17. ASSUME Interrupt PROVE OwnStill \/ OwnMoves
  BY <1>17 DEF Interrupt
<1>18. CASE UNCHANGED vars
  BY <1>18
<1>q. QED
  <2> HIDE DEF Threads, HeldInv, BaseInv, OwnStill
  <2>q. QED
    BY <1>1, <1>2, <1>3, <1>4, <1>5, <1>6, <1>7, <1>8, <1>9, <1>10, <1>11, <1>12, <1>13, <1>14, <1>15, <1>16, <1>17, <1>18 DEF Next, Run, WorkerStarts, ResetterStarts


\* What the references and the descriptors in hand say of single threads.
LEMMA OwnFacts ==
    ASSUME RefInv
    PROVE  /\ \A t \in Threads : pc[t] \in {"set_fd", "acquire", "submit"} =>
                  /\ slot[t] \in Slots /\ phase[slot[t]] \in {"Serving", "Draining"}
                  /\ ~Pending(slot[t])
                  /\ \A u \in Threads : pc[u] \in {"set_fd", "acquire", "submit"} /\ slot[u] = slot[t] => u = t
           /\ \A t \in Threads : pc[t] \in {"lock", "claim", "set_fd"} => Carries(t)
           /\ \A t \in Threads : pc[t] \in {"fin_exchange"} \cup EmptiedPcs =>
                  slot[t] \in Slots /\ phase[slot[t]] = "Clearing"
           /\ \A o \in ops : /\ o.slot \in Slots /\ phase[o.slot] \in {"Serving", "Draining"}
                             /\ ~Storing(o.slot)
           /\ \A t \in Threads : Carries(t) => fd[t] \in Fds
           /\ \A c \in Slots : client_fd[c] # NoFd => client_fd[c] \in Fds
<1> USE DEF RefInv
<1>1. \A t \in Threads : pc[t] \in {"set_fd", "acquire", "submit"} => Driving(t, slot[t]) /\ held[t] # {}
  BY DriverHolds DEF Driving, DrivePcs, ClaimPcs, ChainPcs
<1>2. \A t \in Threads : pc[t] \in {"set_fd", "acquire", "submit"} =>
         /\ slot[t] \in Slots /\ phase[slot[t]] \in {"Serving", "Draining"}
         /\ ~Pending(slot[t])
         /\ \A u \in Threads : pc[u] \in {"set_fd", "acquire", "submit"} /\ slot[u] = slot[t] => u = t
  BY <1>1, Alive DEF DriverInv, Pending
<1>3. \A t \in Threads : pc[t] \in {"lock", "claim", "set_fd"} => Carries(t)
  BY ConstantsAssumption DEF ConstantsAssumption, BaseInv, FdInHand, Carries, CarryPcs
<1>4. \A t \in Threads : pc[t] \in {"fin_exchange"} \cup EmptiedPcs => pc[t] \in ClearPcs
  BY DEF EmptiedPcs, ClearPcs
<1>5. \A t \in Threads : pc[t] \in ClearPcs => slot[t] \in Slots /\ phase[slot[t]] = "Clearing"
  BY EndNamesNothing DEF BaseInv, SlotKnown, AtWork, Pcs, ClearPcs
<1>6. \A o \in ops : ~Storing(o.slot)
  BY <1>1 DEF Storing, DriverInv
<1>7. \A t \in Threads : Carries(t) => fd[t] \in Fds
  BY DEF BaseInv, TypeOK, Carries
<1>8. \A c \in Slots : client_fd[c] # NoFd => client_fd[c] \in Fds
  BY DEF BaseInv, TypeOK
<1>q. QED
  BY <1>2, <1>3, <1>4, <1>5, <1>6, <1>7, <1>8, Alive, RefTypes

LEMMA OwnStillStep ==
    ASSUME RefInv, OwnInv, OwnStill
    PROVE  OwnInv'
<1> USE OwnFacts DEF OwnStill
<1>1. KeepsOwn'
  BY DEF OwnInv, KeepsOwn, Storing
<1>2. StoresOwn'
  BY DEF OwnInv, StoresOwn
<1>3. BareInv'
  BY DEF OwnInv, BareInv
<1>4. NamesOwn'
  BY DEF OwnInv, NamesOwn
<1>5. OpsOwn'
  BY DEF OwnInv, OpsOwn
<1>6. NoneLost'
  BY DEF OwnInv, NoneLost
<1>q. QED
  BY <1>1, <1>2, <1>3, <1>4, <1>5, <1>6 DEF OwnInv

LEMMA OwnAccept ==
    ASSUME RefInv, FdsApart, OwnInv, NEW t \in Threads, NEW f \in Fds, Accept(t, f)
    PROVE  OwnInv'
<1>f. /\ \A u \in Threads \ {t} : pc'[u] = pc[u] /\ fd'[u] = fd[u]
      /\ \A u \in Threads \ {t} : Carries(u)' <=> Carries(u)
      /\ slot' = slot /\ phase' = phase /\ client_fd' = client_fd /\ owner' = owner /\ ops' = ops
  BY DEF Accept, slotVars, BaseInv, TypeOK, RefInv, Goto, Carries
<1>t. pc[t] = "idle" /\ pc'[t] = "lock" /\ fd'[t] = f /\ ~Carries(t) /\ Carries(t)'
  BY ConstantsAssumption DEF ConstantsAssumption, Accept, BaseInv, TypeOK, RefInv, Goto, Carries, CarryPcs, ClosePcs
<1>s. file[f] = NoClient /\ \A g \in Fds \ {f} : file'[g] = file[g]
  BY DEF Accept, BaseInv, TypeOK, RefInv, Goto
<1>a. /\ \A u \in Threads : Carries(u) => fd[u] # f
      /\ \A c \in Slots : client_fd[c] # NoFd => client_fd[c] # f
  BY <1>s DEF FdsApart
<1>1. KeepsOwn'
  BY OwnFacts, ConstantsAssumption, <1>f, <1>t, <1>s, <1>a DEF OwnInv, KeepsOwn, Storing
<1>2. StoresOwn'
  BY OwnFacts, ConstantsAssumption, <1>f, <1>t, <1>s, <1>a DEF OwnInv, StoresOwn
<1>3. BareInv'
  BY OwnFacts, ConstantsAssumption, <1>f, <1>t, <1>s, <1>a DEF OwnInv, BareInv, EmptiedPcs
<1>4. NamesOwn'
  BY OwnFacts, ConstantsAssumption, <1>f, <1>t, <1>s, <1>a DEF OwnInv, NamesOwn
<1>5. OpsOwn'
  BY OwnFacts, ConstantsAssumption, <1>f, <1>t, <1>s, <1>a DEF OwnInv, OpsOwn
<1>6. NoneLost'
  BY OwnFacts, ConstantsAssumption, <1>f, <1>t, <1>s, <1>a DEF OwnInv, NoneLost
<1>q. QED
  BY <1>1, <1>2, <1>3, <1>4, <1>5, <1>6 DEF OwnInv

LEMMA OwnClaim ==
    ASSUME RefInv, OwnInv, NEW t \in Threads, NEW c \in Slots, Claim(t, c)
    PROVE  OwnInv'
<1>f. /\ \A u \in Threads \ {t} : pc'[u] = pc[u] /\ slot'[u] = slot[u]
      /\ \A u \in Threads : Carries(u)' <=> Carries(u)
      /\ fd' = fd /\ file' = file /\ client_fd' = client_fd /\ ops' = ops
  BY DEF Claim, ringVars, BaseInv, TypeOK, RefInv, Goto, Carries, CarryPcs, ClosePcs
<1>t. pc[t] = "claim" /\ pc'[t] = "set_fd" /\ slot'[t] = c
  BY DEF Claim, BaseInv, TypeOK, RefInv, Goto
<1>s. /\ phase[c] = "Free" /\ owner'[c] = file[fd[t]]
      /\ \A d \in Slots \ {c} : phase'[d] = phase[d] /\ owner'[d] = owner[d]
  BY DEF Claim, BaseInv, TypeOK, RefInv, Goto
<1>1. KeepsOwn'
  BY OwnFacts, <1>f, <1>t, <1>s DEF OwnInv, KeepsOwn, Storing
<1>2. StoresOwn'
  BY OwnFacts, <1>f, <1>t, <1>s DEF OwnInv, StoresOwn, BareInv
<1>3. BareInv'
  BY OwnFacts, <1>f, <1>t, <1>s DEF OwnInv, BareInv, EmptiedPcs
<1>4. NamesOwn'
  BY OwnFacts, <1>f, <1>t, <1>s DEF OwnInv, NamesOwn
<1>5. OpsOwn'
  BY OwnFacts, <1>f, <1>t, <1>s DEF OwnInv, OpsOwn
<1>6. NoneLost'
  BY OwnFacts, <1>f, <1>t, <1>s DEF OwnInv, NoneLost
<1>q. QED
  BY <1>1, <1>2, <1>3, <1>4, <1>5, <1>6 DEF OwnInv

LEMMA OwnRefuse ==
    ASSUME RefInv, FdsApart, OwnInv, NEW t \in Threads, RefuseClient(t)
    PROVE  OwnInv'
<1>f. /\ \A u \in Threads \ {t} : pc'[u] = pc[u] /\ fd'[u] = fd[u]
      /\ \A u \in Threads \ {t} : Carries(u)' <=> Carries(u)
      /\ slot' = slot /\ phase' = phase /\ client_fd' = client_fd /\ owner' = owner /\ ops' = ops
  BY DEF RefuseClient, slotVars, BaseInv, TypeOK, RefInv, Goto, Carries
<1>t. pc[t] = "claim" /\ pc'[t] = "idle" /\ Carries(t) /\ fd[t] \in Fds
  BY OwnFacts DEF RefuseClient, BaseInv, TypeOK, RefInv, Goto
<1>s. file'[fd[t]] = NoClient /\ \A g \in Fds \ {fd[t]} : file'[g] = file[g]
  BY <1>t DEF RefuseClient, BaseInv, TypeOK, RefInv, Goto
<1>a. /\ \A u \in Threads \ {t} : Carries(u) => fd[u] # fd[t]
      /\ \A c \in Slots : client_fd[c] # fd[t]
  BY <1>t DEF FdsApart
<1>1. KeepsOwn'
  BY OwnFacts, ConstantsAssumption, <1>f, <1>t, <1>s, <1>a DEF OwnInv, KeepsOwn, Storing
<1>2. StoresOwn'
  BY OwnFacts, ConstantsAssumption, <1>f, <1>t, <1>s, <1>a DEF OwnInv, StoresOwn
<1>3. BareInv'
  BY OwnFacts, ConstantsAssumption, <1>f, <1>t, <1>s, <1>a DEF OwnInv, BareInv, EmptiedPcs
<1>4. NamesOwn'
  BY OwnFacts, ConstantsAssumption, <1>f, <1>t, <1>s, <1>a DEF OwnInv, NamesOwn
<1>5. OpsOwn'
  BY OwnFacts, ConstantsAssumption, <1>f, <1>t, <1>s, <1>a DEF OwnInv, OpsOwn
<1>6. NoneLost'
  BY OwnFacts, ConstantsAssumption, <1>f, <1>t, <1>s, <1>a DEF OwnInv, NoneLost
<1>q. QED
  BY <1>1, <1>2, <1>3, <1>4, <1>5, <1>6 DEF OwnInv

LEMMA OwnStore ==
    ASSUME RefInv, OwnInv, NEW t \in Threads, SetClientFd(t)
    PROVE  OwnInv'
<1>f. /\ \A u \in Threads \ {t} : pc'[u] = pc[u] /\ fd'[u] = fd[u]
      /\ \A u \in Threads \ {t} : Carries(u)' <=> Carries(u)
      /\ slot' = slot /\ phase' = phase /\ file' = file /\ owner' = owner /\ ops' = ops
  BY DEF SetClientFd, ringVars, BaseInv, TypeOK, RefInv, Goto, Carries
<1>t. pc[t] = "set_fd" /\ pc'[t] = "mark" /\ Carries(t) /\ fd[t] \in Fds /\ slot[t] \in Slots
  BY OwnFacts DEF SetClientFd, BaseInv, TypeOK, RefInv, Goto
<1>s. client_fd'[slot[t]] = fd[t] /\ \A d \in Slots \ {slot[t]} : client_fd'[d] = client_fd[d]
  BY <1>t DEF SetClientFd, BaseInv, TypeOK, RefInv, Goto
<1>1. KeepsOwn'
  BY OwnFacts, <1>f, <1>t, <1>s DEF OwnInv, KeepsOwn, StoresOwn, Storing
<1>2. StoresOwn'
  BY OwnFacts, <1>f, <1>t, <1>s DEF OwnInv, StoresOwn
<1>3. BareInv'
  BY OwnFacts, <1>f, <1>t, <1>s DEF OwnInv, BareInv, EmptiedPcs
<1>4. NamesOwn'
  BY OwnFacts, <1>f, <1>t, <1>s DEF OwnInv, NamesOwn
<1>5. OpsOwn'
  BY OwnFacts, <1>f, <1>t, <1>s DEF OwnInv, OpsOwn, Storing
<1>6. NoneLost'
  BY OwnFacts, ConstantsAssumption, <1>f, <1>t, <1>s DEF OwnInv, NoneLost, StoresOwn, ConstantsAssumption
<1>q. QED
  BY <1>1, <1>2, <1>3, <1>4, <1>5, <1>6 DEF OwnInv

LEMMA OwnSubmit ==
    ASSUME RefInv, OwnInv, NEW t \in Threads, SubmitOp(t)
    PROVE  OwnInv'
<1>f. /\ \A u \in Threads \ {t} : pc'[u] = pc[u] /\ fd'[u] = fd[u]
      /\ \A u \in Threads : Carries(u)' <=> Carries(u)
      /\ slot' = slot /\ phase' = phase /\ client_fd' = client_fd /\ file' = file /\ owner' = owner
  BY DEF SubmitOp, slotVars, BaseInv, TypeOK, RefInv, Goto, Carries, CarryPcs, ClosePcs
<1>t. pc[t] = "submit" /\ pc'[t] = "unwind" /\ slot[t] \in Slots /\ ~Storing(slot[t])
  BY OwnFacts DEF SubmitOp, Storing, BaseInv, TypeOK, RefInv, Goto
<1>c. ~Carries(t)
  BY <1>t DEF Carries, CarryPcs, ClosePcs
<1>s. client_fd[slot[t]] \in Fds /\ fd[t] = client_fd[slot[t]] /\ file[fd[t]] = owner[slot[t]]
  BY <1>t, OwnFacts DEF OwnInv, NamesOwn, KeepsOwn
<1>o. \E o : o.slot = slot[t] /\ o.fd = fd[t] /\ o.file = owner[slot[t]] /\ ops' = ops \cup {o}
  <2> DEFINE o == [slot |-> slot[t], fd |-> fd[t], file |-> FileOf(fd[t]),
                   stage |-> stage[t], dead |-> FileOf(fd[t]) = NoClient]
  <2>1. o.slot = slot[t] /\ o.fd = fd[t] /\ o.file = owner[slot[t]]
    BY <1>s, ConstantsAssumption DEF ConstantsAssumption, FileOf
  <2>2. ops' = ops \cup {o}
    BY DEF SubmitOp
  <2> HIDE DEF o
  <2>q. QED
    BY <2>1, <2>2
<1>1. KeepsOwn'
  BY OwnFacts, <1>f, <1>t, <1>c, <1>s, <1>o DEF OwnInv, KeepsOwn, Storing
<1>2. StoresOwn'
  BY OwnFacts, <1>f, <1>t, <1>c, <1>s, <1>o DEF OwnInv, StoresOwn
<1>3. BareInv'
  BY OwnFacts, <1>f, <1>t, <1>c, <1>s, <1>o DEF OwnInv, BareInv, EmptiedPcs
<1>4. NamesOwn'
  BY OwnFacts, <1>f, <1>t, <1>c, <1>s, <1>o DEF OwnInv, NamesOwn
<1>5. OpsOwn'
  BY OwnFacts, <1>f, <1>t, <1>c, <1>s, <1>o DEF OwnInv, OpsOwn
<1>6. NoneLost'
  BY OwnFacts, <1>f, <1>t, <1>c, <1>s, <1>o DEF OwnInv, NoneLost
<1>q. QED
  BY <1>1, <1>2, <1>3, <1>4, <1>5, <1>6 DEF OwnInv

LEMMA OwnClearing ==
    ASSUME RefInv, OwnInv, NEW t \in Threads, FinalizeCas(t)
    PROVE  OwnInv'
<1>f. /\ \A u \in Threads \ {t} : pc'[u] = pc[u]
      /\ \A u \in Threads : Carries(u)' <=> Carries(u)
      /\ slot' = slot /\ client_fd' = client_fd /\ file' = file /\ fd' = fd /\ owner' = owner /\ ops' = ops
  BY DEF FinalizeCas, ringVars, BaseInv, TypeOK, RefInv, Goto, Carries, CarryPcs, ClosePcs
<1>t. pc[t] = "fin_cas" /\ pc'[t] \in {"fin_exchange", "unwind"}
  BY DEF FinalizeCas, BaseInv, TypeOK, RefInv, Goto
<1>s. \A d \in Slots : phase'[d] = phase[d] \/ phase'[d] = "Clearing"
  BY DEF FinalizeCas, BaseInv, TypeOK, RefInv, Goto
<1>1. KeepsOwn'
  BY OwnFacts, <1>f, <1>t, <1>s DEF OwnInv, KeepsOwn, Storing
<1>2. StoresOwn'
  BY OwnFacts, <1>f, <1>t, <1>s DEF OwnInv, StoresOwn
<1>3. BareInv'
  BY OwnFacts, <1>f, <1>t, <1>s DEF OwnInv, BareInv, EmptiedPcs
<1>4. NamesOwn'
  BY OwnFacts, <1>f, <1>t, <1>s DEF OwnInv, NamesOwn
<1>5. OpsOwn'
  BY OwnFacts, <1>f, <1>t, <1>s DEF OwnInv, OpsOwn
<1>6. NoneLost'
  BY OwnFacts, <1>f, <1>t, <1>s DEF OwnInv, NoneLost
<1>q. QED
  BY <1>1, <1>2, <1>3, <1>4, <1>5, <1>6 DEF OwnInv

LEMMA OwnExchange ==
    ASSUME RefInv, OwnInv, NEW t \in Threads, FinalizeExchange(t)
    PROVE  OwnInv'
<1>f. /\ \A u \in Threads \ {t} : pc'[u] = pc[u] /\ fd'[u] = fd[u]
      /\ \A u \in Threads \ {t} : Carries(u)' <=> Carries(u)
      /\ slot' = slot /\ phase' = phase /\ file' = file /\ owner' = owner /\ ops' = ops
  BY DEF FinalizeExchange, ExchangeFd, ringVars, BaseInv, TypeOK, RefInv, Goto, Carries
<1>t. /\ pc[t] = "fin_exchange" /\ pc'[t] = "fin_close" /\ ~Carries(t)
      /\ slot[t] \in Slots /\ phase[slot[t]] = "Clearing" /\ fd'[t] = client_fd[slot[t]]
  BY OwnFacts DEF FinalizeExchange, ExchangeFd, Carries, CarryPcs, ClosePcs, BaseInv, TypeOK, RefInv, Goto
<1>c. client_fd[slot[t]] # NoFd => Carries(t)'
  BY <1>t DEF Carries, CarryPcs, ClosePcs
<1>s. client_fd'[slot[t]] = NoFd /\ \A d \in Slots \ {slot[t]} : client_fd'[d] = client_fd[d]
  BY <1>t DEF FinalizeExchange, ExchangeFd, BaseInv, TypeOK, RefInv, Goto
<1>1. KeepsOwn'
  BY OwnFacts, ConstantsAssumption, <1>f, <1>t, <1>c, <1>s DEF OwnInv, KeepsOwn, Storing
<1>2. StoresOwn'
  BY OwnFacts, ConstantsAssumption, <1>f, <1>t, <1>c, <1>s DEF OwnInv, StoresOwn
<1>3. BareInv'
  BY OwnFacts, ConstantsAssumption, <1>f, <1>t, <1>c, <1>s DEF OwnInv, BareInv, EmptiedPcs
<1>4. NamesOwn'
  BY OwnFacts, ConstantsAssumption, <1>f, <1>t, <1>c, <1>s DEF OwnInv, NamesOwn
<1>5. OpsOwn'
  BY OwnFacts, ConstantsAssumption, <1>f, <1>t, <1>c, <1>s DEF OwnInv, OpsOwn
<1>6. NoneLost'
  BY OwnFacts, ConstantsAssumption, <1>f, <1>t, <1>c, <1>s DEF OwnInv, NoneLost, ConstantsAssumption
<1>q. QED
  BY <1>1, <1>2, <1>3, <1>4, <1>5, <1>6 DEF OwnInv

LEMMA OwnClose ==
    ASSUME RefInv, FdsApart, OwnInv, NEW t \in Threads, FinalizeClose(t)
    PROVE  OwnInv'
<1>f. /\ \A u \in Threads \ {t} : pc'[u] = pc[u] /\ fd'[u] = fd[u]
      /\ \A u \in Threads \ {t} : Carries(u)' <=> Carries(u)
      /\ slot' = slot /\ phase' = phase /\ client_fd' = client_fd /\ owner' = owner /\ ops' = ops
  BY DEF FinalizeClose, CloseFd, slotVars, BaseInv, TypeOK, RefInv, Goto, Carries
<1>t. pc[t] = "fin_close" /\ pc'[t] = "fin_clear" /\ (fd[t] # NoFd => Carries(t))
  BY DEF FinalizeClose, CloseFd, Carries, CarryPcs, ClosePcs, BaseInv, TypeOK, RefInv, Goto
<1>s. /\ \A g \in Fds \ {fd[t]} : file'[g] = file[g]
      /\ fd[t] \in Fds => file'[fd[t]] = NoClient
  BY ConstantsAssumption DEF ConstantsAssumption, FinalizeClose, CloseFd, BaseInv, TypeOK, RefInv, Goto
<1>a. fd[t] \in Fds => /\ \A u \in Threads \ {t} : Carries(u) => fd[u] # fd[t]
                      /\ \A c \in Slots : client_fd[c] # fd[t]
  BY <1>t, ConstantsAssumption DEF ConstantsAssumption, FdsApart
<1>1. KeepsOwn'
  BY OwnFacts, ConstantsAssumption, <1>f, <1>t, <1>s, <1>a DEF OwnInv, KeepsOwn, Storing
<1>2. StoresOwn'
  BY OwnFacts, ConstantsAssumption, <1>f, <1>t, <1>s, <1>a DEF OwnInv, StoresOwn
<1>3. BareInv'
  BY OwnFacts, ConstantsAssumption, <1>f, <1>t, <1>s, <1>a DEF OwnInv, BareInv, EmptiedPcs
<1>4. NamesOwn'
  BY OwnFacts, ConstantsAssumption, <1>f, <1>t, <1>s, <1>a DEF OwnInv, NamesOwn
<1>5. OpsOwn'
  BY OwnFacts, ConstantsAssumption, <1>f, <1>t, <1>s, <1>a DEF OwnInv, OpsOwn
<1>6. NoneLost'
  BY OwnFacts, ConstantsAssumption, <1>f, <1>t, <1>s, <1>a DEF OwnInv, NoneLost
<1>q. QED
  BY <1>1, <1>2, <1>3, <1>4, <1>5, <1>6 DEF OwnInv

LEMMA OwnFree ==
    ASSUME RefInv, OwnInv, NEW t \in Threads, FinalizeFree(t)
    PROVE  OwnInv'
<1>f. /\ \A u \in Threads \ {t} : pc'[u] = pc[u]
      /\ \A u \in Threads : Carries(u)' <=> Carries(u)
      /\ slot' = slot /\ fd' = fd /\ client_fd' = client_fd /\ file' = file /\ ops' = ops
  BY DEF FinalizeFree, ringVars, BaseInv, TypeOK, RefInv, Goto, Carries, CarryPcs, ClosePcs
<1>t. /\ pc[t] = "fin_free" /\ pc'[t] = "unwind" /\ slot[t] \in Slots /\ phase[slot[t]] = "Clearing"
      /\ client_fd[slot[t]] = NoFd
  BY OwnFacts DEF FinalizeFree, OwnInv, BareInv, EmptiedPcs, BaseInv, TypeOK, RefInv, Goto
<1>s. /\ phase'[slot[t]] = "Free"
      /\ \A d \in Slots \ {slot[t]} : phase'[d] = phase[d] /\ owner'[d] = owner[d]
  BY <1>t DEF FinalizeFree, BaseInv, TypeOK, RefInv, Goto
<1>1. KeepsOwn'
  BY OwnFacts, <1>f, <1>t, <1>s DEF OwnInv, KeepsOwn, Storing
<1>2. StoresOwn'
  BY OwnFacts, <1>f, <1>t, <1>s DEF OwnInv, StoresOwn
<1>3. BareInv'
  BY OwnFacts, <1>f, <1>t, <1>s DEF OwnInv, BareInv, EmptiedPcs
<1>4. NamesOwn'
  BY OwnFacts, <1>f, <1>t, <1>s DEF OwnInv, NamesOwn
<1>5. OpsOwn'
  BY OwnFacts, <1>f, <1>t, <1>s DEF OwnInv, OpsOwn
<1>6. NoneLost'
  BY OwnFacts, <1>f, <1>t, <1>s DEF OwnInv, NoneLost
<1>q. QED
  BY <1>1, <1>2, <1>3, <1>4, <1>5, <1>6 DEF OwnInv

LEMMA OwnInit == Init => OwnInv
  BY DEF Init, OwnInv, KeepsOwn, StoresOwn, BareInv, NamesOwn, OpsOwn, NoneLost, EmptiedPcs

LEMMA OwnStep == Resetters = {} /\ RefInv /\ FdsApart /\ OwnInv /\ [Next]_vars => OwnInv'
<1> SUFFICES ASSUME Resetters = {}, RefInv, FdsApart, OwnInv, [Next]_vars PROVE OwnInv'
  OBVIOUS
<1>1. OwnStill \/ OwnMoves
  BY OwnStillOrMoves DEF RefInv
<1>q. QED
  BY <1>1, OwnStillStep, OwnAccept, OwnClaim, OwnRefuse, OwnStore, OwnSubmit,
     OwnClearing, OwnExchange, OwnClose, OwnFree DEF OwnMoves

LEMMA OwnImplies == RefInv /\ FdsApart /\ OwnInv => OpsNameOwnSocket /\ DescriptorsAccounted
<1> SUFFICES ASSUME RefInv, FdsApart, OwnInv PROVE OpsNameOwnSocket /\ DescriptorsAccounted
  OBVIOUS
<1>1. OpsNameOwnSocket
  BY OwnFacts, ConstantsAssumption
  DEF ConstantsAssumption, OwnInv, KeepsOwn, OpsOwn, OpsNameOwnSocket
<1>2. ASSUME NEW f \in Fds
      PROVE  Cardinality(Carrying(f)) + Cardinality(Keeping(f)) = IF file[f] = NoClient THEN 0 ELSE 1
  <2>1. Carrying(f) = {t \in Threads : Carries(t) /\ fd[t] = f}
    BY ConstantsAssumption DEF ConstantsAssumption, Carrying, Carries, CarryPcs
  <2>2. CASE file[f] = NoClient
    <3>1. Carrying(f) = {} /\ Keeping(f) = {}
      BY <2>1, <2>2, ConstantsAssumption DEF ConstantsAssumption, FdsApart, Keeping
    <3>2. Cardinality(Carrying(f)) = 0 /\ Cardinality(Keeping(f)) = 0
      BY <3>1, FS_EmptySet, Zenon
    <3>q. QED
      BY <2>2, <3>2
  <2>3. ASSUME file[f] # NoClient, NEW t \in Threads, Carries(t), fd[t] = f
        PROVE  Cardinality(Carrying(f)) + Cardinality(Keeping(f)) = 1
    <3>1. Carrying(f) = {t} /\ Keeping(f) = {}
      BY <2>1, <2>3 DEF FdsApart, Keeping
    <3>2. Cardinality(Carrying(f)) = 1 /\ Cardinality(Keeping(f)) = 0
      BY <3>1, FS_EmptySet, FS_Singleton, Zenon
    <3>q. QED
      BY <3>2
  <2>4. ASSUME file[f] # NoClient, NEW c \in Slots, client_fd[c] = f
        PROVE  Cardinality(Carrying(f)) + Cardinality(Keeping(f)) = 1
    <3>1. Carrying(f) = {} /\ Keeping(f) = {c}
      BY <2>1, <2>4, ConstantsAssumption DEF ConstantsAssumption, FdsApart, Keeping
    <3>2. Cardinality(Carrying(f)) = 0 /\ Cardinality(Keeping(f)) = 1
      BY <3>1, FS_EmptySet, FS_Singleton, Zenon
    <3>q. QED
      BY <3>2
  <2>q. QED
    BY <2>2, <2>3, <2>4 DEF OwnInv, NoneLost
<1>q. QED
  BY <1>1, <1>2 DEF DescriptorsAccounted

-----------------------------------------------------------------------------
(* The pool's promise, step by step                                        *)

\* For a slot in use io_inflight_ is the abstract reference count; for any
\* other the abstract count is zero, whatever finalize has seeded.
CountedRefs == [c \in Slots |-> IF phase[c] \in {"Serving", "Draining"} THEN io_inflight[c] ELSE 0]

LEMMA RefsAreCounted == RefInv => SlotRefs = CountedRefs
<1> SUFFICES ASSUME RefInv, NEW c \in Slots
             PROVE  Cardinality(ThreadRefs(c)) + Cardinality(RingRefs(c))
                    = IF phase[c] \in {"Serving", "Draining"} THEN io_inflight[c] ELSE 0
  BY DEF SlotRefs, CountedRefs
<1>1. CASE phase[c] \in {"Serving", "Draining"}
  BY <1>1, RefInvImplies DEF RefsCounted
<1>2. CASE phase[c] \in {"Free", "Clearing"}
  <2>1. ThreadRefs(c) = {} /\ RingRefs(c) = {}
    BY <1>2, RefInvImplies DEF NoStaleCompletion
  <2>2. Cardinality(ThreadRefs(c)) = 0 /\ Cardinality(RingRefs(c)) = 0
    BY <2>1, FS_EmptySet, Zenon
  <2>q. QED
    BY <1>2, <2>2
<1>q. QED
  BY <1>1, <1>2, RefTypes DEF Phases

\* The same after a step.
LEMMA CountedNext == RefInv' => /\ (SlotRefs = CountedRefs)'
                               /\ (phase \in [Slots -> Phases] /\ io_inflight \in [Slots -> Int])'
<1>1. RefInv => /\ SlotRefs = CountedRefs
                /\ phase \in [Slots -> Phases] /\ io_inflight \in [Slots -> Int]
  BY RefsAreCounted, RefTypes
<1>q. QED
  BY <1>1, PTL

LEMMA PromiseInit == Init => Promise!Init
<1> SUFFICES ASSUME Init PROVE Promise!Init
  OBVIOUS
<1>1. SlotRefs = [c \in Slots |-> 0]
  BY RefInit, RefsAreCounted DEF Init, CountedRefs
<1>2. SlotUse = [c \in Slots |-> "free"]
  BY DEF Init, SlotUse
<1>q. QED
  BY <1>1, <1>2 DEF Promise!Init

LEMMA PromiseStep == Resetters = {} /\ RefInv /\ RefInv' /\ [Next]_vars => [Promise!Next]_Promise!vars
<1> SUFFICES ASSUME Resetters = {}, RefInv, RefInv', [Next]_vars PROVE [Promise!Next]_Promise!vars
  OBVIOUS
<1>r. SlotRefs = CountedRefs /\ SlotRefs' = CountedRefs'
  BY RefsAreCounted, CountedNext
<1>t. /\ phase \in [Slots -> Phases] /\ phase' \in [Slots -> Phases]
      /\ io_inflight \in [Slots -> Int] /\ io_inflight' \in [Slots -> Int]
  BY RefTypes, CountedNext
<1> USE DEF SlotUse, CountedRefs
<1>s. phase' = phase /\ io_inflight' = io_inflight => [Promise!Next]_Promise!vars
  BY <1>r DEF Promise!vars
<1>1. CASE Calm
  <2>1. ASSUME NEW c \in Slots, phase[c] = "Serving", phase' = [phase EXCEPT ![c] = "Draining"]
        PROVE  Promise!Drain(c)
    <3>1. CountedRefs' = CountedRefs
      BY <1>1, <1>t, <2>1 DEF Calm
    <3>2. SlotUse[c] = "serving" /\ SlotUse' = [SlotUse EXCEPT ![c] = "draining"]
      BY <1>t, <2>1
    <3> HIDE DEF SlotUse, CountedRefs
    <3>q. QED
      BY <1>r, <3>1, <3>2 DEF Promise!Drain
  <2>q. QED
    BY <1>1, <1>s, <2>1 DEF Calm, Promise!Next
<1>2. ASSUME NEW t \in Threads, NEW c \in Slots, Claim(t, c) PROVE Promise!Claim(c)
  <2>1. phase[c] = "Free" /\ io_inflight[c] = 1 /\ io_inflight' = io_inflight
        /\ phase' = [phase EXCEPT ![c] = "Serving"]
    BY <1>2 DEF Claim, RefInv, FreeInv
  <2>q. QED
    BY <1>r, <1>t, <2>1 DEF Promise!Claim
<1>3. ASSUME NEW t \in Threads, AddRef(t) PROVE slot[t] \in Slots /\ Promise!Take(slot[t])
  <2>1. slot[t] \in Slots /\ phase[slot[t]] \in {"Serving", "Draining"} /\ io_inflight[slot[t]] >= 1
        /\ phase' = phase /\ io_inflight' = [io_inflight EXCEPT ![slot[t]] = @ + 1]
    BY <1>3, Alive DEF AddRef, DrivesOn
  <2>q. QED
    BY <1>r, <1>t, <2>1 DEF Promise!Take
<1>4. ASSUME NEW t \in Threads, Release(t) PROVE slot[t] \in Slots /\ Promise!Drop(slot[t])
  <2>1. slot[t] \in Slots /\ phase[slot[t]] \in {"Serving", "Draining"} /\ io_inflight[slot[t]] >= 1
        /\ phase' = phase /\ io_inflight' = [io_inflight EXCEPT ![slot[t]] = @ - 1]
    BY <1>4, Alive DEF Release
  <2>q. QED
    BY <1>r, <1>t, <2>1 DEF Promise!Drop
<1>5. ASSUME NEW t \in Threads, FinalizeCas(t) PROVE UNCHANGED Promise!vars
  <2>1. /\ slot[t] \in Slots /\ io_inflight' = io_inflight
        /\ phase[slot[t]] \in {"Serving", "Draining"} => io_inflight[slot[t]] = 0
    BY <1>5, EndAt DEF FinalizeCas, Goto, RefInv, LastInv, EndCount, ClearPcs
  <2>2. phase' = [phase EXCEPT ![slot[t]] = IF @ = "Draining" THEN "Clearing" ELSE @]
    BY <1>5 DEF FinalizeCas
  <2>3. CountedRefs' = CountedRefs
    BY <1>t, <2>1, <2>2 DEF Phases
  <2>4. SlotUse' = SlotUse
    BY <1>t, <2>1, <2>2 DEF Phases
  <2> HIDE DEF SlotUse, CountedRefs
  <2>q. QED
    BY <1>r, <2>3, <2>4 DEF Promise!vars
<1>6. ASSUME NEW t \in Threads, FinalizeSeed(t) PROVE UNCHANGED Promise!vars
  <2>1. slot[t] \in Slots /\ phase[slot[t]] = "Clearing" /\ phase' = phase
        /\ io_inflight' = [io_inflight EXCEPT ![slot[t]] = 1]
    BY <1>6, EndAt, EndNamesNothing DEF FinalizeSeed, Goto
  <2>q. QED
    BY <1>r, <1>t, <2>1 DEF Promise!vars
<1>7. ASSUME NEW t \in Threads, FinalizeFree(t) PROVE slot[t] \in Slots /\ Promise!Recycle(slot[t])
  <2>1. slot[t] \in Slots /\ phase[slot[t]] = "Clearing" /\ io_inflight' = io_inflight
        /\ phase' = [phase EXCEPT ![slot[t]] = "Free"]
    BY <1>7, EndAt, EndNamesNothing DEF FinalizeFree, Goto
  <2>q. QED
    BY <1>r, <1>t, <2>1 DEF Promise!Recycle
<1>8. ASSUME NEW t \in Threads, \/ HandOver(t) \/ SubmitOp(t) \/ FinalizeLoad(t)
                               \/ \E o \in ops : Take(t, o)
      PROVE  phase' = phase /\ io_inflight' = io_inflight
  BY <1>8 DEF HandOver, DrivesOn, SubmitOp, FinalizeLoad, Take, TakeCompletion, slotVars
<1>9. ASSUME NEW x \in cancels, ProcessCancel(x) PROVE phase' = phase /\ io_inflight' = io_inflight
  BY <1>9 DEF ProcessCancel, slotVars
<1>10. Calm \/ Stirs
  BY CalmOrStirs DEF RefInv
<1>q. QED
  <2> HIDE DEF SlotUse, CountedRefs
  <2>q. QED
    BY <1>1, <1>2, <1>3, <1>4, <1>5, <1>6, <1>7, <1>8, <1>9, <1>10, <1>s DEF Stirs, Promise!Next

-----------------------------------------------------------------------------
(* The theorems                                                            *)

\* As long as only its own driver resets a connection, io_inflight_ is the
\* number of armed ConnRefs and pending operations, through every dispatch,
\* pre-parse, keep-alive, refused submission and teardown.
THEOREM ReferencesExact == Resetters = {} => (Spec => []RefsCounted)
<1> SUFFICES ASSUME Resetters = {} PROVE Spec => []RefsCounted
  OBVIOUS
<1>1. RefInv /\ [Next]_vars => RefInv'
  BY RefStep
<1>2. RefInv => RefsCounted
  BY RefInvImplies
<1>q. QED
  BY <1>1, <1>2, RefInit, PTL DEF Spec

\* ... so a slot that is free or being cleared is named by nobody: what
\* SocketConnectionState.h says instead of keeping a generation counter.
THEOREM ReuseIsClean == Resetters = {} => (Spec => []NoStaleCompletion)
<1> SUFFICES ASSUME Resetters = {} PROVE Spec => []NoStaleCompletion
  OBVIOUS
<1>1. RefInv /\ [Next]_vars => RefInv'
  BY RefStep
<1>2. RefInv => NoStaleCompletion
  BY RefInvImplies
<1>q. QED
  BY <1>1, <1>2, RefInit, PTL DEF Spec

\* ... and one chain at a time parses, answers and recycles a connection.
THEOREM DrivenByOne == Resetters = {} => (Spec => []OneDriver)
<1> SUFFICES ASSUME Resetters = {} PROVE Spec => []OneDriver
  OBVIOUS
<1>1. RefInv /\ [Next]_vars => RefInv'
  BY RefStep
<1>2. RefInv => OneDriver
  BY RefInvImplies
<1>q. QED
  BY <1>1, <1>2, RefInit, PTL DEF Spec

\* ... and what an operation reads or writes is the socket of the client its
\* slot serves, from the submission to the completion: no descriptor number
\* is closed, or handed to another client, under a pending operation.
THEOREM OwnSocket == Resetters = {} => (Spec => []OpsNameOwnSocket)
<1> SUFFICES ASSUME Resetters = {} PROVE Spec => []OpsNameOwnSocket
  OBVIOUS
<1>1. RefInv /\ FdsApart /\ OwnInv /\ [Next]_vars => (RefInv /\ FdsApart /\ OwnInv)'
  BY RefStep, FdsApartStep, OwnStep DEF RefInv
<1>2. RefInv /\ FdsApart /\ OwnInv => OpsNameOwnSocket
  BY OwnImplies
<1>q. QED
  BY <1>1, <1>2, RefInit, FdsApartInit, OwnInit, PTL DEF Spec

\* ... and no path loses a descriptor or holds one twice: accept, refusal,
\* claim, teardown and close account for every number that is open.
THEOREM NoDescriptorLost == Resetters = {} => (Spec => []DescriptorsAccounted)
<1> SUFFICES ASSUME Resetters = {} PROVE Spec => []DescriptorsAccounted
  OBVIOUS
<1>1. RefInv /\ FdsApart /\ OwnInv /\ [Next]_vars => (RefInv /\ FdsApart /\ OwnInv)'
  BY RefStep, FdsApartStep, OwnStep DEF RefInv
<1>2. RefInv /\ FdsApart /\ OwnInv => DescriptorsAccounted
  BY OwnImplies
<1>q. QED
  BY <1>1, <1>2, RefInit, FdsApartInit, OwnInit, PTL DEF Spec

\* The slot protocol implements what the pool promises of a slot: every
\* instruction of SocketConnectionState is a claim, a reference taken from a
\* live one, a reference dropped, a drain, a recycling with no reference left,
\* or nothing.  (That a drain ends is the promise's liveness, left to TLC.)
THEOREM KeepsPromise == Resetters = {} => (Spec => Promise!Init /\ [][Promise!Next]_Promise!vars)
<1> SUFFICES ASSUME Resetters = {} PROVE Spec => Promise!Init /\ [][Promise!Next]_Promise!vars
  OBVIOUS
<1>1. RefInv /\ [Next]_vars => RefInv'
  BY RefStep
<1>2. RefInv /\ RefInv' /\ [Next]_vars => [Promise!Next]_Promise!vars
  BY PromiseStep
<1>q. QED
  BY <1>1, <1>2, RefInit, PromiseInit, PTL DEF Spec
=============================================================================

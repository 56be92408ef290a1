-------------------------- MODULE AcceptGateProofs --------------------------
(***************************************************************************)
(* Proofs about AcceptGate, for every number of workers, shells and opens, *)
(* every window; the first two whether or not the scope is killed or a     *)
(* Cancel is refused.                                                      *)
(*                                                                         *)
(*  - GateTypeCorrect: no path counts an accept done twice.                *)
(*  - CountExact: inflight_ is the number of accepts in the ring and in a  *)
(*    thread's hand, which is what Close's drain relies on.                *)
(*  - ListenerSafe: with one thread that opens and closes, no kill and no  *)
(*    refused Cancel, no accept names a descriptor already given back.     *)
(*                                                                         *)
(* The inductive invariant of the first two is CountInv: the types, the    *)
(* finiteness of the accepts in the ring, and the count itself.  The third *)
(* adds ListenInv(s): what thread s has established at each step of Close. *)
(***************************************************************************)
EXTENDS AcceptGate, TLAPS, FiniteSetTheorems

Places == {NoFd} \cup Listeners

CountInv == Types /\ IsFiniteSet(InRing) /\ AcceptsCounted

-----------------------------------------------------------------------------
(* Types                                                                   *)

LEMMA TypesInit == Init => Types
<1> SUFFICES ASSUME Init PROVE Types
  OBVIOUS
<1> USE GateAssumption DEF GateAssumption, Init
<1>1. listen_fd \in {NoFd} \cup Listeners /\ inflight \in Int
  OBVIOUS
<1>0. /\ scope \in {"none", "live", "killed"}
      /\ stopping \in BOOLEAN /\ maintain_running \in BOOLEAN
  BY Zenon
<1>2. pc \in [Threads -> Pcs]
  BY DEF Pcs, MaintPcs
<1>3. /\ todo \in [Threads -> Nat] /\ retry \in [Threads -> Nat]
      /\ after \in [Threads -> {"idle", "open_maint", "connect", "m_loop"}]
      /\ fd \in [Threads -> {NoFd} \cup Listeners]
      /\ armed \in [Threads -> BOOLEAN]
      /\ result \in [Threads -> {"none", "client", "error"}]
  OBVIOUS
<1>4. pending \in [{NoFd} \cup Listeners -> Nat]
  OBVIOUS
<1>5. /\ cancels \subseteq {NoFd} \cup Listeners /\ open \subseteq Listeners
      /\ opened \in 0..MaxOpens /\ arrivals \in 0..MaxArrivals /\ refusals \in 0..MaxRefusals
  OBVIOUS
<1>q. QED
  BY <1>0, <1>1, <1>2, <1>3, <1>4, <1>5 DEF Types

LEMMA TypesStep == Types /\ [Next]_vars => Types'
<1> SUFFICES ASSUME Types, [Next]_vars PROVE Types'
  OBVIOUS
<1> USE GateAssumption DEF GateAssumption, Types, gateVars, callVars, ringVars, Listeners, NoFd, Goto
<1>p. /\ {"idle", "open_ready", "open_maint", "topup", "loop", "sa_check", "sa_inc", "sa_fd",
          "sa_submit", "sa_undo", "cb_dec", "cb_kill", "cb_stop", "connect", "cl_check", "cl_stop",
          "cl_exchange", "cl_join", "cl_take", "cl_retire", "cl_cancel", "cl_drain", "cl_close",
          "cl_scope", "m_loop", "m_check", "m_done", "none"} \subseteq Pcs
  BY DEF Pcs, SubmitPcs, CallbackPcs, ClosePcs, MaintPcs
<1>m. Maint \in Threads
  BY DEF Threads
<1>1. CASE UNCHANGED vars
  BY <1>1 DEF vars
<1>2. ASSUME NEW t \in Threads, OpenReady(t) PROVE Types'
  BY <1>2, <1>p DEF OpenReady
<1>3. ASSUME NEW t \in Threads, StartMaintenance(t) PROVE Types'
  BY <1>3, <1>p, <1>m DEF StartMaintenance
<1>4. ASSUME NEW t \in Threads, SubmitStep(t) PROVE Types'
  <2>1. CASE TopUp(t)
    BY <2>1, <1>p DEF TopUp
  <2>2. CASE NextSubmission(t)
    BY <2>2, <1>p DEF NextSubmission
  <2>3. CASE LoopDone(t)
    <3>1. after[t] \in Pcs
      BY <1>p
    <3>q. QED
      BY <2>3, <3>1 DEF LoopDone
  <2>4. CASE CheckGate(t)
    BY <2>4, <1>p DEF CheckGate
  <2>5. CASE CountAccept(t)
    BY <2>5, <1>p DEF CountAccept
  <2>6. CASE LoadListener(t)
    BY <2>6, <1>p DEF LoadListener
  <2>7. CASE SubmitAccept(t)
    BY <2>7, <1>p DEF SubmitAccept
  <2>8. CASE SubmitRefused(t)
    BY <2>8, <1>p DEF SubmitRefused
  <2>9. CASE UndoAccept(t)
    BY <2>9, <1>p DEF UndoAccept
  <2>q. QED
    BY <1>4, <2>1, <2>2, <2>3, <2>4, <2>5, <2>6, <2>7, <2>8, <2>9 DEF SubmitStep
<1>5. ASSUME NEW t \in Threads, CallbackStep(t) PROVE Types'
  <2>1. CASE CountDone(t)
    BY <2>1, <1>p DEF CountDone
  <2>2. CASE CallbackKilled(t)
    BY <2>2, <1>p DEF CallbackKilled
  <2>3. CASE CallbackError(t)
    BY <2>3, <1>p DEF CallbackError
  <2>4. CASE CallbackClient(t)
    BY <2>4, <1>p DEF CallbackClient
  <2>5. CASE CheckStopping(t)
    BY <2>5, <1>p DEF CheckStopping
  <2>6. CASE OnConnection(t)
    BY <2>6, <1>p DEF OnConnection
  <2>q. QED
    BY <1>5, <2>1, <2>2, <2>3, <2>4, <2>5, <2>6 DEF CallbackStep
<1>6. ASSUME NEW t \in Threads, CloseStep(t) PROVE Types'
  <2>1. CASE CloseCheck(t)
    BY <2>1, <1>p, <1>m DEF CloseCheck
  <2>2. CASE CloseStop(t)
    BY <2>2, <1>p, <1>m DEF CloseStop
  <2>3. CASE CloseExchange(t)
    BY <2>3, <1>p, <1>m DEF CloseExchange
  <2>4. CASE CloseJoin(t)
    BY <2>4, <1>p, <1>m DEF CloseJoin
  <2>5. CASE CloseTake(t)
    BY <2>5, <1>p, <1>m DEF CloseTake
  <2>6. CASE CloseRetire(t)
    BY <2>6, <1>p, <1>m DEF CloseRetire
  <2>7. CASE CloseCancel(t)
    BY ZenonT(60), <2>7, <1>p, <1>m DEF CloseCancel
  <2>8. CASE CloseDrain(t)
    BY <2>8, <1>p, <1>m DEF CloseDrain
  <2>9. CASE CloseListener(t)
    BY <2>9, <1>p, <1>m DEF CloseListener
  <2>10. CASE CloseScope(t)
    BY <2>10, <1>p, <1>m DEF CloseScope
  <2>q. QED
    BY <1>6, <2>1, <2>2, <2>3, <2>4, <2>5, <2>6, <2>7, <2>8, <2>9, <2>10 DEF CloseStep
<1>7. ASSUME NEW t \in Threads, Starts(t) PROVE Types'
  <2>1. CASE OpenListen(t)
    BY <2>1, <1>p DEF OpenListen
  <2>2. CASE ShellClose(t)
    BY <2>2, <1>p DEF ShellClose
  <2>3. ASSUME NEW l \in Listeners, NEW r \in {"client", "error"}, AcceptEnds(t, l, r)
        PROVE  Types'
    BY <2>3, <1>p DEF AcceptEnds, TakeCompletion
  <2>q. QED
    BY <1>7, <2>1, <2>2, <2>3 DEF Starts
<1>8. CASE MaintLoop \/ MaintCheck
  <2>1. CASE MaintLoop
    BY <2>1, <1>p, <1>m DEF MaintLoop
  <2>2. CASE MaintCheck
    BY <2>2, <1>p, <1>m DEF MaintCheck
  <2>q. QED
    BY <1>8, <2>1, <2>2
<1>9. ASSUME NEW t \in Workers, AcceptDead(t) PROVE Types'
  BY <1>9, <1>p DEF AcceptDead, TakeCompletion, Threads
<1>10. ASSUME NEW l \in cancels, ProcessCancel(l) PROVE Types'
  BY <1>10 DEF ProcessCancel
<1>11. CASE Kill
  BY <1>11 DEF Kill
<1>q. QED
  BY <1>1, <1>2, <1>3, <1>4, <1>5, <1>6, <1>7, <1>8, <1>9, <1>10, <1>11 DEF Next, Run

-----------------------------------------------------------------------------
(* The accepts in the ring                                                 *)

LEMMA RingMember ==
  \A p : p \in InRing <=> \E l \in Places : \E k \in 1..pending[l] : p = <<l, k>>
  BY DEF InRing, Places

LEMMA RingMemberNext ==
  \A p : p \in InRing' <=> \E l \in Places : \E k \in 1..pending'[l] : p = <<l, k>>
  BY DEF InRing, Places

LEMMA HandFinite == IsFiniteSet(InHand) /\ Cardinality(InHand) \in Nat
<1>1. IsFiniteSet(Threads) /\ InHand \subseteq Threads
  BY GateAssumption DEF GateAssumption, InHand
<1>q. QED
  BY <1>1, FS_Subset, FS_CardinalityType

\* One more accept pends on l.
LEMMA RingAdd ==
  ASSUME Types, NEW l \in Places, pending' = [pending EXCEPT ![l] = @ + 1],
         IsFiniteSet(InRing)
  PROVE  IsFiniteSet(InRing') /\ Cardinality(InRing') = Cardinality(InRing) + 1
<1> DEFINE new == <<l, pending[l] + 1>>
<1>1. pending \in [Places -> Nat] /\ pending' \in [Places -> Nat]
  BY DEF Types, Places
<1>2. new \notin InRing
  BY <1>1, RingMember
<1>3. /\ 1..pending'[l] = (1..pending[l]) \cup {pending[l] + 1}
      /\ \A m \in Places \ {l} : pending'[m] = pending[m]
  <2>1. pending'[l] = pending[l] + 1 /\ pending[l] \in Nat
    BY <1>1
  <2>2. 1..pending'[l] = (1..pending[l]) \cup {pending[l] + 1}
    BY <2>1
  <2>q. QED
    BY <2>2, <1>1
<1>4. InRing' = InRing \cup {new}
  BY <1>1, <1>3, RingMember, RingMemberNext
<1>q. QED
  BY <1>2, <1>4, FS_AddElement

\* An accept that pended on l is delivered.
LEMMA RingRemove ==
  ASSUME Types, NEW l \in Places, pending[l] > 0, pending' = [pending EXCEPT ![l] = @ - 1],
         IsFiniteSet(InRing)
  PROVE  IsFiniteSet(InRing') /\ Cardinality(InRing') = Cardinality(InRing) - 1
<1> DEFINE old == <<l, pending[l]>>
<1>1. pending \in [Places -> Nat] /\ pending' \in [Places -> Nat]
  BY DEF Types, Places
<1>2. old \in InRing
  BY <1>1, RingMember
<1>3. /\ 1..pending'[l] = (1..pending[l]) \ {pending[l]}
      /\ \A m \in Places \ {l} : pending'[m] = pending[m]
  <2>1. pending'[l] = pending[l] - 1 /\ pending[l] \in Nat
    BY <1>1
  <2>2. 1..pending'[l] = (1..pending[l]) \ {pending[l]}
    BY <2>1
  <2>q. QED
    BY <2>2, <1>1
<1>4. InRing' = InRing \ {old}
  BY <1>1, <1>3, RingMember, RingMemberNext
<1>q. QED
  BY <1>2, <1>4, FS_RemoveElement

\* A Cancel turns the accepts that pend on l into failed ones, none lost.
LEMMA RingMove ==
  ASSUME Types, NEW l \in Listeners, IsFiniteSet(InRing),
         pending' = [pending EXCEPT ![l] = 0, ![NoFd] = @ + pending[l]]
  PROVE  IsFiniteSet(InRing') /\ Cardinality(InRing') = Cardinality(InRing)
<1> DEFINE base == pending[NoFd]
           f == [p \in InRing |-> IF p[1] = l THEN <<NoFd, base + p[2]>> ELSE p]
<1>1. /\ pending \in [Places -> Nat] /\ l \in Places /\ NoFd \in Places /\ l # NoFd
      /\ base \in Nat
  BY DEF Types, Places, Listeners, NoFd
<1>2. /\ pending'[l] = 0 /\ pending'[NoFd] = base + pending[l]
      /\ \A m \in Places \ {l, NoFd} : pending'[m] = pending[m]
  BY <1>1
<1>3. \A p \in InRing : /\ p = <<p[1], p[2]>> /\ p[1] \in Places
                        /\ p[2] \in 1..pending[p[1]] /\ p[2] \in Nat /\ p[2] > 0
  BY <1>1, RingMember
<1>4. ASSUME NEW p \in InRing PROVE f[p] \in InRing'
  <2>1. CASE p[1] = l
    <3>1. base + p[2] \in 1..pending'[NoFd]
      BY <2>1, <1>1, <1>2, <1>3
    <3>q. QED
      BY <2>1, <3>1, <1>1, RingMemberNext
  <2>2. CASE p[1] # l
    <3>1. p[2] \in 1..pending'[p[1]]
      BY <2>2, <1>1, <1>2, <1>3
    <3>q. QED
      BY ZenonT(60), <2>2, <3>1, <1>3, RingMemberNext
  <2>q. QED
    BY <2>1, <2>2
<1>5. ASSUME NEW p \in InRing, NEW q \in InRing, f[p] = f[q] PROVE p = q
  <2>1. CASE p[1] = l /\ q[1] = l
    BY <2>1, <1>1, <1>3, <1>5
  <2>2. CASE p[1] # l /\ q[1] # l
    BY <2>2, <1>5
  <2>3. ASSUME NEW r \in InRing, NEW s \in InRing, r[1] = l, s[1] # l PROVE f[r] # f[s]
    <3>1. f[r] = <<NoFd, base + r[2]>> /\ f[s] = s
      BY <2>3
    <3>2. ASSUME s[1] = NoFd PROVE s[2] <= base
      BY <3>2, <1>1, <1>3
    <3>3. base + r[2] > base
      BY <1>1, <1>3
    <3>q. QED
      BY <3>1, <3>2, <3>3, <1>1, <1>3
  <2>q. QED
    BY <2>1, <2>2, <2>3, <1>5
<1>6. ASSUME NEW q \in InRing' PROVE \E p \in InRing : f[p] = q
  <2>0. PICK m \in Places : \E k \in 1..pending'[m] : q = <<m, k>>
    BY RingMemberNext
  <2>1. PICK k \in 1..pending'[m] : q = <<m, k>>
    BY <2>0
  <2>2. CASE m = NoFd /\ k > base
    <3>1. k - base \in 1..pending[l]
      BY <2>1, <2>2, <1>1, <1>2
    <3>2. <<l, k - base>> \in InRing
      BY <3>1, <1>1, RingMember
    <3>3. f[<<l, k - base>>] = q
      BY <3>2, <2>1, <2>2, <1>1, <1>2
    <3>q. QED
      BY <3>2, <3>3
  <2>3. CASE ~(m = NoFd /\ k > base)
    <3>1. m # l /\ k \in 1..pending[m]
      BY <2>1, <2>3, <1>1, <1>2
    <3>2. q \in InRing
      BY <2>1, <3>1, RingMember
    <3>q. QED
      BY <2>1, <3>1, <3>2
  <2>q. QED
    BY <2>2, <2>3
<1>7. f \in Bijection(InRing, InRing')
  <2>1. f \in [InRing -> InRing']
    BY <1>4
  <2> HIDE DEF f
  <2>2. f \in Injection(InRing, InRing')
    BY <2>1, <1>5 DEF Injection, IsInjective
  <2>3. f \in Surjection(InRing, InRing')
    BY <2>1, <1>6 DEF Surjection
  <2>q. QED
    BY <2>2, <2>3 DEF Bijection
<1>q. QED
  BY <1>7, FS_Bijection DEF ExistsBijection

-----------------------------------------------------------------------------
(* The count                                                               *)

LEMMA CountInit == Init => CountInv
<1> SUFFICES ASSUME Init PROVE CountInv
  OBVIOUS
<1>1. \A l \in Places : pending[l] = 0
  BY DEF Init, Places
<1>2. InRing = {}
  BY <1>1, RingMember
<1>3. InHand = {}
  BY DEF Init, InHand
<1>4. IsFiniteSet(InRing) /\ inflight = Cardinality(InRing) + Cardinality(InHand)
  BY <1>2, <1>3, FS_EmptySet DEF Init
<1>q. QED
  BY <1>4, TypesInit DEF CountInv, AcceptsCounted

\* A step that neither submits, delivers nor counts an accept.
Aside == InHand' = InHand /\ UNCHANGED <<inflight, pending>>

LEMMA AsideKeeps == CountInv /\ Types' /\ Aside => CountInv'
<1> SUFFICES ASSUME CountInv, Types', Aside PROVE CountInv'
  OBVIOUS
<1>1. InRing' = InRing
  BY DEF InRing, Aside
<1>q. QED
  BY <1>1 DEF CountInv, AcceptsCounted, Aside

LEMMA CountStep == CountInv /\ [Next]_vars => CountInv'
<1> SUFFICES ASSUME CountInv, [Next]_vars PROVE CountInv'
  OBVIOUS
<1> USE DEF gateVars, callVars, ringVars, Goto
<1>t. Types /\ Types' /\ IsFiniteSet(InRing) /\ AcceptsCounted
  BY TypesStep DEF CountInv
<1>h. /\ IsFiniteSet(InHand) /\ Cardinality(InHand) \in Nat
      /\ Cardinality(InRing) \in Nat
  BY <1>t, HandFinite, FS_CardinalityType
<1>f. /\ inflight \in Int /\ pc \in [Threads -> Pcs]
      /\ Maint \in Threads /\ Workers \subseteq Threads
  BY <1>t DEF Types, Threads
<1>r. ASSUME UNCHANGED pending PROVE InRing' = InRing
  BY <1>r DEF InRing
\* One case per effect on the two sets and the count.
<1>a. ASSUME Aside PROVE CountInv'
  BY <1>a, <1>t, AsideKeeps
<1>b. ASSUME NEW t \in Threads, CountAccept(t) PROVE CountInv'
  <2>1. t \notin InHand /\ InHand' = InHand \cup {t} /\ inflight' = inflight + 1
    BY <1>b, <1>f DEF CountAccept, InHand
  <2>2. Cardinality(InHand') = Cardinality(InHand) + 1
    BY <2>1, <1>h, FS_AddElement
  <2>3. InRing' = InRing
    BY <1>b, <1>r DEF CountAccept
  <2>q. QED
    BY <2>1, <2>2, <2>3, <1>t, <1>h, <1>f DEF CountInv, AcceptsCounted
<1>c. ASSUME NEW t \in Threads, UndoAccept(t) \/ CountDone(t) PROVE CountInv'
  <2>1. t \in InHand /\ InHand' = InHand \ {t} /\ inflight' = inflight - 1
    BY <1>c, <1>f DEF UndoAccept, CountDone, InHand
  <2>2. Cardinality(InHand') = Cardinality(InHand) - 1
    BY <2>1, <1>h, FS_RemoveElement
  <2>3. InRing' = InRing
    BY <1>c, <1>r DEF UndoAccept, CountDone
  <2>q. QED
    BY <2>1, <2>2, <2>3, <1>t, <1>h, <1>f DEF CountInv, AcceptsCounted
<1>d. ASSUME NEW t \in Threads, SubmitAccept(t) PROVE CountInv'
  <2>1. t \in InHand /\ InHand' = InHand \ {t} /\ inflight' = inflight
    BY <1>d, <1>f DEF SubmitAccept, InHand
  <2>2. Cardinality(InHand') = Cardinality(InHand) - 1
    BY <2>1, <1>h, FS_RemoveElement
  <2> DEFINE l == IF fd[t] \in open THEN fd[t] ELSE NoFd
  <2>3. l \in Places /\ pending' = [pending EXCEPT ![l] = @ + 1]
    BY <1>d, <1>t DEF SubmitAccept, Types, Places
  <2> HIDE DEF l
  <2>4. IsFiniteSet(InRing') /\ Cardinality(InRing') = Cardinality(InRing) + 1
    BY <2>3, <1>t, RingAdd
  <2>q. QED
    BY <2>1, <2>2, <2>4, <1>t, <1>h, <1>f DEF CountInv, AcceptsCounted
<1>e. ASSUME NEW t \in Threads, NEW l \in Places, NEW r, TakeCompletion(t, l, r)
      PROVE  CountInv'
  <2>1. t \notin InHand /\ InHand' = InHand \cup {t} /\ inflight' = inflight
    BY <1>e, <1>f DEF TakeCompletion, InHand
  <2>2. Cardinality(InHand') = Cardinality(InHand) + 1
    BY <2>1, <1>h, FS_AddElement
  <2>3. IsFiniteSet(InRing') /\ Cardinality(InRing') = Cardinality(InRing) - 1
    BY <1>e, <1>t, RingRemove DEF TakeCompletion
  <2>q. QED
    BY <2>1, <2>2, <2>3, <1>t, <1>h, <1>f DEF CountInv, AcceptsCounted
<1>g. ASSUME NEW l \in cancels, ProcessCancel(l) PROVE CountInv'
  <2>1. InHand' = InHand /\ inflight' = inflight
    BY <1>g DEF ProcessCancel, InHand
  <2>2. CASE l \in open
    <3>1. l \in Listeners /\ pending' = [pending EXCEPT ![l] = 0, ![NoFd] = @ + pending[l]]
      BY <1>g, <2>2, <1>t DEF ProcessCancel, Types
    <3>2. IsFiniteSet(InRing') /\ Cardinality(InRing') = Cardinality(InRing)
      BY <3>1, <1>t, RingMove
    <3>q. QED
      BY <2>1, <3>2, <1>t DEF CountInv, AcceptsCounted
  <2>3. CASE l \notin open
    BY <1>g, <2>1, <2>3, <1>a DEF ProcessCancel, Aside
  <2>q. QED
    BY <2>2, <2>3
<1>1. ASSUME NEW t \in Threads, SubmitStep(t) PROVE CountInv'
  <2>1. CASE TopUp(t) \/ NextSubmission(t) \/ CheckGate(t)
    BY <2>1, <1>f, <1>a DEF TopUp, NextSubmission, CheckGate, Aside, InHand
  <2>2. CASE LoopDone(t)
    <3>1. after[t] \notin {"sa_fd", "sa_submit", "sa_undo", "cb_dec"}
      BY <1>t DEF Types
    <3>q. QED
      BY <2>2, <3>1, <1>f, <1>a DEF LoopDone, Aside, InHand
  <2>3. CASE LoadListener(t) \/ SubmitRefused(t)
    BY <2>3, <1>f, <1>a DEF LoadListener, SubmitRefused, Aside, InHand
  <2>q. QED
    BY <1>1, <2>1, <2>2, <2>3, <1>b, <1>c, <1>d DEF SubmitStep
<1>2. ASSUME NEW t \in Threads, CallbackStep(t) PROVE CountInv'
  <2>1. CASE CallbackKilled(t) \/ CallbackError(t) \/ CallbackClient(t)
    BY <2>1, <1>f, <1>a DEF CallbackKilled, CallbackError, CallbackClient, Aside, InHand
  <2>2. CASE CheckStopping(t) \/ OnConnection(t)
    BY <2>2, <1>f, <1>a DEF CheckStopping, OnConnection, Aside, InHand
  <2>q. QED
    BY <1>2, <2>1, <2>2, <1>c DEF CallbackStep
<1>3. ASSUME NEW t \in Threads, CloseStep(t) PROVE CountInv'
  <2>1. CASE CloseCheck(t) \/ CloseStop(t) \/ CloseExchange(t)
    BY <2>1, <1>f, <1>a DEF CloseCheck, CloseStop, CloseExchange, Aside, InHand
  <2>2. CASE CloseJoin(t)
    BY <2>2, <1>f, <1>a DEF CloseJoin, Aside, InHand
  <2>3. CASE CloseTake(t) \/ CloseRetire(t) \/ CloseCancel(t)
    BY <2>3, <1>f, <1>a DEF CloseTake, CloseRetire, CloseCancel, Aside, InHand
  <2>4. CASE CloseDrain(t) \/ CloseListener(t) \/ CloseScope(t)
    BY <2>4, <1>f, <1>a DEF CloseDrain, CloseListener, CloseScope, Aside, InHand
  <2>q. QED
    BY <1>3, <2>1, <2>2, <2>3, <2>4 DEF CloseStep
<1>4. ASSUME NEW t \in Threads, OpenReady(t) \/ StartMaintenance(t) PROVE CountInv'
  BY <1>4, <1>f, <1>a DEF OpenReady, StartMaintenance, Aside, InHand
<1>5. ASSUME NEW t \in Threads, Starts(t) PROVE CountInv'
  <2>1. CASE OpenListen(t) \/ ShellClose(t)
    BY <2>1, <1>f, <1>a DEF OpenListen, ShellClose, Aside, InHand
  <2>2. ASSUME NEW l \in Listeners, NEW r \in {"client", "error"}, AcceptEnds(t, l, r)
        PROVE  CountInv'
    BY <2>2, <1>e DEF AcceptEnds, Places
  <2>q. QED
    BY <1>5, <2>1, <2>2 DEF Starts
<1>6. CASE MaintLoop \/ MaintCheck
  BY <1>6, <1>f, <1>a DEF MaintLoop, MaintCheck, Aside, InHand
<1>7. ASSUME NEW t \in Workers, AcceptDead(t) PROVE CountInv'
  BY <1>7, <1>e, <1>f DEF AcceptDead, Places
<1>8. CASE Kill
  BY <1>8, <1>a DEF Kill, Aside, InHand
<1>9. CASE UNCHANGED vars
  BY <1>9, <1>a DEF vars, Aside, InHand
<1>q. QED
  BY <1>1, <1>2, <1>3, <1>4, <1>5, <1>6, <1>7, <1>8, <1>9, <1>g DEF Next, Run

-----------------------------------------------------------------------------
\* inflight_ counts the accepts in the ring and in a thread's hand, in every
\* interleaving of submissions, refusals, completions, kills and closes.
THEOREM CountExact == Spec => []AcceptsCounted
<1>1. Spec => []CountInv
  BY CountInit, CountStep, PTL DEF Spec
<1>2. CountInv => AcceptsCounted
  BY DEF CountInv
<1>q. QED
  BY <1>1, <1>2, PTL

\* Every variable keeps its type and the count never goes below zero: the
\* drain of CloseConcrete does not end on a count that something undershot.
THEOREM GateTypeCorrect == Spec => []TypeOK
<1>1. Spec => []CountInv
  BY CountInit, CountStep, PTL DEF Spec
<1>2. CountInv => TypeOK
  <2> SUFFICES ASSUME CountInv PROVE TypeOK
    OBVIOUS
  <2>1. Cardinality(InRing) \in Nat /\ Cardinality(InHand) \in Nat
    BY HandFinite, FS_CardinalityType DEF CountInv
  <2>q. QED
    BY <2>1 DEF CountInv, AcceptsCounted, TypeOK
<1>q. QED
  BY <1>1, <1>2, PTL
-----------------------------------------------------------------------------
(* The listener, when one thread opens and closes, nobody kills the scope  *)
(* and no Cancel is refused                                                *)

\* No accept names a listener any more.
Drained == /\ \A l \in Listeners : pending[l] = 0
           /\ \A t \in Threads : pc[t] = "sa_submit" => fd[t] = NoFd

\* s is the only thread that closes; while it waits, nobody can read a
\* listener, and past the wait nobody names one.
ListenInv(s) ==
    /\ scope # "killed"
    /\ \A t \in Threads \ {s} : pc[t] \notin ClosePcs
    /\ listen_fd # NoFd => listen_fd \in open
    /\ ListenerOutlivesAccepts
    /\ pc[s] \in {"cl_cancel", "cl_drain", "cl_close"} => listen_fd = NoFd
    /\ pc[s] = "cl_drain" => armed[s]
    /\ pc[s] = "cl_close" => Drained

\* A count of zero means that nobody names a listener.
LEMMA ZeroIsDrained == CountInv /\ inflight <= 0 => Drained
<1> SUFFICES ASSUME CountInv, inflight <= 0 PROVE Drained
  OBVIOUS
<1>1. IsFiniteSet(InRing) /\ inflight = Cardinality(InRing) + Cardinality(InHand)
  BY DEF CountInv, AcceptsCounted
<1>2. /\ IsFiniteSet(InHand) /\ Cardinality(InHand) \in Nat
      /\ Cardinality(InRing) \in Nat
  BY <1>1, HandFinite, FS_CardinalityType
<1>3. Cardinality(InRing) = 0 /\ Cardinality(InHand) = 0
  BY <1>1, <1>2
<1>4. InRing = {} /\ InHand = {}
  BY <1>1, <1>2, <1>3, FS_EmptySet
<1>5. pending \in [Places -> Nat] /\ Listeners \subseteq Places
  BY DEF CountInv, Types, Places
<1>6. ASSUME NEW l \in Listeners, pending[l] # 0 PROVE FALSE
  <2>1. 1 \in 1..pending[l] /\ l \in Places
    BY <1>5, <1>6
  <2>2. <<l, 1>> \in InRing
    BY <2>1, RingMember
  <2>q. QED
    BY <2>2, <1>4
<1>7. \A t \in Threads : pc[t] # "sa_submit"
  BY <1>4 DEF InHand
<1>q. QED
  BY <1>6, <1>7 DEF Drained

LEMMA ListenInit == ASSUME NEW s \in Threads PROVE Init => ListenInv(s)
<1> SUFFICES ASSUME Init PROVE ListenInv(s)
  OBVIOUS
<1>1. /\ \A l \in Listeners : pending[l] = 0
      /\ \A t \in Threads : pc[t] \in {"none", "idle"}
      /\ listen_fd = NoFd /\ scope = "none"
  BY DEF Init
<1>q. QED
  BY <1>1 DEF ListenInv, ListenerOutlivesAccepts, ClosePcs

LEMMA ListenStep ==
  ASSUME NEW s, Shells = {s}, ~MayKill, ~CancelMayFail,
         CountInv, ListenInv(s), [Next]_vars
  PROVE  ListenInv(s)'
<1> USE GateAssumption DEF GateAssumption, gateVars, callVars, ringVars, Goto, ListenerOutlivesAccepts
<1>t. /\ pc \in [Threads -> Pcs] /\ fd \in [Threads -> {NoFd} \cup Listeners]
      /\ pending \in [{NoFd} \cup Listeners -> Nat] /\ armed \in [Threads -> BOOLEAN]
      /\ after \in [Threads -> {"idle", "open_maint", "connect", "m_loop"}]
      /\ Maint \in Threads /\ s \in Threads /\ Maint # s
      /\ opened \in Nat /\ NoFd \notin Listeners /\ listen_fd \in {NoFd} \cup Listeners
  BY DEF CountInv, Types, Threads, NoFd, Listeners
<1>1. ASSUME NEW t \in Threads, SubmitStep(t) PROVE ListenInv(s)'
  <2>1. CASE TopUp(t)
    BY <2>1, <1>t DEF TopUp, ListenInv, Drained, ClosePcs
  <2>2. CASE NextSubmission(t)
    BY <2>2, <1>t DEF NextSubmission, ListenInv, Drained, ClosePcs
  <2>3. CASE LoopDone(t)
    BY <2>3, <1>t DEF LoopDone, ListenInv, Drained, ClosePcs
  <2>4. CASE CheckGate(t)
    BY <2>4, <1>t DEF CheckGate, ListenInv, Drained, ClosePcs
  <2>5. CASE CountAccept(t)
    BY <2>5, <1>t DEF CountAccept, ListenInv, Drained, ClosePcs
  <2>6. CASE LoadListener(t)
    BY <2>6, <1>t DEF LoadListener, ListenInv, Drained, ClosePcs
  <2>7. CASE SubmitAccept(t)
    BY <2>7, <1>t DEF SubmitAccept, ListenInv, Drained, ClosePcs
  <2>8. CASE SubmitRefused(t)
    BY <2>8, <1>t DEF SubmitRefused, ListenInv, Drained, ClosePcs
  <2>9. CASE UndoAccept(t)
    BY <2>9, <1>t DEF UndoAccept, ListenInv, Drained, ClosePcs
  <2>q. QED
    BY <1>1, <2>1, <2>2, <2>3, <2>4, <2>5, <2>6, <2>7, <2>8, <2>9 DEF SubmitStep
<1>2. ASSUME NEW t \in Threads, CallbackStep(t) PROVE ListenInv(s)'
  <2>1. CASE CountDone(t)
    BY <2>1, <1>t DEF CountDone, ListenInv, Drained, ClosePcs
  <2>2. CASE CallbackKilled(t)
    BY <2>2, <1>t DEF CallbackKilled, Killed, ListenInv, Drained, ClosePcs
  <2>3. CASE CallbackError(t)
    BY <2>3, <1>t DEF CallbackError, ListenInv, Drained, ClosePcs
  <2>4. CASE CallbackClient(t)
    BY <2>4, <1>t DEF CallbackClient, ListenInv, Drained, ClosePcs
  <2>5. CASE CheckStopping(t)
    BY <2>5, <1>t DEF CheckStopping, ListenInv, Drained, ClosePcs
  <2>6. CASE OnConnection(t)
    BY <2>6, <1>t DEF OnConnection, ListenInv, Drained, ClosePcs
  <2>q. QED
    BY <1>2, <2>1, <2>2, <2>3, <2>4, <2>5, <2>6 DEF CallbackStep
<1>3. ASSUME NEW t \in Threads, CloseStep(t) PROVE ListenInv(s)'
  <2>1. CASE CloseCheck(t)
    BY <2>1, <1>t DEF CloseCheck, ListenInv, Drained, ClosePcs
  <2>2. CASE CloseStop(t)
    BY <2>2, <1>t DEF CloseStop, ListenInv, Drained, ClosePcs
  <2>3. CASE CloseExchange(t)
    BY <2>3, <1>t DEF CloseExchange, ListenInv, Drained, ClosePcs
  <2>4. CASE CloseJoin(t)
    BY <2>4, <1>t DEF CloseJoin, ListenInv, Drained, ClosePcs
  <2>5. CASE CloseTake(t)
    BY <2>5, <1>t DEF CloseTake, ListenInv, Drained, ClosePcs
  <2>6. CASE CloseRetire(t)
    BY <2>6, <1>t DEF CloseRetire, ListenInv, Drained, ClosePcs
  <2>7. CASE CloseCancel(t)
    BY <2>7, <1>t DEF CloseCancel, ListenInv, Drained, ClosePcs
  <2>8. CASE CloseDrain(t)
    <3>1. t = s /\ inflight <= 0
      BY <2>8, <1>t DEF CloseDrain, ListenInv, ClosePcs
    <3>2. Drained
      BY <3>1, ZeroIsDrained
    <3>q. QED
      BY <2>8, <3>1, <3>2, <1>t DEF CloseDrain, ListenInv, Drained, ClosePcs
  <2>9. CASE CloseListener(t)
    <3>1. t = s /\ Drained /\ listen_fd = NoFd
      BY <2>9, <1>t DEF CloseListener, ListenInv, ClosePcs
    <3>q. QED
      BY <2>9, <3>1, <1>t DEF CloseListener, ListenInv, Drained, ClosePcs
  <2>10. CASE CloseScope(t)
    BY <2>10, <1>t DEF CloseScope, ListenInv, Drained, ClosePcs
  <2>q. QED
    BY <1>3, <2>1, <2>2, <2>3, <2>4, <2>5, <2>6, <2>7, <2>8, <2>9, <2>10 DEF CloseStep
<1>4. ASSUME NEW t \in Threads, OpenReady(t) PROVE ListenInv(s)'
  BY <1>4, <1>t DEF OpenReady, ListenInv, Drained, ClosePcs
<1>5. ASSUME NEW t \in Threads, StartMaintenance(t) PROVE ListenInv(s)'
  BY <1>5, <1>t DEF StartMaintenance, ListenInv, Drained, ClosePcs
<1>6. ASSUME NEW t \in Threads, Starts(t) PROVE ListenInv(s)'
  <2>1. CASE t = s /\ OpenListen(t)
    BY <2>1, <1>t DEF OpenListen, ListenInv, Drained, ClosePcs
  <2>2. CASE t = s /\ ShellClose(t)
    BY <2>2, <1>t DEF ShellClose, ListenInv, Drained, ClosePcs
  <2>3. ASSUME NEW l \in Listeners, NEW r \in {"client", "error"}, AcceptEnds(t, l, r)
        PROVE  ListenInv(s)'
    BY <2>3, <1>t DEF AcceptEnds, TakeCompletion, ListenInv, Drained, ClosePcs
  <2>q. QED
    BY <1>6, <2>1, <2>2, <2>3 DEF Starts
<1>7. CASE MaintLoop
  BY <1>7, <1>t DEF MaintLoop, ListenInv, Drained, ClosePcs
<1>8. CASE MaintCheck
  BY <1>8, <1>t DEF MaintCheck, ListenInv, Drained, ClosePcs
<1>9. ASSUME NEW t \in Workers, AcceptDead(t) PROVE ListenInv(s)'
  <2>1. t \in Threads /\ NoFd \notin Listeners
    BY <1>t DEF Threads
  <2>q. QED
    BY <1>9, <2>1, <1>t DEF AcceptDead, TakeCompletion, ListenInv, Drained, ClosePcs
<1>10. ASSUME NEW l \in cancels, ProcessCancel(l) PROVE ListenInv(s)'
  BY <1>10, <1>t DEF ProcessCancel, CountInv, Types, ListenInv, Drained, ClosePcs
<1>11. CASE Kill
  BY <1>11 DEF Kill
<1>12. CASE UNCHANGED vars
  BY <1>12 DEF vars, ListenInv, Drained, ClosePcs
<1>q. QED
  BY <1>1, <1>2, <1>3, <1>4, <1>5, <1>6, <1>7, <1>8, <1>9, <1>10, <1>11, <1>12 DEF Next, Run

\* A listening descriptor is never given back while an accept in the ring, or
\* about to be submitted, names it: for every window, number of workers and
\* number of openings, as long as one thread opens and closes, the scope is
\* not killed and Close's Cancel is taken.
THEOREM ListenerSafe ==
  ASSUME NEW s, Shells = {s}, ~MayKill, ~CancelMayFail
  PROVE  Spec => []ListenerOutlivesAccepts
<1>1. s \in Threads
  BY DEF Threads
<1>2. Init => CountInv /\ ListenInv(s)
  BY <1>1, CountInit, ListenInit
<1>3. CountInv /\ ListenInv(s) /\ [Next]_vars => (CountInv /\ ListenInv(s))'
  BY CountStep, ListenStep
<1>4. ListenInv(s) => ListenerOutlivesAccepts
  BY DEF ListenInv
<1>q. QED
  BY <1>2, <1>3, <1>4, PTL DEF Spec
=============================================================================

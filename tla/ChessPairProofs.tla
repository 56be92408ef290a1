--------------------------- MODULE ChessPairProofs ---------------------------
(***************************************************************************)
(* Proofs about a pair's game, for any states, steps and outcomes, any     *)
(* record and any order of pushes, pulls, failures and rebuilds.           *)
(*                                                                         *)
(* That two boards agree is not a fact about two states: they may have     *)
(* been at the same line at different times.  What is inductive is that    *)
(* a board which missed nothing is where the lines it replayed lead, given *)
(* the ones it disagreed to (PathInv); that two such paths meet is then    *)
(* shown along the record (Meet).                                          *)
(***************************************************************************)
EXTENDS ChessPair, TLAPS, SequenceTheorems, WellFoundedInduction

-----------------------------------------------------------------------------
(* Types, and what the lines of the record are                             *)

\* A step in the record was made from a state and led to one.
Sound(m) == /\ m \in Messages
            /\ m.kind = "step" => m.step \in Steps /\ m.from \in States /\ m.to \in States

\* A void is about a line before its own.
RecordInv ==
    /\ record \in Seq([self : Pages, msg : Messages])
    /\ \A i \in 1..Len(record) : /\ Sound(record[i].msg)
                                 /\ record[i].msg.kind = "void" => record[i].msg.about < i

BoardInv ==
    /\ state \in [Pages -> States]
    /\ pending \in [Pages -> [on : BOOLEAN, undone : BOOLEAN, from : StateOrNone, to : StateOrNone]]
    /\ last_step \in [Pages -> [seq : Nat, before : StateOrNone]]
    /\ last_line \in [Pages -> Nat]
    /\ voided \in [Pages -> [about : Nat, at : Nat]]
    /\ chain_seq \in [Pages -> Nat] /\ whole \in [Pages -> BOOLEAN]
    /\ disagreed \in [Pages -> SUBSET Nat]
    /\ \A b \in Pages : /\ pending[b].on => pending[b].from \in States
                        /\ Drawn(b) => state[b] = pending[b].to
                        /\ last_step[b].seq # 0 => last_step[b].before \in States

PullInv ==
    /\ since \in [Pages -> Nat] /\ at \in [Pages -> Nat] /\ page_end \in [Pages -> Nat]
    /\ \A b \in Pages : since[b] <= at[b] /\ at[b] <= page_end[b] /\ page_end[b] <= Len(record)
    /\ pulling \in [Pages -> BOOLEAN] /\ rebuilding \in [Pages -> BOOLEAN]

\* What a page has to dispute is in the record.
SpeakInv ==
    /\ disputed \in [Pages -> Seq(Nat)] /\ voids \in [Pages -> Seq(Nat)]
    /\ \A b \in Pages : /\ \A i \in 1..Len(disputed[b]) : disputed[b][i] <= Len(record)
                        /\ \A i \in 1..Len(voids[b]) : voids[b][i] <= Len(record)
    /\ unsent \in [Pages -> Seq(Messages)]
    /\ \A b \in Pages : \A i \in 1..Len(unsent[b]) : Sound(unsent[b][i]) /\ unsent[b][i].kind = "step"
    /\ refused \in [Pages -> Nat]
    /\ unsaid \subseteq Nat

LeftInv ==
    \E m \in Budgets : /\ left \in [steps : 0..m.steps, talk : 0..m.talk,
                                    failures : 0..m.failures, flaky : {m.flaky}]

PairInv == RecordInv /\ BoardInv /\ PullInv /\ SpeakInv /\ LeftInv

LEMMA PairInit == Init => PairInv
<1> SUFFICES ASSUME Init PROVE PairInv
  OBVIOUS
<1> USE PairAssumption DEF Init
<1>1. RecordInv
  BY DEF RecordInv
<1>2. BoardInv
  BY DEF BoardInv, Drawn, NoPending, NoLast, NoVoid, StateOrNone
<1>3. PullInv
  BY DEF PullInv
<1>4. SpeakInv
  BY DEF SpeakInv
<1>5. LeftInv
  <2>1. /\ left \in Budgets /\ left \in [steps : Nat, talk : Nat, failures : Nat, flaky : SUBSET Pages]
    OBVIOUS
  <2>2. left \in [steps : 0..left.steps, talk : 0..left.talk, failures : 0..left.failures,
                  flaky : {left.flaky}]
    BY <2>1
  <2> QED
    BY <2>1, <2>2 DEF LeftInv
<1>q. QED
  BY <1>1, <1>2, <1>3, <1>4, <1>5 DEF PairInv

LEMMA PairTypes == PairInv => TypeOK
BY DEF PairInv, RecordInv, BoardInv, PullInv, SpeakInv, LeftInv, TypeOK

-----------------------------------------------------------------------------
(* A step keeps the invariant, conjunct by conjunct                        *)

\* A line said: a sound one, and a void is about a line that is there.
LEMMA SaidLine ==
  ASSUME RecordInv, NEW b \in Pages, NEW m, Sound(m),
         m.kind = "void" => m.about <= Len(record), Pushed(b, m)
  PROVE  RecordInv' /\ Len(record') = Len(record) + 1
<1> DEFINE n == Len(record) + 1
<1>1. /\ record' = Append(record, Line(b, m))
      /\ Line(b, m) \in [self : Pages, msg : Messages]
      /\ Line(b, m).msg = m /\ record \in Seq([self : Pages, msg : Messages])
  BY DEF Pushed, Line, Sound, RecordInv
<1>2. /\ record' \in Seq([self : Pages, msg : Messages]) /\ Len(record') = n
      /\ record'[n] = Line(b, m) /\ \A i \in 1..Len(record) : record'[i] = record[i]
  BY <1>1
<1>3. ASSUME NEW i \in 1..n
      PROVE  Sound(record'[i].msg) /\ (record'[i].msg.kind = "void" => record'[i].msg.about < i)
  <2>1. CASE i = n
    <3>1. record'[i].msg = m /\ Sound(record'[i].msg)
      BY <2>1, <1>1, <1>2
    <3>2. m.about \in Nat /\ Len(record) \in Nat
      BY <1>1 DEF Sound, Messages
    <3> QED
      BY <3>1, <3>2, <2>1
  <2>2. CASE i # n
    <3>1. i \in 1..Len(record)
      BY <2>2, <1>1
    <3> QED
      BY <3>1, <1>2 DEF RecordInv
  <2> QED
    BY <2>1, <2>2
<1>4. Sound(m)' = Sound(m)
  BY DEF Sound
<1> QED
  BY <1>2, <1>3, <1>4 DEF RecordInv, Sound

LEMMA SoundVoid == ASSUME NEW k \in Nat PROVE Sound(Void(k)) /\ Void(k).about = k
BY DEF Sound, Void, Messages, StateOrNone

LEMMA SoundTalk == Sound(Talk) /\ Talk.kind = "say"
BY DEF Sound, Talk, Messages, StateOrNone

LEMMA SoundStep ==
  ASSUME NEW s \in Steps, NEW from \in States, NEW to \in States
  PROVE  Sound(Step(s, from, to)) /\ Step(s, from, to).kind = "step"
BY DEF Sound, Step, Messages, StateOrNone

\* What RemoveAt leaves was there.
LEMMA RemovedAt ==
  ASSUME NEW S, NEW q \in Seq(S), NEW i \in 1..Len(q)
  PROVE  /\ RemoveAt(q, i) \in Seq(S)
         /\ \A j \in 1..Len(RemoveAt(q, i)) : \E h \in 1..Len(q) : RemoveAt(q, i)[j] = q[h]
<1> DEFINE l == SubSeq(q, 1, i - 1)
           r == SubSeq(q, i + 1, Len(q))
<1>1. l \in Seq(S) /\ Len(l) = i - 1 /\ \A j \in 1..Len(l) : l[j] = q[j]
  OBVIOUS
<1>2. r \in Seq(S) /\ Len(r) = Len(q) - i /\ \A j \in 1..Len(r) : r[j] = q[i + j]
  OBVIOUS
<1>3. RemoveAt(q, i) = l \o r
  BY DEF RemoveAt
<1> HIDE DEF l, r
<1>3a. /\ l \o r \in Seq(S) /\ Len(l \o r) = Len(l) + Len(r)
       /\ \A j \in 1..Len(l) + Len(r) : (l \o r)[j] = IF j <= Len(l) THEN l[j] ELSE r[j - Len(l)]
  <2>1. l \in Seq(S) /\ r \in Seq(S)
    BY <1>1, <1>2
  <2> QED
    BY <2>1, ConcatProperties, Zenon
<1>4. /\ l \o r \in Seq(S) /\ Len(l \o r) = Len(l) + Len(r)
      /\ \A j \in 1..Len(l \o r) : (l \o r)[j] = IF j <= Len(l) THEN l[j] ELSE r[j - Len(l)]
  BY <1>3a, Zenon
<1>5. ASSUME NEW j \in 1..Len(l \o r)
      PROVE  \E h \in 1..Len(q) : (l \o r)[j] = q[h]
  <2>0. j \in Nat /\ i \in Nat /\ Len(q) \in Nat /\ j <= Len(q) - 1 /\ j >= 1 /\ i >= 1
    BY <1>1, <1>2, <1>4
  <2>1. CASE j <= Len(l)
    <3>1. (l \o r)[j] = q[j] /\ j \in 1..Len(q)
      BY <2>0, <2>1, <1>1, <1>4
    <3> QED
      BY <3>1
  <2>2. CASE ~(j <= Len(l))
    <3>1. j - Len(l) \in 1..Len(r) /\ i + (j - Len(l)) = j + 1
      BY <2>0, <2>2, <1>1, <1>2, <1>4
    <3>2. (l \o r)[j] = r[j - Len(l)] /\ r[j - Len(l)] = q[i + (j - Len(l))]
      BY <3>1, <2>2, <1>2, <1>4
    <3>3. (l \o r)[j] = q[j + 1] /\ j + 1 \in 1..Len(q)
      BY <3>1, <3>2, <2>0
    <3> QED
      BY <3>3
  <2> QED
    BY <2>1, <2>2
<1> QED
  BY <1>3, <1>4, <1>5

\* The budget only shrinks.
LEMMA Spent ==
  ASSUME LeftInv,
         \/ left' = [left EXCEPT !.steps = @ - 1] /\ left.steps > 0
         \/ left' = [left EXCEPT !.talk = @ - 1] /\ left.talk > 0
         \/ left' = [left EXCEPT !.failures = @ - 1] /\ left.failures > 0
         \/ left' = left
  PROVE  LeftInv'
<1> PICK m \in Budgets : left \in [steps : 0..m.steps, talk : 0..m.talk,
                                   failures : 0..m.failures, flaky : {m.flaky}]
  BY DEF LeftInv
<1>1. m.steps \in Nat /\ m.talk \in Nat /\ m.failures \in Nat
  BY PairAssumption
<1>2. left' \in [steps : 0..m.steps, talk : 0..m.talk, failures : 0..m.failures, flaky : {m.flaky}]
  BY <1>1
<1> QED
  BY <1>2 DEF LeftInv

-----------------------------------------------------------------------------
(* A page acts                                                             *)

LEMMA ProposeKeeps ==
  ASSUME PairInv, NEW b \in Pages, NEW s \in Steps, Propose(b, s)
  PROVE  PairInv'
<1> USE DEF PairInv
<1>1. PICK to \in Outcomes[state[b]][s] \ {Refused, state[b]} :
          /\ state' = [state EXCEPT ![b] = to]
          /\ pending' = [pending EXCEPT ![b] =
                           [on |-> TRUE, undone |-> FALSE, from |-> state[b], to |-> to]]
          /\ unsent' = [unsent EXCEPT ![b] = Append(@, Step(s, state[b], to))]
  BY DEF Propose
<1>2. state[b] \in States /\ to \in States
  BY PairAssumption DEF BoardInv
<1>3. RecordInv' /\ PullInv' /\ LeftInv'
  BY Spent DEF Propose, RecordInv, PullInv, pullVars, Sound
<1>4. BoardInv'
  <2>1. /\ state' \in [Pages -> States]
        /\ pending' \in [Pages -> [on : BOOLEAN, undone : BOOLEAN, from : StateOrNone, to : StateOrNone]]
    BY <1>1, <1>2 DEF BoardInv, StateOrNone
  <2>2. ASSUME NEW a \in Pages
        PROVE  /\ pending'[a].on => pending'[a].from \in States
               /\ Drawn(a)' => state'[a] = pending'[a].to
               /\ last_step'[a].seq # 0 => last_step'[a].before \in States
    BY <1>1, <1>2 DEF BoardInv, Drawn, Propose
  <2> QED
    BY <2>1, <2>2 DEF BoardInv, Propose
<1>5. SpeakInv'
  <2> DEFINE m == Step(s, state[b], to)
  <2>1. Sound(m) /\ m.kind = "step" /\ m \in Messages
    BY <1>2, SoundStep DEF Sound
  <2>2. \A n : Sound(n)' = Sound(n)
    BY DEF Sound
  <2> HIDE DEF m
  <2>3. unsent' \in [Pages -> Seq(Messages)]
    BY <1>1, <2>1 DEF SpeakInv, m
  <2>4. ASSUME NEW a \in Pages, NEW j \in 1..Len(unsent'[a])
        PROVE  Sound(unsent'[a][j]) /\ unsent'[a][j].kind = "step"
    <3>1. unsent'[a] = unsent[a] \/ unsent'[a] = Append(unsent[a], m)
      BY <1>1 DEF SpeakInv, m
    <3>2. unsent[a] \in Seq(Messages)
      BY DEF SpeakInv
    <3>3. unsent'[a][j] = m \/ (j \in 1..Len(unsent[a]) /\ unsent'[a][j] = unsent[a][j])
      BY <3>1, <3>2, <2>1
    <3> QED
      BY <3>3, <2>1 DEF SpeakInv
  <2> QED
    BY <2>2, <2>3, <2>4 DEF SpeakInv, Propose, pullVars
<1> QED
  BY <1>3, <1>4, <1>5

LEMMA WithdrawKeeps ==
  ASSUME PairInv, NEW b \in Pages, Withdraw(b)
  PROVE  PairInv'
<1> USE DEF PairInv
<1>1. RecordInv' /\ PullInv' /\ LeftInv'
  BY DEF Withdraw, RecordInv, PullInv, LeftInv, pullVars, Sound
<1>2. BoardInv'
  <2>1. Drawn(b) => pending[b].from \in States
    BY DEF BoardInv, Drawn
  <2>2. /\ state' \in [Pages -> States]
        /\ pending' \in [Pages -> [on : BOOLEAN, undone : BOOLEAN, from : StateOrNone, to : StateOrNone]]
    BY <2>1 DEF BoardInv, StateOrNone, Withdraw, NoPending
  <2>3. ASSUME NEW a \in Pages
        PROVE  /\ pending'[a].on => pending'[a].from \in States
               /\ Drawn(a)' => state'[a] = pending'[a].to
               /\ last_step'[a].seq # 0 => last_step'[a].before \in States
    BY DEF BoardInv, Drawn, Withdraw, NoPending
  <2> QED
    BY <2>2, <2>3 DEF BoardInv, Withdraw
<1>3. SpeakInv'
  BY DEF SpeakInv, Withdraw, pullVars, Sound
<1> QED
  BY <1>1, <1>2, <1>3

-----------------------------------------------------------------------------
(* A page speaks                                                           *)

\* The record has not shrunk and the disputes are as they were or fewer.
LEMMA SpokeKeeps ==
  ASSUME PairInv, RecordInv', Len(record') >= Len(record), LeftInv',
         UNCHANGED <<boardVars, pullVars>>,
         voids' \in [Pages -> Seq(Nat)], unsent' \in [Pages -> Seq(Messages)],
         refused' \in [Pages -> Nat], unsaid' \subseteq Nat,
         \A a \in Pages : \A j \in 1..Len(voids'[a]) : voids'[a][j] <= Len(record),
         \A a \in Pages : \A j \in 1..Len(unsent'[a]) :
            Sound(unsent'[a][j]) /\ unsent'[a][j].kind = "step"
  PROVE  PairInv'
<1> USE DEF PairInv
<1>0. Len(record) \in Nat /\ Len(record') \in Nat
  BY DEF RecordInv
<1>1. BoardInv'
  BY DEF BoardInv, boardVars, Drawn
<1>2. PullInv'
  BY <1>0 DEF PullInv, pullVars
<1>3. SpeakInv'
  <2>1. \A n : Sound(n)' = Sound(n)
    BY DEF Sound
  <2>2. ASSUME NEW a \in Pages
        PROVE  /\ \A j \in 1..Len(disputed'[a]) : disputed'[a][j] <= Len(record')
               /\ \A j \in 1..Len(voids'[a]) : voids'[a][j] <= Len(record')
    <3>1. /\ disputed' = disputed /\ disputed[a] \in Seq(Nat) /\ voids'[a] \in Seq(Nat)
          /\ \A j \in 1..Len(disputed[a]) : disputed[a][j] <= Len(record)
      BY DEF SpeakInv, pullVars
    <3> QED
      BY <3>1, <1>0
  <2> QED
    BY <2>1, <2>2 DEF SpeakInv, pullVars
<1> QED
  BY <1>1, <1>2, <1>3

\* A step drawn is pushed, whether or not the page hears of it.
LEMMA PushKeeps ==
  ASSUME PairInv, NEW b \in Pages, NEW i \in DOMAIN unsent[b], Push(b, i) \/ PushFails(b, i)
  PROVE  PairInv'
<1> USE DEF PairInv
<1>0. unsent[b] \in Seq(Messages) /\ i \in 1..Len(unsent[b]) /\ Len(record) \in Nat
  BY DEF SpeakInv, RecordInv
<1> DEFINE m == unsent[b][i]
<1>1. Sound(m) /\ m.kind = "step"
  BY <1>0 DEF SpeakInv
<1>2. Pushed(b, m) \/ UNCHANGED record
  BY DEF Push, PushFails
<1>3. RecordInv' /\ Len(record') >= Len(record)
  <2>1. CASE Pushed(b, m)
    <3>1. m.kind = "void" => m.about <= Len(record)
      BY <1>1
    <3> HIDE DEF m
    <3> QED
      BY <3>1, <2>1, <1>0, <1>1, SaidLine
  <2>2. CASE UNCHANGED record
    BY <2>2, <1>0 DEF RecordInv, Sound
  <2> QED
    BY <1>2, <2>1, <2>2
<1>4. LeftInv'
  BY Spent DEF Push, PushFails
<1>5. /\ unsent' = [unsent EXCEPT ![b] = RemoveAt(unsent[b], i)]
      /\ UNCHANGED <<boardVars, pullVars, voids, unsaid>>
  BY DEF Push, PushFails
<1>5a. refused' \in [Pages -> Nat]
  <2>1. refused' = refused \/ refused' = [refused EXCEPT ![b] = refused[b] + 1]
    BY DEF Push, PushFails
  <2>2. refused \in [Pages -> Nat]
    BY DEF SpeakInv
  <2> QED
    BY <2>1, <2>2
<1>6. /\ RemoveAt(unsent[b], i) \in Seq(Messages)
      /\ \A j \in 1..Len(RemoveAt(unsent[b], i)) : \E h \in 1..Len(unsent[b]) :
            RemoveAt(unsent[b], i)[j] = unsent[b][h]
  BY <1>0, RemovedAt, Zenon
<1>7. unsent' \in [Pages -> Seq(Messages)]
  BY <1>5, <1>6 DEF SpeakInv
<1>8. ASSUME NEW a \in Pages, NEW j \in 1..Len(unsent'[a])
      PROVE  Sound(unsent'[a][j]) /\ unsent'[a][j].kind = "step"
  <2>1. \E h \in 1..Len(unsent[a]) : unsent'[a][j] = unsent[a][h]
    <3>1. CASE a = b
      BY <3>1, <1>5, <1>6 DEF SpeakInv
    <3>2. CASE a # b
      BY <3>2, <1>5 DEF SpeakInv
    <3> QED
      BY <3>1, <3>2
  <2> QED
    BY <2>1 DEF SpeakInv
<1>9. /\ voids' \in [Pages -> Seq(Nat)] /\ unsaid' \subseteq Nat
      /\ \A a \in Pages : \A j \in 1..Len(voids'[a]) : voids'[a][j] <= Len(record)
  BY <1>5 DEF SpeakInv
<1> QED
  BY <1>3, <1>4, <1>5, <1>5a, <1>7, <1>8, <1>9, SpokeKeeps

LEMMA SayKeeps ==
  ASSUME PairInv, NEW b \in Pages, Say(b)
  PROVE  PairInv'
<1> USE DEF PairInv
<1>1. RecordInv' /\ Len(record') >= Len(record)
  <2>1. Talk.kind = "void" => Talk.about <= Len(record)
    BY SoundTalk
  <2>2. Len(record) \in Nat
    BY DEF RecordInv
  <2> QED
    BY <2>1, <2>2, SoundTalk, SaidLine DEF Say
<1>2. LeftInv'
  BY Spent DEF Say
<1>3. UNCHANGED <<boardVars, pullVars, voids, unsent, refused, unsaid>>
  BY DEF Say, pushVars
<1> QED
  BY <1>1, <1>2, <1>3, SpokeKeeps DEF SpeakInv

\* A dispute is said, or dropped.
LEMMA SayVoidKeeps ==
  ASSUME PairInv, NEW b \in Pages, SayVoid(b) \/ SayVoidFails(b)
  PROVE  PairInv'
<1> USE DEF PairInv
<1> DEFINE k == Head(voids[b])
<1>0. /\ voids[b] \in Seq(Nat) /\ voids[b] # <<>> /\ Len(record) \in Nat
      /\ \A j \in 1..Len(voids[b]) : voids[b][j] <= Len(record)
  BY DEF SpeakInv, RecordInv, SayVoid, SayVoidFails
<1>1. k \in Nat /\ k <= Len(record)
  BY <1>0
<1>2. /\ Tail(voids[b]) \in Seq(Nat)
      /\ \A j \in 1..Len(Tail(voids[b])) : Tail(voids[b])[j] <= Len(record)
  BY <1>0
<1>3. RecordInv' /\ Len(record') >= Len(record)
  <2>1. CASE Pushed(b, Void(k))
    <3> HIDE DEF k
    <3>1. Sound(Void(k)) /\ (Void(k).kind = "void" => Void(k).about <= Len(record))
      BY <1>1, SoundVoid
    <3> QED
      BY <3>1, <2>1, <1>0, SaidLine
  <2>2. CASE UNCHANGED record
    BY <2>2, <1>0 DEF RecordInv, Sound
  <2> QED
    BY <2>1, <2>2 DEF SayVoid, SayVoidFails
<1>4. LeftInv'
  BY Spent DEF SayVoid, SayVoidFails
<1>5. /\ voids' = [voids EXCEPT ![b] = Tail(voids[b])]
      /\ UNCHANGED <<boardVars, pullVars, unsent, refused>>
      /\ unsaid' \subseteq unsaid \cup {k}
  BY DEF SayVoid, SayVoidFails
<1>6. voids' \in [Pages -> Seq(Nat)]
  BY <1>2, <1>5 DEF SpeakInv
<1>7. \A a \in Pages : \A j \in 1..Len(voids'[a]) : voids'[a][j] <= Len(record)
  BY <1>2, <1>5 DEF SpeakInv
<1>8. unsaid' \subseteq Nat
  BY <1>1, <1>5 DEF SpeakInv
<1>9. /\ unsent' \in [Pages -> Seq(Messages)] /\ refused' \in [Pages -> Nat]
      /\ \A a \in Pages : \A j \in 1..Len(unsent'[a]) :
            Sound(unsent'[a][j]) /\ unsent'[a][j].kind = "step"
  BY <1>5 DEF SpeakInv
<1> QED
  BY <1>3, <1>4, <1>5, <1>6, <1>7, <1>8, <1>9, SpokeKeeps

-----------------------------------------------------------------------------
(* A line is replayed                                                      *)

Steppings == [seq : Nat, before : StateOrNone]
Pendings  == [on : BOOLEAN, undone : BOOLEAN, from : StateOrNone, to : StateOrNone]

LEMMA BoardFacts ==
  ASSUME PairInv, NEW b \in Pages
  PROVE  /\ TakenBack(b) \in States
         /\ Undone(b) \in Pendings
         /\ Undone(b).on => Undone(b).undone /\ Undone(b).from \in States
         /\ NoPending \in Pendings /\ ~NoPending.on
         /\ pending[b] \in Pendings
         /\ last_step[b] \in Steppings /\ NoLast \in Steppings /\ NoLast.seq = 0
<1> USE DEF PairInv, BoardInv
<1>0. pending[b] \in Pendings /\ state[b] \in States /\ (pending[b].on => pending[b].from \in States)
  BY DEF Pendings
<1>1. TakenBack(b) \in States
  BY <1>0 DEF TakenBack, Drawn
<1>2. /\ Undone(b) \in Pendings
      /\ Undone(b).on => Undone(b).undone /\ Undone(b).from \in States
  <2> DEFINE u == [pending[b] EXCEPT !.undone = TRUE]
  <2>1. u \in Pendings
    BY <1>0, Zenon DEF Pendings
  <2>2. u.on = pending[b].on /\ u.undone /\ u.from = pending[b].from
    BY <1>0 DEF Pendings
  <2>3. Undone(b) = IF Drawn(b) THEN u ELSE pending[b]
    BY DEF Undone
  <2> HIDE DEF u
  <2>4. Undone(b).on => Undone(b).undone /\ Undone(b).from \in States
    <3>1. CASE Drawn(b)
      BY <3>1, <2>2, <2>3, <1>0
    <3>2. CASE ~Drawn(b)
      BY <3>2, <2>3, <1>0 DEF Drawn
    <3> QED
      BY <3>1, <3>2
  <2> QED
    BY <2>1, <2>3, <2>4, <1>0
<1>3. NoPending \in Pendings /\ ~NoPending.on
  BY DEF NoPending, Pendings, StateOrNone
<1>4. last_step[b] \in Steppings /\ NoLast \in Steppings /\ NoLast.seq = 0
  BY DEF NoLast, Steppings, StateOrNone
<1> QED
  BY <1>0, <1>1, <1>2, <1>3, <1>4

LEMMA LineFacts ==
  ASSUME PairInv, NEW k \in DOMAIN record
  PROVE  /\ k \in 1..Len(record) /\ k \in Nat /\ Len(record) \in Nat
         /\ Sound(record[k].msg)
         /\ record[k].msg.about \in Nat
         /\ record[k].msg.kind = "step" =>
               record[k].msg.step \in Steps /\ record[k].msg.from \in States /\ record[k].msg.to \in States
         /\ record[k].msg.kind = "void" => record[k].msg.about < k
         /\ record[k].msg.kind \in {"step", "say", "void"}
BY DEF PairInv, RecordInv, Sound, Messages

LEMMA ReplayedKeeps ==
  ASSUME PairInv, NEW b \in Pages, NEW k \in DOMAIN record, Replayed(b, k)
  PROVE  /\ RecordInv' /\ PullInv' /\ LeftInv'
         /\ chain_seq' \in [Pages -> Nat] /\ whole' \in [Pages -> BOOLEAN]
<1> USE DEF PairInv
<1>0. k \in Nat
  BY LineFacts
<1>1. RecordInv' /\ LeftInv'
  BY DEF Replayed, RecordInv, LeftInv, Sound
<1>2. PullInv'
  <2>1. at' = [at EXCEPT ![b] = k] /\ k = at[b] + 1 /\ at[b] < page_end[b]
    BY DEF Replayed
  <2>2. UNCHANGED <<record, since, page_end, pulling, rebuilding>>
    BY DEF Replayed
  <2>3. at' \in [Pages -> Nat]
    BY <2>1, <1>0 DEF PullInv
  <2>4. ASSUME NEW a \in Pages
        PROVE  since[a] <= at'[a] /\ at'[a] <= page_end[a] /\ page_end[a] <= Len(record)
    BY <2>1, <1>0 DEF PullInv
  <2> QED
    BY <2>2, <2>3, <2>4 DEF PullInv
<1>3. chain_seq' \in [Pages -> Nat] /\ whole' \in [Pages -> BOOLEAN]
  BY <1>0 DEF Replayed, BoardInv
<1> QED
  BY <1>1, <1>2, <1>3

LEMMA RuledKeeps ==
  ASSUME PairInv, NEW b \in Pages, NEW k \in DOMAIN record,
         NEW s \in States, NEW p \in Pendings, p.on => p.from \in States, p.on => p.undone \/ s = p.to,
         Ruled(b, k, s, p),
         last_step' \in [Pages -> Steppings],
         \A a \in Pages : last_step'[a].seq # 0 => last_step'[a].before \in States,
         voided' \in [Pages -> [about : Nat, at : Nat]],
         disagreed' \in [Pages -> SUBSET Nat],
         disputed' \in [Pages -> Seq(Nat)],
         \A a \in Pages : \A i \in 1..Len(disputed'[a]) : disputed'[a][i] <= Len(record),
         unsaid' \subseteq Nat
  PROVE  PairInv'
<1> USE DEF PairInv
<1>0. k \in Nat /\ Replayed(b, k)
  BY LineFacts DEF Ruled
<1>1. /\ RecordInv' /\ PullInv' /\ LeftInv'
      /\ chain_seq' \in [Pages -> Nat] /\ whole' \in [Pages -> BOOLEAN]
  BY <1>0, ReplayedKeeps
<1>2. /\ state' \in [Pages -> States] /\ last_line' \in [Pages -> Nat]
      /\ pending' \in [Pages -> Pendings]
  BY <1>0 DEF Ruled, BoardInv, Pendings
<1>3. ASSUME NEW a \in Pages
      PROVE  /\ pending'[a].on => pending'[a].from \in States
             /\ Drawn(a)' => state'[a] = pending'[a].to
  <2>1. /\ pending'[a] = IF a = b THEN p ELSE pending[a]
        /\ state'[a] = IF a = b THEN s ELSE state[a]
    BY DEF Ruled, BoardInv
  <2> QED
    BY <2>1 DEF BoardInv, Drawn
<1>4. BoardInv'
  BY <1>1, <1>2, <1>3 DEF BoardInv, Steppings, Pendings
<1>5. SpeakInv'
  <2>1. \A n : Sound(n)' = Sound(n)
    BY DEF Sound
  <2> QED
    BY <1>0, <2>1 DEF SpeakInv, Replayed, pushVars
<1> QED
  BY <1>1, <1>4, <1>5

LEMMA ReplayKeeps ==
  ASSUME PairInv, NEW b \in Pages, Replay(b)
  PROVE  PairInv'
<1> USE DEF PairInv
<1> PICK k \in DOMAIN record :
        \/ ReplayTalk(b, k) \/ Confirm(b, k) \/ ReplayVoid(b, k) \/ Take(b, k)
        \/ Disagree(b, k) \/ VoidAgain(b, k) \/ VoidDesync(b, k) \/ VoidUndo(b, k)
  BY DEF Replay
<1> DEFINE m == record[k].msg
<1>f. /\ k \in Nat /\ k <= Len(record) /\ m.about \in Nat
      /\ m.kind = "step" => m.step \in Steps /\ m.from \in States /\ m.to \in States
  BY LineFacts
<1>b. /\ TakenBack(b) \in States
      /\ Undone(b) \in Pendings
      /\ Undone(b).on => Undone(b).undone /\ Undone(b).from \in States
      /\ NoPending \in Pendings /\ ~NoPending.on
      /\ pending[b] \in Pendings
      /\ last_step[b] \in Steppings /\ NoLast \in Steppings /\ NoLast.seq = 0
  BY BoardFacts
<1>s. /\ last_step \in [Pages -> Steppings] /\ state \in [Pages -> States]
      /\ \A a \in Pages : last_step[a].seq # 0 => last_step[a].before \in States
      /\ voided \in [Pages -> [about : Nat, at : Nat]]
      /\ disagreed \in [Pages -> SUBSET Nat]
      /\ disputed \in [Pages -> Seq(Nat)]
      /\ \A a \in Pages : \A i \in 1..Len(disputed[a]) : disputed[a][i] <= Len(record)
      /\ unsaid \subseteq Nat
  BY DEF BoardInv, SpeakInv, Steppings
<1> HIDE DEF m
<1>1. CASE ReplayTalk(b, k)
  <2>1. /\ RecordInv' /\ PullInv' /\ LeftInv'
        /\ chain_seq' \in [Pages -> Nat] /\ whole' \in [Pages -> BOOLEAN]
    BY <1>1, ReplayedKeeps DEF ReplayTalk
  <2>2. BoardInv'
    BY <1>1, <2>1 DEF BoardInv, ReplayTalk, Drawn
  <2>3. \A n : Sound(n)' = Sound(n)
    BY DEF Sound
  <2>4. SpeakInv'
    BY <1>1, <2>3 DEF SpeakInv, ReplayTalk, Replayed, pushVars
  <2> QED
    BY <2>1, <2>2, <2>4
<1>2. CASE Confirm(b, k)
  <2>1. Ruled(b, k, state[b], NoPending)
    BY <1>2 DEF Confirm
  <2>2. last_step' = [last_step EXCEPT ![b] = [seq |-> k, before |-> pending[b].from]]
    BY <1>2 DEF Confirm
  <2>3. pending[b].from \in States
    BY <1>2 DEF Confirm, Drawn, BoardInv
  <2>4. /\ last_step' \in [Pages -> Steppings]
        /\ \A a \in Pages : last_step'[a].seq # 0 => last_step'[a].before \in States
    BY <2>2, <2>3, <1>f, <1>s DEF Steppings, StateOrNone
  <2>5. UNCHANGED <<voided, disagreed, disputed, unsaid>>
    BY <1>2 DEF Confirm
  <2> QED
    BY <2>1, <2>4, <2>5, <1>b, <1>s, RuledKeeps
<1>j. ASSUME NEW s \in States, Judged(b, k, s),
             last_step' \in [Pages -> Steppings],
             \A a \in Pages : last_step'[a].seq # 0 => last_step'[a].before \in States,
             disagreed' \in [Pages -> SUBSET Nat],
             disputed' \in [Pages -> Seq(Nat)],
             \A a \in Pages : \A i \in 1..Len(disputed'[a]) : disputed'[a][i] <= Len(record),
             unsaid' \subseteq Nat
      PROVE  PairInv'
  <2>1. PICK p \in {NoPending, Undone(b)} : Ruled(b, k, s, p)
    BY <1>j DEF Judged
  <2>2. p \in Pendings /\ (p.on => p.from \in States) /\ (p.on => p.undone)
    BY <1>b
  <2>3. voided' \in [Pages -> [about : Nat, at : Nat]]
    BY <1>j, <1>s DEF Judged
  <2> QED
    BY <1>j, <2>1, <2>2, <2>3, RuledKeeps
<1>3. CASE ReplayVoid(b, k)
  <2>1. Judged(b, k, TakenBack(b)) /\ UNCHANGED <<last_step, disagreed, disputed, unsaid>>
    BY <1>3 DEF ReplayVoid
  <2> QED
    BY <2>1, <1>b, <1>s, <1>j
<1>4. CASE Take(b, k)
  <2>1. /\ Judged(b, k, m.to) /\ UNCHANGED <<disagreed, disputed, unsaid>>
        /\ last_step' = [last_step EXCEPT ![b] = [seq |-> k, before |-> m.from]]
        /\ m.kind = "step"
    BY <1>4 DEF Take, Judged, m
  <2>2. /\ last_step' \in [Pages -> Steppings]
        /\ \A a \in Pages : last_step'[a].seq # 0 => last_step'[a].before \in States
    BY <2>1, <1>f, <1>s DEF Steppings, StateOrNone
  <2> QED
    BY <2>1, <2>2, <1>f, <1>s, <1>j
<1>5. CASE Disagree(b, k)
  <2>1. /\ Judged(b, k, m.from) /\ m.kind = "step"
        /\ disagreed' = [disagreed EXCEPT ![b] = disagreed[b] \cup {k}]
        /\ disputed' = [disputed EXCEPT ![b] = IF rebuilding[b] THEN disputed[b] ELSE Append(disputed[b], k)]
        /\ unsaid' = IF rebuilding[b] THEN unsaid \cup {k} ELSE unsaid
        /\ last_step' = last_step
    BY <1>5 DEF Disagree, Judged, m
  <2>2. disagreed' \in [Pages -> SUBSET Nat]
    BY <2>1, <1>f, <1>s
  <2>3. unsaid' \subseteq Nat
    BY <2>1, <1>f, <1>s
  <2>4. PICK q \in Seq(Nat) : disputed' = [disputed EXCEPT ![b] = q] /\ q \in {disputed[b], Append(disputed[b], k)}
    <3>1. disputed[b] \in Seq(Nat) /\ Append(disputed[b], k) \in Seq(Nat)
      BY <1>f, <1>s
    <3> QED
      BY <2>1, <3>1
  <2>5. \A i \in 1..Len(q) : q[i] <= Len(record)
    <3>1. PICK d \in Seq(Nat) : d = disputed[b]
      BY <1>f, <1>s
    <3>2. \A i \in 1..Len(d) : d[i] <= Len(record)
      BY <3>1, <1>f, <1>s
    <3>3. k \in Nat /\ k <= Len(record)
      BY <1>f, <1>s
    <3>4. CASE q = Append(d, k)
      <4>1. Len(q) = Len(d) + 1 /\ q[Len(d) + 1] = k /\ \A i \in 1..Len(d) : q[i] = d[i]
        BY <3>1, <3>3, <3>4
      <4> QED
        BY <3>2, <3>3, <4>1
    <3> QED
      BY <2>4, <3>1, <3>2, <3>4
  <2>6. /\ disputed' \in [Pages -> Seq(Nat)]
        /\ \A a \in Pages : \A i \in 1..Len(disputed'[a]) : disputed'[a][i] <= Len(record)
    BY <2>4, <2>5, <1>s
  <2> QED
    BY <2>1, <2>2, <2>3, <2>6, <1>f, <1>s, <1>j
<1>6. CASE VoidAgain(b, k)
  <2>1. /\ Ruled(b, k, TakenBack(b), Undone(b))
        /\ voided' = [voided EXCEPT ![b].at = k]
        /\ UNCHANGED <<last_step, disagreed, disputed, unsaid>>
    BY <1>6 DEF VoidAgain
  <2>2. voided' \in [Pages -> [about : Nat, at : Nat]]
    BY <2>1, <1>f, <1>s
  <2> QED
    BY <2>1, <2>2, <1>b, <1>s, RuledKeeps
<1>7. CASE VoidDesync(b, k)
  <2>1. /\ Ruled(b, k, Desync, NoPending)
        /\ last_step' = [last_step EXCEPT ![b] = NoLast]
        /\ voided' = [voided EXCEPT ![b] = NoVoid]
        /\ UNCHANGED <<disagreed, disputed, unsaid>>
    BY <1>7 DEF VoidDesync
  <2>2. voided' \in [Pages -> [about : Nat, at : Nat]]
    BY <2>1, <1>f, <1>s DEF NoVoid
  <2>3. /\ last_step' \in [Pages -> Steppings]
        /\ \A a \in Pages : last_step'[a].seq # 0 => last_step'[a].before \in States
    BY <2>1, <1>b, <1>s
  <2> QED
    BY <2>1, <2>2, <2>3, <1>b, <1>s, PairAssumption, RuledKeeps
<1>8. CASE VoidUndo(b, k)
  <2> DEFINE took == last_step[b].seq = m.about
             s == IF took THEN last_step[b].before ELSE TakenBack(b)
  <2>1. /\ Ruled(b, k, s, Undone(b))
        /\ last_step' = [last_step EXCEPT ![b] = IF took THEN NoLast ELSE last_step[b]]
        /\ voided' = [voided EXCEPT ![b] = [about |-> m.about, at |-> k]]
        /\ UNCHANGED <<disagreed, disputed, unsaid>>
    BY <1>8 DEF VoidUndo, m
  <2>2. voided' \in [Pages -> [about : Nat, at : Nat]]
    BY <2>1, <1>f, <1>s
  <2>3. /\ last_step' \in [Pages -> Steppings]
        /\ \A a \in Pages : last_step'[a].seq # 0 => last_step'[a].before \in States
    BY <2>1, <1>b, <1>s
  <2>4. last_line[b] # 0 /\ last_line[b] = m.about
    BY <1>8 DEF VoidUndo, Adjacent, m
  <2>5. s \in States
    BY <2>4, <1>b, <1>s
  <2> HIDE DEF s
  <2> QED
    BY <2>1, <2>2, <2>3, <2>5, <1>b, <1>s, RuledKeeps
<1> QED
  BY <1>1, <1>2, <1>3, <1>4, <1>5, <1>6, <1>7, <1>8

LEMMA MissKeeps ==
  ASSUME PairInv, NEW b \in Pages, Miss(b)
  PROVE  PairInv'
<1> USE DEF PairInv
<1>1. RecordInv' /\ SpeakInv'
  BY DEF Miss, RecordInv, SpeakInv, pushVars, Sound
<1>2. LeftInv'
  BY Spent DEF Miss
<1>3. BoardInv'
  <2>1. whole' \in [Pages -> BOOLEAN]
    BY DEF Miss, BoardInv
  <2> QED
    BY <2>1 DEF Miss, BoardInv, Drawn
<1>4. PullInv'
  <2>1. at' = [at EXCEPT ![b] = at[b] + 1] /\ at[b] < page_end[b]
    BY DEF Miss
  <2>2. UNCHANGED <<record, since, page_end, pulling, rebuilding>>
    BY DEF Miss
  <2>3. at' \in [Pages -> Nat]
    BY <2>1 DEF PullInv
  <2>4. ASSUME NEW a \in Pages
        PROVE  since[a] <= at'[a] /\ at'[a] <= page_end[a] /\ page_end[a] <= Len(record)
    BY <2>1 DEF PullInv
  <2> QED
    BY <2>2, <2>3, <2>4 DEF PullInv
<1> QED
  BY <1>1, <1>2, <1>3, <1>4

-----------------------------------------------------------------------------
(* A pull goes on                                                          *)

LEMMA PullStartKeeps ==
  ASSUME PairInv, NEW b \in Pages, PullStart(b)
  PROVE  PairInv'
<1> USE DEF PairInv
<1>1. RecordInv' /\ SpeakInv' /\ LeftInv'
  BY DEF PullStart, RecordInv, SpeakInv, LeftInv, pushVars, Sound
<1>2. BoardInv'
  BY DEF PullStart, BoardInv, boardVars, Drawn
<1>3. PullInv'
  <2>1. Len(record) \in Nat
    BY DEF RecordInv
  <2>2. /\ page_end' = [page_end EXCEPT ![b] = Len(record)]
        /\ pulling' = [pulling EXCEPT ![b] = TRUE]
        /\ UNCHANGED <<record, since, at, rebuilding>>
    BY DEF PullStart
  <2>3. ASSUME NEW a \in Pages
        PROVE  since[a] <= at[a] /\ at[a] <= page_end'[a] /\ page_end'[a] <= Len(record)
    BY <2>1, <2>2 DEF PullInv
  <2> QED
    BY <2>1, <2>2, <2>3 DEF PullInv
<1> QED
  BY <1>1, <1>2, <1>3

LEMMA PastFirst ==
  ASSUME NEW x \in Nat, NEW y \in Nat, NEW j \in 1..x + y, ~(j <= x)
  PROVE  j - x \in 1..y
OBVIOUS

LEMMA NextPageKeeps ==
  ASSUME PairInv, NEW b \in Pages, NextPage(b)
  PROVE  PairInv'
<1> USE DEF PairInv
<1>0. Len(record) \in Nat
  BY DEF RecordInv
<1>1. RecordInv' /\ LeftInv'
  BY DEF NextPage, RecordInv, LeftInv, Sound
<1>2. BoardInv'
  BY DEF NextPage, BoardInv, boardVars, Drawn
<1>3. PullInv'
  <2>1. /\ since' = [since EXCEPT ![b] = at[b]] /\ UNCHANGED <<record, at>>
        /\ page_end' = page_end \/ page_end' = [page_end EXCEPT ![b] = Len(record)]
        /\ pulling' = pulling \/ pulling' = [pulling EXCEPT ![b] = FALSE]
        /\ rebuilding' = rebuilding \/ rebuilding' = [rebuilding EXCEPT ![b] = FALSE]
    BY Zenon DEF NextPage
  <2>2. since' \in [Pages -> Nat] /\ page_end' \in [Pages -> Nat]
    BY <2>1, <1>0 DEF PullInv
  <2>3. pulling' \in [Pages -> BOOLEAN] /\ rebuilding' \in [Pages -> BOOLEAN]
    BY <2>1 DEF PullInv
  <2>4. ASSUME NEW a \in Pages
        PROVE  since'[a] <= at[a] /\ at[a] <= page_end'[a] /\ page_end'[a] <= Len(record)
    BY <2>1, <1>0 DEF PullInv
  <2> QED
    BY <2>1, <2>2, <2>3, <2>4 DEF PullInv
<1>4. SpeakInv'
  <2>1. /\ disputed' = disputed \/ disputed' = [disputed EXCEPT ![b] = <<>>]
        /\ voids' = voids \/ voids' = [voids EXCEPT ![b] = voids[b] \o disputed[b]]
        /\ UNCHANGED <<record, unsent, refused, unsaid>>
    BY Zenon DEF NextPage
  <2>2. /\ voids[b] \o disputed[b] \in Seq(Nat)
        /\ \A j \in 1..Len(voids[b] \o disputed[b]) : (voids[b] \o disputed[b])[j] <= Len(record)
    <3>1. voids[b] \in Seq(Nat) /\ disputed[b] \in Seq(Nat)
      BY DEF SpeakInv
    <3>2. /\ voids[b] \o disputed[b] \in Seq(Nat)
          /\ Len(voids[b] \o disputed[b]) = Len(voids[b]) + Len(disputed[b])
          /\ \A j \in 1..Len(voids[b]) + Len(disputed[b]) :
                (voids[b] \o disputed[b])[j] =
                   IF j <= Len(voids[b]) THEN voids[b][j] ELSE disputed[b][j - Len(voids[b])]
      BY <3>1, ConcatProperties, Zenon
    <3>3. ASSUME NEW j \in 1..Len(voids[b] \o disputed[b])
          PROVE  (voids[b] \o disputed[b])[j] <= Len(record)
      <4>1. Len(voids[b]) \in Nat /\ Len(disputed[b]) \in Nat
        BY <3>1
      <4>2. CASE j <= Len(voids[b])
        <5>1. j \in 1..Len(voids[b]) /\ (voids[b] \o disputed[b])[j] = voids[b][j]
          BY <3>2, <4>1, <4>2
        <5> QED
          BY <5>1 DEF SpeakInv
      <4>3. CASE ~(j <= Len(voids[b]))
        <5>1. j - Len(voids[b]) \in 1..Len(disputed[b]) /\ j \in 1..Len(voids[b]) + Len(disputed[b])
          <6>1. Len(voids[b] \o disputed[b]) = Len(voids[b]) + Len(disputed[b])
            BY <3>2
          <6>2. j \in 1..Len(voids[b]) + Len(disputed[b])
            BY <6>1
          <6> QED
            BY <6>2, <4>1, <4>3, PastFirst
        <5>2. (voids[b] \o disputed[b])[j] = disputed[b][j - Len(voids[b])]
          BY <3>2, <4>3, <5>1, Zenon
        <5> QED
          BY <5>1, <5>2 DEF SpeakInv
      <4> QED
        BY <4>2, <4>3
    <3> QED
      BY <3>2, <3>3
  <2>3. /\ disputed' \in [Pages -> Seq(Nat)]
        /\ \A a \in Pages : \A j \in 1..Len(disputed'[a]) : disputed'[a][j] <= Len(record)
    <3>1. CASE disputed' = disputed
      BY <3>1 DEF SpeakInv
    <3>2. CASE disputed' = [disputed EXCEPT ![b] = <<>>]
      BY <3>2 DEF SpeakInv
    <3> QED
      BY <2>1, <3>1, <3>2
  <2>4. /\ voids' \in [Pages -> Seq(Nat)]
        /\ \A a \in Pages : \A j \in 1..Len(voids'[a]) : voids'[a][j] <= Len(record)
    <3> DEFINE q == voids[b] \o disputed[b]
    <3>1. CASE voids' = voids
      BY <3>1 DEF SpeakInv
    <3>2. CASE voids' = [voids EXCEPT ![b] = q]
      <4> HIDE DEF q
      <4> QED
        BY <2>2, <3>2 DEF SpeakInv, q
    <3> QED
      BY <2>1, <3>1, <3>2
  <2>5. \A n : Sound(n)' = Sound(n)
    BY DEF Sound
  <2> QED
    BY <2>1, <2>3, <2>4, <2>5 DEF SpeakInv
<1> QED
  BY <1>1, <1>2, <1>3, <1>4

LEMMA RebuildKeeps ==
  ASSUME PairInv, NEW b \in Pages, Rebuild(b)
  PROVE  PairInv'
<1> USE DEF PairInv
<1>1. RecordInv' /\ LeftInv'
  BY DEF Rebuild, RecordInv, LeftInv, Sound
<1>2. BoardInv'
  <2>1. /\ state' \in [Pages -> States] /\ last_line' \in [Pages -> Nat]
        /\ chain_seq' \in [Pages -> Nat] /\ whole' \in [Pages -> BOOLEAN]
    BY PairAssumption DEF Rebuild, BoardInv
  <2>2. /\ pending' \in [Pages -> Pendings] /\ last_step' \in [Pages -> Steppings]
        /\ pending'[b] = NoPending /\ last_step'[b] = NoLast
        /\ \A a \in Pages \ {b} : pending'[a] = pending[a] /\ last_step'[a] = last_step[a] /\ state'[a] = state[a]
    BY BoardFacts DEF Rebuild, BoardInv, Steppings, Pendings
  <2>3. voided' \in [Pages -> [about : Nat, at : Nat]] /\ disagreed' \in [Pages -> SUBSET Nat]
    BY DEF Rebuild, BoardInv, NoVoid
  <2>4. ASSUME NEW a \in Pages
        PROVE  /\ pending'[a].on => pending'[a].from \in States
               /\ Drawn(a)' => state'[a] = pending'[a].to
               /\ last_step'[a].seq # 0 => last_step'[a].before \in States
    <3>1. CASE a = b
      BY <3>1, <2>2 DEF Drawn, NoPending, NoLast
    <3>2. CASE a # b
      BY <3>2, <2>2 DEF BoardInv, Drawn
    <3> QED
      BY <3>1, <3>2
  <2> QED
    BY <2>1, <2>2, <2>3, <2>4 DEF BoardInv, Steppings, Pendings
<1>3. PullInv'
  <2>1. Len(record) \in Nat
    BY DEF RecordInv
  <2>2. /\ since' = [since EXCEPT ![b] = 0] /\ at' = [at EXCEPT ![b] = 0]
        /\ page_end' = [page_end EXCEPT ![b] = 0] /\ UNCHANGED record
        /\ pulling' = [pulling EXCEPT ![b] = FALSE]
        /\ rebuilding' = [rebuilding EXCEPT ![b] = TRUE]
    BY DEF Rebuild
  <2>3. ASSUME NEW a \in Pages
        PROVE  since'[a] <= at'[a] /\ at'[a] <= page_end'[a] /\ page_end'[a] <= Len(record)
    BY <2>1, <2>2 DEF PullInv
  <2> QED
    BY <2>2, <2>3 DEF PullInv
<1>4. SpeakInv'
  <2>1. /\ disputed' = [disputed EXCEPT ![b] = <<>>] /\ UNCHANGED <<record, pushVars>>
        /\ unsaid' = unsaid \cup ToSet(disputed[b])
    BY DEF Rebuild
  <2>2. disputed[b] \in Seq(Nat)
    BY DEF SpeakInv
  <2>3. unsaid' \subseteq Nat
    <3>1. ToSet(disputed[b]) \subseteq Nat
      BY <2>2 DEF ToSet
    <3>2. unsaid \subseteq Nat
      BY DEF SpeakInv
    <3> QED
      BY <2>1, <3>1, <3>2, Zenon
  <2>4. /\ disputed' \in [Pages -> Seq(Nat)]
        /\ \A a \in Pages : \A j \in 1..Len(disputed'[a]) : disputed'[a][j] <= Len(record)
    BY <2>1 DEF SpeakInv
  <2>5. \A n : Sound(n)' = Sound(n)
    BY DEF Sound
  <2> QED
    BY <2>1, <2>3, <2>4, <2>5 DEF SpeakInv, pushVars
<1> QED
  BY <1>1, <1>2, <1>3, <1>4

-----------------------------------------------------------------------------
LEMMA PairStep == PairInv /\ [Next]_vars => PairInv'
<1> SUFFICES ASSUME PairInv, [Next]_vars PROVE PairInv'
  OBVIOUS
<1>1. CASE UNCHANGED vars
  <2>1. UNCHANGED <<record, boardVars, pullVars, pushVars, unsaid, left>>
    BY <1>1 DEF vars
  <2>2. RecordInv' /\ LeftInv'
    BY <2>1 DEF PairInv, RecordInv, LeftInv, Sound
  <2>3. BoardInv'
    BY <2>1 DEF PairInv, BoardInv, boardVars, Drawn
  <2>4. PullInv'
    BY <2>1 DEF PairInv, PullInv, pullVars
  <2>5. SpeakInv'
    BY <2>1 DEF PairInv, SpeakInv, pullVars, pushVars, Sound
  <2> QED
    BY <2>2, <2>3, <2>4, <2>5 DEF PairInv
<1>2. ASSUME NEW b \in Pages, NEW s \in Steps, Propose(b, s) PROVE PairInv'
  BY <1>2, ProposeKeeps
<1>3. ASSUME NEW b \in Pages, NEW i \in DOMAIN unsent[b], Push(b, i) \/ PushFails(b, i)
      PROVE  PairInv'
  BY <1>3, PushKeeps
<1>4. ASSUME NEW b \in Pages, SayVoid(b) \/ SayVoidFails(b) PROVE PairInv'
  BY <1>4, SayVoidKeeps
<1>5. ASSUME NEW b \in Pages, Withdraw(b) PROVE PairInv'
  BY <1>5, WithdrawKeeps
<1>6. ASSUME NEW b \in Pages, Say(b) PROVE PairInv'
  BY <1>6, SayKeeps
<1>7. ASSUME NEW b \in Pages, PullStart(b) PROVE PairInv'
  BY <1>7, PullStartKeeps
<1>8. ASSUME NEW b \in Pages, Replay(b) PROVE PairInv'
  BY <1>8, ReplayKeeps
<1>9. ASSUME NEW b \in Pages, NextPage(b) PROVE PairInv'
  BY <1>9, NextPageKeeps
<1>10. ASSUME NEW b \in Pages, Rebuild(b) PROVE PairInv'
  BY <1>10, RebuildKeeps
<1>11. ASSUME NEW b \in Pages, Miss(b) PROVE PairInv'
  BY <1>11, MissKeeps
<1> QED
  BY <1>1, <1>2, <1>3, <1>4, <1>5, <1>6, <1>7, <1>8, <1>9, <1>10, <1>11 DEF Next, Pull, Speak

\* The variables keep their types, every line a void names is before it, and
\* what a page has to dispute is in the record (relayPull, pushLocked).
THEOREM PairTypeCorrect == Spec => []TypeOK
<1>1. Spec => []PairInv
  BY PairInit, PairStep, PTL DEF Spec
<1> QED
  BY <1>1, PairTypes, PTL

\* A proposal, its withdrawal, a failed push, talk and what the other page
\* does leave what the record has made of a board (proposeLocked, withdrawLocked).
THEOREM RecordDecides == Spec => OnlyTheRecordDecides
<1>1. ASSUME PairInv, [Next]_vars, NEW b \in Pages, at'[b] = at[b]
      PROVE  Agreed(b)' = Agreed(b)
  <2> USE <1>1 DEF PairInv
  <2>1. CASE UNCHANGED <<state, pending>>
    BY <2>1 DEF Agreed
  <2>2. ASSUME NEW a \in Pages, NEW s \in Steps, Propose(a, s) PROVE Agreed(b)' = Agreed(b)
    BY <2>2 DEF Propose, Agreed, Drawn, BoardInv
  <2>3. ASSUME NEW a \in Pages, Withdraw(a) PROVE Agreed(b)' = Agreed(b)
    BY <2>3 DEF Withdraw, Agreed, Drawn, BoardInv, NoPending
  <2>4. ASSUME NEW a \in Pages, NEW k \in DOMAIN record, NEW s, NEW p, Ruled(a, k, s, p)
        PROVE  Agreed(b)' = Agreed(b)
    <3>1. a # b
      BY <2>4 DEF Ruled, Replayed, PullInv
    <3> QED
      BY <2>4, <3>1 DEF Ruled, Agreed, BoardInv
  <2>5. ASSUME NEW a \in Pages, Replay(a) PROVE Agreed(b)' = Agreed(b)
    <3>1. PICK k \in DOMAIN record :
              \/ ReplayTalk(a, k) \/ Confirm(a, k) \/ ReplayVoid(a, k) \/ Take(a, k)
              \/ Disagree(a, k) \/ VoidAgain(a, k) \/ VoidDesync(a, k) \/ VoidUndo(a, k)
      BY <2>5 DEF Replay
    <3>2. ReplayTalk(a, k) \/ \E s, p : Ruled(a, k, s, p)
      BY <3>1, Zenon DEF Confirm, ReplayVoid, Take, Disagree, VoidAgain, VoidDesync, VoidUndo, Judged
    <3> QED
      BY <3>2, <2>1, <2>4 DEF ReplayTalk
  <2>6. ASSUME NEW a \in Pages, Rebuild(a) PROVE Agreed(b)' = Agreed(b)
    <3>1. a # b
      BY <2>6 DEF Rebuild, Mismatch, PullInv
    <3> QED
      BY <2>6, <3>1 DEF Rebuild, Agreed, BoardInv
  <2> QED
    BY <2>1, <2>2, <2>3, <2>5, <2>6 DEF vars, boardVars, Next, Pull, Speak, Push, PushFails, Say,
       SayVoid, SayVoidFails, Miss, PullStart, NextPage
<1>2. PairInv /\ [Next]_vars => [\A b \in Pages : Agreed(b)' # Agreed(b) => at'[b] # at[b]]_vars
  BY <1>1
<1>3. Spec => []PairInv
  BY PairInit, PairStep, PTL DEF Spec
<1> QED
  BY <1>2, <1>3, PTL DEF Spec, OnlyTheRecordDecides

-----------------------------------------------------------------------------
(* The path of a board                                                     *)

Cores == [s : States, seq : Nat, before : StateOrNone, line : Nat, about : Nat, void : Nat]

Core(s, seq, before, line, about, void) ==
    [s |-> s, seq |-> seq, before |-> before, line |-> line, about |-> about, void |-> void]

\* Of a board: what decides how it takes the lines to come.
CoreOf(b) == Core(Agreed(b), last_step[b].seq, last_step[b].before, last_line[b],
                  voided[b].about, voided[b].at)

Fresh == Core(Start, 0, NoState, 0, 0, 0)

AfterStep(c, m, k, no) ==
    IF m.from # c.s \/ no
    THEN Core(c.s, c.seq, c.before, k, c.about, c.void)
    ELSE Core(m.to, k, m.from, k, c.about, c.void)

IsAgain(c, a) == c.line # 0 /\ c.about = a /\ c.void = c.line /\ c.void # 0
IsNext(c, a)  == c.line # 0 /\ c.line = a

AfterVoid(c, a, k) ==
    IF IsAgain(c, a) THEN Core(c.s, c.seq, c.before, k, c.about, k)
    ELSE IF ~IsNext(c, a) THEN Core(Desync, 0, NoState, k, 0, 0)
    ELSE IF c.seq = a THEN Core(c.before, 0, NoState, k, a, k)
    ELSE Core(c.s, c.seq, c.before, k, a, k)

\* Where line k leads from c; no says that the board disagreed to it.
After(c, m, k, no) ==
    IF m.kind = "say" THEN c
    ELSE IF m.kind = "step" THEN AfterStep(c, m, k, no)
    ELSE AfterVoid(c, m.about, k)

\* T is the path over the first n lines of r of a board that disagreed to D.
Path(T, r, D, n) ==
    /\ T \in [0..n -> Cores]
    /\ T[0] = Fresh
    /\ \A i \in 1..n : T[i] = After(T[i - 1], r[i].msg, i, i \in D)

OnPath(b) ==
    /\ disagreed[b] \subseteq 1..at[b]
    /\ whole[b] => \E T : Path(T, record, disagreed[b], at[b]) /\ T[at[b]] = CoreOf(b)

PathInv == \A b \in Pages : OnPath(b)

LEMMA CoreType == ASSUME PairInv, NEW b \in Pages PROVE CoreOf(b) \in Cores
BY DEF PairInv, BoardInv, CoreOf, Core, Cores, Agreed, Drawn

LEMMA CoreTypeNext == PairInv' => \A b \in Pages : CoreOf(b)' \in Cores
<1> DEFINE I == \A b \in Pages : CoreOf(b) \in Cores
<1>1. PairInv => I
  BY CoreType
<1> HIDE DEF I
<1>2. PairInv' => I'
  BY <1>1, PTL
<1> QED
  BY <1>2 DEF I, Cores

LEMMA CoreFields ==
  ASSUME NEW s, NEW seq, NEW before, NEW line, NEW about, NEW void
  PROVE  /\ Core(s, seq, before, line, about, void).s = s
         /\ Core(s, seq, before, line, about, void).seq = seq
         /\ Core(s, seq, before, line, about, void).before = before
         /\ Core(s, seq, before, line, about, void).line = line
         /\ Core(s, seq, before, line, about, void).about = about
         /\ Core(s, seq, before, line, about, void).void = void
BY DEF Core

\* A line ruled on: the board is where the record has it.
LEMMA RuledCore ==
  ASSUME PairInv, NEW b \in Pages, NEW k \in DOMAIN record, NEW s, NEW p \in {NoPending, Undone(b)},
         Ruled(b, k, s, p)
  PROVE  /\ Agreed(b)' = s /\ last_line'[b] = k /\ at'[b] = k
<1>1. /\ state'[b] = s /\ pending'[b] = p /\ last_line'[b] = k /\ at'[b] = k
  BY DEF Ruled, Replayed, PairInv, BoardInv, PullInv
<1>2. p.on => p.undone
  BY BoardFacts
<1> QED
  BY <1>1, <1>2 DEF Agreed

LEMMA ReplayCore ==
  ASSUME PairInv, PathInv, NEW b \in Pages, NEW k \in DOMAIN record,
         \/ ReplayTalk(b, k) \/ Confirm(b, k) \/ ReplayVoid(b, k) \/ Take(b, k)
         \/ Disagree(b, k) \/ VoidAgain(b, k) \/ VoidDesync(b, k) \/ VoidUndo(b, k)
  PROVE  /\ Replayed(b, k)
         /\ CoreOf(b)' = After(CoreOf(b), record[k].msg, k, k \in disagreed'[b])
         /\ disagreed'[b] \subseteq disagreed[b] \cup {k}
         /\ \A a \in Pages \ {b} : CoreOf(a)' = CoreOf(a) /\ disagreed'[a] = disagreed[a]
<1> DEFINE m == record[k].msg
           c == CoreOf(b)
<1> USE DEF PairInv
<1>f. /\ k \in Nat /\ m.kind \in {"step", "say", "void"}
  BY LineFacts
<1>r. Replayed(b, k)
  BY Zenon DEF ReplayTalk, Confirm, ReplayVoid, Take, Disagree, VoidAgain, VoidDesync, VoidUndo, Judged, Ruled
<1>k. k \notin disagreed[b] /\ disagreed \in [Pages -> SUBSET Nat] /\ k = at[b] + 1
  BY <1>r DEF Replayed, PathInv, OnPath, PullInv, BoardInv
<1>c. /\ c.s = Agreed(b) /\ c.seq = last_step[b].seq /\ c.before = last_step[b].before
      /\ c.line = last_line[b] /\ c.about = voided[b].about /\ c.void = voided[b].at
  BY DEF CoreOf, Core
<1>t. TakenBack(b) = Agreed(b)
  BY DEF TakenBack, Agreed, Drawn
<1>a. /\ c.s = TakenBack(b)
      /\ IsAgain(c, m.about) <=> Again(b, m)
      /\ IsNext(c, m.about) <=> Adjacent(b, m)
  BY <1>c, <1>t DEF IsAgain, IsNext, Again, Adjacent
<1>o. \A a \in Pages \ {b} : CoreOf(a)' = CoreOf(a) /\ disagreed'[a] = disagreed[a]
  <2> TAKE a \in Pages \ {b}
  <2>1. /\ state'[a] = state[a] /\ pending'[a] = pending[a] /\ last_line'[a] = last_line[a]
    BY DEF ReplayTalk, Confirm, ReplayVoid, Take, Disagree, VoidAgain, VoidDesync, VoidUndo, Judged, Ruled, BoardInv
  <2>2. last_step'[a] = last_step[a]
    BY DEF ReplayTalk, Confirm, ReplayVoid, Take, Disagree, VoidAgain, VoidDesync, VoidUndo, BoardInv
  <2>3. voided'[a] = voided[a]
    BY DEF ReplayTalk, Confirm, ReplayVoid, Take, Disagree, VoidAgain, VoidDesync, VoidUndo, Judged, BoardInv
  <2>4. disagreed'[a] = disagreed[a]
    BY DEF ReplayTalk, Confirm, ReplayVoid, Take, Disagree, VoidAgain, VoidDesync, VoidUndo, BoardInv
  <2> QED
    BY <2>1, <2>2, <2>3, <2>4 DEF CoreOf, Agreed
<1>d. disagreed'[b] \subseteq disagreed[b] \cup {k}
  BY <1>k DEF ReplayTalk, Confirm, ReplayVoid, Take, Disagree, VoidAgain, VoidDesync, VoidUndo
<1> HIDE DEF m, c
<1>n. ASSUME NEW s, NEW p \in {NoPending, Undone(b)}, Ruled(b, k, s, p)
      PROVE  CoreOf(b)' = Core(s, last_step'[b].seq, last_step'[b].before, k,
                               voided'[b].about, voided'[b].at)
  BY <1>n, RuledCore DEF CoreOf
<1>u. UNCHANGED voided => voided'[b].about = c.about /\ voided'[b].at = c.void
  BY <1>c
<1>l. UNCHANGED last_step => last_step'[b].seq = c.seq /\ last_step'[b].before = c.before
  BY <1>c
<1>q. CoreOf(b)' = After(c, m, k, k \in disagreed'[b])
  <2>1. CASE ReplayTalk(b, k)
    <3>1. m.kind = "say"
      BY <2>1 DEF ReplayTalk, m
    <3>2. CoreOf(b)' = CoreOf(b)
      BY <2>1 DEF ReplayTalk, CoreOf, Agreed
    <3> QED
      BY <3>1, <3>2 DEF After, c
  <2>2. CASE Confirm(b, k)
    <3>1. /\ m.kind = "step" /\ m.from = pending[b].from /\ m.to = pending[b].to
          /\ Drawn(b) /\ Ruled(b, k, state[b], NoPending)
      BY <2>2 DEF Confirm, Mine, m
    <3>2. state[b] = m.to /\ m.from = c.s
      BY <3>1, <1>a DEF BoardInv, TakenBack
    <3>3. /\ last_step'[b] = [seq |-> k, before |-> m.from] /\ UNCHANGED <<voided, disagreed>>
      BY <2>2, <3>1 DEF Confirm, BoardInv
    <3>4. CoreOf(b)' = Core(m.to, k, m.from, k, c.about, c.void)
      BY <3>1, <3>2, <3>3, <1>n, <1>u
    <3> QED
      BY <3>1, <3>2, <3>3, <3>4, <1>k DEF After, AfterStep
  <2>j. ASSUME NEW s, Judged(b, k, s)
        PROVE  /\ m.kind = "step"
               /\ CoreOf(b)' = Core(s, last_step'[b].seq, last_step'[b].before, k, c.about, c.void)
    <3>1. PICK p \in {NoPending, Undone(b)} : Ruled(b, k, s, p)
      BY <2>j DEF Judged
    <3>2. m.kind = "step" /\ UNCHANGED voided
      BY <2>j DEF Judged, m
    <3> QED
      BY <3>1, <3>2, <1>n, <1>u
  <2>3. CASE ReplayVoid(b, k)
    <3>1. Judged(b, k, c.s) /\ UNCHANGED last_step /\ m.from # c.s
      BY <2>3, <1>a DEF ReplayVoid, m
    <3> QED
      BY <3>1, <2>j, <1>l DEF After, AfterStep
  <2>4. CASE Take(b, k)
    <3>1. /\ Judged(b, k, m.to) /\ m.from = c.s /\ UNCHANGED disagreed
          /\ last_step'[b] = [seq |-> k, before |-> m.from]
      BY <2>4, <1>a DEF Take, m, BoardInv
    <3> QED
      BY <3>1, <2>j, <1>k DEF After, AfterStep
  <2>5. CASE Disagree(b, k)
    <3>1. Judged(b, k, c.s) /\ k \in disagreed'[b] /\ UNCHANGED last_step
      BY <2>5, <1>a, <1>k DEF Disagree, m
    <3> QED
      BY <3>1, <2>j, <1>l DEF After, AfterStep
  <2>6. CASE VoidAgain(b, k)
    <3>1. /\ m.kind = "void" /\ IsAgain(c, m.about) /\ Ruled(b, k, c.s, Undone(b))
          /\ UNCHANGED last_step
      BY <2>6, <1>a DEF VoidAgain, m
    <3>2. voided'[b].about = c.about /\ voided'[b].at = k
      BY <2>6, <1>c DEF VoidAgain, BoardInv
    <3>3. CoreOf(b)' = Core(c.s, c.seq, c.before, k, c.about, k)
      BY <3>1, <3>2, <1>n, <1>l
    <3> QED
      BY <3>1, <3>3 DEF After, AfterVoid
  <2>7. CASE VoidDesync(b, k)
    <3>1. /\ m.kind = "void" /\ ~IsAgain(c, m.about) /\ ~IsNext(c, m.about)
          /\ Ruled(b, k, Desync, NoPending)
      BY <2>7, <1>a DEF VoidDesync, m
    <3>2. last_step'[b] = NoLast /\ voided'[b] = NoVoid
      BY <2>7 DEF VoidDesync, BoardInv
    <3>3. CoreOf(b)' = Core(Desync, 0, NoState, k, 0, 0)
      BY <3>1, <3>2, <1>n DEF NoLast, NoVoid
    <3> QED
      BY <3>1, <3>3 DEF After, AfterVoid
  <2>8. CASE VoidUndo(b, k)
    <3> DEFINE took == last_step[b].seq = m.about
               s == IF took THEN last_step[b].before ELSE TakenBack(b)
    <3>1. /\ m.kind = "void" /\ ~IsAgain(c, m.about) /\ IsNext(c, m.about)
          /\ Ruled(b, k, s, Undone(b))
      BY <2>8, <1>a DEF VoidUndo, m
    <3>2. /\ last_step'[b] = IF took THEN NoLast ELSE last_step[b]
          /\ voided'[b] = [about |-> m.about, at |-> k]
      BY <2>8 DEF VoidUndo, BoardInv, m
    <3>3. CASE took
      <4>1. s = c.before /\ c.seq = m.about /\ last_step'[b] = NoLast
        BY <3>2, <3>3, <1>c
      <4>2. CoreOf(b)' = Core(c.before, 0, NoState, k, m.about, k)
        BY <4>1, <3>1, <3>2, <1>n DEF NoLast
      <4> QED
        BY <3>1, <4>1, <4>2 DEF After, AfterVoid
    <3>4. CASE ~took
      <4>1. s = c.s /\ c.seq # m.about /\ last_step'[b] = last_step[b]
        BY <3>2, <3>4, <1>c, <1>a
      <4>2. CoreOf(b)' = Core(c.s, c.seq, c.before, k, m.about, k)
        BY <4>1, <3>1, <3>2, <1>n, <1>c
      <4> QED
        BY <3>1, <4>1, <4>2 DEF After, AfterVoid
    <3> QED
      BY <3>3, <3>4
  <2> QED
    BY <2>1, <2>2, <2>3, <2>4, <2>5, <2>6, <2>7, <2>8
<1> QED
  BY <1>r, <1>q, <1>d, <1>o DEF m, c

LEMMA FreshPath ==
  ASSUME NEW r
  PROVE  \E T : Path(T, r, {}, 0) /\ T[0] = Fresh
<1> DEFINE T == [j \in 0..0 |-> Fresh]
<1>1. Fresh \in Cores
  BY PairAssumption DEF Fresh, Core, Cores, StateOrNone
<1> HIDE DEF Fresh
<1>2. T \in [0..0 -> Cores] /\ T[0] = Fresh
  BY <1>1
<1>3. \A i \in 1..0 : T[i] = After(T[i - 1], r[i].msg, i, i \in {})
  OBVIOUS
<1> HIDE DEF T
<1> QED
  BY <1>2, <1>3 DEF Path

LEMMA PathInit == Init => PathInv
<1> SUFFICES ASSUME Init, NEW b \in Pages PROVE OnPath(b)
  BY DEF PathInv
<1>1. CoreOf(b) = Fresh
  BY DEF Init, CoreOf, Fresh, Agreed, NoPending, NoLast, NoVoid
<1>2. disagreed[b] = {} /\ at[b] = 0
  BY DEF Init
<1> QED
  BY <1>1, <1>2, FreshPath, Zenon DEF OnPath

\* A step that leaves a board, and the lines it replayed, leaves it on its path.
LEMMA PathKept ==
  ASSUME PairInv, NEW b \in Pages, OnPath(b),
         at'[b] = at[b], disagreed'[b] = disagreed[b], whole'[b] = whole[b], CoreOf(b)' = CoreOf(b),
         \A i \in 1..Len(record) : record'[i] = record[i]
  PROVE  OnPath(b)'
<1>1. at[b] \in Nat /\ at[b] <= Len(record) /\ Len(record) \in Nat
  BY DEF PairInv, PullInv, RecordInv
<1>2. ASSUME NEW T, Path(T, record, disagreed[b], at[b])
      PROVE  Path(T, record', disagreed[b], at[b])
  <2>1. \A i \in 1..at[b] : record'[i] = record[i]
    BY <1>1
  <2> QED
    BY <1>2, <2>1, Zenon DEF Path
<1> QED
  BY <1>2, Zenon DEF OnPath

LEMMA PathExtended ==
  ASSUME NEW r, NEW D, NEW n \in Nat, NEW T, Path(T, r, D, n),
         NEW c \in Cores, NEW E, \A i \in 1..n : i \in E <=> i \in D,
         c = After(T[n], r[n + 1].msg, n + 1, n + 1 \in E)
  PROVE  \E U : Path(U, r, E, n + 1) /\ U[n + 1] = c
<1> DEFINE U == [j \in 0..(n + 1) |-> IF j = n + 1 THEN c ELSE T[j]]
<1>1. T \in [0..n -> Cores] /\ T[0] = Fresh
  BY DEF Path
<1>2. U \in [0..(n + 1) -> Cores]
  <2>1. \A j \in 0..(n + 1) : j # n + 1 => j \in 0..n
    OBVIOUS
  <2> QED
    BY <1>1, <2>1
<1>3. U[0] = Fresh /\ U[n + 1] = c /\ \A j \in 0..n : U[j] = T[j]
  BY <1>1
<1> HIDE DEF U
<1>4. ASSUME NEW i \in 1..(n + 1)
      PROVE  U[i] = After(U[i - 1], r[i].msg, i, i \in E)
  <2>1. CASE i = n + 1
    <3>1. i - 1 = n /\ n \in 0..n
      BY <2>1
    <3> QED
      BY <2>1, <3>1, <1>3
  <2>2. CASE i # n + 1
    <3>1. i \in 1..n /\ i \in 0..n /\ i - 1 \in 0..n
      BY <2>2
    <3>2. T[i] = After(T[i - 1], r[i].msg, i, i \in D)
      BY <3>1 DEF Path
    <3>3. (i \in E) = (i \in D)
      BY <3>1
    <3> QED
      BY <3>1, <3>2, <3>3, <1>3
  <2> QED
    BY <2>1, <2>2
<1> QED
  BY <1>2, <1>3, <1>4, Zenon DEF Path

LEMMA ReplayPath ==
  ASSUME PairInv, PathInv, NEW b \in Pages, Replay(b)
  PROVE  PathInv'
<1> PICK k \in DOMAIN record :
        \/ ReplayTalk(b, k) \/ Confirm(b, k) \/ ReplayVoid(b, k) \/ Take(b, k)
        \/ Disagree(b, k) \/ VoidAgain(b, k) \/ VoidDesync(b, k) \/ VoidUndo(b, k)
  BY DEF Replay
<1>1. /\ Replayed(b, k)
      /\ CoreOf(b)' = After(CoreOf(b), record[k].msg, k, k \in disagreed'[b])
      /\ disagreed'[b] \subseteq disagreed[b] \cup {k}
      /\ \A a \in Pages \ {b} : CoreOf(a)' = CoreOf(a) /\ disagreed'[a] = disagreed[a]
  BY ReplayCore
<1>2. /\ at'[b] = k /\ k = at[b] + 1 /\ at[b] \in Nat
      /\ \A a \in Pages \ {b} : at'[a] = at[a]
      /\ record' = record /\ whole' = whole
  BY <1>1 DEF Replayed, PairInv, PullInv
<1>3. ASSUME NEW a \in Pages \ {b} PROVE OnPath(a)'
  BY <1>1, <1>2, PathKept DEF PathInv
<1>4. OnPath(b)'
  <2>1. disagreed'[b] \subseteq 1..at'[b]
    BY <1>1, <1>2 DEF PathInv, OnPath
  <2>2. ASSUME whole[b]
        PROVE  \E T : Path(T, record, disagreed'[b], k) /\ T[k] = CoreOf(b)'
    <3>1. PICK T : Path(T, record, disagreed[b], at[b]) /\ T[at[b]] = CoreOf(b)
      BY <2>2 DEF PathInv, OnPath
    <3>2. CoreOf(b)' \in Cores
      BY ReplayKeeps, CoreTypeNext
    <3>3. \A i \in 1..at[b] : i \in disagreed'[b] <=> i \in disagreed[b]
      <4>1. disagreed[b] \subseteq disagreed'[b]
        BY DEF ReplayTalk, Confirm, ReplayVoid, Take, Disagree, VoidAgain, VoidDesync, VoidUndo, PairInv, BoardInv
      <4> QED
        BY <4>1, <1>1, <1>2
    <3> QED
      BY <3>1, <3>2, <3>3, <1>1, <1>2, PathExtended
  <2> QED
    BY <2>1, <2>2, <1>2, Zenon DEF OnPath
<1> QED
  BY <1>3, <1>4 DEF PathInv

LEMMA PathStep == PairInv /\ PathInv /\ [Next]_vars => PathInv'
<1> SUFFICES ASSUME PairInv, PathInv, [Next]_vars PROVE PathInv'
  OBVIOUS
<1>0. record \in Seq([self : Pages, msg : Messages])
  BY DEF PairInv, RecordInv
<1>1. ASSUME UNCHANGED <<at, whole, disagreed>>, \A b \in Pages : CoreOf(b)' = CoreOf(b),
             \A i \in 1..Len(record) : record'[i] = record[i]
      PROVE  PathInv'
  BY <1>1, PathKept DEF PathInv
<1>2. ASSUME UNCHANGED <<boardVars, at>>, UNCHANGED record \/ \E b \in Pages : \E m : Pushed(b, m)
      PROVE  PathInv'
  <2>1. \A b \in Pages : CoreOf(b)' = CoreOf(b)
    BY <1>2 DEF CoreOf, Agreed, boardVars
  <2>2. \A i \in 1..Len(record) : record'[i] = record[i]
    BY <1>2, <1>0 DEF Pushed
  <2> QED
    BY <1>1, <1>2, <2>1, <2>2 DEF boardVars
<1>3. CASE UNCHANGED vars
  BY <1>2, <1>3 DEF vars, pullVars
<1>4. ASSUME NEW a \in Pages, NEW s \in Steps, Propose(a, s) PROVE PathInv'
  <2>1. \A b \in Pages : Agreed(b)' = Agreed(b)
    BY <1>4 DEF Propose, Agreed, Drawn, PairInv, BoardInv
  <2> QED
    BY <2>1, <1>1, <1>4 DEF Propose, CoreOf, pullVars
<1>5. ASSUME NEW a \in Pages, Withdraw(a) PROVE PathInv'
  <2>1. \A b \in Pages : Agreed(b)' = Agreed(b)
    BY <1>5 DEF Withdraw, Agreed, Drawn, NoPending, PairInv, BoardInv
  <2> QED
    BY <2>1, <1>1, <1>5 DEF Withdraw, CoreOf, pullVars
<1>6. ASSUME NEW a \in Pages, Say(a) PROVE PathInv'
  BY <1>2, <1>6 DEF Say, pullVars
<1>7. ASSUME NEW a \in Pages, SayVoid(a) \/ SayVoidFails(a) PROVE PathInv'
  BY <1>2, <1>7 DEF SayVoid, SayVoidFails, pullVars
<1>8. ASSUME NEW a \in Pages, NEW i \in DOMAIN unsent[a], Push(a, i) \/ PushFails(a, i)
      PROVE  PathInv'
  BY <1>2, <1>8 DEF Push, PushFails, pullVars
<1>9. ASSUME NEW a \in Pages, PullStart(a) \/ NextPage(a) PROVE PathInv'
  BY <1>2, <1>9 DEF PullStart, NextPage
<1>10. ASSUME NEW a \in Pages, Replay(a) PROVE PathInv'
  BY <1>10, ReplayPath
<1>11. ASSUME NEW a \in Pages, Miss(a), NEW b \in Pages PROVE OnPath(b)'
  <2>1. CoreOf(b)' = CoreOf(b) /\ record' = record /\ disagreed' = disagreed
    BY <1>11 DEF Miss, CoreOf, Agreed
  <2>2. CASE b = a
    <3>1. ~whole'[b] /\ at'[b] = at[b] + 1 /\ at[b] \in Nat
      BY <2>2, <1>11 DEF Miss, PairInv, BoardInv, PullInv
    <3> QED
      BY <3>1, <2>1 DEF PathInv, OnPath
  <2>3. CASE b # a
    <3>1. whole'[b] = whole[b] /\ at'[b] = at[b]
      BY <2>3, <1>11 DEF Miss, PairInv, BoardInv, PullInv
    <3> QED
      BY <3>1, <2>1, PathKept DEF PathInv
  <2> QED
    BY <2>2, <2>3
<1>12. ASSUME NEW a \in Pages, Rebuild(a), NEW b \in Pages PROVE OnPath(b)'
  <2>1. CASE b = a
    <3>1. /\ state'[b] = Start /\ pending'[b] = NoPending /\ last_step'[b] = NoLast
          /\ last_line'[b] = 0 /\ voided'[b] = NoVoid /\ disagreed'[b] = {} /\ at'[b] = 0
      BY <2>1, <1>12 DEF Rebuild, PairInv, BoardInv, PullInv
    <3>2. CoreOf(b)' = Fresh
      BY <3>1 DEF CoreOf, Fresh, Agreed, NoPending, NoLast, NoVoid
    <3> QED
      BY <3>1, <3>2, FreshPath, Zenon DEF OnPath
  <2>2. CASE b # a
    <3>1. /\ CoreOf(b)' = CoreOf(b) /\ disagreed'[b] = disagreed[b] /\ whole'[b] = whole[b]
          /\ at'[b] = at[b] /\ record' = record
      BY <2>2, <1>12 DEF Rebuild, CoreOf, Agreed, PairInv, BoardInv, PullInv
    <3> QED
      BY <3>1, PathKept DEF PathInv
  <2> QED
    BY <2>1, <2>2
<1> QED
  BY <1>3, <1>4, <1>5, <1>6, <1>7, <1>8, <1>9, <1>10, <1>11, <1>12 DEF Next, Pull, Speak, PathInv

-----------------------------------------------------------------------------
(* Two paths over the same lines                                           *)

\* No void about line k among the first n.
Open(r, k, n) == \A j \in 1..n : ~(r[j].msg.kind = "void" /\ r[j].msg.about = k)

\* Where a void about the last line leads.
Back(c) == IF c.seq = c.line THEN c.before ELSE c.s

Even(x, y)          == x.s = y.s /\ Back(x) = Back(y)
OneBack(x, y, r, D, n) == x.line \in D /\ Open(r, x.line, n) /\ Back(x) = Back(y)
Apart(x, r, D, n)   == \E k \in D : k < x.line /\ Open(r, k, n)

\* After n lines two boards are in one state, or one step apart over the last
\* line, or a line before that is still disputed.  Their chains are the same.
Near(x, y, r, D, n) ==
    /\ x.line = y.line /\ x.about = y.about /\ x.void = y.void
    /\ x.line <= n /\ x.seq <= x.line /\ y.seq <= y.line
    /\ x.void # 0 => ~Open(r, x.about, n)
    /\ Even(x, y) \/ OneBack(x, y, r, D, n) \/ Apart(x, r, D, n)

LEMMA NearStep ==
  ASSUME NEW r, NEW D \in SUBSET Nat, NEW E \in SUBSET Nat, NEW n \in Nat, NEW x \in Cores, NEW y \in Cores,
         Near(x, y, r, D \cup E, n),
         r[n + 1].msg.kind \in {"step", "say", "void"},
         \A j \in 1..(n + 1) : r[j].msg.kind = "void" => r[j].msg.about \in Nat /\ r[j].msg.about < j
  PROVE  Near(After(x, r[n + 1].msg, n + 1, n + 1 \in D), After(y, r[n + 1].msg, n + 1, n + 1 \in E),
              r, D \cup E, n + 1)
<1> DEFINE m == r[n + 1].msg
           k == n + 1
           F == D \cup E
           X == After(x, m, k, k \in D)
           Y == After(y, m, k, k \in E)
<1>0. /\ k \in Nat /\ k > n /\ k # 0 /\ m = r[k].msg /\ m.kind \in {"step", "say", "void"}
      /\ m.kind = "void" => m.about \in Nat /\ m.about < k
  OBVIOUS
<1>F. F \subseteq Nat
  OBVIOUS
<1>s. SUFFICES Near(X, Y, r, F, k)
  OBVIOUS
<1>t. /\ x.line \in Nat /\ x.seq \in Nat /\ x.void \in Nat /\ y.line \in Nat /\ y.seq \in Nat
  BY DEF Cores
<1>h. /\ x.line = y.line /\ x.about = y.about /\ x.void = y.void
      /\ x.line < k /\ x.seq < k /\ y.seq < k
  BY <1>0, <1>t DEF Near
\* A line not disputed by line k stays open.
<1>o. ASSUME NEW l, Open(r, l, n), ~(m.kind = "void" /\ m.about = l)
      PROVE  Open(r, l, k)
  <2> SUFFICES ASSUME NEW j \in 1..k PROVE ~(r[j].msg.kind = "void" /\ r[j].msg.about = l)
    BY DEF Open
  <2>1. j = k \/ j \in 1..n
    OBVIOUS
  <2> QED
    BY <1>o, <2>1, <1>0 DEF Open
<1>c. \A l : Open(r, l, k) => Open(r, l, n)
  BY DEF Open
<1>n. Open(r, k, k)
  BY DEF Open
\* What the void of both boards is about is not open.
<1>v. x.void # 0 => ~Open(r, x.about, n)
  BY DEF Near
<1>e. Even(x, y) \/ OneBack(x, y, r, F, n) \/ Apart(x, r, F, n)
  BY DEF Near
<1> HIDE DEF m, k, F, X, Y
\* A line before k that stays open keeps them apart.
<1>a. ASSUME X.line = k, NEW l \in F, l < k, Open(r, l, n), ~(m.kind = "void" /\ m.about = l)
      PROVE  Apart(X, r, F, k)
  BY <1>a, <1>o DEF Apart
<1>b. OneBack(x, y, r, F, n) \/ Apart(x, r, F, n) => \E l \in F : l <= x.line /\ l < k /\ Open(r, l, n)
  <2>1. ASSUME OneBack(x, y, r, F, n) PROVE \E l \in F : l <= x.line /\ l < k /\ Open(r, l, n)
    BY <2>1, <1>h, <1>t, <1>F DEF OneBack
  <2>2. ASSUME Apart(x, r, F, n) PROVE \E l \in F : l <= x.line /\ l < k /\ Open(r, l, n)
    <3>1. PICK l \in F : l < x.line /\ Open(r, l, n)
      BY <2>2 DEF Apart
    <3>2. x.line <= n /\ x.line < k
      BY <1>h DEF Near
    <3>3. l <= x.line /\ l < k
      BY <3>1, <3>2, <1>F, <1>t, <1>0
    <3> QED
      BY <3>1, <3>3
  <2> QED
    BY <2>1, <2>2
<1>1. CASE m.kind = "say"
  <2>1. X = x /\ Y = y
    BY <1>1 DEF X, Y, After
  <2>2. \A l : Open(r, l, n) <=> Open(r, l, k)
    BY <1>1, <1>o, <1>c
  <2>3. Even(x, y) \/ OneBack(x, y, r, F, k) \/ Apart(x, r, F, k)
    BY <2>2, <1>e, Zenon DEF OneBack, Apart
  <2>4. x.void # 0 => ~Open(r, x.about, k)
    BY <1>v, <1>c
  <2>5. x.line <= k /\ x.seq <= x.line /\ y.seq <= y.line
    BY <1>h, <1>t, <1>0 DEF Near
  <2>6. Near(x, y, r, F, k)
    BY <2>3, <2>4, <2>5, <1>h DEF Near
  <2> QED
    BY <2>1, <2>6
<1>2. CASE m.kind = "step"
  <2>1. X = AfterStep(x, m, k, k \in D) /\ Y = AfterStep(y, m, k, k \in E)
    BY <1>2 DEF X, Y, After
  <2>2. /\ X.line = k /\ X.about = x.about /\ X.void = x.void /\ X.seq \in {x.seq, k}
        /\ Y.line = k /\ Y.about = y.about /\ Y.void = y.void /\ Y.seq \in {y.seq, k}
    BY <2>1, CoreFields DEF AfterStep
  <2>3. X.seq <= k /\ Y.seq <= k /\ (X.void # 0 => ~Open(r, X.about, k))
    BY <2>2, <1>0, <1>h, <1>t, <1>v, <1>c
  <2>4. ASSUME OneBack(x, y, r, F, n) \/ Apart(x, r, F, n)
        PROVE  Apart(X, r, F, k)
    BY <2>2, <2>4, <1>2, <1>a, <1>b
  <2>5. ASSUME Even(x, y)
        PROVE  Even(X, Y) \/ OneBack(X, Y, r, F, k)
    <3>1. CASE m.from # x.s
      <4>1. /\ X.s = x.s /\ X.seq = x.seq /\ Y.s = y.s /\ Y.seq = y.seq
        BY <2>1, <2>5, <3>1, CoreFields DEF AfterStep, Even
      <4> QED
        BY <4>1, <2>2, <2>5, <1>h, <1>t, <1>0 DEF Even, Back
    <3>2. CASE m.from = x.s
      <4>1. X.s = (IF k \in D THEN x.s ELSE m.to) /\ Back(X) = x.s
        <5>1. CASE k \in D
          <6>1. X = Core(x.s, x.seq, x.before, k, x.about, x.void)
            BY <2>1, <5>1 DEF AfterStep
          <6> QED
            BY <6>1, <5>1, CoreFields, <1>h, <1>t DEF Back
        <5>2. CASE k \notin D
          <6>1. X = Core(m.to, k, m.from, k, x.about, x.void)
            BY <2>1, <5>2, <3>2 DEF AfterStep
          <6> QED
            BY <6>1, <5>2, <3>2, CoreFields DEF Back
        <5> QED
          BY <5>1, <5>2
      <4>2. Y.s = (IF k \in E THEN x.s ELSE m.to) /\ Back(Y) = x.s
        <5>0. y.s = x.s
          BY <2>5 DEF Even
        <5>1. CASE k \in E
          <6>1. Y = Core(y.s, y.seq, y.before, k, y.about, y.void)
            BY <2>1, <5>1 DEF AfterStep
          <6> QED
            BY <6>1, <5>0, <5>1, CoreFields, <1>h, <1>t DEF Back
        <5>2. CASE k \notin E
          <6>1. Y = Core(m.to, k, m.from, k, y.about, y.void)
            BY <2>1, <5>0, <5>2, <3>2 DEF AfterStep
          <6> QED
            BY <6>1, <5>0, <5>2, <3>2, CoreFields DEF Back
        <5> QED
          BY <5>1, <5>2
      <4>3. CASE k \in F
        BY <4>1, <4>2, <4>3, <2>2, <1>n DEF OneBack
      <4>4. CASE k \notin F
        BY <4>1, <4>2, <4>4 DEF Even, F
      <4> QED
        BY <4>3, <4>4
    <3> QED
      BY <3>1, <3>2
  <2>6. Even(X, Y) \/ OneBack(X, Y, r, F, k) \/ Apart(X, r, F, k)
    BY <2>4, <2>5, <1>e
  <2> QED
    BY <2>2, <2>3, <2>6, <1>0, <1>h DEF Near
<1>3. CASE m.kind = "void"
  <2> DEFINE a == m.about
  <2>0. X = AfterVoid(x, a, k) /\ Y = AfterVoid(y, a, k)
    BY <1>3 DEF X, Y, After
  <2>1. /\ IsAgain(x, a) <=> IsAgain(y, a)
        /\ IsNext(x, a) <=> IsNext(y, a)
    BY <1>h DEF IsAgain, IsNext
  <2>2. ~Open(r, a, k)
    BY <1>0, <1>3 DEF Open
  <2> HIDE DEF a
  <2>3. CASE IsAgain(x, a)
    <3>1. /\ X = Core(x.s, x.seq, x.before, k, x.about, k)
          /\ Y = Core(y.s, y.seq, y.before, k, y.about, k)
      BY <2>0, <2>1, <2>3 DEF AfterVoid
    <3>2. /\ X.s = x.s /\ X.seq = x.seq /\ X.line = k /\ X.about = x.about /\ X.void = k
          /\ Y.s = y.s /\ Y.seq = y.seq /\ Y.line = k /\ Y.about = y.about /\ Y.void = k
      BY <3>1, CoreFields
    <3>3. x.about = a /\ ~Open(r, a, n)
      BY <2>3, <1>v DEF IsAgain
    <3>4. ASSUME OneBack(x, y, r, F, n) \/ Apart(x, r, F, n)
          PROVE  Apart(X, r, F, k)
      <4>1. PICK l \in F : l < k /\ Open(r, l, n)
        BY <3>4, <1>b
      <4>2. l # a
        BY <3>3, <4>1
      <4> QED
        BY <3>2, <4>1, <4>2, <1>a DEF a
    <3>5. ASSUME Even(x, y)
          PROVE  Even(X, Y)
      BY <3>2, <3>5, <1>h, <1>t, <1>0 DEF Even, Back
    <3>6. Even(X, Y) \/ Apart(X, r, F, k)
      BY <3>4, <3>5, <1>e
    <3> QED
      BY <3>2, <3>3, <3>6, <2>2, <1>0, <1>h, <1>t DEF Near
  <2>4. CASE ~IsAgain(x, a) /\ ~IsNext(x, a)
    <3>1. X = Core(Desync, 0, NoState, k, 0, 0) /\ Y = X
      BY <2>0, <2>1, <2>4 DEF AfterVoid
    <3>2. X.seq = 0 /\ X.line = k /\ X.void = 0
      BY <3>1, CoreFields
    <3> QED
      BY <3>1, <3>2, <1>0 DEF Near, Even, Back
  <2>5. CASE ~IsAgain(x, a) /\ IsNext(x, a)
    <3>0. x.line = a /\ y.line = a /\ a \in Nat
      BY <2>5, <1>h, <1>t DEF IsNext
    <3>1. /\ X.s = Back(x) /\ X.seq \in {0, x.seq} /\ X.line = k /\ X.about = a /\ X.void = k
      <4>1. CASE x.seq = a
        <5>1. X = Core(x.before, 0, NoState, k, a, k)
          BY <2>0, <2>5, <4>1 DEF AfterVoid
        <5> QED
          BY <5>1, <4>1, <3>0, CoreFields DEF Back
      <4>2. CASE x.seq # a
        <5>1. X = Core(x.s, x.seq, x.before, k, a, k)
          BY <2>0, <2>5, <4>2 DEF AfterVoid
        <5> QED
          BY <5>1, <4>2, <3>0, CoreFields DEF Back
      <4> QED
        BY <4>1, <4>2
    <3>2. /\ Y.s = Back(y) /\ Y.seq \in {0, y.seq} /\ Y.line = k /\ Y.about = a /\ Y.void = k
      <4>1. CASE y.seq = a
        <5>1. Y = Core(y.before, 0, NoState, k, a, k)
          BY <2>0, <2>1, <2>5, <4>1 DEF AfterVoid
        <5> QED
          BY <5>1, <4>1, <3>0, CoreFields DEF Back
      <4>2. CASE y.seq # a
        <5>1. Y = Core(y.s, y.seq, y.before, k, a, k)
          BY <2>0, <2>1, <2>5, <4>2 DEF AfterVoid
        <5> QED
          BY <5>1, <4>2, <3>0, CoreFields DEF Back
      <4> QED
        BY <4>1, <4>2
    <3>3. X.seq # k /\ Y.seq # k /\ X.seq <= k /\ Y.seq <= k
      BY <3>1, <3>2, <1>0, <1>h, <1>t
    <3>4. ASSUME Back(x) = Back(y)
          PROVE  Even(X, Y)
      BY <3>1, <3>2, <3>3, <3>4 DEF Even, Back
    <3>5. ASSUME Apart(x, r, F, n)
          PROVE  Apart(X, r, F, k)
      <4>1. PICK l \in F : l < x.line /\ Open(r, l, n)
        BY <3>5 DEF Apart
      <4>2. l # a
        BY <3>0, <4>1
      <4>3. l < k
        BY <1>h, <1>t, <1>F, <1>0, <4>1
      <4> QED
        BY <3>1, <4>1, <4>2, <4>3, <1>a DEF a
    <3>6. Even(X, Y) \/ Apart(X, r, F, k)
      BY <3>4, <3>5, <1>e DEF Even, OneBack
    <3> QED
      BY <3>1, <3>2, <3>3, <3>6, <2>2, <1>0 DEF Near
  <2> QED
    BY <2>3, <2>4, <2>5
<1> QED
  BY <1>0, <1>1, <1>2, <1>3

LEMMA NatMin ==
  ASSUME NEW S \in SUBSET Nat, S # {}
  PROVE  \E x \in S : \A y \in S : x <= y
<1>1. IsWellFoundedOn(OpToRel(<,Nat), Nat)
  BY NatLessThanWellFounded
<1>2. PICK x \in S : \A y \in S : ~(<<y, x>> \in OpToRel(<,Nat))
  BY <1>1, WFMin, Zenon
<1>3. \A y \in S : <<y, x>> \in OpToRel(<,Nat) <=> y < x
  BY DEF OpToRel
<1>4. x \in S /\ \A y \in S : ~(y < x)
  BY <1>2, <1>3
<1> QED
  BY <1>4, SMT

\* Along one record two paths stay near: no first line parts them.
LEMMA Meet ==
  ASSUME NEW r, NEW D \in SUBSET Nat, NEW E \in SUBSET Nat, NEW n \in Nat,
         NEW T, NEW U, Path(T, r, D, n), Path(U, r, E, n),
         \A j \in 1..n : /\ r[j].msg.kind \in {"step", "say", "void"}
                         /\ r[j].msg.kind = "void" => r[j].msg.about \in Nat /\ r[j].msg.about < j
  PROVE  Near(T[n], U[n], r, D \cup E, n)
<1> DEFINE Off == {i \in 0..n : ~Near(T[i], U[i], r, D \cup E, i)}
<1>1. CASE Off = {}
  BY <1>1
<1>2. CASE Off # {}
  <2>0. Off \in SUBSET Nat
    OBVIOUS
  <2>1. PICK x \in Off : \A y \in Off : x <= y
    <3> HIDE DEF Off
    <3> QED
      BY <1>2, <2>0, NatMin
  <2>2. CASE x = 0
    <3>1. T[0] = Fresh /\ U[0] = Fresh
      BY DEF Path
    <3>2. Near(Fresh, Fresh, r, D \cup E, 0)
      BY DEF Near, Even, Fresh, Core
    <3> QED
      BY <2>1, <2>2, <3>1, <3>2
  <2>3. CASE x # 0
    <3> DEFINE p == x - 1
    <3>1. p \in Nat /\ p + 1 = x /\ p \in 0..n /\ x \in 1..n /\ x \in 0..n /\ p < x
      BY <2>1, <2>3
    <3> HIDE DEF p
    <3>2. Near(T[p], U[p], r, D \cup E, p)
      <4>1. p \notin Off
        <5> HIDE DEF Off
        <5> QED
          BY <2>1, <3>1
      <4> QED
        BY <3>1, <4>1
    <3>3. T[p] \in Cores /\ U[p] \in Cores
      BY <3>1 DEF Path
    <3>4. /\ T[x] = After(T[p], r[x].msg, x, x \in D)
          /\ U[x] = After(U[p], r[x].msg, x, x \in E)
      BY <3>1 DEF Path, p
    <3>5. /\ r[x].msg.kind \in {"step", "say", "void"}
          /\ \A j \in 1..x : r[j].msg.kind = "void" => r[j].msg.about \in Nat /\ r[j].msg.about < j
      BY <3>1
    <3>6. Near(T[x], U[x], r, D \cup E, x)
      BY <3>1, <3>2, <3>3, <3>4, <3>5, NearStep
    <3> QED
      BY <2>1, <3>6
  <2> QED
    BY <2>2, <2>3
<1> QED
  BY <1>1, <1>2

\* Two boards that have replayed the same lines show the same state, their own
\* drawn steps aside, or a disagreement has still to be answered (replayLocked):
\* for any steps and outcomes, and any order of pushes, pulls and rebuilds.
THEOREM BoardsAgree == Spec => []Agreement
<1>1. ASSUME PairInv, PathInv, NEW a \in Pages, NEW b \in Pages, at[a] = at[b], whole[a], whole[b]
      PROVE  Agreed(a) = Agreed(b) \/ Unanswered(a, b)
  <2> DEFINE n == at[a]
             D == disagreed[a]
             E == disagreed[b]
  <2>1. PICK T : Path(T, record, D, n) /\ T[n] = CoreOf(a)
    BY <1>1 DEF PathInv, OnPath
  <2>2. PICK U : Path(U, record, E, n) /\ U[n] = CoreOf(b)
    BY <1>1 DEF PathInv, OnPath
  <2>3. n \in Nat /\ n <= Len(record) /\ D \in SUBSET Nat /\ E \in SUBSET Nat
    BY <1>1 DEF PairInv, PullInv, BoardInv, RecordInv
  <2>4. \A j \in 1..n : /\ record[j].msg.kind \in {"step", "say", "void"}
                        /\ record[j].msg.kind = "void" => record[j].msg.about \in Nat /\ record[j].msg.about < j
    BY <1>1, <2>3, LineFacts DEF PairInv, RecordInv
  <2> HIDE DEF n, D, E
  <2>5. Near(CoreOf(a), CoreOf(b), record, D \cup E, n)
    <3>1. Near(T[n], U[n], record, D \cup E, n)
      BY <2>1, <2>2, <2>3, <2>4, Meet
    <3> QED
      BY <2>1, <2>2, <3>1
  <2>6. CoreOf(a).s = Agreed(a) /\ CoreOf(b).s = Agreed(b)
    BY DEF CoreOf, Core
  <2>7. CASE Even(CoreOf(a), CoreOf(b))
    BY <2>6, <2>7 DEF Even
  <2>8. ASSUME NEW k \in D \cup E, Open(record, k, n)
        PROVE  Unanswered(a, b)
    BY <2>8 DEF Unanswered, Open, D, E, n
  <2> QED
    BY <2>5, <2>7, <2>8 DEF Near, OneBack, Apart
<1>2. PairInv /\ PathInv => Agreement
  BY <1>1 DEF Agreement
<1>3. Spec => [](PairInv /\ PathInv)
  BY PairInit, PairStep, PathInit, PathStep, PTL DEF Spec
<1> QED
  BY <1>2, <1>3, PTL

=============================================================================

------------------------------ MODULE ChessPair ------------------------------
(***************************************************************************)
(* A pair's game: two pages, each with a board of its own, and the record  *)
(* of lines the name server keeps for them in one order.                   *)
(*                                                                         *)
(* A page draws its own step at once (propose), pushes it with the states  *)
(* either side of it, and learns its place in the order when it pulls the  *)
(* record.  Every board judges every line: its own pending step is         *)
(* confirmed, a line made from a state that is gone is void, a line that   *)
(* lands elsewhere is a disagreement, which the page answers with a void   *)
(* line.  A board whose chain is not the record's is built anew.           *)
(*                                                                         *)
(* A state stands for what stateHashLocked covers, and equal hashes for    *)
(* equal states.  What a step does to a state is given by Outcomes; the    *)
(* code's board keeps more than its hash, so it may have several.          *)
(* Lines are numbered from 1.  The record is shorter than kRelayLines.     *)
(***************************************************************************)
EXTENDS Naturals, Sequences, SequencesExt

CONSTANTS
    Pages,          \* the owner's page and the partner's
    States, Start, Desync, Refused,
    Steps,          \* verbs with their argument: a move, a seat, an offer ...
    Outcomes,       \* [States -> [Steps -> SUBSET (States \cup {Refused})]]
    Budgets         \* bounds on the environment: how many steps, how much talk,
                    \* how many failures of which pages' calls

NoState == "none"
NoStep  == "none"

ASSUME PairAssumption ==
    /\ {Start, Desync} \subseteq States /\ Start # Desync
    /\ Refused \notin States /\ NoState \notin States
    /\ Outcomes \in [States -> [Steps -> SUBSET (States \cup {Refused})]]
    /\ Budgets \subseteq [steps : Nat, talk : Nat, failures : Nat, flaky : SUBSET Pages]

VARIABLES
    \* the name server
    record,         \* pair_.record
    \* each page's board
    state,          \* the state the board shows
    pending,        \* pending_: the step drawn ahead of its place
    last_step,      \* last_step_: the last line taken, and the state before it
    last_line,      \* last_line_: the last line other than talk; 0 for none
    voided,         \* voided_: the last void taken, and its own place
    chain_seq,      \* chain_seq_
    whole,          \* chain_ is the record's chain through chain_seq
    \* each page
    since,          \* p.since: the lines replayed and checked
    at,             \* the lines replayed
    page_end,       \* the end of the page being replayed
    pulling,        \* a pull holds relay.busy
    rebuilding,     \* p.rebuilding
    disputed,       \* the lines the running pull has to dispute
    voids,          \* the lines a finished pull has still to dispute
    unsent,         \* steps drawn whose push has not been made
    refused,        \* pushes that failed and whose withdraw is still to come
    \* history and environment
    disagreed,      \* lines this board answered DISAGREE to
    unsaid,         \* disputes that were dropped
    left            \* what the budget of this behaviour still allows

boardVars == <<state, pending, last_step, last_line, voided, chain_seq, whole, disagreed>>
pullVars  == <<since, at, page_end, pulling, rebuilding, disputed>>
pushVars  == <<voids, unsent, refused>>
vars      == <<record, boardVars, pullVars, pushVars, unsaid, left>>

Step(s, from, to) == [kind |-> "step", step |-> s, from |-> from, to |-> to, about |-> 0]
Talk      == [kind |-> "say", step |-> NoStep, from |-> NoState, to |-> NoState, about |-> 0]
Void(k)   == [kind |-> "void", step |-> NoStep, from |-> NoState, to |-> NoState, about |-> k]
Line(b, m) == [self |-> b, msg |-> m]

NoPending == [on |-> FALSE, undone |-> FALSE, from |-> NoState, to |-> NoState]
NoLast    == [seq |-> 0, before |-> NoState]     \* Step{}: seq 0 is not on
NoVoid    == [about |-> 0, at |-> 0]

StateOrNone == States \cup {NoState}
Messages == [kind : {"step", "say", "void"}, step : Steps \cup {NoStep},
             from : StateOrNone, to : StateOrNone, about : Nat]

TypeOK ==
    /\ record \in Seq([self : Pages, msg : Messages])
    /\ state \in [Pages -> States]
    /\ pending \in [Pages -> [on : BOOLEAN, undone : BOOLEAN, from : StateOrNone, to : StateOrNone]]
    /\ last_step \in [Pages -> [seq : Nat, before : StateOrNone]]
    /\ last_line \in [Pages -> Nat]
    /\ voided \in [Pages -> [about : Nat, at : Nat]]
    /\ chain_seq \in [Pages -> Nat] /\ whole \in [Pages -> BOOLEAN]
    /\ \A b \in Pages : since[b] <= at[b] /\ at[b] <= page_end[b] /\ page_end[b] <= Len(record)
    /\ pulling \in [Pages -> BOOLEAN] /\ rebuilding \in [Pages -> BOOLEAN]
    /\ disputed \in [Pages -> Seq(Nat)] /\ voids \in [Pages -> Seq(Nat)]
    /\ unsent \in [Pages -> Seq(Messages)] /\ refused \in [Pages -> Nat]
    /\ disagreed \in [Pages -> SUBSET Nat] /\ unsaid \subseteq Nat
    /\ \E m \in Budgets : /\ left.steps \in 0..m.steps /\ left.talk \in 0..m.talk
                          /\ left.failures \in 0..m.failures /\ left.flaky = m.flaky

Init ==
    /\ record = <<>>
    /\ state = [b \in Pages |-> Start]
    /\ pending = [b \in Pages |-> NoPending]
    /\ last_step = [b \in Pages |-> NoLast]
    /\ last_line = [b \in Pages |-> 0] /\ voided = [b \in Pages |-> NoVoid]
    /\ chain_seq = [b \in Pages |-> 0] /\ whole = [b \in Pages |-> TRUE]
    /\ since = [b \in Pages |-> 0] /\ at = [b \in Pages |-> 0] /\ page_end = [b \in Pages |-> 0]
    /\ pulling = [b \in Pages |-> FALSE] /\ rebuilding = [b \in Pages |-> FALSE]
    /\ disputed = [b \in Pages |-> <<>>] /\ voids = [b \in Pages |-> <<>>]
    /\ unsent = [b \in Pages |-> <<>>] /\ refused = [b \in Pages |-> 0]
    /\ disagreed = [b \in Pages |-> {}] /\ unsaid = {}
    /\ left \in Budgets

\* A step of the page's own is on its board, its place not yet known.
Drawn(b) == pending[b].on /\ ~pending[b].undone

-----------------------------------------------------------------------------
(* A page acts                                                             *)

\* proposeLocked: BUSY, a refusal and a step that changes nothing send nothing.
Propose(b, s) ==
    /\ left.steps > 0
    /\ ~Drawn(b)
    /\ \E to \in Outcomes[state[b]][s] \ {Refused, state[b]} :
          /\ state' = [state EXCEPT ![b] = to]
          /\ pending' = [pending EXCEPT ![b] =
                           [on |-> TRUE, undone |-> FALSE, from |-> state[b], to |-> to]]
          /\ unsent' = [unsent EXCEPT ![b] = Append(@, Step(s, state[b], to))]
    /\ left' = [left EXCEPT !.steps = @ - 1]
    /\ UNCHANGED <<record, last_step, last_line, voided, chain_seq, whole, disagreed, pullVars,
                   voids, refused, unsaid>>

\* pushLocked, while no pull of this page runs.
Pushed(b, m) == ~pulling[b] /\ record' = Append(record, Line(b, m))

\* The acts of one page that wait for the relay take their turns in any order.
Push(b, i) ==
    /\ i \in DOMAIN unsent[b]
    /\ Pushed(b, unsent[b][i])
    /\ unsent' = [unsent EXCEPT ![b] = RemoveAt(@, i)]
    /\ UNCHANGED <<boardVars, pullVars, voids, refused, unsaid, left>>

\* No answer: the name server did not take the line, or took it.
PushFails(b, i) ==
    /\ left.failures > 0 /\ b \in left.flaky
    /\ i \in DOMAIN unsent[b]
    /\ \/ Pushed(b, unsent[b][i])
       \/ ~pulling[b] /\ UNCHANGED record
    /\ unsent' = [unsent EXCEPT ![b] = RemoveAt(@, i)]
    /\ refused' = [refused EXCEPT ![b] = @ + 1]
    /\ left' = [left EXCEPT !.failures = @ - 1]
    /\ UNCHANGED <<boardVars, pullVars, voids, unsaid>>

\* Mutant: a step already taken back is taken back once more.
Withdraw_Again(b) ==
    /\ refused[b] > 0
    /\ refused' = [refused EXCEPT ![b] = @ - 1]
    /\ state' = [state EXCEPT ![b] = IF pending[b].on THEN pending[b].from ELSE @]
    /\ pending' = [pending EXCEPT ![b] = NoPending]
    /\ UNCHANGED <<record, last_step, last_line, voided, chain_seq, whole, disagreed,
                   pullVars, voids, unsent, unsaid, left>>

\* withdrawLocked forgets the pending step, whichever it is by now.
Withdraw(b) ==
    /\ refused[b] > 0
    /\ refused' = [refused EXCEPT ![b] = @ - 1]
    /\ state' = [state EXCEPT ![b] = IF Drawn(b) THEN pending[b].from ELSE @]
    /\ pending' = [pending EXCEPT ![b] = NoPending]
    /\ UNCHANGED <<record, last_step, last_line, voided, chain_seq, whole, disagreed,
                   pullVars, voids, unsent, unsaid, left>>

\* Talk is not a step: it goes to the record as it is.
Say(b) ==
    /\ left.talk > 0
    /\ Pushed(b, Talk)
    /\ left' = [left EXCEPT !.talk = @ - 1]
    /\ UNCHANGED <<boardVars, pullVars, pushVars, unsaid>>

-----------------------------------------------------------------------------
(* replayLocked: line k of the record, on the board of page b              *)

Mine(b, k) == /\ pending[b].on /\ record[k].self = b /\ record[k].msg.kind = "step"
              /\ record[k].msg.from = pending[b].from /\ record[k].msg.to = pending[b].to

\* Mutant: a drawn step is not taken back when a line comes first.
TakenBack_Stays(b) == state[b]

\* The state a line is judged from: without the page's own drawn step.
TakenBack(b) == IF Drawn(b) THEN pending[b].from ELSE state[b]

Undone(b) == IF Drawn(b) THEN [pending[b] EXCEPT !.undone = TRUE] ELSE pending[b]

Replayed(b, k) ==
    /\ pulling[b] /\ at[b] < page_end[b] /\ k = at[b] + 1
    /\ at' = [at EXCEPT ![b] = k]
    /\ chain_seq' = [chain_seq EXCEPT ![b] = k]
    /\ UNCHANGED <<record, whole, since, page_end, pulling, rebuilding, pushVars, left>>

Ruled(b, k, s, p) ==
    /\ Replayed(b, k)
    /\ last_line' = [last_line EXCEPT ![b] = k]
    /\ state' = [state EXCEPT ![b] = s]
    /\ pending' = [pending EXCEPT ![b] = p]

ReplayTalk(b, k) ==
    /\ Replayed(b, k)
    /\ record[k].msg.kind = "say"
    /\ UNCHANGED <<state, pending, last_step, last_line, voided, disagreed, disputed, unsaid>>

\* The page's own step comes back in order: confirmed, already drawn.
Confirm(b, k) ==
    /\ Mine(b, k) /\ Drawn(b)
    /\ Ruled(b, k, state[b], NoPending)
    /\ last_step' = [last_step EXCEPT ![b] = [seq |-> k, before |-> pending[b].from]]
    /\ UNCHANGED <<voided, disagreed, disputed, unsaid>>

\* A step of the partner's, or an own one a line came ahead of.
Judged(b, k, s) ==
    /\ record[k].msg.kind = "step" /\ ~(Mine(b, k) /\ Drawn(b))
    /\ Ruled(b, k, s, IF Mine(b, k) THEN NoPending ELSE Undone(b))
    /\ UNCHANGED voided

\* VOID: proposed from a state an earlier line replaced.
ReplayVoid(b, k) ==
    /\ record[k].msg.from # TakenBack(b)
    /\ Judged(b, k, TakenBack(b))
    /\ UNCHANGED <<last_step, disagreed, disputed, unsaid>>

Take(b, k) ==
    LET m == record[k].msg IN
    /\ m.from = TakenBack(b)
    /\ m.to \in Outcomes[m.from][m.step]
    /\ Judged(b, k, m.to)
    /\ last_step' = [last_step EXCEPT ![b] = [seq |-> k, before |-> m.from]]
    /\ UNCHANGED <<disagreed, disputed, unsaid>>

\* DISAGREE: undone; the page will say so, unless it is rebuilding.
Disagree(b, k) ==
    LET m == record[k].msg IN
    /\ m.from = TakenBack(b)
    /\ Outcomes[m.from][m.step] \ {m.to} # {}
    /\ Judged(b, k, m.from)
    /\ disagreed' = [disagreed EXCEPT ![b] = @ \cup {k}]
    /\ disputed' = [disputed EXCEPT ![b] = IF rebuilding[b] THEN @ ELSE Append(@, k)]
    /\ unsaid' = IF rebuilding[b] THEN unsaid \cup {k} ELSE unsaid
    /\ UNCHANGED last_step

\* The same dispute said twice is one dispute.
Again(b, m)    == /\ last_line[b] # 0 /\ voided[b].about = m.about /\ voided[b].at = last_line[b]
                  /\ voided[b].at # 0
Adjacent(b, m) == last_line[b] # 0 /\ last_line[b] = m.about

VoidAgain(b, k) ==
    /\ record[k].msg.kind = "void" /\ Again(b, record[k].msg)
    /\ Ruled(b, k, TakenBack(b), Undone(b))
    /\ voided' = [voided EXCEPT ![b].at = k]
    /\ UNCHANGED <<last_step, disagreed, disputed, unsaid>>

\* Past one step there is nothing agreed to go back to.
VoidDesync(b, k) ==
    LET m == record[k].msg IN
    /\ m.kind = "void" /\ ~Again(b, m) /\ ~Adjacent(b, m)
    /\ Ruled(b, k, Desync, NoPending)
    /\ last_step' = [last_step EXCEPT ![b] = NoLast]
    /\ voided' = [voided EXCEPT ![b] = NoVoid]
    /\ UNCHANGED <<disagreed, disputed, unsaid>>

\* The line just before it is disputed: undone where it was taken.
VoidUndo(b, k) ==
    LET m == record[k].msg
        took == last_step[b].seq = m.about
    IN /\ m.kind = "void" /\ ~Again(b, m) /\ Adjacent(b, m)
       /\ Ruled(b, k, IF took THEN last_step[b].before ELSE TakenBack(b), Undone(b))
       /\ last_step' = [last_step EXCEPT ![b] = IF took THEN NoLast ELSE @]
       /\ voided' = [voided EXCEPT ![b] = [about |-> m.about, at |-> k]]
       /\ UNCHANGED <<disagreed, disputed, unsaid>>

\* The call to the board fails: a line missed.
Miss(b) ==
    /\ left.failures > 0 /\ b \in left.flaky
    /\ pulling[b] /\ at[b] < page_end[b]
    /\ at' = [at EXCEPT ![b] = @ + 1]
    /\ whole' = [whole EXCEPT ![b] = FALSE]
    /\ left' = [left EXCEPT !.failures = @ - 1]
    /\ UNCHANGED <<record, state, pending, last_step, last_line, voided, chain_seq, disagreed,
                   since, page_end, pulling, rebuilding, disputed, pushVars, unsaid>>

-----------------------------------------------------------------------------
(* relayPull                                                               *)

PullStart(b) ==
    /\ ~pulling[b] /\ since[b] < Len(record)
    /\ pulling' = [pulling EXCEPT ![b] = TRUE]
    /\ page_end' = [page_end EXCEPT ![b] = Len(record)]
    /\ UNCHANGED <<record, boardVars, since, at, rebuilding, disputed, pushVars, unsaid, left>>

\* The board's chain and the relay's, at the same line.
Mismatch(b) == since[b] < page_end[b] /\ chain_seq[b] = page_end[b] /\ ~whole[b]

\* Mutant: what a finished pull disputed is never said.
NextPage_Unsaid(b) ==
    /\ pulling[b] /\ at[b] = page_end[b] /\ ~Mismatch(b)
    /\ since' = [since EXCEPT ![b] = at[b]]
    /\ UNCHANGED <<record, boardVars, at, unsent, refused, unsaid, left>>
    /\ IF Len(record) > at[b]
       THEN /\ page_end' = [page_end EXCEPT ![b] = Len(record)]
            /\ UNCHANGED <<pulling, rebuilding, disputed, voids>>
       ELSE /\ pulling' = [pulling EXCEPT ![b] = FALSE]
            /\ rebuilding' = [rebuilding EXCEPT ![b] = FALSE]
            /\ disputed' = [disputed EXCEPT ![b] = <<>>]
            /\ UNCHANGED <<page_end, voids>>

\* Mutant: the line after the page is skipped.
NextPage_Skips(b) ==
    /\ pulling[b] /\ at[b] = page_end[b] /\ ~Mismatch(b)
    /\ since' = [since EXCEPT ![b] = at[b] + 1]
    /\ UNCHANGED <<record, boardVars, at, unsent, refused, unsaid, left>>
    /\ IF Len(record) > at[b]
       THEN /\ page_end' = [page_end EXCEPT ![b] = Len(record)]
            /\ UNCHANGED <<pulling, rebuilding, disputed, voids>>
       ELSE /\ pulling' = [pulling EXCEPT ![b] = FALSE]
            /\ rebuilding' = [rebuilding EXCEPT ![b] = FALSE]
            /\ disputed' = [disputed EXCEPT ![b] = <<>>]
            /\ voids' = [voids EXCEPT ![b] = @ \o disputed[b]]
            /\ UNCHANGED page_end

\* The next page; after an empty one the pull is over, and what was disputed
\* is left to be said.
NextPage(b) ==
    /\ pulling[b] /\ at[b] = page_end[b] /\ ~Mismatch(b)
    /\ since' = [since EXCEPT ![b] = at[b]]
    /\ UNCHANGED <<record, boardVars, at, unsent, refused, unsaid, left>>
    /\ IF Len(record) > at[b]
       THEN /\ page_end' = [page_end EXCEPT ![b] = Len(record)]
            /\ UNCHANGED <<pulling, rebuilding, disputed, voids>>
       ELSE /\ pulling' = [pulling EXCEPT ![b] = FALSE]
            /\ rebuilding' = [rebuilding EXCEPT ![b] = FALSE]
            /\ disputed' = [disputed EXCEPT ![b] = <<>>]
            /\ voids' = [voids EXCEPT ![b] = @ \o disputed[b]]
            /\ UNCHANGED page_end

\* Mutant: the page forgets to set p.since back to the start.
Rebuild_GoesOn(b) ==
    /\ pulling[b] /\ at[b] = page_end[b] /\ Mismatch(b)
    /\ since' = [since EXCEPT ![b] = page_end[b]]
    /\ UNCHANGED <<at, page_end>>
    /\ pulling' = [pulling EXCEPT ![b] = FALSE]
    /\ rebuilding' = [rebuilding EXCEPT ![b] = TRUE]
    /\ disputed' = [disputed EXCEPT ![b] = <<>>]
    /\ unsaid' = unsaid \cup ToSet(disputed[b])
    /\ state' = [state EXCEPT ![b] = Start] /\ pending' = [pending EXCEPT ![b] = NoPending]
    /\ last_step' = [last_step EXCEPT ![b] = NoLast] /\ last_line' = [last_line EXCEPT ![b] = 0]
    /\ voided' = [voided EXCEPT ![b] = NoVoid]
    /\ chain_seq' = [chain_seq EXCEPT ![b] = 0] /\ whole' = [whole EXCEPT ![b] = TRUE]
    /\ disagreed' = [disagreed EXCEPT ![b] = {}]
    /\ UNCHANGED <<record, pushVars, left>>

\* rebuildPair: a fresh board, and the record from its start in a pull of its
\* own; the pull that found the mismatch returns before it says its disputes.
Rebuild(b) ==
    /\ pulling[b] /\ at[b] = page_end[b] /\ Mismatch(b)
    /\ since' = [since EXCEPT ![b] = 0] /\ at' = [at EXCEPT ![b] = 0]
    /\ page_end' = [page_end EXCEPT ![b] = 0]
    /\ pulling' = [pulling EXCEPT ![b] = FALSE]
    /\ rebuilding' = [rebuilding EXCEPT ![b] = TRUE]
    /\ disputed' = [disputed EXCEPT ![b] = <<>>]
    /\ unsaid' = unsaid \cup ToSet(disputed[b])
    /\ state' = [state EXCEPT ![b] = Start] /\ pending' = [pending EXCEPT ![b] = NoPending]
    /\ last_step' = [last_step EXCEPT ![b] = NoLast] /\ last_line' = [last_line EXCEPT ![b] = 0]
    /\ voided' = [voided EXCEPT ![b] = NoVoid]
    /\ chain_seq' = [chain_seq EXCEPT ![b] = 0] /\ whole' = [whole EXCEPT ![b] = TRUE]
    /\ disagreed' = [disagreed EXCEPT ![b] = {}]
    /\ UNCHANGED <<record, pushVars, left>>

\* A dispute is said once, whatever the name server answers.
SayVoid(b) ==
    /\ voids[b] # <<>>
    /\ Pushed(b, Void(Head(voids[b])))
    /\ voids' = [voids EXCEPT ![b] = Tail(@)]
    /\ UNCHANGED <<boardVars, pullVars, unsent, refused, unsaid, left>>

SayVoidFails(b) ==
    /\ left.failures > 0 /\ b \in left.flaky
    /\ voids[b] # <<>> /\ ~pulling[b]
    /\ voids' = [voids EXCEPT ![b] = Tail(@)]
    /\ unsaid' = unsaid \cup {Head(voids[b])}
    /\ left' = [left EXCEPT !.failures = @ - 1]
    /\ UNCHANGED <<record, boardVars, pullVars, unsent, refused>>

-----------------------------------------------------------------------------
Replay(b) == \E k \in DOMAIN record :
                \/ ReplayTalk(b, k) \/ Confirm(b, k) \/ ReplayVoid(b, k) \/ Take(b, k)
                \/ Disagree(b, k) \/ VoidAgain(b, k) \/ VoidDesync(b, k) \/ VoidUndo(b, k)

Pull(b) == PullStart(b) \/ Replay(b) \/ NextPage(b) \/ Rebuild(b)

Speak(b) == SayVoid(b) \/ \E i \in DOMAIN unsent[b] : Push(b, i)

Next == \E b \in Pages :
           \/ \E s \in Steps : Propose(b, s)
           \/ \E i \in DOMAIN unsent[b] : PushFails(b, i)
           \/ Speak(b) \/ Withdraw(b) \/ Say(b) \/ SayVoidFails(b)
           \/ Pull(b) \/ Miss(b)

Spec == Init /\ [][Next]_vars

(***************************************************************************)
(* A page's event loop goes on: the timer pulls as long as the player is   *)
(* not reading back through the game, and what the page has begun to say   *)
(* or to take back it finishes.  Nobody has to act, and nothing has to     *)
(* fail.                                                                   *)
(***************************************************************************)
FairSpec == Spec /\ \A b \in Pages : WF_vars(Pull(b) \/ Speak(b) \/ Withdraw(b))

-----------------------------------------------------------------------------
(* Properties                                                              *)

\* What the record has made of a board, its own drawn step left aside.
Agreed(b) == IF pending[b].on /\ ~pending[b].undone THEN pending[b].from ELSE state[b]

\* A void about line k is in the record.
InRecord(k) == \E i \in DOMAIN record : record[i].msg.kind = "void" /\ record[i].msg.about = k

\* A line one of the two disagreed with, and no void about it replayed yet.
Unanswered(a, b) ==
    \E k \in disagreed[a] \cup disagreed[b] :
        \A i \in 1..at[a] : ~(record[i].msg.kind = "void" /\ record[i].msg.about = k)

\* "The two boards agree on each step": two boards that have replayed the
\* same lines are in the same state, whatever each has drawn for itself,
\* unless a disagreement has still to be answered.
Agreement ==
    \A a, b \in Pages : at[a] = at[b] /\ whole[a] /\ whole[b]
                           => Agreed(a) = Agreed(b) \/ Unanswered(a, b)

\* A proposal, its withdrawal, a failed push or talk never changes what the
\* record has made of a board: only a line replayed, or a rebuild, does.
OnlyTheRecordDecides ==
    [][\A b \in Pages : Agreed(b)' # Agreed(b) => at'[b] # at[b]]_vars

\* The boards end in the same state: every disagreement is said and taken
\* back, or the game drawn, on both.  Not if a dispute was dropped, or if a
\* board has missed a line and no later one made it notice.
BoardsMeet ==
    <>[](\/ \E k \in unsaid : ~InRecord(k)
         \/ \E b \in Pages : ~whole[b]
         \/ \A a, b \in Pages : Agreed(a) = Agreed(b))

\* "A rebuild replays lines whose disputes are already in the record."
Said(k) == \/ InRecord(k)
           \/ \E b \in Pages : k \in ToSet(voids[b]) \cup ToSet(disputed[b])
RebuildDisputesSaid ==
    \A b \in Pages : rebuilding[b] => \A k \in disagreed[b] : Said(k)
=============================================================================

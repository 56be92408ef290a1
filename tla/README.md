# Verification of the ETCS modules

TLA+ models of the concurrent, distributed and stateful parts of this repository,
the TLC runs that check them on small instances, and proofs for every value of the
constants. `PROJECT.json` is the index: components, runs, mutants, the lines of
source each definition translates, hazards and theorems.

Paths below are relative to `src/`. `NP/` stands for
`NetworkProvider/NetworkProvider/`, `CP/` for `ChessProvider/ChessProvider/`, `FW/`
for `ForumWebsiteProvider/ForumWebsiteProvider/`; `PaintProvider.h` is
`PaintProvider/PaintProvider.h`.

## 1. The system

The repository is a set of modules for ETCS, an entity runtime. The runtime (its
`ThreadPool` over io_uring, arenas, `ScopeTag`, `SignalContext`) and the chess
rules engine live elsewhere: what the modules rely on is modelled as
environment.

| Component | State it keeps | Operations | Interacts with |
|---|---|---|---|
| **Connection slot** `NP/SocketConnectionState.h` | `phase_`, `io_inflight_`, `client_fd_`, `last_activity_`, parser, `served_` | `TryClaim`, `NoteSubmit`, `NoteComplete`, `Reset`, `finalizeIfDraining`, `CloseConnection`, `checkTimeout`, `CanKeepAlive` | the pool, the chain, the shell |
| **References** `NP/ConnRef.h` | one armed flag per handle | `Wrap`, `Acquire`, `disarm`, destructor | every user of a slot |
| **Receive loop** `NP/ConnectionRecvLoop.h` | none: frames and captures | `ReadUntilParsed` and its completion | slot, ring |
| **Serve chain** `NetworkProvider.h` | response buffers | `on_request`, `do_send`, keep-alive, the shell's `Reset` and `Close` | receive loop, slot |
| **Connection manager** `NP/ConnectionManager.h` | `listen_fd_`, `stopping_`, `inflight_`, the pool with `in_use_` and `pool_mutex_`, consumers, maintenance thread | `Open`, `Close`, `submitAccept`, `onConnection`, `acquireConnection`, `growPool`, `rebalanceLocked`, `dispatchToSubscribers`, `reapIdle`, `topUpAccepts` | ring, slots, consumers |
| **TLS** `NP/TLSConnectionIO.h`, `TLSServerContext.h`, `TLSServerConfig.h` | session, pending ciphertext, `tls_handshakes_` | handshake, recv, send | manager, chain |
| **HTTP server** `NP/HttpServer.h`, `RouteRequest.h` | handlers, routes, the manager it opened | `Start`, `Stop`, `AddHandler`, `ClearHandlers`, `AddRoute` | manager |
| **Tarpit** `NP/Tarpit*.h` | delay queue of parked references | `Serve`, scheduler thread, filter | manager, slot |
| **Chess board** `CP/ChessGame.h` | position, seats, draw offer, outcome, who was heard, agreement (`pending_`, `last_step_`, `voided_`, `chain_`) | `join`, `sit`, `move`, `resign`, `draw`, `leave`, `reset`, `load`, reaper | node |
| **Chess lobby and node** `CP/ChessLobby.h`, `ChessNode.h` | selves with their tokens, hosting, waiting, edges and records; pairings and their relays | `lobby`, `host`, `match`, `visit`, `unpair`, `push`, `relay`, reaping | boards, pages |
| **Chess pairs** `CP/ChessNode.h`, `ChessProvider/scripts/www/index.html` | two boards, a record; the page's relay state | `propose`, `withdraw`, `replay`; `act`, `relayPull`, `rebuildPair` | two boards and a name server |
| **Forum** `FW/` | threads, posts, tombstones, the key counter | `new`, `post`, `tomb`, `title`, `lock`, `reset`, load | database |
| **Database** `DatabaseProvider/` | connection, transaction, current statement | execute, row streams | forum |
| **Page history** `PaintProvider.h` (`PaintNotebook`, `PaintDocument`) | a branching log of entries, a cursor, keyframes, layers, text boxes, a carried selection | strokes, fills, carry and paste, layers, text, undo, redo, resize, new | input thread |
| **Shared page** the same, in a room | what is sent, confirmed, rewound, restated | `ExportOps`, `ImportOps`, `AcceptOp`, `confirm_own`, `rewind`, `RevertPending`, `retract`, `Restate` | the page's timers, the node's record |
| **Canvas node** `PaintProvider.h` (`PaintNode`), `PaintProvider/scripts/www/index.html` | sessions, roster, claims, record | `open`, `join`, `rename`, `claim`, `push`, `part`, `role`, `out`, `close`, reaping | pages |
| Shell, windows, rendering, layout, painting tools | terminal lines, GPU and image data | | one thread each, external libraries |

How they meet:

- The manager's accept completion claims a slot, counts the *dispatch* reference
  by construction (a free slot's `io_inflight_` is 1), pre-parses the request when
  a consumer has a filter, and calls the first consumer that takes it.
- The consumer's `Serve` acquires its own reference and starts a chain of
  completions: recv, parse, respond, send, recv again. Each hop disarms the handle
  of the frame it leaves and wraps the same reference in the next.
- Whoever wants to end a connection stores `Draining`, submits a Cancel, and lets
  the thread that drops the last reference close the descriptor and publish `Free`.
- The maintenance thread and the shell reach into slots without any reference.
- A pair of chess players has one board each, in two runtimes, and a record of
  lines at a third, the name server. A page draws its own step at once, pushes it,
  and learns its place when it pulls the record; both boards judge every line.
- The members of a shared canvas have a page each, and the node a record. A mark is
  drawn at once, pushed by a timer, and put behind the others' marks when the record
  says so; the members compare pictures, and the owner states the page again for
  one that differs.
- The forum answers from memory on one thread and writes each change to the
  database, statement by statement, before it answers; a restart replays three
  tables row by row.

What is hard here: lock-free teardown and reuse of slots; Cancel by descriptor
number, which the kernel resolves late; accepts in flight while the gate closes; a
window that only a timer restores; optimistic steps and marks that must be undone in
the record's order; a push whose answer is lost; a line missed and a board rebuilt;
an undo in a log that branches, or that two people write; seats, pairings and
identities that outlive the page that made them; a crash between two statements.
`hazards` in `PROJECT.json` lists each at its line.

What makes each component correct:

- *Slot and references:* the count is the number of references; a slot is free only
  when nothing names it; one thread finalizes; one driver; each descriptor is closed
  once and none is lost; every drain ends.
- *Manager:* `inflight_` is exact; the listening descriptor outlives what names it;
  the window recovers; `in_use_` is exact.
- *Chess board and node:* one token has one seat; no edge outlives its board; one
  table for each self; a result counts once; what a vanished page held comes free.
- *Chess pair:* boards that replayed the same lines agree; only the record moves a
  board for good; boards meet again after every failure.
- *Page history:* the page is what its path drew; redo undoes undo.
- *Shared page:* the page is what the record is; an undo takes back one's own; pages
  meet again.
- *Canvas node:* one owner, one member per token, text from the hand that holds the
  box, lines from who may write, pushes whole.
- *Forum, database:* what was answered is on disk; any order of rows verifies; a new
  thread is empty.

## 2. Plan

Done, in this order: `SocketConnection` against `PooledSlot`, `AcceptGate`,
`ChessPair`; then `PaintNotebook`, `PaintDocument`, `PaintHistory`; `PaintShared`,
`PaintRoom`; `PaintNode`; `ChessTable`, `ChessLobby`, `ChessNode`; `ForumStore`,
`Forum`; `TLSConnection`; and the proofs of section 5, which state every safety
property of the runs but the two of `PaintRoom`.

Left, in order of importance:

1. `PictureIsTheRecords` of `PaintRoom` as a theorem. `PaintHistoryProofs` has what it
   needs about paths, keyframes and replays with nothing taken back; a shared page reads
   paths with retractions, and its invariant has to relate the book of every member to
   the record.
2. `ConnectionPool`: `growPool` and `rebalanceLocked` against `reapIdle`'s snapshot,
   and consumers with filters and unregistration; composes several slots.
3. `Tarpit` (bounded delay queue, stop while jobs are parked) and `HttpServer`
   (start, stop, handlers).
4. The abstract page of a room (an ordered set of marks and retractions) and
   `PaintRoom` shown to implement it; today `PictureIsTheRecords` says so state by
   state.

Painting is one header of twenty thousand lines. Two thirds of it are brushes,
rasters, panels and files on one thread; the plan takes from it what is stateful
across operations or members.

## 3. Modules

### SocketConnection

One slot's life at the granularity of single atomic instructions. A thread has a
program counter, the slot it works on (`slot`), the references its frames have
armed (`held`: `dispatch`, `chain`, `work`), where in the chain it is (`stage`) and
a descriptor in hand. `phase`, `io_inflight`, `client_fd` and `in_use` are the four
atomics, `pool_mutex` the lock around a claim. `ops` is the set of operations
pending in the ring, `cancels` the Cancels not yet processed, `file` the kernel's
descriptor table. Actions carry the names of the functions: `Claim`, `Serve`,
`CheckOpen`, `SubmitOp`, `Release` (`NoteComplete`), `ResetCas`, `FinalizeLoad`,
`FinalizeCas`, `FinalizeSeed`, `FinalizeFree` and so on.

An operation keeps the file it was submitted on; a Cancel resolves its number when
processed; an accept may return any closed number. That is what lets the model show
where a number has changed hands. Time is one bit, `expired`. Bytes are the parser's
verdict: error, incomplete, complete. The response is what is left to send.

`PooledSlot` is the promise a slot keeps: *free, serving, draining* and a number of
references. `Promise` maps `Clearing` to draining, and armed handles plus pending
operations to references.

### AcceptGate

`Open`, `submitAccept` and its callback, the maintenance thread's second job and
`Close`, one atomic access per step: check, count, load the descriptor, submit; count
done, test the scope, test the result, test `stopping_`, top up, `onConnection`;
check, stop, exchange, join, take, retire, cancel, drain, close, reset the scope.
The two plain accesses `closing_fd = listen_fd_; listen_fd_ = -1` are two steps.
Accepts in the ring are counted per listener; what happens to an accepted client is
`SocketConnection`'s. A gate without TLS only: `tls_handshakes_` is zero here, and
`TLSConnection`'s. The loop's
exits for a drained pool and a lost worker, and the skip during arena teardown, are
left out: nothing in the repository decides when they happen.

### TLSConnection

One TLS client of a gate, from its accept to the end of its session. `run` is the
function of `TLSConnectionIO.h` that is about to run and what it was told; a stack of
calls runs until it submits an operation or returns. `handles` counts the `ConnRef`s of
that stack, `spare` those of stacks that are returning while a completion already runs
elsewhere, `op` is the one operation in the ring. `tls`, `in` and `out` are
`TLSServerContext`: the phase, `CipherIn` and `CipherOut`. `gate` is where `Close` is. A
step touches what other threads see once, so a guard and the call it guards are two
steps. mbedtls and the peer follow one `session` of turns, in units of ciphertext.

Three things the model shows that no run is about. A handshake is counted done before
its connection is dispatched, so the drain of `Close` can end with a session just handed
to a consumer. `Close` decides from a snapshot and may reset a connection that has been
established since. A reset between the open check and the submission of a recv cancels
nothing, and `Close` then waits for a silent peer: hence `CloseEnds` is about a `Close`
that found an operation pending (`retired`).

Left out: the pre-parse for filters, `WANT_READ` from `WritePlain` (renegotiation is
off), certificates and their reload. Slots and descriptors are `SocketConnection`'s.

### ChessPair

The record at the name server, two boards and two pages. `Propose`, `Withdraw` and
the `Replay` actions (`ReplayTalk`, `Confirm`, `ReplayVoid`, `Take`, `Disagree`,
`VoidAgain`, `VoidDesync`, `VoidUndo`) are `ChessNode`'s, `PullStart`, `NextPage`,
`Rebuild`, `SayVoid` and `Push` the page's. A call to the board or to the name
server is one step: the runtime answers each under its lock. `Pushed` and the pull
exclude each other on one page (`withRelay`).

A state is what `stateHashLocked` covers, and equal hashes stand for equal states.
`Outcomes` gives the *set* of states a step may land on: the board also knows
presence and history, which the hash leaves out, and the two runtimes may run
different builds, so two boards can land differently from one state. Hash chains
become `whole`: the board's chain is the record's. Lines are numbered from 1. A call
that gets no answer comes in two kinds, the line taken or not. The record is
shorter than `kRelayLines` and a board is rebuilt fewer times than the page's limit
of five.

### ChessTable, ChessLobby, ChessNode

`ChessTable` is a board's verbs as operators on one record: seats, whose turn it is,
the outcome, the offer, whether the result was reported, who was heard from.
`ChessLobby` is a node's selves, as operators on the function from names to selves:
tokens, ages, hosting, quick match (`pairLocked`), `startPairLocked`, `endStaleLocked`,
`reapLocked`. `ChessNode` puts them under requests: each runs whole on the node's
ordering thread, so it is one step, and `reapLocked` opens it; the shell's verbs
reach a board without the node.

The shell's `Delete` destroys a board, or a self, that `games_`, `lobbies_` or an edge
still names (`destroyed`). What a request finds behind such a pointer is not defined, so
after a `Delete` no request runs in the model and only time goes on; that the pointers are
left behind is `WalksAreSafe`, violated by hand (section 4). `EdgesHold` is about the boards
the node closes itself. `ChessNode.Delete` destroys the whole node and is left out.

The rules of chess are an engine elsewhere: a legal move leads to any of *play, mate,
stalemate*. Quick match may find any waiter (the code takes the first in an order
that says nothing). Time is age classes: a beat new or old (30 s), a self here, quiet
(30 s) or expired (10 min). The chat and history rings, promotion, the match key and
rooms of other games are left out.

### ForumStore, Forum

`ForumStore` is one connection: what is on disk, what the connection sees, whether a
transaction is open. `Forum` is the node over it: a request changes memory and queues
its statements, `Execute` runs them one at a time or the database refuses one (which
the code ignores), `Answer` ends the request; `Crash` at any point, `Restart`, and
`LoadHeader`, `LoadPost`, `LoadBody` a row at a time in any order. Hashes do not
collide: `chash` is the text, `ihash` the whole of what it commits to. A text is one
or two chunks of `kDbChunk`. `said`, `removed`, `hurt` and `wiped` are history:
what was answered, and the threads a refused statement or a `reset` touched.

Left out: sessions and readers, windows and paging, percent-encoding, requests
while a load goes on, a handle other consumers share, running with no database.

### PaintNotebook, PaintDocument, PaintHistory

`PaintNotebook` is the log: entries with a parent, paths, ordinals, what retractions
take back, what a path draws. `PaintDocument` is the page as a record and every
operation as a function from page to page (`m_doc_mu` makes each one step), nested
calls included: a layer change drops a carry, which keyframes, records a patch and
seals. Loops over layers, boxes and branches are recursive functions that walk as the
code does, so that proofs can take them a step at a time. A raster is the sequence of marks drawn on it, so a replay that draws in
another order, or from another ground, shows; a carry leaves a hole, a mark of its
own. `PaintHistory` has an action per gesture, with the call chain of `PaintInput`.

A text box is a number: what it says, where and how, negative while it has no words.
`TypeText` writes a box that is open, as part of its edit, or one that is not, which
records it at once; `AddBoxUnopened` is the verb that adds a box without opening it.
`RestyleBox` is what changes a box and records nothing: the type bar and its verbs, and a
drag or a resize, which goes on until the button comes up, whatever has closed the box.
`loose` is history: the boxes changed with no entry since the last replay, by such a
change while they were not open or by a removal that took a recorded box for a fresh one.
A replay sets every box from the path, so it empties `loose`; an entry about a box takes
it out. `TextFollowsPath` and `UndoIsReversible` are about the other boxes;
`TextAlwaysFollowsPath` and `RemovalIsAStep` say what the comments promise of all of them
and are violated by hand (section 4).

`PictureFollowsPath` is about pages where every mark has a keyframe above it
(`Grounded`) and no replay ran under a carry (`torn`); see the by-hand runs.

### PaintShared, PaintRoom

`PaintShared` is the page in a session: export, import, accept, rewind, confirm,
revert, retract, restate. `PaintRoom` has an owner and guests, the page's push and
read timers, the comparison of pictures, the owner's restatement and role changes,
over the node's record. A read is one step: what a page does between asking and importing
leaves the record alone. It may put its own head back to nothing (`index.html:1327`), which
the answer to a read in flight then overwrites (1132); that is left out. A push is two, since what is drawn in between comes off with a
push that is not taken. Three mismatched ticks are one comparison; the limit of one
restatement per twenty seconds is its guard (`CanRestate`); the chain hash is left
out (it repeats what the comparison finds); what a page holds while syncing is not
modelled. A shared page reads only its own path, so its book is pruned to it. A carry
or a paste, leaving and renaming are not in the room. Nor are the verbs and drags that
change a box nobody has open (`PaintHistory` has them), the failure of the very first
push, the baseline, and a text line the node refuses because somebody else holds its box
(`PaintProvider.h:17480-17484`; claims are in `PaintNode`).

### PaintNode

One session at the node and each page's knowledge of it: roster, host, claims, record,
tokens; the page's name and token, and a rename whose answer is not in yet. A request
is one step (`m_mu`), its answer may be lost. A request that failed at the page does
not run after a later one of the same page. `hand` is history: whose claim a box was
given to, by token; `granted` the tokens the owner let write. A page's token is in its
tab's `sessionStorage` (`index.html:1389-1408`) and the model takes that to be its own: a tab
the browser duplicates starts with a copy, and the page half of `TokensApart` is not about
that.

## 4. Runs

Bounds are in the `.cfg` files and the MC modules. `CHECK_DEADLOCK FALSE` everywhere:
a server with no clients, and people who have nothing to do, may stop.

| Run | Shows | Bounds, and why they are enough |
|---|---|---|
| `connection_chain` | `RefsCounted`, `NoStaleCompletion`, `OneDriver`, `DescriptorsAccounted`, `OpsNameOwnSocket`, and that the slot implements `PooledSlot`, its convergence included | Two clients, one slot, two workers, two descriptors: the second client meets the slot while the first is torn down, or is refused. One keep-alive round and refused submissions. No outside reset. |
| `connection_reset` | `FinalizeExclusive`, `InUseExact`, `CloseOnce` | Two outside threads with all three verbs, two tenures, a killed context. |
| `gate_window` | `ListenerOutlivesAccepts`, `WindowRecovers` | Window of two (so top-up differs from re-arm), two openings (so an old number meets a new gate), an accept refused and clients that come or fail. |
| `gate_kill` | `AcceptsCounted`, never negative | Two workers and the shell close at once after a kill; Cancel and submissions refused; one retry. |
| `tls` | `RefsExact`, `Delivered`, `NothingHeldBack`, `CloseEnds` | Two sessions: one where the server speaks last (TLS 1.2), one where the client does (TLS 1.3), with a request in two parts and its answer. Staging buffers of two units are smaller than a flight and than a piece of a response (three), so each is filled and flushed in parts; one note that a read leaves to be sent. |
| `pair_meet` | `Agreement`, `OnlyTheRecordDecides`, `BoardsMeet` | Two steps (a race, or one after the other) and one failed call; or a step with talk around it and two failures of either page, so that a rebuild meets another. |
| `history` | `PictureFollowsPath`, `TextFollowsPath`, `UndoIsReversible` | Seven kinds of history over one and two layers of three, with a keyframe every second mark: three marks branch twice; a stack change under marks, two of them, and one beside a box and a new page; four changes of two boxes, and three and a new page, or two and a mark too. Undo and redo are not bounded. |
| `room` | `PictureIsTheRecords`, `UndoIsOnesOwn`, `Converges` | An owner and a guest. Eight kinds of session: each pair of marks with undos, a stack change, a text box, a new page, a lost push, a role change. |
| `paint_node` | `OneOwner`, `TokensApart`, `PushesLandWhole`, `TextFollowsTheHand`, `OnlyTheGrantedWrite` | A host and a guest, three names (one to change to), a membership more than pages so that the guest comes back as somebody else; one line, two pushes in parts. |
| `chess_node` | `SeatsApart`, `EdgesHold`, `OneTable`, `ResultsCountOnce`, `PairEndsByItsOwn` | A board with two players and the shell; with one player and the shell's `Delete`; a name server with three selves, so that a third can want a table two have; with its relay, two. |
| `chess_gone` | `SeatsComeFree`, `PairsComeFree` | Two selves, one goes without a word, at a board or at the name server. |
| `forum` | `WhatWasSaidStands`, `Verifies`, `NewIsEmpty` | Two identities, two threads of three keys, four requests, two crashes and one refused statement, texts of one and two rows. |

`MCSocketConnection_tenure.cfg` is not a run: it passes, and shows `OpsNameOwnSocket` for
one tenure with two outside threads that reset it at any point, where the theorem and
`connection_chain` have none.

Type invariants are theorems (section 5), not properties of a run. Each property has a mutant, a plausible slip in one of the mapped definitions (a
swapped order, a dropped wait, a test by name instead of token, a tombstone without
its delete), under which TLC finds it violated.

`BoardsMeet` excepts what the code cannot repair: a dispute whose only push was lost
or that a rebuild dropped, and a board that missed a line and replayed none after it
(the seqs then differ and the chains are not compared). `PictureIsTheRecords` excepts
a member the record left behind (`adrift`, defined where it is set) and a page whose
history has no ground for a mark. The forum's properties except the threads a refused
statement or a `reset` touched.

### By hand

These configurations end in a violation and are not among the runs; each is of
something a comment or document of the code says (`tlc -config <cfg> <module>`):

- `MCSocketConnection_stale` (`NoStaleCompletion`): "no stale completion can exist at
  reacquire time" (`NP/SocketConnectionState.h:84-86`). A thread without a reference,
  delayed between the load (415) and the CAS (420) of `finalizeIfDraining`, wins the
  CAS of the *next* tenure.
- `MCSocketConnection_cancel` (`CancelHitsOwnClient`): "so the number is only released
  once nothing names it" (322-328). The Cancel itself names it and is not counted.
- `MCSocketConnection_stranded` (`DrainConverges`): "every path that could otherwise
  strand one already submits a Cancel" (`NP/ConnectionManager.h:283-287`). A reset
  between the open check and the submission of a recv cancels nothing.
- `MCAcceptGate_quiet` (`ClosedMeansQuiet`): "do not report closed while a completion
  could still fire" (`NP/ConnectionManager.h:261-262`). The callback counts itself done
  (1146) and works afterwards.
- `MCChessPair_rebuild` (`RebuildDisputesSaid`): "a rebuild replays lines whose disputes
  are already in the record" (`ChessProvider/scripts/www/index.html:1257`). A missed
  line is judged for the first time by the rebuild.
- `MCChessNode_outcome` (`OutcomeStands`): "Both refuse a finished game rather than overwriting" (`CP/ChessGame.h:734`); they
  consult `over_` only (740), so that after a checkmate both replace
  the outcome.
- `MCChessNode_delete` (`WalksAreSafe`): the walks over `games_` and the edges are "safe ONLY
  because it is the same thread" (`CP/ChessNode.h:47-51`). The exported verb `Delete` of a
  board (`CP/ChessGame.h:258-266`) destroys it on the caller's thread and leaves
  both pointing to it: a player visits a board, the shell deletes it.
- `MCForum_op` (`OpIsFirstPoster`): "claimed by first poster" (`FW/ForumThread.h:542`) is
  not written to the database.
- `MCPaintHistory_paste` (`PictureAlwaysFollowsPath`): an undo pressed while pixels float
  drops them first and then replays to a cursor read before the drop; and a branch may
  start where no keyframe stands above it (`PaintProvider.h:7987-7999`).
- `MCPaintHistory_style` (`TextAlwaysFollowsPath`): letting go of a box "ENDS THE EDIT, and
  that is the moment it is recorded: one Text entry with the box as it now stands"
  (`PaintProvider.h:4961-4964`). A box that is not open is changed all the same, by
  `SetTextFont`, `SetTextSize` and `SetTextColor` (4918-4941) and by a drag or a resize that
  goes on after ctrl+z has closed the box (15458-15483), and nothing records it.
- `MCPaintHistory_remove` (`RemovalIsAStep`): "GONE, AS ONE STEP OF UNDO. A box that was
  never recorded [...] just goes" (4874-4875). `SetTextBoxText` on a box that was added and
  not opened records it (4868) and leaves `m_text_fresh`, so `RemoveTextBox` (4887) records
  no removal of a box that is in the record.
- `MCPaintRoom_ground` (`PictureIsAlwaysTheRecords`): "every member applies the same
  entries in the same order" (`PaintProvider.h:6224-6231`). A rewind behind the first
  mark of a layer finds no keyframe to restore, so the page keeps its own mark under the
  room's; the comparison of pictures repairs it.

Two properties of `PaintNode` are stated and not run: `TheEndedAreOut` (a page whose poll
races its own rename is told that the session ended) and `NamesAreOnePersons` (a name
given back is taken by another, and the first one's lines answer to the other's undo).

### Fairness

- `SocketConnection`, `AcceptGate`: a thread inside a function keeps running (OS
  scheduling), the kernel processes Cancels and delivers failed operations. The
  peer owes nothing: a live operation, or a pending accept, may wait for ever.
- `TLSConnection`: workers run what is ready, the kernel processes a Cancel, completes
  what was cancelled and takes or refuses a send, and a `Close` once begun goes on. The
  peer may be silent for ever.
- `ChessPair`: a page's event loop goes on: its timer (`index.html:1395`) pulls as
  long as the player is not reading back through the game, and what it has begun to
  push or to withdraw it finishes. Nobody has to move and nothing has to fail. One
  weak fairness per page is enough here because the bounds make its work finite.
- `PaintRoom`: the push, read and compare timers run and requests are answered; nobody
  has to draw. The owner's restatement is strongly fair: the owner looks at every tick,
  and a member out of step takes three of them to give up what it has read, so the
  moment is met again and again. Each conjunct is written out for `ENABLED`.
- `ChessNode`: time passes for a page that is gone, and a page that is not gone polls
  its board and the list of lobbies. A board nobody polls keeps its seats: the reaper
  runs in requests.

## 5. Proofs

All for arbitrary constants satisfying the modules' named assumptions. A theorem that
assumes more says so in its statement.

`SocketConnectionProofs`: `TypeCorrect`, `TeardownExclusive`, `PoolCountExact`,
`ClosedOnce`, whoever resets. `BaseInv` adds to the types that a thread at work has a
slot and an accept completion a descriptor. For the second and third, `QuietOrLoud`
shows that every step either leaves phases and the positions that matter alone or is one
of five transitions; each is then treated once. `FinalizeExclusive` is inductive over
`BaseInv`: the CAS needs `Draining`, and only the thread inside `Clearing` leaves it.
`InUseExact` counts with it. `ClosedOnce` needs `FdsApart`: a descriptor in a thread's
hand is open, and in no other hand or slot.

Assuming `Resetters = {}`, the second half of the module proves `ReferencesExact`, `ReuseIsClean`,
`DrivenByOne`, `OwnSocket`, `NoDescriptorLost` and `KeepsPromise`. The assumption is needed: `MCSocketConnection_stale` violates the second
with one resetter. The inductive invariant `RefInv` says which references each
instruction's frame holds (`HeldInv`), that the thread whose `NoteComplete` reached
zero is alone and finds the count still zero (`LastInv`), that a free slot counts one
(`FreeInv`), that a slot has one driver or one pending operation (`DriverInv`), and
the two properties. Without `LastInv` nothing keeps a second thread from counting a
reference while the first is on its way to the CAS; without `DriverInv` the count of
pending operations is not determined. `OwnInv` adds that until the finalize has taken the
descriptor out of the slot, the slot, its thread and its operation name one file; the
next two theorems follow. `KeepsPromise` is the refinement, one step at a time: each
instruction maps to an action of `PooledSlot` or to a stutter, by what it does to the
references it counts (`CountedRefs`). The convergence the promise adds is TLC's.

`AcceptGateProofs`: `CountExact` and `GateTypeCorrect` for any workers, shells,
window, kills and refusals, from `CountInv` (types, finitely many accepts in the
ring, the count). `inflight >= 0` is then not a matter of types: it follows from the
count. `ListenerSafe` assumes one thread that opens and closes, no kill and no
refused Cancel; `ListenInv(s)` says what that thread has established at each step of
`Close` (after the drain no accept and no submission names its descriptor). With a
kill, a callback closes the gate too, and with a refused Cancel `Close` does not
wait: the theorem does not extend to either.

`TLSConnectionProofs`: `ReferencesTrue`, `FailuresDelivered`, `PeerHasAll`,
`TLSTypeCorrect`, for any sessions and buffer sizes and any schedule of refusals, kills, resets and a `Close`. The actions are many and
what they do to the control is little: `ControlEffect` shows that every step is of one of
a few kinds (`Effect`), and `EffectKeeps` treats those. `ControlInv` adds that a running
stack holds a reference and excludes an operation in the ring. `PeerHasAll` states
`NothingHeldBack`. Its invariant, `DataInv`, says of the function about to run, and of what
the operation in the ring goes on to, where in the session they find mbedtls (`Expects`,
`GoalFits`), and relates what mbedtls produced to what is staged, on the wire and heard:
the peer is where mbedtls is, or behind it by what `CipherOut` holds (`Staged`), or ahead
by what it said that mbedtls has not taken yet (`Abreast`, which sums turns by a function
it only says exists, so that no step needs an induction). A session is a handshake and
then requests with their responses (`TLSAssumption`): this code writes only to answer a
request, from `on_request`.

`ChessPairProofs`: `PairTypeCorrect`, `RecordDecides`, `BoardsAgree`, for any states,
outcomes, records and failures. `Agreement` relates boards that may have been at a line at
different times, so that no invariant over two states gives it. `PathInv` does: a board
that missed nothing is where the lines it replayed lead, given those it disagreed to.
`NearStep` and `Meet` then follow two such paths along the record: after every line the
two are in one state, or one step apart over that line, or an earlier line is still open
that one of them disagreed to.

`PaintNodeProofs`: `NodeTypeCorrect`, `OwnerStays`, `TokensNameOne`, `PartsLandWhole`,
`GrantedWrite`, `HandWritesText`, for any pages, names, boxes and bounds. `NodeInv` adds
to the properties that a token is minted before it is held and held by one member and
one page (`Minted`, `RosterApart`, `PagesApart`), that whoever may write was granted it
(`Writers`), that a claim's hand is its holder's token (`Hands`), and that a first part
without its last is alone in its member's buffer (`Sends`). Without `RosterApart` a
member put out could leave its token in the roster, and the next reload would come back
as it.

`ChessNodeProofs`: `ChessTypeCorrect`, `SeatsStayApart`, `EdgesStayHeld`, `OneTableEach`,
`CountOnce`, `EndsByItsOwn`. `EdgesStayHeld` excepts the boards the shell's `Delete` destroyed, and no others. That no self is in two pairings is not inductive: `startPairLocked` finds the pairing to
end through the guest's own `guest_of_`, which a wiped session loses. `Guests` (a partner
that hosts still names its table) and `Met` (how `endStaleLocked` leaves the pairings)
carry it: whoever lost its `guest_of_` is put out before anybody is set hosting.

`ForumProofs`: `AnsweredIsKept`, `ServesWhatVerifies`, `NumbersAreFresh`, for any clients,
texts, threads and chunks, and any order of requests, statements, refusals, crashes and
rows. The rows of a thread on disk are sound at every moment (`DiskInv`); while a post is
written, what the connection sees differs from the disk in that thread alone, by what its
statements have done so far (`StoreInv`, `Progress`); memory is the rows in the order of
their numbers (`MemInv`); every row has a thread that a load has room for (`KeyInv`).
`ListedChained` and `ChainedListed` turn a chain along a sequence into a fact about a set
of rows and back. A refused COMMIT leaves the connection in its transaction and spoils
every thread, so the invariant is `Good` or nothing (`ForumInv`).

`PaintHistoryProofs`: `HistoryTypeCorrect`, `HistoryTextFollowsPath`,
`HistoryPictureFollowsPath`, `HistoryUndoIsReversible`, for any layers, boxes, snapshot
interval, first pages and bounds, from `HistoryInvariant`. That the page is what its path drew is not inductive: an
undo or a redo goes to another place of the tree, and replays that path from its newest
keyframe. `HistoryInv` therefore says of every entry, wherever it is, that it told the
truth when it was made (`Truthful`): a snapshot is the raster its path had drawn, a
statement of the stack is the stack it found, and a change of the stack has the old
stack, and a keyframe of each layer it drops, stated above it (what `recordStructure` is
for). The rest is the present: the page's stack and layers against the path, with the
open stroke or the carry on top (`Pictured`), and the boxes against the last word about
each, but for the one being edited, those without words and the `loose` ones (`Worded`;
`WordsOf` says it with any set of exceptions, so that an operation can be followed by
itself and the set afterwards). `Pictured` holds
as long as the book is grounded and no replay tore a carry, `Sane` and `Worded` always.
The proof goes bottom up: what one more entry does to each reading of a path (`LaidStep`,
`RosterStep`, `TextStep`, `ReplayedStep`); that under `Truthful` a replay is the ink of
the path (`ReplayIsInk`); one lemma per operation of `PaintDocument` (`...Good`); for undo
and redo, that entries which are no marks change nothing a replay shows (`Level`), so that
stopping above or below them is the same page.

`UndoIsReversible` needs `Sane` to carry `Returns` too. Which branch a redo key takes
depends on what has been drawn elsewhere since. A mark is made as the newest branch of
its place, and the two redos (`PaintProvider.h:5957`, `5967`) go down the newest or the second
newest branch that has a mark; so at every mark on the way to the cursor at most one
newer branch of its place can be redone (`Redoable`). That is not true of a redo
along any branch, and `RedoGood` is about the two keys. `Openings` says that the words which
open a history have no mark above them, so that a redo which stops at a mark has them
all; `Bare`, that the page keeps nothing of a layer off the stack, so that a layer the undo took
away comes back as it was. `UndoneRedone` puts it together: the undo steps over the
newest mark of the path, one of the keys finds it again, both pages hold the words of
their paths, and of the layers either replay leaves alone (they have no keyframe) neither
page ever differed. The property speaks, as in the runs, of notebooks whose marks have a
keyframe above them and of replays that tear no carry, and of the boxes that have not
changed with no entry.

Some proofs need an induction over naturals or over the notebook's tree. The library's
theorems take an operator as parameter, which no installed prover instantiates;
`NatMin`, from the well-foundedness of `<`, gives a least element of a *set*, and
`CountUp`, `CountDown` and `TreeInd` derive inductions over sets from it. The equations of
a recursive function come from there too (`LaidIs`, `ChainToIs`, `DownIs`).

Only model-checked: `PictureIsTheRecords` and `UndoIsOnesOwn` of `PaintRoom`, whose
invariant would relate every member's book and retractions to the node's record; and, as liveness and `ENABLED` are out
of the prover's reach, `WindowRecovers`, `CloseEnds`, `BoardsMeet`, `Converges`,
`SeatsComeFree`, `PairsComeFree` and the convergence of `PooledSlot`. The modules have no
RECURSIVE operator.

## 6. Not modelled

The pool's growth and shrinking, consumers, the HTTP server and the tarpit are planned
(section 2); of TLS, certificates and the filters' pre-parse are left out. Pages and the HTTP parser wrapper are I/O over one thread and a
vendored parser. Vendored code (`clay.h`, stb, SQLite, picohttpparser) is its authors'.
Rendering (`RenderProvider`, Vulkan, GL, scenes), windows, layout and the shell keep GPU
state, geometry or a line buffer on one thread, and of painting the brushes, rasters,
panels, shapes and files are image data: numeric or external state with little
protocol, out of what TLC can say anything about. They are most of the repository's
lines, so the map's share of all lines stays small however much of the rest is done.

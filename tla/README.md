# A TLA+ model of JHBR5

JHBR5 is a USI shogi engine in C++: a parallel Monte-Carlo tree search (MCTS) over an
NNUE value and policy network, a proof-number mate solver that runs beside it, a time
manager, an opening book, a self-play data generator and Python training tools. This
directory holds TLA+ modules translated from the source, TLC configurations that check
them on small instances, and TLAPS proofs of what matters most for every instance.

Run a model with `tlc -config UctSearch.cfg MCUctSearch.tla`, a proof with
`tlapm UctSearchProofs.tla`. `PROJECT.json` lists the runs, the mutants that show each
property can fail, the source lines behind each definition, the hazards and the theorems.

## 1. The system

| Component | State it keeps | Operations | Hard behaviour | What makes it correct |
|---|---|---|---|---|
| **MCTS search** `mcts/uct_search.*`, `search_primitives.*` | shared tree of `uct_node_t` / `child_node_t` (state, child array, visits, wins, proof flags), `playout_count_`, `stop_`, `adaptive_stop_`, `tree_full_` | `Run`: expand root, start workers, join, root guard, report; each worker: descend, evaluate or expand, select, virtual loss, backup | workers share the tree without a tree lock; only 65536 position mutexes and atomics; a node is published by an atomic state; backups may be refused | flags never lie; arrays published once and complete; visits, wins and virtual losses balance; the limits hold; every search ends |
| **Tree storage** `mcts/uct_node.*` | `NodeTree` (kept history, current head), slots filled by compare-and-swap, byte count, garbage-collector thread | `GetOrCreate`, `ResetToPosition`, `ReleaseChildrenExceptOne`, `DeallocateTree`, `DeleteLater` | racing creators; reuse of a pruned tree; deletion in the background and at exit | one node per slot, reuse only along the kept history, every node freed once, bytes return to zero |
| **`go` command** `usi/usi_engine.cc`, `usi/root_mate_state.h` | worker and watchdog threads, start condition variable, stop and done flags | launch, `Start`, `WaitForStart`, `Stop`, join, choose the answer | start/stop races, lost wake-ups, a stop erased by the start of the search, a late mate answer | one `bestmove` per `go`, always, in time; a mate answer is one its solver gave |
| **USI session and options** `usi/usi_engine.*` | network, persistent `Search`, option values, board and move list, `new_game_prepared_` | `isready`, `setoption`, `usinewgame`, `position`, `go`, `stop` | options changed while a `Search` exists; order of commands | the search in use was built from the options in force; games do not leak into each other |
| **Time manager** `usi/time_manager.*` | budget of a move; sticky state of the adaptive controller | `Compute`, `Reset`, `Update` | deadlines from several limits; extension and stop decisions out of noisy snapshots | earliest ≤ target ≤ latest ≤ response; a stop is final; never past the clock |
| **Mate solvers** `mate/dfpn.*`, `mate/bns.*`, `mate/shallow_mate.h` | node pool or transposition table, proof and disproof numbers | `search`, `stop`, `ExtractPV`, `HasMateWithin` | saturating arithmetic, thresholds, repetition and path-dependent verdicts, exhaustion, cancellation | a reported mate is a mate (but for checks the probe misjudges, section 9); "no mate" is not claimed on cancelled or tainted work; the search makes progress |
| **Lock-free tables** `nnue/eval_cache.h`, `mcts/butterfly.h` | slots of one 64-bit atomic word (32-bit tag, win, draw); 16-bit history counters | `Probe`, `Store`, `Clear`; `Update`, `Bonus` | keys that agree in slot and tag, saturation | a hit returns what one `Store` wrote; counters stay in range |
| **Opening book** `book/opening_book.*`, `ybb_format.*` | the open file, its sizes | `ValidateFile`, `Probe` | binary search over a file that was not read; records that point anywhere | the answer is the best legal record of the key, if the book has it |
| **Book generator** `tools/gote_book_generator.cc`, `book/gote_exit_solver.h` | children of every move, distances and queue, the output and its backups | `ResolveChildren`, `SolveGoteExitGraph`, `SelectGoteMove`, `WriteOutput` | threads with a shared failure flag, retrograde analysis of a cyclic graph, replacing a file step by step | distances are minimax distances; the moves written leave the book; no book is ever lost |
| **Data generator** `datagen/*` | shared counters, writer, per-worker game | `SetupStart`, `PickMove`, `PlayGame` | workers share limits and a writer; the result of a game decides all labels | every record carries the outcome of its own game; never more games than asked |
| **Board and rules** `shogi/*` | bitboards, hands, hash, history | `DoMove`, `UndoMove`, move generation, repetition, declaration | incremental state, do/undo symmetry | undo restores, hash equals recomputation |
| **NNUE inference** `nnue/*` | accumulators, refresh caches, weights | `Evaluate`, `Policy`, file loading | incremental update against refresh, quantised arithmetic | incremental equals full refresh |
| **Python tools, training, bindings** `tools/`, `train/`, `pyext/` | files, match state | matches, book building, training | long batch jobs | reproducible records |

How they interact. The USI loop reads one command at a time and runs it to its end; `go`
builds or keeps the persistent `Search`, starts the root mate worker and the watchdog,
and calls `Search::Run`, which starts the MCTS workers and joins them. Threads meet in
the tree (atomics and position mutexes), in `stop_` (`Search::Stop` from the watchdog or
the mate worker), in `RootMateState` (condition variable and atomics) and in the tables.
The time manager is called through `MaybeManageTime` by whichever worker wins a
compare-and-swap. The mate solvers work on a `ShogiBoard` of their own and ask it for moves, for the
verdict on a repetition and for mates in one: df-pn, the lines of BNS and the shallow search
ask `FindMateInOne`, which makes every move when the side to move is in check and otherwise is
`FindMateInOneNonCheck`; the positions BNS searches ask the approximate probe, and
`FindMateInOne` in check. Nobody makes the move a probe returns to see whether it mates. The MCTS
asks `shallow_mate.h` at leaves and at the root. A solver's table and a tree's flags outlive one
problem, the books are files that another program writes.
The tree outlives a search: `NodeTree::ResetToPosition` keeps the part
below the new root, flags and statistics included.

## 2. The plan

Ordered by importance to a game: what the engine plays, that it answers, that it answers
in time, then the parts these rest on.

| # | Modules | Subject | State |
|---|---|---|---|
| 1 | `GameTree`, `ProvenTree`, `UctSearch` | the concurrent search, and the atomic proof tree it implements | checked, proved |
| 2 | `UsiGo` | one `go`: main thread, mate worker, watchdog | checked, proved |
| 3 | `TimeManager`, `SearchClock` | deadlines, the adaptive policy, its serialization | checked, proved |
| 4 | `NodeTree` | slots, reuse along the history, garbage collection, byte count | checked, proved |
| 5 | `UsiSession` | options, networks, books and games against a `Search` that lives on | checked, proved |
| 6 | `ShogiTables`, `ShogiPosition`, `ShogiBoard`, `ShogiMate`, `ShogiMateApprox`, `ShogiPlay`, `ShogiGame` | the rules: generators and probes against their definitions; do, undo, hash, repetition | checked; do, undo, hash and repetition proved |
| 7 | `MateGraph`, `MateRules`, `Dfpn`, `BranchNumbers`, `Bns`, `ShallowMate`, `MateSolvers` | the mate solvers: thresholds, tables, route verdicts, limits, cancellation, against forced mates | checked; pool and descents of df-pn, thresholds of BNS proved |
| 8 | `GoteExitSolver`, `OpeningBook`, `GoteBook` | the book generator, its files, and the engine's reader of them | checked, proved |
| 9 | declaration, packed positions | what `shogi/` still has | left |
| 10 | proofs | the generators of moves and the probes of `ShogiMate`; soundness of the mate solvers | left |

`UctSearch` is composed with `GameTree` (the positions) and `ProvenTree` (the abstract
specification); `SearchClock` with `TimeManager`; `ShogiGame` plays the moves of `ShogiBoard` on the machine of
`ShogiPlay`; `MateSolvers` extends `Dfpn` and instantiates `Bns`
over one state and compares both with `MateRules`; `GoteBook` extends the solver of the graph
and the reader of books. `Data generator`, `NNUE`, cache and counters stay without a module:
section 8 says why.

## 3. The modules and the code

### The search: `GameTree`, `ProvenTree`, `UctSearch`

`GameTree` is the tree of positions below the root. The engine stores a tree, so a node
names its incoming edge as well. `Kind` abstracts a position to the answer of the checks
that `UctSearch` makes on entering it (declaration, repetition, ply cap, leaf mate, no legal
move); `Val` is its value under those rules, and the assumption `TreeValues` says so. A position
whose leaf mate probe succeeds is a win there, as it is to the search. On boards that probe is wrong
where its last check is one that `FindMateInOneNonCheck` misjudges (section 9, `mate_in_one`): what is
checked and proved of flags and of the guard is about the game the probes describe.

`UctSearch` has the worker's loop, one action per access to shared memory or per block
under a position mutex:

| State | Code |
|---|---|
| `state`, `moves` | `uct_node_t::state`; the child array: absent, listed by `ExpandNode`, complete with priors |
| `created` | filled `child_node_slot_t`s |
| `flags` | `child_node_t::flags` (`SetWin`, `SetLose`, `SetDraw` add a bit each) |
| `edgeVisits`, `edgeWin`, `nodeVisits`, `nodeWin` | `move_count` and `win` of edge and node, in halves |
| `mutex` | `g_position_mutexes`, chosen by the position's hash |
| `playouts`, `stop`, `treeFull` | `playout_count_`, `stop_` or `adaptive_stop_`, `tree_full_` |
| `pc`, `at`, `val`, `scan`, `iter` | the worker: place in the code, node, value, loop over children, iterations |
| `main`, `runs`, `rootBefore`, `best`, `cancelled` | `Search::Run` |

`StartPlayout` is the test at the loop's head; `Enter` the terminal checks and proven edges;
`Visit`, `Lock`, `FirstVisit` the double-checked evaluation; `ExpandNode`, `ComputePriors`,
`SetExpanded` the expansion under the mutex; `ScanChild` (one child, its flags read once) and
`FinishScan` are `SelectPuctChild`; `Descend` the virtual loss and `GetOrCreate`; `Count`,
`Validate`, `Backup`, `Unwind` the end of a playout, one edge at a time; `Tick` the
housekeeping; `Join`, `GuardAttempt`, `Report` the calling thread after the join; `RunAgain`
a second search on the kept tree.

`ProvenTree` promises less and in one step: a node is evaluated, then expanded, each once,
and an edge gets a label that is either its position's own or follows from its children's
labels. `UctSearch` implements it with `label <- flags`, `status <- state`.

### One `go`: `UsiGo`

The main thread runs `CmdGo` through `main`: launched, reset (`Run` has cleared `stop_`),
notify (`started` set), search, returned, then the three steps of `RootMateState::Stop`, the
two joins and the answer. The worker waits on `start_cv` with a test, a sleep and a wake-up
as separate steps, the mutex held in between (`HoldsStartMutex`), then searches, publishes
`done`, and stops the MCTS if its mate does not begin with a repetition. The watchdog exists
only for some commands and may fire at any time. `stopRequested`, `solverStop` and
`notify_all` are three steps, as in the code. `go mate` is the solver alone, polled.

### Time: `TimeManager`, `SearchClock`

`TimeManager` is `TimeManager::Compute`, operator by operator: legacy limits, the response
deadline (clock and cap), target, earliest and latest time. The floats of the code are exact
rationals, times in milliseconds, the duration of the search in twentieths of one.

`SearchClock` runs a search under such a budget. A thread alternates playouts and
`MaybeManageTime`: `ReadClock`, `ClaimCheck` (the compare-and-swap on `last_time_check_ms_`),
`EnterCheck` (on `time_check_busy_`), `Update` (the controller, its policy and decision),
`Publish` (`adaptive_stop_`), `Release`. The calling thread does the same once, by force,
after the join. What the controller computes from visits and values is abstracted to its
verdicts: best move, proven, inversion, dominance, pressure.

### The store: `NodeTree`

| State | Code |
|---|---|
| `alive`, `child`, `expanded` | the heap's `uct_node_t`s, their child arrays with the slots in them, `state` |
| `begin`, `head`, `known`, `key`, `line` | the members of `NodeTree` |
| `bytes` | `TreeMemory::Bytes()`, one unit for a node and one for an element of an array |
| `pending`, `freeing`, `collector` | `NodeGarbageCollector`: queue, nodes whose destructor is under way, thread |
| `todo`, `prev`, `restart`, `reused` | `ResetToPosition`: moves left, `prev_head`, `same_game && !can_reuse`, result |
| `pc`, `at`, `want`, `hand` | a worker in `GetOrCreate`: node, move, candidate |
| `pos` | ghost: the position a node was made for |

`ResetToPosition` is three actions: the comparison with the kept history, one
`ReleaseChildrenExceptOne` for each move, and the end, where a head that may have been pruned
is made anew. `StartSearch` to `Join` is a search, of which `NodeTree` keeps only what creates
nodes: `ExpandNode`, and `GetSlot` and `Publish`, the two halves of `GetOrCreate`. The
collector frees node by node between all of these (`TakePending`, `FreeNode`). `DestroyTree`, `StopCollector`, `JoinCollector` are the
destructors at exit. The heap is explicit because what can go wrong is that a node has two
owners or none. Addresses are reused as soon as they are free, as an allocator would, so a
stale pointer shows as a node of another position.

### The session: `UsiSession`

One action per command and per kind of option; the engine carries a command out to its end
before it reads the next, so each is one step. `search` is the persistent `Search` as far as
it can grow stale: its copy of the configuration and the networks it points to. Of
`SearchConfig`, `option` stands for the options whose parser assigns a field and resets the
search, `leaf` is the depth of leaf mates, `nodes` the limits `go` pushes, `info` whether the
callback is set. The two network files are one, as `NetworkSet` loads both or none. `memory`
says from which searches the tree and the cache of `search` hold something: one of this game,
of a game before, or one made between `isready` and `usinewgame` (`stray`). Nothing is
bounded, so the run covers sessions of any length over its few files and values.

### The rules: `ShogiTables`, `ShogiPosition`, `ShogiBoard`, `ShogiMate`, `ShogiMateApprox`, `ShogiPlay`, `ShogiGame`

A bitboard is a set of squares, a position a record of pieces on squares, hands and turn.
`ShogiTables` has the effects, the lines between squares and the zones a check can come from, for
a board of any size; `ShogiPosition` what a move does to a position, attacks, promotions and drops;
`ShogiBoard` pins, move generation and evasions; `ShogiMate` the generator of checks and the exact
probe for a mate in one; `ShogiMateApprox` the approximate one. The probes are modelled as they
work, without making the move: the piece is taken off, its new square left empty, and occupancy
passed separately. What they are compared with (`LegalByRule`, `Mated`) makes moves and looks for
attacks on kings.

`ShogiPlay` is the board as a machine: `DoMove`, `UndoMove`, the hash, the history and the counters
of checks. `DoMove` trusts its caller with the move, so `PlaySpec` lets the caller choose any move
that is within the rules but for a mate by a dropped pawn (`SafeMoves`). `ShogiGame` plays the moves
of `GenerateLegalMoves`; `LegalMovesExact` says that they are among `SafeMoves`, so that its games are
games of `PlaySpec`.

| State of `ShogiPlay` | Code |
|---|---|
| `pos` | `board_`, piece and colour bitboards, `hand_`, `side_to_move_` |
| `hash` | `hash_`: the set of Zobrist keys xored into it, xor being symmetric difference |
| `history`, `checks` | `history_` with hands, `continuous_check_` |
| `frames` | the caller's moves with their `UndoInfo`; ghost: the state before each |
| `plies` | bound: moves still to be made |

### The mate solvers: `MateGraph`, `MateRules`, `Dfpn`, `BranchNumbers`, `Bns`, `ShallowMate`, `MateSolvers`

`MateGraph` replaces boards by graphs of positions: odd numbers have the attacker to move, even
ones the defender, in check. A problem is the moves of each position, in generator's order, the
game before the root, the positions in which a side to move is in check, where the approximate
probe finds a mate, and the moves that the probe outside check judges wrongly (`misjudged`): checks
with an evasion that it takes for mates, and mates that it passes by. Both happen on boards
(section 9); which moves they are depends on pins, which a graph does not have, so problems say.
In check, and in the approximate probe, nothing is misjudged. The probe's own order of moves is
that of the problem. `CheckRepetition` is `ShogiBoard`'s, on lines of such positions.
`MateRules` has the references: `ForcedMate`, a mate by the rules whatever the route, and
`IsMatingLine`. In both a check that the probe takes for a mate counts as one; `InFact` is the problem
without misjudged moves, in which they are the rules of the game and nothing else.

What a solver claims is compared with the one or the other, according to what it asks. Df-pn asks the
probe at every position of the attacker and makes none of its moves, so that its verdicts, "no mate"
included, are exact for the game in which misjudged checks are mates, and a mate it reports may be
none. The verdicts of BNS are compared with the rules alone; its line may end with a misjudged check
all the same, as `ExtractPv` asks the probe that the search does not. The shallow search reports
mates that end with a misjudged check, and misses mates that the probe passes by. Without misjudged
moves, as in most problems, all the properties are about the rules.

| State | Code |
|---|---|
| `tree`, `used` (`Dfpn`) | `DfpnNode`s by the positions that lead to them; `NodeManager`'s count and its refusal |
| `frames` | the recursion of `Search` and of `SearchImpl`: node, thresholds, views of the children |
| `tt`, `gen` (`Bns`) | the table: clusters of two entries keyed by position and ply, and their generation |
| `routes` | `overrides_` (verdicts of this route, with their anchor) and `override_version_` |
| `searched`, `entries`, `stopped`, `limitHit`, `late` | node counts, `stop_`, limits, deadline |
| `answer` | the result and its line |

`Dfpn` and `Bns` each have one action per block of their recursive function; `Stop` and `Deadline` come
between any two. `BranchNumbers` is the arithmetic of BNS, both modes, with infinity as a constant.
`ShallowMate` writes the searches to depth 1 to 7 as functions of the polls of the stop flag.
`MateSolvers` runs sessions: one solver, several problems in turn, its table kept.

### The books: `GoteExitSolver`, `OpeningBook`, `GoteBook`

`GoteBook` is `Run` of the generator. A task is a source book (an index and an area of move records;
records may be garbage or illegal, an index broken), options and a disk.

| State | Code |
|---|---|
| `nextNode`, `completed`, `failed`, `worker` | the atomics of `ResolveChildren` and where each thread is |
| `children`, `graph` | the child of every move record |
| `distance`, `maxChild`, `unresolved`, `queue`, `head` | `SolveGoteExitGraph` |
| `disk` | output, backups by suffix, temporary file; `kept`: the backup made by this run |

Each call of the file system is a step, which may fail; between any two the process may die
(`Crash`) or another program write the output (`OtherRun`). `OpeningBook` is `Load` and `Probe`; the
properties read the book just written with them, so writer and reader are checked together.

## 4. The runs

| Run | Instance | What it shows |
|---|---|---|
| `search` | 8 positions, 2 workers, 5 playouts, 2 mutexes | sound flags, bounded playouts, nothing scanned half built, guarded move, one child array per node, the refinement |
| `search_limits` | the same tree, 7 playouts, memory limit of 4 units, evaluations may be NaN, 2 searches, fair | visits, wins and losses balance, a refused backup leaves no virtual loss and no half-updated path, quotients stay in range, the memory limit is overshot by a bounded amount, every search reports |
| `usi_go` | 2 commands | no lost start or stop, agreement of the two verdicts, no thread left, every command answered |
| `usi_deadline` | 1 command | violation: see section 9 |
| `search_clock` | 3 clocks × 2 caps, 2 threads, 2 moves, 4 instants, fair | deadlines in order, one thread in the controller, stops justified, extension bounded, decisions stand, the last word recorded, a timed search ends |
| `node_tree` | 4 move lists, 3 commands, 2 workers, 5 addresses | one owner per node, head and workers on nodes of their own positions, no pruned or stale head, exact byte count |
| `usi_session` | 2 values, limits, networks, books; no bound on the commands | options, networks, limits and books in force; games isolated |
| `shogi` | 4 × 5 board, about 40000 positions of five families, two games of 5 and 2 plies | generators agree with the rules, the approximate probe finds mates only, undo, hash and repetition are right |
| `mate_in_one` | up to 48 positions, knights that uncover a slider | violation: see section 9 |
| `mate_solvers` | graphs of 5 to 16 positions, half of them with misjudged checks, both solvers, limits of every size, fair | what is claimed is true and the line reported mates, but for checks the probe takes for mates, descents move on, the pool never runs out inside an expansion, bounded probes are sound under cancellation, searches end |
| `bns_routes` | a graph of 23 positions in 8 orders | violation: see section 9 |
| `gote_book` | 300 graphs and the books and disks of `MCTasks`, 2 threads, fair | distances are those of the game of leaving the book, the moves written leave it, probes are exact, no book is lost, the generator ends |

Why the bounds are enough. The hazards of the search are about two workers meeting: at a
node, at a mutex, at a flag; two workers and a tree of depth two in which each kind of
position occurs, two positions share a mutex and two siblings lead to proofs reach all of
them, and TLC reports that every action and every disjunct fires. `MaxNodes` is small
because a bug of the kinds looked for shows within a few playouts: each mutant listed in
`PROJECT.json` is found within these bounds. `MaxGos = 2` is the least with state carried from
one command to the next. The instants of the clock lie on both sides of each deadline of the
long clock, closer and further than the 20 ms between checks; the other clocks and caps
make the budget degenerate. For `NodeTree`, three commands let a
history be built, left and returned to; the lists extend, truncate and branch off one another;
`MaxPly = 2` lets workers build a node and its children below the head. The workers leave
`Reserve` addresses to the calling thread, which needs at most two at a time, so a full heap,
which the code does not handle, never blocks it.

The board of 4 × 5 with promotion zones of two ranks has every kind of piece, promotion that is
forced, free and impossible, both edges, and lines with a piece and a square between; its families
put an attacker and a defender anywhere about a king (`Pairs`), and sliders behind a piece of
either colour (`Batteries`). `Chase` repeats a position with checks, `Melee` drops, promotes,
captures and takes back. A mate solver's hazards need two cycles that share a position, a
cycle that passes the root into the game before it, and a table too small: the family of graphs has
cycles of 4 to 8 plies in 1728 combinations and, with `Lookback` 6 in place of 16, cycles both within
and beyond the window; seven clusters make positions of one problem evict each other, three
generations make the counter wrap within a session, and infinity is never reached except by verdicts,
which is what the proof covers instead. Books of four positions have cycles of both lengths, exits
for either side and dead ends; two runs in one second are
`OldDisk`, where the first name of a backup is taken. `MaxUint32` is 6, so that a book of five
positions is too large for its indices and is refused (`kExitDisallowed`), and the others are not.

What the
bounds leave open the theorems cover, where there are any: they hold for every tree, number of workers, limit,
clock and setting.

`CHECK_DEADLOCK FALSE` in `search_clock`, `shogi`, `mate_solvers`, `bns_routes`, `mate_in_one` and
`gote_book`: after the last search or problem, at the end of a game's plies, after the generator's
end, the model stops, as the program does. Symmetry under permutations of threads (and of
addresses, in `node_tree`) is used in `search` and `node_tree`, which have no liveness property.

## 5. Fairness

- `UctSearch!Fairness`: workers and the calling thread are scheduled. They are `std::thread`s
  that block on position mutexes held for a bounded time. No fairness for `Stop`.
- `UsiGo!Fairness`: each thread is scheduled. `SearchReturns` is fair: the node or time limit
  ends the search, which is `Terminates` and `TimedSearchEnds` of the other two modules (a
  `go` without any limit, such as `go nodes 0`, is outside this assumption). The solver has to
  return only once it has been stopped (it polls `ShouldStop`); the deadline need not pass.
- `SearchClock!Fairness`: threads are scheduled and time passes. Nothing else has to happen;
  node limits need not be reached.

- `MateSolvers!FairSpec`: the thread of the solver runs on until the last problem is done, nothing
  else. No stop and no deadline has to come: node limits end a search.
- `GoteBook!FairSpec`: the main thread and each `std::thread` are scheduled, and calls of the file
  system return. Nothing makes a run crash.

## 6. The proofs

The assumptions are those on the constants: `GameTreeAssumption` (the tree is a tree: it hangs
together below the root, and is finite, because the ply cap ends every line and a position has
finitely many moves; the values of positions are those of the rules, and the leaf mates and the
guard's oracle are sound, which the code meets but for the misjudged checks of section 9),
`SearchAssumption`, `TreeAssumption`, `GoAssumption`, `ClockAssumption`,
`SessionAssumption`, `InfinityAssumption`, `SolverAssumption` (indices have a bound),
`BookAssumption` (a source is a book of the format, good or broken; it has illegal moves only
where moves are validated; a name for a backup is free), `BoardAssumption` (the board has squares),
`MateAssumption` (`INF` is a positive number, a problem's moves lead to its positions),
`StartsAssumption` (a game starts from pieces on squares and counted hands, with one king on either
side and nobody's king to be taken).

`FiniteSums` has the tools the other modules share. The library's induction theorems take an
operator, which the provers cannot instantiate; that the strict subsets of a finite set are well
founded is a fact without one, so each of its lemmas takes a smallest counterexample and takes
an element away. It says how a sum over a finite set moves when one or two summands do, what
bounds it, how large a set is that others cover, and that numbers have a least one: what is said of
all plies of a game or all rounds of a recursive function is proved by its first exception.

Of `UctSearch` (module `UctSearchProofs`):

- `TypeCorrect`. A worker that scans or selects stands on a node with
  children (`ScanHasKids`); without it the type of a scan is not inductive.
- `Refinement`, `ProofFlagsSound`. The step that matters is a proof
  derived from a scan: the labels read during the scan are remembered (`open`, `drawn`), flags
  are only ever added, so what was read still holds when the scan ends, and the whole scan
  counts as one look at the end. `ProofFlagsSound` follows from `Refinement` and from
  `AtomicLabelsSound`, which is about `ProvenTree` alone, by the values of `GameTree`. The one exception,
  the root guard's mark, is an action of the abstract tree.
- `BuiltOnce` and `PublishedBeforeScanned` from an invariant that ties a
  child array's progress to the holder of the mutex; `PlayoutLimit` by counting the workers
  that have a playout under way (`FiniteSetTheorems`); `GuardedMove` from what `main`'s phase
  says of the best child.
- `StatisticsStaySound`, through any number of searches on the tree that is kept. Virtual loss
  makes a quotient of two counters safe to read only because it reserves the room: `EdgeInv`
  says that an edge's wins, and twice the trajectories that still hold it, are within twice its
  visits, and that its visits cover those of the node below and the playouts waiting there.
  `SumInv` has a node's statistics equal those of its edges at every moment, not at the end
  only; `RootInv` counts at the root the playouts not yet counted and the refused ones. A
  backup or an unwinding moves up along the path from a worker's node to the root (`Above`,
  `NoCycle`), and changes one edge and the node over it.
- `MemoryIsBounded`. The invariant is about a gauge: the size of the tree and, for every playout
  under way, the room for one node and one child array, less what it has already used. A node
  without a result, or an array none of whose nodes has one, is the work of a playout that stands
  there (`CreatedInv`), so that no playout adds two of either. The gauge grows only when a playout
  starts, and a worker starts `CheckInterval` of them between two looks at the limit (`Used`).
  Like the property, it is about the first search on a tree: a second one may begin over the
  limit.

Of the other modules:

- `NodeTreeProofs`: `TreeIsSound`, `BytesAreExact`, `TypeCorrect`. One owner per node is not
  inductive by itself: whether a step may cut, publish or free a node depends on where head and
  workers stand. The invariant partitions the heap by the kind of owner (slot, queue, worker's hand, tree, collector), each kind
  owning once. That a node is in the tree is said by a path from the root along the line it was
  created for; nodes with a part of their moves only are above the head or off the tree (`CutAbove`),
  and while `ResetToPosition` walks, exactly the nodes it has passed are cut (`Walking`). Therefore
  no worker stands where the collector frees, and a head that was cut is made anew. The
  byte count then follows each change of the heap by the sums of `FiniteSums`.
- `UsiProofs`, of `UsiGo`: the inductive invariant is `TypeOK`, `Places` (which thread can be where
  while another is where), `Verdict` (what the worker's place says of its finding) and
  `Requests` (which stops stand). `SignalsKept` is the conjunction of `NoLostWakeup`,
  `MateStopKept` and `CancellationKept`, each proved by itself.
  Of `UsiSession`: `SettingsInForce` (`OptionsInForce`, `BooksInForce`) and `GamesIsolated` are
  inductive together with `Kept`: what `isready` prepared holds no search of a game, because a game
  that has begun is not prepared any more. Lemmas say what `EnsureNetworks`, `EnsureSearch` and
  `Push` leave behind.
  The module also has `ChildMovesOn`, about the solver that runs in the worker: from what a summary
  says of the selected child (`Selected`) and thresholds that have not been reached, the child's
  thresholds are above its numbers, in both modes of BNS, for all numbers up to infinity. That
  `Summarize`, a sum over the children, gives such a summary is what `DescentsProgress` checks.
- `DfpnProofs`: `PoolSuffices` (`ChildrenAllocated`) and `CallsMoveOn` (`CallsProgress`, its half of `DescentsProgress`), for
  every problem, every capacity of the pool and stops at any time, one problem after another.
  `ExpandNode` marks a node as a mate before it asks for the child, so a pool that is full exactly then
  would leave it without; that a refused request sets a flag does not help, and what does is that
  nothing is entered without room for one node. `PoolInv` says so, with the shape of the tree, the
  stack of calls and one count: no path is longer than the nodes taken (`Depths`), which keeps
  `INF - ply` a number, as the pool has fewer than `INF` nodes (`Spec`; the code caps it at two
  million). `ProgressInv` says that a node's numbers are those of its children (`Settled`) except
  where a call is at work below it or a repetition has decided it (`Fine`), which is why `Search` has to
  summarize on the way up; and that each call is for a child of the one before that does not repeat
  (`Descent`). So at a descent the node's numbers, below the thresholds, are the least and the sum of
  its children's: the best child has the one and is within the other, and the runner-up plus one, or
  the threshold, is above it. A sum that reaches `INF` stops the loop first.
- `SearchClockProofs`: lemmas about `Compute` (integers, order of the time points), then an
  inductive invariant of budget, gate (`busy` is held by exactly the thread inside), policy and
  the calling thread's last check. `DecisionSound` is `StopJustified` and `ExtensionBounded`.
  `DecisionKept` is the action property that no later update, the forced one included, replaces a
  stop.
- `GoteBookProofs`: `SolverIsExact`, `ProbeIsExact`, `PolicyLeavesTheBook`, `BooksAreKept`, from the
  invariant `GeneratorInv`. Of the threads of `ResolveChildren` it says that every position below
  the shared counter has its moves resolved or is in some thread's hand, unless a failure was
  recorded (`ResolveInv`); so after the joins the graph is that of the book (`GraphInv`). Of the
  retrograde analysis, that the queue holds every decided position once, in the order of distance,
  none further than one ply beyond the head (`QueueInv`); that a position
  of Gote has the distance of its nearest child, and one of Sente that of its last, with the counter
  of those still open (`GoteInv`, `SenteInv`). That these are the distances of the game of leaving the
  book is an argument by the first round in which they differ: the reference is a recursive function
  of the number of rounds (`IteratesExist`). Of the files, what each stage of `WriteOutput` has left
  (`DiskInv`); the temporary file is whole before the output is touched, and until the new book is in
  place the old one is in a backup. `ProbeIsExact` is the binary search (`Place`): the range always
  holds the key, if the index does. `PolicyLeavesTheBook` takes a line on which the policy does not leave in
  time, and its first ply that goes wrong.
- `ShogiProofs`: `CheckIsAttack`, `UndoIsExact`, `HashIsExact`, `RepetitionIsExact`, for every size of
  the board, every game within the rules and any number of moves made and taken back. `InCheck` looks
  outwards from the king with the effects of his own side's pieces; that what it meets attacks him is
  the symmetry of steps, jumps and rays, on coordinates of squares (`AttackSymmetric`). The inductive
  invariant is `PlayInv`: every state that can still be gone back to is sound (a position with a king on
  either side, the mover's opponent not in check, its hash from scratch, counters even), and each is
  linked to the next by a move, its `UndoInfo` and its entry in the history. A king is therefore never
  taken, and `TakenBack` turns a move into its inverse. A hash kept up by symmetric differences is the one
  from scratch because the keys that a move takes off are there and those it adds are not (`HashStep`);
  the same hash and hands are the same position (`HashTells`). `CheckRepetition` looks at even distances
  from four on: turns alternate (`Alternates`), and two plies cannot come back to where they began, as
  the square the first move emptied or filled is still not as it was (`TwoPlies`). A counter is at
  least a distance exactly when every move of its side over that distance gave check (`CountsAt`), which
  makes the verdict the rule's.

## 7. Model-checked only

Liveness (`Terminates`, `EveryGoAnswered`, `TimedSearchEnds`, `SearchEnds`, `GeneratorEnds`): out of
the prover's reach, as is that the process can end, whatever the collector is doing: the absence of
deadlock in `node_tree`.

The generators and probes of the rules (`LegalMovesExact`, `ChecksExact`, `ApproxMatesSound`) and the
mate solvers (`VerdictsSound`, `LinesMate`, `ShallowMateSound`, and `DescentsProgress` of BNS, whose
proved half is `ChildMovesOn`): the definitions of evasions and mates call one another, those of forced mates and sums are recursive, and what a
recursive operator computes for every input is out of the prover's reach; soundness of a solver is an induction
over the game it has searched. For these the runs are all there is, on the instances above. That the moves of `ShogiGame` are
among those of `PlaySpec` is part of `LegalMovesExact`, and so model-checked too.

## 8. What is not modelled

- The root of a search is an ordinary position: declarations are answered before (`CmdGo`,
  the data generator), and the ply cap is far off.
- `UpdateResult` and `AddVirtualLoss` are two `fetch_add`s each, modelled as one step;
  `IsSearchActive` is one step. No decision of the code reads both halves.
- PUCT scores: any child that the loop does not skip may be selected. Priors only order
  children. Root noise, butterfly bonuses, policy temperature, info lines and the principal
  variation are left out.
- `PlayoutStatus::kDiscarded` is handled by the loop and never returned.
- `UsiGo`: no spurious wake-up (the predicate loop of `wait` absorbs it); the MCTS is one state;
  declarations, book moves and missing networks are one action; `quit` is left out.
- `SearchClock`: clocks are not negative, and float rounding is replaced by exact arithmetic
  (each budget asserted in `test/test_time_manager.cc` agrees).
- `NodeTree`: every position has the same moves; two starting positions with one hash are left
  out; siblings are queued in any order, and a node's children freed in any order; the history
  is written at the first step of `ResetToPosition`, which nobody else reads; there is one tree
  (a data generator's workers have one each and share only collector and count).
- `UsiSession`: `position`, `go mate`, `stop` and `quit` leave this state as it is; options that
  nothing modelled depends on are left out; malformed values leave the option unchanged.
- `Shogi*`: the byte tricks of the sliding effects are modelled by the squares a ray reaches; keys
  never collide; notation, packed positions and the declaration of a win are left out. Positions of
  the families need not be reachable by play, but nobody has left his king in check.
- `Dfpn`, `Bns`: a graph has no hands, so no position dominates another. Of BNS, options that are off
  by default are left out (the paper's treatment of repetitions, dominance, the block of new nodes,
  replacement by effort), so are the probe for a mate in three at inner nodes, the cache of moves and
  their ordering, and the new proof of moves that were evicted when the line is extracted. In the
  problems of the run the approximate probe finds nothing where the exact one errs; a mate found by
  the one and passed by by the other would need that new proof for its line.
  Numbers of df-pn saturate at `INF`, which the instances do not reach but by a verdict.
- `GoteBook`: offsets count records, not bytes, and hashes name positions. Left out are illegal moves of
  a source that is not validated (`BookAssumption`), and another program that writes the output in the instant between the last test of
  its existence and the renaming.
- Evaluation cache: a slot is one atomic word with tag and value, so a torn pair cannot occur; that two
  keys agree in slot and tag is a matter of data. Butterfly history: one compare-and-swap of a counter by a
  formula that bounds it, whose values only order moves.
- Data generator: the workers share a counter (`fetch_add`) and a writer under a mutex, and otherwise
  nothing; what a record says depends on search and network. NNUE: numerical kernels and file formats.
  Python tools, training and bindings: batch scripts outside the engine.

## 9. Where code and documents disagree

- `usi_deadline`: `ROOT_MATE_TIME_INTEGRATION_REVIEW.md` has the hard deadline stop both
  workers. `Search::Run` clears `stop_` when it starts, and the watchdog, launched before, counts
  from the receipt of `go`: if loading the networks or the position outlasts the deadline, its
  stop is erased and only the mate worker, refused at its start, is stopped. The search then
  ends at its own limits. The worker's own stop does not have this problem: it waits for the
  reset (`MateStopKept`).
- `mate_in_one`: `FindMateInOne` promises a mating move, or none (`src/shogi/board.h:164`). To see
  whether a defender can interpose or capture, it takes the moved piece off its old square and does
  not put it on the new one when it asks who is pinned (`src/shogi/board.cc:1306`, `:1326`). A defender
  on a line that the moved piece itself closes counts as pinned, and his answer is left out. On the
  full board: `9/9/9/9/9/4+B4/6pK1/6p2/4R1Nk1 b - 1`, where 3i4g is returned though 3h3i+ is legal; the
  compiled code agrees. The approximate probe has no such case in the run `shogi`.
  By the same reckoning the probe passes by a mate in one whose moved piece pins the defender that
  could interpose: `6G1k/8g/6R2/5B3/9/9/9/9/K8 b - 1`, where 3c1c and 3c1c+ mate and none is
  returned. Callers take the answer as it is. On the first position the compiled df-pn
  (`src/mate/dfpn.cc:234`) and BNS (`src/mate/bns.cc:736`) report a mate with the line 3i4g, and
  the shallow search (`src/mate/shallow_mate.h:369`) a mate in one, where the mate takes seven plies;
  on the second the shallow search finds a mate in three and none in one.
  `mate_solvers` has such checks in its problems (`MisjudgedProblems`).
- `bns_routes`: results that hold on one route are never stored in the table (`src/mate/bns.h:219`).
  A refutation that rests on two cycles keeps the deeper anchor only (`src/mate/bns.cc:516`); when the
  search returns to that node the verdict is taken for unconditional and is stored, though it still
  needs the other ancestor on the route. On the graph `Routes` BNS reports "no mate" where df-pn finds
  the mate in 13.

Seen while modelling, without a run of their own:

- The parameter inventory (`docs/ENGINE_PARAMETER_INVENTORY.md:157`) says `go infinite` searches to the
  node ceiling until `stop`. The parser (`src/usi/usi_engine.cc:795`) never sets
  `TimeControl::infinite`, so a move cap still limits it.
- `isready` creates the `Search` (`src/usi/usi_engine.cc:294`) before any `go` has set the info callback,
  and the copy in the `Search` is never updated, so a session that begins `isready`, `go` gets no
  periodic `info` line until some option resets the search.
- `LeafMateMode=dfpn` is logged as treated as off, but does not reset a `Search` that exists
  (`OptionsInForce` names the exception).
- `isready` ends before it reads the books when the networks do not load, though a comment calls book
  loading independent of them.
- For `go movetime` the watchdog's margin is the overhead, where the comment on `TimeBudget` says two
  seconds.
- A verdict of the depth cap of BNS is anchored at the node that met it, and goes when that node returns:
  its parent sees the numbers of the table and searches it again, until the node limit.

------------------------------ MODULE UctSearch ------------------------------
(***************************************************************************)
(* One Search::Run of the MCTS engine: the worker threads' playouts on the *)
(* shared tree (UCTSearcher::ParallelUctSearch, UctSearch, SelectPuctChild,*)
(* BackupTrajectory), then, with the workers joined, the root guard        *)
(* (RejectRootMates) and the report (SelectBestChild).                     *)
(*                                                                         *)
(* A trajectory is the path from Root to at[t], so it needs no variable.   *)
(* Results are counted in halves (loss 0, draw 1, win 2); Bad stands for   *)
(* every value std::isfinite refuses.  PUCT scores are abstracted: any     *)
(* child the loop did not skip may have the best score.                    *)
(***************************************************************************)
EXTENDS GameTree, Integers, FiniteSets, Functions

CONSTANTS
  Threads,        \* the UCTSearcher workers
  Mutexes,        \* g_position_mutexes
  MutexOf,        \* MutexOf[n]: the mutex the position's hash selects
  Evals,          \* what EvaluateLeaf may return, in halves, or Bad
  DrawScore,      \* DrawScore[n]: DrawValue() for the player who moved to n
  Prior,          \* nnrate of each edge, up to order
  MaxNodes,       \* SearchConfig::max_nodes, positive
  CheckInterval,  \* iterations between two housekeeping checks (64)
  TreeLimit,      \* tree_memory_mb, counted in nodes and edges
  MaxRuns,        \* bound: searches of the same position on the kept tree
  NoThread

Bad == -1

ASSUME SearchAssumption ==
  /\ IsFiniteSet(Threads) /\ Threads # {} /\ NoThread \notin Threads
  /\ MutexOf \in [Nodes -> Mutexes]
  /\ Evals \subseteq 0..2 \cup {Bad}
  /\ DrawScore \in [Nodes -> 0..2]
  /\ Prior \in [Nodes -> Nat]
  /\ MaxNodes \in Nat \ {0}
  /\ CheckInterval \in Nat \ {0}
  /\ TreeLimit \in Nat
  /\ MaxRuns \in Nat \ {0}

VARIABLES
  state,       \* uct_node_t::state of each node
  moves,       \* its child array: "none", "listed", or complete with "priors"
  created,     \* nodes whose child_node_slot_t is filled
  flags,       \* child_node_t::flags of the edge into each node
  edgeVisits, edgeWin,   \* move_count and win of that edge
  nodeVisits, nodeWin,   \* move_count and win of the node
  mutex,       \* holder of each position mutex
  playouts,    \* playout_count_
  stop,        \* stop_ or adaptive_stop_
  treeFull,    \* tree_full_
  pc, at, val, scan, iter,   \* each worker: place, node, value, loop, counter
  main, runs, rootBefore,    \* Search::Run: phase, how often, root_visits_before_
  best, cancelled            \* the reported child; root_guard_cancelled_

treeVars   == <<state, moves, created, flags>>
statVars   == <<edgeVisits, edgeWin, nodeVisits, nodeWin>>
stopVars   == <<playouts, stop, treeFull>>
threadVars == <<pc, at, val, scan, iter>>
mainVars   == <<main, runs, rootBefore, best, cancelled>>
vars == <<treeVars, statVars, mutex, stopVars, threadVars, mainVars>>

(* Mutant: the loop over the children starts one too early.                *)
ScanFromZero == [i |-> 0, open |-> {}, drawn |-> {}]

EmptyScan == [i |-> 1, open |-> {}, drawn |-> {}]

GoTo(t, place) == pc' = [pc EXCEPT ![t] = place]

-----------------------------------------------------------------------------
(* The workers' loop: ParallelUctSearch.                                   *)

(* Mutants: the limit itself still starts a playout; a full tree is ignored *)
OneTooMany == ~stop /\ ~treeFull /\ playouts <= MaxNodes
FullTreeIgnored == ~stop /\ playouts < MaxNodes

IsSearchActive == ~stop /\ ~treeFull /\ playouts < MaxNodes

(* Mutant: a worker that finds the search inactive waits instead of leaving *)
WaitWhenInactive(t) ==
  /\ pc[t] = "loop"
  /\ IF IsSearchActive
     THEN at' = [at EXCEPT ![t] = Root] /\ GoTo(t, "enter")
     ELSE UNCHANGED <<pc, at>>
  /\ UNCHANGED <<treeVars, statVars, mutex, stopVars, val, scan, iter, mainVars>>

StartPlayout(t) ==
  /\ pc[t] = "loop"
  /\ IF IsSearchActive
     THEN /\ at' = [at EXCEPT ![t] = Root]
          /\ GoTo(t, "enter")
     ELSE GoTo(t, "done") /\ UNCHANGED at
  /\ UNCHANGED <<treeVars, statVars, mutex, stopVars, val, scan, iter, mainVars>>

-----------------------------------------------------------------------------
(* One descent: UctSearch.                                                 *)

(* The result of a playout that ends at the settled edge into n.           *)
Score(n, outcome) == [kWin |-> 2, kLoss |-> 0, kDraw |-> DrawScore[n]][outcome]

AddFlags(n, fs) ==
  flags' = IF n = Root THEN flags ELSE [flags EXCEPT ![n] = @ \cup fs]

ResolveTerminalEdge(t, n, outcome) ==
  /\ AddFlags(n, {FlagOf[outcome]})
  /\ val' = [val EXCEPT ![t] = Score(n, outcome)]
  /\ GoTo(t, "count")

(* TryGetProvenEdgeValue looks for Win, then Lose, then Draw.              *)
ProvenOutcome(n) ==
  IF "win" \in flags[n] THEN "kLoss"
  ELSE IF "lose" \in flags[n] THEN "kWin" ELSE "kDraw"

Enter(t) ==
  LET n == at[t] IN
  /\ pc[t] = "enter"
  /\ IF n # Root /\ flags[n] # {}
     THEN /\ val' = [val EXCEPT ![t] = Score(n, ProvenOutcome(n))]
          /\ GoTo(t, "count")
          /\ UNCHANGED flags
     ELSE IF Kind[n] \in EntryKinds
     THEN ResolveTerminalEdge(t, n, EntryOutcome[Kind[n]])
     ELSE /\ GoTo(t, "visit")
          /\ UNCHANGED <<flags, val>>
  /\ UNCHANGED <<state, moves, created, statVars, mutex, stopVars,
                 at, scan, iter, mainVars>>

IsEvaled(n) == state[n] # "fresh"

(* Mutant: the child array is taken for published once it is allocated.    *)
HasChildArray(n) == moves[n] # "none"

IsExpanded(n) == state[n] = "expanded"

(* Mutant: the test is not repeated under the mutex.                       *)
NoSecondLook(n) == FALSE

EvaluatedMeanwhile(n) == IsEvaled(n)
ExpandedMeanwhile(n)  == IsExpanded(n)

(* The tests made without the mutex: what is still to do at this node?     *)
Visit(t) ==
  LET n == at[t] IN
  /\ pc[t] = "visit"
  /\ GoTo(t, IF ~IsEvaled(n) THEN "wantEval"
             ELSE IF ~IsExpanded(n) THEN "wantExpand" ELSE "children")
  /\ UNCHANGED <<treeVars, statVars, mutex, stopVars,
                 at, val, scan, iter, mainVars>>

Lock(t) ==
  LET m == MutexOf[at[t]] IN
  /\ pc[t] \in {"wantEval", "wantExpand"}
  /\ mutex[m] = NoThread
  /\ mutex' = [mutex EXCEPT ![m] = t]
  /\ GoTo(t, IF pc[t] = "wantEval" THEN "eval" ELSE "expand")
  /\ UNCHANGED <<treeVars, statVars, stopVars, at, val, scan, iter, mainVars>>

Unlock(t) == mutex' = [mutex EXCEPT ![MutexOf[at[t]]] = NoThread]

(* First visit, under the mutex; the state is tested again.  IsEvaled is   *)
(* never undone, so a worker sent back to "visit" goes on to the second    *)
(* test, which the code makes after it has released the mutex.             *)
FirstVisit(t) ==
  LET n == at[t] IN
  /\ pc[t] = "eval"
  /\ IF EvaluatedMeanwhile(n)
     THEN GoTo(t, "visit") /\ UNCHANGED <<state, flags, val>>
     ELSE \/ /\ Kind[n] = "mate"
             /\ ResolveTerminalEdge(t, n, "kLoss")
             /\ UNCHANGED state
          \/ /\ Kind[n] = "stuck"
             /\ state' = [state EXCEPT ![n] = "expanded"]
             /\ ResolveTerminalEdge(t, n, "kWin")
          \/ /\ Kind[n] = "inner"
             /\ \E v \in Evals : val' = [val EXCEPT ![t] = IF v = Bad THEN Bad ELSE 2 - v]
             /\ state' = [state EXCEPT ![n] = "evaluated"]
             /\ GoTo(t, "count")
             /\ UNCHANGED flags
  /\ Unlock(t)
  /\ UNCHANGED <<moves, created, statVars, stopVars, at, scan, iter, mainVars>>

(* Second visit: ExpandNode allocates the children, ComputePriors fills    *)
(* them, SetExpanded publishes them; only then is the mutex released.      *)
ExpandNode(t) ==
  LET n == at[t] IN
  /\ pc[t] = "expand"
  /\ IF ExpandedMeanwhile(n)
     THEN /\ GoTo(t, "children")
          /\ Unlock(t)
          /\ UNCHANGED moves
     ELSE /\ moves' = [moves EXCEPT ![n] = "listed"]
          /\ GoTo(t, "priors")
          /\ UNCHANGED mutex
  /\ UNCHANGED <<state, created, flags, statVars, stopVars,
                 at, val, scan, iter, mainVars>>

ComputePriors(t) ==
  /\ pc[t] = "priors"
  /\ moves' = [moves EXCEPT ![at[t]] = "priors"]
  /\ GoTo(t, "publish")
  /\ UNCHANGED <<state, created, flags, statVars, mutex, stopVars,
                 at, val, scan, iter, mainVars>>

SetExpanded(t) ==
  /\ pc[t] = "publish"
  /\ state' = [state EXCEPT ![at[t]] = "expanded"]
  /\ GoTo(t, "children")
  /\ Unlock(t)
  /\ UNCHANGED <<moves, created, flags, statVars, stopVars,
                 at, val, scan, iter, mainVars>>

(* child_num decides: no children, or a scan over them.                    *)
Children(t) ==
  /\ pc[t] = "children"
  /\ IF Kids[at[t]] = << >>
     THEN ResolveTerminalEdge(t, at[t], "kWin") /\ UNCHANGED scan
     ELSE /\ scan' = [scan EXCEPT ![t] = EmptyScan]
          /\ GoTo(t, "scan")
          /\ UNCHANGED <<flags, val>>
  /\ UNCHANGED <<state, moves, created, statVars, mutex, stopVars,
                 at, iter, mainVars>>

(* SelectPuctChild reads one child after the other while other workers     *)
(* change them.  The three flag loads of one child are one step: a flag    *)
(* that appears between them is seen or missed exactly as in one of the    *)
(* two orders of that step and the step that sets it.                      *)
ScanChild(t) ==
  LET n == at[t]
      s == scan[t]
      c == Kids[n][s.i]
  IN
  /\ pc[t] = "scan"
  /\ s.i <= Len(Kids[n])
  /\ IF "lose" \in flags[c]
     THEN /\ AddFlags(n, {"win"})
          /\ at' = [at EXCEPT ![t] = c]
          /\ GoTo(t, "descend")
          /\ UNCHANGED scan
     ELSE /\ scan' = [scan EXCEPT ![t] =
               [i     |-> s.i + 1,
                open  |-> IF flags[c] = {} THEN s.open \cup {c} ELSE s.open,
                drawn |-> IF flags[c] = {"draw"} THEN s.drawn \cup {c}
                                                 ELSE s.drawn]]
          /\ UNCHANGED <<pc, at, flags>>
  /\ UNCHANGED <<state, moves, created, statVars, mutex, stopVars,
                 val, iter, mainVars>>

NotSkipped(s) == s.open \cup s.drawn

(* Mutant: a drawing child counts as one the opponent wins.                *)
DrawsForgotten(s) == IF s.open = {} THEN {"lose"} ELSE {}

(* What the flags of all children, as the loop read them, prove.           *)
ProvenByScan(s) ==
  IF NotSkipped(s) = {} THEN {"lose"}
  ELSE IF s.open = {} THEN {"draw"} ELSE {}

(* The end of the loop: what all children together prove about the node.   *)
FinishScan(t) ==
  LET n == at[t]
      s == scan[t]
  IN
  /\ pc[t] = "scan"
  /\ s.i > Len(Kids[n])
  /\ AddFlags(n, ProvenByScan(s))
  /\ \E c \in (IF NotSkipped(s) = {} THEN {Kids[n][1]} ELSE NotSkipped(s)) :
       at' = [at EXCEPT ![t] = c]
  /\ GoTo(t, "descend")
  /\ UNCHANGED <<state, moves, created, statVars, mutex, stopVars,
                 val, scan, iter, mainVars>>

(* A mutant: the node's counter is forgotten.                              *)
EdgeLossOnly(c) ==
  /\ edgeVisits' = [edgeVisits EXCEPT ![c] = @ + 1]
  /\ UNCHANGED nodeVisits

AddVirtualLoss(c) ==
  /\ nodeVisits' = [nodeVisits EXCEPT ![Parent[c]] = @ + 1]
  /\ edgeVisits' = [edgeVisits EXCEPT ![c] = @ + 1]

(* Mutants: the losses are kept, or taken twice.                           *)
KeepVirtualLoss(c) == UNCHANGED <<nodeVisits, edgeVisits>>
SubTwice(c) ==
  /\ nodeVisits' = [nodeVisits EXCEPT ![Parent[c]] = @ - 2]
  /\ edgeVisits' = [edgeVisits EXCEPT ![c] = @ - 2]

SubVirtualLoss(c) ==
  /\ nodeVisits' = [nodeVisits EXCEPT ![Parent[c]] = @ - 1]
  /\ edgeVisits' = [edgeVisits EXCEPT ![c] = @ - 1]

(* AddVirtualLoss and GetOrCreate; at[t] is already the chosen child.      *)
Descend(t) ==
  LET c == at[t] IN
  /\ pc[t] = "descend"
  /\ AddVirtualLoss(c)
  /\ created' = created \cup {c}
  /\ GoTo(t, "enter")
  /\ UNCHANGED <<state, moves, flags, edgeWin, nodeWin, mutex, stopVars,
                 at, val, scan, iter, mainVars>>

-----------------------------------------------------------------------------
(* After the descent.                                                      *)

Count(t) ==
  /\ pc[t] = "count"
  /\ playouts' = playouts + 1
  /\ GoTo(t, "validate")
  /\ UNCHANGED <<treeVars, statVars, mutex, stop, treeFull,
                 at, val, scan, iter, mainVars>>

IsFinite(v)  == v # Bad
Plus(a, b)   == IF IsFinite(a) /\ IsFinite(b) THEN a + b ELSE Bad
Opponent(v)  == IF IsFinite(v) THEN 2 - v ELSE Bad

(* The edges of a trajectory, named by the nodes they lead to.             *)
Path[n \in Nodes] == IF n = Root THEN {} ELSE {n} \cup Path[Parent[n]]

(* BackupTrajectory looks at the whole path before it changes any of it.   *)
Validate(t) ==
  /\ pc[t] = "validate"
  /\ GoTo(t, IF /\ IsFinite(val[t])
                /\ \A n \in Path[at[t]] :
                     IsFinite(edgeWin[n]) /\ IsFinite(nodeWin[Parent[n]])
             THEN "backup" ELSE "unwind")
  /\ UNCHANGED <<treeVars, statVars, mutex, stopVars,
                 at, val, scan, iter, mainVars>>

(* UpdateResult on the last edge not yet updated, then one ply up.         *)
Backup(t) ==
  LET n == at[t] IN
  /\ pc[t] = "backup"
  /\ IF n = Root
     THEN /\ GoTo(t, "tick")
          /\ UNCHANGED <<nodeWin, edgeWin, at, val>>
     ELSE /\ nodeWin' = [nodeWin EXCEPT ![Parent[n]] = Plus(@, val[t])]
          /\ edgeWin' = [edgeWin EXCEPT ![n] = Plus(@, val[t])]
          /\ val' = [val EXCEPT ![t] = Opponent(@)]
          /\ at'  = [at EXCEPT ![t] = Parent[n]]
          /\ UNCHANGED pc
  /\ UNCHANGED <<treeVars, edgeVisits, nodeVisits, mutex, stopVars,
                 scan, iter, mainVars>>

(* A refused backup: take the virtual losses back, stop everyone, leave.   *)
Unwind(t) ==
  LET n == at[t] IN
  /\ pc[t] = "unwind"
  /\ IF n = Root
     THEN /\ stop' = TRUE
          /\ GoTo(t, "done")
          /\ UNCHANGED <<nodeVisits, edgeVisits, at>>
     ELSE /\ SubVirtualLoss(n)
          /\ at' = [at EXCEPT ![t] = Parent[n]]
          /\ UNCHANGED <<stop, pc>>
  /\ UNCHANGED <<treeVars, edgeWin, nodeWin, mutex, playouts, treeFull,
                 val, scan, iter, mainVars>>

(* TreeMemory::Bytes(), one unit per live node and per allocated edge.     *)
TreeSize ==
  Cardinality(created)
  + Cardinality({n \in Nodes \ {Root} : moves[Parent[n]] # "none"})

Tick(t) ==
  LET due == (iter[t] + 1) % CheckInterval = 0 IN
  /\ pc[t] = "tick"
  /\ iter' = [iter EXCEPT ![t] = (@ + 1) % CheckInterval]
  /\ treeFull' = (treeFull \/ (due /\ TreeSize > TreeLimit))
  /\ GoTo(t, "loop")
  /\ UNCHANGED <<treeVars, statVars, mutex, playouts, stop,
                 at, val, scan, mainVars>>

-----------------------------------------------------------------------------
(* The thread that called Run, and whoever may stop it.                    *)

(* Search::Stop from the watchdog, or the clock, or the time controller.   *)
Stop ==
  /\ main = "search" /\ ~stop
  /\ stop' = TRUE
  /\ UNCHANGED <<treeVars, statVars, mutex, playouts, treeFull,
                 threadVars, mainVars>>

Join ==
  /\ main = "search"
  /\ \A t \in Threads : pc[t] = "done"
  /\ main' = "guard"
  /\ UNCHANGED <<treeVars, statVars, mutex, stopVars, threadVars,
                 runs, rootBefore, best, cancelled>>

Better(c, d) ==
  \/ edgeVisits[c] > edgeVisits[d]
  \/ edgeVisits[c] = edgeVisits[d] /\ Prior[c] > Prior[d]

(* The first of the children s that no other of them is better than.       *)
FirstBest(s) ==
  {Kids[Root][i] : i \in
     {i \in DOMAIN Kids[Root] :
        /\ Kids[Root][i] \in s
        /\ \A d \in s : ~Better(d, Kids[Root][i])
        /\ \A j \in 1..(i - 1) :
             Kids[Root][j] \in s => Better(Kids[Root][i], Kids[Root][j])}}

(* Mutant: a move the opponent is known to win is not passed over.         *)
RefutedNotSkipped == FirstBest(KidSet(Root))

(* SelectBestChild, as a set of one: the first child proven to lose for    *)
(* the opponent, else the one with most visits, then the highest prior,    *)
(* then the lowest index among those the opponent does not win, else the   *)
(* first.                                                                  *)
SelectBestChild ==
  LET won  == {i \in DOMAIN Kids[Root] : "lose" \in flags[Kids[Root][i]]}
      kept == {c \in KidSet(Root) : "win" \notin flags[c]}
  IN  IF won # {} THEN {Kids[Root][i] : i \in {i \in won : \A j \in won : i <= j}}
      ELSE IF kept # {} THEN FirstBest(kept)
      ELSE {Kids[Root][1]}

(* Mutant: the refuted move is flagged as one that wins.                   *)
RefutedAsWon == "lose"

Refuted == "win"

(* One attempt of RejectRootMates for the best child c.  attempts is the   *)
(* number of children already refuted, so the loop's bound is never what   *)
(* ends it: when every child is refuted the best one is flagged.           *)
GuardAttempt ==
  /\ main = "guard"
  /\ \E c \in SelectBestChild :
       IF flags[c] \cap {"win", "lose"} # {}
       THEN /\ main' = "report"
            /\ UNCHANGED <<flags, cancelled>>
       ELSE \/ /\ main' = "report"               \* deadline or stop
               /\ cancelled' = TRUE
               /\ UNCHANGED flags
            \/ /\ c \in GuardMate
               /\ flags' = [flags EXCEPT ![c] = @ \cup {Refuted}]
               /\ UNCHANGED <<main, cancelled>>
            \/ /\ c \notin GuardMate
               /\ main' = "report"
               /\ UNCHANGED <<flags, cancelled>>
  /\ UNCHANGED <<state, moves, created, statVars, mutex, stopVars, threadVars,
                 runs, rootBefore, best>>

(* BuildResult.                                                            *)
Report ==
  /\ main = "report"
  /\ \E c \in SelectBestChild : best' = c
  /\ main' = "reported"
  /\ UNCHANGED <<treeVars, statVars, mutex, stopVars, threadVars,
                 runs, rootBefore, cancelled>>

(* Mutant: the visits the root brings along are not remembered.            *)
ForgottenVisits == 0

VisitsBroughtAlong == nodeVisits[Root]

(* Run again: the position has not changed, so ResetToPosition keeps the   *)
(* whole tree, its flags and its statistics.                               *)
RunAgain ==
  /\ main = "reported" /\ runs < MaxRuns
  /\ runs' = runs + 1
  /\ main' = "search" /\ best' = Root /\ cancelled' = FALSE
  /\ playouts' = 0 /\ stop' = FALSE /\ treeFull' = FALSE
  /\ rootBefore' = VisitsBroughtAlong
  /\ pc' = [t \in Threads |-> "loop"]
  /\ at' = [t \in Threads |-> Root]
  /\ val' = [t \in Threads |-> 0]
  /\ scan' = [t \in Threads |-> EmptyScan]
  /\ iter' = [t \in Threads |-> 0]
  /\ UNCHANGED <<treeVars, statVars, mutex>>

Finished == main = "reported" /\ runs = MaxRuns /\ UNCHANGED vars

-----------------------------------------------------------------------------
(* ExpandRoot has run: the root's children are published.                  *)
Init ==
  /\ state = [n \in Nodes |-> IF n = Root THEN "expanded" ELSE "fresh"]
  /\ moves = [n \in Nodes |-> IF n = Root THEN "priors" ELSE "none"]
  /\ created = {Root}
  /\ flags = [n \in Nodes |-> {}]
  /\ edgeVisits = [n \in Nodes |-> 0] /\ edgeWin = [n \in Nodes |-> 0]
  /\ nodeVisits = [n \in Nodes |-> 0] /\ nodeWin = [n \in Nodes |-> 0]
  /\ mutex = [m \in Mutexes |-> NoThread]
  /\ playouts = 0 /\ stop = FALSE /\ treeFull = FALSE
  /\ pc = [t \in Threads |-> "loop"]
  /\ at = [t \in Threads |-> Root]
  /\ val = [t \in Threads |-> 0]
  /\ scan = [t \in Threads |-> EmptyScan]
  /\ iter = [t \in Threads |-> 0]
  /\ main = "search" /\ runs = 1 /\ rootBefore = 0
  /\ best = Root /\ cancelled = FALSE

Playout(t) ==
  \/ StartPlayout(t) \/ Enter(t) \/ Visit(t) \/ Lock(t) \/ FirstVisit(t)
  \/ ExpandNode(t) \/ ComputePriors(t) \/ SetExpanded(t) \/ Children(t)
  \/ ScanChild(t) \/ FinishScan(t) \/ Descend(t) \/ Count(t) \/ Validate(t)
  \/ Backup(t) \/ Unwind(t) \/ Tick(t)

Main == Join \/ GuardAttempt \/ Report

Next == \/ \E t \in Threads : Playout(t)
        \/ Main \/ Stop \/ RunAgain \/ Finished

Spec == Init /\ [][Next]_vars

(* Every worker and the calling thread keep being scheduled.               *)
Fairness == WF_vars(Main) /\ \A t \in Threads : WF_vars(Playout(t))

FairSpec == Spec /\ Fairness

-----------------------------------------------------------------------------
(* Properties.                                                             *)

Places == {"loop", "enter", "visit", "wantEval", "wantExpand", "eval",
           "expand", "priors", "publish", "children", "scan", "descend",
           "count", "validate", "backup", "unwind", "tick", "done"}

Scans == [i : Nat \ {0}, open : SUBSET Nodes, drawn : SUBSET Nodes]

(* Type invariant.                                                         *)
TypeOK ==
  /\ state \in [Nodes -> {"fresh", "evaluated", "expanded"}]
  /\ moves \in [Nodes -> {"none", "listed", "priors"}]
  /\ created \subseteq Nodes
  /\ flags \in [Nodes -> SUBSET Flags]
  /\ edgeVisits \in [Nodes -> Int] /\ edgeWin \in [Nodes -> Int]
  /\ nodeVisits \in [Nodes -> Int] /\ nodeWin \in [Nodes -> Int]
  /\ mutex \in [Mutexes -> Threads \cup {NoThread}]
  /\ playouts \in Nat /\ stop \in BOOLEAN /\ treeFull \in BOOLEAN
  /\ pc \in [Threads -> Places]
  /\ at \in [Threads -> Nodes]
  /\ val \in [Threads -> {Bad, 0, 1, 2}]
  /\ scan \in [Threads -> Scans]
  /\ iter \in [Threads -> Nat]
  /\ main \in {"search", "guard", "report", "reported"}
  /\ runs \in 1..MaxRuns /\ rootBefore \in Int
  /\ best \in Nodes /\ cancelled \in BOOLEAN

(* The proof flags are sound although a worker derives them from children  *)
(* it reads one at a time while others write them, and although they       *)
(* survive from one search to the next.                                    *)
FlagsSound ==
  \A n \in Nodes : \A f \in flags[n] :
    Val[n] = Claim[f] \/ (f = "win" /\ n \in GuardMate)

(* max_nodes is tested before a playout and counted after it, so the count *)
(* may pass the limit, but only by the playouts the other workers had      *)
(* under way.                                                              *)
PlayoutsBounded == playouts <= MaxNodes + Cardinality(Threads) - 1

(* A worker looks at child_num and at the children only of a node whose    *)
(* child array is complete: no worker meets a half-built array.            *)
OnlyPublishedScanned ==
  \A t \in Threads :
    pc[t] \in {"scan", "children"} =>
      moves[at[t]] = "priors" \/ Kids[at[t]] = << >>

(* A node's child array is allocated once: trajectories of other workers   *)
(* point into it, so a second ExpandNode would leave them dangling.        *)
ChildrenBuiltOnce ==
  [][\A n \in Nodes : moves[n] = "priors" => moves'[n] = "priors"]_vars

(* Results never outnumber visits: at any moment a reader of an edge finds *)
(* a quotient win / move_count between 0 and 1, also while playouts are    *)
(* under way or being unwound.                                             *)
QInRange ==
  \A n \in Nodes : /\ edgeWin[n] \in 0..(2 * edgeVisits[n])
                   /\ nodeWin[n] \in 0..(2 * nodeVisits[n])

(* When the workers have joined, no virtual loss is left behind: the root  *)
(* has one visit more per playout counted in this run, but for the refused *)
(* ones, and a node's visits are those of its edges.                       *)
VisitsBalanced ==
  LET refused == {t \in Threads : val[t] = Bad}
  IN  main # "search" =>
        /\ nodeVisits[Root] = rootBefore + playouts - Cardinality(refused)
        /\ \A n \in Nodes : nodeVisits[n] = SumFunctionOnSet(edgeVisits, KidSet(n))
        /\ \A n \in Nodes \ {Root} : nodeVisits[n] <= edgeVisits[n]

(* Statistics stay sound through refused backups and a second search.       *)
StatisticsSound == QInRange /\ VisitsBalanced

(* The tree memory limit is soft, but not arbitrarily so: each worker looks *)
(* at it once in CheckInterval playouts, and what a playout adds amounts to *)
(* one child array and one node.                                           *)
TreeOvershootBounded ==
  LET widest == CHOOSE k \in {Len(Kids[n]) : n \in Nodes \ {Root}} :
                  \A n \in Nodes \ {Root} : Len(Kids[n]) <= k
      start  == 1 + Len(Kids[Root])
      bound  == IF start > TreeLimit THEN start ELSE TreeLimit
  IN  runs = 1 =>
        TreeSize <= bound + Cardinality(Threads) * CheckInterval * (1 + widest)

(* The move reported is one the guard has looked at: unless it was cut     *)
(* short, or every move loses, the opponent has no mate after it that the  *)
(* guard's solver can see.                                                 *)
BestMoveVerified ==
  main = "reported" /\ ~cancelled /\ "lose" \notin flags[best] =>
    \/ best \notin GuardMate
    \/ \A c \in KidSet(Root) : "win" \in flags[c]

(* The search implements the atomic proof tree.                            *)
PT == INSTANCE ProvenTree WITH label <- flags, status <- state
ImplementsProvenTree == PT!Spec

(* Every search ends and reports: no worker waits for ever for a position  *)
(* mutex, and the node limit is noticed.                                   *)
Terminates == (main = "search") ~> (main = "reported")
=============================================================================

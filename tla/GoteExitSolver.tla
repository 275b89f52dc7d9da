--------------------------- MODULE GoteExitSolver ---------------------------
(***************************************************************************)
(* How soon Gote can force the game out of a book                          *)
(* (SolveGoteExitGraph, src/book/gote_exit_solver.h): Gote takes the       *)
(* quickest of his allowed moves, Sente has every move of the book.  The   *)
(* distances are found backwards from the exits, one node of a queue at a  *)
(* time.                                                                   *)
(***************************************************************************)
EXTENDS Integers, Sequences, FiniteSets, SequencesExt, FiniteSetsExt

CONSTANT MaxUint32      \* std::numeric_limits<uint32_t>::max()

ASSUME SolverAssumption == MaxUint32 \in Nat \ {0}

kExitLeaf == MaxUint32              \* an edge out of the book
kExitDisallowed == MaxUint32 - 1    \* a move that is not allowed
kExitDistanceInfinite == MaxUint32

VARIABLES
    graph,          \* gote: for each node, whether Gote moves; edges: its children
    distance, maxChild, unresolved, queue, head

solverVars == <<distance, maxChild, unresolved, queue, head>>

Nodes == DOMAIN graph.gote
IsGote(n) == graph.gote[n]
Allowed(n) == {e \in DOMAIN graph.edges[n] : graph.edges[n][e] # kExitDisallowed}
Inside(n) == {e \in Allowed(n) : graph.edges[n][e] # kExitLeaf}
EdgesTo(n, child) == {e \in Inside(n) : graph.edges[n][e] = child}

Sorted(S) ==
    CHOOSE s \in [1..Cardinality(S) -> S] : \A i, j \in DOMAIN s : i < j => s[i] < s[j]

ImmediatelyFinite(n) == IF IsGote(n) THEN Inside(n) # Allowed(n) ELSE Allowed(n) # {} /\ Inside(n) = {}

InitSolver ==
    /\ distance = <<>> /\ maxChild = <<>> /\ unresolved = <<>>
    /\ queue = <<>> /\ head = 1

Seed ==
    LET exits == {n \in Nodes : ImmediatelyFinite(n)}
    IN  /\ distance' = [n \in Nodes |-> IF n \in exits THEN 1 ELSE kExitDistanceInfinite]
        /\ queue' = Sorted(exits) /\ head' = 1
        /\ maxChild' = [n \in Nodes |-> 0]
        /\ unresolved' = [n \in Nodes |-> IF IsGote(n) THEN 0 ELSE Cardinality(Inside(n))]
        /\ UNCHANGED graph

(* A node of the queue decides its parents: one of Gote at once, one of    *)
(* Sente when it was the last child that was open.                         *)
Solving == head <= Len(queue)

Distances(d, open, highest) ==
    [n \in Nodes |-> IF n \notin open THEN distance[n] ELSE IF IsGote(n) THEN d + 1 ELSE highest[n] + 1]

\* Mutant: a node of Sente is decided by its first child.
LeftAfterFirst(n, child) == 0

Left(n, child) == unresolved[n] - Cardinality(EdgesTo(n, child))

Pop ==
    LET child == queue[head]
        d == distance[child]
        parents == {n \in Nodes : EdgesTo(n, child) # {} /\ distance[n] = kExitDistanceInfinite}
        sente == {n \in parents : ~IsGote(n)}
        highest == [n \in Nodes |-> IF n \in sente THEN Max({maxChild[n], d}) ELSE maxChild[n]]
        decided == {n \in parents : IsGote(n) \/ Left(n, child) = 0}
    IN  /\ Solving
        /\ unresolved' = [n \in Nodes |-> IF n \in sente THEN Left(n, child) ELSE unresolved[n]]
        /\ maxChild' = highest
        /\ distance' = Distances(d, decided, highest)
        /\ queue' = queue \o Sorted(decided)
        /\ head' = head + 1
        /\ UNCHANGED graph

-----------------------------------------------------------------------------
(* The reference: where the game is out of the book after at most k plies. *)
Leaves(n, e, sooner) == e \notin Inside(n) \/ graph.edges[n][e] \in sooner
OnePlyMore(sooner) ==
    {n \in Nodes : IF IsGote(n) THEN \E e \in Allowed(n) : Leaves(n, e, sooner)
                   ELSE Allowed(n) # {} /\ \A e \in Allowed(n) : Leaves(n, e, sooner)}
Exits[k \in 0..Cardinality(Nodes)] == IF k = 0 THEN {} ELSE OnePlyMore(Exits[k - 1])
Distance(n) ==
    Min({k \in 0..Cardinality(Nodes) : n \in Exits[k]} \cup {kExitDistanceInfinite})
=============================================================================

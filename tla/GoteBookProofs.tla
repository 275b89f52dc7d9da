---------------------------- MODULE GoteBookProofs ----------------------------
(***************************************************************************)
(* Proofs about the generator of the Gote exit book, for every source      *)
(* book, number of threads and disk: the distances are those of the game   *)
(* of leaving the book, the book that is written leaves it, a probe finds  *)
(* what a reader of the whole file would, and no book is lost.             *)
(***************************************************************************)
EXTENDS GoteBook, FiniteSums

-----------------------------------------------------------------------------
(* The solver's invariant.  The queue holds the decided nodes in the order *)
(* of their distances; `Done` are those whose parents have been told.      *)
Child(n, e) == graph.edges[n][e]
Done == {queue[i] : i \in 1..(head - 1)}
IsDecided(n) == distance[n] # kExitDistanceInfinite
OpenEdges(n) == {e \in Inside(n) : Child(n, e) \notin Done}

GraphTyped ==
    /\ \E N \in Nat : N < kExitDisallowed /\ Nodes = 1..N
    /\ \A n \in Nodes :
        /\ IsGote(n) \in BOOLEAN
        /\ IsFiniteSet(DOMAIN graph.edges[n])
        /\ \A e \in DOMAIN graph.edges[n] : Child(n, e) \in Nodes \cup {kExitLeaf, kExitDisallowed}

QueueInv ==
    /\ queue \in Seq(Nodes) /\ head \in 1..(Len(queue) + 1)
    /\ \A i, j \in 1..Len(queue) : queue[i] = queue[j] => i = j
    /\ \A n \in Nodes : IsDecided(n) <=> \E i \in 1..Len(queue) : queue[i] = n
    /\ \A i \in 1..Len(queue) : distance[queue[i]] \in 1..i
    /\ \A i, j \in 1..Len(queue) : i <= j => distance[queue[i]] <= distance[queue[j]]
    /\ head <= Len(queue) =>
        \A i \in 1..Len(queue) : distance[queue[i]] <= distance[queue[head]] + 1

(* Gote takes the first child that is done, which is the nearest.          *)
GoteInv(n) ==
    /\ \A e \in Inside(n) : Child(n, e) \in Done =>
        IsDecided(n) /\ distance[n] <= distance[Child(n, e)] + 1
    /\ Inside(n) # Allowed(n) => distance[n] = 1
    /\ IsDecided(n) /\ Inside(n) = Allowed(n) =>
        \E e \in Inside(n) : IsDecided(Child(n, e)) /\ distance[n] = distance[Child(n, e)] + 1

(* Sente waits for all his children, and takes the farthest.               *)
SenteInv(n) ==
    /\ ~IsDecided(n) =>
        /\ unresolved[n] = Cardinality(OpenEdges(n))
        /\ OpenEdges(n) # {} \/ Allowed(n) = {}
        /\ maxChild[n] = 0 \/ \E e \in Inside(n) : Child(n, e) \in Done /\ maxChild[n] = distance[Child(n, e)]
    /\ IsDecided(n) =>
        /\ Allowed(n) # {}
        /\ \A e \in Inside(n) : IsDecided(Child(n, e)) /\ distance[Child(n, e)] < distance[n]
        /\ \/ Inside(n) = {} /\ distance[n] = 1
           \/ \E e \in Inside(n) : distance[n] = distance[Child(n, e)] + 1

SolverTyped ==
    DOMAIN distance = Nodes /\ DOMAIN unresolved = Nodes /\ DOMAIN maxChild = Nodes

SolverInv ==
    /\ SolverTyped /\ QueueInv
    /\ \A n \in Nodes : IF IsGote(n) THEN GoteInv(n) ELSE SenteInv(n)

-----------------------------------------------------------------------------
(* The threads: what is done for a node, and who has it in hand.           *)
InHand(n) == \E w \in Workers : worker[w] = [pc |-> "resolve", node |-> n]
Resolved(n) ==
    /\ ~Raises(n)
    /\ \A i \in 1..book.index[n].count : children[book.index[n].off + i] = ChildOf(n, i)

ResolveInv ==
    /\ Len(book.index) < kExitDisallowed /\ Valid
    /\ nextNode \in Nat \ {0} /\ completed \in Nat /\ failed \in BOOLEAN
    /\ DOMAIN children = 1..MoveCount
    /\ \A w \in Workers :
        /\ worker[w].pc = "resolve" => worker[w].node \in 1..NodeCount /\ worker[w].node < nextNode
        /\ worker[w].pc = "end" => failed \/ nextNode > NodeCount
    /\ ~failed => \A n \in 1..NodeCount : n < nextNode => InHand(n) \/ Resolved(n)

(* The graph is that of the book, no move of which is refused.             *)
GraphInv ==
    /\ \A n \in 1..NodeCount : ~Raises(n)
    /\ graph = [gote |-> [n \in 1..NodeCount |-> GoteToMove(n)],
                edges |-> [n \in 1..NodeCount |-> [i \in 1..book.index[n].count |-> ChildOf(n, i)]]]

(* The files.                                                              *)
DiskTyped(d) ==
    d = [output |-> d.output, backup |-> [s \in BackupNames |-> d.backup[s]],
         temporary |-> d.temporary, kept |-> d.kept]

Early == {"start", "resolve", "join", "seed", "solve", "write", "fill", "keep"}

DiskInv ==
    /\ DiskTyped(disk)
    /\ disk.output # Part
    /\ pc \in Early =>
        disk.kept = {} /\ \E s \in BackupNames : disk.backup[s] = Nothing
    /\ pc \in {"keep", "replace", "restore"} => disk.temporary = File(NewBook)
    /\ pc \in {"replace", "restore"} =>
        /\ disk.output = Nothing
        /\ disk.kept \subseteq BackupNames /\ \A s \in disk.kept : disk.backup[s] \notin {Nothing, Part}
    /\ pc = "finished" => disk.output = File(NewBook)

Begun == {"resolve", "join", "seed", "solve", "write", "fill", "keep", "replace", "restore", "finished"}
Joined == Begun \ {"resolve", "join"}
Settled == Joined \ {"seed", "solve"}

PhaseInv ==
    /\ task \in Tasks
    /\ pc \in {"start", "error", "crashed"} \cup Begun
    /\ DOMAIN worker = Workers
    /\ \A w \in Workers :
        /\ worker[w] \in [pc : {"test", "take", "resolve", "end"}, node : Nat]
        /\ pc = "start" => worker[w].pc = "test"
        /\ pc \in Joined => worker[w].pc = "end"
    /\ pc = "start" => nextNode = 1 /\ completed = 0 /\ failed = FALSE
    /\ pc \in Begun => ResolveInv
    /\ pc \in Joined => GraphInv
    /\ pc \in Joined \ {"seed"} => SolverInv
    /\ pc \in Settled => head = Len(queue) + 1

IInv == PhaseInv /\ DiskInv

-----------------------------------------------------------------------------
(* Sorting and numbers.                                                    *)

(* A finite set of numbers can be put in order.                            *)
Sorts(s, x) ==
    s \in [1..Cardinality(x) -> x] /\ \A i, j \in 1..Cardinality(x) : i < j => s[i] < s[j]

(* A greater element can be put at the end.                                *)
LEMMA SortingGrows ==
    ASSUME NEW x \in SUBSET Nat, IsFiniteSet(x), NEW m \in x, \A y \in x : y <= m,
           NEW s, Sorts(s, x \ {m})
    PROVE  \E t : Sorts(t, x)
<1> DEFINE n == Cardinality(x \ {m})
           t == [i \in 1..(n + 1) |-> IF i = n + 1 THEN m ELSE s[i]]
<1>1. Cardinality(x) = n + 1 /\ n \in Nat
    <2>1. IsFiniteSet(x \ {m}) /\ n = Cardinality(x) - 1 /\ Cardinality(x) \in Nat
        BY FS_RemoveElement, FS_CardinalityType
    <2>2. n \in Nat
        BY <2>1, FS_CardinalityType
    <2> QED
        BY <2>1, <2>2
<1>2. s \in [1..n -> x \ {m}] /\ \A i, j \in 1..n : i < j => s[i] < s[j]
    BY DEF Sorts
<1> HIDE DEF n
<1>3. \A i \in 1..n : s[i] \in x /\ s[i] \in Nat /\ s[i] < m /\ m \in Nat
    <2> TAKE i \in 1..n
    <2>1. s[i] \in x /\ s[i] # m
        BY <1>2
    <2>2. \A y \in x : y \in Nat
        OBVIOUS
    <2>3. s[i] \in Nat /\ m \in Nat /\ s[i] <= m
        BY <2>1, <2>2
    <2> QED
        BY <2>1, <2>3
<1>4. \A i \in 1..(n + 1) : i # n + 1 => i \in 1..n
    BY <1>1
<1>5. t \in [1..(n + 1) -> x]
    BY <1>3, <1>4
<1>6. ASSUME NEW i \in 1..(n + 1), NEW j \in 1..(n + 1), i < j PROVE t[i] < t[j]
    <2>1. i \in 1..n /\ t[i] = s[i]
        BY <1>1, <1>6
    <2>2. CASE j = n + 1
        BY <1>3, <2>1, <2>2
    <2>3. CASE j # n + 1
        BY <1>2, <1>4, <1>6, <2>1, <2>3
    <2> QED
        BY <2>2, <2>3
<1> HIDE DEF t
<1> QED
    BY <1>1, <1>5, <1>6 DEF Sorts

LEMMA SortingExists ==
    ASSUME NEW S \in SUBSET Nat, IsFiniteSet(S)
    PROVE  \E s : Sorts(s, S)
<1> DEFINE T == {x \in SUBSET S : ~\E s : Sorts(s, x)}
<1> SUFFICES ASSUME T # {} PROVE FALSE
    OBVIOUS
<1>1. FiniteFamily(T)
    BY FS_Subset DEF FiniteFamily
<1>2. PICK x \in T : \A y \in T : y \subseteq x => y = x
    <2> HIDE DEF T
    <2> QED
        BY <1>1, MinimalSet
<1>3. x \in SUBSET Nat /\ x \subseteq S /\ IsFiniteSet(x) /\ ~\E s : Sorts(s, x)
    BY <1>2, FS_Subset
<1>4. CASE x = {}
    <2>1. Cardinality(x) = 0 /\ 1..0 = {}
        BY <1>4, FS_EmptySet
    <2>2. Sorts([i \in 1..0 |-> 0], x)
        BY <2>1 DEF Sorts
    <2> QED
        BY <1>3, <2>2
<1>5. CASE x # {}
    <2>1. PICK m \in x : \A y \in x : y <= m
        BY <1>3, <1>5, Greatest
    <2>2. PICK s : Sorts(s, x \ {m})
        <3>1. x \ {m} \notin T /\ x \ {m} \in SUBSET S
            <4> HIDE DEF T
            <4> QED
                BY <1>2, <1>3, <2>1
        <3> QED
            BY <3>1
    <2> HIDE DEF T
    <2> QED
        BY <1>3, <2>1, <2>2, SortingGrows
<1> QED
    BY <1>4, <1>5

LEMMA SortedFacts ==
    ASSUME NEW S \in SUBSET Nat, IsFiniteSet(S)
    PROVE  /\ Cardinality(S) \in Nat
           /\ Sorted(S) \in [1..Cardinality(S) -> S]
           /\ \A i, j \in 1..Cardinality(S) : i < j => Sorted(S)[i] < Sorted(S)[j]
           /\ \A i, j \in 1..Cardinality(S) : Sorted(S)[i] = Sorted(S)[j] => i = j
           /\ \A x \in S : \E i \in 1..Cardinality(S) : Sorted(S)[i] = x
<1> DEFINE n == Cardinality(S)
           s == Sorted(S)
<1>1. n \in Nat
    BY FS_CardinalityType
<1>2. s \in [1..n -> S] /\ \A i, j \in 1..n : i < j => s[i] < s[j]
    BY SortingExists DEF Sorted, Sorts
<1> HIDE DEF s, n
<1>3. ASSUME NEW i \in 1..n, NEW j \in 1..n, s[i] = s[j] PROVE i = j
    <2>1. s[i] \in Nat
        <3>1. s[i] \in S /\ \A y \in S : y \in Nat
            BY <1>2
        <3> QED
            BY <3>1
    <2>2. ~(i < j) /\ ~(j < i)
        BY <1>2, <1>3, <2>1
    <2> QED
        BY <1>1, <2>2
<1>4. \A x \in S : \E i \in 1..n : s[i] = x
    <2>1. s \in Injection(1..n, S)
        BY <1>2, <1>3 DEF Injection, IsInjective
    <2>2. Cardinality(1..n) = n
        BY <1>1, FS_Interval
    <2>3. s \in Surjection(1..n, S)
        BY <2>1, <2>2, FS_Injection DEF n
    <2> QED
        BY <2>3 DEF Surjection
<1> QED
    BY <1>1, <1>2, <1>3, <1>4 DEF s, n

(* An injective sequence of nodes is no longer than there are nodes.       *)
LEMMA NoLonger ==
    ASSUME NEW N \in Nat, NEW q, NEW k \in Nat, \A i \in 1..k : q[i] \in 1..N,
           \A i, j \in 1..k : q[i] = q[j] => i = j
    PROVE  k <= N
<1> DEFINE f == [i \in 1..k |-> q[i]]
<1>1. f \in Injection(1..k, 1..N)
    BY DEF Injection, IsInjective
<1>2. Cardinality(1..k) = k /\ Cardinality(1..N) = N /\ IsFiniteSet(1..N)
    BY FS_Interval
<1> QED
    BY <1>1, <1>2, FS_Injection

-----------------------------------------------------------------------------
(* The game of leaving the book, ply by ply.                               *)
IsIterate(f, H, D, m) == f \in [0..m -> D] /\ f[0] = {} /\ \A k \in 1..m : f[k] = H[f[k - 1]]

LEMMA IteratesExist ==
    ASSUME NEW D, {} \in D, NEW H \in [D -> D], NEW N \in Nat
    PROVE  \E f : IsIterate(f, H, D, N)
<1> DEFINE Iterates(f, m) == IsIterate(f, H, D, m)
           T == {m \in Nat : ~\E f : Iterates(f, m)}
<1> SUFFICES ASSUME T # {} PROVE FALSE
    OBVIOUS
<1>1. PICK m \in T : \A l \in T : m <= l
    <2> HIDE DEF T
    <2>1. T \in SUBSET Nat
        BY DEF T
    <2> QED
        BY <2>1, LeastNumber
<1>2. m \in Nat /\ ~\E f : Iterates(f, m)
    BY <1>1
<1>3. CASE m = 0
    <2>1. Iterates([k \in 0..0 |-> {}], 0)
        BY DEF IsIterate
    <2> HIDE DEF Iterates
    <2> QED
        BY <1>2, <1>3, <2>1
<1>4. CASE m # 0
    <2>1. m - 1 \in Nat /\ m - 1 \notin T
        <3>1. m - 1 \in Nat /\ ~(m <= m - 1)
            BY <1>2, <1>4
        <3> HIDE DEF T
        <3> QED
            BY <1>1, <3>1
    <2>2. PICK f : Iterates(f, m - 1)
        BY <2>1
    <2> DEFINE g == [k \in 0..m |-> IF k = m THEN H[f[m - 1]] ELSE f[k]]
    <2>3. f[m - 1] \in D /\ \A k \in 0..(m - 1) : f[k] \in D
        BY <2>1, <2>2 DEF IsIterate
    <2>4. H[f[m - 1]] \in D
        BY <2>3
    <2>5. \A k \in 0..m : k # m => k \in 0..(m - 1)
        BY <1>2
    <2>6. g \in [0..m -> D] /\ \A k \in 0..(m - 1) : g[k] = f[k] /\ g[m] = H[f[m - 1]]
        BY <1>2, <2>3, <2>4, <2>5
    <2> HIDE DEF g
    <2>7. g[0] = {}
        BY <1>2, <1>4, <2>2, <2>6 DEF IsIterate
    <2>8. \A k \in 1..m : g[k] = H[g[k - 1]]
        <3> TAKE k \in 1..m
        <3>1. k - 1 \in 0..(m - 1) /\ g[k - 1] = f[k - 1]
            BY <1>2, <2>6
        <3>2. CASE k = m
            BY <2>6, <3>1, <3>2
        <3>3. CASE k # m
            <4>1. k \in 1..(m - 1) /\ k \in 0..(m - 1)
                BY <1>2, <3>3
            <4> QED
                BY <2>2, <2>6, <3>1, <4>1 DEF IsIterate
        <3> QED
            BY <3>2, <3>3
    <2>9. Iterates(g, m)
        BY <2>6, <2>7, <2>8 DEF IsIterate
    <2> HIDE DEF Iterates
    <2> QED
        BY <1>2, <2>9
<1> QED
    BY <1>3, <1>4

LEMMA ExitsStep ==
    ASSUME NEW N \in Nat, Nodes = 1..N
    PROVE  /\ Cardinality(Nodes) = N /\ Exits[0] = {}
           /\ \A k \in 1..N : Exits[k] = OnePlyMore(Exits[k - 1])
<1> DEFINE UpTo(f) == f = [k \in 0..N |-> IF k = 0 THEN {} ELSE OnePlyMore(f[k - 1])]
           H == [x \in SUBSET Nodes |-> OnePlyMore(x)]
<1>1. Cardinality(Nodes) = N
    BY FS_Interval
<1>2. H \in [SUBSET Nodes -> SUBSET Nodes] /\ \A x \in SUBSET Nodes : H[x] = OnePlyMore(x)
    BY DEF OnePlyMore
<1> HIDE DEF H
<1>3. PICK f \in [0..N -> SUBSET Nodes] : f[0] = {} /\ \A k \in 1..N : f[k] = H[f[k - 1]]
    <2> DEFINE D == SUBSET Nodes
    <2>1. H \in [D -> D] /\ {} \in D
        BY <1>2
    <2>2. \E f : IsIterate(f, H, D, N)
        <3> HIDE DEF D
        <3> QED
            BY <2>1, IteratesExist
    <2> QED
        BY <2>2 DEF IsIterate
<1>4. UpTo(f)
    <2>1. \A k \in 0..N : f[k] = IF k = 0 THEN {} ELSE OnePlyMore(f[k - 1])
        <3> TAKE k \in 0..N
        <3>1. k # 0 => k \in 1..N /\ k - 1 \in 0..N
            OBVIOUS
        <3>2. k # 0 => f[k - 1] \in SUBSET Nodes
            BY <3>1
        <3> QED
            BY <1>2, <1>3, <3>1, <3>2
    <2>2. f = [k \in 0..N |-> f[k]]
        OBVIOUS
    <2>3. [k \in 0..N |-> f[k]] = [k \in 0..N |-> IF k = 0 THEN {} ELSE OnePlyMore(f[k - 1])]
        BY <2>1
    <2> QED
        BY <2>2, <2>3
<1>5. UpTo(Exits)
    <2>1. Exits = CHOOSE g : UpTo(g)
        BY <1>1 DEF Exits
    <2> HIDE DEF UpTo
    <2> QED
        BY <1>4, <2>1
<1>6. \A k \in 0..N : Exits[k] = IF k = 0 THEN {} ELSE OnePlyMore(Exits[k - 1])
    <2> DEFINE G == [k \in 0..N |-> IF k = 0 THEN {} ELSE OnePlyMore(Exits[k - 1])]
    <2>1. Exits = G
        BY <1>5
    <2>2. \A k \in 0..N : G[k] = IF k = 0 THEN {} ELSE OnePlyMore(Exits[k - 1])
        OBVIOUS
    <2> HIDE DEF G, UpTo
    <2> QED
        BY <2>1, <2>2
<1> QED
    BY <1>1, <1>6

(* Of decided nodes, the distance is positive and less than infinite.      *)
LEMMA DecidedFacts ==
    ASSUME NEW N \in Nat, N < kExitDisallowed, Nodes = 1..N, QueueInv
    PROVE  /\ Len(queue) \in Nat /\ Len(queue) <= N /\ kExitDistanceInfinite \in Nat
           /\ head \in 1..(Len(queue) + 1)
           /\ \A n \in Nodes : IsDecided(n) => distance[n] \in 1..N
           /\ N < kExitDistanceInfinite
<1>1. /\ Len(queue) \in Nat /\ \A i \in 1..Len(queue) : queue[i] \in 1..N
      /\ \A i, j \in 1..Len(queue) : queue[i] = queue[j] => i = j
    BY DEF QueueInv
<1>2. Len(queue) <= N
    BY <1>1, NoLonger
<1>3. kExitDistanceInfinite \in Nat /\ N < kExitDistanceInfinite
    BY SolverAssumption DEF kExitDistanceInfinite, kExitDisallowed
<1>4. ASSUME NEW n \in Nodes, IsDecided(n) PROVE distance[n] \in 1..N
    <2>1. PICK i \in 1..Len(queue) : queue[i] = n
        BY <1>4 DEF QueueInv
    <2>2. distance[n] \in 1..i
        BY <2>1 DEF QueueInv
    <2> QED
        BY <1>1, <1>2, <2>1, <2>2
<1>5. head \in 1..(Len(queue) + 1)
    BY DEF QueueInv
<1> QED
    BY <1>1, <1>2, <1>3, <1>4, <1>5

(* What is decided is forced within its distance ...                       *)
LEMMA ForcedWithin ==
    ASSUME GraphTyped, SolverInv, NEW N \in Nat, N < kExitDisallowed, Nodes = 1..N
    PROVE  \A k \in 0..N : \A n \in Nodes : IsDecided(n) /\ distance[n] <= k => n \in Exits[k]
<1> DEFINE T == {k \in 0..N : \E n \in Nodes : IsDecided(n) /\ distance[n] <= k /\ n \notin Exits[k]}
<1> SUFFICES ASSUME T # {} PROVE FALSE
    OBVIOUS
<1>1. PICK k \in T : \A l \in T : k <= l
    <2>1. T \in SUBSET Nat
        OBVIOUS
    <2> HIDE DEF T
    <2> QED
        BY <2>1, LeastNumber
<1>2. PICK n \in Nodes : IsDecided(n) /\ distance[n] <= k /\ n \notin Exits[k]
    BY <1>1
<1>3. k \in 0..N
    BY <1>1
<1>4. QueueInv
    BY DEF SolverInv
<1>5. \A m \in Nodes : IsDecided(m) => distance[m] \in 1..N
    BY <1>4, DecidedFacts
<1>6. k \in 1..N /\ k - 1 \in 0..N /\ distance[n] \in 1..N
    BY <1>2, <1>3, <1>5
<1>7. \A m \in Nodes : IsDecided(m) /\ distance[m] <= k - 1 => m \in Exits[k - 1]
    <2>1. k - 1 \notin T
        <3>1. k \in Nat /\ ~(k <= k - 1)
            BY <1>3
        <3> HIDE DEF T
        <3> QED
            BY <1>1, <3>1
    <2> QED
        BY <1>6, <2>1
<1>8. Exits[k] = OnePlyMore(Exits[k - 1])
    BY <1>6, ExitsStep
<1>9. \A e \in Inside(n) : Child(n, e) \in Nodes
    BY DEF GraphTyped, Inside, Allowed, Child
<1>10. \A e \in Inside(n) : e \in Allowed(n)
    BY DEF Inside
<1>11. ASSUME NEW e \in Inside(n), IsDecided(Child(n, e)), distance[Child(n, e)] < distance[n]
       PROVE  Leaves(n, e, Exits[k - 1])
    <2>1. Child(n, e) \in Nodes /\ distance[Child(n, e)] \in 1..N
        BY <1>5, <1>9, <1>11
    <2>2. distance[Child(n, e)] <= k - 1
        BY <1>2, <1>6, <1>11, <2>1
    <2> QED
        BY <1>7, <1>11, <2>1, <2>2 DEF Leaves, Child
<1>12. CASE IsGote(n)
    <2>1. GoteInv(n)
        BY <1>12 DEF SolverInv
    <2>2. CASE Inside(n) = Allowed(n)
        <3>1. PICK e \in Inside(n) : IsDecided(Child(n, e)) /\ distance[n] = distance[Child(n, e)] + 1
            BY <1>2, <2>1, <2>2 DEF GoteInv
        <3>2. distance[Child(n, e)] < distance[n]
            BY <1>5, <1>9, <3>1
        <3> QED
            BY <1>2, <1>8, <1>10, <1>11, <1>12, <3>1, <3>2 DEF OnePlyMore
    <2>3. CASE Inside(n) # Allowed(n)
        <3>1. PICK e \in Allowed(n) : e \notin Inside(n)
            BY <1>10, <2>3
        <3> QED
            BY <1>2, <1>8, <1>12, <3>1 DEF OnePlyMore, Leaves
    <2> QED
        BY <2>2, <2>3
<1>13. CASE ~IsGote(n)
    <2>1. /\ Allowed(n) # {}
          /\ \A e \in Inside(n) : IsDecided(Child(n, e)) /\ distance[Child(n, e)] < distance[n]
        BY <1>2, <1>13 DEF SolverInv, SenteInv
    <2>2. \A e \in Allowed(n) : Leaves(n, e, Exits[k - 1])
        BY <1>11, <2>1 DEF Leaves
    <2> QED
        BY <1>2, <1>8, <1>13, <2>1, <2>2 DEF OnePlyMore
<1> QED
    BY <1>12, <1>13

(* ... and what is forced within the distance of the queue's head is       *)
(* decided, with no more than that distance.                               *)
Reached(k) == head <= Len(queue) => k <= distance[queue[head]]

LEMMA ForcedIsDecided ==
    ASSUME GraphTyped, SolverInv, NEW N \in Nat, N < kExitDisallowed, Nodes = 1..N
    PROVE  \A k \in 0..N : Reached(k) =>
              \A n \in Exits[k] : n \in Nodes /\ IsDecided(n) /\ distance[n] <= k
<1> DEFINE T == {k \in 0..N : /\ Reached(k)
                              /\ \E n \in Exits[k] : ~(n \in Nodes /\ IsDecided(n) /\ distance[n] <= k)}
<1> SUFFICES ASSUME T # {} PROVE FALSE
    OBVIOUS
<1>1. PICK k \in T : \A l \in T : k <= l
    <2>1. T \in SUBSET Nat
        OBVIOUS
    <2> HIDE DEF T
    <2> QED
        BY <2>1, LeastNumber
<1>2. k \in 0..N /\ Reached(k)
    BY <1>1
<1>3. PICK n \in Exits[k] : ~(n \in Nodes /\ IsDecided(n) /\ distance[n] <= k)
    BY <1>1
<1>4. QueueInv
    BY DEF SolverInv
<1>5. /\ \A m \in Nodes : IsDecided(m) => distance[m] \in 1..N
      /\ Len(queue) \in Nat /\ head \in 1..(Len(queue) + 1)
    BY <1>4, DecidedFacts
<1>6. k # 0
    BY <1>3, ExitsStep
<1>7. k \in 1..N /\ k - 1 \in 0..N
    BY <1>2, <1>6
<1>8. Exits[k] = OnePlyMore(Exits[k - 1])
    BY <1>7, ExitsStep
<1>9. Reached(k - 1) /\ \A i \in 1..Len(queue) : distance[queue[i]] \in Nat
    <2>1. \A i \in 1..Len(queue) : distance[queue[i]] \in Nat
        BY <1>4, <1>5 DEF QueueInv
    <2>2. head <= Len(queue) => head \in 1..Len(queue)
        BY <1>5
    <2> QED
        BY <1>2, <1>7, <2>1, <2>2 DEF Reached
<1>10. \A m \in Exits[k - 1] : m \in Nodes /\ IsDecided(m) /\ distance[m] <= k - 1
    <2>1. k - 1 \notin T
        <3>1. k \in Nat /\ ~(k <= k - 1)
            BY <1>7
        <3> HIDE DEF T
        <3> QED
            BY <1>1, <3>1
    <2> QED
        BY <1>7, <1>9, <2>1
(* What is forced sooner has left the queue.                               *)
<1>11. ASSUME NEW m \in Exits[k - 1] PROVE m \in Done
    <2>1. m \in Nodes /\ IsDecided(m) /\ distance[m] <= k - 1
        BY <1>10
    <2>2. PICK i \in 1..Len(queue) : queue[i] = m
        BY <1>4, <2>1 DEF QueueInv
    <2>3. i < head
        <3> SUFFICES ASSUME head <= i PROVE FALSE
            BY <1>5
        <3>1. head \in 1..Len(queue) /\ head <= Len(queue)
            BY <1>5
        <3>2. distance[queue[head]] <= distance[queue[i]]
            BY <1>4, <3>1 DEF QueueInv
        <3>3. k <= distance[queue[head]]
            BY <1>2, <3>1 DEF Reached
        <3>4. distance[queue[head]] \in Nat /\ distance[queue[i]] \in Nat
            BY <1>9, <3>1
        <3> QED
            BY <1>7, <2>1, <2>2, <3>2, <3>3, <3>4
    <2> QED
        BY <1>5, <2>2, <2>3 DEF Done
<1>12. n \in Nodes
    BY <1>3, <1>8 DEF OnePlyMore
<1>13. \A e \in Inside(n) : e \in Allowed(n) /\ Child(n, e) \in Nodes
    BY <1>12 DEF GraphTyped, Inside, Allowed, Child
<1>14. CASE IsGote(n)
    <2>1. PICK e \in Allowed(n) : Leaves(n, e, Exits[k - 1])
        BY <1>3, <1>8, <1>14 DEF OnePlyMore
    <2>2. GoteInv(n)
        BY <1>12, <1>14 DEF SolverInv
    <2>3. CASE e \in Inside(n)
        <3>1. Child(n, e) \in Exits[k - 1]
            BY <2>1, <2>3 DEF Leaves, Child
        <3>2. IsDecided(n) /\ distance[n] <= distance[Child(n, e)] + 1
            BY <1>11, <2>2, <2>3, <3>1 DEF GoteInv
        <3>3. distance[Child(n, e)] <= k - 1 /\ distance[Child(n, e)] \in 1..N /\ distance[n] \in 1..N
            BY <1>5, <1>10, <1>12, <3>1, <3>2
        <3> QED
            BY <1>3, <1>7, <1>12, <3>2, <3>3
    <2>4. CASE e \notin Inside(n)
        <3>1. distance[n] = 1
            BY <2>1, <2>2, <2>4 DEF GoteInv
        <3>2. IsDecided(n)
            <4>1. kExitDistanceInfinite \in Nat /\ N < kExitDistanceInfinite
                BY <1>4, DecidedFacts
            <4> QED
                BY <1>7, <3>1, <4>1 DEF IsDecided
        <3> QED
            BY <1>3, <1>7, <1>12, <3>1, <3>2
    <2> QED
        BY <2>3, <2>4
<1>15. CASE ~IsGote(n)
    <2>1. Allowed(n) # {} /\ \A e \in Allowed(n) : Leaves(n, e, Exits[k - 1])
        BY <1>3, <1>8, <1>15 DEF OnePlyMore
    <2>2. \A e \in Inside(n) : Child(n, e) \in Exits[k - 1]
        BY <1>13, <2>1 DEF Leaves, Child
    <2>3. OpenEdges(n) = {}
        BY <1>11, <2>2 DEF OpenEdges
    <2>4. SenteInv(n)
        BY <1>12, <1>15 DEF SolverInv
    <2>5. IsDecided(n)
        BY <2>1, <2>3, <2>4 DEF SenteInv
    <2>6. CASE Inside(n) = {} /\ distance[n] = 1
        BY <1>3, <1>7, <1>12, <2>5, <2>6
    <2>7. CASE \E e \in Inside(n) : distance[n] = distance[Child(n, e)] + 1
        <3>1. PICK e \in Inside(n) : distance[n] = distance[Child(n, e)] + 1
            BY <2>7
        <3>2. Child(n, e) \in Nodes /\ IsDecided(Child(n, e)) /\ distance[Child(n, e)] <= k - 1
            BY <1>10, <2>2
        <3>3. distance[Child(n, e)] \in 1..N
            BY <1>5, <3>2
        <3> QED
            BY <1>3, <1>7, <1>12, <2>5, <3>1, <3>2, <3>3
    <2> QED
        BY <2>4, <2>5, <2>6, <2>7 DEF SenteInv
<1> QED
    BY <1>14, <1>15

(* The distances that are set are exact; with an empty queue all are.      *)
LEMMA DistancesOfGame ==
    ASSUME GraphTyped, SolverInv
    PROVE  \A n \in Nodes : IsDecided(n) \/ head = Len(queue) + 1 => distance[n] = Distance(n)
<1>1. PICK N \in Nat : N < kExitDisallowed /\ Nodes = 1..N
    BY DEF GraphTyped
<1>2. QueueInv
    BY DEF SolverInv
<1>3. /\ Len(queue) \in Nat /\ Len(queue) <= N /\ kExitDistanceInfinite \in Nat
      /\ head \in 1..(Len(queue) + 1)
      /\ \A n \in Nodes : IsDecided(n) => distance[n] \in 1..N
      /\ N < kExitDistanceInfinite
    BY <1>1, <1>2, DecidedFacts
<1>4. Cardinality(Nodes) = N
    BY <1>1, ExitsStep
<1> TAKE n \in Nodes
<1> DEFINE S == {k \in 0..N : n \in Exits[k]} \cup {kExitDistanceInfinite}
<1>5. Distance(n) = CHOOSE x \in S : \A y \in S : x <= y
    BY <1>4 DEF Distance, Min
<1>6. \A k \in S : k \in Nat /\ (k # kExitDistanceInfinite => k \in 0..N /\ n \in Exits[k])
    BY <1>3
<1>7. \A d \in S : (\A y \in S : d <= y) => Distance(n) = d
    <2> HIDE DEF S
    <2> TAKE d \in S
    <2> HAVE \A y \in S : d <= y
    <2>1. \A x \in S : (\A y \in S : x <= y) => x = d
        BY <1>6
    <2> QED
        BY <1>5, <2>1
<1>8. \A k \in 0..N : Reached(k) /\ n \in Exits[k] => IsDecided(n) /\ distance[n] <= k
    BY <1>1, ForcedIsDecided
<1>9. CASE IsDecided(n)
    <2>1. distance[n] \in 1..N
        BY <1>3, <1>9
    <2>2. distance[n] \in S
        <3>1. distance[n] \in 0..N /\ distance[n] <= distance[n]
            BY <1>1, <2>1
        <3>2. n \in Exits[distance[n]]
            BY <1>1, <1>9, <3>1, ForcedWithin
        <3> QED
            BY <3>1, <3>2
    <2>3. ASSUME NEW k \in S PROVE distance[n] <= k
        <3>1. CASE k = kExitDistanceInfinite
            BY <1>1, <1>3, <2>1, <3>1
        <3>2. CASE k # kExitDistanceInfinite
            <4>1. k \in 0..N /\ n \in Exits[k]
                BY <1>6, <3>2
            <4>2. CASE Reached(k)
                BY <1>8, <4>1, <4>2
            <4>3. CASE ~Reached(k)
                <5>1. head <= Len(queue) /\ ~(k <= distance[queue[head]])
                    BY <4>3 DEF Reached
                <5>2. head \in 1..Len(queue)
                    BY <1>3, <5>1
                <5>3. PICK i \in 1..Len(queue) : queue[i] = n
                    BY <1>2, <1>9 DEF QueueInv
                <5>4. distance[n] <= distance[queue[head]] + 1 /\ distance[queue[head]] \in Nat
                    BY <1>2, <5>1, <5>2, <5>3 DEF QueueInv
                <5> QED
                    BY <2>1, <4>1, <5>1, <5>4
            <4> QED
                BY <4>2, <4>3
        <3> QED
            BY <3>1, <3>2
    <2> HIDE DEF S
    <2> QED
        BY <1>7, <2>2, <2>3
<1>10. CASE ~IsDecided(n)
    <2> HAVE IsDecided(n) \/ head = Len(queue) + 1
    <2>1. head = Len(queue) + 1
        BY <1>10
    <2>2. \A k \in 0..N : Reached(k)
        BY <1>3, <2>1 DEF Reached
    <2>3. \A k \in 0..N : n \notin Exits[k]
        BY <1>8, <1>10, <2>2
    <2>4. distance[n] = kExitDistanceInfinite
        BY <1>10 DEF IsDecided
    <2>5. S = {kExitDistanceInfinite}
        BY <2>3
    <2>6. kExitDistanceInfinite \in S /\ \A y \in S : kExitDistanceInfinite <= y
        BY <1>3, <2>5
    <2> HIDE DEF S
    <2> QED
        BY <1>7, <2>4, <2>6
<1> QED
    BY <1>9, <1>10

-----------------------------------------------------------------------------
(* The steps of the solver.                                                *)

(* What the graph decides is not changed by a step that leaves it alone.   *)
LEMMA SameGraph ==
    ASSUME graph' = graph
    PROVE  /\ Nodes' = Nodes /\ GraphTyped' = GraphTyped
           /\ \A n : IsGote(n)' = IsGote(n) /\ Allowed(n)' = Allowed(n) /\ Inside(n)' = Inside(n)
           /\ \A n, e : Child(n, e)' = Child(n, e)
BY DEF Nodes, GraphTyped, IsGote, Allowed, Inside, Child

LEMMA GraphFacts ==
    ASSUME GraphTyped, NEW n \in Nodes
    PROVE  /\ IsFiniteSet(Inside(n)) /\ Inside(n) \subseteq Allowed(n)
           /\ \A e \in Inside(n) : Child(n, e) \in Nodes
           /\ \A c : EdgesTo(n, c) = {e \in Inside(n) : Child(n, e) = c}
<1>1. IsFiniteSet(DOMAIN graph.edges[n]) /\ Inside(n) \subseteq DOMAIN graph.edges[n]
    BY DEF GraphTyped, Inside, Allowed
<1>2. IsFiniteSet(Inside(n))
    BY <1>1, FS_Subset
<1> QED
    BY <1>2 DEF GraphTyped, Inside, Allowed, Child, EdgesTo

LEMMA IsSequence ==
    ASSUME NEW n \in Nat, NEW S, NEW T, S \subseteq T, NEW s \in [1..n -> S]
    PROVE  s \in Seq(T) /\ Len(s) = n /\ \A i \in 1..n : s[i] \in S
<1>1. s \in [1..n -> T]
    OBVIOUS
<1> QED
    BY <1>1

LEMMA Appended ==
    ASSUME NEW T, NEW s \in Seq(T), NEW t \in Seq(T)
    PROVE  /\ s \o t \in Seq(T) /\ Len(s \o t) = Len(s) + Len(t)
           /\ \A i \in 1..Len(s) : (s \o t)[i] = s[i]
           /\ \A i \in 1..(Len(s) + Len(t)) : i \notin 1..Len(s) =>
                i - Len(s) \in 1..Len(t) /\ (s \o t)[i] = t[i - Len(s)]
OBVIOUS

LEMMA SeedSettles ==
    ASSUME GraphTyped, Seed
    PROVE  SolverInv'
<1>1. PICK N \in Nat : N < kExitDisallowed /\ Nodes = 1..N
    BY DEF GraphTyped
<1> DEFINE exits == {n \in Nodes : ImmediatelyFinite(n)}
           size == Cardinality(exits)
<1>2. graph' = graph
    BY DEF Seed
<1>3. /\ Nodes' = Nodes
      /\ \A n : IsGote(n)' = IsGote(n) /\ Allowed(n)' = Allowed(n) /\ Inside(n)' = Inside(n)
      /\ \A n, e : Child(n, e)' = Child(n, e)
    BY <1>2, SameGraph
<1>4. kExitDistanceInfinite \in Nat /\ kExitDistanceInfinite > 1
    BY <1>1, SolverAssumption DEF kExitDistanceInfinite, kExitDisallowed
<1>5. /\ distance' = [n \in Nodes |-> IF n \in exits THEN 1 ELSE kExitDistanceInfinite]
      /\ queue' = Sorted(exits) /\ head' = 1
      /\ maxChild' = [n \in Nodes |-> 0]
      /\ unresolved' = [n \in Nodes |-> IF IsGote(n) THEN 0 ELSE Cardinality(Inside(n))]
    BY DEF Seed
<1>6. /\ exits \in SUBSET Nat /\ exits \subseteq Nodes
      /\ IsFiniteSet(exits)
    <2>1. exits \subseteq 1..N /\ exits \in SUBSET Nat
        BY <1>1
    <2> QED
        BY <1>1, <2>1, FS_Interval, FS_Subset
<1>7. \A n \in Nodes : n \in exits <=> ImmediatelyFinite(n)
    OBVIOUS
<1> HIDE DEF exits
<1>8. /\ size \in Nat /\ queue' \in [1..size -> exits]
      /\ \A i, j \in 1..size : queue'[i] = queue'[j] => i = j
      /\ \A x \in exits : \E i \in 1..size : queue'[i] = x
    BY <1>5, <1>6, SortedFacts
<1> HIDE DEF size
<1>9. queue' \in Seq(Nodes) /\ Len(queue') = size /\ \A i \in 1..size : queue'[i] \in exits
    BY <1>6, <1>8, IsSequence
<1>10. \A n \in Nodes : (IsDecided(n)' <=> n \in exits) /\ (n \in exits => distance'[n] = 1)
    BY <1>4, <1>5 DEF IsDecided
<1>11. SolverTyped'
    BY <1>3, <1>5 DEF SolverTyped
<1>12. QueueInv'
    <2>1. \A i \in 1..size : distance'[queue'[i]] = 1 /\ queue'[i] \in Nodes
        BY <1>6, <1>9, <1>10
    <2>2. head' \in 1..(Len(queue') + 1)
        BY <1>5, <1>8, <1>9
    <2>3. \A n \in Nodes : IsDecided(n)' <=> \E i \in 1..size : queue'[i] = n
        BY <1>8, <1>9, <1>10
    <2>4. \A i \in 1..size : distance'[queue'[i]] \in 1..i
        BY <1>8, <2>1
    <2>5. \A i \in 1..size : distance'[queue'[i]] <= distance'[queue'[1]] + 1
        <3> TAKE i \in 1..size
        <3>1. 1 \in 1..size
            BY <1>8
        <3> QED
            BY <2>1, <3>1
    <2>6. \A i, j \in 1..size : i <= j => distance'[queue'[i]] <= distance'[queue'[j]]
        BY <2>1
    <2> QED
        BY <1>3, <1>5, <1>8, <1>9, <2>2, <2>3, <2>4, <2>5, <2>6 DEF QueueInv
<1>13. Done' = {}
    BY <1>5 DEF Done
<1>14. ASSUME NEW n \in Nodes, IsGote(n) PROVE GoteInv(n)'
    BY <1>3, <1>7, <1>10, <1>13, <1>14 DEF GoteInv, ImmediatelyFinite
<1>15. ASSUME NEW n \in Nodes, ~IsGote(n) PROVE SenteInv(n)'
    <2>1. OpenEdges(n)' = Inside(n)
        BY <1>3, <1>13 DEF OpenEdges
    <2>2. unresolved'[n] = Cardinality(Inside(n)) /\ maxChild'[n] = 0
        BY <1>5, <1>15
    <2>3. n \in exits <=> Allowed(n) # {} /\ Inside(n) = {}
        BY <1>7, <1>15 DEF ImmediatelyFinite
    <2> QED
        BY <1>3, <1>10, <2>1, <2>2, <2>3 DEF SenteInv
<1> QED
    BY <1>3, <1>11, <1>12, <1>14, <1>15 DEF SolverInv

LEMMA MaxIs ==
    ASSUME NEW a \in Int, NEW b \in Int, a <= b
    PROVE  Max({a, b}) = b
<1>1. Max({a, b}) = CHOOSE x \in {a, b} : \A y \in {a, b} : x >= y
    BY DEF Max
<1> QED
    BY <1>1

LEMMA PopSettles ==
    ASSUME GraphTyped, SolverInv, Pop
    PROVE  SolverInv'
<1>1. PICK N \in Nat : N < kExitDisallowed /\ Nodes = 1..N
    BY DEF GraphTyped
<1> DEFINE c == queue[head]
           d == distance[c]
           parents == {n \in Nodes : EdgesTo(n, c) # {} /\ distance[n] = kExitDistanceInfinite}
           sente == {n \in parents : ~IsGote(n)}
           highest == [n \in Nodes |-> IF n \in sente THEN Max({maxChild[n], d}) ELSE maxChild[n]]
           D == {n \in parents : IsGote(n) \/ Left(n, c) = 0}
           size == Cardinality(D)
           L == Len(queue)
<1>2. graph' = graph
    BY DEF Pop
<1>3. /\ Nodes' = Nodes
      /\ \A n : IsGote(n)' = IsGote(n) /\ Allowed(n)' = Allowed(n) /\ Inside(n)' = Inside(n)
      /\ \A n, e : Child(n, e)' = Child(n, e)
    BY <1>2, SameGraph
<1>4. QueueInv
    BY DEF SolverInv
<1>5. /\ L \in Nat /\ L <= N /\ kExitDistanceInfinite \in Nat /\ head \in 1..(L + 1)
      /\ \A n \in Nodes : IsDecided(n) => distance[n] \in 1..N
      /\ N < kExitDistanceInfinite
    BY <1>1, <1>4, DecidedFacts
<1>6. head \in 1..L /\ N + 1 < kExitDistanceInfinite
    <2>1. head <= L
        BY DEF Pop, Solving
    <2>2. kExitDisallowed = kExitDistanceInfinite - 1
        BY DEF kExitDisallowed, kExitDistanceInfinite
    <2> QED
        BY <1>1, <1>5, <2>1, <2>2
<1>7. /\ \A i \in 1..L : queue[i] \in Nodes /\ IsDecided(queue[i])
      /\ \A i \in 1..L : distance[queue[i]] \in 1..i
      /\ \A i \in 1..L : distance[queue[i]] <= d + 1
      /\ \A i, j \in 1..L : i <= j => distance[queue[i]] <= distance[queue[j]]
      /\ \A i, j \in 1..L : queue[i] = queue[j] => i = j
      /\ \A n \in Nodes : IsDecided(n) => \E i \in 1..L : queue[i] = n
    <2>1. \A i \in 1..L : queue[i] \in Nodes
        BY <1>4 DEF QueueInv
    <2> QED
        BY <1>4, <1>6, <2>1 DEF QueueInv
<1>8. c \in Nodes /\ IsDecided(c) /\ d \in 1..head /\ d \in 1..N
    BY <1>5, <1>6, <1>7
<1>9. /\ unresolved' = [n \in Nodes |-> IF n \in sente THEN Left(n, c) ELSE unresolved[n]]
      /\ maxChild' = highest
      /\ distance' = [n \in Nodes |-> IF n \notin D THEN distance[n]
                                      ELSE IF IsGote(n) THEN d + 1 ELSE highest[n] + 1]
      /\ queue' = queue \o Sorted(D)
      /\ head' = head + 1
    BY DEF Pop, Distances
<1>10. /\ \A n \in Nodes : n \in parents <=> EdgesTo(n, c) # {} /\ ~IsDecided(n)
       /\ \A n \in Nodes : n \in sente <=> n \in parents /\ ~IsGote(n)
       /\ \A n \in Nodes : n \in D <=> n \in parents /\ (IsGote(n) \/ Left(n, c) = 0)
       /\ D \subseteq Nodes
    BY DEF IsDecided
<1>11. \A n \in Nodes : highest[n] = IF n \in sente THEN Max({maxChild[n], d}) ELSE maxChild[n]
    OBVIOUS
<1> HIDE DEF highest, parents, sente, D
<1>12. Done' = Done \cup {c} /\ c \notin Done /\ Done \subseteq Nodes
    <2>1. \A i \in 1..head : i \in 1..L /\ queue'[i] = queue[i]
        BY <1>5, <1>6, <1>9
    <2>2. Done' = {queue[i] : i \in 1..head}
        <3>1. head' - 1 = head
            BY <1>6, <1>9
        <3> QED
            BY <2>1, <3>1 DEF Done
    <2>3. \A i \in 1..(head - 1) : i \in 1..L /\ i # head
        BY <1>6
    <2>4. \A i \in 1..head : i \in 1..(head - 1) \/ i = head
        BY <1>6
    <2>5. \A i \in 1..(head - 1) : i \in 1..head
        BY <1>6
    <2>6. head \in 1..head
        BY <1>6
    <2>7. Done' = Done \cup {c}
        <3> HIDE DEF c
        <3>1. c = queue[head]
            BY DEF c
        <3> QED
            BY <2>2, <2>4, <2>5, <2>6, <3>1 DEF Done
    <2>8. \A i \in 1..(head - 1) : queue[i] # c /\ queue[i] \in Nodes
        BY <1>6, <1>7, <2>3
    <2> HIDE DEF c
    <2> QED
        BY <2>7, <2>8 DEF Done
<1>13. \A n \in Done : n \in Nodes /\ IsDecided(n) /\ distance[n] <= d /\ distance[n] \in 1..N
    <2> TAKE n \in Done
    <2>1. PICK i \in 1..(head - 1) : n = queue[i]
        BY DEF Done
    <2>2. i \in 1..L /\ i <= head
        BY <1>6
    <2> QED
        BY <1>5, <1>6, <1>7, <2>1, <2>2
<1>14. ASSUME NEW n \in Nodes
       PROVE  /\ IsGote(n) => GoteInv(n)
              /\ ~IsGote(n) => SenteInv(n)
    BY DEF SolverInv
<1>15. \A n \in sente : highest[n] = d
    <2> TAKE n \in sente
    <2>1. n \in Nodes /\ ~IsGote(n) /\ ~IsDecided(n)
        BY <1>10 DEF sente, parents
    <2>2. maxChild[n] = 0 \/ \E e \in Inside(n) : Child(n, e) \in Done /\ maxChild[n] = distance[Child(n, e)]
        BY <1>14, <2>1 DEF SenteInv
    <2>3. maxChild[n] \in Int /\ maxChild[n] <= d /\ d \in Int
        BY <1>8, <1>13, <2>2
    <2>4. Max({maxChild[n], d}) = d
        <3> HIDE DEF d
        <3> QED
            BY <2>3, MaxIs
    <2> QED
        BY <1>11, <2>1, <2>4
<1>16. \A n \in Nodes : distance'[n] = IF n \in D THEN d + 1 ELSE distance[n]
    <2> TAKE n \in Nodes
    <2>1. CASE n \in D /\ ~IsGote(n)
        BY <1>9, <1>10, <1>15, <2>1
    <2>2. CASE ~(n \in D /\ ~IsGote(n))
        BY <1>9, <2>2
    <2> QED
        BY <2>1, <2>2
<1>17. \A n \in Nodes : distance'[n] # kExitDistanceInfinite <=> IsDecided(n) \/ n \in D
    BY <1>6, <1>8, <1>16 DEF IsDecided
<1>18. \A n \in Nodes : IsDecided(n) => n \notin D /\ distance'[n] = distance[n]
    BY <1>10, <1>16
<1>19. D \in SUBSET Nat /\ IsFiniteSet(D)
    <2>1. D \subseteq 1..N /\ \A x \in D : x \in Nat
        BY <1>1, <1>10
    <2>2. IsFiniteSet(1..N)
        BY <1>1, FS_Interval
    <2>3. IsFiniteSet(D)
        BY <2>1, <2>2, FS_Subset
    <2> QED
        BY <2>1, <2>3
<1>20. /\ size \in Nat /\ Sorted(D) \in [1..size -> D]
       /\ \A i, j \in 1..size : Sorted(D)[i] = Sorted(D)[j] => i = j
       /\ \A x \in D : \E i \in 1..size : Sorted(D)[i] = x
    BY <1>19, SortedFacts
<1> HIDE DEF size
<1>21. Sorted(D) \in Seq(Nodes) /\ Len(Sorted(D)) = size /\ \A i \in 1..size : Sorted(D)[i] \in D
    BY <1>10, <1>20, IsSequence
<1>22. /\ queue' \in Seq(Nodes) /\ Len(queue') = L + size
       /\ \A i \in 1..L : queue'[i] = queue[i]
       /\ \A i \in 1..(L + size) : i \notin 1..L => i - L \in 1..size /\ queue'[i] = Sorted(D)[i - L]
    <2>1. queue \in Seq(Nodes)
        BY <1>4 DEF QueueInv
    <2>2. queue' = queue \o Sorted(D)
        BY <1>9
    <2>3. /\ queue' \in Seq(Nodes) /\ Len(queue') = Len(queue) + Len(Sorted(D))
          /\ \A i \in 1..Len(queue) : queue'[i] = queue[i]
          /\ \A i \in 1..(Len(queue) + Len(Sorted(D))) : i \notin 1..Len(queue) =>
                i - Len(queue) \in 1..Len(Sorted(D)) /\ queue'[i] = Sorted(D)[i - Len(queue)]
        <3>1. Sorted(D) \in Seq(Nodes)
            BY <1>21
        <3> QED
            BY ONLY <2>1, <2>2, <3>1, Appended
    <2> QED
        BY <1>21, <2>3
<1>23. SolverTyped'
    BY <1>3, <1>9, <1>11 DEF SolverTyped, highest
<1>24. QueueInv'
    <2>1. \A i \in 1..(L + size) : i \notin 1..L => i > L /\ queue'[i] \in D /\ distance'[queue'[i]] = d + 1
        BY <1>5, <1>10, <1>16, <1>20, <1>21, <1>22
    <2>2. \A i \in 1..L : queue'[i] = queue[i] /\ queue'[i] \notin D /\ distance'[queue'[i]] = distance[queue[i]]
        BY <1>7, <1>18, <1>22
    <2>3. head' \in 1..(Len(queue') + 1)
        BY <1>5, <1>6, <1>9, <1>20, <1>22
    <2>4. ASSUME NEW i \in 1..(L + size), NEW j \in 1..(L + size), queue'[i] = queue'[j] PROVE i = j
        <3>1. CASE i \in 1..L
            BY <1>7, <2>1, <2>2, <2>4, <3>1
        <3>2. CASE i \notin 1..L
            <4>1. j \notin 1..L
                BY <2>1, <2>2, <2>4, <3>2
            <4>2. i - L \in 1..size /\ j - L \in 1..size /\ Sorted(D)[i - L] = Sorted(D)[j - L]
                BY <1>22, <2>4, <3>2, <4>1
            <4>3. i - L = j - L
                BY <1>20, <4>2
            <4> QED
                BY <1>5, <4>3
        <3> QED
            BY <3>1, <3>2
    <2>5. \A n \in Nodes : distance'[n] # kExitDistanceInfinite <=> \E i \in 1..(L + size) : queue'[i] = n
        <3> TAKE n \in Nodes
        <3>1. IsDecided(n) => \E i \in 1..(L + size) : queue'[i] = n
            <4> SUFFICES ASSUME IsDecided(n) PROVE \E i \in 1..(L + size) : queue'[i] = n
                OBVIOUS
            <4>1. PICK i \in 1..L : queue[i] = n
                BY <1>7
            <4>2. i \in 1..(L + size)
                BY <1>5, <1>20
            <4> QED
                BY <1>22, <4>1, <4>2
        <3>2. n \in D => \E i \in 1..(L + size) : queue'[i] = n
            <4> SUFFICES ASSUME n \in D PROVE \E i \in 1..(L + size) : queue'[i] = n
                OBVIOUS
            <4>1. PICK i \in 1..size : Sorted(D)[i] = n
                BY <1>20
            <4>2. L + i \in 1..(L + size) /\ L + i \notin 1..L /\ (L + i) - L = i
                BY <1>5, <1>20
            <4> QED
                BY <1>22, <4>1, <4>2
        <3>3. \A i \in 1..(L + size) : queue'[i] = n => IsDecided(n) \/ n \in D
            BY <1>7, <2>1, <2>2
        <3> QED
            BY <1>17, <3>1, <3>2, <3>3
    <2>6. \A i \in 1..(L + size) : distance'[queue'[i]] \in 1..i
        <3> TAKE i \in 1..(L + size)
        <3>1. CASE i \in 1..L
            BY <1>7, <2>2, <3>1
        <3>2. CASE i \notin 1..L
            BY <1>5, <1>6, <1>8, <2>1, <3>2
        <3> QED
            BY <3>1, <3>2
    <2>7. \A i, j \in 1..(L + size) : i <= j => distance'[queue'[i]] <= distance'[queue'[j]]
        <3> TAKE i, j \in 1..(L + size)
        <3> HAVE i <= j
        <3>1. CASE j \in 1..L
            <4>1. i \in 1..L
                BY <3>1
            <4> QED
                BY <1>7, <2>2, <3>1, <4>1
        <3>2. CASE j \notin 1..L
            <4>1. distance'[queue'[j]] = d + 1
                BY <2>1, <3>2
            <4>2. CASE i \in 1..L
                BY <1>7, <2>2, <4>1, <4>2
            <4>3. CASE i \notin 1..L
                BY <1>8, <2>1, <4>1, <4>3
            <4> QED
                BY <4>2, <4>3
        <3> QED
            BY <3>1, <3>2
    <2>8. head' <= L + size => \A i \in 1..(L + size) : distance'[queue'[i]] <= distance'[queue'[head']] + 1
        <3> SUFFICES ASSUME head' <= L + size, NEW i \in 1..(L + size)
                     PROVE  distance'[queue'[i]] <= distance'[queue'[head']] + 1
            OBVIOUS
        <3>1. head' \in 1..(L + size) /\ head \in 1..(L + size) /\ head <= head'
            BY <1>5, <1>6, <1>9, <1>20
        <3>2. distance'[queue'[head]] = d
            BY <1>6, <2>2
        <3>3. d <= distance'[queue'[head']]
            BY <2>7, <3>1, <3>2
        <3>4. distance'[queue'[i]] <= d + 1
            <4>1. CASE i \in 1..L
                BY <1>7, <2>2, <4>1
            <4>2. CASE i \notin 1..L
                BY <1>8, <2>1, <4>2
            <4> QED
                BY <4>1, <4>2
        <3>5. distance'[queue'[i]] \in Int /\ distance'[queue'[head']] \in Int
            BY <2>6, <3>1
        <3> QED
            BY <1>8, <3>3, <3>4, <3>5
    <2> HIDE DEF L
    <2> QED
        BY <1>3, <1>22, <2>3, <2>4, <2>5, <2>6, <2>7, <2>8 DEF QueueInv, IsDecided
<1>25. ASSUME NEW n \in Nodes
       PROVE  /\ IsFiniteSet(Inside(n)) /\ Inside(n) \subseteq Allowed(n)
              /\ \A e \in Inside(n) : Child(n, e) \in Nodes
              /\ EdgesTo(n, c) = {e \in Inside(n) : Child(n, e) = c}
    BY GraphFacts
<1>26. ASSUME NEW n \in Nodes, n \in D
       PROVE  /\ ~IsDecided(n) /\ distance'[n] # kExitDistanceInfinite /\ distance'[n] = d + 1
              /\ \E e \in Inside(n) : Child(n, e) = c
              /\ IsGote(n) \/ Left(n, c) = 0
    BY <1>10, <1>16, <1>17, <1>25, <1>26
<1>27. distance'[c] # kExitDistanceInfinite /\ distance'[c] = d
    BY <1>8, <1>17, <1>18
<1>28. ASSUME NEW n \in Nodes, IsGote(n) PROVE GoteInv(n)'
    <2>1. GoteInv(n)
        BY <1>14, <1>28
    <2>2. ASSUME NEW e \in Inside(n), Child(n, e) \in Done'
          PROVE  distance'[n] # kExitDistanceInfinite /\ distance'[n] <= distance'[Child(n, e)] + 1
        <3>1. CASE Child(n, e) \in Done
            <4>1. IsDecided(n) /\ distance[n] <= distance[Child(n, e)] + 1
                BY <2>1, <3>1 DEF GoteInv
            <4>2. distance'[n] = distance[n] /\ distance'[Child(n, e)] = distance[Child(n, e)]
                BY <1>13, <1>18, <3>1, <4>1
            <4> QED
                BY <1>17, <4>1, <4>2
        <3>2. CASE Child(n, e) = c
            <4>1. CASE IsDecided(n)
                <5>1. PICK i \in 1..L : queue[i] = n
                    BY <1>7, <4>1
                <5>2. distance[n] <= d + 1
                    BY <1>7, <5>1
                <5> QED
                    BY <1>17, <1>18, <1>27, <3>2, <4>1, <5>2
            <4>2. CASE ~IsDecided(n)
                <5>1. EdgesTo(n, c) # {}
                    BY <1>25, <3>2
                <5>2. n \in D
                    BY <1>10, <1>28, <4>2, <5>1
                <5>3. distance'[n] = d + 1 /\ distance'[n] # kExitDistanceInfinite
                    BY <1>26, <5>2
                <5> QED
                    BY <1>8, <1>27, <3>2, <5>3
            <4> QED
                BY <4>1, <4>2
        <3> QED
            BY <1>12, <2>2, <3>1, <3>2
    <2>3. Inside(n) # Allowed(n) => distance'[n] = 1
        <3> SUFFICES ASSUME Inside(n) # Allowed(n) PROVE distance'[n] = 1
            OBVIOUS
        <3>1. distance[n] = 1
            BY <2>1 DEF GoteInv
        <3>2. IsDecided(n)
            BY <1>5, <1>6, <1>8, <3>1 DEF IsDecided
        <3> QED
            BY <1>18, <3>1, <3>2
    <2>4. distance'[n] # kExitDistanceInfinite /\ Inside(n) = Allowed(n) =>
            \E e \in Inside(n) : distance'[Child(n, e)] # kExitDistanceInfinite /\ distance'[n] = distance'[Child(n, e)] + 1
        <3>1. CASE n \in D
            BY <1>26, <1>27, <3>1
        <3>2. CASE IsDecided(n) /\ Inside(n) = Allowed(n)
            <4>1. PICK e \in Inside(n) : IsDecided(Child(n, e)) /\ distance[n] = distance[Child(n, e)] + 1
                BY <2>1, <3>2 DEF GoteInv
            <4>2. distance'[Child(n, e)] # kExitDistanceInfinite /\ distance'[Child(n, e)] = distance[Child(n, e)]
                BY <1>17, <1>18, <1>25, <4>1
            <4> QED
                BY <1>18, <3>2, <4>1, <4>2
        <3> QED
            BY <1>17, <3>1, <3>2
    <2> HIDE DEF c, d, L
    <2> QED
        BY <1>3, <2>2, <2>3, <2>4 DEF GoteInv, IsDecided
<1>29. ASSUME NEW n \in Nodes, ~IsGote(n) PROVE SenteInv(n)'
    <2>1. SenteInv(n)
        BY <1>14, <1>29
    <2>2. /\ OpenEdges(n)' = OpenEdges(n) \ EdgesTo(n, c)
          /\ EdgesTo(n, c) \subseteq OpenEdges(n)
          /\ IsFiniteSet(OpenEdges(n)) /\ IsFiniteSet(EdgesTo(n, c))
        <3>1. OpenEdges(n)' = {e \in Inside(n) : Child(n, e) \notin Done'}
            BY <1>3 DEF OpenEdges
        <3>2. OpenEdges(n) \subseteq Inside(n) /\ EdgesTo(n, c) \subseteq Inside(n)
            BY <1>25 DEF OpenEdges
        <3>3. IsFiniteSet(OpenEdges(n)) /\ IsFiniteSet(EdgesTo(n, c))
            BY <1>25, <3>2, FS_Subset
        <3>4. EdgesTo(n, c) \subseteq OpenEdges(n)
            BY <1>12, <1>25 DEF OpenEdges
        <3>5. OpenEdges(n)' = OpenEdges(n) \ EdgesTo(n, c)
            <4> HIDE DEF c
            <4> QED
                BY <1>12, <1>25, <3>1 DEF OpenEdges
        <3> QED
            BY <3>3, <3>4, <3>5
    <2>3. /\ Cardinality(OpenEdges(n)') = Cardinality(OpenEdges(n)) - Cardinality(EdgesTo(n, c))
          /\ Cardinality(OpenEdges(n)) \in Nat /\ Cardinality(EdgesTo(n, c)) \in Nat
        <3>1. OpenEdges(n) \cap EdgesTo(n, c) = EdgesTo(n, c)
            BY <2>2
        <3>2. Cardinality(OpenEdges(n) \ EdgesTo(n, c)) = Cardinality(OpenEdges(n)) - Cardinality(EdgesTo(n, c))
            BY <2>2, <3>1, FS_Difference
        <3> QED
            BY <2>2, <3>2, FS_CardinalityType
    <2>4. \A e \in Inside(n) : Child(n, e) \in Done' =>
            distance'[Child(n, e)] # kExitDistanceInfinite /\ distance'[Child(n, e)] <= d /\ distance'[Child(n, e)] \in Int
        <3> TAKE e \in Inside(n)
        <3> HAVE Child(n, e) \in Done'
        <3>1. CASE Child(n, e) \in Done
            BY <1>13, <1>17, <1>18, <3>1
        <3>2. CASE Child(n, e) = c
            BY <1>8, <1>27, <3>2
        <3> QED
            BY <1>12, <3>1, <3>2
    <2>5. ASSUME distance'[n] = kExitDistanceInfinite
          PROVE  /\ unresolved'[n] = Cardinality(OpenEdges(n)')
                 /\ OpenEdges(n)' # {} \/ Allowed(n) = {}
                 /\ \/ maxChild'[n] = 0
                    \/ \E e \in Inside(n) : Child(n, e) \in Done' /\ maxChild'[n] = distance'[Child(n, e)]
        <3>1. ~IsDecided(n) /\ n \notin D
            BY <1>17, <2>5
        <3>2. /\ unresolved[n] = Cardinality(OpenEdges(n))
              /\ OpenEdges(n) # {} \/ Allowed(n) = {}
              /\ maxChild[n] = 0 \/ \E e \in Inside(n) : Child(n, e) \in Done /\ maxChild[n] = distance[Child(n, e)]
            BY <2>1, <3>1 DEF SenteInv
        <3>3. CASE EdgesTo(n, c) = {}
            <4>1. n \notin sente
                BY <1>10, <3>3
            <4>2. unresolved'[n] = unresolved[n] /\ maxChild'[n] = maxChild[n]
                BY <1>9, <1>11, <4>1
            <4>3. OpenEdges(n)' = OpenEdges(n)
                BY <2>2, <3>3
            <4>4. \A e \in Inside(n) : Child(n, e) \in Done =>
                    Child(n, e) \in Done' /\ distance'[Child(n, e)] = distance[Child(n, e)]
                BY <1>12, <1>13, <1>18
            <4> QED
                BY <3>2, <4>2, <4>3, <4>4
        <3>4. CASE EdgesTo(n, c) # {}
            <4>1. n \in parents /\ n \in sente
                BY <1>10, <1>29, <3>1, <3>4
            <4>2. unresolved'[n] = Left(n, c) /\ maxChild'[n] = d /\ Left(n, c) # 0
                BY <1>9, <1>10, <1>15, <1>29, <3>1, <4>1
            <4>3. Left(n, c) = Cardinality(OpenEdges(n)')
                BY <2>3, <3>2 DEF Left
            <4>4. OpenEdges(n)' # {}
                <5>1. Cardinality({}) = 0
                    BY FS_EmptySet
                <5> QED
                    BY <4>2, <4>3, <5>1
            <4>5. \E e \in Inside(n) : Child(n, e) \in Done' /\ maxChild'[n] = distance'[Child(n, e)]
                BY <1>12, <1>25, <1>27, <3>4, <4>2
            <4> QED
                BY <4>2, <4>3, <4>4, <4>5
        <3> QED
            BY <3>3, <3>4
    <2>6. ASSUME distance'[n] # kExitDistanceInfinite
          PROVE  /\ Allowed(n) # {}
                 /\ \A e \in Inside(n) : distance'[Child(n, e)] # kExitDistanceInfinite /\ distance'[Child(n, e)] < distance'[n]
                 /\ \/ Inside(n) = {} /\ distance'[n] = 1
                    \/ \E e \in Inside(n) : distance'[n] = distance'[Child(n, e)] + 1
        <3>1. CASE IsDecided(n)
            <4>1. /\ Allowed(n) # {}
                  /\ \A e \in Inside(n) : IsDecided(Child(n, e)) /\ distance[Child(n, e)] < distance[n]
                  /\ \/ Inside(n) = {} /\ distance[n] = 1
                     \/ \E e \in Inside(n) : distance[n] = distance[Child(n, e)] + 1
                BY <2>1, <3>1 DEF SenteInv
            <4>2. distance'[n] = distance[n]
                BY <1>18, <3>1
            <4>3. \A e \in Inside(n) : distance'[Child(n, e)] # kExitDistanceInfinite /\ distance'[Child(n, e)] = distance[Child(n, e)]
                BY <1>17, <1>18, <1>25, <4>1
            <4> QED
                BY <4>1, <4>2, <4>3
        <3>2. CASE n \in D
            <4>1. /\ ~IsDecided(n) /\ distance'[n] = d + 1 /\ Left(n, c) = 0
                  /\ \E e \in Inside(n) : Child(n, e) = c
                BY <1>26, <1>29, <3>2
            <4>2. unresolved[n] = Cardinality(OpenEdges(n))
                BY <2>1, <4>1 DEF SenteInv
            <4>3. Cardinality(OpenEdges(n)') = 0
                BY <2>3, <4>1, <4>2 DEF Left
            <4>4. OpenEdges(n)' = {}
                <5>1. IsFiniteSet(OpenEdges(n)')
                    BY <2>2, FS_Subset
                <5> QED
                    BY <4>3, <5>1, FS_EmptySet
            <4>5. \A e \in Inside(n) : Child(n, e) \in Done'
                BY <1>3, <4>4 DEF OpenEdges
            <4>6. Allowed(n) # {}
                BY <1>25, <4>1
            <4>7. \A e \in Inside(n) : distance'[Child(n, e)] # kExitDistanceInfinite /\ distance'[Child(n, e)] < distance'[n]
                BY <1>8, <2>4, <4>1, <4>5
            <4> QED
                BY <1>27, <4>1, <4>6, <4>7
        <3> QED
            BY <1>17, <2>6, <3>1, <3>2
    <2> HIDE DEF c, d, L
    <2> QED
        BY <1>3, <2>5, <2>6 DEF SenteInv, IsDecided
<1> QED
    BY <1>3, <1>23, <1>24, <1>28, <1>29 DEF SolverInv

-----------------------------------------------------------------------------
(* The source book.                                                        *)
Off(n) == book.index[n].off
Count(n) == book.index[n].count

LEMMA OfSequence ==
    ASSUME NEW T, NEW s \in Seq(T)
    PROVE  Len(s) \in Nat /\ DOMAIN s = 1..Len(s) /\ \A i \in 1..Len(s) : s[i] \in T
OBVIOUS

LEMMA TaskTyped ==
    ASSUME task \in Tasks
    PROVE  /\ Len(book.index) \in Nat /\ Len(book.moves) \in Nat
           /\ \A n \in 1..Len(book.index) :
                Off(n) \in Nat /\ Count(n) \in Nat /\ Key(n) \in Int
                /\ book.index[n] \in [key : Int, off : Nat, count : Nat]
           /\ \A m \in 1..Len(book.moves) :
                book.moves[m] \in [move : Int, eval : Int, to : Int, kind : {"legal", "illegal", "garbage"}]
           /\ book.index \in Seq([key : Int, off : Nat, count : Nat])
           /\ DOMAIN book.index = 1..Len(book.index)
           /\ NodeCount \in Nat /\ NodeCount <= Len(book.index)
           /\ options.margin \in Nat /\ options.force \in BOOLEAN /\ task.gote \subseteq Int
           /\ ~options.validate => \A m \in 1..Len(book.moves) : book.moves[m].kind # "illegal"
<1>1. book \in Books
    BY BookAssumption DEF book
<1>2. /\ options \in [margin : Nat, maxPositions : Nat, validate : BOOLEAN, force : BOOLEAN]
      /\ task.gote \subseteq Int
      /\ ~options.validate => \A m \in DOMAIN book.moves : book.moves[m].kind # "illegal"
    BY BookAssumption DEF book, options
<1> DEFINE entries == book.index
           moves == book.moves
<1>3. /\ entries \in Seq([key : Int, off : Nat, count : Nat])
      /\ moves \in Seq([move : Int, eval : Int, to : Int, kind : {"legal", "illegal", "garbage"}])
    BY <1>1 DEF Books
<1> HIDE DEF entries, moves
<1>4. /\ Len(entries) \in Nat /\ Len(moves) \in Nat
      /\ DOMAIN entries = 1..Len(entries) /\ DOMAIN moves = 1..Len(moves)
      /\ \A n \in 1..Len(entries) : entries[n] \in [key : Int, off : Nat, count : Nat]
      /\ \A m \in 1..Len(moves) :
            moves[m] \in [move : Int, eval : Int, to : Int, kind : {"legal", "illegal", "garbage"}]
    BY <1>3, OfSequence
<1>5. NodeCount \in Nat /\ NodeCount <= Len(entries)
    <2> DEFINE a == options.maxPositions
               b == Len(entries)
    <2>1. a \in Nat /\ b \in Nat /\ NodeCount = IF a = 0 THEN b ELSE Min({a, b})
        BY <1>2, <1>4 DEF NodeCount, entries
    <2> HIDE DEF a, b
    <2>2. Min({a, b}) = CHOOSE x \in {a, b} : \A y \in {a, b} : x <= y
        BY DEF Min
    <2>3. Min({a, b}) \in {a, b} /\ \A y \in {a, b} : Min({a, b}) <= y
        <3>1. \E x \in {a, b} : \A y \in {a, b} : x <= y
            BY <2>1
        <3> QED
            BY <2>2, <3>1
    <2>4. NodeCount \in Nat /\ NodeCount <= b
        BY <2>1, <2>3
    <2> QED
        BY <2>4 DEF b
<1> QED
    BY <1>2, <1>3, <1>4, <1>5 DEF entries, moves, Off, Count, Key

(* The moves of the positions lie one after the other.                     *)
LEMMA MovesInOrder ==
    ASSUME task \in Tasks, Valid
    PROVE  \A m \in 1..Len(book.index) : \A n \in 1..Len(book.index) :
              n < m => Off(n) + Count(n) <= Off(m)
<1> DEFINE L == Len(book.index)
           T == {m \in 1..L : \E n \in 1..L : n < m /\ ~(Off(n) + Count(n) <= Off(m))}
<1> SUFFICES ASSUME T # {} PROVE FALSE
    OBVIOUS
<1>1. L \in Nat /\ \A n \in 1..L : Off(n) \in Nat /\ Count(n) \in Nat
    BY TaskTyped
<1>2. \A i \in 1..L : i # 1 => Off(i) = Off(i - 1) + Count(i - 1)
    BY TaskTyped DEF Valid, Contiguous, Off, Count
<1> HIDE DEF L
<1>3. PICK m \in T : \A l \in T : m <= l
    <2>1. T \in SUBSET Nat
        BY <1>1
    <2> HIDE DEF T
    <2> QED
        BY <2>1, LeastNumber
<1>4. PICK n \in 1..L : n < m /\ ~(Off(n) + Count(n) <= Off(m))
    BY <1>3
<1>5. m \in 1..L /\ m # 1 /\ m - 1 \in 1..L /\ ~(m <= m - 1)
    BY <1>1, <1>3, <1>4
<1>6. Off(m) = Off(m - 1) + Count(m - 1)
    BY <1>2, <1>5
<1>7. CASE n = m - 1
    BY <1>1, <1>4, <1>5, <1>6, <1>7
<1>8. CASE n # m - 1
    <2>1. m - 1 \notin T
        <3> HIDE DEF T
        <3> QED
            BY <1>3, <1>5
    <2>2. n < m - 1
        BY <1>1, <1>4, <1>5, <1>8
    <2>3. Off(n) + Count(n) <= Off(m - 1)
        BY <1>5, <2>1, <2>2
    <2>4. Off(n) \in Nat /\ Count(n) \in Nat /\ Off(m - 1) \in Nat /\ Count(m - 1) \in Nat
        BY <1>1, <1>5
    <2> QED
        BY <1>4, <1>6, <2>3, <2>4
<1> QED
    BY <1>7, <1>8

LEMMA MovesAdded ==
    ASSUME task \in Tasks, Valid
    PROVE  /\ MoveCount \in Nat
           /\ NodeCount # 0 => MoveCount = Off(NodeCount) + Count(NodeCount)
<1> DEFINE L == Len(book.index)
           f == [i \in 1..NodeCount |-> book.index[i].count]
           Total(k) == SumFunctionOnSet(f, 1..k)
           T == {k \in 1..NodeCount : Total(k) # Off(k) + Count(k)}
<1>1. /\ L \in Nat /\ NodeCount \in Nat /\ NodeCount <= L
      /\ \A n \in 1..L : Off(n) \in Nat /\ Count(n) \in Nat
    BY TaskTyped
<1>2. Off(1) = 0 \/ L = 0
    <2>1. \A i \in 1..L : i = 1 => Off(i) = 0
        BY TaskTyped DEF Valid, Contiguous, Off
    <2> HIDE DEF L
    <2>2. L # 0 => 1 \in 1..L
        BY <1>1
    <2> QED
        BY <2>1, <2>2
<1>3. \A i \in 1..L : i # 1 => Off(i) = Off(i - 1) + Count(i - 1)
    BY TaskTyped DEF Valid, Contiguous, Off, Count
<1>4. \A i \in 1..NodeCount : f[i] = Count(i) /\ i \in 1..L
    BY <1>1 DEF Count
<1>5. MoveCount = Total(NodeCount)
    BY DEF MoveCount
<1> HIDE DEF L, f
<1>6. MoveCount \in Nat
    <2>1. \A i \in 1..NodeCount : f[i] \in Nat
        BY <1>1, <1>4
    <2>2. IsFiniteSet(1..NodeCount)
        BY <1>1, FS_Interval
    <2> QED
        BY <1>5, <2>1, <2>2, SumNat
<1>7. T = {}
    <2> SUFFICES ASSUME T # {} PROVE FALSE
        OBVIOUS
    <2>1. PICK k \in T : \A l \in T : k <= l
        <3>1. T \in SUBSET Nat
            BY <1>1
        <3> HIDE DEF T
        <3> QED
            BY <3>1, LeastNumber
    <2>2. k \in 1..NodeCount /\ Total(k) # Off(k) + Count(k)
        BY <2>1
    <2>3. Total(k) = f[k] + Total(k - 1)
        <3>1. IsFiniteSet(1..k) /\ k \in 1..k /\ (1..k) \ {k} = 1..(k - 1)
            <4>1. k \in Nat /\ k >= 1 /\ 1 \in Int
                BY <1>1, <2>2
            <4>2. IsFiniteSet(1..k)
                BY <4>1, FS_Interval
            <4>3. k \in 1..k /\ (1..k) \ {k} = 1..(k - 1)
                BY <4>1
            <4> QED
                BY <4>2, <4>3
        <3>2. \A i \in 1..k : f[i] \in Int
            BY <1>1, <1>4, <2>2
        <3>3. SumFunctionOnSet(f, 1..k) = f[k] + SumFunctionOnSet(f, (1..k) \ {k})
            BY <3>1, <3>2, SumOf
        <3> QED
            BY <3>1, <3>3
    <2>4. CASE k = 1
        <3>1. 1..(k - 1) = {}
            BY <2>4
        <3>2. Total(k - 1) = 0
            BY <3>1, SumEmpty
        <3>3. Off(k) = 0 /\ f[k] = Count(k) /\ Count(k) \in Nat
            BY <1>1, <1>2, <1>4, <2>2, <2>4
        <3> HIDE DEF Total
        <3> QED
            BY <2>2, <2>3, <3>2, <3>3
    <2>5. CASE k # 1
        <3>1. k - 1 \in 1..NodeCount /\ ~(k <= k - 1)
            BY <1>1, <2>2, <2>5
        <3>2. k - 1 \notin T
            <4> HIDE DEF T
            <4> QED
                BY <2>1, <3>1
        <3>3. Total(k - 1) = Off(k - 1) + Count(k - 1)
            BY <3>1, <3>2
        <3>4. Off(k) = Off(k - 1) + Count(k - 1) /\ f[k] = Count(k)
            BY <1>3, <1>4, <2>2, <2>5
        <3>5. Off(k) \in Nat /\ Count(k) \in Nat
            BY <1>1, <1>4, <2>2
        <3> HIDE DEF Total
        <3> QED
            BY <2>2, <2>3, <3>3, <3>4, <3>5
    <2> QED
        BY <2>4, <2>5
<1>8. NodeCount # 0 => MoveCount = Off(NodeCount) + Count(NodeCount)
    <2> SUFFICES ASSUME NodeCount # 0 PROVE MoveCount = Off(NodeCount) + Count(NodeCount)
        OBVIOUS
    <2>1. NodeCount \in 1..NodeCount
        BY <1>1
    <2> QED
        BY <1>5, <1>7, <2>1
<1> QED
    BY <1>6, <1>8

LEMMA BookFacts ==
    ASSUME task \in Tasks, Valid
    PROVE  /\ NodeCount \in Nat /\ NodeCount <= Len(book.index) /\ MoveCount \in Nat
           /\ \A n \in 1..NodeCount :
                /\ n \in 1..Len(book.index)
                /\ Off(n) \in Nat /\ Count(n) \in Nat /\ Key(n) \in Int
                /\ \A i \in 1..Count(n) : Off(n) + i \in 1..MoveCount /\ Off(n) + i \in 1..Len(book.moves)
           /\ \A n, m \in 1..NodeCount : \A i \in 1..Count(n) : \A j \in 1..Count(m) :
                Off(n) + i = Off(m) + j => n = m
           /\ \A n, m \in 1..NodeCount : n < m => Key(n) < Key(m)
<1> DEFINE L == Len(book.index)
           A == Len(book.moves)
<1>1. /\ L \in Nat /\ A \in Nat /\ NodeCount \in Nat /\ NodeCount <= L
      /\ \A n \in 1..L : Off(n) \in Nat /\ Count(n) \in Nat /\ Key(n) \in Int
      /\ DOMAIN book.index = 1..L
    BY TaskTyped
<1>2. \A m \in 1..L : \A n \in 1..L : n < m => Off(n) + Count(n) <= Off(m)
    BY MovesInOrder
<1>3. MoveCount \in Nat /\ (NodeCount # 0 => MoveCount = Off(NodeCount) + Count(NodeCount))
    BY MovesAdded
<1>4. L # 0 => A = Off(L) + Count(L)
    <2>1. L # 0 => book.index # <<>>
        OBVIOUS
    <2>2. L # 0 => Last(book.index) = book.index[L]
        BY DEF Last
    <2> QED
        BY <2>1, <2>2 DEF Valid, Complete, Off, Count
<1>5. \A n, m \in 1..L : n < m => Key(n) < Key(m)
    BY <1>1 DEF Valid, StrictlySorted, Key
<1> HIDE DEF L, A
<1>6. ASSUME NEW n \in 1..NodeCount, NEW i \in 1..Count(n)
      PROVE  Off(n) + i \in 1..MoveCount /\ Off(n) + i \in 1..A
    <2>1. n \in 1..L /\ NodeCount \in 1..L /\ L \in 1..L /\ NodeCount # 0 /\ L # 0
        BY <1>1
    <2>2. Off(n) + Count(n) <= MoveCount
        <3>1. CASE n = NodeCount
            BY <1>1, <1>3, <2>1, <3>1
        <3>2. CASE n # NodeCount
            <4>1. Off(n) + Count(n) <= Off(NodeCount)
                BY <1>1, <1>2, <2>1, <3>2
            <4>2. MoveCount = Off(NodeCount) + Count(NodeCount)
                BY <1>3, <2>1
            <4>3. Off(NodeCount) \in Nat /\ Count(NodeCount) \in Nat /\ Off(n) \in Nat /\ Count(n) \in Nat
                BY <1>1, <2>1
            <4> QED
                BY <4>1, <4>2, <4>3
        <3> QED
            BY <3>1, <3>2
    <2>3. Off(n) + Count(n) <= A
        <3>1. CASE n = L
            BY <1>1, <1>4, <2>1, <3>1
        <3>2. CASE n # L
            <4>1. Off(n) + Count(n) <= Off(L)
                BY <1>1, <1>2, <2>1, <3>2
            <4> QED
                BY <1>1, <1>4, <2>1, <4>1
        <3> QED
            BY <3>1, <3>2
    <2>4. Off(n) \in Nat /\ Count(n) \in Nat /\ MoveCount \in Nat /\ A \in Nat
        BY <1>1, <1>3, <2>1
    <2>5. \A c, o, b \in Nat : \A j \in 1..c : o + c <= b => o + j \in 1..b
        OBVIOUS
    <2> QED
        BY <2>2, <2>3, <2>4, <2>5
<1>7. ASSUME NEW n \in 1..NodeCount, NEW m \in 1..NodeCount, NEW i \in 1..Count(n), NEW j \in 1..Count(m),
             Off(n) + i = Off(m) + j
      PROVE  n = m
    <2>1. /\ n \in 1..L /\ m \in 1..L /\ Off(n) \in Nat /\ Off(m) \in Nat
          /\ Count(n) \in Nat /\ Count(m) \in Nat
        BY <1>1
    <2>2. n < m => Off(n) + Count(n) <= Off(m)
        BY <1>2, <2>1
    <2>3. m < n => Off(m) + Count(m) <= Off(n)
        BY <1>2, <2>1
    <2> QED
        BY <1>7, <2>1, <2>2, <2>3
<1>8. \A n \in 1..NodeCount : n \in 1..L
    BY <1>1
<1> QED
    BY <1>1, <1>3, <1>5, <1>6, <1>7, <1>8 DEF L, A

LEMMA ChildTyped ==
    ASSUME NEW n, NEW i
    PROVE  ChildOf(n, i) \in (1..NodeCount) \cup {kExitLeaf, kExitDisallowed}
BY DEF ChildOf

(* The graph of a book is a graph for the solver.                          *)
LEMMA GraphOfBook ==
    ASSUME task \in Tasks, Valid, Len(book.index) < kExitDisallowed, GraphInv
    PROVE  /\ GraphTyped /\ Nodes = 1..NodeCount
           /\ \A n \in Nodes : /\ IsGote(n) = GoteToMove(n) /\ DOMAIN graph.edges[n] = 1..Count(n)
                               /\ \A i \in 1..Count(n) : Child(n, i) = ChildOf(n, i)
<1>1. /\ graph.gote = [n \in 1..NodeCount |-> GoteToMove(n)]
      /\ graph.edges = [n \in 1..NodeCount |-> [i \in 1..book.index[n].count |-> ChildOf(n, i)]]
    BY DEF GraphInv
<1>2. Nodes = 1..NodeCount
    BY <1>1 DEF Nodes
<1>3. NodeCount \in Nat /\ NodeCount < kExitDisallowed
    <2>1. NodeCount \in Nat /\ NodeCount <= Len(book.index) /\ Len(book.index) \in Nat
        BY TaskTyped
    <2>2. kExitDisallowed \in Int
        BY SolverAssumption DEF kExitDisallowed
    <2> QED
        BY <2>1, <2>2
<1>4. ASSUME NEW n \in Nodes
      PROVE  /\ IsGote(n) = GoteToMove(n) /\ DOMAIN graph.edges[n] = 1..Count(n)
             /\ \A i \in 1..Count(n) : Child(n, i) = ChildOf(n, i)
             /\ IsGote(n) \in BOOLEAN
    BY <1>1, <1>2 DEF IsGote, Count, Child, GoteToMove
<1>5. ASSUME NEW n \in Nodes PROVE IsFiniteSet(DOMAIN graph.edges[n])
    <2>1. Count(n) \in Nat
        BY <1>2, BookFacts
    <2>2. IsFiniteSet(1..Count(n))
        BY <2>1, FS_Interval
    <2> QED
        BY <1>4, <2>2
<1>6. ASSUME NEW n \in Nodes, NEW i \in DOMAIN graph.edges[n]
      PROVE  Child(n, i) \in Nodes \cup {kExitLeaf, kExitDisallowed}
    <2>1. i \in 1..Count(n) /\ Child(n, i) = ChildOf(n, i)
        BY <1>4
    <2> QED
        BY <1>2, <2>1, ChildTyped
<1> QED
    BY <1>2, <1>3, <1>4, <1>5, <1>6 DEF GraphTyped

-----------------------------------------------------------------------------
(* What a step does not touch.                                             *)
LEMMA SameBook ==
    ASSUME task' = task
    PROVE  /\ book' = book /\ options' = options /\ Valid' = Valid
           /\ NodeCount' = NodeCount /\ MoveCount' = MoveCount
           /\ \A n : GoteToMove(n)' = GoteToMove(n) /\ Key(n)' = Key(n)
                     /\ Plausible(n)' = Plausible(n) /\ Raises(n)' = Raises(n)
           /\ \A n, i : ChildOf(n, i)' = ChildOf(n, i)
           /\ \A n, i : MoveAt(n, i)' = MoveAt(n, i)
BY DEF book, options, Valid, StrictlySorted, Contiguous, Complete, NodeCount, MoveCount,
       GoteToMove, Key, Plausible, ChildOf, Disallowed, BestEval, Raises, MoveAt, ReadMove

LEMMA SameResolving ==
    ASSUME ResolveInv, UNCHANGED <<task, resolving>>
    PROVE  ResolveInv'
<1>1. /\ nextNode' = nextNode /\ completed' = completed /\ failed' = failed
      /\ worker' = worker /\ children' = children
    BY DEF resolving
<1>2. /\ book' = book /\ Valid' = Valid /\ NodeCount' = NodeCount /\ MoveCount' = MoveCount
      /\ \A n : Raises(n)' = Raises(n)
      /\ \A n, i : ChildOf(n, i)' = ChildOf(n, i)
    BY SameBook
<1>3. \A n : InHand(n)' = InHand(n)
    BY <1>1 DEF InHand
<1>4. \A n : Resolved(n)' = Resolved(n)
    BY <1>1, <1>2 DEF Resolved
<1> QED
    BY <1>1, <1>2, <1>3, <1>4 DEF ResolveInv

LEMMA SameGraphOfBook ==
    ASSUME GraphInv, UNCHANGED <<task, graph>>
    PROVE  GraphInv'
BY SameBook DEF GraphInv

LEMMA SameSolver ==
    ASSUME UNCHANGED <<graph, solverVars>>
    PROVE  SolverInv' = SolverInv /\ queue' = queue /\ head' = head
BY DEF solverVars, SolverInv, SolverTyped, QueueInv, GoteInv, SenteInv, Nodes, IsGote, Allowed,
       Inside, Child, Done, IsDecided, OpenEdges

LEMMA SameNewBook ==
    ASSUME UNCHANGED <<task, graph, distance>>
    PROVE  NewBook' = NewBook
BY DEF NewBook, Nodes, IsGote, Plausible, MoveAt, ReadMove, book, Key, SelectGoteMove, ExitMoves,
       Allowed, Quicker, Better, ExitDistance

-----------------------------------------------------------------------------
(* The files.                                                              *)
LEMMA NoFile ==
    /\ \A x : File(x) # Nothing /\ File(x) # Part
    /\ Other("other") # Nothing /\ Other("other") # Part
<1>1. \A x : Len(File(x)) = 2
    BY DEF File
<1>2. Len(Nothing) = 0 /\ Len(Part) = 1 /\ Len(Other("other")) = 1
    BY DEF Nothing, Part, Other
<1>3. Other("other")[1] = "other" /\ Part[1] = "part"
    BY DEF Part, Other
<1>4. Other("other") # Part
    BY <1>3
<1>5. Other("other") # Nothing
    BY <1>2
<1>6. \A x : File(x) # Nothing /\ File(x) # Part
    BY <1>1, <1>2
<1> QED
    BY <1>4, <1>5, <1>6

(* A change of some of the files, field by field.                          *)
Fields(o, b, t, k) == [output |-> o, backup |-> b, temporary |-> t, kept |-> k]

LEMMA FieldFacts ==
    ASSUME NEW o, NEW b, NEW t, NEW k, NEW d, d = Fields(o, b, t, k),
           b = [s \in BackupNames |-> b[s]]
    PROVE  DiskTyped(d) /\ d.output = o /\ d.backup = b /\ d.temporary = t /\ d.kept = k
BY DEF Fields, DiskTyped

LEMMA TypedFields ==
    ASSUME DiskTyped(disk)
    PROVE  /\ disk = Fields(disk.output, disk.backup, disk.temporary, disk.kept)
           /\ disk.backup = [s \in BackupNames |-> disk.backup[s]]
<1> DEFINE b == [s \in BackupNames |-> disk.backup[s]]
<1>1. disk = Fields(disk.output, b, disk.temporary, disk.kept)
    BY DEF DiskTyped, Fields
<1> HIDE DEF b
<1>2. Fields(disk.output, b, disk.temporary, disk.kept).backup = b
    BY DEF Fields
<1>3. disk.backup = b
    BY <1>1, <1>2
<1> QED
    BY <1>1, <1>3 DEF b

LEMMA ChangeTemporary ==
    ASSUME DiskTyped(disk), NEW x
    PROVE  [disk EXCEPT !.temporary = x] = Fields(disk.output, disk.backup, x, disk.kept)
BY TypedFields DEF Fields

LEMMA ChangeOutput ==
    ASSUME DiskTyped(disk), NEW x
    PROVE  [disk EXCEPT !.output = x] = Fields(x, disk.backup, disk.temporary, disk.kept)
BY TypedFields DEF Fields

LEMMA ChangeBoth ==
    ASSUME DiskTyped(disk), NEW x, NEW y
    PROVE  [disk EXCEPT !.output = x, !.temporary = y] = Fields(x, disk.backup, y, disk.kept)
<1> DEFINE d == [disk EXCEPT !.output = x]
<1>1. [disk EXCEPT !.output = x, !.temporary = y] = [d EXCEPT !.temporary = y]
    OBVIOUS
<1>2. d = Fields(x, disk.backup, disk.temporary, disk.kept)
    BY TypedFields DEF Fields
<1> HIDE DEF d
<1>3. [d EXCEPT !.temporary = y] = Fields(x, disk.backup, y, disk.kept)
    BY <1>2 DEF Fields
<1> QED
    BY <1>1, <1>3

BackupWith(s, x) == [disk.backup EXCEPT ![s] = x]
Moved(s, x, y, z) == [disk EXCEPT !.backup[s] = x, !.output = y, !.kept = z]
MovedBack(s, x, y, z) == [disk EXCEPT !.output = y, !.backup[s] = x, !.kept = z]

LEMMA ChangeBackup ==
    ASSUME DiskTyped(disk), NEW s \in BackupNames, NEW x, NEW y, NEW z
    PROVE  Moved(s, x, y, z) = Fields(y, BackupWith(s, x), disk.temporary, z)
<1> DEFINE b == [disk.backup EXCEPT ![s] = x]
           d == [disk EXCEPT !.backup[s] = x]
           e == [d EXCEPT !.output = y]
<1>1. [disk EXCEPT !.backup[s] = x, !.output = y, !.kept = z] = [e EXCEPT !.kept = z]
    OBVIOUS
<1>2. d = Fields(disk.output, b, disk.temporary, disk.kept)
    BY TypedFields DEF Fields
<1> HIDE DEF b, d
<1>3. e = Fields(y, b, disk.temporary, disk.kept)
    BY <1>2 DEF Fields
<1> HIDE DEF e
<1>4. [e EXCEPT !.kept = z] = Fields(y, b, disk.temporary, z)
    BY <1>3 DEF Fields
<1> QED
    BY <1>1, <1>4 DEF b, d, e, BackupWith, Moved

LEMMA ChangeRestored ==
    ASSUME DiskTyped(disk), NEW s \in BackupNames, NEW x, NEW y, NEW z
    PROVE  MovedBack(s, x, y, z) = Fields(y, BackupWith(s, x), disk.temporary, z)
<1> DEFINE b == [disk.backup EXCEPT ![s] = x]
           d == [disk EXCEPT !.output = y]
           e == [d EXCEPT !.backup[s] = x]
<1>1. [disk EXCEPT !.output = y, !.backup[s] = x, !.kept = z] = [e EXCEPT !.kept = z]
    OBVIOUS
<1>2. d = Fields(y, disk.backup, disk.temporary, disk.kept)
    BY TypedFields DEF Fields
<1> HIDE DEF d
<1>3. e = Fields(y, b, disk.temporary, disk.kept)
    BY <1>2 DEF Fields
<1> HIDE DEF e, b
<1>4. [e EXCEPT !.kept = z] = Fields(y, b, disk.temporary, z)
    BY <1>3 DEF Fields
<1> QED
    BY <1>1, <1>4 DEF b, d, e, BackupWith, MovedBack

LEMMA BackupChanged ==
    ASSUME DiskTyped(disk), NEW s \in BackupNames, NEW x
    PROVE  LET b == [disk.backup EXCEPT ![s] = x]
           IN  /\ b = [r \in BackupNames |-> b[r]]
               /\ \A r \in BackupNames : b[r] = IF r = s THEN x ELSE disk.backup[r]
<1>1. DOMAIN disk.backup = BackupNames
    BY TypedFields
<1> QED
    BY <1>1

LEMMA FreeBackup ==
    ASSUME \E s \in BackupNames : disk.backup[s] = Nothing
    PROVE  BackupPath \in BackupNames /\ disk.backup[BackupPath] = Nothing
<1> DEFINE S == {s \in BackupNames : disk.backup[s] = Nothing}
<1>1. S \in SUBSET Nat /\ S # {}
    BY DEF BackupNames
<1>2. BackupPath = CHOOSE x \in S : \A y \in S : x <= y
    BY DEF BackupPath, Min
<1>3. \E x \in S : \A y \in S : x <= y
    <2> HIDE DEF S
    <2> QED
        BY <1>1, LeastNumber
<1>4. BackupPath \in S
    <2> HIDE DEF S
    <2> QED
        BY <1>2, <1>3
<1> QED
    BY <1>4

Safe == Kept(disk) \subseteq Kept(disk') /\ disk'.output # Part

LEMMA QuietDisk ==
    ASSUME DiskInv, disk' = disk,
           pc' \in {"error", "crashed"} \/ (pc \in Early /\ pc' \in Early \ {"keep"})
    PROVE  DiskInv' /\ Safe
BY DEF DiskInv, Early, Safe

LEMMA SameDisk ==
    ASSUME DiskInv, UNCHANGED <<task, pc, disk>>,
           pc \in {"keep", "replace", "restore", "finished"} => UNCHANGED <<graph, distance>>
    PROVE  DiskInv' /\ Safe
<1>1. pc \in {"keep", "replace", "restore", "finished"} => NewBook' = NewBook
    BY SameNewBook
<1> QED
    BY <1>1 DEF DiskInv, Safe, File

LEMMA TemporarySafe ==
    ASSUME DiskInv, CreateTemporary \/ FillTemporary
    PROVE  DiskInv' /\ Safe
<1>1. pc \in {"write", "fill"} /\ DiskTyped(disk) /\ disk.output # Part
    BY DEF DiskInv, CreateTemporary, FillTemporary
<1>2. disk.kept = {} /\ \E s \in BackupNames : disk.backup[s] = Nothing
    BY <1>1 DEF DiskInv, Early
<1>3. UNCHANGED <<task, graph, distance>>
    BY DEF CreateTemporary, FillTemporary, Goto, Throw, OnDisk, KeepSolver, solverVars
<1>4. NewBook' = NewBook
    BY <1>3, SameNewBook
<1>5. CASE pc' = "error" /\ disk' = disk
    BY <1>5, QuietDisk
<1>6. ASSUME NEW x, disk' = [disk EXCEPT !.temporary = x],
             pc' = "fill" \/ (pc' = "keep" /\ x = File(NewBook))
      PROVE  DiskInv' /\ Safe
    <2>1. disk' = Fields(disk.output, disk.backup, x, disk.kept)
        BY <1>1, <1>6, ChangeTemporary
    <2>2. /\ DiskTyped(disk') /\ disk'.output = disk.output /\ disk'.backup = disk.backup
          /\ disk'.temporary = x /\ disk'.kept = disk.kept
        BY <1>1, <2>1, TypedFields, FieldFacts
    <2>3. Safe
        BY <1>1, <2>2 DEF Safe, Kept
    <2>4. DiskInv'
        BY <1>1, <1>2, <1>4, <1>6, <2>2 DEF DiskInv, File
    <2> QED
        BY <2>3, <2>4
<1>7. \/ pc' = "error" /\ disk' = disk
      \/ pc' = "fill" /\ disk' = [disk EXCEPT !.temporary = Part]
      \/ pc' = "keep" /\ disk' = [disk EXCEPT !.temporary = File(NewBook)]
    BY DEF CreateTemporary, FillTemporary, Goto, Throw, OnDisk
<1> QED
    BY <1>5, <1>6, <1>7

LEMMA KeepOldSafe ==
    ASSUME DiskInv, KeepOld
    PROVE  DiskInv' /\ Safe
<1>1. pc = "keep" /\ DiskTyped(disk) /\ disk.output # Part
    BY DEF DiskInv, KeepOld
<1>2. /\ disk.kept = {} /\ \E s \in BackupNames : disk.backup[s] = Nothing
      /\ disk.temporary = File(NewBook)
    BY <1>1 DEF DiskInv, Early
<1>3. UNCHANGED <<task, graph, distance>>
    BY DEF KeepOld, Goto, Throw, OnDisk, KeepSolver, solverVars
<1>4. NewBook' = NewBook
    BY <1>3, SameNewBook
<1>5. \/ disk.output = Nothing /\ pc' = "replace" /\ disk' = disk
      \/ pc' = "error" /\ disk' = [disk EXCEPT !.temporary = Nothing]
      \/ pc' = "error" /\ disk' = disk
      \/ /\ disk.output # Nothing /\ pc' = "replace"
         /\ disk' = [disk EXCEPT !.backup[BackupPath] = disk.output, !.output = Nothing, !.kept = {BackupPath}]
    BY DEF KeepOld, Goto, Throw, OnDisk
<1>6. CASE disk.output = Nothing /\ pc' = "replace" /\ disk' = disk
    BY <1>1, <1>2, <1>4, <1>6 DEF DiskInv, Safe, File, Early
<1>7. CASE pc' = "error" /\ disk' = [disk EXCEPT !.temporary = Nothing]
    <2>1. disk' = Fields(disk.output, disk.backup, Nothing, disk.kept)
        BY <1>1, <1>7, ChangeTemporary
    <2>2. DiskTyped(disk') /\ disk'.output = disk.output /\ disk'.backup = disk.backup
        BY <1>1, <2>1, TypedFields, FieldFacts
    <2> QED
        BY <1>1, <1>7, <2>2 DEF DiskInv, Safe, Kept, Early
<1>8. CASE pc' = "error" /\ disk' = disk
    BY <1>8, QuietDisk
<1>9. CASE /\ disk.output # Nothing /\ pc' = "replace"
           /\ disk' = [disk EXCEPT !.backup[BackupPath] = disk.output, !.output = Nothing, !.kept = {BackupPath}]
    <2> DEFINE s == BackupPath
               b == [disk.backup EXCEPT ![s] = disk.output]
    <2>1. s \in BackupNames /\ disk.backup[s] = Nothing
        BY <1>2, FreeBackup
    <2> HIDE DEF s
    <2>2. disk' = Fields(Nothing, b, disk.temporary, {s})
        <3>1. disk' = Moved(s, disk.output, Nothing, {s})
            BY <1>9 DEF s, Moved
        <3> QED
            BY <1>1, <2>1, <3>1, ChangeBackup DEF BackupWith
    <2>3. /\ b = [r \in BackupNames |-> b[r]]
          /\ \A r \in BackupNames : b[r] = IF r = s THEN disk.output ELSE disk.backup[r]
        BY <1>1, <2>1, BackupChanged
    <2> HIDE DEF b
    <2>4. /\ DiskTyped(disk') /\ disk'.output = Nothing /\ disk'.backup = b
          /\ disk'.temporary = disk.temporary /\ disk'.kept = {s}
        BY <2>2, <2>3, FieldFacts
    <2>5. Nothing # Part
        BY DEF Nothing, Part
    <2>6. Safe
        <3>1. disk.output \in Kept(disk')
            BY <1>9, <2>1, <2>3, <2>4 DEF Kept
        <3>2. \A r \in BackupNames : disk.backup[r] # Nothing => disk.backup[r] \in Kept(disk')
            BY <2>1, <2>3, <2>4 DEF Kept
        <3> QED
            BY <2>4, <2>5, <3>1, <3>2 DEF Safe, Kept
    <2>7. DiskInv'
        BY <1>1, <1>2, <1>4, <1>9, <2>1, <2>3, <2>4, <2>5 DEF DiskInv, File, Early
    <2> QED
        BY <2>6, <2>7
<1> QED
    BY <1>5, <1>6, <1>7, <1>8, <1>9

LEMMA ReplaceSafe ==
    ASSUME DiskInv, Replace
    PROVE  DiskInv' /\ Safe
<1>1. /\ pc = "replace" /\ DiskTyped(disk) /\ disk.output = Nothing
      /\ disk.temporary = File(NewBook)
      /\ disk.kept \subseteq BackupNames /\ \A s \in disk.kept : disk.backup[s] \notin {Nothing, Part}
    BY DEF DiskInv, Replace
<1>2. NewBook' = NewBook
    BY SameNewBook DEF Replace, Goto, OnDisk, KeepSolver, solverVars
<1>3. \/ pc' = "finished" /\ disk' = [disk EXCEPT !.output = disk.temporary, !.temporary = Nothing]
      \/ pc' = "restore" /\ disk' = disk
    BY DEF Replace, Goto, OnDisk
<1>4. CASE pc' = "finished" /\ disk' = [disk EXCEPT !.output = disk.temporary, !.temporary = Nothing]
    <2>1. disk' = Fields(disk.temporary, disk.backup, Nothing, disk.kept)
        BY <1>1, <1>4, ChangeBoth
    <2>2. DiskTyped(disk') /\ disk'.output = File(NewBook) /\ disk'.backup = disk.backup
        BY <1>1, <2>1, TypedFields, FieldFacts
    <2>3. disk'.output # Part
        BY <2>2, NoFile
    <2>4. Safe
        BY <1>1, <2>2, <2>3 DEF Safe, Kept
    <2>5. DiskInv'
        BY <1>2, <1>4, <2>2, <2>3 DEF DiskInv, File, Early
    <2> QED
        BY <2>4, <2>5
<1>5. CASE pc' = "restore" /\ disk' = disk
    BY <1>1, <1>2, <1>5 DEF DiskInv, Safe, File, Early
<1> QED
    BY <1>3, <1>4, <1>5

LEMMA RestoreSafe ==
    ASSUME DiskInv, Restore
    PROVE  DiskInv' /\ Safe
<1>1. /\ pc = "restore" /\ DiskTyped(disk) /\ disk.output = Nothing
      /\ disk.kept \subseteq BackupNames /\ \A s \in disk.kept : disk.backup[s] \notin {Nothing, Part}
    BY DEF DiskInv, Restore
<1>2. pc' = "error"
    BY DEF Restore, Throw, Goto
<1>3. CASE disk' = disk
    BY <1>2, <1>3, QuietDisk
<1>4. ASSUME NEW s \in disk.kept,
             disk' = [disk EXCEPT !.output = disk.backup[s], !.backup[s] = Nothing, !.kept = {}]
      PROVE  DiskInv' /\ Safe
    <2> DEFINE b == [disk.backup EXCEPT ![s] = Nothing]
    <2>1. s \in BackupNames /\ disk.backup[s] \notin {Nothing, Part}
        BY <1>1
    <2>2. disk' = Fields(disk.backup[s], b, disk.temporary, {})
        <3>1. disk' = MovedBack(s, Nothing, disk.backup[s], {})
            BY <1>4 DEF MovedBack
        <3> QED
            BY <1>1, <2>1, <3>1, ChangeRestored DEF BackupWith
    <2>3. /\ b = [r \in BackupNames |-> b[r]]
          /\ \A r \in BackupNames : b[r] = IF r = s THEN Nothing ELSE disk.backup[r]
        BY <1>1, <2>1, BackupChanged
    <2> HIDE DEF b
    <2>4. DiskTyped(disk') /\ disk'.output = disk.backup[s] /\ disk'.backup = b
        BY <2>2, <2>3, FieldFacts
    <2>5. Safe
        <3>1. \A r \in BackupNames : disk.backup[r] # Nothing => disk.backup[r] \in Kept(disk')
            BY <2>3, <2>4 DEF Kept
        <3> QED
            BY <1>1, <2>1, <2>4, <3>1 DEF Safe, Kept
    <2>6. DiskInv'
        BY <1>2, <2>1, <2>4 DEF DiskInv, Early
    <2> QED
        BY <2>5, <2>6
<1> QED
    BY <1>3, <1>4 DEF Restore, OnDisk

LEMMA OtherRunSafe ==
    ASSUME DiskInv, OtherRun
    PROVE  DiskInv' /\ Safe
<1>1. /\ pc \in Early /\ pc' = pc /\ DiskTyped(disk) /\ disk.output = Nothing
      /\ disk' = [disk EXCEPT !.output = Other("other")]
    BY DEF DiskInv, OtherRun, OnDisk, Early
<1>2. UNCHANGED <<task, graph, distance>>
    BY DEF OtherRun, OnDisk, KeepSolver, solverVars
<1>3. NewBook' = NewBook
    BY <1>2, SameNewBook
<1>4. disk' = Fields(Other("other"), disk.backup, disk.temporary, disk.kept)
    BY <1>1, ChangeOutput
<1>5. /\ DiskTyped(disk') /\ disk'.output = Other("other") /\ disk'.backup = disk.backup
      /\ disk'.temporary = disk.temporary /\ disk'.kept = disk.kept
    BY <1>1, <1>4, TypedFields, FieldFacts
<1>6. disk'.output # Part
    BY <1>5, NoFile
<1>7. Safe
    BY <1>1, <1>5, <1>6 DEF Safe, Kept
<1>8. DiskInv'
    BY <1>1, <1>3, <1>5, <1>6 DEF DiskInv, File, Early
<1> QED
    BY <1>7, <1>8

-----------------------------------------------------------------------------
(* The steps of the generator.                                             *)
LEMMA SamePhase ==
    ASSUME PhaseInv, UNCHANGED <<task, resolving, graph, solverVars>>,
           \/ pc' \in {"error", "crashed"}
           \/ pc' = pc
           \/ /\ pc \in Begun /\ pc' \in Begun
              /\ pc' \in Joined => pc \in Joined
              /\ pc' \in Joined \ {"seed"} => pc \in Joined \ {"seed"}
              /\ pc' \in Settled => pc \in Settled \/ head = Len(queue) + 1
    PROVE  PhaseInv'
<1>1. /\ task' = task /\ worker' = worker
      /\ nextNode' = nextNode /\ completed' = completed /\ failed' = failed
    BY DEF resolving
<1>2. ResolveInv => ResolveInv'
    BY SameResolving
<1>3. GraphInv => GraphInv'
    BY SameGraphOfBook
<1>4. (SolverInv => SolverInv') /\ queue' = queue /\ head' = head
    BY SameSolver
<1>5. /\ task' \in Tasks /\ DOMAIN worker' = Workers
      /\ \A w \in Workers : worker'[w] \in [pc : {"test", "take", "resolve", "end"}, node : Nat]
    BY <1>1 DEF PhaseInv
<1>6. CASE pc' \in {"error", "crashed"}
    BY <1>5, <1>6 DEF PhaseInv, Begun, Joined, Settled
<1>7. CASE pc' = pc
    BY <1>1, <1>2, <1>3, <1>4, <1>7 DEF PhaseInv
<1>8. CASE /\ pc \in Begun /\ pc' \in Begun
           /\ pc' \in Joined => pc \in Joined
           /\ pc' \in Joined \ {"seed"} => pc \in Joined \ {"seed"}
           /\ pc' \in Settled => pc \in Settled \/ head = Len(queue) + 1
    <2>1. pc' # "start"
        BY <1>8 DEF Begun
    <2>2. pc' \in Settled => head' = Len(queue') + 1
        BY <1>4, <1>8 DEF PhaseInv
    <2> QED
        BY <1>1, <1>2, <1>3, <1>4, <1>5, <1>8, <2>1, <2>2 DEF PhaseInv
<1> QED
    BY <1>6, <1>7, <1>8

LEMMA ValidateBegins ==
    ASSUME PhaseInv, Validate
    PROVE  PhaseInv'
<1>1. /\ pc = "start" /\ task' = task /\ task \in Tasks /\ nextNode' = nextNode
      /\ completed' = completed /\ failed' = failed /\ worker' = worker
      /\ DOMAIN worker = Workers
      /\ \A w \in Workers :
            worker[w] \in [pc : {"test", "take", "resolve", "end"}, node : Nat] /\ worker[w].pc = "test"
      /\ nextNode = 1 /\ completed = 0 /\ failed = FALSE
    BY DEF Validate, Goto, Throw, PhaseInv
<1>2. CASE pc' = "error"
    BY <1>1, <1>2 DEF PhaseInv, Begun, Joined, Settled
<1>3. CASE /\ pc' = "resolve" /\ Valid /\ ~(Len(book.index) >= kExitDisallowed)
           /\ children' = [m \in 1..MoveCount |-> kExitDisallowed]
    <2>1. Valid' = Valid /\ MoveCount' = MoveCount /\ NodeCount' = NodeCount /\ book' = book
        BY <1>1, SameBook
    <2>2. Len(book.index) < kExitDisallowed
        <3>1. Len(book.index) \in Nat
            BY <1>1, TaskTyped
        <3>2. kExitDisallowed \in Int
            BY SolverAssumption DEF kExitDisallowed
        <3> QED
            BY <1>3, <3>1, <3>2
    <2>3. NodeCount \in Nat
        BY <1>1, TaskTyped
    <2>4. ResolveInv'
        <3>1. DOMAIN children' = 1..MoveCount
            BY <1>3
        <3>2. \A n \in 1..NodeCount : ~(n < 1)
            BY <2>3
        <3>3. \A w \in Workers : worker'[w].pc # "resolve" /\ worker'[w].pc # "end"
            BY <1>1
        <3>4. nextNode' = 1 /\ completed' = 0 /\ failed' = FALSE /\ Valid
            BY <1>1, <1>3
        <3>5. 1 \in Nat \ {0} /\ 0 \in Nat /\ FALSE \in BOOLEAN
            OBVIOUS
        <3> QED
            BY <2>1, <2>2, <3>1, <3>2, <3>3, <3>4, <3>5 DEF ResolveInv
    <2> QED
        BY <1>1, <1>3, <2>4 DEF PhaseInv, Begun, Joined, Settled
<1> QED
    BY <1>2, <1>3 DEF Validate, Goto, Throw

(* When all threads have ended and none has failed, all nodes are resolved. *)
LEMMA JoinResolves ==
    ASSUME PhaseInv, Join
    PROVE  PhaseInv'
<1>1. /\ pc = "join" /\ task' = task /\ UNCHANGED <<resolving, solverVars>>
      /\ \A w \in Workers : worker[w].pc = "end"
    BY DEF Join, Goto, Throw
<1>2. /\ task \in Tasks /\ DOMAIN worker = Workers /\ ResolveInv
      /\ \A w \in Workers : worker[w] \in [pc : {"test", "take", "resolve", "end"}, node : Nat]
    BY <1>1 DEF PhaseInv, Begun
<1>3. ResolveInv' /\ worker' = worker
    BY <1>1, <1>2, SameResolving DEF resolving
<1>4. CASE pc' = "error"
    BY <1>1, <1>2, <1>3, <1>4 DEF PhaseInv, Begun, Joined, Settled
<1>5. CASE /\ ~failed /\ pc' = "seed"
           /\ graph' = [gote |-> [n \in 1..NodeCount |-> GoteToMove(n)],
                        edges |-> [n \in 1..NodeCount |->
                            [i \in 1..book.index[n].count |-> children[book.index[n].off + i]]]]
    <2>1. NodeCount < nextNode /\ nextNode \in Nat
        <3>1. PICK w \in Workers : TRUE
            BY BookAssumption
        <3>2. nextNode \in Nat /\ NodeCount \in Nat /\ nextNode > NodeCount
            BY <1>1, <1>2, <1>5, <3>1, TaskTyped DEF ResolveInv
        <3> QED
            BY <3>2
    <2>2. \A n \in 1..NodeCount : ~InHand(n)
        <3> TAKE n \in 1..NodeCount
        <3> SUFFICES ASSUME NEW w \in Workers, worker[w] = [pc |-> "resolve", node |-> n] PROVE FALSE
            BY DEF InHand
        <3>1. worker[w].pc = "resolve"
            OBVIOUS
        <3> QED
            BY <1>1, <3>1
    <2>3. \A n \in 1..NodeCount : Resolved(n)
        <3> TAKE n \in 1..NodeCount
        <3>1. n < nextNode
            BY <1>2, <2>1, TaskTyped
        <3> QED
            BY <1>2, <1>5, <2>2, <3>1 DEF ResolveInv
    <2>4. graph' = [gote |-> [n \in 1..NodeCount |-> GoteToMove(n)],
                    edges |-> [n \in 1..NodeCount |-> [i \in 1..book.index[n].count |-> ChildOf(n, i)]]]
        <3>1. \A n \in 1..NodeCount : [i \in 1..book.index[n].count |-> children[book.index[n].off + i]] =
                                      [i \in 1..book.index[n].count |-> ChildOf(n, i)]
            BY <2>3 DEF Resolved
        <3>2. [n \in 1..NodeCount |-> [i \in 1..book.index[n].count |-> children[book.index[n].off + i]]] =
              [n \in 1..NodeCount |-> [i \in 1..book.index[n].count |-> ChildOf(n, i)]]
            BY <3>1
        <3> QED
            BY <1>5, <3>2
    <2>5. GraphInv'
        <3>1. NodeCount' = NodeCount /\ \A n \in 1..NodeCount : ~Raises(n)' 
            BY <1>1, <2>3, SameBook DEF Resolved
        <3>2. /\ graph'.gote = [n \in 1..NodeCount |-> GoteToMove(n)]
              /\ graph'.edges = [n \in 1..NodeCount |-> [i \in 1..book.index[n].count |-> ChildOf(n, i)]]
            BY <2>4
        <3>3. /\ graph'.gote = [n \in 1..NodeCount |-> GoteToMove(n)]'
              /\ graph'.edges = [n \in 1..NodeCount |-> [i \in 1..book.index[n].count |-> ChildOf(n, i)]]'
            BY <1>1, <3>2, SameBook
        <3> QED
            BY <2>4, <3>1, <3>3 DEF GraphInv
    <2> QED
        BY <1>1, <1>2, <1>3, <1>5, <2>5 DEF PhaseInv, Begun, Joined, Settled
<1> QED
    BY <1>2, <1>4, <1>5 DEF Join, Goto, Throw, ResolveInv

(* A thread takes a node, resolves it and goes on; the ranges of the nodes *)
(* in `children` do not meet.                                              *)
LEMMA ThreadResolves ==
    ASSUME PhaseInv, NEW w \in Workers, Thread(w)
    PROVE  PhaseInv'
<1>1. /\ task' = task /\ pc' = pc /\ UNCHANGED <<graph, solverVars>>
      /\ pc \notin {"finished", "error", "crashed"}
    BY DEF Thread, Running, TestFailed, Take, Resolve, KeepSolver
<1>2. /\ task \in Tasks /\ DOMAIN worker = Workers
      /\ \A v \in Workers : worker[v] \in [pc : {"test", "take", "resolve", "end"}, node : Nat]
    BY DEF PhaseInv
<1>3. pc \in {"resolve", "join"} /\ ResolveInv
    <2>1. \/ worker[w].pc = "test" /\ pc \in {"resolve", "join"}
          \/ worker[w].pc \in {"take", "resolve"}
        BY DEF Thread, TestFailed, Take, Resolve
    <2>2. pc # "start" /\ pc \notin Joined
        BY <2>1 DEF PhaseInv, Joined, Begun
    <2>3. pc \in {"resolve", "join"}
        BY <1>1, <2>2 DEF PhaseInv, Joined, Begun
    <2> QED
        BY <2>3 DEF PhaseInv, Begun
<1>4. /\ Len(book.index) < kExitDisallowed /\ Valid
      /\ nextNode \in Nat \ {0} /\ completed \in Nat /\ failed \in BOOLEAN
      /\ DOMAIN children = 1..MoveCount
      /\ \A v \in Workers :
            /\ worker[v].pc = "resolve" => worker[v].node \in 1..NodeCount /\ worker[v].node < nextNode
            /\ worker[v].pc = "end" => failed \/ nextNode > NodeCount
      /\ ~failed => \A n \in 1..NodeCount : n < nextNode => InHand(n) \/ Resolved(n)
      /\ NodeCount \in Nat
    BY <1>2, <1>3, TaskTyped DEF ResolveInv
<1>5. /\ book' = book /\ Valid' = Valid /\ NodeCount' = NodeCount /\ MoveCount' = MoveCount
      /\ \A n : Raises(n)' = Raises(n)
      /\ \A n, i : ChildOf(n, i)' = ChildOf(n, i)
    BY <1>1, SameBook
<1> SUFFICES /\ DOMAIN worker' = Workers
             /\ \A v \in Workers : worker'[v] \in [pc : {"test", "take", "resolve", "end"}, node : Nat]
             /\ ResolveInv'
    BY <1>1, <1>2, <1>3 DEF PhaseInv, Begun, Joined, Settled
<1>6. ASSUME NEW step \in {"test", "take", "resolve", "end"}, NEW m \in Nat, Become(w, step, m)
      PROVE  /\ DOMAIN worker' = Workers
             /\ worker'[w] = [pc |-> step, node |-> m]
             /\ \A v \in Workers : v # w => worker'[v] = worker[v]
             /\ \A v \in Workers : worker'[v] \in [pc : {"test", "take", "resolve", "end"}, node : Nat]
    BY <1>2, <1>6 DEF Become
<1>7. \A v \in Workers : \A n : worker[v] = [pc |-> "resolve", node |-> n] => worker[v].pc = "resolve"
    OBVIOUS
<1>8. CASE TestFailed(w)
    <2> DEFINE step == IF failed THEN "end" ELSE "take"
    <2>1. /\ worker[w].pc = "test" /\ Become(w, step, 0)
          /\ nextNode' = nextNode /\ completed' = completed /\ failed' = failed /\ children' = children
        BY <1>8 DEF TestFailed
    <2>2. step \in {"test", "take", "resolve", "end"}
        OBVIOUS
    <2>3. step # "resolve" /\ (step = "end" => failed)
        OBVIOUS
    <2> HIDE DEF step
    <2>4. /\ DOMAIN worker' = Workers /\ worker'[w] = [pc |-> step, node |-> 0]
          /\ \A v \in Workers : v # w => worker'[v] = worker[v]
          /\ \A v \in Workers : worker'[v] \in [pc : {"test", "take", "resolve", "end"}, node : Nat]
        BY <1>6, <2>1, <2>2
    <2>5. \A n : InHand(n) => InHand(n)'
        BY <1>7, <2>1, <2>4 DEF InHand
    <2>6. \A n : Resolved(n)' = Resolved(n)
        BY <1>5, <2>1 DEF Resolved
    <2>7. worker'[w].pc = step
        BY <2>4
    <2> QED
        BY <1>4, <1>5, <2>1, <2>3, <2>4, <2>5, <2>6, <2>7 DEF ResolveInv
<1>9. CASE Take(w)
    <2> DEFINE step == IF nextNode > NodeCount THEN "end" ELSE "resolve"
    <2>1. /\ worker[w].pc = "take" /\ Become(w, step, nextNode)
          /\ nextNode' = nextNode + 1 /\ completed' = completed /\ failed' = failed /\ children' = children
        BY <1>9 DEF Take
    <2>2. step \in {"test", "take", "resolve", "end"}
        OBVIOUS
    <2>3. /\ step = "end" => nextNode > NodeCount
          /\ step # "end" => step = "resolve" /\ ~(nextNode > NodeCount)
        OBVIOUS
    <2> HIDE DEF step
    <2>4. /\ DOMAIN worker' = Workers /\ worker'[w] = [pc |-> step, node |-> nextNode]
          /\ \A v \in Workers : v # w => worker'[v] = worker[v]
          /\ \A v \in Workers : worker'[v] \in [pc : {"test", "take", "resolve", "end"}, node : Nat]
        BY <1>4, <1>6, <2>1, <2>2
    <2>5. \A n : InHand(n) => InHand(n)'
        BY <1>7, <2>1, <2>4 DEF InHand
    <2>6. \A n : Resolved(n)' = Resolved(n)
        BY <1>5, <2>1 DEF Resolved
    <2>7. worker'[w].pc = step /\ worker'[w].node = nextNode
        BY <2>4
    <2>8. step = "resolve" => nextNode \in 1..NodeCount /\ nextNode < nextNode'
        BY <1>4, <2>1, <2>3
    <2>9. ASSUME NEW v \in Workers
          PROVE  /\ worker'[v].pc = "resolve" => worker'[v].node \in 1..NodeCount /\ worker'[v].node < nextNode'
                 /\ worker'[v].pc = "end" => failed \/ nextNode' > NodeCount
        <3>1. CASE v = w
            BY <1>4, <2>1, <2>3, <2>7, <2>8, <3>1
        <3>2. CASE v # w
            BY <1>4, <2>1, <2>4, <3>2
        <3> QED
            BY <3>1, <3>2
    <2>10. ASSUME ~failed, NEW n \in 1..NodeCount, n < nextNode' PROVE InHand(n)' \/ Resolved(n)
        <3>1. CASE n < nextNode
            BY <1>4, <2>5, <2>10, <3>1
        <3>2. CASE ~(n < nextNode)
            <4>1. n = nextNode /\ step = "resolve"
                BY <1>4, <2>1, <2>3, <2>10, <3>2
            <4> QED
                BY <2>4, <4>1 DEF InHand
        <3> QED
            BY <3>1, <3>2
    <2>11. nextNode' \in Nat \ {0}
        BY <1>4, <2>1
    <2> QED
        BY <1>4, <1>5, <2>1, <2>4, <2>6, <2>9, <2>10, <2>11 DEF ResolveInv
<1>10. CASE Resolve(w)
    <2> PICK n : n = worker[w].node
        OBVIOUS
    <2>1. /\ worker[w].pc = "resolve" /\ Become(w, "test", 0) /\ nextNode' = nextNode
          /\ \/ failed' = TRUE /\ completed' = completed /\ children' = children
             \/ /\ ~Raises(n) /\ failed' = failed /\ completed' = completed + 1
                /\ children' = [m \in DOMAIN children |->
                                  IF m - book.index[n].off \in 1..book.index[n].count
                                  THEN ChildOf(n, m - book.index[n].off) ELSE children[m]]
        BY <1>10 DEF Resolve, Noticed
    <2>2. /\ DOMAIN worker' = Workers /\ worker'[w] = [pc |-> "test", node |-> 0]
          /\ \A v \in Workers : v # w => worker'[v] = worker[v]
          /\ \A v \in Workers : worker'[v] \in [pc : {"test", "take", "resolve", "end"}, node : Nat]
        BY <1>6, <2>1
    <2>3. n \in 1..NodeCount
        BY <1>4, <2>1
    <2>4. DOMAIN children' = 1..MoveCount /\ completed' \in Nat /\ failed' \in BOOLEAN
        <3>1. DOMAIN children' = DOMAIN children
            BY <2>1
        <3>2. completed \in Nat /\ failed \in BOOLEAN
            BY <1>4
        <3>3. completed' = completed \/ completed' = completed + 1
            BY <2>1
        <3>4. failed' = TRUE \/ failed' = failed
            BY <2>1
        <3>5. completed' \in Nat
            BY <3>2, <3>3
        <3>6. failed' \in BOOLEAN
            BY <3>2, <3>4
        <3> QED
            BY <1>4, <3>1, <3>5, <3>6
    <2>5. \A v \in Workers : worker'[v].pc \in {"resolve", "end"} => v # w /\ worker'[v] = worker[v]
        BY <2>2
    <2>6. ASSUME ~failed', NEW m \in 1..NodeCount, m < nextNode PROVE InHand(m)' \/ Resolved(m)'
        <3>1. /\ ~failed /\ ~Raises(n)
              /\ children' = [k \in DOMAIN children |->
                                  IF k - Off(n) \in 1..Count(n) THEN ChildOf(n, k - Off(n)) ELSE children[k]]
            BY <2>1, <2>6 DEF Off, Count
        <3>2. InHand(m) \/ Resolved(m)
            BY <1>4, <2>6, <3>1
        <3>3. /\ \A j \in 1..Count(n) : Off(n) + j \in 1..MoveCount
              /\ \A j \in 1..Count(m) : Off(m) + j \in 1..MoveCount
              /\ Off(n) \in Nat /\ Count(n) \in Nat /\ Off(m) \in Nat /\ Count(m) \in Nat
              /\ \A i \in 1..Count(n) : \A j \in 1..Count(m) : Off(n) + i = Off(m) + j => n = m
            BY <1>2, <1>4, <2>3, BookFacts
        <3>4. CASE m = n
            <4>1. ASSUME NEW i \in 1..Count(n) PROVE children'[Off(n) + i] = ChildOf(n, i)
                <5>1. Off(n) + i \in DOMAIN children /\ (Off(n) + i) - Off(n) = i
                    BY <1>4, <3>3
                <5> QED
                    BY <3>1, <5>1
            <4>2. Resolved(n)'
                BY <1>5, <3>1, <4>1 DEF Resolved, Off, Count
            <4> QED
                BY <3>4, <4>2
        <3>5. CASE m # n /\ Resolved(m)
            <4>1. ASSUME NEW i \in 1..Count(m) PROVE children'[Off(m) + i] = ChildOf(m, i)
                <5>1. Off(m) + i \in DOMAIN children
                    BY <1>4, <3>3
                <5>2. (Off(m) + i) - Off(n) \notin 1..Count(n)
                    <6> SUFFICES ASSUME (Off(m) + i) - Off(n) \in 1..Count(n) PROVE FALSE
                        OBVIOUS
                    <6>1. Off(n) + ((Off(m) + i) - Off(n)) = Off(m) + i
                        BY <3>3
                    <6> QED
                        BY <3>3, <3>5, <6>1
                <5>3. children[Off(m) + i] = ChildOf(m, i)
                    BY <3>5 DEF Resolved, Off, Count
                <5> QED
                    BY <3>1, <5>1, <5>2, <5>3
            <4>2. Resolved(m)'
                BY <1>5, <3>5, <4>1 DEF Resolved, Off, Count
            <4> QED
                BY <4>2
        <3>6. CASE m # n /\ InHand(m)
            <4>1. PICK v \in Workers : worker[v] = [pc |-> "resolve", node |-> m]
                BY <3>6 DEF InHand
            <4>2. v # w
                BY <3>6, <4>1
            <4> QED
                BY <2>2, <4>1, <4>2 DEF InHand
        <3> QED
            BY <3>2, <3>4, <3>5, <3>6
    <2>7. ASSUME NEW v \in Workers
          PROVE  /\ worker'[v].pc = "resolve" => worker'[v].node \in 1..NodeCount /\ worker'[v].node < nextNode
                 /\ worker'[v].pc = "end" => failed' \/ nextNode > NodeCount
        BY <1>4, <2>1, <2>5
    <2> QED
        BY <1>4, <1>5, <2>1, <2>2, <2>4, <2>6, <2>7 DEF ResolveInv
<1> QED
    BY <1>8, <1>9, <1>10 DEF Thread

LEMMA SolverSteps ==
    ASSUME PhaseInv, StartSolver \/ PopNode
    PROVE  PhaseInv'
<1>1. /\ UNCHANGED <<task, resolving>> /\ graph' = graph
      /\ pc \in {"seed", "solve"} /\ pc' = "solve"
    BY DEF StartSolver, PopNode, Goto, Seed, Pop
<1>2. /\ task \in Tasks /\ DOMAIN worker = Workers /\ ResolveInv /\ GraphInv
      /\ \A w \in Workers :
            worker[w] \in [pc : {"test", "take", "resolve", "end"}, node : Nat] /\ worker[w].pc = "end"
    BY <1>1 DEF PhaseInv, Begun, Joined
<1>3. ResolveInv' /\ GraphInv' /\ worker' = worker
    BY <1>1, <1>2, SameResolving, SameGraphOfBook DEF resolving
<1>4. GraphTyped
    BY <1>2, GraphOfBook DEF ResolveInv
<1>5. SolverInv'
    <2>1. CASE StartSolver
        BY <1>4, <2>1, SeedSettles DEF StartSolver
    <2>2. CASE PopNode
        <3>1. SolverInv /\ Pop
            BY <2>2 DEF PopNode, PhaseInv, Joined, Begun
        <3> QED
            BY <1>4, <3>1, PopSettles
    <2> QED
        BY <2>1, <2>2
<1> QED
    BY <1>1, <1>2, <1>3, <1>5 DEF PhaseInv, Begun, Joined, Settled

LEMMA StepSettles ==
    ASSUME IInv, Next
    PROVE  IInv' /\ Safe
<1>1. PhaseInv /\ DiskInv
    BY DEF IInv
<1>2. CASE Validate
    <2>1. disk' = disk /\ pc = "start" /\ pc' \in {"error", "resolve"}
        BY <1>2 DEF Validate, Goto, Throw
    <2> QED
        BY <1>1, <1>2, <2>1, ValidateBegins, QuietDisk DEF IInv, Early
<1>3. CASE Join
    <2>1. disk' = disk /\ pc = "join" /\ pc' \in {"error", "seed"}
        BY <1>3 DEF Join, Goto, Throw
    <2> QED
        BY <1>1, <1>3, <2>1, JoinResolves, QuietDisk DEF IInv, Early
<1>4. CASE StartSolver \/ PopNode
    <2>1. disk' = disk /\ pc \in {"seed", "solve"} /\ pc' = "solve"
        BY <1>4 DEF StartSolver, PopNode, Goto
    <2> QED
        BY <1>1, <1>4, <2>1, SolverSteps, QuietDisk DEF IInv, Early
<1>5. CASE Poll \/ Solved
    <2>1. /\ disk' = disk /\ UNCHANGED <<task, resolving, graph, solverVars>>
          /\ \/ pc = "resolve" /\ pc' = "join"
             \/ pc = "solve" /\ pc' = "write" /\ ~(head <= Len(queue))
        BY <1>5 DEF Poll, Solved, Goto, KeepSolver, Solving
    <2>2. DiskInv' /\ Safe
        BY <1>1, <2>1, QuietDisk DEF Early
    <2>3. pc' = "write" => head = Len(queue) + 1
        <3> SUFFICES ASSUME pc' = "write" PROVE head = Len(queue) + 1
            OBVIOUS
        <3>1. SolverInv
            BY <1>1, <2>1 DEF PhaseInv, Joined, Begun
        <3>2. head \in 1..(Len(queue) + 1) /\ Len(queue) \in Nat
            BY <3>1 DEF SolverInv, QueueInv
        <3> QED
            BY <2>1, <3>2
    <2>4. PhaseInv'
        BY <1>1, <2>1, <2>3, SamePhase DEF Begun, Joined, Settled
    <2> QED
        BY <2>2, <2>4 DEF IInv
<1>6. CASE CreateTemporary \/ FillTemporary \/ KeepOld \/ Replace \/ Restore
    <2>1. /\ UNCHANGED <<task, resolving, graph, solverVars>>
          /\ pc \in {"write", "fill", "keep", "replace", "restore"}
          /\ pc' \in {"fill", "keep", "replace", "restore", "finished", "error"}
        <3>1. CASE CreateTemporary \/ FillTemporary
            BY <3>1 DEF CreateTemporary, FillTemporary, Goto, Throw, OnDisk, KeepSolver
        <3>2. CASE KeepOld
            BY <3>2 DEF KeepOld, Goto, Throw, OnDisk, KeepSolver
        <3>3. CASE Replace \/ Restore
            BY <3>3 DEF Replace, Restore, Goto, Throw, OnDisk, KeepSolver
        <3> QED
            BY <1>6, <3>1, <3>2, <3>3
    <2>2. PhaseInv'
        BY <1>1, <2>1, SamePhase DEF Begun, Joined, Settled
    <2>3. DiskInv' /\ Safe
        BY <1>1, <1>6, TemporarySafe, KeepOldSafe, ReplaceSafe, RestoreSafe
    <2> QED
        BY <2>2, <2>3 DEF IInv
<1>7. ASSUME NEW w \in Workers, Thread(w) PROVE IInv' /\ Safe
    <2>1. UNCHANGED <<task, pc, disk, graph, distance>>
        BY <1>7 DEF Thread, TestFailed, Take, Resolve, KeepSolver, solverVars
    <2> QED
        BY <1>1, <1>7, <2>1, ThreadResolves, SameDisk DEF IInv
<1>8. CASE OtherRun
    <2>1. UNCHANGED <<task, resolving, graph, solverVars>> /\ pc' = pc
        BY <1>8 DEF OtherRun, OnDisk, KeepSolver
    <2> QED
        BY <1>1, <1>8, <2>1, SamePhase, OtherRunSafe DEF IInv
<1>9. CASE Crash
    <2>1. UNCHANGED <<task, resolving, graph, solverVars>> /\ pc' = "crashed" /\ disk' = disk
        BY <1>9 DEF Crash, Goto, KeepSolver
    <2> QED
        BY <1>1, <2>1, SamePhase, QuietDisk DEF IInv
<1> QED
    BY <1>2, <1>3, <1>4, <1>5, <1>6, <1>7, <1>8, <1>9 DEF Next, Main

LEMMA InitSettles ==
    ASSUME Init
    PROVE  IInv
<1>1. /\ task \in Tasks /\ disk = task.disk /\ pc = "start" /\ nextNode = 1 /\ completed = 0 /\ failed = FALSE
      /\ worker = [w \in Workers |-> [pc |-> "test", node |-> 0]]
    BY DEF Init
<1>2. PhaseInv
    BY <1>1 DEF PhaseInv, Begun, Joined, Settled
<1>3. PICK files : disk \in Disk(files)
    BY <1>1, BookAssumption
<1>4. /\ disk \in [output : files \ {Part}, backup : [BackupNames -> files], temporary : files, kept : {{}}]
      /\ \E s \in BackupNames : disk.backup[s] = Nothing
    BY <1>3 DEF Disk
<1>5. DiskTyped(disk)
    <2>1. disk.backup = [s \in BackupNames |-> disk.backup[s]]
        BY <1>4
    <2>2. disk = [output |-> disk.output, backup |-> disk.backup,
                  temporary |-> disk.temporary, kept |-> disk.kept]
        BY <1>4
    <2> QED
        BY <2>1, <2>2 DEF DiskTyped
<1>6. disk.output # Part /\ disk.kept = {}
    BY <1>4
<1>7. DiskInv
    BY <1>1, <1>4, <1>5, <1>6 DEF DiskInv, Early
<1> QED
    BY <1>2, <1>7 DEF IInv

LEMMA StutterSettles ==
    ASSUME IInv, UNCHANGED vars
    PROVE  IInv'
<1>1. UNCHANGED <<task, resolving, graph, solverVars>> /\ pc' = pc /\ disk' = disk
    BY DEF vars
<1>2. UNCHANGED <<graph, distance>>
    BY <1>1 DEF solverVars
<1> QED
    BY <1>1, <1>2, SamePhase, SameDisk DEF IInv

(* Type correctness and what the generator has done at each of its stages: *)
(* the moves that are resolved, the distances that are settled, the files  *)
(* that are written.                                                       *)
THEOREM GeneratorInv == Spec => []IInv
<1>1. IInv /\ [Next]_vars => IInv'
    BY StepSettles, StutterSettles
<1> QED
    BY <1>1, InitSettles, PTL DEF Spec

(* No step of the generator, and no failure of one, destroys a book: what  *)
(* was at the output path or in a backup stays at one of them, and the     *)
(* output is never a part of a book.                                       *)
THEOREM BooksAreKept == Spec => NothingLost
<1>1. IInv /\ [Next]_vars => [Kept(disk) \subseteq Kept(disk') /\ disk'.output # Part]_vars
    BY StepSettles DEF Safe
<1> QED
    BY <1>1, GeneratorInv, PTL DEF Spec, NothingLost

(* The distances of the solver are those of the game of leaving the book:  *)
(* while it works those that are set, at the end all.                      *)
THEOREM SolverIsExact == Spec => []DistancesExact
<1>1. IInv => DistancesExact
    <2> SUFFICES ASSUME IInv, pc \in {"solve", "write"}
                 PROVE  /\ \A n \in Nodes : distance[n] # kExitDistanceInfinite => distance[n] = Distance(n)
                        /\ pc = "write" => \A n \in Nodes : distance[n] = Distance(n)
        BY DEF DistancesExact
    <2>1. task \in Tasks /\ ResolveInv /\ GraphInv /\ SolverInv
        BY DEF IInv, PhaseInv, Begun, Joined
    <2>2. GraphTyped
        BY <2>1, GraphOfBook DEF ResolveInv
    <2>3. pc = "write" => head = Len(queue) + 1
        BY DEF IInv, PhaseInv, Settled, Joined, Begun
    <2> QED
        BY <2>1, <2>2, <2>3, DistancesOfGame DEF IsDecided
<1> QED
    BY <1>1, GeneratorInv, PTL

-----------------------------------------------------------------------------
(* A probe: the binary search.                                             *)
KeyAt(file, i) == file.index[i].key
Half(file, key, f, left, right) ==
    IF left >= right THEN 0
    ELSE IF key = KeyAt(file, Middle(left, right) + 1) THEN Middle(left, right) + 1
    ELSE IF key < KeyAt(file, Middle(left, right) + 1) THEN f[<<left, Middle(left, right)>>]
    ELSE f[<<Middle(left, right) + 1, right>>]
Searches(file, key, f) == f = [range \in Ranges(file) |-> Half(file, key, f, range[1], range[2])]

(* Where the position is, if it is among the records from left to right.   *)
Place(pos, left, right) == IF left < pos /\ pos <= right THEN pos ELSE 0
IsPlaceOf(pos, file, key) ==
    \/ pos = 0 /\ \A i \in 1..Len(file.index) : KeyAt(file, i) # key
    \/ pos \in 1..Len(file.index) /\ KeyAt(file, pos) = key

LEMMA SearchedByHalves ==
    ASSUME NEW file \in Books, StrictlySorted(file), NEW key \in Int, NEW pos, IsPlaceOf(pos, file, key),
           NEW f, NEW left \in 0..Len(file.index), NEW right \in 0..Len(file.index),
           left < right =>
              LET m == Middle(left, right)
              IN  f[<<left, m>>] = Place(pos, left, m) /\ f[<<m + 1, right>>] = Place(pos, m + 1, right)
    PROVE  Half(file, key, f, left, right) = Place(pos, left, right)
<1> DEFINE L == Len(file.index)
           m == Middle(left, right)
<1>1. /\ L \in Nat /\ DOMAIN file.index = 1..L
      /\ \A i \in 1..L : KeyAt(file, i) \in Int
    <2>1. file.index \in Seq([key : Int, off : Nat, count : Nat])
        BY DEF Books
    <2>2. L \in Nat /\ DOMAIN file.index = 1..L /\ \A i \in 1..L : file.index[i] \in [key : Int, off : Nat, count : Nat]
        BY <2>1, OfSequence
    <2> QED
        BY <2>2 DEF KeyAt
<1>2. \A i, j \in 1..L : i < j => KeyAt(file, i) < KeyAt(file, j)
    BY <1>1 DEF StrictlySorted, KeyAt
<1>3. pos \in 0..L
    BY <1>1 DEF IsPlaceOf
<1>4. /\ pos = 0 => \A i \in 1..L : KeyAt(file, i) # key
      /\ pos # 0 => KeyAt(file, pos) = key
    BY <1>1 DEF IsPlaceOf
<1> HIDE DEF L
<1>5. left \in 0..L /\ right \in 0..L
    BY DEF L
<1>6. CASE left >= right
    <2>1. ~(left < pos /\ pos <= right)
        BY <1>1, <1>3, <1>5, <1>6
    <2> QED
        BY <1>6, <2>1 DEF Half, Place
<1>7. CASE left < right
    <2>1. m \in Int /\ left <= m /\ m < right
        BY <1>1, <1>5, <1>7 DEF Middle
    <2>2. f[<<left, m>>] = Place(pos, left, m) /\ f[<<m + 1, right>>] = Place(pos, m + 1, right)
        BY <1>7
    <2>3. Half(file, key, f, left, right) =
            IF key = KeyAt(file, m + 1) THEN m + 1
            ELSE IF key < KeyAt(file, m + 1) THEN Place(pos, left, m) ELSE Place(pos, m + 1, right)
        BY <1>1, <1>5, <1>7, <2>2 DEF Half
    <2> HIDE DEF m
    <2>4. m + 1 \in 1..L
        BY <1>1, <1>5, <2>1
    <2>5. key = KeyAt(file, m + 1) => pos = m + 1
        <3> SUFFICES ASSUME key = KeyAt(file, m + 1) PROVE pos = m + 1
            OBVIOUS
        <3>1. pos # 0 /\ pos \in 1..L
            BY <1>1, <1>3, <1>4, <2>4
        <3>2. ~(pos < m + 1) /\ ~(m + 1 < pos)
            BY <1>1, <1>2, <1>4, <2>4, <3>1
        <3> QED
            BY <1>1, <2>4, <3>1, <3>2
    <2>6. key < KeyAt(file, m + 1) => pos <= m
        <3> SUFFICES ASSUME key < KeyAt(file, m + 1), ~(pos <= m) PROVE FALSE
            OBVIOUS
        <3>1. pos \in 1..L /\ m + 1 <= pos
            BY <1>1, <1>3, <2>1, <2>4
        <3>2. KeyAt(file, pos) = key
            BY <1>4, <3>1
        <3>3. m + 1 = pos \/ KeyAt(file, m + 1) < KeyAt(file, pos)
            BY <1>2, <2>4, <3>1
        <3> QED
            BY <1>1, <2>4, <3>1, <3>2, <3>3
    <2>7. key > KeyAt(file, m + 1) => pos = 0 \/ m + 1 < pos
        <3> SUFFICES ASSUME key > KeyAt(file, m + 1), pos # 0, ~(m + 1 < pos) PROVE FALSE
            OBVIOUS
        <3>1. pos \in 1..L /\ pos <= m + 1
            BY <1>1, <1>3, <2>1, <2>4
        <3>2. KeyAt(file, pos) = key
            BY <1>4, <3>1
        <3>3. m + 1 = pos \/ KeyAt(file, pos) < KeyAt(file, m + 1)
            BY <1>2, <2>4, <3>1
        <3> QED
            BY <1>1, <2>4, <3>1, <3>2, <3>3
    <2>8. KeyAt(file, m + 1) \in Int
        BY <1>1, <2>4
    <2>9. CASE key = KeyAt(file, m + 1)
        BY <1>5, <2>1, <2>3, <2>5, <2>9 DEF Place
    <2>10. CASE key < KeyAt(file, m + 1)
        <3>1. (left < pos /\ pos <= right) <=> (left < pos /\ pos <= m)
            BY <1>1, <1>3, <1>5, <2>1, <2>6, <2>10
        <3> QED
            BY <2>3, <2>8, <2>10, <3>1 DEF Place
    <2>11. CASE key > KeyAt(file, m + 1)
        <3>1. (left < pos /\ pos <= right) <=> (m + 1 < pos /\ pos <= right)
            BY <1>1, <1>3, <1>5, <2>1, <2>7, <2>11
        <3> QED
            BY <2>3, <2>8, <2>11, <3>1 DEF Place
    <2> QED
        BY <2>8, <2>9, <2>10, <2>11
<1> QED
    BY <1>1, <1>5, <1>6, <1>7

(* The search finds the record of the position, if there is one.           *)
LEMMA FindFinds ==
    ASSUME NEW file \in Books, StrictlySorted(file), NEW key \in Int
    PROVE  IsPlaceOf(Find(file, key), file, key)
<1> DEFINE L == Len(file.index)
<1>1. L \in Nat
    <2>1. file.index \in Seq([key : Int, off : Nat, count : Nat])
        BY DEF Books
    <2> QED
        BY <2>1, OfSequence
<1>2. PICK pos : IsPlaceOf(pos, file, key)
    BY DEF IsPlaceOf
<1>3. pos \in 0..L
    BY <1>1, <1>2 DEF IsPlaceOf
<1> DEFINE g == [range \in Ranges(file) |-> Place(pos, range[1], range[2])]
<1>4. \A l, r \in 0..L : <<l, r>> \in Ranges(file) /\ g[<<l, r>>] = Place(pos, l, r)
    BY DEF Ranges
<1>5. \A range \in Ranges(file) : /\ range[1] \in 0..L /\ range[2] \in 0..L
                                  /\ range = <<range[1], range[2]>>
    BY DEF Ranges
<1>6. \A l, r \in 0..L : l < r => /\ Middle(l, r) \in 0..L /\ Middle(l, r) + 1 \in 0..L
                                  /\ Middle(l, r) - l < r - l /\ r - (Middle(l, r) + 1) < r - l
                                  /\ Middle(l, r) - l \in Nat /\ r - (Middle(l, r) + 1) \in Nat
    <2> HIDE DEF L
    <2> QED
        BY <1>1 DEF Middle
<1> HIDE DEF g
<1>7. Searches(file, key, g)
    <2>1. \A range \in Ranges(file) : g[range] = Half(file, key, g, range[1], range[2])
        <3> TAKE range \in Ranges(file)
        <3>1. PICK l \in 0..L, r \in 0..L : l = range[1] /\ r = range[2] /\ range = <<l, r>>
            BY <1>5
        <3>2. l < r => LET m == Middle(l, r)
                       IN  g[<<l, m>>] = Place(pos, l, m) /\ g[<<m + 1, r>>] = Place(pos, m + 1, r)
            BY <1>4, <1>6
        <3>3. Half(file, key, g, l, r) = Place(pos, l, r)
            BY <1>2, <3>2, SearchedByHalves
        <3> QED
            BY <1>4, <3>1, <3>3
    <2>2. g = [range \in Ranges(file) |-> g[range]]
        BY DEF g
    <2>3. [range \in Ranges(file) |-> g[range]] =
          [range \in Ranges(file) |-> Half(file, key, g, range[1], range[2])]
        BY <2>1
    <2> QED
        BY <2>2, <2>3 DEF Searches
<1> DEFINE f == CHOOSE f : Searches(file, key, f)
<1>8. Searches(file, key, f)
    BY <1>7
<1>9. Find(file, key) = f[<<0, L>>]
    BY DEF Find, Searches, Half, KeyAt
<1> HIDE DEF f
<1>10. \A l, r \in 0..L : f[<<l, r>>] = Half(file, key, f, l, r)
    <2> DEFINE h == [range \in Ranges(file) |-> Half(file, key, f, range[1], range[2])]
    <2>1. \A l, r \in 0..L : h[<<l, r>>] = Half(file, key, f, l, r)
        BY <1>4
    <2>2. f = h
        BY <1>8 DEF Searches
    <2> HIDE DEF h
    <2> QED
        BY <2>1, <2>2
<1> DEFINE T == {d \in Nat : \E l, r \in 0..L : l < r /\ d = r - l /\ f[<<l, r>>] # Place(pos, l, r)}
<1>11. \A l, r \in 0..L : ~(l < r) => f[<<l, r>>] = Place(pos, l, r)
    <2> TAKE l, r \in 0..L
    <2> HAVE ~(l < r)
    <2>1. l < r => LET m == Middle(l, r)
                   IN  f[<<l, m>>] = Place(pos, l, m) /\ f[<<m + 1, r>>] = Place(pos, m + 1, r)
        OBVIOUS
    <2>2. Half(file, key, f, l, r) = Place(pos, l, r)
        BY <1>2, <2>1, SearchedByHalves
    <2> QED
        BY <1>10, <2>2
<1>12. T = {}
    <2> SUFFICES ASSUME T # {} PROVE FALSE
        OBVIOUS
    <2>1. PICK d \in T : \A e \in T : d <= e
        <3>1. T \in SUBSET Nat
            OBVIOUS
        <3> HIDE DEF T
        <3> QED
            BY <3>1, LeastNumber
    <2>2. PICK l \in 0..L, r \in 0..L : l < r /\ d = r - l /\ f[<<l, r>>] # Place(pos, l, r)
        BY <2>1
    <2>3. ASSUME NEW a \in 0..L, NEW b \in 0..L, b - a < d, b - a \in Nat
          PROVE  f[<<a, b>>] = Place(pos, a, b)
        <3>1. b - a \notin T
            <4>1. d \in Nat /\ ~(d <= b - a)
                BY <2>1, <2>3
            <4> HIDE DEF T
            <4> QED
                BY <2>1, <4>1
        <3> QED
            BY <1>11, <2>3, <3>1
    <2>4. LET m == Middle(l, r)
          IN  f[<<l, m>>] = Place(pos, l, m) /\ f[<<m + 1, r>>] = Place(pos, m + 1, r)
        BY <1>6, <2>2, <2>3
    <2>5. Half(file, key, f, l, r) = Place(pos, l, r)
        BY <1>2, <2>4, SearchedByHalves
    <2> QED
        BY <1>10, <2>2, <2>5
<1>13. f[<<0, L>>] = Place(pos, 0, L)
    <2> HIDE DEF L
    <2>1. 0 \in 0..L /\ L \in 0..L /\ (0 < L => L - 0 \in Nat)
        BY <1>1
    <2> QED
        BY <1>11, <1>12, <2>1
<1>14. Place(pos, 0, L) = pos
    <2> HIDE DEF L
    <2> QED
        BY <1>1, <1>3 DEF Place
<1> QED
    BY <1>2, <1>9, <1>13, <1>14

-----------------------------------------------------------------------------
(* A finite set that is ordered, equals allowed, has a first element.      *)
Orders(R, S) ==
    /\ \A i, j \in S : <<i, j>> \in R \/ <<j, i>> \in R
    /\ \A i, j, k \in S : <<i, j>> \in R /\ <<j, k>> \in R => <<i, k>> \in R

LEMMA Foremost ==
    ASSUME NEW S, IsFiniteSet(S), S # {}, NEW R, Orders(R, S)
    PROVE  \E i \in S : \A j \in S : <<i, j>> \in R
<1> DEFINE Before(i) == {k \in S : <<i, k>> \notin R}
           T == {Before(i) : i \in S}
<1>1. FiniteFamily(T)
    <2>1. T # {}
        OBVIOUS
    <2>2. ASSUME NEW y \in T PROVE IsFiniteSet(y)
        <3>1. y \subseteq S
            OBVIOUS
        <3> QED
            BY <3>1, FS_Subset
    <2> HIDE DEF T
    <2> QED
        BY <2>1, <2>2 DEF FiniteFamily
<1>2. PICK x \in T : \A y \in T : y \subseteq x => y = x
    <2> HIDE DEF T
    <2> QED
        BY <1>1, MinimalSet
<1>3. PICK i \in S : x = Before(i)
    OBVIOUS
<1>4. ASSUME NEW j \in S, <<i, j>> \notin R PROVE FALSE
    <2>1. Before(j) \in T /\ j \in Before(i)
        BY <1>4
    <2>2. <<j, i>> \in R /\ <<j, j>> \in R
        BY <1>4 DEF Orders
    <2>3. j \notin Before(j)
        BY <2>2
    <2>4. ASSUME NEW k \in Before(j) PROVE k \in Before(i)
        <3>1. k \in S /\ <<j, k>> \notin R
            OBVIOUS
        <3>2. <<i, k>> \notin R
            BY <2>2, <3>1 DEF Orders
        <3> QED
            BY <3>1, <3>2
    <2>5. Before(j) \subseteq Before(i)
        BY <2>4
    <2>6. Before(j) = Before(i)
        <3> HIDE DEF Before, T
        <3> QED
            BY <1>2, <1>3, <2>1, <2>5
    <2> QED
        BY <2>1, <2>3, <2>6
<1> QED
    BY <1>4

(* The moves of a record, and the first of the best of them.               *)
Moves(file, at) == [i \in 1..file.index[at].count |-> ReadMove(file, file.index[at], i)]
LegalIn(file, at) == {i \in 1..file.index[at].count : Moves(file, at)[i].kind = "legal"}
IsBest(file, at, i) ==
    \A j \in LegalIn(file, at) :
        \/ Moves(file, at)[j].eval < Moves(file, at)[i].eval
        \/ Moves(file, at)[j].eval = Moves(file, at)[i].eval /\ i <= j
BestIn(file, at) == CHOOSE i \in LegalIn(file, at) : IsBest(file, at, i)

LEMMA ProbeIs ==
    ASSUME NEW file, NEW key
    PROVE  Probe(file, key) =
              LET at == Find(file, key)
              IN  IF at = 0 THEN NoMove
                  ELSE IF \E i \in 1..file.index[at].count : ~HasMove(file, file.index[at], i) THEN NoMove
                  ELSE IF LegalIn(file, at) = {} THEN NoMove ELSE Moves(file, at)[BestIn(file, at)]
BY DEF Probe, Moves, LegalIn, BestIn, IsBest

LEMMA BestExists ==
    ASSUME NEW file \in Books, NEW at \in 1..Len(file.index), LegalIn(file, at) # {},
           \A i \in 1..file.index[at].count : HasMove(file, file.index[at], i)
    PROVE  BestIn(file, at) \in LegalIn(file, at) /\ IsBest(file, at, BestIn(file, at))
<1> DEFINE S == LegalIn(file, at)
           V(i) == Moves(file, at)[i].eval
           R == {p \in S \X S : V(p[2]) < V(p[1]) \/ (V(p[2]) = V(p[1]) /\ p[1] <= p[2])}
<1>1. /\ file.index \in Seq([key : Int, off : Nat, count : Nat])
      /\ file.moves \in Seq([move : Int, eval : Int, to : Int, kind : {"legal", "illegal", "garbage"}])
    BY DEF Books
<1>2. file.index[at] \in [key : Int, off : Nat, count : Nat]
    BY <1>1, OfSequence
<1>3. \A m \in 1..Len(file.moves) : file.moves[m].eval \in Int
    <2>1. \A m \in 1..Len(file.moves) :
            file.moves[m] \in [move : Int, eval : Int, to : Int, kind : {"legal", "illegal", "garbage"}]
        BY <1>1, OfSequence
    <2> QED
        BY <2>1
<1>4. Len(file.moves) \in Nat
    BY <1>1, OfSequence
<1>5. \A i \in S : i \in 1..file.index[at].count /\ i \in Int /\ V(i) \in Int
    <2> TAKE i \in S
    <2>1. i \in 1..file.index[at].count /\ i \in Int
        BY <1>2 DEF LegalIn
    <2>2. file.index[at].off + i \in 1..Len(file.moves)
        BY <1>2, <1>4, <2>1 DEF HasMove
    <2>3. Moves(file, at)[i] = file.moves[file.index[at].off + i]
        BY <2>1 DEF Moves, ReadMove
    <2> QED
        BY <1>3, <2>1, <2>2, <2>3
<1>6. IsFiniteSet(S)
    <2>1. IsFiniteSet(1..file.index[at].count)
        BY <1>2, FS_Interval
    <2> QED
        BY <2>1, FS_Subset DEF LegalIn
<1> HIDE DEF S, V
<1>7. \A i, j \in S : <<i, j>> \in R <=> V(j) < V(i) \/ (V(j) = V(i) /\ i <= j)
    OBVIOUS
<1> HIDE DEF R
<1>8. Orders(R, S)
    BY <1>5, <1>7 DEF Orders
<1>9. PICK i \in S : \A j \in S : <<i, j>> \in R
    <2>1. S # {}
        BY DEF S
    <2> QED
        BY <1>6, <1>8, <2>1, Foremost
<1>10. IsBest(file, at, i)
    BY <1>7, <1>9 DEF IsBest, S, V
<1> QED
    BY <1>10 DEF BestIn, S

(* What a reader of the whole file finds is what the probe answers.        *)
Entries(file, key) == {e \in ToSet(file.index) : e.key = key}
Whole(file, key) == {e \in Entries(file, key) : e.off + e.count <= Len(file.moves)}
Own(file, key) ==
    UNION {{r \in {file.moves[e.off + i] : i \in 1..e.count} : r.kind = "legal"} : e \in Whole(file, key)}

LEMMA ProbeAnswers ==
    ASSUME NEW file \in Books, StrictlySorted(file), NEW key \in Int
    PROVE  IF Own(file, key) = {} THEN Probe(file, key) = NoMove
           ELSE /\ Probe(file, key) \in Own(file, key)
                /\ \A r \in Own(file, key) : r.eval <= Probe(file, key).eval
<1> DEFINE L == Len(file.index)
           at == Find(file, key)
           entry == file.index[at]
<1>1. /\ file.index \in Seq([key : Int, off : Nat, count : Nat])
      /\ file.moves \in Seq([move : Int, eval : Int, to : Int, kind : {"legal", "illegal", "garbage"}])
    BY DEF Books
<1>2. /\ L \in Nat /\ DOMAIN file.index = 1..L
      /\ \A i \in 1..L : file.index[i] \in [key : Int, off : Nat, count : Nat]
    BY <1>1, OfSequence
<1>3. Len(file.moves) \in Nat
    BY <1>1, OfSequence
<1>4. \A m \in 1..Len(file.moves) : file.moves[m].eval \in Int
    <2>1. \A m \in 1..Len(file.moves) :
            file.moves[m] \in [move : Int, eval : Int, to : Int, kind : {"legal", "illegal", "garbage"}]
        BY <1>1, OfSequence
    <2> QED
        BY <2>1
<1>5. IsPlaceOf(at, file, key)
    BY FindFinds
<1>6. \A e : e \in Entries(file, key) <=> \E i \in 1..L : e = file.index[i] /\ file.index[i].key = key
    BY <1>2 DEF Entries, ToSet
<1>7. Probe(file, key) =
              IF at = 0 THEN NoMove
              ELSE IF \E i \in 1..entry.count : ~HasMove(file, entry, i) THEN NoMove
              ELSE IF LegalIn(file, at) = {} THEN NoMove ELSE Moves(file, at)[BestIn(file, at)]
    BY ProbeIs
<1> HIDE DEF L, at
<1>8. CASE at = 0
    <2>1. Entries(file, key) = {}
        BY <1>2, <1>5, <1>6, <1>8 DEF IsPlaceOf, KeyAt, L
    <2>2. Own(file, key) = {}
        BY <2>1 DEF Own, Whole
    <2> QED
        BY <1>7, <1>8, <2>2
<1>9. CASE at # 0
    <2>1. at \in 1..L /\ entry.key = key
        BY <1>5, <1>9 DEF IsPlaceOf, KeyAt, L
    <2>2. entry \in [key : Int, off : Nat, count : Nat]
        BY <1>2, <2>1
    <2>3. Entries(file, key) = {entry}
        <3>1. ASSUME NEW i \in 1..L, file.index[i].key = key PROVE i = at
            <4>1. file.index[i].key \in Int /\ key \in Int
                BY <1>2
            <4>2. \A k, j \in 1..L : k < j => file.index[k].key < file.index[j].key
                BY <1>2 DEF StrictlySorted
            <4>3. file.index[at].key = key
                BY <2>1
            <4>4. ~(i < at)
                BY <2>1, <3>1, <4>1, <4>2, <4>3
            <4>5. ~(at < i)
                BY <2>1, <3>1, <4>1, <4>2, <4>3
            <4> QED
                BY <1>2, <2>1, <4>4, <4>5
        <3> QED
            BY <1>6, <2>1, <3>1
    <2> HIDE DEF entry
    <2>4. CASE ~(entry.off + entry.count <= Len(file.moves))
        <3>1. Own(file, key) = {}
            BY <2>3, <2>4 DEF Own, Whole
        <3>2. Probe(file, key) = NoMove
            <4>1. CASE entry.count = 0
                <5>1. LegalIn(file, at) = {}
                    BY <4>1 DEF LegalIn, entry
                <5> QED
                    BY <1>7, <5>1
            <4>2. CASE entry.count # 0
                <5>1. entry.count \in 1..entry.count
                    BY <2>2, <4>2
                <5>2. ~HasMove(file, entry, entry.count)
                    BY <2>4 DEF HasMove
                <5> QED
                    BY <1>7, <5>1, <5>2
            <4> QED
                BY <4>1, <4>2
        <3> QED
            BY <3>1, <3>2
    <2>5. CASE entry.off + entry.count <= Len(file.moves)
        <3>1. \A i \in 1..entry.count : HasMove(file, entry, i)
            BY <1>3, <2>2, <2>5 DEF HasMove
        <3>2. \A i \in 1..entry.count : Moves(file, at)[i] = file.moves[entry.off + i]
            BY DEF Moves, ReadMove, entry
        <3>3. Whole(file, key) = {entry}
            BY <2>3, <2>5 DEF Whole
        <3>4. \A r : r \in Own(file, key) <=>
                \E i \in 1..entry.count : r = file.moves[entry.off + i] /\ r.kind = "legal"
            BY <3>3 DEF Own
        <3>5. \A i : i \in LegalIn(file, at) <=> i \in 1..entry.count /\ Moves(file, at)[i].kind = "legal"
            BY DEF LegalIn, entry
        <3>6. CASE LegalIn(file, at) = {}
            <4>1. Own(file, key) = {}
                BY <3>2, <3>4, <3>5, <3>6
            <4> QED
                BY <1>7, <3>6, <4>1
        <3>7. CASE LegalIn(file, at) # {}
            <4> DEFINE b == BestIn(file, at)
            <4>1. b \in LegalIn(file, at) /\ IsBest(file, at, b)
                BY <2>1, <3>1, <3>7, BestExists DEF L, entry
            <4> HIDE DEF b
            <4>2. Probe(file, key) = Moves(file, at)[b]
                BY <1>7, <1>9, <3>1, <3>7 DEF b
            <4>3. Probe(file, key) = file.moves[entry.off + b] /\ Probe(file, key).kind = "legal"
                BY <3>2, <3>5, <4>1, <4>2
            <4>4. Probe(file, key) \in Own(file, key)
                BY <3>4, <3>5, <4>1, <4>3
            <4>5. ASSUME NEW r \in Own(file, key) PROVE r.eval <= Probe(file, key).eval
                <5>1. PICK j \in 1..entry.count : r = file.moves[entry.off + j] /\ r.kind = "legal"
                    BY <3>4
                <5>2. j \in LegalIn(file, at) /\ r = Moves(file, at)[j]
                    BY <3>2, <3>5, <5>1
                <5>3. r.eval < Probe(file, key).eval \/ r.eval = Probe(file, key).eval
                    BY <4>1, <4>2, <5>2 DEF IsBest
                <5>4. \A i \in 1..entry.count : file.moves[entry.off + i].eval \in Int
                    BY <1>3, <1>4, <2>2, <2>5
                <5>5. b \in 1..entry.count
                    BY <3>5, <4>1
                <5>6. r.eval \in Int /\ Probe(file, key).eval \in Int
                    BY <4>3, <5>1, <5>4, <5>5
                <5> QED
                    BY <5>3, <5>6
            <4> QED
                BY <4>4, <4>5
        <3> QED
            BY <3>6, <3>7
    <2> QED
        BY <2>4, <2>5
<1> QED
    BY <1>8, <1>9

-----------------------------------------------------------------------------
(* The moves of a position, and where they lead.                           *)
MoveRecords == [move : Int, eval : Int, to : Int, kind : {"legal", "illegal", "garbage"}]

LEMMA MoveFacts ==
    ASSUME task \in Tasks, Valid, NEW n \in 1..NodeCount
    PROVE  /\ \A i \in 1..Count(n) : MoveAt(n, i) \in MoveRecords
           /\ ~options.validate => \A i \in 1..Count(n) : MoveAt(n, i).kind # "illegal"
           /\ Plausible(n) \subseteq 1..Count(n) /\ IsFiniteSet(Plausible(n))
           /\ Count(n) \in Nat
<1>1. /\ Count(n) \in Nat
      /\ \A i \in 1..Count(n) : Off(n) + i \in 1..Len(book.moves)
    BY BookFacts
<1>2. \A i \in 1..Count(n) : MoveAt(n, i) = book.moves[Off(n) + i]
    BY DEF MoveAt, ReadMove, Off
<1>3. \A m \in 1..Len(book.moves) : book.moves[m] \in MoveRecords
    BY TaskTyped DEF MoveRecords
<1>4. Plausible(n) \subseteq 1..Count(n)
    BY DEF Plausible, Count
<1>5. IsFiniteSet(Plausible(n))
    <2>1. IsFiniteSet(1..Count(n))
        BY <1>1, FS_Interval
    <2> QED
        BY <1>4, <2>1, FS_Subset
<1>6. ~options.validate => \A m \in 1..Len(book.moves) : book.moves[m].kind # "illegal"
    BY TaskTyped
<1> QED
    BY <1>1, <1>2, <1>3, <1>4, <1>5, <1>6

LEMMA MaxExists ==
    ASSUME NEW S \in SUBSET Int, IsFiniteSet(S), S # {}
    PROVE  Max(S) \in S
<1> DEFINE R == {p \in S \X S : p[1] >= p[2]}
<1>1. \A i, j \in S : <<i, j>> \in R <=> i >= j
    OBVIOUS
<1>2. \A i \in S : i \in Int
    OBVIOUS
<1> HIDE DEF R
<1>3. Orders(R, S)
    BY <1>1, <1>2 DEF Orders
<1>4. \E i \in S : \A j \in S : i >= j
    BY <1>1, <1>3, Foremost
<1> QED
    BY <1>4 DEF Max

LEMMA BestEvalTyped ==
    ASSUME task \in Tasks, Valid, NEW n \in 1..NodeCount
    PROVE  BestEval(n) \in Int
<1> DEFINE S == {MoveAt(n, i).eval : i \in Plausible(n)}
<1>1. IsFiniteSet(S)
    <2> DEFINE P == Plausible(n)
               f == [i \in P |-> MoveAt(n, i).eval]
    <2>1. IsFiniteSet(P)
        BY MoveFacts
    <2>2. f \in Surjection(P, S)
        BY DEF Surjection
    <2> HIDE DEF P, f, S
    <2> QED
        BY <2>1, <2>2, FS_Surjection
<1>2. S \in SUBSET Int
    BY MoveFacts DEF MoveRecords
<1> HIDE DEF S
<1>3. PICK worst \in Int : worst = -40000
    OBVIOUS
<1>4. IsFiniteSet({worst} \cup S)
    <2>1. IsFiniteSet({worst})
        BY FS_Singleton
    <2> QED
        BY <1>1, <2>1, FS_Union
<1>5. {worst} \cup S \in SUBSET Int /\ {worst} \cup S # {}
    BY <1>2
<1>6. Max({worst} \cup S) \in {worst} \cup S
    BY <1>4, <1>5, MaxExists
<1> QED
    BY <1>3, <1>5, <1>6 DEF BestEval, S

LEMMA ChildIs ==
    ASSUME task \in Tasks, Valid, Len(book.index) < kExitDisallowed, NEW n \in 1..NodeCount, NEW i
    PROVE  /\ ChildOf(n, i) = kExitDisallowed <=> Disallowed(n, i)
           /\ ChildOf(n, i) = kExitLeaf => Out(MoveAt(n, i))
           /\ ChildOf(n, i) \notin {kExitLeaf, kExitDisallowed} =>
                ChildOf(n, i) \in 1..NodeCount /\ NodeOf(MoveAt(n, i)) = ChildOf(n, i)
<1> DEFINE to == MoveAt(n, i).to
           at == {c \in 1..NodeCount : Key(c) = to}
<1>1. ChildOf(n, i) = IF Disallowed(n, i) THEN kExitDisallowed
                      ELSE IF at = {} THEN kExitLeaf ELSE CHOOSE c \in at : TRUE
    BY DEF ChildOf
<1>2. \A c \in 1..NodeCount : c # kExitLeaf /\ c # kExitDisallowed
    BY BookFacts, SolverAssumption DEF kExitLeaf, kExitDisallowed
<1>3. kExitLeaf # kExitDisallowed
    BY SolverAssumption DEF kExitLeaf, kExitDisallowed
<1>4. at # {} => (CHOOSE c \in at : TRUE) \in at
    OBVIOUS
<1>5. \A c, d \in 1..NodeCount : Key(c) = Key(d) => c = d
    <2> SUFFICES ASSUME NEW c \in 1..NodeCount, NEW d \in 1..NodeCount, Key(c) = Key(d), c # d PROVE FALSE
        OBVIOUS
    <2>1. NodeCount \in Nat /\ Key(c) \in Int /\ Key(d) \in Int
        BY BookFacts
    <2>2. c < d \/ d < c
        BY <2>1
    <2> QED
        BY <2>1, <2>2, BookFacts
<1>6. at = {} => Out(MoveAt(n, i))
    BY DEF Out
<1>7. \A c \in at : NodeOf(MoveAt(n, i)) = c
    <2> TAKE c \in at
    <2>1. c \in 1..NodeCount /\ Key(c) = to
        OBVIOUS
    <2>2. NodeOf(MoveAt(n, i)) \in 1..NodeCount /\ Key(NodeOf(MoveAt(n, i))) = to
        BY <2>1 DEF NodeOf
    <2> QED
        BY <1>5, <2>1, <2>2
<1>8. \A c \in at : c \in 1..NodeCount
    OBVIOUS
<1> HIDE DEF at
<1> QED
    BY <1>1, <1>2, <1>3, <1>4, <1>6, <1>7, <1>8

(* What is known once the graph is there and the solver has worked.        *)
Solid == /\ task \in Tasks /\ Valid /\ Len(book.index) < kExitDisallowed
         /\ GraphInv /\ SolverInv

LEMMA SolidFacts ==
    ASSUME Solid
    PROVE  /\ GraphTyped /\ Nodes = 1..NodeCount /\ NodeCount \in Nat /\ NodeCount < kExitDisallowed
           /\ \A n \in Nodes :
                /\ IsGote(n) = GoteToMove(n) /\ ~Raises(n)
                /\ Allowed(n) \subseteq 1..Count(n)
                /\ \A i \in 1..Count(n) : Child(n, i) = ChildOf(n, i)
                /\ \A i \in 1..Count(n) : i \in Allowed(n) <=> ChildOf(n, i) # kExitDisallowed
                /\ \A i : i \in Inside(n) <=> i \in Allowed(n) /\ ChildOf(n, i) # kExitLeaf
                /\ IsDecided(n) => distance[n] \in 1..NodeCount
           /\ \A n \in 1..NodeCount : n < kExitDistanceInfinite /\ n # kExitLeaf /\ n # kExitDisallowed
           /\ kExitDistanceInfinite \in Nat /\ kExitLeaf # kExitDisallowed
<1>1. /\ GraphTyped /\ Nodes = 1..NodeCount
      /\ \A n \in Nodes : /\ IsGote(n) = GoteToMove(n) /\ DOMAIN graph.edges[n] = 1..Count(n)
                          /\ \A i \in 1..Count(n) : Child(n, i) = ChildOf(n, i)
    BY GraphOfBook DEF Solid
<1>2. NodeCount \in Nat /\ NodeCount <= Len(book.index) /\ Len(book.index) \in Nat
    BY TaskTyped DEF Solid
<1>3. MaxUint32 \in Nat /\ kExitDisallowed = MaxUint32 - 1 /\ kExitLeaf = MaxUint32
      /\ kExitDistanceInfinite = MaxUint32
    BY SolverAssumption DEF kExitDisallowed, kExitLeaf, kExitDistanceInfinite
<1>4. NodeCount < kExitDisallowed
    BY <1>2, <1>3 DEF Solid
<1>5. \A n \in Nodes : IsDecided(n) => distance[n] \in 1..NodeCount
    BY <1>1, <1>2, <1>4, DecidedFacts DEF Solid, SolverInv
<1>6. \A n \in Nodes : ~Raises(n)
    BY <1>1 DEF Solid, GraphInv
<1>7. \A n \in 1..NodeCount : n < kExitDistanceInfinite /\ n # kExitLeaf /\ n # kExitDisallowed
    BY <1>2, <1>3, <1>4
<1>8. kExitDistanceInfinite \in Nat /\ kExitLeaf # kExitDisallowed
    BY <1>3
<1>9. ASSUME NEW n \in Nodes
      PROVE  /\ Allowed(n) \subseteq 1..Count(n)
             /\ \A i \in 1..Count(n) : i \in Allowed(n) <=> ChildOf(n, i) # kExitDisallowed
             /\ \A i : i \in Inside(n) <=> i \in Allowed(n) /\ ChildOf(n, i) # kExitLeaf
    <2>1. DOMAIN graph.edges[n] = 1..Count(n)
        BY <1>1
    <2>2. \A i \in 1..Count(n) : graph.edges[n][i] = ChildOf(n, i)
        BY <1>1 DEF Child
    <2> QED
        BY <2>1, <2>2 DEF Allowed, Inside
<1> QED
    BY <1>1, <1>2, <1>4, <1>5, <1>6, <1>7, <1>8, <1>9

(* The move of a position of Gote: of his plausible moves; where he can    *)
(* leave the book, a move that does it in the distance of the position.    *)
LEMMA ExitDistanceIs ==
    ASSUME Solid, NEW n \in Nodes, NEW i \in Allowed(n)
    PROVE  /\ ExitDistance(n, i) \in Nat /\ i \in Plausible(n) /\ i \in 1..Count(n)
           /\ i \notin Inside(n) => ExitDistance(n, i) = 1
           /\ i \in Inside(n) =>
                /\ ChildOf(n, i) \in Nodes
                /\ IsDecided(ChildOf(n, i)) => ExitDistance(n, i) = distance[ChildOf(n, i)] + 1
                /\ ~IsDecided(ChildOf(n, i)) => ExitDistance(n, i) = kExitDistanceInfinite
<1> DEFINE child == ChildOf(n, i)
<1>1. /\ n \in 1..NodeCount /\ i \in 1..Count(n) /\ graph.edges[n][i] = child
      /\ child # kExitDisallowed
      /\ i \in Inside(n) <=> child # kExitLeaf
    BY SolidFacts DEF Child
<1>2. ExitDistance(n, i) = IF child = kExitLeaf THEN 1
                           ELSE IF ~IsDecided(child) THEN kExitDistanceInfinite
                           ELSE distance[child] + 1
    BY <1>1 DEF ExitDistance, IsDecided
<1>3. i \in Plausible(n)
    BY <1>1, ChildIs DEF Solid, Disallowed
<1>4. child # kExitLeaf => child \in Nodes
    BY <1>1, ChildIs, SolidFacts DEF Solid
<1>5. IsDecided(child) /\ child # kExitLeaf => distance[child] \in Nat
    BY <1>4, SolidFacts
<1>6. kExitDistanceInfinite \in Nat
    BY SolidFacts
<1> HIDE DEF child
<1>7. ExitDistance(n, i) \in Nat
    BY <1>2, <1>5, <1>6
<1> QED
    BY <1>1, <1>2, <1>3, <1>4, <1>7 DEF child

LEMMA BetterOrders ==
    ASSUME Solid, NEW n \in Nodes
    PROVE  /\ Orders({p \in Plausible(n) \X Plausible(n) : Better(n, p[1], p[2])}, Plausible(n))
           /\ Orders({p \in Allowed(n) \X Allowed(n) : Quicker(n, p[1], p[2])}, Allowed(n))
<1> DEFINE V(i) == MoveAt(n, i).eval
           M(i) == MoveAt(n, i).move
           P == Plausible(n)
           A == Allowed(n)
           X(i) == ExitDistance(n, i)
           R == {p \in P \X P : Better(n, p[1], p[2])}
           Q == {p \in A \X A : Quicker(n, p[1], p[2])}
<1>1. \A i \in P : V(i) \in Int /\ M(i) \in Int
    BY SolidFacts, MoveFacts DEF Solid, MoveRecords
<1>2. \A i \in A : i \in P /\ X(i) \in Nat
    BY ExitDistanceIs
<1>3. \A i, j \in P : <<i, j>> \in R <=> V(i) > V(j) \/ (V(i) = V(j) /\ M(i) <= M(j))
    BY DEF Better
<1>4. \A i, j \in A : <<i, j>> \in Q <=>
            \/ X(i) < X(j)
            \/ X(i) = X(j) /\ (V(i) > V(j) \/ (V(i) = V(j) /\ M(i) <= M(j)))
    BY DEF Quicker, Better
<1> HIDE DEF V, M, P, A, X, R, Q
<1>5. Orders(R, P)
    BY <1>1, <1>3 DEF Orders
<1>6. Orders(Q, A)
    BY <1>1, <1>2, <1>4 DEF Orders
<1> QED
    BY <1>5, <1>6 DEF R, Q, P, A

LEMMA SelectedMove ==
    ASSUME Solid, NEW n \in Nodes, IsGote(n), Plausible(n) # {}
    PROVE  /\ SelectGoteMove(n) \in Plausible(n)
           /\ IsDecided(n) => /\ SelectGoteMove(n) \in Allowed(n)
                              /\ ExitDistance(n, SelectGoteMove(n)) <= distance[n]
<1> DEFINE P == Plausible(n)
           A == Allowed(n)
           R == {p \in P \X P : Better(n, p[1], p[2])}
           Q == {p \in A \X A : Quicker(n, p[1], p[2])}
<1>1. /\ Orders(R, P) /\ Orders(Q, A)
      /\ \A i, j \in P : <<i, j>> \in R <=> Better(n, i, j)
      /\ \A i, j \in A : <<i, j>> \in Q <=> Quicker(n, i, j)
    BY BetterOrders
<1>2. IsFiniteSet(P) /\ A \subseteq P
    BY SolidFacts, MoveFacts, ExitDistanceIs DEF Solid
<1>3. IsFiniteSet(A)
    BY <1>2, FS_Subset
<1>4. ExitMoves(n) = A
    BY <1>2 DEF ExitMoves
<1> HIDE DEF R, Q
<1>5. CASE ~IsDecided(n)
    <2>1. \E i \in P : \A j \in P : Better(n, i, j)
        BY <1>1, <1>2, Foremost
    <2>2. SelectGoteMove(n) = CHOOSE i \in P : \A j \in P : Better(n, i, j)
        BY <1>5 DEF SelectGoteMove, IsDecided
    <2> QED
        BY <1>5, <2>1, <2>2
<1>6. CASE IsDecided(n)
    <2>1. PICK e \in A : ExitDistance(n, e) = distance[n]
        <3>1. GoteInv(n)
            BY DEF Solid, SolverInv
        <3>2. CASE Inside(n) # A
            <4>1. distance[n] = 1
                BY <3>1, <3>2 DEF GoteInv
            <4>2. Inside(n) \subseteq A
                BY DEF Inside
            <4>3. PICK e \in A : e \notin Inside(n)
                BY <3>2, <4>2
            <4> QED
                BY <4>1, <4>3, ExitDistanceIs
        <3>3. CASE Inside(n) = A
            <4>1. PICK e \in Inside(n) : IsDecided(Child(n, e)) /\ distance[n] = distance[Child(n, e)] + 1
                BY <1>6, <3>1, <3>3 DEF GoteInv
            <4>2. e \in A /\ Child(n, e) = ChildOf(n, e)
                BY <3>3, <4>1, SolidFacts
            <4> QED
                BY <4>1, <4>2, ExitDistanceIs
        <3> QED
            BY <3>2, <3>3
    <2>2. /\ distance[n] \in Nat /\ kExitDistanceInfinite \in Nat /\ distance[n] < kExitDistanceInfinite
        BY <1>6, SolidFacts
    <2>3. \A i \in A : ExitDistance(n, i) \in Nat
        BY ExitDistanceIs
    <2>4. \A i \in A : (\A j \in A : Quicker(n, i, j)) => ExitDistance(n, i) <= distance[n]
        <3> TAKE i \in A
        <3> HAVE \A j \in A : Quicker(n, i, j)
        <3>1. ExitDistance(n, i) < distance[n] \/ ExitDistance(n, i) = distance[n]
            BY <2>1 DEF Quicker
        <3> QED
            BY <2>2, <2>3, <3>1
    <2>5. PICK i \in A : \A j \in A : Quicker(n, i, j)
        <3>1. A # {}
            BY <2>1
        <3>2. \E i \in A : \A j \in A : <<i, j>> \in Q
            <4> HIDE DEF A
            <4> QED
                BY <1>1, <1>3, <3>1, Foremost
        <3> QED
            BY <1>1, <3>2
    <2>6. ExitDistance(n, i) < kExitDistanceInfinite
        BY <2>2, <2>3, <2>4, <2>5
    <2>7. SelectGoteMove(n) = CHOOSE k \in A : ExitDistance(n, k) < kExitDistanceInfinite /\ \A j \in A : Quicker(n, k, j)
        BY <1>4, <1>6 DEF SelectGoteMove, IsDecided
    <2>8. SelectGoteMove(n) \in A /\ \A j \in A : Quicker(n, SelectGoteMove(n), j)
        BY <2>5, <2>6, <2>7
    <2>9. SelectGoteMove(n) \in P
        BY <1>2, <2>8
    <2> QED
        BY <2>4, <2>8, <2>9
<1> QED
    BY <1>5, <1>6

(* The new book is a book, sorted and whole: a move for every position of  *)
(* Gote that has any, which a probe finds.                                 *)
Chosen == {n \in Nodes : IsGote(n) /\ Plausible(n) # {}}

LEMMA EntryFacts ==
    \A key, off, count : LET e == IndexEntry(key, off, count)
                        IN  e.key = key /\ e.off = off /\ e.count = count
BY DEF IndexEntry

LEMMA NewBookFacts ==
    ASSUME Solid
    PROVE  /\ NewBook \in Books /\ StrictlySorted(NewBook) /\ Loads(NewBook)
           /\ Len(NewBook.index) = Len(NewBook.moves)
           /\ \A n \in Chosen : \E i \in 1..Len(NewBook.index) :
                NewBook.index[i] = IndexEntry(Key(n), i - 1, 1) /\ NewBook.moves[i] = MoveAt(n, SelectGoteMove(n))
<1> DEFINE s == Sorted(Chosen)
           c == Cardinality(Chosen)
           Entry == [key : Int, off : Nat, count : Nat]
           ind == [i \in 1..c |-> IndexEntry(Key(s[i]), i - 1, 1)]
           mov == [i \in 1..c |-> MoveAt(s[i], SelectGoteMove(s[i]))]
<1>1. Chosen \in SUBSET Nat /\ IsFiniteSet(Chosen) /\ Chosen \subseteq 1..NodeCount
    <2>1. Chosen \subseteq 1..NodeCount /\ NodeCount \in Nat
        BY SolidFacts DEF Chosen
    <2>2. IsFiniteSet(1..NodeCount)
        BY <2>1, FS_Interval
    <2>3. IsFiniteSet(Chosen)
        BY <2>1, <2>2, FS_Subset
    <2> HIDE DEF Chosen
    <2> QED
        BY <2>1, <2>3
<1>2. /\ c \in Nat /\ s \in [1..c -> Chosen]
      /\ \A i, j \in 1..c : i < j => s[i] < s[j]
      /\ \A n \in Chosen : \E i \in 1..c : s[i] = n
    BY <1>1, SortedFacts
<1>3. NewBook = [index |-> ind, moves |-> mov]
    <2>1. DOMAIN s = 1..c
        BY <1>2
    <2> QED
        BY <2>1 DEF NewBook, Chosen
<1> HIDE DEF s, c
<1>4. \A i \in 1..c : s[i] \in Chosen /\ s[i] \in 1..NodeCount /\ i - 1 \in Nat
    <2> TAKE i \in 1..c
    <2>1. s[i] \in Chosen /\ i - 1 \in Nat
        BY <1>2
    <2> QED
        BY <1>1, <2>1
<1>5. \A i \in 1..c : ind[i] = IndexEntry(Key(s[i]), i - 1, 1) /\ ind[i] \in Entry
    <2> TAKE i \in 1..c
    <2>1. Key(s[i]) \in Int
        BY <1>4, BookFacts DEF Solid
    <2> QED
        BY <1>4, <2>1 DEF IndexEntry
<1>6. \A i \in 1..c : mov[i] = MoveAt(s[i], SelectGoteMove(s[i])) /\ mov[i] \in MoveRecords
    <2> TAKE i \in 1..c
    <2>1. SelectGoteMove(s[i]) \in Plausible(s[i])
        BY <1>4, SelectedMove DEF Chosen
    <2>2. MoveAt(s[i], SelectGoteMove(s[i])) \in MoveRecords
        BY <1>4, <2>1, MoveFacts DEF Solid
    <2> QED
        BY <2>2
<1>7. ind \in Seq(Entry) /\ Len(ind) = c
    <2>1. ind \in [1..c -> Entry]
        BY <1>5
    <2> HIDE DEF ind, Entry
    <2> QED
        BY <1>2, <2>1, IsSequence
<1>8. mov \in Seq(MoveRecords) /\ Len(mov) = c
    <2>1. mov \in [1..c -> MoveRecords]
        BY <1>6
    <2> HIDE DEF mov
    <2> QED
        BY <1>2, <2>1, IsSequence
<1> HIDE DEF ind, mov
<1>9. NewBook \in Books
    BY <1>3, <1>7, <1>8 DEF Books, MoveRecords
<1>10. NewBook.index = ind /\ NewBook.moves = mov /\ DOMAIN ind = 1..c
    BY <1>3 DEF ind
<1>11. StrictlySorted(NewBook)
    <2>1. ASSUME NEW i \in 1..c, NEW j \in 1..c, i < j PROVE ind[i].key < ind[j].key
        <3>1. s[i] \in 1..NodeCount /\ s[j] \in 1..NodeCount /\ s[i] < s[j]
            BY <1>2, <1>4, <2>1
        <3>2. Key(s[i]) < Key(s[j])
            BY <3>1, BookFacts DEF Solid
        <3>3. ind[i].key = Key(s[i]) /\ ind[j].key = Key(s[j])
            BY <1>5, EntryFacts
        <3> QED
            BY <3>2, <3>3
    <2> QED
        BY <1>10, <2>1 DEF StrictlySorted
<1>12. Loads(NewBook)
    <2>1. \A i \in 1..c : ind[i].off = i - 1 /\ ind[i].count = 1
        BY <1>5, EntryFacts
    <2>2. c # 0 => 1 \in 1..c /\ c \in 1..c
        BY <1>2
    <2>3. CASE c = 0
        BY <1>7, <1>8, <1>10, <2>3 DEF Loads
    <2>4. CASE c # 0
        <3>1. ind[1].off = 0 /\ ind[c].off = c - 1 /\ ind[c].count = 1
            BY <1>2, <2>1, <2>2, <2>4
        <3>2. c - 1 <= c /\ 1 <= c - (c - 1)
            BY <1>2
        <3> QED
            BY <1>7, <1>8, <1>10, <2>4, <3>1, <3>2 DEF Loads
    <2> QED
        BY <2>3, <2>4
<1>13. \A n \in Chosen : \E i \in 1..c :
            ind[i] = IndexEntry(Key(n), i - 1, 1) /\ mov[i] = MoveAt(n, SelectGoteMove(n))
    <2> TAKE n \in Chosen
    <2>1. PICK i \in 1..c : s[i] = n
        BY <1>2
    <2> QED
        BY <1>5, <1>6, <2>1
<1> QED
    BY <1>7, <1>8, <1>9, <1>10, <1>11, <1>12, <1>13

LEMMA ProbeOfNewBook ==
    ASSUME Solid, NEW n \in Nodes, IsGote(n), IsDecided(n), Plausible(n) # {}
    PROVE  /\ Probe(NewBook, Key(n)) = MoveAt(n, SelectGoteMove(n))
           /\ Probe(NewBook, Key(n)) # NoMove
<1> DEFINE b == NewBook
           r == MoveAt(n, SelectGoteMove(n))
           L == Len(b.index)
<1>1. /\ b \in Books /\ StrictlySorted(b) /\ Len(b.index) = Len(b.moves)
      /\ \E i \in 1..L : b.index[i] = IndexEntry(Key(n), i - 1, 1) /\ b.moves[i] = r
    BY NewBookFacts DEF Chosen
<1>2. r.kind = "legal"
    <2>1. /\ SelectGoteMove(n) \in Plausible(n) /\ SelectGoteMove(n) \in 1..Count(n)
          /\ ~Disallowed(n, SelectGoteMove(n))
        BY SelectedMove, SolidFacts, ChildIs DEF Solid
    <2>2. r.kind \in {"legal", "illegal", "garbage"} /\ r.kind # "garbage"
          /\ (~options.validate => r.kind # "illegal")
        BY <2>1, SolidFacts, MoveFacts DEF Solid, MoveRecords, Plausible
    <2>3. options.validate => r.kind # "illegal"
        BY <2>1, SolidFacts DEF Raises
    <2> QED
        BY <2>2, <2>3
<1>3. Key(n) \in Int
    BY SolidFacts, BookFacts DEF Solid
<1> HIDE DEF b, r
<1>4. PICK i \in 1..L : b.index[i] = IndexEntry(Key(n), i - 1, 1) /\ b.moves[i] = r
    BY <1>1
<1>5. /\ L \in Nat /\ DOMAIN b.index = 1..L
      /\ b.index \in Seq([key : Int, off : Nat, count : Nat])
    <2>1. b.index \in Seq([key : Int, off : Nat, count : Nat])
        BY <1>1 DEF Books
    <2> QED
        BY <2>1, OfSequence
<1>6. Entries(b, Key(n)) = {b.index[i]}
    <2>1. \A k, j \in 1..L : k < j => b.index[k].key < b.index[j].key
        BY <1>1, <1>5 DEF StrictlySorted
    <2>2. \A k \in 1..L : b.index[k].key \in Int
        <3>1. \A k \in 1..L : b.index[k] \in [key : Int, off : Nat, count : Nat]
            BY <1>5, OfSequence
        <3> QED
            BY <3>1
    <2>3. b.index[i].key = Key(n)
        BY <1>4 DEF IndexEntry
    <2> HIDE DEF L
    <2>4. ASSUME NEW k \in 1..L, b.index[k].key = Key(n) PROVE k = i
        <3>1. ~(k < i) /\ ~(i < k)
            BY <1>4, <2>1, <2>2, <2>3, <2>4
        <3> QED
            BY <1>4, <1>5, <3>1
    <2>5. \A e : e \in Entries(b, Key(n)) <=> \E k \in 1..L : e = b.index[k] /\ b.index[k].key = Key(n)
        BY <1>5 DEF Entries, ToSet
    <2> QED
        BY <1>4, <2>3, <2>4, <2>5
<1>7. Whole(b, Key(n)) = {b.index[i]} /\ b.index[i].off = i - 1 /\ b.index[i].count = 1
    <2>1. b.index[i].off = i - 1 /\ b.index[i].count = 1
        BY <1>4 DEF IndexEntry
    <2>2. i - 1 + 1 <= Len(b.moves)
        BY <1>1, <1>4, <1>5
    <2> QED
        BY <1>6, <2>1, <2>2 DEF Whole
<1>8. Own(b, Key(n)) = {r}
    <2>1. \A j : j \in 1..b.index[i].count <=> j = 1
        BY <1>7
    <2>2. b.index[i].off + 1 = i
        BY <1>4, <1>5, <1>7
    <2>3. {b.moves[b.index[i].off + j] : j \in 1..b.index[i].count} = {r}
        BY <1>4, <2>1, <2>2
    <2>4. {q \in {b.moves[b.index[i].off + j] : j \in 1..b.index[i].count} : q.kind = "legal"} = {r}
        BY <1>2, <2>3
    <2> DEFINE O(e) == {q \in {b.moves[e.off + j] : j \in 1..e.count} : q.kind = "legal"}
    <2>5. O(b.index[i]) = {r}
        BY <2>4
    <2>6. Own(b, Key(n)) = UNION {O(e) : e \in {b.index[i]}}
        BY <1>7 DEF Own
    <2> HIDE DEF O
    <2> QED
        BY <2>5, <2>6
<1>9. Probe(b, Key(n)) = r
    BY <1>1, <1>3, <1>8, ProbeAnswers
<1>10. r # NoMove
    BY <1>2 DEF NoMove, Record
<1> QED
    BY <1>9, <1>10 DEF b, r

(* What a probe answers, before the generator starts for the source book   *)
(* and at the end for the new one, is what a reader of the whole file      *)
(* would: the best legal move of the position, or none.                    *)
THEOREM ProbeIsExact == Spec => []ProbeExact
<1>1. IInv => ProbeExact
    <2> SUFFICES ASSUME IInv, NEW file \in ProbedFiles, Loads(file), StrictlySorted(file), NEW key \in Keys
                 PROVE  IF Own(file, key) = {} THEN Probe(file, key) = NoMove
                        ELSE /\ Probe(file, key) \in Own(file, key)
                             /\ \A r \in Own(file, key) : r.eval <= Probe(file, key).eval
        BY DEF ProbeExact, Own, Whole, Entries
    <2>1. key \in Int /\ task \in Tasks
        BY BookAssumption DEF IInv, PhaseInv
    <2>2. file \in Books
        <3>1. CASE pc = "start"
            BY <2>1, <3>1, BookAssumption DEF ProbedFiles, book
        <3>2. CASE pc = "finished"
            <4>1. Solid
                BY <3>2 DEF IInv, PhaseInv, Begun, Joined, ResolveInv, Solid
            <4>2. file = NewBook
                BY <3>2 DEF ProbedFiles, IInv, DiskInv, File, Content
            <4> QED
                BY <4>1, <4>2, NewBookFacts
        <3> QED
            BY <3>1, <3>2 DEF ProbedFiles
    <2> QED
        BY <2>1, <2>2, ProbeAnswers
<1> QED
    BY <1>1, GeneratorInv, PTL

-----------------------------------------------------------------------------
(* Following the new book, ply by ply.                                     *)
OutOrIn(r, S) == Out(r) \/ NodeOf(r) \in S
Follows(n, reply, S) ==
    reply # NoMove /\ reply.eval >= BestEval(n) - options.margin /\ OutOrIn(reply, S)
Further(S) ==
    {n \in 1..NodeCount :
        IF GoteToMove(n) THEN Follows(n, Probe(Content(disk.output), Key(n)), S)
        ELSE \A i \in Plausible(n) : OutOrIn(MoveAt(n, i), S)}

LEMMA PolicyStep ==
    ASSUME NodeCount \in Nat
    PROVE  \A k \in 1..NodeCount : PolicyLeaves[k] = Further(PolicyLeaves[k - 1])
<1> DEFINE N == NodeCount
           D == SUBSET (1..N)
           UpTo(f) == f = [k \in 0..N |-> IF k = 0 THEN {} ELSE Further(f[k - 1])]
           H == [x \in D |-> Further(x)]
<1>1. H \in [D -> D] /\ {} \in D /\ \A x \in D : H[x] = Further(x)
    BY DEF Further
<1> HIDE DEF H
<1>2. PICK f : IsIterate(f, H, D, N)
    <2> HIDE DEF D
    <2> QED
        BY <1>1, IteratesExist
<1>3. f \in [0..N -> D] /\ f[0] = {} /\ \A k \in 1..N : f[k] = H[f[k - 1]]
    BY <1>2 DEF IsIterate
<1>4. UpTo(f)
    <2> HIDE DEF D
    <2>1. \A k \in 0..N : f[k] = IF k = 0 THEN {} ELSE Further(f[k - 1])
        <3> TAKE k \in 0..N
        <3>1. k # 0 => k \in 1..N /\ k - 1 \in 0..N
            OBVIOUS
        <3>2. k # 0 => f[k - 1] \in D
            BY <1>3, <3>1
        <3> QED
            BY <1>1, <1>3, <3>1, <3>2
    <2>2. f = [k \in 0..N |-> f[k]]
        BY <1>3
    <2>3. [k \in 0..N |-> f[k]] = [k \in 0..N |-> IF k = 0 THEN {} ELSE Further(f[k - 1])]
        BY <2>1
    <2> QED
        BY <2>2, <2>3
<1>5. UpTo(PolicyLeaves)
    <2>1. PolicyLeaves = CHOOSE g : UpTo(g)
        BY DEF PolicyLeaves, Further, Follows, OutOrIn
    <2> HIDE DEF UpTo
    <2> QED
        BY <1>4, <2>1
<1> QED
    <2> DEFINE G == [k \in 0..N |-> IF k = 0 THEN {} ELSE Further(PolicyLeaves[k - 1])]
    <2>1. PolicyLeaves = G
        BY <1>5
    <2>2. \A k \in 0..N : G[k] = IF k = 0 THEN {} ELSE Further(PolicyLeaves[k - 1])
        OBVIOUS
    <2>3. \A k \in 1..N : k \in 0..N /\ k # 0
        OBVIOUS
    <2> HIDE DEF G, UpTo
    <2> QED
        BY <2>1, <2>2, <2>3

(* One ply: a decided node leaves, or its child is one that leaves sooner. *)
Sooner(k) == {c \in Nodes : IsDecided(c) /\ distance[c] <= k}

LEMMA DecidedFollows ==
    ASSUME Solid, Content(disk.output) = NewBook, NEW k \in 1..NodeCount, NEW S, Sooner(k - 1) \subseteq S
    PROVE  Sooner(k) \subseteq Further(S)
<1> SUFFICES ASSUME NEW n \in Sooner(k) PROVE n \in Further(S)
    OBVIOUS
<1>1. /\ n \in Nodes /\ n \in 1..NodeCount /\ IsDecided(n) /\ distance[n] <= k /\ distance[n] \in Nat
      /\ k \in Nat
    BY SolidFacts DEF Sooner
<1>2. CASE GoteToMove(n)
    <2> DEFINE i == SelectGoteMove(n)
               r == MoveAt(n, i)
    <2>1. IsGote(n) /\ GoteInv(n)
        BY <1>1, <1>2, SolidFacts DEF Solid, SolverInv
    <2>2. Plausible(n) # {}
        <3>1. Allowed(n) # {}
            BY <1>1, <2>1 DEF GoteInv, Inside
        <3> QED
            BY <1>1, <3>1, ExitDistanceIs
    <2>3. i \in Allowed(n) /\ ExitDistance(n, i) <= distance[n]
        BY <1>1, <2>1, <2>2, SelectedMove
    <2>4. Probe(Content(disk.output), Key(n)) = r /\ r # NoMove
        BY <1>1, <2>1, <2>2, ProbeOfNewBook
    <2> HIDE DEF i, r
    <2>5. i \in 1..Count(n) /\ ChildOf(n, i) # kExitDisallowed /\ ExitDistance(n, i) \in Nat
        BY <1>1, <2>3, ExitDistanceIs, SolidFacts
    <2>6. r.eval >= BestEval(n) - options.margin
        <3>1. ~Disallowed(n, i)
            BY <1>1, <2>5, ChildIs DEF Solid
        <3>2. ~(r.eval < BestEval(n) - options.margin)
            BY <1>2, <3>1 DEF Disallowed, r
        <3>3. r.eval \in Int
            BY <1>1, <2>5, MoveFacts DEF Solid, MoveRecords, r
        <3>4. BestEval(n) \in Int /\ options.margin \in Int
            BY <1>1, BestEvalTyped, TaskTyped DEF Solid
        <3> QED
            BY <3>2, <3>3, <3>4
    <2>7. OutOrIn(r, S)
        <3>1. CASE ChildOf(n, i) = kExitLeaf
            BY <1>1, <3>1, ChildIs DEF Solid, OutOrIn, r
        <3>2. CASE ChildOf(n, i) # kExitLeaf
            <4> DEFINE c == ChildOf(n, i)
            <4>1. i \in Inside(n)
                BY <1>1, <2>3, <2>5, <3>2, SolidFacts
            <4>2. c \in Nodes /\ NodeOf(r) = c
                BY <1>1, <2>5, <3>2, ChildIs, SolidFacts DEF Solid, r
            <4>3. /\ IsDecided(c) => ExitDistance(n, i) = distance[c] + 1 /\ distance[c] \in Nat
                  /\ ~IsDecided(c) => ExitDistance(n, i) = kExitDistanceInfinite
                BY <1>1, <2>3, <4>1, <4>2, ExitDistanceIs, SolidFacts
            <4>4. distance[n] < kExitDistanceInfinite /\ kExitDistanceInfinite \in Nat
                BY <1>1, SolidFacts
            <4> HIDE DEF c
            <4>5. IsDecided(c)
                BY <1>1, <2>3, <2>5, <4>3, <4>4
            <4>6. distance[c] <= k - 1
                BY <1>1, <2>3, <2>5, <4>3, <4>5
            <4>7. c \in S
                BY <4>2, <4>5, <4>6 DEF Sooner
            <4> QED
                BY <4>2, <4>7 DEF OutOrIn
        <3> QED
            BY <3>1, <3>2
    <2> QED
        BY <1>1, <1>2, <2>4, <2>6, <2>7 DEF Further, Follows
<1>3. CASE ~GoteToMove(n)
    <2>1. SenteInv(n)
        BY <1>1, <1>3, SolidFacts DEF Solid, SolverInv
    <2>2. ASSUME NEW i \in Plausible(n) PROVE OutOrIn(MoveAt(n, i), S)
        <3>1. i \in 1..Count(n) /\ ~Disallowed(n, i)
            BY <1>1, <1>3, MoveFacts DEF Solid, Disallowed
        <3>2. ChildOf(n, i) # kExitDisallowed
            BY <1>1, <3>1, ChildIs DEF Solid
        <3>3. CASE ChildOf(n, i) = kExitLeaf
            BY <1>1, <3>3, ChildIs DEF Solid, OutOrIn
        <3>4. CASE ChildOf(n, i) # kExitLeaf
            <4> DEFINE c == ChildOf(n, i)
            <4>1. i \in Inside(n) /\ Child(n, i) = c
                BY <1>1, <3>1, <3>2, <3>4, SolidFacts
            <4>2. c \in Nodes /\ NodeOf(MoveAt(n, i)) = c
                BY <1>1, <3>2, <3>4, ChildIs, SolidFacts DEF Solid
            <4>3. IsDecided(c) /\ distance[c] < distance[n]
                BY <1>1, <2>1, <4>1 DEF SenteInv
            <4>4. distance[c] \in Nat
                BY <4>2, <4>3, SolidFacts
            <4> HIDE DEF c
            <4>5. distance[c] <= k - 1
                BY <1>1, <4>3, <4>4
            <4>6. c \in S
                BY <4>2, <4>3, <4>5 DEF Sooner
            <4> QED
                BY <4>2, <4>6 DEF OutOrIn
        <3> QED
            BY <3>3, <3>4
    <2> QED
        BY <1>1, <1>3, <2>2 DEF Further
<1> QED
    BY <1>2, <1>3

LEMMA DecidedLeaves ==
    ASSUME Solid, Content(disk.output) = NewBook
    PROVE  \A n \in Nodes : IsDecided(n) => n \in PolicyLeaves[distance[n]]
<1> DEFINE N == NodeCount
           T == {k \in Nat : k <= N /\ ~(Sooner(k) \subseteq PolicyLeaves[k])}
<1>1. N \in Nat
    BY SolidFacts
<1>2. \A n \in Nodes : IsDecided(n) => distance[n] \in 1..N
    BY SolidFacts
<1>3. T = {}
    <2> SUFFICES ASSUME T # {} PROVE FALSE
        OBVIOUS
    <2>1. PICK k \in T : \A l \in T : k <= l
        <3>1. T \in SUBSET Nat
            OBVIOUS
        <3> HIDE DEF T
        <3> QED
            BY <3>1, LeastNumber
    <2>2. k \in Nat /\ k <= N /\ ~(Sooner(k) \subseteq PolicyLeaves[k])
        BY <2>1
    <2>3. k # 0
        <3>1. Sooner(0) = {}
            BY <1>2 DEF Sooner
        <3> QED
            BY <2>2, <3>1
    <2> HIDE DEF N
    <2>4. k \in 1..N /\ k - 1 \in Nat /\ k - 1 <= N /\ ~(k <= k - 1)
        BY <1>1, <2>2, <2>3
    <2>5. k - 1 \notin T
        <3> HIDE DEF T
        <3> QED
            BY <2>1, <2>4
    <2>6. Sooner(k - 1) \subseteq PolicyLeaves[k - 1]
        BY <2>4, <2>5
    <2>7. Sooner(k) \subseteq Further(PolicyLeaves[k - 1])
        BY <2>4, <2>6, DecidedFollows DEF N
    <2>8. PolicyLeaves[k] = Further(PolicyLeaves[k - 1])
        BY <1>1, <2>4, PolicyStep DEF N
    <2> QED
        BY <2>2, <2>7, <2>8
<1>4. ASSUME NEW n \in Nodes, IsDecided(n) PROVE n \in PolicyLeaves[distance[n]]
    <2>1. distance[n] \in 1..N
        BY <1>2, <1>4
    <2>2. distance[n] \in Nat /\ distance[n] <= N
        BY <2>1
    <2>3. n \in Sooner(distance[n])
        BY <1>4, <2>2 DEF Sooner
    <2>4. distance[n] \notin T
        BY <1>3
    <2> QED
        BY <2>2, <2>3, <2>4
<1> QED
    BY <1>4

(* The engine that follows the new book, with the probe of OpeningBook,    *)
(* leaves the source book from every position from which Gote can force    *)
(* it, in the least number of plies and with moves within the margin.      *)
THEOREM PolicyLeavesTheBook == Spec => []PolicyExits
<1>1. IInv => PolicyExits
    <2> SUFFICES ASSUME IInv, pc = "finished"
                 PROVE  /\ Loads(Content(disk.output))
                        /\ \A n \in Nodes : Distance(n) # kExitDistanceInfinite => n \in PolicyLeaves[Distance(n)]
        BY DEF PolicyExits
    <2>1. Solid /\ head = Len(queue) + 1
        BY DEF IInv, PhaseInv, Begun, Joined, Settled, ResolveInv, Solid
    <2>2. Content(disk.output) = NewBook
        BY DEF IInv, DiskInv, File, Content
    <2>3. GraphTyped /\ SolverInv
        BY <2>1, SolidFacts DEF Solid
    <2>4. \A n \in Nodes : distance[n] = Distance(n)
        BY <2>1, <2>3, DistancesOfGame
    <2>5. \A n \in Nodes : IsDecided(n) => n \in PolicyLeaves[distance[n]]
        BY <2>1, <2>2, DecidedLeaves
    <2>6. Loads(NewBook)
        BY <2>1, NewBookFacts
    <2> QED
        BY <2>2, <2>4, <2>5, <2>6 DEF IsDecided
<1> QED
    BY <1>1, GeneratorInv, PTL
=============================================================================

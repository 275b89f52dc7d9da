---------------------------- MODULE NodeTreeProofs ----------------------------
(***************************************************************************)
(* Proofs about NodeTree, for every heap, number of workers, set of moves, *)
(* games and ply cap: each node is owned once, nobody stands on a node of  *)
(* another position, and the memory counter is exact.                      *)
(*                                                                         *)
(* Three ideas carry the inductive invariant.  The owners of a node are    *)
(* told apart by five sets, which partition the heap.  Where a node is in  *)
(* the tree is said by a path from the root, since a freed node, being     *)
(* owned by the collector alone, is on none.  And a node with a part of    *)
(* its moves only is above the head, or off the tree.                      *)
(***************************************************************************)
EXTENDS NodeTree, FiniteSums

-----------------------------------------------------------------------------
(* The inductive invariant.                                                *)

NoWorker ==
  \A t \in Threads : pc[t] = "out" /\ at[t] = Null /\ want[t] = Null /\ hand[t] = Null

HeapTyped ==
  /\ alive \subseteq Objects /\ expanded \subseteq alive /\ freeing \subseteq alive
  /\ DOMAIN child = Objects /\ DOMAIN pos = Objects
  /\ \A o \in Objects : DOMAIN child[o] \subseteq Moves
  /\ \A o \in Objects : \A m \in DOMAIN child[o] : child[o][m] \in alive \cup {Null}
  /\ \A o \in alive : pos[o] \in Positions
  /\ \A o \in Objects \ alive : child[o] = NoArray /\ pos[o] = Null
  /\ begin \in alive \cup {Null} /\ pending \in Seq(alive)

Typed ==
  /\ head \in alive \cup {Null}
  /\ known \in BOOLEAN /\ key \in Keys /\ line \in Seq(Moves)
  /\ collector \in {"on", "stopping", "gone"}
  /\ main \in {"idle", "walk", "ready", "search", "exiting", "exited"}
  /\ todo \in Seq(Moves) /\ prev \in alive \cup {Null}
  /\ restart \in BOOLEAN /\ reused \in BOOLEAN /\ commands \in 0..MaxCommands
  /\ pc \in [Threads -> {"out", "stand", "publish"}]
  /\ at \in [Threads -> alive \cup {Null}]
  /\ want \in [Threads -> Moves \cup {Null}] /\ hand \in [Threads -> alive \cup {Null}]
  /\ main # "search" => NoWorker
  /\ main # "walk" => prev = Null
  /\ begin = Null <=> main \in {"exiting", "exited"}
  /\ begin = Null => head = Null

(* The five sets of owned nodes.                                           *)
Slotted == {o \in Objects : \E p \in Objects : \E m \in DOMAIN child[p] : child[p][m] = o}
Queued  == {o \in Objects : \E i \in DOMAIN pending : pending[i] = o}
Carried == {o \in Objects : \E t \in Threads : hand[t] = o}
Rooted  == {begin} \ {Null}

Partition ==
  /\ alive = Slotted \cup Queued \cup Carried \cup Rooted \cup freeing
  /\ Slotted \cap (Queued \cup Carried \cup Rooted \cup freeing) = {}
  /\ Queued \cap (Carried \cup Rooted \cup freeing) = {}
  /\ Carried \cap (Rooted \cup freeing) = {}
  /\ Rooted \cap freeing = {}

SlotsOnce ==
  \A p, q \in Objects : \A m \in DOMAIN child[p], n \in DOMAIN child[q] :
    child[p][m] = child[q][n] /\ child[p][m] # Null => p = q /\ m = n

QueuedOnce == \A i, j \in DOMAIN pending : pending[i] = pending[j] => i = j

CarriedOnce == \A t, u \in Threads : hand[t] = hand[u] /\ hand[t] # Null => t = u

Owned == Partition /\ SlotsOnce /\ QueuedOnce /\ CarriedOnce

(* A node hangs at the position it was created for.                        *)
ChildPosition(p, m) == [key |-> pos[p].key, line |-> Append(pos[p].line, m)]

PositionsKept ==
  /\ \A p \in Objects : \A m \in DOMAIN child[p] :
       child[p][m] # Null => pos[child[p][m]] = ChildPosition(p, m)
  /\ begin # Null => pos[begin] = [key |-> key, line |-> << >>]

(* q leads from the root to o along the line that o was created for.       *)
Walks(o) == [0..Len(pos[o].line) -> alive]

Path(q, o) ==
  LET l == pos[o].line
  IN  /\ q[0] = begin /\ q[Len(l)] = o
      /\ \A i \in 1..Len(l) :
           l[i] \in DOMAIN child[q[i - 1]] /\ child[q[i - 1]][l[i]] = q[i]

OnTree(o) == pos[o].key = key /\ \E q \in Walks(o) : Path(q, o)

Untouched(o) == o \notin expanded /\ child[o] = NoArray
Complete(o)  == o \in expanded /\ DOMAIN child[o] = Moves

(* Nodes with a part of their moves are off the tree or above the head.    *)
CutAbove ==
  \A o \in alive : OnTree(o) => Untouched(o) \/ Complete(o) \/ Len(pos[o].line) < Len(line)

(* How far ResetToPosition has walked.                                     *)
Walked == Len(line) - Len(todo)

Walking ==
  /\ Len(todo) <= Len(line) /\ todo = SubSeq(line, Walked + 1, Len(line))
  /\ head \in alive /\ pos[head] = [key |-> key, line |-> SubSeq(line, 1, Walked)]
  /\ known
  /\ \E q \in Walks(head) :
            /\ Path(q, head)
            /\ \A i \in 1..Walked : DOMAIN child[q[i - 1]] = {line[i]}
            /\ prev = IF Walked = 0 THEN Null ELSE q[Walked - 1]
  /\ ~restart => CutAbove
  /\ ~restart /\ ~reused => Untouched(head)

Standing ==
  /\ pos[head] = [key |-> key, line |-> line]
  /\ main = "ready" /\ ~reused => Untouched(head)

WorkerInv(t) ==
  /\ pc[t] = "out" => at[t] = Null /\ want[t] = Null /\ hand[t] = Null
  /\ pc[t] # "out" =>
       at[t] # Null /\ OnTree(at[t]) /\ Len(pos[at[t]].line) >= Len(line)
  /\ pc[t] = "stand" => hand[t] = Null /\ want[t] = Null
  /\ pc[t] = "publish" =>
       /\ want[t] \in Moves /\ hand[t] # Null /\ at[t] \in expanded
       /\ Untouched(hand[t]) /\ pos[hand[t]] = ChildPosition(at[t], want[t])

HeadOnTree == begin # Null => head # Null /\ OnTree(head)

Shape ==
  /\ main = "walk" => Walking
  /\ main \in {"idle", "ready", "search"} => CutAbove
  /\ main \in {"ready", "search"} => Standing
  /\ HeadOnTree
  /\ \A t \in Threads : WorkerInv(t)

IInv == HeapTyped /\ Typed /\ Owned /\ PositionsKept /\ Shape
-----------------------------------------------------------------------------
(* Paths.                                                                  *)

(* The nodes of a path are owned by the tree or by slots.                  *)
LEMMA PathOwned ==
  ASSUME HeapTyped, NEW o \in alive, NEW q \in Walks(o), Path(q, o)
  PROVE  \A i \in 0..Len(pos[o].line) : q[i] \in Slotted \cup Rooted
<1> TAKE i \in 0..Len(pos[o].line)
<1>1. q[i] \in alive /\ alive \subseteq Objects /\ Null \notin alive
  BY TreeAssumption DEF Walks, HeapTyped
<1>2. CASE i = 0
  BY <1>1, <1>2 DEF Path, Rooted
<1>3. CASE i # 0
  <2>1. pos[o].line \in Seq(Moves)
    BY DEF HeapTyped, Positions
  <2>2. i \in 1..Len(pos[o].line) /\ i - 1 \in 0..Len(pos[o].line)
    BY <1>3, <2>1
  <2>3. q[i - 1] \in Objects
    BY <1>1, <2>2 DEF Walks
  <2> QED
    BY <1>1, <2>2, <2>3 DEF Path, Slotted
<1> QED
  BY <1>2, <1>3

(* A step that takes away neither nodes nor slots of a path keeps it.      *)
LEMMA PathKept ==
  ASSUME HeapTyped, NEW o \in alive, pos'[o] = pos[o], begin' = begin, key' = key,
         \A p \in Slotted \cup Rooted : p \in alive',
         \A p \in Slotted \cup Rooted : \A m \in DOMAIN child[p] :
           child[p][m] # Null => m \in DOMAIN child'[p] /\ child'[p][m] = child[p][m],
         OnTree(o)
  PROVE  OnTree(o)'
<1>1. PICK q \in Walks(o) : Path(q, o)
  BY DEF OnTree
<1> DEFINE l == pos[o].line
<1>2. l \in Seq(Moves)
  BY DEF HeapTyped, Positions
<1>3. \A i \in 0..Len(l) : q[i] \in Slotted \cup Rooted
  BY <1>1, PathOwned
<1>4. q \in [0..Len(l) -> alive']
  BY <1>3 DEF Walks
<1>5. ASSUME NEW i \in 1..Len(l)
      PROVE  l[i] \in DOMAIN child'[q[i - 1]] /\ child'[q[i - 1]][l[i]] = q[i]
  <2>1. i - 1 \in 0..Len(l) /\ i \in 0..Len(l)
    BY <1>2
  <2>2. q[i] \in alive /\ Null \notin alive
    BY <2>1, TreeAssumption DEF Walks, HeapTyped
  <2> QED
    BY <1>1, <1>3, <2>1, <2>2 DEF Path
<1>6. q \in Walks(o)'
  BY <1>4 DEF Walks
<1>7. Path(q, o)'
  BY <1>1, <1>5 DEF Path
<1>8. pos'[o].key = key'
  BY DEF OnTree
<1> QED
  BY <1>6, <1>7, <1>8 DEF OnTree

(* A worker that has moved to a node of the tree is at a node of the tree. *)
LEMMA OnTreeAt ==
  ASSUME NEW t \in Threads, NEW c, at'[t] = c, OnTree(c)'
  PROVE  OnTree(at[t])'
<1>1. PICK q \in Walks(c)' : Path(q, c)'
  BY DEF OnTree
<1>2. pos'[c].key = key'
  BY DEF OnTree
<1>3. Walks(at[t])' = Walks(c)'
  BY DEF Walks
<1>4. Path(q, at[t])'
  BY <1>1 DEF Path
<1> QED
  BY <1>1, <1>2, <1>3, <1>4 DEF OnTree

(* A path of the next state that uses no new slot was there before.  The   *)
(* nodes of H are new leaves.                                              *)
LEMMA PathBack ==
  ASSUME HeapTyped, HeapTyped', NEW o \in alive, o \in alive',
         pos'[o] = pos[o], begin' = begin, key' = key, begin \in alive,
         NEW H, o \notin H, \A h \in H : child'[h] = NoArray,
         \A p \in alive' : \A m \in DOMAIN child'[p] :
           \/ child'[p][m] \in H \cup {Null}
           \/ p \in alive /\ m \in DOMAIN child[p] /\ child[p][m] = child'[p][m],
         OnTree(o)'
  PROVE  OnTree(o)
<1> DEFINE l == pos[o].line
<1>1. PICK q \in [0..Len(l) -> alive'] : Path(q, o)'
  BY DEF OnTree, Walks
<1>2. l \in Seq(Moves)
  BY DEF HeapTyped, Positions
<1>3. ASSUME NEW i \in 0..Len(l) PROVE q[i] \notin H
  <2>1. CASE i = Len(l)
    BY <1>1, <2>1 DEF Path
  <2>2. CASE i # Len(l)
    <3>1. i + 1 \in 1..Len(l) /\ (i + 1) - 1 = i
      BY <1>2, <2>2
    <3>2. l[i + 1] \in DOMAIN child'[q[i]]
      BY <1>1, <3>1 DEF Path
    <3> QED
      BY <3>2 DEF NoArray
  <2> QED
    BY <2>1, <2>2
<1>4. ASSUME NEW i \in 1..Len(l)
      PROVE  /\ l[i] \in DOMAIN child[q[i - 1]] /\ child[q[i - 1]][l[i]] = q[i]
             /\ q[i] \in alive
  <2>1. i - 1 \in 0..Len(l) /\ i \in 0..Len(l)
    BY <1>2
  <2>2. l[i] \in DOMAIN child'[q[i - 1]] /\ child'[q[i - 1]][l[i]] = q[i]
    BY <1>1 DEF Path
  <2>3. q[i - 1] \in alive' /\ q[i] \in alive' /\ Null \notin alive'
    BY <2>1, TreeAssumption DEF HeapTyped
  <2>4. /\ q[i - 1] \in alive /\ l[i] \in DOMAIN child[q[i - 1]]
        /\ child[q[i - 1]][l[i]] = q[i]
    BY <1>3, <2>1, <2>2, <2>3
  <2>5. q[i] \in alive
    BY <2>3, <2>4 DEF HeapTyped
  <2> QED
    BY <2>4, <2>5
<1>5. q[0] = begin /\ q[Len(l)] = o
  BY <1>1 DEF Path
<1>6. \A i \in 0..Len(l) : q[i] \in alive
  BY <1>2, <1>4, <1>5
<1>7. q \in Walks(o)
  BY <1>6 DEF Walks
<1> QED
  BY <1>4, <1>5, <1>7 DEF OnTree, Path

-----------------------------------------------------------------------------
(* The root of a fresh tree.                                               *)
FreshTree ==
  /\ head = begin /\ begin \in alive
  /\ pos[begin] = [key |-> key, line |-> << >>]
  /\ Untouched(begin) /\ OnTree(begin)
  /\ \A o \in alive : OnTree(o) => o = begin

LEMMA FreshTyped ==
  ASSUME HeapTyped, NEW o \in Free, NEW p \in Positions, Fresh(o, p)
  PROVE  /\ o \in Objects /\ o \notin alive /\ o # Null
         /\ alive' = alive \cup {o} /\ alive' \subseteq Objects /\ expanded' = expanded
         /\ DOMAIN child' = Objects /\ DOMAIN pos' = Objects
         /\ child[o] = NoArray /\ child'[o] = NoArray /\ pos'[o] = p
         /\ \A x \in Objects : child'[x] = child[x]
         /\ \A x \in Objects \ {o} : pos'[x] = pos[x]
         /\ \A x \in alive' : pos'[x] \in Positions
BY TreeAssumption DEF HeapTyped, Fresh, Free

LEMMA DeallocateKeeps ==
  ASSUME HeapTyped, Owned, PositionsKept, begin # Null,
         NEW k \in Keys, Deallocate(k), key' = k, freeing' = freeing, hand' = hand
  PROVE  HeapTyped' /\ Owned' /\ PositionsKept' /\ FreshTree'
<1> DEFINE p == [key |-> k, line |-> << >>]
<1>1. PICK o \in Free : Fresh(o, p) /\ begin' = o /\ head' = o
  BY DEF Deallocate
<1>2. p \in Positions
  BY DEF Positions
<1> HIDE DEF p
<1>3. /\ o \in Objects /\ o \notin alive /\ o # Null
      /\ alive' = alive \cup {o} /\ alive' \subseteq Objects /\ expanded' = expanded
      /\ DOMAIN child' = Objects /\ DOMAIN pos' = Objects
      /\ child[o] = NoArray /\ child'[o] = NoArray /\ pos'[o] = p
      /\ \A x \in Objects : child'[x] = child[x]
      /\ \A x \in Objects \ {o} : pos'[x] = pos[x]
      /\ \A x \in alive' : pos'[x] \in Positions
  BY <1>1, <1>2, FreshTyped
<1>4. pending' = Append(pending, begin) /\ pending \in Seq(alive) /\ begin \in alive
  BY DEF Deallocate, HeapTyped
<1>5. HeapTyped'
  <2>1. pending' \in Seq(alive')
    BY <1>3, <1>4
  <2> QED
    BY <1>1, <1>3, <2>1 DEF HeapTyped
<1>6. /\ DOMAIN pending' = 1..(Len(pending) + 1) /\ DOMAIN pending = 1..Len(pending)
      /\ pending'[Len(pending) + 1] = begin
      /\ \A i \in DOMAIN pending : pending'[i] = pending[i]
  BY <1>4
<1>7. Queued' = Queued \cup {begin}
  <2>1. Len(pending) + 1 \in DOMAIN pending' /\ DOMAIN pending \subseteq DOMAIN pending'
    BY <1>4, <1>6
  <2>2. \A i \in DOMAIN pending' : i \in DOMAIN pending \/ i = Len(pending) + 1
    BY <1>4, <1>6
  <2>3. begin \in Objects
    BY <1>4 DEF HeapTyped
  <2> QED
    BY <1>6, <2>1, <2>2, <2>3 DEF Queued
<1>8. Slotted' = Slotted /\ Carried' = Carried /\ Rooted' = {o} /\ Rooted = {begin}
  BY <1>1, <1>3, <1>4, TreeAssumption DEF Slotted, Carried, Rooted, HeapTyped
<1>9. Owned'
  <2>1. Partition'
    BY <1>3, <1>7, <1>8 DEF Owned, Partition
  <2>2. SlotsOnce' /\ CarriedOnce'
    BY <1>3 DEF Owned, SlotsOnce, CarriedOnce
  <2>3. \A i \in DOMAIN pending : pending[i] # begin
    BY <1>4, <1>8 DEF Owned, Partition, Queued, HeapTyped
  <2>4. QueuedOnce'
    BY <1>4, <1>6, <2>3 DEF Owned, QueuedOnce
  <2> QED
    BY <2>1, <2>2, <2>4 DEF Owned
<1>10. PositionsKept'
  <2>1. \A x \in Objects : \A m \in DOMAIN child[x] :
          child[x][m] # Null => x \in alive /\ child[x][m] \in alive
    BY DEF HeapTyped, NoArray
  <2>2. pos'[begin'] = [key |-> key', line |-> << >>]
    BY <1>1, <1>3 DEF p
  <2>3. ASSUME NEW x \in Objects, NEW m \in DOMAIN child'[x], child'[x][m] # Null
        PROVE  pos'[child'[x][m]] = [key |-> pos'[x].key, line |-> Append(pos'[x].line, m)]
    <3> PICK c : c = child[x][m]
      OBVIOUS
    <3>1. child'[x][m] = c /\ m \in DOMAIN child[x] /\ c # Null
      BY <1>3, <2>3
    <3>2. x \in alive /\ c \in alive /\ alive \subseteq Objects
      BY <2>1, <3>1 DEF HeapTyped
    <3>3. pos'[x] = pos[x] /\ pos'[c] = pos[c]
      BY <1>3, <3>2
    <3>4. pos[c] = [key |-> pos[x].key, line |-> Append(pos[x].line, m)]
      BY <3>1 DEF PositionsKept, ChildPosition
    <3> QED
      BY <3>1, <3>3, <3>4
  <2> QED
    BY <2>2, <2>3 DEF PositionsKept, ChildPosition
<1>11. FreshTree'
  <2>1. Len(pos'[o].line) = 0 /\ pos'[o].key = key'
    BY <1>3 DEF p
  <2>2. OnTree(o)'
    <3>1. [i \in 0..0 |-> o] \in Walks(o)' /\ Path([i \in 0..0 |-> o], o)'
      BY <1>1, <1>3, <2>1 DEF Walks, Path
    <3> QED
      BY <2>1, <3>1 DEF OnTree
  <2>3. ASSUME NEW x \in alive', OnTree(x)' PROVE x = o
    <3>1. PICK q \in Walks(x)' : Path(q, x)'
      BY <2>3 DEF OnTree
    <3> DEFINE l == pos'[x].line
    <3>2. l \in Seq(Moves)
      BY <1>3 DEF Positions
    <3>3. CASE Len(l) = 0
      BY <1>1, <3>1, <3>3 DEF Path
    <3>4. CASE Len(l) # 0
      <4>1. 1 \in 1..Len(l) /\ 1 - 1 = 0
        BY <3>2, <3>4
      <4>2. l[1] \in DOMAIN child'[q[0]] /\ q[0] = o
        BY <1>1, <3>1, <4>1 DEF Path
      <4> QED
        BY <1>3, <4>2 DEF NoArray
    <3> QED
      BY <3>3, <3>4
  <2> QED
    BY <1>1, <1>3, <2>2, <2>3 DEF FreshTree, Untouched, HeapTyped, p
<1> QED
  BY <1>5, <1>9, <1>10, <1>11

LEMMA FreshCut == FreshTree' => CutAbove'
BY DEF FreshTree, CutAbove

LEMMA FreshHead == FreshTree' => HeadOnTree' \/ begin' = Null
<1> SUFFICES ASSUME FreshTree', begin' # Null PROVE head' # Null /\ OnTree(head)'
  BY DEF HeadOnTree
<1>1. head' = begin' /\ OnTree(begin)'
  BY DEF FreshTree
<1> QED
  BY <1>1 DEF OnTree, Walks, Path

LEMMA WalkOnTree == HeapTyped' /\ Walking' => HeadOnTree'
BY TreeAssumption DEF HeapTyped, Walking, HeadOnTree, OnTree

LEMMA NoWorkerInv == NoWorker' => \A t \in Threads : WorkerInv(t)'
BY DEF NoWorker, WorkerInv

(* What is above the head depends on the heap, the root and the game only. *)
LEMMA TreeSame ==
  ASSUME UNCHANGED <<heapVars, begin, key>>
  PROVE  \A o : /\ OnTree(o)' <=> OnTree(o)
                /\ Untouched(o)' <=> Untouched(o)
                /\ Complete(o)' <=> Complete(o)
BY DEF heapVars, OnTree, Walks, Path, Untouched, Complete

LEMMA WalkStarts ==
  ASSUME line' \in Seq(Moves), todo' = line', prev' = Null, known', head' = begin',
         begin' \in alive', pos'[begin'] = [key |-> key', line |-> << >>], begin' # Null,
         ~restart' => CutAbove', ~restart' /\ ~reused' => Untouched(head)'
  PROVE  Walking'
<1>1. Walked' = 0
  BY DEF Walked
<1>2. SubSeq(line', 1, 0) = << >> /\ SubSeq(line', 1, Len(line')) = line'
  OBVIOUS
<1>3. Len(pos'[head'].line) = 0
  OBVIOUS
<1> PICK h : h = head'
  OBVIOUS
<1> PICK q : q = [i \in 0..0 |-> h]
  OBVIOUS
<1>4. q \in Walks(head)'
  BY <1>3 DEF Walks
<1>6. Path(q, head)'
  BY <1>3 DEF Path
<1>5. \A i \in 1..0 : DOMAIN child'[q[i - 1]] = {line'[i]}
  OBVIOUS
<1>7. \E r \in Walks(head)' :
        /\ Path(r, head)' /\ \A i \in 1..Walked' : DOMAIN child'[r[i - 1]] = {line'[i]}
        /\ prev' = IF Walked' = 0 THEN Null ELSE r[Walked' - 1]
  BY <1>1, <1>4, <1>5, <1>6
<1>8. /\ Len(todo') <= Len(line') /\ todo' = SubSeq(line', Walked' + 1, Len(line'))
      /\ head' \in alive' /\ pos'[head'] = [key |-> key', line |-> SubSeq(line', 1, Walked')]
  BY <1>1, <1>2
<1> QED
  BY <1>7, <1>8 DEF Walking

LEMMA ResetKeeps ==
  ASSUME IInv, NEW k \in Keys, NEW g \in Games, ResetToPosition(k, g)
  PROVE  IInv'
<1>1. main = "idle" /\ main' = "walk" /\ NoWorker /\ begin \in alive /\ begin # Null
  BY DEF IInv, HeapTyped, Typed, ResetToPosition, Command
<1>2. /\ known' = TRUE /\ key' = k /\ line' = g /\ todo' = g /\ prev' = Null
      /\ restart' = Restarts(k, g) /\ reused' = CanReuse(k, g)
      /\ UNCHANGED <<freeing, collector, workVars>> /\ g \in Seq(Moves)
  BY TreeAssumption DEF ResetToPosition
<1>3. CutAbove
  BY <1>1 DEF IInv, Shape
<1>4. NoWorker'
  BY <1>1, <1>2 DEF NoWorker, workVars
<1>5. restart' \in BOOLEAN /\ reused' \in BOOLEAN
  BY <1>2 DEF Restarts, CanReuse, SameGame
<1>6. commands' \in 0..MaxCommands
  BY TreeAssumption DEF IInv, Typed, ResetToPosition, Command
<1>7. CASE SameGame(k)
  <2>1. head' = begin /\ UNCHANGED <<heapVars, pending, begin>> /\ key' = key
    BY <1>2, <1>7 DEF ResetToPosition, SameGame
  <2>2. HeapTyped' /\ Owned' /\ PositionsKept'
    <3>1. HeapTyped'
      BY <1>2, <2>1 DEF IInv, HeapTyped, heapVars
    <3>2. Owned'
      BY <1>2, <2>1 DEF IInv, Owned, Partition, SlotsOnce, QueuedOnce, CarriedOnce, Slotted,
        Queued, Carried, Rooted, heapVars, workVars
    <3>3. PositionsKept'
      BY <2>1 DEF IInv, PositionsKept, ChildPosition, heapVars
    <3> QED
      BY <3>1, <3>2, <3>3
  <2>3. Typed'
    BY <1>1, <1>2, <1>4, <1>5, <1>6, <2>1 DEF IInv, Typed, heapVars, workVars, HeapTyped
  <2>4. ~restart' => CutAbove'
    <3>1. ~restart' => Len(line) <= Len(line')
      BY <1>2, <1>7 DEF Restarts, CanReuse
    <3>2. \A o \in alive : Len(pos[o].line) \in Nat
      BY DEF IInv, HeapTyped, Positions
    <3>3. Len(line) \in Nat /\ Len(line') \in Nat
      BY <1>2 DEF IInv, Typed
    <3>4. alive' = alive /\ pos' = pos
      BY <2>1 DEF heapVars
    <3> QED
      BY <1>3, <2>1, <3>1, <3>2, <3>3, <3>4, TreeSame DEF CutAbove
  <2>5. restart' \/ reused'
    BY <1>2, <1>7 DEF Restarts
  <2>6. Walking'
    <3>1. pos'[begin'] = [key |-> key', line |-> << >>] /\ begin' \in alive' /\ begin' # Null
      BY <1>1, <2>1 DEF IInv, PositionsKept, heapVars
    <3> QED
      BY <1>2, <2>1, <2>4, <2>5, <3>1, WalkStarts
  <2> QED
    BY <1>1, <1>4, <2>2, <2>3, <2>6, NoWorkerInv, WalkOnTree DEF IInv, Shape
<1>8. CASE ~SameGame(k)
  <2>1. Deallocate(k) /\ ~restart'
    BY <1>2, <1>8 DEF ResetToPosition, Restarts
  <2>2. HeapTyped' /\ Owned' /\ PositionsKept' /\ FreshTree'
    BY <1>1, <1>2, <2>1, DeallocateKeeps DEF IInv, workVars
  <2>3. Typed'
    <3>1. alive \subseteq alive' /\ head' \in alive' /\ begin' \in alive' /\ begin' # Null
      BY <2>1, <2>2, TreeAssumption DEF Deallocate, Fresh, FreshTree, HeapTyped
    <3> QED
      BY <1>1, <1>2, <1>4, <1>5, <1>6, <3>1 DEF IInv, Typed, workVars
  <2>4. Walking'
    <3>1. begin' # Null
      BY <2>2, TreeAssumption DEF FreshTree, HeapTyped
    <3> QED
      BY <1>2, <2>2, <3>1, WalkStarts, FreshCut DEF FreshTree
  <2> QED
    BY <1>1, <1>4, <2>2, <2>3, <2>4, NoWorkerInv, WalkOnTree DEF IInv, Shape
<1> QED
  BY <1>7, <1>8

-----------------------------------------------------------------------------
(* Steps that leave the heap and its owners alone.                         *)
LEMMA HeapSame ==
  ASSUME HeapTyped, Owned, PositionsKept,
         UNCHANGED <<heapVars, pending, freeing, begin, key, hand>>
  PROVE  HeapTyped' /\ Owned' /\ PositionsKept'
<1>1. HeapTyped'
  BY DEF HeapTyped, heapVars
<1>2. Owned'
  BY DEF Owned, Partition, SlotsOnce, QueuedOnce, CarriedOnce, Slotted, Queued, Carried,
    Rooted, heapVars
<1>3. PositionsKept'
  BY DEF PositionsKept, ChildPosition, heapVars
<1> QED
  BY <1>1, <1>2, <1>3

LEMMA CutSame ==
  ASSUME UNCHANGED <<heapVars, begin, key, line>>
  PROVE  CutAbove' <=> CutAbove
BY TreeSame DEF CutAbove, heapVars

LEMMA HeadSame ==
  ASSUME UNCHANGED <<heapVars, begin, key, head>>
  PROVE  HeadOnTree' <=> HeadOnTree
BY DEF heapVars, HeadOnTree, OnTree, Walks, Path

LEMMA WorkersSame ==
  ASSUME UNCHANGED <<heapVars, begin, key, line>>, NEW t \in Threads, WorkerInv(t),
         pc'[t] = pc[t], at'[t] = at[t], want'[t] = want[t], hand'[t] = hand[t]
  PROVE  WorkerInv(t)'
BY TreeSame DEF WorkerInv, ChildPosition, heapVars

LEMMA ShapeSame ==
  ASSUME UNCHANGED <<heapVars, begin, key, line, head, known, main, todo, prev, restart, reused>>,
         UNCHANGED workVars, Shape
  PROVE  Shape'
<1>1. Walking' <=> Walking
  <2>1. Walked' = Walked /\ Walks(head)' = Walks(head)
    BY DEF Walked, Walks, heapVars
  <2>2. \A q : Path(q, head)' <=> Path(q, head)
    BY DEF Path, heapVars
  <2> QED
    BY <2>1, <2>2, CutSame, TreeSame DEF Walking, heapVars
<1>2. Standing' <=> Standing
  BY TreeSame DEF Standing, heapVars
<1>3. \A t \in Threads : WorkerInv(t)'
  BY WorkersSame DEF Shape, workVars
<1> QED
  BY <1>1, <1>2, <1>3, CutSame, HeadSame DEF Shape

LEMMA NewGameKeeps == IInv /\ NewGame => IInv'
<1> SUFFICES ASSUME IInv, NewGame PROVE IInv'
  OBVIOUS
<1>1. main = "idle" /\ main' = "idle" /\ NoWorker /\ begin # Null
  BY DEF IInv, Typed, NewGame, Command
<1>2. Deallocate(key) /\ known' = FALSE /\ line' = << >> /\ key' = key
      /\ UNCHANGED <<freeing, collector, resetVars, workVars>>
  BY DEF NewGame
<1>3. NoWorker'
  BY <1>1, <1>2 DEF NoWorker, workVars
<1>4. HeapTyped' /\ Owned' /\ PositionsKept' /\ FreshTree'
  BY <1>1, <1>2, DeallocateKeeps DEF IInv, Typed, workVars
<1>5. Typed'
  <2>1. alive \subseteq alive' /\ head' \in alive' /\ begin' # Null
    BY <1>2, <1>4, TreeAssumption DEF Deallocate, Fresh, FreshTree, HeapTyped
  <2>2. commands' \in 0..MaxCommands
    BY TreeAssumption DEF IInv, Typed, NewGame, Command
  <2>3. << >> \in Seq(Moves)
    OBVIOUS
  <2> QED
    BY <1>1, <1>2, <1>3, <2>1, <2>2, <2>3 DEF IInv, Typed, workVars, resetVars
<1> QED
  BY <1>1, <1>3, <1>4, <1>5, FreshCut, FreshHead, NoWorkerInv DEF IInv, Shape, HeadOnTree

LEMMA DestroyTreeKeeps == IInv /\ DestroyTree => IInv'
<1> SUFFICES ASSUME IInv, DestroyTree PROVE IInv'
  OBVIOUS
<1>1. main = "idle" /\ main' = "exiting" /\ NoWorker /\ begin # Null /\ begin \in alive
  BY DEF IInv, Typed, HeapTyped, DestroyTree
<1>2. /\ pending' = Append(pending, begin) /\ begin' = Null /\ head' = Null
      /\ UNCHANGED <<heapVars, known, key, line, freeing, collector, resetVars, commands,
                     workVars>>
  BY DEF DestroyTree
<1>3. NoWorker'
  BY <1>1, <1>2 DEF NoWorker, workVars
<1>4. pending \in Seq(alive)
  BY DEF IInv, HeapTyped
<1>5. HeapTyped'
  <2>1. pending' \in Seq(alive')
    BY <1>1, <1>2, <1>4 DEF heapVars
  <2> QED
    BY <1>2, <2>1 DEF IInv, HeapTyped, heapVars
<1>6. Queued' = Queued \cup {begin} /\ QueuedOnce'
  <2>1. /\ DOMAIN pending' = 1..(Len(pending) + 1) /\ DOMAIN pending = 1..Len(pending)
        /\ pending'[Len(pending) + 1] = begin
        /\ \A i \in DOMAIN pending : pending'[i] = pending[i]
    BY <1>1, <1>2, <1>4
  <2>2. Len(pending) + 1 \in DOMAIN pending' /\ DOMAIN pending \subseteq DOMAIN pending'
    BY <1>4, <2>1
  <2>3. \A i \in DOMAIN pending' : i \in DOMAIN pending \/ i = Len(pending) + 1
    BY <1>4, <2>1
  <2>4. begin \in Objects
    BY <1>1 DEF IInv, HeapTyped
  <2>5. Queued' = Queued \cup {begin}
    BY <2>1, <2>2, <2>3, <2>4 DEF Queued
  <2>6. \A i \in DOMAIN pending : pending[i] # begin
    BY <1>1, <2>4 DEF IInv, Owned, Partition, Queued, Rooted
  <2> QED
    BY <2>1, <2>3, <2>5, <2>6 DEF IInv, Owned, QueuedOnce
<1>7. Slotted' = Slotted /\ Carried' = Carried /\ Rooted' = {} /\ Rooted = {begin}
  BY <1>1, <1>2 DEF Slotted, Carried, Rooted, heapVars, workVars
<1>8. Owned'
  <2>1. Partition'
    BY <1>2, <1>6, <1>7 DEF IInv, Owned, Partition, heapVars
  <2> QED
    BY <1>2, <1>6, <2>1 DEF IInv, Owned, SlotsOnce, CarriedOnce, heapVars, workVars
<1>9. PositionsKept'
  BY <1>2 DEF IInv, PositionsKept, ChildPosition, heapVars
<1>10. Typed'
  BY <1>1, <1>2, <1>3 DEF IInv, Typed, heapVars, resetVars, workVars
<1> QED
  BY <1>1, <1>2, <1>3, <1>5, <1>8, <1>9, <1>10, NoWorkerInv DEF IInv, Shape, HeadOnTree

LEMMA JoinKeeps == IInv /\ Join => IInv'
<1> SUFFICES ASSUME IInv, Join PROVE IInv'
  OBVIOUS
<1>1. /\ main = "search" /\ main' = "idle" /\ \A t \in Threads : pc[t] = "out"
      /\ UNCHANGED <<heapVars, treeVars, gcVars, resetVars, commands, workVars>>
  BY DEF Join
<1>2. NoWorker'
  BY <1>1 DEF IInv, Shape, WorkerInv, NoWorker, workVars
<1>3. HeapTyped' /\ Owned' /\ PositionsKept'
  BY <1>1, HeapSame DEF IInv, treeVars, gcVars, workVars
<1>4. Typed'
  BY <1>1, <1>2 DEF IInv, Typed, heapVars, treeVars, gcVars, resetVars, workVars
<1>5. CutAbove' /\ HeadOnTree'
  BY <1>1, CutSame, HeadSame DEF IInv, Shape, treeVars
<1> QED
  BY <1>1, <1>2, <1>3, <1>4, <1>5, NoWorkerInv DEF IInv, Shape

LEMMA CollectorEndKeeps ==
  ASSUME IInv, StopCollector \/ JoinCollector \/ CollectorQuits \/ UNCHANGED vars
  PROVE  IInv'
<1>1. /\ UNCHANGED <<heapVars, treeVars, pending, freeing, resetVars, commands, workVars>>
      /\ \/ main' = main /\ collector' \in {collector, "stopping", "gone"}
         \/ main = "exiting" /\ main' = "exited" /\ collector' = collector
  BY DEF StopCollector, JoinCollector, CollectorQuits, CollectorFrame, gcVars, vars
<1>2. HeapTyped' /\ Owned' /\ PositionsKept'
  BY <1>1, HeapSame DEF IInv, treeVars, workVars
<1>3. Typed'
  <2>1. NoWorker' <=> NoWorker
    BY <1>1 DEF NoWorker, workVars
  <2> QED
    BY <1>1, <2>1 DEF IInv, Typed, heapVars, treeVars, resetVars, workVars
<1>4. Shape'
  <2>1. CASE main' = main
    BY <1>1, <2>1, ShapeSame DEF IInv, treeVars, resetVars
  <2>2. CASE main = "exiting" /\ main' = "exited"
    <3>1. NoWorker' /\ begin' = Null
      BY <2>2, <1>3 DEF Typed
    <3> QED
      BY <2>2, <3>1, NoWorkerInv DEF Shape, HeadOnTree
  <2> QED
    BY <1>1, <2>1, <2>2
<1> QED
  BY <1>2, <1>3, <1>4 DEF IInv

LEMMA TakePendingKeeps == IInv /\ TakePending => IInv'
<1> SUFFICES ASSUME IInv, TakePending PROVE IInv'
  OBVIOUS
<1>1. /\ freeing = {} /\ pending # << >>
      /\ freeing' = {Head(pending)} /\ pending' = Tail(pending)
      /\ UNCHANGED <<heapVars, collector, treeVars, main, resetVars, commands, workVars>>
  BY DEF TakePending, CollectorFrame
<1>2. pending \in Seq(alive) /\ Head(pending) \in alive /\ Tail(pending) \in Seq(alive)
  BY <1>1 DEF IInv, HeapTyped
<1>3. HeapTyped'
  BY <1>1, <1>2 DEF IInv, HeapTyped, heapVars, treeVars
<1>4. /\ DOMAIN pending = 1..Len(pending) /\ 1 \in DOMAIN pending
      /\ Head(pending) = pending[1]
      /\ DOMAIN pending' = 1..(Len(pending) - 1)
      /\ \A i \in DOMAIN pending' : pending'[i] = pending[i + 1] /\ i + 1 \in DOMAIN pending
      /\ \A i \in DOMAIN pending : i = 1 \/ (i - 1 \in DOMAIN pending' /\ pending[i] = pending'[i - 1])
  BY <1>1, <1>2
<1>5. QueuedOnce'
  BY <1>4 DEF IInv, Owned, QueuedOnce
<1>6. Queued' = Queued \ {Head(pending)} /\ Head(pending) \in Queued
  <2>1. \A i \in DOMAIN pending' : pending'[i] # Head(pending)
    BY <1>4 DEF IInv, Owned, QueuedOnce
  <2>2. Head(pending) \in Objects
    BY <1>2 DEF IInv, HeapTyped
  <2> QED
    BY <1>4, <2>1, <2>2 DEF Queued
<1>7. Slotted' = Slotted /\ Carried' = Carried /\ Rooted' = Rooted
  BY <1>1 DEF Slotted, Carried, Rooted, heapVars, treeVars, workVars
<1>8. Owned'
  <2>1. Partition'
    BY <1>1, <1>6, <1>7 DEF IInv, Owned, Partition, heapVars
  <2> QED
    BY <1>1, <1>5, <2>1 DEF IInv, Owned, SlotsOnce, CarriedOnce, heapVars, workVars
<1>9. PositionsKept'
  BY <1>1 DEF IInv, PositionsKept, ChildPosition, heapVars, treeVars
<1>10. Typed'
  BY <1>1 DEF IInv, Typed, NoWorker, heapVars, treeVars, resetVars, workVars
<1>11. Shape'
  BY <1>1, ShapeSame DEF IInv, treeVars, resetVars
<1> QED
  BY <1>3, <1>8, <1>9, <1>10, <1>11 DEF IInv

-----------------------------------------------------------------------------
(* The workers.                                                            *)

LEMMA OnTreeOwned ==
  ASSUME HeapTyped, NEW o \in alive, OnTree(o)
  PROVE  o \in Slotted \cup Rooted
<1>1. PICK q \in Walks(o) : Path(q, o)
  BY DEF OnTree
<1>2. Len(pos[o].line) \in Nat
  BY DEF HeapTyped, Positions
<1> QED
  BY <1>1, <1>2, PathOwned DEF Path

(* A worker is on a node that is new or has all its moves.                 *)
LEMMA WorkerPlace ==
  ASSUME IInv, NEW t \in Threads, pc[t] # "out"
  PROVE  /\ main = "search" /\ at[t] \in alive /\ at[t] \in Slotted \cup Rooted
         /\ OnTree(at[t]) /\ Len(pos[at[t]].line) >= Len(line)
         /\ Untouched(at[t]) \/ Complete(at[t])
<1>1. main = "search"
  BY DEF IInv, Typed, NoWorker
<1>2. at[t] \in alive /\ OnTree(at[t]) /\ Len(pos[at[t]].line) >= Len(line)
  BY DEF IInv, Typed, Shape, WorkerInv
<1>3. Len(pos[at[t]].line) \in Nat /\ Len(line) \in Nat
  BY <1>2 DEF IInv, HeapTyped, Typed, Positions
<1> QED
  BY <1>1, <1>2, <1>3, OnTreeOwned DEF IInv, Shape, CutAbove

(* The root of the search.                                                 *)
LEMMA HeadPlace ==
  ASSUME IInv, begin # Null
  PROVE  /\ head \in alive /\ head \in Slotted \cup Rooted /\ OnTree(head)
         /\ main \in {"ready", "search"} =>
              /\ pos[head] = [key |-> key, line |-> line]
              /\ Untouched(head) \/ Complete(head)
<1>1. head \in alive /\ OnTree(head)
  BY DEF IInv, Typed, Shape, HeadOnTree
<1>2. Len(line) \in Nat
  BY DEF IInv, Typed
<1> QED
  BY <1>1, <1>2, OnTreeOwned DEF IInv, Shape, CutAbove, Standing

LEMMA EndPlayoutKeeps ==
  ASSUME IInv, NEW t \in Threads, EndPlayout(t) PROVE IInv'
<1>1. /\ pc[t] = "stand" /\ UNCHANGED <<heapVars, want, hand>>
      /\ UNCHANGED <<treeVars, gcVars, main, resetVars, commands>>
      /\ \/ at' = [at EXCEPT ![t] = head] /\ pc' = pc
         \/ pc' = [pc EXCEPT ![t] = "out"] /\ at' = [at EXCEPT ![t] = Null]
  BY DEF EndPlayout, WorkerFrame
<1>2. main = "search" /\ head \in alive /\ OnTree(head) /\ pos[head].line = line
  BY <1>1, WorkerPlace, HeadPlace DEF IInv, Typed
<1>3. HeapTyped' /\ Owned' /\ PositionsKept'
  BY <1>1, HeapSame DEF IInv, treeVars, gcVars
<1>4. Typed'
  BY <1>1, <1>2 DEF IInv, Typed, heapVars, treeVars, gcVars, resetVars
<1>5. CutAbove' /\ Standing' /\ HeadOnTree'
  BY <1>1, <1>2, CutSame, HeadSame DEF IInv, Shape, Standing, heapVars, treeVars, resetVars
<1>6. ASSUME NEW u \in Threads PROVE WorkerInv(u)'
  <2>1. CASE u # t
    BY <1>1, <2>1, WorkersSame DEF IInv, Typed, Shape, treeVars
  <2>2. CASE u = t
    <3>1. hand[t] = Null /\ want[t] = Null /\ Len(line) \in Nat /\ head # Null
      BY <1>1, <1>2, TreeAssumption DEF IInv, HeapTyped, Typed, Shape, WorkerInv
    <3>2. OnTree(head)' /\ pos' = pos /\ line' = line /\ head' = head
      BY <1>1, <1>2, TreeSame DEF heapVars, treeVars
    <3>3. \/ pc'[t] = "stand" /\ at'[t] = head
          \/ pc'[t] = "out" /\ at'[t] = Null
      BY <1>1 DEF IInv, Typed
    <3>4. CASE pc'[t] = "stand" /\ at'[t] = head
      <4>1. OnTree(at[t])'
        BY <3>2, <3>4 DEF OnTree, Walks, Path
      <4> QED
        BY <1>1, <1>2, <2>2, <3>1, <3>2, <3>4, <4>1 DEF WorkerInv
    <3>5. CASE pc'[t] = "out" /\ at'[t] = Null
      BY <1>1, <2>2, <3>1, <3>5 DEF WorkerInv
    <3> QED
      BY <3>3, <3>4, <3>5
  <2> QED
    BY <2>1, <2>2
<1> QED
  BY <1>1, <1>2, <1>3, <1>4, <1>5, <1>6 DEF IInv, Shape

LEMMA ExpandHeap ==
  ASSUME HeapTyped, Owned, PositionsKept, begin # Null, NEW o \in alive, Untouched(o), Expand(o),
         UNCHANGED <<alive, pos, pending, freeing, begin, key, hand>>
  PROVE  /\ HeapTyped' /\ Owned' /\ PositionsKept'
         /\ \A x \in alive : OnTree(x)' <=> OnTree(x)
         /\ \A x \in alive \ {o} : /\ Untouched(x)' <=> Untouched(x)
                                   /\ Complete(x)' <=> Complete(x)
         /\ Complete(o)'
<1>1. /\ o \in Objects /\ DOMAIN child = Objects /\ child[o] = NoArray
      /\ DOMAIN child' = Objects /\ child'[o] = [m \in Moves |-> Null]
      /\ \A x \in Objects \ {o} : child'[x] = child[x]
      /\ expanded' = expanded \cup {o}
  BY DEF HeapTyped, Expand, Untouched
<1>2. DOMAIN NoArray = {}
  BY DEF NoArray
<1>3. HeapTyped'
  BY <1>1 DEF HeapTyped
<1>4. Owned'
  <2>1. \A x \in Objects : \A m \in DOMAIN child'[x] :
          child'[x][m] # Null => m \in DOMAIN child[x] /\ child[x][m] = child'[x][m]
    BY <1>1
  <2>2. \A x \in Objects : \A m \in DOMAIN child[x] :
          m \in DOMAIN child'[x] /\ child[x][m] = child'[x][m]
    BY <1>1, <1>2
  <2>3. Slotted' = Slotted
    BY <2>1, <2>2, TreeAssumption DEF Slotted
  <2>4. SlotsOnce'
    BY <2>1 DEF Owned, SlotsOnce
  <2>5. Queued' = Queued /\ Carried' = Carried /\ Rooted' = Rooted
    BY DEF Queued, Carried, Rooted
  <2> QED
    BY <2>3, <2>4, <2>5 DEF Owned, Partition, QueuedOnce, CarriedOnce
<1>5. PositionsKept'
  BY <1>1 DEF PositionsKept, ChildPosition
<1>6. ASSUME NEW x \in alive PROVE OnTree(x)' <=> OnTree(x)
  <2>1. OnTree(x) => OnTree(x)'
    <3>1. \A p \in Slotted \cup Rooted : p \in alive'
      BY DEF Owned, Partition
    <3>2. \A p \in Slotted \cup Rooted : \A m \in DOMAIN child[p] :
           child[p][m] # Null => m \in DOMAIN child'[p] /\ child'[p][m] = child[p][m]
      BY <1>1, <1>2, <3>1 DEF HeapTyped
    <3> QED
      BY <3>1, <3>2, PathKept
  <2>2. OnTree(x)' => OnTree(x)
    <3>1. \A p \in alive' : \A m \in DOMAIN child'[p] :
           \/ child'[p][m] \in {} \cup {Null}
           \/ p \in alive /\ m \in DOMAIN child[p] /\ child[p][m] = child'[p][m]
      BY <1>1 DEF HeapTyped
    <3>2. begin \in alive
      BY DEF HeapTyped
    <3>3. PICK H : H = {}
      OBVIOUS
    <3>4. /\ x \notin H /\ \A h \in H : child'[h] = NoArray
          /\ \A p \in alive' : \A m \in DOMAIN child'[p] :
               \/ child'[p][m] \in H \cup {Null}
               \/ p \in alive /\ m \in DOMAIN child[p] /\ child[p][m] = child'[p][m]
      BY <3>1, <3>3
    <3> QED
      BY <1>3, <3>2, <3>4, PathBack
  <2> QED
    BY <2>1, <2>2
<1>7. \A x \in alive \ {o} : /\ Untouched(x)' <=> Untouched(x)
                             /\ Complete(x)' <=> Complete(x)
  BY <1>1 DEF HeapTyped, Untouched, Complete
<1>8. Complete(o)'
  BY <1>1 DEF Complete
<1> QED
  BY <1>3, <1>4, <1>5, <1>6, <1>7, <1>8

LEMMA ExpandNodeKeeps ==
  ASSUME IInv, NEW t \in Threads, ExpandNode(t) PROVE IInv'
<1> PICK o : o = at[t]
  OBVIOUS
<1>1. /\ pc[t] = "stand" /\ o \notin expanded /\ Expand(o) /\ UNCHANGED <<alive, pos, workVars>>
      /\ UNCHANGED <<treeVars, gcVars, main, resetVars, commands>>
  BY DEF ExpandNode, WorkerFrame
<1>2. main = "search" /\ o \in alive /\ o \in Slotted \cup Rooted /\ Untouched(o)
  BY <1>1, WorkerPlace DEF Complete
<1>3. begin # Null
  BY <1>2 DEF IInv, Typed
<1>4. /\ HeapTyped' /\ Owned' /\ PositionsKept'
      /\ \A x \in alive : OnTree(x)' <=> OnTree(x)
      /\ \A x \in alive \ {o} : /\ Untouched(x)' <=> Untouched(x)
                                /\ Complete(x)' <=> Complete(x)
      /\ Complete(o)'
  BY <1>1, <1>2, <1>3, ExpandHeap DEF IInv, treeVars, gcVars, workVars
<1>5. Typed'
  BY <1>1, <1>2 DEF IInv, Typed, treeVars, gcVars, resetVars, workVars
<1>6. CutAbove'
  BY <1>1, <1>2, <1>4 DEF IInv, Shape, CutAbove, treeVars
<1>7. Standing' /\ HeadOnTree'
  <2> PICK h : h = head
    OBVIOUS
  <2>1. h \in alive /\ h # Null /\ OnTree(h)'
    BY <1>3, <1>4, HeadPlace, TreeAssumption DEF IInv, HeapTyped
  <2>2. OnTree(head)'
    BY <1>1, <2>1 DEF treeVars, OnTree, Walks, Path
  <2> QED
    BY <1>1, <1>2, <2>1, <2>2 DEF IInv, Shape, Standing, HeadOnTree, treeVars
<1>8. ASSUME NEW u \in Threads PROVE WorkerInv(u)'
  <2>1. /\ pc'[u] = pc[u] /\ at'[u] = at[u] /\ want'[u] = want[u] /\ hand'[u] = hand[u]
        /\ pos' = pos /\ line' = line
    BY <1>1 DEF workVars, treeVars
  <2>2. pc[u] # "out" => at[u] \in alive
    BY WorkerPlace
  <2>3. hand[u] # Null => hand[u] \in alive /\ hand[u] # o
    BY <1>2 DEF IInv, Typed, HeapTyped, Owned, Partition, Carried
  <2>4. pc[u] # "out" => OnTree(at[u])'
    <3>1. pc[u] # "out" => OnTree(at[u])
      BY WorkerPlace
    <3>2. ASSUME NEW x \in alive, x = at[u] PROVE OnTree(at[u])' <=> OnTree(x)'
      BY <1>1, <3>2 DEF OnTree, Walks, Path, workVars
    <3> QED
      BY <1>4, <2>2, <3>1, <3>2
  <2>5. hand[u] # Null /\ Untouched(hand[u]) => Untouched(hand[u])'
    <3>1. ASSUME NEW x \in alive, x = hand[u] PROVE Untouched(hand[u])' <=> Untouched(x)'
      BY <1>1, <3>1 DEF Untouched, workVars
    <3> QED
      BY <1>4, <2>3, <3>1
  <2>6. expanded \subseteq expanded' /\ ChildPosition(at[u], want[u])' = ChildPosition(at[u], want[u])
    BY <1>1, <2>1 DEF Expand, ChildPosition
  <2> QED
    BY <2>1, <2>4, <2>5, <2>6 DEF IInv, Shape, WorkerInv
<1> QED
  BY <1>1, <1>2, <1>4, <1>5, <1>6, <1>7, <1>8 DEF IInv, Shape

(* The children of a worker's node hang one move further on.               *)
ChildrenOnTree ==
  \A p \in alive : \A m \in DOMAIN child[p] : \A c \in alive :
    OnTree(p) /\ child[p][m] = c =>
      OnTree(c) /\ Len(pos[c].line) = Len(pos[p].line) + 1

LEMMA ChildOnTree == HeapTyped /\ PositionsKept => ChildrenOnTree
<1> SUFFICES ASSUME HeapTyped, PositionsKept, NEW p \in alive, NEW m \in DOMAIN child[p],
                    OnTree(p), child[p][m] \in alive
             PROVE  /\ OnTree(child[p][m])
                    /\ Len(pos[child[p][m]].line) = Len(pos[p].line) + 1
  BY DEF ChildrenOnTree
<1> DEFINE c == child[p][m]
           l == pos[p].line
<1>1. c \in alive /\ pos[c] = ChildPosition(p, m) /\ l \in Seq(Moves) /\ m \in Moves
  BY TreeAssumption DEF HeapTyped, PositionsKept, Positions
<1>2. pos[c].line = Append(l, m) /\ pos[c].key = key /\ Len(pos[c].line) = Len(l) + 1
  BY <1>1 DEF ChildPosition, OnTree
<1>3. PICK q \in Walks(p) : Path(q, p)
  BY DEF OnTree
<1> DEFINE r == [i \in 0..(Len(l) + 1) |-> IF i = Len(l) + 1 THEN c ELSE q[i]]
<1>4. r \in Walks(c)
  BY <1>1, <1>2, <1>3 DEF Walks
<1>5. Path(r, c)
  <2>1. r[0] = begin /\ r[Len(pos[c].line)] = c
    BY <1>1, <1>2, <1>3 DEF Path
  <2>2. ASSUME NEW i \in 1..(Len(l) + 1)
        PROVE  /\ pos[c].line[i] \in DOMAIN child[r[i - 1]]
               /\ child[r[i - 1]][pos[c].line[i]] = r[i]
    <3>1. CASE i = Len(l) + 1
      <4>1. r[i - 1] = p /\ r[i] = c /\ pos[c].line[i] = m
        BY <1>1, <1>2, <1>3, <3>1 DEF Path
      <4> QED
        BY <4>1
    <3>2. CASE i \in 1..Len(l)
      <4>1. r[i - 1] = q[i - 1] /\ r[i] = q[i] /\ pos[c].line[i] = l[i]
        BY <1>1, <1>2, <3>2
      <4> QED
        BY <1>3, <3>2, <4>1 DEF Path
    <3> QED
      BY <1>1, <3>1, <3>2
  <2> QED
    BY <1>2, <2>1, <2>2 DEF Path
<1> QED
  BY <1>1, <1>2, <1>4, <1>5 DEF OnTree

LEMMA ChildOnTreeNext == HeapTyped' /\ PositionsKept' => ChildrenOnTree'
BY ChildOnTree, PTL

(* A worker whose place and candidate a step leaves alone.                 *)
LEMMA WorkerKept ==
  ASSUME IInv, NEW u \in Threads,
         pc'[u] = pc[u], at'[u] = at[u], want'[u] = want[u], hand'[u] = hand[u],
         line' = line,
         \A o \in Slotted \cup Rooted :
           OnTree(o) => OnTree(o)' /\ pos'[o] = pos[o] /\ (o \in expanded => o \in expanded'),
         \A o \in Carried :
           hand[u] = o /\ Untouched(o) => Untouched(o)' /\ pos'[o] = pos[o]
  PROVE  WorkerInv(u)'
<1> PICK o, h : o = at[u] /\ h = hand[u]
  OBVIOUS
<1>1. WorkerInv(u)
  BY DEF IInv, Shape
<1>2. CASE pc[u] = "out"
  BY <1>1, <1>2 DEF WorkerInv
<1>3. CASE pc[u] # "out"
  <2>1. /\ o # Null /\ OnTree(o) /\ o \in Slotted \cup Rooted
        /\ pos[o] = pos'[o] /\ (o \in expanded => o \in expanded') /\ OnTree(o)'
    BY <1>3, WorkerPlace, TreeAssumption DEF IInv, HeapTyped
  <2>2. OnTree(at[u])' /\ at'[u] # Null /\ Len(pos'[at'[u]].line) >= Len(line')
    <3>1. OnTree(at[u])' <=> OnTree(o)'
      BY DEF OnTree, Walks, Path
    <3> QED
      BY <1>3, <2>1, <3>1, WorkerPlace
  <2>3. CASE pc[u] = "stand"
    BY <1>1, <2>2, <2>3 DEF WorkerInv
  <2>4. CASE pc[u] = "publish"
    <3>1. /\ want[u] \in Moves /\ h # Null /\ o \in expanded
          /\ Untouched(h) /\ pos[h] = ChildPosition(o, want[u])
      BY <1>1, <2>4 DEF WorkerInv, Untouched
    <3>2. h \in Carried
      BY <3>1 DEF IInv, Typed, HeapTyped, Carried
    <3>3. Untouched(h)' /\ pos'[h] = pos[h]
      BY <3>1, <3>2
    <3>4. Untouched(hand[u])'
      BY <3>3 DEF Untouched
    <3>5. pos'[hand'[u]] = ChildPosition(at[u], want[u])'
      BY <2>1, <3>1, <3>3 DEF ChildPosition
    <3> QED
      BY <2>1, <2>2, <2>4, <3>1, <3>4, <3>5 DEF WorkerInv
  <2> QED
    BY <1>3, <2>3, <2>4 DEF IInv, Typed
<1> QED
  BY <1>2, <1>3

LEMMA StartSearchKeeps == IInv /\ StartSearch => IInv'
<1> SUFFICES ASSUME IInv, StartSearch PROVE IInv'
  OBVIOUS
<1>1. main = "ready" /\ UNCHANGED <<treeVars, gcVars, resetVars, commands>> /\ NoWorker
  BY DEF StartSearch, IInv, Typed
<1> PICK o : o = head
  OBVIOUS
<1>2. /\ o \in alive /\ OnTree(o) /\ pos[o] = [key |-> key, line |-> line]
      /\ Untouched(o) \/ Complete(o)
  BY <1>1, HeadPlace DEF IInv, Typed
<1>3. CASE main' = "idle" /\ UNCHANGED <<heapVars, workVars>>
  <2>1. NoWorker'
    BY <1>1, <1>3 DEF NoWorker, workVars
  <2>2. HeapTyped' /\ Owned' /\ PositionsKept'
    BY <1>1, <1>3, HeapSame DEF IInv, treeVars, gcVars, workVars
  <2>3. Typed'
    BY <1>1, <1>3, <2>1 DEF IInv, Typed, heapVars, treeVars, gcVars, resetVars, workVars
  <2>4. CutAbove' /\ HeadOnTree'
    BY <1>1, <1>3, CutSame, HeadSame DEF IInv, Shape, treeVars
  <2> QED
    BY <1>3, <2>1, <2>2, <2>3, <2>4, NoWorkerInv DEF IInv, Shape
<1>4. CASE /\ main' = "search"
           /\ IF head \in expanded THEN UNCHANGED heapVars
              ELSE Expand(head) /\ UNCHANGED <<alive, pos>>
           /\ pc' = [t \in Threads |-> "stand"] /\ at' = [t \in Threads |-> head]
           /\ UNCHANGED <<want, hand>>
  <2>1. begin # Null
    BY <1>1 DEF IInv, Typed
  <2>2. /\ HeapTyped' /\ Owned' /\ PositionsKept' /\ alive' = alive /\ pos' = pos
        /\ \A x \in alive : OnTree(x)' <=> OnTree(x)
        /\ \A x \in alive \ {o} : /\ Untouched(x)' <=> Untouched(x)
                                  /\ Complete(x)' <=> Complete(x)
        /\ Complete(o)'
    <3>1. CASE head \in expanded
      <4>1. UNCHANGED heapVars /\ Complete(o)
        BY <1>2, <1>4, <3>1 DEF Untouched
      <4>2. HeapTyped' /\ Owned' /\ PositionsKept'
        BY <1>1, <1>4, <4>1, HeapSame DEF IInv, treeVars, gcVars
      <4> QED
        BY <1>1, <4>1, <4>2, TreeSame DEF treeVars, heapVars
    <3>2. CASE head \notin expanded
      <4>1. Expand(o) /\ UNCHANGED <<alive, pos>> /\ Untouched(o)
        BY <1>2, <1>4, <3>2 DEF Complete
      <4> QED
        BY <1>1, <1>2, <1>4, <2>1, <4>1, ExpandHeap DEF IInv, treeVars, gcVars
    <3> QED
      BY <3>1, <3>2
  <2>3. Typed'
    BY <1>1, <1>2, <1>4, <2>2 DEF IInv, Typed, treeVars, gcVars, resetVars
  <2>4. CutAbove'
    <3>1. CutAbove
      BY <1>1 DEF IInv, Shape
    <3> QED
      BY <1>1, <2>2, <3>1 DEF CutAbove, treeVars
  <2>5. Standing' /\ HeadOnTree'
    <3>1. OnTree(head)'
      <4>1. OnTree(o)' => OnTree(head)'
        BY <1>1 DEF OnTree, Walks, Path, treeVars
      <4> QED
        BY <1>2, <2>2, <4>1
    <3>2. Standing
      BY <1>1 DEF IInv, Shape
    <3> QED
      BY <1>1, <1>2, <1>4, <2>2, <3>1, <3>2, TreeAssumption
        DEF Standing, HeadOnTree, treeVars, IInv, HeapTyped
  <2>6. ASSUME NEW t \in Threads PROVE WorkerInv(t)'
    <3>1. pc'[t] = "stand" /\ at'[t] = o /\ hand'[t] = Null /\ want'[t] = Null
      BY <1>1, <1>4 DEF NoWorker
    <3>2. OnTree(at[t])' <=> OnTree(o)'
      BY <3>1 DEF OnTree, Walks, Path
    <3>3. o # Null /\ Len(line) \in Nat
      BY <1>2, TreeAssumption DEF IInv, Typed, HeapTyped
    <3> QED
      BY <1>1, <1>2, <2>2, <3>1, <3>2, <3>3 DEF WorkerInv, treeVars
  <2> QED
    BY <1>4, <2>2, <2>3, <2>4, <2>5, <2>6 DEF IInv, Shape
<1> QED
  BY <1>3, <1>4 DEF StartSearch


(* Standing and CutAbove after a step of a worker.                         *)
LEMMA SearchKept ==
  ASSUME IInv, main = "search", UNCHANGED <<begin, head, key, line, main>>,
         \A o \in Slotted \cup Rooted : OnTree(o) => OnTree(o)' /\ pos'[o] = pos[o]
  PROVE  Standing' /\ HeadOnTree'
<1> PICK h : h = head
  OBVIOUS
<1>1. begin # Null
  BY DEF IInv, Typed
<1>2. /\ h \in alive /\ h # Null /\ h \in Slotted \cup Rooted
      /\ OnTree(h) /\ pos[h] = [key |-> key, line |-> line]
  BY <1>1, HeadPlace, TreeAssumption DEF IInv, HeapTyped
<1>3. OnTree(h)' /\ pos'[h] = pos[h]
  BY <1>2
<1>4. OnTree(head)' <=> OnTree(h)'
  BY DEF OnTree, Walks, Path
<1> QED
  BY <1>2, <1>3, <1>4 DEF Standing, HeadOnTree

LEMMA GetSlotKeeps ==
  ASSUME IInv, NEW t \in Threads, NEW m \in Moves, GetSlot(t, m) PROVE IInv'
<1> PICK p : p = at[t]
  OBVIOUS
<1>1. /\ pc[t] = "stand" /\ p \in expanded /\ pos[p].key = key
      /\ UNCHANGED <<treeVars, gcVars, main, resetVars, commands>>
      /\ main = "search" /\ p \in alive /\ OnTree(p) /\ Complete(p)
      /\ Len(pos[p].line) >= Len(line) /\ hand[t] = Null /\ want[t] = Null /\ begin # Null
  BY WorkerPlace DEF GetSlot, WorkerFrame, Untouched, OnTree, IInv, Shape, Typed, WorkerInv
<1>2. pos[p].line \in Seq(Moves) /\ Len(line) \in Nat /\ Len(pos[p].line) \in Nat
  BY <1>1 DEF IInv, HeapTyped, Typed, Positions
<1>3. ChildrenOnTree
  BY ChildOnTree DEF IInv
<1>4. CASE child[p][m] # Null
  <2> PICK c : c = child[p][m]
    OBVIOUS
  <2>1. at' = [at EXCEPT ![t] = c] /\ UNCHANGED <<heapVars, pc, want, hand>>
    BY <1>1, <1>4 DEF GetSlot
  <2>2. c \in alive /\ OnTree(c) /\ Len(pos[c].line) = Len(pos[p].line) + 1
    BY <1>1, <1>3, <1>4 DEF ChildrenOnTree, Complete, IInv, HeapTyped
  <2>3. HeapTyped' /\ Owned' /\ PositionsKept'
    BY <1>1, <2>1, HeapSame DEF IInv, treeVars, gcVars
  <2>4. Typed'
    BY <1>1, <2>1, <2>2 DEF IInv, Typed, heapVars, treeVars, gcVars, resetVars
  <2>5. CutAbove' /\ Standing' /\ HeadOnTree'
    BY <1>1, <2>1, CutSame, HeadSame DEF IInv, Shape, Standing, heapVars, treeVars, resetVars
  <2>6. ASSUME NEW u \in Threads PROVE WorkerInv(u)'
    <3>1. CASE u # t
      BY <1>1, <2>1, <3>1, WorkersSame DEF IInv, Typed, Shape, treeVars
    <3>2. CASE u = t
      <4>1. OnTree(c)' /\ at'[t] = c /\ c # Null
        BY <1>1, <1>4, <2>1, <2>2, TreeSame DEF IInv, Typed, treeVars
      <4>2. OnTree(at[t])'
        BY <4>1, OnTreeAt
      <4> QED
        BY <1>1, <1>2, <2>1, <2>2, <3>2, <4>1, <4>2 DEF WorkerInv, heapVars, treeVars
    <3> QED
      BY <3>1, <3>2
  <2> QED
    BY <1>1, <2>3, <2>4, <2>5, <2>6 DEF IInv, Shape
<1>5. CASE child[p][m] = Null
  <2> PICK q : q = [key |-> key, line |-> Append(pos[p].line, m)]
    OBVIOUS
  <2>1. PICK o \in Free : /\ Fresh(o, q) /\ hand' = [hand EXCEPT ![t] = o]
                          /\ pc' = [pc EXCEPT ![t] = "publish"] /\ at' = at
                          /\ want' = [want EXCEPT ![t] = m]
    BY <1>1, <1>5 DEF GetSlot
  <2>2. q \in Positions
    BY <1>2 DEF Positions, IInv, Typed
  <2>3. /\ o \in Objects /\ o \notin alive /\ o # Null
        /\ alive' = alive \cup {o} /\ alive' \subseteq Objects /\ expanded' = expanded
        /\ DOMAIN child' = Objects /\ DOMAIN pos' = Objects
        /\ child[o] = NoArray /\ child'[o] = NoArray /\ pos'[o] = q
        /\ \A x \in Objects : child'[x] = child[x]
        /\ \A x \in Objects \ {o} : pos'[x] = pos[x]
        /\ \A x \in alive' : pos'[x] \in Positions
    BY <2>1, <2>2, FreshTyped DEF IInv
  <2>4. HeapTyped'
    <3>1. pending' \in Seq(alive')
      BY <1>1, <2>3 DEF IInv, HeapTyped, gcVars
    <3> QED
      BY <1>1, <2>3, <3>1 DEF IInv, HeapTyped, treeVars, gcVars
  <2>5. /\ hand'[t] = o /\ \A u \in Threads \ {t} : hand'[u] = hand[u]
        /\ pc'[t] = "publish" /\ \A u \in Threads \ {t} : pc'[u] = pc[u]
        /\ want'[t] = m /\ \A u \in Threads \ {t} : want'[u] = want[u]
    BY <2>1 DEF IInv, Typed
  <2>6. Owned'
    <3>1. Slotted' = Slotted /\ Queued' = Queued /\ Rooted' = Rooted
      BY <1>1, <2>3 DEF Slotted, Queued, Rooted, treeVars, gcVars
    <3>2. Carried' = Carried \cup {o}
      <4>1. \A x \in Carried : x \in Carried'
        <5>1. ASSUME NEW x \in Objects, NEW u \in Threads, hand[u] = x PROVE hand'[u] = x
          <6>1. x # Null
            BY TreeAssumption
          <6>2. u # t
            BY <1>1, <5>1, <6>1
          <6> QED
            BY <2>5, <5>1, <6>2
        <5> QED
          BY <5>1 DEF Carried
      <4>2. o \in Carried'
        BY <2>3, <2>5 DEF Carried
      <4>3. ASSUME NEW x \in Carried' PROVE x = o \/ x \in Carried
        <5>1. PICK u \in Threads : hand'[u] = x /\ x \in Objects
          BY <4>3 DEF Carried
        <5>2. u = t \/ hand[u] = x
          BY <2>5, <5>1
        <5> QED
          BY <2>5, <5>1, <5>2 DEF Carried
      <4> QED
        BY <4>1, <4>2, <4>3
    <3>3. Partition'
      BY <1>1, <2>3, <3>1, <3>2 DEF IInv, Owned, Partition, HeapTyped, gcVars
    <3>4. \A u \in Threads : hand[u] # o
      BY <2>3 DEF IInv, Typed
    <3>5. CarriedOnce'
      BY <2>5, <3>4 DEF IInv, Owned, CarriedOnce
    <3> QED
      BY <1>1, <2>3, <3>3, <3>5 DEF IInv, Owned, SlotsOnce, QueuedOnce, gcVars
  <2>7. PositionsKept'
    <3>1. ASSUME NEW x \in Objects, NEW n \in DOMAIN child'[x], child'[x][n] # Null
          PROVE  pos'[child'[x][n]] = ChildPosition(x, n)'
      <4>1. x \in alive
        BY <2>3, <3>1 DEF IInv, HeapTyped, NoArray
      <4>2. child'[x][n] = child[x][n] /\ n \in DOMAIN child[x] /\ child[x][n] \in alive
        BY <2>3, <3>1 DEF IInv, HeapTyped
      <4>3. pos[child[x][n]] = ChildPosition(x, n)
        BY <3>1, <4>2 DEF IInv, PositionsKept
      <4> QED
        BY <2>3, <4>1, <4>2, <4>3 DEF IInv, HeapTyped, ChildPosition
    <3>2. pos'[begin] = pos[begin] /\ UNCHANGED <<begin, key>>
      BY <1>1, <2>3 DEF IInv, HeapTyped, treeVars
    <3> QED
      BY <3>1, <3>2 DEF IInv, PositionsKept
  <2>8. Typed'
    BY <1>1, <2>1, <2>3 DEF IInv, Typed, treeVars, gcVars, resetVars
  <2>9. ASSUME NEW x \in alive PROVE OnTree(x)' <=> OnTree(x)
    <3>1. pos'[x] = pos[x] /\ begin' = begin /\ key' = key /\ begin \in alive
      BY <1>1, <2>3 DEF treeVars, IInv, HeapTyped
    <3>2. OnTree(x) => OnTree(x)'
      <4>1. \A y \in Slotted \cup Rooted : y \in alive'
        BY <2>3 DEF IInv, Owned, Partition
      <4>2. \A y \in Slotted \cup Rooted : \A n \in DOMAIN child[y] :
              child[y][n] # Null => n \in DOMAIN child'[y] /\ child'[y][n] = child[y][n]
        BY <2>3, <4>1
      <4> QED
        BY <3>1, <4>1, <4>2, PathKept DEF IInv
    <3>3. OnTree(x)' => OnTree(x)
      <4>1. PICK H : H = {o}
        OBVIOUS
      <4>2. /\ x \notin H /\ \A h \in H : child'[h] = NoArray
            /\ \A y \in alive' : \A n \in DOMAIN child'[y] :
                 \/ child'[y][n] \in H \cup {Null}
                 \/ y \in alive /\ n \in DOMAIN child[y] /\ child[y][n] = child'[y][n]
        BY <2>3, <4>1 DEF NoArray
      <4>3. HeapTyped /\ x \in alive'
        BY <2>3 DEF IInv
      <4> HIDE DEF IInv
      <4> QED
        BY <2>4, <3>1, <4>2, <4>3, PathBack
    <3> QED
      BY <3>2, <3>3
  <2>10. CutAbove'
    BY <1>1, <2>3, <2>9 DEF IInv, Shape, CutAbove, Untouched, Complete, HeapTyped, treeVars
  <2>11. \A x \in Slotted \cup Rooted : OnTree(x) => OnTree(x)' /\ pos'[x] = pos[x]
    BY <2>3, <2>9 DEF IInv, Owned, Partition, HeapTyped
  <2>12. Standing' /\ HeadOnTree'
    BY <1>1, <2>11, SearchKept DEF treeVars
  <2>13. ASSUME NEW u \in Threads PROVE WorkerInv(u)'
    <3>1. CASE u # t
      <4>1. \A h \in Carried : Untouched(h) => Untouched(h)' /\ pos'[h] = pos[h]
        BY <2>3 DEF Untouched, IInv, Owned, Partition, HeapTyped
      <4> QED
        BY <1>1, <2>1, <2>3, <2>5, <2>11, <3>1, <4>1, WorkerKept DEF treeVars
    <3>2. CASE u = t
      <4>1. OnTree(p)' /\ pos'[p] = pos[p] /\ p # Null
        BY <1>1, <2>3, <2>9, TreeAssumption DEF IInv, HeapTyped
      <4>2. OnTree(at[t])'
        BY <2>1, <4>1 DEF OnTree, Walks, Path
      <4>3. o \notin expanded' /\ child'[o] = NoArray
        BY <2>3 DEF IInv, HeapTyped
      <4>4. Untouched(hand[t])'
        BY <2>5, <4>3 DEF Untouched
      <4>5. pos'[hand'[t]] = ChildPosition(at[t], want[t])'
        BY <1>1, <2>1, <2>3, <2>5, <4>1 DEF ChildPosition
      <4> QED
        BY <1>1, <2>1, <2>3, <2>5, <3>2, <4>1, <4>2, <4>4, <4>5 DEF WorkerInv, treeVars
    <3> QED
      BY <3>1, <3>2
  <2> QED
    BY <1>1, <2>4, <2>6, <2>7, <2>8, <2>10, <2>12, <2>13 DEF IInv, Shape
<1> QED
  BY <1>4, <1>5

LEMMA SeqElements ==
  ASSUME NEW S, NEW s \in Seq(S), NEW T, \A i \in DOMAIN s : s[i] \in T
  PROVE  s \in Seq(T)
OBVIOUS

LEMMA PublishKeeps ==
  ASSUME IInv, NEW t \in Threads, Publish(t) PROVE IInv'
<1> PICK p, h, w : p = at[t] /\ h = hand[t] /\ w = want[t]
  OBVIOUS
<1>1. /\ pc[t] = "publish" /\ pc' = [pc EXCEPT ![t] = "stand"]
      /\ hand' = [hand EXCEPT ![t] = Null] /\ want' = [want EXCEPT ![t] = Null]
      /\ expanded' = expanded
      /\ UNCHANGED <<treeVars, gcVars, main, resetVars, commands>>
  BY DEF Publish, WorkerFrame
<1>2. /\ main = "search" /\ p \in alive /\ OnTree(p) /\ Complete(p) /\ p \in Slotted \cup Rooted
      /\ Len(pos[p].line) >= Len(line) /\ w \in Moves /\ w \in DOMAIN child[p]
      /\ h \in alive /\ h \in Carried /\ Untouched(h) /\ pos[h] = ChildPosition(p, w)
      /\ prev = Null /\ begin # Null /\ begin \in alive
  <2>1. WorkerInv(t)
    BY DEF IInv, Shape
  <2>2. p \in alive /\ OnTree(p) /\ Complete(p) /\ p \in Slotted \cup Rooted
        /\ Len(pos[p].line) >= Len(line) /\ main = "search"
    BY <1>1, <2>1, WorkerPlace DEF Untouched, WorkerInv
  <2>3. w \in Moves /\ h # Null /\ Untouched(h) /\ pos[h] = ChildPosition(p, w)
    BY <1>1, <2>1 DEF WorkerInv, Untouched, ChildPosition
  <2>4. h \in alive /\ h \in Carried
    BY <2>3 DEF IInv, Typed, HeapTyped, Carried
  <2> QED
    BY <2>2, <2>3, <2>4 DEF Complete, IInv, Typed, HeapTyped
<1>3. /\ pos[p].line \in Seq(Moves) /\ Len(line) \in Nat /\ Len(pos[p].line) \in Nat
      /\ p \in Objects /\ h \in Objects /\ h # Null /\ p # Null /\ p # h
      /\ h \notin Slotted \cup Rooted \cup Queued \cup freeing /\ child[h] = NoArray
      /\ DOMAIN child = Objects /\ DOMAIN pos = Objects
  BY <1>2, TreeAssumption DEF IInv, HeapTyped, Typed, Positions, Owned, Partition, Untouched
<1>4. /\ hand'[t] = Null /\ \A u \in Threads \ {t} : hand'[u] = hand[u] /\ hand[u] # h
      /\ pc'[t] = "stand" /\ \A u \in Threads \ {t} : pc'[u] = pc[u]
      /\ want'[t] = Null /\ \A u \in Threads \ {t} : want'[u] = want[u]
  BY <1>1, <1>3 DEF IInv, Typed, Owned, CarriedOnce
<1>5. Carried' = Carried \ {h} /\ CarriedOnce'
  BY <1>4, <1>3, TreeAssumption DEF IInv, Owned, Carried, CarriedOnce
<1>6. Queued' = Queued /\ QueuedOnce' /\ Rooted' = Rooted
  BY <1>1 DEF IInv, Owned, Queued, QueuedOnce, Rooted, gcVars, treeVars
<1>7. \A u \in Threads \ {t} : pc[u] # "out" => at[u] \in Slotted \cup Rooted
  BY WorkerPlace
<1>8. CASE child[p][w] = Null
  <2>1. /\ child' = [child EXCEPT ![p][w] = h] /\ at' = [at EXCEPT ![t] = h]
        /\ UNCHANGED <<alive, pos, bytes>>
    BY <1>8 DEF Publish, Wins
  <2>2. /\ DOMAIN child' = Objects /\ DOMAIN child'[p] = DOMAIN child[p] /\ child'[p][w] = h
        /\ \A m \in DOMAIN child[p] \ {w} : child'[p][m] = child[p][m]
        /\ \A x \in Objects \ {p} : child'[x] = child[x]
    BY <1>2, <1>3, <2>1
  <2>3. HeapTyped'
    BY <1>1, <1>2, <2>1, <2>2 DEF IInv, HeapTyped, gcVars, treeVars
  <2>4. \A x \in Objects : /\ DOMAIN child'[x] = DOMAIN child[x]
                           /\ \A m \in DOMAIN child[x] :
                                \/ child'[x][m] = child[x][m]
                                \/ x = p /\ m = w /\ child'[x][m] = h
    BY <2>2
  <2>5. Slotted' = Slotted \cup {h}
    <3>1. ASSUME NEW x \in Slotted PROVE x \in Slotted'
      <4>1. PICK y \in Objects : \E m \in DOMAIN child[y] : child[y][m] = x
        BY DEF Slotted
      <4> PICK m \in DOMAIN child[y] : child[y][m] = x
        BY <4>1
      <4>2. x # Null
        BY TreeAssumption DEF Slotted
      <4>3. child'[y][m] = x /\ m \in DOMAIN child'[y]
        BY <1>8, <2>2, <2>4, <4>1, <4>2
      <4> QED
        BY <4>3 DEF Slotted
    <3>2. h \in Slotted'
      BY <1>2, <1>3, <2>2 DEF Slotted
    <3>3. ASSUME NEW x \in Slotted' PROVE x \in Slotted \cup {h}
      BY <2>4 DEF Slotted
    <3> QED
      BY <3>1, <3>2, <3>3
  <2>6. Owned'
    <3>1. Partition'
      BY <1>1, <1>2, <1>3, <1>5, <1>6, <2>1, <2>5 DEF IInv, Owned, Partition, gcVars
    <3>2. SlotsOnce'
      <4>1. \A x \in Objects : \A m \in DOMAIN child[x] : child[x][m] # h
        BY <1>3 DEF Slotted
      <4> QED
        BY <2>4, <4>1 DEF IInv, Owned, SlotsOnce
    <3> QED
      BY <1>5, <1>6, <3>1, <3>2 DEF Owned
  <2>7. PositionsKept'
    <3>1. ASSUME NEW x \in Objects, NEW m \in DOMAIN child[x], child'[x][m] # Null
          PROVE  pos[child'[x][m]] = ChildPosition(x, m)
      <4>1. CASE child'[x][m] = child[x][m]
        BY <3>1, <4>1 DEF IInv, PositionsKept
      <4>2. CASE child'[x][m] # child[x][m]
        BY <1>2, <2>4, <4>2
      <4> QED
        BY <4>1, <4>2
    <3>2. \A x, m : ChildPosition(x, m)' = ChildPosition(x, m)
      BY <2>1 DEF ChildPosition
    <3> QED
      BY <1>1, <2>1, <2>4, <3>1, <3>2 DEF IInv, PositionsKept, treeVars
  <2>8. Typed'
    BY <1>1, <1>2, <1>4, <2>1 DEF IInv, Typed, treeVars, gcVars, resetVars
  <2>9. ASSUME NEW x \in alive, OnTree(x) PROVE OnTree(x)'
    <3>1. \A y \in Slotted \cup Rooted : y \in alive'
      BY <2>1 DEF IInv, Owned, Partition
    <3>2. \A y \in Slotted \cup Rooted : \A n \in DOMAIN child[y] :
            child[y][n] # Null => n \in DOMAIN child'[y] /\ child'[y][n] = child[y][n]
      BY <1>8, <2>1, <2>2, <2>4, <3>1 DEF IInv, HeapTyped
    <3> QED
      BY <1>1, <2>1, <2>9, <3>1, <3>2, PathKept DEF IInv, treeVars
  <2>10. ASSUME NEW x \in alive, x # h, OnTree(x)' PROVE OnTree(x)
    <3>1. PICK H : H = {h}
      OBVIOUS
    <3>2. /\ x \notin H /\ \A y \in H : child'[y] = NoArray
          /\ \A y \in alive' : \A n \in DOMAIN child'[y] :
               \/ child'[y][n] \in H \cup {Null}
               \/ y \in alive /\ n \in DOMAIN child[y] /\ child[y][n] = child'[y][n]
      BY <1>3, <2>1, <2>2, <2>4, <2>10, <3>1 DEF IInv, HeapTyped
    <3>3. HeapTyped /\ x \in alive' /\ pos'[x] = pos[x] /\ UNCHANGED <<begin, key>>
      BY <1>1, <2>1 DEF IInv, treeVars
    <3> HIDE DEF IInv
    <3> QED
      BY <1>2, <2>3, <2>10, <3>2, <3>3, PathBack
  <2>11. CutAbove'
    <3>1. \A x \in alive : /\ x # p /\ Untouched(x) => Untouched(x)'
                           /\ Complete(x) => Complete(x)'
      BY <1>1, <2>2, <2>4 DEF Untouched, Complete, IInv, HeapTyped
    <3>2. Untouched(h)' /\ Complete(p)'
      BY <1>2, <1>3, <3>1
    <3> QED
      BY <1>1, <1>2, <2>1, <2>10, <3>1, <3>2 DEF IInv, Shape, CutAbove, treeVars
  <2>12. \A x \in Slotted \cup Rooted :
           /\ OnTree(x) => OnTree(x)'
           /\ pos'[x] = pos[x] /\ (x \in expanded => x \in expanded')
    BY <1>1, <2>1, <2>9 DEF IInv, Owned, Partition
  <2>13. Standing' /\ HeadOnTree'
    BY <1>1, <1>2, <2>12, SearchKept DEF treeVars
  <2>14. ASSUME NEW u \in Threads PROVE WorkerInv(u)'
    <3>1. CASE u # t
      <4>1. \A x \in Carried : hand[u] = x /\ Untouched(x) => Untouched(x)' /\ pos'[x] = pos[x]
        BY <1>1, <1>2, <2>1, <2>2 DEF Untouched, IInv, Owned, Partition, HeapTyped
      <4>2. at'[u] = at[u]
        BY <2>1, <3>1
      <4> QED
        BY <1>1, <1>4, <2>12, <3>1, <4>1, <4>2, WorkerKept DEF treeVars
    <3>2. CASE u = t
      <4>1. ChildrenOnTree'
        BY <2>3, <2>7, ChildOnTreeNext
      <4>2. OnTree(p)' /\ p \in alive' /\ h \in alive' /\ w \in DOMAIN child'[p]
        BY <1>2, <2>1, <2>2, <2>9
      <4>3. OnTree(h)' /\ Len(pos'[h].line) = Len(pos'[p].line) + 1
        BY <2>2, <4>1, <4>2 DEF ChildrenOnTree
      <4>4. at'[t] = h
        BY <2>1 DEF IInv, Typed
      <4>5. OnTree(at[t])'
        BY <4>3, <4>4, OnTreeAt
      <4> QED
        BY <1>1, <1>2, <1>3, <1>4, <2>1, <3>2, <4>3, <4>4, <4>5 DEF WorkerInv, treeVars
    <3> QED
      BY <3>1, <3>2
  <2> QED
    BY <1>1, <1>2, <2>3, <2>6, <2>7, <2>8, <2>11, <2>13, <2>14 DEF IInv, Shape
<1>9. CASE child[p][w] # Null
  <2> PICK c : c = child[p][w]
    OBVIOUS
  <2>1. /\ child' = child /\ at' = [at EXCEPT ![t] = c]
        /\ alive' = alive \ {h} /\ pos' = [pos EXCEPT ![h] = Null]
    BY <1>9 DEF Publish, Wins
  <2>2. /\ DOMAIN pos' = Objects /\ pos'[h] = Null
        /\ \A x \in Objects \ {h} : pos'[x] = pos[x]
    BY <1>3, <2>1
  <2>3. c \in Slotted /\ c \in alive' /\ c \in alive
    BY <1>2, <1>3, <1>9, <2>1 DEF Slotted, IInv, HeapTyped
  <2>4. /\ Slotted \subseteq alive' /\ Rooted \subseteq alive' /\ freeing \subseteq alive'
        /\ Queued \subseteq alive'
    BY <1>3, <2>1 DEF IInv, Owned, Partition
  <2>5. HeapTyped'
    <3>1. pending' \in Seq(alive')
      <4>1. \A i \in DOMAIN pending : pending[i] \in alive'
        BY <2>4 DEF Queued, IInv, HeapTyped
      <4> QED
        BY <1>1, <4>1, SeqElements DEF IInv, HeapTyped, gcVars
    <3>2. \A x \in Objects : \A m \in DOMAIN child[x] : child[x][m] \in alive' \cup {Null}
      BY <1>3, <2>1 DEF IInv, HeapTyped, Slotted
    <3>3. h \notin expanded /\ child[h] = NoArray /\ begin # h
      BY <1>2, <1>3 DEF Untouched, Rooted
    <3> QED
      BY <1>1, <2>1, <2>2, <2>4, <3>1, <3>2, <3>3 DEF IInv, HeapTyped, gcVars, treeVars
  <2>6. Owned'
    <3>1. Slotted' = Slotted /\ SlotsOnce'
      BY <2>1 DEF IInv, Owned, Slotted, SlotsOnce
    <3>2. Partition'
      BY <1>1, <1>3, <1>5, <1>6, <2>1, <3>1 DEF IInv, Owned, Partition, gcVars
    <3> QED
      BY <1>5, <1>6, <3>1, <3>2 DEF Owned
  <2>7. PositionsKept'
    <3>1. ASSUME NEW x \in Objects, NEW n \in DOMAIN child[x], child[x][n] # Null
          PROVE  /\ pos'[child[x][n]] = pos[child[x][n]]
                 /\ pos'[x] = pos[x]
      <4>1. child[x][n] \in Slotted /\ x # h
        BY <1>3, <3>1 DEF IInv, HeapTyped, Slotted, NoArray
      <4> QED
        BY <1>3, <2>2, <4>1 DEF Slotted
    <3>2. pos'[begin] = pos[begin] /\ begin' = begin /\ key' = key
      BY <1>1, <1>2, <1>3, <2>2 DEF treeVars, Rooted, IInv, HeapTyped
    <3> QED
      BY <2>1, <3>1, <3>2 DEF IInv, PositionsKept, ChildPosition
  <2>8. Typed'
    <3>1. head \in alive'
      BY <1>2, <2>4, HeadPlace
    <3>2. at' \in [Threads -> alive' \cup {Null}]
      <4>1. ASSUME NEW u \in Threads, u # t PROVE at[u] \in alive' \cup {Null}
        BY <1>7, <2>4, <4>1 DEF IInv, Shape, WorkerInv
      <4> QED
        BY <2>1, <2>3, <4>1 DEF IInv, Typed
    <3>3. hand' \in [Threads -> alive' \cup {Null}]
      BY <1>1, <1>4, <2>1 DEF IInv, Typed
    <3> QED
      BY <1>1, <1>2, <3>1, <3>2, <3>3 DEF IInv, Typed, treeVars, gcVars, resetVars
  <2>9. ASSUME NEW x \in alive, OnTree(x) PROVE OnTree(x)'
    <3>1. x \in Slotted \cup Rooted
      BY <2>9, OnTreeOwned DEF IInv
    <3>2. pos'[x] = pos[x]
      BY <1>3, <2>2, <3>1 DEF Slotted, Rooted, IInv, HeapTyped
    <3>3. \A y \in Slotted \cup Rooted : y \in alive'
      BY <2>4
    <3> QED
      BY <1>1, <2>1, <2>9, <3>2, <3>3, PathKept DEF IInv, treeVars
  <2>10. ASSUME NEW x \in alive', OnTree(x)' PROVE OnTree(x)
    <3>1. PICK H : H = {}
      OBVIOUS
    <3>2. /\ x \notin H /\ \A y \in H : child'[y] = NoArray
          /\ \A y \in alive' : \A n \in DOMAIN child'[y] :
               \/ child'[y][n] \in H \cup {Null}
               \/ y \in alive /\ n \in DOMAIN child[y] /\ child[y][n] = child'[y][n]
      BY <2>1, <3>1
    <3>3. HeapTyped /\ x \in alive /\ pos'[x] = pos[x] /\ UNCHANGED <<begin, key>>
      BY <1>1, <2>1, <2>2 DEF IInv, HeapTyped, treeVars
    <3> HIDE DEF IInv
    <3> QED
      BY <1>2, <2>5, <2>10, <3>2, <3>3, PathBack
  <2>11. CutAbove'
    <3>1. \A x \in alive' : x \in alive /\ pos'[x] = pos[x] /\ (Untouched(x) => Untouched(x)')
                            /\ (Complete(x) => Complete(x)')
      BY <1>1, <2>1, <2>2 DEF Untouched, Complete, IInv, HeapTyped
    <3> QED
      BY <1>1, <1>2, <2>10, <3>1 DEF IInv, Shape, CutAbove, treeVars
  <2>12. \A x \in Slotted \cup Rooted :
           /\ OnTree(x) => OnTree(x)'
           /\ pos'[x] = pos[x] /\ (x \in expanded => x \in expanded')
    BY <1>1, <1>3, <2>2, <2>4, <2>9 DEF IInv, Owned, Partition, HeapTyped
  <2>13. Standing' /\ HeadOnTree'
    BY <1>1, <1>2, <2>12, SearchKept DEF treeVars
  <2>14. ASSUME NEW u \in Threads PROVE WorkerInv(u)'
    <3>1. CASE u # t
      <4>1. \A x \in Carried : hand[u] = x /\ Untouched(x) => Untouched(x)' /\ pos'[x] = pos[x]
        BY <1>1, <1>4, <2>1, <2>2, <3>1 DEF Untouched, Carried
      <4>2. at'[u] = at[u]
        BY <2>1, <3>1
      <4> QED
        BY <1>1, <1>4, <2>12, <3>1, <4>1, <4>2, WorkerKept DEF treeVars
    <3>2. CASE u = t
      <4>1. OnTree(c) /\ Len(pos[c].line) = Len(pos[p].line) + 1
        BY <1>2, <2>3, ChildOnTree DEF IInv, ChildrenOnTree
      <4>2. OnTree(c)' /\ pos'[c] = pos[c] /\ c # Null
        BY <1>9, <2>3, <2>12, <4>1
      <4>3. at'[t] = c
        BY <2>1 DEF IInv, Typed
      <4>4. OnTree(c)'
        BY <4>2
      <4>5. OnTree(at[t])'
        BY <4>3, <4>4, OnTreeAt
      <4> QED
        BY <1>1, <1>2, <1>3, <1>4, <3>2, <4>1, <4>2, <4>3, <4>5 DEF WorkerInv, treeVars
    <3> QED
      BY <3>1, <3>2
  <2> QED
    BY <1>1, <1>2, <2>5, <2>6, <2>7, <2>8, <2>11, <2>13, <2>14 DEF IInv, Shape
<1> QED
  BY <1>8, <1>9
-----------------------------------------------------------------------------
(* The collector frees a node: it is on no path, and its children are the  *)
(* collector's from now on.                                                *)
LEMMA FreeNodeKeeps == IInv /\ FreeNode => IInv'
<1> SUFFICES ASSUME IInv, FreeNode PROVE IInv'
  OBVIOUS
<1>1. PICK o \in freeing :
        /\ alive' = alive \ {o} /\ expanded' = expanded \ {o}
        /\ child' = [child EXCEPT ![o] = NoArray] /\ pos' = [pos EXCEPT ![o] = Null]
        /\ freeing' = (freeing \ {o}) \cup Discarded(o, Null)
        /\ UNCHANGED <<pending, collector, treeVars, main, resetVars, commands, workVars>>
  BY DEF FreeNode, CollectorFrame
<1>2. /\ o \in alive /\ o \in Objects /\ o # Null
      /\ o \notin Slotted \cup Queued \cup Carried \cup Rooted
  BY TreeAssumption DEF IInv, HeapTyped, Owned, Partition
<1>3. /\ DOMAIN child' = Objects /\ DOMAIN pos' = Objects
      /\ child'[o] = NoArray /\ pos'[o] = Null
      /\ \A x \in Objects \ {o} : child'[x] = child[x] /\ pos'[x] = pos[x]
  BY <1>1, <1>2 DEF IInv, HeapTyped
<1>4. /\ Slotted \cup Queued \cup Carried \cup Rooted \subseteq alive'
      /\ \A x \in Slotted \cup Queued \cup Carried \cup Rooted :
           x \in Objects /\ child'[x] = child[x] /\ pos'[x] = pos[x]
                         /\ (x \in expanded <=> x \in expanded')
  BY <1>1, <1>2, <1>3 DEF IInv, HeapTyped, Owned, Partition
<1> DEFINE D == Discarded(o, Null)
<1>5. D = {x \in Objects : \E m \in DOMAIN child[o] : child[o][m] = x}
  BY <1>2, TreeAssumption DEF Discarded, IInv, HeapTyped
<1>6. D \subseteq Slotted
  BY <1>2, <1>5 DEF Slotted
<1> HIDE DEF D
<1>7. Slotted' = Slotted \ D
  <2>1. ASSUME NEW x \in Slotted, x \notin D PROVE x \in Slotted'
    <3>1. PICK p \in Objects : \E m \in DOMAIN child[p] : child[p][m] = x
      BY <2>1 DEF Slotted
    <3>2. p # o /\ x \in Objects
      BY <1>5, <2>1, <3>1 DEF Slotted
    <3> QED
      BY <1>3, <3>1, <3>2 DEF Slotted
  <2>2. ASSUME NEW x \in Slotted' PROVE x \in Slotted /\ x \notin D
    <3>1. PICK p \in Objects : \E m \in DOMAIN child'[p] : child'[p][m] = x
      BY DEF Slotted
    <3>2. PICK m \in DOMAIN child'[p] : child'[p][m] = x
      BY <3>1
    <3>3. p # o /\ m \in DOMAIN child[p] /\ child[p][m] = x /\ x \in Objects /\ x # Null
      BY <1>3, <3>2, TreeAssumption DEF NoArray, Slotted
    <3>4. \A n \in DOMAIN child[o] : child[o][n] # x
      BY <1>2, <3>3 DEF IInv, Owned, SlotsOnce
    <3> QED
      BY <1>5, <3>3, <3>4 DEF Slotted
  <2> QED
    BY <2>1, <2>2
<1>8. Queued' = Queued /\ Carried' = Carried /\ Rooted' = Rooted
  BY <1>1 DEF Queued, Carried, Rooted, treeVars, workVars
<1>9. Owned'
  <2>1. freeing' = (freeing \ {o}) \cup D
    BY <1>1 DEF D
  <2>2. Partition'
    BY <1>1, <1>2, <1>6, <1>7, <1>8, <2>1 DEF IInv, Owned, Partition
  <2>3. SlotsOnce'
    <3>1. \A x \in Objects : \A m \in DOMAIN child'[x] :
            m \in DOMAIN child[x] /\ child[x][m] = child'[x][m]
      BY <1>3 DEF NoArray
    <3> QED
      BY <3>1 DEF IInv, Owned, SlotsOnce
  <2>4. QueuedOnce' /\ CarriedOnce'
    BY <1>1 DEF IInv, Owned, QueuedOnce, CarriedOnce, workVars
  <2> QED
    BY <2>2, <2>3, <2>4 DEF Owned
<1>10. HeapTyped'
  <2>1. pending' \in Seq(alive')
    <3>1. \A i \in DOMAIN pending : pending[i] \in alive'
      BY <1>4 DEF Queued, IInv, HeapTyped
    <3> QED
      BY <1>1, <3>1, SeqElements DEF IInv, HeapTyped
  <2>2. \A x \in Objects : \A m \in DOMAIN child'[x] : child'[x][m] \in alive' \cup {Null}
    <3>1. ASSUME NEW x \in Objects, NEW m \in DOMAIN child'[x], child'[x][m] # Null
          PROVE  child'[x][m] \in alive'
      <4>1. m \in DOMAIN child[x] /\ child'[x][m] = child[x][m]
        BY <1>3 DEF NoArray
      <4>2. child[x][m] \in Slotted
        BY <3>1, <4>1 DEF IInv, HeapTyped, Slotted
      <4> QED
        BY <1>4, <4>1, <4>2
    <3> QED
      BY <3>1
  <2>3. freeing' \subseteq alive'
    BY <1>1, <1>2, <1>6 DEF IInv, HeapTyped, Owned, Partition, D
  <2>4. begin' \in alive' \cup {Null}
    BY <1>1, <1>4 DEF IInv, HeapTyped, treeVars, Rooted
  <2>5. \A x \in Objects : DOMAIN child'[x] \subseteq Moves
    BY <1>3 DEF IInv, HeapTyped, NoArray
  <2> QED
    BY <1>1, <1>3, <2>1, <2>2, <2>3, <2>4, <2>5 DEF IInv, HeapTyped
<1>11. PositionsKept'
  <2>1. ASSUME NEW x \in Objects, NEW m \in DOMAIN child'[x], child'[x][m] # Null
        PROVE  pos'[child'[x][m]] = ChildPosition(x, m)'
    <3>1. x # o /\ m \in DOMAIN child[x] /\ child'[x][m] = child[x][m]
      BY <1>3 DEF NoArray
    <3>2. child[x][m] \in Slotted
      BY <2>1, <3>1 DEF IInv, HeapTyped, Slotted
    <3>3. pos[child[x][m]] = ChildPosition(x, m)
      BY <2>1, <3>1 DEF IInv, PositionsKept
    <3> QED
      BY <1>3, <1>4, <3>1, <3>2, <3>3 DEF ChildPosition
  <2>2. begin # Null => pos'[begin] = pos[begin]
    BY <1>4 DEF Rooted, IInv, HeapTyped
  <2> QED
    BY <1>1, <2>1, <2>2 DEF IInv, PositionsKept, treeVars
<1>12. ASSUME NEW x \in alive, OnTree(x) PROVE OnTree(x)'
  <2>1. x \in Slotted \cup Rooted
    BY <1>12, OnTreeOwned DEF IInv
  <2> QED
    BY <1>1, <1>4, <1>12, <2>1, PathKept DEF IInv, treeVars
<1>13. ASSUME NEW x \in alive', OnTree(x)', begin # Null PROVE OnTree(x)
  <2>1. PICK H : H = {}
    OBVIOUS
  <2>2. /\ x \notin H /\ \A y \in H : child'[y] = NoArray
        /\ \A y \in alive' : \A n \in DOMAIN child'[y] :
             \/ child'[y][n] \in H \cup {Null}
             \/ y \in alive /\ n \in DOMAIN child[y] /\ child[y][n] = child'[y][n]
    BY <1>1, <1>3, <2>1 DEF IInv, HeapTyped
  <2>3. HeapTyped /\ x \in alive /\ pos'[x] = pos[x] /\ UNCHANGED <<begin, key>>
        /\ begin \in alive
    BY <1>1, <1>3, <1>13 DEF IInv, HeapTyped, treeVars
  <2> HIDE DEF IInv
  <2> QED
    BY <1>10, <1>13, <2>2, <2>3, PathBack
<1>14. CutAbove /\ begin # Null => CutAbove'
  <2>1. \A x \in alive' : /\ x \in alive /\ pos'[x] = pos[x]
                          /\ Untouched(x) => Untouched(x)'
                          /\ Complete(x) => Complete(x)'
    BY <1>1, <1>3 DEF Untouched, Complete, IInv, HeapTyped
  <2> QED
    BY <1>1, <1>13, <2>1 DEF CutAbove, treeVars
<1>15. begin # Null => /\ head \in Slotted \cup Rooted /\ head \in alive'
                       /\ OnTree(head) /\ OnTree(head)' /\ head # Null
                       /\ (Untouched(head) => Untouched(head)')
  <2>1. begin # Null => /\ head \in Slotted \cup Rooted /\ head \in alive'
                        /\ OnTree(head) /\ head \in alive /\ head # Null
    BY <1>4, HeadPlace, TreeAssumption DEF IInv, HeapTyped
  <2> PICK h : h = head
    OBVIOUS
  <2>2. begin # Null => OnTree(h)' /\ (Untouched(h) => Untouched(h)')
    BY <1>4, <1>12, <2>1 DEF Untouched
  <2>3. (OnTree(head)' <=> OnTree(h)') /\ (Untouched(head)' <=> Untouched(h)')
    BY <1>1 DEF OnTree, Walks, Path, Untouched, treeVars
  <2> QED
    BY <2>1, <2>2, <2>3
<1>16. main = "walk" => Walking' /\ prev \in alive' \cup {Null}
  <2> SUFFICES ASSUME main = "walk" PROVE Walking' /\ prev \in alive' \cup {Null}
    OBVIOUS
  <2>1. begin # Null /\ Walking
    BY DEF IInv, Typed, Shape
  <2>2. PICK q \in Walks(head) :
          /\ Path(q, head)
          /\ \A i \in 1..Walked : DOMAIN child[q[i - 1]] = {line[i]}
          /\ prev = IF Walked = 0 THEN Null ELSE q[Walked - 1]
    BY <2>1 DEF Walking
  <2>3. /\ pos[head].line = SubSeq(line, 1, Walked) /\ Walked \in 0..Len(line)
        /\ line \in Seq(Moves) /\ head \in alive
    BY <2>1 DEF Walking, Walked, IInv, Typed
  <2>4. Len(pos[head].line) = Walked
    BY <2>3
  <2>5. \A i \in 0..Walked : q[i] \in Slotted \cup Rooted
    BY <2>2, <2>3, <2>4, PathOwned DEF IInv
  <2>6. pos'[head] = pos[head] /\ head' = head /\ Walked' = Walked /\ line' = line /\ prev' = prev
    BY <1>1, <1>4, <1>15, <2>1 DEF treeVars, resetVars, Walked
  <2>7. q \in Walks(head)'
    BY <1>4, <2>2, <2>4, <2>5, <2>6 DEF Walks
  <2>8. \A i \in 1..Walked : i - 1 \in 0..Walked /\ child'[q[i - 1]] = child[q[i - 1]]
    BY <1>4, <2>3, <2>5
  <2>9. Path(q, head)'
    BY <1>1, <2>2, <2>4, <2>6, <2>8 DEF Path, treeVars
  <2>10. prev \in alive' \cup {Null}
    BY <1>4, <2>2, <2>3, <2>5
  <2> QED
    BY <1>1, <1>14, <1>15, <2>1, <2>2, <2>6, <2>7, <2>8, <2>9, <2>10
      DEF Walking, treeVars, resetVars
<1>17. Typed'
  <2>1. ASSUME NEW t \in Threads PROVE at[t] \in alive' \cup {Null} /\ hand[t] \in alive' \cup {Null}
    <3>1. at[t] \in alive' \cup {Null}
      <4>1. CASE pc[t] = "out"
        BY <4>1 DEF IInv, Shape, WorkerInv
      <4>2. CASE pc[t] # "out"
        BY <1>4, <4>2, WorkerPlace
      <4> QED
        BY <4>1, <4>2
    <3>2. hand[t] # Null => hand[t] \in Carried
      BY DEF IInv, Typed, HeapTyped, Carried
    <3> QED
      BY <1>4, <3>1, <3>2
  <2>2. NoWorker' <=> NoWorker
    BY <1>1 DEF NoWorker, workVars
  <2>3. head \in alive' \cup {Null}
    BY <1>15 DEF IInv, Typed
  <2>4. at' \in [Threads -> alive' \cup {Null}] /\ hand' \in [Threads -> alive' \cup {Null}]
    BY <1>1, <2>1 DEF IInv, Typed, workVars
  <2>5. prev \in alive' \cup {Null}
    BY <1>16 DEF IInv, Typed
  <2> QED
    BY <1>1, <2>2, <2>3, <2>4, <2>5 DEF IInv, Typed, treeVars, resetVars, workVars
<1>18. ASSUME NEW t \in Threads PROVE WorkerInv(t)'
  <2>1. \A x \in Slotted \cup Rooted :
          OnTree(x) => OnTree(x)' /\ pos'[x] = pos[x] /\ (x \in expanded => x \in expanded')
    BY <1>4, <1>12 DEF IInv, Owned, Partition
  <2>2. \A x \in Carried : hand[t] = x /\ Untouched(x) => Untouched(x)' /\ pos'[x] = pos[x]
    BY <1>4 DEF Untouched
  <2> QED
    BY <1>1, <2>1, <2>2, WorkerKept DEF treeVars, workVars
<1>19. main \in {"idle", "walk", "ready", "search"} => begin # Null
  BY DEF IInv, Typed
<1>20. Shape'
  <2>1. main \in {"ready", "search"} => Standing'
    BY <1>1, <1>4, <1>15, <1>19 DEF IInv, Shape, Standing, treeVars, resetVars
  <2>2. HeadOnTree'
    BY <1>1, <1>15 DEF HeadOnTree, treeVars
  <2> QED
    BY <1>1, <1>14, <1>16, <1>18, <1>19, <2>1, <2>2 DEF IInv, Shape
<1> QED
  BY <1>9, <1>10, <1>11, <1>17, <1>20 DEF IInv
-----------------------------------------------------------------------------
(* The walk of ResetToPosition.                                            *)

(* A list without repetition, as long as a finite set it is taken from,    *)
(* has all of the set.                                                     *)
NoRepeat(p) == \A i, j \in DOMAIN p : i # j => p[i] # p[j]

Lists(rest, D) == rest \in [1..Cardinality(D) -> D] /\ NoRepeat(rest)

Elements(p) == {p[i] : i \in DOMAIN p}

LEMMA ListsAll ==
  ASSUME NEW D, IsFiniteSet(D), NEW rest, Lists(rest, D)
  PROVE  /\ Cardinality(D) \in Nat
         /\ \A x \in D : \E i \in 1..Cardinality(D) : rest[i] = x
<1>1. Cardinality(D) \in Nat
  BY FS_CardinalityType
<1>2. rest \in Injection(1..Cardinality(D), D)
  BY DEF Injection, IsInjective, Lists, NoRepeat
<1>3. Cardinality(1..Cardinality(D)) = Cardinality(D)
  BY <1>1, FS_Interval
<1>4. rest \in Surjection(1..Cardinality(D), D)
  BY <1>2, <1>3, FS_Injection
<1> QED
  BY <1>1, <1>4 DEF Surjection

(* The queue after a list of nodes that no one queued before.              *)
LEMMA QueueGrows ==
  ASSUME NEW A, NEW B, A \subseteq B, NEW p \in Seq(A), NoRepeat(p),
         NEW D \in SUBSET B, IsFiniteSet(D), NEW rest, Lists(rest, D), Elements(p) \cap D = {}
  PROVE  p \o rest \in Seq(B) /\ NoRepeat(p \o rest) /\ Elements(p \o rest) = Elements(p) \cup D
<1> PICK n : n = Cardinality(D)
  OBVIOUS
<1>0. /\ n \in Nat /\ rest \in [1..n -> D] /\ NoRepeat(rest)
      /\ \A x \in D : \E i \in 1..n : rest[i] = x
  BY ListsAll DEF Lists
<1>1. rest \in Seq(B) /\ Len(rest) = n /\ p \in Seq(B)
  BY <1>0
<1> DEFINE q == p \o rest
<1>2. /\ q \in Seq(B) /\ DOMAIN q = 1..(Len(p) + n) /\ DOMAIN p = 1..Len(p)
      /\ \A i \in 1..Len(p) : q[i] = p[i]
      /\ \A i \in 1..n : q[Len(p) + i] = rest[i]
  BY <1>1
<1> HIDE DEF q
<1>3. \A i \in DOMAIN q : i \in 1..Len(p) \/ (i - Len(p) \in 1..n /\ q[i] = rest[i - Len(p)])
  <2> TAKE i \in DOMAIN q
  <2>1. CASE i \in 1..Len(p)
    BY <2>1
  <2>2. CASE i \notin 1..Len(p)
    <3>1. i - Len(p) \in 1..n /\ Len(p) + (i - Len(p)) = i
      BY <1>0, <1>1, <1>2, <2>2
    <3> QED
      BY <1>2, <3>1
  <2> QED
    BY <2>1, <2>2
<1>4. \A i \in 1..n : rest[i] \in D /\ Len(p) + i \in DOMAIN q
  BY <1>0, <1>2
<1>5. \A i \in 1..Len(p) : p[i] \notin D
  BY <1>2 DEF Elements
<1>6. ASSUME NEW i \in DOMAIN q, NEW j \in DOMAIN q, q[i] = q[j] PROVE i = j
  <2>1. CASE i \in 1..Len(p) /\ j \in 1..Len(p)
    BY <1>2, <1>6, <2>1 DEF NoRepeat
  <2>2. CASE i \notin 1..Len(p) /\ j \notin 1..Len(p)
    BY <1>0, <1>2, <1>3, <1>6, <2>2 DEF NoRepeat
  <2>3. CASE i \in 1..Len(p) /\ j \notin 1..Len(p)
    BY <1>2, <1>3, <1>4, <1>5, <1>6, <2>3
  <2>4. CASE i \notin 1..Len(p) /\ j \in 1..Len(p)
    BY <1>2, <1>3, <1>4, <1>5, <1>6, <2>4
  <2> QED
    BY <2>1, <2>2, <2>3, <2>4
<1>7. Elements(q) = Elements(p) \cup D
  <2>1. ASSUME NEW i \in DOMAIN q PROVE q[i] \in Elements(p) \cup D
    BY <1>2, <1>3, <1>4 DEF Elements
  <2>2. ASSUME NEW i \in DOMAIN p PROVE p[i] \in Elements(q)
    <3>1. i \in DOMAIN q /\ q[i] = p[i]
      BY <1>0, <1>2
    <3> QED
      BY <3>1 DEF Elements
  <2>3. ASSUME NEW x \in D PROVE x \in Elements(q)
    <3>1. PICK i \in 1..n : rest[i] = x
      BY <1>0
    <3> QED
      BY <1>2, <1>4, <3>1 DEF Elements
  <2> QED
    BY <2>1, <2>2, <2>3 DEF Elements
<1> QED
  BY <1>2, <1>6, <1>7 DEF q, NoRepeat

(* Where two paths are the same while each node has one child only.        *)
OneChild(c, l, q, L) ==
  \A i \in 1..L : DOMAIN c[q[i - 1]] = {l[i]} /\ c[q[i - 1]][l[i]] = q[i]

Along(c, k, r, L) ==
  \A i \in 1..L : k[i] \in DOMAIN c[r[i - 1]] /\ c[r[i - 1]][k[i]] = r[i]

LEMMA OnlyPath ==
  ASSUME NEW c, NEW L \in Nat, NEW l, NEW k, NEW q, NEW r, q[0] = r[0],
         OneChild(c, l, q, L), Along(c, k, r, L)
  PROVE  \A i \in 0..L : r[i] = q[i]
<1> DEFINE S == {i \in 0..L : r[i] # q[i]}
<1> SUFFICES ASSUME S # {} PROVE FALSE
  OBVIOUS
<1>1. PICK n \in S : \A m \in S : n <= m
  <2>1. S \in SUBSET Nat
    OBVIOUS
  <2> HIDE DEF S
  <2> QED
    BY <2>1, LeastNumber
<1>2. n \in 1..L /\ n - 1 \in 0..L
  OBVIOUS
<1>3. n - 1 \notin S
  BY <1>1, <1>2
<1> QED
  BY <1>2, <1>3 DEF OneChild, Along

LEMMA PositionLine ==
  \A p, k, l : p = [key |-> k, line |-> l] => p.line = l /\ Len(p.line) = Len(l)
OBVIOUS

(* The nodes of a path are at the positions along the line.                *)
LEMMA PathPositions ==
  ASSUME HeapTyped, PositionsKept, begin # Null, NEW o \in alive, NEW q \in Walks(o), Path(q, o)
  PROVE  \A i \in 0..Len(pos[o].line) :
           pos[q[i]] = [key |-> key, line |-> SubSeq(pos[o].line, 1, i)]
<1> PICK l : l = pos[o].line
  OBVIOUS
<1> DEFINE S == {i \in 0..Len(l) : pos[q[i]] # [key |-> key, line |-> SubSeq(l, 1, i)]}
<1>0. l \in Seq(Moves)
  BY DEF HeapTyped, Positions
<1> SUFFICES ASSUME S # {} PROVE FALSE
  OBVIOUS
<1>1. PICK n \in S : \A m \in S : n <= m
  <2>1. S \in SUBSET Nat
    OBVIOUS
  <2> HIDE DEF S
  <2> QED
    BY <2>1, LeastNumber
<1>2. n \in 0..Len(l) /\ pos[q[n]] # [key |-> key, line |-> SubSeq(l, 1, n)]
  OBVIOUS
<1>3. n # 0
  <2>1. SubSeq(l, 1, 0) = << >> /\ q[0] = begin
    BY DEF Path
  <2> QED
    BY <1>2, <2>1 DEF PositionsKept
<1>4. n \in 1..Len(l) /\ n - 1 \in 0..Len(l)
  BY <1>0, <1>2, <1>3
<1>5. n - 1 \notin S
  BY <1>1, <1>4
<1>6. pos[q[n - 1]] = [key |-> key, line |-> SubSeq(l, 1, n - 1)]
  BY <1>4, <1>5
<1>7. /\ l[n] \in DOMAIN child[q[n - 1]] /\ child[q[n - 1]][l[n]] = q[n]
      /\ q[n] \in alive /\ q[n - 1] \in Objects /\ q[n] # Null
  BY <1>4, <1>2, TreeAssumption DEF Path, Walks, HeapTyped
<1>8. pos[q[n]] = ChildPosition(q[n - 1], l[n])
  BY <1>7 DEF PositionsKept
<1>9. Append(SubSeq(l, 1, n - 1), l[n]) = SubSeq(l, 1, n)
  BY <1>0, <1>4
<1>10. pos[q[n]] = [key |-> key, line |-> Append(SubSeq(l, 1, n - 1), l[n])]
  BY <1>6, <1>8 DEF ChildPosition
<1> HIDE DEF S
<1> QED
  BY <1>2, <1>9, <1>10

LEMMA PathLengths ==
  ASSUME HeapTyped, PositionsKept, begin # Null, NEW o \in alive, NEW q \in Walks(o), Path(q, o)
  PROVE  \A i \in 0..Len(pos[o].line) : Len(pos[q[i]].line) = i
<1> TAKE i \in 0..Len(pos[o].line)
<1>1. pos[o].line \in Seq(Moves)
  BY DEF HeapTyped, Positions
<1>2. pos[q[i]] = [key |-> key, line |-> SubSeq(pos[o].line, 1, i)]
  BY PathPositions
<1>3. Len(SubSeq(pos[o].line, 1, i)) = i
  BY <1>1
<1> QED
  BY <1>2, <1>3, PositionLine

(* The children of a node that ResetToPosition gives to the collector.     *)
LEMMA DiscardedFinite ==
  ASSUME HeapTyped, NEW h \in alive, NEW x
  PROVE  /\ Discarded(h, x) \subseteq alive /\ IsFiniteSet(Discarded(h, x))
         /\ Discarded(h, x) = {y \in Objects : /\ y # x
                                               /\ \E m \in DOMAIN child[h] : child[h][m] = y}
<1>1. Discarded(h, x) \subseteq alive /\ alive \in SUBSET Objects
  BY DEF HeapTyped, Discarded
<1>2. IsFiniteSet(Discarded(h, x))
  BY <1>1, FS_Subset, TreeAssumption
<1> QED
  BY <1>1, <1>2, TreeAssumption DEF Discarded, HeapTyped

(* One step of the walk: h is the node walked from, m the move and n the   *)
(* node walked to, which was h's child or is made anew.                    *)
WalkStep(h, m, n, made) ==
  /\ n \in Objects /\ n # Null /\ n # h /\ m \in Moves
  /\ alive' = alive \cup {n} /\ expanded' = expanded
  /\ DOMAIN child' = Objects /\ DOMAIN pos' = Objects
  /\ child'[h] = [x \in {m} |-> n]
  /\ \A x \in Objects \ {h} : child'[x] = child[x]
  /\ \A x \in alive : pos'[x] = pos[x]
  /\ \A x \in Objects \ alive' : pos'[x] = pos[x]
  /\ pos'[n] = ChildPosition(h, m)
  /\ made => n \notin alive /\ n \notin expanded /\ child'[n] = NoArray
  /\ ~made => n \in alive /\ m \in DOMAIN child[h] /\ child[h][m] = n

LEMMA ReleaseStep ==
  ASSUME IInv, ReleaseChildrenExceptOne
  PROVE  \E n \in Objects, made \in BOOLEAN :
           /\ WalkStep(head, Head(todo), n, made) /\ head' = n
           /\ made <=> (Head(todo) \in DOMAIN child[head] => child[head][Head(todo)] = Null)
           /\ \E rest : Lists(rest, Discarded(head, n)) /\ pending' = pending \o rest
<1> PICK h, m : h = head /\ m = Head(todo)
  OBVIOUS
<1>1. main = "walk" /\ todo # << >> /\ m \in Moves /\ h \in alive /\ pos[h].key = key
  <2>1. main = "walk" /\ todo # << >>
    BY DEF ReleaseChildrenExceptOne
  <2>2. m \in Moves
    BY <2>1 DEF IInv, Typed
  <2>3. h \in alive /\ pos[h].key = key
    BY <2>1 DEF IInv, Shape, Walking
  <2> QED
    BY <2>1, <2>2, <2>3
<1>2. /\ h \in Objects /\ DOMAIN child = Objects /\ DOMAIN pos = Objects
      /\ Null \notin alive /\ alive \subseteq Objects
  BY <1>1, TreeAssumption DEF IInv, HeapTyped
<1> PICK slot : slot = IF m \in DOMAIN child[h] THEN child[h][m] ELSE Null
  OBVIOUS
<1>3. \E rest : Lists(rest, Discarded(h, slot)) /\ pending' = pending \o rest
  BY DEF ReleaseChildrenExceptOne, Lists, NoRepeat
<1>4. CASE slot # Null
  <2>1. /\ child' = [child EXCEPT ![h] = [x \in {m} |-> slot]]
        /\ head' = slot /\ UNCHANGED <<alive, expanded, pos>>
    BY <1>4 DEF ReleaseChildrenExceptOne
  <2>2. m \in DOMAIN child[h] /\ child[h][m] = slot /\ slot \in alive
    BY <1>1, <1>2, <1>4 DEF IInv, HeapTyped
  <2>3. pos[slot] = ChildPosition(h, m)
    BY <1>2, <1>4, <2>2 DEF IInv, PositionsKept
  <2>4. slot # h
    <3>1. pos[h].line \in Seq(Moves)
      BY <1>1 DEF IInv, HeapTyped, Positions
    <3>2. pos[slot].line = Append(pos[h].line, m)
      BY <2>3 DEF ChildPosition
    <3> QED
      BY <1>1, <3>1, <3>2
  <2>5. WalkStep(h, m, slot, FALSE)
    BY <1>1, <1>2, <2>1, <2>2, <2>3, <2>4 DEF WalkStep
  <2> QED
    BY <1>2, <1>3, <1>4, <2>1, <2>2, <2>5
<1>5. CASE slot = Null
  <2>1. PICK o \in Free :
          /\ alive' = alive \cup {o}
          /\ child' = [child EXCEPT ![h] = [x \in {m} |-> o], ![o] = NoArray]
          /\ expanded' = expanded \ {o}
          /\ pos' = [pos EXCEPT ![o] = [key |-> key, line |-> Append(pos[h].line, m)]]
          /\ head' = o
    BY <1>5 DEF ReleaseChildrenExceptOne
  <2>2. o \in Objects /\ o \notin alive /\ o # h /\ o # Null /\ o \notin expanded
    BY <1>1, TreeAssumption DEF Free, IInv, HeapTyped
  <2>3. child[o] = NoArray
    BY <2>2 DEF IInv, HeapTyped
  <2>4. /\ DOMAIN child' = Objects /\ child'[h] = [x \in {m} |-> o] /\ child'[o] = NoArray
        /\ \A x \in Objects \ {h} : child'[x] = child[x]
    BY <1>2, <2>1, <2>2, <2>3
  <2>5. /\ DOMAIN pos' = Objects /\ pos'[o] = ChildPosition(h, m)
        /\ \A x \in Objects \ {o} : pos'[x] = pos[x]
    BY <1>1, <1>2, <2>1, <2>2 DEF ChildPosition
  <2>6. WalkStep(h, m, o, TRUE)
    BY <1>1, <1>2, <2>1, <2>2, <2>4, <2>5 DEF WalkStep
  <2>7. Discarded(h, o) = Discarded(h, slot)
    <3>1. \A k \in DOMAIN child[h] : child[h][k] # o
      BY <1>2, <2>2 DEF IInv, HeapTyped
    <3> QED
      BY <1>5, <3>1 DEF Discarded
  <2>8. m \in DOMAIN child[h] => child[h][m] = Null
    BY <1>5
  <2> QED
    BY <1>3, <2>1, <2>2, <2>6, <2>7, <2>8
<1> QED
  BY <1>4, <1>5

LEMMA WalkHeap ==
  ASSUME HeapTyped, Owned, PositionsKept, begin # Null,
         NEW h \in alive, NEW m \in Moves, NEW n \in Objects, NEW made \in BOOLEAN,
         WalkStep(h, m, n, made),
         NEW rest, Lists(rest, Discarded(h, n)), pending' = pending \o rest,
         UNCHANGED <<freeing, begin, key, hand>>
  PROVE  HeapTyped' /\ Owned' /\ PositionsKept'
<1>1. /\ h \in Objects /\ alive \subseteq Objects /\ Null \notin alive
      /\ begin \in alive /\ pending \in Seq(alive)
  BY TreeAssumption DEF HeapTyped
<1> PICK D : D = Discarded(h, n)
  OBVIOUS
<1>2. /\ D \subseteq alive /\ IsFiniteSet(D)
      /\ D = {y \in Objects : y # n /\ \E k \in DOMAIN child[h] : child[h][k] = y}
  BY DiscardedFinite
<1>3. D \subseteq Slotted
  BY <1>1, <1>2 DEF Slotted
<1>4. /\ pending' \in Seq(alive') /\ QueuedOnce' /\ Queued' = Queued \cup D
  <2>1. Lists(rest, D) /\ NoRepeat(pending)
    BY DEF Owned, QueuedOnce, NoRepeat
  <2>2. Elements(pending) \cap D = {}
    BY <1>1, <1>3 DEF Owned, Partition, Queued, Elements, Slotted
  <2>3. alive \subseteq alive' /\ D \in SUBSET alive'
    BY <1>2 DEF WalkStep
  <2>4. /\ pending' \in Seq(alive') /\ NoRepeat(pending')
        /\ Elements(pending') = Elements(pending) \cup D
    BY <1>1, <1>2, <2>1, <2>2, <2>3, QueueGrows
  <2>7. pending' \in Seq(alive') /\ QueuedOnce'
    BY <2>4 DEF QueuedOnce, NoRepeat
  <2>8. Queued' = Queued \cup D
    <3>1. \A x : (\E i \in DOMAIN pending' : pending'[i] = x)
                   <=> (\E i \in DOMAIN pending : pending[i] = x) \/ x \in D
      BY <2>4 DEF Elements
    <3>2. D \subseteq Objects
      BY <1>1, <1>2
    <3> QED
      BY <3>1, <3>2 DEF Queued
  <2> QED
    BY <2>7, <2>8
<1>5. HeapTyped'
  <2>1. \A x \in Objects : \A k \in DOMAIN child'[x] :
          DOMAIN child'[x] \subseteq Moves /\ child'[x][k] \in alive' \cup {Null}
    BY DEF WalkStep, HeapTyped
  <2>2. ChildPosition(h, m) \in Positions
    <3>1. pos[h] \in Positions
      BY DEF HeapTyped
    <3> QED
      BY <3>1 DEF ChildPosition, Positions
  <2>3. \A x \in alive' : pos'[x] \in Positions
    BY <2>2 DEF WalkStep, HeapTyped
  <2>4. \A x \in Objects \ alive' : child'[x] = NoArray /\ pos'[x] = Null
    BY <1>1 DEF WalkStep, HeapTyped
  <2> QED
    BY <1>4, <2>1, <2>3, <2>4 DEF WalkStep, HeapTyped
<1>6. ASSUME NEW x \in Objects \ {h}, NEW k \in DOMAIN child[x] PROVE child[x][k] # n
  <2>1. CASE made
    BY <2>1 DEF WalkStep, HeapTyped
  <2>2. CASE ~made
    BY <1>1, <2>2 DEF WalkStep, Owned, SlotsOnce
  <2> QED
    BY <2>1, <2>2
<1>7. Slotted' = (Slotted \ D) \cup {n}
  <2>1. n \in Slotted'
    BY <1>1 DEF WalkStep, Slotted
  <2>2. ASSUME NEW x \in Slotted', x # n PROVE x \in Slotted /\ x \notin D
    <3>1. PICK p \in Objects : \E k \in DOMAIN child'[p] : child'[p][k] = x
      BY DEF Slotted
    <3>2. PICK k \in DOMAIN child'[p] : child'[p][k] = x
      BY <3>1
    <3>3. p # h
      BY <2>2, <3>2 DEF WalkStep
    <3>4. child[p][k] = x /\ k \in DOMAIN child[p] /\ x \in Objects /\ x # Null
      BY <3>2, <3>3, TreeAssumption DEF WalkStep, Slotted
    <3>5. \A j \in DOMAIN child[h] : child[h][j] # x
      BY <1>1, <3>3, <3>4 DEF Owned, SlotsOnce
    <3> QED
      BY <1>2, <3>4, <3>5 DEF Slotted
  <2>3. ASSUME NEW x \in Slotted, x \notin D, x # n PROVE x \in Slotted'
    <3>1. PICK p \in Objects : \E k \in DOMAIN child[p] : child[p][k] = x
      BY DEF Slotted
    <3>2. x \in Objects /\ p # h
      BY <1>2, <2>3, <3>1 DEF Slotted
    <3> QED
      BY <3>1, <3>2 DEF WalkStep, Slotted
  <2>4. n \notin D
    BY <1>2
  <2> QED
    BY <2>1, <2>2, <2>3, <2>4
<1>8. Carried' = Carried /\ Rooted' = Rooted
  BY DEF Carried, Rooted
<1>9. Partition'
  <2>1. n \notin Queued \cup Carried \cup Rooted \cup freeing
    <3>1. CASE made
      BY <3>1 DEF WalkStep, Owned, Partition
    <3>2. CASE ~made
      <4>1. n \in Slotted
        BY <1>1, <3>2 DEF WalkStep, Slotted
      <4> QED
        BY <4>1 DEF Owned, Partition
    <3> QED
      BY <3>1, <3>2
  <2>2. alive' = alive \cup {n} /\ freeing' = freeing /\ n \notin D
    BY <1>2 DEF WalkStep
  <2> QED
    BY <1>3, <1>4, <1>7, <1>8, <2>1, <2>2 DEF Owned, Partition
<1>10. SlotsOnce'
  <2>1. ASSUME NEW p \in Objects, NEW q \in Objects, p # h, q # h,
               NEW k \in DOMAIN child'[p], NEW j \in DOMAIN child'[q],
               child'[p][k] = child'[q][j], child'[p][k] # Null
        PROVE  p = q /\ k = j
    BY <2>1 DEF WalkStep, Owned, SlotsOnce
  <2>2. \A k \in DOMAIN child'[h] : k = m /\ child'[h][k] = n
    BY DEF WalkStep
  <2>3. \A p \in Objects \ {h} : \A k \in DOMAIN child'[p] : child'[p][k] # n
    BY <1>6 DEF WalkStep
  <2> QED
    BY <2>1, <2>2, <2>3 DEF SlotsOnce
<1>11. PositionsKept'
  <2>1. ASSUME NEW p \in Objects, NEW k \in DOMAIN child'[p], child'[p][k] # Null
        PROVE  pos'[child'[p][k]] = ChildPosition(p, k)'
    <3>1. CASE p = h
      BY <1>1, <3>1 DEF WalkStep, ChildPosition
    <3>2. CASE p # h
      <4>1. child'[p] = child[p] /\ k \in DOMAIN child[p]
        BY <3>2 DEF WalkStep
      <4>2. p \in alive /\ child[p][k] \in alive
        BY <2>1, <4>1 DEF HeapTyped, NoArray
      <4>3. pos[child[p][k]] = ChildPosition(p, k)
        BY <2>1, <4>1 DEF PositionsKept
      <4> QED
        BY <4>1, <4>2, <4>3 DEF WalkStep, ChildPosition
    <3> QED
      BY <3>1, <3>2
  <2>2. pos'[begin] = pos[begin]
    BY <1>1 DEF WalkStep
  <2> QED
    BY <2>1, <2>2 DEF PositionsKept
<1> QED
  BY <1>4, <1>5, <1>9, <1>10, <1>11 DEF Owned, QueuedOnce, CarriedOnce

(* The moves that are left of a line, and those that were made.            *)
LEMMA MovesLeft ==
  ASSUME NEW S, NEW s \in Seq(S), NEW k \in 0..(Len(s) - 1)
  PROVE  /\ Head(SubSeq(s, k + 1, Len(s))) = s[k + 1]
         /\ Tail(SubSeq(s, k + 1, Len(s))) = SubSeq(s, k + 2, Len(s))
         /\ Append(SubSeq(s, 1, k), s[k + 1]) = SubSeq(s, 1, k + 1)
         /\ Len(SubSeq(s, 1, k + 1)) = k + 1
         /\ \A i \in 1..(k + 1) : SubSeq(s, 1, k + 1)[i] = s[i]
<1> DEFINE t == SubSeq(s, k + 1, Len(s))
<1>1. t \in Seq(S) /\ Len(t) = Len(s) - k /\ \A i \in 1..(Len(s) - k) : t[i] = s[k + i]
  OBVIOUS
<1>2. t # << >> /\ Head(t) = s[k + 1]
  <2>1. 1 \in 1..(Len(s) - k) /\ Len(s) - k # 0
    OBVIOUS
  <2>2. t # << >> /\ t[1] = s[k + 1]
    BY <1>1, <2>1
  <2> HIDE DEF t
  <2> QED
    BY <1>1, <2>2
<1>3. Tail(t) = SubSeq(s, k + 2, Len(s))
  <2> DEFINE u == SubSeq(s, k + 2, Len(s))
  <2>1. Tail(t) \in Seq(S) /\ Len(Tail(t)) = Len(s) - k - 1
        /\ \A i \in 1..(Len(s) - k - 1) : Tail(t)[i] = s[k + 1 + i]
    BY <1>1, <1>2
  <2>2. u \in Seq(S) /\ Len(u) = Len(s) - k - 1
        /\ \A i \in 1..(Len(s) - k - 1) : u[i] = s[k + 1 + i]
    OBVIOUS
  <2> HIDE DEF t, u
  <2> QED
    BY <2>1, <2>2 DEF u
<1> QED
  BY <1>2, <1>3 DEF t

LEMMA ChildLine ==
  ASSUME NEW p, NEW m, NEW s, pos[p] = [key |-> key, line |-> s]
  PROVE  ChildPosition(p, m) = [key |-> key, line |-> Append(s, m)]
BY DEF ChildPosition

(* What a step of the walk does to the paths.                              *)
LEMMA WalkPaths ==
  ASSUME HeapTyped, HeapTyped', PositionsKept, begin \in alive, begin # Null,
         UNCHANGED <<begin, key>>,
         NEW h \in alive, NEW m \in Moves, NEW n \in Objects, NEW made \in BOOLEAN,
         WalkStep(h, m, n, made)
  PROVE  \A x \in alive : x # n \/ ~made => (OnTree(x)' => OnTree(x))
<1> SUFFICES ASSUME NEW x \in alive, x # n \/ ~made, OnTree(x)' PROVE OnTree(x)
  OBVIOUS
<1> PICK H : H = IF made THEN {n} ELSE {}
  OBVIOUS
<1>1. x \notin H /\ \A y \in H : child'[y] = NoArray
  BY DEF WalkStep
<1>2. ASSUME NEW y \in alive', NEW k \in DOMAIN child'[y]
      PROVE  \/ child'[y][k] \in H \cup {Null}
             \/ y \in alive /\ k \in DOMAIN child[y] /\ child[y][k] = child'[y][k]
  <2>1. CASE y = h
    BY <2>1 DEF WalkStep
  <2>2. CASE y # h
    <3>1. y \in Objects /\ child'[y] = child[y]
      BY <2>2 DEF WalkStep, HeapTyped
    <3>2. y \in alive
      BY <3>1 DEF HeapTyped, NoArray
    <3> QED
      BY <3>1, <3>2
  <2> QED
    BY <2>1, <2>2
<1>3. x \in alive' /\ pos'[x] = pos[x]
  BY DEF WalkStep
<1> QED
  BY <1>1, <1>2, <1>3, PathBack

LEMMA ReleaseKeeps == IInv /\ ReleaseChildrenExceptOne => IInv'
<1> SUFFICES ASSUME IInv, ReleaseChildrenExceptOne PROVE IInv'
  OBVIOUS
<1> PICK h, m : h = head /\ m = Head(todo)
  OBVIOUS
<1>1. /\ main = "walk" /\ todo # << >> /\ prev' = h /\ todo' = Tail(todo)
      /\ UNCHANGED <<begin, known, key, line, freeing, collector, main, restart, reused,
                     commands, workVars>>
  BY DEF ReleaseChildrenExceptOne
<1>2. /\ begin # Null /\ begin \in alive /\ Walking /\ NoWorker /\ NoWorker' /\ h \in alive
      /\ todo \in Seq(Moves) /\ line \in Seq(Moves) /\ m \in Moves /\ Null \notin alive
  <2>1. begin # Null /\ begin \in alive /\ Walking /\ NoWorker
    BY <1>1 DEF IInv, Typed, HeapTyped, Shape
  <2>2. todo \in Seq(Moves) /\ line \in Seq(Moves) /\ m \in Moves
    BY <1>1 DEF IInv, Typed
  <2>3. NoWorker' /\ h \in alive /\ Null \notin alive
    BY <1>1, <2>1, TreeAssumption DEF NoWorker, workVars, Walking, IInv, HeapTyped
  <2> QED
    BY <2>1, <2>2, <2>3
<1>3. PICK n \in Objects, made \in BOOLEAN :
        /\ WalkStep(h, m, n, made) /\ head' = n
        /\ made <=> (m \in DOMAIN child[h] => child[h][m] = Null)
        /\ \E rest : Lists(rest, Discarded(h, n)) /\ pending' = pending \o rest
  BY ReleaseStep
<1>4. HeapTyped' /\ Owned' /\ PositionsKept'
  BY <1>1, <1>2, <1>3, WalkHeap DEF IInv, workVars
<1> PICK w : w = Walked
  OBVIOUS
<1>5. /\ w \in 0..Len(line) /\ w < Len(line) /\ Walked' = w + 1 /\ m = line[w + 1]
      /\ todo' = SubSeq(line, w + 2, Len(line)) /\ Len(todo') <= Len(line)
      /\ pos[h] = [key |-> key, line |-> SubSeq(line, 1, w)]
  <2>1. /\ Len(todo) <= Len(line) /\ w = Len(line) - Len(todo)
        /\ todo = SubSeq(line, w + 1, Len(line))
        /\ pos[h] = [key |-> key, line |-> SubSeq(line, 1, w)]
    BY <1>2 DEF Walking, Walked
  <2>2. Len(todo) \in Nat /\ Len(todo) # 0 /\ Len(line) \in Nat
    BY <1>1, <1>2
  <2>3. w \in 0..Len(line) /\ w < Len(line)
    BY <2>1, <2>2
  <2>4. m = line[w + 1] /\ Tail(todo) = SubSeq(line, w + 2, Len(line))
    <3>1. w \in 0..(Len(line) - 1)
      BY <2>2, <2>3
    <3> QED
      BY <1>2, <2>1, <3>1, MovesLeft
  <2>6. Len(Tail(todo)) = Len(todo) - 1
    BY <1>1, <1>2
  <2>5. /\ Len(todo') = Len(todo) - 1 /\ line' = line /\ Walked' = w + 1
        /\ Len(todo') <= Len(line)
    <3> PICK a, b : a = Len(todo) /\ b = Len(line)
      OBVIOUS
    <3>1. Len(todo') = a - 1 /\ line' = line
      BY <1>1, <2>6
    <3>2. a \in Nat /\ b \in Nat /\ a <= b /\ w = b - a /\ Walked' = b - (a - 1)
      BY <2>1, <2>2, <3>1 DEF Walked
    <3> QED
      BY <3>1, <3>2
  <2> QED
    BY <1>1, <2>1, <2>2, <2>3, <2>4, <2>5 DEF Walked
<1>6. /\ n \in alive' /\ pos'[n] = [key |-> key, line |-> SubSeq(line, 1, w + 1)]
      /\ Len(pos'[n].line) = w + 1
  <2>1. pos'[n] = ChildPosition(h, m) /\ n \in alive'
    BY <1>3 DEF WalkStep
  <2>2. /\ Append(SubSeq(line, 1, w), line[w + 1]) = SubSeq(line, 1, w + 1)
        /\ Len(SubSeq(line, 1, w + 1)) = w + 1
    <3>1. w \in 0..(Len(line) - 1)
      BY <1>2, <1>5
    <3> QED
      BY <1>2, <3>1, MovesLeft
  <2>3. ChildPosition(h, m) = [key |-> key, line |-> Append(SubSeq(line, 1, w), m)]
    BY <1>5, ChildLine
  <2>4. pos'[n] = [key |-> key, line |-> SubSeq(line, 1, w + 1)]
    BY <1>5, <2>1, <2>2, <2>3
  <2> QED
    BY <2>1, <2>2, <2>4, PositionLine
<1>7. PICK q \in Walks(h) :
        /\ Path(q, h)
        /\ \A i \in 1..w : DOMAIN child[q[i - 1]] = {line[i]}
        /\ prev = IF w = 0 THEN Null ELSE q[w - 1]
  BY <1>2 DEF Walking
<1>8. /\ Len(pos[h].line) = w /\ q[0] = begin /\ q[w] = h /\ \A i \in 0..w : q[i] \in alive
      /\ \A i \in 1..w : /\ SubSeq(line, 1, w)[i] \in DOMAIN child[q[i - 1]]
                         /\ child[q[i - 1]][SubSeq(line, 1, w)[i]] = q[i]
      /\ \A i \in 1..w : SubSeq(line, 1, w)[i] = line[i]
  <2>1. Len(pos[h].line) = w /\ \A i \in 1..w : SubSeq(line, 1, w)[i] = line[i]
    BY <1>2, <1>5
  <2>2. q \in [0..w -> alive]
    BY <1>7, <2>1 DEF Walks
  <2>3. q[0] = begin /\ q[w] = h /\ \A i \in 0..w : q[i] \in alive
    BY <1>5, <1>7, <2>1, <2>2 DEF Path
  <2>4. pos[h].line = SubSeq(line, 1, w)
    BY <1>5
  <2>5. \A i \in 1..w : /\ SubSeq(line, 1, w)[i] \in DOMAIN child[q[i - 1]]
                         /\ child[q[i - 1]][SubSeq(line, 1, w)[i]] = q[i]
    BY <1>7, <2>1, <2>4 DEF Path
  <2> QED
    BY <2>1, <2>3, <2>5
<1>9. \A i \in 1..w : q[i - 1] # h /\ child'[q[i - 1]] = child[q[i - 1]]
  <2> TAKE i \in 1..w
  <2>1. i - 1 \in 0..w /\ i - 1 # w /\ q[i - 1] \in alive
    BY <1>5, <1>8
  <2>2. Len(pos[q[i - 1]].line) = i - 1
    BY <1>2, <1>7, <1>8, <2>1, PathLengths DEF IInv
  <2>4. q[i - 1] # h
    BY <1>8, <2>1, <2>2
  <2>5. q[i - 1] \in Objects
    BY <2>1 DEF IInv, HeapTyped
  <2> QED
    BY <1>3, <2>4, <2>5 DEF WalkStep
<1>16. PICK r : r = [i \in 0..(w + 1) |-> IF i = w + 1 THEN n ELSE q[i]]
  OBVIOUS
<1>10. /\ r \in [0..(w + 1) -> alive'] /\ r[0] = begin /\ r[w + 1] = n /\ r[w] = h
       /\ \A i \in 1..(w + 1) : /\ line[i] \in DOMAIN child'[r[i - 1]]
                                /\ child'[r[i - 1]][line[i]] = r[i]
                                /\ DOMAIN child'[r[i - 1]] = {line[i]}
  <2>1. alive \subseteq alive' /\ child'[h] = [x \in {m} |-> n]
    BY <1>3 DEF WalkStep
  <2>2. r \in [0..(w + 1) -> alive'] /\ r[0] = begin /\ r[w + 1] = n /\ r[w] = h
    <3>1. /\ w \in Nat /\ 0 \in 0..(w + 1) /\ w \in 0..(w + 1) /\ w + 1 \in 0..(w + 1)
          /\ 0 # w + 1 /\ w # w + 1
          /\ \A i \in 0..(w + 1) : i # w + 1 => i \in 0..w
      BY <1>5
    <3>2. r[0] = begin /\ r[w + 1] = n /\ r[w] = h
      BY <1>8, <1>16, <3>1
    <3>3. \A i \in 0..(w + 1) : (IF i = w + 1 THEN n ELSE q[i]) \in alive'
      BY <1>6, <1>8, <2>1, <3>1
    <3> QED
      BY <1>16, <3>2, <3>3
  <2>3. ASSUME NEW i \in 1..w
        PROVE  /\ line[i] \in DOMAIN child'[r[i - 1]] /\ child'[r[i - 1]][line[i]] = r[i]
               /\ DOMAIN child'[r[i - 1]] = {line[i]}
    <3>1. r[i - 1] = q[i - 1] /\ r[i] = q[i]
      <4>1. w \in Nat /\ i \in 0..(w + 1) /\ i - 1 \in 0..(w + 1) /\ i # w + 1 /\ i - 1 # w + 1
        BY <1>5
      <4> QED
        BY <1>16, <4>1
    <3> QED
      BY <1>7, <1>8, <1>9, <3>1
  <2>4. (w + 1) - 1 = w
    BY <1>5
  <2>5. /\ line[w + 1] \in DOMAIN child'[r[w]] /\ child'[r[w]][line[w + 1]] = r[w + 1]
        /\ DOMAIN child'[r[w]] = {line[w + 1]}
    BY <1>5, <2>1, <2>2
  <2>6. \A i \in 1..(w + 1) : i \in 1..w \/ i = w + 1
    BY <1>5
  <2> QED
    BY <2>2, <2>3, <2>4, <2>5, <2>6
<1>11. r \in Walks(n)' /\ Path(r, n)'
  <2>1. \A i \in 1..(w + 1) : pos'[n].line[i] = line[i]
    <3>1. w \in 0..(Len(line) - 1)
      BY <1>2, <1>5
    <3> QED
      BY <1>2, <1>6, <3>1, MovesLeft
  <2>2. r \in Walks(n)'
    BY <1>6, <1>10 DEF Walks
  <2>3. Path(r, n)'
    <3>1. begin' = begin /\ Len(pos'[n].line) = w + 1
      BY <1>1, <1>6
    <3>2. \A i \in 1..(w + 1) : /\ pos'[n].line[i] \in DOMAIN child'[r[i - 1]]
                                /\ child'[r[i - 1]][pos'[n].line[i]] = r[i]
      BY <1>10, <2>1
    <3> QED
      BY <1>10, <3>1, <3>2 DEF Path
  <2> QED
    BY <2>2, <2>3
<1>12. ~restart' => CutAbove'
  <2> SUFFICES ASSUME ~restart', NEW x \in alive', OnTree(x)'
               PROVE  Untouched(x)' \/ Complete(x)' \/ Len(pos'[x].line) < Len(line')
    BY DEF CutAbove
  <2>1. CutAbove
    BY <1>1, <1>2 DEF Walking
  <2>2. CASE x = n /\ made
    BY <1>3, <2>2 DEF WalkStep, Untouched
  <2>3. CASE x # n \/ ~made
    <3>1. x \in alive
      BY <1>3, <2>3 DEF WalkStep
    <3>2. OnTree(x)
      BY <1>1, <1>2, <1>3, <1>4, <2>3, <3>1, WalkPaths DEF IInv
    <3>3. pos'[x] = pos[x]
      BY <1>3, <3>1 DEF WalkStep
    <3>4. CASE x = h
      BY <1>1, <1>5, <1>8, <3>3, <3>4
    <3>5. CASE x # h
      BY <1>1, <1>3, <2>1, <3>1, <3>2, <3>3, <3>5
        DEF CutAbove, WalkStep, Untouched, Complete, IInv, HeapTyped
    <3> QED
      BY <3>4, <3>5
  <2> QED
    BY <1>3, <2>2, <2>3
<1>13. ~restart' /\ ~reused' => Untouched(head)'
  <2> SUFFICES ASSUME ~restart', ~reused' PROVE Untouched(head)'
    OBVIOUS
  <2>1. child[h] = NoArray
    BY <1>1, <1>2 DEF Walking, Untouched
  <2>2. made
    BY <1>3, <2>1 DEF NoArray
  <2> QED
    BY <1>3, <2>2 DEF WalkStep, Untouched
<1>14. Walking'
  <2>1. /\ Len(todo') <= Len(line') /\ todo' = SubSeq(line', Walked' + 1, Len(line'))
        /\ head' \in alive' /\ pos'[head'] = [key |-> key', line |-> SubSeq(line', 1, Walked')]
        /\ known'
    <3>1. (w + 1) + 1 = w + 2
      BY <1>5
    <3>2. known'
      BY <1>1, <1>2 DEF Walking
    <3> QED
      BY <1>1, <1>3, <1>5, <1>6, <3>1, <3>2
  <2>2. /\ r \in Walks(head)' /\ Path(r, head)'
        /\ \A i \in 1..Walked' : DOMAIN child'[r[i - 1]] = {line'[i]}
        /\ prev' = IF Walked' = 0 THEN Null ELSE r[Walked' - 1]
    <3>1. r \in Walks(head)' /\ Path(r, head)'
      BY <1>3, <1>11 DEF Walks, Path
    <3>2. w + 1 # 0 /\ (w + 1) - 1 = w
      BY <1>5
    <3> QED
      BY <1>1, <1>5, <1>10, <3>1, <3>2
  <2> QED
    BY <1>12, <1>13, <2>1, <2>2 DEF Walking
<1>15. Typed'
  <2>1. todo' \in Seq(Moves)
    BY <1>1, <1>2
  <2>2. alive \subseteq alive'
    BY <1>3 DEF WalkStep
  <2> QED
    BY <1>1, <1>2, <1>3, <1>6, <2>1, <2>2 DEF IInv, Typed, workVars
<1> QED
  BY <1>1, <1>2, <1>4, <1>14, <1>15, NoWorkerInv, WalkOnTree DEF IInv, Shape

(* The step that makes a cut head anew: its parent, which the walk left     *)
(* with one child, gets a fresh one, and the old one is queued.            *)
LEMMA FinishStep ==
  ASSUME IInv, FinishReset, restart, prev # Null
  PROVE  \E o \in Objects, m \in Moves :
           /\ WalkStep(prev, m, o, TRUE)
           /\ prev \in alive /\ DOMAIN child[prev] = {m} /\ child[prev][m] = head
           /\ m = line[Len(line)]
           /\ pos'[o] = pos[head] /\ head' = o /\ begin' = begin
           /\ pending' = Append(pending, head)
<1>1. /\ main = "walk" /\ todo = << >> /\ line \in Seq(Moves) /\ Walking /\ head \in alive
  BY TreeAssumption DEF FinishReset, IInv, Typed, Shape, Walking
<1>0. PICK L : L = Len(line)
  OBVIOUS
<1>2. /\ L \in Nat /\ Walked = L /\ pos[head] = [key |-> key, line |-> line]
      /\ Len(pos[head].line) = L
  <2>1. L \in Nat /\ Walked = L
    BY <1>0, <1>1 DEF Walked
  <2>2. pos[head] = [key |-> key, line |-> SubSeq(line, 1, Walked)]
    BY <1>1 DEF Walking
  <2>3. SubSeq(line, 1, Len(line)) = line
    BY <1>1
  <2> QED
    BY <1>0, <2>1, <2>2, <2>3, PositionLine
<1>3. PICK q \in Walks(head) :
        /\ Path(q, head)
        /\ \A i \in 1..L : DOMAIN child[q[i - 1]] = {line[i]}
        /\ prev = IF L = 0 THEN Null ELSE q[L - 1]
  BY <1>1, <1>2 DEF Walking
<1>4. PICK o \in Free, m \in DOMAIN child[prev] :
        /\ pending' = Append(pending, child[prev][m])
        /\ alive' = alive \cup {o}
        /\ child' = [child EXCEPT ![prev] = [x \in {m} |-> o], ![o] = NoArray]
        /\ expanded' = expanded \ {o}
        /\ pos' = [pos EXCEPT ![o] = pos[head]]
        /\ head' = o /\ UNCHANGED begin
  BY DEF FinishReset
<1> PICK p, h : p = prev /\ h = head
  OBVIOUS
<1>5. L # 0 /\ L \in 1..L /\ L - 1 \in 0..L /\ p = q[L - 1] /\ p \in alive /\ q[L] = h
  BY <1>2, <1>3 DEF Walks, Path
<1>6. m = line[L] /\ DOMAIN child[p] = {m} /\ child[p][m] = h
  <2>1. DOMAIN child[p] = {line[L]}
    BY <1>3, <1>5
  <2>2. pos[h].line[L] = line[L]
    BY <1>2, PositionLine
  <2>3. child[p][line[L]] = h
    BY <1>2, <1>3, <1>5, <2>2 DEF Path
  <2> QED
    BY <1>4, <2>1, <2>3
<1>7. /\ o \in Objects /\ o \notin alive /\ o # h /\ o # p /\ o # Null /\ o \notin expanded
      /\ child[o] = NoArray /\ p \in Objects /\ h \in Objects /\ m \in Moves
      /\ DOMAIN child = Objects /\ DOMAIN pos = Objects /\ h # Null
  BY <1>1, <1>4, <1>5, TreeAssumption DEF Free, IInv, HeapTyped
<1>8. /\ DOMAIN child' = Objects /\ child'[p] = [x \in {m} |-> o] /\ child'[o] = NoArray
      /\ \A x \in Objects \ {p} : child'[x] = child[x]
      /\ DOMAIN pos' = Objects /\ pos'[o] = pos[h]
      /\ \A x \in Objects \ {o} : pos'[x] = pos[x]
  BY <1>4, <1>7
<1>9. pos[h] = ChildPosition(p, m)
  BY <1>6, <1>7 DEF IInv, PositionsKept
<1>10. WalkStep(p, m, o, TRUE)
  BY <1>4, <1>7, <1>8, <1>9 DEF WalkStep
<1>11. WalkStep(prev, m, o, TRUE)
  BY <1>10
<1>12. /\ prev \in alive /\ DOMAIN child[prev] = {m} /\ child[prev][m] = head
       /\ m = line[Len(line)]
  BY <1>0, <1>5, <1>6
<1>13. pos'[o] = pos[head] /\ head' = o /\ begin' = begin /\ pending' = Append(pending, head)
  BY <1>4, <1>8, <1>12
<1>14. o \in Objects /\ m \in Moves
  BY <1>7
<1> QED
  BY <1>11, <1>12, <1>13, <1>14

(* The end of the walk: the head as it is, or a fresh one.                 *)
LEMMA FinishResetKeeps == IInv /\ FinishReset => IInv'
<1> SUFFICES ASSUME IInv, FinishReset PROVE IInv'
  OBVIOUS
<1>1. /\ main = "walk" /\ todo = << >> /\ main' = "ready" /\ prev' = Null /\ restart' = FALSE
      /\ UNCHANGED <<known, key, line, freeing, collector, todo, reused, commands, workVars>>
  BY DEF FinishReset
<1>2. /\ begin # Null /\ begin \in alive /\ Walking /\ NoWorker /\ NoWorker' /\ head \in alive
      /\ line \in Seq(Moves) /\ Null \notin alive /\ head # Null /\ HeadOnTree
  BY <1>1, TreeAssumption DEF IInv, Typed, HeapTyped, Shape, Walking, NoWorker, workVars
<1>0. PICK L : L = Len(line)
  OBVIOUS
<1>3. /\ L \in Nat /\ L = Len(line) /\ Walked = L /\ pos[head] = [key |-> key, line |-> line]
      /\ Len(pos[head].line) = L
  <2>1. L \in Nat /\ Walked = L
    BY <1>0, <1>1, <1>2 DEF Walked
  <2>2. pos[head] = [key |-> key, line |-> SubSeq(line, 1, Walked)]
    BY <1>2 DEF Walking
  <2>3. SubSeq(line, 1, Len(line)) = line
    BY <1>2
  <2> QED
    BY <1>0, <2>1, <2>2, <2>3, PositionLine
<1>4. PICK q \in Walks(head) :
        /\ Path(q, head)
        /\ \A i \in 1..L : DOMAIN child[q[i - 1]] = {line[i]}
        /\ prev = IF L = 0 THEN Null ELSE q[L - 1]
  BY <1>2, <1>3 DEF Walking
<1>5. CASE ~restart
  <2>1. UNCHANGED <<heapVars, pending, begin, head>>
    BY <1>5 DEF FinishReset
  <2>2. HeapTyped' /\ Owned' /\ PositionsKept'
    BY <1>1, <2>1, HeapSame DEF IInv, workVars
  <2>3. Typed'
    BY <1>1, <1>2, <2>1 DEF IInv, Typed, heapVars, workVars
  <2>4. CutAbove' /\ HeadOnTree'
    BY <1>1, <1>2, <1>5, <2>1, CutSame, HeadSame DEF Walking
  <2>5. Standing'
    <3>1. ~reused' => Untouched(head)'
      BY <1>1, <1>2, <1>5, <2>1, TreeSame DEF Walking
    <3> QED
      BY <1>1, <1>3, <2>1, <3>1 DEF Standing, heapVars
  <2> QED
    BY <1>1, <1>2, <2>2, <2>3, <2>4, <2>5, NoWorkerInv DEF IInv, Shape
<1>6. CASE restart /\ prev = Null
  <2>1. Deallocate(key)
    BY <1>6 DEF FinishReset
  <2>2. HeapTyped' /\ Owned' /\ PositionsKept' /\ FreshTree'
    BY <1>1, <1>2, <2>1, DeallocateKeeps DEF IInv, Typed, workVars
  <2>3. line = << >>
    <3>1. L # 0 => q[L - 1] \in alive
      <4>1. L # 0 => L - 1 \in 0..L
        BY <1>3
      <4> QED
        BY <1>3, <4>1 DEF Walks
    <3>2. L = 0
      BY <1>2, <1>4, <1>6, <3>1
    <3>3. \A s \in Seq(Moves) : Len(s) = 0 => s = << >>
      OBVIOUS
    <3> QED
      BY <1>0, <1>2, <3>2, <3>3
  <2>4. Typed'
    <3>1. alive \subseteq alive' /\ head' \in alive' /\ begin' # Null
      BY <2>1, <2>2, TreeAssumption DEF Deallocate, Fresh, FreshTree, HeapTyped
    <3> QED
      BY <1>1, <1>2, <3>1 DEF IInv, Typed, workVars
  <2>5. Standing'
    <3>1. head' = begin' /\ pos'[begin'] = [key |-> key', line |-> << >>] /\ Untouched(begin)'
      BY <2>2 DEF FreshTree
    <3>2. Untouched(head)'
      BY <3>1 DEF Untouched
    <3> QED
      BY <1>1, <2>3, <3>1, <3>2 DEF Standing
  <2> QED
    BY <1>1, <1>2, <2>2, <2>4, <2>5, FreshCut, FreshHead, NoWorkerInv DEF IInv, Shape, HeadOnTree
<1>7. CASE restart /\ prev # Null
  <2>1. PICK o \in Objects, m \in Moves :
          /\ WalkStep(prev, m, o, TRUE)
          /\ prev \in alive /\ DOMAIN child[prev] = {m} /\ child[prev][m] = head
          /\ m = line[Len(line)]
          /\ pos'[o] = pos[head] /\ head' = o /\ begin' = begin
          /\ pending' = Append(pending, head)
    BY <1>7, FinishStep
  <2> PICK p, h : p = prev /\ h = head
    OBVIOUS
  <2>2. L # 0 /\ L \in 1..L /\ L - 1 \in 0..L /\ p = q[L - 1] /\ p \in alive /\ q[L] = h
    BY <1>3, <1>4, <1>7 DEF Walks, Path
  <2>3. m = line[L] /\ DOMAIN child[p] = {m} /\ child[p][m] = h
    BY <1>0, <2>1
  <2>4. /\ o \in Objects /\ o \notin alive /\ o # h /\ o # p /\ o # Null /\ o \notin expanded
        /\ child'[o] = NoArray /\ p \in Objects /\ h \in Objects /\ m \in Moves /\ h # Null
        /\ alive' = alive \cup {o} /\ expanded' = expanded
    BY <1>2, <2>1, <2>2, TreeAssumption DEF WalkStep, IInv, HeapTyped
  <2>5. /\ child'[p] = [x \in {m} |-> o] /\ child'[o] = NoArray
        /\ \A x \in Objects \ {p} : child'[x] = child[x]
        /\ pos'[o] = pos[h]
    BY <2>1, <2>4 DEF WalkStep
  <2>6. head' = o /\ begin' = begin /\ alive' = alive \cup {o} /\ o \notin expanded'
    BY <2>1, <2>4
  <2>7. WalkStep(p, m, o, TRUE)
    BY <2>1
  <2>8. HeapTyped' /\ Owned' /\ PositionsKept'
    <3>1. Discarded(p, o) = {h}
      BY <2>3, <2>4 DEF Discarded
    <3> PICK rest : rest = <<h>>
      OBVIOUS
    <3>2. Lists(rest, {h})
      <4>1. Cardinality({h}) = 1
        BY FS_Singleton
      <4> QED
        <5>1. rest = [i \in 1..1 |-> h] /\ 1..1 = {1}
          OBVIOUS
        <5>2. rest \in [1..1 -> {h}] /\ NoRepeat(rest)
          BY <5>1 DEF NoRepeat
        <5> QED
          BY <4>1, <5>2 DEF Lists
    <3>3. pending' = pending \o rest
      <4>1. pending \in Seq(alive) /\ h \in alive
        BY <1>2 DEF IInv, HeapTyped
      <4>2. Append(pending, h) = pending \o <<h>>
        BY <4>1
      <4> QED
        BY <2>1, <2>3, <4>2
    <3> QED
      BY <1>1, <1>2, <2>2, <2>4, <2>6, <2>7, <3>1, <3>2, <3>3, WalkHeap DEF IInv, workVars
  <2>9. Typed'
    <3>1. alive \subseteq alive'
      BY <2>6
    <3> QED
      BY <1>1, <1>2, <2>6, <3>1 DEF IInv, Typed, workVars
  <2>10. ASSUME NEW i \in 0..(L - 1)
         PROVE  /\ q[i] \in alive /\ q[i] \in Objects
                /\ i < L - 1 => q[i] # p
    <3>1. \A j \in 0..L : q[j] \in alive /\ Len(pos[q[j]].line) = j
      <4>1. \A j \in 0..L : Len(pos[q[j]].line) = j
        BY <1>2, <1>3, <1>4, PathLengths DEF IInv
      <4>2. \A j \in 0..L : q[j] \in alive
        BY <1>3 DEF Walks
      <4> QED
        BY <4>1, <4>2
    <3>4. i \in 0..L
      BY <1>3
    <3>5. i < L - 1 => q[i] # p
      BY <1>3, <2>2, <3>1, <3>4
    <3> QED
      BY <3>1, <3>4, <3>5 DEF IInv, HeapTyped
  <2>16. PICK r : r = [i \in 0..L |-> IF i = L THEN o ELSE q[i]]
    OBVIOUS
  <2>11. /\ r \in [0..L -> alive'] /\ r[0] = begin /\ r[L] = o
         /\ \A i \in 1..L : DOMAIN child'[r[i - 1]] = {line[i]} /\ child'[r[i - 1]][line[i]] = r[i]
    <3>1. r \in [0..L -> alive']
      <4>1. \A i \in 0..L : i # L => i \in 0..(L - 1)
        BY <1>3
      <4> QED
        BY <2>6, <2>10, <2>16, <4>1
    <3>2. r[0] = begin /\ r[L] = o
      BY <1>3, <1>4, <2>2, <2>16 DEF Path
    <3>3. ASSUME NEW i \in 1..L
          PROVE  DOMAIN child'[r[i - 1]] = {line[i]} /\ child'[r[i - 1]][line[i]] = r[i]
      <4>1. i - 1 \in 0..(L - 1) /\ i - 1 \in 0..L /\ i - 1 # L /\ r[i - 1] = q[i - 1]
        BY <1>3, <2>16
      <4>2. CASE i = L
        BY <2>2, <2>3, <2>5, <3>2, <4>1, <4>2
      <4>3. CASE i # L
        <5>1. i - 1 < L - 1 /\ r[i] = q[i]
          BY <1>3, <2>16, <4>3
        <5>2. child'[q[i - 1]] = child[q[i - 1]]
          BY <2>5, <2>10, <4>1, <5>1
        <5>3. Len(pos[head].line) = L /\ pos[head].line = line
          BY <1>3, PositionLine
        <5>4. child[q[i - 1]][line[i]] = q[i]
          BY <1>4, <5>3 DEF Path
        <5>5. DOMAIN child[q[i - 1]] = {line[i]}
          BY <1>4
        <5> QED
          BY <4>1, <5>1, <5>2, <5>4, <5>5
      <4> QED
        BY <4>2, <4>3
    <3> QED
      BY <3>1, <3>2, <3>3
  <2>12. pos'[o] = [key |-> key, line |-> line] /\ pos'[o].line = line /\ pos'[o].key = key
    BY <1>3, <2>5
  <2>13. OnTree(o)' /\ Untouched(o)'
    <3>1. r \in Walks(o)'
      BY <1>3, <2>11, <2>12 DEF Walks
    <3>2. Path(r, o)'
      <4>1. Len(pos'[o].line) = L
        BY <1>3, <2>12
      <4>2. \A i \in 1..L : line[i] \in DOMAIN child'[r[i - 1]] /\ child'[r[i - 1]][line[i]] = r[i]
        BY <2>11
      <4> QED
        BY <2>6, <2>11, <2>12, <4>1, <4>2 DEF Path
    <3>3. o \notin expanded'
      BY <2>6
    <3> QED
      BY <1>1, <2>5, <2>12, <3>1, <3>2, <3>3 DEF OnTree, Untouched
  <2>14. CutAbove'
    <3> SUFFICES ASSUME NEW x \in alive', OnTree(x)', ~(Len(pos'[x].line) < Len(line'))
                 PROVE  Untouched(x)'
      BY DEF CutAbove
    <3>1. PICK k, n : k = pos'[x].line /\ n = Len(k)
      OBVIOUS
    <3>2. k \in Seq(Moves) /\ n \in Nat /\ L <= n
      BY <1>1, <1>3, <2>8, <3>1 DEF HeapTyped, Positions
    <3>3. PICK s : /\ s[0] = begin' /\ s[n] = x
                   /\ \A i \in 1..n : k[i] \in DOMAIN child'[s[i - 1]]
                                      /\ child'[s[i - 1]][k[i]] = s[i]
      BY <3>1 DEF OnTree, Path
    <3>4. \A i \in 0..L : s[i] = r[i]
      <4>4. PICK c : c = child'
        OBVIOUS
      <4>1. Along(c, k, s, L)
        <5>1. 1..L \subseteq 1..n
          BY <1>3, <3>2
        <5>2. \A i \in 1..L : k[i] \in DOMAIN c[s[i - 1]] /\ c[s[i - 1]][k[i]] = s[i]
          BY <3>3, <4>4, <5>1
        <5> QED
          BY <5>2 DEF Along
      <4>3. OneChild(c, line, r, L)
        BY <2>11, <4>4 DEF OneChild
      <4>2. r[0] = s[0]
        BY <2>6, <2>11, <3>3
      <4> QED
        <5>1. L \in Nat
          BY <1>3
        <5>3. PICK l : l = line
          OBVIOUS
        <5>2. OneChild(c, l, r, L)
          BY <4>3, <5>3
        <5> QED
          BY <4>1, <4>2, <5>1, <5>2, OnlyPath
    <3>5. s[L] = o
      BY <1>3, <2>11, <3>4
    <3>6. n = L
      <4> SUFFICES ASSUME n # L PROVE FALSE
        OBVIOUS
      <4>1. L + 1 \in 1..n /\ (L + 1) - 1 = L
        BY <1>3, <3>2
      <4>2. k[L + 1] \in DOMAIN child'[o]
        BY <3>3, <3>5, <4>1
      <4> QED
        BY <2>5, <4>2 DEF NoArray
    <3> QED
      BY <2>13, <3>3, <3>5, <3>6
  <2>15. Standing' /\ HeadOnTree'
    <3>1. OnTree(head)' /\ Untouched(head)'
      <4>1. head' = o
        BY <2>6
      <4>2. OnTree(head)' <=> OnTree(o)'
        BY <4>1 DEF OnTree, Walks, Path
      <4>3. Untouched(head)' <=> Untouched(o)'
        BY <4>1 DEF Untouched
      <4> QED
        BY <2>13, <4>2, <4>3
    <3> QED
      BY <1>1, <2>6, <2>4, <2>12, <3>1 DEF Standing, HeadOnTree
  <2> QED
    BY <1>1, <1>2, <2>8, <2>9, <2>14, <2>15, NoWorkerInv DEF IInv, Shape
<1> QED
  BY <1>5, <1>6, <1>7
-----------------------------------------------------------------------------
(* The invariant is inductive.                                             *)
LEMMA InitHolds == Init => IInv
<1> SUFFICES ASSUME Init PROVE IInv
  OBVIOUS
<1>1. /\ begin \in Objects /\ head = begin /\ alive = {begin} /\ begin # Null
      /\ child = [o \in Objects |-> NoArray] /\ expanded = {} /\ key \in Keys
      /\ known = FALSE /\ line = << >> /\ pending = << >> /\ freeing = {} /\ main = "idle"
      /\ DOMAIN NoArray = {}
  BY TreeAssumption DEF Init, NoArray
<1>2. DOMAIN pos = Objects /\ pos[begin] = [key |-> key, line |-> << >>]
      /\ \A o \in Objects \ {begin} : pos[o] = Null
  BY <1>1 DEF Init
<1>3. HeapTyped
  <2>1. pos[begin] \in Positions
    <3>1. << >> \in Seq(Moves)
      OBVIOUS
    <3> QED
      BY <1>1, <1>2, <3>1 DEF Positions
  <2>2. pending \in Seq(alive)
    BY <1>1
  <2> QED
    BY <1>1, <1>2, <2>1, <2>2 DEF HeapTyped
<1>4. NoWorker
  BY DEF Init, NoWorker
<1>5. Typed
  <2>1. << >> \in Seq(Moves) /\ commands \in 0..MaxCommands
    BY TreeAssumption DEF Init
  <2> QED
    BY <1>1, <1>4, <2>1 DEF Typed, Init
<1>6. Owned
  <2>1. Slotted = {} /\ Rooted = {begin}
    BY <1>1 DEF Slotted, Rooted
  <2>2. Queued = {} /\ QueuedOnce
    BY <1>1 DEF Queued, QueuedOnce
  <2>3. Carried = {} /\ CarriedOnce
    BY <1>4, TreeAssumption DEF NoWorker, Carried, CarriedOnce
  <2>4. SlotsOnce
    BY <1>1 DEF SlotsOnce
  <2> QED
    BY <1>1, <2>1, <2>2, <2>3, <2>4 DEF Owned, Partition
<1>7. PositionsKept
  BY <1>1, <1>2 DEF PositionsKept
<1>8. CutAbove
  BY <1>1 DEF CutAbove, Untouched
<1>9. HeadOnTree
  <2>0. Len(pos[begin].line) = 0 /\ pos[begin].key = key
    BY <1>2
  <2>1. PICK q : q = [i \in 0..0 |-> begin]
    OBVIOUS
  <2>2. q \in Walks(begin) /\ Path(q, begin)
    BY <1>1, <2>0, <2>1 DEF Walks, Path
  <2> QED
    BY <1>1, <2>0, <2>2 DEF HeadOnTree, OnTree
<1>10. \A t \in Threads : WorkerInv(t)
  BY <1>4 DEF NoWorker, WorkerInv
<1> QED
  BY <1>1, <1>3, <1>5, <1>6, <1>7, <1>8, <1>9, <1>10 DEF IInv, Shape

LEMMA StepKeeps == IInv /\ [Next]_vars => IInv'
<1> SUFFICES ASSUME IInv, [Next]_vars PROVE IInv'
  OBVIOUS
<1>1. CASE MainNext
  BY <1>1, ReleaseKeeps, FinishResetKeeps, StartSearchKeeps, JoinKeeps, CollectorEndKeeps
    DEF MainNext
<1>2. CASE GuiNext
  BY <1>2, ResetKeeps, NewGameKeeps, DestroyTreeKeeps DEF GuiNext
<1>3. CASE CollectorNext
  BY <1>3, TakePendingKeeps, FreeNodeKeeps, CollectorEndKeeps DEF CollectorNext
<1>4. ASSUME NEW t \in Threads, WorkerNext(t) PROVE IInv'
  BY <1>4, EndPlayoutKeeps, ExpandNodeKeeps, GetSlotKeeps, PublishKeeps DEF WorkerNext
<1>5. CASE Finished \/ UNCHANGED vars
  BY <1>5, CollectorEndKeeps DEF Finished
<1> QED
  BY <1>1, <1>2, <1>3, <1>4, <1>5 DEF Next

(* The heap, its owners and the place of every node, at every moment.      *)
THEOREM Inductive == Spec => []IInv
BY InitHolds, StepKeeps, PTL DEF Spec

-----------------------------------------------------------------------------
(* What the invariant says of the tree.                                    *)

(* Every node has one owner.                                               *)
LEMMA OneOwner == HeapTyped /\ Typed /\ Owned => OwnedOnce
<1> SUFFICES ASSUME HeapTyped, Typed, Owned, NEW o \in Objects
             PROVE  Cardinality(Owners(o)) = IF o \in alive THEN 1 ELSE 0
  BY DEF OwnedOnce
<1> DEFINE S == {w \in {"slot"} \X alive \X Moves :
                   w[3] \in DOMAIN child[w[2]] /\ child[w[2]][w[3]] = o}
           Q == {w \in {"queue"} \X DOMAIN pending : pending[w[2]] = o}
           W == {w \in {"worker"} \X Threads : hand[w[2]] = o}
           T == {w \in {<<"tree">>} : begin = o}
           C == {w \in {<<"collector">>} : o \in freeing}
<1>1. Owners(o) = S \cup Q \cup W \cup T \cup C
  BY DEF Owners
<1>2. o # Null
  BY TreeAssumption
<1>3. o \notin Slotted => S = {}
  BY DEF Slotted, HeapTyped
<1>4. o \notin Queued => Q = {}
  BY DEF Queued
<1>5. o \notin Carried => W = {}
  BY DEF Carried
<1>6. o \notin Rooted => T = {}
  BY <1>2 DEF Rooted
<1>7. o \notin freeing => C = {}
  OBVIOUS
<1>8. o \in Slotted => \E w : S = {w}
  <2> SUFFICES ASSUME o \in Slotted PROVE \E w : S = {w}
    OBVIOUS
  <2>1. PICK p \in Objects : \E m \in DOMAIN child[p] : child[p][m] = o
    BY DEF Slotted
  <2>2. PICK m \in DOMAIN child[p] : child[p][m] = o
    BY <2>1
  <2>3. p \in alive /\ m \in Moves
    BY <2>2 DEF HeapTyped, NoArray
  <2>4. <<"slot", p, m>> \in S
    BY <2>2, <2>3
  <2>5. ASSUME NEW w \in S PROVE w = <<"slot", p, m>>
    <3>1. w[2] \in Objects /\ w[3] \in DOMAIN child[w[2]] /\ child[w[2]][w[3]] = o
      BY DEF HeapTyped
    <3>2. w[2] = p /\ w[3] = m
      BY <1>2, <2>2, <3>1 DEF Owned, SlotsOnce
    <3> QED
      BY <3>2
  <2> QED
    BY <2>4, <2>5
<1>9. o \in Queued => \E w : Q = {w}
  <2> SUFFICES ASSUME o \in Queued PROVE \E w : Q = {w}
    OBVIOUS
  <2>1. PICK i \in DOMAIN pending : pending[i] = o
    BY DEF Queued
  <2>2. <<"queue", i>> \in Q /\ \A w \in Q : w = <<"queue", i>>
    BY <2>1 DEF Owned, QueuedOnce
  <2> QED
    BY <2>2
<1>10. o \in Carried => \E w : W = {w}
  <2> SUFFICES ASSUME o \in Carried PROVE \E w : W = {w}
    OBVIOUS
  <2>1. PICK t \in Threads : hand[t] = o
    BY DEF Carried
  <2>2. <<"worker", t>> \in W /\ \A w \in W : w = <<"worker", t>>
    BY <1>2, <2>1 DEF Owned, CarriedOnce
  <2> QED
    BY <2>2
<1>11. o \in Rooted => T = {<<"tree">>}
  BY DEF Rooted
<1>12. o \in freeing => C = {<<"collector">>}
  OBVIOUS
<1>13. o \in alive <=> o \in Slotted \cup Queued \cup Carried \cup Rooted \cup freeing
  BY DEF Owned, Partition
<1> HIDE DEF S, Q, W, T, C
<1>14. CASE o \notin alive
  <2>1. Owners(o) = {}
    BY <1>1, <1>3, <1>4, <1>5, <1>6, <1>7, <1>13, <1>14
  <2> QED
    BY <1>14, <2>1, FS_EmptySet
<1>15. CASE o \in alive
  <2>1. CASE o \in Slotted
    <3>1. o \notin Queued \cup Carried \cup Rooted \cup freeing
      BY <2>1 DEF Owned, Partition
    <3>2. \E w : Owners(o) = {w}
      BY <1>1, <1>4, <1>5, <1>6, <1>7, <1>8, <2>1, <3>1
    <3> QED
      BY <1>15, <3>2, FS_Singleton
  <2>2. CASE o \in Queued
    <3>1. o \notin Slotted \cup Carried \cup Rooted \cup freeing
      BY <2>2 DEF Owned, Partition
    <3>2. \E w : Owners(o) = {w}
      BY <1>1, <1>3, <1>5, <1>6, <1>7, <1>9, <2>2, <3>1
    <3> QED
      BY <1>15, <3>2, FS_Singleton
  <2>3. CASE o \in Carried
    <3>1. o \notin Slotted \cup Queued \cup Rooted \cup freeing
      BY <2>3 DEF Owned, Partition
    <3>2. \E w : Owners(o) = {w}
      BY <1>1, <1>3, <1>4, <1>6, <1>7, <1>10, <2>3, <3>1
    <3> QED
      BY <1>15, <3>2, FS_Singleton
  <2>4. CASE o \in Rooted
    <3>1. o \notin Slotted \cup Queued \cup Carried \cup freeing
      BY <2>4 DEF Owned, Partition
    <3>2. \E w : Owners(o) = {w}
      BY <1>1, <1>3, <1>4, <1>5, <1>7, <1>11, <2>4, <3>1
    <3> QED
      BY <1>15, <3>2, FS_Singleton
  <2>5. CASE o \in freeing
    <3>1. o \notin Slotted \cup Queued \cup Carried \cup Rooted
      BY <2>5 DEF Owned, Partition
    <3>2. \E w : Owners(o) = {w}
      BY <1>1, <1>3, <1>4, <1>5, <1>6, <1>12, <2>5, <3>1
    <3> QED
      BY <1>15, <3>2, FS_Singleton
  <2> QED
    BY <1>13, <1>15, <2>1, <2>2, <2>3, <2>4, <2>5
<1> QED
  BY <1>14, <1>15

(* A node that a path leads to is found at its line.                       *)
LEMMA PathFound ==
  ASSUME HeapTyped, begin \in alive, NEW o \in alive, OnTree(o)
  PROVE  InTree(o)
<1>1. PICK q \in Walks(o) : Path(q, o)
  BY DEF OnTree
<1>2. PICK l : l = pos[o].line
  OBVIOUS
<1>3. l \in Seq(Moves)
  BY <1>2 DEF HeapTyped, Positions
<1>4. /\ q[0] = begin /\ q[Len(l)] = o /\ q \in [0..Len(l) -> alive]
      /\ \A i \in 1..Len(l) : l[i] \in DOMAIN child[q[i - 1]] /\ child[q[i - 1]][l[i]] = q[i]
  BY <1>1, <1>2 DEF Path, Walks
<1> DEFINE D == 0..Len(l)
           Next1(p, i) == IF p # Null /\ l[i] \in DOMAIN child[p] THEN child[p][l[i]] ELSE Null
           F(f) == [i \in D |-> IF i = 0 THEN begin ELSE Next1(f[i - 1], i)]
           f == CHOOSE f : f = F(f)
<1>5. q = F(q)
  <2>1. q = [i \in D |-> q[i]]
    BY <1>4
  <2>2. ASSUME NEW i \in D PROVE q[i] = IF i = 0 THEN begin ELSE Next1(q[i - 1], i)
    <3>1. CASE i = 0
      BY <1>4, <3>1
    <3>2. CASE i # 0
      <4>1. i \in 1..Len(l) /\ i - 1 \in D
        BY <1>3, <3>2
      <4>2. q[i - 1] # Null
        BY <1>4, <4>1, TreeAssumption DEF HeapTyped
      <4> QED
        BY <1>4, <3>2, <4>1, <4>2
    <3> QED
      BY <3>1, <3>2
  <2> QED
    BY <2>1, <2>2
<1>6. f = F(f)
  <2> HIDE DEF F
  <2> QED
    BY <1>5
<1> HIDE DEF f
<1>7. \A i \in D : f[i] = IF i = 0 THEN begin ELSE Next1(f[i - 1], i)
  <2>1. PICK g : g = f
    OBVIOUS
  <2>2. g = [i \in D |-> IF i = 0 THEN begin ELSE Next1(g[i - 1], i)]
    BY <1>6, <2>1
  <2>3. \A i \in D : g[i] = IF i = 0 THEN begin ELSE Next1(g[i - 1], i)
    BY <2>2
  <2> QED
    BY <2>1, <2>3
<1>8. \A i \in D : f[i] = q[i]
  <2> DEFINE S == {i \in D : f[i] # q[i]}
  <2> SUFFICES ASSUME S # {} PROVE FALSE
    OBVIOUS
  <2>1. PICK n \in S : \A m \in S : n <= m
    <3>1. S \in SUBSET Nat
      OBVIOUS
    <3> HIDE DEF S
    <3> QED
      BY <3>1, LeastNumber
  <2>2. n \in D /\ f[n] # q[n]
    OBVIOUS
  <2>3. n # 0
    BY <1>4, <1>7, <2>2
  <2>4. n \in 1..Len(l) /\ n - 1 \in D
    BY <1>3, <2>2, <2>3
  <2>5. f[n - 1] = q[n - 1]
    <3>1. n - 1 \notin S
      BY <2>1, <2>4
    <3> QED
      BY <2>4, <3>1
  <2>6. q[n - 1] # Null
    BY <1>4, <2>4, TreeAssumption DEF HeapTyped
  <2> QED
    BY <1>4, <1>7, <2>2, <2>3, <2>4, <2>5, <2>6
<1>9. NodeAt(l) = f[Len(l)]
  BY DEF NodeAt, f
<1>10. Len(l) \in D
  BY <1>3
<1> QED
  BY <1>2, <1>4, <1>8, <1>9, <1>10 DEF InTree, OnTree

LEMMA Sound == IInv => TreeSound
<1> SUFFICES ASSUME IInv PROVE TreeSound
  OBVIOUS
<1>1. OwnedOnce
  BY OneOwner DEF IInv
<1>2. main \in {"ready", "search"} => begin # Null /\ begin \in alive
  BY DEF IInv, Typed, HeapTyped
<1>3. OwnPosition
  <2>1. main \in {"ready", "search"} =>
          pos[head] = [key |-> key, line |-> line] /\ InTree(head)
    BY <1>2, HeadPlace, PathFound DEF IInv
  <2>2. ASSUME NEW t \in Threads, pc[t] # "out" PROVE InTree(at[t])
    <3>1. begin \in alive /\ at[t] \in alive /\ OnTree(at[t])
      BY <1>2, <2>2, WorkerPlace
    <3> QED
      BY <3>1, PathFound DEF IInv
  <2> QED
    BY <2>1, <2>2 DEF OwnPosition
<1>4. HeadComplete
  BY <1>2, HeadPlace DEF HeadComplete, Untouched, Complete
<1>5. FreshUnlessReused
  BY DEF FreshUnlessReused, IInv, Shape, Standing, Untouched
<1> QED
  BY <1>1, <1>3, <1>4, <1>5 DEF TreeSound

(* The tree is whole at every moment, for every heap, number of workers    *)
(* and history of games: no node is freed twice or lost when workers race  *)
(* to create it or ResetToPosition cuts the tree, and nobody stands on a   *)
(* node of another position.                                               *)
THEOREM TreeIsSound == Spec => []TreeSound
BY Inductive, Sound, PTL

-----------------------------------------------------------------------------
(* The memory counter.                                                     *)
Measures(f, c) ==
  /\ \A o \in Objects : f[o] \in Nat /\ (c[o] = NoArray => f[o] = 1)
  /\ \A o \in Objects : Cardinality(DOMAIN c[o]) \in Nat
  /\ \A o \in Objects : f[o] = 1 + Cardinality(DOMAIN c[o])

Countable ==
  /\ IsFiniteSet(alive)
  /\ \E f : Measures(f, child) /\ (BytesExact <=> bytes = SumFunctionOnSet(f, alive))

LEMMA HeapCountable == HeapTyped => Countable
<1> SUFFICES ASSUME HeapTyped PROVE Countable
  OBVIOUS
<1>1. \A o \in Objects : IsFiniteSet(DOMAIN child[o])
  <2> TAKE o \in Objects
  <2>1. DOMAIN child[o] \in SUBSET Moves /\ IsFiniteSet(Moves)
    BY TreeAssumption DEF HeapTyped
  <2> QED
    BY <2>1, FS_Subset
<1>2. \A o \in Objects : Cardinality(DOMAIN child[o]) \in Nat
  BY <1>1, FS_CardinalityType
<1>3. Cardinality(DOMAIN NoArray) = 0
  BY FS_EmptySet DEF NoArray
<1>4. IsFiniteSet(alive)
  BY TreeAssumption, FS_Subset DEF HeapTyped
<1>5. PICK f : f = [o \in Objects |-> Size(o)]
  OBVIOUS
<1>6. Measures(f, child)
  <2>1. \A o \in Objects : f[o] = 1 + Cardinality(DOMAIN child[o])
    BY <1>5 DEF Size
  <2> QED
    BY <1>2, <1>3, <2>1 DEF Measures
<1>7. BytesExact <=> bytes = SumFunctionOnSet(f, alive)
  BY <1>5 DEF BytesExact
<1> QED
  BY <1>4, <1>6, <1>7 DEF Countable

LEMMA HeapCountableNext == HeapTyped' => Countable'
BY HeapCountable, PTL

(* The counter is exact after a step if it is the sum of the new sizes.    *)
LEMMA Count ==
  ASSUME IInv, IInv', BytesExact
  PROVE  \E f, g : /\ Measures(f, child) /\ Measures(g, child')
                   /\ IsFiniteSet(alive) /\ alive \subseteq Objects
                   /\ bytes = SumFunctionOnSet(f, alive)
                   /\ bytes' = SumFunctionOnSet(g, alive') => BytesExact'
<1>1. Countable /\ Countable' /\ alive \subseteq Objects
  BY HeapCountable, HeapCountableNext DEF IInv, HeapTyped
<1>2. PICK f : Measures(f, child) /\ (BytesExact <=> bytes = SumFunctionOnSet(f, alive))
  BY <1>1 DEF Countable
<1>3. PICK g : Measures(g, child') /\ (BytesExact' <=> bytes' = SumFunctionOnSet(g, alive'))
  BY <1>1 DEF Countable
<1> QED
  BY <1>1, <1>2, <1>3 DEF Countable

(* One more element, one fewer, and one that changes.                      *)
LEMMA TotalGrows ==
  ASSUME NEW A, IsFiniteSet(A), NEW o, o \notin A, NEW f, NEW g,
         \A x \in A : f[x] \in Int /\ g[x] = f[x], g[o] \in Int
  PROVE  SumFunctionOnSet(g, A \cup {o}) = SumFunctionOnSet(f, A) + g[o]
<1>1. IsFiniteSet(A \cup {o}) /\ (A \cup {o}) \ {o} = A /\ \A x \in A \cup {o} : g[x] \in Int
  BY FS_AddElement
<1>2. SumFunctionOnSet(g, A \cup {o}) = g[o] + SumFunctionOnSet(g, A)
  <2>1. o \in A \cup {o}
    OBVIOUS
  <2>2. SumFunctionOnSet(g, A \cup {o}) = g[o] + SumFunctionOnSet(g, (A \cup {o}) \ {o})
    BY <1>1, <2>1, SumOf
  <2> QED
    BY <1>1, <2>2
<1>3. SumFunctionOnSet(g, A) = SumFunctionOnSet(f, A)
  BY SumSame
<1>4. SumFunctionOnSet(f, A) \in Int
  BY SumInt
<1> QED
  BY <1>2, <1>3, <1>4

LEMMA TotalShrinks ==
  ASSUME NEW A, IsFiniteSet(A), NEW o \in A, NEW f, NEW g,
         \A x \in A : f[x] \in Int, \A x \in A \ {o} : g[x] = f[x]
  PROVE  SumFunctionOnSet(g, A \ {o}) = SumFunctionOnSet(f, A) - f[o]
<1>1. IsFiniteSet(A \ {o})
  BY FS_Subset
<1>2. SumFunctionOnSet(f, A) = f[o] + SumFunctionOnSet(f, A \ {o})
  BY SumOf
<1>3. SumFunctionOnSet(g, A \ {o}) = SumFunctionOnSet(f, A \ {o})
  BY <1>1, SumSame
<1>4. SumFunctionOnSet(f, A \ {o}) \in Int /\ f[o] \in Int
  BY <1>1, SumInt
<1> QED
  BY <1>2, <1>3, <1>4

(* The counter after a node is made, after a node gets its array, after a  *)
(* step of the walk, and after a node is freed.                            *)
LEMMA CountFresh ==
  ASSUME IInv, IInv', BytesExact, NEW o \in Free, NEW p \in Positions, Fresh(o, p)
  PROVE  BytesExact'
<1>1. /\ o \in Objects /\ o \notin alive /\ alive' = alive \cup {o} /\ alive \subseteq Objects
      /\ child'[o] = NoArray /\ \A x \in Objects : child'[x] = child[x]
      /\ bytes' = bytes + 1
  BY FreshTyped DEF IInv, HeapTyped, Fresh
<1>3. PICK f, g : /\ Measures(f, child) /\ Measures(g, child')
                  /\ IsFiniteSet(alive) /\ alive \subseteq Objects
                  /\ bytes = SumFunctionOnSet(f, alive)
                  /\ bytes' = SumFunctionOnSet(g, alive') => BytesExact'
  BY Count
<1>4. \A x \in alive : f[x] \in Int /\ g[x] = f[x]
  BY <1>1, <1>3 DEF Measures
<1>5. g[o] = 1 /\ IsFiniteSet(alive)
  BY <1>1, <1>3 DEF Measures
<1>6. SumFunctionOnSet(g, alive \cup {o}) = SumFunctionOnSet(f, alive) + g[o]
  <2>1. PICK A : A = alive
    OBVIOUS
  <2>2. /\ IsFiniteSet(A) /\ o \notin A /\ g[o] \in Int
        /\ \A x \in A : f[x] \in Int /\ g[x] = f[x]
    BY <1>1, <1>4, <1>5, <2>1
  <2>3. SumFunctionOnSet(g, A \cup {o}) = SumFunctionOnSet(f, A) + g[o]
    BY ONLY <2>2, TotalGrows
  <2> QED
    BY <2>1, <2>3
<1> QED
  BY <1>1, <1>3, <1>5, <1>6

LEMMA CountExpand ==
  ASSUME IInv, IInv', BytesExact, NEW o \in alive, Untouched(o), Expand(o), alive' = alive
  PROVE  BytesExact'
<1>1. /\ o \in Objects /\ alive \subseteq Objects /\ child[o] = NoArray
      /\ DOMAIN child'[o] = Moves /\ \A x \in Objects \ {o} : child'[x] = child[x]
      /\ bytes' = bytes + Cardinality(Moves)
  BY DEF IInv, HeapTyped, Untouched, Expand
<1>3. PICK f, g : /\ Measures(f, child) /\ Measures(g, child')
                  /\ IsFiniteSet(alive) /\ alive \subseteq Objects
                  /\ bytes = SumFunctionOnSet(f, alive)
                  /\ bytes' = SumFunctionOnSet(g, alive') => BytesExact'
  BY Count
<1>4. /\ \A x \in alive : f[x] \in Int
      /\ \A x \in alive \ {o} : g[x] = f[x]
  BY <1>1, <1>3 DEF Measures
<1>5. f[o] = 1 /\ g[o] = 1 + Cardinality(Moves) /\ Cardinality(Moves) \in Nat /\ IsFiniteSet(alive)
  BY <1>1, <1>3 DEF Measures
<1>6. SumFunctionOnSet(g, alive) = SumFunctionOnSet(f, alive) - f[o] + g[o]
  BY <1>4, <1>5, SumChanged
<1>7. SumFunctionOnSet(f, alive) \in Int
  BY <1>4, <1>5, SumInt
<1> QED
  BY <1>1, <1>3, <1>5, <1>6, <1>7

LEMMA CountWalk ==
  ASSUME IInv, IInv', BytesExact, NEW h \in alive, NEW m \in Moves, NEW n \in Objects,
         NEW made \in BOOLEAN, WalkStep(h, m, n, made),
         bytes' = bytes + (1 - Cardinality(DOMAIN child[h]) + (IF made THEN 1 ELSE 0))
  PROVE  BytesExact'
<1>1. /\ h \in Objects /\ alive \subseteq Objects /\ alive' = alive \cup {n} /\ n # h
      /\ child'[h] = [x \in {m} |-> n] /\ \A x \in Objects \ {h} : child'[x] = child[x]
  BY DEF IInv, HeapTyped, WalkStep
<1>3. PICK f, g : /\ Measures(f, child) /\ Measures(g, child')
                  /\ IsFiniteSet(alive) /\ alive \subseteq Objects
                  /\ bytes = SumFunctionOnSet(f, alive)
                  /\ bytes' = SumFunctionOnSet(g, alive') => BytesExact'
  BY Count
<1>4. /\ \A x \in alive : f[x] \in Int
      /\ \A x \in alive \ {h} : g[x] = f[x]
      /\ IsFiniteSet(alive)
  BY <1>1, <1>3 DEF Measures
<1>5. f[h] = 1 + Cardinality(DOMAIN child[h]) /\ g[h] = 2 /\ Cardinality(DOMAIN child[h]) \in Nat
  <2>1. DOMAIN child'[h] = {m} /\ Cardinality({m}) = 1
    BY <1>1, FS_Singleton
  <2> QED
    BY <1>1, <1>3, <2>1 DEF Measures
<1>6. SumFunctionOnSet(g, alive) = SumFunctionOnSet(f, alive) - f[h] + g[h]
  BY <1>4, <1>5, SumChanged
<1>7. SumFunctionOnSet(f, alive) \in Int
  BY <1>4, SumInt
<1>8. bytes = SumFunctionOnSet(f, alive)
  BY <1>3
<1>9. CASE ~made
  <2>1. alive' = alive
    BY <1>1, <1>9 DEF WalkStep
  <2>2. bytes' = SumFunctionOnSet(g, alive)
    BY <1>5, <1>6, <1>7, <1>8, <1>9
  <2> QED
    BY <1>3, <2>1, <2>2
<1>10. CASE made
  <2>1. n \notin alive /\ child'[n] = NoArray
    BY <1>10 DEF WalkStep
  <2>2. g[n] = 1 /\ \A x \in alive : g[x] \in Int
    BY <1>1, <1>3, <2>1 DEF Measures
  <2>5. SumFunctionOnSet(g, alive \cup {n}) = SumFunctionOnSet(g, alive) + g[n]
    <3>1. \A x \in alive : g[x] \in Int /\ g[x] = g[x]
      BY <2>2
    <3>2. g[n] \in Int
      BY <2>2
    <3> QED
      BY <1>4, <2>1, <3>1, <3>2, TotalGrows
  <2>3. SumFunctionOnSet(g, alive \cup {n}) = SumFunctionOnSet(g, alive) + 1
    BY <2>2, <2>5
  <2>4. bytes' = SumFunctionOnSet(g, alive) + 1
    BY <1>5, <1>6, <1>7, <1>8, <1>10
  <2> QED
    BY <1>1, <1>3, <2>3, <2>4
<1> QED
  BY <1>9, <1>10

LEMMA CountFreed ==
  ASSUME IInv, IInv', BytesExact, NEW o \in alive, alive' = alive \ {o},
         \A x \in alive \ {o} : child'[x] = child[x],
         bytes' = bytes - (1 + Cardinality(DOMAIN child[o]))
  PROVE  BytesExact'
<1>2. PICK f, g : /\ Measures(f, child) /\ Measures(g, child')
                  /\ IsFiniteSet(alive) /\ alive \subseteq Objects
                  /\ bytes = SumFunctionOnSet(f, alive)
                  /\ bytes' = SumFunctionOnSet(g, alive') => BytesExact'
  BY Count
<1>3. /\ \A x \in alive : f[x] \in Int
      /\ \A x \in alive \ {o} : g[x] = f[x]
      /\ IsFiniteSet(alive) /\ f[o] = 1 + Cardinality(DOMAIN child[o])
  BY <1>2 DEF Measures
<1>4. SumFunctionOnSet(g, alive \ {o}) = SumFunctionOnSet(f, alive) - f[o]
  BY <1>3, TotalShrinks
<1> QED
  BY <1>2, <1>3, <1>4

LEMMA CountSame ==
  ASSUME BytesExact, bytes' = bytes, alive' = alive, IInv, IInv',
         \A x \in alive : DOMAIN child'[x] = DOMAIN child[x]
  PROVE  BytesExact'
<1>2. PICK f, g : /\ Measures(f, child) /\ Measures(g, child')
                  /\ IsFiniteSet(alive) /\ alive \subseteq Objects
                  /\ bytes = SumFunctionOnSet(f, alive)
                  /\ bytes' = SumFunctionOnSet(g, alive') => BytesExact'
  BY Count
<1>3. \A x \in alive : f[x] = g[x]
  BY <1>2 DEF Measures
<1>4. IsFiniteSet(alive)
  BY <1>2
<1>5. SumFunctionOnSet(f, alive) = SumFunctionOnSet(g, alive)
  BY <1>3, <1>4, SumSame
<1> QED
  BY <1>2, <1>5

LEMMA CountDeallocate ==
  ASSUME IInv, IInv', BytesExact, NEW k \in Keys, Deallocate(k)
  PROVE  BytesExact'
<1>1. [key |-> k, line |-> << >>] \in Positions
  BY DEF Positions
<1> QED
  BY <1>1, CountFresh DEF Deallocate

LEMMA CountKept ==
  ASSUME IInv, IInv', BytesExact, [Next]_vars
  PROVE  BytesExact'
<1>1. ASSUME UNCHANGED heapVars PROVE BytesExact'
  BY <1>1, CountSame DEF heapVars
<1>2. ASSUME ReleaseChildrenExceptOne PROVE BytesExact'
  <2>1. PICK n \in Objects, made \in BOOLEAN :
          /\ WalkStep(head, Head(todo), n, made)
          /\ made <=> (Head(todo) \in DOMAIN child[head] => child[head][Head(todo)] = Null)
    BY <1>2, ReleaseStep
  <2>2. bytes' = bytes + Gain(head, made)
    BY <1>2, <2>1 DEF ReleaseChildrenExceptOne, Gain
  <2>3. head \in alive /\ Head(todo) \in Moves
    <3>1. main = "walk" /\ todo # << >>
      BY <1>2 DEF ReleaseChildrenExceptOne
    <3>2. head \in alive
      BY <3>1 DEF IInv, Shape, Walking
    <3>3. Head(todo) \in Moves
      BY <3>1 DEF IInv, Typed
    <3> QED
      BY <3>2, <3>3
  <2> QED
    BY <2>1, <2>2, <2>3, CountWalk DEF Gain
<1>3. ASSUME FinishReset PROVE BytesExact'
  <2>1. CASE ~restart
    BY <1>1, <1>3, <2>1 DEF FinishReset
  <2>2. CASE restart /\ prev = Null
    <3>1. Deallocate(key) /\ key \in Keys
      BY <1>3, <2>2 DEF FinishReset, IInv, Typed
    <3> QED
      BY <3>1, CountDeallocate
  <2>3. CASE restart /\ prev # Null
    <3>1. PICK o \in Objects, m \in Moves :
            /\ WalkStep(prev, m, o, TRUE) /\ DOMAIN child[prev] = {m} /\ prev \in alive
      BY <1>3, <2>3, FinishStep
    <3>2. Cardinality(DOMAIN child[prev]) = 1
      BY <3>1, FS_Singleton
    <3>3. bytes' = bytes + 1
      BY <1>3, <2>3 DEF FinishReset
    <3> PICK made \in BOOLEAN : made = TRUE
      OBVIOUS
    <3>4. bytes' = bytes + (1 - Cardinality(DOMAIN child[prev]) + (IF made THEN 1 ELSE 0))
      BY <3>2, <3>3
    <3>5. WalkStep(prev, m, o, made) /\ prev \in alive
      BY <3>1
    <3> QED
      BY <3>4, <3>5, CountWalk
  <2> QED
    BY <2>1, <2>2, <2>3
<1>4. ASSUME StartSearch PROVE BytesExact'
  <2>1. main = "ready"
    BY <1>4 DEF StartSearch
  <2>2. head \in alive /\ (Untouched(head) \/ Complete(head))
    BY <2>1, HeadPlace DEF IInv, Typed
  <2> QED
    BY <1>1, <1>4, <2>2, CountExpand DEF StartSearch, Complete
<1>5. ASSUME NEW k \in Keys, NEW g \in Games, ResetToPosition(k, g) PROVE BytesExact'
  BY <1>1, <1>5, CountDeallocate DEF ResetToPosition
<1>6. ASSUME NewGame PROVE BytesExact'
  BY <1>6, CountDeallocate DEF NewGame, IInv, Typed
<1>7. ASSUME NEW t \in Threads, ExpandNode(t) PROVE BytesExact'
  <2>1. at[t] \in alive /\ Untouched(at[t])
    BY <1>7, WorkerPlace DEF ExpandNode, Complete
  <2> QED
    BY <1>7, <2>1, CountExpand DEF ExpandNode
<1>8. ASSUME NEW t \in Threads, NEW m \in Moves, GetSlot(t, m) PROVE BytesExact'
  <2>1. CASE child[at[t]][m] # Null
    BY <1>1, <1>8, <2>1 DEF GetSlot
  <2>2. CASE child[at[t]][m] = Null
    <3>1. pos[at[t]].line \in Seq(Moves) /\ key \in Keys
      BY <1>8, WorkerPlace DEF GetSlot, IInv, HeapTyped, Typed, Positions
    <3>2. [key |-> key, line |-> Append(pos[at[t]].line, m)] \in Positions
      BY <3>1 DEF Positions
    <3> QED
      BY <1>8, <2>2, <3>2, CountFresh DEF GetSlot
  <2> QED
    BY <2>1, <2>2
<1>9. ASSUME NEW t \in Threads, Publish(t) PROVE BytesExact'
  <2>1. CASE child[at[t]][want[t]] = Null
    <3>1. /\ bytes' = bytes /\ alive' = alive
          /\ child' = [child EXCEPT ![at[t]][want[t]] = hand[t]]
      BY <1>9, <2>1 DEF Publish, Wins
    <3>2. \A x \in alive : DOMAIN child'[x] = DOMAIN child[x]
      BY <3>1 DEF IInv, HeapTyped
    <3> QED
      BY <3>1, <3>2, CountSame
  <2>2. CASE child[at[t]][want[t]] # Null
    <3>1. /\ bytes' = bytes - 1 /\ alive' = alive \ {hand[t]} /\ child' = child
          /\ pc[t] = "publish"
      BY <1>9, <2>2 DEF Publish, Wins
    <3>2. hand[t] \in alive /\ child[hand[t]] = NoArray /\ hand[t] \in Objects
      BY <3>1 DEF IInv, HeapTyped, Typed, Shape, WorkerInv, Untouched
    <3>3. Cardinality(DOMAIN child[hand[t]]) = 0
      BY <3>2, FS_EmptySet DEF NoArray
    <3> QED
      BY <3>1, <3>2, <3>3, CountFreed
  <2> QED
    BY <2>1, <2>2
<1>10. ASSUME FreeNode PROVE BytesExact'
  <2>1. PICK o \in freeing :
          /\ alive' = alive \ {o} /\ child' = [child EXCEPT ![o] = NoArray]
          /\ bytes' = bytes - Size(o)
    BY <1>10 DEF FreeNode
  <2>2. o \in alive /\ alive \subseteq Objects /\ DOMAIN child = Objects
    BY DEF IInv, HeapTyped
  <2>3. \A x \in alive \ {o} : child'[x] = child[x]
    BY <2>1, <2>2
  <2> QED
    BY <2>1, <2>2, <2>3, CountFreed DEF Size
<1>11. CASE MainNext
  BY <1>1, <1>2, <1>3, <1>4, <1>11 DEF MainNext, Join, StopCollector, JoinCollector
<1>12. CASE GuiNext
  BY <1>1, <1>5, <1>6, <1>12 DEF GuiNext, DestroyTree
<1>13. CASE CollectorNext
  BY <1>1, <1>10, <1>13 DEF CollectorNext, TakePending, CollectorQuits
<1>14. ASSUME NEW t \in Threads, WorkerNext(t) PROVE BytesExact'
  BY <1>1, <1>7, <1>8, <1>9, <1>14 DEF WorkerNext, EndPlayout
<1>15. CASE Finished \/ UNCHANGED vars
  BY <1>1, <1>15 DEF Finished, vars
<1> QED
  BY <1>11, <1>12, <1>13, <1>14, <1>15 DEF Next

LEMMA CountInit == Init => BytesExact
<1> SUFFICES ASSUME Init PROVE BytesExact
  OBVIOUS
<1>1. IInv /\ alive = {begin} /\ begin \in Objects /\ child[begin] = NoArray /\ bytes = 1
  BY InitHolds DEF Init
<1>2. PICK f : Measures(f, child) /\ (BytesExact <=> bytes = SumFunctionOnSet(f, alive))
  BY <1>1, HeapCountable DEF IInv, Countable
<1>3. IsFiniteSet(alive) /\ f[begin] = 1
  BY <1>1, <1>2, FS_Singleton DEF Measures
<1>4. SumFunctionOnSet(f, {begin}) = f[begin] + SumFunctionOnSet(f, {begin} \ {begin})
  <2>1. \A x \in {begin} : f[x] \in Int
    BY <1>3
  <2>2. begin \in {begin} /\ IsFiniteSet({begin})
    BY <1>1, <1>3
  <2> QED
    BY <2>1, <2>2, SumOf
<1>5. {begin} \ {begin} = {}
  OBVIOUS
<1> QED
  BY <1>1, <1>2, <1>3, <1>4, <1>5, SumEmpty

(* TreeMemory::Bytes() is the size of what is on the heap at every moment, *)
(* the collector's garbage and the candidates of racing workers included.  *)
THEOREM BytesAreExact == Spec => []BytesExact
<1>1. IInv /\ BytesExact /\ [Next]_vars => IInv' /\ BytesExact'
  BY StepKeeps, CountKept
<1> QED
  BY <1>1, InitHolds, CountInit, PTL DEF Spec

(* The heap is well formed, and the counter never negative.                *)
THEOREM TypeCorrect == Spec => []TypeOK
<1>1. IInv /\ BytesExact => TypeOK
  <2> SUFFICES ASSUME IInv, BytesExact PROVE TypeOK
    OBVIOUS
  <2>1. Countable
    BY HeapCountable DEF IInv
  <2>2. PICK f : Measures(f, child) /\ (BytesExact <=> bytes = SumFunctionOnSet(f, alive))
    BY <2>1 DEF Countable
  <2>3. \A x \in alive : f[x] \in Nat
    BY <2>2 DEF Measures, IInv, HeapTyped
  <2>4. SumFunctionOnSet(f, alive) \in Nat
    BY <2>1, <2>3, SumNat DEF Countable
  <2>5. bytes \in Nat
    BY <2>2, <2>4
  <2> QED
    BY <2>5 DEF TypeOK, IInv, HeapTyped, Typed
<1> QED
  BY <1>1, Inductive, BytesAreExact, PTL
===============================================================================

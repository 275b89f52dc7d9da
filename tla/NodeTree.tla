------------------------------- MODULE NodeTree -------------------------------
(***************************************************************************)
(* The store of the search tree: nodes on the heap, owned by the slots of  *)
(* their parents' child arrays (child_node_slot_t), by NodeTree or by the  *)
(* garbage collector's thread; NodeTree::ResetToPosition, which keeps the  *)
(* part below the new root; and the workers that create nodes by           *)
(* compare-and-swap.  UctSearch has what the workers do with the nodes.    *)
(*                                                                         *)
(* The heap is explicit, so that a node that is freed twice, used after it *)
(* was freed, or never freed can be told.  Memory is counted in units: one *)
(* for a node, one for an element of a child array.                        *)
(***************************************************************************)
EXTENDS Integers, Sequences, FiniteSets, Functions

CONSTANTS
  Objects,      \* the addresses of the heap: a bound
  Null,
  Threads,      \* the search workers
  Moves,        \* the legal moves of every position
  Keys,         \* starting positions, by hash
  Games,        \* the move lists of `position` commands
  MaxPly,       \* how deep the workers expand: a bound
  Reserve,      \* addresses the workers leave to the calling thread: a bound
  MaxCommands   \* a bound

ASSUME TreeAssumption ==
  /\ Null \notin Objects /\ Objects # {}
  /\ IsFiniteSet(Objects) /\ IsFiniteSet(Moves)
  /\ Games \subseteq Seq(Moves)
  /\ MaxPly \in Nat /\ Reserve \in Nat /\ MaxCommands \in Nat

VARIABLES
  alive,        \* allocated nodes
  child,        \* child[o]: the child array, from its moves to slots
  expanded,     \* nodes in state kExpanded
  pos,          \* ghost: the position (key and line) a node was created for
  begin, head,  \* gamebegin_node_, current_head_
  known, key, line,   \* has_position_, history_starting_pos_key_, current_position_moves_
  bytes,        \* TreeMemory::Bytes()
  pending,      \* the collector's queue
  freeing,      \* nodes whose destructor the collector has still to run
  collector,    \* "on", "stopping" or "gone"
  main,         \* the calling thread
  todo, prev, restart, \* ResetToPosition: moves to walk, prev_head, same_game && !can_reuse
  reused,       \* its result
  commands,
  pc, at, want, hand   \* each worker: place, node, move, candidate

heapVars  == <<alive, child, expanded, pos, bytes>>
treeVars  == <<begin, head, known, key, line>>
gcVars    == <<pending, freeing, collector>>
resetVars == <<todo, prev, restart, reused>>
workVars  == <<pc, at, want, hand>>
vars == <<heapVars, treeVars, gcVars, main, resetVars, commands, workVars>>

NoArray == [m \in {} |-> Null]

Free == Objects \ alive

Size(o) == 1 + Cardinality(DOMAIN child[o])

Discarded(p, keep) == {child[p][m] : m \in DOMAIN child[p]} \ {Null, keep}

-----------------------------------------------------------------------------
(* ResetToPosition, by the calling thread; no worker runs.                 *)

Command == main = "idle" /\ commands < MaxCommands /\ commands' = commands + 1

(* A fresh node o at position p, in place of whatever the address held.    *)
Fresh(o, p) ==
  /\ alive' = alive \cup {o}
  /\ child' = [child EXCEPT ![o] = NoArray]
  /\ expanded' = expanded \ {o}
  /\ pos' = [pos EXCEPT ![o] = p]
  /\ bytes' = bytes + 1

(* DeallocateTree: the old tree is queued, a fresh root takes its place.   *)
Deallocate(k) ==
  /\ pending' = Append(pending, begin)
  /\ \E o \in Free :
       /\ Fresh(o, [key |-> k, line |-> << >>])
       /\ begin' = o /\ head' = o

AnyGame(k) == known        \* a mutant: the starting position is not compared

SameGame(k) == known /\ key = k

(* A mutant: the lists are compared as far as the shorter one goes.        *)
EitherWay(k, moves) ==
  LET n == IF Len(line) < Len(moves) THEN Len(line) ELSE Len(moves)
  IN  SameGame(k) /\ SubSeq(moves, 1, n) = SubSeq(line, 1, n)

(* The new move list extends the old one.                                  *)
CanReuse(k, moves) ==
  /\ SameGame(k)
  /\ Len(line) <= Len(moves) /\ SubSeq(moves, 1, Len(line)) = line

NeverRestarts(k, moves) == FALSE  \* a mutant: the head is searched as it is

Restarts(k, moves) == SameGame(k) /\ ~CanReuse(k, moves)

(* What ResetToPosition does before it walks along the moves.              *)
ResetToPosition(k, moves) ==
  /\ Command /\ main' = "walk"
  /\ IF SameGame(k)
     THEN head' = begin /\ UNCHANGED <<heapVars, pending, begin>>
     ELSE Deallocate(k)
  /\ known' = TRUE /\ key' = k /\ line' = moves
  /\ todo' = moves /\ prev' = Null
  /\ restart' = Restarts(k, moves) /\ reused' = CanReuse(k, moves)
  /\ UNCHANGED <<freeing, collector, workVars>>

(* A mutant: a node's new child array is not counted when it had none.     *)
GainOfOne(p, created) ==
  (IF DOMAIN child[p] = {} THEN 0 ELSE 1 - Cardinality(DOMAIN child[p]))
    + (IF created THEN 1 ELSE 0)

(* What compacting p's array to one element, its node created or not, adds. *)
Gain(p, created) ==
  1 - Cardinality(DOMAIN child[p]) + (IF created THEN 1 ELSE 0)

(* ReleaseChildrenExceptOne: of head's children only the one by the next   *)
(* move stays, created if need be; the others go to the collector.         *)
ReleaseChildrenExceptOne ==
  LET m    == Head(todo)
      slot == IF m \in DOMAIN child[head] THEN child[head][m] ELSE Null
  IN  /\ main = "walk" /\ todo # << >>
      /\ IF slot # Null
         THEN /\ child' = [child EXCEPT ![head] = [x \in {m} |-> slot]]
              /\ head' = slot
              /\ UNCHANGED <<alive, expanded, pos>>
         ELSE \E o \in Free :
              /\ alive' = alive \cup {o}
              /\ child' = [child EXCEPT ![head] = [x \in {m} |-> o], ![o] = NoArray]
              /\ expanded' = expanded \ {o}
              /\ pos' = [pos EXCEPT ![o] = [key |-> key, line |-> Append(pos[head].line, m)]]
              /\ head' = o
      /\ bytes' = bytes + Gain(head, slot = Null)
      /\ \E rest \in [1..Cardinality(Discarded(head, slot)) -> Discarded(head, slot)] :
           /\ \A i, j \in DOMAIN rest : i # j => rest[i] # rest[j]
           /\ pending' = pending \o rest
      /\ prev' = head /\ todo' = Tail(todo)
      /\ UNCHANGED <<begin, known, key, line, freeing, collector, main, restart, reused,
                     commands, workVars>>

(* A head that is not an extension of the last one is made anew: it may    *)
(* have been pruned.                                                       *)
FinishReset ==
  /\ main = "walk" /\ todo = << >>
  /\ main' = "ready"
  /\ IF ~restart THEN UNCHANGED <<heapVars, pending, begin, head>>
     ELSE IF prev = Null THEN Deallocate(key)
     ELSE \E o \in Free, m \in DOMAIN child[prev] :
          /\ pending' = Append(pending, child[prev][m])
          /\ alive' = alive \cup {o}
          /\ child' = [child EXCEPT ![prev] = [x \in {m} |-> o], ![o] = NoArray]
          /\ expanded' = expanded \ {o}
          /\ pos' = [pos EXCEPT ![o] = pos[head]]
          /\ bytes' = bytes + 1
          /\ head' = o /\ UNCHANGED begin
  /\ prev' = Null /\ restart' = FALSE
  /\ UNCHANGED <<known, key, line, freeing, collector, todo, reused, commands, workVars>>

(* PrepareForNewGame.                                                      *)
NewGame ==
  /\ Command /\ UNCHANGED main
  /\ Deallocate(key)
  /\ known' = FALSE /\ line' = << >>
  /\ UNCHANGED <<key, freeing, collector, resetVars, workVars>>

-----------------------------------------------------------------------------
(* The search.                                                             *)

(* ExpandNode, which overwrites the array pointer, and SetExpanded.        *)
Expand(o) ==
  /\ child' = [child EXCEPT ![o] = [m \in Moves |-> Null]]
  /\ expanded' = expanded \cup {o}
  /\ bytes' = bytes + Cardinality(Moves)

(* No search for fewer than two legal moves; else ExpandRoot and workers.  *)
StartSearch ==
  /\ main = "ready"
  /\ \/ main' = "idle" /\ UNCHANGED <<heapVars, workVars>>
     \/ /\ main' = "search"
        /\ IF head \in expanded THEN UNCHANGED heapVars
           ELSE Expand(head) /\ UNCHANGED <<alive, pos>>
        /\ pc' = [t \in Threads |-> "stand"] /\ at' = [t \in Threads |-> head]
        /\ UNCHANGED <<want, hand>>
  /\ UNCHANGED <<treeVars, gcVars, resetVars, commands>>

WorkerFrame ==
  UNCHANGED <<treeVars, gcVars, main, resetVars, commands>>

(* The worker ends its playout, and goes on or leaves.                     *)
EndPlayout(t) ==
  /\ pc[t] = "stand"
  /\ \/ at' = [at EXCEPT ![t] = head] /\ UNCHANGED pc
     \/ pc' = [pc EXCEPT ![t] = "out"] /\ at' = [at EXCEPT ![t] = Null]
  /\ UNCHANGED <<heapVars, want, hand>>
  /\ WorkerFrame

(* Under the position mutex, once (UctSearch); only above the ply cap.     *)
ExpandNode(t) ==
  /\ pc[t] = "stand" /\ at[t] \notin expanded
  /\ Len(pos[at[t]].line) < MaxPly
  /\ Expand(at[t])
  /\ UNCHANGED <<alive, pos, workVars>>
  /\ WorkerFrame

(* GetOrCreate begins: the slot's node, or a candidate for an empty slot.  *)
GetSlot(t, m) ==
  /\ pc[t] = "stand" /\ at[t] \in expanded
  /\ IF child[at[t]][m] # Null
     THEN /\ at' = [at EXCEPT ![t] = child[at[t]][m]]
          /\ UNCHANGED <<heapVars, pc, want, hand>>
     ELSE /\ Cardinality(Free) > Reserve
          /\ \E o \in Free :
               /\ Fresh(o, [key |-> key, line |-> Append(pos[at[t]].line, m)])
               /\ hand' = [hand EXCEPT ![t] = o]
          /\ pc' = [pc EXCEPT ![t] = "publish"] /\ want' = [want EXCEPT ![t] = m]
          /\ UNCHANGED at
  /\ WorkerFrame

Overwrites(slot) == TRUE   \* a mutant: the candidate is stored, whatever the slot holds

Wins(slot) == slot = Null

(* compare_exchange: the winner's node is published, the loser's freed.    *)
Publish(t) ==
  LET p    == at[t]
      slot == child[p][want[t]]
  IN  /\ pc[t] = "publish" /\ pc' = [pc EXCEPT ![t] = "stand"]
      /\ hand' = [hand EXCEPT ![t] = Null] /\ want' = [want EXCEPT ![t] = Null]
      /\ IF Wins(slot)
         THEN /\ child' = [child EXCEPT ![p][want[t]] = hand[t]]
              /\ at' = [at EXCEPT ![t] = hand[t]]
              /\ UNCHANGED <<alive, pos, bytes>>
         ELSE /\ at' = [at EXCEPT ![t] = slot]
              /\ alive' = alive \ {hand[t]} /\ bytes' = bytes - 1
              /\ pos' = [pos EXCEPT ![hand[t]] = Null]
              /\ UNCHANGED child
      /\ UNCHANGED expanded
      /\ WorkerFrame

Join ==
  /\ main = "search" /\ main' = "idle"
  /\ \A t \in Threads : pc[t] = "out"
  /\ UNCHANGED <<heapVars, treeVars, gcVars, resetVars, commands, workVars>>

-----------------------------------------------------------------------------
(* The end of the process: the tree's destructor, then the collector's.    *)

DestroyTree ==
  /\ main = "idle" /\ main' = "exiting"
  /\ pending' = Append(pending, begin)
  /\ begin' = Null /\ head' = Null
  /\ UNCHANGED <<heapVars, known, key, line, freeing, collector, resetVars, commands,
                 workVars>>

StopCollector ==
  /\ main = "exiting" /\ collector = "on"
  /\ collector' = "stopping"
  /\ UNCHANGED <<heapVars, treeVars, pending, freeing, main, resetVars, commands, workVars>>

JoinCollector ==
  /\ main = "exiting" /\ collector = "gone"
  /\ main' = "exited"
  /\ UNCHANGED <<heapVars, treeVars, gcVars, resetVars, commands, workVars>>

(* The collector's thread.                                                 *)

CollectorFrame ==
  UNCHANGED <<treeVars, main, resetVars, commands, workVars>>

TakePending ==
  /\ collector # "gone" /\ freeing = {} /\ pending # << >>
  /\ freeing' = {Head(pending)} /\ pending' = Tail(pending)
  /\ UNCHANGED <<heapVars, collector>>
  /\ CollectorFrame

(* One destructor: the node's memory, then the nodes its slots own.        *)
FreeNode ==
  /\ \E o \in freeing :
       /\ alive' = alive \ {o} /\ expanded' = expanded \ {o}
       /\ child' = [child EXCEPT ![o] = NoArray]
       /\ pos' = [pos EXCEPT ![o] = Null]
       /\ bytes' = bytes - Size(o)
       /\ freeing' = (freeing \ {o}) \cup Discarded(o, Null)
  /\ UNCHANGED <<pending, collector>>
  /\ CollectorFrame

CollectorQuits ==
  /\ collector = "stopping" /\ freeing = {} /\ pending = << >>
  /\ collector' = "gone"
  /\ UNCHANGED <<heapVars, pending, freeing>>
  /\ CollectorFrame

-----------------------------------------------------------------------------
Init ==
  /\ begin \in Objects /\ head = begin /\ alive = {begin}
  /\ child = [o \in Objects |-> NoArray] /\ expanded = {}
  /\ key \in Keys /\ known = FALSE /\ line = << >>
  /\ pos = [o \in Objects |-> IF o = begin THEN [key |-> key, line |-> << >>] ELSE Null]
  /\ bytes = 1
  /\ pending = << >> /\ freeing = {} /\ collector = "on"
  /\ main = "idle" /\ todo = << >> /\ prev = Null /\ restart = FALSE /\ reused = FALSE
  /\ commands = 0
  /\ pc = [t \in Threads |-> "out"] /\ at = [t \in Threads |-> Null]
  /\ want = [t \in Threads |-> Null] /\ hand = [t \in Threads |-> Null]

Finished == main = "exited" /\ UNCHANGED vars

MainNext ==
  \/ ReleaseChildrenExceptOne \/ FinishReset \/ StartSearch \/ Join
  \/ StopCollector \/ JoinCollector

GuiNext ==
  \/ \E k \in Keys, g \in Games : ResetToPosition(k, g)
  \/ NewGame \/ DestroyTree

WorkerNext(t) ==
  EndPlayout(t) \/ ExpandNode(t) \/ (\E m \in Moves : GetSlot(t, m)) \/ Publish(t)

CollectorNext == TakePending \/ FreeNode \/ CollectorQuits

Next ==
  MainNext \/ GuiNext \/ CollectorNext \/ Finished \/ \E t \in Threads : WorkerNext(t)

Spec == Init /\ [][Next]_vars

-----------------------------------------------------------------------------
Positions == [key : Keys, line : Seq(Moves)]

TypeOK ==
  /\ alive \subseteq Objects /\ expanded \subseteq alive /\ freeing \subseteq alive
  /\ \A o \in Objects :
       DOMAIN child[o] \subseteq Moves /\ \A m \in DOMAIN child[o] : child[o][m] \in alive \cup {Null}
  /\ \A o \in Objects : IF o \in alive THEN pos[o] \in Positions ELSE pos[o] = Null
  /\ begin \in alive \cup {Null} /\ head \in alive \cup {Null}
  /\ known \in BOOLEAN /\ key \in Keys /\ line \in Seq(Moves)
  /\ bytes \in Nat
  /\ pending \in Seq(alive) /\ collector \in {"on", "stopping", "gone"}
  /\ main \in {"idle", "walk", "ready", "search", "exiting", "exited"}
  /\ todo \in Seq(Moves) /\ prev \in alive \cup {Null}
  /\ restart \in BOOLEAN /\ reused \in BOOLEAN
  /\ commands \in 0..MaxCommands
  /\ pc \in [Threads -> {"out", "stand", "publish"}]
  /\ at \in [Threads -> alive \cup {Null}]
  /\ want \in [Threads -> Moves \cup {Null}] /\ hand \in [Threads -> alive \cup {Null}]

(* Who owns o: slots, the queue, workers that have not published it, the   *)
(* tree, and the collector.                                                *)
Owners(o) ==
       {w \in {"slot"} \X alive \X Moves :
          w[3] \in DOMAIN child[w[2]] /\ child[w[2]][w[3]] = o}
  \cup {w \in {"queue"} \X DOMAIN pending : pending[w[2]] = o}
  \cup {w \in {"worker"} \X Threads : hand[w[2]] = o}
  \cup {w \in {<<"tree">>} : begin = o}
  \cup {w \in {<<"collector">>} : o \in freeing}

(* Every node has one owner, whoever raced to create it and however the    *)
(* tree was cut: none is freed twice, and none is lost.                    *)
OwnedOnce == \A o \in Objects : Cardinality(Owners(o)) = IF o \in alive THEN 1 ELSE 0

(* The node at the end of a line, from the tree's root; Null if none.      *)
NodeAt(l) ==
  LET f[i \in 0..Len(l)] ==
        IF i = 0 THEN begin
        ELSE LET p == f[i - 1]
             IN  IF p # Null /\ l[i] \in DOMAIN child[p] THEN child[p][l[i]] ELSE Null
  IN  f[Len(l)]

InTree(o) == pos[o].key = key /\ NodeAt(pos[o].line) = o

(* The search stands on the position it was given, and its workers on      *)
(* nodes of the tree that were made for the positions they hang at: no     *)
(* statistics of another game or of another line are taken over.           *)
OwnPosition ==
  /\ main \in {"ready", "search"} =>
       pos[head] = [key |-> key, line |-> line] /\ InTree(head)
  /\ \A t \in Threads : pc[t] # "out" => InTree(at[t])

(* The head is either untouched or has all its moves: never an ancestor    *)
(* that was cut down to the move that was played.                          *)
HeadComplete ==
  main \in {"ready", "search"} =>
    IF head \in expanded THEN DOMAIN child[head] = Moves ELSE child[head] = NoArray

(* A tree that is not reported as reused has a head nobody has visited.    *)
FreshUnlessReused ==
  main = "ready" /\ ~reused => head \notin expanded /\ child[head] = NoArray

(* The tree is whole: each node owned once, the head complete or new, and  *)
(* nobody on a node of another position.                                   *)
TreeSound == OwnedOnce /\ OwnPosition /\ HeadComplete /\ FreshUnlessReused

(* The memory counter is exact at every moment, garbage included.          *)
BytesExact == bytes = SumFunctionOnSet([o \in Objects |-> Size(o)], alive)
=============================================================================

------------------------------ MODULE GameTree ------------------------------
(***************************************************************************)
(* The game tree below the root of one search, as far as the search can    *)
(* tell its positions apart.  The engine stores a tree, never a graph: a   *)
(* node is reached by one edge only, so a node n also names the edge       *)
(* child_node_t that leads to it, and Parent[n] the uct_node_t whose child *)
(* array holds that edge.  The ply cap makes every line finite; the        *)
(* instance may be any tree that satisfies the assumption.                 *)
(*                                                                         *)
(* Kind[n] abstracts the position: what the checks at the top of UctSearch *)
(* would say of it, in the order in which they are made.                   *)
(***************************************************************************)
EXTENDS Naturals, Sequences, FiniteSets

CONSTANTS
  Nodes,      \* positions of the tree
  Root,       \* the position being searched
  Kids,       \* Kids[n]: the children of n in move generation order
  Parent,     \* Parent[n]: the node above n
  Kind,       \* Kind[n]: what the terminal checks say of the position
  Val,        \* Val[n]: value of the game for the side to move at n
  GuardMate   \* positions in which the root guard's solver finds a mate

(* Outcome for the player who traversed the edge into a position that a    *)
(* check made before the node is looked at settles: entering-king          *)
(* declaration, repetition, ply cap with and without a legal move.         *)
EntryOutcome ==
  [declare  |-> "kLoss", repWin   |-> "kLoss", repLoss |-> "kWin",
   repDraw  |-> "kDraw", capMated |-> "kWin",  capDraw |-> "kDraw"]

EntryKinds == DOMAIN EntryOutcome

(* "mate": the leaf mate probe succeeds, which is taken for a win, as the  *)
(* search takes it, though its last move may be a check that the probe     *)
(* outside check misjudges (MateGraph); "stuck": no legal move.            *)
Kinds == EntryKinds \cup {"mate", "stuck", "inner"}

Values == {"win", "loss", "draw"}
Flags  == {"win", "lose", "draw"}

(* ResolveTerminalEdge names the edge flag after the side to move BELOW    *)
(* the edge: an edge whose mover wins leads to a position flagged lost.    *)
FlagOf == [kWin |-> "lose", kLoss |-> "win", kDraw |-> "draw"]

(* The value a flag claims for the side to move below the edge.            *)
Claim == [win |-> "win", lose |-> "loss", draw |-> "draw"]

KidSet(n) == {Kids[n][i] : i \in DOMAIN Kids[n]}

RuleValue ==
  [declare  |-> "win",  repWin   |-> "win",  repLoss |-> "loss",
   repDraw  |-> "draw", capMated |-> "loss", capDraw |-> "draw",
   mate     |-> "win",  stuck    |-> "loss"]

TreeShape ==
  /\ Root \in Nodes
  /\ Kids \in [Nodes -> Seq(Nodes)]
  /\ Parent \in [Nodes -> Nodes]
  /\ \A n \in Nodes : \A c \in KidSet(n) : Parent[c] = n /\ c # Root
  /\ \A n \in Nodes \ {Root} : n \in KidSet(Parent[n])

(* The tree is finite, and every position is reached from the root.        *)
BelowRoot ==
  /\ IsFiniteSet(Nodes)
  /\ \A S \in SUBSET Nodes :
       Root \in S /\ (\A n \in S : KidSet(n) \subseteq S) => S = Nodes

TreeValues ==
  /\ Kind \in [Nodes -> Kinds]
  /\ Kind[Root] = "inner"
  /\ Val \in [Nodes -> Values]
  /\ \A n \in Nodes : Kind[n] = "inner" <=> Kids[n] # << >>
  /\ \A n \in Nodes : Kind[n] # "inner" => Val[n] = RuleValue[Kind[n]]
  /\ \A n \in Nodes : Kind[n] = "inner" =>
       /\ Val[n] = "win"  <=> \E c \in KidSet(n) : Val[c] = "loss"
       /\ Val[n] = "loss" <=> \A c \in KidSet(n) : Val[c] = "win"

(* A mate the root guard finds is real (but for checks that its probe      *)
(* misjudges, which are left out here), but the guard does not know the    *)
(* repetition rule: the position may be one the search scores as a draw.   *)
GuardIsSound ==
  /\ GuardMate \subseteq KidSet(Root)
  /\ \A c \in GuardMate : Val[c] = "win" \/ Kind[c] \in EntryKinds

ASSUME GameTreeAssumption == TreeShape /\ BelowRoot /\ TreeValues /\ GuardIsSound
=============================================================================

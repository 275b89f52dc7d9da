----------------------------- MODULE ProvenTree -----------------------------
(***************************************************************************)
(* What a proof-keeping search tree promises, without threads, locks or    *)
(* scans: a flag is put on an edge in one step, only when the rules of the *)
(* game or the flags already on the edges below justify it at that very    *)
(* moment, and is never withdrawn; a node is evaluated at most once and    *)
(* expanded at most once.  UctSearch is shown to implement this.           *)
(***************************************************************************)
EXTENDS GameTree

VARIABLES label, status

ptVars == <<label, status>>

Has(c, f) == f \in label[c]

(* One flag of one edge, derived from the position or from the edges below *)
Justified(n, f) ==
  \/ Kind[n] \in EntryKinds /\ f = FlagOf[EntryOutcome[Kind[n]]]
  \/ Kind[n] = "mate"  /\ f = "win"
  \/ Kind[n] = "stuck" /\ f = "lose"
  \/ /\ Kind[n] = "inner"
     /\ \/ f = "win"  /\ \E c \in KidSet(n) : Has(c, "lose")
        \/ f = "lose" /\ \A c \in KidSet(n) : Has(c, "win")
        \/ /\ f = "draw"
           /\ \A c \in KidSet(n) : Has(c, "win") \/ Has(c, "draw")
           /\ \E c \in KidSet(n) : Has(c, "draw")
  \/ n \in GuardMate /\ f = "win"

Init ==
  /\ label  = [n \in Nodes |-> {}]
  /\ status = [n \in Nodes |-> IF n = Root THEN "expanded" ELSE "fresh"]

Prove(n, f) ==
  /\ n # Root
  /\ Justified(n, f)
  /\ label' = [label EXCEPT ![n] = @ \cup {f}]
  /\ UNCHANGED status

Evaluate(n) ==
  /\ status[n] = "fresh" /\ Kind[n] = "inner"
  /\ status' = [status EXCEPT ![n] = "evaluated"]
  /\ UNCHANGED label

(* A stuck position is expanded at its first visit, and labelled at once.  *)
ExpandStuck(n) ==
  /\ status[n] = "fresh" /\ Kind[n] = "stuck" /\ n # Root
  /\ status' = [status EXCEPT ![n] = "expanded"]
  /\ label'  = [label EXCEPT ![n] = @ \cup {"lose"}]

Expand(n) ==
  /\ status[n] = "evaluated" /\ Kind[n] = "inner"
  /\ status' = [status EXCEPT ![n] = "expanded"]
  /\ UNCHANGED label

Next ==
  \E n \in Nodes :
    \/ \E f \in Flags : Prove(n, f)
    \/ Evaluate(n)
    \/ ExpandStuck(n)
    \/ Expand(n)

Spec == Init /\ [][Next]_ptVars

(* Type invariant of the abstract tree.                                    *)
PTTypeOK ==
  /\ label \in [Nodes -> SUBSET Flags]
  /\ status \in [Nodes -> {"fresh", "evaluated", "expanded"}]

(* A flag never lies about the game: what it claims of the position below  *)
(* its edge is that position's value under best play, unless the root      *)
(* guard, which does not know the repetition rule, put it there.           *)
LabelsSound ==
  \A n \in Nodes : \A f \in label[n] :
    Val[n] = Claim[f] \/ (f = "win" /\ n \in GuardMate)
=============================================================================

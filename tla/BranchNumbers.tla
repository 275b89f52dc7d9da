---------------------------- MODULE BranchNumbers ----------------------------
(***************************************************************************)
(* The arithmetic of the BNS mate solver (src/mate/bns.h): a node's        *)
(* numbers from those of its children, and the thresholds of the child it  *)
(* searches next.  A view is what a parent sees of a child: its AND number *)
(* abn, which is 0 when mate is proved, and its OR number obn, 0 when mate *)
(* is disproved.  A node asks for the first at OR nodes, the second at AND *)
(* nodes: that is the relevant number, the other one the opposite number.  *)
(***************************************************************************)
EXTENDS Integers, Sequences, FiniteSets

CONSTANT kInf    \* infinity (2^30)
ASSUME InfinityAssumption == kInf \in Nat /\ kInf > 1

SatAdd(a, b) == IF a + b >= kInf THEN kInf ELSE a + b

MateView == [abn |-> 0, obn |-> kInf]
NoMateView == [abn |-> kInf, obn |-> 0]
OpenView == [abn |-> 1, obn |-> 1]
Rel(or, v) == IF or THEN v.abn ELSE v.obn
Opp(or, v) == IF or THEN v.obn ELSE v.abn
ViewOf(or, rel, opp) ==
    IF or THEN [abn |-> rel, obn |-> opp] ELSE [abn |-> opp, obn |-> rel]

Total(f, S) ==
    LET sum[T \in SUBSET S] ==
            IF T = {} THEN 0 ELSE LET x == CHOOSE y \in T : TRUE IN f[x] + sum[T \ {x}]
    IN  sum[S]
Least(S) == CHOOSE x \in S : \A y \in S : x <= y

(* Unresolved children; the one to search is the least in the relevant     *)
(* number, in PN/DN mode then in the opposite one, then the first.         *)
Active(or, views) == {i \in DOMAIN views : Rel(or, views[i]) < kInf}
Precedes(or, pndn, views, i, j) ==
    LET ri == Rel(or, views[i])  rj == Rel(or, views[j])
        oi == Opp(or, views[i])  oj == Opp(or, views[j])
    IN  \/ ri < rj
        \/ ri = rj /\ pndn /\ oi < oj
        \/ ri = rj /\ (~pndn \/ oi = oj) /\ i <= j
Best(or, pndn, views) ==
    CHOOSE i \in Active(or, views) :
        \A j \in Active(or, views) : Precedes(or, pndn, views, i, j)
Second(or, views, best) ==
    Least({kInf} \cup {Rel(or, views[i]) : i \in Active(or, views) \ {best}})

(* The opposite numbers are summed in PN/DN mode; of branch numbers, only  *)
(* the number of the other unresolved children is added to the best one's. *)
OppositeSum(or, views) == Total([i \in DOMAIN views |-> Opp(or, views[i])], DOMAIN views)
Opposite(or, pndn, views, best) ==
    IF pndn THEN SatAdd(OppositeSum(or, views), 0)
    ELSE SatAdd(Opp(or, views[best]), Cardinality(Active(or, views)) - 1)

Exhausted(or, pndn, views) ==
    IF pndn THEN OppositeSum(or, views) = 0 ELSE Active(or, views) = {}

(* best is 0 when all children decide together.                            *)
Summarize(or, pndn, views) ==
    LET decisive == {i \in DOMAIN views : Rel(or, views[i]) = 0}
        best == Best(or, pndn, views)
        Terminal(view, i) == [view |-> view, best |-> i, second |-> kInf, terminal |-> TRUE]
    IN  IF decisive # {} THEN Terminal(IF or THEN MateView ELSE NoMateView, Least(decisive))
        ELSE IF Exhausted(or, pndn, views) THEN Terminal(IF or THEN NoMateView ELSE MateView, 0)
        ELSE [view |-> ViewOf(or, Rel(or, views[best]), Opposite(or, pndn, views, best)),
              best |-> best, second |-> Second(or, views, best), terminal |-> FALSE]

\* Mutant: the runner-up's number itself, not one more, bounds the child.
BareThresholds(or, s, best, th) ==
    LET rel == IF Rel(or, th) < s.second THEN Rel(or, th) ELSE s.second
        opp == IF Opp(or, th) >= kInf THEN kInf
               ELSE Opp(or, th) - (Opp(or, s.view) - Opp(or, best))
    IN  ViewOf(or, rel, opp)

(* Of a node with summary s, thresholds th and selected child best.        *)
ChildThresholds(or, s, best, th) ==
    LET bound == SatAdd(s.second, 1)
        rel == IF Rel(or, th) < bound THEN Rel(or, th) ELSE bound
        opp == IF Opp(or, th) >= kInf THEN kInf
               ELSE Opp(or, th) - (Opp(or, s.view) - Opp(or, best))
    IN  ViewOf(or, rel, opp)
=============================================================================

----------------------------- MODULE MCUctSearch -----------------------------
(***************************************************************************)
(* Instances of UctSearch for TLC.  The tree of the standard instance has  *)
(* every kind of position: a drawing line below "a" (repetition, ply cap), *)
(* a losing one below "b", and a root move "c" that the search scores as a *)
(* repetition draw while the guard's solver sees a mate.                   *)
(***************************************************************************)
EXTENDS UctSearch, TLC

MCTree ==
  [r  |-> <<"a", "b", "c">>,
   a  |-> <<"a1", "a2">>,
   b  |-> <<"b1", "b2">>]

MCNodes == {"r", "a", "b", "c", "a1", "a2", "b1", "b2"}
MCKids  == [n \in MCNodes |-> IF n \in DOMAIN MCTree THEN MCTree[n] ELSE << >>]
MCParent ==
  [n \in MCNodes |->
    IF n = "r" THEN "r"
    ELSE CHOOSE p \in DOMAIN MCTree : \E i \in DOMAIN MCTree[p] : MCTree[p][i] = n]

MCKind ==
  [r |-> "inner", a |-> "inner", b |-> "inner", c |-> "repDraw",
   a1 |-> "capDraw", a2 |-> "mate", b1 |-> "stuck", b2 |-> "declare"]

(* The value of a position by the rules alone: the reference definition.   *)
MCVal[n \in MCNodes] ==
  IF MCKind[n] # "inner" THEN RuleValue[MCKind[n]]
  ELSE LET below == {MCVal[MCKids[n][i]] : i \in DOMAIN MCKids[n]}
       IN  IF "loss" \in below THEN "win"
           ELSE IF below = {"win"} THEN "loss" ELSE "draw"

MCPrior ==
  [n \in MCNodes |-> IF n \in {"b", "c"} THEN 2 ELSE 1]

(* A draw is worth something to the player at the root only.               *)
MCDrawScore == [n \in MCNodes |-> IF n \in {"a", "b", "c"} THEN 1 ELSE 0]

MCMutexOf == [n \in MCNodes |-> IF n \in {"a", "b1"} THEN 1 ELSE 2]

FaultyEvals == {2, Bad}

ThreadSymmetry == Permutations(Threads)
=============================================================================

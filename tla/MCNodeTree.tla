------------------------------ MODULE MCNodeTree ------------------------------
(***************************************************************************)
(* Instances of NodeTree: two moves in every position, and games that go   *)
(* on, go back, branch off and start anew.                                 *)
(***************************************************************************)
EXTENDS NodeTree, TLC

CONSTANTS a, b

Lines == {<< >>, <<a>>, <<b>>, <<a, b>>}

TreeSymmetry == Permutations(Objects) \cup Permutations(Threads)
==============================================================================

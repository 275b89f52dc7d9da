----------------------------- MODULE ShogiGame -----------------------------
(***************************************************************************)
(* A game with the moves that the engine's generator offers, and what the  *)
(* generators and probes promise of every position it comes to             *)
(* (src/shogi/board.cc).  That every move offered is within the rules, so  *)
(* that Next implies PlayNext, is part of LegalMovesExact.                 *)
(***************************************************************************)
EXTENDS ShogiPlay, ShogiMateApprox

Next ==
    \/ \E m \in GenerateLegalMoves(pos) : DoMove(m)
    \/ UndoMove

Spec == Init /\ [][Next]_vars

-----------------------------------------------------------------------------
(* Properties. *)

(* The generated moves are the legal ones: pins, evasions and the rule     *)
(* against mating with a dropped pawn included (GenerateLegalMoves,        *)
(* GenerateEvasionMoves).                                                  *)
LegalMovesExact == GenerateLegalMoves(pos) = LegalByRule(pos)

(* The generated checks are the legal moves that give check: no candidate  *)
(* is lost to the tables of squares that a check can come from             *)
(* (GenerateCheckingMoves).                                                *)
ChecksExact ==
    GenerateCheckingMoves(pos) =
        {m \in LegalByRule(pos) : KingAttacked(After(pos, m), Opp(pos.turn))}

IsMatingMove(m) == m \in LegalByRule(pos) /\ Mated(After(pos, m))

(* Every move the approximate probe accepts is legal and mates             *)
(* (FindMateInOneApprox).                                                  *)
ApproxMatesSound == \A m \in FindMateInOneApprox(pos) : IsMatingMove(m)

(* The move the exact probe returns is legal and mates                     *)
(* (FindMateInOne).                                                        *)
MateInOneIsMate == \A m \in FindMateInOne(pos) : IsMatingMove(m)
=============================================================================

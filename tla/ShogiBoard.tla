----------------------------- MODULE ShogiBoard -----------------------------
(***************************************************************************)
(* Pins, evasions and the generators of legal moves (src/shogi/board.cc).  *)
(***************************************************************************)
EXTENDS ShogiPosition, TLC

\* Mutant: lances pin nothing.
BlockersOfRooksAndBishops(p, c) ==
    LET k == KingSq(p, c)
        pinners == (PiecesOfType(p, Opp(c), {"R", "+R"}) \intersect RookEffectBB[k])
                   \union (PiecesOfType(p, Opp(c), {"B", "+B"}) \intersect BishopEffectBB[k])
    IN  UNION {{s \in BetweenBB[k][l] : BetweenBB[k][l] \intersect Occupied(p) = {s}} : l \in pinners}

(* Pieces of either color that alone stand between the king of color c and *)
(* an enemy slider that bears on it.                                       *)
BlockersForKing(p, c) ==
    LET k == KingSq(p, c)
        them == Opp(c)
        pinners == (PiecesOfType(p, them, {"R", "+R"}) \intersect RookEffectBB[k])
                   \union (PiecesOfType(p, them, {"B", "+B"}) \intersect BishopEffectBB[k])
                   \union (PiecesOfType(p, them, {"L"}) \intersect LanceMask[c][k])
    IN  UNION {LET b == BetweenBB[k][s] \intersect Occupied(p)
               IN  IF Cardinality(b) = 1 THEN b ELSE {} : s \in pinners}

Pinned(p, c) == BlockersForKing(p, c) \intersect PiecesOf(p, c)

(* A pinned piece that leaves the line to its king. *)
LeavesLine(p, c, pinned, from, to) ==
    from \in pinned /\ to \notin LineBB[from][KingSq(p, c)]

-----------------------------------------------------------------------------
(* Legal moves. *)

GenerateBoardMovesNonCheck(p, pinned) ==
    LET us == p.turn
        k == KingSq(p, us)
        occ == Occupied(p)
        Targets(from) ==
            {to \in PieceAttacks(TypeOn(p, from), us, from, occ) \ PiecesOf(p, us) :
                IF from = k THEN ~IsSquareAttacked(p, to, occ \ {k}, Opp(us))
                ELSE ~LeavesLine(p, us, pinned, from, to)}
    IN  UNION {UNION {Variants(TypeOn(p, from), us, from, to) : to \in Targets(from)} :
                 from \in PiecesOf(p, us)}

(* A pawn dropped in front of the enemy king. *)
PawnDropChecks(p, m) ==
    m.drop = "P" /\ KingSq(p, Opp(p.turn)) \in StepEffect["P"][p.turn][m.to]

RECURSIVE GenerateEvasionMoves(_)

HasLegalEvasion(p) == GenerateEvasionMoves(p) # {}

IsLegal(p, m, pinned) ==
    LET us == p.turn
        k == KingSq(p, us)
    IN  IF IsDrop(m) THEN PawnDropChecks(p, m) => HasLegalEvasion(After(p, m))
        ELSE IF m.from = k THEN AttackersTo(p, m.to, Occupied(p) \ {k}, Opp(us)) = {}
        ELSE ~LeavesLine(p, us, pinned, m.from, m.to)

(* The answers to a check: king moves and, against one checker, captures   *)
(* of it and pieces moved or dropped in between.                           *)
GenerateEvasionMoves(p) ==
    LET us == p.turn
        them == Opp(us)
        k == KingSq(p, us)
        occ == Occupied(p)
        our == PiecesOf(p, us)
        checkers == AttackersTo(p, k, occ, them)
        kingMoves == {Normal(k, to) : to \in
            {s \in KingEffect[k] \ our : ~IsSquareAttacked(p, s, occ \ {k}, them)}}
        checker == CHOOSE s \in checkers : TRUE
        between == BetweenBB[k][checker]
        pinned == Pinned(p, us)
        boardMoves == UNION {UNION {
            Variants(TypeOn(p, from), us, from, to) :
                from \in {a \in AttackersTo(p, to, occ, us) \ {k} :
                            ~LeavesLine(p, us, pinned, a, to)}} :
            to \in between \union {checker}}
        drops == UNION {{Drop(t, to) : to \in DropTargets(p, us, t, between \ occ)} :
                          t \in InHand(p, us)}
    IN  IF Cardinality(checkers) > 1 THEN kingMoves
        ELSE kingMoves \union boardMoves
             \union {m \in drops : m.drop = "P" => IsLegal(p, m, pinned)}

GenerateLegalMoves(p) ==
    IF InCheck(p, p.turn) THEN GenerateEvasionMoves(p)
    ELSE GenerateBoardMovesNonCheck(p, Pinned(p, p.turn))
         \union {m \in GenerateDropMoves(p) :
                   PawnDropChecks(p, m) => HasLegalEvasion(After(p, m))}

-----------------------------------------------------------------------------
(* The rules themselves, which the generators above are measured against:  *)
(* a pseudo-legal move that does not leave the own king attacked and is    *)
(* not a mating drop of a pawn.                                            *)

RECURSIVE LegalByRule(_)

Mated(p) == KingAttacked(p, p.turn) /\ LegalByRule(p) = {}

LegalByRule(p) == {m \in SafeMoves(p) : ~(m.drop = "P" /\ Mated(After(p, m)))}
=============================================================================

----------------------------- MODULE ShogiMate -----------------------------
(***************************************************************************)
(* The generator of checking moves and the two probes for a mate in one    *)
(* (src/shogi/board.cc, mate1ply.cc).  The probes never make a move: they  *)
(* take the moving piece off the piece bitboards, leave its new square out *)
(* of them, and reason about the occupancy after the move.                 *)
(***************************************************************************)
EXTENDS ShogiBoard

(* Candidates: pieces with some move that checks the king on k directly. *)
DirectCandidates(p, c, k) ==
    {s \in PiecesOf(p, c) : LET t == TypeOn(p, s) IN
        CASE t \in {"R", "+R"} -> TRUE
          [] t = "K" -> FALSE
          [] t \in GoldLike -> s \in MoveCheckBB[c]["G"][k]
          [] t = "+B" -> s \in MoveCheckBB[c]["Horse"][k]
          [] OTHER -> s \in MoveCheckBB[c][t][k]}

(* The squares from which a piece that steps checks the king on k. *)
ZoneOf(t, c, k) ==
    CASE t \in GoldLike -> CheckBB[c]["G"][k]
      [] t = "K" -> KingEffect[k]
      [] OTHER -> CheckBB[c][t][k]

(* The squares on which a piece that left `from` checks the king on k,     *)
(* unpromoted and promoted: a slider's are those its own effect reaches    *)
(* from the king.                                                          *)
DirectSet(t, c, k, occ) ==
    CASE t = "R" -> RookEffect(k, occ)
      [] t = "B" -> BishopEffect(k, occ)
      [] t = "L" -> LanceEffect(Opp(c), k, occ)
      [] t = "+R" -> RookEffect(k, occ) \union KingEffect[k]
      [] t = "+B" -> BishopEffect(k, occ) \union KingEffect[k]
      [] OTHER -> ZoneOf(t, c, k)

\* Mutant: what a rook or bishop gains by promotion is left out.
PromotedSetWithoutSteps(t, c, k, occ) ==
    CASE t = "R" -> RookEffect(k, occ)
      [] t = "B" -> BishopEffect(k, occ)
      [] t \in {"P", "L", "N", "S"} -> CheckBB[c]["G"][k]
      [] OTHER -> {}

PromotedSet(t, c, k, occ) ==
    CASE t = "R" -> RookEffect(k, occ) \union KingEffect[k]
      [] t = "B" -> BishopEffect(k, occ) \union KingEffect[k]
      [] t \in {"P", "L", "N", "S"} -> CheckBB[c]["G"][k]
      [] OTHER -> {}

GenerateCheckingMovesNonCheck(p) ==
    LET us == p.turn
        k == KingSq(p, Opp(us))
        occ == Occupied(p)
        pinned == Pinned(p, us)
        blockers == BlockersForKing(p, Opp(us)) \intersect PiecesOf(p, us)
        Targets(from) == PieceAttacks(TypeOn(p, from), us, from, occ) \ PiecesOf(p, us)
        Legal(moves) == {m \in moves : IsLegal(p, m, pinned)}
        Emit(from, targets) ==
            LET t == TypeOn(p, from)
                now == DirectSet(t, us, k, occ \ {from})
                all == PromotedSet(t, us, k, occ \ {from})
                promo == IF t \in Promotable /\ from \notin PromotionZone[us]
                         THEN all \intersect PromotionZone[us] ELSE all
            IN  {m \in UNION {Variants(t, us, from, to) : to \in targets} :
                    IF m.promote THEN m.to \in promo ELSE m.to \in now}
        Discovered(from) ==
            UNION {Variants(TypeOn(p, from), us, from, to) :
                     to \in Targets(from) \ LineBB[k][from]}
        candidates == DirectCandidates(p, us, k)
        DropZone(t) == IF t = "N" \/ t = "P" \/ t = "S" \/ t = "G"
                       THEN CheckBB[us][t][k] ELSE DirectSet(t, us, k, occ)
    IN  Legal(UNION {Discovered(from) : from \in blockers}
              \union UNION {Emit(from, Targets(from) \intersect LineBB[k][from]) :
                              from \in blockers \intersect candidates}
              \union UNION {Emit(from, Targets(from)) : from \in candidates \ blockers}
              \union UNION {{Drop(t, to) : to \in
                         DropTargets(p, us, t, Squares \ occ) \intersect DropZone(t)} :
                         t \in InHand(p, us)})

(* In check: every legal move, classified one at a time. *)
GenerateCheckingMovesViaFilter(p) ==
    LET us == p.turn
        k == KingSq(p, Opp(us))
        blockers == BlockersForKing(p, Opp(us)) \intersect PiecesOf(p, us)
    IN  {m \in GenerateLegalMoves(p) :
            LET t == IF IsDrop(m) THEN m.drop
                     ELSE IF m.promote THEN ProOf[TypeOn(p, m.from)] ELSE TypeOn(p, m.from)
                occ == (Occupied(p) \ {m.from}) \union {m.to}
            IN  \/ k \in PieceAttacks(t, us, m.to, occ)
                \/ ~IsDrop(m) /\ m.from \in blockers /\ InCheck(After(p, m), Opp(us))}

GenerateCheckingMoves(p) ==
    IF InCheck(p, p.turn) THEN GenerateCheckingMovesViaFilter(p)
    ELSE GenerateCheckingMovesNonCheck(p)

-----------------------------------------------------------------------------
(* The exact probe.  r: the position without the moved piece and without   *)
(* what it captured; occ: the occupancy after the move.                    *)

CanKingEscape(r, us, checker, occ, attacks) ==
    LET k == KingSq(r, Opp(us))
    IN  \E to \in KingEffect[k] \ PiecesOf(r, Opp(us)) :
            IF to = checker THEN ~IsSquareAttacked(r, to, occ \ {k, checker}, us)
            ELSE to \notin attacks /\ ~IsSquareAttacked(r, to, occ \ {k}, us)

CanDefenderCapture(r, them, checker, occ) ==
    \E from \in AttackersTo(r, checker, occ, them) \ {KingSq(r, them)} :
        ~LeavesLine(r, them, Pinned(r, them), from, checker)

CanDefenderInterpose(r, them, between, occ) ==
    \/ \E from \in PiecesOf(r, them) \ {KingSq(r, them)} :
          \E to \in PieceAttacks(TypeOn(r, from), them, from, occ) \intersect between :
             ~LeavesLine(r, them, Pinned(r, them), from, to)
    \/ \E t \in InHand(r, them) : DropTargets(r, them, t, between \ occ) # {}

IsMateAfterMateProbe(q, us, t, to) ==
    LET r == Without(q, {to})
        them == Opp(us)
        k == KingSq(q, them)
        occ == Occupied(r) \union {to}
        attacks == PieceAttacks(t, us, to, occ \ {k})
        direct == k \in attacks
        discovered == AttackersTo(r, k, occ, us)
        sole == IF direct THEN to ELSE CHOOSE s \in discovered : TRUE
    IN  /\ direct \/ discovered # {}
        /\ ~CanKingEscape(r, us, to, occ, attacks)
        /\ \/ Cardinality(discovered) + (IF direct THEN 1 ELSE 0) > 1
           \/ /\ ~CanDefenderCapture(r, them, sole, occ)
              /\ ~CanDefenderInterpose(r, them, BetweenBB[k][sole], occ)

(* The drops and then the pieces, in the order they are tried. *)
DropOrder == <<"R", "L", "B", "G", "S", "N">>
PieceOrder == <<"+R", "R", "+B", "B", "G", "+P", "+L", "+N", "+S", "S", "N", "L", "P", "K">>

DropMates(p, t) ==
    LET us == p.turn
        k == KingSq(p, Opp(us))
        zone == IF t = "R" THEN RookEffectBB[k] ELSE CheckBB[us][t][k]
    IN  IF t \notin InHand(p, us) THEN {}
        ELSE {Drop(t, to) : to \in
                {s \in zone \ Occupied(p) : IsMateAfterMateProbe(p, us, t, s)}}

PieceMates(p, t) ==
    LET us == p.turn
        k == KingSq(p, Opp(us))
        occ == Occupied(p)
        pinned == Pinned(p, us)
        discovered == BlockersForKing(p, Opp(us)) \intersect PiecesOf(p, us)
        candidates == DirectCandidates(p, us, k) \union discovered
        Targets(from) ==
            {to \in PieceAttacks(t, us, from, occ) \ PiecesOf(p, us) :
                /\ ~LeavesLine(p, us, pinned, from, to)
                /\ t = "K" => IsLegal(p, Normal(from, to), pinned)}
        Accepted(m) ==
            LET moved == IF m.promote THEN ProOf[t] ELSE t
                q == Without(p, {m.from})
            IN  /\ \/ k \in PieceAttacks(moved, us, m.to, (Occupied(q) \union {m.to}) \ {k})
                   \/ m.from \in discovered /\ m.to \notin LineBB[m.from][k]
                /\ IsMateAfterMateProbe(q, us, moved, m.to)
    IN  {m \in UNION {UNION {Variants(t, us, from, to) : to \in Targets(from)} :
                        from \in PiecesOfType(p, us, {t}) \intersect candidates} : Accepted(m)}

(* Of the moves of one kind, the first: lowest source, lowest square, promoted. *)
Turn(m) == (m.from * Files * Ranks + m.to) * 2 + (IF m.promote THEN 0 ELSE 1)
First(moves) == {m \in moves : \A n \in moves : Turn(m) <= Turn(n)}

(* The first move of the first kind that yields one, as a set of at most one move. *)
FirstFound(order, Found(_)) ==
    LET hits == {i \in DOMAIN order : Found(order[i]) # {}}
    IN  IF hits = {} THEN {}
        ELSE First(Found(order[CHOOSE i \in hits : \A j \in hits : i <= j]))

FindMateInOneNonCheck(p) ==
    LET drop == FirstFound(DropOrder, LAMBDA t : DropMates(p, t))
    IN  IF drop # {} THEN drop ELSE FirstFound(PieceOrder, LAMBDA t : PieceMates(p, t))

FindMateInOne(p) ==
    IF InCheck(p, p.turn)
    THEN {m \in GenerateCheckingMoves(p) : ~HasLegalEvasion(After(p, m))}
    ELSE FindMateInOneNonCheck(p)
=============================================================================

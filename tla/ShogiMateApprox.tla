-------------------------- MODULE ShogiMateApprox --------------------------
(***************************************************************************)
(* The fast approximate probe for a mate in one (src/shogi/mate1ply.cc):   *)
(* drops and board moves that land beside the king, and knight checks.     *)
(* For each kind of move the code has a set of candidate squares, the      *)
(* squares the new piece takes from the king (its mask), and whether the   *)
(* piece needs support; the rest of the test is shared.                    *)
(***************************************************************************)
EXTENDS ShogiMate

(* q: the position without the moving piece; to: its new square. *)
ApproxKingCanEscape(q, us, to, mask) ==
    LET k == KingSq(q, Opp(us))
    IN  \E s \in KingEffect[k] \ (PiecesOf(q, Opp(us)) \union mask \union {to}) :
            ~IsSquareAttacked(q, s, (Occupied(q) \union {to}) \ {k}, us)

ApproxPieceCanCapture(q, them, to) ==
    \E from \in AttackersTo(q, to, Occupied(q), them) \ {KingSq(q, them)} :
        ~LeavesLine(q, them, Pinned(q, them), from, to)

\* Mutant: the king may not take an unsupported piece.
NeverTaken(q, us, to) == TRUE

Supported(q, us, to) == IsSquareAttacked(q, to, Occupied(q), us)

(* Squares in front of square s, seen by c: nearer to its last rank. *)
InFrontOf(c, s) == {t \in Squares : RelativeRank(t, c) < RelativeRank(s, c)}

-----------------------------------------------------------------------------
(* Drops. *)

ApproxDropSquares(p, us, t, k) ==
    LET has == InHand(p, us)
        gold == StepEffect["G"][Opp(us)][k]
        silver == StepEffect["S"][Opp(us)][k]
    IN  CASE t = "R" -> KingEffect[k] \intersect RookEffectBB[k]
          [] t = "L" -> IF "R" \in has THEN {} ELSE StepEffect["P"][Opp(us)][k]
          [] t = "B" -> KingEffect[k] \intersect BishopEffectBB[k]
          [] t = "G" -> IF "R" \in has THEN gold \ StepEffect["P"][us][k] ELSE gold
          [] t = "S" -> CASE {"G", "B"} \subseteq has -> {}
                          [] "G" \in has -> silver \intersect InFrontOf(us, k)
                          [] "B" \in has -> gold \intersect silver
                          [] OTHER -> silver
          [] t = "N" -> StepEffect["N"][Opp(us)][k]

ApproxDropMask(us, t, to) ==
    CASE t = "R" -> RookEffectBB[to]
      [] t = "L" -> LanceMask[us][to]
      [] t = "B" -> BishopEffectBB[to]
      [] t = "N" -> {}
      [] OTHER -> StepEffect[t][us][to]

ApproxDropMates(p, t) ==
    LET us == p.turn
        k == KingSq(p, Opp(us))
        Mates(to) == /\ t # "N" => Supported(p, us, to)
                     /\ ~ApproxKingCanEscape(p, us, to, ApproxDropMask(us, t, to))
                     /\ ~ApproxPieceCanCapture(p, Opp(us), to)
    IN  IF t \notin InHand(p, us) THEN {}
        ELSE {Drop(t, to) : to \in
                {s \in ApproxDropSquares(p, us, t, k) \ Occupied(p) : Mates(s)}}

-----------------------------------------------------------------------------
(* Board moves. *)

(* The squares a piece of type t on `from` is tried on, promoting or not:  *)
(* dragons, rooks, horses and bishops; golds and silvers; the others.      *)
ApproxMajorTargets(p, t, from, promote) ==
    LET us == p.turn
        k == KingSq(p, Opp(us))
        zone == PromotionZone[us]
        onto == PieceAttacks(t, us, from, Occupied(p)) \intersect KingEffect[k]
        lines == IF t = "R" THEN RookEffectBB[k] ELSE BishopEffectBB[k]
    IN  CASE t \in {"+R", "+B"} -> IF promote THEN {} ELSE onto
          [] from \in zone -> IF promote THEN onto ELSE {}
          [] OTHER -> IF promote THEN onto \intersect zone ELSE (onto \intersect lines) \ zone

ApproxGeneralTargets(p, t, from, promote) ==
    LET us == p.turn
        them == Opp(us)
        k == KingSq(p, them)
        zone == PromotionZone[us]
        onto == PieceAttacks(t, us, from, Occupied(p))
        gold == onto \intersect StepEffect["G"][them][k]
        silver == onto \intersect StepEffect["S"][them][k]
    IN  CASE t \in GoldLike ->
               IF promote \/ from \notin MoveCheckBB[us]["G"][k] THEN {} ELSE gold
          [] from \notin MoveCheckBB[us]["S"][k] -> {}
          [] from \in zone -> IF promote THEN gold ELSE silver \ InFrontOf(them, k)
          [] RelativeRank(from, us) > Zone -> IF promote THEN {} ELSE silver
          [] OTHER -> IF promote THEN gold \intersect zone ELSE silver

ApproxMinorTargets(p, t, from, promote) ==
    LET us == p.turn
        them == Opp(us)
        k == KingSq(p, them)
        onto == PieceAttacks(t, us, from, Occupied(p))
        Front(cond) == IF cond THEN onto \intersect StepEffect["P"][them][k] ELSE {}
    IN  CASE t \in {"N", "L"} /\ from \notin MoveCheckBB[us][t][k] -> {}
          [] t = "P" /\ RelativeRank(k, us) > Ranks - 3 -> {}
          [] promote -> onto \intersect StepEffect["G"][them][k] \intersect PromotionZone[us]
          [] t = "N" -> onto \intersect StepEffect["N"][them][k]
          [] t = "L" -> Front(RelativeRank(k, us) >= 1)
          [] t = "P" -> Front(RelativeRank(k, us) >= Zone - 1)

ApproxTargets(p, t, from, promote) ==
    CASE t \in {"+R", "+B", "R", "B"} -> ApproxMajorTargets(p, t, from, promote)
      [] t \in GoldLike \union {"S"} -> ApproxGeneralTargets(p, t, from, promote)
      [] OTHER -> ApproxMinorTargets(p, t, from, promote)

(* The squares the piece takes from the king; sliders that may be blocked  *)
(* on the way are looked at over the occupancy, without the king.          *)
ApproxMask(moved, us, to, occ) ==
    CASE moved = "+R" -> RookEffect(to, occ) \union KingEffect[to]
      [] moved = "+B" -> BishopEffectBB[to] \union KingEffect[to]
      [] moved = "R" -> RookEffectBB[to]
      [] moved = "B" -> BishopEffectBB[to]
      [] moved = "L" -> LanceMask[us][to]
      [] moved \in GoldLike -> StepEffect["G"][us][to]
      [] moved = "S" -> StepEffect["S"][us][to]
      [] OTHER -> {}

ApproxPieceMates(p, t) ==
    LET us == p.turn
        them == Opp(us)
        k == KingSq(p, them)
        pinned == Pinned(p, us)
        blockers == BlockersForKing(p, them) \intersect PiecesOf(p, us)
        Mates(m) ==
            LET q == Without(p, {m.from})
                moved == IF m.promote THEN ProOf[TypeOn(p, m.from)] ELSE TypeOn(p, m.from)
                discovers == m.from \in blockers /\ (t = "N" \/ m.to \notin LineBB[m.from][k])
            IN  /\ moved # "N" => Supported(q, us, m.to)
                /\ ~ApproxKingCanEscape(q, us, m.to,
                        ApproxMask(moved, us, m.to, Occupied(q) \ {k}))
                /\ discovers \/ ~ApproxPieceCanCapture(q, them, m.to)
                /\ ~(m.from \in pinned
                       /\ (t = "N" \/ m.to \notin LineBB[m.from][KingSq(p, us)]))
    IN  {m \in UNION {UNION {
                {[from |-> from, to |-> to, promote |-> pr, drop |-> "none"] :
                    to \in ApproxTargets(p, t, from, pr) \ PiecesOf(p, us)} :
                pr \in BOOLEAN} :
            from \in PiecesOfType(p, us, IF t = "G" THEN GoldLike ELSE {t})} : Mates(m)}

(* The moves accepted; the code returns one of them, by kind and square. *)
FindMateInOneApprox(p) ==
    IF InCheck(p, p.turn) THEN {}
    ELSE UNION {ApproxDropMates(p, t) : t \in {"R", "L", "B", "G", "S", "N"}}
         \union UNION {ApproxPieceMates(p, t) :
                         t \in {"+R", "R", "+B", "B", "G", "S", "N", "L", "P"}}
=============================================================================

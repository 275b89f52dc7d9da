--------------------------- MODULE ShogiPosition ---------------------------
(***************************************************************************)
(* Positions, attacks and what a move does to a position                   *)
(* (src/shogi/board.cc).  A position is a record of the pieces on their    *)
(* squares, the hands and the side to move; the piece and color bitboards  *)
(* of the code are sets of squares derived from it.                        *)
(***************************************************************************)
EXTENDS ShogiTables, Sequences

(* A piece is <<color, type>>. *)
ColorOn(p, s) == p.at[s][1]
TypeOn(p, s) == p.at[s][2]
Occupied(p) == DOMAIN p.at
PiecesOf(p, c) == {s \in DOMAIN p.at : p.at[s][1] = c}
PiecesOfType(p, c, types) == {s \in DOMAIN p.at : p.at[s][1] = c /\ p.at[s][2] \in types}
KingSq(p, c) == CHOOSE s \in DOMAIN p.at : p.at[s] = <<c, "K">>
Without(p, squares) == [p EXCEPT !.at = [s \in DOMAIN p.at \ squares |-> p.at[s]]]

Normal(from, to) == [from |-> from, to |-> to, promote |-> FALSE, drop |-> "none"]
Promotion(from, to) == [from |-> from, to |-> to, promote |-> TRUE, drop |-> "none"]
Drop(t, to) == [from |-> to, to |-> to, promote |-> FALSE, drop |-> t]
IsDrop(m) == m.drop # "none"

Put(at, s, piece) == [x \in DOMAIN at \union {s} |-> IF x = s THEN piece ELSE at[x]]

(* The position after a move: what DoMove does to pieces, hands and turn. *)
After(p, m) ==
    LET us == p.turn
        moved == IF m.promote THEN ProOf[TypeOn(p, m.from)] ELSE TypeOn(p, m.from)
        taken == IF m.to \in DOMAIN p.at THEN {Unpromote(TypeOn(p, m.to))} ELSE {}
    IN  [at |-> IF IsDrop(m) THEN Put(p.at, m.to, <<us, m.drop>>)
                ELSE Put(Without(p, {m.from}).at, m.to, <<us, moved>>),
         hand |-> [p.hand EXCEPT ![us] = [t \in HandTypes |->
                     IF IsDrop(m) THEN (IF t = m.drop THEN @[t] - 1 ELSE @[t])
                     ELSE IF t \in taken THEN @[t] + 1 ELSE @[t]]],
         turn |-> Opp(us)]

-----------------------------------------------------------------------------
(* Attacks. *)

PieceAttacks(t, c, s, occ) ==
    CASE t = "L" -> LanceEffect(c, s, occ)
      [] t = "B" -> BishopEffect(s, occ)
      [] t = "R" -> RookEffect(s, occ)
      [] t = "+B" -> BishopEffect(s, occ) \union StepEffect["HorseStep"][c][s]
      [] t = "+R" -> RookEffect(s, occ) \union StepEffect["DragonStep"][c][s]
      [] t \in GoldLike -> StepEffect["G"][c][s]
      [] OTHER -> StepEffect[t][c][s]

(* The pieces of color c that attack a square, found from that square with *)
(* the effects of the opposite color.                                      *)
AttackersTo(p, s, occ, c) ==
    {a \in PiecesOf(p, c) : a \in PieceAttacks(TypeOn(p, a), Opp(c), s, occ)}

IsSquareAttacked(p, s, occ, c) ==
    \E a \in PiecesOf(p, c) : a \in PieceAttacks(TypeOn(p, a), Opp(c), s, occ)

InCheck(p, c) == IsSquareAttacked(p, KingSq(p, c), Occupied(p), Opp(c))

-----------------------------------------------------------------------------
(* Moves. *)

CanPromote(t, c, from, to) ==
    t \in Promotable /\ {from, to} \intersect PromotionZone[c] # {}
MustPromote(t, c, to) ==
    \/ t \in {"P", "L"} /\ to \in LastRank[c]
    \/ t = "N" /\ to \in LastTwo[c]

Variants(t, c, from, to) ==
    (IF CanPromote(t, c, from, to) THEN {Promotion(from, to)} ELSE {})
    \union (IF MustPromote(t, c, to) THEN {} ELSE {Normal(from, to)})

(* Where color c may drop a piece of type t, out of the empty squares given. *)
DropTargets(p, c, t, empties) ==
    {s \in empties :
        /\ t \in {"P", "L"} => s \notin LastRank[c]
        /\ t = "N" => s \notin LastTwo[c]
        /\ t = "P" => ~\E o \in PiecesOfType(p, c, {"P"}) : FileOf(o) = FileOf(s)}

InHand(p, c) == {t \in HandTypes : p.hand[c][t] > 0}

GenerateDropMoves(p) ==
    UNION {{Drop(t, to) : to \in DropTargets(p, p.turn, t, Squares \ Occupied(p))} :
             t \in InHand(p, p.turn)}

-----------------------------------------------------------------------------
(* The rules, short of the one against mating with a dropped pawn: a move  *)
(* of a piece or a drop that does not leave the own king attacked.         *)
(* Attacks are looked at from the attacker.                                *)

KingAttacked(p, c) ==
    \E s \in PiecesOf(p, Opp(c)) :
        KingSq(p, c) \in PieceAttacks(TypeOn(p, s), Opp(c), s, Occupied(p))

PseudoMoves(p) ==
    GenerateDropMoves(p) \union
    UNION {UNION {Variants(TypeOn(p, from), p.turn, from, to) :
                    to \in PieceAttacks(TypeOn(p, from), p.turn, from, Occupied(p))
                           \ PiecesOf(p, p.turn)} : from \in PiecesOf(p, p.turn)}

SafeMoves(p) == {m \in PseudoMoves(p) : ~KingAttacked(After(p, m), p.turn)}
=============================================================================

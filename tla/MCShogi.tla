------------------------------ MODULE MCShogi ------------------------------
(***************************************************************************)
(* Families of positions for the checks of ShogiGame, on boards of 4 files *)
(* and 5 ranks with zones of 2 ranks.                                      *)
(***************************************************************************)
EXTENDS ShogiGame

Sq(f, r) == f * Ranks + r
Hand(b, w) == [c \in Colors |-> [t \in HandTypes |->
                  IF t \in (IF c = BLACK THEN b ELSE w) THEN 1 ELSE 0]]

(* Pieces as a set of <<square, color, type>>; nothing stands where it could never move. *)
Placed(pieces) == [s \in {x[1] : x \in pieces} |->
                     LET x == CHOOSE y \in pieces : y[1] = s IN <<x[2], x[3]>>]
Position(pieces, b, w, turn) == [at |-> Placed(pieces), hand |-> Hand(b, w), turn |-> turn]

Reachable(p) ==
    /\ ~InCheck(p, Opp(p.turn))
    /\ \A s \in Occupied(p) : ~MustPromote(TypeOn(p, s), ColorOn(p, s), s)

Static(positions) == {[pos |-> p, plies |-> 0] : p \in {q \in positions : Reachable(q)}}

(* One piece of each color about the white king, the black one anywhere, pawns in hand. *)
Pairs(k, whiteTypes, blackHand, whiteHand, turn) ==
    {Position({<<Sq(3, 4), BLACK, "K">>, <<k, WHITE, "K">>,
               <<x[1], BLACK, x[3]>>, <<x[2], WHITE, x[4]>>}, blackHand, whiteHand, turn) :
        x \in {y \in (Squares \ {k, Sq(3, 4)}) \X (KingEffect[k] \ {Sq(3, 4)})
                     \X (PieceTypes \ {"K"}) \X whiteTypes : y[1] # y[2]}}

(* A black slider bears on the white king along a line on which another    *)
(* piece, of either color, stands; a white piece is beside the king.       *)
Sliders == {"R", "B", "L", "+R", "+B"}
Lines(k) == {y \in Squares \X Squares : y[1] # Sq(3, 0) /\ y[2] \in BetweenBB[k][y[1]] \ {Sq(3, 0)}}
Batteries(k, types, hand, turn) ==
    {Position({<<Sq(3, 0), BLACK, "K">>, <<k, WHITE, "K">>, <<y[1][1], BLACK, y[2]>>,
               <<y[1][2], y[3], y[4]>>, <<y[5], WHITE, "P">>}, hand, {}, turn) :
        y \in {z \in Lines(k) \X Sliders \X Colors \X types \X KingEffect[k] :
                 z[5] \notin {z[1][1], z[1][2], Sq(3, 0)}}}

(* Two black sliders and a knight: the knight uncovers one of them and may *)
(* land on the line along which the other one pins a white piece.          *)
KnightBatteries ==
    {Position({<<Sq(2, 0), BLACK, "K">>, <<Sq(0, 4), WHITE, "K">>, <<Sq(1, 4), BLACK, "N">>,
               <<Sq(2, 4), BLACK, y[1]>>, <<Sq(3, 1), BLACK, y[2]>>,
               <<Sq(1, 3), WHITE, y[3]>>, <<Sq(0, 3), WHITE, y[4]>>,
               <<Sq(0, 2), BLACK, y[5]>>}, {}, {}, BLACK) :
        y \in {"R", "+R"} \X {"B", "+B"} \X {"P", "S", "G"} \X {"P", "L"} \X {"P", "G"}}

(* A rook that may check for ever, played five plies; pieces that are      *)
(* dropped, promoted and taken, played two.                                *)
Chase == Position({<<Sq(3, 3), BLACK, "K">>, <<Sq(0, 0), WHITE, "K">>, <<Sq(1, 4), BLACK, "R">>,
                   <<Sq(2, 3), BLACK, "P">>, <<Sq(2, 2), WHITE, "P">>}, {}, {}, BLACK)
Melee == Position({<<Sq(3, 4), BLACK, "K">>, <<Sq(0, 0), WHITE, "K">>, <<Sq(1, 1), WHITE, "+P">>,
                   <<Sq(1, 2), BLACK, "S">>, <<Sq(0, 3), BLACK, "L">>, <<Sq(0, 1), WHITE, "G">>,
                   <<Sq(3, 2), WHITE, "N">>, <<Sq(2, 1), BLACK, "B">>}, {"P", "R"}, {"P"}, BLACK)

MCStarts ==
    Static(Pairs(Sq(0, 1), {"P", "R"}, {"P"}, {"P"}, BLACK)
           \union Pairs(Sq(1, 0), {"G", "L"}, {"G"}, {"P"}, WHITE)
           \union Batteries(Sq(0, 0), {"P", "N", "S", "G", "B", "+R"}, {"P"}, BLACK)
           \union Batteries(Sq(1, 2), {"P", "L", "S", "R", "+B"}, {"P"}, WHITE)
           \union Batteries(Sq(0, 4), {"P", "N", "L", "+S"}, {"R"}, BLACK))
    \union {[pos |-> Chase, plies |-> 5], [pos |-> Melee, plies |-> 2]}
ProbeStarts == Static(KnightBatteries)
=============================================================================

---------------------------- MODULE ShogiTables ----------------------------
(***************************************************************************)
(* The geometry of the board: effects of pieces, lines between squares and *)
(* the zones from which a piece checks a king (src/shogi/bitboard.cc,      *)
(* bitboard.h).  A bitboard is a set of squares; a square is numbered file *)
(* by file, rank 0 the one BLACK moves towards.  The byte tricks of the    *)
(* sliding effects are modelled by what they compute, the squares a ray    *)
(* reaches.  The code's board has 9 files, 9 ranks and zones of 3 ranks;   *)
(* smaller boards keep every rule.                                         *)
(***************************************************************************)
EXTENDS Integers, FiniteSets

CONSTANTS
    Files,      \* files of the board, 9 in the code
    Ranks,      \* ranks of the board, 9 in the code
    Zone        \* ranks of a promotion zone, 3 in the code

ASSUME BoardAssumption ==
    /\ Files \in Nat \ {0} /\ Ranks \in Nat \ {0}
    /\ Zone \in 0..Ranks

BLACK == "black"
WHITE == "white"
Colors == {BLACK, WHITE}
Opp(c) == IF c = BLACK THEN WHITE ELSE BLACK

HandTypes == {"P", "L", "N", "S", "B", "R", "G"}
Promotable == HandTypes \ {"G"}
ProOf == [P |-> "+P", L |-> "+L", N |-> "+N", S |-> "+S", B |-> "+B", R |-> "+R"]
GoldLike == {"G", "+P", "+L", "+N", "+S"}
PieceTypes == HandTypes \union GoldLike \union {"+B", "+R", "K"}

\* Mutant: a promoted piece stays promoted.
StaysPromoted(t) == t

Unpromote(t) == IF t \in HandTypes THEN t
                ELSE CHOOSE b \in Promotable : ProOf[b] = t

Squares == 0..Files * Ranks - 1
FileOf(s) == s \div Ranks
RankOf(s) == s % Ranks

(* The square i steps of direction d away from s, as a set: empty off the board. *)
Away(s, d, i) ==
    LET f == FileOf(s) + i * d[1]
        r == RankOf(s) + i * d[2]
    IN  IF f \in 0..Files - 1 /\ r \in 0..Ranks - 1 THEN {f * Ranks + r} ELSE {}

(* The rank seen by the moving side: 0 is the last one. *)
RelativeRank(s, c) == IF c = BLACK THEN RankOf(s) ELSE Ranks - 1 - RankOf(s)

(* Sets of squares by rank, as tables of the color. *)
RanksFrom(lo, hi) == [c \in Colors |-> {s \in Squares : RelativeRank(s, c) \in lo..hi}]
PromotionZone == RanksFrom(0, Zone - 1)
LastRank == RanksFrom(0, 0)
LastTwo == RanksFrom(0, 1)
RankBeforeZone == RanksFrom(Zone, Zone)

Straight == {<<0, -1>>, <<0, 1>>, <<-1, 0>>, <<1, 0>>}
Diagonal == {<<-1, -1>>, <<-1, 1>>, <<1, -1>>, <<1, 1>>}
AheadDiagonal == {<<-1, -1>>, <<1, -1>>}

(* The steps of the pieces that step, for BLACK; WHITE's are mirrored. *)
Deltas == [
    P  |-> {<<0, -1>>},
    N  |-> {<<-1, -2>>, <<1, -2>>},
    S  |-> {<<0, -1>>} \union Diagonal,
    G  |-> Straight \union AheadDiagonal,
    K  |-> Straight \union Diagonal,
    HorseStep  |-> Straight,
    DragonStep |-> Diagonal]

StepEffect == [k \in DOMAIN Deltas |-> [c \in Colors |-> [s \in Squares |->
    UNION {Away(s, <<d[1], IF c = BLACK THEN d[2] ELSE -d[2]>>, 1) : d \in Deltas[k]}]]]

KingEffect == StepEffect["K"][BLACK]

(* The squares of the ray from s in direction d. *)
Ray(s, d) == UNION {Away(s, d, i) : i \in 1..Files + Ranks}

(* Squares strictly between two squares of one line, and the whole line;   *)
(* both empty when the squares are on no common line.                      *)
BetweenBB == [s \in Squares |-> [t \in Squares |->
    UNION {Ray(s, d) \ (Ray(t, d) \union {t}) :
             d \in {e \in Straight \union Diagonal : t \in Ray(s, e)}}]]

LineBB == [s \in Squares |-> [t \in Squares |->
    UNION {Ray(s, d) \union Ray(s, <<-d[1], -d[2]>>) \union {s} :
             d \in {e \in Straight \union Diagonal : t \in Ray(s, e)}}]]

(* Sliding effects on an empty board. *)
RookEffectBB == [s \in Squares |-> UNION {Ray(s, d) : d \in Straight}]
BishopEffectBB == [s \in Squares |-> UNION {Ray(s, d) : d \in Diagonal}]
LanceMask == [c \in Colors |-> [s \in Squares |->
    Ray(s, IF c = BLACK THEN <<0, -1>> ELSE <<0, 1>>)]]

(* Sliding effects over an occupancy: the empty-board squares with nothing between. *)
Reached(s, empty, occ) == {t \in empty : BetweenBB[s][t] \intersect occ = {}}
RookEffect(s, occ) == Reached(s, RookEffectBB[s], occ)
BishopEffect(s, occ) == Reached(s, BishopEffectBB[s], occ)
LanceEffect(c, s, occ) == Reached(s, LanceMask[c][s], occ)

(* The squares from which a piece of color c attacks the king's square on   *)
(* an empty board, by table look-up from the piece's square.                *)
CheckFrom(effect) == [k \in Squares |-> {s \in Squares : k \in effect[s]}]
CheckBB == [c \in Colors |-> [
    P |-> CheckFrom(StepEffect["P"][c]),
    N |-> CheckFrom(StepEffect["N"][c]),
    S |-> CheckFrom(StepEffect["S"][c]),
    G |-> CheckFrom(StepEffect["G"][c]),
    L |-> CheckFrom(LanceMask[c]),
    B |-> CheckFrom(BishopEffectBB)]]
HorseCheckBB == [k \in Squares |-> CheckBB[BLACK]["B"][k] \union StepEffect["HorseStep"][BLACK][k]]

(* The squares from which a piece has at least one move, promotion         *)
(* included, that checks the king on k.  Backwards(effect, targets): the   *)
(* squares from which one of targets is reached, effect being the          *)
(* opponent's, seen from the target.                                       *)
Backwards(effect, targets) == UNION {effect[t] : t \in targets}

MoveCheckBB == [c \in Colors |-> LET
    gold == StepEffect["G"][Opp(c)]
    silver == StepEffect["S"][Opp(c)]
    knight == StepEffect["N"][Opp(c)]
    pawn == StepEffect["P"][Opp(c)]
    lance == LanceMask[Opp(c)]
    zone == PromotionZone[c]
    bishop == BishopEffectBB
    horse == [s \in Squares |-> BishopEffectBB[s] \union StepEffect["HorseStep"][BLACK][s]]
  IN [
    G |-> [k \in Squares |-> Backwards(gold, gold[k]) \ ({k} \union gold[k])],
    S |-> [k \in Squares |->
             (Backwards(silver, silver[k])
                \union (Backwards(silver, gold[k]) \intersect zone)
                \union (Backwards(silver, gold[k] \intersect zone)
                          \intersect RankBeforeZone[c]))
             \ ({k} \union silver[k])],
    N |-> [k \in Squares |->
             Backwards(knight, knight[k]) \union Backwards(knight, gold[k] \intersect zone)],
    L |-> [k \in Squares |->
             (lance[k] \union Backwards(lance, gold[k] \intersect zone))
             \ ({k} \union pawn[k])],
    P |-> [k \in Squares |->
             (Backwards(pawn, pawn[k]) \union Backwards(pawn, gold[k] \intersect zone)) \ {k}],
    B |-> [k \in Squares |->
             (Backwards(bishop, bishop[k])
                \union Backwards(bishop, KingEffect[k] \intersect zone)
                \union (Backwards(bishop, KingEffect[k]) \intersect zone)) \ {k}],
    Horse |-> [k \in Squares |-> Backwards(horse, horse[k]) \ {k}]]]
=============================================================================

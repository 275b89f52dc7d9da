----------------------------- MODULE ShogiPlay -----------------------------
(***************************************************************************)
(* The board as a machine: moves made and taken back, the hash kept up     *)
(* with them, the history and the counters of checks that repetition is    *)
(* judged by (src/shogi/board.cc, DoMove to UndoMove and CheckRepetition). *)
(* A hash is the set of the Zobrist keys xored into it; xor is symmetric   *)
(* difference, and distinct sets are distinct hashes.                      *)
(***************************************************************************)
EXTENDS ShogiPosition

CONSTANT Starts     \* records [pos, plies]: a position and how far it is played

(* A game starts from pieces on squares and counted hands, with one king   *)
(* on either side and nobody's king to be taken.                           *)
IsPosition(p) ==
    /\ p = [at |-> p.at, hand |-> p.hand, turn |-> p.turn]
    /\ DOMAIN p.at \subseteq Squares
    /\ p.at \in [DOMAIN p.at -> Colors \X PieceTypes]
    /\ p.hand \in [Colors -> [HandTypes -> Nat]]
    /\ p.turn \in Colors
    /\ \A c \in Colors : \E k \in DOMAIN p.at : \A s \in DOMAIN p.at :
          p.at[s] = <<c, "K">> <=> s = k

ASSUME StartsAssumption ==
    \A start \in Starts : /\ IsPosition(start.pos)
                          /\ ~KingAttacked(start.pos, Opp(start.pos.turn))
                          /\ start.plies \in Nat

VARIABLES
    pos,        \* board_, hand_, side_to_move_
    hash,       \* hash_
    history,    \* history_: hash and hands of the positions before
    checks,     \* continuous_check_
    frames,     \* the caller's: the moves made, with their UndoInfo, and
                \* (for the properties only) the state before each
    plies       \* bound: plies that may still be played

vars == <<pos, hash, history, checks, frames, plies>>

Xor(a, b) == (a \ b) \union (b \ a)

PsqKey(piece, s) == {<<"psq", piece[1], piece[2], s>>}
HashHand(c, hand) == {<<"hand", c, t, hand[t]>> : t \in {u \in HandTypes : hand[u] > 0}}
SideKey == {<<"side">>}

(* From scratch. *)
ComputeHash(p) ==
    (UNION {PsqKey(p.at[s], s) : s \in Occupied(p)})
    \union HashHand(BLACK, p.hand[BLACK]) \union HashHand(WHITE, p.hand[WHITE])
    \union (IF p.turn = WHITE THEN SideKey ELSE {})

(* What a move xors in: the keys of the pieces, and those of the mover's hand. *)
PieceKeys(p, m) ==
    LET us == p.turn
        piece == p.at[m.from]
        placed == IF m.promote THEN <<us, ProOf[piece[2]]>> ELSE piece
        captured == IF m.to \in Occupied(p) THEN PsqKey(p.at[m.to], m.to) ELSE {}
    IN  IF IsDrop(m) THEN PsqKey(<<us, m.drop>>, m.to)
        ELSE Xor(captured, Xor(PsqKey(piece, m.from), PsqKey(placed, m.to)))

\* Mutant: a capture leaves the hand out of the hash.
HandKeysOfDropsOnly(p, m) ==
    IF IsDrop(m) THEN Xor(HashHand(p.turn, p.hand[p.turn]),
                          HashHand(p.turn, After(p, m).hand[p.turn])) ELSE {}

HandKeys(p, m) ==
    LET us == p.turn
    IN  IF IsDrop(m) \/ m.to \in Occupied(p)
        THEN Xor(HashHand(us, p.hand[us]), HashHand(us, After(p, m).hand[us])) ELSE {}

HashAfter(p, h, m) == Xor(Xor(h, Xor(PieceKeys(p, m), HandKeys(p, m))), SideKey)

(* The hash without its hands, now and after a move. *)
BoardKey(p, h) == Xor(h, Xor(HashHand(BLACK, p.hand[BLACK]), HashHand(WHITE, p.hand[WHITE])))
BoardKeyAfter(p, h, m) == Xor(Xor(BoardKey(p, h), PieceKeys(p, m)), SideKey)

Init ==
    \E start \in Starts :
        /\ pos = start.pos /\ plies = start.plies
        /\ hash = ComputeHash(pos)
        /\ history = <<>> /\ frames = <<>>
        /\ checks = [c \in Colors |-> 0]

DoMove(m) ==
    LET us == pos.turn
        undo == [hand |-> pos.hand[us], hash |-> hash, checks |-> checks[us],
                 captured |-> IF ~IsDrop(m) /\ m.to \in Occupied(pos)
                              THEN {pos.at[m.to]} ELSE {}]
    IN  /\ plies > 0
        /\ history' = Append(history, [hash |-> hash, hand |-> pos.hand])
        /\ pos' = After(pos, m)
        /\ hash' = HashAfter(pos, hash, m)
        /\ checks' = [checks EXCEPT ![us] = IF InCheck(pos', Opp(us)) THEN @ + 2 ELSE 0]
        /\ frames' = Append(frames, [move |-> m, undo |-> undo,
                                     before |-> <<pos, hash, checks>>])
        /\ plies' = plies - 1

(* The state a move is taken back to, from the move and its UndoInfo. *)
Undone(m, undo) ==
    LET us == Opp(pos.turn)
        piece == pos.at[m.to]
        back == IF m.promote THEN <<us, Unpromote(piece[2])>> ELSE piece
        rest == Without(pos, {m.to}).at
        restored == IF undo.captured = {} THEN rest
                    ELSE Put(rest, m.to, CHOOSE x \in undo.captured : TRUE)
        at == IF IsDrop(m) THEN rest ELSE Put(restored, m.from, back)
        hand == IF IsDrop(m) \/ undo.captured # {} THEN undo.hand ELSE pos.hand[us]
    IN  <<[at |-> at, hand |-> [pos.hand EXCEPT ![us] = hand], turn |-> us],
          undo.hash, [checks EXCEPT ![us] = undo.checks]>>

UndoMove ==
    /\ frames # <<>>
    /\ LET top == frames[Len(frames)]
           back == Undone(top.move, top.undo)
       IN  pos' = back[1] /\ hash' = back[2] /\ checks' = back[3]
    /\ history' = SubSeq(history, 1, Len(history) - 1)
    /\ frames' = SubSeq(frames, 1, Len(frames) - 1)
    /\ plies' = plies + 1

(* Any moves within the rules: what is proved of them holds for every choice among them. *)
PlayNext ==
    \/ \E m \in SafeMoves(pos) : DoMove(m)
    \/ UndoMove

PlaySpec == Init /\ [][PlayNext]_vars

-----------------------------------------------------------------------------
(* Repetition. *)

RepetitionCount ==
    Cardinality({i \in DOMAIN history : history[i] = [hash |-> hash, hand |-> pos.hand]})

\* Mutant: the side to move must have checked for longer than the cycle.
VerdictStrict(dist) ==
    IF checks[pos.turn] > dist THEN "loss"
    ELSE IF checks[Opp(pos.turn)] >= dist THEN "win" ELSE "draw"

Verdict(dist) ==
    IF checks[pos.turn] >= dist THEN "loss"
    ELSE IF checks[Opp(pos.turn)] >= dist THEN "win" ELSE "draw"

(* CheckRepetition, looking back at most `back` plies: the distance and the verdict. *)
CheckRepetition(back) ==
    LET n == Len(history)
        dists == {d \in 4..(IF back > 0 /\ back < n THEN back ELSE n) :
                    d % 2 = 0 /\ history[n + 1 - d] = [hash |-> hash, hand |-> pos.hand]}
        dist == CHOOSE d \in dists : \A e \in dists : d <= e
    IN  IF dists = {} THEN <<0, "none">> ELSE <<dist, Verdict(dist)>>

-----------------------------------------------------------------------------
(* Properties. *)

(* Taking back the last move restores position, hash and counters          *)
(* (DoMove, UndoMove).                                                     *)
UndoRestores ==
    frames # <<>> =>
        LET top == frames[Len(frames)] IN Undone(top.move, top.undo) = top.before

(* The hash kept up with the moves is the hash of the position, and the    *)
(* key without hands that was foretold for a move is the one it led to     *)
(* (DoMoveInternal, HashAfter, ComputeHash, BoardKeyAfter).                *)
HashExact ==
    /\ hash = ComputeHash(pos)
    /\ BoardKey(pos, hash) = ComputeHash([pos EXCEPT !.hand = [c \in Colors |-> [t \in HandTypes |-> 0]]])
    /\ frames # <<>> =>
          LET top == frames[Len(frames)]
          IN  BoardKeyAfter(top.before[1], top.before[2], top.move) = BoardKey(pos, hash)

(* The position d plies ago, and whether the move made then gave check. *)
Past(d) == IF d = 0 THEN pos ELSE frames[Len(frames) + 1 - d].before[1]
GaveCheck(d) == KingAttacked(Past(d - 1), Past(d - 1).turn)

(* The verdict on a repetition is the rule's, at the nearest occurrence:   *)
(* a side that checked with every move since then has lost, otherwise it   *)
(* is a draw (CheckRepetition, continuous_check_).                         *)
RepetitionExact ==
    LET same == {d \in 1..Len(frames) : Past(d) = pos}
        d == CHOOSE e \in same : \A f \in same : e <= f
        Perpetual(first) == \A j \in {i \in 1..d : i % 2 = first} : GaveCheck(j)
    IN  CheckRepetition(0) =
            IF same = {} THEN <<0, "none">>
            ELSE <<d, IF Perpetual(0) THEN "loss" ELSE IF Perpetual(1) THEN "win" ELSE "draw">>
=============================================================================

----------------------------- MODULE MateGraph -----------------------------
(***************************************************************************)
(* What the mate solvers see of a game (src/mate/): positions in which the *)
(* attacker is to move (odd numbers) and in which the defender, in check,  *)
(* is to move (even numbers), the checks and the evasions that lead from   *)
(* one to the next, in the order the move generator has them, and the      *)
(* verdict of the board on a repetition.                                   *)
(***************************************************************************)
EXTENDS Integers, Sequences, FiniteSets, SequencesExt, FiniteSetsExt

CONSTANTS
    Lookback,      \* kRepetitionLookbackPly (16)
    INF            \* the infinity of df-pn (2^32 - 16), above every sum of its numbers

(* A problem: moves[p], the positions that follow p; past, the positions   *)
(* of the game before the root; checked, the positions in which the player *)
(* to move is in check; seen, where the approximate probe finds the mate;  *)
(* misjudged, the moves of which FindMateInOneNonCheck says the wrong      *)
(* thing.  It takes pins as they are with the moved piece lifted off, so   *)
(* that it accepts checks that are no mates, and passes by some that are.  *)
Root == 1
IsProblem(g) ==
    LET positions == DOMAIN g.moves
    IN  /\ positions \subseteq Nat \ {0} /\ Root \in positions
        /\ g.moves \in [positions -> Seq(positions)]
        /\ g.past \in Seq(positions)

CONSTANT Problems
ASSUME MateAssumption == INF \in Nat \ {0} /\ \A g \in Problems : IsProblem(g)

Attack(p) == p % 2 = 1
Moves(g, p) == g.moves[p]
IsMated(g, p) == ~Attack(p) /\ Moves(g, p) = <<>>

Mates(g, p) == {i \in DOMAIN Moves(g, p) : IsMated(g, Moves(g, p)[i])}
Misjudged(g, p, q) == p \notin g.checked /\ <<p, q>> \in g.misjudged

(* The probes for a mate in one: the first move they accept, as a sequence *)
(* of at most one.  In check every move is made and judged.  The           *)
(* approximate probe misses some mates, and counterchecks all.             *)
FirstMove(g, p, accepted) == IF accepted = {} THEN <<>> ELSE <<Moves(g, p)[Min(accepted)]>>
FindMateInOneNonCheck(g, p) ==
    FirstMove(g, p, {i \in DOMAIN Moves(g, p) : (i \in Mates(g, p)) # Misjudged(g, p, Moves(g, p)[i])})
FindMateInOne(g, p) ==
    IF p \in g.checked THEN FirstMove(g, p, Mates(g, p)) ELSE FindMateInOneNonCheck(g, p)
FindMateInOneApprox(g, p) == IF p \in g.seen THEN FirstMove(g, p, Mates(g, p)) ELSE <<>>

(* A line: the positions of the game, the past included, to the present one. *)
Here(line) == Last(line)
RootLine(g) == Append(g.past, Root)

(* Twice the number of the last moves of a side, all of them checks: what  *)
(* the board counts in continuous_check_.                                  *)
ContinuousChecks(g, line, attacker) ==
    LET made == {i \in 2..Len(line) : Attack(line[i]) # attacker}
        quiet == {i \in made : line[i] \notin g.checked}
    IN  2 * Cardinality({i \in made : \A j \in quiet : j < i})

(* CheckRepetition at the end of the line: <<distance, whether the verdict *)
(* is for the attacker>>, distance 0 without a repetition.  The player to  *)
(* move is judged first, and loses if all his moves were checks.           *)
CheckRepetition(g, line, back) ==
    LET n == Len(line)
        dists == {d \in 4..Min({n - 1, back}) : d % 2 = 0 /\ line[n - d] = line[n]}
        d == Min(dists)
        toMove == Attack(line[n])
        Loses(side) == ContinuousChecks(g, line, side) >= d
    IN  IF dists = {} THEN <<0, FALSE>>
        ELSE <<d, IF toMove THEN ~Loses(TRUE) /\ Loses(FALSE) ELSE Loses(FALSE)>>
=============================================================================

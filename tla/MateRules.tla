----------------------------- MODULE MateRules -----------------------------
(***************************************************************************)
(* What the solvers' answers are compared with: mates by the rules of the  *)
(* game.                                                                   *)
(***************************************************************************)
EXTENDS MateGraph

(* The reference: whether the attacker mates by force from the end of a    *)
(* line, a repetition ending the game; within so many plies.  A check      *)
(* taken for a mate wins here too: InFact is the problem without those.    *)
Unlimited == 1000
InFact(g) == [g EXCEPT !.misjudged = {}]
TakenForMate(g, p, q) == Misjudged(g, p, q) /\ ~IsMated(g, q)

RECURSIVE ForcedMate(_, _, _)
ForcedMate(g, line, plies) ==
    LET p == Here(line)
        Wins(q) ==
            LET next == Append(line, q)
                rep == CheckRepetition(g, next, Len(next))
            IN  IF rep[1] > 0 THEN rep[2] ELSE ForcedMate(g, next, plies - 1)
        moves == ToSet(Moves(g, p))
    IN  IF plies = 0 THEN IsMated(g, p)
        ELSE IF Attack(p) THEN \E q \in moves : TakenForMate(g, p, q) \/ Wins(q)
        ELSE \A q \in moves : Wins(q)

(* A mating line: every move is one of the game's, none repeats but the    *)
(* last, and that is mate, or a repetition the attacker wins by, or a      *)
(* check taken for a mate.                                                 *)
IsMatingLine(g, pv) ==
    LET line == RootLine(g) \o pv
        n == Len(g.past) + 1
    IN  /\ \A i \in n..(Len(line) - 1) : line[i + 1] \in ToSet(Moves(g, line[i]))
        /\ \A i \in (n + 1)..(Len(line) - 1) : CheckRepetition(g, SubSeq(line, 1, i), i)[1] = 0
        /\ \/ IsMated(g, Here(line))
           \/ CheckRepetition(g, line, Len(line))[2]
           \/ Attack(Here(Front(line))) /\ TakenForMate(g, Here(Front(line)), Here(line))
=============================================================================

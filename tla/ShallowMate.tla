---------------------------- MODULE ShallowMate ----------------------------
(***************************************************************************)
(* The search for a mate in at most 1, 3, 5 or 7 plies, with which leaves  *)
(* and root moves are probed (src/mate/shallow_mate.h), and its            *)
(* cancellation: the search polls a stop flag and a deadline at every      *)
(* move, and a poll that says stop makes it return false without having    *)
(* found out.  A result is whether there is a mate, and the polls left     *)
(* before one says stop; after that a stop flag says stop again, while a   *)
(* deadline is looked at at some of the polls only.                        *)
(***************************************************************************)
EXTENDS MateGraph

SearchLimits(polls, sticky) == [left |-> polls, sticky |-> sticky, cancelled |-> FALSE]
ShouldStop(lim) == lim.left = 0 \/ (lim.sticky /\ lim.left < 0)
Polled(lim) == [lim EXCEPT !.left = @ - 1, !.cancelled = @ \/ ShouldStop(lim)]
Result(mate, lim) == [mate |-> mate, lim |-> lim]

\* Mutant: a draw by repetition is no obstacle for the attacker.
VerdictDrawsOpen(g, line) ==
    LET rep == CheckRepetition(g, line, Lookback)
    IN  IF rep[1] = 0 \/ ~rep[2] THEN "open" ELSE "mate"

(* The verdict of a repetition: "mate", "escape" or "open".                *)
Verdict(g, line) ==
    LET rep == CheckRepetition(g, line, Lookback)
    IN  IF rep[1] = 0 THEN "open" ELSE IF rep[2] THEN "mate" ELSE "escape"

MateInOne(g, line, lim) ==
    IF ShouldStop(lim) THEN Result(FALSE, Polled(lim))
    ELSE Result(FindMateInOne(g, Here(line)) # <<>>, Polled(lim))

(* The third ply of MateIn3Ply: every evasion from the i-th on is answered *)
(* by a mate in one; a countercheck counts as an escape.                   *)
RECURSIVE AllEvasionsLose(_, _, _, _)
AllEvasionsLose(g, line, i, lim) ==
    LET evasions == Moves(g, Here(line))
        next == Append(line, evasions[i])
        polled == Polled(lim)
        found == FindMateInOneNonCheck(g, evasions[i]) # <<>>
    IN  IF i > Len(evasions) THEN Result(TRUE, lim)
        ELSE IF ShouldStop(lim) \/ evasions[i] \in g.checked THEN Result(FALSE, polled)
        ELSE IF Verdict(g, next) = "escape" THEN Result(FALSE, polled)
        ELSE IF Verdict(g, next) = "mate" THEN AllEvasionsLose(g, line, i + 1, polled)
        ELSE IF ShouldStop(polled) \/ ~found THEN Result(FALSE, Polled(polled))
        ELSE AllEvasionsLose(g, line, i + 1, Polled(polled))

RECURSIVE ChecksFrom(_, _, _, _, _), EvasionsFrom(_, _, _, _, _)

MateInOddPly(g, line, depth, lim) ==
    IF depth = 1 THEN MateInOne(g, line, lim)
    ELSE IF ShouldStop(lim) THEN Result(FALSE, Polled(lim))
    ELSE ChecksFrom(g, line, depth, 1, Polled(lim))

MateInEvenPly(g, line, depth, lim) ==
    IF ShouldStop(lim) THEN Result(FALSE, Polled(lim))
    ELSE EvasionsFrom(g, line, depth, 1, Polled(lim))

(* Some check from the i-th on mates within `depth` plies.                 *)
ChecksFrom(g, line, depth, i, lim) ==
    LET checks == Moves(g, Here(line))
        next == Append(line, checks[i])
        polled == Polled(lim)
        below == IF depth = 3 THEN AllEvasionsLose(g, next, 1, polled)
                 ELSE MateInEvenPly(g, next, depth - 1, polled)
    IN  IF i > Len(checks) THEN Result(FALSE, lim)
        ELSE IF ShouldStop(lim) THEN Result(FALSE, polled)
        ELSE IF Verdict(g, next) = "mate" THEN Result(TRUE, polled)
        ELSE IF Verdict(g, next) = "escape" THEN ChecksFrom(g, line, depth, i + 1, polled)
        ELSE IF below.lim.cancelled THEN Result(FALSE, below.lim)
        ELSE IF below.mate THEN below
        ELSE ChecksFrom(g, line, depth, i + 1, below.lim)

(* Every evasion from the i-th on is mated.                                *)
EvasionsFrom(g, line, depth, i, lim) ==
    LET evasions == Moves(g, Here(line))
        next == Append(line, evasions[i])
        polled == Polled(lim)
        below == MateInOddPly(g, next, depth - 1, polled)
    IN  IF i > Len(evasions) THEN Result(TRUE, lim)
        ELSE IF ShouldStop(lim) THEN Result(FALSE, polled)
        ELSE IF Verdict(g, next) = "mate" THEN EvasionsFrom(g, line, depth, i + 1, polled)
        ELSE IF Verdict(g, next) = "escape" THEN Result(FALSE, polled)
        ELSE IF below.lim.cancelled \/ ~below.mate THEN Result(FALSE, below.lim)
        ELSE EvasionsFrom(g, line, depth, i + 1, below.lim)

HasMateWithin(g, line, depth, lim) == MateInOddPly(g, line, depth, lim)

ProbeMateWithin(g, line, depth, lim) ==
    LET result == HasMateWithin(g, line, depth, lim)
    IN  IF result.lim.cancelled THEN "cancelled" ELSE IF result.mate THEN "mate" ELSE "no mate"
=============================================================================

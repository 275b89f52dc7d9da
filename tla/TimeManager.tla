----------------------------- MODULE TimeManager -----------------------------
(***************************************************************************)
(* TimeManager::Compute: from the clock of a `go` and the engine's options *)
(* to the deadlines of one search.  Times are milliseconds.  The duration  *)
(* of the search, a float of seconds in the code, is a number of           *)
(* twentieths of a millisecond, in which 0.9, 0.8 and 0.05 are whole; 0    *)
(* means no limit.                                                         *)
(***************************************************************************)
EXTENDS Integers

Larger(a, b)  == IF a > b THEN a ELSE b
Smaller(a, b) == IF a < b THEN a ELSE b
Clamp(x, lo, hi) == Larger(lo, Smaller(x, hi))

Modes == {"off", "shadow", "on"}

TimeControl ==
  [main : Nat, inc : Nat, byoyomi : Nat, movetime : Nat, ply : Nat,
   hasMain : BOOLEAN, hasNodes : BOOLEAN, infinite : BOOLEAN, ponder : BOOLEAN]

(* The option parsers clamp all of them, extension to 100 percent or more.  *)
TimeOptions ==
  [cap : Nat, cap1m : Nat, overhead : Nat, extension : {e \in Nat : e >= 100},
   mode : Modes]

TimeBudget ==
  [mode : Modes, mcts : Nat, hard : Nat, earliest : Nat, target : Nat,
   latest : Nat, response : Nat, earlyStop : BOOLEAN, mayExtend : BOOLEAN]

ActiveMoveCap(c, o) ==
  IF o.cap1m > 0 /\ 0 < c.main /\ c.main < 60000 THEN o.cap1m ELSE o.cap

UnguardedShare(c, o) ==    \* a mutant: no millisecond is left of a short move time
  IF c.movetime > 0 THEN 20 * (c.movetime - o.overhead)
  ELSE IF c.byoyomi > 0 THEN 18 * c.byoyomi ELSE 0

(* The share of the clock the legacy policy gives a search without a cap.  *)
LegacyShare(c, o) ==
  IF c.movetime > 0 THEN 20 * Larger(c.movetime - o.overhead, 1)
  ELSE IF c.byoyomi > 0 THEN 18 * c.byoyomi
  ELSE IF c.hasMain THEN Larger(c.main + 16 * c.inc, 2000)
  ELSE 0

LegacyMcts(c, o) ==
  LET share  == LegacyShare(c, o)
      capped == 20 * Larger(ActiveMoveCap(c, o) - 500, 500)
  IN  IF c.movetime = 0 /\ ActiveMoveCap(c, o) > 0 /\ (share = 0 \/ capped < share)
      THEN capped ELSE share

LegacyHard(c, o) ==
  IF c.movetime > 0 THEN c.movetime
  ELSE IF ActiveMoveCap(c, o) > 0 THEN ActiveMoveCap(c, o)
  ELSE IF LegacyMcts(c, o) > 0 THEN LegacyMcts(c, o) \div 20 + 2000
  ELSE 0

ComputeLegacy(c, o) ==
  [mode |-> o.mode, mcts |-> LegacyMcts(c, o), hard |-> LegacyHard(c, o),
   earliest |-> 0, target |-> 0, latest |-> 0, response |-> 0,
   earlyStop |-> FALSE, mayExtend |-> FALSE]

(* main / PhaseDivisor + 0.8 inc, rounded: the divisor goes from 40 at the *)
(* first ply to 14 from the fortieth on.                                   *)
PhaseShare(c) ==
  LET d == 1600 - 26 * Smaller(c.ply, 40)       \* forty times the divisor
  IN  (400 * c.main + 8 * c.inc * d + 5 * d) \div (10 * d)

PureByoyomi(c) == c.byoyomi > 0 /\ ~c.hasMain /\ c.inc = 0

CapOnly(c, o) ==
  /\ ActiveMoveCap(c, o) > 0
  /\ c.movetime = 0 /\ ~c.hasMain /\ c.main = 0 /\ c.byoyomi = 0

(* What the clock leaves, the increment not counted: it comes after the    *)
(* move.  0: no clock.                                                     *)
ClockDeadline(c, o) ==
  IF c.movetime > 0 THEN Larger(c.movetime - o.overhead, 1)
  ELSE IF c.main > 0 \/ c.byoyomi > 0
       THEN Larger(c.main + c.byoyomi - o.overhead, 1)
  ELSE IF c.hasMain THEN 1 ELSE 0

ResponseDeadline(c, o) ==
  LET clock  == ClockDeadline(c, o)
      capped == Larger(ActiveMoveCap(c, o) - o.overhead, 1)
  IN  IF ActiveMoveCap(c, o) = 0 THEN clock
      ELSE IF clock > 0 THEN Smaller(clock, capped) ELSE capped

ByoyomiFloor(c, o) == Larger(c.byoyomi - o.overhead, 0)

UnboundedTarget(c, o) == Larger(Larger(PhaseShare(c), ByoyomiFloor(c, o)), 100)

TargetStop(c, o) ==
  LET response == ResponseDeadline(c, o)
  IN  IF c.movetime > 0 \/ PureByoyomi(c) \/ CapOnly(c, o) THEN response
      ELSE Smaller(UnboundedTarget(c, o), response)

EarliestUnbounded(c, o) == \* a mutant: 100 ms even if the target is below
  Larger(Larger(100, TargetStop(c, o) \div 10), ByoyomiFloor(c, o))

EarliestStop(c, o) ==
  LET target == TargetStop(c, o)
  IN  IF PureByoyomi(c) THEN target
      ELSE Smaller(Larger(Larger(100, target \div 10), ByoyomiFloor(c, o)), target)

AllowExtension(c) ==
  c.movetime = 0 /\ ~PureByoyomi(c) /\ c.hasMain /\ c.main >= 10000 /\ ~c.hasNodes

ExtensionPercent(c, o) ==
  IF ~AllowExtension(c) THEN 100
  ELSE IF c.main < 60000 THEN Smaller(o.extension, 125) ELSE o.extension

LatestSearch(c, o) ==
  Clamp((TargetStop(c, o) * ExtensionPercent(c, o)) \div 100,
        TargetStop(c, o), ResponseDeadline(c, o))

AllowEarlyStop(c, o) ==
  /\ ~PureByoyomi(c) /\ ~CapOnly(c, o)
  /\ c.movetime = 0 /\ c.main > 0 /\ ~c.hasNodes

(* The adaptive time points; in mode "shadow" the legacy limits stand.     *)
AdaptiveBudget(c, o) ==
  LET latest == LatestSearch(c, o)
      on     == o.mode = "on"
  IN  [mode |-> o.mode,
       mcts |-> IF on THEN 20 * latest ELSE LegacyMcts(c, o),
       hard |-> IF on THEN ResponseDeadline(c, o) ELSE LegacyHard(c, o),
       earliest |-> EarliestStop(c, o), target |-> TargetStop(c, o),
       latest |-> latest, response |-> ResponseDeadline(c, o),
       earlyStop |-> AllowEarlyStop(c, o),
       mayExtend |-> AllowExtension(c) /\ latest > TargetStop(c, o)]

Compute(c, o) ==
  IF c.infinite THEN [ComputeLegacy(c, o) EXCEPT !.mcts = 0, !.hard = 0]
  ELSE IF o.mode = "off" \/ c.ponder \/ ResponseDeadline(c, o) = 0
       THEN ComputeLegacy(c, o)
  ELSE AdaptiveBudget(c, o)

HasAdaptiveDeadline(b) == b.target > 0 /\ b.latest > 0

(* CmdGo's parameters, as far as they reach the time control: `infinite`   *)
(* and `ponder` are parsed into GoParameters and not into it.  mine and    *)
(* theirs are the players' clocks.                                         *)
ParseGoParameters(g) ==
  [main |-> g.mine, inc |-> g.inc, byoyomi |-> g.byoyomi, movetime |-> g.movetime,
   ply |-> g.ply, hasMain |-> g.mine > 0 \/ g.theirs > 0, hasNodes |-> g.nodes,
   infinite |-> FALSE, ponder |-> FALSE]
=============================================================================

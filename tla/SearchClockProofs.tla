-------------------------- MODULE SearchClockProofs --------------------------
(***************************************************************************)
(* Proofs about SearchClock, for any number of threads, any clocks and any *)
(* options: the deadlines are in order, the controller is used by one      *)
(* thread at a time, and its last word is recorded.                        *)
(***************************************************************************)
EXTENDS SearchClock, TLAPS

-----------------------------------------------------------------------------
(* TimeManager::Compute.                                                   *)

LEMMA PhaseShareInt ==
  ASSUME NEW c \in TimeControl PROVE PhaseShare(c) \in Int
<1> DEFINE d == 1600 - 26 * Smaller(c.ply, 40)
<1>1. c.ply \in Nat /\ c.main \in Nat /\ c.inc \in Nat
  BY DEF TimeControl
<1>2. d \in Nat /\ d > 0
  BY <1>1 DEF Smaller
<1> HIDE DEF d
<1>3. 8 * c.inc * d \in Nat
  BY <1>1, <1>2
<1>4. 400 * c.main + 8 * c.inc * d + 5 * d \in Int
  BY <1>1, <1>2, <1>3
<1>5. 10 * d \in Nat /\ 10 * d > 0
  BY <1>2
<1> DEFINE n == 400 * c.main + 8 * c.inc * d + 5 * d
           m == 10 * d
<1>6. n \in Int /\ m \in Nat /\ m > 0
  BY <1>4, <1>5
<1> HIDE DEF n, m
<1>7. n \div m \in Int
  BY <1>6
<1> QED
  BY <1>7 DEF PhaseShare, d, n, m

LEMMA OptionsTyped ==
  ASSUME NEW c \in TimeControl, NEW o \in TimeOptions
  PROVE  /\ c.main \in Nat /\ c.inc \in Nat /\ c.byoyomi \in Nat /\ c.movetime \in Nat
         /\ o.overhead \in Nat /\ o.extension \in Nat /\ o.mode \in Modes
         /\ o.extension >= 100
         /\ ActiveMoveCap(c, o) \in Nat
<1>1. c.main \in Nat /\ c.inc \in Nat /\ c.byoyomi \in Nat /\ c.movetime \in Nat
  BY DEF TimeControl
<1>2. /\ o.overhead \in Nat /\ o.extension \in Nat /\ o.extension >= 100
      /\ o.mode \in Modes /\ o.cap \in Nat /\ o.cap1m \in Nat
  BY DEF TimeOptions
<1>3. ActiveMoveCap(c, o) \in Nat
  BY <1>2 DEF ActiveMoveCap
<1> QED
  BY <1>1, <1>2, <1>3

LEMMA LegacyTyped ==
  ASSUME NEW c \in TimeControl, NEW o \in TimeOptions
  PROVE  LegacyMcts(c, o) \in Nat /\ LegacyHard(c, o) \in Nat
<1>1. LegacyShare(c, o) \in Nat
  BY OptionsTyped DEF LegacyShare, Larger
<1>2. LegacyMcts(c, o) \in Nat
  BY <1>1, OptionsTyped DEF LegacyMcts, Larger
<1>3. LegacyHard(c, o) \in Nat
  BY <1>2, OptionsTyped DEF LegacyHard
<1> QED
  BY <1>2, <1>3

LEMMA ResponseTyped ==
  ASSUME NEW c \in TimeControl, NEW o \in TimeOptions
  PROVE  ResponseDeadline(c, o) \in Nat
<1>1. ClockDeadline(c, o) \in Nat
  BY OptionsTyped DEF ClockDeadline, Larger
<1> QED
  BY <1>1, OptionsTyped DEF ResponseDeadline, Larger, Smaller

(* The order of the time points, when there is a response time at all.     *)
LEMMA TimePointsOrdered ==
  ASSUME NEW c \in TimeControl, NEW o \in TimeOptions, ResponseDeadline(c, o) # 0
  PROVE  /\ EarliestStop(c, o) \in Nat /\ TargetStop(c, o) \in Nat
         /\ LatestSearch(c, o) \in Nat
         /\ 0 < EarliestStop(c, o) /\ EarliestStop(c, o) <= TargetStop(c, o)
         /\ TargetStop(c, o) <= LatestSearch(c, o)
         /\ LatestSearch(c, o) <= ResponseDeadline(c, o)
<1>1. ResponseDeadline(c, o) \in Nat /\ ResponseDeadline(c, o) > 0
  BY ResponseTyped
<1>2. ByoyomiFloor(c, o) \in Nat
  BY OptionsTyped DEF ByoyomiFloor, Larger
<1>3. UnboundedTarget(c, o) \in Int /\ UnboundedTarget(c, o) >= 100
  BY <1>2, PhaseShareInt DEF UnboundedTarget, Larger
<1>4. /\ TargetStop(c, o) \in Nat /\ TargetStop(c, o) > 0
      /\ TargetStop(c, o) <= ResponseDeadline(c, o)
  BY <1>1, <1>3 DEF TargetStop, Smaller
<1>5. /\ EarliestStop(c, o) \in Nat /\ EarliestStop(c, o) > 0
      /\ EarliestStop(c, o) <= TargetStop(c, o)
  BY <1>2, <1>4 DEF EarliestStop, Smaller, Larger
<1> DEFINE raw == (TargetStop(c, o) * ExtensionPercent(c, o)) \div 100
<1>6. ExtensionPercent(c, o) \in Nat
  BY OptionsTyped DEF ExtensionPercent, Smaller
<1>7. TargetStop(c, o) * ExtensionPercent(c, o) \in Int
  BY <1>4, <1>6
<1>8. raw \in Int
  BY <1>7
<1> HIDE DEF raw
<1>9. LatestSearch(c, o) = Clamp(raw, TargetStop(c, o), ResponseDeadline(c, o))
  BY DEF LatestSearch, raw
<1>10. /\ LatestSearch(c, o) \in Nat
       /\ TargetStop(c, o) <= LatestSearch(c, o)
       /\ LatestSearch(c, o) <= ResponseDeadline(c, o)
  BY <1>1, <1>4, <1>8, <1>9 DEF Clamp, Larger, Smaller
<1> QED
  BY <1>4, <1>5, <1>10

LEMMA LegacyBudget ==
  ASSUME NEW c \in TimeControl, NEW o \in TimeOptions
  PROVE  /\ ComputeLegacy(c, o) \in TimeBudget
         /\ ~HasAdaptiveDeadline(ComputeLegacy(c, o))
         /\ [ComputeLegacy(c, o) EXCEPT !.mcts = 0, !.hard = 0] \in TimeBudget
         /\ ~HasAdaptiveDeadline([ComputeLegacy(c, o) EXCEPT !.mcts = 0, !.hard = 0])
<1> DEFINE b == ComputeLegacy(c, o)
<1>1. b \in TimeBudget
  BY LegacyTyped, OptionsTyped DEF ComputeLegacy, TimeBudget
<1>2. b.target = 0
  BY DEF ComputeLegacy
<1> HIDE DEF b
<1>3. [b EXCEPT !.mcts = 0, !.hard = 0] \in TimeBudget
  BY <1>1 DEF TimeBudget
<1>4. [b EXCEPT !.mcts = 0, !.hard = 0].target = 0
  BY <1>1, <1>2 DEF TimeBudget
<1>5. ~HasAdaptiveDeadline(b) /\ ~HasAdaptiveDeadline([b EXCEPT !.mcts = 0, !.hard = 0])
  BY <1>2, <1>4 DEF HasAdaptiveDeadline
<1> QED
  BY <1>1, <1>3, <1>5 DEF b

LEMMA AdaptiveBudgetOrdered ==
  ASSUME NEW c \in TimeControl, NEW o \in TimeOptions, ResponseDeadline(c, o) # 0
  PROVE  AdaptiveBudget(c, o) \in TimeBudget /\ Ordered(AdaptiveBudget(c, o))
<1> DEFINE b == AdaptiveBudget(c, o)
<1>1. AllowEarlyStop(c, o) \in BOOLEAN
  BY Zenon DEF AllowEarlyStop
<1>2. (AllowExtension(c) /\ LatestSearch(c, o) > TargetStop(c, o)) \in BOOLEAN
  BY Zenon
<1>3. b \in TimeBudget
  BY <1>1, <1>2, TimePointsOrdered, LegacyTyped, ResponseTyped, OptionsTyped
    DEF AdaptiveBudget, TimeBudget
<1>4. Ordered(b)
  BY TimePointsOrdered, ResponseTyped, OptionsTyped DEF AdaptiveBudget, Ordered
<1> QED
  BY <1>3, <1>4

(* Every budget is well-formed and in order.                               *)
LEMMA BudgetsOrdered ==
  ASSUME NEW c \in TimeControl, NEW o \in TimeOptions
  PROVE  Compute(c, o) \in TimeBudget /\ Ordered(Compute(c, o))
BY LegacyBudget, AdaptiveBudgetOrdered DEF Compute, Ordered

-----------------------------------------------------------------------------
(* The state's types, without the bounds.                                  *)

Typed ==
  /\ main \in {"idle", "searching", "joined"}
  /\ searches \in Nat
  /\ budget \in TimeBudget
  /\ now \in Nat /\ lastCheck \in Nat \cup {Never}
  /\ busy \in BOOLEAN /\ adaptiveStop \in BOOLEAN
  /\ policy \in [best : Moves \cup {None}, changed : Nat, extension : Nat]
  /\ decision \in [stop : BOOLEAN, reason : Reasons, effective : Nat]
  /\ pc \in [Users -> PcStates]
  /\ read \in [Users -> [now : Nat, last : Nat \cup {Never}]]

(* The fields a budget has, as facts.                                      *)
LEMMA BudgetFields ==
  ASSUME NEW b \in TimeBudget
  PROVE  /\ b.mode \in Modes /\ b.mcts \in Nat /\ b.hard \in Nat /\ b.earliest \in Nat
         /\ b.target \in Nat /\ b.latest \in Nat /\ b.response \in Nat
         /\ b.earlyStop \in BOOLEAN /\ b.mayExtend \in BOOLEAN
BY DEF TimeBudget

LEMMA NoBudgetTyped == NoBudget \in TimeBudget /\ Ordered(NoBudget)
<1> DEFINE c == [main |-> 0, inc |-> 0, byoyomi |-> 0, movetime |-> 0, ply |-> 0,
                 hasMain |-> FALSE, hasNodes |-> FALSE, infinite |-> FALSE, ponder |-> FALSE]
           o == [cap |-> 0, cap1m |-> 0, overhead |-> 0, extension |-> 100, mode |-> "off"]
<1>1. c \in TimeControl
  BY DEF TimeControl
<1>2. o \in TimeOptions
  BY DEF TimeOptions, Modes
<1> HIDE DEF c, o
<1>3. ComputeLegacy(c, o) \in TimeBudget /\ Ordered(ComputeLegacy(c, o))
  BY <1>1, <1>2, LegacyBudget DEF Ordered
<1> QED
  BY <1>3 DEF NoBudget, c, o

LEMMA GoBudget ==
  ASSUME NEW g \in GoCommands, NEW o \in Options
  PROVE  /\ Compute(ParseGoParameters(g), o) \in TimeBudget
         /\ Ordered(Compute(ParseGoParameters(g), o))
<1>1. ParseGoParameters(g) \in TimeControl /\ o \in TimeOptions
  BY ClockAssumption
<1> QED
  BY <1>1, BudgetsOrdered

(* What a sample decides, given a policy and a budget in order: a value of *)
(* the right type, an extension that lies between target and latest, and a *)
(* stop that is due or proven.                                             *)
LEMMA SampleTyped ==
  ASSUME Typed, NEW s \in Samples
  PROVE  /\ s.best \in Moves
         /\ Noted(s) \in [best : Moves \cup {None}, changed : Nat, extension : Nat]
         /\ Noted(s).extension = policy.extension
         /\ StableFor(s) \in Int
<1>1. s.best \in Moves
  BY DEF Samples
<1>2. /\ Noted(s) \in [best : Moves \cup {None}, changed : Nat, extension : Nat]
      /\ Noted(s).extension = policy.extension
  BY <1>1 DEF Noted, Typed
<1>3. Noted(s).changed \in Nat
  BY <1>2
<1> QED
  BY <1>1, <1>2, <1>3 DEF StableFor, Typed

LEMMA ExtendedBounded ==
  ASSUME Typed, ExtensionBounded, NEW s \in Samples, ~NoExtension
  PROVE  /\ Extended(s) \in Nat
         /\ budget.target <= Extended(s) /\ Extended(s) <= budget.latest
<1>1. budget.target \in Nat /\ budget.latest \in Nat /\ budget.latest > budget.target
  BY BudgetFields DEF Typed, NoExtension
<1>2. /\ budget.target + (budget.latest - budget.target) \div 2 \in Nat
      /\ budget.target <= budget.target + (budget.latest - budget.target) \div 2
      /\ budget.target + (budget.latest - budget.target) \div 2 <= budget.latest
  BY <1>1
<1>3. policy.extension \in Nat
  BY DEF Typed
<1> QED
  BY <1>1, <1>2, <1>3 DEF Extended, ExtensionBounded

LEMMA DecideSound ==
  ASSUME Typed, ExtensionBounded, BudgetOrdered, Managed, ~decision.stop,
         NEW s \in Samples
  PROVE  /\ Decide(s) \in [stop : BOOLEAN, reason : Reasons, effective : Nat]
         /\ Decide(s).stop => Decide(s).reason = "proven" \/ now >= budget.earliest
         /\ now >= budget.latest => Decide(s).stop
<1>1. /\ budget.earliest \in Nat /\ budget.target \in Nat /\ budget.latest \in Nat
      /\ now \in Nat
  BY BudgetFields DEF Typed
<1>2. budget.earliest <= budget.target /\ budget.target <= budget.latest
  BY DEF Managed, BudgetOrdered, Ordered
<1>3. decision \in [stop : BOOLEAN, reason : Reasons, effective : Nat]
  BY DEF Typed
<1>4. \A r \in Reasons, e \in Nat :
        /\ StopNow(r, e) \in [stop : BOOLEAN, reason : Reasons, effective : Nat]
        /\ StopNow(r, e).stop /\ StopNow(r, e).reason = r
  BY DEF StopNow
<1>5. {"proven", "early", "target", "latest", "extension"} \subseteq Reasons
  BY DEF Reasons
<1>6. CASE s.proven
  BY <1>1, <1>4, <1>5, <1>6 DEF Decide
<1>7. CASE ~s.proven /\ Early(s)
  BY <1>1, <1>4, <1>5, <1>7 DEF Decide, Early
<1>8. CASE ~s.proven /\ ~Early(s) /\ now < budget.target
  BY <1>1, <1>2, <1>3, <1>8 DEF Decide
<1>9. CASE ~s.proven /\ ~Early(s) /\ now >= budget.target /\ SettledAtTarget(s)
  BY <1>1, <1>2, <1>4, <1>5, <1>9 DEF Decide
<1>10. CASE ~s.proven /\ ~Early(s) /\ now >= budget.target /\ ~SettledAtTarget(s)
  <2>1. Extended(s) \in Nat /\ Extended(s) <= budget.latest
    BY <1>10, ExtendedBounded DEF SettledAtTarget
  <2>2. [decision EXCEPT !.effective = Extended(s)]
          \in [stop : BOOLEAN, reason : Reasons, effective : Nat]
    BY <1>3, <2>1
  <2>3. [decision EXCEPT !.effective = Extended(s)].stop = decision.stop
    BY <1>3
  <2>4. ~(now < budget.target)
    BY <1>1, <1>10
  <2>5. CASE now >= Extended(s)
    BY <1>1, <1>2, <1>4, <1>5, <1>10, <2>1, <2>4, <2>5 DEF Decide
  <2>6. CASE ~(now >= Extended(s)) /\ StableAndDominant(s)
    BY <1>1, <1>2, <1>4, <1>5, <1>10, <2>1, <2>4, <2>6 DEF Decide
  <2>7. CASE ~(now >= Extended(s)) /\ ~StableAndDominant(s)
    <3>1. Decide(s) = [decision EXCEPT !.effective = Extended(s)]
      BY <1>10, <2>4, <2>7 DEF Decide
    <3>2. ~(now >= budget.latest)
      BY <1>1, <2>1, <2>7
    <3> QED
      BY <2>2, <2>3, <3>1, <3>2
  <2> QED
    BY <2>5, <2>6, <2>7
<1> QED
  BY <1>1, <1>6, <1>7, <1>8, <1>9, <1>10
-----------------------------------------------------------------------------
(* The inductive invariant.                                                *)

Managing == {"claim", "enter", "sample", "publish", "release"}

(* busy is the lock of the controller, and who manages the time has a      *)
(* budget to manage.                                                       *)
GateInv ==
  /\ \A u \in Users : InCheck(u) => busy
  /\ busy => \E u \in Users : InCheck(u)
  /\ UpdateExclusive
  /\ \A u \in Users : pc[u] \in Managing => Managed

StopInv ==
  /\ decision.stop => decision.reason = "proven" \/ now >= budget.earliest
  /\ adaptiveStop => budget.mode = "on" /\ decision.stop

(* The calling thread's last call, after the threads are through.          *)
EndInv ==
  /\ main # "searching" => \A u \in Threads : pc[u] = "out"
  /\ main = "searching" => pc[Main] = "out"
  /\ main = "joined" => pc[Main] \notin {"out", "loop"}
  /\ main = "idle" => pc[Main] \in {"out", "done"}
  /\ main = "idle" /\ searches > 0 => pc[Main] = "done"
  /\ main = "joined" /\ pc[Main] # "manage" => read[Main].now <= now
  /\ pc[Main] \in {"publish", "release", "done"} /\ Managed /\ read[Main].now >= budget.latest
       => decision.stop

IInv ==
  Typed /\ BudgetOrdered /\ ExtensionBounded /\ GateInv /\ StopInv /\ EndInv

LEMMA UsersSplit ==
  /\ Main \in Users /\ Main \notin Threads
  /\ \A u \in Users : u \in Threads \/ u = Main
BY ClockAssumption DEF Users, Main

LEMMA InitIInv == Init => IInv
<1> SUFFICES ASSUME Init PROVE IInv
  OBVIOUS
<1>1. Typed
  <2>1. busy \in BOOLEAN /\ adaptiveStop \in BOOLEAN
    BY Zenon DEF Init
  <2>2. decision \in [stop : BOOLEAN, reason : Reasons, effective : Nat]
    BY NoBudgetTyped, BudgetFields DEF Init, FreshDecision, Reasons
  <2> QED
    BY <2>1, <2>2, NoBudgetTyped DEF Init, Typed, FreshPolicy, PcStates
<1>2. BudgetOrdered /\ ExtensionBounded
  BY NoBudgetTyped DEF Init, BudgetOrdered, ExtensionBounded, FreshPolicy
<1>3. GateInv
  BY UsersSplit DEF Init, GateInv, InCheck, UpdateExclusive, Managing
<1>4. StopInv
  BY DEF Init, StopInv, FreshDecision
<1>5. EndInv
  <2>1. \A u \in Users : pc[u] = "out"
    BY DEF Init
  <2>2. main = "idle" /\ searches = 0
    BY DEF Init
  <2> QED
    <3>1. pc[Main] = "out" /\ \A u \in Threads : pc[u] = "out"
      BY <2>1 DEF Users
    <3> QED
      BY <2>2, <3>1 DEF EndInv
<1> QED
  BY <1>1, <1>2, <1>3, <1>4, <1>5 DEF IInv

LEMMA GoKeeps ==
  ASSUME IInv, NEW g \in GoCommands, NEW o \in Options, NEW t \in Instants, Go(g, o, t)
  PROVE  IInv'
<1>1. budget' \in TimeBudget /\ BudgetOrdered'
  BY GoBudget DEF Go, BudgetOrdered
<1>2. t \in Nat
  BY ClockAssumption
<1>3. decision' = FreshDecision(budget') /\ policy' = FreshPolicy
  BY DEF Go
<1>4. decision' \in [stop : BOOLEAN, reason : Reasons, effective : Nat] /\ ~decision'.stop
  BY <1>1, <1>3, BudgetFields DEF FreshDecision, Reasons
<1>5. busy' \in BOOLEAN /\ adaptiveStop' \in BOOLEAN
  BY Zenon DEF Go
<1>6. Typed'
  BY <1>1, <1>2, <1>3, <1>4, <1>5 DEF IInv, Typed, Go, FreshPolicy, PcStates
<1>7. ExtensionBounded'
  BY <1>3 DEF ExtensionBounded, FreshPolicy
<1>8. \A u \in Users : pc'[u] \in {"out", "loop"}
  BY DEF Go
<1>9. GateInv'
  BY <1>8 DEF Go, GateInv, InCheck, UpdateExclusive, Managing
<1>10. StopInv'
  BY <1>4 DEF StopInv, Go
<1>11. EndInv'
  BY <1>8, UsersSplit DEF EndInv, Go
<1> QED
  BY <1>1, <1>6, <1>7, <1>9, <1>10, <1>11 DEF IInv

LEMMA TickKeeps == IInv /\ Tick => IInv'
<1> SUFFICES ASSUME IInv, Tick PROVE IInv'
  OBVIOUS
<1>1. now' \in Nat /\ now' > now
  BY ClockAssumption DEF Tick
<1>2. Typed'
  BY <1>1 DEF IInv, Typed, Tick
<1>3. budget.earliest \in Nat /\ budget.latest \in Nat /\ read[Main].now \in Nat /\ now \in Nat
  BY BudgetFields, UsersSplit DEF IInv, Typed
<1>4. BudgetOrdered' /\ ExtensionBounded'
  BY DEF IInv, Tick, BudgetOrdered, ExtensionBounded
<1>5. GateInv'
  BY DEF IInv, Tick, GateInv, InCheck, UpdateExclusive, Managed
<1>6. StopInv'
  BY <1>1, <1>3 DEF IInv, Tick, StopInv
<1>7. EndInv'
  BY <1>1, <1>3 DEF IInv, Tick, EndInv, Managed
<1> QED
  BY <1>2, <1>4, <1>5, <1>6, <1>7 DEF IInv

LEMMA ExhaustKeeps == IInv /\ Exhaust => IInv'
BY DEF IInv, Exhaust, Typed, BudgetOrdered, ExtensionBounded, GateInv, InCheck,
  UpdateExclusive, Managed, StopInv, EndInv

LEMMA JoinKeeps == IInv /\ Join => IInv'
<1> SUFFICES ASSUME IInv, Join PROVE IInv'
  OBVIOUS
<1>1. Typed'
  BY UsersSplit DEF IInv, Typed, Join, PcStates
<1>2. BudgetOrdered' /\ ExtensionBounded' /\ StopInv'
  BY DEF IInv, Join, BudgetOrdered, ExtensionBounded, StopInv
<1>3. \A u \in Users : pc[u] = "out" /\ pc'[u] \in {"out", "manage"}
  BY UsersSplit DEF IInv, Join, EndInv, Typed
<1>4. GateInv'
  BY <1>3 DEF IInv, Join, GateInv, InCheck, UpdateExclusive, Managing
<1>5. EndInv'
  BY UsersSplit DEF IInv, Join, EndInv, Typed
<1> QED
  BY <1>1, <1>2, <1>4, <1>5 DEF IInv

LEMMA ReportKeeps == IInv /\ Report => IInv'
BY DEF IInv, Report, Typed, BudgetOrdered, ExtensionBounded, GateInv, InCheck,
  UpdateExclusive, Managed, StopInv, EndInv
(* A thread outside the critical section goes elsewhere outside of it.     *)
LEMMA Outside ==
  ASSUME IInv, NEW u \in Users, NEW to \in PcStates, Moved(u, to), ~InCheck(u),
         to \notin {"sample", "publish", "release"},
         UNCHANGED <<budget, busy>>, to \in Managing => Managed
  PROVE  GateInv' /\ pc' \in [Users -> PcStates]
<1>1. pc \in [Users -> PcStates]
  BY DEF IInv, Typed
<1>2. pc' \in [Users -> PcStates]
  BY <1>1 DEF Moved
<1>3. \A v \in Users : InCheck(v)' <=> InCheck(v)
  BY <1>1 DEF Moved, InCheck
<1>4. \A v \in Users : pc'[v] = pc[v] \/ (v = u /\ pc'[v] = to)
  BY <1>1 DEF Moved
<1>5. Managed' <=> Managed
  BY DEF Managed
<1> QED
  BY <1>2, <1>3, <1>4, <1>5 DEF IInv, GateInv, UpdateExclusive

LEMMA PlayoutKeeps ==
  ASSUME IInv, NEW u \in Threads, Playout(u) PROVE IInv'
<1>1. u \in Users /\ u # Main
  BY UsersSplit DEF Users
<1>2. PICK to \in {"loop", "manage"} : pc' = [pc EXCEPT ![u] = to]
  BY DEF Playout
<1>3. GateInv' /\ pc' \in [Users -> PcStates]
  BY <1>1, <1>2, Outside DEF Playout, Unmanaged, Moved, InCheck, PcStates, Managing
<1>4. Typed'
  BY <1>3 DEF IInv, Typed, Playout, Unmanaged
<1>5. BudgetOrdered' /\ ExtensionBounded' /\ StopInv'
  BY DEF IInv, Playout, Unmanaged, BudgetOrdered, ExtensionBounded, StopInv
<1>6. pc'[Main] = pc[Main] /\ main = "searching"
  BY <1>1, <1>2 DEF IInv, Typed, EndInv, Playout
<1>7. EndInv'
  BY <1>6 DEF IInv, EndInv, Playout, Unmanaged, Managed
<1> QED
  BY <1>3, <1>4, <1>5, <1>7 DEF IInv

LEMMA LeaveKeeps ==
  ASSUME IInv, NEW u \in Threads, Leave(u) PROVE IInv'
<1>1. u \in Users /\ u # Main
  BY UsersSplit DEF Users
<1>3. GateInv' /\ pc' \in [Users -> PcStates]
  BY <1>1, Outside DEF Leave, Unmanaged, InCheck, PcStates, Managing
<1>4. Typed'
  BY <1>3 DEF IInv, Typed, Leave, Unmanaged
<1>5. BudgetOrdered' /\ ExtensionBounded' /\ StopInv'
  BY DEF IInv, Leave, Unmanaged, BudgetOrdered, ExtensionBounded, StopInv
<1>6. pc'[Main] = pc[Main] /\ main = "searching"
  BY <1>1 DEF IInv, Typed, EndInv, Leave, Moved
<1>7. EndInv'
  BY <1>6 DEF IInv, EndInv, Leave, Unmanaged, Managed
<1> QED
  BY <1>3, <1>4, <1>5, <1>7 DEF IInv

(* Who manages the time is a thread of a running search, or the calling    *)
(* thread after it.                                                        *)
LEMMA Phase ==
  ASSUME IInv, NEW u \in Users, pc[u] \in Managing \cup {"manage"}
  PROVE  \/ u # Main /\ main = "searching" /\ Back(u) = "loop"
         \/ u = Main /\ main = "joined" /\ Back(u) = "done" /\ Forced(u)
BY UsersSplit DEF IInv, Typed, EndInv, Managing, Back, Forced

(* EndInv after a step of the search phase.                                *)
LEMMA EndOfThread ==
  ASSUME IInv, NEW u \in Users, u # Main, main = "searching", NEW to, Moved(u, to),
         UNCHANGED <<main, searches>>
  PROVE  EndInv'
<1>1. pc'[Main] = pc[Main] /\ pc[Main] = "out"
  BY UsersSplit DEF IInv, Typed, EndInv, Moved
<1> QED
  BY <1>1 DEF EndInv

LEMMA ReadClockKeeps ==
  ASSUME IInv, NEW u \in Users, ReadClock(u) PROVE IInv'
<1> DEFINE to == IF Managed /\ (Forced(u) \/ now - lastCheck >= 20)
                 THEN "claim" ELSE Back(u)
<1>1. Moved(u, to) /\ pc[u] = "manage"
  BY DEF ReadClock
<1>2. to \in {"claim", "loop", "done"} /\ (to = "claim" => Managed)
  BY DEF Back
<1>3. GateInv' /\ pc' \in [Users -> PcStates]
  BY <1>1, <1>2, Outside DEF ReadClock, Unmanaged, InCheck, PcStates, Managing
<1>4. read' \in [Users -> [now : Nat, last : Nat \cup {Never}]] /\ read'[u].now = now
  BY DEF IInv, Typed, ReadClock
<1>5. Typed'
  BY <1>3, <1>4 DEF IInv, Typed, ReadClock, Unmanaged
<1>6. BudgetOrdered' /\ ExtensionBounded' /\ StopInv'
  BY DEF IInv, ReadClock, Unmanaged, BudgetOrdered, ExtensionBounded, StopInv
<1>7. EndInv'
  <2>1. CASE u # Main
    BY <1>1, <2>1, Phase, EndOfThread DEF ReadClock, Unmanaged
  <2>2. CASE u = Main
    <3>1. main = "joined" /\ Back(u) = "done" /\ Forced(u)
      BY <1>1, <2>2, Phase
    <3>2. pc'[Main] \in {"claim", "done"} /\ (pc'[Main] = "done" => ~Managed)
      BY <1>1, <2>2, <3>1 DEF IInv, Typed, Moved
    <3>3. \A v \in Threads : pc'[v] = pc[v]
      BY <1>1, <2>2, UsersSplit DEF IInv, Typed, Moved, Users
    <3>4. now \in Nat
      BY DEF IInv, Typed
    <3> QED
      BY <1>4, <2>2, <3>1, <3>2, <3>3, <3>4
        DEF IInv, EndInv, ReadClock, Unmanaged, Managed
  <2> QED
    BY <2>1, <2>2
<1> QED
  BY <1>3, <1>5, <1>6, <1>7 DEF IInv

(* EndInv after a step of the calling thread.                              *)
LEMMA EndOfMain ==
  ASSUME IInv, NEW to \in PcStates, pc[Main] \in Managing, main = "joined",
         Moved(Main, to), to \notin {"out", "loop", "manage"},
         UNCHANGED <<main, searches, now, read, budget>>,
         to \in {"publish", "release", "done"} /\ Managed /\ read[Main].now >= budget.latest
           => decision'.stop
  PROVE  EndInv'
<1>1. pc'[Main] = to
  BY UsersSplit DEF IInv, Typed, Moved
<1>2. \A v \in Threads : pc'[v] = pc[v]
  BY UsersSplit DEF IInv, Typed, Moved, Users
<1>3. read[Main].now <= now
  BY DEF IInv, EndInv, Managing
<1> QED
  BY <1>1, <1>2, <1>3 DEF IInv, EndInv, Managed

LEMMA ClaimCheckKeeps ==
  ASSUME IInv, NEW u \in Users, ClaimCheck(u) PROVE IInv'
<1>1. pc[u] = "claim" /\ Managed
  BY DEF IInv, GateInv, ClaimCheck, Managing
<1>2. PICK to \in {"enter", Back(u)} : Moved(u, to) /\ (to = "enter" \/ ~Forced(u))
  BY DEF ClaimCheck
<1>3. to \in {"enter", "loop", "done"}
  BY DEF Back
<1>4. GateInv' /\ pc' \in [Users -> PcStates]
  BY <1>1, <1>2, <1>3, Outside DEF ClaimCheck, Unmanaged, InCheck, PcStates, Managing
<1>5. lastCheck' \in Nat \cup {Never}
  BY DEF IInv, Typed, ClaimCheck
<1>6. Typed'
  BY <1>4, <1>5 DEF IInv, Typed, ClaimCheck, Unmanaged
<1>7. BudgetOrdered' /\ ExtensionBounded' /\ StopInv'
  BY DEF IInv, ClaimCheck, Unmanaged, BudgetOrdered, ExtensionBounded, StopInv
<1>8. EndInv'
  <2>1. CASE u # Main
    BY <1>1, <1>2, <2>1, Phase, EndOfThread DEF ClaimCheck, Unmanaged, Managing
  <2>2. CASE u = Main
    <3>1. main = "joined" /\ Forced(u)
      BY <1>1, <2>2, Phase DEF Managing
    <3>2. Moved(Main, "enter")
      BY <1>2, <2>2, <3>1
    <3> QED
      BY <1>1, <2>2, <3>1, <3>2, EndOfMain DEF ClaimCheck, Unmanaged, Managing, PcStates
  <2> QED
    BY <2>1, <2>2
<1> QED
  BY <1>4, <1>6, <1>7, <1>8 DEF IInv

LEMMA EnterCheckKeeps ==
  ASSUME IInv, NEW u \in Users, EnterCheck(u) PROVE IInv'
<1>1. pc[u] = "enter" /\ Managed
  BY DEF IInv, GateInv, EnterCheck, Managing
<1>2. BudgetOrdered' /\ ExtensionBounded' /\ StopInv'
  BY DEF IInv, EnterCheck, Unmanaged, BudgetOrdered, ExtensionBounded, StopInv
<1>3. CASE busy
  <2>1. Moved(u, Back(u)) /\ UNCHANGED busy
    BY <1>3 DEF EnterCheck, Gate
  <2>2. Back(u) \in {"loop", "done"}
    BY DEF Back
  <2>3. GateInv' /\ pc' \in [Users -> PcStates]
    BY <1>1, <2>1, <2>2, Outside DEF EnterCheck, Unmanaged, InCheck, PcStates, Managing
  <2>4. Typed'
    BY <2>1, <2>3 DEF IInv, Typed, EnterCheck, Unmanaged
  <2>5. u # Main
    <3>1. PICK v \in Users : InCheck(v)
      BY <1>3 DEF IInv, GateInv
    <3>2. v # Main => main = "searching"
      BY <3>1, Phase DEF InCheck, Managing
    <3>3. u = Main => main = "joined"
      BY <1>1, Phase DEF Managing
    <3> QED
      BY <1>1, <3>1, <3>2, <3>3 DEF InCheck
  <2>6. EndInv'
    BY <1>1, <2>1, <2>5, Phase, EndOfThread DEF EnterCheck, Unmanaged, Managing
  <2> QED
    BY <1>2, <2>3, <2>4, <2>6 DEF IInv
<1>4. CASE ~busy
  <2>1. Moved(u, "sample") /\ busy'
    BY <1>4 DEF EnterCheck, Gate
  <2>2. pc \in [Users -> PcStates] /\ pc' \in [Users -> PcStates]
    BY <2>1 DEF IInv, Typed, Moved, PcStates
  <2>3. Typed'
    <3>1. busy' \in BOOLEAN
      BY <1>4, Zenon DEF EnterCheck, Gate
    <3> QED
      BY <2>2, <3>1 DEF IInv, Typed, EnterCheck, Unmanaged
  <2>4. \A v \in Users : ~InCheck(v)
    BY <1>4 DEF IInv, GateInv
  <2>5. \A v \in Users : InCheck(v)' <=> v = u
    BY <2>1, <2>2, <2>4 DEF Moved, InCheck
  <2>6. \A v \in Users : pc'[v] \in Managing => pc[v] \in Managing
    BY <1>1, <2>1, <2>2 DEF Moved, Managing
  <2>7. GateInv'
    BY <2>1, <2>5, <2>6
      DEF IInv, GateInv, UpdateExclusive, EnterCheck, Unmanaged, Managed
  <2>8. EndInv'
    <3>1. CASE u # Main
      BY <1>1, <2>1, <3>1, Phase, EndOfThread DEF EnterCheck, Unmanaged, Managing
    <3>2. CASE u = Main
      BY <1>1, <2>1, <3>2, Phase, EndOfMain
        DEF EnterCheck, Unmanaged, Managing, PcStates
    <3> QED
      BY <3>1, <3>2
  <2> QED
    BY <1>2, <2>3, <2>7, <2>8 DEF IInv
<1> QED
  BY <1>3, <1>4

(* From one place in the critical section to another.                      *)
LEMMA Inside ==
  ASSUME IInv, NEW u \in Users, NEW to \in {"sample", "publish", "release"},
         Moved(u, to), InCheck(u), UNCHANGED <<budget, busy>>
  PROVE  GateInv' /\ pc' \in [Users -> PcStates]
<1>1. pc \in [Users -> PcStates]
  BY DEF IInv, Typed
<1>2. pc' \in [Users -> PcStates]
  BY <1>1 DEF Moved, PcStates
<1>3. \A v \in Users : InCheck(v)' <=> InCheck(v)
  BY <1>1 DEF Moved, InCheck
<1>4. \A v \in Users : pc'[v] \in Managing => pc[v] \in Managing
  BY <1>1 DEF Moved, InCheck, Managing
<1>5. Managed' <=> Managed
  BY DEF Managed
<1> QED
  BY <1>2, <1>3, <1>4, <1>5 DEF IInv, GateInv, UpdateExclusive

LEMMA UpdateKeeps ==
  ASSUME IInv, NEW u \in Users, NEW s \in Samples, Update(u, s) PROVE IInv'
<1>1. pc[u] = "sample" /\ Managed /\ Moved(u, "publish")
  BY DEF IInv, GateInv, Update, Managing
<1>2. GateInv' /\ pc' \in [Users -> PcStates]
  BY <1>1, Inside DEF Update, InCheck
<1>3. Typed /\ ExtensionBounded /\ BudgetOrdered
  BY DEF IInv
<1>4. /\ decision' \in [stop : BOOLEAN, reason : Reasons, effective : Nat]
      /\ decision'.stop => decision'.reason = "proven" \/ now >= budget.earliest
      /\ now >= budget.latest => decision'.stop
      /\ decision.stop => decision'.stop
  <2>1. CASE decision.stop
    BY <1>3, <2>1 DEF Update, StillOpen, IInv, StopInv, Typed
  <2>2. CASE ~decision.stop
    BY <1>1, <1>3, <2>2, DecideSound DEF Update, StillOpen
  <2> QED
    BY <2>1, <2>2
<1>5. /\ policy' \in [best : Moves \cup {None}, changed : Nat, extension : Nat]
      /\ ExtensionBounded'
  <2>1. CASE UNCHANGED policy
    BY <1>3, <2>1 DEF Typed, ExtensionBounded, Update
  <2>2. CASE policy' = PolicyAfter(s) /\ Extends(s)
    <3>1. /\ Extended(s) \in Nat
          /\ budget.target <= Extended(s) /\ Extended(s) <= budget.latest
      BY <1>3, <2>2, ExtendedBounded DEF Extends, SettledAtTarget
    <3>2. policy' = [Noted(s) EXCEPT !.extension = Extended(s)]
      BY <2>2 DEF PolicyAfter
    <3>3. Noted(s) \in [best : Moves \cup {None}, changed : Nat, extension : Nat]
      BY <1>3, SampleTyped
    <3>4. /\ policy' \in [best : Moves \cup {None}, changed : Nat, extension : Nat]
          /\ policy'.extension = Extended(s)
      BY <3>1, <3>2, <3>3
    <3>5. budget.target \in Nat /\ budget.latest \in Nat
      BY <1>3, BudgetFields DEF Typed
    <3> QED
      BY <3>1, <3>4, <3>5 DEF ExtensionBounded, Update
  <2>3. CASE policy' = PolicyAfter(s) /\ ~Extends(s)
    BY <1>3, <2>3, SampleTyped DEF PolicyAfter, ExtensionBounded, Update
  <2> QED
    BY <2>1, <2>2, <2>3 DEF Update
<1>6. Typed'
  BY <1>2, <1>3, <1>4, <1>5 DEF Typed, Update
<1>7. BudgetOrdered' /\ StopInv'
  BY <1>3, <1>4 DEF IInv, StopInv, BudgetOrdered, Update
<1>8. EndInv'
  <2>1. CASE u # Main
    BY <1>1, <2>1, Phase, EndOfThread DEF Update, Managing
  <2>2. CASE u = Main
    <3>1. main = "joined" /\ read[Main].now <= now
      BY <1>1, <2>2, Phase DEF IInv, EndInv, Managing
    <3>2. read[Main].now \in Nat /\ now \in Nat /\ budget.latest \in Nat
      BY <1>3, UsersSplit, BudgetFields DEF Typed
    <3>3. read[Main].now >= budget.latest => decision'.stop
      BY <1>4, <3>1, <3>2
    <3> QED
      BY <1>1, <2>2, <3>1, <3>3, EndOfMain DEF Update, Managing, PcStates
  <2> QED
    BY <2>1, <2>2
<1> QED
  BY <1>2, <1>5, <1>6, <1>7, <1>8 DEF IInv

LEMMA PublishKeeps ==
  ASSUME IInv, NEW u \in Users, Publish(u) PROVE IInv'
<1>1. pc[u] = "publish" /\ Moved(u, "release")
  BY DEF Publish
<1>2. GateInv' /\ pc' \in [Users -> PcStates]
  BY <1>1, Inside DEF Publish, Unmanaged, InCheck
<1>3. adaptiveStop' \in BOOLEAN
  BY Zenon DEF Publish
<1>4. Typed'
  BY <1>2, <1>3 DEF IInv, Typed, Publish, Unmanaged
<1>5. BudgetOrdered' /\ ExtensionBounded' /\ StopInv'
  BY DEF IInv, Publish, ActsOnDecision, Unmanaged, BudgetOrdered, ExtensionBounded, StopInv
<1>6. EndInv'
  <2>1. CASE u # Main
    BY <1>1, <2>1, Phase, EndOfThread DEF Publish, Unmanaged, Managing
  <2>2. CASE u = Main
    BY <1>1, <2>2, Phase, EndOfMain
      DEF Publish, Unmanaged, Managing, PcStates, IInv, EndInv
  <2> QED
    BY <2>1, <2>2
<1> QED
  BY <1>2, <1>4, <1>5, <1>6 DEF IInv

LEMMA ReleaseKeeps ==
  ASSUME IInv, NEW u \in Users, Release(u) PROVE IInv'
<1>1. pc[u] = "release" /\ Moved(u, Back(u)) /\ Back(u) \in {"loop", "done"}
  BY DEF Release, Back
<1>2. pc \in [Users -> PcStates] /\ pc' \in [Users -> PcStates]
  BY <1>1 DEF IInv, Typed, Moved, PcStates
<1>3. \A v \in Users : InCheck(v) => v = u
  BY <1>1 DEF IInv, GateInv, UpdateExclusive, InCheck
<1>4. \A v \in Users : ~InCheck(v)'
  BY <1>1, <1>2, <1>3 DEF Moved, InCheck
<1>5. \A v \in Users : pc'[v] \in Managing => pc[v] \in Managing
  BY <1>1, <1>2 DEF Moved, Managing
<1>6. ~busy' /\ busy' \in BOOLEAN
  BY Zenon DEF Release
<1>7. Typed'
  BY <1>2, <1>6 DEF IInv, Typed, Release, Unmanaged
<1>8. GateInv'
  BY <1>4, <1>5, <1>6 DEF IInv, GateInv, UpdateExclusive, Release, Unmanaged, Managed
<1>9. BudgetOrdered' /\ ExtensionBounded' /\ StopInv'
  BY DEF IInv, Release, Unmanaged, BudgetOrdered, ExtensionBounded, StopInv
<1>10. EndInv'
  <2>1. CASE u # Main
    BY <1>1, <2>1, Phase, EndOfThread DEF Release, Unmanaged, Managing
  <2>2. CASE u = Main
    <3>1. main = "joined" /\ Back(u) = "done"
      BY <1>1, <2>2, Phase DEF Managing
    <3> QED
      BY <1>1, <2>2, <3>1, EndOfMain
        DEF Release, Unmanaged, Managing, PcStates, IInv, EndInv
  <2> QED
    BY <2>1, <2>2
<1> QED
  BY <1>7, <1>8, <1>9, <1>10 DEF IInv

LEMMA StutterKeeps == IInv /\ UNCHANGED vars => IInv'
BY DEF vars, IInv, Typed, BudgetOrdered, ExtensionBounded, GateInv, InCheck,
  UpdateExclusive, Managed, StopInv, EndInv

LEMMA StepKeeps == IInv /\ [Next]_vars => IInv'
BY GoKeeps, TickKeeps, ExhaustKeeps, JoinKeeps, ReportKeeps, PlayoutKeeps, LeaveKeeps,
   ReadClockKeeps, ClaimCheckKeeps, EnterCheckKeeps, UpdateKeeps, PublishKeeps,
   ReleaseKeeps, StutterKeeps DEF Next, GoNext, UserNext

-----------------------------------------------------------------------------
(* The deadlines, the gate and the policy keep to the inductive invariant, *)
(* whatever the order of samples, playouts and the clock.                  *)
THEOREM Inductive == Spec => []IInv
BY InitIInv, StepKeeps, PTL DEF Spec

(* TimeManager::Compute orders its deadlines for every clock and every     *)
(* setting of the options: 0 < earliest <= target <= latest <= response,   *)
(* and in mode "on" the search's limit is not later than the watchdog's.   *)
THEOREM DeadlinesOrdered == Spec => []BudgetOrdered
<1>1. IInv => BudgetOrdered
  BY DEF IInv
<1> QED
  BY <1>1, Inductive, PTL

(* AdaptiveTimeController has no lock and needs none.                      *)
THEOREM OneUpdater == Spec => []UpdateExclusive
<1>1. IInv => UpdateExclusive
  BY DEF IInv, GateInv
<1> QED
  BY <1>1, Inductive, PTL

(* No extension goes beyond the latest search time.                        *)
THEOREM ExtensionsBounded == Spec => []ExtensionBounded
<1>1. IInv => ExtensionBounded
  BY DEF IInv
<1> QED
  BY <1>1, Inductive, PTL

(* An adaptive stop is justified.                                          *)
THEOREM StopsJustified == Spec => []StopJustified
<1>1. IInv => StopJustified
  BY DEF IInv, StopInv, StopJustified
<1> QED
  BY <1>1, Inductive, PTL

(* The forced call at the end of Search::Run always reaches the controller. *)
THEOREM LastWord == Spec => []LastWordRecorded
<1>1. IInv => LastWordRecorded
  BY DEF IInv, EndInv, LastWordRecorded
<1> QED
  BY <1>1, Inductive, PTL

(* The adaptive policy stops with a reason and extends within bounds, for  *)
(* any number of threads, clock and setting.                               *)
THEOREM DecisionsSound == Spec => []DecisionSound
BY StopsJustified, ExtensionsBounded, PTL DEF DecisionSound

(* What was decided stands until the next `go`: a later sample, the forced *)
(* one at the end of the search included, never withdraws or renames it.   *)
THEOREM DecisionKept == Spec => DecisionStands
<1>1. ASSUME [Next]_vars, decision.stop, main # "idle" PROVE decision' = decision
  <2>1. CASE \E u \in Users, s \in Samples : Update(u, s)
    BY <1>1, <2>1 DEF Update, StillOpen
  <2>2. CASE GoNext
    BY <1>1, <2>2 DEF GoNext, Go
  <2>3. CASE Tick \/ Exhaust \/ Join \/ Report \/ UNCHANGED vars
    BY <2>3 DEF Tick, Exhaust, Join, Report, vars
  <2>4. ASSUME NEW u \in Users,
               \/ Playout(u) \/ Leave(u) \/ ReadClock(u) \/ ClaimCheck(u)
               \/ EnterCheck(u) \/ Publish(u) \/ Release(u)
        PROVE  decision' = decision
    BY <2>4 DEF Playout, Leave, ReadClock, ClaimCheck, EnterCheck, Publish, Release, Unmanaged
  <2> QED
    BY <1>1, <2>1, <2>2, <2>3, <2>4 DEF Next, UserNext, Users
<1>2. [Next]_vars => [decision.stop /\ main # "idle" => decision' = decision]_vars
  BY <1>1
<1> QED
  BY <1>2, PTL DEF Spec, DecisionStands
=============================================================================

----------------------------- MODULE SearchClock -----------------------------
(***************************************************************************)
(* The clock of a search: the deadlines TimeManager computes for a `go`,   *)
(* the adaptive policy that samples the root (AdaptiveTimeController), and *)
(* the worker threads that take turns at it (Search::MaybeManageTime)      *)
(* between their playouts (UctSearch has the playouts themselves).         *)
(*                                                                         *)
(* The visits and values the policy compares are abstracted to the         *)
(* verdicts it draws from them, any of which a sample may give; times are  *)
(* exact.                                                                  *)
(***************************************************************************)
EXTENDS TimeManager, FiniteSets

CONSTANTS
  Threads,         \* the searcher threads
  Moves,           \* root moves, as far as the best of them may change
  GoCommands,      \* the clocks that `go` brings
  Options,         \* the engine's settings
  Instants,        \* when the clock may be read, since the receipt of `go`: a bound
  MaxSearches      \* searches of a run: a bound

ASSUME ClockAssumption ==
  /\ IsFiniteSet(Threads) /\ "main" \notin Threads
  /\ \A g \in GoCommands : ParseGoParameters(g) \in TimeControl
  /\ Options \subseteq TimeOptions
  /\ Instants \subseteq Nat
  /\ MaxSearches \in Nat

VARIABLES
  main,        \* "idle", "searching", or "joined": the threads are through
  asked,       \* the `go` and the options of the search
  searches,    \* searches begun
  budget,      \* config_.time_budget
  now,         \* timer_.ElapsedMs()
  lastCheck,   \* last_time_check_ms_
  busy,        \* time_check_busy_
  adaptiveStop,\* adaptive_stop_
  exhausted,   \* another limit: nodes, tree memory, Search::stop_
  policy,      \* AdaptiveTimeController
  decision,    \* ... and its decision_
  pc,          \* where each thread is
  read         \* what it read: the time and last_time_check_ms_

vars == <<main, asked, searches, budget, now, lastCheck, busy, adaptiveStop, exhausted,
          policy, decision, pc, read>>

None  == "none"
Main  == "main"      \* the calling thread, which manages time once more at the end
Users == Threads \cup {Main}

Never == 0 - 1000000

NoBudget == ComputeLegacy(
  [main |-> 0, inc |-> 0, byoyomi |-> 0, movetime |-> 0, ply |-> 0, hasMain |-> FALSE,
   hasNodes |-> FALSE, infinite |-> FALSE, ponder |-> FALSE],
  [cap |-> 0, cap1m |-> 0, overhead |-> 0, extension |-> 100, mode |-> "off"])

(* AdaptiveTimeController::Reset.  extension is extension_deadline_ms_.    *)
FreshPolicy == [best |-> None, changed |-> 0, extension |-> 0]
FreshDecision(b) == [stop |-> FALSE, reason |-> None, effective |-> b.target]

Init ==
  /\ main = "idle" /\ asked = None /\ searches = 0 /\ budget = NoBudget /\ now = 0
  /\ lastCheck = Never /\ busy = FALSE /\ adaptiveStop = FALSE /\ exhausted = FALSE
  /\ policy = FreshPolicy /\ decision = FreshDecision(NoBudget)
  /\ pc = [u \in Users |-> "out"]
  /\ read = [u \in Users |-> [now |-> 0, last |-> 0]]

(* CmdGo computes the budget, Search::Run resets the clock's state.  Part  *)
(* of the time may be gone by then.                                        *)
Go(g, o, t) ==
  /\ main = "idle" /\ main' = "searching"
  /\ searches < MaxSearches /\ searches' = searches + 1
  /\ asked' = [go |-> g, options |-> o]
  /\ budget' = Compute(ParseGoParameters(g), o)
  /\ now' = t
  /\ lastCheck' = Never /\ busy' = FALSE /\ adaptiveStop' = FALSE /\ exhausted' = FALSE
  /\ policy' = FreshPolicy /\ decision' = FreshDecision(budget')
  /\ pc' = [u \in Users |-> IF u = Main THEN "out" ELSE "loop"]
  /\ UNCHANGED read

ClockRunning == main \in {"searching", "joined"}

Tick ==
  /\ ClockRunning
  /\ now' \in {t \in Instants : t > now}
  /\ UNCHANGED <<main, asked, searches, budget, lastCheck, busy, adaptiveStop, exhausted,
                 policy, decision, pc, read>>

(* The search reaches a limit that is not one of time, or is stopped.      *)
Exhaust ==
  /\ main = "searching" /\ ~exhausted
  /\ exhausted' = TRUE
  /\ UNCHANGED <<main, asked, searches, budget, now, lastCheck, busy, adaptiveStop,
                 policy, decision, pc, read>>

TooLate == FALSE           \* a mutant: the search's own time limit is lost

TimeUp == budget.mcts > 0 /\ now >= budget.mcts \div 20

IsSearchActive == ~exhausted /\ ~adaptiveStop /\ ~TimeUp

Moved(u, to) == pc' = [pc EXCEPT ![u] = to]

Unmanaged == <<main, asked, searches, budget, now, exhausted, policy, decision>>

(* The loop of a thread: while the search is active, a playout, after some *)
(* of which it manages the time.                                           *)
Playout(u) ==
  /\ pc[u] = "loop" /\ IsSearchActive
  /\ pc' \in {[pc EXCEPT ![u] = to] : to \in {"loop", "manage"}}
  /\ UNCHANGED <<Unmanaged, lastCheck, busy, adaptiveStop, read>>

Leave(u) ==
  /\ pc[u] = "loop" /\ ~IsSearchActive
  /\ Moved(u, "out")
  /\ UNCHANGED <<Unmanaged, lastCheck, busy, adaptiveStop, read>>

(* Run joins the threads and manages the time once more, by force.         *)
Join ==
  /\ main = "searching" /\ main' = "joined"
  /\ \A u \in Threads : pc[u] = "out"
  /\ pc' = [pc EXCEPT ![Main] = "manage"]
  /\ UNCHANGED <<asked, searches, budget, now, lastCheck, busy, adaptiveStop, exhausted,
                 policy, decision, read>>

Managed == budget.mode # "off" /\ HasAdaptiveDeadline(budget)

Back(u) == IF u = Main THEN "done" ELSE "loop"

NotForced(u) == FALSE      \* a mutant: the last call waits its 20 ms as well

Forced(u) == u = Main

(* The clock and the last check are read, in this order.                   *)
ReadClock(u) ==
  /\ pc[u] = "manage"
  /\ read' = [read EXCEPT ![u] = [now |-> now, last |-> lastCheck]]
  /\ Moved(u, IF Managed /\ (Forced(u) \/ now - lastCheck >= 20)
              THEN "claim" ELSE Back(u))
  /\ UNCHANGED <<Unmanaged, lastCheck, busy, adaptiveStop>>

(* compare_exchange on last_time_check_ms_.                                *)
ClaimCheck(u) ==
  /\ pc[u] = "claim"
  /\ IF lastCheck = read[u].last
     THEN lastCheck' = read[u].now /\ Moved(u, "enter")
     ELSE UNCHANGED lastCheck /\ Moved(u, IF Forced(u) THEN "enter" ELSE Back(u))
  /\ UNCHANGED <<Unmanaged, busy, adaptiveStop, read>>

NoGate == FALSE            \* a mutant: the second compare_exchange is left out

Gate == busy

(* compare_exchange on time_check_busy_.                                   *)
EnterCheck(u) ==
  /\ pc[u] = "enter"
  /\ IF Gate THEN UNCHANGED busy /\ Moved(u, Back(u))
             ELSE busy' = TRUE /\ Moved(u, "sample")
  /\ UNCHANGED <<Unmanaged, lastCheck, adaptiveStop, read>>

-----------------------------------------------------------------------------
(* AdaptiveTimeController::Update, on a sample of the root: the best move, *)
(* whether it is proven, whether its value is clearly below the second's   *)
(* (inversion), whether no projected visit can overtake it (dominant), and *)
(* whether its visits are under pressure from the second's.                *)

Samples ==
  {s \in [best : Moves, proven : BOOLEAN, inversion : BOOLEAN, dominant : BOOLEAN,
          pressure : BOOLEAN] : ~(s.inversion /\ s.dominant)}

StableRequired ==
  IF budget.target \div 10 > 200 THEN budget.target \div 10 ELSE 200

(* The policy after it has noted which move is best.                       *)
Noted(s) ==
  IF s.best = policy.best THEN policy
  ELSE [policy EXCEPT !.best = s.best, !.changed = now]

StableFor(s) == now - Noted(s).changed

StableAndDominant(s) == StableFor(s) >= StableRequired /\ s.dominant

EarlyAnyTime(s) ==         \* a mutant: the earliest stop is not looked at
  budget.earlyStop /\ now < budget.target /\ StableAndDominant(s)

Early(s) ==
  /\ budget.earlyStop
  /\ budget.earliest <= now /\ now < budget.target
  /\ StableAndDominant(s)

RecentChange(s) == StableFor(s) < StableRequired

Extended(s) ==
  IF policy.extension # 0 THEN policy.extension
  ELSE IF s.inversion \/ RecentChange(s) THEN budget.latest
  ELSE budget.target + (budget.latest - budget.target) \div 2

NoExtension == ~budget.mayExtend \/ budget.latest <= budget.target

SettledAtTarget(s) ==
  \/ NoExtension
  \/ policy.extension = 0 /\ ~s.inversion /\ ~RecentChange(s) /\ ~s.pressure

StopNow(reason, effective) == [stop |-> TRUE, reason |-> reason, effective |-> effective]

(* What a sample makes of the decision, reason by reason in their order.   *)
Decide(s) ==
  IF s.proven THEN StopNow("proven", now)
  ELSE IF Early(s) THEN StopNow("early", now)
  ELSE IF now < budget.target THEN decision
  ELSE IF SettledAtTarget(s) THEN StopNow("target", budget.target)
  ELSE IF now >= Extended(s) THEN StopNow("latest", Extended(s))
  ELSE IF StableAndDominant(s) THEN StopNow("extension", now)
  ELSE [decision EXCEPT !.effective = Extended(s)]

(* The extension is granted once, when the target is reached unsettled.    *)
Extends(s) ==
  ~s.proven /\ ~Early(s) /\ now >= budget.target /\ ~SettledAtTarget(s)

Regranted(s) ==            \* a mutant: every sample grants a new extension
  [Noted(s) EXCEPT !.extension = now + budget.target]

PolicyAfter(s) ==
  IF Extends(s) THEN [Noted(s) EXCEPT !.extension = Extended(s)] ELSE Noted(s)

NotSticky == TRUE          \* a mutant: a search told to stop is asked again

StillOpen == ~decision.stop

Update(u, s) ==
  /\ pc[u] = "sample"
  /\ IF StillOpen
     THEN decision' = Decide(s) /\ policy' = PolicyAfter(s)
     ELSE UNCHANGED <<decision, policy>>
  /\ Moved(u, "publish")
  /\ UNCHANGED <<main, asked, searches, budget, now, lastCheck, busy, adaptiveStop,
                 exhausted, read>>

AnyMode == TRUE            \* a mutant: mode "shadow" stops the search as well

ActsOnDecision == budget.mode = "on"

Publish(u) ==
  /\ pc[u] = "publish"
  /\ adaptiveStop' = (adaptiveStop \/ (ActsOnDecision /\ decision.stop))
  /\ Moved(u, "release")
  /\ UNCHANGED <<Unmanaged, lastCheck, busy, read>>

Release(u) ==
  /\ pc[u] = "release"
  /\ busy' = FALSE
  /\ Moved(u, Back(u))
  /\ UNCHANGED <<Unmanaged, lastCheck, adaptiveStop, read>>

Report ==
  /\ main = "joined" /\ main' = "idle"
  /\ pc[Main] = "done"
  /\ UNCHANGED <<asked, searches, budget, now, lastCheck, busy, adaptiveStop,
                 exhausted, policy, decision, pc, read>>

-----------------------------------------------------------------------------
GoNext == \E g \in GoCommands, o \in Options, t \in Instants : Go(g, o, t)

UserNext(u) ==
  \/ ReadClock(u) \/ ClaimCheck(u) \/ EnterCheck(u)
  \/ \E s \in Samples : Update(u, s)
  \/ Publish(u) \/ Release(u)

Next ==
  \/ GoNext \/ Tick \/ Exhaust \/ Join \/ Report
  \/ \E u \in Threads : Playout(u) \/ Leave(u)
  \/ \E u \in Users : UserNext(u)

Spec == Init /\ [][Next]_vars

(* Threads are scheduled and time passes; no other limit need be met.      *)
Fairness ==
  /\ WF_vars(Tick) /\ WF_vars(Join \/ Report)
  /\ \A u \in Threads : WF_vars(Playout(u) \/ Leave(u) \/ UserNext(u))
  /\ WF_vars(UserNext(Main))

LiveSpec == Spec /\ Fairness

-----------------------------------------------------------------------------
Reasons == {None, "proven", "early", "target", "latest", "extension"}

PcStates ==
  {"out", "loop", "manage", "claim", "enter", "sample", "publish", "release", "done"}

InCheck(u) == pc[u] \in {"sample", "publish", "release"}

TypeOK ==
  /\ main \in {"idle", "searching", "joined"}
  /\ searches \in 0..MaxSearches
  /\ budget \in TimeBudget
  /\ now \in Nat /\ lastCheck \in Nat \cup {Never}
  /\ busy \in BOOLEAN /\ adaptiveStop \in BOOLEAN /\ exhausted \in BOOLEAN
  /\ policy \in [best : Moves \cup {None}, changed : Nat, extension : Nat]
  /\ decision \in [stop : BOOLEAN, reason : Reasons, effective : Nat]
  /\ pc \in [Users -> PcStates]
  /\ read \in [Users -> [now : Nat, last : Nat \cup {Never}]]

(* The deadlines are in order, whatever clock and options they come from,  *)
(* and a search that obeys them ends before the watchdog's.                *)
Ordered(b) ==
  HasAdaptiveDeadline(b) =>
    /\ 0 < b.earliest /\ b.earliest <= b.target
    /\ b.target <= b.latest /\ b.latest <= b.response
    /\ b.mode = "on" => b.mcts <= 20 * b.hard

BudgetOrdered == Ordered(budget)

(* The controller has no lock of its own: Search lets one thread at a time *)
(* into it, however long that one takes.                                   *)
UpdateExclusive == \A u, v \in Users : InCheck(u) /\ InCheck(v) => u = v

(* An adaptive stop has a reason: the root is proven, or the time is due   *)
(* and what was granted lies between the target and the latest time.       *)
StopJustified ==
  adaptiveStop =>
    /\ budget.mode = "on" /\ decision.stop
    /\ decision.reason = "proven" \/ now >= budget.earliest

(* An extension is within the latest time, which is within the response's. *)
ExtensionBounded ==
  policy.extension # 0 => policy.extension \in budget.target..budget.latest

(* What the policy grants and what it cuts short is within its deadlines.  *)
DecisionSound == StopJustified /\ ExtensionBounded

(* What was decided during the search stands until the next `go`.          *)
DecisionStands ==
  [][decision.stop /\ main # "idle" => decision' = decision]_vars

(* A search reported past its latest time has its decision: the last call, *)
(* which is forced, is turned away by none of the two gates.               *)
LastWordRecorded ==
  main = "idle" /\ searches > 0 /\ Managed /\ read[Main].now >= budget.latest
    => decision.stop

(* A search with a time limit ends, whatever its other limits.             *)
TimedSearchEnds == main = "searching" /\ budget.mcts > 0 ~> main = "idle"
=============================================================================

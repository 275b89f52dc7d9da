-------------------------------- MODULE UsiGo --------------------------------
(***************************************************************************)
(* One `go` command: the engine's main thread (USIEngine::CmdGo and        *)
(* Search::Run), the root-mate worker that looks for a mate beside the     *)
(* search (RootMateState and the thread of LaunchRootMateSearch) and the   *)
(* deadline watchdog.  What the MCTS does is UctSearch; here it is one     *)
(* state of the main thread that ends when its own limits say so or when   *)
(* Search::stop_ is set.  `go mate` (CmdGoMate) runs the same solver alone.*)
(*                                                                         *)
(* A step is one access to shared memory, or a block under start_mutex or  *)
(* watchdog_mutex.  A thread that blocks on start_cv gives the mutex up in *)
(* the same step: until then (state "deciding") it holds it.               *)
(***************************************************************************)
EXTENDS Naturals

CONSTANT MaxGos            \* `go` and `go mate` commands of the run: a bound

ASSUME GoAssumption == MaxGos \in Nat

VARIABLES
  main,           \* where the main thread is
  gos,            \* commands accepted so far
  stop,           \* Search::stop_
  worker,         \* where the root-mate worker is
  started,        \* RootMateState::started, under start_mutex
  stopRequested,  \* RootMateState::stop_requested
  solverStop,     \* the solver's stop_
  found,          \* RootMateState::mate_move, by what may be done with it
  done,           \* RootMateState::done
  stoppedMcts,    \* RootMateState::stopped_mcts
  dog,            \* where the watchdog is
  fired,          \* CmdGo's watchdog_fired
  searchDone,     \* CmdGo's search_done, under watchdog_mutex
  result,         \* SearchResult::best_move: a move, or none
  answer          \* the last reply sent

mateVars == <<worker, started, stopRequested, solverStop, found, done, stoppedMcts>>
dogVars  == <<dog, fired, searchDone>>
vars     == <<main, gos, stop, mateVars, dogVars, result, answer>>

(* A solver's result: none (unresolved), a proved mate, a mate whose first *)
(* move repeats a position, or a proof that there is no mate.              *)
Findings == {"null", "mate", "repetition", "nomate"}
Answers  == {"none", "resign", "book", "mcts", "mate", "checkmate", "nomate", "timeout"}

MainStates ==
  {"idle", "launched", "reset", "notify", "search", "returned", "stopSolver",
   "wake", "join", "markDone", "joinDog", "answer", "polling", "joinSolver"}
WorkerStates ==
  {"none", "check", "deciding", "asleep", "released", "entry", "searching",
   "judge", "tell", "stopMcts", "refused", "finished"}
DogStates == {"none", "waiting", "fires", "stopMate", "stopSolver", "wake", "finished"}

(* Types; a worker that is through, or about to stop the search, is done.  *)
TypeOK ==
  /\ main \in MainStates /\ worker \in WorkerStates /\ dog \in DogStates
  /\ gos \in 0..MaxGos
  /\ stop \in BOOLEAN /\ started \in BOOLEAN /\ stopRequested \in BOOLEAN
  /\ solverStop \in BOOLEAN /\ done \in BOOLEAN /\ stoppedMcts \in BOOLEAN
  /\ fired \in BOOLEAN /\ searchDone \in BOOLEAN
  /\ found \in Findings
  /\ result \in {"move", "none"}
  /\ answer \in Answers
  /\ worker \in {"tell", "stopMcts", "finished"} => done

Init ==
  /\ main = "idle" /\ gos = 0 /\ stop = FALSE
  /\ worker = "none" /\ started = FALSE /\ stopRequested = FALSE
  /\ solverStop = FALSE /\ found = "null" /\ done = FALSE /\ stoppedMcts = FALSE
  /\ dog = "none" /\ fired = FALSE /\ searchDone = FALSE
  /\ result = "none" /\ answer = "none"

-----------------------------------------------------------------------------
(* The main thread.                                                        *)

Accept == main = "idle" /\ gos < MaxGos /\ gos' = gos + 1

(* No networks, a book move or a declaration: answered without a search.   *)
GoAnsweredAtOnce ==
  /\ Accept
  /\ answer' \in {"resign", "book"}
  /\ UNCHANGED <<main, stop, mateVars, dogVars, result>>

(* A fresh RootMateState; a watchdog only when there is a hard deadline.   *)
LaunchRootMateSearch ==
  /\ Accept
  /\ main' = "launched" /\ answer' = "none"
  /\ worker' = "check" /\ started' = FALSE /\ stopRequested' = FALSE
  /\ solverStop' = FALSE /\ found' = "null" /\ done' = FALSE /\ stoppedMcts' = FALSE
  /\ dog' \in {"none", "waiting"} /\ fired' = FALSE /\ searchDone' = FALSE
  /\ UNCHANGED <<stop, result>>

(* Search::Run clears stop_ ...                                            *)
ResetStop ==
  /\ main = "launched" /\ main' = "reset"
  /\ stop' = FALSE
  /\ UNCHANGED <<gos, mateVars, dogVars, result, answer>>

NoMutex == FALSE           \* a mutant: started is set without the mutex

HoldsStartMutex == worker \in {"deciding", "released"}

(* ... and only then releases the worker: RootMateState::Start.            *)
Start ==
  /\ main = "reset" /\ main' = "notify"
  /\ ~HoldsStartMutex
  /\ started' = TRUE
  /\ UNCHANGED <<gos, stop, worker, stopRequested, solverStop, found, done,
                 stoppedMcts, dogVars, result, answer>>

(* start_cv.notify_all: a sleeper tests its condition again.               *)
NotifyWorker == worker' = IF worker = "asleep" THEN "check" ELSE worker

StartNotify ==
  /\ main = "notify" /\ main' = "search"
  /\ NotifyWorker
  /\ UNCHANGED <<gos, stop, started, stopRequested, solverStop, found, done,
                 stoppedMcts, dogVars, result, answer>>

(* Run returns: stopped, at a limit of its own, or at once when the root   *)
(* has no move or a single one.                                            *)
SearchReturns ==
  /\ main = "search" /\ main' = "returned"
  /\ result' \in {"move", "none"}
  /\ UNCHANGED <<gos, stop, mateVars, dogVars, answer>>

NoJoin == TRUE             \* a mutant: the watchdog is left to itself

WatchdogGone == dog \in {"none", "finished"}

(* RootMateState::Stop, called without start_mutex: request, solver, wake. *)
RequestStop ==
  /\ main = "returned" /\ main' = "stopSolver"
  /\ stopRequested' = TRUE
  /\ UNCHANGED <<gos, stop, worker, started, solverStop, found, done,
                 stoppedMcts, dogVars, result, answer>>

StopSolver ==
  /\ main = "stopSolver" /\ main' = "wake"
  /\ solverStop' = TRUE
  /\ UNCHANGED <<gos, stop, worker, started, stopRequested, found, done,
                 stoppedMcts, dogVars, result, answer>>

StopNotify ==
  /\ main = "wake" /\ main' = "join"
  /\ NotifyWorker
  /\ UNCHANGED <<gos, stop, started, stopRequested, solverStop, found, done,
                 stoppedMcts, dogVars, result, answer>>

JoinWorker ==
  /\ main = "join" /\ main' = "markDone"
  /\ worker = "finished"
  /\ UNCHANGED <<gos, stop, mateVars, dogVars, result, answer>>

HoldsWatchdogMutex == dog \in {"fires", "stopMate", "stopSolver", "wake"}

MarkSearchDone ==
  /\ main = "markDone" /\ main' = "joinDog"
  /\ ~HoldsWatchdogMutex
  /\ searchDone' = TRUE
  /\ UNCHANGED <<gos, stop, mateVars, dog, fired, result, answer>>

JoinWatchdog ==
  /\ main = "joinDog" /\ main' = "answer"
  /\ WatchdogGone
  /\ UNCHANGED <<gos, stop, mateVars, dogVars, result, answer>>

(* SelectAndReportBestMove: the mate unless it repeats, else the search's. *)
SelectAndReportBestMove ==
  /\ main = "answer" /\ main' = "idle"
  /\ answer' = IF found = "mate" THEN "mate"
               ELSE IF result = "none" THEN "resign" ELSE "mcts"
  /\ UNCHANGED <<gos, stop, mateVars, dogVars, result>>

(* `stop` reaches the engine between commands only: its loop is one thread. *)
CmdStop ==
  /\ main = "idle"
  /\ stop' = TRUE
  /\ UNCHANGED <<main, gos, mateVars, dogVars, result, answer>>

(* `go mate`: a solver of its own, polled until it is done or out of time. *)
GoMate ==
  /\ Accept
  /\ main' = "polling" /\ answer' = "none"
  /\ worker' = "entry" /\ started' = FALSE /\ stopRequested' = FALSE
  /\ solverStop' = FALSE /\ found' = "null" /\ done' = FALSE /\ stoppedMcts' = FALSE
  /\ dog' = "none" /\ fired' = FALSE /\ searchDone' = FALSE
  /\ UNCHANGED <<stop, result>>

PollEnds ==
  /\ main = "polling" /\ main' = "joinSolver"
  /\ \/ done /\ UNCHANGED solverStop
     \/ solverStop' = TRUE
  /\ UNCHANGED <<gos, stop, worker, started, stopRequested, found, done,
                 stoppedMcts, dogVars, result, answer>>

ReportMate ==
  /\ main = "joinSolver" /\ main' = "idle"
  /\ worker = "finished"
  /\ answer' = IF found \in {"mate", "repetition"} THEN "checkmate"
               ELSE IF found = "nomate" THEN "nomate" ELSE "timeout"
  /\ UNCHANGED <<gos, stop, mateVars, dogVars, result>>

-----------------------------------------------------------------------------
(* The root-mate worker.                                                   *)

WorkerStep(from, to) ==
  /\ worker = from /\ worker' = to
  /\ UNCHANGED <<main, gos, started, stopRequested, dogVars, result, answer>>

StartAnyway == TRUE        \* a mutant: the worker does not wait to be started

CanStart == started

(* WaitForStart takes start_mutex and tests; between test and sleep the    *)
(* mutex is still held.                                                    *)
WaitTest ==
  /\ WorkerStep("check", IF CanStart \/ stopRequested THEN "released" ELSE "deciding")
  /\ UNCHANGED <<stop, solverStop, found, done, stoppedMcts>>

WaitSleep ==
  /\ WorkerStep("deciding", "asleep")
  /\ UNCHANGED <<stop, solverStop, found, done, stoppedMcts>>

WaitReturn ==
  /\ WorkerStep("released", IF CanStart /\ ~stopRequested THEN "entry" ELSE "refused")
  /\ UNCHANGED <<stop, solverStop, found, done, stoppedMcts>>

Unfinished ==              \* a mutant: a worker never started is never done
  /\ WorkerStep("refused", "finished")
  /\ UNCHANGED <<stop, solverStop, found, done, stoppedMcts>>

NotStarted ==
  /\ WorkerStep("refused", "finished")
  /\ done' = TRUE
  /\ UNCHANGED <<stop, solverStop, found, stoppedMcts>>

ForgetStop(flag) == FALSE  \* a mutant: search() resets its stop flag

(* The solver's search begins.  Its stop flag is sticky: not cleared here. *)
StopOnEntry(flag) == flag

EnterSearch ==
  /\ WorkerStep("entry", "searching")
  /\ solverStop' = StopOnEntry(solverStop)
  /\ UNCHANGED <<stop, found, done, stoppedMcts>>

(* A stopped search is unresolved; any other may end with any result, none *)
(* included (its deadline, its node limit).                                *)
SolverReturns ==
  /\ WorkerStep("searching", "judge")
  /\ found' \in IF solverStop THEN {"null"} ELSE Findings
  /\ UNCHANGED <<stop, solverStop, done, stoppedMcts>>

AnyMate(f) == f \in {"mate", "repetition"}  \* a mutant: no repetition test

(* The worker's test of what it found: a mate that does not begin with a   *)
(* repetition.                                                             *)
StopsMcts(f) == f = "mate"

Alone == main \in {"polling", "joinSolver"}  \* `go mate`: no search to stop

Publish ==
  /\ WorkerStep("judge", IF StopsMcts(found) /\ ~Alone THEN "tell" ELSE "finished")
  /\ done' = TRUE
  /\ UNCHANGED <<stop, solverStop, found, stoppedMcts>>

ClaimStop ==
  /\ WorkerStep("tell", "stopMcts")
  /\ stoppedMcts' = TRUE
  /\ UNCHANGED <<stop, solverStop, found, done>>

StopMcts ==
  /\ WorkerStep("stopMcts", "finished")
  /\ stop' = TRUE
  /\ UNCHANGED <<solverStop, found, done, stoppedMcts>>

-----------------------------------------------------------------------------
(* The watchdog.  It holds watchdog_mutex from its deadline on.            *)

DogStep(from, to) ==
  /\ dog = from /\ dog' = to
  /\ UNCHANGED <<main, gos, started, found, done, stoppedMcts, searchDone, result, answer>>

DogQuits ==
  /\ DogStep("waiting", "finished")
  /\ searchDone
  /\ UNCHANGED <<stop, worker, stopRequested, solverStop, fired>>

(* The deadline may pass at any time, before Search::Run begins as well: it *)
(* counts from the receipt of `go`, networks still to be loaded included.  *)
DeadlinePasses ==
  /\ DogStep("waiting", "fires")
  /\ ~searchDone
  /\ fired' = TRUE
  /\ UNCHANGED <<stop, worker, stopRequested, solverStop>>

DogStopsMcts ==
  /\ DogStep("fires", "stopMate")
  /\ stop' = TRUE
  /\ UNCHANGED <<worker, stopRequested, solverStop, fired>>

DogRequestsStop ==
  /\ DogStep("stopMate", "stopSolver")
  /\ stopRequested' = TRUE
  /\ UNCHANGED <<stop, worker, solverStop, fired>>

DogStopsSolver ==
  /\ DogStep("stopSolver", "wake")
  /\ solverStop' = TRUE
  /\ UNCHANGED <<stop, worker, stopRequested, fired>>

DogNotifies ==
  /\ DogStep("wake", "finished")
  /\ NotifyWorker
  /\ UNCHANGED <<stop, stopRequested, solverStop, fired>>

-----------------------------------------------------------------------------
MainNext ==
  \/ ResetStop \/ Start \/ StartNotify \/ SearchReturns
  \/ RequestStop \/ StopSolver \/ StopNotify \/ JoinWorker
  \/ MarkSearchDone \/ JoinWatchdog \/ SelectAndReportBestMove
  \/ PollEnds \/ ReportMate

GuiNext == GoAnsweredAtOnce \/ LaunchRootMateSearch \/ GoMate \/ CmdStop

WorkerNext ==
  \/ WaitTest \/ WaitSleep \/ WaitReturn \/ NotStarted \/ EnterSearch
  \/ SolverReturns \/ Publish \/ ClaimStop \/ StopMcts

DogNext ==
  \/ DogQuits \/ DeadlinePasses \/ DogStopsMcts \/ DogRequestsStop
  \/ DogStopsSolver \/ DogNotifies

Next == MainNext \/ GuiNext \/ WorkerNext \/ DogNext

Spec == Init /\ [][Next]_vars

(* Every thread is scheduled.  The search ends by its node or time limit.  *)
(* The mate search need not end until it is stopped, and no deadline has   *)
(* to pass.                                                                *)
Fairness ==
  /\ WF_vars(MainNext)
  /\ WF_vars(WaitTest \/ WaitSleep \/ WaitReturn \/ NotStarted \/ EnterSearch)
  /\ WF_vars(solverStop /\ SolverReturns)
  /\ WF_vars(Publish \/ ClaimStop \/ StopMcts)
  /\ WF_vars(DogNext /\ ~DeadlinePasses)

LiveSpec == Spec /\ Fairness

-----------------------------------------------------------------------------
(* Once Start has notified, the worker is not asleep and will not fall     *)
(* asleep: the mutex lets `started` change only before its test or after   *)
(* it sleeps.                                                              *)
NoLostWakeup ==
  main \in {"search", "returned", "stopSolver", "wake", "join"}
    => worker \notin {"deciding", "asleep"}

(* A proof that stops the MCTS is not undone by the search's own start:    *)
(* while Run searches, the stop of a worker that is through still stands.  *)
MateStopKept ==
  main = "search" /\ stoppedMcts /\ worker = "finished" => stop

(* A cancelled solver stays cancelled, whether it had entered search() or  *)
(* not, whoever cancelled it.                                              *)
CancellationKept ==
  main \in {"wake", "join"} \/ (dog \in {"wake", "finished"} /\ fired) => solverStop

(* No signal between the threads is lost, in whatever order it meets what  *)
(* it is for: not the start, nor the stop of the search, nor the solver's. *)
SignalsKept == NoLostWakeup /\ MateStopKept /\ CancellationKept

(* The worker's verdict and the main thread's agree although each judges   *)
(* for itself: a mate is answered exactly if it cut the search short.      *)
MatePlayedIfItStoppedSearch ==
  [][main = "answer" /\ main' = "idle" => (answer' = "mate" <=> stoppedMcts)]_vars

(* CmdGo's locals, which both threads refer to, outlive the threads.       *)
QuietWhenIdle ==
  main = "idle" => worker \in {"none", "finished"} /\ dog \in {"none", "finished"}

(* Every command is answered: no thread waits for ever.                    *)
EveryGoAnswered == main # "idle" ~> main = "idle"

(* The response deadline stops both workers, as the integration review     *)
(* has it: after the watchdog the search does not run unstopped.           *)
HardDeadlineStopsBoth ==
  fired /\ dog = "finished" /\ main = "search" => stop /\ solverStop
=============================================================================

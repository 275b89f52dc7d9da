------------------------------ MODULE UsiProofs ------------------------------
(***************************************************************************)
(* Proofs about the engine's protocol.  Of UsiGo, for any number of        *)
(* commands: one inductive invariant in three parts, where the threads can *)
(* be together (Places), what the worker's progress says of its findings   *)
(* (Verdict) and which stop requests stand (Requests).  Of UsiSession, for *)
(* sessions of any length and any files.  Of the BNS solver the worker     *)
(* runs: that a descent of its search moves on.                            *)
(***************************************************************************)
EXTENDS UsiGo, UsiSession, BranchNumbers, TLAPS

BeforeStart == {"launched", "reset"}
AfterStart  == {"notify", "search", "returned", "stopSolver", "wake", "join"}
Notified    == AfterStart \ {"notify"}
AfterJoin   == {"markDone", "joinDog", "answer", "idle"}
Waiting     == {"check", "deciding", "asleep", "released", "refused"}
Working     == {"entry", "searching", "judge", "tell", "stopMcts"}

(* The worker works only after Start, or alone; it sleeps only before the  *)
(* notification; no thread outlives its join.                              *)
Places ==
  /\ main \in BeforeStart => ~started
  /\ main \in AfterStart => started
  /\ worker \in Working => started \/ Alone
  /\ main = "notify" => worker # "deciding"
  /\ main \in Notified => worker \notin {"deciding", "asleep"}
  /\ main \in AfterJoin => worker \in {"none", "finished"}
  /\ main \in {"answer", "idle"} => dog \in {"none", "finished"}
  /\ Alone => /\ dog = "none"
              /\ worker \in {"entry", "searching", "judge", "finished"}
  /\ worker = "none" => main = "idle"

(* Nothing is found before the search; the search is stopped exactly by a  *)
(* mate that is to be played.                                              *)
Verdict ==
  /\ worker \in Waiting \cup {"none", "entry", "searching"} => found = "null"
  /\ worker \in Waiting \cup {"none", "entry", "searching", "judge", "tell"} => ~stoppedMcts
  /\ worker \in {"tell", "stopMcts"} => found = "mate"
  /\ worker = "stopMcts" => stoppedMcts
  /\ worker = "finished" /\ ~Alone /\ main # "idle"
       => (stoppedMcts <=> found = "mate")

(* Stops that have been requested are not undone.                          *)
Requests ==
  /\ main \in {"notify", "search"} /\ stoppedMcts /\ worker = "finished" => stop
  /\ main \in BeforeStart => ~stoppedMcts
  /\ main \in {"wake", "join"} => solverStop
  /\ dog \in {"wake", "finished"} /\ fired => solverStop
  /\ dog = "waiting" => ~fired

IInv == TypeOK /\ Places /\ Verdict /\ Requests

USE DEF TypeOK, Places, Verdict, Requests, Alone, MainStates, WorkerStates, DogStates,
  Findings, Answers, BeforeStart, AfterStart, Notified, AfterJoin, Waiting, Working,
  vars, mateVars, dogVars

(* The flags a fresh command resets together.                              *)
Flags ==
  /\ started \in BOOLEAN /\ stopRequested \in BOOLEAN /\ solverStop \in BOOLEAN
  /\ done \in BOOLEAN /\ stoppedMcts \in BOOLEAN /\ fired \in BOOLEAN
  /\ searchDone \in BOOLEAN

LEMMA InitIInv == Init => IInv
<1> SUFFICES ASSUME Init PROVE IInv
  OBVIOUS
<1>0. stop \in BOOLEAN /\ Flags
  BY Zenon DEF Init, Flags
<1>1. TypeOK
  BY <1>0, GoAssumption DEF Init, Flags
<1>2. Places
  BY DEF Init
<1>3. Verdict
  BY DEF Init
<1>4. Requests
  BY DEF Init
<1> QED
  BY <1>1, <1>2, <1>3, <1>4 DEF IInv

LEMMA MainKeeps == IInv /\ MainNext => IInv'
<1> SUFFICES ASSUME IInv, MainNext PROVE IInv'
  OBVIOUS
<1>1. CASE ResetStop
  <2>0. stop' \in BOOLEAN
    BY <1>1, Zenon DEF ResetStop
  <2>1. TypeOK'
    BY <1>1, <2>0 DEF IInv, ResetStop
  <2>2. Places'
    BY <1>1 DEF IInv, ResetStop
  <2>3. Verdict'
    BY <1>1 DEF IInv, ResetStop
  <2>4. Requests'
    BY <1>1 DEF IInv, ResetStop
  <2> QED
    BY <2>1, <2>2, <2>3, <2>4 DEF IInv
<1>2. CASE Start
  BY <1>2 DEF IInv, Start, HoldsStartMutex
<1>3. CASE StartNotify
  BY <1>3 DEF IInv, StartNotify, NotifyWorker
<1>4. CASE SearchReturns
  BY <1>4 DEF IInv, SearchReturns
<1>5. CASE RequestStop
  BY <1>5 DEF IInv, RequestStop
<1>6. CASE StopSolver
  BY <1>6 DEF IInv, StopSolver
<1>7. CASE StopNotify
  BY <1>7 DEF IInv, StopNotify, NotifyWorker
<1>8. CASE JoinWorker
  BY <1>8 DEF IInv, JoinWorker
<1>9. CASE MarkSearchDone
  BY <1>9 DEF IInv, MarkSearchDone
<1>10. CASE JoinWatchdog
  BY <1>10 DEF IInv, JoinWatchdog, WatchdogGone
<1>11. CASE SelectAndReportBestMove
  BY <1>11 DEF IInv, SelectAndReportBestMove
<1>12. CASE PollEnds
  <2>0. solverStop' \in BOOLEAN
    <3>1. CASE solverStop' = TRUE
      BY <3>1, Zenon
    <3>2. CASE UNCHANGED solverStop
      BY <3>2 DEF IInv
    <3> QED
      BY <1>12, <3>1, <3>2 DEF PollEnds
  <2>1. TypeOK'
    BY <1>12, <2>0 DEF IInv, PollEnds
  <2>2. Places'
    BY <1>12 DEF IInv, PollEnds
  <2>3. Verdict'
    BY <1>12 DEF IInv, PollEnds
  <2>4. Requests'
    BY <1>12 DEF IInv, PollEnds
  <2> QED
    BY <2>1, <2>2, <2>3, <2>4 DEF IInv
<1>13. CASE ReportMate
  BY <1>13 DEF IInv, ReportMate
<1> QED
  BY <1>1, <1>2, <1>3, <1>4, <1>5, <1>6, <1>7, <1>8, <1>9, <1>10, <1>11, <1>12,
     <1>13 DEF MainNext

LEMMA GuiKeeps == IInv /\ GuiNext => IInv'
<1> SUFFICES ASSUME IInv, GuiNext PROVE IInv'
  OBVIOUS
<1>1. CASE GoAnsweredAtOnce
  BY <1>1, GoAssumption DEF IInv, GoAnsweredAtOnce, Accept
<1>2. CASE LaunchRootMateSearch
  <2>0. stop' \in BOOLEAN /\ Flags'
    <3>1. stop' \in BOOLEAN
      BY <1>2 DEF IInv, LaunchRootMateSearch
    <3>2. Flags'
      BY <1>2, Zenon DEF LaunchRootMateSearch, Flags
    <3> QED
      BY <3>1, <3>2
  <2>1. TypeOK'
    BY <1>2, <2>0, GoAssumption DEF IInv, LaunchRootMateSearch, Accept, Flags
  <2>2. Places'
    BY <1>2, GoAssumption DEF IInv, LaunchRootMateSearch, Accept
  <2>3. Verdict'
    BY <1>2, GoAssumption DEF IInv, LaunchRootMateSearch, Accept
  <2>4. Requests'
    BY <1>2, GoAssumption DEF IInv, LaunchRootMateSearch, Accept
  <2> QED
    BY <2>1, <2>2, <2>3, <2>4 DEF IInv
<1>3. CASE GoMate
  <2>0. stop' \in BOOLEAN /\ Flags'
    <3>1. stop' \in BOOLEAN
      BY <1>3 DEF IInv, GoMate
    <3>2. Flags'
      BY <1>3, Zenon DEF GoMate, Flags
    <3> QED
      BY <3>1, <3>2
  <2>1. TypeOK'
    BY <1>3, <2>0, GoAssumption DEF IInv, GoMate, Accept, Flags
  <2>2. Places'
    BY <1>3, GoAssumption DEF IInv, GoMate, Accept
  <2>3. Verdict'
    BY <1>3, GoAssumption DEF IInv, GoMate, Accept
  <2>4. Requests'
    BY <1>3, GoAssumption DEF IInv, GoMate, Accept
  <2> QED
    BY <2>1, <2>2, <2>3, <2>4 DEF IInv
<1>4. CASE CmdStop
  BY <1>4 DEF IInv, CmdStop
<1> QED
  BY <1>1, <1>2, <1>3, <1>4 DEF GuiNext

LEMMA WorkerKeeps == IInv /\ WorkerNext => IInv'
<1> SUFFICES ASSUME IInv, WorkerNext PROVE IInv'
  OBVIOUS
<1> USE DEF WorkerStep
<1>1. CASE WaitTest
  BY <1>1 DEF IInv, WaitTest, CanStart
<1>2. CASE WaitSleep
  BY <1>2 DEF IInv, WaitSleep
<1>3. CASE WaitReturn
  BY <1>3 DEF IInv, WaitReturn, CanStart
<1>4. CASE NotStarted
  BY <1>4 DEF IInv, NotStarted
<1>5. CASE EnterSearch
  BY <1>5 DEF IInv, EnterSearch, StopOnEntry
<1>6. CASE SolverReturns
  BY <1>6 DEF IInv, SolverReturns
<1>7. CASE Publish
  BY <1>7 DEF IInv, Publish, StopsMcts
<1>8. CASE ClaimStop
  BY <1>8 DEF IInv, ClaimStop
<1>9. CASE StopMcts
  BY <1>9 DEF IInv, StopMcts
<1> QED
  BY <1>1, <1>2, <1>3, <1>4, <1>5, <1>6, <1>7, <1>8, <1>9 DEF WorkerNext

LEMMA DogKeeps == IInv /\ DogNext => IInv'
<1> SUFFICES ASSUME IInv, DogNext PROVE IInv'
  OBVIOUS
<1> USE DEF DogStep
<1>1. CASE DogQuits
  BY <1>1 DEF IInv, DogQuits
<1>2. CASE DeadlinePasses
  BY <1>2 DEF IInv, DeadlinePasses
<1>3. CASE DogStopsMcts
  BY <1>3 DEF IInv, DogStopsMcts
<1>4. CASE DogRequestsStop
  BY <1>4 DEF IInv, DogRequestsStop
<1>5. CASE DogStopsSolver
  BY <1>5 DEF IInv, DogStopsSolver
<1>6. CASE DogNotifies
  BY <1>6 DEF IInv, DogNotifies, NotifyWorker
<1> QED
  BY <1>1, <1>2, <1>3, <1>4, <1>5, <1>6 DEF DogNext

LEMMA StutterKeeps == IInv /\ UNCHANGED vars => IInv'
BY DEF IInv

LEMMA StepKeeps == IInv /\ [Next]_vars => IInv'
BY MainKeeps, GuiKeeps, WorkerKeeps, DogKeeps, StutterKeeps DEF Next

(* The invariant of all of it.                                             *)
THEOREM Inductive == Spec => []IInv
BY InitIInv, StepKeeps, PTL DEF Spec

(* The worker is not left asleep: RootMateState::Start and WaitForStart    *)
(* lose no wake-up, however they interleave.                               *)
THEOREM WakeupKept == Spec => []NoLostWakeup
<1>1. IInv => NoLostWakeup
  BY DEF IInv, NoLostWakeup
<1> QED
  BY <1>1, Inductive, PTL

(* Search::Run's reset of stop_ never erases the stop of a proved mate:    *)
(* that is what WaitForStart is for.                                       *)
THEOREM MateStopsSearch == Spec => []MateStopKept
<1>1. IInv => MateStopKept
  BY DEF IInv, MateStopKept
<1> QED
  BY <1>1, Inductive, PTL

(* A cancelled mate solver stays cancelled, even before it has entered     *)
(* search().                                                               *)
THEOREM SolverStaysCancelled == Spec => []CancellationKept
<1>1. IInv => CancellationKept
  BY DEF IInv, CancellationKept
<1> QED
  BY <1>1, Inductive, PTL

(* Worker and watchdog, which refer to CmdGo's locals, end before it does. *)
THEOREM ThreadsJoined == Spec => []QuietWhenIdle
<1>1. IInv => QuietWhenIdle
  BY DEF IInv, QuietWhenIdle
<1> QED
  BY <1>1, Inductive, PTL

(* The mate is answered exactly if it stopped the search.                  *)
THEOREM VerdictsAgree == Spec => MatePlayedIfItStoppedSearch
<1>1. IInv /\ [Next]_vars =>
        [main = "answer" /\ main' = "idle" => (answer' = "mate" <=> stoppedMcts)]_vars
  BY DEF IInv, Next, MainNext, GuiNext, WorkerNext, DogNext, WorkerStep, DogStep,
    ResetStop, Start, StartNotify, SearchReturns, RequestStop, StopSolver, StopNotify,
    JoinWorker, MarkSearchDone, JoinWatchdog, SelectAndReportBestMove, PollEnds,
    ReportMate, GoAnsweredAtOnce, LaunchRootMateSearch, GoMate, CmdStop, Accept,
    WaitTest, WaitSleep, WaitReturn, NotStarted, EnterSearch, SolverReturns, Publish,
    ClaimStop, StopMcts, DogQuits, DeadlinePasses, DogStopsMcts, DogRequestsStop,
    DogStopsSolver, DogNotifies
<1> QED
  BY <1>1, Inductive, PTL DEF Spec, MatePlayedIfItStoppedSearch

(* No start, stop or cancellation between main thread, worker and watchdog *)
(* is lost.                                                                *)
THEOREM SignalsAreKept == Spec => []SignalsKept
BY WakeupKept, MateStopsSearch, SolverStaysCancelled, PTL DEF SignalsKept

-----------------------------------------------------------------------------
(* The session. *)

(* What isready prepares is clean until the next game begins, because a    *)
(* game that has begun is not prepared any more; and without a Search      *)
(* nothing is kept.                                                        *)
Kept ==
  /\ memory \subseteq {"game", "stray"}
  /\ search = None => memory = {}
  /\ prepared => ~opened /\ memory \subseteq {"stray"}

SessionInv == SessionTypeOK /\ OptionsInForce /\ BooksInForce /\ Kept

-----------------------------------------------------------------------------
(* In the initial state there is neither a Search nor a network.           *)
LEMMA SessionStarts == SessionInit => SessionInv
<1> SUFFICES ASSUME SessionInit PROVE SessionInv  OBVIOUS
<1>1. SessionTypeOK
  BY SessionAssumption DEF SessionInit, SessionTypeOK, Configs
<1>2. OptionsInForce /\ Kept
  BY SessionAssumption DEF SessionInit, OptionsInForce, Kept
<1>3. BooksInForce
  BY DEF SessionInit, BooksInForce, OpenedGoteExit
<1> QED  BY <1>1, <1>2, <1>3 DEF SessionInv
-----------------------------------------------------------------------------
(* A Search points at the networks, so while it lives they are loaded, and *)
(* EnsureNetworks loads none.                                              *)
LEMMA Networks ==
  ASSUME SessionInv
  PROVE  /\ EnsureNetworks \in AllNets \cup {None}
         /\ nets # None => EnsureNetworks = nets
         /\ search # None => nets # None /\ nets \in AllNets
         /\ EnsureNetworks \in NetFiles => EnsureNetworks = netPath
  BY SessionAssumption
  DEF SessionInv, SessionTypeOK, OptionsInForce, EnsureNetworks, AllNets, Searches

(* EnsureSearch yields a Search on the networks of the session: the one    *)
(* that was there, or one with the configuration of the session.           *)
LEMMA Ensured ==
  ASSUME SessionInv, NEW c \in Configs, NEW n \in AllNets, nets # None => n = nets
  PROVE  /\ EnsureSearch(c, n) \in Searches
         /\ EnsureSearch(c, n).nets = n
         /\ IF search = None THEN EnsureSearch(c, n).config = c ELSE EnsureSearch(c, n) = search
<1>1. n # None
  BY SessionAssumption DEF AllNets
<1>2. CASE search = None
  BY <1>1, <1>2 DEF EnsureSearch, Snapshot, Searches
<1>3. CASE search # None
  <2>1. nets # None /\ search \in Searches /\ search.nets = nets
    BY <1>3, Networks DEF SessionInv, SessionTypeOK, OptionsInForce
  <2> QED  BY <1>3, <2>1 DEF EnsureSearch
<1> QED  BY <1>2, <1>3

(* Pushing a limit changes nothing else.                                   *)
LEMMA Pushed ==
  ASSUME NEW s \in Searches, NEW n \in Limits
  PROVE  /\ Push(s, n) \in Searches
         /\ Push(s, n).nets = s.nets
         /\ Push(s, n).config.nodes = n
         /\ Push(s, n).config.option = s.config.option
         /\ Push(s, n).config.leaf = s.config.leaf
  BY DEF Push, Searches, Configs

(* No command takes the session out of the invariant.                      *)
LEMMA CommandsKeep == SessionInv /\ [SessionNext]_sessionVars => SessionInv'
<1> SUFFICES ASSUME SessionInv, [SessionNext]_sessionVars PROVE SessionInv'  OBVIOUS
<1> USE DEF SessionInv
<1>1. ASSUME NEW v \in Values, SetSearchOption(v) PROVE SessionInv'
  <2>1. SessionTypeOK'
    BY <1>1, SessionAssumption
    DEF SetSearchOption, ResetSearch, Silent, netVars, bookVars, Configs, SessionTypeOK
  <2>2. OptionsInForce'
    BY <1>1, SessionAssumption
    DEF SetSearchOption, ResetSearch, Silent, netVars, bookVars, OptionsInForce
  <2>3. BooksInForce'
    BY <1>1, SessionAssumption
    DEF SetSearchOption, ResetSearch, Silent, netVars, bookVars, BooksInForce, OpenedGoteExit
  <2>4. Kept'
    BY <1>1, SessionAssumption
    DEF SetSearchOption, ResetSearch, Silent, netVars, bookVars, Kept
  <2> QED  BY <2>1, <2>2, <2>3, <2>4
<1>2. ASSUME NEW mode \in {"off", "shallow", "dfpn"}, SetLeafMateMode(mode) PROVE SessionInv'
  <2>1. SessionTypeOK'
    BY <1>2, SessionAssumption
    DEF SetLeafMateMode, ResetSearch, Silent, netVars, bookVars, Configs, SessionTypeOK
  <2>2. OptionsInForce'
    BY <1>2, SessionAssumption
    DEF SetLeafMateMode, ResetSearch, Silent, netVars, bookVars, SessionTypeOK, Configs,
        Searches, OptionsInForce
  <2>3. BooksInForce'
    BY <1>2, SessionAssumption
    DEF SetLeafMateMode, ResetSearch, Silent, netVars, bookVars, BooksInForce, OpenedGoteExit
  <2>4. Kept'
    BY <1>2, SessionAssumption
    DEF SetLeafMateMode, ResetSearch, Silent, netVars, bookVars, Kept
  <2> QED  BY <2>1, <2>2, <2>3, <2>4
<1>3. ASSUME NEW d \in 1..7, SetLeafMateDepth(d) PROVE SessionInv'
  <2>1. SessionTypeOK'
    BY <1>3, SessionAssumption
    DEF SetLeafMateDepth, ResetSearch, Silent, netVars, bookVars, Configs,
        OddDepth, SessionTypeOK
  <2>2. OptionsInForce'
    BY <1>3, SessionAssumption
    DEF SetLeafMateDepth, ResetSearch, Silent, netVars, bookVars, OptionsInForce
  <2>3. BooksInForce'
    BY <1>3, SessionAssumption
    DEF SetLeafMateDepth, ResetSearch, Silent, netVars, bookVars, BooksInForce, OpenedGoteExit
  <2>4. Kept'
    BY <1>3, SessionAssumption
    DEF SetLeafMateDepth, ResetSearch, Silent, netVars, bookVars, Kept
  <2> QED  BY <2>1, <2>2, <2>3, <2>4
<1>4. ASSUME NEW n \in Limits, SetMaxNodes(n) PROVE SessionInv'
  <2>1. SessionTypeOK'
    BY <1>4, SessionAssumption DEF SetMaxNodes, Silent, netVars, bookVars, SessionTypeOK
  <2>2. OptionsInForce'
    BY <1>4, SessionAssumption
    DEF SetMaxNodes, Silent, netVars, bookVars, OptionsInForce
  <2>3. BooksInForce'
    BY <1>4, SessionAssumption DEF SetMaxNodes, Silent, netVars, bookVars, BooksInForce, OpenedGoteExit
  <2>4. Kept'
    BY <1>4, SessionAssumption DEF SetMaxNodes, Silent, netVars, bookVars, Kept
  <2> QED  BY <2>1, <2>2, <2>3, <2>4
<1>5. ASSUME NEW f \in NetFiles, SetNet(f) PROVE SessionInv'
  <2>1. SessionTypeOK'
    BY <1>5, SessionAssumption
    DEF SetNet, ResetInference, ResetSearch, Silent, netVars, bookVars, SessionTypeOK
  <2>2. OptionsInForce'
    BY <1>5, SessionAssumption
    DEF SetNet, ResetInference, ResetSearch, Silent, netVars, bookVars,
        OptionsInForce
  <2>3. BooksInForce'
    BY <1>5, SessionAssumption
    DEF SetNet, ResetInference, ResetSearch, Silent, netVars, bookVars,
        BooksInForce, OpenedGoteExit
  <2>4. Kept'
    BY <1>5, SessionAssumption
    DEF SetNet, ResetInference, ResetSearch, Silent, netVars, bookVars, Kept
  <2> QED  BY <2>1, <2>2, <2>3, <2>4
<1>6. ASSUME NEW f \in BookFiles \cup {None}, SetBookFile(f) PROVE SessionInv'
  <2>1. SessionTypeOK'
    BY <1>6, SessionAssumption DEF SetBookFile, Silent, netVars, bookVars, SessionTypeOK
  <2>2. OptionsInForce'
    BY <1>6, SessionAssumption
    DEF SetBookFile, Silent, netVars, bookVars, OptionsInForce
  <2>3. BooksInForce'
    BY <1>6, SessionAssumption DEF SetBookFile, Silent, netVars, bookVars, BooksInForce, OpenedGoteExit
  <2>4. Kept'
    BY <1>6, SessionAssumption DEF SetBookFile, Silent, netVars, bookVars, Kept
  <2> QED  BY <2>1, <2>2, <2>3, <2>4
<1>7. ASSUME NEW f \in BookFiles \cup {None}, SetGoteExitBookFile(f) PROVE SessionInv'
  <2>1. SessionTypeOK'
    BY <1>7, SessionAssumption
    DEF SetGoteExitBookFile, Silent, netVars, bookVars, SessionTypeOK
  <2>2. OptionsInForce'
    BY <1>7, SessionAssumption
    DEF SetGoteExitBookFile, Silent, netVars, bookVars, OptionsInForce
  <2>3. BooksInForce'
    BY <1>7, SessionAssumption
    DEF SetGoteExitBookFile, Silent, netVars, bookVars, BooksInForce, OpenedGoteExit
  <2>4. Kept'
    BY <1>7, SessionAssumption DEF SetGoteExitBookFile, Silent, netVars, bookVars, Kept
  <2> QED  BY <2>1, <2>2, <2>3, <2>4
<1>8. ASSUME NEW b \in BOOLEAN, UseGoteExitBook(b) PROVE SessionInv'
  <2>1. SessionTypeOK'
    BY <1>8, SessionAssumption
    DEF UseGoteExitBook, DirtyAfterToggle, Silent, netVars, bookVars, SessionTypeOK
  <2>2. OptionsInForce'
    BY <1>8, SessionAssumption
    DEF UseGoteExitBook, DirtyAfterToggle, Silent, netVars, bookVars,
        OptionsInForce
  <2>3. BooksInForce'
    <3>1. ~dirty' => ~dirty /\ b = useGoteExit
      BY <1>8, Zenon DEF UseGoteExitBook, DirtyAfterToggle
    <3> QED  BY <1>8, <3>1 DEF UseGoteExitBook, BooksInForce, Opened, OpenedGoteExit
  <2>4. Kept'
    BY <1>8, SessionAssumption
    DEF UseGoteExitBook, DirtyAfterToggle, Silent, netVars, bookVars, Kept
  <2> QED  BY <2>1, <2>2, <2>3, <2>4
<1>9. CASE CmdIsReady
  <2>1. CASE nets' = None
    <3>1. nets = None /\ search = None
      BY <1>9, <2>1, Networks DEF CmdIsReady
    <3> QED
      BY <1>9, <2>1, <3>1, SessionAssumption
      DEF CmdIsReady, Silent, SessionTypeOK, OptionsInForce,
          BooksInForce, Kept, Opened, OpenedGoteExit
  <2>2. CASE nets' # None
    <3>1. /\ nets' \in AllNets /\ (nets # None => nets' = nets)
          /\ nets' \in NetFiles => nets' = netPath
      BY <1>9, <2>2, Networks DEF CmdIsReady
    <3>2. /\ search' = EnsureSearch(config, nets') /\ memory' = {} /\ prepared' = TRUE
          /\ dirty' = FALSE /\ opened' = FALSE /\ reply' = "none"
          /\ UNCHANGED <<config, netPath, maxNodes, bookPath, gotePath, useGoteExit>>
      BY <1>9, <2>2 DEF CmdIsReady, Silent
    <3>3. config \in Configs
      BY DEF SessionTypeOK
    <3>4. /\ search' \in Searches /\ search'.nets = nets'
          /\ IF search = None THEN search'.config = config ELSE search' = search
      BY <3>1, <3>2, <3>3, Ensured
    <3>5. IF ~dirty THEN UNCHANGED <<book, goteBook>>
          ELSE book' = Opened(bookPath) /\ goteBook' = OpenedGoteExit
      BY <1>9, <2>2 DEF CmdIsReady
    <3>6. SessionTypeOK'
      BY <3>1, <3>2, <3>4, <3>5, SessionAssumption DEF SessionTypeOK, Opened, OpenedGoteExit
    <3>7. OptionsInForce'
      BY <3>1, <3>2, <3>4 DEF OptionsInForce
    <3>8. BooksInForce'
      BY <3>2, <3>5 DEF BooksInForce, Opened, OpenedGoteExit
    <3>9. Kept'
      BY <3>1, <3>2 DEF Kept
    <3> QED  BY <3>6, <3>7, <3>8, <3>9
  <2> QED  BY <2>1, <2>2
<1>10. CASE CmdUsiNewGame
  <2>1. SessionTypeOK'
    BY <1>10, SessionAssumption
    DEF CmdUsiNewGame, PreparedInGame, Silent, netVars, bookVars, SessionTypeOK
  <2>2. OptionsInForce'
    BY <1>10, SessionAssumption
    DEF CmdUsiNewGame, PreparedInGame, Silent, netVars, bookVars, OptionsInForce
  <2>3. BooksInForce'
    BY <1>10, SessionAssumption
    DEF CmdUsiNewGame, PreparedInGame, Silent, netVars, bookVars, BooksInForce, OpenedGoteExit
  <2>4. Kept'
    BY <1>10, SessionAssumption
    DEF CmdUsiNewGame, PreparedInGame, Silent, netVars, bookVars, Kept
  <2> QED  BY <2>1, <2>2, <2>3, <2>4
<1>11. CASE CmdBench
  <2>1. SessionTypeOK'
    BY <1>11, SessionAssumption
    DEF CmdBench, EnsureNetworks, Silent, netVars, bookVars, AllNets, SessionTypeOK
  <2>2. OptionsInForce'
    BY <1>11, Networks, SessionAssumption DEF CmdBench, OptionsInForce
  <2>3. BooksInForce'
    BY <1>11, SessionAssumption
    DEF CmdBench, EnsureNetworks, Silent, netVars, bookVars, BooksInForce, OpenedGoteExit
  <2>4. Kept'
    BY <1>11, SessionAssumption
    DEF CmdBench, EnsureNetworks, Silent, netVars, bookVars, Kept
  <2> QED  BY <2>1, <2>2, <2>3, <2>4
<1>12. ASSUME NEW asked \in Limits \cup {None}, NEW gote \in BOOLEAN,
              CmdGo(NodesLimit(asked), gote)
       PROVE  SessionInv'
  <2> DEFINE n == NodesLimit(asked)
  <2>1. n \in Limits
    BY DEF NodesLimit, SessionTypeOK
  <2>2. /\ nets' \in AllNets \cup {None} /\ (nets # None => nets' = nets)
        /\ nets' \in NetFiles => nets' = netPath
        /\ UNCHANGED <<netPath, maxNodes, prepared, bookVars, opened>>
    BY <1>12, Networks DEF CmdGo
  <2>3. CASE UNCHANGED <<config, search, memory>> /\ reply' \in {"resign", "book"}
    BY <2>2, <2>3, Networks
    DEF bookVars, SessionTypeOK, OptionsInForce, BooksInForce, Kept,
        Opened, OpenedGoteExit, AllNets
  <2>4. CASE /\ nets' # None /\ reply' = "search"
             /\ config' = [config EXCEPT !.nodes = n, !.info = TRUE]
             /\ search' = Push(EnsureSearch(config', nets'), n)
             /\ memory' = memory \cup {IF opened THEN "game" ELSE "stray"}
    <3>1. /\ config' \in Configs /\ config'.nodes = n
          /\ config'.option = config.option /\ config'.leaf = config.leaf
      BY <2>1, <2>4 DEF SessionTypeOK, Configs
    <3> DEFINE e == EnsureSearch(config', nets')
    <3>2. /\ e \in Searches /\ e.nets = nets'
          /\ IF search = None THEN e.config = config' ELSE e = search
      BY <2>2, <2>4, <3>1, Ensured
    <3>3. /\ search' \in Searches /\ search'.nets = nets' /\ search'.config.nodes = n
          /\ search'.config.option = e.config.option /\ search'.config.leaf = e.config.leaf
      BY <2>1, <2>4, <3>2, Pushed
    <3>4. SessionTypeOK'
      BY <2>2, <2>4, <3>1, <3>3 DEF bookVars, SessionTypeOK
    <3>5. OptionsInForce'
      BY <2>2, <3>1, <3>2, <3>3 DEF OptionsInForce
    <3>6. BooksInForce'
      BY <2>2 DEF bookVars, BooksInForce, Opened, OpenedGoteExit
    <3>7. Kept'
      BY <2>2, <2>4, <3>3, SessionAssumption DEF Kept
    <3> QED  BY <3>4, <3>5, <3>6, <3>7
  <2> QED  BY <1>12, <2>3, <2>4 DEF CmdGo
<1>13. CASE UNCHANGED sessionVars
  BY <1>13
  DEF sessionVars, netVars, bookVars, SessionTypeOK, OptionsInForce,
      BooksInForce, Kept, Opened, OpenedGoteExit
<1> QED
  BY <1>1, <1>2, <1>3, <1>4, <1>5, <1>6, <1>7, <1>8, <1>9, <1>10, <1>11, <1>12, <1>13
  DEF SessionNext, CmdSetOption

(* The invariant holds throughout.                                         *)
LEMMA Invariant == SessionSpec => []SessionInv
  BY SessionStarts, CommandsKeep, PTL DEF SessionSpec

(* Types of the session's state (USIEngine's members).                     *)
THEOREM SessionTyped == SessionSpec => []SessionTypeOK
<1>1. SessionInv => SessionTypeOK  BY DEF SessionInv
<1> QED  BY <1>1, Invariant, PTL

(* However options, games and searches follow on one another, a Search     *)
(* works with the options and the networks that are in force.              *)
THEOREM OptionsReachTheSearch == SessionSpec => []OptionsInForce
<1>1. SessionInv => OptionsInForce  BY DEF SessionInv
<1> QED  BY <1>1, Invariant, PTL

(* No game finds the tree or the cache of an earlier one.                  *)
THEOREM NothingCarriedOver == SessionSpec => []GamesIsolated
<1>1. SessionInv => GamesIsolated  BY DEF SessionInv, Kept, GamesIsolated
<1> QED  BY <1>1, Invariant, PTL

(* Books that isready has read are those the options name.                 *)
THEOREM BooksNamed == SessionSpec => []BooksInForce
<1>1. SessionInv => BooksInForce  BY DEF SessionInv
<1> QED  BY <1>1, Invariant, PTL

(* In sessions of any length, searches and books are those of the settings *)
(* in force.                                                               *)
THEOREM SettingsKept == SessionSpec => []SettingsInForce
BY OptionsReachTheSearch, BooksNamed, PTL DEF SettingsInForce

-----------------------------------------------------------------------------
(* The solver the worker runs (src/mate/bns.h).  A descent moves on: of a  *)
(* node that has not reached its thresholds, the selected child gets       *)
(* thresholds above its own numbers, whatever the numbers and however      *)
(* close to infinity.  Otherwise SearchImpl would enter the child, return  *)
(* at once and select it again.                                            *)

View == [abn : 0..kInf, obn : 0..kInf]

(* What SearchImpl knows when it descends: the summary s has the selected  *)
(* child's relevant number, which the runner-up's is not below, and at     *)
(* least its opposite number; th has not been reached.                     *)
Selected(or, s, best, th) ==
    /\ s.view \in View /\ best \in View /\ th \in View
    /\ s.second \in 0..kInf
    /\ Rel(or, s.view) = Rel(or, best) /\ Rel(or, best) <= s.second
    /\ Opp(or, best) <= Opp(or, s.view)
    /\ Rel(or, s.view) < Rel(or, th) /\ Opp(or, s.view) < Opp(or, th)

(* The child's thresholds exceed its numbers.                              *)
THEOREM ChildMovesOn ==
    ASSUME NEW or \in BOOLEAN, NEW s, NEW best, NEW th, Selected(or, s, best, th)
    PROVE  LET child == ChildThresholds(or, s, best, th)
           IN  best.abn < child.abn /\ best.obn < child.obn
<1> DEFINE bound == SatAdd(s.second, 1)
           rel == IF Rel(or, th) < bound THEN Rel(or, th) ELSE bound
           opp == IF Opp(or, th) >= kInf THEN kInf
                  ELSE Opp(or, th) - (Opp(or, s.view) - Opp(or, best))
<1>0. /\ Rel(or, best) \in 0..kInf /\ Opp(or, best) \in 0..kInf
      /\ Rel(or, s.view) \in 0..kInf /\ Opp(or, s.view) \in 0..kInf
      /\ Rel(or, th) \in 0..kInf /\ Opp(or, th) \in 0..kInf
      /\ s.second \in 0..kInf /\ kInf \in Nat
  BY InfinityAssumption DEF Selected, View, Rel, Opp
<1>1. Rel(or, best) < bound
  <2>1. CASE s.second + 1 >= kInf
    <3>1. bound = kInf
      BY <2>1 DEF SatAdd
    <3>2. Rel(or, best) < kInf
      BY <1>0 DEF Selected
    <3> QED BY <3>1, <3>2
  <2>2. CASE s.second + 1 < kInf
    <3>1. bound = s.second + 1
      BY <2>2, <1>0 DEF SatAdd
    <3> QED BY <3>1, <1>0 DEF Selected
  <2> QED BY <2>1, <2>2, <1>0
<1>2. Rel(or, best) < rel
  BY <1>1 DEF Selected
<1>3. Opp(or, best) < opp
  <2>1. CASE Opp(or, th) >= kInf
    BY <2>1, <1>0 DEF Selected
  <2>2. CASE Opp(or, th) < kInf
    BY <2>2, <1>0 DEF Selected
  <2> QED BY <2>1, <2>2, <1>0
<1>4. ChildThresholds(or, s, best, th) = ViewOf(or, rel, opp)
  BY DEF ChildThresholds
<1> HIDE DEF rel, opp
<1>5. CASE or
  BY <1>2, <1>3, <1>4, <1>5 DEF ViewOf, Rel, Opp
<1>6. CASE ~or
  BY <1>2, <1>3, <1>4, <1>6 DEF ViewOf, Rel, Opp
<1> QED BY <1>5, <1>6
=============================================================================

--------------------------- MODULE UctSearchProofs ---------------------------
(***************************************************************************)
(* UctSearch for every tree, every number of workers and every bound.      *)
(* Child arrays are published once and complete, the playout counter stays *)
(* near its limit, the move that is reported is one the root guard has     *)
(* passed, and the concurrent search implements the atomic proof tree, so  *)
(* its flags are sound.  Every virtual loss is taken back or made good, so *)
(* the statistics are sound too, and the tree passes its memory limit by a *)
(* bounded amount only.                                                    *)
(***************************************************************************)
EXTENDS UctSearch, FiniteSums, FiniteSetTheorems, TLAPS

(* The few facts about the constants that most steps need.                 *)
LEMMA RootAndParents == Root \in Nodes /\ Parent \in [Nodes -> Nodes]
  BY GameTreeAssumption DEF GameTreeAssumption, TreeShape

LEMMA DrawScoreInRange == DrawScore \in [Nodes -> 0..2] /\ Evals \subseteq {0, 1, 2, Bad}
  BY SearchAssumption DEF SearchAssumption

(* What the constants' types say of the children of a node.                *)
LEMMA KidFacts ==
  ASSUME NEW n \in Nodes
  PROVE  /\ Len(Kids[n]) \in Nat
         /\ DOMAIN Kids[n] = 1..Len(Kids[n])
         /\ KidSet(n) \subseteq Nodes
         /\ \A i \in 1..Len(Kids[n]) : Kids[n][i] \in KidSet(n)
         /\ Kids[n] # << >> => 1 \in 1..Len(Kids[n])
<1>1. Kids[n] \in Seq(Nodes)
  BY GameTreeAssumption DEF GameTreeAssumption, TreeShape
<1>2. Len(Kids[n]) \in Nat /\ DOMAIN Kids[n] = 1..Len(Kids[n])
  BY <1>1
<1>3. \A i \in 1..Len(Kids[n]) : Kids[n][i] \in Nodes
  BY <1>1
<1>4. Kids[n] # << >> => Len(Kids[n]) # 0
  BY <1>1
<1> QED
  BY <1>2, <1>3, <1>4 DEF KidSet

(* Only children of the root are ever reported.                            *)
LEMMA BestIsChild == SelectBestChild \subseteq KidSet(Root)
<1>1. Root \in Nodes /\ Kids[Root] # << >>
  BY GameTreeAssumption DEF GameTreeAssumption, TreeShape, TreeValues
<1>2. 1 \in DOMAIN Kids[Root]
  BY <1>1, KidFacts
<1> QED
  BY <1>2 DEF SelectBestChild, FirstBest, KidSet

-----------------------------------------------------------------------------
(* Types of what the actions are built from.                               *)

Outcomes == {"kWin", "kLoss", "kDraw"}

LEMMA OutcomeTypes ==
  /\ \A k \in EntryKinds : EntryOutcome[k] \in Outcomes
  /\ \A o \in Outcomes : FlagOf[o] \in Flags
  /\ \A n \in Nodes, o \in Outcomes : Score(n, o) \in {Bad, 0, 1, 2}
  /\ \A n \in Nodes : ProvenOutcome(n) \in Outcomes
  BY DrawScoreInRange DEF EntryOutcome, EntryKinds, Outcomes, FlagOf, Flags, Score,
                          ProvenOutcome

LEMMA GoToType ==
  ASSUME pc \in [Threads -> Places], NEW t \in Threads, NEW p \in Places, GoTo(t, p)
  PROVE  pc' \in [Threads -> Places]
  BY DEF GoTo

LEMMA AddFlagsType ==
  ASSUME flags \in [Nodes -> SUBSET Flags], NEW n \in Nodes,
         NEW fs \in SUBSET Flags, AddFlags(n, fs)
  PROVE  flags' \in [Nodes -> SUBSET Flags]
  BY DEF AddFlags

LEMMA ResolveType ==
  ASSUME flags \in [Nodes -> SUBSET Flags], pc \in [Threads -> Places],
         val \in [Threads -> {Bad, 0, 1, 2}],
         NEW t \in Threads, NEW n \in Nodes, NEW o \in Outcomes,
         ResolveTerminalEdge(t, n, o)
  PROVE  /\ flags' \in [Nodes -> SUBSET Flags]
         /\ pc' \in [Threads -> Places]
         /\ val' \in [Threads -> {Bad, 0, 1, 2}]
<1>1. {FlagOf[o]} \in SUBSET Flags /\ Score(n, o) \in {Bad, 0, 1, 2}
  BY OutcomeTypes
<1>2. "count" \in Places
  BY DEF Places
<1> QED
  BY <1>1, <1>2, AddFlagsType, GoToType DEF ResolveTerminalEdge

LEMMA ScanTypes ==
  /\ EmptyScan \in Scans
  /\ \A s \in Scans : \A c \in Nodes : \A o, d \in SUBSET {c} :
       [i |-> s.i + 1, open |-> s.open \cup o, drawn |-> s.drawn \cup d] \in Scans
  BY DEF EmptyScan, Scans

-----------------------------------------------------------------------------
(* A worker scans only nodes that have children.                           *)
ScanHasKids == \A t \in Threads : pc[t] = "scan" => Kids[at[t]] # << >>

(* The state functions keep their types: one step for each action.         *)
LEMMA TypeStep == TypeOK /\ ScanHasKids /\ [Next]_vars => TypeOK'
<1> SUFFICES ASSUME TypeOK, ScanHasKids, [Next]_vars
             PROVE  TypeOK'
  OBVIOUS
<1> USE RootAndParents
    DEF TypeOK, vars, treeVars, statVars, stopVars, threadVars, mainVars
<1>1. CASE UNCHANGED vars
  BY <1>1
<1>2. ASSUME NEW t \in Threads, StartPlayout(t) PROVE TypeOK'
  BY <1>2 DEF StartPlayout, GoTo, Places
<1>3. ASSUME NEW t \in Threads, Enter(t) PROVE TypeOK'
  <2>1. at[t] \in Nodes /\ "visit" \in Places /\ "count" \in Places
    BY DEF Places
  <2>2. CASE at[t] # Root /\ flags[at[t]] # {}
    BY <1>3, <2>1, <2>2, OutcomeTypes, GoToType DEF Enter
  <2>3. CASE ~(at[t] # Root /\ flags[at[t]] # {}) /\ Kind[at[t]] \in EntryKinds
    <3>1. ResolveTerminalEdge(t, at[t], EntryOutcome[Kind[at[t]]])
      BY <1>3, <2>3 DEF Enter
    <3>2. /\ flags' \in [Nodes -> SUBSET Flags]
          /\ pc' \in [Threads -> Places]
          /\ val' \in [Threads -> {Bad, 0, 1, 2}]
      BY <2>1, <2>3, <3>1, OutcomeTypes, ResolveType
    <3> QED
      BY <1>3, <3>2 DEF Enter
  <2>4. CASE ~(at[t] # Root /\ flags[at[t]] # {}) /\ Kind[at[t]] \notin EntryKinds
    BY <1>3, <2>1, <2>4, GoToType DEF Enter
  <2> QED
    BY <2>2, <2>3, <2>4
<1>4. ASSUME NEW t \in Threads, Visit(t) PROVE TypeOK'
  BY <1>4 DEF Visit, GoTo, Places
<1>5. ASSUME NEW t \in Threads, Lock(t) PROVE TypeOK'
  BY <1>5 DEF Lock, GoTo, Places
<1>6. ASSUME NEW t \in Threads, FirstVisit(t) PROVE TypeOK'
  <2>1. /\ at[t] \in Nodes /\ "visit" \in Places /\ "count" \in Places
        /\ Outcomes = {"kWin", "kLoss", "kDraw"}
    BY DEF Places, Outcomes
  <2>2. state' \in [Nodes -> {"fresh", "evaluated", "expanded"}]
    BY <1>6 DEF FirstVisit
  <2>3. /\ flags' \in [Nodes -> SUBSET Flags]
        /\ pc' \in [Threads -> Places]
        /\ val' \in [Threads -> {Bad, 0, 1, 2}]
    <3>1. CASE EvaluatedMeanwhile(at[t])
      BY <1>6, <2>1, <3>1, GoToType DEF FirstVisit
    <3>2. ASSUME NEW o \in Outcomes, ResolveTerminalEdge(t, at[t], o)
          PROVE  /\ flags' \in [Nodes -> SUBSET Flags]
                 /\ pc' \in [Threads -> Places]
                 /\ val' \in [Threads -> {Bad, 0, 1, 2}]
      BY <2>1, <3>2, ResolveType
    <3>3. ASSUME NEW v \in Evals,
                 val' = [val EXCEPT ![t] = IF v = Bad THEN Bad ELSE 2 - v]
          PROVE  val' \in [Threads -> {Bad, 0, 1, 2}]
      BY <3>3, DrawScoreInRange DEF Bad
    <3> QED
      BY <1>6, <2>1, <3>1, <3>2, <3>3, GoToType DEF FirstVisit
  <2>4. mutex' \in [Mutexes -> Threads \cup {NoThread}]
    BY <1>6 DEF FirstVisit, Unlock
  <2> QED
    BY <1>6, <2>2, <2>3, <2>4 DEF FirstVisit
<1>7. ASSUME NEW t \in Threads, ExpandNode(t) PROVE TypeOK'
  BY <1>7 DEF ExpandNode, GoTo, Places, Unlock
<1>8. ASSUME NEW t \in Threads, ComputePriors(t) PROVE TypeOK'
  BY <1>8 DEF ComputePriors, GoTo, Places
<1>9. ASSUME NEW t \in Threads, SetExpanded(t) PROVE TypeOK'
  BY <1>9 DEF SetExpanded, GoTo, Places, Unlock
<1>10. ASSUME NEW t \in Threads, Children(t) PROVE TypeOK'
  <2>1. at[t] \in Nodes /\ "scan" \in Places /\ "kWin" \in Outcomes
    BY DEF Places, Outcomes
  <2>2. CASE Kids[at[t]] = << >>
    <3>1. /\ flags' \in [Nodes -> SUBSET Flags]
          /\ pc' \in [Threads -> Places]
          /\ val' \in [Threads -> {Bad, 0, 1, 2}]
      BY <1>10, <2>1, <2>2, ResolveType DEF Children
    <3> QED
      BY <1>10, <2>2, <3>1 DEF Children
  <2>3. CASE Kids[at[t]] # << >>
    <3>1. pc' \in [Threads -> Places]
      BY <1>10, <2>1, <2>3, GoToType DEF Children
    <3>2. scan' \in [Threads -> Scans]
      BY <1>10, <2>3, ScanTypes DEF Children
    <3> QED
      BY <1>10, <2>3, <3>1, <3>2 DEF Children
  <2> QED
    BY <2>2, <2>3
<1>11. ASSUME NEW t \in Threads, ScanChild(t) PROVE TypeOK'
  <2> DEFINE n == at[t]
             c == Kids[n][scan[t].i]
  <2>1. n \in Nodes /\ scan[t] \in Scans
    OBVIOUS
  <2>2. scan[t].i \in 1..Len(Kids[n])
    BY <1>11, <2>1, KidFacts DEF ScanChild, Scans
  <2>3. c \in Nodes
    BY <2>1, <2>2, KidFacts
  <2>4. "descend" \in Places /\ {"win"} \in SUBSET Flags
    BY DEF Places, Flags
  <2>5. CASE "lose" \in flags[c]
    <3>1. flags' \in [Nodes -> SUBSET Flags]
      BY <1>11, <2>1, <2>4, <2>5, AddFlagsType DEF ScanChild
    <3>2. pc' \in [Threads -> Places] /\ at' \in [Threads -> Nodes]
      BY <1>11, <2>3, <2>4, <2>5, GoToType DEF ScanChild
    <3> QED
      BY <1>11, <2>5, <3>1, <3>2 DEF ScanChild
  <2>6. CASE "lose" \notin flags[c]
    <3> DEFINE s == scan[t]
               next == [i     |-> s.i + 1,
                        open  |-> IF flags[c] = {} THEN s.open \cup {c} ELSE s.open,
                        drawn |-> IF flags[c] = {"draw"} THEN s.drawn \cup {c}
                                                         ELSE s.drawn]
    <3>1. next \in Scans
      BY <2>1, <2>3 DEF Scans
    <3>2. scan' = [scan EXCEPT ![t] = next]
      BY <1>11, <2>6 DEF ScanChild
    <3>3. scan' \in [Threads -> Scans]
      BY <3>1, <3>2
    <3> QED
      BY <1>11, <2>6, <3>3 DEF ScanChild
  <2> QED
    BY <2>5, <2>6
<1>12. ASSUME NEW t \in Threads, FinishScan(t) PROVE TypeOK'
  <2>1. at[t] \in Nodes /\ scan[t] \in Scans /\ "descend" \in Places
    BY DEF Places
  <2>2. ProvenByScan(scan[t]) \in SUBSET Flags
    BY DEF ProvenByScan, Flags
  <2>3. flags' \in [Nodes -> SUBSET Flags]
    BY <1>12, <2>1, <2>2, AddFlagsType DEF FinishScan
  <2>4. NotSkipped(scan[t]) \subseteq Nodes
    BY <2>1 DEF NotSkipped, Scans
  <2>5. at' \in [Threads -> Nodes]
    <3>1. PICK c \in (IF NotSkipped(scan[t]) = {} THEN {Kids[at[t]][1]}
                                                   ELSE NotSkipped(scan[t])) :
            at' = [at EXCEPT ![t] = c]
      BY <1>12 DEF FinishScan
    <3>2. Kids[at[t]] # << >> => Kids[at[t]][1] \in Nodes
      BY <2>1, KidFacts
    <3>3. c \in Nodes
      BY <1>12, <2>4, <3>1, <3>2 DEF FinishScan, ScanHasKids
    <3> QED
      BY <3>1, <3>3
  <2>6. pc' \in [Threads -> Places]
    BY <1>12, <2>1, GoToType DEF FinishScan
  <2> QED
    BY <1>12, <2>3, <2>5, <2>6 DEF FinishScan
<1>13. ASSUME NEW t \in Threads, Descend(t) PROVE TypeOK'
  BY <1>13 DEF Descend, AddVirtualLoss, GoTo, Places
<1>14. ASSUME NEW t \in Threads, Count(t) PROVE TypeOK'
  BY <1>14 DEF Count, GoTo, Places
<1>15. ASSUME NEW t \in Threads, Validate(t) PROVE TypeOK'
  BY <1>15 DEF Validate, GoTo, Places
<1>16. ASSUME NEW t \in Threads, Backup(t) PROVE TypeOK'
  <2>1. Opponent(val[t]) \in {Bad, 0, 1, 2} /\ val[t] \in Int
    BY DEF Opponent, IsFinite, Bad
  <2>2. \A a, b \in Int : Plus(a, b) \in Int
    BY DEF Plus, IsFinite, Bad
  <2>3. CASE at[t] = Root
    BY <1>16, <2>3 DEF Backup, GoTo, Places
  <2>4. CASE at[t] # Root
    <3>1. val' \in [Threads -> {Bad, 0, 1, 2}] /\ at' \in [Threads -> Nodes]
      BY <1>16, <2>1, <2>4 DEF Backup
    <3>2. /\ Plus(edgeWin[at[t]], val[t]) \in Int
          /\ Plus(nodeWin[Parent[at[t]]], val[t]) \in Int
      BY <2>1, <2>2
    <3>3. edgeWin' \in [Nodes -> Int]
      BY <1>16, <2>4, <3>2 DEF Backup
    <3>4. nodeWin' \in [Nodes -> Int]
      BY <1>16, <2>4, <3>2 DEF Backup
    <3> QED
      BY <1>16, <2>4, <3>1, <3>3, <3>4 DEF Backup
  <2> QED
    BY <2>3, <2>4
<1>17. ASSUME NEW t \in Threads, Unwind(t) PROVE TypeOK'
  <2>1. CASE at[t] = Root
    BY <1>17, <2>1 DEF Unwind, GoTo, Places
  <2>2. CASE at[t] # Root
    BY <1>17, <2>2 DEF Unwind, SubVirtualLoss
  <2> QED
    BY <2>1, <2>2
<1>18. ASSUME NEW t \in Threads, Tick(t) PROVE TypeOK'
  <2>1. (iter[t] + 1) % CheckInterval \in Nat
    BY SearchAssumption DEF SearchAssumption
  <2>2. treeFull' \in BOOLEAN
    BY <1>18 DEF Tick
  <2>3. pc' \in [Threads -> Places]
    BY <1>18 DEF Tick, GoTo, Places
  <2>4. iter' \in [Threads -> Nat]
    BY <1>18, <2>1 DEF Tick
  <2> QED
    BY <1>18, <2>2, <2>3, <2>4 DEF Tick
<1>19. CASE Stop \/ Join \/ Finished
  BY <1>19 DEF Stop, Join, Finished
<1>20. CASE GuardAttempt
  <2>1. \A c \in SelectBestChild : c \in Nodes
    BY BestIsChild, KidFacts
  <2>2. flags' \in [Nodes -> SUBSET Flags]
    BY <1>20, <2>1 DEF GuardAttempt, Refuted, Flags
  <2>3. main' \in {"search", "guard", "report", "reported"} /\ cancelled' \in BOOLEAN
    BY <1>20 DEF GuardAttempt
  <2> QED
    BY <1>20, <2>2, <2>3 DEF GuardAttempt
<1>21. CASE Report
  BY <1>21, BestIsChild, KidFacts DEF Report
<1>22. CASE RunAgain
  <2>1. /\ pc' \in [Threads -> Places] /\ scan' \in [Threads -> Scans]
        /\ val' \in [Threads -> {Bad, 0, 1, 2}]
    BY <1>22, ScanTypes DEF RunAgain, Places
  <2>2. runs' \in 1..MaxRuns /\ rootBefore' \in Int
    BY <1>22, SearchAssumption DEF RunAgain, VisitsBroughtAlong, SearchAssumption
  <2> QED
    BY <1>22, <2>1, <2>2 DEF RunAgain
<1> QED
  BY <1>1, <1>2, <1>3, <1>4, <1>5, <1>6, <1>7, <1>8, <1>9, <1>10, <1>11,
     <1>12, <1>13, <1>14, <1>15, <1>16, <1>17, <1>18, <1>19, <1>20, <1>21,
     <1>22 DEF Next, Playout, Main

LEMMA ScanHasKidsStep == TypeOK /\ ScanHasKids /\ [Next]_vars => ScanHasKids'
<1> SUFFICES ASSUME TypeOK, ScanHasKids, [Next]_vars, NEW u \in Threads,
                    pc'[u] = "scan"
             PROVE  Kids[at'[u]] # << >>
  BY DEF ScanHasKids
<1> USE DEF TypeOK, ScanHasKids, vars, threadVars
<1>1. ASSUME NEW t \in Threads, Playout(t) PROVE Kids[at'[u]] # << >>
  <2>1. CASE Children(t)
    BY <2>1 DEF Children, ResolveTerminalEdge, GoTo
  <2>2. CASE ScanChild(t)
    BY <2>2 DEF ScanChild, GoTo
  <2>3. CASE Enter(t) \/ FirstVisit(t)
    BY <2>3 DEF Enter, FirstVisit, ResolveTerminalEdge, GoTo
  <2>4. CASE StartPlayout(t) \/ Visit(t) \/ Lock(t) \/ ExpandNode(t) \/ ComputePriors(t)
    BY <2>4 DEF StartPlayout, Visit, Lock, ExpandNode, ComputePriors, GoTo
  <2>5. CASE SetExpanded(t) \/ FinishScan(t) \/ Descend(t) \/ Count(t) \/ Validate(t)
    BY <2>5 DEF SetExpanded, FinishScan, Descend, Count, Validate, GoTo
  <2>6. CASE Backup(t) \/ Unwind(t) \/ Tick(t)
    BY <2>6 DEF Backup, Unwind, Tick, GoTo
  <2> QED
    BY <1>1, <2>1, <2>2, <2>3, <2>4, <2>5, <2>6 DEF Playout
<1>2. CASE Main \/ Stop \/ Finished \/ UNCHANGED vars
  BY <1>2 DEF Main, Join, GuardAttempt, Report, Stop, Finished
<1>3. CASE RunAgain
  BY <1>3 DEF RunAgain
<1> QED
  BY <1>1, <1>2, <1>3 DEF Next

LEMMA TypeInit == Init => TypeOK /\ ScanHasKids
<1> SUFFICES ASSUME Init
             PROVE  TypeOK /\ ScanHasKids
  OBVIOUS
<1>1. /\ state \in [Nodes -> {"fresh", "evaluated", "expanded"}]
      /\ moves \in [Nodes -> {"none", "listed", "priors"}]
      /\ flags \in [Nodes -> SUBSET Flags] /\ created \subseteq Nodes
  BY RootAndParents DEF Init
<1>2. /\ edgeVisits \in [Nodes -> Int] /\ edgeWin \in [Nodes -> Int]
      /\ nodeVisits \in [Nodes -> Int] /\ nodeWin \in [Nodes -> Int]
      /\ mutex \in [Mutexes -> Threads \cup {NoThread}]
  BY DEF Init
<1>3. pc \in [Threads -> Places] /\ scan \in [Threads -> Scans]
  BY ScanTypes DEF Init, Places
<1>4. /\ at \in [Threads -> Nodes] /\ val \in [Threads -> {Bad, 0, 1, 2}]
      /\ iter \in [Threads -> Nat]
  BY RootAndParents DEF Init
<1>5. runs \in 1..MaxRuns
  BY SearchAssumption DEF Init, SearchAssumption
<1>6. ScanHasKids
  BY DEF Init, ScanHasKids
<1> QED
  BY <1>1, <1>2, <1>3, <1>4, <1>5, <1>6, RootAndParents DEF Init, TypeOK

(* The types of the search's state, in every reachable state.              *)
THEOREM TypeCorrect == Spec => [](TypeOK /\ ScanHasKids)
  BY TypeInit, TypeStep, ScanHasKidsStep, PTL DEF Spec

-----------------------------------------------------------------------------
(* Safety, from the types of the state.                                    *)
Typed == TypeOK /\ ScanHasKids

(* The typing of the search's state and of its scans, under one name.      *)
THEOREM TypedAlways == Spec => []Typed
  BY TypeCorrect, PTL DEF Typed

-----------------------------------------------------------------------------
(* The root guard and the report run with the workers joined.              *)
DoneInv == main # "search" => \A t \in Threads : pc[t] = "done"

LEMMA WorkerMoves == \A t \in Threads : Playout(t) => pc[t] # "done"
<1> SUFFICES ASSUME NEW t \in Threads, Playout(t)
             PROVE  pc[t] # "done"
  OBVIOUS
<1>1. CASE StartPlayout(t) \/ Enter(t) \/ Visit(t) \/ Lock(t) \/ FirstVisit(t)
  BY <1>1 DEF StartPlayout, Enter, Visit, Lock, FirstVisit
<1>2. CASE ExpandNode(t) \/ ComputePriors(t) \/ SetExpanded(t) \/ Children(t)
  BY <1>2 DEF ExpandNode, ComputePriors, SetExpanded, Children
<1>3. CASE ScanChild(t) \/ FinishScan(t) \/ Descend(t) \/ Count(t)
  BY <1>3 DEF ScanChild, FinishScan, Descend, Count
<1>4. CASE Validate(t) \/ Backup(t) \/ Unwind(t) \/ Tick(t)
  BY <1>4 DEF Validate, Backup, Unwind, Tick
<1> QED
  BY <1>1, <1>2, <1>3, <1>4 DEF Playout

LEMMA WorkerLeavesMain == \A t \in Threads : Playout(t) => UNCHANGED mainVars
<1> USE DEF mainVars
<1> SUFFICES ASSUME NEW t \in Threads, Playout(t)
             PROVE  UNCHANGED mainVars
  OBVIOUS
<1>1. CASE StartPlayout(t) \/ Enter(t) \/ Visit(t) \/ Lock(t) \/ FirstVisit(t)
  BY <1>1 DEF StartPlayout, Enter, Visit, Lock, FirstVisit
<1>2. CASE ExpandNode(t) \/ ComputePriors(t) \/ SetExpanded(t) \/ Children(t)
  BY <1>2 DEF ExpandNode, ComputePriors, SetExpanded, Children
<1>3. CASE ScanChild(t) \/ FinishScan(t) \/ Descend(t) \/ Count(t)
  BY <1>3 DEF ScanChild, FinishScan, Descend, Count
<1>4. CASE Validate(t) \/ Backup(t) \/ Unwind(t) \/ Tick(t)
  BY <1>4 DEF Validate, Backup, Unwind, Tick
<1> QED
  BY <1>1, <1>2, <1>3, <1>4 DEF Playout

LEMMA DoneStep == DoneInv /\ [Next]_vars => DoneInv'
<1> SUFFICES ASSUME DoneInv, [Next]_vars
             PROVE  DoneInv'
  OBVIOUS
<1>1. ASSUME NEW t \in Threads, Playout(t) PROVE DoneInv'
  BY <1>1, WorkerMoves, WorkerLeavesMain DEF DoneInv, mainVars
<1>2. CASE Main \/ Stop \/ RunAgain \/ Finished \/ UNCHANGED vars
  BY <1>2 DEF DoneInv, Main, Join, GuardAttempt, Report, Stop, RunAgain, Finished,
              threadVars, mainVars, vars
<1> QED
  BY <1>1, <1>2 DEF Next

-----------------------------------------------------------------------------
(* Publication of the child arrays.                                        *)

Critical == {"eval", "expand", "priors", "publish"}

(* A worker between Lock and Unlock is the holder of its position's mutex. *)
LockInv == \A t \in Threads : pc[t] \in Critical => mutex[MutexOf[at[t]]] = t

(* An array that is complete but not yet published has one builder.        *)
ArrayInv ==
  /\ \A n \in Nodes : state[n] = "expanded" => moves[n] = "priors" \/ Kids[n] = << >>
  /\ \A n \in Nodes : moves[n] = "priors" =>
       state[n] = "expanded" \/ \E u \in Threads : pc[u] = "publish" /\ at[u] = n
  /\ \A t \in Threads : pc[t] = "publish" => moves[at[t]] = "priors"
  /\ \A t \in Threads : pc[t] \in {"children", "scan"} => state[at[t]] = "expanded"

PubInv == DoneInv /\ LockInv /\ ArrayInv

LEMMA MutexTyped == \A n \in Nodes : MutexOf[n] \in Mutexes
  BY SearchAssumption DEF SearchAssumption

LEMMA NoThreadNoWorker == NoThread \notin Threads
  BY SearchAssumption DEF SearchAssumption

LEMMA StuckHasNoKids == \A n \in Nodes : Kind[n] = "stuck" => Kids[n] = << >>
  BY GameTreeAssumption DEF GameTreeAssumption, TreeValues

(* A worker that takes no mutex and goes to no critical place.             *)
LEMMA OutsideStep ==
  ASSUME LockInv, mutex' = mutex, NEW t \in Threads, pc'[t] \notin Critical,
         \A u \in Threads : u # t => pc'[u] = pc[u] /\ at'[u] = at[u]
  PROVE  LockInv'
  BY DEF LockInv

LEMMA LockStep == Typed /\ PubInv /\ [Next]_vars => LockInv'
<1> SUFFICES ASSUME Typed, LockInv, [Next]_vars
             PROVE  LockInv'
  BY DEF PubInv
<1> USE MutexTyped, NoThreadNoWorker DEF Typed, TypeOK, LockInv, Critical
<1>1. ASSUME NEW t \in Threads, Lock(t) PROVE LockInv'
  BY <1>1 DEF Lock, GoTo
<1>2. ASSUME NEW t \in Threads, FirstVisit(t) PROVE LockInv'
  BY <1>2 DEF FirstVisit, ResolveTerminalEdge, GoTo, Unlock
<1>3. ASSUME NEW t \in Threads, ExpandNode(t) PROVE LockInv'
  BY <1>3 DEF ExpandNode, GoTo, Unlock
<1>4. ASSUME NEW t \in Threads, ComputePriors(t) PROVE LockInv'
  BY <1>4 DEF ComputePriors, GoTo
<1>5. ASSUME NEW t \in Threads, SetExpanded(t) PROVE LockInv'
  BY <1>5 DEF SetExpanded, GoTo, Unlock
<1>6. ASSUME NEW t \in Threads, StartPlayout(t) \/ Visit(t) \/ Descend(t) \/ Count(t)
      PROVE  LockInv'
  BY <1>6 DEF StartPlayout, Visit, Descend, Count, GoTo
<1>7. ASSUME NEW t \in Threads, Enter(t) \/ Children(t) PROVE LockInv'
  BY <1>7 DEF Enter, Children, ResolveTerminalEdge, GoTo
<1>8. ASSUME NEW t \in Threads, ScanChild(t) \/ FinishScan(t) \/ Validate(t)
      PROVE  LockInv'
  <2>1. mutex' = mutex /\ pc[t] \in {"scan", "validate"}
    BY <1>8 DEF ScanChild, FinishScan, Validate
  <2>2. pc' = pc \/ \E place \in {"descend", "backup", "unwind"} : pc' = [pc EXCEPT ![t] = place]
    BY <1>8 DEF ScanChild, FinishScan, Validate, GoTo
  <2>3. at' = at \/ \E c : at' = [at EXCEPT ![t] = c]
    BY <1>8 DEF ScanChild, FinishScan, Validate
  <2>4. /\ pc'[t] \notin Critical
        /\ \A u \in Threads : u # t => pc'[u] = pc[u] /\ at'[u] = at[u]
    BY <2>1, <2>2, <2>3
  <2> HIDE DEF Typed, TypeOK, LockInv, Critical
  <2> QED
    BY <2>1, <2>4, OutsideStep
<1>9. ASSUME NEW t \in Threads, Backup(t) \/ Unwind(t) \/ Tick(t) PROVE LockInv'
  BY <1>9 DEF Backup, Unwind, Tick, GoTo
<1>10. CASE Main \/ Stop \/ Finished \/ UNCHANGED vars
  BY <1>10 DEF Main, Join, GuardAttempt, Report, Stop, Finished, threadVars, vars
<1>11. CASE RunAgain
  BY <1>11 DEF RunAgain
<1> QED
  BY <1>1, <1>2, <1>3, <1>4, <1>5, <1>6, <1>7, <1>8, <1>9, <1>10, <1>11
     DEF Next, Playout

(* The steps that change neither a node's state nor its child array, and   *)
(* reach or leave no place ArrayInv speaks of but by looking at the state. *)
LEMMA QuietStep ==
  ASSUME Typed, ArrayInv, UNCHANGED <<state, moves>>, NEW t \in Threads,
         \A u \in Threads : u # t => pc'[u] = pc[u] /\ at'[u] = at[u],
         pc[t] # "publish", pc'[t] # "publish",
         pc'[t] \in {"children", "scan"} => state[at'[t]] = "expanded"
  PROVE  ArrayInv'
<1>1. \A n \in Nodes : moves[n] = "priors" =>
        state[n] = "expanded" \/ \E u \in Threads : pc'[u] = "publish" /\ at'[u] = n
  BY DEF ArrayInv
<1>2. \A u \in Threads : pc'[u] = "publish" => moves[at'[u]] = "priors"
  BY DEF ArrayInv
<1>3. \A u \in Threads : pc'[u] \in {"children", "scan"} => state[at'[u]] = "expanded"
  BY DEF ArrayInv
<1> QED
  BY <1>1, <1>2, <1>3 DEF ArrayInv

LEMMA ArrayStep == Typed /\ PubInv /\ [Next]_vars => ArrayInv'
<1> SUFFICES ASSUME Typed, DoneInv, LockInv, ArrayInv, [Next]_vars
             PROVE  ArrayInv'
  BY DEF PubInv
<1> USE DEF Typed, TypeOK, treeVars
<1>1. ASSUME NEW t \in Threads, FirstVisit(t) PROVE ArrayInv'
  <2>1. /\ moves' = moves /\ at' = at /\ pc[t] = "eval" /\ at[t] \in Nodes
        /\ pc' = [pc EXCEPT ![t] = "visit"] \/ pc' = [pc EXCEPT ![t] = "count"]
    BY <1>1 DEF FirstVisit, ResolveTerminalEdge, GoTo
  <2>2. \A n \in Nodes : /\ state[n] = "expanded" => state'[n] = "expanded"
                         /\ state'[n] = "expanded" =>
                              state[n] = "expanded" \/ Kids[n] = << >>
    <3>1. \/ state' = state
          \/ Kind[at[t]] = "stuck" /\ state' = [state EXCEPT ![at[t]] = "expanded"]
          \/ ~IsEvaled(at[t]) /\ state' = [state EXCEPT ![at[t]] = "evaluated"]
      BY <1>1 DEF FirstVisit, EvaluatedMeanwhile
    <3> QED
      BY <2>1, <3>1, StuckHasNoKids DEF IsEvaled
  <2>3. /\ at \in [Threads -> Nodes]
        /\ \A u \in Threads : /\ pc'[u] \in {"publish", "children", "scan"} => pc'[u] = pc[u]
                              /\ pc[u] = "publish" => pc'[u] = "publish"
    BY <2>1
  <2> HIDE DEF Typed, TypeOK
  <2>4. \A n \in Nodes : moves[n] = "priors" =>
          state'[n] = "expanded" \/ \E u \in Threads : pc'[u] = "publish" /\ at[u] = n
    BY <2>2, <2>3 DEF ArrayInv
  <2> QED
    BY <2>1, <2>2, <2>3, <2>4 DEF ArrayInv
<1>2. ASSUME NEW t \in Threads, ExpandNode(t) PROVE ArrayInv'
  <2>1. CASE ExpandedMeanwhile(at[t])
    <3>1. /\ UNCHANGED <<state, moves, at>> /\ pc[t] = "expand"
          /\ pc' = [pc EXCEPT ![t] = "children"] /\ state[at[t]] = "expanded"
      BY <1>2, <2>1 DEF ExpandNode, GoTo, ExpandedMeanwhile, IsExpanded
    <3> QED
      BY <3>1, QuietStep
  <2>2. CASE ~ExpandedMeanwhile(at[t])
    <3>1. /\ UNCHANGED <<state, at>> /\ pc[t] = "expand" /\ state[at[t]] # "expanded"
          /\ pc' = [pc EXCEPT ![t] = "priors"]
          /\ moves' = [moves EXCEPT ![at[t]] = "listed"]
      BY <1>2, <2>2 DEF ExpandNode, GoTo, ExpandedMeanwhile, IsExpanded
    <3>2. \A u \in Threads : pc[u] = "publish" => at[u] # at[t]
      BY <3>1 DEF LockInv, Critical
    <3> QED
      BY <3>1, <3>2 DEF ArrayInv
  <2> QED
    BY <2>1, <2>2
<1>3. ASSUME NEW t \in Threads, ComputePriors(t) PROVE ArrayInv'
  BY <1>3 DEF ComputePriors, GoTo, ArrayInv
<1>4. ASSUME NEW t \in Threads, SetExpanded(t) PROVE ArrayInv'
  BY <1>4 DEF SetExpanded, GoTo, ArrayInv
<1>5. ASSUME NEW t \in Threads, Visit(t) PROVE ArrayInv'
  <2>1. /\ UNCHANGED <<state, moves, at>> /\ pc[t] = "visit"
        /\ pc'[t] # "publish" /\ pc'[t] # "scan"
        /\ pc'[t] = "children" => state[at[t]] = "expanded"
        /\ \A u \in Threads : u # t => pc'[u] = pc[u]
    BY <1>5 DEF Visit, GoTo, IsEvaled, IsExpanded
  <2> QED
    BY <2>1, QuietStep
<1>6. ASSUME NEW t \in Threads, Children(t) PROVE ArrayInv'
  <2>1. /\ UNCHANGED <<state, moves, at>> /\ pc[t] = "children"
        /\ pc'[t] \in {"count", "scan"}
        /\ \A u \in Threads : u # t => pc'[u] = pc[u]
    BY <1>6 DEF Children, ResolveTerminalEdge, GoTo
  <2>2. state[at[t]] = "expanded"
    BY <2>1 DEF ArrayInv
  <2> QED
    BY <2>1, <2>2, QuietStep
<1>7. ASSUME NEW t \in Threads, ScanChild(t) PROVE ArrayInv'
  <2>1. /\ UNCHANGED <<state, moves>> /\ pc[t] = "scan"
        /\ pc'[t] = "descend" \/ (pc'[t] = "scan" /\ at'[t] = at[t])
        /\ \A u \in Threads : u # t => pc'[u] = pc[u] /\ at'[u] = at[u]
    BY <1>7 DEF ScanChild, GoTo
  <2>2. state[at[t]] = "expanded"
    BY <2>1 DEF ArrayInv
  <2> QED
    BY <2>1, <2>2, QuietStep
<1>8. ASSUME NEW t \in Threads,
             \/ StartPlayout(t) \/ Enter(t) \/ Lock(t) \/ FinishScan(t)
             \/ Descend(t) \/ Count(t) \/ Validate(t) \/ Backup(t)
             \/ Unwind(t) \/ Tick(t)
      PROVE  ArrayInv'
  <2>1. /\ UNCHANGED <<state, moves>> /\ pc[t] # "publish"
        /\ pc'[t] \notin {"publish", "children", "scan"}
        /\ \A u \in Threads : u # t => pc'[u] = pc[u] /\ at'[u] = at[u]
    <3>1. CASE StartPlayout(t) \/ Lock(t) \/ Descend(t) \/ Count(t) \/ Validate(t)
      BY <3>1 DEF StartPlayout, Lock, Descend, Count, Validate, GoTo
    <3>2. CASE Enter(t) \/ FinishScan(t)
      BY <3>2 DEF Enter, FinishScan, ResolveTerminalEdge, GoTo
    <3>3. CASE Backup(t) \/ Unwind(t) \/ Tick(t)
      BY <3>3 DEF Backup, Unwind, Tick, GoTo
    <3> QED
      BY <1>8, <3>1, <3>2, <3>3
  <2> QED
    BY <2>1, QuietStep
<1>9. CASE Main \/ Stop \/ Finished \/ UNCHANGED vars
  BY <1>9 DEF Main, Join, GuardAttempt, Report, Stop, Finished, threadVars, vars,
              ArrayInv
<1>10. CASE RunAgain
  <2>1. /\ UNCHANGED <<state, moves>> /\ main = "reported"
        /\ \A u \in Threads : pc'[u] = "loop"
    BY <1>10 DEF RunAgain
  <2>2. \A u \in Threads : pc[u] = "done"
    BY <2>1 DEF DoneInv
  <2> QED
    BY <2>1, <2>2 DEF ArrayInv
<1> QED
  BY <1>1, <1>2, <1>3, <1>4, <1>5, <1>6, <1>7, <1>8, <1>9, <1>10 DEF Next, Playout

LEMMA PubInit == Init => PubInv
  BY DEF Init, PubInv, DoneInv, LockInv, ArrayInv, Critical

LEMMA PubAlways == Spec => [](Typed /\ PubInv)
<1>1. Init => Typed /\ PubInv
  BY PubInit, TypeInit DEF Typed
<1>2. Typed /\ PubInv /\ [Next]_vars => Typed' /\ PubInv'
  BY TypeStep, ScanHasKidsStep, DoneStep, LockStep, ArrayStep DEF Typed, PubInv
<1>3. QED
  BY <1>1, <1>2, PTL DEF Spec

(* A step of the search, whoever takes it, leaves a complete array alone.  *)
LEMMA CompleteStays ==
  Typed /\ PubInv /\ [Next]_vars =>
    \A n \in Nodes : moves[n] = "priors" => moves'[n] = "priors"
<1> SUFFICES ASSUME Typed, PubInv, [Next]_vars, NEW n \in Nodes, moves[n] = "priors"
             PROVE  moves'[n] = "priors"
  OBVIOUS
<1> USE DEF Typed, TypeOK, treeVars
<1>1. ASSUME NEW t \in Threads, ExpandNode(t) PROVE moves'[n] = "priors"
  <2>1. CASE at[t] = n /\ ~ExpandedMeanwhile(n)
    <3>1. PICK u \in Threads : pc[u] = "publish" /\ at[u] = n
      BY <2>1 DEF PubInv, ArrayInv, ExpandedMeanwhile, IsExpanded
    <3>2. pc[t] = "expand"
      BY <1>1 DEF ExpandNode
    <3>3. u = t
      BY <2>1, <3>1, <3>2 DEF PubInv, LockInv, Critical
    <3> QED
      BY <3>1, <3>2, <3>3
  <2>2. CASE ~(at[t] = n /\ ~ExpandedMeanwhile(n))
    BY <1>1, <2>2 DEF ExpandNode
  <2> QED
    BY <2>1, <2>2
<1>2. ASSUME NEW t \in Threads, Playout(t), ~ExpandNode(t) PROVE moves'[n] = "priors"
  <2>1. CASE StartPlayout(t) \/ Enter(t) \/ Visit(t) \/ Lock(t) \/ FirstVisit(t)
    BY <2>1 DEF StartPlayout, Enter, Visit, Lock, FirstVisit
  <2>2. CASE ComputePriors(t) \/ SetExpanded(t) \/ Children(t) \/ ScanChild(t)
    BY <2>2 DEF ComputePriors, SetExpanded, Children, ScanChild
  <2>3. CASE FinishScan(t) \/ Descend(t) \/ Count(t) \/ Validate(t)
    BY <2>3 DEF FinishScan, Descend, Count, Validate
  <2>4. CASE Backup(t) \/ Unwind(t) \/ Tick(t)
    BY <2>4 DEF Backup, Unwind, Tick
  <2> QED
    BY <1>2, <2>1, <2>2, <2>3, <2>4 DEF Playout
<1>3. CASE Main \/ Stop \/ RunAgain \/ Finished \/ UNCHANGED vars
  BY <1>3 DEF Main, Join, GuardAttempt, Report, Stop, RunAgain, Finished, vars
<1> QED
  BY <1>1, <1>2, <1>3 DEF Next

(* No child array is ever built a second time under a worker's feet.       *)
THEOREM BuiltOnce == Spec => ChildrenBuiltOnce
<1>1. Typed /\ PubInv /\ [Next]_vars =>
        [\A n \in Nodes : moves[n] = "priors" => moves'[n] = "priors"]_vars
  BY CompleteStays
<1>2. QED
  BY <1>1, PubAlways, PTL DEF Spec, ChildrenBuiltOnce

(* No worker looks at the children of a node before all are in place.      *)
THEOREM PublishedBeforeScanned == Spec => []OnlyPublishedScanned
<1>1. Typed /\ PubInv => OnlyPublishedScanned
  BY DEF Typed, TypeOK, PubInv, ArrayInv, OnlyPublishedScanned
<1>2. QED
  BY <1>1, PubAlways, PTL

-----------------------------------------------------------------------------
(* The playout counter.                                                    *)

(* Playouts begun and not yet counted.                                     *)
InFlight ==
  {t \in Threads : pc[t] \notin {"loop", "validate", "backup", "unwind", "tick", "done"}}

BoundInv == playouts + Cardinality(InFlight) <= MaxNodes + Cardinality(Threads) - 1

LEMMA Finite ==
  /\ IsFiniteSet(Threads) /\ Cardinality(Threads) \in Nat /\ MaxNodes \in Nat \ {0}
  /\ \A s \in SUBSET Threads : /\ IsFiniteSet(s) /\ Cardinality(s) \in Nat
                               /\ Cardinality(s) <= Cardinality(Threads)
  BY SearchAssumption, FS_Subset, FS_CardinalityType DEF SearchAssumption

LEMMA BoundInit == Init => BoundInv
<1> SUFFICES ASSUME Init
             PROVE  BoundInv
  OBVIOUS
<1>1. InFlight = {}
  BY DEF Init, InFlight
<1>2. Cardinality(InFlight) = 0
  BY <1>1, FS_EmptySet
<1>3. Cardinality(Threads) # 0
  BY SearchAssumption, FS_EmptySet DEF SearchAssumption
<1> QED
  BY <1>2, <1>3, Finite DEF Init, BoundInv

(* Between its start and its end a playout neither joins nor leaves.       *)
LEMMA StaysInFlight ==
  ASSUME Typed, NEW t \in Threads,
         \/ Enter(t) \/ Visit(t) \/ Lock(t) \/ FirstVisit(t) \/ ExpandNode(t)
         \/ ComputePriors(t) \/ SetExpanded(t) \/ Children(t) \/ ScanChild(t)
         \/ FinishScan(t) \/ Descend(t) \/ Validate(t) \/ Backup(t) \/ Unwind(t)
         \/ Tick(t)
  PROVE  InFlight' = InFlight /\ playouts' = playouts
<1> USE DEF Typed, TypeOK, InFlight, GoTo, stopVars
<1>1. CASE Enter(t) \/ FirstVisit(t) \/ Children(t)
  BY <1>1 DEF Enter, FirstVisit, Children, ResolveTerminalEdge
<1>2. CASE Visit(t) \/ Lock(t) \/ ExpandNode(t) \/ ComputePriors(t) \/ SetExpanded(t)
  BY <1>2 DEF Visit, Lock, ExpandNode, ComputePriors, SetExpanded
<1>3. CASE ScanChild(t) \/ FinishScan(t) \/ Descend(t)
  BY <1>3 DEF ScanChild, FinishScan, Descend
<1>4. CASE Validate(t) \/ Backup(t) \/ Unwind(t) \/ Tick(t)
  BY <1>4 DEF Validate, Backup, Unwind, Tick
<1> QED
  BY <1>1, <1>2, <1>3, <1>4

LEMMA BoundStep == Typed /\ BoundInv /\ [Next]_vars => BoundInv'
<1> SUFFICES ASSUME Typed, BoundInv, [Next]_vars
             PROVE  BoundInv'
  OBVIOUS
<1>0. playouts \in Nat /\ InFlight \in SUBSET Threads /\ InFlight' \in SUBSET Threads
  BY DEF Typed, TypeOK, InFlight
<1>1. ASSUME NEW t \in Threads, StartPlayout(t) PROVE BoundInv'
  <2>1. CASE IsSearchActive
    <3>1. playouts < MaxNodes /\ playouts' = playouts
      BY <1>1, <2>1 DEF StartPlayout, IsSearchActive, stopVars
    <3> QED
      BY <1>0, <3>1, Finite DEF BoundInv
  <2>2. CASE ~IsSearchActive
    <3>1. InFlight' = InFlight /\ playouts' = playouts
      BY <1>1, <2>2 DEF StartPlayout, GoTo, InFlight, stopVars, Typed, TypeOK
    <3> QED
      BY <3>1 DEF BoundInv
  <2> QED
    BY <2>1, <2>2
<1>2. ASSUME NEW t \in Threads, Count(t) PROVE BoundInv'
  <2>1. /\ t \in InFlight /\ InFlight' = InFlight \ {t}
        /\ playouts' = playouts + 1
    BY <1>2 DEF Count, GoTo, InFlight, Typed, TypeOK
  <2>2. Cardinality(InFlight') = Cardinality(InFlight) - 1
    BY <1>0, <2>1, Finite, FS_RemoveElement
  <2> QED
    BY <1>0, <2>1, <2>2, Finite DEF BoundInv
<1>3. ASSUME NEW t \in Threads, Playout(t), ~StartPlayout(t), ~Count(t) PROVE BoundInv'
  BY <1>3, StaysInFlight DEF Playout, BoundInv
<1>4. CASE Main \/ Stop \/ Finished \/ UNCHANGED vars
  <2>1. InFlight' = InFlight /\ playouts' = playouts
    BY <1>4 DEF Main, Join, GuardAttempt, Report, Stop, Finished, threadVars, vars,
                stopVars, InFlight
  <2> QED
    BY <2>1 DEF BoundInv
<1>5. CASE RunAgain
  <2>1. playouts' = 0
    BY <1>5 DEF RunAgain
  <2> QED
    BY <1>0, <2>1, Finite DEF BoundInv
<1> QED
  BY <1>1, <1>2, <1>3, <1>4, <1>5 DEF Next

(* The counter passes max_nodes by the playouts of the other workers only. *)
THEOREM PlayoutLimit == Spec => []PlayoutsBounded
<1>1. Init => Typed /\ BoundInv
  BY BoundInit, TypeInit DEF Typed
<1>2. Typed /\ BoundInv /\ [Next]_vars => Typed' /\ BoundInv'
  BY TypeStep, ScanHasKidsStep, BoundStep DEF Typed
<1>3. Typed /\ BoundInv => PlayoutsBounded
  <2> SUFFICES ASSUME Typed, BoundInv
               PROVE  PlayoutsBounded
    OBVIOUS
  <2>1. playouts \in Nat /\ InFlight \in SUBSET Threads
    BY DEF Typed, TypeOK, InFlight
  <2> QED
    BY <2>1, Finite DEF BoundInv, PlayoutsBounded
<1>4. QED
  BY <1>1, <1>2, <1>3, PTL DEF Spec

-----------------------------------------------------------------------------
(* The root guard.                                                         *)

Answered(c) == flags[c] \cap {"win", "lose"} # {} \/ c \notin GuardMate

GuardInv ==
  /\ main = "report" => cancelled \/ \A c \in SelectBestChild : Answered(c)
  /\ BestMoveVerified

(* SelectBestChild names one child.                                        *)
LEMMA OneBest == \A c, d \in SelectBestChild : c = d
<1> DEFINE D == DOMAIN Kids[Root]
           first(s, i) == /\ Kids[Root][i] \in s
                          /\ \A d \in s : ~Better(d, Kids[Root][i])
                          /\ \A j \in 1..(i - 1) :
                               Kids[Root][j] \in s => Better(Kids[Root][i], Kids[Root][j])
<1>1. D = 1..Len(Kids[Root]) /\ Len(Kids[Root]) \in Nat
  BY RootAndParents, KidFacts
<1>2. ASSUME NEW s, NEW i \in D, NEW j \in D, first(s, i), first(s, j) PROVE i = j
  <2>1. ASSUME NEW k \in D, NEW l \in D, first(s, k), first(s, l) PROVE ~(k < l)
    <3>1. SUFFICES ASSUME k < l PROVE FALSE
      OBVIOUS
    <3>2. k \in 1..(l - 1)
      BY <1>1, <3>1
    <3> QED
      BY <2>1, <3>2
  <2>2. ~(i < j) /\ ~(j < i)
    BY <1>2, <2>1
  <2> QED
    BY <1>1, <2>2
<1>3. ASSUME NEW s PROVE \A c, d \in FirstBest(s) : c = d
  BY <1>2 DEF FirstBest
<1>4. ASSUME NEW w \in SUBSET D, NEW i \in w, NEW j \in w,
             \A k \in w : i <= k, \A k \in w : j <= k
      PROVE  i = j
  BY <1>1, <1>4
<1> QED
  BY <1>3, <1>4 DEF SelectBestChild

(* A refuted move is chosen only when every move is refuted.               *)
LEMMA RefutedOnlyIfAll ==
  ASSUME NEW c \in SelectBestChild, "win" \in flags[c], "lose" \notin flags[c]
  PROVE  \A d \in KidSet(Root) : "win" \in flags[d]
<1> DEFINE won  == {i \in DOMAIN Kids[Root] : "lose" \in flags[Kids[Root][i]]}
           kept == {d \in KidSet(Root) : "win" \notin flags[d]}
<1>1. CASE won # {}
  BY <1>1 DEF SelectBestChild
<1>2. CASE won = {} /\ kept # {}
  <2>1. c \in kept
    BY <1>2 DEF SelectBestChild, FirstBest
  <2> QED
    BY <2>1
<1>3. CASE kept = {}
  BY <1>3
<1> QED
  BY <1>1, <1>2, <1>3

LEMMA GuardStep == Typed /\ DoneInv /\ GuardInv /\ [Next]_vars => GuardInv'
<1> SUFFICES ASSUME Typed, DoneInv, GuardInv, [Next]_vars
             PROVE  GuardInv'
  OBVIOUS
<1>1. ASSUME NEW t \in Threads, Playout(t) PROVE GuardInv'
  <2>1. main = "search" /\ main' = main
    BY <1>1, WorkerMoves, WorkerLeavesMain DEF DoneInv, mainVars
  <2> QED
    BY <2>1 DEF GuardInv, BestMoveVerified
<1>2. CASE Join \/ Stop \/ RunAgain
  <2>1. main' \in {"search", "guard"}
    BY <1>2 DEF Join, Stop, RunAgain, mainVars
  <2> QED
    BY <2>1 DEF GuardInv, BestMoveVerified
<1>3. CASE GuardAttempt
  <2>1. main' \in {"guard", "report"}
    BY <1>3 DEF GuardAttempt
  <2>2. ASSUME main' = "report", ~cancelled'
        PROVE  \A c \in SelectBestChild : Answered(c)
    <3>1. PICK c \in SelectBestChild : Answered(c)
      BY <1>3, <2>2 DEF GuardAttempt, Answered
    <3> QED
      BY <3>1, OneBest
  <2>3. main' = "report" => flags' = flags /\ edgeVisits' = edgeVisits
    BY <1>3 DEF GuardAttempt, statVars
  <2> QED
    BY <2>1, <2>2, <2>3
       DEF GuardInv, BestMoveVerified, Answered, SelectBestChild, FirstBest, Better
<1>4. CASE Report
  <2>1. /\ best' \in SelectBestChild /\ UNCHANGED <<flags, cancelled>>
        /\ main = "report" /\ main' = "reported"
    BY <1>4 DEF Report, treeVars
  <2>2. ASSUME ~cancelled, "lose" \notin flags[best']
        PROVE  best' \notin GuardMate \/ \A c \in KidSet(Root) : "win" \in flags[c]
    BY <2>1, <2>2, RefutedOnlyIfAll DEF GuardInv, Answered
  <2> QED
    BY <2>1, <2>2 DEF GuardInv, BestMoveVerified
<1>5. CASE Finished \/ UNCHANGED vars
  BY <1>5 DEF Finished, vars, treeVars, statVars, mainVars, GuardInv, Answered,
              BestMoveVerified, SelectBestChild, FirstBest, Better
<1> QED
  BY <1>1, <1>2, <1>3, <1>4, <1>5 DEF Next, Main

(* Whatever the search found, the reported move does not run into a mate   *)
(* the guard's solver sees, unless the guard was cut short or all do.      *)
THEOREM GuardedMove == Spec => []BestMoveVerified
<1>1. Init => Typed /\ DoneInv /\ GuardInv
  BY TypeInit DEF Typed, Init, DoneInv, GuardInv, BestMoveVerified
<1>2. Typed /\ DoneInv /\ GuardInv /\ [Next]_vars => Typed' /\ DoneInv' /\ GuardInv'
  BY TypeStep, ScanHasKidsStep, DoneStep, GuardStep DEF Typed
<1>3. GuardInv => BestMoveVerified
  BY DEF GuardInv
<1>4. QED
  BY <1>1, <1>2, <1>3, PTL DEF Spec

-----------------------------------------------------------------------------
(* The refinement of ProvenTree.                                           *)
(* What a worker in the middle of SelectPuctChild has learnt still holds,  *)
(* whatever the other workers did since it read the children.              *)
ScanRemembers(t) ==
  LET n == at[t]
      s == scan[t]
  IN
  /\ Kind[n] = "inner"
  /\ \A j \in 1..Len(Kids[n]) : j < s.i =>
       \/ Kids[n][j] \in s.open
       \/ Kids[n][j] \in s.drawn
       \/ "win" \in flags[Kids[n][j]]
  /\ \A c \in s.drawn : c \in KidSet(n) /\ "draw" \in flags[c]

WorkerInv(t) ==
  LET n == at[t] IN
  /\ pc[t] \in {"visit", "wantEval", "eval"} => Kind[n] \in {"inner", "mate", "stuck"}
  /\ pc[t] \in {"wantExpand", "expand", "priors", "publish"} =>
       state[n] # "fresh" /\ Kind[n] = "inner"
  /\ pc[t] = "children" => Kind[n] \in {"inner", "stuck"}
  /\ pc[t] = "scan" => ScanRemembers(t)

NodeInv ==
  \A n \in Nodes :
    /\ state[n] = "evaluated" => Kind[n] = "inner"
    /\ state[n] = "expanded"  => Kind[n] \in {"inner", "stuck"}

RefInv == NodeInv /\ \A t \in Threads : WorkerInv(t)

LEMMA AddFlagsGrow ==
  ASSUME Typed, NEW m \in Nodes, NEW fs, AddFlags(m, fs), NEW n \in Nodes
  PROVE  flags[n] \subseteq flags'[n]
  BY DEF AddFlags, Typed, TypeOK

(* Flags are never withdrawn and a visited node never becomes fresh.       *)
LEMMA Monotone ==
  ASSUME Typed, [Next]_vars, NEW n \in Nodes
  PROVE  /\ flags[n] \subseteq flags'[n]
         /\ state[n] # "fresh" => state'[n] # "fresh"
<1> USE DEF Typed, TypeOK, vars, treeVars
<1>1. ASSUME NEW t \in Threads, Playout(t)
      PROVE  /\ flags[n] \subseteq flags'[n]
             /\ state[n] # "fresh" => state'[n] # "fresh"
  <2>0. at[t] \in Nodes
    OBVIOUS
  <2>1. CASE Enter(t) \/ Children(t)
    BY <2>0, <2>1, AddFlagsGrow DEF Enter, Children, ResolveTerminalEdge
  <2>2. CASE FirstVisit(t)
    BY <2>0, <2>2, AddFlagsGrow
       DEF FirstVisit, EvaluatedMeanwhile, IsEvaled, ResolveTerminalEdge
  <2>3. CASE ScanChild(t) \/ FinishScan(t)
    BY <2>0, <2>3, AddFlagsGrow DEF ScanChild, FinishScan
  <2>4. CASE SetExpanded(t)
    BY <2>4 DEF SetExpanded
  <2>5. CASE StartPlayout(t) \/ Visit(t) \/ Lock(t) \/ ExpandNode(t) \/ ComputePriors(t)
    BY <2>5 DEF StartPlayout, Visit, Lock, ExpandNode, ComputePriors
  <2>6. CASE Descend(t) \/ Count(t) \/ Validate(t)
    BY <2>6 DEF Descend, Count, Validate
  <2>7. CASE Backup(t) \/ Unwind(t) \/ Tick(t)
    BY <2>7 DEF Backup, Unwind, Tick
  <2> QED
    BY <1>1, <2>1, <2>2, <2>3, <2>4, <2>5, <2>6, <2>7 DEF Playout
<1>2. CASE GuardAttempt
  BY <1>2 DEF GuardAttempt
<1>3. CASE Join \/ Report \/ Stop \/ RunAgain \/ Finished \/ UNCHANGED vars
  BY <1>3 DEF Join, Report, Stop, RunAgain, Finished
<1> QED
  BY <1>1, <1>2, <1>3 DEF Next, Main

(* A worker that does not move keeps what it knows.                        *)
LEMMA OthersKeep ==
  ASSUME Typed, [Next]_vars, NEW u \in Threads, WorkerInv(u),
         pc'[u] = pc[u], at'[u] = at[u], scan'[u] = scan[u]
  PROVE  WorkerInv(u)'
<1>1. at[u] \in Nodes
  BY DEF Typed, TypeOK
<1>2. state[at[u]] # "fresh" => state'[at[u]] # "fresh"
  BY <1>1, Monotone
<1>3. ASSUME pc[u] = "scan" PROVE ScanRemembers(u)'
  <2>1. ScanRemembers(u)
    BY <1>3 DEF WorkerInv
  <2>2. \A c \in KidSet(at[u]) : flags[c] \subseteq flags'[c]
    BY <1>1, KidFacts, Monotone
  <2>3. \A j \in 1..Len(Kids[at[u]]) : Kids[at[u]][j] \in KidSet(at[u])
    BY <1>1, KidFacts
  <2> QED
    BY <2>1, <2>2, <2>3 DEF ScanRemembers
<1> QED
  BY <1>1, <1>2, <1>3 DEF WorkerInv

(* The first states of the search are those of the proof tree.             *)
LEMMA InitRefines == Init => PT!Init
  BY DEF Init, PT!Init

LEMMA InitRefInv == Init => RefInv
<1> SUFFICES ASSUME Init
             PROVE  RefInv
  OBVIOUS
<1>1. NodeInv
  BY GameTreeAssumption DEF GameTreeAssumption, TreeValues, Init, NodeInv
<1>2. \A t \in Threads : WorkerInv(t)
  BY DEF Init, WorkerInv
<1> QED
  BY <1>1, <1>2 DEF RefInv

-----------------------------------------------------------------------------
(* Every step maps to a step of the proof tree, or to no step.             *)

LEMMA SameKids == \A n : PT!KidSet(n) = KidSet(n)
  BY DEF PT!KidSet, KidSet

(* Adding one justified flag to an edge, with no node changing state.      *)
LEMMA FlagStep ==
  ASSUME Typed, NEW n \in Nodes, NEW f \in Flags, AddFlags(n, {f}),
         n # Root => PT!Justified(n, f), UNCHANGED state
  PROVE  [PT!Next]_(PT!ptVars)
<1>1. CASE n = Root
  BY <1>1 DEF AddFlags, PT!ptVars
<1>2. CASE n # Root
  <2>1. PT!Prove(n, f)
    BY <1>2 DEF AddFlags, PT!Prove
  <2> QED
    BY <2>1 DEF PT!Next, PT!Flags, Flags
<1> QED
  BY <1>1, <1>2

(* What a completed loop proves is justified by the flags as they are now. *)
LEMMA ScanJustifies ==
  ASSUME Typed, NEW t \in Threads, ScanRemembers(t),
         scan[t].i > Len(Kids[at[t]]), NEW f \in ProvenByScan(scan[t])
  PROVE  f \in Flags /\ PT!Justified(at[t], f)
<1> DEFINE n == at[t]
           s == scan[t]
<1>1. n \in Nodes /\ s \in Scans
  BY DEF Typed, TypeOK
<1>2. \A c \in KidSet(n) : c \in s.open \/ c \in s.drawn \/ "win" \in flags[c]
  <2> SUFFICES ASSUME NEW c \in KidSet(n)
               PROVE  c \in s.open \/ c \in s.drawn \/ "win" \in flags[c]
    OBVIOUS
  <2>1. PICK j \in 1..Len(Kids[n]) : c = Kids[n][j]
    BY <1>1, KidFacts DEF KidSet
  <2>2. j < s.i
    BY <1>1, <2>1, KidFacts DEF Scans
  <2> QED
    BY <2>1, <2>2 DEF ScanRemembers
<1>3. Kind[n] = "inner"
  BY DEF ScanRemembers
<1>4. CASE NotSkipped(s) = {}
  <2>1. \A c \in KidSet(n) : PT!Has(c, "win")
    BY <1>2, <1>4 DEF NotSkipped, PT!Has
  <2> QED
    BY <1>3, <1>4, <2>1, SameKids DEF ProvenByScan, PT!Justified, Flags
<1>5. CASE NotSkipped(s) # {}
  <2>1. s.open = {} /\ f = "draw"
    BY <1>5 DEF ProvenByScan
  <2>2. s.drawn # {}
    BY <1>5, <2>1 DEF NotSkipped
  <2>3. \A c \in KidSet(n) : PT!Has(c, "win") \/ PT!Has(c, "draw")
    BY <1>2, <2>1 DEF ScanRemembers, PT!Has
  <2>4. \E c \in KidSet(n) : PT!Has(c, "draw")
    BY <2>2 DEF ScanRemembers, PT!Has
  <2> QED
    BY <1>3, <2>1, <2>3, <2>4, SameKids DEF PT!Justified, Flags
<1> QED
  BY <1>4, <1>5

LEMMA StepRefines == Typed /\ RefInv /\ [Next]_vars => [PT!Next]_(PT!ptVars)
<1> SUFFICES ASSUME Typed, RefInv, [Next]_vars
             PROVE  [PT!Next]_(PT!ptVars)
  OBVIOUS
<1>0. /\ flags \in [Nodes -> SUBSET Flags]
      /\ state \in [Nodes -> {"fresh", "evaluated", "expanded"}]
      /\ Flags = {"win", "lose", "draw"}
  BY DEF Typed, TypeOK, Flags
<1>1. ASSUME UNCHANGED <<flags, state>> PROVE [PT!Next]_(PT!ptVars)
  BY <1>1 DEF PT!ptVars
<1>2. ASSUME NEW t \in Threads, Playout(t) PROVE [PT!Next]_(PT!ptVars)
  <2> DEFINE n == at[t]
  <2>0. n \in Nodes /\ WorkerInv(t)
    BY DEF Typed, TypeOK, RefInv
  <2>1. CASE Enter(t)
    <3>1. CASE UNCHANGED flags
      BY <1>1, <2>1, <3>1 DEF Enter
    <3>2. CASE flags' # flags
      <4>1. /\ Kind[n] \in EntryKinds
            /\ AddFlags(n, {FlagOf[EntryOutcome[Kind[n]]]})
            /\ UNCHANGED state
        BY <2>1, <3>2 DEF Enter, ResolveTerminalEdge
      <4>2. FlagOf[EntryOutcome[Kind[n]]] \in Flags
        BY <4>1, OutcomeTypes
      <4> QED
        BY <2>0, <4>1, <4>2, FlagStep DEF PT!Justified, PT!EntryKinds,
           PT!EntryOutcome, PT!FlagOf, EntryKinds, EntryOutcome, FlagOf
    <3> QED
      BY <3>1, <3>2
  <2>2. CASE FirstVisit(t)
    <3>1. CASE EvaluatedMeanwhile(n)
      BY <1>1, <2>2, <3>1 DEF FirstVisit
    <3>2. CASE ~EvaluatedMeanwhile(n) /\ Kind[n] = "mate"
      <4>1. AddFlags(n, {"win"}) /\ UNCHANGED state
        BY <2>2, <3>2 DEF FirstVisit, ResolveTerminalEdge, FlagOf
      <4> QED
        BY <1>0, <2>0, <3>2, <4>1, FlagStep DEF PT!Justified
    <3>3. CASE ~EvaluatedMeanwhile(n) /\ Kind[n] = "stuck"
      <4>1. AddFlags(n, {"lose"}) /\ state' = [state EXCEPT ![n] = "expanded"]
        BY <2>2, <3>3 DEF FirstVisit, ResolveTerminalEdge, FlagOf
      <4>2. n # Root
        BY <3>3, GameTreeAssumption DEF GameTreeAssumption, TreeValues
      <4>3. PT!ExpandStuck(n)
        BY <1>0, <2>0, <3>3, <4>1, <4>2
           DEF EvaluatedMeanwhile, IsEvaled, AddFlags, PT!ExpandStuck
      <4> QED
        BY <2>0, <4>3 DEF PT!Next
    <3>4. CASE ~EvaluatedMeanwhile(n) /\ Kind[n] = "inner"
      <4>1. PT!Evaluate(n)
        BY <1>0, <2>0, <2>2, <3>4
           DEF FirstVisit, EvaluatedMeanwhile, IsEvaled, PT!Evaluate
      <4> QED
        BY <2>0, <4>1 DEF PT!Next
    <3> QED
      BY <2>2, <3>1, <3>2, <3>3, <3>4 DEF FirstVisit
  <2>3. CASE SetExpanded(t)
    <3>1. Kind[n] = "inner" /\ state[n] \in {"evaluated", "expanded"}
      BY <1>0, <2>0, <2>3 DEF SetExpanded, WorkerInv
    <3>2. CASE state[n] = "expanded"
      BY <1>0, <1>1, <2>0, <2>3, <3>2 DEF SetExpanded
    <3>3. CASE state[n] = "evaluated"
      <4>1. PT!Expand(n)
        BY <2>0, <2>3, <3>1, <3>3 DEF SetExpanded, PT!Expand
      <4> QED
        BY <2>0, <4>1 DEF PT!Next
    <3> QED
      BY <3>1, <3>2, <3>3
  <2>4. CASE Children(t)
    <3>1. CASE Kids[n] = << >>
      <4>1. Kind[n] = "stuck"
        BY <2>0, <2>4, <3>1, GameTreeAssumption
           DEF Children, WorkerInv, GameTreeAssumption, TreeValues
      <4>2. AddFlags(n, {"lose"}) /\ UNCHANGED state
        BY <2>4, <3>1 DEF Children, ResolveTerminalEdge, FlagOf
      <4> QED
        BY <1>0, <2>0, <4>1, <4>2, FlagStep DEF PT!Justified
    <3>2. CASE Kids[n] # << >>
      BY <1>1, <2>4, <3>2 DEF Children
    <3> QED
      BY <3>1, <3>2
  <2>5. CASE ScanChild(t)
    <3> DEFINE c == Kids[n][scan[t].i]
    <3>1. CASE "lose" \in flags[c]
      <4>1. scan[t].i \in 1..Len(Kids[n])
        BY <2>0, <2>5, KidFacts DEF ScanChild, Typed, TypeOK, Scans
      <4>2. c \in KidSet(n) /\ Kind[n] = "inner"
        BY <2>0, <2>5, <4>1, KidFacts DEF ScanChild, WorkerInv, ScanRemembers
      <4>3. AddFlags(n, {"win"}) /\ UNCHANGED state
        BY <2>5, <3>1 DEF ScanChild
      <4>4. PT!Justified(n, "win")
        BY <3>1, <4>2, SameKids DEF PT!Justified, PT!Has
      <4> QED
        BY <1>0, <2>0, <4>3, <4>4, FlagStep
    <3>2. CASE "lose" \notin flags[c]
      BY <1>1, <2>5, <3>2 DEF ScanChild
    <3> QED
      BY <3>1, <3>2
  <2>6. CASE FinishScan(t)
    <3>1. /\ AddFlags(n, ProvenByScan(scan[t])) /\ UNCHANGED state
          /\ ScanRemembers(t) /\ scan[t].i > Len(Kids[n])
      BY <2>0, <2>6 DEF FinishScan, WorkerInv
    <3>2. CASE ProvenByScan(scan[t]) = {}
      BY <1>0, <1>1, <3>1, <3>2 DEF AddFlags
    <3>3. ASSUME NEW f, ProvenByScan(scan[t]) = {f}
          PROVE  [PT!Next]_(PT!ptVars)
      BY <2>0, <3>1, <3>3, ScanJustifies, FlagStep
    <3> QED
      BY <3>2, <3>3 DEF ProvenByScan
  <2>7. CASE StartPlayout(t) \/ Visit(t) \/ Lock(t) \/ ExpandNode(t) \/ ComputePriors(t)
    BY <1>1, <2>7 DEF StartPlayout, Visit, Lock, ExpandNode, ComputePriors, treeVars
  <2>8. CASE Descend(t) \/ Count(t) \/ Validate(t)
    BY <1>1, <2>8 DEF Descend, Count, Validate, treeVars
  <2>9. CASE Backup(t) \/ Unwind(t) \/ Tick(t)
    BY <1>1, <2>9 DEF Backup, Unwind, Tick, treeVars
  <2> QED
    BY <1>2, <2>1, <2>2, <2>3, <2>4, <2>5, <2>6, <2>7, <2>8, <2>9 DEF Playout
<1>3. CASE GuardAttempt
  <2>1. CASE UNCHANGED flags
    BY <1>1, <1>3, <2>1 DEF GuardAttempt
  <2>2. CASE flags' # flags
    <3>1. PICK c \in SelectBestChild :
             /\ c \in GuardMate /\ UNCHANGED state
             /\ flags' = [flags EXCEPT ![c] = @ \cup {"win"}]
      BY <1>3, <2>2 DEF GuardAttempt, Refuted
    <3>2. c \in Nodes /\ c # Root
      BY <3>1, BestIsChild, KidFacts, GameTreeAssumption
         DEF GameTreeAssumption, TreeShape
    <3>3. PT!Prove(c, "win")
      BY <3>1, <3>2 DEF PT!Prove, PT!Justified
    <3> QED
      BY <1>0, <3>2, <3>3 DEF PT!Next, PT!Flags
  <2> QED
    BY <2>1, <2>2
<1>4. CASE Join \/ Report \/ Stop \/ RunAgain \/ Finished \/ UNCHANGED vars
  BY <1>1, <1>4 DEF Join, Report, Stop, RunAgain, Finished, treeVars, vars
<1> QED
  BY <1>2, <1>3, <1>4 DEF Next, Main

-----------------------------------------------------------------------------
(* The invariant the mapping needs is kept by every step.                  *)

(* The loop of SelectPuctChild has looked at one child more.               *)
LEMMA OneChildMore ==
  ASSUME NEW t \in Threads, ScanRemembers(t), at' = at, flags' = flags,
         NEW c, c = Kids[at[t]][scan[t].i], c \in KidSet(at[t]),
         scan[t].i \in Nat, Len(Kids[at[t]]) \in Nat,
         scan'[t].i = scan[t].i + 1,
         scan[t].open \subseteq scan'[t].open,
         scan[t].drawn \subseteq scan'[t].drawn,
         c \in scan'[t].open \/ c \in scan'[t].drawn \/ "win" \in flags[c],
         \A d \in scan'[t].drawn :
            d \in scan[t].drawn \/ (d = c /\ "draw" \in flags[c])
  PROVE  ScanRemembers(t)'
<1> DEFINE n == at[t]
<1>1. ASSUME NEW j \in 1..Len(Kids[n]), j < scan'[t].i
      PROVE  \/ Kids[n][j] \in scan'[t].open
             \/ Kids[n][j] \in scan'[t].drawn
             \/ "win" \in flags[Kids[n][j]]
  <2>1. j < scan[t].i \/ j = scan[t].i
    BY <1>1
  <2>2. CASE j < scan[t].i
    BY <2>2 DEF ScanRemembers
  <2>3. CASE j = scan[t].i
    BY <2>3
  <2> QED
    BY <2>1, <2>2, <2>3
<1>2. ASSUME NEW d \in scan'[t].drawn
      PROVE  d \in KidSet(n) /\ "draw" \in flags[d]
  BY <1>2 DEF ScanRemembers
<1>3. Kind[n] = "inner"
  BY DEF ScanRemembers
<1> QED
  BY <1>1, <1>2, <1>3 DEF ScanRemembers

(* The worker that moves: what it knows at its next place.                 *)
LEMMA MoverKnows ==
  ASSUME Typed, RefInv, NEW t \in Threads, Playout(t), [Next]_vars
  PROVE  WorkerInv(t)'
<1> DEFINE n == at[t]
<1> USE DEF Typed, TypeOK
<1>0. /\ n \in Nodes /\ Kind[n] \in Kinds /\ WorkerInv(t)
      /\ \A m \in Nodes : Kind[m] = "inner" <=> Kids[m] # << >>
  BY GameTreeAssumption DEF GameTreeAssumption, TreeValues, RefInv
<1>1. CASE Enter(t)
  <2>1. at' = at /\ pc'[t] \in {"visit", "count"}
    BY <1>1 DEF Enter, ResolveTerminalEdge, GoTo
  <2>2. pc'[t] = "visit" => Kind[n] \notin EntryKinds
    BY <1>1 DEF Enter, ResolveTerminalEdge, GoTo
  <2> QED
    BY <1>0, <2>1, <2>2 DEF WorkerInv, Kinds
<1>2. CASE Visit(t)
  <2>1. /\ at' = at /\ UNCHANGED state
        /\ Kind[n] \in {"inner", "mate", "stuck"}
        /\ pc'[t] \in {"wantEval", "wantExpand", "children"}
    BY <1>0, <1>2 DEF Visit, GoTo, WorkerInv, treeVars
  <2>2. pc'[t] = "wantExpand" => state[n] = "evaluated"
    BY <1>0, <1>2 DEF Visit, GoTo, IsEvaled, IsExpanded
  <2>3. pc'[t] = "children" => state[n] = "expanded"
    BY <1>0, <1>2 DEF Visit, GoTo, IsEvaled, IsExpanded
  <2> QED
    BY <1>0, <2>1, <2>2, <2>3 DEF WorkerInv, RefInv, NodeInv
<1>3. CASE Lock(t)
  BY <1>0, <1>3 DEF Lock, GoTo, WorkerInv, treeVars
<1>4. CASE FirstVisit(t)
  <2>1. at' = at /\ pc'[t] \in {"visit", "count"}
    BY <1>4 DEF FirstVisit, ResolveTerminalEdge, GoTo
  <2> QED
    BY <1>0, <1>4, <2>1 DEF FirstVisit, WorkerInv
<1>5. CASE ExpandNode(t) \/ ComputePriors(t) \/ SetExpanded(t)
  <2>1. /\ at' = at /\ state[n] # "fresh" /\ Kind[n] = "inner"
        /\ pc'[t] \in {"priors", "publish", "children"}
    BY <1>0, <1>5 DEF ExpandNode, ComputePriors, SetExpanded, GoTo, WorkerInv
  <2>2. state'[n] # "fresh"
    BY <1>0, <2>1, Monotone
  <2> QED
    BY <2>1, <2>2 DEF WorkerInv
<1>6. CASE Children(t)
  <2>1. CASE Kids[n] = << >>
    BY <1>6, <2>1 DEF Children, ResolveTerminalEdge, GoTo, WorkerInv
  <2>2. CASE Kids[n] # << >>
    <3>1. at' = at /\ pc'[t] = "scan" /\ scan'[t] = EmptyScan
      BY <1>6, <2>2 DEF Children, GoTo
    <3>2. Len(Kids[n]) \in Nat
      BY <1>0, KidFacts
    <3>3. ScanRemembers(t)'
      BY <1>0, <2>2, <3>1, <3>2 DEF ScanRemembers, EmptyScan
    <3> QED
      BY <3>1, <3>3 DEF WorkerInv
  <2> QED
    BY <2>1, <2>2
<1>7. CASE ScanChild(t)
  <2> DEFINE s == scan[t]
             c == Kids[n][s.i]
  <2>1. CASE "lose" \in flags[c]
    BY <1>7, <2>1 DEF ScanChild, GoTo, WorkerInv
  <2>2. CASE "lose" \notin flags[c]
    <3> DEFINE r == [i     |-> s.i + 1,
                     open  |-> IF flags[c] = {} THEN s.open \cup {c} ELSE s.open,
                     drawn |-> IF flags[c] = {"draw"} THEN s.drawn \cup {c} ELSE s.drawn]
    <3>1. t \in DOMAIN scan /\ s \in Scans /\ \A m \in Nodes : flags[m] \subseteq {"win", "lose", "draw"}
      BY <1>0 DEF Flags
    <3> HIDE DEF Typed, TypeOK
    <3>2. /\ at' = at /\ flags' = flags /\ pc' = pc /\ scan' = [scan EXCEPT ![t] = r]
          /\ pc[t] = "scan" /\ s.i <= Len(Kids[n])
      BY <1>7, <2>2 DEF ScanChild
    <3>3. /\ ScanRemembers(t) /\ s.i \in 1..Len(Kids[n]) /\ Len(Kids[n]) \in Nat
      BY <1>0, <3>1, <3>2, KidFacts DEF WorkerInv, Scans
    <3>4. c \in KidSet(n) /\ c \in Nodes
      BY <1>0, <3>3, KidFacts
    <3>5. flags[c] = {} \/ flags[c] = {"draw"} \/ "win" \in flags[c]
      BY <2>2, <3>1, <3>4
    <3>6. scan'[t] = r
      BY <3>1, <3>2
    <3>7. /\ r.i = s.i + 1 /\ s.open \subseteq r.open /\ s.drawn \subseteq r.drawn
          /\ c \in r.open \/ c \in r.drawn \/ "win" \in flags[c]
          /\ \A d \in r.drawn : d \in s.drawn \/ (d = c /\ "draw" \in flags[c])
      <4>1. CASE flags[c] = {}
        BY <4>1
      <4>2. CASE flags[c] = {"draw"}
        BY <4>2
      <4>3. CASE flags[c] # {} /\ flags[c] # {"draw"}
        BY <3>5, <4>3
      <4> QED
        BY <4>1, <4>2, <4>3
    <3>8. ScanRemembers(t)'
      <4> HIDE DEF r
      <4> QED
        BY <3>2, <3>3, <3>4, <3>6, <3>7, OneChildMore
    <3> QED
      BY <3>2, <3>8 DEF WorkerInv
  <2> QED
    BY <2>1, <2>2
<1>8. CASE StartPlayout(t) \/ FinishScan(t) \/ Descend(t) \/ Count(t) \/ Validate(t)
  BY <1>8 DEF StartPlayout, FinishScan, Descend, Count, Validate, GoTo, WorkerInv
<1>9. CASE Backup(t) \/ Unwind(t) \/ Tick(t)
  BY <1>9 DEF Backup, Unwind, Tick, GoTo, WorkerInv
<1> QED
  BY <1>1, <1>2, <1>3, <1>4, <1>5, <1>6, <1>7, <1>8, <1>9 DEF Playout

(* A step of one worker does not touch the place of another.               *)
LEMMA OthersStay ==
  ASSUME Typed, NEW t \in Threads, Playout(t), NEW u \in Threads, u # t
  PROVE  pc'[u] = pc[u] /\ at'[u] = at[u] /\ scan'[u] = scan[u]
<1> USE DEF Typed, TypeOK, GoTo
<1>1. CASE StartPlayout(t) \/ Visit(t) \/ Lock(t) \/ ExpandNode(t) \/ ComputePriors(t)
  BY <1>1 DEF StartPlayout, Visit, Lock, ExpandNode, ComputePriors
<1>2. CASE Enter(t) \/ FirstVisit(t) \/ Children(t)
  BY <1>2 DEF Enter, FirstVisit, Children, ResolveTerminalEdge
<1>3. CASE SetExpanded(t) \/ ScanChild(t) \/ FinishScan(t) \/ Descend(t)
  BY <1>3 DEF SetExpanded, ScanChild, FinishScan, Descend
<1>4. CASE Count(t) \/ Validate(t) \/ Backup(t) \/ Unwind(t) \/ Tick(t)
  BY <1>4 DEF Count, Validate, Backup, Unwind, Tick
<1> QED
  BY <1>1, <1>2, <1>3, <1>4 DEF Playout

(* Which states a node of which kind may be in.                            *)
LEMMA NodeInvStep == Typed /\ RefInv /\ [Next]_vars => NodeInv'
<1> SUFFICES ASSUME Typed, RefInv, [Next]_vars
             PROVE  NodeInv'
  OBVIOUS
<1> USE DEF Typed, TypeOK, RefInv
<1>1. ASSUME UNCHANGED state PROVE NodeInv'
  BY <1>1 DEF NodeInv
<1>2. ASSUME NEW t \in Threads, FirstVisit(t) PROVE NodeInv'
  BY <1>2 DEF FirstVisit, NodeInv
<1>3. ASSUME NEW t \in Threads, SetExpanded(t) PROVE NodeInv'
  BY <1>3 DEF SetExpanded, NodeInv, WorkerInv
<1>4. ASSUME NEW t \in Threads, Playout(t), ~FirstVisit(t), ~SetExpanded(t)
      PROVE  UNCHANGED state
  BY <1>4 DEF Playout, StartPlayout, Enter, Visit, Lock, ExpandNode, ComputePriors,
     Children, ScanChild, FinishScan, Descend, Count, Validate, Backup, Unwind,
     Tick, treeVars
<1>5. CASE Main \/ Stop \/ RunAgain \/ Finished \/ UNCHANGED vars
  BY <1>1, <1>5 DEF Main, Join, GuardAttempt, Report, Stop, RunAgain, Finished,
     treeVars, vars
<1> QED
  BY <1>1, <1>2, <1>3, <1>4, <1>5 DEF Next

LEMMA RefInvStep == Typed /\ RefInv /\ [Next]_vars => RefInv'
<1> SUFFICES ASSUME Typed, RefInv, [Next]_vars, NEW u \in Threads
             PROVE  WorkerInv(u)'
  BY NodeInvStep DEF RefInv
<1>0. WorkerInv(u)
  BY DEF RefInv
<1>1. ASSUME NEW t \in Threads, Playout(t) PROVE WorkerInv(u)'
  <2>1. CASE u = t
    BY <1>1, <2>1, MoverKnows
  <2>2. CASE u # t
    BY <1>0, <1>1, <2>2, OthersStay, OthersKeep
  <2> QED
    BY <2>1, <2>2
<1>2. CASE Main \/ Stop \/ Finished \/ UNCHANGED vars
  <2>1. pc' = pc /\ at' = at /\ scan' = scan
    BY <1>2 DEF Main, Join, GuardAttempt, Report, Stop, Finished, threadVars, vars
  <2> QED
    BY <1>0, <2>1, OthersKeep
<1>3. CASE RunAgain
  <2>1. pc'[u] = "loop"
    BY <1>3 DEF RunAgain
  <2> QED
    BY <2>1 DEF WorkerInv
<1> QED
  BY <1>1, <1>2, <1>3 DEF Next

-----------------------------------------------------------------------------
(* The search with its threads, locks and scans is an implementation of    *)
(* the atomic proof tree: its flags appear as if each were derived in one  *)
(* atomic look at the children, and each node is evaluated and expanded    *)
(* at most once.                                                           *)
THEOREM Refinement == Spec => ImplementsProvenTree
<1>1. Init => PT!Init /\ Typed /\ RefInv
  BY InitRefines, TypeInit, InitRefInv DEF Typed
<1>2. Typed /\ RefInv /\ [Next]_vars => Typed' /\ RefInv'
  BY TypeStep, ScanHasKidsStep, RefInvStep DEF Typed
<1>3. QED
  BY <1>1, <1>2, StepRefines, PTL DEF Spec, ImplementsProvenTree, PT!Spec

-----------------------------------------------------------------------------
(* The atomic proof tree keeps its promise.                                *)

(* Its game tree is that of the search.                                    *)
LEMMA TreeOfPT == PT!TreeShape /\ PT!TreeValues /\ PT!GuardIsSound
<1>1. PT!TreeShape
  BY SameKids, GameTreeAssumption DEF GameTreeAssumption, TreeShape, PT!TreeShape
<1>2. PT!Kinds = Kinds /\ PT!Values = Values /\ PT!RuleValue = RuleValue
      /\ PT!EntryKinds = EntryKinds
  BY DEF PT!Kinds, Kinds, PT!Values, Values, PT!RuleValue, RuleValue,
         PT!EntryKinds, EntryKinds, PT!EntryOutcome, EntryOutcome
<1>3. PT!TreeValues
  BY SameKids, <1>2, GameTreeAssumption DEF GameTreeAssumption, TreeValues, PT!TreeValues
<1>4. PT!GuardIsSound
  BY SameKids, <1>2, GameTreeAssumption DEF GameTreeAssumption, GuardIsSound, PT!GuardIsSound
<1> QED
  BY <1>1, <1>3, <1>4

(* The initial labels and the effect of a step, for the type invariant.    *)
LEMMA PTTypeCorrect == PT!Spec => []PT!PTTypeOK
<1>1. PT!Init => PT!PTTypeOK
  BY DEF PT!Init, PT!PTTypeOK, PT!Flags
<1>2. PT!PTTypeOK /\ [PT!Next]_(PT!ptVars) => PT!PTTypeOK'
  BY DEF PT!PTTypeOK, PT!Next, PT!ptVars, PT!Prove, PT!Evaluate, PT!ExpandStuck, PT!Expand, PT!Flags
<1>3. QED
  BY <1>1, <1>2, PTL DEF PT!Spec

(* Below the root, a labelled child has the value its label claims: only   *)
(* the root's own children can carry a flag of the root guard.             *)
LEMMA KidLabels ==
  ASSUME PT!PTTypeOK, PT!LabelsSound, NEW n \in Nodes, n # Root, NEW c \in PT!KidSet(n)
  PROVE  /\ c \in Nodes
         /\ PT!Has(c, "win")  => Val[c] = "win"
         /\ PT!Has(c, "lose") => Val[c] = "loss"
         /\ PT!Has(c, "draw") => Val[c] = "draw"
<1> USE TreeOfPT DEF PT!TreeShape
<1>1. c \in Nodes /\ Parent[c] = n
  BY DEF PT!KidSet
<1>2. c \notin GuardMate
  BY <1>1 DEF PT!GuardIsSound
<1> QED
  BY <1>1, <1>2 DEF PT!Has, PT!LabelsSound, PT!Claim

(* A flag the rules or sound flags below justify is itself sound.  For     *)
(* ProvenTree!Prove, which stands for ResolveTerminalEdge, the propagation *)
(* in SelectPuctChild and the root guard.                                  *)
LEMMA JustifiedIsSound ==
  ASSUME PT!PTTypeOK, PT!LabelsSound, NEW n \in Nodes, n # Root, NEW f \in PT!Flags,
         PT!Justified(n, f)
  PROVE  Val[n] = PT!Claim[f] \/ (f = "win" /\ n \in GuardMate)
<1> USE TreeOfPT DEF PT!TreeShape, PT!TreeValues
<1>1. CASE Kind[n] \in PT!EntryKinds /\ f = PT!FlagOf[PT!EntryOutcome[Kind[n]]]
  BY <1>1 DEF PT!EntryKinds, PT!EntryOutcome, PT!FlagOf, PT!RuleValue, PT!Claim
<1>2. CASE Kind[n] = "mate" /\ f = "win"
  BY <1>2 DEF PT!RuleValue, PT!Claim
<1>3. CASE Kind[n] = "stuck" /\ f = "lose"
  BY <1>3 DEF PT!RuleValue, PT!Claim
<1>4. CASE n \in GuardMate /\ f = "win"
  BY <1>4
<1>5. ASSUME Kind[n] = "inner", f = "win", \E c \in PT!KidSet(n) : PT!Has(c, "lose")
      PROVE  Val[n] = PT!Claim[f]
  BY <1>5, KidLabels DEF PT!Claim
<1>6. ASSUME Kind[n] = "inner", f = "lose", \A c \in PT!KidSet(n) : PT!Has(c, "win")
      PROVE  Val[n] = PT!Claim[f]
  BY <1>6, KidLabels DEF PT!Claim
<1>7. ASSUME Kind[n] = "inner", f = "draw",
             \A c \in PT!KidSet(n) : PT!Has(c, "win") \/ PT!Has(c, "draw"),
             \E c \in PT!KidSet(n) : PT!Has(c, "draw")
      PROVE  Val[n] = PT!Claim[f]
  <2>1. \A c \in PT!KidSet(n) : Val[c] \in {"win", "draw"}
    BY <1>7, KidLabels
  <2>2. \E c \in PT!KidSet(n) : Val[c] = "draw"
    BY <1>7, KidLabels
  <2>3. Val[n] # "win" /\ Val[n] # "loss"
    BY <1>7, <2>1, <2>2
  <2> QED
    BY <1>7, <2>3 DEF PT!Values, PT!Claim
<1> QED
  BY <1>1, <1>2, <1>3, <1>4, <1>5, <1>6, <1>7 DEF PT!Justified

(* In the atomic proof tree no flag ever lies about the game.              *)
THEOREM AtomicLabelsSound == PT!Spec => []PT!LabelsSound
<1>1. PT!Init => PT!LabelsSound
  BY DEF PT!Init, PT!LabelsSound
<1>2. PT!PTTypeOK /\ PT!LabelsSound /\ [PT!Next]_(PT!ptVars) => PT!LabelsSound'
  <2> SUFFICES ASSUME PT!PTTypeOK, PT!LabelsSound, [PT!Next]_(PT!ptVars)
               PROVE  PT!LabelsSound'
    OBVIOUS
  <2>1. ASSUME NEW n \in Nodes, NEW f \in PT!Flags, PT!Prove(n, f)
        PROVE  PT!LabelsSound'
    <3>1. Val[n] = PT!Claim[f] \/ (f = "win" /\ n \in GuardMate)
      BY <2>1, JustifiedIsSound DEF PT!Prove
    <3> QED
      BY <2>1, <3>1 DEF PT!Prove, PT!LabelsSound, PT!PTTypeOK
  <2>2. ASSUME NEW n \in Nodes, PT!ExpandStuck(n)
        PROVE  PT!LabelsSound'
    <3>1. PT!Justified(n, "lose") /\ "lose" \in PT!Flags /\ n # Root
      BY <2>2 DEF PT!ExpandStuck, PT!Justified, PT!Flags
    <3>2. Val[n] = PT!Claim["lose"]
      BY <3>1, JustifiedIsSound
    <3> QED
      BY <2>2, <3>2 DEF PT!ExpandStuck, PT!LabelsSound, PT!PTTypeOK
  <2>3. ASSUME NEW n \in Nodes, PT!Evaluate(n) \/ PT!Expand(n)
        PROVE  PT!LabelsSound'
    BY <2>3 DEF PT!Evaluate, PT!Expand, PT!LabelsSound
  <2>4. CASE UNCHANGED PT!ptVars
    BY <2>4 DEF PT!ptVars, PT!LabelsSound
  <2> QED
    BY <2>1, <2>2, <2>3, <2>4 DEF PT!Next
<1>3. QED
  BY <1>1, <1>2, PTTypeCorrect, PTL DEF PT!Spec

(* No proof flag of the concurrent search ever lies about the game.        *)
THEOREM ProofFlagsSound == Spec => []FlagsSound
<1>1. PT!LabelsSound => FlagsSound
  BY DEF PT!LabelsSound, FlagsSound, PT!Claim, Claim
<1> QED
  BY <1>1, Refinement, AtomicLabelsSound, PTL DEF ImplementsProvenTree

-----------------------------------------------------------------------------
(* The tree: finite, without cycles, every node below the root.            *)
LEMMA TreeFacts ==
  /\ Root \in Nodes /\ Kids[Root] # << >> /\ Kind[Root] = "inner"
  /\ \A n \in Nodes : \A c \in KidSet(n) : c \in Nodes \ {Root} /\ Parent[c] = n
  /\ \A c \in Nodes \ {Root} : Parent[c] \in Nodes /\ c \in KidSet(Parent[c])
  /\ \A n \in Nodes : IsFiniteSet(KidSet(n))
<1>1. /\ Root \in Nodes /\ Kids[Root] # << >> /\ Kind[Root] = "inner"
      /\ \A n \in Nodes : \A c \in KidSet(n) : c \in Nodes \ {Root} /\ Parent[c] = n
      /\ \A c \in Nodes \ {Root} : Parent[c] \in Nodes /\ c \in KidSet(Parent[c])
  BY GameTreeAssumption, KidFacts DEF GameTreeAssumption, TreeShape, TreeValues
<1>2. \A n \in Nodes : KidSet(n) \subseteq Nodes /\ IsFiniteSet(Nodes)
  BY KidFacts, GameTreeAssumption DEF GameTreeAssumption, BelowRoot
<1> QED
  BY <1>1, <1>2, FS_Subset

Closed(S) == \A x \in S \ {Root} : Parent[x] \in S

(* The nodes on the way from n up to the root, both included.              *)
Above(n) == {m \in Nodes : \A S \in SUBSET Nodes : n \in S /\ Closed(S) => m \in S}

(* Above(n) is the least set that holds n and every parent of its nodes.   *)
LEMMA AboveNode ==
  ASSUME NEW n \in Nodes
  PROVE  /\ n \in Above(n) /\ Above(n) \subseteq Nodes /\ Closed(Above(n))
         /\ \A S \in SUBSET Nodes : n \in S /\ Closed(S) => Above(n) \subseteq S
BY TreeFacts DEF Above, Closed

(* Nothing is above the root.                                              *)
LEMMA AboveRoot == Above(Root) = {Root}
<1>1. Closed({Root}) /\ {Root} \in SUBSET Nodes
  BY TreeFacts DEF Closed
<1> QED
  BY <1>1, TreeFacts, AboveNode

(* One step up.                                                            *)
LEMMA AboveStep ==
  ASSUME NEW n \in Nodes \ {Root}
  PROVE  Above(n) = {n} \cup Above(Parent[n])
<1>1. Parent[n] \in Nodes
  BY TreeFacts
<1>2. Above(n) \subseteq {n} \cup Above(Parent[n])
  <2>1. Closed({n} \cup Above(Parent[n])) /\ {n} \cup Above(Parent[n]) \in SUBSET Nodes
    BY <1>1, AboveNode DEF Closed
  <2> QED
    BY <2>1, AboveNode
<1>3. Parent[n] \in Above(n)
  BY AboveNode DEF Closed
<1>4. Above(Parent[n]) \subseteq Above(n)
  BY <1>1, <1>3, AboveNode
<1> QED
  BY <1>2, <1>4, AboveNode

(* Going up never leads back.                                              *)
LEMMA NoCycle == \A n \in Nodes \ {Root} : n \notin Above(Parent[n])
<1> DEFINE S == {Root} \cup {n \in Nodes \ {Root} : n \notin Above(Parent[n])}
<1>1. S \in SUBSET Nodes /\ Root \in S
  BY TreeFacts
<1>2. ASSUME NEW n \in S, NEW c \in KidSet(n) PROVE c \in S
  <2>1. n \in Nodes /\ c \in Nodes \ {Root} /\ Parent[c] = n
    BY <1>1, TreeFacts
  <2> SUFFICES ASSUME c \in Above(n) PROVE FALSE
    BY <2>1
  <2>2. n # Root
    BY <2>1, AboveRoot
  <2>3. n \notin Above(Parent[n]) /\ Parent[n] \in Nodes
    BY <2>1, <2>2, TreeFacts
  <2>4. Above(n) = {n} \cup Above(Parent[n])
    BY <2>1, <2>2, AboveStep
  <2>5. c # n
    <3>1. c = n => n \in Above(Parent[n])
      BY <2>1, AboveNode
    <3> QED
      BY <2>3, <3>1
  <2>6. c \in Above(Parent[n])
    BY <2>4, <2>5
  <2>7. n \in Above(Parent[n])
    BY <2>1, <2>3, <2>6, AboveNode DEF Closed
  <2> QED
    BY <2>3, <2>7
<1>3. S = Nodes
  <2> HIDE DEF S
  <2> QED
    BY <1>1, <1>2, GameTreeAssumption DEF GameTreeAssumption, BelowRoot
<1> QED
  BY <1>3

(* The trajectory that BackupTrajectory looks at is in the tree.           *)
LEMMA PathInTree == \A n \in Nodes : Path[n] \in SUBSET Nodes
<1> DEFINE Body(f, n) == IF n = Root THEN {} ELSE {n} \cup f[Parent[n]]
           F == [n \in Nodes |-> Above(n) \ {Root}]
<1>1. F = [n \in Nodes |-> Body(F, n)]
  <2>1. ASSUME NEW n \in Nodes PROVE F[n] = Body(F, n)
    <3>1. CASE n = Root
      BY <3>1, AboveRoot
    <3>2. CASE n # Root
      <4>1. Parent[n] \in Nodes
        BY <3>2, TreeFacts
      <4> QED
        BY <3>2, <4>1, AboveStep
    <3> QED
      BY <3>1, <3>2
  <2> QED
    BY <2>1
<1>2. Path = [n \in Nodes |-> Body(Path, n)]
  <2>1. \E f : f = [n \in Nodes |-> Body(f, n)]
    BY <1>1
  <2> QED
    BY <2>1 DEF Path
<1> DEFINE S == {n \in Nodes : Path[n] \in SUBSET Nodes}
<1>3. Root \in S /\ S \in SUBSET Nodes
  <2>1. Path[Root] = {}
    BY <1>2, TreeFacts
  <2> QED
    BY <2>1, TreeFacts
<1>4. ASSUME NEW n \in S, NEW c \in KidSet(n) PROVE c \in S
  <2>1. n \in Nodes /\ c \in Nodes \ {Root} /\ Parent[c] = n
    BY TreeFacts
  <2>2. Path[c] = {c} \cup Path[n]
    BY <1>2, <2>1
  <2> QED
    BY <2>1, <2>2
<1>5. S = Nodes
  <2> HIDE DEF S
  <2> QED
    BY <1>3, <1>4, GameTreeAssumption DEF GameTreeAssumption, BelowRoot
<1> QED
  BY <1>5
-----------------------------------------------------------------------------
(* Where the workers are.                                                  *)

(* The node a trajectory has reached: the child that SelectPuctChild chose *)
(* is not on it before AddVirtualLoss.                                     *)
Spot(t) == IF pc[t] = "descend" THEN Parent[at[t]] ELSE at[t]

(* The places of a playout on its way down.                                *)
Early == {"enter", "visit", "wantEval", "wantExpand", "eval", "expand", "priors", "publish",
          "children", "scan", "descend"}

(* No playout ends at the root, and a refused result is the worker's last. *)
PlaceInv ==
  /\ state[Root] = "expanded"
  /\ \A t \in Threads :
       /\ pc[t] \in {"wantEval", "wantExpand", "eval", "expand", "priors", "publish",
                     "descend", "count", "validate"} => at[t] # Root
       /\ val[t] = Bad => pc[t] \in {"count", "validate", "unwind", "done"}
       /\ pc[t] = "unwind" => val[t] = Bad
       /\ pc[t] = "scan" => NotSkipped(scan[t]) \subseteq KidSet(at[t])

StatsFinite == \A n \in Nodes : edgeWin[n] # Bad /\ nodeWin[n] # Bad

(* A worker's step leaves the other workers where they are.                *)
Moves1(t) ==
  /\ \A u \in Threads \ {t} :
       /\ pc'[u] = pc[u] /\ at'[u] = at[u] /\ val'[u] = val[u]
       /\ scan'[u] = scan[u] /\ iter'[u] = iter[u]
  /\ UNCHANGED mainVars

LEMMA OneMoves == ASSUME Typed, NEW t \in Threads, Playout(t) PROVE Moves1(t)
<1> USE DEF Typed, TypeOK, Moves1, GoTo
<1>1. CASE StartPlayout(t) \/ Enter(t) \/ Visit(t) \/ Lock(t) \/ FirstVisit(t)
  BY <1>1 DEF StartPlayout, Enter, Visit, Lock, FirstVisit, ResolveTerminalEdge
<1>2. CASE ExpandNode(t) \/ ComputePriors(t) \/ SetExpanded(t) \/ Children(t)
  BY <1>2 DEF ExpandNode, ComputePriors, SetExpanded, Children, ResolveTerminalEdge
<1>3. CASE ScanChild(t) \/ FinishScan(t) \/ Descend(t) \/ Count(t)
  BY <1>3 DEF ScanChild, FinishScan, Descend, Count
<1>4. CASE Validate(t) \/ Backup(t) \/ Unwind(t) \/ Tick(t)
  BY <1>4 DEF Validate, Backup, Unwind, Tick
<1> QED
  BY <1>1, <1>2, <1>3, <1>4 DEF Playout

(* A step on the way down that does not add a virtual loss.                *)
DownStep(t) ==
  /\ \/ pc'[t] \in Early \cup {"count"} /\ pc'[t] # "descend" /\ at'[t] = at[t]
     \/ pc'[t] = "descend" /\ at'[t] \in KidSet(at[t])
  /\ at[t] = Root => pc'[t] \in {"visit", "children", "scan", "descend"}
  /\ val'[t] = val[t] \/ pc'[t] = "count"

LEMMA EarlyStep ==
  ASSUME Typed, PlaceInv, NEW t \in Threads, Playout(t), pc[t] \in Early \ {"descend"}
  PROVE  DownStep(t) /\ UNCHANGED <<statVars, playouts, stop, treeFull, iter>>
<1>1. /\ at[t] \in Nodes /\ t \in DOMAIN pc /\ t \in DOMAIN at /\ t \in DOMAIN val
      /\ Kids[Root] # << >> /\ Kind[Root] \notin EntryKinds /\ state[Root] = "expanded"
  BY TreeFacts DEF Typed, TypeOK, PlaceInv, EntryKinds, EntryOutcome
<1>2. at[t] = Root => pc[t] \in {"enter", "visit", "children", "scan"}
  BY DEF PlaceInv, Early
<1> USE DEF GoTo, Early, DownStep, statVars, stopVars
<1>3. CASE Enter(t)
  BY <1>1, <1>3 DEF Enter, ResolveTerminalEdge
<1>4. CASE Visit(t)
  BY <1>1, <1>4 DEF Visit, IsEvaled, IsExpanded
<1>5. CASE Lock(t)
  BY <1>1, <1>2, <1>5 DEF Lock
<1>6. CASE FirstVisit(t)
  BY <1>1, <1>2, <1>6 DEF FirstVisit, ResolveTerminalEdge
<1>7. CASE ExpandNode(t)
  BY <1>1, <1>2, <1>7 DEF ExpandNode
<1>8. CASE ComputePriors(t)
  BY <1>1, <1>2, <1>8 DEF ComputePriors
<1>9. CASE SetExpanded(t)
  BY <1>1, <1>2, <1>9 DEF SetExpanded
<1>10. CASE Children(t)
  BY <1>1, <1>10 DEF Children, ResolveTerminalEdge
<1>11. CASE ScanChild(t)
  <2>1. pc'[t] = "descend" => at'[t] \in KidSet(at[t])
    <3>1. scan[t].i \in Nat \ {0} /\ Len(Kids[at[t]]) \in Nat
      BY <1>1, KidFacts DEF Typed, TypeOK, Scans
    <3>2. scan[t].i <= Len(Kids[at[t]]) => Kids[at[t]][scan[t].i] \in KidSet(at[t])
      BY <1>1, <3>1, KidFacts
    <3> QED
      BY <1>1, <1>11, <3>2 DEF ScanChild
  <2> QED
    BY <1>1, <1>11, <2>1 DEF ScanChild
<1>12. CASE FinishScan(t)
  <2>1. pc[t] = "scan" /\ Kids[at[t]] # << >>
    BY <1>12 DEF FinishScan, Typed, ScanHasKids
  <2>2. Kids[at[t]][1] \in KidSet(at[t]) /\ NotSkipped(scan[t]) \subseteq KidSet(at[t])
    BY <1>1, <2>1, KidFacts DEF PlaceInv
  <2>3. at'[t] \in KidSet(at[t])
    BY <1>1, <1>12, <2>2 DEF FinishScan
  <2> QED
    BY <1>1, <1>12, <2>3 DEF FinishScan
<1>13. CASE StartPlayout(t) \/ Descend(t) \/ Count(t) \/ Validate(t) \/ Backup(t) \/ Unwind(t) \/ Tick(t)
  BY <1>13 DEF StartPlayout, Descend, Count, Validate, Backup, Unwind, Tick
<1> QED
  BY <1>3, <1>4, <1>5, <1>6, <1>7, <1>8, <1>9, <1>10, <1>11, <1>12, <1>13 DEF Playout

(* The places stay as they are said to be.                                 *)
LEMMA PlaceOne ==
  ASSUME Typed, PlaceInv, StatsFinite, NEW t \in Threads, Playout(t)
  PROVE  /\ pc'[t] \in {"wantEval", "wantExpand", "eval", "expand", "priors", "publish",
                        "descend", "count", "validate"} => at'[t] # Root
         /\ val'[t] = Bad => pc'[t] \in {"count", "validate", "unwind", "done"}
         /\ pc'[t] = "unwind" => val'[t] = Bad
<1>1. /\ at[t] \in Nodes /\ t \in DOMAIN pc /\ t \in DOMAIN at /\ t \in DOMAIN val
      /\ val[t] \in {Bad, 0, 1, 2}
  BY DEF Typed, TypeOK
<1>2. CASE pc[t] \in Early \ {"descend"}
  <2>1. DownStep(t)
    BY <1>2, EarlyStep
  <2>2. pc'[t] = "descend" => at'[t] # Root
    BY <1>1, <2>1, TreeFacts DEF DownStep
  <2>3. val[t] # Bad
    BY <1>2 DEF PlaceInv, Early
  <2> QED
    BY <2>1, <2>2, <2>3 DEF DownStep, Early
<1>3. CASE StartPlayout(t)
  BY <1>1, <1>3 DEF StartPlayout, GoTo, PlaceInv
<1>4. CASE Descend(t)
  BY <1>1, <1>4 DEF Descend, GoTo, PlaceInv
<1>5. CASE Count(t)
  BY <1>1, <1>5 DEF Count, GoTo, PlaceInv
<1>6. CASE Validate(t)
  <2>1. \A n \in Path[at[t]] : IsFinite(edgeWin[n]) /\ IsFinite(nodeWin[Parent[n]])
    BY <1>1, PathInTree, RootAndParents DEF StatsFinite, IsFinite
  <2> QED
    BY <1>1, <1>6, <2>1 DEF Validate, GoTo, IsFinite
<1>7. CASE Backup(t)
  BY <1>1, <1>7 DEF Backup, GoTo, PlaceInv, Opponent, Bad, IsFinite
<1>8. CASE Unwind(t)
  BY <1>1, <1>8 DEF Unwind, GoTo, PlaceInv
<1>9. CASE Tick(t)
  BY <1>1, <1>9 DEF Tick, GoTo, PlaceInv
<1>10. pc[t] \in Early \/ pc[t] \in {"loop", "count", "validate", "backup", "unwind", "tick", "done"}
  BY DEF Typed, TypeOK, Places, Early
<1>11. CASE pc[t] \notin Early \ {"descend"}
  BY <1>3, <1>4, <1>5, <1>6, <1>7, <1>8, <1>9, <1>11
     DEF Playout, Early, Enter, Visit, Lock, FirstVisit, ExpandNode, ComputePriors,
         SetExpanded, Children, ScanChild, FinishScan
<1> QED
  BY <1>2, <1>11

(* The children a scan remembers are children of its node.                 *)
LEMMA ScanOne ==
  ASSUME Typed, PlaceInv, NEW t \in Threads, Playout(t), pc'[t] = "scan"
  PROVE  NotSkipped(scan'[t]) \subseteq KidSet(at'[t])
<1>1. at[t] \in Nodes /\ t \in DOMAIN pc /\ t \in DOMAIN at /\ t \in DOMAIN scan
  BY DEF Typed, TypeOK
<1>2. CASE Children(t)
  BY <1>1, <1>2 DEF Children, GoTo, ResolveTerminalEdge, NotSkipped, EmptyScan
<1>3. CASE ScanChild(t)
  <2>1. scan[t].i \in Nat \ {0} /\ Len(Kids[at[t]]) \in Nat
    BY <1>1, KidFacts DEF Typed, TypeOK, Scans
  <2>2. scan[t].i <= Len(Kids[at[t]]) => Kids[at[t]][scan[t].i] \in KidSet(at[t])
    BY <1>1, <2>1, KidFacts
  <2>3. pc[t] = "scan" /\ NotSkipped(scan[t]) \subseteq KidSet(at[t])
    BY <1>3 DEF ScanChild, PlaceInv
  <2> QED
    BY <1>1, <1>3, <2>2, <2>3 DEF ScanChild, GoTo, NotSkipped
<1>4. CASE ~(Children(t) \/ ScanChild(t))
  BY <1>1, <1>4
     DEF Playout, GoTo, StartPlayout, Enter, Visit, Lock, FirstVisit, ResolveTerminalEdge,
         ExpandNode, ComputePriors, SetExpanded, FinishScan, Descend, Count, Validate,
         Backup, Unwind, Tick
<1> QED
  BY <1>2, <1>3, <1>4

(* No step takes the root's children back.                                 *)
LEMMA RootStays ==
  ASSUME Typed, PlaceInv, [Next]_vars
  PROVE  state'[Root] = "expanded"
<1> USE DEF Typed, TypeOK, vars, treeVars
<1>0. state[Root] = "expanded" /\ Root \in Nodes
  BY TreeFacts DEF PlaceInv
<1>1. ASSUME NEW t \in Threads, Playout(t) PROVE state'[Root] = "expanded"
  <2>1. CASE FirstVisit(t)
    <3>1. at[t] # Root
      BY <2>1 DEF FirstVisit, PlaceInv
    <3> QED
      BY <1>0, <2>1, <3>1 DEF FirstVisit
  <2>2. CASE SetExpanded(t)
    BY <1>0, <2>2 DEF SetExpanded
  <2>3. CASE Enter(t) \/ Children(t) \/ ScanChild(t) \/ FinishScan(t) \/ ExpandNode(t)
    BY <1>0, <2>3 DEF Enter, Children, ScanChild, FinishScan, ExpandNode
  <2>4. CASE StartPlayout(t) \/ Visit(t) \/ Lock(t) \/ ComputePriors(t) \/ Descend(t)
    BY <1>0, <2>4 DEF StartPlayout, Visit, Lock, ComputePriors, Descend
  <2>5. CASE Count(t) \/ Validate(t) \/ Backup(t) \/ Unwind(t) \/ Tick(t)
    BY <1>0, <2>5 DEF Count, Validate, Backup, Unwind, Tick
  <2> QED
    BY <1>1, <2>1, <2>2, <2>3, <2>4, <2>5 DEF Playout
<1>2. CASE Main \/ Stop \/ RunAgain \/ Finished \/ UNCHANGED vars
  BY <1>0, <1>2 DEF Main, Join, GuardAttempt, Report, Stop, RunAgain, Finished
<1> QED
  BY <1>1, <1>2 DEF Next

(* The invariant of the places, for every step.                            *)
LEMMA PlaceStep ==
  ASSUME Typed, PlaceInv, StatsFinite, [Next]_vars
  PROVE  PlaceInv'
<1>1. state'[Root] = "expanded"
  BY RootStays
<1>2. ASSUME NEW t \in Threads, Playout(t) PROVE PlaceInv'
  <2>1. Moves1(t)
    BY <1>2, OneMoves
  <2>2. pc'[t] = "scan" => NotSkipped(scan'[t]) \subseteq KidSet(at'[t])
    BY <1>2, ScanOne
  <2> QED
    BY <1>1, <1>2, <2>1, <2>2, PlaceOne DEF PlaceInv, Moves1, NotSkipped
<1>3. CASE Main \/ Stop \/ Finished \/ UNCHANGED vars
  <2>1. UNCHANGED threadVars
    BY <1>3 DEF Main, Join, GuardAttempt, Report, Stop, Finished, vars
  <2> QED
    BY <1>1, <2>1 DEF PlaceInv, threadVars, NotSkipped
<1>4. CASE RunAgain
  <2>1. \A t \in Threads : pc'[t] = "loop" /\ val'[t] = 0
    BY <1>4 DEF RunAgain
  <2> QED
    BY <1>1, <2>1 DEF PlaceInv, Bad
<1> QED
  BY <1>2, <1>3, <1>4 DEF Next

(* It holds at the start.                                                  *)
LEMMA PlaceInit == Init => PlaceInv
BY TreeFacts DEF Init, PlaceInv, Bad
-----------------------------------------------------------------------------
(* The statistics.                                                         *)

(* The workers whose trajectory still holds the edge into n.               *)
OnEdge(n) == {t \in Threads : n \in Above(Spot(t))}

(* Those that count as a visit of the edge, but not of the node below it.  *)
Waiting(n) == {t \in Threads : Spot(t) = n /\ pc[t] # "backup"}

(* Each trajectory reserves, with its virtual loss, the room its result    *)
(* will need.                                                              *)
EdgeInv ==
  /\ edgeWin[Root] = 0 /\ edgeVisits[Root] = 0
  /\ \A n \in Nodes \ {Root} :
       /\ edgeWin[n] >= 0
       /\ edgeWin[n] + 2 * Cardinality(OnEdge(n)) <= 2 * edgeVisits[n]
       /\ nodeVisits[n] + Cardinality(Waiting(n)) <= edgeVisits[n]

(* A node's statistics are those of its edges, at every moment.            *)
SumInv ==
  \A n \in Nodes : /\ nodeVisits[n] = SumFunctionOnSet(edgeVisits, KidSet(n))
                   /\ nodeWin[n] = SumFunctionOnSet(edgeWin, KidSet(n))

(* Playouts that have left the root and are not counted yet.               *)
IsAhead(t) == pc[t] \in Early \cup {"count"} /\ Spot(t) # Root
Ahead == {t \in Threads : IsAhead(t)}

(* Refused playouts that have taken back their last virtual loss.          *)
IsLost(t) == val[t] = Bad /\ (pc[t] = "done" \/ (pc[t] = "unwind" /\ at[t] = Root))
Lost == {t \in Threads : IsLost(t)}

RootInv ==
  nodeVisits[Root] + Cardinality(Lost) = rootBefore + playouts + Cardinality(Ahead)

(* Sizes of sets of workers.                                               *)
LEMMA Crowd ==
  ASSUME NEW s \in SUBSET Threads, NEW r \in SUBSET Threads, NEW t \in Threads
  PROVE  /\ Cardinality(s) \in Nat /\ Cardinality(r) \in Nat
         /\ r \subseteq s => Cardinality(r) <= Cardinality(s)
         /\ r \subseteq s \cup {t} => Cardinality(r) <= Cardinality(s) + 1
         /\ t \in s /\ r \subseteq s \ {t} => Cardinality(r) + 1 <= Cardinality(s)
         /\ t \notin s /\ r = s \cup {t} => Cardinality(r) = Cardinality(s) + 1
         /\ t \in s /\ r = s \ {t} => Cardinality(r) + 1 = Cardinality(s)
BY Sizes, Finite

(* The same is added to an edge and to the node above it.                  *)
BothGain(e, f, g, h, c, d) ==
  /\ c \in Nodes \ {Root} /\ d \in Int
  /\ \A n \in Nodes : e[n] \in Int /\ f[n] \in Int
  /\ \A n \in Nodes : f[n] = SumFunctionOnSet(e, KidSet(n))
  /\ g[c] = e[c] + d /\ \A x \in Nodes \ {c} : g[x] = e[x]
  /\ h[Parent[c]] = f[Parent[c]] + d /\ \A x \in Nodes \ {Parent[c]} : h[x] = f[x]

(* The node above an edge stays the sum of its edges.                      *)
LEMMA SumMoves ==
  ASSUME NEW e, NEW f, NEW g, NEW h, NEW c, NEW d, BothGain(e, f, g, h, c, d)
  PROVE  \A n \in Nodes : h[n] = SumFunctionOnSet(g, KidSet(n))
<1>0. /\ c \in Nodes \ {Root} /\ d \in Int
      /\ \A n \in Nodes : e[n] \in Int /\ f[n] \in Int
      /\ \A n \in Nodes : f[n] = SumFunctionOnSet(e, KidSet(n))
      /\ g[c] = e[c] + d /\ \A x \in Nodes \ {c} : g[x] = e[x]
      /\ h[Parent[c]] = f[Parent[c]] + d /\ \A x \in Nodes \ {Parent[c]} : h[x] = f[x]
  BY DEF BothGain
<1> TAKE n \in Nodes
<1>1. /\ IsFiniteSet(KidSet(n)) /\ KidSet(n) \subseteq Nodes
      /\ \A x \in KidSet(n) : e[x] \in Int
      /\ g[c] = e[c] + d /\ g[c] \in Int /\ \A x \in Nodes \ {c} : g[x] = e[x]
      /\ Parent[c] \in Nodes
      /\ c \in KidSet(n) <=> n = Parent[c]
  BY <1>0, TreeFacts, KidFacts
<1>2. CASE n = Parent[c]
  <2>1. SumFunctionOnSet(g, KidSet(n)) = SumFunctionOnSet(e, KidSet(n)) - e[c] + g[c]
    <3>1. PICK S : S = KidSet(n)
      OBVIOUS
    <3>2. /\ IsFiniteSet(S) /\ c \in S /\ g[c] \in Int
          /\ \A x \in S : e[x] \in Int
          /\ \A x \in S \ {c} : g[x] = e[x]
      BY <1>1, <1>2, <3>1
    <3>3. SumFunctionOnSet(g, S) = SumFunctionOnSet(e, S) - e[c] + g[c]
      BY ONLY <3>2, SumChanged
    <3> QED
      BY <3>1, <3>3
  <2>2. h[n] = f[n] + d /\ f[n] \in Int /\ e[c] \in Int
    BY <1>0, <1>1, <1>2
  <2> QED
    BY <1>0, <1>1, <2>1, <2>2
<1>3. CASE n # Parent[c]
  <2>1. SumFunctionOnSet(e, KidSet(n)) = SumFunctionOnSet(g, KidSet(n))
    <3>1. \A x \in KidSet(n) : e[x] = g[x]
      BY <1>1, <1>3
    <3> QED
      BY <1>1, <3>1, SumSame
  <2>2. h[n] = f[n]
    BY <1>0, <1>1, <1>3
  <2> QED
    BY <1>0, <2>1, <2>2
<1> QED
  BY <1>2, <1>3

(* The steps of a worker that concern the statistics.                      *)
Descends(t) ==
  /\ pc[t] = "descend" /\ at[t] # Root /\ pc'[t] = "enter" /\ at' = at /\ val' = val
  /\ edgeVisits' = [edgeVisits EXCEPT ![at[t]] = @ + 1]
  /\ nodeVisits' = [nodeVisits EXCEPT ![Parent[at[t]]] = @ + 1]
  /\ UNCHANGED <<edgeWin, nodeWin, playouts>>

BacksUp(t) ==
  /\ pc[t] = "backup" /\ at[t] # Root /\ pc' = pc /\ at'[t] = Parent[at[t]]
  /\ val[t] \in 0..2 /\ val'[t] # Bad
  /\ edgeWin' = [edgeWin EXCEPT ![at[t]] = @ + val[t]]
  /\ nodeWin' = [nodeWin EXCEPT ![Parent[at[t]]] = @ + val[t]]
  /\ UNCHANGED <<edgeVisits, nodeVisits, playouts>>

Unwinds(t) ==
  /\ pc[t] = "unwind" /\ at[t] # Root /\ pc' = pc /\ at'[t] = Parent[at[t]]
  /\ val[t] = Bad /\ val' = val
  /\ edgeVisits' = [edgeVisits EXCEPT ![at[t]] = @ + -1]
  /\ nodeVisits' = [nodeVisits EXCEPT ![Parent[at[t]]] = @ + -1]
  /\ UNCHANGED <<edgeWin, nodeWin, playouts>>

Counts(t) ==
  /\ pc[t] = "count" /\ at[t] # Root /\ pc'[t] = "validate" /\ at' = at /\ val' = val
  /\ playouts' = playouts + 1
  /\ UNCHANGED statVars

(* A worker that stays on its edge, or starts again at the root.           *)
Quiet(t) ==
  /\ Spot(t)' = Spot(t) \/ Spot(t)' = Root
  /\ pc[t] = "backup" => pc'[t] = "backup" \/ Spot(t)' = Root
  /\ IsAhead(t)' <=> IsAhead(t)
  /\ IsLost(t)' <=> IsLost(t)
  /\ UNCHANGED <<statVars, playouts>>

(* Every step of a worker is of one of these kinds.                        *)
LEMMA WorkerEffects ==
  ASSUME Typed, PlaceInv, StatsFinite, NEW t \in Threads, Playout(t)
  PROVE  Descends(t) \/ BacksUp(t) \/ Unwinds(t) \/ Counts(t) \/ Quiet(t)
<1>1. /\ at[t] \in Nodes /\ t \in DOMAIN pc /\ t \in DOMAIN at /\ t \in DOMAIN val
      /\ val[t] \in {Bad, 0, 1, 2} /\ Parent[at[t]] \in Nodes /\ Root \in Nodes
      /\ nodeVisits \in [Nodes -> Int] /\ nodeWin \in [Nodes -> Int]
      /\ edgeVisits \in [Nodes -> Int] /\ edgeWin \in [Nodes -> Int]
  BY RootAndParents DEF Typed, TypeOK
<1> USE DEF GoTo, statVars, stopVars
<1>2. CASE pc[t] \in Early \ {"descend"}
  <2>1. DownStep(t) /\ UNCHANGED <<statVars, playouts>>
    BY <1>2, EarlyStep
  <2>2. Spot(t) = at[t] /\ val[t] # Bad
    BY <1>2 DEF Spot, Early, PlaceInv
  <2>3. Spot(t)' = at[t]
    <3>1. CASE pc'[t] = "descend"
      <4>1. at'[t] \in KidSet(at[t])
        BY <2>1, <3>1 DEF DownStep
      <4>2. Parent[at'[t]] = at[t]
        BY <1>1, <4>1, TreeFacts
      <4> QED
        BY <3>1, <4>2 DEF Spot
    <3>2. CASE pc'[t] # "descend"
      BY <2>1, <3>2 DEF DownStep, Spot
    <3> QED
      BY <3>1, <3>2
  <2>4. pc'[t] \in Early \cup {"count"}
    BY <2>1 DEF DownStep, Early
  <2>5. IsAhead(t)' <=> IsAhead(t)
    BY <1>2, <2>2, <2>3, <2>4 DEF IsAhead
  <2>6. ~IsLost(t) /\ ~IsLost(t)'
    BY <1>2, <2>2, <2>4 DEF IsLost, Early
  <2>7. pc[t] # "backup"
    BY <1>2 DEF Early
  <2> QED
    BY <2>1, <2>2, <2>3, <2>5, <2>6, <2>7 DEF Quiet
<1>3. CASE StartPlayout(t)
  <2>1. val'[t] # Bad /\ val[t] # Bad /\ pc[t] = "loop" /\ UNCHANGED <<statVars, playouts>>
    BY <1>3 DEF StartPlayout, PlaceInv
  <2>2. (pc'[t] = "enter" /\ at'[t] = Root) \/ (pc'[t] = "done" /\ at'[t] = at[t])
    BY <1>1, <1>3 DEF StartPlayout
  <2> QED
    BY <2>1, <2>2 DEF Quiet, Spot, IsAhead, IsLost, Early
<1>4. CASE Descend(t)
  <2>1. pc[t] = "descend" /\ at[t] # Root /\ pc'[t] = "enter"
    BY <1>1, <1>4 DEF Descend, PlaceInv
  <2> QED
    BY <1>4, <2>1 DEF Descend, Descends, AddVirtualLoss
<1>5. CASE Count(t)
  <2>1. pc[t] = "count" /\ at[t] # Root /\ pc'[t] = "validate"
    BY <1>1, <1>5 DEF Count, PlaceInv
  <2> QED
    BY <1>5, <2>1 DEF Count, Counts
<1>6. CASE Validate(t)
  <2>1. pc[t] = "validate" /\ at[t] # Root /\ pc'[t] \in {"backup", "unwind"}
        /\ at' = at /\ val' = val /\ UNCHANGED <<statVars, playouts>>
    BY <1>1, <1>6 DEF Validate, PlaceInv
  <2> QED
    BY <2>1 DEF Quiet, Spot, IsAhead, IsLost, Early
<1>7. CASE Backup(t)
  <2>1. pc[t] = "backup" /\ val[t] # Bad
    BY <1>7 DEF Backup, PlaceInv
  <2>2. CASE at[t] = Root
    <3>1. pc'[t] = "tick" /\ at' = at /\ val' = val /\ UNCHANGED <<statVars, playouts>>
      BY <1>1, <1>7, <2>2 DEF Backup
    <3> QED
      BY <2>1, <2>2, <3>1 DEF Quiet, Spot, IsAhead, IsLost, Early
  <2>3. CASE at[t] # Root
    <3>1. val[t] \in 0..2 /\ edgeWin[at[t]] # Bad /\ nodeWin[Parent[at[t]]] # Bad
      BY <1>1, <2>1 DEF StatsFinite
    <3>2. /\ Plus(edgeWin[at[t]], val[t]) = edgeWin[at[t]] + val[t]
          /\ Plus(nodeWin[Parent[at[t]]], val[t]) = nodeWin[Parent[at[t]]] + val[t]
      BY <2>1, <3>1 DEF Plus, IsFinite
    <3>3. edgeWin' = [edgeWin EXCEPT ![at[t]] = @ + val[t]]
      BY <1>1, <1>7, <2>3, <3>2 DEF Backup
    <3>4. nodeWin' = [nodeWin EXCEPT ![Parent[at[t]]] = @ + val[t]]
      BY <1>1, <1>7, <2>3, <3>2 DEF Backup
    <3>5. val'[t] # Bad
      BY <1>1, <1>7, <2>1, <2>3 DEF Backup, Opponent, IsFinite, Bad
    <3> QED
      BY <1>1, <1>7, <2>1, <2>3, <3>1, <3>3, <3>4, <3>5 DEF Backup, BacksUp
  <2> QED
    BY <2>2, <2>3
<1>8. CASE Unwind(t)
  <2>1. pc[t] = "unwind" /\ val[t] = Bad /\ val' = val
    BY <1>8 DEF Unwind, PlaceInv
  <2>2. CASE at[t] = Root
    <3>1. pc'[t] = "done" /\ at' = at /\ UNCHANGED <<statVars, playouts>>
      BY <1>1, <1>8, <2>2 DEF Unwind
    <3> QED
      BY <2>1, <2>2, <3>1 DEF Quiet, Spot, IsAhead, IsLost, Early
  <2>3. CASE at[t] # Root
    <3>1. \A x \in Int : x - 1 = x + -1
      OBVIOUS
    <3>2. /\ edgeVisits' = [edgeVisits EXCEPT ![at[t]] = @ + -1]
          /\ nodeVisits' = [nodeVisits EXCEPT ![Parent[at[t]]] = @ + -1]
      BY <1>1, <1>8, <2>3, <3>1 DEF Unwind, SubVirtualLoss
    <3> QED
      BY <1>1, <1>8, <2>1, <2>3, <3>2 DEF Unwind, Unwinds
  <2> QED
    BY <2>2, <2>3
<1>9. CASE Tick(t)
  <2>1. pc[t] = "tick" /\ pc'[t] = "loop" /\ at' = at /\ val' = val
        /\ UNCHANGED <<statVars, playouts>>
    BY <1>1, <1>9 DEF Tick
  <2> QED
    BY <2>1 DEF Quiet, Spot, IsAhead, IsLost, Early
<1>10. CASE pc[t] \notin Early \ {"descend"}
  BY <1>3, <1>4, <1>5, <1>6, <1>7, <1>8, <1>9, <1>10
     DEF Playout, Early, Enter, Visit, Lock, FirstVisit, ExpandNode, ComputePriors,
         SetExpanded, Children, ScanChild, FinishScan
<1> QED
  BY <1>2, <1>10

(* The other workers keep their places.                                    *)
LEMMA OthersPlaced ==
  ASSUME NEW t \in Threads, Moves1(t)
  PROVE  \A u \in Threads \ {t} :
           /\ Spot(u)' = Spot(u) /\ pc'[u] = pc[u]
           /\ IsAhead(u)' <=> IsAhead(u)
           /\ IsLost(u)' <=> IsLost(u)
BY DEF Moves1, Spot, IsAhead, IsLost

(* A spot is a node.                                                       *)
LEMMA SpotTyped == Typed => \A t \in Threads : Spot(t) \in Nodes
BY RootAndParents DEF Typed, TypeOK, Spot

(* The sets of workers the invariants count, before a step and after it.   *)
LEMMA Crowds ==
  /\ Ahead \in SUBSET Threads /\ Lost \in SUBSET Threads
  /\ \A n : OnEdge(n) \in SUBSET Threads /\ Waiting(n) \in SUBSET Threads
BY DEF Ahead, Lost, OnEdge, Waiting

LEMMA NextCrowds ==
  /\ Ahead' \in SUBSET Threads /\ Lost' \in SUBSET Threads
  /\ \A n : OnEdge(n)' \in SUBSET Threads /\ Waiting(n)' \in SUBSET Threads
BY DEF Ahead, Lost, OnEdge, Waiting

(* Nobody has to have moved closer to an edge whose counters stay.         *)
LEMMA EdgeKept ==
  ASSUME Typed, EdgeInv, NEW n \in Nodes \ {Root},
         OnEdge(n)' \subseteq OnEdge(n), Waiting(n)' \subseteq Waiting(n),
         edgeWin'[n] = edgeWin[n], edgeVisits'[n] = edgeVisits[n], nodeVisits'[n] = nodeVisits[n]
  PROVE  /\ edgeWin'[n] >= 0
         /\ edgeWin'[n] + 2 * Cardinality(OnEdge(n)') <= 2 * edgeVisits'[n]
         /\ nodeVisits'[n] + Cardinality(Waiting(n)') <= edgeVisits'[n]
<1>1. /\ Cardinality(OnEdge(n)') \in Nat /\ Cardinality(OnEdge(n)) \in Nat
      /\ Cardinality(Waiting(n)') \in Nat /\ Cardinality(Waiting(n)) \in Nat
      /\ Cardinality(OnEdge(n)') <= Cardinality(OnEdge(n))
      /\ Cardinality(Waiting(n)') <= Cardinality(Waiting(n))
  <2>1. PICK t : t \in Threads
    BY SearchAssumption DEF SearchAssumption
  <2> QED
    BY <2>1, Crowds, NextCrowds, Crowd
<1>2. edgeWin[n] \in Int /\ edgeVisits[n] \in Int /\ nodeVisits[n] \in Int
  BY DEF Typed, TypeOK
<1> QED
  BY <1>1, <1>2 DEF EdgeInv

(* A quiet step keeps the edges in order.                                  *)
LEMMA QuietKeepsEdges ==
  ASSUME Typed, EdgeInv, NEW t \in Threads, Moves1(t), UNCHANGED statVars,
         Spot(t)' = Spot(t) \/ Spot(t)' = Root,
         pc[t] = "backup" => pc'[t] = "backup" \/ Spot(t)' = Root
  PROVE  EdgeInv'
<1>1. ASSUME NEW n \in Nodes \ {Root}
      PROVE  OnEdge(n)' \subseteq OnEdge(n) /\ Waiting(n)' \subseteq Waiting(n)
  <2>1. n \notin Above(Root)
    BY AboveRoot
  <2>2. \A u \in Threads : u # t => Spot(u)' = Spot(u) /\ pc'[u] = pc[u]
    BY OthersPlaced
  <2>3. ASSUME NEW u \in Threads, n \in Above(Spot(u)') PROVE n \in Above(Spot(u))
    BY <2>1, <2>2, <2>3
  <2>4. OnEdge(n)' \subseteq OnEdge(n)
    BY <2>3 DEF OnEdge
  <2>5. ASSUME NEW u \in Threads, Spot(u)' = n, pc'[u] # "backup"
        PROVE  Spot(u) = n /\ pc[u] # "backup"
    BY <2>2, <2>5
  <2> QED
    BY <2>4, <2>5 DEF Waiting
<1>2. edgeWin' = edgeWin /\ edgeVisits' = edgeVisits /\ nodeVisits' = nodeVisits
  BY DEF statVars
<1>3. edgeWin'[Root] = 0 /\ edgeVisits'[Root] = 0
  BY <1>2 DEF EdgeInv
<1>4. \A n \in Nodes \ {Root} :
        /\ edgeWin'[n] >= 0
        /\ edgeWin'[n] + 2 * Cardinality(OnEdge(n)') <= 2 * edgeVisits'[n]
        /\ nodeVisits'[n] + Cardinality(Waiting(n)') <= edgeVisits'[n]
  BY <1>1, <1>2, EdgeKept
<1> QED
  BY <1>3, <1>4 DEF EdgeInv

(* One edge more is held, and has one visit more; the node above it too.   *)
LEMMA DescendsKeepsEdges ==
  ASSUME Typed, EdgeInv, NEW t \in Threads, Moves1(t), Descends(t)
  PROVE  EdgeInv'
<1> PICK c, p : c = at[t] /\ p = Parent[at[t]]
  OBVIOUS
<1>1. /\ c \in Nodes \ {Root} /\ p \in Nodes /\ c # p /\ Above(c) = {c} \cup Above(p)
      /\ Spot(t) = p /\ Spot(t)' = c /\ pc[t] = "descend" /\ pc'[t] = "enter"
  <2>1. c \in Nodes \ {Root}
    BY DEF Typed, TypeOK, Descends
  <2>2. p \in Nodes /\ Above(c) = {c} \cup Above(p) /\ c \notin Above(p) /\ p \in Above(p)
    BY <2>1, TreeFacts, AboveStep, NoCycle, AboveNode
  <2>3. pc[t] = "descend" /\ pc'[t] = "enter" /\ at' = at
    BY DEF Descends
  <2> QED
    BY <2>1, <2>2, <2>3 DEF Spot
<1>2. /\ edgeVisits'[c] = edgeVisits[c] + 1 /\ \A n \in Nodes \ {c} : edgeVisits'[n] = edgeVisits[n]
      /\ nodeVisits'[p] = nodeVisits[p] + 1 /\ \A n \in Nodes \ {p} : nodeVisits'[n] = nodeVisits[n]
      /\ edgeWin' = edgeWin
  BY <1>1 DEF Descends, Typed, TypeOK
<1>3. \A u \in Threads \ {t} : Spot(u)' = Spot(u) /\ pc'[u] = pc[u]
  BY OthersPlaced
<1>4. ASSUME NEW n \in Nodes \ {Root}, n # c PROVE OnEdge(n)' \subseteq OnEdge(n)
  <2>1. \A u \in Threads : n \in Above(Spot(u)') => n \in Above(Spot(u))
    BY <1>1, <1>3, <1>4
  <2> QED
    BY <2>1 DEF OnEdge
<1>5. ASSUME NEW n \in Nodes \ {Root}, n # c
      PROVE  IF n = p THEN t \in Waiting(n) /\ Waiting(n)' \subseteq Waiting(n) \ {t}
                      ELSE Waiting(n)' \subseteq Waiting(n)
  <2>1. t \notin Waiting(n)'
    BY <1>1, <1>5 DEF Waiting
  <2>2. \A u \in Threads \ {t} : u \in Waiting(n)' => u \in Waiting(n)
    BY <1>3 DEF Waiting
  <2>3. n = p => t \in Waiting(n)
    BY <1>1 DEF Waiting
  <2>4. Waiting(n)' \subseteq Threads
    BY NextCrowds
  <2> QED
    BY <2>1, <2>2, <2>3, <2>4
<1>6. OnEdge(c)' \subseteq OnEdge(c) \cup {t} /\ Waiting(c)' \subseteq Waiting(c) \cup {t}
  <2>1. \A u \in Threads \ {t} : c \in Above(Spot(u)') => c \in Above(Spot(u))
    BY <1>3
  <2>2. OnEdge(c)' \subseteq OnEdge(c) \cup {t}
    BY <2>1 DEF OnEdge
  <2> QED
    BY <1>3, <2>2 DEF Waiting
<1>7. /\ edgeWin[Root] = 0 /\ edgeVisits[Root] = 0 /\ Root \in Nodes
      /\ \A n \in Nodes : edgeWin[n] \in Int /\ edgeVisits[n] \in Int /\ nodeVisits[n] \in Int
  BY TreeFacts DEF EdgeInv, Typed, TypeOK
<1>8. ASSUME NEW n \in Nodes \ {Root}
      PROVE  /\ edgeWin'[n] >= 0
             /\ edgeWin'[n] + 2 * Cardinality(OnEdge(n)') <= 2 * edgeVisits'[n]
             /\ nodeVisits'[n] + Cardinality(Waiting(n)') <= edgeVisits'[n]
  <2>1. /\ edgeWin[n] >= 0
        /\ edgeWin[n] + 2 * Cardinality(OnEdge(n)) <= 2 * edgeVisits[n]
        /\ nodeVisits[n] + Cardinality(Waiting(n)) <= edgeVisits[n]
    BY DEF EdgeInv
  <2>2. /\ Cardinality(OnEdge(n)) \in Nat /\ Cardinality(OnEdge(n)') \in Nat
        /\ Cardinality(Waiting(n)) \in Nat /\ Cardinality(Waiting(n)') \in Nat
    BY Crowds, NextCrowds, Crowd
  <2>3. CASE n = c
    <3>1. /\ Cardinality(OnEdge(n)') <= Cardinality(OnEdge(n)) + 1
          /\ Cardinality(Waiting(n)') <= Cardinality(Waiting(n)) + 1
      BY <1>6, <2>3, Crowds, NextCrowds, Crowd
    <3>2. edgeVisits'[n] = edgeVisits[n] + 1 /\ nodeVisits'[n] = nodeVisits[n]
      BY <1>1, <1>2, <2>3
    <3> QED
      BY <1>2, <1>7, <2>1, <2>2, <3>1, <3>2
  <2>4. CASE n # c /\ n = p
    <3>1. /\ Cardinality(OnEdge(n)') <= Cardinality(OnEdge(n))
          /\ Cardinality(Waiting(n)') + 1 <= Cardinality(Waiting(n))
      BY <1>4, <1>5, <2>4, Crowds, NextCrowds, Crowd
    <3>2. edgeVisits'[n] = edgeVisits[n] /\ nodeVisits'[n] = nodeVisits[n] + 1
      BY <1>1, <1>2, <2>4
    <3> QED
      BY <1>2, <1>7, <2>1, <2>2, <3>1, <3>2
  <2>5. CASE n # c /\ n # p
    <3>1. OnEdge(n)' \subseteq OnEdge(n) /\ Waiting(n)' \subseteq Waiting(n)
      BY <1>4, <1>5, <2>5
    <3>2. edgeVisits'[n] = edgeVisits[n] /\ nodeVisits'[n] = nodeVisits[n]
      BY <1>2, <2>5
    <3> QED
      BY <1>2, <3>1, <3>2, EdgeKept
  <2> QED
    BY <2>3, <2>4, <2>5
<1> QED
  BY <1>1, <1>2, <1>7, <1>8 DEF EdgeInv

(* What lies above a worker that has climbed one edge.                     *)
LEMMA Climbs ==
  ASSUME Typed, NEW t \in Threads, Moves1(t), at[t] # Root, at'[t] = Parent[at[t]],
         pc' = pc, pc[t] # "descend"
  PROVE  /\ at[t] \in Nodes \ {Root} /\ Parent[at[t]] \in Nodes /\ at[t] # Parent[at[t]]
         /\ t \in OnEdge(at[t])
         /\ \A n : OnEdge(n)' \subseteq OnEdge(n)
         /\ \A n : n = at[t] => OnEdge(n)' \subseteq OnEdge(n) \ {t}
<1> PICK c, p : c = at[t] /\ p = Parent[at[t]]
  OBVIOUS
<1>1. c \in Nodes \ {Root}
  BY DEF Typed, TypeOK
<1>2. /\ p \in Nodes /\ Above(c) = {c} \cup Above(p) /\ c \notin Above(p) /\ p \in Above(p)
      /\ c \in Above(c)
  BY <1>1, TreeFacts, AboveStep, NoCycle, AboveNode
<1>3. Spot(t) = c /\ Spot(t)' = p
  BY DEF Spot
<1>4. \A u \in Threads \ {t} : Spot(u)' = Spot(u)
  BY OthersPlaced
<1>5. \A n : \A u \in Threads : n \in Above(Spot(u)') => n \in Above(Spot(u)) /\ (n = c => u # t)
  BY <1>2, <1>3, <1>4
<1>6. t \in OnEdge(c)
  BY <1>2, <1>3 DEF OnEdge
<1>7. \A n : OnEdge(n)' \subseteq OnEdge(n) /\ (n = c => t \notin OnEdge(n)')
  BY <1>5 DEF OnEdge
<1> QED
  BY <1>1, <1>2, <1>6, <1>7

(* One edge is released, and gets the result it had room for.              *)
LEMMA BacksUpKeepsEdges ==
  ASSUME Typed, EdgeInv, NEW t \in Threads, Moves1(t), BacksUp(t)
  PROVE  EdgeInv'
<1> PICK c : c = at[t]
  OBVIOUS
<1>1. /\ c \in Nodes \ {Root} /\ t \in OnEdge(c) /\ OnEdge(c)' \subseteq OnEdge(c) \ {t}
      /\ \A n : OnEdge(n)' \subseteq OnEdge(n)
  BY Climbs DEF BacksUp
<1>2. ASSUME NEW n \in Nodes \ {Root} PROVE Waiting(n)' \subseteq Waiting(n)
  <2>1. \A u \in Threads \ {t} : Spot(u)' = Spot(u) /\ pc'[u] = pc[u]
    BY OthersPlaced
  <2>2. t \notin Waiting(n)'
    BY DEF Waiting, BacksUp
  <2> QED
    BY <2>1, <2>2 DEF Waiting
<1>3. /\ edgeWin'[c] = edgeWin[c] + val[t] /\ \A n \in Nodes \ {c} : edgeWin'[n] = edgeWin[n]
      /\ edgeVisits' = edgeVisits /\ nodeVisits' = nodeVisits /\ val[t] \in 0..2
  BY <1>1 DEF BacksUp, Typed, TypeOK
<1>4. /\ edgeWin[Root] = 0 /\ edgeVisits[Root] = 0 /\ Root \in Nodes
      /\ \A n \in Nodes : edgeWin[n] \in Int /\ edgeVisits[n] \in Int /\ nodeVisits[n] \in Int
  BY TreeFacts DEF EdgeInv, Typed, TypeOK
<1>5. ASSUME NEW n \in Nodes \ {Root}
      PROVE  /\ edgeWin'[n] >= 0
             /\ edgeWin'[n] + 2 * Cardinality(OnEdge(n)') <= 2 * edgeVisits'[n]
             /\ nodeVisits'[n] + Cardinality(Waiting(n)') <= edgeVisits'[n]
  <2>1. CASE n = c
    <3>1. /\ edgeWin[n] >= 0
          /\ edgeWin[n] + 2 * Cardinality(OnEdge(n)) <= 2 * edgeVisits[n]
          /\ nodeVisits[n] + Cardinality(Waiting(n)) <= edgeVisits[n]
      BY DEF EdgeInv
    <3>2. /\ Cardinality(OnEdge(n)) \in Nat /\ Cardinality(OnEdge(n)') \in Nat
          /\ Cardinality(Waiting(n)) \in Nat /\ Cardinality(Waiting(n)') \in Nat
          /\ Cardinality(OnEdge(n)') + 1 <= Cardinality(OnEdge(n))
          /\ Cardinality(Waiting(n)') <= Cardinality(Waiting(n))
      BY <1>1, <1>2, <2>1, Crowds, NextCrowds, Crowd
    <3>3. edgeWin'[n] = edgeWin[n] + val[t]
      BY <1>3, <2>1
    <3> QED
      BY <1>3, <1>4, <3>1, <3>2, <3>3
  <2>2. CASE n # c
    BY <1>1, <1>2, <1>3, <2>2, EdgeKept
  <2> QED
    BY <2>1, <2>2
<1> QED
  BY <1>1, <1>3, <1>4, <1>5 DEF EdgeInv

(* One edge is released, and loses the visit that had reserved it.         *)
LEMMA UnwindsKeepsEdges ==
  ASSUME Typed, EdgeInv, NEW t \in Threads, Moves1(t), Unwinds(t)
  PROVE  EdgeInv'
<1> PICK c, p : c = at[t] /\ p = Parent[at[t]]
  OBVIOUS
<1>1. /\ c \in Nodes \ {Root} /\ p \in Nodes /\ c # p
      /\ t \in OnEdge(c) /\ OnEdge(c)' \subseteq OnEdge(c) \ {t}
      /\ \A n : OnEdge(n)' \subseteq OnEdge(n)
  BY Climbs DEF Unwinds
<1>2. Spot(t) = c /\ Spot(t)' = p /\ pc[t] = "unwind" /\ pc' = pc
  BY DEF Unwinds, Spot
<1>3. ASSUME NEW n
      PROVE  /\ n # p => Waiting(n)' \subseteq Waiting(n)
             /\ n = p => Waiting(n)' \subseteq Waiting(n) \cup {t}
             /\ n = c => t \in Waiting(n) /\ Waiting(n)' \subseteq Waiting(n) \ {t}
  <2>1. \A u \in Threads \ {t} : Spot(u)' = Spot(u) /\ pc'[u] = pc[u]
    BY OthersPlaced
  <2>2. \A u \in Threads \ {t} : u \in Waiting(n)' => u \in Waiting(n)
    BY <2>1 DEF Waiting
  <2>3. n # p => t \notin Waiting(n)'
    BY <1>2 DEF Waiting
  <2>4. n = c => t \in Waiting(n)
    BY <1>2 DEF Waiting
  <2>5. Waiting(n)' \subseteq Threads
    BY NextCrowds
  <2> QED
    BY <1>1, <2>2, <2>3, <2>4, <2>5
<1>4. /\ edgeVisits'[c] = edgeVisits[c] - 1 /\ \A n \in Nodes \ {c} : edgeVisits'[n] = edgeVisits[n]
      /\ nodeVisits'[p] = nodeVisits[p] - 1 /\ \A n \in Nodes \ {p} : nodeVisits'[n] = nodeVisits[n]
      /\ edgeWin' = edgeWin
  BY <1>1 DEF Unwinds, Typed, TypeOK
<1>7. /\ edgeWin[Root] = 0 /\ edgeVisits[Root] = 0 /\ Root \in Nodes
      /\ \A n \in Nodes : edgeWin[n] \in Int /\ edgeVisits[n] \in Int /\ nodeVisits[n] \in Int
  BY TreeFacts DEF EdgeInv, Typed, TypeOK
<1>8. ASSUME NEW n \in Nodes \ {Root}
      PROVE  /\ edgeWin'[n] >= 0
             /\ edgeWin'[n] + 2 * Cardinality(OnEdge(n)') <= 2 * edgeVisits'[n]
             /\ nodeVisits'[n] + Cardinality(Waiting(n)') <= edgeVisits'[n]
  <2>1. /\ edgeWin[n] >= 0
        /\ edgeWin[n] + 2 * Cardinality(OnEdge(n)) <= 2 * edgeVisits[n]
        /\ nodeVisits[n] + Cardinality(Waiting(n)) <= edgeVisits[n]
    BY DEF EdgeInv
  <2>2. /\ Cardinality(OnEdge(n)) \in Nat /\ Cardinality(OnEdge(n)') \in Nat
        /\ Cardinality(Waiting(n)) \in Nat /\ Cardinality(Waiting(n)') \in Nat
        /\ Cardinality(OnEdge(n)') <= Cardinality(OnEdge(n))
    BY <1>1, Crowds, NextCrowds, Crowd
  <2>3. CASE n = c
    <3>1. /\ Cardinality(OnEdge(n)') + 1 <= Cardinality(OnEdge(n))
          /\ Cardinality(Waiting(n)') + 1 <= Cardinality(Waiting(n))
      BY <1>1, <1>3, <2>3, Crowds, NextCrowds, Crowd
    <3>2. edgeVisits'[n] = edgeVisits[n] - 1 /\ nodeVisits'[n] = nodeVisits[n]
      BY <1>1, <1>4, <2>3
    <3> QED
      BY <1>4, <1>7, <2>1, <2>2, <3>1, <3>2
  <2>4. CASE n = p
    <3>1. Cardinality(Waiting(n)') <= Cardinality(Waiting(n)) + 1
      BY <1>3, <2>4, Crowds, NextCrowds, Crowd
    <3>2. edgeVisits'[n] = edgeVisits[n] /\ nodeVisits'[n] = nodeVisits[n] - 1
      BY <1>1, <1>4, <2>4
    <3> QED
      BY <1>4, <1>7, <2>1, <2>2, <3>1, <3>2
  <2>5. CASE n # c /\ n # p
    <3>1. OnEdge(n)' \subseteq OnEdge(n) /\ Waiting(n)' \subseteq Waiting(n)
      BY <1>1, <1>3, <2>5
    <3>2. edgeVisits'[n] = edgeVisits[n] /\ nodeVisits'[n] = nodeVisits[n]
      BY <1>4, <2>5
    <3> QED
      BY <1>4, <3>1, <3>2, EdgeKept
  <2> QED
    BY <2>3, <2>4, <2>5
<1> QED
  BY <1>1, <1>4, <1>7, <1>8 DEF EdgeInv

AddsVisits(t, d) ==
  /\ at[t] # Root
  /\ edgeVisits' = [edgeVisits EXCEPT ![at[t]] = @ + d]
  /\ nodeVisits' = [nodeVisits EXCEPT ![Parent[at[t]]] = @ + d]
  /\ UNCHANGED <<edgeWin, nodeWin>>

(* Each kind of step keeps a node equal to the sum of its edges.           *)
LEMMA SumsKept ==
  ASSUME Typed, Typed', SumInv, NEW t \in Threads,
         Descends(t) \/ BacksUp(t) \/ Unwinds(t) \/ UNCHANGED statVars
  PROVE  SumInv'
<1>1. /\ \A n \in Nodes : edgeVisits[n] \in Int /\ nodeVisits[n] \in Int
      /\ \A n \in Nodes : edgeWin[n] \in Int /\ nodeWin[n] \in Int
      /\ at[t] \in Nodes /\ Parent[at[t]] \in Nodes
  BY RootAndParents DEF Typed, TypeOK
<1>2. /\ \A n \in Nodes : nodeVisits[n] = SumFunctionOnSet(edgeVisits, KidSet(n))
      /\ \A n \in Nodes : nodeWin[n] = SumFunctionOnSet(edgeWin, KidSet(n))
  BY DEF SumInv
<1>3. ASSUME NEW d \in Int, AddsVisits(t, d) PROVE SumInv'
  <2>0. PICK c : c = at[t]
    OBVIOUS
  <2>1. /\ c \in Nodes \ {Root} /\ d \in Int
        /\ edgeVisits'[c] = edgeVisits[c] + d
        /\ \A x \in Nodes \ {c} : edgeVisits'[x] = edgeVisits[x]
        /\ nodeVisits'[Parent[c]] = nodeVisits[Parent[c]] + d
        /\ \A x \in Nodes \ {Parent[c]} : nodeVisits'[x] = nodeVisits[x]
    BY <1>1, <1>3, <2>0 DEF AddsVisits, Typed, TypeOK
  <2>2. BothGain(edgeVisits, nodeVisits, edgeVisits', nodeVisits', c, d)
    BY <1>1, <1>2, <2>1 DEF BothGain
  <2>3. \A n \in Nodes : nodeVisits'[n] = SumFunctionOnSet(edgeVisits', KidSet(n))
    BY ONLY <2>2, SumMoves
  <2>4. \A n \in Nodes : nodeWin'[n] = SumFunctionOnSet(edgeWin', KidSet(n))
    BY <1>2, <1>3 DEF AddsVisits
  <2> QED
    BY <2>3, <2>4 DEF SumInv
<1>4. ASSUME BacksUp(t) PROVE SumInv'
  <2>0. PICK c, d : c = at[t] /\ d = val[t]
    OBVIOUS
  <2>1. /\ c \in Nodes \ {Root} /\ d \in Int
        /\ edgeWin'[c] = edgeWin[c] + d
        /\ \A x \in Nodes \ {c} : edgeWin'[x] = edgeWin[x]
        /\ nodeWin'[Parent[c]] = nodeWin[Parent[c]] + d
        /\ \A x \in Nodes \ {Parent[c]} : nodeWin'[x] = nodeWin[x]
    BY <1>1, <1>4, <2>0 DEF Typed, TypeOK, BacksUp
  <2>2. BothGain(edgeWin, nodeWin, edgeWin', nodeWin', c, d)
    BY <1>1, <1>2, <2>1 DEF BothGain
  <2>3. \A n \in Nodes : nodeWin'[n] = SumFunctionOnSet(edgeWin', KidSet(n))
    BY ONLY <2>2, SumMoves
  <2>4. \A n \in Nodes : nodeVisits'[n] = SumFunctionOnSet(edgeVisits', KidSet(n))
    BY <1>2, <1>4 DEF BacksUp
  <2> QED
    BY <2>3, <2>4 DEF SumInv
<1>5. ASSUME UNCHANGED statVars PROVE SumInv'
  BY <1>2, <1>5 DEF SumInv, statVars
<1>6. ASSUME Descends(t) PROVE SumInv'
  <2>1. AddsVisits(t, 1)
    BY <1>6 DEF Descends, AddsVisits
  <2> QED
    BY <1>3, <2>1
<1>7. ASSUME Unwinds(t) PROVE SumInv'
  <2>1. AddsVisits(t, -1)
    BY <1>7 DEF Unwinds, AddsVisits
  <2> QED
    BY <1>3, <2>1
<1> QED
  BY <1>4, <1>5, <1>6, <1>7

(* A crowd that one worker may have joined or left.                        *)
ComesOrGoes(s, r, t) ==
  /\ Cardinality(s) \in Int /\ Cardinality(r) \in Int
  /\ (t \in r <=> t \in s) => Cardinality(r) = Cardinality(s)
  /\ t \notin s /\ t \in r => Cardinality(r) = Cardinality(s) + 1
  /\ t \in s /\ t \notin r => Cardinality(r) + 1 = Cardinality(s)

(* One worker enters or leaves a set that all others stay in or out of.    *)
LEMMA OneDiffers ==
  ASSUME NEW t \in Threads, NEW s \in SUBSET Threads, NEW r \in SUBSET Threads,
         \A u \in Threads \ {t} : u \in r <=> u \in s
  PROVE  ComesOrGoes(s, r, t)
<1>1. (t \in r <=> t \in s) => r = s
  OBVIOUS
<1>2. t \notin s /\ t \in r => r = s \cup {t}
  OBVIOUS
<1>3. t \in s /\ t \notin r => r = s \ {t}
  OBVIOUS
<1> QED
  BY <1>1, <1>2, <1>3, Crowd DEF ComesOrGoes

(* Who is ahead, and who is lost, after a step of worker t.                *)
LEMMA RootKept ==
  ASSUME Typed, Typed', RootInv, NEW t \in Threads, Moves1(t),
         Descends(t) \/ BacksUp(t) \/ Unwinds(t) \/ Counts(t) \/ Quiet(t)
  PROVE  RootInv'
<1>1. /\ playouts \in Int /\ rootBefore \in Int /\ nodeVisits[Root] \in Int /\ Root \in Nodes
      /\ rootBefore' = rootBefore /\ nodeVisits \in [Nodes -> Int]
      /\ at[t] \in Nodes /\ Parent[at[t]] \in Nodes
      /\ t \in DOMAIN at /\ t \in DOMAIN pc
  BY RootAndParents DEF Typed, TypeOK, Moves1, mainVars
<1>2. \A u \in Threads \ {t} :
        /\ u \in Ahead' <=> u \in Ahead
        /\ u \in Lost' <=> u \in Lost
  BY OthersPlaced DEF Ahead, Lost
<1>3. /\ t \in Ahead <=> IsAhead(t)
      /\ t \in Ahead' <=> IsAhead(t)'
      /\ t \in Lost <=> IsLost(t)
      /\ t \in Lost' <=> IsLost(t)'
  BY DEF Ahead, Lost
<1>4. /\ Cardinality(Ahead) \in Int /\ Cardinality(Ahead') \in Int
      /\ Cardinality(Lost) \in Int /\ Cardinality(Lost') \in Int
      /\ ((t \in Ahead' <=> t \in Ahead) => Cardinality(Ahead') = Cardinality(Ahead))
      /\ (t \notin Ahead /\ t \in Ahead' => Cardinality(Ahead') = Cardinality(Ahead) + 1)
      /\ (t \in Ahead /\ t \notin Ahead' => Cardinality(Ahead') + 1 = Cardinality(Ahead))
      /\ ((t \in Lost' <=> t \in Lost) => Cardinality(Lost') = Cardinality(Lost))
      /\ (t \notin Lost /\ t \in Lost' => Cardinality(Lost') = Cardinality(Lost) + 1)
  <2>0. /\ Ahead \in SUBSET Threads /\ Lost \in SUBSET Threads
        /\ Ahead' \in SUBSET Threads /\ Lost' \in SUBSET Threads
    BY Crowds, NextCrowds
  <2>1. ComesOrGoes(Ahead, Ahead', t) /\ ComesOrGoes(Lost, Lost', t)
    BY <1>2, <2>0, OneDiffers
  <2> QED
    BY <2>1 DEF ComesOrGoes
<1>5. CASE Quiet(t)
  <2>1. nodeVisits' = nodeVisits /\ playouts' = playouts
        /\ (t \in Ahead' <=> t \in Ahead) /\ (t \in Lost' <=> t \in Lost)
    BY <1>3, <1>5 DEF Quiet, statVars
  <2> QED
    BY <1>1, <1>4, <2>1 DEF RootInv
<1>6. CASE Counts(t)
  <2>1. nodeVisits' = nodeVisits /\ playouts' = playouts + 1
        /\ t \in Ahead /\ t \notin Ahead' /\ t \notin Lost /\ t \notin Lost'
    BY <1>3, <1>6 DEF Counts, IsAhead, IsLost, Spot, Early, statVars
  <2> QED
    BY <1>1, <1>4, <2>1 DEF RootInv
<1>7. CASE BacksUp(t)
  <2>1. nodeVisits' = nodeVisits /\ playouts' = playouts
        /\ t \notin Ahead /\ t \notin Ahead' /\ t \notin Lost /\ t \notin Lost'
    BY <1>3, <1>7 DEF BacksUp, IsAhead, IsLost, Early
  <2> QED
    BY <1>1, <1>4, <2>1 DEF RootInv
<1>8. CASE Descends(t)
  <2>1. /\ playouts' = playouts /\ t \notin Lost /\ t \notin Lost' /\ t \in Ahead'
        /\ t \in Ahead <=> Parent[at[t]] # Root
    BY <1>3, <1>8 DEF Descends, IsAhead, IsLost, Spot, Early
  <2>2. nodeVisits'[Root] = IF Parent[at[t]] = Root THEN nodeVisits[Root] + 1 ELSE nodeVisits[Root]
    BY <1>1, <1>8 DEF Descends
  <2>3. CASE Parent[at[t]] = Root
    <3>1. Cardinality(Ahead') = Cardinality(Ahead) + 1 /\ Cardinality(Lost') = Cardinality(Lost)
      BY <1>4, <2>1, <2>3
    <3> QED
      BY <1>1, <1>4, <2>1, <2>2, <2>3, <3>1 DEF RootInv
  <2>4. CASE Parent[at[t]] # Root
    <3>1. Cardinality(Ahead') = Cardinality(Ahead) /\ Cardinality(Lost') = Cardinality(Lost)
      BY <1>4, <2>1, <2>4
    <3> QED
      BY <1>1, <2>1, <2>2, <2>4, <3>1 DEF RootInv
  <2> QED
    BY <2>3, <2>4
<1>9. CASE Unwinds(t)
  <2>1. /\ playouts' = playouts /\ t \notin Ahead /\ t \notin Ahead' /\ t \notin Lost
        /\ t \in Lost' <=> Parent[at[t]] = Root
    BY <1>3, <1>9 DEF Unwinds, IsAhead, IsLost, Early
  <2>2. nodeVisits'[Root] = IF Parent[at[t]] = Root THEN nodeVisits[Root] - 1 ELSE nodeVisits[Root]
    BY <1>1, <1>9 DEF Unwinds
  <2>3. CASE Parent[at[t]] = Root
    <3>1. Cardinality(Ahead') = Cardinality(Ahead) /\ Cardinality(Lost') = Cardinality(Lost) + 1
      BY <1>4, <2>1, <2>3
    <3> QED
      BY <1>1, <1>4, <2>1, <2>2, <2>3, <3>1 DEF RootInv
  <2>4. CASE Parent[at[t]] # Root
    <3>1. Cardinality(Ahead') = Cardinality(Ahead) /\ Cardinality(Lost') = Cardinality(Lost)
      BY <1>4, <2>1, <2>4
    <3> QED
      BY <1>1, <2>1, <2>2, <2>4, <3>1 DEF RootInv
  <2> QED
    BY <2>3, <2>4
<1> QED
  BY <1>5, <1>6, <1>7, <1>8, <1>9
-----------------------------------------------------------------------------
(* The invariant of the statistics is inductive.                           *)
StatInv == PlaceInv /\ EdgeInv /\ SumInv /\ RootInv

(* No statistic is ever the value that a backup would refuse.              *)
LEMMA AlwaysFinite ==
  ASSUME Typed, EdgeInv, SumInv
  PROVE  StatsFinite /\ \A n \in Nodes : edgeWin[n] >= 0 /\ nodeWin[n] \in Nat
<1>1. ASSUME NEW n \in Nodes PROVE edgeWin[n] \in Nat
  BY DEF EdgeInv, Typed, TypeOK
<1>2. ASSUME NEW n \in Nodes PROVE nodeWin[n] \in Nat
  <2>1. IsFiniteSet(KidSet(n)) /\ \A x \in KidSet(n) : edgeWin[x] \in Nat
    BY <1>1, TreeFacts
  <2>2. SumFunctionOnSet(edgeWin, KidSet(n)) \in Nat
    BY <2>1, SumNat
  <2> QED
    BY <2>2 DEF SumInv
<1> QED
  BY <1>1, <1>2 DEF StatsFinite, Bad

(* The statistics at the start.                                            *)
LEMMA StatInit == Init => StatInv
<1> SUFFICES ASSUME Init PROVE StatInv
  OBVIOUS
<1>1. /\ \A n \in Nodes : edgeVisits[n] = 0 /\ edgeWin[n] = 0
      /\ \A n \in Nodes : nodeVisits[n] = 0 /\ nodeWin[n] = 0
      /\ \A t \in Threads : pc[t] = "loop" /\ at[t] = Root /\ val[t] = 0
      /\ rootBefore = 0 /\ playouts = 0 /\ Root \in Nodes
  BY TreeFacts DEF Init
<1>2. EdgeInv
  <2>1. \A t \in Threads : Spot(t) = Root
    BY <1>1 DEF Spot
  <2>2. \A n \in Nodes \ {Root} : OnEdge(n) = {} /\ Waiting(n) = {}
    BY <2>1, AboveRoot DEF OnEdge, Waiting
  <2>3. Cardinality({}) = 0
    BY FS_EmptySet
  <2> QED
    BY <1>1, <2>2, <2>3 DEF EdgeInv
<1>3. SumInv
  <2>2. \A n \in Nodes : IsFiniteSet(KidSet(n)) /\ KidSet(n) \subseteq Nodes
    BY TreeFacts, KidFacts
  <2> QED
    BY <1>1, <2>2, SumZero DEF SumInv
<1>4. RootInv
  <2>1. Ahead = {} /\ Lost = {}
    BY <1>1 DEF Ahead, IsAhead, Lost, IsLost, Early, Bad
  <2>2. Cardinality({}) = 0
    BY FS_EmptySet
  <2> QED
    BY <1>1, <2>1, <2>2 DEF RootInv
<1> QED
  BY <1>2, <1>3, <1>4, PlaceInit DEF StatInv

(* Nobody moves and no counter changes.                                    *)
LEMMA StatSame ==
  ASSUME StatInv, PlaceInv', UNCHANGED <<statVars, threadVars, playouts, rootBefore>>
  PROVE  StatInv'
<1>1. \A t \in Threads : /\ Spot(t)' = Spot(t) /\ pc'[t] = pc[t]
                         /\ IsAhead(t)' <=> IsAhead(t)
                         /\ IsLost(t)' <=> IsLost(t)
  BY DEF Spot, IsAhead, IsLost, threadVars
<1>2. /\ \A n : OnEdge(n)' = OnEdge(n) /\ Waiting(n)' = Waiting(n)
      /\ Ahead' = Ahead /\ Lost' = Lost
  BY <1>1 DEF OnEdge, Waiting, Ahead, Lost
<1> QED
  BY <1>2 DEF StatInv, EdgeInv, SumInv, RootInv, statVars

(* The statistics, for every step.                                         *)
LEMMA StatStep ==
  Typed /\ Typed' /\ DoneInv /\ StatInv /\ [Next]_vars => StatInv'
<1> SUFFICES ASSUME Typed, Typed', DoneInv, StatInv, [Next]_vars PROVE StatInv'
  OBVIOUS
<1>1. PlaceInv /\ EdgeInv /\ SumInv /\ RootInv /\ StatsFinite
  BY AlwaysFinite DEF StatInv
<1>2. PlaceInv'
  BY <1>1, PlaceStep
<1>3. ASSUME NEW t \in Threads, Playout(t) PROVE StatInv'
  <2>1. Moves1(t)
    BY <1>3, OneMoves
  <2>2. Descends(t) \/ BacksUp(t) \/ Unwinds(t) \/ Counts(t) \/ Quiet(t)
    BY <1>1, <1>3, WorkerEffects
  <2>3. RootInv'
    BY <1>1, <2>1, <2>2, RootKept
  <2>4. SumInv'
    <3>1. Descends(t) \/ BacksUp(t) \/ Unwinds(t) \/ UNCHANGED statVars
      BY <2>2 DEF Counts, Quiet, statVars
    <3> QED
      BY <1>1, <3>1, SumsKept
  <2>5. EdgeInv'
    <3>1. CASE Descends(t)
      BY <1>1, <2>1, <3>1, DescendsKeepsEdges
    <3>2. CASE BacksUp(t)
      BY <1>1, <2>1, <3>2, BacksUpKeepsEdges
    <3>3. CASE Unwinds(t)
      BY <1>1, <2>1, <3>3, UnwindsKeepsEdges
    <3>4. CASE Counts(t)
      <4>1. Spot(t)' = Spot(t) /\ pc[t] # "backup" /\ UNCHANGED statVars
        BY <3>4 DEF Counts, Spot
      <4> QED
        BY <1>1, <2>1, <4>1, QuietKeepsEdges
    <3>5. CASE Quiet(t)
      <4>1. /\ Spot(t)' = Spot(t) \/ Spot(t)' = Root
            /\ pc[t] = "backup" => pc'[t] = "backup" \/ Spot(t)' = Root
            /\ UNCHANGED statVars
        BY <3>5 DEF Quiet, statVars
      <4> QED
        BY <1>1, <2>1, <4>1, QuietKeepsEdges
    <3> QED
      BY <2>2, <3>1, <3>2, <3>3, <3>4, <3>5
  <2> QED
    BY <1>2, <2>3, <2>4, <2>5 DEF StatInv
<1>4. CASE Main \/ Stop \/ Finished \/ UNCHANGED vars
  <2>1. UNCHANGED <<statVars, threadVars, playouts, rootBefore>>
    BY <1>4 DEF Main, Join, GuardAttempt, Report, Stop, Finished, vars, statVars,
                threadVars, stopVars, mainVars
  <2> QED
    BY <1>2, <2>1, StatSame
<1>5. CASE RunAgain
  <2>1. /\ \A t \in Threads : pc[t] = "done" /\ pc'[t] = "loop" /\ at'[t] = Root /\ val'[t] = 0
        /\ UNCHANGED statVars /\ playouts' = 0 /\ rootBefore' = nodeVisits[Root]
    BY <1>5 DEF RunAgain, DoneInv, VisitsBroughtAlong
  <2>2. \A t \in Threads : Spot(t)' = Root
    BY <2>1 DEF Spot
  <2>3. \A n \in Nodes \ {Root} : OnEdge(n)' = {} /\ Waiting(n)' = {}
    BY <2>2, AboveRoot DEF OnEdge, Waiting
  <2>4. EdgeInv'
    <3>1. \A n \in Nodes \ {Root} :
            OnEdge(n)' \subseteq OnEdge(n) /\ Waiting(n)' \subseteq Waiting(n)
      BY <2>3
    <3>2. edgeWin' = edgeWin /\ edgeVisits' = edgeVisits /\ nodeVisits' = nodeVisits
      BY <2>1 DEF statVars
    <3>3. edgeWin'[Root] = 0 /\ edgeVisits'[Root] = 0
      BY <1>1, <3>2 DEF EdgeInv
    <3>4. \A n \in Nodes \ {Root} :
            /\ edgeWin'[n] >= 0
            /\ edgeWin'[n] + 2 * Cardinality(OnEdge(n)') <= 2 * edgeVisits'[n]
            /\ nodeVisits'[n] + Cardinality(Waiting(n)') <= edgeVisits'[n]
      BY <1>1, <3>1, <3>2, EdgeKept
    <3> QED
      BY <3>3, <3>4 DEF EdgeInv
  <2>5. SumInv'
    BY <1>1, <2>1 DEF SumInv, statVars
  <2>6. RootInv'
    <3>1. Ahead' = {} /\ Lost' = {}
      BY <2>1, <2>2 DEF Ahead, IsAhead, Lost, IsLost, Bad
    <3>2. Cardinality({}) = 0 /\ nodeVisits[Root] \in Int /\ nodeVisits' = nodeVisits
      BY <2>1, FS_EmptySet, TreeFacts DEF Typed, TypeOK, statVars
    <3> QED
      BY <2>1, <3>1, <3>2 DEF RootInv
  <2> QED
    BY <1>2, <2>4, <2>5, <2>6 DEF StatInv
<1> QED
  BY <1>3, <1>4, <1>5 DEF Next

(* What the invariant says of the statistics.                              *)
LEMMA StatsAreSound ==
  ASSUME Typed, DoneInv, StatInv
  PROVE  StatisticsSound
<1>1. EdgeInv /\ SumInv /\ RootInv
  BY DEF StatInv
<1>2. /\ \A n \in Nodes : edgeWin[n] \in Int /\ edgeVisits[n] \in Int /\ nodeVisits[n] \in Int
      /\ \A n \in Nodes : edgeWin[n] >= 0 /\ nodeWin[n] \in Nat
  BY <1>1, AlwaysFinite DEF Typed, TypeOK
<1>3. PICK w : w \in Threads
  BY SearchAssumption DEF SearchAssumption
<1>4. \A n : Cardinality(OnEdge(n)) \in Nat /\ Cardinality(Waiting(n)) \in Nat
  BY <1>3, Crowds, Crowd
<1>5. ASSUME NEW n \in Nodes PROVE edgeWin[n] <= 2 * edgeVisits[n]
  <2>1. CASE n = Root
    BY <1>1, <2>1 DEF EdgeInv
  <2>2. CASE n # Root
    BY <1>1, <1>2, <1>4, <2>2 DEF EdgeInv
  <2> QED
    BY <2>1, <2>2
<1>6. ASSUME NEW n \in Nodes PROVE nodeWin[n] <= 2 * nodeVisits[n]
  <2>1. IsFiniteSet(KidSet(n)) /\ KidSet(n) \subseteq Nodes
    BY TreeFacts, KidFacts
  <2>2. SumFunctionOnSet(edgeWin, KidSet(n)) <= 2 * SumFunctionOnSet(edgeVisits, KidSet(n))
    BY <1>2, <1>5, <2>1, SumTwice
  <2> QED
    BY <1>1, <2>2 DEF SumInv
<1>7. QInRange
  BY <1>2, <1>5, <1>6 DEF QInRange
<1>8. ASSUME main # "search" PROVE VisitsBalanced
  <2>1. \A t \in Threads : pc[t] = "done"
    BY <1>8 DEF DoneInv
  <2>2. Ahead = {} /\ Lost = {t \in Threads : val[t] = Bad}
    BY <2>1 DEF Ahead, IsAhead, Lost, IsLost, Early
  <2>3. Cardinality({}) = 0 /\ Cardinality(Lost) \in Nat /\ nodeVisits[Root] \in Int
        /\ rootBefore \in Int /\ playouts \in Int
    <3>1. Cardinality({}) = 0 /\ Cardinality(Lost) \in Nat
      BY <1>3, Crowds, Crowd, FS_EmptySet
    <3>2. nodeVisits[Root] \in Int /\ rootBefore \in Int /\ playouts \in Int
      BY <1>2, TreeFacts DEF Typed, TypeOK
    <3> QED
      BY <3>1, <3>2
  <2>4. nodeVisits[Root] = rootBefore + playouts - Cardinality({t \in Threads : val[t] = Bad})
    BY <1>1, <2>2, <2>3 DEF RootInv
  <2>5. \A n \in Nodes : nodeVisits[n] = SumFunctionOnSet(edgeVisits, KidSet(n))
    BY <1>1 DEF SumInv
  <2>6. \A n \in Nodes \ {Root} : nodeVisits[n] <= edgeVisits[n]
    BY <1>1, <1>2, <1>4 DEF EdgeInv
  <2> QED
    BY <2>4, <2>5, <2>6 DEF VisitsBalanced
<1>9. VisitsBalanced
  BY <1>8 DEF VisitsBalanced
<1> QED
  BY <1>7, <1>9 DEF StatisticsSound

(* A reader never finds a quotient outside 0 to 1, and when the workers    *)
(* have joined every virtual loss has been taken back or made good.        *)
THEOREM StatisticsStaySound == Spec => []StatisticsSound
<1>1. Init => StatInv
  BY StatInit
<1>2. Typed /\ Typed' /\ PubInv /\ StatInv /\ [Next]_vars => StatInv'
  BY StatStep DEF PubInv
<1>3. Typed /\ PubInv /\ StatInv => StatisticsSound
  BY StatsAreSound DEF PubInv
<1> QED
  BY <1>1, <1>2, <1>3, PubAlways, PTL DEF Spec
-----------------------------------------------------------------------------
(* The size of the tree.                                                   *)

(* The most children a node below the root can have.                       *)
Widest ==
  CHOOSE k \in {Len(Kids[n]) : n \in Nodes \ {Root}} :
    \A n \in Nodes \ {Root} : Len(Kids[n]) <= k

(* A node has at most as many children as its list is long.                *)
LEMMA KidCount == \A n \in Nodes : Cardinality(KidSet(n)) <= Len(Kids[n])
<1> TAKE n \in Nodes
<1> PICK s : s = Kids[n]
  OBVIOUS
<1>1. Len(s) \in Nat /\ DOMAIN s = 1..Len(s)
  BY KidFacts
<1>2. \A y \in KidSet(n) : \E i \in 1..Len(s) : s[i] = y
  BY <1>1 DEF KidSet
<1>3. IsFiniteSet(1..Len(s)) /\ Cardinality(1..Len(s)) = Len(s)
  BY <1>1, FS_Interval
<1> QED
  BY <1>2, <1>3, Covered

(* Widest is what its name says.                                           *)
LEMMA WidestBounds ==
  /\ Widest \in Nat
  /\ \A n \in Nodes \ {Root} : Cardinality(KidSet(n)) <= Widest
<1> DEFINE L == {Len(Kids[n]) : n \in Nodes \ {Root}}
           f == [n \in Nodes \ {Root} |-> Len(Kids[n])]
<1>1. L \in SUBSET Nat
  BY KidFacts
<1>2. IsFiniteSet(L)
  <2>1. IsFiniteSet(Nodes \ {Root})
    BY FS_Subset, GameTreeAssumption DEF GameTreeAssumption, BelowRoot
  <2>2. \A y \in L : \E n \in Nodes \ {Root} : f[n] = y
    OBVIOUS
  <2> HIDE DEF L, f
  <2> QED
    BY <2>1, <2>2, Covered
<1>3. L # {}
  <2>1. Kids[Root][1] \in KidSet(Root)
    BY TreeFacts, KidFacts
  <2>2. Kids[Root][1] \in Nodes \ {Root}
    BY <2>1, TreeFacts
  <2> QED
    BY <2>2
<1>4. PICK k \in L : \A m \in L : m <= k
  <2> HIDE DEF L
  <2> QED
    BY <1>1, <1>2, <1>3, Greatest
<1>5. Widest \in L /\ \A n \in Nodes \ {Root} : Len(Kids[n]) <= Widest
  <2>1. \A n \in Nodes \ {Root} : Len(Kids[n]) \in L
    OBVIOUS
  <2>2. Widest = CHOOSE j \in L : \A n \in Nodes \ {Root} : Len(Kids[n]) <= j
    BY DEF Widest
  <2> HIDE DEF L
  <2> QED
    BY <1>4, <2>1, <2>2
<1>7. ASSUME NEW n \in Nodes \ {Root} PROVE Cardinality(KidSet(n)) <= Widest
  <2>1. Cardinality(KidSet(n)) \in Nat /\ Len(Kids[n]) \in Nat /\ Widest \in Nat
    BY <1>1, <1>5, KidFacts, TreeFacts, FS_CardinalityType
  <2> QED
    BY <1>5, <2>1, KidCount
<1> QED
  BY <1>1, <1>5, <1>7

(* The edges of the child arrays.                                          *)
Edges == {n \in Nodes \ {Root} : moves[Parent[n]] # "none"}

(* A node whose playout has got a result; one that has not; an array none  *)
(* of whose nodes has got one.                                             *)
Settled(n) == state[n] # "fresh" \/ flags[n] # {}
Unsettled  == {n \in created \ {Root} : ~Settled(n)}
Barren ==
  {n \in Nodes \ {Root} : /\ moves[n] # "none" /\ Kids[n] # << >>
                          /\ \A c \in KidSet(n) : ~Settled(c)}

(* Playouts on their way down, first into a node, then through it.         *)
Arriving == {"enter", "visit", "wantEval", "eval"}
Working  == {"priors", "publish", "children", "scan", "descend"}
Busy == {t \in Threads : pc[t] \in Early}

(* Each unsettled node and each barren array is some worker's.             *)
Holds(t, n) == pc[t] \in Arriving /\ at[t] = n
Tends(t, n) == \/ pc[t] \in Working /\ Spot(t) = n
               \/ pc[t] \in Arriving /\ at[t] \in KidSet(n)

StandsOn(t) ==
  /\ pc[t] \in Early \ {"descend"} => at[t] \in created
  /\ pc[t] = "descend" => Parent[at[t]] \in created /\ moves[Parent[at[t]]] # "none"
  /\ pc[t] = "priors" => moves[at[t]] # "none"

CreatedInv ==
  /\ Root \in created /\ moves[Root] # "none"
  /\ main = "search" /\ runs = 1 => \A n \in Nodes : Settled(n) => n \in created
  /\ \A n \in created \ {Root} : moves[Parent[n]] # "none"
  /\ \A t \in Threads : StandsOn(t)
  /\ \A n \in Unsettled : \E t \in Threads : Holds(t, n)
  /\ \A n \in Barren : \E t \in Threads : Tends(t, n)

(* The tree with what the playouts under way may still add to it.          *)
Gauge ==
  TreeSize + (Cardinality(Busy) - Cardinality(Unsettled))
           + Widest * (Cardinality(Busy) - Cardinality(Barren))

(* The sets that make up the gauge are finite.                             *)
LEMMA TreeCounts ==
  ASSUME Typed
  PROVE  /\ IsFiniteSet(created) /\ IsFiniteSet(Edges) /\ IsFiniteSet(Unsettled)
         /\ IsFiniteSet(Barren) /\ IsFiniteSet(Busy)
         /\ Cardinality(created) \in Nat /\ Cardinality(Edges) \in Nat
         /\ Cardinality(Unsettled) \in Nat /\ Cardinality(Barren) \in Nat
         /\ Cardinality(Busy) \in Nat /\ Cardinality(Busy) <= Cardinality(Threads)
         /\ TreeSize = Cardinality(created) + Cardinality(Edges)
<1>1. \A S \in SUBSET Nodes : IsFiniteSet(S) /\ Cardinality(S) \in Nat
  BY FS_Subset, FS_CardinalityType, GameTreeAssumption DEF GameTreeAssumption, BelowRoot
<1>2. /\ created \in SUBSET Nodes /\ Edges \in SUBSET Nodes /\ Barren \in SUBSET Nodes
      /\ Unsettled \in SUBSET Nodes /\ Busy \in SUBSET Threads
  BY DEF Typed, TypeOK, Edges, Barren, Unsettled, Busy
<1> QED
  BY <1>1, <1>2, Finite DEF TreeSize, Edges

(* Nobody is responsible for two nodes, or for two arrays.                 *)
LEMMA EachHasItsOwn ==
  ASSUME Typed, CreatedInv
  PROVE  /\ Cardinality(Unsettled) <= Cardinality(Busy)
         /\ Cardinality(Barren) <= Cardinality(Busy)
<1>1. Arriving \subseteq Early /\ Working \subseteq Early /\ Arriving \cap Working = {}
  BY DEF Arriving, Working, Early
<1>2. IsFiniteSet(Busy)
  BY TreeCounts
<1>3. Cardinality(Unsettled) <= Cardinality(Busy)
  <2>1. \A n \in Unsettled : \E t \in Busy : at[t] = n
    BY <1>1 DEF CreatedInv, Holds, Busy
  <2> QED
    BY <1>2, <2>1, Covered
<1>4. Cardinality(Barren) <= Cardinality(Busy)
  <2> DEFINE f == [t \in Threads |-> IF pc[t] \in Arriving THEN Parent[at[t]] ELSE Spot(t)]
  <2>1. ASSUME NEW n \in Barren PROVE \E t \in Busy : f[t] = n
    <3>1. PICK t \in Threads : Tends(t, n)
      BY DEF CreatedInv
    <3>2. n \in Nodes
      BY DEF Barren
    <3>3. at[t] \in KidSet(n) => Parent[at[t]] = n
      BY <3>2, TreeFacts
    <3>4. t \in Busy
      BY <1>1, <3>1 DEF Tends, Busy
    <3>5. f[t] = n
      BY <1>1, <3>1, <3>3 DEF Tends
    <3> QED
      BY <3>4, <3>5
  <2> HIDE DEF f
  <2> QED
    BY <1>2, <2>1, Covered
<1> QED
  BY <1>3, <1>4

(* The steps of a worker that concern the size of the tree.                *)
SameTree ==
  /\ created' = created
  /\ \A n \in Nodes : moves'[n] = "none" <=> moves[n] = "none"

Stays(t) ==
  /\ SameTree /\ \A n \in Nodes : Settled(n)' <=> Settled(n)
  /\ pc'[t] \in Early <=> pc[t] \in Early
  /\ StandsOn(t)'
  /\ pc[t] \in Arriving => Settled(at[t]) \/ (pc'[t] \in Arriving /\ at'[t] = at[t])
  /\ pc[t] \in Working => pc'[t] \in Working /\ Spot(t)' = Spot(t)

Ends(t) ==
  /\ SameTree /\ \A n \in Nodes \ {at[t]} : Settled(n)' <=> Settled(n)
  /\ pc[t] \in Early \ {"descend"} /\ pc'[t] = "count" /\ at'[t] = at[t]
  /\ at[t] \in created \ {Root} /\ Settled(at[t])'
  /\ pc[t] \in Working => Kids[at[t]] = << >>

Starts(t) ==
  /\ SameTree /\ \A n \in Nodes : Settled(n)' <=> Settled(n)
  /\ IsSearchActive /\ pc[t] = "loop" /\ pc'[t] = "enter" /\ at'[t] = Root

Creates(t) ==
  /\ created' = created \cup {at[t]} /\ UNCHANGED <<moves, state, flags>>
  /\ pc[t] = "descend" /\ pc'[t] = "enter" /\ at'[t] = at[t] /\ at[t] \in Nodes \ {Root}

Builds(t) ==
  /\ moves' = [moves EXCEPT ![at[t]] = "listed"] /\ UNCHANGED <<created, state, flags>>
  /\ pc[t] = "expand" /\ pc'[t] = "priors" /\ at'[t] = at[t]
  /\ at[t] \in created \ {Root}

(* A step at one node that leaves the tree as it is.                       *)
LEMMA Remains ==
  ASSUME NEW t \in Threads, SameTree, \A n \in Nodes : Settled(n)' <=> Settled(n),
         at'[t] = at[t], at[t] \in created,
         pc[t] \in Early \ {"descend"}, pc'[t] \in Early \ {"descend", "priors"},
         pc[t] \in Arriving => Settled(at[t]) \/ pc'[t] \in Arriving,
         pc[t] \in Working => pc'[t] \in Working
  PROVE  Stays(t)
<1>1. StandsOn(t)'
  BY DEF StandsOn, SameTree
<1>2. Spot(t)' = Spot(t)
  BY DEF Spot
<1> QED
  BY <1>1, <1>2 DEF Stays

(* Every step of a worker is of one of these kinds.                        *)
LEMMA TreeEffects ==
  ASSUME Typed, PubInv, PlaceInv, RefInv, CreatedInv, NEW t \in Threads, Playout(t)
  PROVE  Stays(t) \/ Ends(t) \/ Starts(t) \/ Creates(t) \/ Builds(t)
<1>1. /\ at[t] \in Nodes /\ t \in DOMAIN pc /\ t \in DOMAIN at /\ Root \in Nodes
      /\ state \in [Nodes -> {"fresh", "evaluated", "expanded"}]
      /\ moves \in [Nodes -> {"none", "listed", "priors"}]
      /\ flags \in [Nodes -> SUBSET Flags]
      /\ state[Root] = "expanded" /\ Kind[Root] = "inner" /\ Kids[Root] # << >>
  <2>1. Root \in Nodes /\ Kind[Root] = "inner" /\ Kids[Root] # << >>
    BY TreeFacts
  <2>2. state[Root] = "expanded"
    BY DEF PlaceInv
  <2>3. /\ at[t] \in Nodes /\ t \in DOMAIN pc /\ t \in DOMAIN at
        /\ state \in [Nodes -> {"fresh", "evaluated", "expanded"}]
        /\ moves \in [Nodes -> {"none", "listed", "priors"}]
        /\ flags \in [Nodes -> SUBSET Flags]
    BY DEF Typed, TypeOK
  <2> QED
    BY <2>1, <2>2, <2>3
<1>2. StandsOn(t)
  BY DEF CreatedInv
<1>3. /\ pc[t] \in {"wantEval", "wantExpand", "eval", "expand", "priors", "publish"} => at[t] # Root
      /\ pc[t] \in {"wantExpand", "expand", "priors", "publish"} => state[at[t]] # "fresh"
      /\ pc[t] \in {"children", "scan"} => state[at[t]] = "expanded"
      /\ pc[t] = "publish" => moves[at[t]] = "priors"
  BY DEF PlaceInv, RefInv, WorkerInv, PubInv, ArrayInv
<1>0. state' = state /\ flags' = flags => \A n \in Nodes : Settled(n)' <=> Settled(n)
  BY DEF Settled
<1> USE DEF GoTo
<1>4. CASE StartPlayout(t)
  <2>1. pc[t] = "loop" /\ SameTree /\ \A n \in Nodes : Settled(n)' <=> Settled(n)
    BY <1>0, <1>4 DEF StartPlayout, SameTree, treeVars
  <2>2. (IsSearchActive /\ pc'[t] = "enter" /\ at'[t] = Root) \/ pc'[t] = "done"
    BY <1>1, <1>4 DEF StartPlayout
  <2> QED
    BY <2>1, <2>2 DEF Stays, Starts, Early, Arriving, Working, StandsOn
<1>5. CASE Enter(t)
  <2>1. pc[t] = "enter" /\ at'[t] = at[t] /\ SameTree /\ state' = state /\ at[t] \in created
    BY <1>2, <1>5 DEF Enter, SameTree, StandsOn, Early
  <2>2. CASE pc'[t] = "visit"
    <3>1. flags' = flags
      BY <1>1, <1>5, <2>2 DEF Enter, ResolveTerminalEdge
    <3> QED
      BY <1>0, <2>1, <2>2, <3>1, Remains DEF Early, Arriving, Working
  <2>3. CASE pc'[t] # "visit"
    <3>1. pc'[t] = "count" /\ at[t] # Root
      BY <1>1, <1>5, <2>3 DEF Enter, ResolveTerminalEdge, EntryKinds, EntryOutcome
    <3>2. \A n \in Nodes \ {at[t]} : flags'[n] = flags[n]
      BY <1>1, <1>5 DEF Enter, ResolveTerminalEdge, AddFlags
    <3>3. flags'[at[t]] # {}
      BY <1>1, <1>5, <2>3, <3>1 DEF Enter, ResolveTerminalEdge, AddFlags
    <3> QED
      BY <2>1, <3>1, <3>2, <3>3 DEF Ends, Early, Working, Settled
  <2> QED
    BY <2>2, <2>3
<1>6. CASE Visit(t)
  <2>1. /\ pc[t] = "visit" /\ at' = at /\ SameTree /\ state' = state /\ flags' = flags
        /\ at[t] \in created
    BY <1>2, <1>6 DEF Visit, SameTree, StandsOn, Early, treeVars
  <2>2. /\ pc'[t] \in {"wantEval", "wantExpand", "children"}
        /\ pc'[t] # "wantEval" => Settled(at[t])
    BY <1>1, <1>6 DEF Visit, IsEvaled, Settled
  <2> QED
    BY <1>0, <1>1, <2>1, <2>2, Remains DEF Early, Arriving, Working
<1>7. CASE Lock(t)
  <2>1. /\ pc[t] \in {"wantEval", "wantExpand"} /\ at' = at /\ SameTree
        /\ state' = state /\ flags' = flags /\ at[t] \in created
    BY <1>2, <1>7 DEF Lock, SameTree, StandsOn, Early, treeVars
  <2>2. pc'[t] = IF pc[t] = "wantEval" THEN "eval" ELSE "expand"
    BY <1>1, <1>7 DEF Lock
  <2> QED
    BY <1>0, <1>1, <2>1, <2>2, Remains DEF Early, Arriving, Working
<1>8. CASE FirstVisit(t)
  <2>1. pc[t] = "eval" /\ at' = at /\ SameTree /\ at[t] \in created \ {Root}
    BY <1>2, <1>3, <1>8 DEF FirstVisit, SameTree, StandsOn, Early
  <2>2. CASE EvaluatedMeanwhile(at[t])
    <3>1. pc'[t] = "visit" /\ state' = state /\ flags' = flags
      BY <1>1, <1>8, <2>2 DEF FirstVisit
    <3> QED
      BY <1>0, <1>1, <2>1, <3>1, Remains DEF Early, Arriving, Working
  <2>3. CASE ~EvaluatedMeanwhile(at[t])
    <3>1. /\ pc'[t] = "count"
          /\ \A n \in Nodes \ {at[t]} : flags'[n] = flags[n] /\ state'[n] = state[n]
      BY <1>1, <1>8, <2>3 DEF FirstVisit, ResolveTerminalEdge, AddFlags
    <3>2. flags'[at[t]] # {} \/ state'[at[t]] # "fresh"
      BY <1>1, <1>8, <2>1, <2>3 DEF FirstVisit, ResolveTerminalEdge, AddFlags
    <3> QED
      BY <2>1, <3>1, <3>2 DEF Ends, Early, Working, Settled
  <2> QED
    BY <2>2, <2>3
<1>9. CASE ExpandNode(t)
  <2>1. /\ pc[t] = "expand" /\ at' = at /\ state' = state /\ flags' = flags
        /\ created' = created /\ at[t] \in created \ {Root}
    BY <1>2, <1>3, <1>9 DEF ExpandNode, StandsOn, Early
  <2>2. CASE ExpandedMeanwhile(at[t])
    <3>1. pc'[t] = "children" /\ SameTree
      BY <1>1, <1>9, <2>1, <2>2 DEF ExpandNode, SameTree
    <3> QED
      BY <1>0, <1>1, <2>1, <3>1, Remains DEF Early, Arriving, Working
  <2>3. CASE ~ExpandedMeanwhile(at[t])
    BY <1>1, <1>9, <2>1, <2>3 DEF ExpandNode, Builds
  <2> QED
    BY <2>2, <2>3
<1>10. CASE ComputePriors(t) \/ SetExpanded(t)
  <2>1. /\ pc[t] \in {"priors", "publish"} /\ at' = at /\ flags' = flags
        /\ created' = created /\ at[t] \in created
        /\ pc'[t] \in {"publish", "children"}
    BY <1>1, <1>2, <1>10 DEF ComputePriors, SetExpanded, StandsOn, Early
  <2>2. SameTree
    <3>1. moves[at[t]] # "none"
      BY <1>2, <1>3, <2>1 DEF StandsOn
    <3> QED
      BY <1>1, <1>10, <2>1, <3>1 DEF ComputePriors, SetExpanded, SameTree
  <2>3. \A n \in Nodes : Settled(n)' <=> Settled(n)
    <3>1. \A n \in Nodes : state'[n] = "fresh" <=> state[n] = "fresh"
      BY <1>1, <1>3, <1>10 DEF ComputePriors, SetExpanded
    <3> QED
      BY <2>1, <3>1 DEF Settled
  <2> QED
    BY <1>1, <2>1, <2>2, <2>3, Remains DEF Early, Arriving, Working
<1>11. CASE Children(t)
  <2>1. /\ pc[t] = "children" /\ at' = at /\ SameTree /\ state' = state /\ at[t] \in created
        /\ Settled(at[t]) /\ Settled(at[t])'
    BY <1>2, <1>3, <1>11 DEF Children, SameTree, StandsOn, Early, Settled
  <2>2. \A n \in Nodes \ {at[t]} : flags'[n] = flags[n]
    BY <1>1, <1>11 DEF Children, ResolveTerminalEdge, AddFlags
  <2>3. CASE Kids[at[t]] = << >>
    <3>1. pc'[t] = "count" /\ at[t] # Root
      BY <1>1, <1>11, <2>3 DEF Children, ResolveTerminalEdge
    <3> QED
      BY <2>1, <2>2, <2>3, <3>1 DEF Ends, Early, Working, Settled
  <2>4. CASE Kids[at[t]] # << >>
    <3>1. pc'[t] = "scan" /\ flags' = flags
      BY <1>1, <1>11, <2>4 DEF Children
    <3> QED
      BY <1>0, <1>1, <2>1, <3>1, Remains DEF Early, Arriving, Working
  <2> QED
    BY <2>3, <2>4
<1>12. CASE ScanChild(t) \/ FinishScan(t)
  <2>1. /\ pc[t] = "scan" /\ SameTree /\ state' = state /\ at[t] \in created
        /\ state[at[t]] = "expanded" /\ moves[at[t]] # "none" /\ moves' = moves
    <3>1. Kids[at[t]] # << >> /\ pc[t] = "scan"
      BY <1>12 DEF ScanChild, FinishScan, Typed, ScanHasKids
    <3>2. moves[at[t]] = "priors"
      BY <1>1, <1>3, <3>1 DEF PubInv, ArrayInv
    <3>3. at[t] \in created
      BY <1>2, <3>1 DEF StandsOn, Early
    <3>4. moves' = moves /\ created' = created /\ state' = state
      BY <1>12 DEF ScanChild, FinishScan
    <3>5. state[at[t]] = "expanded" /\ state'[at[t]] = "expanded"
      BY <1>3, <3>1, <3>4
    <3> QED
      BY <3>1, <3>2, <3>3, <3>4, <3>5 DEF SameTree
  <2>2. \A n \in Nodes \ {at[t]} : flags'[n] = flags[n]
    BY <1>1, <1>12 DEF ScanChild, FinishScan, AddFlags
  <2>3. /\ \A n \in Nodes : Settled(n)' <=> Settled(n)
        /\ Settled(at[t])
    BY <2>1, <2>2 DEF Settled
  <2>4. \/ pc'[t] = "scan" /\ at'[t] = at[t]
        \/ pc'[t] = "descend" /\ at'[t] \in KidSet(at[t])
    <3>1. DownStep(t)
      BY <2>1, EarlyStep DEF Early
    <3>2. pc'[t] \in {"scan", "descend"}
      BY <1>1, <1>12, <2>1 DEF ScanChild, FinishScan
    <3> QED
      BY <3>1, <3>2 DEF DownStep
  <2>5. pc'[t] = "descend" => Parent[at'[t]] = at[t]
    BY <1>1, <2>4, TreeFacts
  <2>6. Spot(t)' = Spot(t)
    BY <2>1, <2>4, <2>5 DEF Spot
  <2>7. StandsOn(t)'
    BY <2>1, <2>4, <2>5 DEF StandsOn, SameTree
  <2> QED
    BY <2>1, <2>3, <2>4, <2>6, <2>7 DEF Stays, Early, Arriving, Working
<1>13. CASE Descend(t)
  <2>1. at[t] # Root /\ pc[t] = "descend"
    BY <1>13 DEF Descend, PlaceInv
  <2> QED
    BY <1>1, <1>13, <2>1 DEF Descend, Creates
<1>14. CASE Count(t) \/ Validate(t) \/ Backup(t) \/ Unwind(t) \/ Tick(t)
  <2>1. /\ UNCHANGED treeVars
        /\ pc[t] \notin Early /\ pc'[t] \notin Early
    BY <1>1, <1>14 DEF Count, Validate, Backup, Unwind, Tick, Early
  <2>2. SameTree /\ \A n \in Nodes : Settled(n)' <=> Settled(n)
    BY <1>0, <2>1 DEF SameTree, treeVars
  <2> QED
    BY <2>1, <2>2 DEF Stays, Early, Arriving, Working, StandsOn
<1> QED
  BY <1>4, <1>5, <1>6, <1>7, <1>8, <1>9, <1>10, <1>11, <1>12, <1>13, <1>14 DEF Playout

(* The same after a step.                                                  *)
LEMMA TreeCountsNext ==
  ASSUME Typed'
  PROVE  /\ IsFiniteSet(created') /\ IsFiniteSet(Edges') /\ IsFiniteSet(Unsettled')
         /\ IsFiniteSet(Barren') /\ IsFiniteSet(Busy')
         /\ Cardinality(created') \in Nat /\ Cardinality(Edges') \in Nat
         /\ Cardinality(Unsettled') \in Nat /\ Cardinality(Barren') \in Nat
         /\ Cardinality(Busy') \in Nat
         /\ TreeSize' = Cardinality(created') + Cardinality(Edges')
<1>1. \A S \in SUBSET Nodes : IsFiniteSet(S) /\ Cardinality(S) \in Nat
  BY FS_Subset, FS_CardinalityType, GameTreeAssumption DEF GameTreeAssumption, BelowRoot
<1>2. /\ created' \in SUBSET Nodes /\ Edges' \in SUBSET Nodes /\ Barren' \in SUBSET Nodes
      /\ Unsettled' \in SUBSET Nodes /\ Busy' \in SUBSET Threads
  BY DEF Typed, TypeOK, Edges, Barren, Unsettled, Busy
<1> QED
  BY <1>1, <1>2, Finite DEF TreeSize, Edges

(* What a worker's step must see to, that everything keeps its holder.     *)
LEMMA CreatedKept ==
  ASSUME Typed, CreatedInv, NEW t \in Threads, Moves1(t),
         created \subseteq created',
         \A n \in Nodes : moves[n] # "none" => moves'[n] # "none",
         \A n \in Nodes : Settled(n)' => n \in created',
         \A n \in created' \ {Root} : moves'[Parent[n]] # "none",
         StandsOn(t)',
         \A n \in Unsettled' : /\ n \in Unsettled \/ Holds(t, n)'
                               /\ Holds(t, n) => Holds(t, n)',
         \A n \in Barren' : /\ n \in Barren \/ Tends(t, n)'
                            /\ Tends(t, n) => Tends(t, n)'
  PROVE  CreatedInv'
<1>1. \A u \in Threads \ {t} : /\ pc'[u] = pc[u] /\ at'[u] = at[u] /\ Spot(u)' = Spot(u)
                               /\ at[u] \in Nodes /\ Parent[at[u]] \in Nodes
  BY OthersPlaced, RootAndParents DEF Moves1, Typed, TypeOK
<1>2. Root \in created' /\ moves'[Root] # "none"
  BY TreeFacts DEF CreatedInv
<1>3. \A u \in Threads : StandsOn(u)'
  <2>1. ASSUME NEW u \in Threads \ {t} PROVE StandsOn(u)'
    <3>1. StandsOn(u)
      BY DEF CreatedInv
    <3> QED
      BY <1>1, <3>1 DEF StandsOn
  <2> QED
    BY <2>1
<1>4. ASSUME NEW n \in Unsettled' PROVE \E u \in Threads : Holds(u, n)'
  <2>1. \A u \in Threads \ {t} : Holds(u, n) => Holds(u, n)'
    BY <1>1 DEF Holds
  <2>2. n \in Unsettled => \E u \in Threads : Holds(u, n)
    BY DEF CreatedInv
  <2> QED
    BY <2>1, <2>2
<1>5. ASSUME NEW n \in Barren' PROVE \E u \in Threads : Tends(u, n)'
  <2>1. \A u \in Threads \ {t} : Tends(u, n) => Tends(u, n)'
    BY <1>1 DEF Tends
  <2>2. n \in Barren => \E u \in Threads : Tends(u, n)
    BY DEF CreatedInv
  <2> QED
    BY <2>1, <2>2
<1> QED
  BY <1>2, <1>3, <1>4, <1>5 DEF CreatedInv

(* The numbers in Gauge, as the kinds of steps change them.                *)
LEMMA GaugeFalls ==
  ASSUME NEW w \in Nat, NEW s \in Nat, NEW b \in Nat, NEW u \in Nat, NEW r \in Nat,
         NEW x \in Nat, NEW c \in Nat, NEW v \in Nat, NEW q \in Nat
  PROVE  /\ x = s /\ c + 1 = b /\ u <= v + 1 /\ r <= q + 1 =>
              x + (c - v) + w * (c - q) <= s + (b - u) + w * (b - r)
         /\ x = s /\ c <= b + 1 /\ u = v /\ r = q =>
              x + (c - v) + w * (c - q) <= s + (b - u) + w * (b - r) + (1 + w)
         /\ x <= s + w /\ c = b /\ u = v /\ q = r + 1 =>
              x + (c - v) + w * (c - q) <= s + (b - u) + w * (b - r)
<1>1. \A i \in Int, j \in Int : i <= j => w * i <= w * j
  OBVIOUS
<1>2. w * ((b - r) + 1) = w * (b - r) + w
  OBVIOUS
<1>3. w * ((b - r) - 1) = w * (b - r) - w
  OBVIOUS
<1>4. ASSUME x = s, c + 1 = b, u <= v + 1, r <= q + 1
      PROVE  x + (c - v) + w * (c - q) <= s + (b - u) + w * (b - r)
  <2>1. c - q <= b - r /\ c - q \in Int /\ b - r \in Int
    BY <1>4
  <2>2. w * (c - q) <= w * (b - r) /\ w * (c - q) \in Int /\ w * (b - r) \in Int
    BY <1>1, <2>1
  <2> QED
    BY <1>4, <2>2
<1>5. ASSUME x = s, c <= b + 1, u = v, r = q
      PROVE  x + (c - v) + w * (c - q) <= s + (b - u) + w * (b - r) + (1 + w)
  <2>1. c - q <= (b - r) + 1 /\ c - q \in Int /\ b - r \in Int /\ (b - r) + 1 \in Int
    BY <1>5
  <2>2. w * (c - q) <= w * ((b - r) + 1) /\ w * (c - q) \in Int /\ w * (b - r) \in Int
    BY <1>1, <2>1
  <2> QED
    BY <1>2, <1>5, <2>2
<1>6. ASSUME x <= s + w, c = b, u = v, q = r + 1
      PROVE  x + (c - v) + w * (c - q) <= s + (b - u) + w * (b - r)
  <2>1. c - q = (b - r) - 1 /\ w * (b - r) \in Int
    BY <1>6
  <2> QED
    BY <1>3, <1>6, <2>1
<1> QED
  BY <1>4, <1>5, <1>6

(* A worker's step changes nobody's place but its own.                     *)
LEMMA BusyMoves ==
  ASSUME NEW t \in Threads, Moves1(t)
  PROVE  /\ Busy \in SUBSET Threads /\ Busy' \in SUBSET Threads
         /\ (pc'[t] \in Early <=> pc[t] \in Early) => Busy' = Busy
         /\ pc[t] \in Early /\ pc'[t] \notin Early => t \in Busy /\ Busy' = Busy \ {t}
         /\ pc[t] \notin Early /\ pc'[t] \in Early => t \notin Busy /\ Busy' = Busy \cup {t}
BY DEF Busy, Moves1

(* The edges depend on which arrays are there, not on what is in them.     *)
LEMMA EdgesSame ==
  ASSUME \A n \in Nodes : moves'[n] = "none" <=> moves[n] = "none"
  PROVE  Edges' = Edges
BY TreeFacts DEF Edges

(* A step that leaves the tree as it is.                                   *)
LEMMA StaysKeepsTree ==
  ASSUME Typed, CreatedInv, NEW t \in Threads, Moves1(t), Stays(t),
         \A n \in Nodes : Settled(n) => n \in created
  PROVE  CreatedInv' /\ TreeSize' = TreeSize /\ Gauge' = Gauge
<1>1. /\ SameTree /\ \A n \in Nodes : Settled(n)' <=> Settled(n)
      /\ created \subseteq Nodes /\ \A n \in Nodes : KidSet(n) \subseteq Nodes
  BY KidFacts DEF Stays, Typed, TypeOK
<1>2. created' = created /\ Edges' = Edges /\ Busy' = Busy
  BY <1>1, EdgesSame, BusyMoves DEF Stays, SameTree
<1>3. Unsettled' = Unsettled
  BY <1>1, <1>2 DEF Unsettled
<1>4. Barren' = Barren
  BY <1>1 DEF Barren, SameTree
<1>5. TreeSize' = TreeSize
  BY <1>2 DEF TreeSize, Edges
<1>6. ASSUME NEW n \in Unsettled, Holds(t, n) PROVE Holds(t, n)'
  BY <1>6 DEF Unsettled, Holds, Stays
<1>7. ASSUME NEW n \in Barren, Tends(t, n) PROVE Tends(t, n)'
  <2>1. CASE pc[t] \in Working /\ Spot(t) = n
    BY <2>1 DEF Stays, Tends
  <2>2. CASE pc[t] \in Arriving /\ at[t] \in KidSet(n)
    <3>1. ~Settled(at[t])
      BY <2>2 DEF Barren
    <3> QED
      BY <2>2, <3>1 DEF Stays, Tends
  <2> QED
    BY <1>7, <2>1, <2>2 DEF Tends
<1>8. \A n \in created \ {Root} : moves'[Parent[n]] # "none"
  BY <1>1, TreeFacts DEF CreatedInv, SameTree
<1>9. StandsOn(t)'
  BY DEF Stays
<1>10. CreatedInv'
  BY <1>1, <1>2, <1>3, <1>4, <1>6, <1>7, <1>8, <1>9, CreatedKept DEF SameTree
<1> QED
  BY <1>2, <1>3, <1>4, <1>5, <1>10 DEF Gauge

(* A playout with a result needs no room any more.                         *)
LEMMA EndsKeepsTree ==
  ASSUME Typed, Typed', CreatedInv, NEW t \in Threads, Moves1(t), Ends(t),
         \A n \in Nodes : Settled(n) => n \in created
  PROVE  CreatedInv' /\ Gauge' <= Gauge
<1> PICK a : a = at[t]
  OBVIOUS
<1>1. /\ SameTree /\ \A n \in Nodes \ {a} : Settled(n)' <=> Settled(n)
      /\ created \subseteq Nodes /\ \A n \in Nodes : KidSet(n) \subseteq Nodes
      /\ a \in created \ {Root} /\ Settled(a)' /\ Parent[a] \in Nodes
  BY KidFacts, TreeFacts DEF Ends, Typed, TypeOK
<1>2. created' = created /\ Edges' = Edges
  BY <1>1, EdgesSame DEF SameTree
<1>3. t \in Busy /\ Busy' = Busy \ {t}
  BY BusyMoves DEF Ends, Early
<1>4. Unsettled' = Unsettled \ {a}
  BY <1>1, <1>2 DEF Unsettled
<1>5. Barren' \subseteq Barren /\ Barren \subseteq Barren' \cup {Parent[a]}
  <2>1. ASSUME NEW n \in Barren' PROVE n \in Barren
    <3>1. n \in Nodes \ {Root} /\ moves[n] # "none" /\ Kids[n] # << >>
      BY <1>1 DEF Barren, SameTree
    <3>2. ASSUME NEW c \in KidSet(n) PROVE ~Settled(c)
      <4>1. ~Settled(c)'
        BY DEF Barren
      <4> QED
        BY <1>1, <3>1, <4>1
    <3> QED
      BY <3>1, <3>2 DEF Barren
  <2>2. ASSUME NEW n \in Barren, n # Parent[a] PROVE n \in Barren'
    <3>1. n \in Nodes \ {Root} /\ moves'[n] # "none" /\ Kids[n] # << >>
      BY <1>1 DEF Barren, SameTree
    <3>2. ASSUME NEW c \in KidSet(n) PROVE ~Settled(c)'
      <4>1. ~Settled(c)
        BY DEF Barren
      <4>2. c \in Nodes /\ c # a
        BY <2>2, <3>1, TreeFacts
      <4> QED
        BY <1>1, <4>1, <4>2
    <3> QED
      BY <3>1, <3>2 DEF Barren
  <2> QED
    BY <2>1, <2>2
<1>6. CreatedInv'
  <2>1. StandsOn(t)'
    BY DEF StandsOn, Ends, Early
  <2>2. \A n \in created' \ {Root} : moves'[Parent[n]] # "none"
    BY <1>1, <1>2, TreeFacts DEF CreatedInv, SameTree
  <2>3. \A n \in Nodes : Settled(n)' => n \in created'
    BY <1>1, <1>2
  <2>4. \A n \in Unsettled' : ~Holds(t, n)
    BY <1>4 DEF Holds
  <2>5. ASSUME NEW n \in Barren' PROVE ~Tends(t, n)
    <3>1. Kids[n] # << >> /\ \A c \in KidSet(n) : ~Settled(c)'
      BY DEF Barren
    <3> QED
      BY <1>1, <3>1 DEF Tends, Spot, Ends, Working
  <2> QED
    BY <1>1, <1>2, <1>4, <1>5, <2>1, <2>2, <2>3, <2>4, <2>5, CreatedKept DEF SameTree
<1>7. Cardinality(Busy') + 1 = Cardinality(Busy)
  BY <1>3, BusyMoves, Sizes, Finite
<1>8. /\ Cardinality(Unsettled) <= Cardinality(Unsettled') + 1
      /\ Cardinality(Barren) <= Cardinality(Barren') + 1
  <2>1. /\ Unsettled \in SUBSET Nodes /\ Unsettled' \in SUBSET Nodes
        /\ Barren \in SUBSET Nodes /\ Barren' \in SUBSET Nodes
    BY <1>1, <1>4, <1>5 DEF Unsettled, Barren
  <2>2. IsFiniteSet(Nodes)
    BY GameTreeAssumption DEF GameTreeAssumption, BelowRoot
  <2>3. Unsettled \subseteq Unsettled' \cup {a}
    BY <1>4
  <2> QED
    BY <1>1, <1>5, <2>1, <2>2, <2>3, Sizes
<1>9. TreeSize' = TreeSize
  BY <1>2 DEF TreeSize, Edges
<1>10. /\ TreeSize \in Nat /\ Widest \in Nat
       /\ Cardinality(Busy) \in Nat /\ Cardinality(Busy') \in Nat
       /\ Cardinality(Unsettled) \in Nat /\ Cardinality(Unsettled') \in Nat
       /\ Cardinality(Barren) \in Nat /\ Cardinality(Barren') \in Nat
  BY TreeCounts, TreeCountsNext, WidestBounds
<1>11. Gauge' <= Gauge
  BY <1>7, <1>8, <1>9, <1>10, GaugeFalls DEF Gauge
<1> QED
  BY <1>6, <1>11

(* A new playout needs room for a node and for an array.                   *)
LEMMA StartsKeepsTree ==
  ASSUME Typed, Typed', CreatedInv, NEW t \in Threads, Moves1(t), Starts(t),
         \A n \in Nodes : Settled(n) => n \in created
  PROVE  CreatedInv' /\ Gauge' <= Gauge + (1 + Widest)
<1>1. /\ SameTree /\ \A n \in Nodes : Settled(n)' <=> Settled(n)
      /\ created \subseteq Nodes /\ \A n \in Nodes : KidSet(n) \subseteq Nodes
  BY KidFacts DEF Starts, Typed, TypeOK
<1>2. created' = created /\ Edges' = Edges
  BY <1>1, EdgesSame DEF SameTree
<1>3. t \notin Busy /\ Busy' = Busy \cup {t}
  BY BusyMoves DEF Starts, Early
<1>4. Unsettled' = Unsettled
  BY <1>1, <1>2 DEF Unsettled
<1>5. Barren' = Barren
  BY <1>1 DEF Barren, SameTree
<1>6. CreatedInv'
  <2>1. StandsOn(t)'
    BY <1>2 DEF StandsOn, Starts, CreatedInv
  <2>2. \A n \in created' \ {Root} : moves'[Parent[n]] # "none"
    BY <1>1, <1>2, TreeFacts DEF CreatedInv, SameTree
  <2>3. \A n : ~Holds(t, n) /\ ~Tends(t, n)
    BY DEF Holds, Tends, Starts, Arriving, Working
  <2> QED
    BY <1>1, <1>2, <1>4, <1>5, <2>1, <2>2, <2>3, CreatedKept DEF SameTree
<1>7. Cardinality(Busy') = Cardinality(Busy) + 1
  BY <1>3, BusyMoves, Sizes, Finite
<1>8. TreeSize' = TreeSize
  BY <1>2 DEF TreeSize, Edges
<1>9. /\ TreeSize \in Nat /\ Widest \in Nat
      /\ Cardinality(Busy) \in Nat /\ Cardinality(Busy') \in Nat
      /\ Cardinality(Unsettled) \in Nat /\ Cardinality(Unsettled') \in Nat
      /\ Cardinality(Barren) \in Nat /\ Cardinality(Barren') \in Nat
  BY TreeCounts, TreeCountsNext, WidestBounds
<1>10. Gauge' <= Gauge + (1 + Widest)
  BY <1>4, <1>5, <1>7, <1>8, <1>9, GaugeFalls DEF Gauge
<1> QED
  BY <1>6, <1>10

(* A node is created in the room that was kept for it.                     *)
LEMMA CreatesKeepsTree ==
  ASSUME Typed, Typed', CreatedInv, NEW t \in Threads, Moves1(t), Creates(t),
         \A n \in Nodes : Settled(n) => n \in created
  PROVE  CreatedInv' /\ Gauge' <= Gauge
<1> PICK a : a = at[t]
  OBVIOUS
<1>1. /\ created' = created \cup {a} /\ moves' = moves
      /\ \A n \in Nodes : Settled(n)' <=> Settled(n)
      /\ created \subseteq Nodes /\ \A n \in Nodes : KidSet(n) \subseteq Nodes
      /\ a \in Nodes \ {Root} /\ Parent[a] \in Nodes /\ a \in KidSet(Parent[a])
      /\ moves[Parent[a]] # "none" /\ Parent[a] \in created
  <2>1. StandsOn(t)
    BY DEF CreatedInv
  <2> QED
    BY <2>1, KidFacts, TreeFacts DEF Creates, Typed, TypeOK, StandsOn, Settled
<1>2. Edges' = Edges /\ Barren' = Barren
  BY <1>1, EdgesSame DEF Barren
<1>3. Busy' = Busy
  BY BusyMoves DEF Creates, Early
<1>4. Unsettled' = IF a \in created THEN Unsettled ELSE Unsettled \cup {a}
  <2>1. a \notin created => ~Settled(a)
    BY <1>1
  <2> QED
    BY <1>1, <2>1 DEF Unsettled
<1>5. CreatedInv'
  <2>1. StandsOn(t)'
    BY <1>1 DEF StandsOn, Creates
  <2>2. \A n \in created' \ {Root} : moves'[Parent[n]] # "none"
    BY <1>1 DEF CreatedInv
  <2>3. \A n : ~Holds(t, n)
    BY DEF Holds, Creates, Arriving
  <2>4. Holds(t, a)'
    BY DEF Holds, Creates, Arriving
  <2>5. ASSUME NEW n, Tends(t, n) PROVE Tends(t, n)'
    <3>1. n = Parent[a]
      BY <2>5 DEF Tends, Spot, Creates, Arriving
    <3> QED
      BY <1>1, <3>1 DEF Tends, Creates, Arriving
  <2>6. \A n \in Unsettled' : n \in Unsettled \/ n = a
    BY <1>4
  <2>7. \A n \in Nodes : Settled(n)' => n \in created'
    BY <1>1
  <2> QED
    BY <1>1, <1>2, <2>1, <2>2, <2>3, <2>4, <2>5, <2>6, <2>7, CreatedKept
<1>6. /\ IsFiniteSet(created) /\ IsFiniteSet(Unsettled) /\ Widest \in Nat
      /\ Cardinality(created) \in Nat /\ Cardinality(Edges) \in Nat
      /\ Cardinality(Busy) \in Nat /\ Cardinality(Unsettled) \in Nat /\ Cardinality(Barren) \in Nat
      /\ TreeSize = Cardinality(created) + Cardinality(Edges)
      /\ TreeSize' = Cardinality(created') + Cardinality(Edges')
  BY TreeCounts, TreeCountsNext, WidestBounds
<1>7. TreeSize' - Cardinality(Unsettled') = TreeSize - Cardinality(Unsettled)
  <2>1. CASE a \in created
    <3>1. created' = created /\ Unsettled' = Unsettled
      BY <1>1, <1>4, <2>1
    <3> QED
      BY <1>2, <1>6, <3>1
  <2>2. CASE a \notin created
    <3>1. a \notin Unsettled
      BY <2>2 DEF Unsettled
    <3>2. /\ Cardinality(created') = Cardinality(created) + 1
          /\ Cardinality(Unsettled') = Cardinality(Unsettled) + 1
      BY <1>1, <1>4, <1>6, <2>2, <3>1, FS_AddElement
    <3> QED
      BY <1>2, <1>6, <3>2
  <2> QED
    BY <2>1, <2>2
<1>8. /\ Cardinality(Unsettled') \in Nat /\ TreeSize \in Nat /\ TreeSize' \in Nat
      /\ Widest * (Cardinality(Busy) - Cardinality(Barren)) \in Int
  BY <1>6, TreeCountsNext
<1>9. Gauge' = Gauge
  <2> PICK k : k = Widest * (Cardinality(Busy) - Cardinality(Barren))
    OBVIOUS
  <2>1. /\ Gauge = TreeSize + (Cardinality(Busy) - Cardinality(Unsettled)) + k
        /\ Gauge' = TreeSize' + (Cardinality(Busy) - Cardinality(Unsettled')) + k
    BY <1>2, <1>3 DEF Gauge
  <2> QED
    BY <1>6, <1>7, <1>8, <2>1
<1>10. Gauge \in Int
  BY <1>6, <1>8 DEF Gauge
<1> QED
  BY <1>5, <1>9, <1>10

(* So is an array of children.                                             *)
LEMMA BuildsKeepsTree ==
  ASSUME Typed, Typed', CreatedInv, NEW t \in Threads, Moves1(t), Builds(t),
         \A n \in Nodes : Settled(n) => n \in created
  PROVE  CreatedInv' /\ Gauge' <= Gauge
<1> PICK a : a = at[t]
  OBVIOUS
<1>1. /\ created' = created /\ moves' = [moves EXCEPT ![a] = "listed"]
      /\ moves \in [Nodes -> {"none", "listed", "priors"}]
      /\ \A n \in Nodes : Settled(n)' <=> Settled(n)
      /\ created \subseteq Nodes /\ \A n \in Nodes : KidSet(n) \subseteq Nodes
      /\ a \in created \ {Root} /\ a \in Nodes
  BY KidFacts, TreeFacts DEF Builds, Typed, TypeOK, Settled
<1>2. Unsettled' = Unsettled
  BY <1>1 DEF Unsettled
<1>3. Busy' = Busy
  BY BusyMoves DEF Builds, Early
<1>4. \A n \in Nodes : moves[n] # "none" => moves'[n] # "none"
  BY <1>1
<1>5. Edges' = Edges \cup KidSet(a)
  <2>1. ASSUME NEW n \in Nodes \ {Root} PROVE n \in Edges' <=> n \in Edges \/ n \in KidSet(a)
    <3>1. Parent[n] \in Nodes /\ (Parent[n] = a <=> n \in KidSet(a))
      BY <1>1, TreeFacts
    <3> QED
      BY <1>1, <3>1 DEF Edges
  <2>2. KidSet(a) \subseteq Nodes \ {Root} /\ Edges \subseteq Nodes \ {Root}
        /\ Edges' \subseteq Nodes \ {Root}
    BY <1>1, TreeFacts DEF Edges
  <2> QED
    BY <2>1, <2>2
<1>6. Barren \subseteq Barren' /\ Barren' \subseteq Barren \cup {a}
  BY <1>1 DEF Barren
<1>7. CreatedInv'
  <2>1. StandsOn(t)'
    BY <1>1 DEF StandsOn, Builds
  <2>2. \A n \in created' \ {Root} : moves'[Parent[n]] # "none"
    BY <1>1, <1>4, TreeFacts DEF CreatedInv
  <2>3. \A n : ~Holds(t, n) /\ ~Tends(t, n)
    BY DEF Holds, Tends, Builds, Arriving, Working
  <2>4. Tends(t, a)'
    BY DEF Tends, Spot, Builds, Working
  <2>5. \A n \in Nodes : Settled(n)' => n \in created'
    BY <1>1
  <2> QED
    BY <1>1, <1>2, <1>4, <1>6, <2>1, <2>2, <2>3, <2>4, <2>5, CreatedKept
<1>8. /\ IsFiniteSet(Edges) /\ IsFiniteSet(Barren) /\ Widest \in Nat
      /\ Cardinality(created) \in Nat /\ Cardinality(Edges) \in Nat /\ Cardinality(Edges') \in Nat
      /\ Cardinality(Busy) \in Nat /\ Cardinality(Unsettled) \in Nat
      /\ Cardinality(Barren) \in Nat /\ Cardinality(Barren') \in Nat
      /\ TreeSize = Cardinality(created) + Cardinality(Edges)
      /\ TreeSize' = Cardinality(created) + Cardinality(Edges')
      /\ TreeSize \in Nat /\ TreeSize' \in Nat
  BY <1>1, TreeCounts, TreeCountsNext, WidestBounds
<1>9. CASE Edges' = Edges /\ Barren' = Barren
  <2>1. Gauge' = Gauge
    BY <1>2, <1>3, <1>8, <1>9 DEF Gauge
  <2>2. Gauge \in Int
    BY <1>8 DEF Gauge
  <2> QED
    BY <1>7, <2>1, <2>2
<1>10. CASE moves[a] = "none" /\ Kids[a] # << >>
  <2>1. ASSUME NEW c \in KidSet(a) PROVE ~Settled(c)'
    <3>1. c \in Nodes \ {Root} /\ Parent[c] = a
      BY <1>1, TreeFacts
    <3>2. c \notin created
      BY <1>10, <3>1 DEF CreatedInv
    <3> QED
      BY <1>1, <3>1, <3>2
  <2>2. a \notin Barren /\ Barren' = Barren \cup {a}
    <3>1. a \notin Barren
      BY <1>10 DEF Barren
    <3>2. a \in Barren'
      BY <1>1, <1>10, <2>1 DEF Barren
    <3> QED
      BY <1>6, <3>1, <3>2
  <2>3. Cardinality(Barren') = Cardinality(Barren) + 1
    BY <1>8, <2>2, FS_AddElement
  <2>4. Cardinality(Edges') <= Cardinality(Edges) + Widest
    <3>1. /\ IsFiniteSet(KidSet(a)) /\ Cardinality(KidSet(a)) \in Nat
          /\ Cardinality(KidSet(a)) <= Widest
      BY <1>1, TreeFacts, WidestBounds, FS_CardinalityType
    <3>2. Cardinality(Edges') = Cardinality(Edges) + Cardinality(KidSet(a))
                                - Cardinality(Edges \cap KidSet(a))
      BY <1>5, <1>8, <3>1, FS_Union
    <3>3. Cardinality(Edges \cap KidSet(a)) \in Nat
      <4>1. IsFiniteSet(Edges \cap KidSet(a))
        BY <1>8, FS_Subset
      <4> QED
        BY <4>1, FS_CardinalityType
    <3> QED
      BY <1>8, <3>1, <3>2, <3>3
  <2>5. TreeSize' <= TreeSize + Widest
    BY <1>8, <2>4
  <2>6. Cardinality(Unsettled') = Cardinality(Unsettled) /\ Cardinality(Busy') = Cardinality(Busy)
    BY <1>2, <1>3
  <2>7. Gauge' <= Gauge
    BY <1>8, <2>3, <2>5, <2>6, GaugeFalls DEF Gauge
  <2> QED
    BY <1>7, <2>7
<1>11. CASE moves[a] # "none"
  <2>1. KidSet(a) \subseteq Edges
    BY <1>1, <1>11, TreeFacts DEF Edges
  <2>2. Barren' = Barren
    BY <1>1, <1>11 DEF Barren
  <2> QED
    BY <1>5, <1>9, <2>1, <2>2
<1>12. CASE Kids[a] = << >>
  <2>1. KidSet(a) = {}
    <3>1. DOMAIN Kids[a] = {}
      BY <1>12
    <3> QED
      BY <3>1 DEF KidSet
  <2>2. Barren' = Barren
    BY <1>1, <1>12 DEF Barren
  <2> QED
    BY <1>5, <1>9, <2>1, <2>2
<1> QED
  BY <1>10, <1>11, <1>12

(* What a worker may have started since its last look at the size of the   *)
(* tree: the iterations it has counted, and the one it is in.              *)
UsedOf(p, i) == [t \in Threads |-> i[t] + IF p[t] \in {"loop", "done"} THEN 0 ELSE 1]
Used == SumFunctionOnSet(UsedOf(pc, iter), Threads)

Allowed == IF 1 + Len(Kids[Root]) > TreeLimit THEN 1 + Len(Kids[Root]) ELSE TreeLimit

(* Until the tree is full or the search is stopped, every playout started  *)
(* since the last look has added one node and one child array at most.     *)
MemInv ==
  runs = 1 =>
    /\ CreatedInv
    /\ \A t \in Threads : iter[t] \in 0..(CheckInterval - 1)
    /\ Gauge <= Allowed + Cardinality(Threads) * CheckInterval * (1 + Widest)
    /\ ~stop /\ ~treeFull => Gauge <= Allowed + Used * (1 + Widest)

(* Every busy worker has used at least one iteration, none more than the   *)
(* interval.                                                               *)
LEMMA UsedBounds ==
  ASSUME NEW p, NEW i, \A t \in Threads : i[t] \in 0..(CheckInterval - 1)
  PROVE  /\ SumFunctionOnSet(UsedOf(p, i), Threads) \in Nat
         /\ Cardinality({t \in Threads : p[t] \in Early}) <= SumFunctionOnSet(UsedOf(p, i), Threads)
         /\ SumFunctionOnSet(UsedOf(p, i), Threads) <= Cardinality(Threads) * CheckInterval
<1> PICK f : f = UsedOf(p, i)
  OBVIOUS
<1> PICK B : B = {t \in Threads : p[t] \in Early}
  OBVIOUS
<1>1. CheckInterval \in Nat \ {0}
  BY SearchAssumption DEF SearchAssumption
<1>2. \A t \in Threads : f[t] \in Nat /\ f[t] <= CheckInterval
  BY <1>1 DEF UsedOf
<1>3. \A t \in B : f[t] >= 1
  <2>1. \A t \in B : t \in Threads /\ p[t] \notin {"loop", "done"}
    BY DEF Early
  <2> QED
    BY <1>1, <2>1 DEF UsedOf
<1>4. IsFiniteSet(Threads) /\ B \in SUBSET Threads /\ CheckInterval \in Nat
  BY <1>1, Finite
<1>5. /\ SumFunctionOnSet(f, Threads) \in Nat
      /\ Cardinality(B) <= SumFunctionOnSet(f, Threads)
      /\ SumFunctionOnSet(f, Threads) <= Cardinality(Threads) * CheckInterval
  BY ONLY <1>2, <1>3, <1>4, SumBounds
<1> QED
  BY <1>5

(* A worker's step and its iterations.                                     *)
LEMMA UsedStep ==
  ASSUME Typed, \A u \in Threads : iter[u] \in 0..(CheckInterval - 1),
         NEW t \in Threads, Playout(t)
  PROVE  /\ iter'[t] \in 0..(CheckInterval - 1)
         /\ stop => stop'
         /\ treeFull => treeFull'
         /\ \/ stop'
            \/ UsedOf(pc, iter)'[t] = UsedOf(pc, iter)[t] /\ ~(pc[t] = "loop" /\ pc'[t] = "enter")
            \/ /\ UsedOf(pc, iter)'[t] = UsedOf(pc, iter)[t] + 1
               /\ pc[t] = "loop" /\ pc'[t] = "enter"
            \/ pc[t] = "tick" /\ (treeFull' \/ TreeSize <= TreeLimit)
<1>1. /\ t \in DOMAIN pc /\ t \in DOMAIN iter /\ CheckInterval \in Nat \ {0}
      /\ iter[t] \in 0..(CheckInterval - 1) /\ stop \in BOOLEAN /\ treeFull \in BOOLEAN
      /\ Cardinality(created) \in Nat
  BY SearchAssumption, TreeCounts DEF Typed, TypeOK, SearchAssumption
<1>2. /\ UsedOf(pc, iter)[t] = iter[t] + IF pc[t] \in {"loop", "done"} THEN 0 ELSE 1
      /\ UsedOf(pc, iter)'[t] = iter'[t] + IF pc'[t] \in {"loop", "done"} THEN 0 ELSE 1
  BY DEF UsedOf
<1> USE DEF GoTo, stopVars
<1>3. CASE StartPlayout(t)
  <2>1. /\ pc[t] = "loop" /\ iter' = iter /\ stop' = stop /\ treeFull' = treeFull
        /\ pc'[t] \in {"enter", "done"}
    BY <1>1, <1>3 DEF StartPlayout
  <2> QED
    BY <1>1, <1>2, <2>1
<1>4. CASE Enter(t) \/ Visit(t) \/ Lock(t) \/ FirstVisit(t)
  <2>1. /\ pc[t] \notin {"loop", "done"} /\ iter' = iter /\ stop' = stop /\ treeFull' = treeFull
        /\ pc'[t] \notin {"loop", "done"}
    BY <1>1, <1>4 DEF Enter, Visit, Lock, FirstVisit, ResolveTerminalEdge
  <2> QED
    BY <1>1, <1>2, <2>1
<1>5. CASE ExpandNode(t) \/ ComputePriors(t) \/ SetExpanded(t) \/ Children(t) \/ ScanChild(t)
           \/ FinishScan(t) \/ Descend(t) \/ Count(t) \/ Validate(t) \/ Backup(t)
  <2>1. /\ pc[t] \notin {"loop", "done"} /\ iter' = iter /\ stop' = stop /\ treeFull' = treeFull
        /\ pc'[t] \notin {"loop", "done"}
    BY <1>1, <1>5 DEF ExpandNode, ComputePriors, SetExpanded, Children, ScanChild, FinishScan,
                      Descend, Count, Validate, Backup, ResolveTerminalEdge
  <2> QED
    BY <1>1, <1>2, <2>1
<1>6. CASE Unwind(t)
  <2>1. /\ pc[t] = "unwind" /\ iter' = iter /\ treeFull' = treeFull
        /\ stop' \/ (stop' = stop /\ pc' = pc)
    BY <1>1, <1>6 DEF Unwind
  <2> QED
    BY <1>1, <1>2, <2>1
<1>7. CASE Tick(t)
  <2>1. /\ pc[t] = "tick" /\ pc'[t] = "loop" /\ stop' = stop
        /\ iter'[t] = (iter[t] + 1) % CheckInterval
        /\ treeFull' = (treeFull \/ ((iter[t] + 1) % CheckInterval = 0 /\ TreeSize > TreeLimit))
    BY <1>1, <1>7 DEF Tick
  <2>2. CASE iter[t] + 1 < CheckInterval
    <3>1. (iter[t] + 1) % CheckInterval = iter[t] + 1
      BY <1>1, <2>2
    <3> QED
      BY <1>1, <1>2, <2>1, <2>2, <3>1
  <2>3. CASE iter[t] + 1 = CheckInterval
    <3>1. (iter[t] + 1) % CheckInterval = 0
      BY <1>1, <2>3
    <3>2. TreeSize \in Nat /\ TreeLimit \in Nat
      BY TreeCounts, SearchAssumption DEF SearchAssumption
    <3>3. TreeSize > TreeLimit => treeFull'
      BY <2>1, <3>1
    <3>4. TreeSize > TreeLimit \/ TreeSize <= TreeLimit
      BY <3>2
    <3> QED
      BY <1>1, <2>1, <3>1, <3>3, <3>4
  <2> QED
    BY <1>1, <2>2, <2>3
<1> QED
  BY <1>3, <1>4, <1>5, <1>6, <1>7 DEF Playout

(* Below the limit, the tree and what is under way exceed it by no more    *)
(* than a node and an array for each busy worker.                          *)
LEMMA GaugeBelowLimit ==
  ASSUME Typed
  PROVE  Gauge <= TreeSize + Cardinality(Busy) * (1 + Widest) /\ Gauge \in Int
<1> PICK s, b, u, r, w : /\ s = TreeSize /\ b = Cardinality(Busy) /\ u = Cardinality(Unsettled)
                         /\ r = Cardinality(Barren) /\ w = Widest
  OBVIOUS
<1>1. s \in Nat /\ b \in Nat /\ u \in Nat /\ r \in Nat /\ w \in Nat
  BY TreeCounts, WidestBounds
<1>2. Gauge = s + (b - u) + w * (b - r)
  BY DEF Gauge
<1>3. w * (b - r) <= w * b /\ w * (b - r) \in Int /\ w * b \in Int
  <2>1. w * (b - r) = w * b - w * r /\ w * r \in Nat /\ w * b \in Nat
    BY <1>1
  <2> QED
    BY <2>1
<1>4. b * (1 + w) = b + w * b
  BY <1>1
<1> QED
  BY <1>1, <1>2, <1>3, <1>4

(* A step of a worker keeps the bound on the gauge.                        *)
LEMMA MemWorker ==
  ASSUME Typed, Typed', PubInv, PlaceInv, RefInv, MemInv, runs = 1, NEW t \in Threads, Playout(t),
         [Next]_vars
  PROVE  MemInv'
<1>1. /\ CreatedInv /\ \A u \in Threads : iter[u] \in 0..(CheckInterval - 1)
      /\ Gauge <= Allowed + Cardinality(Threads) * CheckInterval * (1 + Widest)
      /\ ~stop /\ ~treeFull => Gauge <= Allowed + Used * (1 + Widest)
  BY DEF MemInv
<1>2. Moves1(t)
  BY OneMoves
<1>3. \A n \in Nodes : Settled(n) => n \in created
  <2>1. main = "search"
    BY WorkerMoves DEF PubInv, DoneInv
  <2> QED
    BY <1>1, <2>1 DEF CreatedInv
<1>4. Stays(t) \/ Ends(t) \/ Starts(t) \/ Creates(t) \/ Builds(t)
  BY <1>1, TreeEffects
<1>5. /\ CreatedInv'
      /\ Gauge' <= Gauge \/ (Starts(t) /\ Gauge' <= Gauge + (1 + Widest))
  <2>1. Gauge \in Int
    BY GaugeBelowLimit
  <2>2. CASE Stays(t)
    BY <1>1, <1>2, <1>3, <2>1, <2>2, StaysKeepsTree
  <2>3. CASE Ends(t)
    BY <1>1, <1>2, <1>3, <2>3, EndsKeepsTree
  <2>4. CASE Starts(t)
    BY <1>1, <1>2, <1>3, <2>4, StartsKeepsTree
  <2>5. CASE Creates(t)
    BY <1>1, <1>2, <1>3, <2>5, CreatesKeepsTree
  <2>6. CASE Builds(t)
    BY <1>1, <1>2, <1>3, <2>6, BuildsKeepsTree
  <2> QED
    BY <1>4, <2>2, <2>3, <2>4, <2>5, <2>6
<1>6. /\ iter'[t] \in 0..(CheckInterval - 1)
      /\ stop => stop'
      /\ treeFull => treeFull'
  BY <1>1, UsedStep
<1>7. \A u \in Threads : iter'[u] \in 0..(CheckInterval - 1)
  BY <1>1, <1>2, <1>6 DEF Moves1
<1> PICK f, g : f = UsedOf(pc, iter) /\ g = UsedOf(pc', iter')
  OBVIOUS
<1>8. \A u \in Threads \ {t} : g[u] = f[u]
  BY <1>2 DEF UsedOf, Moves1
<1>9. /\ Used \in Nat /\ Used' \in Nat
      /\ Used <= Cardinality(Threads) * CheckInterval
      /\ Used' <= Cardinality(Threads) * CheckInterval
      /\ Cardinality(Busy) <= Used /\ Cardinality(Busy') <= Used'
  BY <1>1, <1>7, UsedBounds DEF Used, Busy
<1>10. \A u \in Threads : f[u] \in Int /\ g[u] \in Int
  BY <1>1, <1>7 DEF UsedOf
<1>11. Used' = Used - f[t] + g[t]
  <2>1. /\ IsFiniteSet(Threads) /\ t \in Threads /\ g[t] \in Int
        /\ \A u \in Threads : f[u] \in Int
        /\ \A u \in Threads \ {t} : g[u] = f[u]
    BY <1>8, <1>10, Finite
  <2>2. SumFunctionOnSet(g, Threads) = SumFunctionOnSet(f, Threads) - f[t] + g[t]
    BY ONLY <2>1, SumChanged
  <2>3. Used = SumFunctionOnSet(f, Threads) /\ Used' = SumFunctionOnSet(g, Threads)
    BY DEF Used
  <2> QED
    BY <2>2, <2>3
<1>12. \/ stop'
       \/ g[t] = f[t] /\ ~Starts(t)
       \/ g[t] = f[t] + 1 /\ pc[t] = "loop"
       \/ pc[t] = "tick" /\ (treeFull' \/ TreeSize <= TreeLimit)
  <2>1. f = UsedOf(pc, iter) /\ g = UsedOf(pc, iter)'
    BY DEF UsedOf
  <2> QED
    BY <1>1, <2>1, UsedStep DEF Starts
<1> PICK w, T, A : w = 1 + Widest /\ T = Cardinality(Threads) * CheckInterval /\ A = Allowed
  OBVIOUS
<1>13. /\ w \in Nat /\ T \in Nat /\ A \in Nat /\ TreeLimit \in Nat /\ TreeLimit <= A
       /\ Gauge \in Int /\ Gauge' \in Int /\ TreeSize \in Nat
       /\ Cardinality(Busy) \in Nat /\ Cardinality(Busy') \in Nat
  <2>1. Gauge' \in Int
    BY TreeCountsNext, WidestBounds DEF Gauge
  <2>2. Len(Kids[Root]) \in Nat /\ TreeLimit \in Nat /\ CheckInterval \in Nat
    BY TreeFacts, KidFacts, SearchAssumption DEF SearchAssumption
  <2>3. Cardinality(Threads) * CheckInterval \in Nat
    BY <2>2, Finite
  <2>4. Allowed \in Nat /\ TreeLimit <= Allowed
    BY <2>2 DEF Allowed
  <2>5. /\ Gauge \in Int /\ TreeSize \in Nat /\ Widest \in Nat
        /\ Cardinality(Busy) \in Nat /\ Cardinality(Busy') \in Nat
    BY GaugeBelowLimit, WidestBounds, TreeCounts, TreeCountsNext
  <2> QED
    BY <2>1, <2>2, <2>3, <2>4, <2>5
<1>14. /\ \A i \in Nat, j \in Nat : i <= j => i * w <= j * w
       /\ \A i \in Nat : (i + 1) * w = i * w + w
       /\ \A i \in Nat : i * w \in Nat
  BY <1>13
<1>15. ~stop' /\ ~treeFull' => Gauge' <= A + Used' * w
  <2> SUFFICES ASSUME ~stop', ~treeFull' PROVE Gauge' <= A + Used' * w
    OBVIOUS
  <2>1. Gauge <= A + Used * w
    BY <1>1, <1>6
  <2>2. CASE g[t] = f[t] /\ ~Starts(t)
    <3>1. Used' = Used /\ Gauge' <= Gauge
      BY <1>5, <1>9, <1>10, <1>11, <2>2
    <3>2. Used * w \in Nat
      BY <1>9, <1>14
    <3> QED
      BY <1>13, <2>1, <3>1, <3>2
  <2>3. CASE g[t] = f[t] + 1 /\ pc[t] = "loop"
    <3>1. Used' = Used + 1
      BY <1>9, <1>10, <1>11, <2>3
    <3>2. Used' * w = Used * w + w /\ Used * w \in Nat
      BY <1>9, <1>14, <3>1
    <3>3. Gauge' <= Gauge + w
      BY <1>5, <1>13
    <3> QED
      BY <1>13, <2>1, <3>2, <3>3
  <2>4. CASE pc[t] = "tick" /\ TreeSize <= TreeLimit
    <3>1. Gauge <= TreeSize + Cardinality(Busy) * w
      BY GaugeBelowLimit
    <3>2. Stays(t)
      BY <1>4, <2>4 DEF Ends, Starts, Creates, Builds, Early
    <3>3. Gauge' = Gauge /\ Busy' = Busy
      BY <1>1, <1>2, <1>3, <3>2, StaysKeepsTree, BusyMoves DEF Stays
    <3>4. Cardinality(Busy) * w <= Used' * w /\ Cardinality(Busy) * w \in Nat /\ Used' * w \in Nat
      BY <1>9, <1>13, <1>14, <3>3
    <3> QED
      BY <1>13, <2>4, <3>1, <3>3, <3>4
  <2> QED
    BY <1>12, <2>2, <2>3, <2>4
<1>16. Gauge' <= A + T * w
  <2>1. Gauge <= A + T * w /\ T * w \in Nat
    BY <1>1, <1>13, <1>14
  <2>2. CASE Gauge' <= Gauge
    BY <1>13, <2>1, <2>2
  <2>3. CASE Starts(t)
    <3>1. StartPlayout(t)
      BY <2>3 DEF Starts, Playout, Enter, Visit, Lock, FirstVisit, ExpandNode, ComputePriors,
                  SetExpanded, Children, ScanChild, FinishScan, Descend, Count, Validate,
                  Backup, Unwind, Tick
    <3>2. ~stop' /\ ~treeFull'
      BY <2>3, <3>1 DEF Starts, IsSearchActive, StartPlayout, stopVars
    <3>3. Gauge' <= A + Used' * w /\ Used' * w <= T * w /\ Used' * w \in Nat
      BY <1>9, <1>13, <1>14, <1>15, <3>2
    <3> QED
      BY <1>13, <2>1, <3>3
  <2> QED
    BY <1>5, <2>2, <2>3
<1> QED
  BY <1>5, <1>7, <1>15, <1>16 DEF MemInv

(* The gauge at the start: the root and its children.                      *)
LEMMA MemInit == Init => MemInv
<1> SUFFICES ASSUME Init PROVE MemInv
  OBVIOUS
<1>0. Typed
  BY TypeInit DEF Typed
<1>1. /\ created = {Root} /\ moves[Root] # "none" /\ Root \in Nodes
      /\ \A n \in Nodes \ {Root} : moves[n] = "none" /\ state[n] = "fresh" /\ flags[n] = {}
      /\ \A t \in Threads : pc[t] = "loop" /\ iter[t] = 0
      /\ CheckInterval \in Nat \ {0} /\ TreeLimit \in Nat /\ Len(Kids[Root]) \in Nat
  BY TreeFacts, KidFacts, SearchAssumption DEF Init, SearchAssumption
<1>2. Unsettled = {} /\ Barren = {} /\ Busy = {}
  BY <1>1 DEF Unsettled, Barren, Busy, Early
<1>3. CreatedInv
  BY <1>1, <1>2 DEF CreatedInv, StandsOn, Settled, Early
<1>4. Edges = KidSet(Root)
  <2>1. ASSUME NEW n \in Nodes \ {Root} PROVE n \in Edges <=> n \in KidSet(Root)
    <3>1. Parent[n] \in Nodes /\ (Parent[n] = Root <=> n \in KidSet(Root))
      BY <1>1, TreeFacts
    <3> QED
      BY <1>1, <3>1 DEF Edges
  <2>2. KidSet(Root) \subseteq Nodes \ {Root} /\ Edges \subseteq Nodes \ {Root}
    BY <1>1, TreeFacts DEF Edges
  <2> QED
    BY <2>1, <2>2
<1>5. /\ Cardinality(created) = 1 /\ Cardinality(Edges) <= Len(Kids[Root])
      /\ Cardinality(Unsettled) = 0 /\ Cardinality(Barren) = 0 /\ Cardinality(Busy) = 0
  BY <1>1, <1>2, <1>4, KidCount, FS_Singleton, FS_EmptySet
<1>6. Gauge <= 1 + Len(Kids[Root]) /\ Gauge \in Int
  <2>1. Widest * (0 - 0) = 0 /\ Widest \in Nat
    BY WidestBounds
  <2>2. TreeSize = Cardinality(created) + Cardinality(Edges) /\ Cardinality(Edges) \in Nat
    BY <1>0, TreeCounts
  <2>3. Gauge = TreeSize + (0 - 0) + Widest * (0 - 0)
    BY <1>5 DEF Gauge
  <2> QED
    BY <1>1, <1>5, <2>1, <2>2, <2>3
<1>7. Allowed \in Nat /\ 1 + Len(Kids[Root]) <= Allowed
  BY <1>1 DEF Allowed
<1>8. Used \in Nat /\ Used <= Cardinality(Threads) * CheckInterval
  <2>1. \A t \in Threads : iter[t] \in 0..(CheckInterval - 1)
    BY <1>1
  <2> QED
    BY <2>1, UsedBounds DEF Used
<1>9. /\ Used * (1 + Widest) \in Nat
      /\ Cardinality(Threads) * CheckInterval * (1 + Widest) \in Nat
  <2>1. Cardinality(Threads) * CheckInterval \in Nat /\ 1 + Widest \in Nat
    BY <1>1, Finite, WidestBounds
  <2>2. \A i \in Nat, j \in Nat : i * j \in Nat
    OBVIOUS
  <2> QED
    BY <1>8, <2>1, <2>2
<1> QED
  BY <1>1, <1>3, <1>6, <1>7, <1>9 DEF MemInv

(* The steps of the calling thread, and of whoever stops the search.       *)
LEMMA MemOthers ==
  ASSUME Typed, Typed', PubInv, MemInv, runs = 1,
         Main \/ Stop \/ Finished \/ UNCHANGED vars
  PROVE  MemInv'
<1>1. /\ CreatedInv /\ \A u \in Threads : iter[u] \in 0..(CheckInterval - 1)
      /\ Gauge <= Allowed + Cardinality(Threads) * CheckInterval * (1 + Widest)
      /\ ~stop /\ ~treeFull => Gauge <= Allowed + Used * (1 + Widest)
  BY DEF MemInv
<1>2. /\ pc' = pc /\ at' = at /\ iter' = iter /\ treeFull' = treeFull
      /\ created' = created /\ moves' = moves /\ state' = state
      /\ stop => stop'
  BY DEF Main, Join, GuardAttempt, Report, Stop, Finished, vars, treeVars, stopVars, threadVars
<1>3. Edges' = Edges /\ Busy' = Busy /\ Used' = Used /\ TreeSize' = TreeSize
  BY <1>2 DEF Edges, Busy, Used, UsedOf, TreeSize
<1>4. \A t \in Threads : StandsOn(t)' <=> StandsOn(t)
  BY <1>2 DEF StandsOn
<1>5. \A t \in Threads : \A n : Holds(t, n)' = Holds(t, n) /\ Tends(t, n)' = Tends(t, n)
  BY <1>2 DEF Holds, Tends, Spot
<1>6. CASE flags' = flags /\ (main' = "search" => main = "search" /\ runs' = runs)
  <2>1. \A n : Settled(n)' = Settled(n)
    BY <1>2, <1>6 DEF Settled
  <2>2. Unsettled' = Unsettled /\ Barren' = Barren
    BY <1>2, <2>1 DEF Unsettled, Barren
  <2>3. CreatedInv'
    <3>1. main' = "search" => \A n \in Nodes : Settled(n)' => n \in created'
      BY <1>1, <1>2, <1>6, <2>1 DEF CreatedInv
    <3> QED
      BY <1>1, <1>2, <1>4, <1>5, <2>2, <3>1 DEF CreatedInv
  <2>4. Gauge' = Gauge
    BY <1>3, <2>2 DEF Gauge
  <2> QED
    BY <1>1, <1>2, <1>3, <2>3, <2>4 DEF MemInv
<1>7. CASE GuardAttempt
  <2>1. main = "guard" /\ main' # "search"
    BY <1>7 DEF GuardAttempt
  <2>2. \A t \in Threads : pc[t] = "done"
    BY <2>1 DEF PubInv, DoneInv
  <2>3. Unsettled = {} /\ Barren = {}
    BY <1>1, <2>2 DEF CreatedInv, Holds, Tends, Arriving, Working
  <2>4. \A n \in Nodes : Settled(n) => Settled(n)'
    BY <1>2, <1>7 DEF GuardAttempt, Settled, Typed, TypeOK
  <2>5. Unsettled' = {} /\ Barren' = {}
    <3>1. Unsettled' \subseteq Unsettled
      BY <1>2, <2>4 DEF Unsettled, Typed, TypeOK
    <3>2. Barren' \subseteq Barren
      BY <1>2, <2>4, KidFacts DEF Barren
    <3> QED
      BY <2>3, <3>1, <3>2
  <2>6. Gauge' = Gauge
    BY <1>3, <2>3, <2>5 DEF Gauge
  <2>7. CreatedInv'
    BY <1>1, <1>2, <1>4, <2>1, <2>5 DEF CreatedInv
  <2> QED
    BY <1>1, <1>2, <1>3, <2>6, <2>7 DEF MemInv
<1>8. CASE ~GuardAttempt
  BY <1>6, <1>8 DEF Main, Join, Report, Stop, Finished, vars, treeVars, mainVars
<1> QED
  BY <1>7, <1>8

(* The bound on the gauge, for every step of the first run.                *)
LEMMA MemStep ==
  Typed /\ Typed' /\ PubInv /\ PlaceInv /\ RefInv /\ MemInv /\ [Next]_vars => MemInv'
<1> SUFFICES ASSUME Typed, Typed', PubInv, PlaceInv, RefInv, MemInv, [Next]_vars
             PROVE  MemInv'
  OBVIOUS
<1>1. CASE runs' # 1
  BY <1>1 DEF MemInv
<1>2. CASE runs' = 1 /\ RunAgain
  <2>1. runs' = runs + 1 /\ runs \in 1..MaxRuns /\ MaxRuns \in Nat
    BY <1>2, SearchAssumption DEF RunAgain, Typed, TypeOK, SearchAssumption
  <2> QED
    BY <1>2, <2>1
<1>3. ASSUME runs' = 1, ~RunAgain, NEW t \in Threads, Playout(t) PROVE MemInv'
  <2>1. runs = 1
    BY <1>3, WorkerLeavesMain DEF mainVars
  <2> QED
    BY <1>3, <2>1, MemWorker
<1>4. CASE runs' = 1 /\ (Main \/ Stop \/ Finished \/ UNCHANGED vars)
  <2>1. runs = 1
    BY <1>4 DEF Main, Join, GuardAttempt, Report, Stop, Finished, vars, mainVars
  <2> QED
    BY <1>4, <2>1, MemOthers
<1> QED
  BY <1>1, <1>2, <1>3, <1>4 DEF Next

(* The tree is no larger than the gauge.                                   *)
LEMMA MemSuffices ==
  ASSUME Typed, MemInv
  PROVE  TreeOvershootBounded
<1>1. SUFFICES ASSUME runs = 1
               PROVE  TreeSize <= Allowed + Cardinality(Threads) * CheckInterval * (1 + Widest)
  BY DEF TreeOvershootBounded, Allowed, Widest
<1> PICK b, u, r, w : /\ b = Cardinality(Busy) /\ u = Cardinality(Unsettled)
                      /\ r = Cardinality(Barren) /\ w = Widest
  OBVIOUS
<1>2. /\ b \in Nat /\ u \in Nat /\ r \in Nat /\ w \in Nat /\ TreeSize \in Nat
      /\ u <= b /\ r <= b
  BY <1>1, TreeCounts, WidestBounds, EachHasItsOwn DEF MemInv
<1>3. w * (b - r) \in Nat
  <2>1. b - r \in Nat /\ \A i \in Nat, j \in Nat : i * j \in Nat
    BY <1>2
  <2> QED
    BY <1>2, <2>1
<1>4. Gauge = TreeSize + (b - u) + w * (b - r)
  BY DEF Gauge
<1> PICK k : k = Allowed + Cardinality(Threads) * CheckInterval * (1 + Widest)
  OBVIOUS
<1>5. Gauge <= k
  BY <1>1 DEF MemInv
<1>6. k \in Int
  <2>1. /\ Allowed \in Nat /\ Cardinality(Threads) \in Nat /\ CheckInterval \in Nat
        /\ 1 + Widest \in Nat
    BY TreeFacts, KidFacts, Finite, WidestBounds, SearchAssumption DEF SearchAssumption, Allowed
  <2>2. \A i \in Nat, j \in Nat : i * j \in Nat
    OBVIOUS
  <2>3. Cardinality(Threads) * CheckInterval \in Nat
    BY <2>1, <2>2
  <2> QED
    BY <2>1, <2>2, <2>3
<1>7. TreeSize <= k
  BY <1>2, <1>3, <1>4, <1>5, <1>6
<1> QED
  BY <1>7

(* In its first run the search passes the memory limit by no more than a   *)
(* node and a child array for each playout that the workers may begin      *)
(* between two looks at the size of the tree.                              *)
THEOREM MemoryIsBounded == Spec => []TreeOvershootBounded
<1>1. Init => RefInv /\ StatInv /\ MemInv
  BY InitRefInv, StatInit, MemInit
<1>2. Typed /\ Typed' /\ PubInv /\ RefInv /\ StatInv /\ MemInv /\ [Next]_vars
        => RefInv' /\ StatInv' /\ MemInv'
  BY RefInvStep, StatStep, MemStep DEF PubInv, StatInv
<1>3. Typed /\ MemInv => TreeOvershootBounded
  BY MemSuffices
<1> QED
  BY <1>1, <1>2, <1>3, PubAlways, PTL DEF Spec
=============================================================================

----------------------------- MODULE MateSolvers -----------------------------
(***************************************************************************)
(* The solvers of src/mate/ as the engine uses them (RootMateState has one *)
(* of df-pn and BNS): a session gives one solver some problems in turn,    *)
(* and what each answers is compared with the rules of the game.  The      *)
(* object of df-pn is Dfpn's, that of BNS is B.                            *)
(***************************************************************************)
EXTENDS Dfpn, MateRules, BranchNumbers, TLC

CONSTANTS Sessions,    \* records [solver, problems, limits]
          Clusters, Generations

(* What a session gives to df-pn is what the Spec of Dfpn allows.          *)
ASSUME SessionsAssumption ==
    \A s \in Sessions : ToSet(s.problems) \subseteq Problems /\ s.limits.pool \in 0..(INF - 1)

VARIABLES session, solved,
          tt, gen, routes, entries, limitHit, late        \* of BNS

common == <<g, budget, pc, frames, stopped, answer>>
dfpnOnly == <<tree, used, searched>>
bnsOnly == <<tt, gen, routes, entries, limitHit, late>>
sessionVars == <<session, solved, common, dfpnOnly, bnsOnly>>

B == INSTANCE Bns WITH opts <- budget
S == INSTANCE ShallowMate

SessionInit ==
    /\ session \in Sessions
    /\ solved = 0
    /\ g = session.problems[1] /\ budget = session.limits
    /\ Init /\ B!Init

NextOfSession ==
    /\ pc = "done" /\ solved + 1 < Len(session.problems)
    /\ solved' = solved + 1
    /\ g' = session.problems[solved + 2]
    /\ pc' = "idle"
    /\ UNCHANGED <<session, budget, frames, stopped, answer, dfpnOnly, bnsOnly>>

(* The thread of the solver, and what comes from others in the sessions    *)
(* that are interrupted: stop(), and the deadline that BNS alone has as    *)
(* well.                                                                   *)
Solve ==
    \/ session.solver = "dfpn" /\ Step /\ UNCHANGED <<session, solved, bnsOnly>>
    \/ session.solver = "bns" /\ B!Step /\ UNCHANGED <<session, solved, dfpnOnly>>

Interrupt ==
    /\ session.interrupted
    /\ \/ session.solver = "dfpn" /\ Stop /\ UNCHANGED <<session, solved, bnsOnly>>
       \/ session.solver = "bns" /\ (B!Stop \/ B!Deadline) /\ UNCHANGED <<session, solved, dfpnOnly>>

SessionNext == Solve \/ NextOfSession \/ Interrupt

(* The thread of the solver runs on until it is done; nothing makes a stop *)
(* or a deadline come.  This is weak fairness of Solve \/ NextOfSession,   *)
(* which are enabled until the last problem is done.                       *)
Finished == pc = "done" /\ solved + 1 = Len(session.problems)
SessionSpec == SessionInit /\ [][SessionNext]_sessionVars
FairSpec == SessionSpec /\ ([]<>Finished \/ []<><<Solve \/ NextOfSession>>_sessionVars)

-----------------------------------------------------------------------------
(* Properties. *)

(* The game the verdicts are about.  Df-pn makes none of the checks that   *)
(* the probe outside check takes for mates, so that they are mates to it;  *)
(* BNS asks that probe for the line alone.                                 *)
Judged == IF session.solver = "dfpn" THEN g ELSE InFact(g)

(* A mate that is reported is forced, whatever the defender does and the   *)
(* rule on repetitions says of it (search()).                              *)
MatesForced == pc = "done" /\ answer.verdict = "mate" => ForcedMate(Judged, RootLine(g), Unlimited)

(* When the absence of mates is reported, there is none (IsNoMate).        *)
NoMateTrue == pc = "done" /\ answer.verdict = "no mate" => ~ForcedMate(Judged, RootLine(g), Unlimited)

(* What the engine takes from a solver: both, for every problem of a       *)
(* session, whatever the earlier ones left in the table.                   *)
VerdictsSound == MatesForced /\ NoMateTrue

(* The line reported with a mate is one of the game's, and ends with it,   *)
(* or with a check that the probe outside check takes for it, from either  *)
(* solver: ExtractPV meets no missing child, no cycle and no other         *)
(* position.                                                               *)
LinesMate == pc = "done" /\ answer.verdict = "mate" => answer.pv # <<>> /\ IsMatingLine(g, answer.pv)

(* A child is searched with thresholds above its numbers, so that its      *)
(* search moves on: also at the infinity of the numbers and between equal  *)
(* children.                                                               *)
Callers == Front(frames)
DescentsProgress ==
    IF session.solver = "dfpn" THEN CallsProgress
    ELSE pc = "enter" /\ Len(frames) > 1 /\ ~stopped =>
            LET here == Last(frames)
                caller == Last(Callers)
                view == caller.views[caller.best].view
            IN  view.abn < here.th.abn /\ view.obn < here.th.obn

(* The bounded search says "mate" of a mate within its depth alone, or of  *)
(* one whose last move the probe outside check takes for a mate; when it   *)
(* was not cancelled it misses none but through counterchecks and the      *)
(* mates that probe misses; a search that was cancelled at any of its      *)
(* polls claims nothing else.                                              *)
ShallowMateSound ==
    pc = "idle" =>
        \A depth \in {1, 3, 5, 7}, polls \in 0..12 \cup {Unlimited}, sticky \in BOOLEAN :
            LET probe == S!ProbeMateWithin(g, RootLine(g), depth, S!SearchLimits(polls, sticky))
                counterchecks == \E p \in g.checked : Attack(p) /\ p # Root
                missed == \E e \in g.misjudged : IsMated(g, e[2])
            IN  /\ probe = "mate" => ForcedMate(g, RootLine(g), depth)
                /\ probe = "no mate" =>
                      ~ForcedMate(InFact(g), RootLine(g), depth) \/ counterchecks \/ missed

(* A search ends, with or without a verdict.                               *)
SearchEnds == [](pc # "done" => <>(pc = "done"))
=============================================================================

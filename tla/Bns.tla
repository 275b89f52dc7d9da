-------------------------------- MODULE Bns --------------------------------
(***************************************************************************)
(* The BNS mate solver (src/mate/bns.cc, bns.h): threshold iteration over  *)
(* a table keyed by position and ply, of clusters of two entries that      *)
(* belong to a generation.  Verdicts that hold on the present route only   *)
(* (repetitions, the cap of the depth) are kept out of the table, in a     *)
(* list of overrides.  The recursion of SearchImpl is a stack of frames.   *)
(***************************************************************************)
EXTENDS MateGraph

CONSTANTS Clusters,      \* clusters of the table
          Generations,   \* bound: generations until the counter wraps (2^16)
          kInf           \* infinity of the branch numbers

N == INSTANCE BranchNumbers

VARIABLES
    g,          \* the problem
    opts,       \* pnDn (arith_), nodes, maxPly, checks (root_mate3_checks_)
    pc,         \* the next step of search() and SearchImpl
    tt,         \* the table, tt[cluster][1..2]: tag, view
    gen,        \* gen_
    routes,     \* overrides_, and override_version_
    frames,     \* the calls of SearchImpl
    entries,    \* node_entries
    limitHit, stopped, late,    \* limit_hit_, stop_, deadline_passed_
    answer      \* "mate", "no mate" or "unresolved", and pv_, whose first move is returned

vars == <<g, opts, pc, tt, gen, routes, frames, entries, limitHit, stopped, late, answer>>

-----------------------------------------------------------------------------
(* The table.  A lookup ends at the first stale entry: entries fill a      *)
(* cluster from the front and stay for the generation.                     *)
Ways == 1..2
NoTag == [pos |-> 0, ply |-> 0, gen |-> 0]
EmptyTable == [c \in 0..(Clusters - 1) |-> [w \in Ways |-> [tag |-> NoTag, view |-> N!OpenView]]]

IndexOf(pos, ply) == (pos + ply) % Clusters
TagOf(pos, ply) == [pos |-> pos, ply |-> ply, gen |-> gen]
Live(entry) == entry.tag.gen = gen

(* Where a key is, or is to be written: its entry, the first stale one, or *)
(* the first of the cluster (VictimPolicy::kAlwaysFirst).                  *)
Way(t, pos, ply) ==
    LET c == t[IndexOf(pos, ply)]
        usable == {w \in Ways : c[w].tag = TagOf(pos, ply) \/ ~Live(c[w])}
    IN  IF usable = {} THEN 1 ELSE Min(usable)
Entry(t, pos, ply) == t[IndexOf(pos, ply)][Way(t, pos, ply)]
IsStored(t, pos, ply) == Entry(t, pos, ply).tag = TagOf(pos, ply)

Probe(t, pos, ply) == IF IsStored(t, pos, ply) THEN Entry(t, pos, ply).view ELSE N!OpenView
Store(t, pos, ply, view) ==
    [t EXCEPT ![IndexOf(pos, ply)][Way(t, pos, ply)] = [tag |-> TagOf(pos, ply), view |-> view]]
ProbeOrStore(t, pos, ply) == IF IsStored(t, pos, ply) THEN t ELSE Store(t, pos, ply, N!OpenView)

-----------------------------------------------------------------------------
(* Verdicts on a route: anchored at the ancestor at some ply, with which   *)
(* they go.                                                                *)
Untainted == [on |-> FALSE, anchor |-> 0, kind |-> "path"]
Tainted(anchor, kind) == [on |-> TRUE, anchor |-> anchor, kind |-> kind]

Override(r, pos, view, taint) ==
    [list |-> Append(r.list, [pos |-> pos, view |-> view, taint |-> taint]),
     version |-> r.version + 1]

DropOverridesAtReturn(r, ply) ==
    LET kept == SelectSeq(r.list, LAMBDA o : o.taint.anchor < ply)
    IN  [list |-> kept, version |-> r.version + (IF kept = r.list THEN 0 ELSE 1)]

(* The latest override of the position, else what the table has.           *)
LookupChild(pos, ply) ==
    LET marks == SelectSeq(routes.list, LAMBDA o : o.pos = pos)
    IN  IF marks # <<>> THEN [view |-> Last(marks).view, taint |-> Last(marks).taint]
        ELSE [view |-> Probe(tt, pos, ply), taint |-> Untainted]

-----------------------------------------------------------------------------
Top == Last(frames)
Ply == Len(frames) - 1
OrNode == Attack(Top.pos)
Path == [i \in DOMAIN frames |-> frames[i].pos]
Line == g.past \o Path
Summary == N!Summarize(OrNode, opts.pnDn, [i \in DOMAIN Top.views |-> Top.views[i].view])
Call(pos, th) == [pos |-> pos, th |-> th, views |-> <<>>, refresh |-> 0, seen |-> -1, best |-> 0]

Init ==
    /\ pc = "idle" /\ tt = EmptyTable /\ gen = 0
    /\ routes = [list |-> <<>>, version |-> 0]
    /\ frames = <<>> /\ entries = 0
    /\ limitHit = FALSE /\ stopped = FALSE /\ late = FALSE
    /\ answer = [verdict |-> "unresolved", pv |-> <<>>]

(* Extract3PlyLine: the line of a mate in one or three among the first so  *)
(* many checks, as a set of at most one; a line that repeats is passed by. *)
NoRepetition(line) == CheckRepetition(g, line, Lookback)[1] = 0

\* Mutant: an answer that repeats is taken for one that mates.
AnswersAnyway(line, approx) ==
    IF Here(line) \in g.checked \/ ~approx THEN FindMateInOne(g, Here(line))
    ELSE FindMateInOneApprox(g, Here(line))

Answers(line, approx) ==
    IF ~NoRepetition(line) THEN <<>>
    ELSE IF Here(line) \in g.checked \/ ~approx THEN FindMateInOne(g, Here(line))
    ELSE FindMateInOneApprox(g, Here(line))
Extract3PlyLine(line, checks, approx) ==
    LET moves == Moves(g, Here(line))
        After(i) == Append(line, moves[i])
        Evasions(i) == Moves(g, moves[i])
        Reply(i, q) == Answers(Append(After(i), q), approx)
        good == {i \in DOMAIN moves : i <= checks /\ NoRepetition(After(i))
                    /\ \A q \in ToSet(Evasions(i)) : Reply(i, q) # <<>>}
        first == Min(good)
        last == Last(Evasions(first))
    IN  IF good = {} THEN {}
        ELSE IF Evasions(first) = <<>> THEN {<<moves[first]>>}
        ELSE {<<moves[first], last>> \o Reply(first, last)}

(* search(): the generation moves on, wiping the table when it wraps; then *)
(* the bounded probe at the root.                                          *)
GenAfter == (gen + 1) % Generations

\* Mutant: the table is taken over.
SameGen == IF gen = 0 THEN 1 ELSE gen

NewGen == IF GenAfter = 0 THEN 1 ELSE GenAfter

Start ==
    LET found == IF opts.checks = 0 THEN {} ELSE Extract3PlyLine(RootLine(g), opts.checks, TRUE)
    IN  /\ pc = "idle"
        /\ gen' = NewGen
        /\ tt' = IF GenAfter = 0 THEN EmptyTable ELSE tt
        /\ routes' = [list |-> <<>>, version |-> 0]
        /\ entries' = 0 /\ limitHit' = FALSE /\ late' = FALSE
        /\ IF stopped \/ found # {}
           THEN /\ pc' = "done" /\ frames' = <<>>
                /\ answer' = IF stopped THEN [verdict |-> "unresolved", pv |-> <<>>]
                             ELSE LET pv == CHOOSE x \in found : TRUE IN [verdict |-> "mate", pv |-> pv]
           ELSE /\ pc' = "enter" /\ frames' = <<Call(Root, [abn |-> kInf, obn |-> kInf])>>
                /\ answer' = [verdict |-> "unresolved", pv |-> <<>>]
        /\ UNCHANGED <<g, opts, stopped>>

(* A return: overrides anchored below the caller go; a stop unwinds all.   *)
Return(r, limit) ==
    LET callers == Front(frames)
        halted == callers = <<>> \/ limit \/ stopped
    IN  /\ frames' = IF halted THEN <<>>
                     ELSE [callers EXCEPT ![Len(callers)].refresh = Last(callers).best]
        /\ pc' = IF halted THEN "judge" ELSE "refresh"
        /\ routes' = IF callers = <<>> THEN r ELSE DropOverridesAtReturn(r, Ply)

(* The first steps of SearchImpl: own entry, mate in one, moves.           *)
FirstVisit == ~IsStored(tt, Top.pos, Ply)
MateInOne == IF Top.pos \in g.checked THEN FindMateInOne(g, Top.pos) ELSE FindMateInOneApprox(g, Top.pos)
DecidedAtOnce ==
    \/ OrNode /\ FirstVisit /\ MateInOne # <<>>
    \/ Moves(g, Top.pos) = <<>>
ViewAtOnce == IF OrNode /\ MateInOne = <<>> THEN N!NoMateView ELSE N!MateView

EnterDecided ==
    /\ pc = "enter" /\ DecidedAtOnce
    /\ entries' = entries + 1
    /\ tt' = Store(tt, Top.pos, Ply, ViewAtOnce)
    /\ Return(routes, limitHit)
    /\ UNCHANGED <<g, opts, gen, limitHit, stopped, late, answer>>

Enter ==
    /\ pc = "enter" /\ ~DecidedAtOnce
    /\ entries' = entries + 1
    /\ tt' = ProbeOrStore(tt, Top.pos, Ply)
    /\ pc' = "refresh"
    /\ UNCHANGED <<g, opts, gen, routes, frames, limitHit, stopped, late, answer>>

(* Views of the children: all, or that of the child just searched alone,   *)
(* unless the overrides have changed meanwhile.                            *)
Refresh ==
    LET moves == Moves(g, Top.pos)
        all == Top.refresh = 0 \/ Top.seen # routes.version
        View(i) == IF all \/ i = Top.refresh THEN LookupChild(moves[i], Ply + 1) ELSE Top.views[i]
    IN  /\ pc = "refresh"
        /\ pc' = "decide"
        /\ frames' = [frames EXCEPT ![Len(frames)].views = [i \in DOMAIN moves |-> View(i)],
                                    ![Len(frames)].seen = routes.version]
        /\ UNCHANGED <<g, opts, tt, gen, routes, entries, limitHit, stopped, late, answer>>

(* What a verdict inherits: the taints of the children that decide it.     *)
(* Those anchored at this very node dissolve, a cap of the depth never     *)
(* does; of several anchors the deepest counts.                            *)
\* Mutant: a cycle through an ancestor dissolves too.
DissolvesAlways(taint) == taint.kind = "path"

Dissolves(taint) == taint.kind = "path" /\ taint.anchor >= Ply

InheritedTaint ==
    LET deciding == IF Summary.best > 0 THEN {Summary.best} ELSE DOMAIN Top.views
        taints == {t \in {Top.views[i].taint : i \in deciding} : t.on /\ ~Dissolves(t)}
        kind == IF \E t \in taints : t.kind = "resource" THEN "resource" ELSE "path"
    IN  IF taints = {} THEN Untainted ELSE Tainted(Max({t.anchor : t \in taints}), kind)

Settle ==
    /\ pc = "decide" /\ Summary.terminal
    /\ LET taint == InheritedTaint
       IN  /\ tt' = IF taint.on THEN tt ELSE Store(tt, Top.pos, Ply, Summary.view)
           /\ Return(IF taint.on THEN Override(routes, Top.pos, Summary.view, taint) ELSE routes, limitHit)
    /\ UNCHANGED <<g, opts, gen, entries, limitHit, stopped, late, answer>>

(* Not decided: the numbers are stored, and the search goes on below       *)
(* unless they have reached the thresholds or a limit is met.              *)
StoreNumbers == tt' = Store(tt, Top.pos, Ply, Summary.view)
Undecided == pc = "decide" /\ ~Summary.terminal
Reached == Top.th.abn <= Summary.view.abn \/ Top.th.obn <= Summary.view.obn
MustStop == limitHit \/ entries >= opts.nodes \/ stopped \/ late

Withdraw ==
    /\ Undecided /\ (Reached \/ MustStop)
    /\ StoreNumbers
    /\ limitHit' = (limitHit \/ (~Reached /\ MustStop))
    /\ Return(routes, limitHit')
    /\ UNCHANGED <<g, opts, gen, entries, stopped, late, answer>>

Child == Moves(g, Top.pos)[Summary.best]
ChildThresholds == N!ChildThresholds(OrNode, Summary, Top.views[Summary.best].view, Top.th)

(* The verdict on a child that ends the route: at the cap of the depth, by *)
(* the rule within the window, by any earlier occurrence beyond it.  A     *)
(* repetition of a position of the game itself holds on every route.       *)
RouteVerdict ==
    LET rep == CheckRepetition(g, Append(Line, Child), Lookback)
        anchor == Ply + 1 - rep[1]
        earlier == {i \in 0..Ply : i <= Ply - Lookback /\ Path[i + 1] = Child}
        view == IF rep[2] THEN N!MateView ELSE N!NoMateView
    IN  IF Ply + 1 >= opts.maxPly THEN {[view |-> N!NoMateView, taint |-> Tainted(Ply, "resource")]}
        ELSE IF rep[1] > 0
        THEN {[view |-> view, taint |-> IF anchor < 0 THEN Untainted ELSE Tainted(anchor, "path")]}
        ELSE {[view |-> N!NoMateView, taint |-> Tainted(i, "path")] :
                 i \in {j \in earlier : \A k \in earlier : k <= j}}

EndOfRoute ==
    /\ Undecided /\ ~Reached /\ ~MustStop
    /\ \E v \in RouteVerdict :
          LET t == Store(tt, Top.pos, Ply, Summary.view)
          IN  /\ tt' = IF v.taint.on THEN t ELSE Store(t, Child, Ply + 1, v.view)
              /\ routes' = IF v.taint.on THEN Override(routes, Child, v.view, v.taint) ELSE routes
    /\ frames' = [frames EXCEPT ![Len(frames)].refresh = Summary.best]
    /\ pc' = "refresh"
    /\ UNCHANGED <<g, opts, gen, entries, limitHit, stopped, late, answer>>

Descend ==
    /\ Undecided /\ ~Reached /\ ~MustStop
    /\ RouteVerdict = {}
    /\ StoreNumbers
    /\ frames' = Append([frames EXCEPT ![Len(frames)].best = Summary.best], Call(Child, ChildThresholds))
    /\ pc' = "enter"
    /\ UNCHANGED <<g, opts, gen, routes, entries, limitHit, stopped, late, answer>>

(* The mating line, from the table: the attacker's shortest proven move,   *)
(* the defender's longest.  (A move that was evicted is not proved anew.)  *)
RECURSIVE ExtractPv(_, _)
ExtractPv(line, depth) ==
    LET path == SubSeq(line, Len(g.past) + 1, Len(line))
        p == Here(line)
        Proven(q) == Probe(tt, q, Len(path)).abn = 0 /\ q \notin ToSet(path)
                     /\ NoRepetition(Append(line, q))
        tried == IF Attack(p) THEN SelectSeq(Moves(g, p), Proven) ELSE Moves(g, p)
        found == FlattenSeq([i \in DOMAIN tried |->
                    LET below == ExtractPv(Append(line, tried[i]), depth - 1)
                    IN  SetToSeq({<<tried[i]>> \o x : x \in below})])
        Better(i, j) == IF Attack(p) THEN Len(found[i]) <= Len(found[j])
                        ELSE Len(found[i]) >= Len(found[j])
        best == {found[i] : i \in {k \in DOMAIN found : \A j \in DOMAIN found :
                    Better(k, j) /\ (Better(j, k) => k <= j)}}
    IN  IF depth = 0 THEN {}
        ELSE IF Attack(p) /\ FindMateInOne(g, p) # <<>> THEN {FindMateInOne(g, p)}
        ELSE IF IsMated(g, p) THEN {<<>>} ELSE best

Judge ==
    LET root == Probe(tt, Root, 0)
        lines == IF root.abn = 0 THEN ExtractPv(RootLine(g), opts.maxPly) ELSE {}
        pv == IF lines = {} THEN <<>> ELSE CHOOSE x \in lines : TRUE
        verdict == IF pv # <<>> THEN "mate" ELSE IF root.obn = 0 THEN "no mate" ELSE "unresolved"
    IN  /\ pc = "judge"
        /\ answer' = IF stopped THEN [verdict |-> "unresolved", pv |-> <<>>] ELSE [verdict |-> verdict, pv |-> pv]
        /\ pc' = "done"
        /\ UNCHANGED <<g, opts, tt, gen, routes, frames, entries, limitHit, stopped, late>>

Stop == /\ pc # "done" /\ ~stopped
        /\ stopped' = TRUE
        /\ UNCHANGED <<g, opts, pc, tt, gen, routes, frames, entries, limitHit, late, answer>>
Deadline == /\ pc \notin {"idle", "done"} /\ ~late
            /\ late' = TRUE
            /\ UNCHANGED <<g, opts, pc, tt, gen, routes, frames, entries, limitHit, stopped, answer>>

Step == \/ Start \/ EnterDecided \/ Enter \/ Refresh \/ Settle \/ Withdraw \/ EndOfRoute \/ Descend \/ Judge
Next == Step \/ Stop \/ Deadline
=============================================================================

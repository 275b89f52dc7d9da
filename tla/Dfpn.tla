-------------------------------- MODULE Dfpn --------------------------------
(***************************************************************************)
(* The df-pn mate solver (src/mate/dfpn.cc): a tree of proof numbers in a  *)
(* pool of bounded size, searched by threshold iteration.  The recursion   *)
(* of Search is a stack of frames; a node of the tree is named by the      *)
(* positions that lead to it.  stop() and the deadline arrive at any time. *)
(***************************************************************************)
EXTENDS MateGraph

VARIABLES
    g,          \* the problem
    budget,     \* nodes_limit and the capacity of the pool
    pc,         \* the next step of search() and Search()
    tree,       \* the nodes: pn, dn, children (their moves, or none yet), mate_distance
    frames,     \* the calls of Search: node, second_pn, second_dn
    used,       \* nodes taken from the pool, and whether it refused any
    searched,   \* nodes_searched_
    stopped,    \* stop_, or the deadline has passed
    answer      \* "mate", "no mate" or "unresolved", and pv_, whose first move is returned

vars == <<g, budget, pc, tree, frames, used, searched, stopped, answer>>

NotExpanded == <<0>>
\* SatAdd of dfpn.cc; BNS has one of its own.
AddSat(a, b) == Min({a + b, INF})

Leaf == [pn |-> 1, dn |-> 1, kids |-> NotExpanded, dist |-> 0]
SetMate(node, ply) == [node EXCEPT !.pn = 0, !.dn = INF - ply, !.dist = 0]
SetNoMate(node, ply) == [node EXCEPT !.pn = INF - ply, !.dn = 0, !.dist = 0]

Line(path) == RootLine(g) \o path
Position(path) == Here(Line(path))
OrNode(path) == Attack(Position(path))
Kid(path, i) == Append(path, tree[path].kids[i])

\* Mutant: only a refused request counts.
OutWhenRefused == used.exhausted

OutOfMemory == used.exhausted \/ used.nodes >= budget.pool

(* pn and dn from the children: the least of the one, the sum of the other. *)
SummarizeNode(t, path) ==
    LET node == t[path]
        kids == {Append(path, node.kids[i]) : i \in DOMAIN node.kids}
        pns == [k \in kids |-> t[k].pn]
        dns == [k \in kids |-> t[k].dn]
        Least(f) == Min({f[k] : k \in kids})
        Total(f) == Min({SumFunctionOnSet(f, kids), INF})
        pn == IF OrNode(path) THEN Least(pns) ELSE Total(pns)
        dn == IF OrNode(path) THEN Total(dns) ELSE Least(dns)
        proven == {t[k].dist : k \in {x \in kids : t[x].pn = 0}}
        dist == IF pn # 0 THEN node.dist
                ELSE 1 + (IF OrNode(path) THEN Min(proven) ELSE Max(proven))
    IN  IF node.kids \in {<<>>, NotExpanded} THEN t
        ELSE [t EXCEPT ![path] = [node EXCEPT !.pn = pn, !.dn = dn, !.dist = dist]]

(* The child with the least relevant number, the first of equals, and the  *)
(* thresholds it gets: the runner-up's number bounds one of them.          *)
Relevant(path, i) == LET kid == tree[Kid(path, i)] IN IF OrNode(path) THEN kid.pn ELSE kid.dn
Candidates(path) == {i \in DOMAIN tree[path].kids : Relevant(path, i) < INF}
BestChild(path) ==
    CHOOSE i \in Candidates(path) : \A j \in Candidates(path) :
        \/ Relevant(path, i) < Relevant(path, j)
        \/ Relevant(path, i) = Relevant(path, j) /\ i <= j
SecondBest(path) ==
    Min({INF} \union {Relevant(path, i) : i \in Candidates(path) \ {BestChild(path)}})

\* Mutant: the child gets exactly the runner-up's number.
BareBound(path, threshold) == Min({threshold, SecondBest(path)})

ChildBound(path, threshold) == Min({threshold, AddSat(SecondBest(path), 1)})

ChildFrame(frame) ==
    [path |-> Kid(frame.path, BestChild(frame.path)),
     pn |-> IF OrNode(frame.path) THEN ChildBound(frame.path, frame.pn) ELSE frame.pn,
     dn |-> IF OrNode(frame.path) THEN frame.dn ELSE ChildBound(frame.path, frame.dn)]

Init ==
    /\ pc = "idle" /\ tree = [path \in {} |-> Leaf] /\ frames = <<>>
    /\ used = [nodes |-> 0, exhausted |-> FALSE]
    /\ searched = 0 /\ stopped = FALSE /\ answer = [verdict |-> "unresolved", pv |-> <<>>]

-----------------------------------------------------------------------------
(* search(): a stop that came before the call is kept.                     *)
Start ==
    /\ pc = "idle"
    /\ pc' = IF stopped THEN "done" ELSE "root"
    /\ tree' = [path \in {<<>>} |-> Leaf]
    /\ used' = [nodes |-> 0, exhausted |-> FALSE]
    /\ searched' = 0
    /\ answer' = [verdict |-> "unresolved", pv |-> <<>>]
    /\ UNCHANGED <<g, budget, frames, stopped>>

Unsolved(node) == node.pn # 0 /\ node.dn # 0
MayGoOn == ~OutOfMemory /\ ~stopped /\ searched < budget.nodes

Iterate ==
    /\ pc = "root"
    /\ IF Unsolved(tree[<<>>]) /\ MayGoOn
       THEN frames' = <<[path |-> <<>>, pn |-> INF, dn |-> INF]>> /\ pc' = "enter"
       ELSE pc' = "judge" /\ UNCHANGED frames
    /\ UNCHANGED <<g, budget, tree, used, searched, stopped, answer>>

Top == Last(frames)

(* A return: the caller summarizes, unless the search is being stopped.    *)
Return(t) ==
    LET callers == Front(frames)
        halted == stopped \/ callers = <<>>
    IN  /\ frames' = IF stopped THEN <<>> ELSE callers
        /\ pc' = IF halted THEN "root" ELSE "loop"
        /\ tree' = IF halted THEN t ELSE SummarizeNode(t, Last(callers).path)

(* ExpandNode: the probe for a mate in one, the moves, and nodes for them  *)
(* if the pool has enough.                                                 *)
Probe(path) == IF OrNode(path) THEN FindMateInOne(g, Position(path)) ELSE <<>>
Granted(n) == used.nodes + n <= budget.pool
NewNodes(n) == used' = IF Granted(n) THEN [used EXCEPT !.nodes = @ + n]
                       ELSE [used EXCEPT !.exhausted = TRUE]

Grown(t, path, kids, leaf) ==
    [p \in DOMAIN t \union {Append(path, k) : k \in ToSet(kids)} |->
        IF p \in DOMAIN t THEN t[p] ELSE leaf]

ExpandNode ==
    LET path == Top.path
        ply == Len(path)
        moves == Moves(g, Position(path))
        mate == Probe(path)
        mated == [SetMate(tree[path], ply) EXCEPT !.kids = mate, !.dist = 1]
        decided == IF OrNode(path) THEN SetNoMate(tree[path], ply) ELSE SetMate(tree[path], ply)
        With(t, kids, leaf) == IF Granted(Len(kids)) THEN Grown(t, path, kids, leaf) ELSE t
    IN  /\ pc = "enter" /\ ~stopped
        /\ tree[path].kids = NotExpanded
        /\ pc' = "expanded"
        /\ \/ /\ mate # <<>>
              /\ NewNodes(1)
              /\ tree' = With([tree EXCEPT ![path] = mated], mate,
                             [SetMate(Leaf, ply + 1) EXCEPT !.kids = <<>>])
           \/ /\ mate = <<>> /\ moves = <<>>
              /\ tree' = [tree EXCEPT ![path] = [decided EXCEPT !.kids = <<>>]]
              /\ UNCHANGED used
           \/ /\ mate = <<>> /\ moves # <<>>
              /\ NewNodes(Len(moves))
              /\ tree' = IF Granted(Len(moves))
                         THEN SummarizeNode(With([tree EXCEPT ![path].kids = moves], moves, Leaf), path)
                         ELSE tree
        /\ UNCHANGED <<g, budget, frames, searched, stopped, answer>>

Expanded ==
    /\ pc = "expanded"
    /\ searched' = IF stopped THEN searched ELSE searched + 1
    /\ Return(IF stopped THEN tree ELSE SummarizeNode(tree, Top.path))
    /\ UNCHANGED <<g, budget, used, stopped, answer>>

EnterLoop ==
    /\ pc = "enter" /\ ~stopped
    /\ tree[Top.path].kids # NotExpanded
    /\ pc' = "loop"
    /\ UNCHANGED <<g, budget, tree, frames, used, searched, stopped, answer>>

GoesOn(frame) ==
    LET node == tree[frame.path]
    IN  node.pn < frame.pn /\ node.dn < frame.dn /\ Unsolved(node) /\ MayGoOn
        /\ node.kids # <<>> /\ Candidates(frame.path) # {}

(* The verdict on a best child that repeats: that of the rule within the   *)
(* window, and no mate for a position met earlier on the path.             *)
Verdict(path) ==
    LET rep == CheckRepetition(g, Line(path), Lookback)
    IN  IF rep[1] > 0 THEN IF rep[2] THEN "mate" ELSE "no mate"
        ELSE IF Position(path) \in ToSet(<<Root>> \o Front(path)) THEN "no mate" ELSE "open"

Repeated ==
    LET kid == Kid(Top.path, BestChild(Top.path))
        ply == Len(kid)
        decided == IF Verdict(kid) = "mate" THEN SetMate(tree[kid], ply) ELSE SetNoMate(tree[kid], ply)
    IN  /\ pc = "loop" /\ GoesOn(Top)
        /\ Verdict(kid) # "open"
        /\ tree' = SummarizeNode([tree EXCEPT ![kid] = decided], Top.path)
        /\ UNCHANGED <<g, budget, pc, frames, used, searched, stopped, answer>>

Descend ==
    /\ pc = "loop" /\ GoesOn(Top)
    /\ Verdict(Kid(Top.path, BestChild(Top.path))) = "open"
    /\ frames' = Append(frames, ChildFrame(Top))
    /\ pc' = "enter"
    /\ UNCHANGED <<g, budget, tree, used, searched, stopped, answer>>

Leave ==
    /\ \/ pc = "enter" /\ stopped
       \/ pc = "loop" /\ ~GoesOn(Top)
    /\ Return(tree)
    /\ UNCHANGED <<g, budget, used, searched, stopped, answer>>

(* ExtractPV: the attacker's shortest and the defender's longest proven line. *)
ExtractPV ==
    LET Proven(path) == {i \in DOMAIN tree[path].kids : tree[Kid(path, i)].pn = 0}
        Best(path) ==
            LET Dist(i) == tree[Kid(path, i)].dist
            IN  CHOOSE i \in Proven(path) : \A j \in Proven(path) :
                    LET better == IF OrNode(path) THEN Dist(i) < Dist(j) ELSE Dist(i) > Dist(j)
                    IN  better \/ (Dist(i) = Dist(j) /\ i <= j)
        pv[path \in DOMAIN tree] ==
            IF tree[path].kids \in {<<>>, NotExpanded} \/ Proven(path) = {} THEN <<>>
            ELSE <<tree[path].kids[Best(path)]>> \o pv[Kid(path, Best(path))]
    IN  pv[<<>>]

Judge ==
    LET pv == IF tree[<<>>].pn = 0 THEN ExtractPV ELSE <<>>
        verdict == IF pv # <<>> THEN "mate" ELSE IF tree[<<>>].dn = 0 THEN "no mate" ELSE "unresolved"
    IN  /\ pc = "judge"
        /\ answer' = IF stopped THEN [verdict |-> "unresolved", pv |-> <<>>] ELSE [verdict |-> verdict, pv |-> pv]
        /\ pc' = "done"
        /\ UNCHANGED <<g, budget, tree, frames, used, searched, stopped>>

Stop ==
    /\ pc # "done" /\ ~stopped
    /\ stopped' = TRUE
    /\ UNCHANGED <<g, budget, pc, tree, frames, used, searched, answer>>

Step == \/ Start \/ Iterate \/ ExpandNode \/ Expanded \/ EnterLoop \/ Repeated \/ Descend
        \/ Leave \/ Judge
Next == Step \/ Stop

(* The solver by itself, its object given one problem after another.  The  *)
(* pool has at most two million nodes.                                     *)
NextProblem ==
    /\ pc = "done" /\ pc' = "idle" /\ g' \in Problems
    /\ UNCHANGED <<budget, tree, frames, used, searched, stopped, answer>>

Spec ==
    /\ Init /\ g \in Problems /\ budget.pool \in 0..(INF - 1)
    /\ [][Next \/ NextProblem]_vars

(* A node that is given children has all of them: the pool never runs out  *)
(* between set_mate and NewNodes(1) in ExpandNode, after which ExtractPV   *)
(* and SummarizeNode would follow a null pointer.                          *)
ChildrenAllocated ==
    \A path \in DOMAIN tree : tree[path].kids # NotExpanded =>
        \A k \in ToSet(tree[path].kids) : Append(path, k) \in DOMAIN tree

(* A child is searched with thresholds above its numbers.                  *)
CallsProgress ==
    pc = "enter" /\ Len(frames) > 1 /\ ~stopped =>
        tree[Top.path].pn < Top.pn /\ tree[Top.path].dn < Top.dn
=============================================================================

---------------------------- MODULE MCMateSolvers ----------------------------
(***************************************************************************)
(* Problems for the mate solvers.  All positions in which the attacker is  *)
(* to move are quiet unless said otherwise, all others are checks.         *)
(***************************************************************************)
EXTENDS MateSolvers

Problem(moves) ==
    [moves |-> moves, past |-> <<>>, seen |-> {1, 3, 5}, misjudged |-> {},
     checked |-> {p \in DOMAIN moves : ~Attack(p)}]
After(past, problem) == [problem EXCEPT !.past = past]
InCheckAt(ps, problem) == [problem EXCEPT !.checked = @ \cup ps]
\* Where the exact probe errs, the approximate one finds nothing.
Misjudging(es, problem) == [problem EXCEPT !.misjudged = es, !.seen = @ \ {e[1] : e \in es}]
Reversed(problem, ps) ==
    [problem EXCEPT !.moves = [p \in DOMAIN @ |-> IF p \in ps THEN Reverse(@[p]) ELSE @[p]]]

(* Graphs of nine positions with transpositions and cycles of 4 to 8 plies. *)
Family ==
    {Problem(<<m1, m2, m3, m4, m5, m6, m7, m8, m9>>) :
        m1 \in {<<2>>, <<2, 4>>, <<4, 2>>}, m2 \in {<<3>>, <<3, 5>>}, m3 \in {<<6>>, <<6, 8>>},
        m4 \in {<<3>>, <<5, 3>>}, m5 \in {<<8>>, <<8, 6>>}, m6 \in {<<7>>, <<9, 7>>, <<>>},
        m7 \in {<<2>>, <<4, 2>>, <<>>}, m8 \in {<<>>, <<9>>}, m9 \in {<<>>, <<2, 4>>}}

(* Mates in five and three through 3, and mates with transpositions.       *)
Chain == Problem(<< <<2>>, <<3>>, <<4, 6>>, <<5>>, <<8>>, <<1>>, <<>>, <<>> >>)
Wide == Problem(<< <<2, 4>>, <<3, 5, 7>>, <<6, 8>>, <<7, 3>>, <<8, 6>>, <<7>>, <<10, 8>>, <<>>, <<>>, <<9>> >>)
Long == Problem(<< <<2>>, <<3>>, <<4>>, <<5>>, <<6>>, <<7>>, <<8>>, <<9>>, <<2, 10>>, <<11>>, <<>> >>)
Short == Problem(<< <<2>>, <<3>>, <<6, 4>>, <<>>, <<>>, <<1>> >>)
\* 7 has no mate on the way through 3, to which it returns, but one through 5.
OneLoop == Problem(<< <<2>>, <<3, 5>>, <<4, 10>>, <<7>>, <<8, 14, 16>>, <<3>>, <<6>>, <<7>>, <<12>>, <<9>>, <<>>, <<>>,
                      <<>>, <<13>>, <<>>, <<15>> >>)
\* Every move of both sides is a check: the defender loses by repetition.
Mutual == InCheckAt({1, 3, 5}, Problem(<< <<2>>, <<3>>, <<4>>, <<5>>, <<2>> >>))

Nodes(n) == [nodes |-> n, pool |-> 60, pnDn |-> TRUE, maxPly |-> 40, checks |-> 0]
Ample == Nodes(200)
Session(solver, problems, limit, interrupted) ==
    [solver |-> solver, problems |-> problems, limits |-> limit, interrupted |-> interrupted]
Solvers == {"dfpn", "bns"}

FamilySessions == {Session(s, <<p>>, Ample, FALSE) : s \in Solvers, p \in Family}
LoopSessions ==
    {Session(s, <<Reversed(OneLoop, ps)>>, [Ample EXCEPT !.pnDn = b], FALSE) :
        s \in Solvers, b \in BOOLEAN, ps \in SUBSET {2, 3}}
\* The same position after another past: its verdicts are not those of before.
TwoSessions ==
    {Session(s, ps, [Ample EXCEPT !.pnDn = b, !.checks = c], FALSE) : s \in Solvers, b \in BOOLEAN, c \in {0, 12},
        ps \in {<<After(<<3, 6>>, Chain), Chain, Chain>>, <<Chain, After(<<3, 6>>, Chain)>>,
                <<After(<<3, 6>>, Short), Short>>, <<Mutual, Wide>>, <<InCheckAt({3}, Wide), InCheckAt({5, 7}, Wide), Wide>>}}
(* The probe outside check errs, of one check or several: 5 to 8, 7 to 10  *)
(* and 3 to 4 may be mates that it misses, the others are none.            *)
MisjudgedProblems ==
    {Misjudging({<<5, 8>>, <<7, 2>>}, p) : p \in Family}
        \cup {Misjudging(es, Chain) : es \in SUBSET {<<1, 2>>, <<3, 4>>, <<3, 6>>, <<5, 8>>}}
        \cup {Misjudging(es, Short) : es \in SUBSET {<<1, 2>>, <<3, 6>>, <<3, 4>>}}
        \cup {Misjudging(es, Reversed(Wide, {3, 5, 7})) : es \in SUBSET {<<3, 6>>, <<3, 8>>, <<5, 6>>, <<7, 10>>}}
        \cup {Misjudging(es, OneLoop) : es \in SUBSET {<<3, 10>>, <<5, 8>>, <<9, 12>>, <<7, 6>>}}
MisjudgedSessions == {Session(s, <<p>>, Ample, FALSE) : s \in Solvers, p \in MisjudgedProblems}
\* Limits of every size, interrupted anywhere.
LimitSessions ==
    {Session("dfpn", <<p>>, [Ample EXCEPT !.pool = n], TRUE) : p \in {Chain, Wide}, n \in 1..14}
        \cup {Session(s, <<p>>, Nodes(n), TRUE) : s \in Solvers, p \in {Chain, Wide, Long}, n \in {1, 3, 5, 8}}
        \cup {Session("bns", <<p>>, [Nodes(40) EXCEPT !.maxPly = n, !.pnDn = b], TRUE) :
                p \in {Chain, Wide, Long}, n \in {2, 4, 7}, b \in BOOLEAN}

MCSessions == FamilySessions \cup MisjudgedSessions \cup LoopSessions \cup TwoSessions \cup LimitSessions

(* Two loops of one line, of which the inner ends at an ancestor below the *)
(* one the outer ends at; the mate is at the end of a long defence.        *)
Routes == Problem(<< <<2>>, <<5, 3>>, <<4>>, <<7>>, <<14, 16, 18, 20, 22>>, <<11>>, <<6, 8>>, <<9>>, <<10>>, <<>>,
                     <<12>>, <<13>>, <<4, 6>>, <<15>>, <<6>>, <<17>>, <<>>, <<19>>, <<>>, <<21>>, <<>>, <<23>>, <<>> >>)
MCRouteSessions ==
    {Session(s, <<Reversed(Routes, ps)>>, Nodes(60), FALSE) : s \in Solvers, ps \in SUBSET {2, 7, 13}}

FirstOf(sessions) == {s.problems[1] : s \in sessions}
MCProblems == FirstOf(MCSessions) \cup {Last(s.problems) : s \in TwoSessions} \cup {s.problems[2] : s \in TwoSessions}
MCRouteProblems == FirstOf(MCRouteSessions)
=============================================================================

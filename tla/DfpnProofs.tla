----------------------------- MODULE DfpnProofs -----------------------------
(***************************************************************************)
(* Proofs about Dfpn, for problems of any size, pools of any size and a    *)
(* search that may be stopped at any time: a node of the tree never lacks  *)
(* one of the children it was given, and every call of Search for a child  *)
(* has thresholds above the child's numbers.                               *)
(***************************************************************************)
EXTENDS Dfpn, FiniteSums, SequenceTheorems, TLAPS

IsSeq(s) == \E S : s \in Seq(S)

LEMMA SeqGrows ==
    ASSUME NEW s, IsSeq(s), NEW e
    PROVE  /\ IsSeq(Append(s, e)) /\ Len(Append(s, e)) = Len(s) + 1 /\ Len(s) \in Nat
           /\ \A i \in 1..Len(s) : Append(s, e)[i] = s[i]
           /\ Append(s, e)[Len(s) + 1] = e
<1>1. PICK S : s \in Seq(S)
  BY DEF IsSeq
<1>2. PICK T : T = S \union {e}
  OBVIOUS
<1>3. s \in Seq(T) /\ e \in T
  BY <1>1, <1>2
<1>4. Append(s, e) \in Seq(T)
  BY <1>3
<1> QED BY <1>3, <1>4 DEF IsSeq

LEMMA SeqShrinks ==
    ASSUME NEW s, IsSeq(s), s # <<>>
    PROVE  /\ IsSeq(Front(s)) /\ Len(Front(s)) = Len(s) - 1 /\ Len(s) \in Nat \ {0}
           /\ \A i \in 1..Len(Front(s)) : Front(s)[i] = s[i]
           /\ Front(s) = <<>> <=> Len(s) = 1
<1>1. PICK S : s \in Seq(S)
  BY DEF IsSeq
<1>2. Len(s) \in Nat \ {0}
  BY <1>1
<1>3. \A i \in 1..Len(s) - 1 : s[i] \in S
  BY <1>1, <1>2
<1>4. Len(s) - 1 \in Int /\ 1 \in Int
  BY <1>2
<1>5. SubSeq(s, 1, Len(s) - 1) \in Seq(S)
  BY <1>3, <1>4, SubSeqProperties
<1>6. Len(SubSeq(s, 1, Len(s) - 1)) = IF 1 <= Len(s) - 1 THEN (Len(s) - 1) - 1 + 1 ELSE 0
  BY <1>3, <1>4, SubSeqProperties
<1>7. \A i \in 1..(Len(s) - 1) - 1 + 1 : SubSeq(s, 1, Len(s) - 1)[i] = s[1 + i - 1]
  BY <1>3, <1>4, SubSeqProperties
<1>8. Len(SubSeq(s, 1, Len(s) - 1)) = Len(s) - 1
  BY <1>2, <1>6
<1>9. \A i \in 1..Len(s) - 1 : SubSeq(s, 1, Len(s) - 1)[i] = s[i]
  <2>1. ASSUME NEW i \in 1..Len(s) - 1 PROVE SubSeq(s, 1, Len(s) - 1)[i] = s[i]
    <3>1. i \in 1..(Len(s) - 1) - 1 + 1 /\ 1 + i - 1 = i
      BY <1>2
    <3> QED BY <3>1, <1>7
  <2> QED BY <2>1
<1>10. Front(s) = <<>> <=> Len(s) = 1
  <2>1. Front(s) \in Seq(S) /\ Len(Front(s)) = Len(s) - 1
    BY <1>5, <1>8 DEF Front
  <2>2. \A f \in Seq(S) : f = <<>> <=> Len(f) = 0
    OBVIOUS
  <2>3. Front(s) = <<>> <=> Len(Front(s)) = 0
    BY <2>1, <2>2
  <2> QED BY <2>1, <2>3, <1>2
<1> QED BY <1>2, <1>5, <1>8, <1>9, <1>10 DEF Front, IsSeq

-----------------------------------------------------------------------------
(* Least elements. *)

(* Indices with numbers have a least, the first of equals.                 *)
LEMMA FirstLeast ==
    ASSUME NEW n \in Nat, NEW C, C \subseteq 1..n, C # {}, NEW r, \A i \in C : r[i] \in Int
    PROVE  \E i \in C : \A j \in C : r[i] < r[j] \/ (r[i] = r[j] /\ i <= j)
<1> DEFINE Upto(i) == {j \in C : r[j] < r[i] \/ (r[i] = r[j] /\ j <= i)}
           T == {Upto(i) : i \in C}
<1>1. IsFiniteSet(C)
  <2>1. IsFiniteSet(1..n)
    BY FS_Interval
  <2> QED BY <2>1, FS_Subset
<1>2. FiniteFamily(T)
  <2>1. \A i \in C : Upto(i) \subseteq C
    OBVIOUS
  <2> HIDE DEF Upto
  <2>2. \A i \in C : IsFiniteSet(Upto(i))
    BY <1>1, <2>1, FS_Subset
  <2> QED BY <2>2 DEF FiniteFamily
<1>3. PICK x \in T : \A y \in T : y \subseteq x => y = x
  <2> HIDE DEF T
  <2> QED BY <1>2, MinimalSet
<1>4. PICK i \in C : x = Upto(i)
  OBVIOUS
<1>5. ASSUME NEW j \in C, ~(r[i] < r[j] \/ (r[i] = r[j] /\ i <= j))
      PROVE  FALSE
  <2>1. C \subseteq Int /\ \A k \in C : r[k] \in Int
    OBVIOUS
  <2>2. r[j] < r[i] \/ (r[i] = r[j] /\ j < i)
    BY <2>1, <1>5
  <2>3. Upto(j) \subseteq Upto(i)
    <3>1. ASSUME NEW k \in Upto(j) PROVE k \in Upto(i)
      BY <2>1, <2>2, <3>1
    <3> QED BY <3>1
  <2>4. i \in Upto(i) /\ i \notin Upto(j)
    BY <2>1, <2>2
  <2>5. Upto(j) \in T
    OBVIOUS
  <2> HIDE DEF Upto
  <2> QED BY <1>3, <1>4, <2>3, <2>4, <2>5
<1> QED BY <1>5

(* Every finite set of integers has a least.                               *)
LEMMA MinInt ==
    ASSUME NEW S, S \subseteq Int, IsFiniteSet(S), S # {}
    PROVE  Min(S) \in S /\ \A y \in S : Min(S) <= y
<1> DEFINE Upto(a) == {y \in S : y <= a}
           T == {Upto(a) : a \in S}
<1>1. FiniteFamily(T)
  <2>1. \A a \in S : Upto(a) \subseteq S
    OBVIOUS
  <2> HIDE DEF Upto
  <2>2. \A a \in S : IsFiniteSet(Upto(a))
    BY <2>1, FS_Subset
  <2> QED BY <2>2 DEF FiniteFamily
<1>2. PICK x \in T : \A y \in T : y \subseteq x => y = x
  <2> HIDE DEF T
  <2> QED BY <1>1, MinimalSet
<1>3. PICK a \in S : x = Upto(a)
  OBVIOUS
<1>4. ASSUME NEW y \in S, ~(a <= y) PROVE FALSE
  <2>0. S \subseteq Int /\ y < a
    BY <1>4
  <2>1. Upto(y) \subseteq Upto(a)
    <3>1. ASSUME NEW z \in Upto(y) PROVE z \in Upto(a)
      BY <2>0, <3>1
    <3> QED BY <3>1
  <2>2. a \in Upto(a) /\ a \notin Upto(y)
    BY <2>0
  <2>3. Upto(y) \in T
    OBVIOUS
  <2> HIDE DEF Upto
  <2> QED BY <1>2, <1>3, <2>1, <2>2, <2>3
<1>5. \E z \in S : \A y \in S : z <= y
  BY <1>4
<1> QED BY <1>5 DEF Min

LEMMA MinTwo ==
    ASSUME NEW a \in Int, NEW b \in Int
    PROVE  Min({a, b}) \in {a, b} /\ Min({a, b}) <= a /\ Min({a, b}) <= b
<1>1. IsFiniteSet({a, b})
  <2>1. {a, b} = {a} \union {b} /\ IsFiniteSet({a}) /\ IsFiniteSet({b})
    BY FS_Singleton
  <2> QED BY <2>1, FS_Union
<1>2. {a, b} \subseteq Int /\ {a, b} # {}
  OBVIOUS
<1> QED BY <1>1, <1>2, MinInt

(* What a sequence lists, and what a function has on a finite set.         *)
LEMMA ListedFinite ==
    ASSUME NEW n \in Nat, NEW f, DOMAIN f = 1..n
    PROVE  IsFiniteSet({f[i] : i \in 1..n})
<1> DEFINE R == {f[i] : i \in 1..n}
           h == [i \in 1..n |-> f[i]]
<1>1. h \in Surjection(1..n, R)
  BY DEF Surjection
<1>2. IsFiniteSet(1..n)
  BY FS_Interval
<1> HIDE DEF h, R
<1>3. IsFiniteSet(R)
  BY <1>1, <1>2, FS_Surjection
<1> QED BY <1>3 DEF R

LEMMA ValuesFinite ==
    ASSUME NEW K, IsFiniteSet(K), NEW f
    PROVE  IsFiniteSet({f[k] : k \in K})
<1> DEFINE R == {f[k] : k \in K}
           h == [k \in K |-> f[k]]
<1>1. h \in Surjection(K, R)
  BY DEF Surjection
<1> HIDE DEF h, R
<1>3. IsFiniteSet(R)
  BY <1>1, FS_Surjection
<1> QED BY <1>3 DEF R
-----------------------------------------------------------------------------
(* The tree. *)

Kids(P) == Seq(P) \union {NotExpanded}
IsNode(n, P) == n \in [pn : Nat, dn : Nat, kids : Kids(P), dist : {n.dist}]
Complete(t) ==
    \A path \in DOMAIN t : t[path].kids # NotExpanded =>
        \A k \in ToSet(t[path].kids) : Append(path, k) \in DOMAIN t
IsTree(t, P) ==
    /\ t = [p \in DOMAIN t |-> t[p]]
    /\ \A p \in DOMAIN t : p \in Seq(P) /\ IsNode(t[p], P)
    /\ Complete(t)

(* The same nodes with the same children.                                  *)
SameShape(t, u) == DOMAIN t = DOMAIN u /\ \A p \in DOMAIN t : t[p].kids = u[p].kids

LEMMA Rewritten ==
    ASSUME NEW P, NEW t, IsTree(t, P), NEW path \in DOMAIN t,
           NEW n, IsNode(n, P), n.kids = t[path].kids
    PROVE  IsTree([t EXCEPT ![path] = n], P) /\ SameShape([t EXCEPT ![path] = n], t)
<1> DEFINE u == [t EXCEPT ![path] = n]
<1>1. DOMAIN u = DOMAIN t /\ u = [p \in DOMAIN u |-> u[p]]
  OBVIOUS
<1>2. u[path] = n /\ \A p \in DOMAIN t : p # path => u[p] = t[p]
  OBVIOUS
<1> HIDE DEF u
<1>3. \A p \in DOMAIN u : p \in Seq(P) /\ IsNode(u[p], P)
  BY <1>1, <1>2 DEF IsTree
<1>4. \A p \in DOMAIN t : u[p].kids = t[p].kids
  BY <1>1, <1>2
<1>5. Complete(u)
  BY <1>1, <1>4 DEF IsTree, Complete
<1>6. IsTree(u, P) /\ SameShape(u, t)
  BY <1>1, <1>3, <1>4, <1>5 DEF IsTree, SameShape
<1> QED BY <1>6 DEF u

(* The numbers of the children give numbers.                               *)
LeastOf(f, K) == Min({f[k] : k \in K})
TotalOf(f, K) == Min({SumFunctionOnSet(f, K), INF})

LEMMA LeastOK ==
    ASSUME NEW K, IsFiniteSet(K), K # {}, NEW f, \A k \in K : f[k] \in Nat
    PROVE  /\ LeastOf(f, K) \in Nat
           /\ \E k \in K : f[k] = LeastOf(f, K)
           /\ \A k \in K : LeastOf(f, K) <= f[k]
<1> DEFINE V == {f[k] : k \in K}
<1>1. IsFiniteSet(V) /\ V \subseteq Int /\ V # {}
  BY ValuesFinite
<1>2. Min(V) \in V /\ \A y \in V : Min(V) <= y
  <2> HIDE DEF V
  <2> QED BY <1>1, MinInt
<1>3. PICK k \in K : f[k] = Min(V)
  BY <1>2
<1>4. ASSUME NEW x \in K PROVE Min(V) <= f[x]
  <2>1. f[x] \in V
    OBVIOUS
  <2> HIDE DEF V
  <2> QED BY <1>2, <2>1
<1>5. LeastOf(f, K) = Min(V)
  BY DEF LeastOf
<1> HIDE DEF V
<1> QED BY <1>3, <1>4, <1>5

LEMMA TotalOK ==
    ASSUME NEW K, IsFiniteSet(K), NEW f, \A k \in K : f[k] \in Nat
    PROVE  /\ TotalOf(f, K) \in Nat
           /\ TotalOf(f, K) < INF => \A k \in K : f[k] <= TotalOf(f, K)
<1>1. PICK a : a = SumFunctionOnSet(f, K)
  OBVIOUS
<1>2. a \in Nat
  BY <1>1, SumNat
<1>3. /\ Min({a, INF}) \in {a, INF} /\ INF \in Nat
  BY <1>2, MinTwo, MateAssumption
<1>4. TotalOf(f, K) = Min({a, INF})
  BY <1>1 DEF TotalOf
<1>5. ASSUME NEW k \in K PROVE f[k] <= a
  <2>1. PICK r : r = SumFunctionOnSet(f, K \ {k})
    OBVIOUS
  <2>2. r \in Nat
    <3>1. IsFiniteSet(K \ {k}) /\ \A x \in K \ {k} : f[x] \in Nat
      BY FS_Subset
    <3> QED BY <2>1, <3>1, SumNat
  <2>3. a = f[k] + r
    <3>1. \A x \in K : f[x] \in Int
      OBVIOUS
    <3> QED BY <1>1, <2>1, <3>1, SumOf
  <2> QED BY <2>2, <2>3
<1> QED BY <1>2, <1>3, <1>4, <1>5

LEMMA KidsOfSeq ==
    ASSUME NEW P, NEW kids \in Seq(P), NEW path
    PROVE  /\ IsFiniteSet({Append(path, kids[i]) : i \in DOMAIN kids})
           /\ DOMAIN kids = 1..Len(kids) /\ Len(kids) \in Nat
<1>1. DOMAIN kids = 1..Len(kids) /\ Len(kids) \in Nat
  OBVIOUS
<1> DEFINE f == [i \in 1..Len(kids) |-> Append(path, kids[i])]
<1>2. DOMAIN f = 1..Len(kids)
  OBVIOUS
<1>3. {f[i] : i \in 1..Len(kids)} = {Append(path, kids[i]) : i \in DOMAIN kids}
  BY <1>1
<1> HIDE DEF f
<1>4. IsFiniteSet({f[i] : i \in 1..Len(kids)})
  BY <1>1, <1>2, ListedFinite
<1> QED BY <1>1, <1>3, <1>4

(* What SummarizeNode makes of a node: its children stay, its numbers are  *)
(* those of the children.                                                  *)
KidsOf(t, path) == {Append(path, t[path].kids[i]) : i \in DOMAIN t[path].kids}
PnsOf(t, path) == [k \in KidsOf(t, path) |-> t[k].pn]
DnsOf(t, path) == [k \in KidsOf(t, path) |-> t[k].dn]
PnOf(or, t, path) == IF or THEN LeastOf(PnsOf(t, path), KidsOf(t, path))
                     ELSE TotalOf(PnsOf(t, path), KidsOf(t, path))
DnOf(or, t, path) == IF or THEN TotalOf(DnsOf(t, path), KidsOf(t, path))
                     ELSE LeastOf(DnsOf(t, path), KidsOf(t, path))
HasKids(t, path) == t[path].kids \notin {<<>>, NotExpanded}

LEMMA KidsOK ==
    ASSUME NEW P, NEW t, IsTree(t, P), NEW path \in DOMAIN t, HasKids(t, path)
    PROVE  /\ IsFiniteSet(KidsOf(t, path)) /\ KidsOf(t, path) # {} /\ KidsOf(t, path) \subseteq DOMAIN t
           /\ \A k \in KidsOf(t, path) : PnsOf(t, path)[k] = t[k].pn /\ t[k].pn \in Nat
           /\ \A k \in KidsOf(t, path) : DnsOf(t, path)[k] = t[k].dn /\ t[k].dn \in Nat
<1> DEFINE node == t[path]
           K == {Append(path, node.kids[i]) : i \in DOMAIN node.kids}
<1>1. node.kids \in Seq(P) /\ node.kids # <<>> /\ node.kids # NotExpanded
  BY DEF IsTree, IsNode, Kids, HasKids
<1>2. IsFiniteSet(K) /\ DOMAIN node.kids = 1..Len(node.kids) /\ Len(node.kids) \in Nat
  BY <1>1, KidsOfSeq
<1>3. K # {}
  <2>1. 1 \in DOMAIN node.kids
    BY <1>1, <1>2
  <2> QED BY <2>1
<1>4. K \subseteq DOMAIN t
  <2>1. ASSUME NEW i \in DOMAIN node.kids PROVE Append(path, node.kids[i]) \in DOMAIN t
    BY <1>1 DEF IsTree, Complete, ToSet
  <2> QED BY <2>1
<1>5. K = KidsOf(t, path)
  BY DEF KidsOf
<1> HIDE DEF K
<1>6. \A k \in K : t[k].pn \in Nat /\ t[k].dn \in Nat
  BY <1>4 DEF IsTree, IsNode
<1>7. \A k \in K : PnsOf(t, path)[k] = t[k].pn /\ DnsOf(t, path)[k] = t[k].dn
  BY <1>5 DEF PnsOf, DnsOf
<1> QED BY <1>2, <1>3, <1>4, <1>5, <1>6, <1>7

LEMMA NumbersOK ==
    ASSUME NEW P, NEW t, IsTree(t, P), NEW path \in DOMAIN t, HasKids(t, path)
    PROVE  /\ LeastOf(PnsOf(t, path), KidsOf(t, path)) \in Nat
           /\ TotalOf(PnsOf(t, path), KidsOf(t, path)) \in Nat
           /\ LeastOf(DnsOf(t, path), KidsOf(t, path)) \in Nat
           /\ TotalOf(DnsOf(t, path), KidsOf(t, path)) \in Nat
<1>1. PICK K : K = KidsOf(t, path)
  OBVIOUS
<1>2. PICK p : p = PnsOf(t, path)
  OBVIOUS
<1>3. PICK d : d = DnsOf(t, path)
  OBVIOUS
<1>4. /\ IsFiniteSet(K) /\ K # {}
      /\ \A k \in K : p[k] \in Nat
      /\ \A k \in K : d[k] \in Nat
  BY <1>1, <1>2, <1>3, KidsOK
<1>5. LeastOf(p, K) \in Nat /\ TotalOf(p, K) \in Nat
  BY <1>4, LeastOK, TotalOK
<1>6. LeastOf(d, K) \in Nat /\ TotalOf(d, K) \in Nat
  BY <1>4, LeastOK, TotalOK
<1> QED BY <1>1, <1>2, <1>3, <1>5, <1>6

LEMMA SummaryIs ==
    ASSUME NEW t, NEW path \in DOMAIN t, HasKids(t, path)
    PROVE  \E d : SummarizeNode(t, path) =
            [t EXCEPT ![path] = [t[path] EXCEPT !.pn = PnOf(OrNode(path), t, path),
                                                !.dn = DnOf(OrNode(path), t, path), !.dist = d]]
<1> DEFINE node == t[path]
           K == {Append(path, node.kids[i]) : i \in DOMAIN node.kids}
           pns == [k \in K |-> t[k].pn]
           dns == [k \in K |-> t[k].dn]
           pn == IF OrNode(path) THEN Min({pns[k] : k \in K}) ELSE Min({SumFunctionOnSet(pns, K), INF})
           dn == IF OrNode(path) THEN Min({SumFunctionOnSet(dns, K), INF}) ELSE Min({dns[k] : k \in K})
           proven == {t[k].dist : k \in {x \in K : t[x].pn = 0}}
           dist == IF pn # 0 THEN node.dist
                   ELSE 1 + (IF OrNode(path) THEN Min(proven) ELSE Max(proven))
<1>1. SummarizeNode(t, path) = [t EXCEPT ![path] = [node EXCEPT !.pn = pn, !.dn = dn, !.dist = dist]]
  BY DEF SummarizeNode, HasKids
<1>2. pn = PnOf(OrNode(path), t, path)
  BY DEF PnOf, LeastOf, TotalOf, PnsOf, KidsOf
<1>3. dn = DnOf(OrNode(path), t, path)
  BY DEF DnOf, LeastOf, TotalOf, DnsOf, KidsOf
<1> HIDE DEF pn, dn, dist
<1> QED BY <1>1, <1>2, <1>3

Numbered(n, a, b, d) == [n EXCEPT !.pn = a, !.dn = b, !.dist = d]

LEMMA NumberedOK ==
    ASSUME NEW P, NEW n, IsNode(n, P), NEW a \in Nat, NEW b \in Nat, NEW d
    PROVE  /\ IsNode(Numbered(n, a, b, d), P) /\ Numbered(n, a, b, d).kids = n.kids
           /\ Numbered(n, a, b, d).pn = a /\ Numbered(n, a, b, d).dn = b
<1>1. n \in [pn : Nat, dn : Nat, kids : Kids(P), dist : {n.dist}]
  BY DEF IsNode
<1>2. /\ Numbered(n, a, b, d) \in [pn : Nat, dn : Nat, kids : Kids(P), dist : {d}]
      /\ Numbered(n, a, b, d).kids = n.kids /\ Numbered(n, a, b, d).dist = d
      /\ Numbered(n, a, b, d).pn = a /\ Numbered(n, a, b, d).dn = b
  BY <1>1 DEF Numbered
<1> QED BY <1>2 DEF IsNode

LEMMA Summarized ==
    ASSUME NEW P, NEW t, IsTree(t, P), NEW path \in DOMAIN t
    PROVE  LET s == SummarizeNode(t, path)
           IN  /\ IsTree(s, P) /\ SameShape(s, t)
               /\ \A p \in DOMAIN t : p # path => s[p] = t[p]
               /\ HasKids(t, path) => s[path].pn = PnOf(OrNode(path), t, path) /\ s[path].dn = DnOf(OrNode(path), t, path)
<1>1. CASE ~HasKids(t, path)
  <2>1. SummarizeNode(t, path) = t
    BY <1>1 DEF SummarizeNode, HasKids
  <2> QED BY <1>1, <2>1 DEF SameShape
<1>2. CASE HasKids(t, path)
  <2>1. PICK a \in Nat : a = PnOf(OrNode(path), t, path)
    BY <1>2, NumbersOK DEF PnOf
  <2>2. PICK b \in Nat : b = DnOf(OrNode(path), t, path)
    BY <1>2, NumbersOK DEF DnOf
  <2>3. PICK d : SummarizeNode(t, path) =
            [t EXCEPT ![path] = [t[path] EXCEPT !.pn = PnOf(OrNode(path), t, path),
                                                !.dn = DnOf(OrNode(path), t, path), !.dist = d]]
    BY <1>2, SummaryIs
  <2>4. PICK n : n = Numbered(t[path], a, b, d)
    OBVIOUS
  <2>5. IsNode(n, P) /\ n.kids = t[path].kids /\ n.pn = a /\ n.dn = b
    <3>1. PICK x : x = t[path]
      OBVIOUS
    <3>2. IsNode(x, P)
      BY <3>1 DEF IsTree
    <3> QED BY <2>4, <3>1, <3>2, NumberedOK
  <2>6. PICK s : s = SummarizeNode(t, path)
    OBVIOUS
  <2>7. s = [t EXCEPT ![path] = n]
    BY <2>1, <2>2, <2>3, <2>4, <2>6 DEF Numbered
  <2>8. IsTree(s, P) /\ SameShape(s, t)
    BY <2>5, <2>7, Rewritten
  <2>9. s[path] = n /\ \A p \in DOMAIN t : p # path => s[p] = t[p]
    BY <2>7
  <2> QED BY <2>1, <2>2, <2>5, <2>6, <2>8, <2>9
<1> QED BY <1>1, <1>2

(* A node gets children: all of them are there.                            *)
Extended(t, path, n, leaf) == Grown([t EXCEPT ![path] = n], path, n.kids, leaf)

LEMMA Expanding ==
    ASSUME NEW P, NEW t, IsTree(t, P), NEW path \in DOMAIN t,
           NEW n, IsNode(n, P), n.kids \in Seq(P),
           NEW leaf, IsNode(leaf, P), leaf.kids \in {<<>>, NotExpanded}
    PROVE  LET u == Extended(t, path, n, leaf)
           IN  /\ IsTree(u, P) /\ DOMAIN t \subseteq DOMAIN u
               /\ \A p \in DOMAIN u : p \in DOMAIN t \/ (Len(p) = Len(path) + 1 /\ ~HasKids(u, p))
               /\ u[path] = n /\ \A p \in DOMAIN t : p # path => u[p] = t[p]
<1> DEFINE v == [t EXCEPT ![path] = n]
           new == {Append(path, k) : k \in ToSet(n.kids)}
           u == Grown(v, path, n.kids, leaf)
<1>1. DOMAIN v = DOMAIN t /\ v[path] = n /\ \A p \in DOMAIN t : p # path => v[p] = t[p]
  OBVIOUS
<1>2. /\ DOMAIN u = DOMAIN t \union new /\ u = [p \in DOMAIN u |-> u[p]]
      /\ \A p \in DOMAIN u : u[p] = IF p \in DOMAIN t THEN v[p] ELSE leaf
  <2> HIDE DEF v
  <2> QED BY <1>1 DEF Grown
<1>3. path \in Seq(P) /\ new \subseteq Seq(P) /\ \A p \in new : Len(p) = Len(path) + 1
  <2>1. path \in Seq(P)
    BY DEF IsTree
  <2>2. ToSet(n.kids) \subseteq P
    BY DEF ToSet
  <2> QED BY <2>1, <2>2
<1> HIDE DEF u, v
<1>4. \A p \in DOMAIN u : p \in Seq(P) /\ IsNode(u[p], P)
  <2> HIDE DEF new
  <2> QED BY <1>1, <1>2, <1>3 DEF IsTree
<1>5. Complete(u)
  <2>1. ASSUME NEW p \in DOMAIN u, u[p].kids # NotExpanded, NEW k \in ToSet(u[p].kids)
        PROVE  Append(p, k) \in DOMAIN u
    <3>1. CASE p = path
      <4>1. u[p] = n
        BY <1>1, <1>2, <3>1
      <4>2. Append(path, k) \in new
        BY <2>1, <3>1, <4>1
      <4> QED BY <1>2, <3>1, <4>2
    <3>2. CASE p # path /\ p \in DOMAIN t
      <4> HIDE DEF new
      <4>1. u[p] = t[p]
        BY <1>1, <1>2, <3>2
      <4> QED BY <1>2, <2>1, <3>2, <4>1 DEF IsTree, Complete
    <3>3. CASE p \notin DOMAIN t
      <4> HIDE DEF new
      <4>1. u[p].kids = <<>>
        BY <1>2, <2>1, <3>3
      <4>2. ToSet(<<>>) = {}
        BY DEF ToSet
      <4> QED BY <2>1, <4>1, <4>2
    <3> QED BY <3>1, <3>2, <3>3
  <2> QED BY <2>1 DEF Complete
<1>6. /\ IsTree(u, P) /\ DOMAIN t \subseteq DOMAIN u
      /\ \A p \in DOMAIN u : p \in DOMAIN t \/ (Len(p) = Len(path) + 1 /\ ~HasKids(u, p))
      /\ u[path] = n /\ \A p \in DOMAIN t : p # path => u[p] = t[p]
  <2> HIDE DEF new
  <2> QED BY <1>1, <1>2, <1>3, <1>4, <1>5 DEF IsTree, HasKids
<1> QED BY <1>6 DEF u, v, Extended

-----------------------------------------------------------------------------
(* The search. *)

Positions == DOMAIN g.moves

(* The calls of Search: every one has its node, and all but the last have  *)
(* chosen a child of it.                                                   *)
Calls ==
    /\ IsSeq(frames)
    /\ \A i \in 1..Len(frames) : frames[i].path \in DOMAIN tree
    /\ \A i \in 1..Len(frames) - 1 : tree[frames[i].path].kids # NotExpanded
    /\ pc = "loop" => tree[Top.path].kids # NotExpanded
    /\ pc \in {"enter", "expanded", "loop"} <=> frames # <<>>

(* Nodes of the pool were taken for every move of a path.                  *)
Depths == \A p \in DOMAIN tree : Len(p) <= used.nodes

(* A node is entered with room in the pool for one child: what the mate in *)
(* one needs, whose node is marked before its child is asked for.          *)
PoolInv ==
    /\ g \in Problems /\ budget.pool \in 0..(INF - 1)
    /\ used \in [nodes : Nat, exhausted : BOOLEAN]
    /\ used.nodes <= budget.pool
    /\ ChildrenAllocated
    /\ pc # "idle" => IsTree(tree, Positions) /\ <<>> \in DOMAIN tree /\ Depths
    /\ Calls
    /\ pc = "enter" => ~OutOfMemory

LEMMA PoolInvStarts == Init /\ g \in Problems /\ budget.pool \in 0..(INF - 1) => PoolInv
<1> SUFFICES ASSUME Init, g \in Problems, budget.pool \in 0..(INF - 1) PROVE PoolInv
  OBVIOUS
<1>1. pc = "idle" /\ frames = <<>> /\ used = [nodes |-> 0, exhausted |-> FALSE]
  BY DEF Init
<1>2. DOMAIN tree = {}
  BY DEF Init
<1>3. ChildrenAllocated
  BY <1>2 DEF ChildrenAllocated
<1>4. IsSeq(frames) /\ Len(frames) = 0
  <2>1. <<>> \in Seq({}) /\ Len(<<>>) = 0
    OBVIOUS
  <2> QED BY <1>1, <2>1 DEF IsSeq
<1>5. Calls
  BY <1>1, <1>4 DEF Calls
<1> QED BY <1>1, <1>3, <1>5 DEF PoolInv

(* What the problem is made of.                                            *)
LEMMA PositionsOK ==
    ASSUME PoolInv
    PROVE  /\ Positions \subseteq Nat \ {0}
           /\ \A p \in Positions : Moves(g, p) \in Seq(Positions) /\ Moves(g, p) # NotExpanded
           /\ \A path \in Seq(Positions) : Position(path) \in Positions
           /\ \A path : Probe(path) = <<>> \/ \E q : Probe(path) = <<q>> /\
                (Position(path) \in Positions => q \in Positions)
<1>1. IsProblem(g)
  BY MateAssumption DEF PoolInv
<1>2. Positions \subseteq Nat \ {0} /\ Root \in Positions /\ g.past \in Seq(Positions)
  BY <1>1 DEF IsProblem, Positions
<1>3. \A p \in Positions : Moves(g, p) \in Seq(Positions)
  BY <1>1 DEF IsProblem, Positions, Moves
<1>4. \A s \in Seq(Positions) : s # NotExpanded
  <2>1. ASSUME NEW s \in Seq(Positions), s = NotExpanded PROVE FALSE
    <3>1. Len(s) = 1 /\ s[1] = 0
      BY <2>1 DEF NotExpanded
    <3>2. s[1] \in Positions
      BY <3>1, ElementOfSeq
    <3> QED BY <1>2, <3>1, <3>2
  <2> QED BY <2>1
<1>5. ASSUME NEW path \in Seq(Positions) PROVE Position(path) \in Positions
  <2>1. RootLine(g) \in Seq(Positions) /\ Len(RootLine(g)) = Len(g.past) + 1 /\ Len(g.past) \in Nat
    BY <1>2 DEF RootLine
  <2>2. /\ Line(path) \in Seq(Positions)
        /\ Len(Line(path)) = Len(RootLine(g)) + Len(path) /\ Len(path) \in Nat
    <3>1. \A r \in Seq(Positions) : r \o path \in Seq(Positions) /\ Len(r \o path) = Len(r) + Len(path)
      BY ConcatProperties
    <3>2. Len(path) \in Nat
      OBVIOUS
    <3> QED BY <2>1, <3>1, <3>2 DEF Line
  <2>3. Len(Line(path)) \in 1..Len(Line(path))
    BY <2>1, <2>2
  <2>4. Line(path)[Len(Line(path))] \in Positions
    BY <2>2, <2>3, ElementOfSeq
  <2> QED BY <2>4 DEF Position, Here, Last
<1>6. ASSUME NEW path PROVE Probe(path) = <<>> \/ \E q : Probe(path) = <<q>> /\
                (Position(path) \in Positions => q \in Positions)
  <2> DEFINE p == Position(path)
             read == {i \in DOMAIN Moves(g, p) : (i \in Mates(g, p)) # Misjudged(g, p, Moves(g, p)[i])}
             mates == IF p \in g.checked THEN Mates(g, p) ELSE read
  <2>0. FindMateInOne(g, p) = FirstMove(g, p, mates)
    BY DEF FindMateInOne, FindMateInOneNonCheck
  <2>1. CASE ~OrNode(path) \/ mates = {}
    BY <2>0, <2>1 DEF Probe, FirstMove
  <2>2. CASE OrNode(path) /\ mates # {}
    <3>1. Probe(path) = <<Moves(g, p)[Min(mates)]>>
      BY <2>0, <2>2 DEF Probe, FirstMove
    <3>2. ASSUME p \in Positions PROVE Moves(g, p)[Min(mates)] \in Positions
      <4>1. Moves(g, p) \in Seq(Positions)
        BY <1>3, <3>2
      <4>2. DOMAIN Moves(g, p) = 1..Len(Moves(g, p)) /\ Len(Moves(g, p)) \in Nat
        BY <4>1
      <4>3. mates \subseteq 1..Len(Moves(g, p))
        BY <4>2 DEF Mates
      <4> HIDE DEF mates, p
      <4>4. mates \subseteq Int
        BY <4>2, <4>3
      <4>5. IsFiniteSet(1..Len(Moves(g, p)))
        BY <4>2, FS_Interval
      <4>6. IsFiniteSet(mates)
        BY <4>3, <4>5, FS_Subset
      <4>7. Min(mates) \in mates
        BY <2>2, <4>4, <4>6, MinInt
      <4> QED BY <4>1, <4>3, <4>7, ElementOfSeq
    <3> QED BY <3>1, <3>2
  <2> QED BY <2>1, <2>2
<1> QED BY <1>2, <1>3, <1>4, <1>5, <1>6

(* The best child is one of the children.                                  *)
LEMMA BestIsChild ==
    ASSUME IsTree(tree, Positions), NEW path \in DOMAIN tree,
           tree[path].kids # NotExpanded, Candidates(path) # {}
    PROVE  /\ BestChild(path) \in DOMAIN tree[path].kids /\ Kid(path, BestChild(path)) \in DOMAIN tree
           /\ BestChild(path) \in Candidates(path)
           /\ \A j \in Candidates(path) : Relevant(path, BestChild(path)) <= Relevant(path, j)
           /\ \A i \in DOMAIN tree[path].kids : Relevant(path, i) \in Int
<1> DEFINE kids == tree[path].kids
           C == Candidates(path)
           r == [i \in DOMAIN kids |-> Relevant(path, i)]
<1>1. kids \in Seq(Positions) /\ DOMAIN kids = 1..Len(kids) /\ Len(kids) \in Nat
  <2>1. kids \in Seq(Positions)
    BY DEF IsTree, IsNode, Kids
  <2> QED BY <2>1
<1>2. \A i \in DOMAIN kids : Kid(path, i) \in DOMAIN tree
  BY DEF IsTree, Complete, ToSet, Kid
<1>3. \A i \in DOMAIN kids : Relevant(path, i) \in Int
  <2>1. \A p \in DOMAIN tree : tree[p].pn \in Nat /\ tree[p].dn \in Nat
    BY DEF IsTree, IsNode
  <2> QED BY <1>2, <2>1 DEF Relevant
<1>4. C \subseteq DOMAIN kids
  BY DEF Candidates
<1>5. \A i \in DOMAIN kids : r[i] = Relevant(path, i)
  OBVIOUS
<1>6. \E i \in C : \A j \in C : r[i] < r[j] \/ (r[i] = r[j] /\ i <= j)
  <2>1. PICK n \in Nat : n = Len(kids)
    BY <1>1
  <2>2. PICK c : c = C
    OBVIOUS
  <2>3. PICK q : q = r
    OBVIOUS
  <2> HIDE DEF C, r, kids
  <2>4. c \subseteq 1..n /\ c # {} /\ \A i \in c : q[i] \in Int
    BY <1>1, <1>3, <1>4, <1>5, <2>1, <2>2, <2>3 DEF C
  <2>5. \E i \in c : \A j \in c : q[i] < q[j] \/ (q[i] = q[j] /\ i <= j)
    BY <2>4, FirstLeast
  <2> QED BY <2>2, <2>3, <2>5
<1>7. \E i \in C : \A j \in C : Relevant(path, i) < Relevant(path, j)
                               \/ (Relevant(path, i) = Relevant(path, j) /\ i <= j)
  <2> HIDE DEF C, r, kids
  <2> QED BY <1>4, <1>5, <1>6
<1>8. BestChild(path) \in C /\ \A j \in C : \/ Relevant(path, BestChild(path)) < Relevant(path, j)
                                            \/ Relevant(path, BestChild(path)) = Relevant(path, j)
  <2> DEFINE First(i) == \A j \in C : Relevant(path, i) < Relevant(path, j)
                               \/ (Relevant(path, i) = Relevant(path, j) /\ i <= j)
             b == CHOOSE i \in C : First(i)
  <2>1. BestChild(path) = b
    BY DEF BestChild
  <2>2. \E i \in C : First(i)
    BY <1>7
  <2> HIDE DEF First
  <2>3. b \in C /\ First(b)
    BY <2>2
  <2> HIDE DEF b
  <2> QED BY <2>1, <2>3 DEF First
<1>9. \A j \in C : Relevant(path, BestChild(path)) <= Relevant(path, j)
  <2>1. \A a, b \in Int : a < b \/ a = b => a <= b
    OBVIOUS
  <2> HIDE DEF C, kids, r
  <2> QED BY <1>3, <1>4, <1>8, <2>1
<1> QED BY <1>2, <1>3, <1>4, <1>8, <1>9

-----------------------------------------------------------------------------
(* Every step keeps the invariant.                                         *)

(* A step that leaves the shape of the tree, and the calls, as they are.   *)
LEMMA SameCalls ==
    ASSUME Calls, NEW t, SameShape(t, tree)
    PROVE  /\ \A i \in 1..Len(frames) : frames[i].path \in DOMAIN t
           /\ \A i \in 1..Len(frames) - 1 : t[frames[i].path].kids # NotExpanded
<1>1. IsSeq(frames)
  BY DEF Calls
<1>2. Len(frames) \in Nat
  BY <1>1 DEF IsSeq
<1>3. \A i \in 1..Len(frames) - 1 : i \in 1..Len(frames)
  BY <1>2
<1> QED BY <1>3 DEF Calls, SameShape

LEMMA TopOK ==
    ASSUME Calls, frames # <<>>
    PROVE  /\ Top = frames[Len(frames)] /\ Top.path \in DOMAIN tree
           /\ Len(frames) \in Nat \ {0}
           /\ Front(frames) # <<>> =>
                /\ Last(Front(frames)) = frames[Len(frames) - 1]
                /\ Last(Front(frames)).path \in DOMAIN tree
                /\ tree[Last(Front(frames)).path].kids # NotExpanded
<1>1. IsSeq(frames)
  BY DEF Calls
<1>2. /\ Len(frames) \in Nat \ {0} /\ Len(Front(frames)) = Len(frames) - 1
      /\ \A i \in 1..Len(Front(frames)) : Front(frames)[i] = frames[i]
      /\ Front(frames) = <<>> <=> Len(frames) = 1
  BY <1>1, SeqShrinks
<1>3. Top = frames[Len(frames)] /\ Top.path \in DOMAIN tree
  <2>1. Len(frames) \in 1..Len(frames)
    BY <1>2
  <2> QED BY <2>1 DEF Top, Last, Calls
<1>4. ASSUME Front(frames) # <<>>
      PROVE  /\ Last(Front(frames)) = frames[Len(frames) - 1]
             /\ Last(Front(frames)).path \in DOMAIN tree
             /\ tree[Last(Front(frames)).path].kids # NotExpanded
  <2>1. Len(frames) - 1 \in 1..Len(frames) - 1 /\ Len(frames) - 1 \in 1..Len(frames)
    BY <1>2, <1>4
  <2>2. Last(Front(frames)) = frames[Len(frames) - 1]
    BY <1>2, <2>1 DEF Last
  <2> QED BY <2>1, <2>2 DEF Calls
<1> QED BY <1>2, <1>3, <1>4

LEMMA DepthsKept ==
    ASSUME Depths, used' = used, DOMAIN tree' = DOMAIN tree
    PROVE  Depths'
  BY DEF Depths

(* A call returns, to the caller or out of the search.                     *)
LEMMA Returned ==
    ASSUME PoolInv, frames # <<>>, pc # "idle", UNCHANGED <<g, budget, used>>,
           NEW t, IsTree(t, Positions), SameShape(t, tree), Return(t)
    PROVE  PoolInv'
<1>1. Calls /\ IsTree(tree, Positions) /\ <<>> \in DOMAIN tree /\ Depths
  BY DEF PoolInv
<1>2. DOMAIN t = DOMAIN tree /\ \A p \in DOMAIN tree : t[p].kids = tree[p].kids
  BY DEF SameShape
<1>3. Positions' = Positions
  BY DEF Positions
<1>4. /\ IsSeq(frames) /\ Len(frames) \in Nat \ {0}
      /\ IsSeq(Front(frames)) /\ Len(Front(frames)) = Len(frames) - 1
      /\ \A i \in 1..Len(Front(frames)) : Front(frames)[i] = frames[i]
      /\ Front(frames) = <<>> <=> Len(frames) = 1
  BY <1>1, SeqShrinks DEF Calls
<1>5. CASE stopped \/ Front(frames) = <<>>
  <2>1. tree' = t /\ pc' = "root" /\ frames' = <<>>
    BY <1>5 DEF Return
  <2>2. IsTree(tree', Positions') /\ <<>> \in DOMAIN tree'
    BY <1>1, <1>2, <1>3, <2>1
  <2>3. ChildrenAllocated'
    BY <2>2 DEF IsTree, Complete, ChildrenAllocated
  <2>4. IsSeq(<<>>) /\ Len(<<>>) = 0
    <3>1. <<>> \in Seq({}) /\ Len(<<>>) = 0
      OBVIOUS
    <3> QED BY <3>1 DEF IsSeq
  <2>5. Calls'
    BY <2>1, <2>4 DEF Calls
  <2>6. Depths'
    BY <1>1, <1>2, <2>1, DepthsKept
  <2> QED BY <2>1, <2>2, <2>3, <2>5, <2>6 DEF PoolInv
<1>6. CASE ~stopped /\ Front(frames) # <<>>
  <2> DEFINE up == Last(Front(frames)).path
  <2>1. /\ up \in DOMAIN tree /\ tree[up].kids # NotExpanded
        /\ Last(Front(frames)) = frames[Len(frames) - 1]
    BY <1>1, <1>6, TopOK
  <2>2. tree' = SummarizeNode(t, up) /\ pc' = "loop" /\ frames' = Front(frames)
    BY <1>6 DEF Return
  <2>3. \A q \in DOMAIN t : IsTree(SummarizeNode(t, q), Positions) /\ SameShape(SummarizeNode(t, q), t)
    <3>1. PICK P : P = Positions
      OBVIOUS
    <3>2. \A q \in DOMAIN t : IsTree(SummarizeNode(t, q), P) /\ SameShape(SummarizeNode(t, q), t)
      BY <3>1, Summarized
    <3> QED BY <3>1, <3>2
  <2>4. IsTree(tree', Positions') /\ SameShape(tree', t)
    <3> HIDE DEF up
    <3> QED BY <1>2, <1>3, <2>1, <2>2, <2>3
  <2>5. DOMAIN tree' = DOMAIN tree /\ \A p \in DOMAIN tree : tree'[p].kids = tree[p].kids
    BY <1>2, <2>4 DEF SameShape
  <2>6. ChildrenAllocated'
    BY <2>4 DEF IsTree, Complete, ChildrenAllocated
  <2>7. Calls'
    <3>1. IsSeq(frames') /\ frames' # <<>>
      BY <1>4, <1>6, <2>2
    <3>2. ASSUME NEW i \in 1..Len(frames') PROVE frames'[i].path \in DOMAIN tree'
      <4>1. i \in 1..Len(frames) /\ frames'[i] = frames[i]
        BY <1>4, <2>2
      <4> QED BY <1>1, <2>5, <4>1 DEF Calls
    <3>3. ASSUME NEW i \in 1..Len(frames') PROVE tree'[frames'[i].path].kids # NotExpanded
      <4>1. i \in 1..Len(frames) - 1 /\ i \in 1..Len(frames) /\ frames'[i] = frames[i]
        BY <1>4, <2>2
      <4>2. frames[i].path \in DOMAIN tree /\ tree[frames[i].path].kids # NotExpanded
        BY <1>1, <4>1 DEF Calls
      <4> QED BY <2>5, <4>1, <4>2
    <3>4. Len(frames') \in 1..Len(frames') /\ \A i \in 1..Len(frames') - 1 : i \in 1..Len(frames')
      BY <1>4, <1>6, <2>2
    <3>5. Top' = frames'[Len(frames')]
      BY DEF Top, Last
    <3> QED BY <2>2, <3>1, <3>2, <3>3, <3>4, <3>5 DEF Calls
  <2>8. Depths'
    BY <1>1, <2>5, DepthsKept
  <2> QED BY <1>1, <2>2, <2>4, <2>5, <2>6, <2>7, <2>8, <1>3 DEF PoolInv
<1> QED BY <1>5, <1>6

(* A step that leaves the tree and the calls as they are.                  *)
LEMMA TreeKept ==
    ASSUME PoolInv, UNCHANGED <<g, budget, tree, frames, used>>,
           \/ pc' = pc
           \/ pc = "root" /\ pc' = "judge"
           \/ pc = "judge" /\ pc' = "done"
           \/ pc = "enter" /\ pc' = "loop" /\ tree[Top.path].kids # NotExpanded
    PROVE  PoolInv'
<1>1. Calls /\ (pc # "idle" => IsTree(tree, Positions) /\ <<>> \in DOMAIN tree)
  BY DEF PoolInv
<1>2. Positions' = Positions /\ Top' = Top /\ (pc' # "idle" <=> pc # "idle")
  BY DEF Positions, Top, Last
<1>3. Calls'
  BY <1>1, <1>2 DEF Calls
<1>4. ChildrenAllocated'
  BY DEF PoolInv, ChildrenAllocated
<1>5. OutOfMemory' = OutOfMemory /\ (pc' = "enter" => pc = "enter")
  BY DEF OutOfMemory
<1>6. Depths => Depths'
  BY DepthsKept
<1> QED BY <1>1, <1>2, <1>3, <1>4, <1>5, <1>6 DEF PoolInv

LEMMA LeafOK == \A P : IsNode(Leaf, P) /\ Leaf.kids = NotExpanded
  BY DEF IsNode, Leaf, Kids

LEMMA StartKeeps ==
    ASSUME PoolInv, Start
    PROVE  PoolInv'
<1>1. pc = "idle" /\ pc' \in {"done", "root"} /\ UNCHANGED <<g, budget, frames>> /\ Calls
  BY DEF Start, PoolInv
<1>2. frames = <<>> /\ Len(frames) = 0
  BY <1>1 DEF Calls
<1>3. used' \in [nodes : Nat, exhausted : BOOLEAN]
  BY DEF Start
<1>4. /\ DOMAIN tree' = {<<>>} /\ tree'[<<>>] = Leaf
      /\ tree' = [path \in DOMAIN tree' |-> tree'[path]]
  <2>1. tree' = [path \in {<<>>} |-> Leaf]
    BY DEF Start
  <2> QED BY <2>1
<1>5. <<>> \in Seq(Positions')
  OBVIOUS
<1>6. Complete(tree')
  BY <1>4, LeafOK DEF Complete
<1>7. IsTree(tree', Positions') /\ <<>> \in DOMAIN tree'
  BY <1>4, <1>5, <1>6, LeafOK DEF IsTree
<1>8. ChildrenAllocated'
  BY <1>6 DEF Complete, ChildrenAllocated
<1>9. Calls'
  BY <1>1, <1>2 DEF Calls
<1>10. Depths' /\ used'.nodes = 0
  <2>1. used'.nodes = 0
    BY DEF Start
  <2>2. Len(<<>>) = 0
    OBVIOUS
  <2> QED BY <1>4, <2>1, <2>2 DEF Depths
<1> QED BY <1>1, <1>3, <1>7, <1>8, <1>9, <1>10 DEF PoolInv

LEMMA IterateKeeps ==
    ASSUME PoolInv, Iterate
    PROVE  PoolInv'
<1>1. pc = "root" /\ UNCHANGED <<g, budget, tree, used>>
  BY DEF Iterate
<1>2. CASE pc' = "judge" /\ frames' = frames
  BY <1>1, <1>2, TreeKept
<1>3. CASE MayGoOn /\ pc' = "enter" /\ frames' = <<[path |-> <<>>, pn |-> INF, dn |-> INF]>>
  <2>1. IsTree(tree, Positions) /\ <<>> \in DOMAIN tree
    BY <1>1 DEF PoolInv
  <2>2. Positions' = Positions
    BY <1>1 DEF Positions
  <2>3. Len(frames') = 1 /\ frames'[1].path = <<>> /\ frames' # <<>> /\ IsSeq(frames')
    <3>1. PICK f : f = [path |-> <<>>, pn |-> INF, dn |-> INF]
      OBVIOUS
    <3>2. <<f>> \in Seq({f}) /\ Len(<<f>>) = 1 /\ <<f>>[1] = f /\ <<f>> # <<>> /\ f.path = <<>>
      BY <3>1
    <3> QED BY <1>3, <3>1, <3>2 DEF IsSeq
  <2>4. Calls'
    BY <1>1, <1>3, <2>1, <2>3 DEF Calls
  <2>5. ChildrenAllocated'
    BY <1>1 DEF PoolInv, ChildrenAllocated
  <2>6. ~OutOfMemory'
    BY <1>1, <1>3 DEF MayGoOn, OutOfMemory
  <2>7. Depths'
    BY <1>1, DepthsKept DEF PoolInv
  <2> QED BY <1>1, <1>3, <2>1, <2>2, <2>4, <2>5, <2>6, <2>7 DEF PoolInv
<1> QED BY <1>2, <1>3 DEF Iterate

LEMMA ExpandedKeeps ==
    ASSUME PoolInv, Expanded
    PROVE  PoolInv'
<1>1. /\ pc = "expanded" /\ UNCHANGED <<g, budget, used>>
      /\ Return(IF stopped THEN tree ELSE SummarizeNode(tree, Top.path))
  BY DEF Expanded
<1>2. Calls /\ frames # <<>> /\ IsTree(tree, Positions)
  BY <1>1 DEF PoolInv, Calls
<1>3. Top.path \in DOMAIN tree
  BY <1>2, TopOK
<1>4. PICK t : t = IF stopped THEN tree ELSE SummarizeNode(tree, Top.path)
  OBVIOUS
<1>5. IsTree(t, Positions) /\ SameShape(t, tree)
  <2>1. CASE stopped
    BY <1>2, <1>4, <2>1 DEF SameShape
  <2>2. CASE ~stopped
    BY <1>2, <1>3, <1>4, <2>2, Summarized
  <2> QED BY <2>1, <2>2
<1>6. Return(t)
  BY <1>1, <1>4
<1> QED BY <1>1, <1>2, <1>5, <1>6, Returned

LEMMA LeaveKeeps ==
    ASSUME PoolInv, Leave
    PROVE  PoolInv'
<1>1. pc \in {"enter", "loop"} /\ UNCHANGED <<g, budget, used>> /\ Return(tree)
  BY DEF Leave
<1>2. Calls /\ frames # <<>> /\ IsTree(tree, Positions)
  BY <1>1 DEF PoolInv, Calls
<1>3. PICK t : t = tree
  OBVIOUS
<1>4. IsTree(t, Positions) /\ SameShape(t, tree) /\ Return(t)
  BY <1>1, <1>2, <1>3 DEF SameShape
<1> QED BY <1>1, <1>2, <1>4, Returned

(* The calls go on in a tree of the same shape, or one whose last node got *)
(* its children.                                                           *)
LEMMA TreeReplaced ==
    ASSUME PoolInv, pc \in {"enter", "loop"}, UNCHANGED <<g, budget, frames>>,
           used' \in [nodes : Nat, exhausted : BOOLEAN], used'.nodes <= budget.pool, Depths',
           IsTree(tree', Positions), DOMAIN tree \subseteq DOMAIN tree',
           \A p \in DOMAIN tree : tree[p].kids # NotExpanded => tree'[p].kids # NotExpanded,
           pc' \in {"expanded", "loop"}, pc' = "loop" => pc = "loop"
    PROVE  PoolInv'
<1>1. Calls /\ frames # <<>> /\ <<>> \in DOMAIN tree
  BY DEF PoolInv, Calls
<1>2. /\ Top = frames[Len(frames)] /\ Top.path \in DOMAIN tree /\ Top' = Top
      /\ Len(frames) \in Nat
  BY <1>1, TopOK DEF Top, Last
<1>3. Positions' = Positions
  BY DEF Positions
<1>4. ChildrenAllocated'
  BY DEF IsTree, Complete, ChildrenAllocated
<1>5. Calls'
  <2>1. \A i \in 1..Len(frames) : frames[i].path \in DOMAIN tree'
    BY <1>1 DEF Calls
  <2>2. \A i \in 1..Len(frames) - 1 : tree'[frames[i].path].kids # NotExpanded
    <3>1. \A i \in 1..Len(frames) - 1 : i \in 1..Len(frames)
      BY <1>2
    <3> QED BY <1>1, <3>1 DEF Calls
  <2>3. pc' = "loop" => tree'[Top'.path].kids # NotExpanded
    BY <1>1, <1>2 DEF Calls
  <2> QED BY <1>1, <2>1, <2>2, <2>3 DEF Calls
<1> QED BY <1>1, <1>3, <1>4, <1>5 DEF PoolInv

(* The marked node of a decided position keeps its children.               *)
Marked(n, a, b) == [n EXCEPT !.pn = a, !.dn = b, !.dist = 0]

LEMMA MarkedOK ==
    ASSUME NEW P, NEW n, IsNode(n, P), NEW a \in Nat, NEW b \in Nat
    PROVE  IsNode(Marked(n, a, b), P) /\ Marked(n, a, b).kids = n.kids
<1>1. n \in [pn : Nat, dn : Nat, kids : Kids(P), dist : {n.dist}]
  BY DEF IsNode
<1>2. /\ Marked(n, a, b) \in [pn : Nat, dn : Nat, kids : Kids(P), dist : {0}]
      /\ Marked(n, a, b).kids = n.kids /\ Marked(n, a, b).dist = 0
  BY <1>1 DEF Marked
<1> QED BY <1>2 DEF IsNode

LEMMA MarksOK ==
    ASSUME NEW P, NEW n, IsNode(n, P), NEW ply \in 0..INF
    PROVE  /\ IsNode(SetMate(n, ply), P) /\ SetMate(n, ply).kids = n.kids
           /\ IsNode(SetNoMate(n, ply), P) /\ SetNoMate(n, ply).kids = n.kids
<1>1. PICK k \in Nat : k = INF - ply
  BY MateAssumption
<1>2. SetMate(n, ply) = Marked(n, 0, k) /\ SetNoMate(n, ply) = Marked(n, k, 0)
  BY <1>1 DEF SetMate, SetNoMate, Marked
<1> QED BY <1>2, MarkedOK

LEMMA MarkedHere ==
    ASSUME NEW path \in DOMAIN tree, IsNode(tree[path], Positions), Len(path) \in 0..INF
    PROVE  LET n == tree[path]
           IN  /\ IsNode(SetMate(n, Len(path)), Positions) /\ SetMate(n, Len(path)).kids = n.kids
               /\ IsNode(SetNoMate(n, Len(path)), Positions) /\ SetNoMate(n, Len(path)).kids = n.kids
<1>1. PICK x : x = tree[path]
  OBVIOUS
<1>2. PICK P : P = Positions
  OBVIOUS
<1>3. PICK l \in 0..INF : l = Len(path)
  OBVIOUS
<1>4. /\ IsNode(SetMate(x, l), P) /\ SetMate(x, l).kids = x.kids
      /\ IsNode(SetNoMate(x, l), P) /\ SetNoMate(x, l).kids = x.kids
  BY <1>1, <1>2, MarksOK
<1> QED BY <1>1, <1>2, <1>3, <1>4

Having(n, kids) == [n EXCEPT !.kids = kids]
HavingMate(n, kids) == [n EXCEPT !.kids = kids, !.dist = 1]

LEMMA HavingOK ==
    ASSUME NEW P, NEW n, IsNode(n, P), NEW kids \in Seq(P)
    PROVE  /\ IsNode(Having(n, kids), P) /\ Having(n, kids).kids = kids
           /\ IsNode(HavingMate(n, kids), P) /\ HavingMate(n, kids).kids = kids
<1>1. n \in [pn : Nat, dn : Nat, kids : Kids(P), dist : {n.dist}] /\ kids \in Kids(P)
  BY DEF IsNode, Kids
<1>2. /\ Having(n, kids) \in [pn : Nat, dn : Nat, kids : Kids(P), dist : {n.dist}]
      /\ Having(n, kids).kids = kids /\ Having(n, kids).dist = n.dist
  BY <1>1 DEF Having
<1>3. /\ HavingMate(n, kids) \in [pn : Nat, dn : Nat, kids : Kids(P), dist : {1}]
      /\ HavingMate(n, kids).kids = kids /\ HavingMate(n, kids).dist = 1
  BY <1>1 DEF HavingMate
<1> QED BY <1>2, <1>3 DEF IsNode

LEMMA NodesTaken ==
    ASSUME NEW n \in Nat, NewNodes(n), used \in [nodes : Nat, exhausted : BOOLEAN],
           used.nodes <= budget.pool
    PROVE  /\ used' \in [nodes : Nat, exhausted : BOOLEAN] /\ used'.nodes <= budget.pool
           /\ used'.nodes = IF Granted(n) THEN used.nodes + n ELSE used.nodes
<1>1. used.nodes + n \in Nat
  OBVIOUS
<1>2. CASE Granted(n)
  <2>1. used' = [used EXCEPT !.nodes = used.nodes + n]
    BY <1>2 DEF NewNodes
  <2>2. used' \in [nodes : Nat, exhausted : BOOLEAN] /\ used'.nodes = used.nodes + n
    BY <1>1, <2>1
  <2> QED BY <1>2, <2>2 DEF Granted
<1>3. CASE ~Granted(n)
  BY <1>3 DEF NewNodes
<1> QED BY <1>2, <1>3

LEMMA ExpandNodeKeeps ==
    ASSUME PoolInv, ExpandNode
    PROVE  /\ PoolInv' /\ DOMAIN tree \subseteq DOMAIN tree'
           /\ \A p \in DOMAIN tree' : p \in DOMAIN tree \/ ~HasKids(tree', p)
           /\ \A p \in DOMAIN tree : p # Top.path => tree'[p] = tree[p]
<1> DEFINE path == Top.path
           ply == Len(path)
           moves == Moves(g, Position(path))
           mate == Probe(path)
           mated == [SetMate(tree[path], ply) EXCEPT !.kids = mate, !.dist = 1]
           decided == IF OrNode(path) THEN SetNoMate(tree[path], ply) ELSE SetMate(tree[path], ply)
<1>1. /\ pc = "enter" /\ pc' = "expanded" /\ UNCHANGED <<g, budget, frames>>
      /\ tree[path].kids = NotExpanded
  BY DEF ExpandNode
<1>2. /\ Calls /\ frames # <<>> /\ IsTree(tree, Positions) /\ <<>> \in DOMAIN tree
      /\ ~OutOfMemory /\ budget.pool \in 0..(INF - 1) /\ INF \in Nat
      /\ used \in [nodes : Nat, exhausted : BOOLEAN] /\ used.nodes < budget.pool /\ Depths
  BY <1>1, MateAssumption DEF PoolInv, Calls, OutOfMemory
<1>3. path \in DOMAIN tree /\ path \in Seq(Positions) /\ IsNode(tree[path], Positions)
  BY <1>2, TopOK DEF IsTree
<1>4. /\ Position(path) \in Positions /\ moves \in Seq(Positions) /\ moves # NotExpanded
      /\ mate = <<>> \/ \E q \in Positions : mate = <<q>>
  BY <1>3, PositionsOK
<1>5. ply \in 0..(INF - 1) /\ IsNode(SetMate(tree[path], ply), Positions) /\ IsNode(decided, Positions)
  <2>1. ply \in 0..(INF - 1)
    <3>1. ply \in Nat /\ ply <= used.nodes
      BY <1>2, <1>3 DEF Depths
    <3> HIDE DEF ply
    <3> QED BY <1>2, <3>1
  <2>2. \A p \in DOMAIN tree : IsNode(tree[p], Positions) /\ Len(p) \in 0..INF =>
            /\ IsNode(SetMate(tree[p], Len(p)), Positions) /\ IsNode(SetNoMate(tree[p], Len(p)), Positions)
    BY MarkedHere
  <2>3. IsNode(SetMate(tree[path], ply), Positions) /\ IsNode(SetNoMate(tree[path], ply), Positions)
    <3>1. ply \in 0..INF
      <4> HIDE DEF ply
      <4> QED BY <1>2, <2>1
    <3> HIDE DEF path
    <3> QED BY <1>3, <2>2, <3>1
  <2> HIDE DEF ply, path
  <2> QED BY <2>1, <2>3
<1>6. \A p \in DOMAIN tree : tree[p].kids # NotExpanded => p # path
  BY <1>1
<1>7. PICK t : t = tree
  OBVIOUS
<1>8. PICK P : P = Positions
  OBVIOUS
<1>9. PICK a : a = path
  OBVIOUS
(* What the whole step comes to. *)
<1> DEFINE Kept(u) == /\ IsTree(u, P) /\ DOMAIN t \subseteq DOMAIN u
                      /\ \A p \in DOMAIN u : p \in DOMAIN t \/ (Len(p) = Len(a) + 1 /\ ~HasKids(u, p))
                      /\ \A p \in DOMAIN t : p # a => u[p] = t[p]
           Result == /\ PoolInv' /\ DOMAIN tree \subseteq DOMAIN tree'
                     /\ \A p \in DOMAIN tree' : p \in DOMAIN tree \/ ~HasKids(tree', p)
                     /\ \A p \in DOMAIN tree : p # path => tree'[p] = tree[p]
<1> SUFFICES Result
  OBVIOUS
<1> HIDE DEF Result
<1>10. Kept(t)
  BY <1>2, <1>7, <1>8
<1>11. \A n, leaf : /\ IsNode(n, P) /\ n.kids \in Seq(P)
                    /\ IsNode(leaf, P) /\ leaf.kids \in {<<>>, NotExpanded}
         => Kept(Extended(t, a, n, leaf)) /\ a \in DOMAIN Extended(t, a, n, leaf)
  <2>1. IsTree(t, P) /\ a \in DOMAIN t /\ \A p \in DOMAIN t : t[p].kids # NotExpanded => p # a
    BY <1>2, <1>3, <1>6, <1>7, <1>8, <1>9
  <2>2. SUFFICES ASSUME NEW n, NEW leaf, IsNode(n, P), n.kids \in Seq(P),
                        IsNode(leaf, P), leaf.kids \in {<<>>, NotExpanded}
                 PROVE  Kept(Extended(t, a, n, leaf)) /\ a \in DOMAIN Extended(t, a, n, leaf)
    OBVIOUS
  <2> DEFINE u == Extended(t, a, n, leaf)
  <2>3. /\ IsTree(u, P) /\ DOMAIN t \subseteq DOMAIN u
        /\ \A p \in DOMAIN u : p \in DOMAIN t \/ (Len(p) = Len(a) + 1 /\ ~HasKids(u, p))
        /\ \A p \in DOMAIN t : p # a => u[p] = t[p]
    BY <2>1, <2>2, Expanding
  <2> HIDE DEF u
  <2>4. Kept(u) /\ a \in DOMAIN u
    BY <2>1, <2>3
  <2> QED BY <2>4 DEF u
<1> DEFINE Taken == /\ used' \in [nodes : Nat, exhausted : BOOLEAN] /\ used'.nodes <= budget.pool
                    /\ used.nodes <= used'.nodes
<1>12. ASSUME Taken, Kept(tree'), DOMAIN tree' = DOMAIN t \/ used.nodes < used'.nodes PROVE Result
  <2>1. ASSUME NEW p \in DOMAIN tree' PROVE Len(p) <= used'.nodes
    <3>1. p \in DOMAIN t => Len(p) \in Nat /\ Len(p) <= used.nodes
      BY <1>2, <1>7 DEF Depths, IsTree
    <3>2. Len(a) \in Nat /\ Len(a) <= used.nodes
      BY <1>2, <1>3, <1>9 DEF Depths
    <3>3. p \notin DOMAIN t => Len(p) = Len(a) + 1 /\ used.nodes < used'.nodes
      BY <1>12, <2>1
    <3>4. used.nodes \in Nat /\ used'.nodes \in Nat /\ used.nodes <= used'.nodes
      BY <1>2, <1>12
    <3>5. CASE p \in DOMAIN t
      BY <3>1, <3>4, <3>5
    <3>6. CASE p \notin DOMAIN t
      BY <3>2, <3>3, <3>4, <3>6
    <3> QED BY <3>5, <3>6
  <2>2. Depths'
    BY <2>1 DEF Depths
  <2>3. /\ DOMAIN tree \subseteq DOMAIN tree'
        /\ \A p \in DOMAIN tree' : p \in DOMAIN tree \/ ~HasKids(tree', p)
        /\ \A p \in DOMAIN tree : p # path => tree'[p] = tree[p]
    <3> HIDE DEF path
    <3> QED BY <1>7, <1>9, <1>12
  <2>4. \A p \in DOMAIN tree : tree[p].kids # NotExpanded => tree'[p].kids # NotExpanded
    <3> HIDE DEF path
    <3> QED BY <1>6, <2>3
  <2>5. PoolInv'
    BY <1>1, <1>8, <1>12, <2>2, <2>3, <2>4, TreeReplaced
  <2> QED BY <2>3, <2>5 DEF Result
<1>13. ASSUME NEW n \in Nat, NewNodes(n)
       PROVE  Taken /\ (Granted(n) => used'.nodes = used.nodes + n)
  <2>1. /\ used' \in [nodes : Nat, exhausted : BOOLEAN] /\ used'.nodes <= budget.pool
        /\ used'.nodes = IF Granted(n) THEN used.nodes + n ELSE used.nodes
    BY <1>2, <1>13, NodesTaken
  <2>2. used.nodes \in Nat
    BY <1>2
  <2> QED BY <2>1, <2>2
<1>14. CASE /\ mate # <<>> /\ NewNodes(1)
            /\ tree' = IF Granted(Len(mate))
                       THEN Grown([tree EXCEPT ![path] = mated], path, mate,
                                  [SetMate(Leaf, ply + 1) EXCEPT !.kids = <<>>])
                       ELSE [tree EXCEPT ![path] = mated]
  <2>1. PICK q \in Positions : mate = <<q>>
    BY <1>4, <1>14
  <2>2. Len(mate) = 1 /\ mate \in Seq(Positions)
    BY <2>1
  <2>3. Granted(Len(mate))
    BY <1>2, <2>2 DEF OutOfMemory, Granted
  <2> DEFINE n == mated
             leaf == [SetMate(Leaf, ply + 1) EXCEPT !.kids = <<>>]
  <2>4. IsNode(n, P) /\ n.kids = mate
    <3>1. PICK x : x = SetMate(tree[path], ply)
      OBVIOUS
    <3>2. PICK y : y = mate
      OBVIOUS
    <3>3. IsNode(x, P) /\ y \in Seq(P)
      BY <1>5, <1>8, <2>2, <3>1, <3>2
    <3>4. n = HavingMate(x, y)
      BY <3>1, <3>2 DEF HavingMate
    <3> HIDE DEF n, mate
    <3> QED BY <3>2, <3>3, <3>4, HavingOK
  <2>5. IsNode(leaf, P) /\ leaf.kids = <<>>
    <3>1. PICK k : k = ply + 1
      OBVIOUS
    <3>2. k \in 0..INF
      <4> HIDE DEF ply
      <4> QED BY <1>2, <1>5, <3>1
    <3>3. IsNode(SetMate(Leaf, k), P)
      BY <3>2, LeafOK, MarksOK
    <3>4. <<>> \in Seq(P)
      OBVIOUS
    <3>5. leaf = Having(SetMate(Leaf, k), <<>>)
      BY <3>1 DEF Having
    <3> HIDE DEF leaf
    <3> QED BY <3>3, <3>4, <3>5, HavingOK
  <2>6. tree' = Extended(t, a, n, leaf)
    <3>1. tree' = Grown([tree EXCEPT ![path] = n], path, mate, leaf)
      BY <1>14, <2>3
    <3> HIDE DEF n, leaf, mate, path
    <3> QED BY <1>7, <1>9, <2>4, <3>1 DEF Extended
  <2>7. Kept(tree')
    <3>1. n.kids \in Seq(P)
      BY <1>8, <2>2, <2>4
    <3> HIDE DEF n, leaf, mate, Kept
    <3> QED BY <1>11, <2>4, <2>5, <2>6, <3>1
  <2>8. Taken /\ used.nodes < used'.nodes
    <3>1. NewNodes(1) /\ Granted(1) /\ 1 \in Nat
      BY <1>14, <2>2, <2>3
    <3>2. Taken /\ used'.nodes = used.nodes + 1
      BY <1>13, <3>1
    <3> QED BY <1>2, <3>2
  <2> HIDE DEF Kept, Taken
  <2> QED BY <1>12, <2>7, <2>8
<1>15. CASE /\ moves = <<>> /\ UNCHANGED used
            /\ tree' = [tree EXCEPT ![path] = [decided EXCEPT !.kids = <<>>]]
  <2> DEFINE n == [decided EXCEPT !.kids = <<>>]
  <2>1. IsNode(n, P) /\ n.kids = <<>>
    <3>1. PICK x : x = decided
      OBVIOUS
    <3>2. IsNode(x, P) /\ <<>> \in Seq(P)
      BY <1>5, <1>8, <3>1
    <3>3. n = Having(x, <<>>)
      BY <3>1 DEF Having
    <3> HIDE DEF n, decided
    <3> QED BY <3>2, <3>3, HavingOK
  <2>2. Extended(t, a, n, Leaf) = tree'
    <3>1. tree' = [t EXCEPT ![a] = n]
      BY <1>7, <1>9, <1>15
    <3>2. ToSet(n.kids) = {}
      <4>1. ToSet(<<>>) = {}
        BY DEF ToSet
      <4> QED BY <2>1, <4>1
    <3> HIDE DEF n
    <3>3. PICK v : v = tree'
      OBVIOUS
    <3>4. v = [p \in DOMAIN v |-> v[p]]
      BY <3>1, <3>3
    <3>5. Grown(v, a, n.kids, Leaf) = [p \in DOMAIN v |-> v[p]]
      BY <3>2 DEF Grown
    <3> QED BY <3>1, <3>3, <3>4, <3>5 DEF Extended
  <2>3. Kept(tree')
    <3>1. n.kids \in Seq(P) /\ IsNode(Leaf, P) /\ Leaf.kids = NotExpanded
      BY <2>1, LeafOK
    <3> HIDE DEF n, Kept
    <3> QED BY <1>11, <2>1, <2>2, <3>1
  <2>4. Taken
    BY <1>2, <1>15
  <2>5. DOMAIN tree' = DOMAIN t
    BY <1>7, <1>15
  <2> HIDE DEF Kept, Taken
  <2> QED BY <1>12, <2>3, <2>4, <2>5
<1>16. CASE /\ moves # <<>> /\ NewNodes(Len(moves))
            /\ tree' = IF Granted(Len(moves))
                       THEN SummarizeNode(Grown([tree EXCEPT ![path].kids = moves], path, moves, Leaf), path)
                       ELSE tree
  <2>1. Taken /\ (Granted(Len(moves)) /\ moves # <<>> => used.nodes < used'.nodes)
    <3>1. Len(moves) \in Nat /\ (moves # <<>> => Len(moves) > 0)
      BY <1>4
    <3>2. Taken /\ (Granted(Len(moves)) => used'.nodes = used.nodes + Len(moves))
      <4> HIDE DEF Taken
      <4> QED BY <1>13, <1>16, <3>1
    <3>3. used.nodes \in Nat
      BY <1>2
    <3> QED BY <3>1, <3>2, <3>3
  <2>2. CASE ~Granted(Len(moves))
    <3>1. tree' = t
      BY <1>7, <1>16, <2>2
    <3> HIDE DEF Kept, Taken
    <3> QED BY <1>10, <1>12, <2>1, <3>1
  <2>3. CASE Granted(Len(moves))
    <3> DEFINE n == [tree[path] EXCEPT !.kids = moves]
    <3>1. IsNode(n, P) /\ n.kids = moves /\ n.kids \in Seq(P)
      <4>1. PICK x : x = tree[path]
        OBVIOUS
      <4>2. PICK y : y = moves
        OBVIOUS
      <4>3. IsNode(x, P) /\ y \in Seq(P)
        BY <1>3, <1>4, <1>8, <4>1, <4>2
      <4>4. n = Having(x, y)
        BY <4>1, <4>2 DEF Having
      <4> HIDE DEF n, moves
      <4> QED BY <4>2, <4>3, <4>4, HavingOK
    <3>2. PICK u : u = Extended(t, a, n, Leaf)
      OBVIOUS
    <3>3. Kept(u) /\ a \in DOMAIN u
      <4>1. IsNode(Leaf, P) /\ Leaf.kids = NotExpanded
        BY LeafOK
      <4> HIDE DEF n, Kept
      <4> QED BY <1>11, <3>1, <3>2, <4>1
    <3>4. [tree EXCEPT ![path].kids = moves] = [t EXCEPT ![a] = n]
      <4> HIDE DEF moves
      <4> QED BY <1>7, <1>9
    <3>5. tree' = SummarizeNode(u, a)
      <4>1. tree' = SummarizeNode(Extended(t, a, n, Leaf), a)
        <5> HIDE DEF n, path, moves
        <5> QED BY <1>9, <1>16, <2>3, <3>1, <3>4 DEF Extended
      <4> HIDE DEF n
      <4> QED BY <3>2, <4>1
    <3>6. IsTree(tree', P) /\ SameShape(tree', u) /\ \A p \in DOMAIN u : p # a => tree'[p] = u[p]
      BY <3>3, <3>5, Summarized
    <3>7. Kept(tree')
      BY <3>3, <3>6 DEF SameShape, HasKids
    <3> HIDE DEF Kept, Taken
    <3> QED BY <1>12, <1>16, <2>1, <2>3, <3>7
  <2> QED BY <2>2, <2>3
<1> QED
  <2> HIDE DEF moves, mated, decided, ply
  <2> QED BY <1>14, <1>15, <1>16 DEF ExpandNode, moves, mated, decided, ply

(* The node of a move that repeats is given numbers, and its parent too.    *)
LEMMA KidDecided ==
    ASSUME PoolInv, Repeated
    PROVE  \E k, u :
              /\ k \in DOMAIN tree /\ k = Kid(Top.path, BestChild(Top.path)) /\ k \in KidsOf(tree, Top.path)
              /\ IsTree(u, Positions) /\ SameShape(u, tree)
              /\ \A x \in DOMAIN tree : x # k => u[x] = tree[x]
              /\ tree' = SummarizeNode(u, Top.path)
<1>1. /\ pc = "loop" /\ pc' = pc /\ GoesOn(Top) /\ UNCHANGED <<g, budget, frames, used>>
  BY DEF Repeated
<1>2. /\ Calls /\ frames # <<>> /\ IsTree(tree, Positions) /\ <<>> \in DOMAIN tree
      /\ used \in [nodes : Nat, exhausted : BOOLEAN] /\ used.nodes <= budget.pool /\ Depths
      /\ budget.pool \in 0..(INF - 1) /\ INF \in Nat
  BY <1>1, MateAssumption DEF PoolInv, Calls
<1>3. Top.path \in DOMAIN tree /\ tree[Top.path].kids # NotExpanded /\ Candidates(Top.path) # {}
  BY <1>1, <1>2, TopOK DEF Calls, GoesOn
<1> DEFINE kid == Kid(Top.path, BestChild(Top.path))
           ply == Len(kid)
           decided == IF Verdict(kid) = "mate" THEN SetMate(tree[kid], ply) ELSE SetNoMate(tree[kid], ply)
<1>4. kid \in DOMAIN tree
  <2>1. PICK a : a = Top.path
    OBVIOUS
  <2>2. \A b \in DOMAIN tree : tree[b].kids # NotExpanded /\ Candidates(b) # {} =>
            Kid(b, BestChild(b)) \in DOMAIN tree
    BY <1>2, BestIsChild
  <2> QED BY <1>3, <2>2
<1>5. kid \in Seq(Positions) /\ IsNode(tree[kid], Positions) /\ ply \in Nat
  <2>1. kid \in Seq(Positions) /\ IsNode(tree[kid], Positions)
    <3> HIDE DEF kid
    <3> QED BY <1>2, <1>4 DEF IsTree
  <2> HIDE DEF kid
  <2> QED BY <2>1
<1>6. IsNode(decided, Positions) /\ decided.kids = tree[kid].kids
  <2>1. \A p \in DOMAIN tree : IsNode(tree[p], Positions) /\ Len(p) \in 0..INF =>
            /\ IsNode(SetMate(tree[p], Len(p)), Positions) /\ SetMate(tree[p], Len(p)).kids = tree[p].kids
            /\ IsNode(SetNoMate(tree[p], Len(p)), Positions) /\ SetNoMate(tree[p], Len(p)).kids = tree[p].kids
    BY MarkedHere
  <2>2. Len(kid) \in 0..INF
    <3> HIDE DEF kid
    <3>1. Len(kid) \in Nat /\ Len(kid) <= used.nodes
      BY <1>2, <1>4, <1>5 DEF Depths
    <3>2. PICK l : l = Len(kid)
      OBVIOUS
    <3> QED BY <1>2, <3>1, <3>2
  <2> HIDE DEF kid
  <2>3. /\ IsNode(SetMate(tree[kid], ply), Positions) /\ SetMate(tree[kid], ply).kids = tree[kid].kids
        /\ IsNode(SetNoMate(tree[kid], ply), Positions) /\ SetNoMate(tree[kid], ply).kids = tree[kid].kids
    BY <1>4, <1>5, <2>1, <2>2
  <2> HIDE DEF ply
  <2> QED BY <2>3
<1>7. tree' = SummarizeNode([tree EXCEPT ![kid] = decided], Top.path)
  BY DEF Repeated
<1>8. PICK t : t = tree
  OBVIOUS
<1>9. PICK P : P = Positions
  OBVIOUS
<1>10. PICK k : k = kid
  OBVIOUS
<1>11. PICK n : n = decided
  OBVIOUS
<1>12. PICK a : a = Top.path
  OBVIOUS
<1>13. PICK u : u = [t EXCEPT ![k] = n]
  OBVIOUS
<1> HIDE DEF kid, ply, decided
<1>14. IsTree(t, P) /\ k \in DOMAIN t /\ IsNode(n, P) /\ n.kids = t[k].kids /\ a \in DOMAIN t
  BY <1>2, <1>3, <1>4, <1>6, <1>8, <1>9, <1>10, <1>11, <1>12
<1>15. IsTree(u, P) /\ SameShape(u, t)
  <2>1. IsTree([t EXCEPT ![k] = n], P) /\ SameShape([t EXCEPT ![k] = n], t)
    BY <1>14, Rewritten
  <2> QED BY <1>13, <2>1
<1>16. tree' = SummarizeNode(u, a)
  BY <1>7, <1>8, <1>10, <1>11, <1>12, <1>13
<1>17. \A x \in DOMAIN t : x # k => u[x] = t[x]
  BY <1>13, <1>14
<1>18. k \in KidsOf(t, a)
  <2>1. \A q \in DOMAIN tree : tree[q].kids # NotExpanded /\ Candidates(q) # {} =>
            BestChild(q) \in DOMAIN tree[q].kids
    BY <1>2, BestIsChild
  <2>2. BestChild(a) \in DOMAIN t[a].kids /\ k = Append(a, t[a].kids[BestChild(a)])
    BY <1>3, <1>8, <1>10, <1>12, <2>1 DEF Kid, kid
  <2> QED BY <2>2 DEF KidsOf
<1> QED BY <1>8, <1>9, <1>10, <1>12, <1>14, <1>15, <1>16, <1>17, <1>18 DEF kid

LEMMA RepeatedKeeps ==
    ASSUME PoolInv, Repeated
    PROVE  PoolInv'
<1>1. /\ pc = "loop" /\ pc' = pc /\ GoesOn(Top) /\ UNCHANGED <<g, budget, frames, used>>
  BY DEF Repeated
<1>2. /\ Calls /\ frames # <<>> /\ IsTree(tree, Positions) /\ <<>> \in DOMAIN tree
      /\ used \in [nodes : Nat, exhausted : BOOLEAN] /\ used.nodes <= budget.pool /\ Depths
  BY <1>1 DEF PoolInv, Calls
<1>3. PICK u : IsTree(u, Positions) /\ SameShape(u, tree) /\ tree' = SummarizeNode(u, Top.path)
  BY KidDecided
<1>4. PICK a : a = Top.path
  OBVIOUS
<1>5. PICK P : P = Positions
  OBVIOUS
<1>6. a \in DOMAIN u
  BY <1>2, <1>3, <1>4, TopOK DEF SameShape
<1>7. IsTree(SummarizeNode(u, a), P) /\ SameShape(SummarizeNode(u, a), u)
  BY <1>3, <1>5, <1>6, Summarized
<1>8. /\ IsTree(tree', Positions) /\ DOMAIN tree' = DOMAIN tree
      /\ \A p \in DOMAIN tree : tree[p].kids # NotExpanded => tree'[p].kids # NotExpanded
  BY <1>3, <1>4, <1>5, <1>7 DEF SameShape
<1>9. Depths'
  BY <1>1, <1>2, <1>8, DepthsKept
<1> QED BY <1>1, <1>2, <1>8, <1>9, TreeReplaced

LEMMA DescendKeeps ==
    ASSUME PoolInv, Descend
    PROVE  PoolInv'
<1>1. /\ pc = "loop" /\ pc' = "enter" /\ GoesOn(Top) /\ UNCHANGED <<g, budget, tree, used>>
      /\ frames' = Append(frames, ChildFrame(Top))
  BY DEF Descend
<1>2. /\ Calls /\ frames # <<>> /\ IsTree(tree, Positions) /\ <<>> \in DOMAIN tree
      /\ used \in [nodes : Nat, exhausted : BOOLEAN]
  BY <1>1 DEF PoolInv, Calls
<1>3. Top.path \in DOMAIN tree /\ tree[Top.path].kids # NotExpanded /\ Candidates(Top.path) # {}
  BY <1>1, <1>2, TopOK DEF Calls, GoesOn
<1>4. ChildFrame(Top).path \in DOMAIN tree
  <2>1. \A b \in DOMAIN tree : tree[b].kids # NotExpanded /\ Candidates(b) # {} =>
            Kid(b, BestChild(b)) \in DOMAIN tree
    BY <1>2, BestIsChild
  <2> QED BY <1>3, <2>1 DEF ChildFrame
<1>5. /\ IsSeq(frames') /\ Len(frames') = Len(frames) + 1 /\ Len(frames) \in Nat
      /\ \A i \in 1..Len(frames) : frames'[i] = frames[i]
      /\ frames'[Len(frames) + 1] = ChildFrame(Top)
  <2>1. PICK f : f = ChildFrame(Top)
    OBVIOUS
  <2>2. \A s : IsSeq(s) =>
            /\ IsSeq(Append(s, f)) /\ Len(Append(s, f)) = Len(s) + 1 /\ Len(s) \in Nat
            /\ \A i \in 1..Len(s) : Append(s, f)[i] = s[i]
            /\ Append(s, f)[Len(s) + 1] = f
    BY SeqGrows
  <2> QED BY <1>1, <1>2, <2>1, <2>2 DEF Calls
<1>6. \A i \in 1..Len(frames') : frames'[i].path \in DOMAIN tree'
  <2>1. ASSUME NEW i \in 1..Len(frames') PROVE frames'[i].path \in DOMAIN tree'
    <3>1. i \in 1..Len(frames) \/ i = Len(frames) + 1
      BY <1>5
    <3> QED BY <1>1, <1>2, <1>4, <1>5, <3>1 DEF Calls
  <2> QED BY <2>1
<1>7. \A i \in 1..Len(frames') - 1 : tree'[frames'[i].path].kids # NotExpanded
  <2>1. ASSUME NEW i \in 1..Len(frames') - 1 PROVE tree'[frames'[i].path].kids # NotExpanded
    <3>1. i \in 1..Len(frames) /\ (i \in 1..Len(frames) - 1 \/ i = Len(frames))
      BY <1>5
    <3>2. frames'[i] = frames[i]
      BY <1>5, <3>1
    <3>3. CASE i \in 1..Len(frames) - 1
      BY <1>1, <1>2, <3>2, <3>3 DEF Calls
    <3>4. CASE i = Len(frames)
      BY <1>1, <1>3, <3>2, <3>4 DEF Top, Last
    <3> QED BY <3>1, <3>3, <3>4
  <2> QED BY <2>1
<1>8. frames' # <<>>
  <2>1. Len(<<>>) = 0
    OBVIOUS
  <2> QED BY <1>5, <2>1
<1>9. Calls'
  BY <1>1, <1>5, <1>6, <1>7, <1>8 DEF Calls
<1>10. ChildrenAllocated'
  BY <1>1 DEF PoolInv, ChildrenAllocated
<1>11. ~OutOfMemory'
  BY <1>1 DEF GoesOn, MayGoOn, OutOfMemory
<1>12. Positions' = Positions
  BY <1>1 DEF Positions
<1>13. Depths'
  BY <1>1, DepthsKept DEF PoolInv
<1> QED BY <1>1, <1>2, <1>9, <1>10, <1>11, <1>12, <1>13 DEF PoolInv

LEMMA NextProblemKeeps ==
    ASSUME PoolInv, NextProblem
    PROVE  PoolInv'
<1>1. pc = "done" /\ pc' = "idle" /\ g' \in Problems /\ UNCHANGED <<budget, tree, frames, used>>
  BY DEF NextProblem
<1>2. Calls'
  BY <1>1 DEF PoolInv, Calls
<1>3. ChildrenAllocated'
  BY <1>1 DEF PoolInv, ChildrenAllocated
<1> QED BY <1>1, <1>2, <1>3 DEF PoolInv

LEMMA StepsKeepPool == PoolInv /\ [Next \/ NextProblem]_vars => PoolInv'
<1> SUFFICES ASSUME PoolInv, [Next \/ NextProblem]_vars PROVE PoolInv'
  OBVIOUS
<1>1. CASE EnterLoop
  BY <1>1, TreeKept DEF EnterLoop
<1>2. CASE Judge
  BY <1>2, TreeKept DEF Judge
<1>3. CASE Stop
  BY <1>3, TreeKept DEF Stop
<1>4. CASE UNCHANGED vars
  BY <1>4, TreeKept DEF vars
<1> QED
  BY <1>1, <1>2, <1>3, <1>4, StartKeeps, IterateKeeps, ExpandNodeKeeps, ExpandedKeeps, RepeatedKeeps,
     DescendKeeps, LeaveKeeps, NextProblemKeeps DEF Next, Step

(* Whatever the problem and the capacity of the pool: one tree, a stack of *)
(* calls within it, and room for a node wherever one is entered (Search).  *)
THEOREM PoolInvHolds == Spec => []PoolInv
<1>1. Init /\ g \in Problems /\ budget.pool \in 0..(INF - 1) => PoolInv
  BY PoolInvStarts
<1>2. PoolInv /\ [Next \/ NextProblem]_vars => PoolInv'
  BY StepsKeepPool
<1> QED
  BY <1>1, <1>2, PTL DEF Spec

(* For every problem and every capacity of the pool, however the search is *)
(* stopped: no node lacks a child it was given (ExpandNode).               *)
THEOREM PoolSuffices == Spec => []ChildrenAllocated
<1>1. PoolInv => ChildrenAllocated
  BY DEF PoolInv
<1> QED
  BY <1>1, PoolInvHolds, PTL

-----------------------------------------------------------------------------
(* The numbers of a node are those of its children, unless a call is at    *)
(* work below it, or a repetition has decided it.                          *)

Settled(or, t, p) == t[p].pn = PnOf(or, t, p) /\ t[p].dn = DnOf(or, t, p)
Cut(p) == p # <<>> /\ Verdict(p) # "open"
OnCall(p) == \E i \in 1..Len(frames) : frames[i].path = p /\ (i = Len(frames) => pc = "expanded")
Fine(t, p) == Settled(OrNode(p), t, p) \/ Cut(p) \/ OnCall(p)

(* Each call is for a child of the one before, that does not repeat.       *)
Descent ==
    /\ \A i \in 1..Len(frames) :
        /\ Len(frames[i].path) = i - 1
        /\ frames[i].pn \in Int /\ frames[i].pn <= INF
        /\ frames[i].dn \in Int /\ frames[i].dn <= INF
    /\ \A i \in 1..Len(frames) - 1 : frames[i].path = Front(frames[i + 1].path)
    /\ \A i \in 2..Len(frames) : ~Cut(frames[i].path)

ProgressInv ==
    /\ Descent
    /\ ~stopped /\ pc # "idle" => \A p \in DOMAIN tree : HasKids(tree, p) => Fine(tree, p)
    /\ CallsProgress

LEMMA FrontOfKid ==
    ASSUME NEW P, NEW q \in Seq(P), NEW k \in P
    PROVE  Front(Append(q, k)) = q /\ Append(q, k) # <<>>
<1>1. /\ Append(q, k) \in Seq(P) /\ Len(Append(q, k)) = Len(q) + 1 /\ Len(q) \in Nat
      /\ \A i \in 1..Len(q) : Append(q, k)[i] = q[i]
  OBVIOUS
<1>2. Append(q, k) # <<>>
  BY <1>1
<1>3. IsSeq(Append(q, k))
  BY <1>1 DEF IsSeq
<1>4. /\ Len(Front(Append(q, k))) = Len(q)
      /\ \A i \in 1..Len(q) : Front(Append(q, k))[i] = Append(q, k)[i]
  <2>1. PICK s : s = Append(q, k)
    OBVIOUS
  <2>2. Len(Front(s)) = Len(s) - 1 /\ \A i \in 1..Len(Front(s)) : Front(s)[i] = s[i]
    BY <1>2, <1>3, <2>1, SeqShrinks
  <2>3. Len(s) - 1 = Len(q)
    BY <1>1, <2>1
  <2> QED BY <2>1, <2>2, <2>3
<1>5. Front(Append(q, k)) \in Seq(P)
  <2>1. \A i \in 1..(Len(q) + 1) - 1 : Append(q, k)[i] \in P
    BY <1>1
  <2>2. SubSeq(Append(q, k), 1, (Len(q) + 1) - 1) \in Seq(P)
    BY <1>1, <2>1, SubSeqProperties
  <2> QED BY <1>1, <2>2 DEF Front
<1>6. Front(Append(q, k)) = q
  <2>1. PICK f \in Seq(P) : f = Front(Append(q, k))
    BY <1>5
  <2>2. Len(f) = Len(q) /\ \A i \in 1..Len(f) : f[i] = q[i]
    BY <1>1, <1>4, <2>1
  <2>3. f = q
    BY <2>2, SeqEqual
  <2> QED BY <2>1, <2>3
<1> QED BY <1>2, <1>6

(* A node is a child of nobody but the one its path says.                  *)
LEMMA OneParent ==
    ASSUME NEW P, NEW t, IsTree(t, P), NEW p \in DOMAIN t, HasKids(t, p), NEW c \in KidsOf(t, p)
    PROVE  p = Front(c) /\ c # <<>> /\ c # p /\ c \in DOMAIN t
<1>1. p \in Seq(P) /\ t[p].kids \in Seq(P)
  BY DEF IsTree, IsNode, Kids, HasKids
<1>2. PICK i \in DOMAIN t[p].kids : c = Append(p, t[p].kids[i])
  BY DEF KidsOf
<1>3. t[p].kids[i] \in P
  BY <1>1
<1>4. p = Front(c) /\ c # <<>>
  BY <1>1, <1>2, <1>3, FrontOfKid
<1>5. c # p
  <2>1. Len(c) = Len(p) + 1 /\ Len(p) \in Nat
    BY <1>1, <1>2, <1>3
  <2> QED BY <2>1
<1>6. c \in DOMAIN t
  BY KidsOK
<1> QED BY <1>4, <1>5, <1>6

(* A node of which neither itself nor a child changes stays settled.       *)
LEMMA SettledKept ==
    ASSUME NEW P, NEW t, IsTree(t, P), NEW u, NEW or, NEW p \in DOMAIN t, HasKids(t, p),
           u[p] = t[p], \A k \in KidsOf(t, p) : u[k] = t[k]
    PROVE  Settled(or, t, p) <=> Settled(or, u, p)
<1>1. KidsOf(u, p) = KidsOf(t, p)
  BY DEF KidsOf
<1>2. PnsOf(u, p) = PnsOf(t, p) /\ DnsOf(u, p) = DnsOf(t, p)
  BY <1>1 DEF PnsOf, DnsOf
<1>3. PnOf(or, u, p) = PnOf(or, t, p) /\ DnOf(or, u, p) = DnOf(or, t, p)
  BY <1>1, <1>2 DEF PnOf, DnOf
<1> QED BY <1>3 DEF Settled

(* One node changes, but not its children.                                 *)
LEMMA OneChanges ==
    ASSUME NEW P, NEW t, IsTree(t, P), NEW u, NEW c, \A x \in DOMAIN t : x # c => u[x] = t[x],
           NEW p \in DOMAIN t, HasKids(t, p), p # c, c = <<>> \/ p # Front(c), NEW or
    PROVE  Settled(or, t, p) <=> Settled(or, u, p)
<1>1. c \notin KidsOf(t, p)
  BY OneParent
<1>2. \A k \in KidsOf(t, p) : u[k] = t[k]
  BY <1>1, KidsOK
<1> QED BY <1>2, SettledKept

LEMMA SummarySettles ==
    ASSUME NEW P, NEW t, IsTree(t, P), NEW path \in DOMAIN t, HasKids(t, path)
    PROVE  Settled(OrNode(path), SummarizeNode(t, path), path)
<1>1. PICK s : s = SummarizeNode(t, path)
  OBVIOUS
<1>2. /\ SameShape(s, t)
      /\ \A p \in DOMAIN t : p # path => s[p] = t[p]
      /\ s[path].pn = PnOf(OrNode(path), t, path) /\ s[path].dn = DnOf(OrNode(path), t, path)
  BY <1>1, Summarized
<1>3. KidsOf(s, path) = KidsOf(t, path)
  BY <1>2 DEF KidsOf, SameShape
<1>4. \A k \in KidsOf(t, path) : s[k] = t[k]
  BY <1>2, OneParent
<1>5. PnsOf(s, path) = PnsOf(t, path) /\ DnsOf(s, path) = DnsOf(t, path)
  BY <1>3, <1>4 DEF PnsOf, DnsOf
<1>6. PICK or : or = OrNode(path)
  OBVIOUS
<1>7. PnOf(or, s, path) = PnOf(or, t, path) /\ DnOf(or, s, path) = DnOf(or, t, path)
  BY <1>3, <1>5 DEF PnOf, DnOf
<1> QED BY <1>1, <1>2, <1>6, <1>7 DEF Settled

(* What SummarizeNode settles, and what it does not disturb.               *)
LEMMA Summarizing ==
    ASSUME NEW P, NEW t, IsTree(t, P), NEW path \in DOMAIN t
    PROVE  LET s == SummarizeNode(t, path)
           IN  /\ IsTree(s, P) /\ DOMAIN s = DOMAIN t
               /\ \A p \in DOMAIN t : HasKids(s, p) <=> HasKids(t, p)
               /\ HasKids(t, path) => Settled(OrNode(path), s, path)
               /\ \A p \in DOMAIN t : HasKids(t, p) /\ p # path /\ (path = <<>> \/ p # Front(path)) =>
                    \A or : Settled(or, t, p) => Settled(or, s, p)
<1>1. PICK s : s = SummarizeNode(t, path)
  OBVIOUS
<1>2. IsTree(s, P) /\ SameShape(s, t) /\ \A p \in DOMAIN t : p # path => s[p] = t[p]
  BY <1>1, Summarized
<1>3. DOMAIN s = DOMAIN t /\ \A p \in DOMAIN t : HasKids(s, p) <=> HasKids(t, p)
  BY <1>2 DEF SameShape, HasKids
<1>4. HasKids(t, path) => Settled(OrNode(path), s, path)
  BY <1>1, SummarySettles
<1>5. ASSUME NEW p \in DOMAIN t, HasKids(t, p), p # path, path = <<>> \/ p # Front(path), NEW or,
             Settled(or, t, p)
      PROVE  Settled(or, s, p)
  BY <1>2, <1>5, OneChanges
<1> QED BY <1>1, <1>2, <1>3, <1>4, <1>5

(* The rules are those of one problem.                                     *)
LEMMA SameRules ==
    ASSUME g' = g
    PROVE  \A p : (Cut(p)' <=> Cut(p)) /\ OrNode(p)' = OrNode(p)
<1> SUFFICES ASSUME NEW p PROVE (Cut(p)' <=> Cut(p)) /\ OrNode(p)' = OrNode(p)
  OBVIOUS
<1>1. Line(p)' = Line(p) /\ Position(p)' = Position(p)
  BY DEF Line, Position
<1>2. Verdict(p)' = Verdict(p)
  BY <1>1 DEF Verdict
<1> QED BY <1>1, <1>2 DEF Cut, OrNode

(* A call returns.                                                         *)
LEMMA ReturnSettles ==
    ASSUME PoolInv, ProgressInv, frames # <<>>, pc # "idle", UNCHANGED <<g, stopped>>,
           NEW t, IsTree(t, Positions), SameShape(t, tree), Return(t),
           ~stopped => \A p \in DOMAIN t : HasKids(t, p) =>
                \/ Settled(OrNode(p), t, p) \/ Cut(p)
                \/ \E i \in 1..Len(frames) - 1 : frames[i].path = p
    PROVE  ProgressInv'
<1>1. Calls /\ Descent /\ IsTree(tree, Positions)
  BY DEF PoolInv, ProgressInv
<1>2. /\ IsSeq(frames) /\ Len(frames) \in Nat \ {0}
      /\ IsSeq(Front(frames)) /\ Len(Front(frames)) = Len(frames) - 1
      /\ \A i \in 1..Len(Front(frames)) : Front(frames)[i] = frames[i]
      /\ Front(frames) = <<>> <=> Len(frames) = 1
  BY <1>1, SeqShrinks DEF Calls
<1>3. pc' # "enter" /\ pc' # "expanded"
  BY DEF Return
<1>4. CallsProgress'
  BY <1>3 DEF CallsProgress
<1>5. CASE stopped \/ Front(frames) = <<>>
  <2>1. tree' = t /\ frames' = <<>>
    BY <1>5 DEF Return
  <2>2. Descent'
    <3>1. Len(<<>>) = 0
      OBVIOUS
    <3> QED BY <2>1, <3>1 DEF Descent
  <2>3. ASSUME ~stopped, NEW p \in DOMAIN tree', HasKids(tree', p) PROVE Fine(tree, p)'
    <3>1. 1..Len(frames) - 1 = {}
      BY <1>2, <1>5, <2>3
    <3>2. Settled(OrNode(p), tree', p) \/ Cut(p)
      BY <2>1, <2>3, <3>1
    <3> QED BY <3>2, SameRules DEF Fine
  <2> QED BY <1>4, <2>2, <2>3 DEF ProgressInv
<1>6. CASE ~stopped /\ Front(frames) # <<>>
  <2> DEFINE up == Last(Front(frames)).path
  <2>1. /\ up \in DOMAIN t /\ up = frames[Len(frames) - 1].path
        /\ tree' = SummarizeNode(t, up) /\ pc' = "loop" /\ frames' = Front(frames)
    BY <1>1, <1>6, TopOK DEF Return, SameShape
  <2>2. Descent'
    <3>1. /\ Len(frames') = Len(frames) - 1 /\ Len(frames) - 1 \in Nat
          /\ \A i \in 1..Len(frames') : frames'[i] = frames[i] /\ i \in 1..Len(frames)
      BY <1>2, <2>1
    <3>2. \A i \in 1..Len(frames') - 1 : i \in 1..Len(frames') /\ i + 1 \in 1..Len(frames') /\ i \in 1..Len(frames) - 1
      BY <3>1
    <3>3. \A i \in 2..Len(frames') : i \in 1..Len(frames') /\ i \in 2..Len(frames)
      BY <3>1
    <3>4. \A i \in 1..Len(frames') : /\ Len(frames'[i].path) = i - 1
                                   /\ frames'[i].pn \in Int /\ frames'[i].pn <= INF
                                   /\ frames'[i].dn \in Int /\ frames'[i].dn <= INF
      BY <1>1, <3>1 DEF Descent
    <3>5. \A i \in 1..Len(frames') - 1 : frames'[i].path = Front(frames'[i + 1].path)
      BY <1>1, <3>1, <3>2 DEF Descent
    <3>6. \A i \in 2..Len(frames') : ~Cut(frames[i].path)'
      <4>1. ASSUME NEW i \in 2..Len(frames') PROVE ~Cut(frames[i].path)'
        <5>1. PICK p : p = frames[i].path
          OBVIOUS
        <5>2. ~Cut(p) /\ p = frames'[i].path
          BY <1>1, <3>1, <3>3, <5>1 DEF Descent
        <5>3. ~Cut(p)'
          BY <5>2, SameRules
        <5> QED BY <5>2, <5>3
      <4> QED BY <4>1
    <3> QED BY <3>4, <3>5, <3>6 DEF Descent
  <2>3. PICK s : s = tree'
    OBVIOUS
  <2>4. PICK a : a = up
    OBVIOUS
  <2>5. /\ DOMAIN s = DOMAIN t
        /\ \A p \in DOMAIN t : HasKids(s, p) <=> HasKids(t, p)
        /\ HasKids(t, a) => Settled(OrNode(a), s, a)
        /\ \A p \in DOMAIN t : HasKids(t, p) /\ p # a /\ (a = <<>> \/ p # Front(a)) =>
              \A or : Settled(or, t, p) => Settled(or, s, p)
    <3>1. s = SummarizeNode(t, a) /\ a \in DOMAIN t
      BY <2>1, <2>3, <2>4
    <3> HIDE DEF up
    <3> QED BY <3>1, Summarizing
  <2>6. ASSUME NEW i \in 1..Len(frames) - 2, NEW p, p = frames[i].path PROVE OnCall(p)'
    <3>1. i \in 1..Len(frames') /\ i # Len(frames') /\ frames'[i] = frames[i]
      BY <1>2, <2>1
    <3> QED BY <2>6, <3>1 DEF OnCall
  <2>7. a # <<>> => Len(frames) - 2 \in 1..Len(frames) - 2 /\ frames[Len(frames) - 2].path = Front(a)
    <3>1. Len(frames) - 1 \in 1..Len(frames)
      BY <1>2, <1>6
    <3>2. a = frames[Len(frames) - 1].path /\ Len(a) = Len(frames) - 1 - 1
      BY <1>1, <2>1, <2>4, <3>1 DEF Descent
    <3>3. a = <<>> \/ Len(frames) - 1 # 1
      <4>1. a \in Seq(Positions)
        BY <2>1, <2>4 DEF IsTree
      <4>2. Len(a) = 0 => a = <<>>
        BY <4>1
      <4> QED BY <3>2, <4>2
    <3>4. CASE Len(frames) - 1 # 1
      <4>1. Len(frames) - 2 \in 1..Len(frames) - 1 /\ Len(frames) - 2 \in 1..Len(frames) - 2
            /\ (Len(frames) - 2) + 1 = Len(frames) - 1
        BY <1>2, <3>1, <3>4
      <4>2. frames[Len(frames) - 2].path = Front(frames[(Len(frames) - 2) + 1].path)
        BY <1>1, <4>1 DEF Descent
      <4> QED BY <3>2, <4>1, <4>2
    <3> QED BY <3>3, <3>4
  <2>8. ASSUME NEW p \in DOMAIN s, HasKids(s, p) PROVE Settled(OrNode(p), s, p) \/ Cut(p) \/ OnCall(p)'
    <3>1. p \in DOMAIN t /\ HasKids(t, p)
      BY <2>5, <2>8
    <3>2. CASE p = a
      BY <2>5, <3>1, <3>2
    <3>3. CASE p # a /\ a # <<>> /\ p = Front(a)
      BY <2>6, <2>7, <3>3
    <3>4. CASE p # a /\ (a = <<>> \/ p # Front(a))
      <4>1. \/ Settled(OrNode(p), t, p) \/ Cut(p)
            \/ \E i \in 1..Len(frames) - 1 : frames[i].path = p
        BY <1>6, <3>1
      <4>2. CASE Settled(OrNode(p), t, p)
        BY <2>5, <3>1, <3>4, <4>2
      <4>3. ASSUME NEW i \in 1..Len(frames) - 1, frames[i].path = p PROVE OnCall(p)'
        <5>1. i # Len(frames) - 1
          BY <2>1, <2>4, <3>4, <4>3
        <5>2. i \in 1..Len(frames) - 2
          BY <1>2, <5>1
        <5> QED BY <2>6, <4>3, <5>2
      <4> QED BY <4>1, <4>2, <4>3
    <3> QED BY <3>2, <3>3, <3>4
  <2>9. ASSUME NEW p \in DOMAIN tree', HasKids(tree', p) PROVE Fine(tree, p)'
    <3>1. Settled(OrNode(p), tree', p) \/ Cut(p) \/ OnCall(p)'
      BY <2>3, <2>8, <2>9
    <3> QED BY <3>1, SameRules DEF Fine
  <2> HIDE DEF up
  <2> QED BY <1>4, <2>2, <2>9 DEF ProgressInv
<1> QED BY <1>5, <1>6

LEMMA LeaveSettles ==
    ASSUME PoolInv, ProgressInv, Leave
    PROVE  ProgressInv'
<1>1. pc \in {"enter", "loop"} /\ UNCHANGED <<g, stopped>> /\ Return(tree) /\ (~stopped => pc = "loop")
  BY DEF Leave
<1>2. frames # <<>> /\ IsTree(tree, Positions)
  BY <1>1 DEF PoolInv, Calls
<1>3. ASSUME ~stopped, NEW p \in DOMAIN tree, HasKids(tree, p)
      PROVE  \/ Settled(OrNode(p), tree, p) \/ Cut(p)
             \/ \E i \in 1..Len(frames) - 1 : frames[i].path = p
  <2>1. Fine(tree, p)
    BY <1>1, <1>3 DEF ProgressInv
  <2>2. ASSUME OnCall(p) PROVE \E i \in 1..Len(frames) - 1 : frames[i].path = p
    <3>1. PICK i \in 1..Len(frames) : frames[i].path = p /\ i # Len(frames)
      BY <1>1, <1>3, <2>2 DEF OnCall
    <3>2. Len(frames) \in Nat
      BY <1>2, TopOK DEF PoolInv
    <3> QED BY <3>1, <3>2
  <2> QED BY <2>1, <2>2 DEF Fine
<1>4. PICK t : t = tree
  OBVIOUS
<1>5. /\ IsTree(t, Positions) /\ SameShape(t, tree) /\ Return(t)
      /\ ~stopped => \A p \in DOMAIN t : HasKids(t, p) =>
                \/ Settled(OrNode(p), t, p) \/ Cut(p)
                \/ \E i \in 1..Len(frames) - 1 : frames[i].path = p
  BY <1>1, <1>2, <1>3, <1>4 DEF SameShape
<1>6. pc # "idle"
  BY <1>1
<1> QED BY <1>1, <1>2, <1>5, <1>6, ReturnSettles

LEMMA ExpandedSettles ==
    ASSUME PoolInv, ProgressInv, Expanded
    PROVE  ProgressInv'
<1>1. /\ pc = "expanded" /\ UNCHANGED <<g, stopped>>
      /\ Return(IF stopped THEN tree ELSE SummarizeNode(tree, Top.path))
  BY DEF Expanded
<1>2. frames # <<>> /\ IsTree(tree, Positions) /\ Calls /\ Descent
  BY <1>1 DEF PoolInv, Calls, ProgressInv
<1>3. Top.path \in DOMAIN tree /\ Top = frames[Len(frames)] /\ Len(frames) \in Nat \ {0}
  BY <1>2, TopOK
<1>4. PICK t : t = IF stopped THEN tree ELSE SummarizeNode(tree, Top.path)
  OBVIOUS
<1>5. PICK a : a = Top.path
  OBVIOUS
<1>6. IsTree(t, Positions) /\ SameShape(t, tree)
  <2>1. CASE stopped
    BY <1>2, <1>4, <2>1 DEF SameShape
  <2>2. CASE ~stopped
    BY <1>2, <1>3, <1>4, <2>2, Summarized
  <2> QED BY <2>1, <2>2
<1>7. ASSUME ~stopped, NEW p \in DOMAIN t, HasKids(t, p)
      PROVE  \/ Settled(OrNode(p), t, p) \/ Cut(p)
             \/ \E i \in 1..Len(frames) - 1 : frames[i].path = p
  <2>1. /\ DOMAIN t = DOMAIN tree
        /\ \A q \in DOMAIN tree : HasKids(t, q) <=> HasKids(tree, q)
        /\ HasKids(tree, a) => Settled(OrNode(a), t, a)
        /\ \A q \in DOMAIN tree : HasKids(tree, q) /\ q # a /\ (a = <<>> \/ q # Front(a)) =>
              \A or : Settled(or, tree, q) => Settled(or, t, q)
    <3>1. PICK u : u = tree
      OBVIOUS
    <3>2. PICK P : P = Positions
      OBVIOUS
    <3>3. t = SummarizeNode(u, a) /\ IsTree(u, P) /\ a \in DOMAIN u
      BY <1>2, <1>3, <1>4, <1>5, <1>7, <3>1, <3>2
    <3>4. /\ DOMAIN t = DOMAIN u
          /\ \A q \in DOMAIN u : HasKids(t, q) <=> HasKids(u, q)
          /\ HasKids(u, a) => Settled(OrNode(a), t, a)
          /\ \A q \in DOMAIN u : HasKids(u, q) /\ q # a /\ (a = <<>> \/ q # Front(a)) =>
                \A or : Settled(or, u, q) => Settled(or, t, q)
      BY <3>3, Summarizing
    <3> QED BY <3>1, <3>4
  <2>2. p \in DOMAIN tree /\ HasKids(tree, p) /\ Fine(tree, p)
    BY <1>1, <1>7, <2>1 DEF ProgressInv
  <2>3. CASE p = a
    BY <2>1, <2>2, <2>3
  <2>4. CASE p # a /\ a # <<>> /\ p = Front(a)
    <3>1. Len(frames) \in 1..Len(frames) /\ Len(a) = Len(frames) - 1
      BY <1>2, <1>3, <1>5 DEF Descent
    <3>2. Len(frames) # 1
      <4>1. a \in Seq(Positions)
        BY <1>2, <1>3, <1>5 DEF IsTree
      <4>2. Len(a) = 0 => a = <<>>
        BY <4>1
      <4> QED BY <2>4, <3>1, <4>2
    <3>3. Len(frames) - 1 \in 1..Len(frames) - 1 /\ (Len(frames) - 1) + 1 = Len(frames)
      <4>1. \A n \in Nat \ {0} : n # 1 => n - 1 \in 1..n - 1 /\ (n - 1) + 1 = n
        OBVIOUS
      <4> QED BY <1>3, <3>2, <4>1
    <3>4. frames[Len(frames) - 1].path = Front(frames[(Len(frames) - 1) + 1].path)
      BY <1>2, <3>3 DEF Descent
    <3> QED BY <1>3, <1>5, <2>4, <3>3, <3>4
  <2>5. CASE p # a /\ (a = <<>> \/ p # Front(a))
    <3>1. CASE Settled(OrNode(p), tree, p)
      BY <2>1, <2>2, <2>5, <3>1
    <3>2. CASE OnCall(p)
      <4>1. PICK i \in 1..Len(frames) : frames[i].path = p
        BY <3>2 DEF OnCall
      <4>2. i # Len(frames)
        BY <1>3, <1>5, <2>5, <4>1
      <4>3. i \in 1..Len(frames) - 1
        BY <1>3, <4>1, <4>2
      <4> QED BY <4>1, <4>3
    <3> QED BY <2>2, <3>1, <3>2 DEF Fine
  <2> QED BY <2>3, <2>4, <2>5
<1>8. Return(t) /\ pc # "idle"
  BY <1>1, <1>4
<1> QED BY <1>1, <1>2, <1>6, <1>7, <1>8, ReturnSettles

(* A step that leaves tree and calls as they are.                          *)
LEMMA NothingUnsettled ==
    ASSUME PoolInv, ProgressInv, UNCHANGED <<g, tree, frames>>, stopped' = stopped \/ stopped',
           \/ pc' = pc
           \/ pc = "root" /\ pc' = "judge"
           \/ pc = "judge" /\ pc' = "done"
           \/ pc = "enter" /\ pc' = "loop"
    PROVE  ProgressInv'
<1>1. Descent'
  <2>1. \A i \in 2..Len(frames) : Cut(frames[i].path)' <=> Cut(frames[i].path)
    <3>1. ASSUME NEW i \in 2..Len(frames) PROVE Cut(frames[i].path)' <=> Cut(frames[i].path)
      <4>1. PICK p : p = frames[i].path
        OBVIOUS
      <4>2. p = frames'[i].path /\ (Cut(p)' <=> Cut(p))
        BY <4>1, SameRules
      <4> QED BY <4>1, <4>2
    <3> QED BY <3>1
  <2>2. Descent
    BY DEF ProgressInv
  <2> QED BY <2>1, <2>2 DEF Descent
<1>2. CallsProgress'
  <2>1. Top' = Top
    BY DEF Top, Last
  <2>2. CallsProgress
    BY DEF ProgressInv
  <2> QED BY <2>1, <2>2 DEF CallsProgress
<1>3. ASSUME ~stopped', pc' # "idle", NEW p \in DOMAIN tree', HasKids(tree', p) PROVE Fine(tree, p)'
  <2>1. Fine(tree, p)
    BY <1>3 DEF ProgressInv
  <2>2. OnCall(p) => OnCall(p)'
    BY DEF OnCall
  <2>3. Settled(OrNode(p), tree, p) => Settled(OrNode(p), tree, p)'
    <3>1. PICK or : or = OrNode(p)
      OBVIOUS
    <3>2. OrNode(p)' = or /\ tree' = tree
      BY <3>1, SameRules
    <3> QED BY <3>1, <3>2
  <2> QED BY <2>1, <2>2, <2>3, SameRules DEF Fine
<1> QED BY <1>1, <1>2, <1>3 DEF ProgressInv

LEMMA StartSettles ==
    ASSUME PoolInv, ProgressInv, Start
    PROVE  ProgressInv'
<1>1. pc = "idle" /\ pc' # "enter" /\ frames = <<>> /\ frames' = frames
  BY DEF Start, PoolInv, Calls
<1>2. Len(frames') = 0
  BY <1>1
<1>3. Descent' /\ CallsProgress'
  BY <1>1, <1>2 DEF Descent, CallsProgress
<1>4. tree' = [path \in {<<>>} |-> Leaf]
  BY DEF Start
<1>5. \A p \in DOMAIN tree' : ~HasKids(tree', p)
  BY <1>4, LeafOK DEF HasKids
<1> QED BY <1>3, <1>5 DEF ProgressInv

LEMMA NextProblemSettles ==
    ASSUME PoolInv, ProgressInv, NextProblem
    PROVE  ProgressInv'
<1>1. pc = "done" /\ pc' = "idle" /\ frames = <<>> /\ frames' = frames
  BY DEF NextProblem, PoolInv, Calls
<1>2. Len(frames') = 0
  BY <1>1
<1>3. Descent' /\ CallsProgress'
  BY <1>1, <1>2 DEF Descent, CallsProgress
<1> QED BY <1>1, <1>3 DEF ProgressInv

LEMMA IterateSettles ==
    ASSUME PoolInv, ProgressInv, Iterate
    PROVE  ProgressInv'
<1>1. pc = "root" /\ UNCHANGED <<g, tree, stopped>> /\ frames = <<>>
  BY DEF Iterate, PoolInv, Calls
<1>2. CASE pc' = "judge" /\ frames' = frames
  BY <1>1, <1>2, NothingUnsettled
<1>3. CASE pc' = "enter" /\ frames' = <<[path |-> <<>>, pn |-> INF, dn |-> INF]>>
  <2>1. /\ Len(frames') = 1 /\ frames'[1].path = <<>> /\ Len(frames'[1].path) = 0
        /\ frames'[1].pn = INF /\ frames'[1].dn = INF /\ INF \in Int
    BY <1>3, MateAssumption
  <2>2. Descent'
    BY <2>1 DEF Descent
  <2>3. CallsProgress'
    BY <2>1 DEF CallsProgress
  <2>4. ASSUME ~stopped', NEW p \in DOMAIN tree', HasKids(tree', p) PROVE Fine(tree, p)'
    <3>1. Fine(tree, p)
      BY <1>1, <2>4 DEF ProgressInv
    <3>2. ~OnCall(p)
      <4>1. Len(frames) = 0
        BY <1>1
      <4> QED BY <4>1 DEF OnCall
    <3>3. Settled(OrNode(p), tree, p) => Settled(OrNode(p), tree, p)'
      <4>1. PICK or : or = OrNode(p)
        OBVIOUS
      <4>2. OrNode(p)' = or /\ tree' = tree
        BY <1>1, <4>1, SameRules
      <4> QED BY <4>1, <4>2
    <3> QED BY <1>1, <3>1, <3>2, <3>3, SameRules DEF Fine
  <2> QED BY <2>2, <2>3, <2>4 DEF ProgressInv
<1> QED BY <1>2, <1>3 DEF Iterate

(* A call that is not the first has its caller's node above its own.       *)
LEMMA CallerAbove ==
    ASSUME Calls, Descent, IsTree(tree, Positions), frames # <<>>, Top.path # <<>>
    PROVE  \E i \in 1..Len(frames) - 1 : frames[i].path = Front(Top.path)
<1>1. Top = frames[Len(frames)] /\ Top.path \in DOMAIN tree /\ Len(frames) \in Nat \ {0}
  BY TopOK
<1>2. Len(Top.path) = Len(frames) - 1
  BY <1>1 DEF Descent
<1>3. Len(frames) # 1
  <2>1. Top.path \in Seq(Positions)
    BY <1>1 DEF IsTree
  <2>2. Len(Top.path) = 0 => Top.path = <<>>
    BY <2>1
  <2> QED BY <1>2, <2>2
<1>4. Len(frames) - 1 \in 1..Len(frames) - 1 /\ (Len(frames) - 1) + 1 = Len(frames)
  <2>1. \A n \in Nat \ {0} : n # 1 => n - 1 \in 1..n - 1 /\ (n - 1) + 1 = n
    OBVIOUS
  <2> QED BY <1>1, <1>3, <2>1
<1>5. frames[Len(frames) - 1].path = Front(frames[(Len(frames) - 1) + 1].path)
  BY <1>4 DEF Descent
<1> QED BY <1>1, <1>4, <1>5

(* A step within the last call: the calls go on, with the same frames.     *)
LEMMA CallsGoOn ==
    ASSUME PoolInv, ProgressInv, pc \in {"enter", "loop"}, pc' \in {"expanded", "loop"}, ~stopped,
           UNCHANGED <<g, frames, stopped>>,
           \A p \in DOMAIN tree' : HasKids(tree', p) =>
                \/ Settled(OrNode(p), tree', p) \/ Cut(p)
                \/ p = Top.path /\ pc' = "expanded"
                \/ \E i \in 1..Len(frames) - 1 : frames[i].path = p
    PROVE  ProgressInv'
<1>0. Calls /\ Descent /\ frames # <<>>
  BY DEF PoolInv, Calls, ProgressInv
<1>1. Descent'
  <2>1. \A i \in 2..Len(frames) : Cut(frames[i].path)' <=> Cut(frames[i].path)
    <3>1. ASSUME NEW i \in 2..Len(frames) PROVE Cut(frames[i].path)' <=> Cut(frames[i].path)
      <4>1. PICK p : p = frames[i].path
        OBVIOUS
      <4>2. p = frames'[i].path /\ (Cut(p)' <=> Cut(p))
        BY <4>1, SameRules
      <4> QED BY <4>1, <4>2
    <3> QED BY <3>1
  <2> QED BY <1>0, <2>1 DEF Descent
<1>2. CallsProgress'
  BY DEF CallsProgress
<1>3. Top = frames[Len(frames)] /\ Len(frames) \in Nat \ {0}
  BY <1>0, TopOK
<1>4. ASSUME NEW p \in DOMAIN tree', HasKids(tree', p) PROVE Fine(tree, p)'
  <2>1. ASSUME p = Top.path, pc' = "expanded" PROVE OnCall(p)'
    <3>1. Len(frames) \in 1..Len(frames')
      BY <1>3
    <3> QED BY <1>3, <2>1, <3>1 DEF OnCall
  <2>2. ASSUME NEW i \in 1..Len(frames) - 1, frames[i].path = p PROVE OnCall(p)'
    <3>1. i \in 1..Len(frames') /\ i # Len(frames')
      BY <1>3
    <3> QED BY <2>2, <3>1 DEF OnCall
  <2>3. Settled(OrNode(p), tree', p) \/ Cut(p) \/ OnCall(p)'
    BY <1>4, <2>1, <2>2
  <2> QED BY <2>3, SameRules DEF Fine
<1> QED BY <1>1, <1>2, <1>4 DEF ProgressInv

LEMMA ExpandNodeSettles ==
    ASSUME PoolInv, ProgressInv, ExpandNode
    PROVE  ProgressInv'
<1>1. /\ pc = "enter" /\ pc' = "expanded" /\ ~stopped /\ UNCHANGED <<g, frames, stopped>>
  BY DEF ExpandNode
<1>2. Calls /\ Descent /\ frames # <<>> /\ IsTree(tree, Positions)
  BY <1>1 DEF PoolInv, Calls, ProgressInv
<1>3. /\ DOMAIN tree \subseteq DOMAIN tree'
      /\ \A p \in DOMAIN tree' : p \in DOMAIN tree \/ ~HasKids(tree', p)
      /\ \A p \in DOMAIN tree : p # Top.path => tree'[p] = tree[p]
  BY ExpandNodeKeeps
<1>4. ASSUME NEW p \in DOMAIN tree', HasKids(tree', p)
      PROVE  \/ Settled(OrNode(p), tree', p) \/ Cut(p)
             \/ p = Top.path /\ pc' = "expanded"
             \/ \E i \in 1..Len(frames) - 1 : frames[i].path = p
  <2>1. CASE p = Top.path
    BY <1>1, <2>1
  <2>2. CASE Top.path # <<>> /\ p = Front(Top.path)
    BY <1>2, <2>2, CallerAbove
  <2>3. CASE p # Top.path /\ (Top.path = <<>> \/ p # Front(Top.path))
    <3>1. p \in DOMAIN tree /\ tree'[p] = tree[p] /\ HasKids(tree, p)
      BY <1>3, <1>4, <2>3 DEF HasKids
    <3>2. Fine(tree, p)
      BY <1>1, <3>1 DEF ProgressInv
    <3>3. CASE Settled(OrNode(p), tree, p)
      <4>1. PICK t : t = tree
        OBVIOUS
      <4>2. PICK u : u = tree'
        OBVIOUS
      <4>3. PICK c : c = Top.path
        OBVIOUS
      <4>4. PICK or : or = OrNode(p)
        OBVIOUS
      <4>5. PICK P : P = Positions
        OBVIOUS
      <4>6. /\ IsTree(t, P) /\ \A x \in DOMAIN t : x # c => u[x] = t[x]
            /\ p \in DOMAIN t /\ HasKids(t, p) /\ p # c /\ (c = <<>> \/ p # Front(c))
            /\ Settled(or, t, p)
        BY <1>2, <1>3, <2>3, <3>1, <3>3, <4>1, <4>2, <4>3, <4>4, <4>5
      <4>7. Settled(or, u, p)
        BY <4>6, OneChanges
      <4> QED BY <4>2, <4>4, <4>7
    <3>4. CASE OnCall(p)
      <4>1. PICK i \in 1..Len(frames) : frames[i].path = p /\ i # Len(frames)
        BY <1>1, <3>4 DEF OnCall
      <4>2. Len(frames) \in Nat
        BY <1>2, TopOK
      <4> QED BY <4>1, <4>2
    <3> QED BY <3>2, <3>3, <3>4 DEF Fine
  <2> QED BY <2>1, <2>2, <2>3
<1> QED BY <1>1, <1>4, CallsGoOn

LEMMA RepeatedSettles ==
    ASSUME PoolInv, ProgressInv, Repeated
    PROVE  ProgressInv'
<1>1. /\ pc = "loop" /\ pc' = "loop" /\ ~stopped /\ UNCHANGED <<g, frames, stopped>> /\ GoesOn(Top)
  BY DEF Repeated, GoesOn, MayGoOn
<1>2. Calls /\ Descent /\ frames # <<>> /\ IsTree(tree, Positions)
  BY <1>1 DEF PoolInv, Calls, ProgressInv
<1>3. Top.path \in DOMAIN tree /\ Len(frames) \in Nat \ {0} /\ HasKids(tree, Top.path)
      /\ Top = frames[Len(frames)]
  BY <1>1, <1>2, TopOK DEF Calls, GoesOn, HasKids
<1>4. PICK a : a = Top.path
  OBVIOUS
<1>5. PICK P : P = Positions
  OBVIOUS
<1>6. PICK t : t = tree
  OBVIOUS
<1>7. PICK k, u :
          /\ k \in DOMAIN t /\ k = Kid(Top.path, BestChild(Top.path)) /\ k \in KidsOf(t, a)
          /\ IsTree(u, P) /\ SameShape(u, t)
          /\ \A x \in DOMAIN t : x # k => u[x] = t[x]
          /\ tree' = SummarizeNode(u, a)
  BY <1>4, <1>5, <1>6, KidDecided
<1>8. IsTree(t, P) /\ a \in DOMAIN t /\ HasKids(t, a)
  BY <1>2, <1>3, <1>4, <1>5, <1>6
<1>9. a = Front(k) /\ k # <<>> /\ k # a
  BY <1>7, <1>8, OneParent
<1>10. Cut(k)
  BY <1>7, <1>9 DEF Repeated, Cut
<1>11. DOMAIN u = DOMAIN t /\ \A p \in DOMAIN t : HasKids(u, p) <=> HasKids(t, p)
  BY <1>7 DEF SameShape, HasKids
<1>12. PICK s : s = SummarizeNode(u, a)
  OBVIOUS
<1>13. /\ DOMAIN s = DOMAIN u
       /\ \A p \in DOMAIN u : HasKids(s, p) <=> HasKids(u, p)
       /\ HasKids(u, a) => Settled(OrNode(a), s, a)
       /\ \A p \in DOMAIN u : HasKids(u, p) /\ p # a /\ (a = <<>> \/ p # Front(a)) =>
             \A or : Settled(or, u, p) => Settled(or, s, p)
  BY <1>7, <1>8, <1>11, <1>12, Summarizing
<1>14. ASSUME NEW p \in DOMAIN s, HasKids(s, p)
       PROVE  Settled(OrNode(p), s, p) \/ Cut(p) \/ \E i \in 1..Len(frames) - 1 : frames[i].path = p
  <2>1. p \in DOMAIN t /\ HasKids(t, p) /\ HasKids(u, p)
    BY <1>11, <1>13, <1>14
  <2>2. CASE p = k
    BY <1>10, <2>2
  <2>3. CASE p = a
    BY <1>13, <2>1, <2>3
  <2>4. CASE p # a /\ a # <<>> /\ p = Front(a)
    BY <1>2, <1>4, <2>4, CallerAbove
  <2>5. CASE p # k /\ p # a /\ (a = <<>> \/ p # Front(a))
    <3>1. Fine(tree, p)
      BY <1>1, <1>6, <2>1 DEF ProgressInv
    <3>2. CASE Settled(OrNode(p), tree, p)
      <4>1. PICK or : or = OrNode(p)
        OBVIOUS
      <4>2. Settled(or, t, p)
        BY <1>6, <3>2, <4>1
      <4>3. Settled(or, u, p)
        BY <1>7, <1>8, <1>9, <2>1, <2>5, <4>2, OneChanges
      <4>4. Settled(or, s, p)
        BY <1>11, <1>13, <2>1, <2>5, <4>3
      <4> QED BY <4>1, <4>4
    <3>3. CASE OnCall(p)
      <4>1. PICK i \in 1..Len(frames) : frames[i].path = p /\ i # Len(frames)
        BY <1>1, <3>3 DEF OnCall
      <4>2. i \in 1..Len(frames) - 1
        BY <1>3, <4>1
      <4> QED BY <4>1, <4>2
    <3> QED BY <3>1, <3>2, <3>3 DEF Fine
  <2> QED BY <2>2, <2>3, <2>4, <2>5
<1>15. tree' = s
  BY <1>7, <1>12
<1> QED BY <1>1, <1>14, <1>15, CallsGoOn

(* The best child has the number its parent has from it.                   *)
LEMMA BestIsLeast ==
    ASSUME IsTree(tree, Positions), NEW path \in DOMAIN tree, HasKids(tree, path), Candidates(path) # {}
    PROVE  LET b == Kid(path, BestChild(path))
               r == Relevant(path, BestChild(path))
           IN  /\ b \in KidsOf(tree, path) /\ r \in Nat /\ r < INF
               /\ OrNode(path) => r = tree[b].pn /\ r = LeastOf(PnsOf(tree, path), KidsOf(tree, path))
               /\ ~OrNode(path) => r = tree[b].dn /\ r = LeastOf(DnsOf(tree, path), KidsOf(tree, path))
<1>1. PICK K : K = KidsOf(tree, path)
  OBVIOUS
<1>2. PICK f : f = IF OrNode(path) THEN PnsOf(tree, path) ELSE DnsOf(tree, path)
  OBVIOUS
<1>3. PICK best : best = BestChild(path)
  OBVIOUS
<1>4. /\ IsFiniteSet(K) /\ K # {} /\ K \subseteq DOMAIN tree
      /\ \A k \in K : f[k] \in Nat /\ f[k] = IF OrNode(path) THEN tree[k].pn ELSE tree[k].dn
  <2>1. /\ \A k \in K : PnsOf(tree, path)[k] = tree[k].pn /\ tree[k].pn \in Nat
        /\ \A k \in K : DnsOf(tree, path)[k] = tree[k].dn /\ tree[k].dn \in Nat
        /\ IsFiniteSet(K) /\ K # {} /\ K \subseteq DOMAIN tree
    BY <1>1, KidsOK
  <2> QED BY <1>2, <2>1
<1>5. /\ best \in DOMAIN tree[path].kids /\ best \in Candidates(path)
      /\ \A j \in Candidates(path) : Relevant(path, best) <= Relevant(path, j)
  BY <1>3, BestIsChild DEF HasKids
<1>6. \A i \in DOMAIN tree[path].kids : Kid(path, i) \in K /\ Relevant(path, i) = f[Kid(path, i)]
  <2>1. ASSUME NEW i \in DOMAIN tree[path].kids PROVE Kid(path, i) \in K
    BY <1>1 DEF KidsOf, Kid
  <2>2. ASSUME NEW i \in DOMAIN tree[path].kids PROVE Relevant(path, i) = f[Kid(path, i)]
    BY <1>4, <2>1 DEF Relevant
  <2> QED BY <2>1, <2>2
<1>7. \A k \in K : \E i \in DOMAIN tree[path].kids : k = Kid(path, i)
  BY <1>1 DEF KidsOf, Kid
<1>8. PICK l \in Nat : l = LeastOf(f, K)
  BY <1>4, LeastOK
<1>9. PICK k \in K : f[k] = l
  BY <1>4, <1>8, LeastOK
<1>10. \A x \in K : l <= f[x]
  BY <1>4, <1>8, LeastOK
<1>11. PICK i \in DOMAIN tree[path].kids : k = Kid(path, i)
  BY <1>7
<1>12. PICK r \in Nat : r = Relevant(path, best)
  BY <1>4, <1>5, <1>6
<1>13. r < INF /\ l <= r
  BY <1>5, <1>6, <1>10, <1>12 DEF Candidates
<1>14. l < INF
  <2>1. INF \in Nat
    BY MateAssumption
  <2> QED BY <1>13, <2>1
<1>15. i \in Candidates(path)
  BY <1>6, <1>9, <1>11, <1>14 DEF Candidates
<1>16. r <= l
  BY <1>5, <1>6, <1>9, <1>11, <1>12, <1>15
<1>17. r = l
  BY <1>13, <1>16
<1>18. Kid(path, best) \in K /\ r = f[Kid(path, best)]
  BY <1>5, <1>6, <1>12
<1> QED BY <1>1, <1>2, <1>3, <1>4, <1>8, <1>12, <1>13, <1>17, <1>18

(* A child's bound is above its number.                                    *)
LEMMA BoundAbove ==
    ASSUME IsTree(tree, Positions), NEW path \in DOMAIN tree, HasKids(tree, path), Candidates(path) # {},
           NEW threshold \in Int, threshold <= INF, Relevant(path, BestChild(path)) < threshold
    PROVE  /\ ChildBound(path, threshold) \in Int /\ ChildBound(path, threshold) <= INF
           /\ Relevant(path, BestChild(path)) < ChildBound(path, threshold)
<1> DEFINE C == Candidates(path) \ {BestChild(path)}
           V == {Relevant(path, i) : i \in C}
<1>1. PICK r \in Nat : r = Relevant(path, BestChild(path)) /\ r < INF
  BY BestIsLeast
<1>2. INF \in Int
  BY MateAssumption
<1>3. /\ C \subseteq DOMAIN tree[path].kids
      /\ \A i \in C : Relevant(path, i) \in Int /\ r <= Relevant(path, i)
  BY <1>1, BestIsChild DEF HasKids, Candidates
<1>4. IsFiniteSet(V) /\ \A y \in V : y \in Int /\ r <= y
  <2> DEFINE f == [i \in C |-> Relevant(path, i)]
  <2>1. V = {f[i] : i \in C}
    OBVIOUS
  <2>2. tree[path].kids \in Seq(Positions)
    BY DEF IsTree, IsNode, Kids, HasKids
  <2>3. DOMAIN tree[path].kids = 1..Len(tree[path].kids) /\ Len(tree[path].kids) \in Nat
    BY <2>2
  <2>4. IsFiniteSet(C)
    <3> HIDE DEF C
    <3>1. PICK n \in Nat : n = Len(tree[path].kids)
      BY <2>3
    <3>2. IsFiniteSet(1..n)
      BY FS_Interval
    <3> QED BY <1>3, <2>3, <3>1, <3>2, FS_Subset
  <2>5. \A y \in V : y \in Int /\ r <= y
    <3> HIDE DEF C
    <3> QED BY <1>3
  <2> HIDE DEF C, f, V
  <2> QED BY <2>1, <2>4, <2>5, ValuesFinite
<1>5. SecondBest(path) \in Int /\ r <= SecondBest(path)
  <2>1. SecondBest(path) = Min({INF} \union V)
    BY DEF SecondBest
  <2> HIDE DEF C, V
  <2>2. IsFiniteSet({INF} \union V)
    BY <1>4, FS_Singleton, FS_Union
  <2>3. {INF} \union V \subseteq Int /\ \A y \in {INF} \union V : r <= y
    BY <1>1, <1>2, <1>4
  <2>4. PICK S : S = {INF} \union V
    OBVIOUS
  <2>5. S # {}
    BY <2>4
  <2>6. Min(S) \in S
    BY <2>2, <2>3, <2>4, <2>5, MinInt
  <2> QED BY <2>1, <2>3, <2>4, <2>6
<1>6. PICK sb \in Int : sb = SecondBest(path) /\ r <= sb
  BY <1>5
<1>7. PICK sa : sa = AddSat(sb, 1)
  OBVIOUS
<1>8. sa \in Int /\ r < sa
  <2>1. sb + 1 \in Int /\ r < sb + 1
    BY <1>6
  <2>2. PICK x \in Int : x = sb + 1
    BY <2>1
  <2>3. sa = Min({x, INF})
    BY <1>7, <2>2 DEF AddSat
  <2>4. sa \in {x, INF}
    BY <1>2, <2>3, MinTwo
  <2> QED BY <1>1, <1>2, <2>1, <2>2, <2>4
<1>9. PICK cb : cb = ChildBound(path, threshold)
  OBVIOUS
<1>10. cb = Min({threshold, sa})
  BY <1>6, <1>7, <1>9 DEF ChildBound
<1>11. cb \in {threshold, sa} /\ cb <= threshold
  BY <1>8, <1>10, MinTwo
<1> QED BY <1>1, <1>2, <1>8, <1>9, <1>11

(* A call for the best child: its node is above the child and settled, so  *)
(* that the child has numbers below the ones it is searched for.           *)
LEMMA TopSettled ==
    ASSUME PoolInv, ProgressInv, pc = "loop", GoesOn(Top)
    PROVE  HasKids(tree, Top.path) /\ Settled(OrNode(Top.path), tree, Top.path)
<1>1. Calls /\ Descent /\ frames # <<>> /\ IsTree(tree, Positions) /\ ~stopped
  BY DEF PoolInv, Calls, ProgressInv, GoesOn, MayGoOn
<1>2. /\ Top.path \in DOMAIN tree /\ Len(frames) \in Nat \ {0} /\ HasKids(tree, Top.path)
      /\ Top = frames[Len(frames)]
  BY <1>1, TopOK DEF Calls, GoesOn, HasKids
<1>3. Fine(tree, Top.path)
  BY <1>1, <1>2 DEF ProgressInv
<1>4. \A i \in 1..Len(frames) : Len(frames[i].path) = i - 1
  BY <1>1 DEF Descent
<1>5. ~OnCall(Top.path)
  <2>1. ASSUME NEW i \in 1..Len(frames), frames[i].path = Top.path, i # Len(frames) PROVE FALSE
    <3>1. Len(frames) \in 1..Len(frames)
      BY <1>2
    <3>2. Len(Top.path) = i - 1 /\ Len(Top.path) = Len(frames) - 1
      BY <1>2, <1>4, <2>1, <3>1
    <3> QED BY <1>2, <2>1, <3>2
  <2> QED BY <2>1 DEF OnCall
<1>6. ~Cut(Top.path)
  <2>1. CASE Len(frames) = 1
    <3>1. Len(Top.path) = 0
      BY <1>2, <1>4, <2>1
    <3>2. Top.path \in Seq(Positions)
      BY <1>1, <1>2 DEF IsTree
    <3>3. Top.path = <<>>
      BY <3>1, <3>2
    <3> QED BY <3>3 DEF Cut
  <2>2. CASE Len(frames) # 1
    <3>1. Len(frames) \in 2..Len(frames)
      <4>1. \A n \in Nat \ {0} : n # 1 => n \in 2..n
        OBVIOUS
      <4> QED BY <1>2, <2>2, <4>1
    <3> QED BY <1>1, <1>2, <3>1 DEF Descent
  <2> QED BY <2>1, <2>2
<1> QED BY <1>2, <1>3, <1>5, <1>6 DEF Fine

LEMMA ChildBelow ==
    ASSUME PoolInv, ProgressInv, pc = "loop", GoesOn(Top)
    PROVE  LET f == ChildFrame(Top)
           IN  /\ f.path = Kid(Top.path, BestChild(Top.path)) /\ f.path \in KidsOf(tree, Top.path)
               /\ f.pn \in Int /\ f.pn <= INF /\ tree[f.path].pn < f.pn
               /\ f.dn \in Int /\ f.dn <= INF /\ tree[f.path].dn < f.dn
<1>1. Calls /\ Descent /\ frames # <<>> /\ IsTree(tree, Positions)
  BY DEF PoolInv, Calls, ProgressInv
<1>2. HasKids(tree, Top.path) /\ Settled(OrNode(Top.path), tree, Top.path)
  BY TopSettled
<1>3. Top.path \in DOMAIN tree /\ Len(frames) \in Nat \ {0} /\ Top = frames[Len(frames)]
  BY <1>1, TopOK
<1>4. PICK a : a = Top.path
  OBVIOUS
<1>5. PICK P : P = Positions
  OBVIOUS
<1>6. PICK t : t = tree
  OBVIOUS
<1>7. PICK K : K = KidsOf(t, a)
  OBVIOUS
<1>8. PICK pns : pns = PnsOf(t, a)
  OBVIOUS
<1>9. PICK dns : dns = DnsOf(t, a)
  OBVIOUS
<1>10. PICK b : b = Kid(a, BestChild(a))
  OBVIOUS
<1>11. PICK tp : tp = Top.pn
  OBVIOUS
<1>12. PICK td : td = Top.dn
  OBVIOUS
<1>13. tp \in Int /\ tp <= INF /\ td \in Int /\ td <= INF /\ INF \in Int
  <2>1. Len(frames) \in 1..Len(frames)
    BY <1>3
  <2> QED BY <1>1, <1>3, <1>11, <1>12, <2>1, MateAssumption DEF Descent
<1>14. Candidates(a) # {} /\ t[a].pn < tp /\ t[a].dn < td
  BY <1>4, <1>6, <1>11, <1>12 DEF GoesOn
<1>15. IsTree(t, P) /\ a \in DOMAIN t /\ HasKids(t, a)
  BY <1>1, <1>2, <1>3, <1>4, <1>5, <1>6
<1>16. /\ IsFiniteSet(K) /\ b \in K
       /\ \A k \in K : pns[k] = t[k].pn /\ t[k].pn \in Nat
       /\ \A k \in K : dns[k] = t[k].dn /\ t[k].dn \in Nat
  <2>1. b \in K
    BY <1>5, <1>6, <1>7, <1>10, <1>14, <1>15, <1>1, BestIsLeast
  <2> QED BY <1>7, <1>8, <1>9, <1>15, <2>1, KidsOK
<1>17. /\ TotalOf(pns, K) \in Nat /\ (TotalOf(pns, K) < INF => pns[b] <= TotalOf(pns, K))
       /\ TotalOf(dns, K) \in Nat /\ (TotalOf(dns, K) < INF => dns[b] <= TotalOf(dns, K))
  <2>1. (\A k \in K : pns[k] \in Nat) /\ \A k \in K : dns[k] \in Nat
    BY <1>16
  <2> QED BY <1>16, <2>1, TotalOK
<1>18. CASE OrNode(a)
  <2>1. t[a].pn = LeastOf(pns, K) /\ t[a].dn = TotalOf(dns, K)
    BY <1>2, <1>4, <1>6, <1>7, <1>8, <1>9, <1>18 DEF Settled, PnOf, DnOf
  <2>2. Relevant(a, BestChild(a)) = t[b].pn /\ t[b].pn = LeastOf(pns, K)
    BY <1>1, <1>6, <1>7, <1>8, <1>10, <1>14, <1>15, <1>18, BestIsLeast
  <2>3. Relevant(a, BestChild(a)) < tp
    BY <1>14, <2>1, <2>2
  <2>4. ChildBound(a, tp) \in Int /\ ChildBound(a, tp) <= INF /\ t[b].pn < ChildBound(a, tp)
    BY <1>1, <1>6, <1>13, <1>14, <1>15, <2>2, <2>3, BoundAbove
  <2>5. t[b].dn < td
    <3>1. PICK n \in Nat : n = TotalOf(dns, K)
      BY <1>17
    <3>2. PICK m \in Nat : m = t[b].dn /\ m = dns[b]
      BY <1>16
    <3>3. n < td /\ (n < INF => m <= n)
      BY <1>14, <1>17, <2>1, <3>1, <3>2
    <3> QED BY <1>13, <3>2, <3>3
  <2>6. /\ ChildFrame(Top).path = b /\ ChildFrame(Top).pn = ChildBound(a, tp) /\ ChildFrame(Top).dn = td
    BY <1>4, <1>10, <1>11, <1>12, <1>18 DEF ChildFrame
  <2> QED BY <1>4, <1>6, <1>7, <1>10, <1>13, <1>16, <2>4, <2>5, <2>6
<1>19. CASE ~OrNode(a)
  <2>1. t[a].pn = TotalOf(pns, K) /\ t[a].dn = LeastOf(dns, K)
    BY <1>2, <1>4, <1>6, <1>7, <1>8, <1>9, <1>19 DEF Settled, PnOf, DnOf
  <2>2. Relevant(a, BestChild(a)) = t[b].dn /\ t[b].dn = LeastOf(dns, K)
    BY <1>1, <1>6, <1>7, <1>9, <1>10, <1>14, <1>15, <1>19, BestIsLeast
  <2>3. Relevant(a, BestChild(a)) < td
    BY <1>14, <2>1, <2>2
  <2>4. ChildBound(a, td) \in Int /\ ChildBound(a, td) <= INF /\ t[b].dn < ChildBound(a, td)
    BY <1>1, <1>6, <1>13, <1>14, <1>15, <2>2, <2>3, BoundAbove
  <2>5. t[b].pn < tp
    <3>1. PICK n \in Nat : n = TotalOf(pns, K)
      BY <1>17
    <3>2. PICK m \in Nat : m = t[b].pn /\ m = pns[b]
      BY <1>16
    <3>3. n < tp /\ (n < INF => m <= n)
      BY <1>14, <1>17, <2>1, <3>1, <3>2
    <3> QED BY <1>13, <3>2, <3>3
  <2>6. /\ ChildFrame(Top).path = b /\ ChildFrame(Top).dn = ChildBound(a, td) /\ ChildFrame(Top).pn = tp
    BY <1>4, <1>10, <1>11, <1>12, <1>19 DEF ChildFrame
  <2> QED BY <1>4, <1>6, <1>7, <1>10, <1>13, <1>16, <2>4, <2>5, <2>6
<1> QED BY <1>18, <1>19

LEMMA DescendSettles ==
    ASSUME PoolInv, ProgressInv, Descend
    PROVE  ProgressInv'
<1>1. /\ pc = "loop" /\ pc' = "enter" /\ GoesOn(Top) /\ UNCHANGED <<g, tree, stopped>>
      /\ frames' = Append(frames, ChildFrame(Top)) /\ ~stopped
      /\ Verdict(Kid(Top.path, BestChild(Top.path))) = "open"
  BY DEF Descend, GoesOn, MayGoOn
<1>2. Calls /\ Descent /\ frames # <<>> /\ IsTree(tree, Positions)
  BY <1>1 DEF PoolInv, Calls, ProgressInv
<1>3. PICK f : f = ChildFrame(Top)
  OBVIOUS
<1>4. PICK l \in Nat \ {0} : l = Len(frames)
  BY <1>2, TopOK
<1>5. Top.path \in DOMAIN tree /\ Top = frames[l] /\ HasKids(tree, Top.path)
  BY <1>1, <1>2, <1>4, TopOK, TopSettled
<1>6. /\ f.path = Kid(Top.path, BestChild(Top.path)) /\ f.path \in KidsOf(tree, Top.path)
      /\ f.pn \in Int /\ f.pn <= INF /\ tree[f.path].pn < f.pn
      /\ f.dn \in Int /\ f.dn <= INF /\ tree[f.path].dn < f.dn
  BY <1>1, <1>3, ChildBelow
<1>7. /\ IsSeq(frames') /\ Len(frames') = l + 1
      /\ \A i \in 1..l : frames'[i] = frames[i]
      /\ frames'[l + 1] = f
  <2>1. \A s : IsSeq(s) =>
            /\ IsSeq(Append(s, f)) /\ Len(Append(s, f)) = Len(s) + 1
            /\ \A i \in 1..Len(s) : Append(s, f)[i] = s[i]
            /\ Append(s, f)[Len(s) + 1] = f
    BY SeqGrows
  <2> QED BY <1>1, <1>2, <1>3, <1>4, <2>1 DEF Calls
<1>8. /\ Front(f.path) = Top.path /\ Len(f.path) = l
  <2>1. PICK P : P = Positions
    OBVIOUS
  <2>2. PICK a \in Seq(P) : a = Top.path
    BY <1>2, <1>5, <2>1 DEF IsTree
  <2>3. tree[a].kids \in Seq(P)
    BY <1>2, <1>5, <2>1, <2>2 DEF IsTree, IsNode, Kids, HasKids
  <2>4. PICK q \in P : f.path = Append(a, q)
    <3>1. PICK i \in DOMAIN tree[a].kids : f.path = Append(a, tree[a].kids[i])
      BY <1>6, <2>2 DEF KidsOf
    <3>2. tree[a].kids[i] \in P
      BY <2>3
    <3> QED BY <3>1, <3>2
  <2>5. Front(f.path) = a
    BY <2>4, FrontOfKid
  <2>6. Len(f.path) = Len(a) + 1 /\ Len(a) \in Nat
    BY <2>4
  <2>7. Len(a) = l - 1
    <3>1. l \in 1..Len(frames)
      BY <1>4
    <3> QED BY <1>2, <1>5, <2>2, <3>1 DEF Descent
  <2> QED BY <2>2, <2>5, <2>6, <2>7
<1>9. ~Cut(f.path)
  BY <1>1, <1>6 DEF Cut
<1>10. PICK c : c = f.path
  OBVIOUS
<1>11. \A p : (Cut(p)' <=> Cut(p)) /\ OrNode(p)' = OrNode(p)
  BY <1>1, SameRules
<1>12. \A i \in 1..l : /\ Len(frames[i].path) = i - 1
                        /\ frames[i].pn \in Int /\ frames[i].pn <= INF
                        /\ frames[i].dn \in Int /\ frames[i].dn <= INF
  BY <1>2, <1>4 DEF Descent
<1>13. \A i \in 1..l - 1 : frames[i].path = Front(frames[i + 1].path)
  BY <1>2, <1>4 DEF Descent
<1>14. \A i \in 2..l : ~Cut(frames[i].path)
  BY <1>2, <1>4 DEF Descent
<1>15. ASSUME NEW i \in 1..l + 1
       PROVE  /\ Len(frames'[i].path) = i - 1
              /\ frames'[i].pn \in Int /\ frames'[i].pn <= INF'
              /\ frames'[i].dn \in Int /\ frames'[i].dn <= INF'
  <2>1. CASE i \in 1..l
    BY <1>7, <1>12, <2>1
  <2>2. CASE i = l + 1
    BY <1>4, <1>6, <1>7, <1>8, <2>2
  <2> QED BY <1>4, <2>1, <2>2
<1>16. ASSUME NEW i \in 1..(l + 1) - 1 PROVE frames'[i].path = Front(frames'[i + 1].path)
  <2>1. CASE i \in 1..l - 1
    <3>1. i \in 1..l /\ i + 1 \in 1..l
      BY <1>4, <2>1
    <3> QED BY <1>7, <1>13, <2>1, <3>1
  <2>2. CASE i = l
    <3>1. i \in 1..l
      BY <1>4, <2>2
    <3> QED BY <1>5, <1>7, <1>8, <2>2, <3>1
  <2> QED BY <1>4, <2>1, <2>2
<1>17. ASSUME NEW i \in 2..l + 1 PROVE ~Cut(frames[i].path)'
  <2>1. PICK p : p = frames'[i].path
    OBVIOUS
  <2>2. ~Cut(p)
    <3>1. CASE i \in 2..l
      <4>1. i \in 1..l
        BY <1>4, <3>1
      <4> QED BY <1>7, <1>14, <2>1, <3>1, <4>1
    <3>2. CASE i = l + 1
      BY <1>7, <1>9, <2>1, <3>2
    <3> QED BY <1>4, <3>1, <3>2
  <2>3. ~Cut(p)'
    BY <1>11, <2>2
  <2> QED BY <2>1, <2>3
<1>18. Descent'
  BY <1>7, <1>15, <1>16, <1>17 DEF Descent
<1>19. Top' = f
  <2>1. Top' = frames'[Len(frames')]
    BY DEF Top, Last
  <2> QED BY <1>7, <2>1
<1>20. CallsProgress'
  BY <1>1, <1>6, <1>19 DEF CallsProgress
<1>21. ASSUME NEW p \in DOMAIN tree', HasKids(tree', p) PROVE Fine(tree, p)'
  <2>1. Fine(tree, p)
    BY <1>1, <1>21 DEF ProgressInv
  <2>2. ASSUME OnCall(p) PROVE OnCall(p)'
    <3>1. PICK i \in 1..l : frames[i].path = p
      BY <1>4, <2>2 DEF OnCall
    <3>2. frames'[i].path = p /\ i \in 1..l + 1 /\ i # l + 1
      BY <1>4, <1>7, <3>1
    <3> QED BY <1>7, <3>2 DEF OnCall
  <2>3. Settled(OrNode(p), tree, p) => Settled(OrNode(p), tree, p)'
    <3>1. PICK or : or = OrNode(p)
      OBVIOUS
    <3>2. OrNode(p)' = or /\ tree' = tree
      BY <1>1, <1>11, <3>1
    <3> QED BY <3>1, <3>2
  <2> QED BY <1>11, <2>1, <2>2, <2>3 DEF Fine
<1> QED BY <1>18, <1>20, <1>21 DEF ProgressInv

LEMMA ProgressStarts == Init => ProgressInv
<1> SUFFICES ASSUME Init PROVE ProgressInv
  OBVIOUS
<1>1. pc = "idle" /\ frames = <<>>
  BY DEF Init
<1>2. Len(frames) = 0
  BY <1>1
<1> QED BY <1>1, <1>2 DEF ProgressInv, Descent, CallsProgress

LEMMA StepsKeepProgress == PoolInv /\ ProgressInv /\ [Next \/ NextProblem]_vars => ProgressInv'
<1> SUFFICES ASSUME PoolInv, ProgressInv, [Next \/ NextProblem]_vars PROVE ProgressInv'
  OBVIOUS
<1>1. CASE EnterLoop
  BY <1>1, NothingUnsettled DEF EnterLoop
<1>2. CASE Judge
  BY <1>2, NothingUnsettled DEF Judge
<1>3. CASE Stop
  BY <1>3, NothingUnsettled DEF Stop
<1>4. CASE UNCHANGED vars
  BY <1>4, NothingUnsettled DEF vars
<1> QED
  BY <1>1, <1>2, <1>3, <1>4, StartSettles, IterateSettles, ExpandNodeSettles, ExpandedSettles,
     RepeatedSettles, DescendSettles, LeaveSettles, NextProblemSettles DEF Next, Step

(* Between calls a node's numbers are those of its children, but where a   *)
(* repetition has decided it (SummarizeNode after each change in Search).  *)
THEOREM ProgressInvHolds == Spec => []ProgressInv
<1>1. Init => ProgressInv
  BY ProgressStarts
<1>2. PoolInv /\ ProgressInv /\ [Next \/ NextProblem]_vars => ProgressInv'
  BY StepsKeepProgress
<1> QED
  BY <1>1, <1>2, PoolInvHolds, PTL DEF Spec

(* For every problem, every threshold and every order of stops and calls:  *)
(* no call of Search is made that would return at once (dfpn.cc, the       *)
(* thresholds of the best child), so that threshold iteration does not     *)
(* spin on one node.                                                       *)
THEOREM CallsMoveOn == Spec => []CallsProgress
<1>1. ProgressInv => CallsProgress
  BY DEF ProgressInv
<1> QED
  BY <1>1, ProgressInvHolds, PTL

=============================================================================

----------------------------- MODULE FiniteSums -----------------------------
(***************************************************************************)
(* Induction, sums and sizes of finite sets, for the proofs of the other   *)
(* modules.  The library's induction theorems take an operator, which the  *)
(* provers cannot instantiate; the strict subsets of a set are well        *)
(* founded, and a minimal counterexample serves as well.                   *)
(***************************************************************************)
EXTENDS Integers, FiniteSets, Functions, FiniteSetTheorems, TLAPS

FiniteFamily(T) == T # {} /\ \A s \in T : IsFiniteSet(s)

(* Among finite sets one is minimal.                                       *)
LEMMA MinimalSet ==
  ASSUME NEW T, FiniteFamily(T)
  PROVE  \E x \in T : \A y \in T : y \subseteq x => y = x
<1> DEFINE S == UNION T
<1>1. T \subseteq FiniteSubsetsOf(S)
  BY DEF FiniteSubsetsOf, FiniteFamily
<1>2. PICK x \in T : \A y \in T : ~(<<y, x>> \in StrictSubsetOrdering(S))
  <2> HIDE DEF S
  <2> QED
    BY <1>1, FS_StrictSubsetOrderingWellFounded, WFMin DEF FiniteFamily
<1> QED
  BY <1>2 DEF StrictSubsetOrdering

(* Every nonempty set of naturals has a least element.                     *)
LEMMA LeastNumber ==
  ASSUME NEW S \in SUBSET Nat, S # {}
  PROVE  \E n \in S : \A m \in S : n <= m
<1> DEFINE T == {0..n : n \in S}
<1>1. FiniteFamily(T)
  <2>1. ASSUME NEW n \in S PROVE 0..n \in SUBSET Nat /\ IsFiniteSet(0..n)
    BY FS_Interval
  <2> QED
    BY <2>1 DEF FiniteFamily
<1>2. PICK x \in T : \A y \in T : y \subseteq x => y = x
  <2> HIDE DEF T
  <2> QED
    BY <1>1, MinimalSet
<1>3. PICK n \in S : x = 0..n
  OBVIOUS
<1>4. ASSUME NEW m \in S, m < n PROVE FALSE
  <2>1. 0..m \in T /\ 0..m \subseteq x
    BY <1>3, <1>4
  <2>2. n \in x /\ n \notin 0..m
    BY <1>3, <1>4
  <2> QED
    BY <1>2, <2>1, <2>2
<1> QED
  BY <1>4

-----------------------------------------------------------------------------
(* The fold of the community modules: it takes the elements in the order   *)
(* in which CHOOSE gives them.                                             *)
Pick(s) == CHOOSE x \in s : TRUE

IsSum(g, f, S) ==
  g = [s \in SUBSET S |-> IF s = {} THEN 0 ELSE f[Pick(s)] + g[s \ {Pick(s)}]]

LEMMA IsSumAt ==
  ASSUME NEW f, NEW S, NEW g, IsSum(g, f, S)
  PROVE  /\ g[{}] = 0
         /\ \A s \in SUBSET S : s # {} => g[s] = f[Pick(s)] + g[s \ {Pick(s)}]
<1> DEFINE G == [s \in SUBSET S |-> IF s = {} THEN 0 ELSE f[Pick(s)] + g[s \ {Pick(s)}]]
<1>1. g = G
  BY DEF IsSum
<1>2. \A s \in SUBSET S : G[s] = IF s = {} THEN 0 ELSE f[Pick(s)] + g[s \ {Pick(s)}]
  OBVIOUS
<1> HIDE DEF G
<1> QED
  BY <1>1, <1>2

(* Two folds agree wherever both are defined.                              *)
LEMMA SumUnique ==
  ASSUME NEW f, NEW S, IsFiniteSet(S), NEW D, NEW E, S \subseteq D, S \subseteq E,
         NEW g, NEW h, IsSum(g, f, D), IsSum(h, f, E)
  PROVE  g[S] = h[S]
<1> DEFINE T == {s \in SUBSET S : g[s] # h[s]}
<1> SUFFICES ASSUME T # {} PROVE FALSE
  OBVIOUS
<1>1. FiniteFamily(T)
  BY FS_Subset DEF FiniteFamily
<1>2. PICK x \in T : \A y \in T : y \subseteq x => y = x
  <2> HIDE DEF T
  <2> QED
    BY <1>1, MinimalSet
<1>3. x # {}
  BY IsSumAt
<1>4. Pick(x) \in x
  BY <1>3 DEF Pick
<1>5. g[x \ {Pick(x)}] = h[x \ {Pick(x)}]
  BY <1>2, <1>4
<1> QED
  BY <1>2, <1>3, <1>5, IsSumAt

LEMMA SumExists ==
  ASSUME NEW f, NEW S, IsFiniteSet(S)
  PROVE  \E g : IsSum(g, f, S)
<1> DEFINE T == {s \in SUBSET S : ~\E g : IsSum(g, f, s)}
<1> SUFFICES ASSUME T # {} PROVE FALSE
  OBVIOUS
<1>1. FiniteFamily(T)
  BY FS_Subset DEF FiniteFamily
<1>2. PICK x \in T : \A y \in T : y \subseteq x => y = x
  <2> HIDE DEF T
  <2> QED
    BY <1>1, MinimalSet
<1> DEFINE V(u) == (CHOOSE g : IsSum(g, f, u))[u]
           G == [s \in SUBSET x |-> IF s = {} THEN 0 ELSE f[Pick(s)] + V(s \ {Pick(s)})]
<1>3. ASSUME NEW u \in SUBSET x, u # x
      PROVE  IsSum(CHOOSE g : IsSum(g, f, u), f, u)
  BY <1>2, <1>3
<1>4. ASSUME NEW s \in SUBSET x, s # {}
      PROVE  G[s \ {Pick(s)}] = V(s \ {Pick(s)})
  <2> DEFINE u == s \ {Pick(s)}
  <2>1. Pick(s) \in s
    BY <1>4 DEF Pick
  <2>2. u \in SUBSET x /\ u # x
    BY <2>1
  <2> DEFINE h == CHOOSE g : IsSum(g, f, u)
  <2>3. IsSum(h, f, u)
    BY <1>3, <2>2
  <2>4. CASE u = {}
    BY <2>3, <2>4, <2>2, IsSumAt
  <2>5. CASE u # {}
    <3> DEFINE w == u \ {Pick(u)}
               k == CHOOSE g : IsSum(g, f, w)
    <3>1. Pick(u) \in u
      BY <2>5 DEF Pick
    <3>2. w \in SUBSET x /\ w # x /\ w \subseteq u
      BY <3>1, <2>2
    <3>3. IsSum(k, f, w)
      BY <1>3, <3>2
    <3>4. IsFiniteSet(w)
      BY <1>1, <1>2, <3>2, FS_Subset DEF FiniteFamily
    <3>5. h[w] = k[w]
      <4> HIDE DEF h, k, w, u
      <4> QED BY <2>3, <3>2, <3>3, <3>4, SumUnique
    <3>6. h[u] = f[Pick(u)] + h[w]
      <4>1. \A r \in SUBSET u : r # {} => h[r] = f[Pick(r)] + h[r \ {Pick(r)}]
        <5> HIDE DEF h, u
        <5> QED BY <2>3, IsSumAt
      <4> QED BY <4>1, <2>5
    <3>7. G[u] = f[Pick(u)] + k[w]
      BY <2>2, <2>5
    <3> QED
      BY <3>5, <3>6, <3>7
  <2> QED
    BY <2>4, <2>5
<1>5. IsSum(G, f, x)
  <2> DEFINE H == [s \in SUBSET x |-> IF s = {} THEN 0 ELSE f[Pick(s)] + G[s \ {Pick(s)}]]
  <2>1. \A s \in SUBSET x : G[s] = H[s]
    <3>1. \A s \in SUBSET x : G[s] = IF s = {} THEN 0 ELSE f[Pick(s)] + V(s \ {Pick(s)})
      BY DEF G
    <3> HIDE DEF G, V
    <3> QED
      BY <1>4, <3>1
  <2>2. G = H
    BY <2>1
  <2> HIDE DEF G
  <2> QED
    BY <2>2 DEF IsSum
<1> QED
  BY <1>2, <1>5

(* SumFunctionOnSet, computed from any of the elements of the set.         *)
LEMMA SumIsFold ==
  ASSUME NEW f, NEW S, IsFiniteSet(S), NEW g, IsSum(g, f, S)
  PROVE  SumFunctionOnSet(f, S) = g[S]
<1> DEFINE h == CHOOSE h : IsSum(h, f, S)
<1>1. SumFunctionOnSet(f, S) = h[S]
  BY DEF SumFunctionOnSet, FoldFunctionOnSet, MapThenFoldSet, IsSum, Pick
<1>2. IsSum(h, f, S)
  OBVIOUS
<1> HIDE DEF h
<1> QED
  BY <1>1, <1>2, SumUnique

LEMMA SumEmpty == \A f : SumFunctionOnSet(f, {}) = 0
<1> TAKE f
<1>1. IsFiniteSet({})
  BY FS_EmptySet
<1>2. PICK g : IsSum(g, f, {})
  BY <1>1, SumExists
<1> QED
  BY <1>1, <1>2, SumIsFold, IsSumAt

LEMMA SumPicked ==
  ASSUME NEW f, NEW S, IsFiniteSet(S), S # {}
  PROVE  SumFunctionOnSet(f, S) = f[Pick(S)] + SumFunctionOnSet(f, S \ {Pick(S)})
<1>1. PICK g : IsSum(g, f, S)
  BY SumExists
<1> DEFINE R == S \ {Pick(S)}
<1>2. IsFiniteSet(R) /\ R \subseteq S
  BY FS_Subset
<1>3. PICK h : IsSum(h, f, R)
  BY <1>2, SumExists
<1>4. g[R] = h[R]
  <2> HIDE DEF R
  <2> QED
    BY <1>1, <1>2, <1>3, SumUnique
<1>5. SumFunctionOnSet(f, R) = h[R]
  BY <1>2, <1>3, SumIsFold
<1>6. SumFunctionOnSet(f, S) = g[S]
  BY <1>1, SumIsFold
<1>7. g[S] = f[Pick(S)] + g[R]
  BY <1>1, IsSumAt
<1> QED
  BY <1>4, <1>5, <1>6, <1>7

LEMMA SumInt ==
  ASSUME NEW S, IsFiniteSet(S), NEW f, \A x \in S : f[x] \in Int
  PROVE  SumFunctionOnSet(f, S) \in Int
<1> DEFINE T == {s \in SUBSET S : SumFunctionOnSet(f, s) \notin Int}
<1> SUFFICES ASSUME T # {} PROVE FALSE
  OBVIOUS
<1>1. FiniteFamily(T)
  BY FS_Subset DEF FiniteFamily
<1>2. PICK x \in T : \A y \in T : y \subseteq x => y = x
  <2> HIDE DEF T
  <2> QED
    BY <1>1, MinimalSet
<1>3. x # {}
  BY SumEmpty
<1>4. Pick(x) \in x
  BY <1>3 DEF Pick
<1>5. SumFunctionOnSet(f, x \ {Pick(x)}) \in Int
  BY <1>2, <1>4
<1> QED
  BY <1>1, <1>2, <1>3, <1>4, <1>5, SumPicked DEF FiniteFamily

LEMMA SumOf ==
  ASSUME NEW S, IsFiniteSet(S), NEW f, \A x \in S : f[x] \in Int, NEW e \in S
  PROVE  SumFunctionOnSet(f, S) = f[e] + SumFunctionOnSet(f, S \ {e})
<1> DEFINE T == {s \in SUBSET S :
                   \E a \in s : SumFunctionOnSet(f, s) # f[a] + SumFunctionOnSet(f, s \ {a})}
<1> SUFFICES ASSUME T # {} PROVE FALSE
  OBVIOUS
<1>1. \A s \in SUBSET S : IsFiniteSet(s)
  BY FS_Subset
<1>2. PICK x \in T : \A y \in T : y \subseteq x => y = x
  <2>1. FiniteFamily(T)
    BY <1>1 DEF FiniteFamily
  <2> HIDE DEF T
  <2> QED
    BY <2>1, MinimalSet
<1>3. PICK a \in x : SumFunctionOnSet(f, x) # f[a] + SumFunctionOnSet(f, x \ {a})
  OBVIOUS
<1> DEFINE p == Pick(x)
           F(s) == SumFunctionOnSet(f, s)
<1>4. p \in x
  BY <1>3 DEF Pick
<1>5. F(x) = f[p] + F(x \ {p})
  BY <1>1, <1>3, SumPicked
<1>6. a # p
  BY <1>3, <1>5
<1>7. ASSUME NEW y \in SUBSET x, y # x, NEW b \in y
      PROVE  F(y) = f[b] + F(y \ {b})
  BY <1>2, <1>7
<1>8. /\ F(x \ {p}) = f[a] + F((x \ {p}) \ {a})
      /\ F(x \ {a}) = f[p] + F((x \ {a}) \ {p})
  <2> HIDE DEF F, p
  <2> QED
    BY <1>3, <1>4, <1>6, <1>7
<1> DEFINE rest == F((x \ {a}) \ {p})
<1>9. F((x \ {p}) \ {a}) = rest
  <2>1. (x \ {p}) \ {a} = (x \ {a}) \ {p}
    OBVIOUS
  <2> QED
    BY <2>1
<1>10. rest \in Int
  BY <1>1, SumInt
<1>11. f[a] \in Int /\ f[p] \in Int
  BY <1>3, <1>4
<1>12. F(x \ {p}) = f[a] + rest /\ F(x \ {a}) = f[p] + rest
  BY <1>8, <1>9
<1> HIDE DEF F, p, rest
<1>13. F(x) = f[a] + F(x \ {a})
  BY <1>5, <1>12, <1>10, <1>11
<1> QED
  BY <1>3, <1>13 DEF F

(* A sum depends on the values that are summed only.                       *)
LEMMA SumSame ==
  ASSUME NEW S, IsFiniteSet(S), NEW f, NEW g, \A x \in S : f[x] = g[x]
  PROVE  SumFunctionOnSet(f, S) = SumFunctionOnSet(g, S)
<1> DEFINE T == {s \in SUBSET S : SumFunctionOnSet(f, s) # SumFunctionOnSet(g, s)}
<1> SUFFICES ASSUME T # {} PROVE FALSE
  OBVIOUS
<1>1. FiniteFamily(T)
  BY FS_Subset DEF FiniteFamily
<1>2. PICK x \in T : \A y \in T : y \subseteq x => y = x
  <2> HIDE DEF T
  <2> QED
    BY <1>1, MinimalSet
<1>3. x # {}
  BY SumEmpty
<1>4. Pick(x) \in x
  BY <1>3 DEF Pick
<1>5. SumFunctionOnSet(f, x \ {Pick(x)}) = SumFunctionOnSet(g, x \ {Pick(x)})
  BY <1>2, <1>4
<1> QED
  BY <1>1, <1>2, <1>3, <1>4, <1>5, SumPicked DEF FiniteFamily

(* ... and one that changes, changes the sum by as much.                   *)
LEMMA SumChanged ==
  ASSUME NEW S, IsFiniteSet(S), NEW f, NEW g, NEW e \in S,
         \A x \in S : f[x] \in Int, g[e] \in Int, \A x \in S \ {e} : g[x] = f[x]
  PROVE  SumFunctionOnSet(g, S) = SumFunctionOnSet(f, S) - f[e] + g[e]
<1>1. IsFiniteSet(S \ {e})
  BY FS_Subset
<1>2. \A x \in S : g[x] \in Int
  OBVIOUS
<1>3. SumFunctionOnSet(f, S \ {e}) = SumFunctionOnSet(g, S \ {e})
  BY <1>1, SumSame
<1>4. SumFunctionOnSet(f, S) = f[e] + SumFunctionOnSet(f, S \ {e})
  BY SumOf
<1>5. SumFunctionOnSet(g, S) = g[e] + SumFunctionOnSet(g, S \ {e})
  BY <1>2, SumOf
<1>6. SumFunctionOnSet(f, S \ {e}) \in Int
  BY <1>1, SumInt
<1> QED
  BY <1>3, <1>4, <1>5, <1>6

LEMMA SumNat ==
  ASSUME NEW S, IsFiniteSet(S), NEW f, \A x \in S : f[x] \in Nat
  PROVE  SumFunctionOnSet(f, S) \in Nat
<1> DEFINE T == {s \in SUBSET S : SumFunctionOnSet(f, s) \notin Nat}
<1> SUFFICES ASSUME T # {} PROVE FALSE
  OBVIOUS
<1>1. FiniteFamily(T)
  BY FS_Subset DEF FiniteFamily
<1>2. PICK x \in T : \A y \in T : y \subseteq x => y = x
  <2> HIDE DEF T
  <2> QED
    BY <1>1, MinimalSet
<1>3. x # {}
  BY SumEmpty
<1>4. Pick(x) \in x
  BY <1>3 DEF Pick
<1>5. SumFunctionOnSet(f, x \ {Pick(x)}) \in Nat
  BY <1>2, <1>4
<1> QED
  BY <1>1, <1>2, <1>3, <1>4, <1>5, SumPicked DEF FiniteFamily

(* Nothing adds up to nothing.                                             *)
LEMMA SumZero ==
  ASSUME NEW S, IsFiniteSet(S), NEW f, \A x \in S : f[x] = 0
  PROVE  SumFunctionOnSet(f, S) = 0
<1> DEFINE T == {s \in SUBSET S : SumFunctionOnSet(f, s) # 0}
<1> SUFFICES ASSUME T # {} PROVE FALSE
  OBVIOUS
<1>1. FiniteFamily(T)
  BY FS_Subset DEF FiniteFamily
<1>2. PICK x \in T : \A y \in T : y \subseteq x => y = x
  <2> HIDE DEF T
  <2> QED
    BY <1>1, MinimalSet
<1>3. x # {}
  BY SumEmpty
<1>4. Pick(x) \in x
  BY <1>3 DEF Pick
<1>5. SumFunctionOnSet(f, x \ {Pick(x)}) = 0
  BY <1>2, <1>4
<1> QED
  BY <1>1, <1>2, <1>3, <1>4, <1>5, SumPicked DEF FiniteFamily

(* Twice the values, at most twice the sum.                                *)
LEMMA SumTwice ==
  ASSUME NEW S, IsFiniteSet(S), NEW f, NEW g,
         \A x \in S : f[x] \in Int /\ g[x] \in Int /\ f[x] <= 2 * g[x]
  PROVE  SumFunctionOnSet(f, S) <= 2 * SumFunctionOnSet(g, S)
<1> DEFINE T == {s \in SUBSET S :
                   ~(SumFunctionOnSet(f, s) <= 2 * SumFunctionOnSet(g, s))}
<1> SUFFICES ASSUME T # {} PROVE FALSE
  OBVIOUS
<1>1. FiniteFamily(T)
  BY FS_Subset DEF FiniteFamily
<1>2. PICK x \in T : \A y \in T : y \subseteq x => y = x
  <2> HIDE DEF T
  <2> QED
    BY <1>1, MinimalSet
<1>3. x # {}
  BY SumEmpty
<1>4. Pick(x) \in x /\ x \ {Pick(x)} \subseteq x /\ x \ {Pick(x)} # x /\ x \subseteq S
  BY <1>3 DEF Pick
<1>5. SumFunctionOnSet(f, x \ {Pick(x)}) <= 2 * SumFunctionOnSet(g, x \ {Pick(x)})
  BY <1>2, <1>4
<1>6. IsFiniteSet(x) /\ IsFiniteSet(x \ {Pick(x)})
  BY <1>4, FS_Subset
<1>7. /\ SumFunctionOnSet(f, x \ {Pick(x)}) \in Int
      /\ SumFunctionOnSet(g, x \ {Pick(x)}) \in Int
  BY <1>4, <1>6, SumInt
<1>8. /\ SumFunctionOnSet(f, x) = f[Pick(x)] + SumFunctionOnSet(f, x \ {Pick(x)})
      /\ SumFunctionOnSet(g, x) = g[Pick(x)] + SumFunctionOnSet(g, x \ {Pick(x)})
  BY <1>3, <1>6, SumPicked
<1>9. f[Pick(x)] \in Int /\ g[Pick(x)] \in Int /\ f[Pick(x)] <= 2 * g[Pick(x)]
  BY <1>4
<1>10. SumFunctionOnSet(f, x) <= 2 * SumFunctionOnSet(g, x)
  BY <1>5, <1>7, <1>8, <1>9
<1> QED
  BY <1>10

(* Values between 0 and k add up to no more than k each, and to at least   *)
(* the number of those that are positive.                                  *)
LEMMA SumBounds ==
  ASSUME NEW S, IsFiniteSet(S), NEW f, NEW k \in Nat, NEW B \in SUBSET S,
         \A x \in S : f[x] \in Nat /\ f[x] <= k,
         \A x \in B : f[x] >= 1
  PROVE  /\ SumFunctionOnSet(f, S) \in Nat
         /\ Cardinality(B) <= SumFunctionOnSet(f, S)
         /\ SumFunctionOnSet(f, S) <= Cardinality(S) * k
<1> DEFINE Bounded(s) == /\ Cardinality(B \cap s) <= SumFunctionOnSet(f, s)
                         /\ SumFunctionOnSet(f, s) <= Cardinality(s) * k
           T == {s \in SUBSET S : ~Bounded(s)}
<1>1. SumFunctionOnSet(f, S) \in Nat
  BY SumNat
<1> SUFFICES ASSUME T # {} PROVE FALSE
  <2>1. B \cap S = B
    OBVIOUS
  <2> QED
    BY <1>1, <2>1
<1>2. FiniteFamily(T)
  BY FS_Subset DEF FiniteFamily
<1>3. PICK x \in T : \A y \in T : y \subseteq x => y = x
  <2> HIDE DEF T
  <2> QED
    BY <1>2, MinimalSet
<1>4. x # {}
  <2>1. B \cap {} = {} /\ Cardinality({}) = 0 /\ SumFunctionOnSet(f, {}) = 0
    BY SumEmpty, FS_EmptySet
  <2> QED
    BY <2>1
<1> PICK e, r : e = Pick(x) /\ r = x \ {Pick(x)}
  OBVIOUS
<1>5. e \in x /\ r = x \ {e} /\ x \subseteq S /\ f[e] \in Nat /\ f[e] <= k
  BY <1>4 DEF Pick
<1>6. Bounded(r)
  BY <1>3, <1>5
<1>7. /\ IsFiniteSet(x) /\ IsFiniteSet(r) /\ IsFiniteSet(B \cap r)
      /\ SumFunctionOnSet(f, x) = f[e] + SumFunctionOnSet(f, r)
  BY <1>4, <1>5, FS_Subset, SumPicked
<1>8. SumFunctionOnSet(f, r) \in Nat
  <2>1. \A y \in r : f[y] \in Nat
    BY <1>5
  <2> QED
    BY <1>7, <2>1, SumNat
<1>9. Cardinality(x) = Cardinality(r) + 1 /\ Cardinality(r) \in Nat /\ Cardinality(B \cap r) \in Nat
  <2>1. r \cup {e} = x /\ e \notin r
    BY <1>5
  <2> QED
    BY <1>7, <2>1, FS_AddElement, FS_CardinalityType
<1>10. /\ e \in B => Cardinality(B \cap x) = Cardinality(B \cap r) + 1 /\ f[e] >= 1
       /\ e \notin B => Cardinality(B \cap x) = Cardinality(B \cap r)
  <2>1. e \in B => B \cap x = (B \cap r) \cup {e} /\ e \notin B \cap r
    BY <1>5
  <2>2. e \notin B => B \cap x = B \cap r
    BY <1>5
  <2> QED
    BY <1>7, <2>1, <2>2, FS_AddElement
<1>11. (Cardinality(r) + 1) * k = Cardinality(r) * k + k /\ Cardinality(r) * k \in Nat
  BY <1>9
<1>12. Cardinality(B \cap x) <= SumFunctionOnSet(f, x)
  BY <1>5, <1>6, <1>7, <1>8, <1>9, <1>10
<1>13. SumFunctionOnSet(f, x) <= Cardinality(x) * k
  BY <1>5, <1>6, <1>7, <1>8, <1>9, <1>11
<1> QED
  BY <1>3, <1>12, <1>13
-----------------------------------------------------------------------------
(* Sizes of finite sets.                                                   *)

(* One member more or less.                                                *)
LEMMA Sizes ==
  ASSUME NEW X, IsFiniteSet(X), NEW s \in SUBSET X, NEW r \in SUBSET X, NEW t \in X
  PROVE  /\ Cardinality(s) \in Nat /\ Cardinality(r) \in Nat
         /\ r \subseteq s => Cardinality(r) <= Cardinality(s)
         /\ r \subseteq s \cup {t} => Cardinality(r) <= Cardinality(s) + 1
         /\ t \in s /\ r \subseteq s \ {t} => Cardinality(r) + 1 <= Cardinality(s)
         /\ t \notin s /\ r = s \cup {t} => Cardinality(r) = Cardinality(s) + 1
         /\ t \in s /\ r = s \ {t} => Cardinality(r) + 1 = Cardinality(s)
<1>1. /\ IsFiniteSet(s) /\ IsFiniteSet(r) /\ IsFiniteSet(s \cup {t}) /\ IsFiniteSet(s \ {t})
      /\ Cardinality(s) \in Nat /\ Cardinality(r) \in Nat
  <2>1. \A a \in SUBSET X : IsFiniteSet(a) /\ Cardinality(a) \in Nat
    BY FS_Subset, FS_CardinalityType
  <2> QED
    BY <2>1
<1>2. /\ t \notin s => Cardinality(s \cup {t}) = Cardinality(s) + 1
      /\ t \in s => Cardinality(s \ {t}) = Cardinality(s) - 1
  BY <1>1, FS_AddElement, FS_RemoveElement
<1>3. t \in s => s \cup {t} = s
  OBVIOUS
<1>4. \A a \in SUBSET X, b \in SUBSET X :
        a \subseteq b => Cardinality(a) <= Cardinality(b)
  <2>1. \A b \in SUBSET X : IsFiniteSet(b)
    BY FS_Subset
  <2> QED
    BY <2>1, FS_Subset
<1>5. r \subseteq s \cup {t} => Cardinality(r) <= Cardinality(s) + 1
  <2> SUFFICES ASSUME r \subseteq s \cup {t} PROVE Cardinality(r) <= Cardinality(s) + 1
    OBVIOUS
  <2>1. Cardinality(r) <= Cardinality(s \cup {t})
    BY <1>4
  <2>2. CASE t \in s
    <3>1. Cardinality(s \cup {t}) = Cardinality(s)
      BY <1>3, <2>2
    <3> QED
      BY <1>1, <2>1, <3>1
  <2>3. CASE t \notin s
    BY <1>1, <1>2, <2>1, <2>3
  <2> QED
    BY <2>2, <2>3
<1>6. t \in s /\ r \subseteq s \ {t} => Cardinality(r) + 1 <= Cardinality(s)
  <2>1. r \subseteq s \ {t} => Cardinality(r) <= Cardinality(s \ {t})
    BY <1>4
  <2> QED
    BY <1>1, <1>2, <2>1
<1>7. r \subseteq s => Cardinality(r) <= Cardinality(s)
  BY <1>4
<1>8. t \notin s /\ r = s \cup {t} => Cardinality(r) = Cardinality(s) + 1
  BY <1>2
<1>9. t \in s /\ r = s \ {t} => Cardinality(r) + 1 = Cardinality(s)
  BY <1>1, <1>2
<1> QED
  BY <1>1, <1>5, <1>6, <1>7, <1>8, <1>9

(* What is covered by the images of a finite set is no larger.             *)
LEMMA Covered ==
  ASSUME NEW A, IsFiniteSet(A), NEW B, NEW f, \A y \in B : \E x \in A : f[x] = y
  PROVE  IsFiniteSet(B) /\ Cardinality(B) <= Cardinality(A)
<1> DEFINE C == {x \in A : f[x] \in B}
           g == [x \in C |-> f[x]]
<1>1. IsFiniteSet(C) /\ Cardinality(C) <= Cardinality(A)
  BY FS_Subset
<1>2. g \in Surjection(C, B)
  <2>1. g \in [C -> B]
    OBVIOUS
  <2>2. \A y \in B : \E x \in C : g[x] = y
    OBVIOUS
  <2> QED
    BY <2>1, <2>2 DEF Surjection
<1>3. IsFiniteSet(B) /\ Cardinality(B) <= Cardinality(C)
  <2> HIDE DEF C, g
  <2> QED
    BY <1>1, <1>2, FS_Surjection
<1>4. Cardinality(A) \in Nat /\ Cardinality(B) \in Nat /\ Cardinality(C) \in Nat
  BY <1>1, <1>3, FS_CardinalityType
<1> QED
  BY <1>1, <1>3, <1>4

(* A finite set of numbers has a greatest.                                 *)
LEMMA Greatest ==
  ASSUME NEW L \in SUBSET Nat, IsFiniteSet(L), L # {}
  PROVE  \E k \in L : \A m \in L : m <= k
<1> DEFINE Larger(m) == {k \in L : k > m}
           T == {Larger(m) : m \in L}
<1>1. FiniteFamily(T)
  <2>1. T # {}
    OBVIOUS
  <2>2. ASSUME NEW y \in T PROVE IsFiniteSet(y)
    <3>1. y \subseteq L
      OBVIOUS
    <3> QED
      BY <3>1, FS_Subset
  <2> HIDE DEF T
  <2> QED
    BY <2>1, <2>2 DEF FiniteFamily
<1>2. PICK x \in T : \A y \in T : y \subseteq x => y = x
  <2> HIDE DEF T
  <2> QED
    BY <1>1, MinimalSet
<1>3. PICK k \in L : x = Larger(k)
  OBVIOUS
<1>4. ASSUME NEW m \in L, m > k PROVE FALSE
  <2>1. Larger(m) \in T /\ m \in Larger(k) /\ m \notin Larger(m)
    BY <1>4
  <2>2. ASSUME NEW j \in Larger(m) PROVE j \in Larger(k)
    <3>1. j \in Nat /\ m \in Nat /\ k \in Nat /\ j \in L /\ j > m
      OBVIOUS
    <3> QED
      BY <1>4, <3>1
  <2> QED
    BY <1>2, <1>3, <2>1, <2>2
<1> QED
  BY <1>4
=============================================================================

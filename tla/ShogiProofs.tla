----------------------------- MODULE ShogiProofs -----------------------------
(***************************************************************************)
(* Of the board as a machine (ShogiPlay), for boards of every size, every  *)
(* starting position and games of any length: that a check is seen alike   *)
(* from the king and from the attacker, that taking back restores, that    *)
(* the hash kept up with the moves is the one from scratch, and that the   *)
(* verdict on a repetition is the rule's.                                  *)
(***************************************************************************)
EXTENDS ShogiPlay, FiniteSums, SequenceTheorems, TLAPS

-----------------------------------------------------------------------------
(* Squares and their coordinates. *)

LEMMA DivMod ==
    ASSUME NEW d \in Nat \ {0}, NEW s \in Nat
    PROVE  s = ((s \div d) * d) + (s % d) /\ s % d \in 0..d - 1 /\ s \div d \in Nat
OBVIOUS

LEMMA ProductDiv ==
    ASSUME NEW d \in Nat \ {0}, NEW f \in Nat, NEW r \in 0..d - 1
    PROVE  ((f * d) + r) \div d = f /\ ((f * d) + r) % d = r
OBVIOUS

LEMMA QuotientBound ==
    ASSUME NEW d \in Nat \ {0}, NEW n \in Nat, NEW s \in 0..n * d - 1
    PROVE  s \div d \in 0..n - 1
OBVIOUS

LEMMA ProductBound ==
    ASSUME NEW d \in Nat \ {0}, NEW n \in Nat, NEW f \in 0..n - 1, NEW r \in 0..d - 1
    PROVE  (f * d) + r \in 0..n * d - 1
OBVIOUS

LEMMA Coordinates ==
    ASSUME NEW s \in Squares
    PROVE  /\ FileOf(s) \in 0..Files - 1 /\ RankOf(s) \in 0..Ranks - 1
           /\ s = (FileOf(s) * Ranks) + RankOf(s)
<1>1. Ranks \in Nat \ {0} /\ Files \in Nat /\ s \in 0..Files * Ranks - 1
  BY BoardAssumption DEF Squares
<1>2. s \in Nat
  <2>1. Files * Ranks - 1 \in Int
    BY <1>1
  <2> QED BY <1>1, <2>1
<1>3. s \div Ranks \in 0..Files - 1
  BY <1>1, QuotientBound
<1>4. s = ((s \div Ranks) * Ranks) + (s % Ranks) /\ s % Ranks \in 0..Ranks - 1
  BY <1>1, <1>2, DivMod
<1> QED BY <1>3, <1>4 DEF FileOf, RankOf

LEMMA SquareAt ==
    ASSUME NEW f \in 0..Files - 1, NEW r \in 0..Ranks - 1
    PROVE  /\ (f * Ranks) + r \in Squares
           /\ FileOf((f * Ranks) + r) = f /\ RankOf((f * Ranks) + r) = r
<1>1. Ranks \in Nat \ {0} /\ Files \in Nat /\ f \in Nat
  BY BoardAssumption
<1>2. (f * Ranks) + r \in 0..Files * Ranks - 1
  BY <1>1, ProductBound
<1>3. ((f * Ranks) + r) \div Ranks = f /\ ((f * Ranks) + r) % Ranks = r
  BY <1>1, ProductDiv
<1> QED BY <1>2, <1>3 DEF Squares, FileOf, RankOf

(* One square is i steps of direction <<a, b>> away from another: in coordinates. *)
Steps(s, a, b, i, t) == FileOf(t) = FileOf(s) + i * a /\ RankOf(t) = RankOf(s) + i * b

LEMMA AwayIsSteps ==
    ASSUME NEW s \in Squares, NEW a \in Int, NEW b \in Int, NEW i \in Int, NEW t
    PROVE  t \in Away(s, <<a, b>>, i) <=> t \in Squares /\ Steps(s, a, b, i, t)
<1> DEFINE f == FileOf(s) + i * a
           r == RankOf(s) + i * b
<1>1. Away(s, <<a, b>>, i) = IF f \in 0..Files - 1 /\ r \in 0..Ranks - 1
                             THEN {(f * Ranks) + r} ELSE {}
  BY DEF Away
<1>2. ASSUME t \in Away(s, <<a, b>>, i) PROVE t \in Squares /\ Steps(s, a, b, i, t)
  <2>1. f \in 0..Files - 1 /\ r \in 0..Ranks - 1 /\ t = (f * Ranks) + r
    BY <1>1, <1>2
  <2> HIDE DEF f, r
  <2>2. t \in Squares /\ FileOf(t) = f /\ RankOf(t) = r
    BY <2>1, SquareAt
  <2> QED BY <2>2 DEF Steps, f, r
<1>3. ASSUME t \in Squares, Steps(s, a, b, i, t) PROVE t \in Away(s, <<a, b>>, i)
  <2>1. FileOf(t) = f /\ RankOf(t) = r
    BY <1>3 DEF Steps
  <2>2. f \in 0..Files - 1 /\ r \in 0..Ranks - 1 /\ t = (f * Ranks) + r
    BY <1>3, <2>1, Coordinates
  <2> QED BY <1>1, <2>2
<1> QED BY <1>2, <1>3

(* A step back. *)
LEMMA StepsBack ==
    ASSUME NEW s \in Squares, NEW t \in Squares, NEW a \in Int, NEW b \in Int, NEW i \in Int
    PROVE  Steps(s, a, b, i, t) <=> Steps(t, -a, -b, i, s)
<1>1. FileOf(s) \in Int /\ RankOf(s) \in Int /\ FileOf(t) \in Int /\ RankOf(t) \in Int
  BY Coordinates, BoardAssumption
<1>2. i * (-a) = -(i * a) /\ i * (-b) = -(i * b)
  OBVIOUS
<1>3. i * a \in Int /\ i * b \in Int
  OBVIOUS
<1> QED BY <1>1, <1>2, <1>3 DEF Steps

-----------------------------------------------------------------------------
(* Rays, and what lies between. *)

Reach == 1..Files + Ranks
Directions == Straight \union Diagonal

Unit == {i \in Int : i = 1 \/ i = -1}

LEMMA StraightIs ==
    ASSUME NEW a \in Int, NEW b \in Int
    PROVE  <<a, b>> \in Straight <=> (a = 0 /\ b \in Unit) \/ (b = 0 /\ a \in Unit)
BY DEF Straight, Unit

LEMMA DiagonalIs ==
    ASSUME NEW a \in Int, NEW b \in Int
    PROVE  <<a, b>> \in Diagonal <=> a \in Unit /\ b \in Unit
BY DEF Diagonal, Unit

LEMMA DirectionShape ==
    ASSUME NEW d \in Directions
    PROVE  \E a \in -1..1, b \in -1..1 : d = <<a, b>> /\ (a # 0 \/ b # 0)
<1> DEFINE Goal == \E a \in -1..1, b \in -1..1 : d = <<a, b>> /\ (a # 0 \/ b # 0)
<1>1. PICK m \in Int : m = -1
  OBVIOUS
<1>2. m \in -1..1 /\ 0 \in -1..1 /\ 1 \in -1..1 /\ m # 0
  BY <1>1
<1>3. \/ d = <<0, m>> \/ d = <<0, 1>> \/ d = <<m, 0>> \/ d = <<1, 0>>
      \/ d = <<m, m>> \/ d = <<m, 1>> \/ d = <<1, m>> \/ d = <<1, 1>>
  BY <1>1 DEF Directions, Straight, Diagonal
<1>4. CASE d = <<0, m>>
  BY <1>4, <1>2
<1>5. CASE d = <<0, 1>>
  BY <1>5, <1>2
<1>6. CASE d = <<m, 0>>
  BY <1>6, <1>2
<1>7. CASE d = <<1, 0>>
  BY <1>7, <1>2
<1>8. CASE d = <<m, m>>
  BY <1>8, <1>2
<1>9. CASE d = <<m, 1>>
  BY <1>9, <1>2
<1>10. CASE d = <<1, m>>
  BY <1>10, <1>2
<1>11. CASE d = <<1, 1>>
  BY <1>11, <1>2
<1> QED BY <1>3, <1>4, <1>5, <1>6, <1>7, <1>8, <1>9, <1>10, <1>11

LEMMA Reversed ==
    ASSUME NEW a \in Int, NEW b \in Int
    PROVE  /\ <<a, b>> \in Straight <=> <<-a, -b>> \in Straight
           /\ <<a, b>> \in Diagonal <=> <<-a, -b>> \in Diagonal
           /\ <<a, b>> \in Directions <=> <<-a, -b>> \in Directions
<1>1. -a \in Int /\ -b \in Int
  OBVIOUS
<1>2. (-a \in Unit <=> a \in Unit) /\ (-b \in Unit <=> b \in Unit)
  BY DEF Unit
<1>3. (-a = 0 <=> a = 0) /\ (-b = 0 <=> b = 0)
  OBVIOUS
<1> QED BY <1>1, <1>2, <1>3, StraightIs, DiagonalIs DEF Directions

LEMMA Negative ==
    ASSUME NEW a \in Int, NEW b \in Int, a + b = 0
    PROVE  -a = b
OBVIOUS

LEMMA RayIsSteps ==
    ASSUME NEW s \in Squares, NEW a \in Int, NEW b \in Int, NEW t
    PROVE  t \in Ray(s, <<a, b>>) <=> t \in Squares /\ \E i \in Reach : Steps(s, a, b, i, t)
<1>1. t \in Ray(s, <<a, b>>) <=> \E i \in Reach : t \in Away(s, <<a, b>>, i)
  BY DEF Ray, Reach
<1>2. \A i \in Reach : i \in Int
  BY BoardAssumption DEF Reach
<1> QED BY <1>1, <1>2, AwayIsSteps

LEMMA RayBack ==
    ASSUME NEW s \in Squares, NEW t \in Squares, NEW a \in Int, NEW b \in Int
    PROVE  t \in Ray(s, <<a, b>>) <=> s \in Ray(t, <<-a, -b>>)
<1>1. \A i \in Reach : i \in Int
  BY BoardAssumption DEF Reach
<1>2. \A i \in Reach : Steps(s, a, b, i, t) <=> Steps(t, -a, -b, i, s)
  BY <1>1, StepsBack
<1>3. -a \in Int /\ -b \in Int
  OBVIOUS
<1> QED BY <1>2, <1>3, RayIsSteps

(* Between two squares are those that are fewer steps away in the same direction. *)
LEMMA BetweenIsFewer ==
    ASSUME NEW s \in Squares, NEW t \in Squares, NEW x
    PROVE  x \in BetweenBB[s][t] <=>
             /\ x \in Squares
             /\ \E a \in -1..1, b \in -1..1, i \in Reach, j \in Reach :
                   /\ <<a, b>> \in Directions
                   /\ j < i /\ Steps(s, a, b, i, t) /\ Steps(s, a, b, j, x)
<1>1. BetweenBB[s][t] = UNION {Ray(s, d) \ (Ray(t, d) \union {t}) :
                                 d \in {e \in Directions : t \in Ray(s, e)}}
  BY DEF BetweenBB, Directions
<1>2. \A i \in Reach : i \in Int /\ i >= 1 /\ i <= Files + Ranks
  BY BoardAssumption DEF Reach
<1>3. /\ FileOf(s) \in Int /\ RankOf(s) \in Int /\ FileOf(t) \in Int /\ RankOf(t) \in Int
      /\ Files \in Nat /\ Ranks \in Nat
  BY Coordinates, BoardAssumption
<1>4. ASSUME x \in BetweenBB[s][t]
      PROVE  /\ x \in Squares
             /\ \E a \in -1..1, b \in -1..1, i \in Reach, j \in Reach :
                   /\ <<a, b>> \in Directions
                   /\ j < i /\ Steps(s, a, b, i, t) /\ Steps(s, a, b, j, x)
  <2>1. PICK d \in Directions : t \in Ray(s, d) /\ x \in Ray(s, d) /\ x \notin Ray(t, d) /\ x # t
    BY <1>1, <1>4
  <2>2. PICK a \in -1..1, b \in -1..1 : d = <<a, b>> /\ (a # 0 \/ b # 0)
    BY DirectionShape
  <2>3. a \in Int /\ b \in Int
    OBVIOUS
  <2>4. PICK i \in Reach : Steps(s, a, b, i, t)
    BY <2>1, <2>2, <2>3, RayIsSteps
  <2>5. x \in Squares
    BY <2>1, <2>2, <2>3, RayIsSteps
  <2>6. PICK j \in Reach : Steps(s, a, b, j, x)
    BY <2>1, <2>2, <2>3, RayIsSteps
  <2>7. j # i
    <3>1. SUFFICES ASSUME j = i PROVE FALSE
      OBVIOUS
    <3>2. FileOf(x) = FileOf(t) /\ RankOf(x) = RankOf(t)
      BY <2>4, <2>6, <3>1 DEF Steps
    <3>3. x = t
      BY <3>2, <2>5, Coordinates
    <3> QED BY <3>3, <2>1
  <2>8. ~(j > i)
    <3>1. SUFFICES ASSUME j > i PROVE FALSE
      OBVIOUS
    <3>2. j - i \in Reach
      BY <3>1, <1>2, <1>3 DEF Reach
    <3>3. (j - i) * a = (j * a) - (i * a) /\ (j - i) * b = (j * b) - (i * b)
      BY <1>2
    <3>4. i * a \in Int /\ i * b \in Int /\ j * a \in Int /\ j * b \in Int
      BY <1>2
    <3>5. Steps(t, a, b, j - i, x)
      BY <3>3, <3>4, <2>4, <2>6, <1>3 DEF Steps
    <3>6. x \in Ray(t, <<a, b>>)
      BY <3>5, <3>2, <2>3, <2>5, RayIsSteps
    <3> QED BY <3>6, <2>1, <2>2
  <2>9. j < i
    BY <2>7, <2>8, <1>2
  <2> QED BY <2>2, <2>4, <2>5, <2>6, <2>9
<1>5. ASSUME x \in Squares, NEW a \in -1..1, NEW b \in -1..1, NEW i \in Reach, NEW j \in Reach,
             <<a, b>> \in Directions, j < i, Steps(s, a, b, i, t), Steps(s, a, b, j, x)
      PROVE  x \in BetweenBB[s][t]
  <2>1. a \in Int /\ b \in Int
    OBVIOUS
  <2>2. t \in Ray(s, <<a, b>>) /\ x \in Ray(s, <<a, b>>)
    BY <1>5, <2>1, RayIsSteps
  <2>3. a # 0 \/ b # 0
    BY <1>5 DEF Directions, Straight, Diagonal
  <2>4. x # t
    <3>1. j * a # i * a \/ j * b # i * b
      BY <2>3, <1>5, <1>2
    <3>2. i * a \in Int /\ i * b \in Int /\ j * a \in Int /\ j * b \in Int
      BY <1>2
    <3> QED BY <3>1, <3>2, <1>5, <1>3 DEF Steps
  <2>5. x \notin Ray(t, <<a, b>>)
    <3>1. SUFFICES ASSUME x \in Ray(t, <<a, b>>) PROVE FALSE
      OBVIOUS
    <3>2. PICK k \in Reach : Steps(t, a, b, k, x)
      BY <3>1, <2>1, RayIsSteps
    <3>3. i * a \in Int /\ i * b \in Int /\ j * a \in Int /\ j * b \in Int
          /\ k * a \in Int /\ k * b \in Int
      BY <1>2
    <3>4. j * a = (i * a) + (k * a) /\ j * b = (i * b) + (k * b)
      <4> DEFINE ia == i * a
                 ja == j * a
                 ka == k * a
                 ib == i * b
                 jb == j * b
                 kb == k * b
      <4>1. FileOf(s) + ja = (FileOf(s) + ia) + ka
        BY <3>2, <1>5 DEF Steps
      <4>2. RankOf(s) + jb = (RankOf(s) + ib) + kb
        BY <3>2, <1>5 DEF Steps
      <4>3. ia \in Int /\ ja \in Int /\ ka \in Int /\ ib \in Int /\ jb \in Int /\ kb \in Int
        BY <3>3
      <4> HIDE DEF ia, ja, ka, ib, jb, kb
      <4>4. ja = ia + ka /\ jb = ib + kb
        BY <4>1, <4>2, <4>3, <1>3
      <4> QED BY <4>4 DEF ia, ja, ka, ib, jb, kb
    <3>5. CASE a # 0
      <4>1. a = 1 \/ a = -1
        BY <3>5
      <4> QED BY <4>1, <3>4, <1>2, <1>5
    <3>6. CASE b # 0
      <4>1. b = 1 \/ b = -1
        BY <3>6
      <4> QED BY <4>1, <3>4, <1>2, <1>5
    <3> QED BY <3>5, <3>6, <2>3
  <2> QED BY <1>1, <1>5, <2>2, <2>4, <2>5
<1> QED BY <1>4, <1>5

LEMMA BetweenSymmetric ==
    ASSUME NEW s \in Squares, NEW t \in Squares
    PROVE  BetweenBB[s][t] = BetweenBB[t][s]
<1>1. ASSUME NEW u \in Squares, NEW v \in Squares, NEW x \in BetweenBB[u][v]
      PROVE  x \in BetweenBB[v][u]
  <2>1. x \in Squares
    BY BetweenIsFewer
  <2>2. PICK a \in -1..1, b \in -1..1, i \in Reach, j \in Reach :
           <<a, b>> \in Directions /\ j < i /\ Steps(u, a, b, i, v) /\ Steps(u, a, b, j, x)
    BY BetweenIsFewer
  <2>3. /\ i \in Int /\ j \in Int /\ 1 <= i /\ 1 <= j /\ i <= Files + Ranks
        /\ Files \in Nat /\ Ranks \in Nat
    BY BoardAssumption DEF Reach
  <2>4. i - j \in Reach /\ i - j < i
    BY <2>2, <2>3 DEF Reach
  <2>5. -a \in -1..1 /\ -b \in -1..1 /\ <<-a, -b>> \in Directions
    <3>1. a \in Int /\ b \in Int
      OBVIOUS
    <3>2. <<-a, -b>> \in Directions
      BY <2>2, <3>1, Reversed
    <3> QED BY <3>2
  <2>6. Steps(v, -a, -b, i, u)
    BY <2>2, <2>3, StepsBack
  <2>7. Steps(v, -a, -b, i - j, x)
    <3>1. (i - j) * (-a) = (j * a) - (i * a) /\ (i - j) * (-b) = (j * b) - (i * b)
      BY <2>3
    <3>2. i * a \in Int /\ i * b \in Int /\ j * a \in Int /\ j * b \in Int
      BY <2>3
    <3>3. /\ FileOf(u) \in Int /\ RankOf(u) \in Int
      BY Coordinates, BoardAssumption
    <3>4. /\ FileOf(v) = FileOf(u) + i * a /\ FileOf(x) = FileOf(u) + j * a
          /\ RankOf(v) = RankOf(u) + i * b /\ RankOf(x) = RankOf(u) + j * b
      BY <2>2 DEF Steps
    <3>5. FileOf(x) = FileOf(v) + ((j * a) - (i * a)) /\ RankOf(x) = RankOf(v) + ((j * b) - (i * b))
      BY <3>2, <3>3, <3>4
    <3> QED BY <3>1, <3>5 DEF Steps
  <2> QED BY <2>1, <2>4, <2>5, <2>6, <2>7, BetweenIsFewer
<1> QED BY <1>1

-----------------------------------------------------------------------------
(* Effects of pieces are symmetric: what a piece of one color reaches from *)
(* a square is where the same piece of the other color reaches it from.    *)

LEMMA OppFacts ==
    ASSUME NEW c \in Colors
    PROVE  Opp(c) \in Colors /\ Opp(Opp(c)) = c /\ Opp(c) # c /\ \A d \in Colors : d = c \/ d = Opp(c)
BY DEF Colors, Opp, BLACK, WHITE

LEMMA RookSymmetric ==
    ASSUME NEW s \in Squares, NEW t \in Squares
    PROVE  t \in RookEffectBB[s] => s \in RookEffectBB[t]
<1>1. SUFFICES ASSUME t \in RookEffectBB[s] PROVE s \in RookEffectBB[t]
  OBVIOUS
<1>2. PICK d \in Straight : t \in Ray(s, d)
  BY <1>1 DEF RookEffectBB
<1>3. PICK a \in -1..1, b \in -1..1 : d = <<a, b>>
  BY DirectionShape DEF Directions
<1>4. a \in Int /\ b \in Int
  OBVIOUS
<1>5. <<-a, -b>> \in Straight
  BY <1>2, <1>3, <1>4, Reversed
<1>6. s \in Ray(t, <<-a, -b>>)
  BY <1>2, <1>3, <1>4, RayBack
<1> QED BY <1>5, <1>6 DEF RookEffectBB

LEMMA BishopSymmetric ==
    ASSUME NEW s \in Squares, NEW t \in Squares
    PROVE  t \in BishopEffectBB[s] => s \in BishopEffectBB[t]
<1>1. SUFFICES ASSUME t \in BishopEffectBB[s] PROVE s \in BishopEffectBB[t]
  OBVIOUS
<1>2. PICK d \in Diagonal : t \in Ray(s, d)
  BY <1>1 DEF BishopEffectBB
<1>3. PICK a \in -1..1, b \in -1..1 : d = <<a, b>>
  BY DirectionShape DEF Directions
<1>4. a \in Int /\ b \in Int
  OBVIOUS
<1>5. <<-a, -b>> \in Diagonal
  BY <1>2, <1>3, <1>4, Reversed
<1>6. s \in Ray(t, <<-a, -b>>)
  BY <1>2, <1>3, <1>4, RayBack
<1> QED BY <1>5, <1>6 DEF BishopEffectBB

LEMMA LanceSymmetric ==
    ASSUME NEW c \in Colors, NEW s \in Squares, NEW t \in Squares
    PROVE  t \in LanceMask[c][s] => s \in LanceMask[Opp(c)][t]
<1>1. PICK m \in Int : m = -1
  OBVIOUS
<1>2. LanceMask[BLACK][s] = Ray(s, <<0, m>>) /\ LanceMask[WHITE][s] = Ray(s, <<0, 1>>)
  BY <1>1 DEF LanceMask, Colors, BLACK, WHITE
<1>3. LanceMask[BLACK][t] = Ray(t, <<0, m>>) /\ LanceMask[WHITE][t] = Ray(t, <<0, 1>>)
  BY <1>1 DEF LanceMask, Colors, BLACK, WHITE
<1>4. PICK z \in Int, o \in Int : z = 0 /\ o = 1
  OBVIOUS
<1>5. (-z) = z /\ (-m) = o /\ (-o) = m
  <2>1. z + z = 0 /\ m + o = 0 /\ o + m = 0
    BY <1>1, <1>4
  <2> QED BY <2>1, Negative
<1>6. t \in Ray(s, <<z, m>>) <=> s \in Ray(t, <<-z, -m>>)
  BY RayBack
<1>7. t \in Ray(s, <<z, o>>) <=> s \in Ray(t, <<-z, -o>>)
  BY RayBack
<1>8. /\ t \in Ray(s, <<0, m>>) <=> s \in Ray(t, <<0, 1>>)
      /\ t \in Ray(s, <<0, 1>>) <=> s \in Ray(t, <<0, m>>)
  BY <1>4, <1>5, <1>6, <1>7
<1> QED BY <1>2, <1>3, <1>8 DEF Colors, Opp, BLACK, WHITE

(* The steps of every kind of piece are the same to the left and to the right. *)
LEMMA StepsMirrored ==
    ASSUME NEW k \in DOMAIN Deltas, NEW d \in Deltas[k]
    PROVE  \E a \in Int, b \in Int : d = <<a, b>> /\ <<-a, b>> \in Deltas[k] /\ d[1] = a /\ d[2] = b
<1>1. PICK m \in Int : m = -1
  OBVIOUS
<1>2. PICK n \in Int : n = -2
  OBVIOUS
<1>3. PICK z \in Int, o \in Int : z = 0 /\ o = 1
  OBVIOUS
<1>4. (-z) = z /\ (-m) = o /\ (-o) = m
  <2>1. z + z = 0 /\ m + o = 0 /\ o + m = 0
    BY <1>1, <1>3
  <2> QED BY <2>1, Negative
<1>5. Straight = {<<z, m>>, <<z, o>>, <<m, z>>, <<o, z>>}
  BY <1>1, <1>3 DEF Straight
<1>6. Diagonal = {<<m, m>>, <<m, o>>, <<o, m>>, <<o, o>>}
  BY <1>1, <1>3 DEF Diagonal
<1>7. AheadDiagonal = {<<m, m>>, <<o, m>>}
  BY <1>1, <1>3 DEF AheadDiagonal
<1>8. /\ DOMAIN Deltas = {"P", "N", "S", "G", "K", "HorseStep", "DragonStep"}
      /\ Deltas["P"] = {<<z, m>>} /\ Deltas["N"] = {<<m, n>>, <<o, n>>}
      /\ Deltas["S"] = {<<z, m>>} \union Diagonal
      /\ Deltas["G"] = Straight \union AheadDiagonal
      /\ Deltas["K"] = Straight \union Diagonal
      /\ Deltas["HorseStep"] = Straight /\ Deltas["DragonStep"] = Diagonal
  BY <1>1, <1>2, <1>3 DEF Deltas
<1>9. \E a \in {z, o, m}, b \in {z, o, m, n} : d = <<a, b>> /\ <<-a, b>> \in Deltas[k]
  <2>1. CASE k = "P"
    BY <2>1, <1>4, <1>8
  <2>2. CASE k = "N"
    BY <2>2, <1>4, <1>8
  <2>3. CASE k = "S"
    BY <2>3, <1>4, <1>6, <1>8
  <2>4. CASE k = "G"
    BY <2>4, <1>4, <1>5, <1>7, <1>8
  <2>5. CASE k = "K"
    BY <2>5, <1>4, <1>5, <1>6, <1>8
  <2>6. CASE k = "HorseStep"
    BY <2>6, <1>4, <1>5, <1>8
  <2>7. CASE k = "DragonStep"
    BY <2>7, <1>4, <1>6, <1>8
  <2> QED BY <2>1, <2>2, <2>3, <2>4, <2>5, <2>6, <2>7, <1>8
<1>10. PICK a \in {z, o, m}, b \in {z, o, m, n} : d = <<a, b>> /\ <<-a, b>> \in Deltas[k]
  BY <1>9
<1>11. a \in Int /\ b \in Int
  OBVIOUS
<1>12. d[1] = a /\ d[2] = b
  BY <1>10
<1> QED BY <1>10, <1>11, <1>12

LEMMA StepSymmetric ==
    ASSUME NEW k \in DOMAIN Deltas, NEW c \in Colors, NEW s \in Squares, NEW t \in Squares
    PROVE  t \in StepEffect[k][c][s] => s \in StepEffect[k][Opp(c)][t]
<1>1. ASSUME NEW e \in Colors, NEW u \in Squares
      PROVE  StepEffect[k][e][u] =
               UNION {Away(u, <<d[1], IF e = BLACK THEN d[2] ELSE -d[2]>>, 1) : d \in Deltas[k]}
  BY DEF StepEffect
<1>2. SUFFICES ASSUME t \in StepEffect[k][c][s] PROVE s \in StepEffect[k][Opp(c)][t]
  OBVIOUS
<1>3. PICK d \in Deltas[k] : t \in Away(s, <<d[1], IF c = BLACK THEN d[2] ELSE -d[2]>>, 1)
  BY <1>1, <1>2
<1>4. PICK a \in Int, b \in Int :
         d = <<a, b>> /\ <<-a, b>> \in Deltas[k] /\ d[1] = a /\ d[2] = b
  BY StepsMirrored
<1>5. PICK f \in Int : f = IF c = BLACK THEN b ELSE -b
  OBVIOUS
<1>6. t \in Away(s, <<a, f>>, 1)
  BY <1>3, <1>4, <1>5
<1>7. Steps(s, a, f, 1, t)
  BY <1>6, AwayIsSteps
<1>8. Steps(t, -a, -f, 1, s)
  BY <1>7, StepsBack
<1>9. -a \in Int /\ -f \in Int
  OBVIOUS
<1>10. s \in Away(t, <<-a, -f>>, 1)
  BY <1>8, <1>9, AwayIsSteps
<1>11. (-f) = IF Opp(c) = BLACK THEN b ELSE -b
  BY <1>5 DEF Colors, Opp, BLACK, WHITE
<1>12. PICK g \in Deltas[k] : g = <<-a, b>>
  BY <1>4
<1>13. g[1] = -a /\ g[2] = b
  BY <1>12
<1>14. s \in Away(t, <<g[1], IF Opp(c) = BLACK THEN g[2] ELSE -g[2]>>, 1)
  BY <1>10, <1>11, <1>13
<1> QED BY <1>1, <1>14, OppFacts

LEMMA EffectsOnBoard ==
    ASSUME NEW s \in Squares
    PROVE  /\ RookEffectBB[s] \subseteq Squares /\ BishopEffectBB[s] \subseteq Squares
           /\ \A c \in Colors : LanceMask[c][s] \subseteq Squares
           /\ \A c \in Colors, k \in DOMAIN Deltas : StepEffect[k][c][s] \subseteq Squares
<1>1. ASSUME NEW a \in Int, NEW b \in Int PROVE Ray(s, <<a, b>>) \subseteq Squares
  BY RayIsSteps
<1>2. RookEffectBB[s] \subseteq Squares /\ BishopEffectBB[s] \subseteq Squares
  <2>1. ASSUME NEW d \in Directions PROVE Ray(s, d) \subseteq Squares
    <3>1. PICK a \in -1..1, b \in -1..1 : d = <<a, b>>
      BY DirectionShape
    <3>2. a \in Int /\ b \in Int
      OBVIOUS
    <3> QED BY <3>1, <3>2, <1>1
  <2> QED BY <2>1 DEF RookEffectBB, BishopEffectBB, Directions
<1>3. ASSUME NEW c \in Colors PROVE LanceMask[c][s] \subseteq Squares
  <2>1. PICK m \in Int : m = -1
    OBVIOUS
  <2>2. LanceMask[c][s] = Ray(s, <<0, IF c = BLACK THEN m ELSE 1>>)
    BY <2>1 DEF LanceMask
  <2>3. (IF c = BLACK THEN m ELSE 1) \in Int
    OBVIOUS
  <2> QED BY <2>2, <2>3, <1>1
<1>4. ASSUME NEW c \in Colors, NEW k \in DOMAIN Deltas PROVE StepEffect[k][c][s] \subseteq Squares
  <2>1. StepEffect[k][c][s] =
          UNION {Away(s, <<d[1], IF c = BLACK THEN d[2] ELSE -d[2]>>, 1) : d \in Deltas[k]}
    BY DEF StepEffect
  <2>2. ASSUME NEW d \in Deltas[k]
        PROVE  Away(s, <<d[1], IF c = BLACK THEN d[2] ELSE -d[2]>>, 1) \subseteq Squares
    <3>1. PICK a \in Int, b \in Int : d[1] = a /\ d[2] = b
      BY StepsMirrored
    <3>2. (IF c = BLACK THEN d[2] ELSE -d[2]) \in Int
      BY <3>1
    <3> QED BY <3>1, <3>2, AwayIsSteps
  <2> QED BY <2>1, <2>2
<1> QED BY <1>2, <1>3, <1>4

LEMMA StepKinds ==
    /\ DOMAIN Deltas = {"P", "N", "S", "G", "K", "HorseStep", "DragonStep"}
    /\ PieceTypes = {"P", "L", "N", "S", "B", "R", "G", "+P", "+L", "+N", "+S", "+B", "+R", "K"}
    /\ HandTypes = {"P", "L", "N", "S", "B", "R", "G"}
    /\ GoldLike = {"G", "+P", "+L", "+N", "+S"}
    /\ Promotable = {"P", "L", "N", "S", "B", "R"}
BY DEF Deltas, PieceTypes, HandTypes, GoldLike, Promotable

LEMMA ReachedSymmetric ==
    ASSUME NEW s \in Squares, NEW t \in Squares, NEW occ, NEW e, NEW f, t \in e => s \in f,
           t \in Reached(s, e, occ)
    PROVE  s \in Reached(t, f, occ)
BY BetweenSymmetric DEF Reached

(* The squares a piece attacks, kind by kind. *)
LEMMA AttacksOf ==
    ASSUME NEW c, NEW s, NEW occ
    PROVE  /\ PieceAttacks("L", c, s, occ) = LanceEffect(c, s, occ)
           /\ PieceAttacks("B", c, s, occ) = BishopEffect(s, occ)
           /\ PieceAttacks("R", c, s, occ) = RookEffect(s, occ)
           /\ PieceAttacks("+B", c, s, occ) = BishopEffect(s, occ) \union StepEffect["HorseStep"][c][s]
           /\ PieceAttacks("+R", c, s, occ) = RookEffect(s, occ) \union StepEffect["DragonStep"][c][s]
           /\ \A t \in GoldLike : PieceAttacks(t, c, s, occ) = StepEffect["G"][c][s]
           /\ \A t \in {"P", "N", "S", "K"} : PieceAttacks(t, c, s, occ) = StepEffect[t][c][s]
<1>1. ASSUME NEW t \in GoldLike PROVE PieceAttacks(t, c, s, occ) = StepEffect["G"][c][s]
  <2>1. t # "L" /\ t # "B" /\ t # "R" /\ t # "+B" /\ t # "+R"
    BY StepKinds
  <2> QED BY <2>1 DEF PieceAttacks
<1>2. ASSUME NEW t \in {"P", "N", "S", "K"}
      PROVE  PieceAttacks(t, c, s, occ) = StepEffect[t][c][s]
  <2>1. t # "L" /\ t # "B" /\ t # "R" /\ t # "+B" /\ t # "+R" /\ t \notin GoldLike
    BY StepKinds
  <2> QED BY <2>1 DEF PieceAttacks
<1>3. {"L", "B", "R", "+B", "+R"} \intersect GoldLike = {}
  BY StepKinds
<1> QED BY <1>1, <1>2, <1>3 DEF PieceAttacks

(* What a piece attacks, attacks it back as the same piece of the other color. *)
LEMMA AttackBack ==
    ASSUME NEW t \in PieceTypes, NEW c \in Colors, NEW s \in Squares, NEW a \in Squares, NEW occ,
           a \in PieceAttacks(t, c, s, occ)
    PROVE  s \in PieceAttacks(t, Opp(c), a, occ)
<1>1. a \in RookEffect(s, occ) => s \in RookEffect(a, occ)
  BY RookSymmetric, ReachedSymmetric DEF RookEffect
<1>2. a \in BishopEffect(s, occ) => s \in BishopEffect(a, occ)
  BY BishopSymmetric, ReachedSymmetric DEF BishopEffect
<1>3. a \in LanceEffect(c, s, occ) => s \in LanceEffect(Opp(c), a, occ)
  BY LanceSymmetric, ReachedSymmetric DEF LanceEffect
<1>4. \A k \in DOMAIN Deltas : a \in StepEffect[k][c][s] => s \in StepEffect[k][Opp(c)][a]
  BY StepSymmetric
<1>5. CASE t \in GoldLike
  BY <1>4, <1>5, AttacksOf, StepKinds
<1>6. CASE t \in {"P", "N", "S", "K"}
  BY <1>4, <1>6, AttacksOf, StepKinds
<1>7. CASE t = "L"
  BY <1>3, <1>7, AttacksOf
<1>8. CASE t \in {"B", "+B"}
  BY <1>2, <1>4, <1>8, AttacksOf, StepKinds
<1>9. CASE t \in {"R", "+R"}
  BY <1>1, <1>4, <1>9, AttacksOf, StepKinds
<1> QED BY <1>5, <1>6, <1>7, <1>8, <1>9, StepKinds

LEMMA AttackSymmetric ==
    ASSUME NEW t \in PieceTypes, NEW c \in Colors, NEW s \in Squares, NEW a \in Squares, NEW occ
    PROVE  a \in PieceAttacks(t, Opp(c), s, occ) <=> s \in PieceAttacks(t, c, a, occ)
BY AttackBack, OppFacts

LEMMA AttacksOnBoard ==
    ASSUME NEW t \in PieceTypes, NEW c \in Colors, NEW s \in Squares, NEW occ
    PROVE  PieceAttacks(t, c, s, occ) \subseteq Squares
<1>1. /\ RookEffect(s, occ) \subseteq Squares /\ BishopEffect(s, occ) \subseteq Squares
      /\ LanceEffect(c, s, occ) \subseteq Squares
  BY EffectsOnBoard DEF RookEffect, BishopEffect, LanceEffect, Reached
<1>2. \A k \in DOMAIN Deltas : StepEffect[k][c][s] \subseteq Squares
  BY EffectsOnBoard
<1>3. CASE t \in GoldLike
  BY <1>2, <1>3, AttacksOf, StepKinds
<1>4. CASE t \in {"P", "N", "S", "K"}
  BY <1>2, <1>4, AttacksOf, StepKinds
<1>5. CASE t \in {"L", "B", "R", "+B", "+R"}
  BY <1>1, <1>2, <1>5, AttacksOf, StepKinds
<1> QED BY <1>3, <1>4, <1>5, StepKinds

-----------------------------------------------------------------------------
(* Positions and moves. *)

LEMMA PieceFacts ==
    ASSUME NEW p, IsPosition(p), NEW s \in DOMAIN p.at
    PROVE  /\ s \in Squares /\ p.at[s] = <<ColorOn(p, s), TypeOn(p, s)>>
           /\ ColorOn(p, s) \in Colors /\ TypeOn(p, s) \in PieceTypes
BY DEF IsPosition, ColorOn, TypeOn

LEMMA KingFacts ==
    ASSUME NEW p, IsPosition(p), NEW c \in Colors
    PROVE  /\ KingSq(p, c) \in DOMAIN p.at /\ KingSq(p, c) \in Squares
           /\ p.at[KingSq(p, c)] = <<c, "K">>
           /\ \A s \in DOMAIN p.at : p.at[s] = <<c, "K">> => s = KingSq(p, c)
<1>1. PICK k \in DOMAIN p.at : \A s \in DOMAIN p.at : p.at[s] = <<c, "K">> <=> s = k
  BY DEF IsPosition
<1>2. KingSq(p, c) \in DOMAIN p.at /\ p.at[KingSq(p, c)] = <<c, "K">>
  BY <1>1 DEF KingSq
<1> QED BY <1>1, <1>2 DEF IsPosition

(* InCheck looks outwards from the king's square, with the effects of its  *)
(* own side's pieces: what it finds are the pieces that attack the king.   *)
THEOREM CheckIsAttack ==
    ASSUME NEW p, IsPosition(p), NEW c \in Colors
    PROVE  InCheck(p, c) <=> KingAttacked(p, c)
<1>1. ASSUME NEW a \in PiecesOf(p, Opp(c))
      PROVE  a \in PieceAttacks(TypeOn(p, a), Opp(Opp(c)), KingSq(p, c), Occupied(p))
               <=> KingSq(p, c) \in PieceAttacks(TypeOn(p, a), Opp(c), a, Occupied(p))
  <2>1. a \in DOMAIN p.at
    BY DEF PiecesOf
  <2>2. a \in Squares /\ TypeOn(p, a) \in PieceTypes
    BY <2>1, PieceFacts
  <2>3. KingSq(p, c) \in Squares
    BY KingFacts
  <2> QED BY <2>2, <2>3, AttackSymmetric, OppFacts
<1> QED BY <1>1 DEF InCheck, IsSquareAttacked, KingAttacked

LEMMA DropShape ==
    ASSUME NEW p, IsPosition(p), NEW m \in GenerateDropMoves(p)
    PROVE  \E t \in HandTypes, s \in Squares \ Occupied(p) : m = Drop(t, s) /\ p.hand[p.turn][t] > 0
BY DEF GenerateDropMoves, InHand, DropTargets

LEMMA BoardMoveShape ==
    ASSUME NEW p, IsPosition(p), NEW m \in PseudoMoves(p), m \notin GenerateDropMoves(p)
    PROVE  \E from \in PiecesOf(p, p.turn) :
             \E to \in PieceAttacks(TypeOn(p, from), p.turn, from, Occupied(p)) \ PiecesOf(p, p.turn) :
               m = Normal(from, to) \/ (m = Promotion(from, to) /\ TypeOn(p, from) \in Promotable)
<1>1. PICK from \in PiecesOf(p, p.turn) :
        \E to \in PieceAttacks(TypeOn(p, from), p.turn, from, Occupied(p)) \ PiecesOf(p, p.turn) :
          m \in Variants(TypeOn(p, from), p.turn, from, to)
  BY DEF PseudoMoves
<1>2. PICK to \in PieceAttacks(TypeOn(p, from), p.turn, from, Occupied(p)) \ PiecesOf(p, p.turn) :
         m \in Variants(TypeOn(p, from), p.turn, from, to)
  BY <1>1
<1> QED BY <1>2 DEF Variants, CanPromote

(* What DoMove may rely on. *)
Playable(p, m) ==
    /\ m.from \in Squares /\ m.to \in Squares
    /\ IF IsDrop(m)
       THEN /\ m.drop \in HandTypes /\ p.hand[p.turn][m.drop] > 0
            /\ m.to \notin DOMAIN p.at /\ m.promote = FALSE
       ELSE /\ m.from \in DOMAIN p.at /\ ColorOn(p, m.from) = p.turn
            /\ m.to # m.from
            /\ m.to \in DOMAIN p.at => ColorOn(p, m.to) = Opp(p.turn) /\ TypeOn(p, m.to) # "K"
            /\ m.promote \in BOOLEAN
            /\ m.promote => TypeOn(p, m.from) \in Promotable

LEMMA MoveIsPlayable ==
    ASSUME NEW p, IsPosition(p), ~KingAttacked(p, Opp(p.turn)), NEW m \in SafeMoves(p)
    PROVE  Playable(p, m)
<1>1. m \in PseudoMoves(p)
  BY DEF SafeMoves
<1>2. p.turn \in Colors
  BY DEF IsPosition
<1>3. CASE m \in GenerateDropMoves(p)
  <2>1. PICK t \in HandTypes, s \in Squares \ Occupied(p) : m = Drop(t, s) /\ p.hand[p.turn][t] > 0
    BY <1>3, DropShape
  <2>2. m.from = s /\ m.to = s /\ m.promote = FALSE /\ m.drop = t
    BY <2>1 DEF Drop
  <2>3. t # "none"
    BY StepKinds
  <2> QED BY <2>1, <2>2, <2>3 DEF Playable, IsDrop, Occupied
<1>4. CASE m \notin GenerateDropMoves(p)
  <2>1. PICK from \in PiecesOf(p, p.turn) :
          \E to \in PieceAttacks(TypeOn(p, from), p.turn, from, Occupied(p)) \ PiecesOf(p, p.turn) :
            m = Normal(from, to) \/ (m = Promotion(from, to) /\ TypeOn(p, from) \in Promotable)
    BY <1>1, <1>4, BoardMoveShape
  <2>2. PICK to \in PieceAttacks(TypeOn(p, from), p.turn, from, Occupied(p)) \ PiecesOf(p, p.turn) :
            m = Normal(from, to) \/ (m = Promotion(from, to) /\ TypeOn(p, from) \in Promotable)
    BY <2>1
  <2>3. /\ m.from = from /\ m.to = to /\ m.drop = "none" /\ m.promote \in BOOLEAN
        /\ m.promote => TypeOn(p, from) \in Promotable
    <3>1. CASE m = Normal(from, to)
      BY <3>1 DEF Normal
    <3>2. CASE m = Promotion(from, to) /\ TypeOn(p, from) \in Promotable
      BY <3>2 DEF Promotion
    <3> QED BY <3>1, <3>2, <2>2
  <2>4. from \in DOMAIN p.at /\ ColorOn(p, from) = p.turn
    BY DEF PiecesOf, ColorOn
  <2>5. from \in Squares /\ TypeOn(p, from) \in PieceTypes
    BY <2>4, PieceFacts
  <2>6. to \in Squares
    BY <2>5, <1>2, AttacksOnBoard
  <2>7. to # from
    OBVIOUS
  <2>8. ASSUME to \in DOMAIN p.at PROVE ColorOn(p, to) = Opp(p.turn) /\ TypeOn(p, to) # "K"
    <3>1. ColorOn(p, to) \in Colors /\ p.at[to] = <<ColorOn(p, to), TypeOn(p, to)>>
      BY <2>8, PieceFacts
    <3>2. ColorOn(p, to) # p.turn
      BY <2>2, <2>8 DEF PiecesOf, ColorOn
    <3>3. ColorOn(p, to) = Opp(p.turn)
      BY <3>1, <3>2, <1>2, OppFacts
    <3>4. ASSUME TypeOn(p, to) = "K" PROVE FALSE
      <4>1. to = KingSq(p, Opp(p.turn))
        BY <3>1, <3>3, <3>4, <2>8, <1>2, OppFacts, KingFacts
      <4>2. KingAttacked(p, Opp(p.turn))
        BY <4>1, <2>2, <1>2, OppFacts DEF KingAttacked
      <4> QED BY <4>2
    <3> QED BY <3>3, <3>4
  <2> QED BY <2>3, <2>4, <2>5, <2>6, <2>7, <2>8 DEF Playable, IsDrop
<1> QED BY <1>3, <1>4

LEMMA PromotedKinds ==
    /\ ProOf["P"] = "+P" /\ ProOf["L"] = "+L" /\ ProOf["N"] = "+N" /\ ProOf["S"] = "+S"
    /\ ProOf["B"] = "+B" /\ ProOf["R"] = "+R"
BY DEF ProOf

LEMMA UnpromoteInverse ==
    ASSUME NEW t \in Promotable
    PROVE  /\ ProOf[t] \in PieceTypes /\ ProOf[t] # "K" /\ t # "K" /\ t \in PieceTypes
           /\ ProOf[t] \notin HandTypes /\ Unpromote(ProOf[t]) = t
<1>1. ProOf[t] \in PieceTypes /\ ProOf[t] # "K" /\ t # "K" /\ t \in PieceTypes /\ ProOf[t] \notin HandTypes
  BY StepKinds, PromotedKinds
<1>2. \A b \in Promotable : ProOf[b] = ProOf[t] => b = t
  BY StepKinds, PromotedKinds
<1>3. (CHOOSE b \in Promotable : ProOf[b] = ProOf[t]) = t
  BY <1>2
<1> QED BY <1>1, <1>3 DEF Unpromote

LEMMA UnpromoteToHand ==
    ASSUME NEW t \in PieceTypes, t # "K"
    PROVE  Unpromote(t) \in HandTypes
<1>1. CASE t \in HandTypes
  BY <1>1 DEF Unpromote
<1>2. CASE t \notin HandTypes
  <2>1. \E b \in Promotable : ProOf[b] = t
    BY <1>2, StepKinds, PromotedKinds
  <2>2. PICK b \in Promotable : ProOf[b] = t
    BY <2>1
  <2>3. Unpromote(t) = b
    BY <2>2, UnpromoteInverse
  <2> QED BY <2>3, StepKinds
<1> QED BY <1>1, <1>2

Moved(p, m) == IF m.promote THEN ProOf[TypeOn(p, m.from)] ELSE TypeOn(p, m.from)

(* A move to pieces, hands and turn, one at a time. *)
LEMMA AfterDrop ==
    ASSUME NEW p, IsPosition(p), NEW m, Playable(p, m), IsDrop(m)
    PROVE  /\ After(p, m).at = Put(p.at, m.to, <<p.turn, m.drop>>)
           /\ After(p, m).turn = Opp(p.turn)
           /\ After(p, m).hand \in [Colors -> [HandTypes -> Nat]]
           /\ After(p, m).hand[Opp(p.turn)] = p.hand[Opp(p.turn)]
           /\ \A t \in HandTypes : After(p, m).hand[p.turn][t] =
                IF t = m.drop THEN p.hand[p.turn][t] - 1 ELSE p.hand[p.turn][t]
<1> DEFINE us == p.turn
           hand == [t \in HandTypes |-> IF t = m.drop THEN p.hand[us][t] - 1 ELSE p.hand[us][t]]
<1>1. us \in Colors /\ p.hand \in [Colors -> [HandTypes -> Nat]]
  BY DEF IsPosition
<1>2. After(p, m).hand = [p.hand EXCEPT ![us] = hand]
  BY <1>1 DEF After
<1>3. hand \in [HandTypes -> Nat]
  <2>1. ASSUME NEW t \in HandTypes PROVE hand[t] \in Nat
    BY <1>1 DEF Playable
  <2> QED BY <2>1
<1>4. After(p, m).at = Put(p.at, m.to, <<p.turn, m.drop>>) /\ After(p, m).turn = Opp(p.turn)
  BY DEF After
<1> QED BY <1>1, <1>2, <1>3, <1>4, OppFacts

LEMMA AfterBoardMove ==
    ASSUME NEW p, IsPosition(p), NEW m, Playable(p, m), ~IsDrop(m)
    PROVE  /\ After(p, m).at = Put(Without(p, {m.from}).at, m.to, <<p.turn, Moved(p, m)>>)
           /\ After(p, m).turn = Opp(p.turn)
           /\ After(p, m).hand \in [Colors -> [HandTypes -> Nat]]
           /\ After(p, m).hand[Opp(p.turn)] = p.hand[Opp(p.turn)]
           /\ m.to \notin DOMAIN p.at => After(p, m).hand = p.hand
<1> DEFINE us == p.turn
           taken == IF m.to \in DOMAIN p.at THEN {Unpromote(TypeOn(p, m.to))} ELSE {}
           hand == [t \in HandTypes |-> IF t \in taken THEN p.hand[us][t] + 1 ELSE p.hand[us][t]]
<1>1. us \in Colors /\ p.hand \in [Colors -> [HandTypes -> Nat]]
  BY DEF IsPosition
<1>2. After(p, m).hand = [p.hand EXCEPT ![us] = hand]
  BY <1>1 DEF After
<1>3. hand \in [HandTypes -> Nat]
  BY <1>1
<1>4. /\ After(p, m).at = Put(Without(p, {m.from}).at, m.to, <<p.turn, Moved(p, m)>>)
      /\ After(p, m).turn = Opp(p.turn)
  BY DEF After, Moved
<1>5. ASSUME m.to \notin DOMAIN p.at PROVE After(p, m).hand = p.hand
  <2>1. \A t \in HandTypes : hand[t] = p.hand[us][t]
    BY <1>5
  <2>2. hand = p.hand[us]
    BY <2>1, <1>1, <1>3
  <2> QED BY <2>2, <1>1, <1>2
<1> QED BY <1>1, <1>2, <1>3, <1>4, <1>5, OppFacts

LEMMA WithoutFacts ==
    ASSUME NEW p, IsPosition(p), NEW s
    PROVE  /\ DOMAIN Without(p, {s}).at = DOMAIN p.at \ {s}
           /\ \A u \in DOMAIN p.at \ {s} : Without(p, {s}).at[u] = p.at[u]
BY DEF Without, IsPosition

(* The pieces after a move, square by square. *)
LEMMA PiecesAfter ==
    ASSUME NEW p, IsPosition(p), NEW m, Playable(p, m)
    PROVE  /\ DOMAIN After(p, m).at =
                (DOMAIN p.at \ (IF IsDrop(m) THEN {} ELSE {m.from})) \union {m.to}
           /\ After(p, m).at[m.to] = <<p.turn, IF IsDrop(m) THEN m.drop ELSE Moved(p, m)>>
           /\ \A s \in DOMAIN After(p, m).at : s # m.to => After(p, m).at[s] = p.at[s]
           /\ After(p, m).turn = Opp(p.turn)
<1> DEFINE q == After(p, m).at
           old == IF IsDrop(m) THEN p.at ELSE Without(p, {m.from}).at
           piece == <<p.turn, IF IsDrop(m) THEN m.drop ELSE Moved(p, m)>>
<1>1. q = Put(old, m.to, piece) /\ After(p, m).turn = Opp(p.turn)
  <2>1. CASE IsDrop(m)
    BY <2>1, AfterDrop
  <2>2. CASE ~IsDrop(m)
    BY <2>2, AfterBoardMove
  <2> QED BY <2>1, <2>2
<1>2. /\ DOMAIN old = DOMAIN p.at \ (IF IsDrop(m) THEN {} ELSE {m.from})
      /\ \A s \in DOMAIN old : old[s] = p.at[s]
  BY WithoutFacts
<1> HIDE DEF q, old, piece
<1>3. /\ DOMAIN q = DOMAIN old \union {m.to} /\ q[m.to] = piece
      /\ \A u \in DOMAIN old : u # m.to => q[u] = old[u]
  <2>1. /\ DOMAIN Put(old, m.to, piece) = DOMAIN old \union {m.to}
        /\ Put(old, m.to, piece)[m.to] = piece
        /\ \A u \in DOMAIN old : u # m.to => Put(old, m.to, piece)[u] = old[u]
    BY DEF Put
  <2> QED BY <2>1, <1>1
<1>4. \A s \in DOMAIN q : s # m.to => q[s] = p.at[s]
  BY <1>2, <1>3
<1> QED BY <1>1, <1>2, <1>3, <1>4 DEF q, piece

LEMMA AfterIsPosition ==
    ASSUME NEW p, IsPosition(p), NEW m, Playable(p, m)
    PROVE  IsPosition(After(p, m))
<1> DEFINE q == After(p, m)
           us == p.turn
           kind == IF IsDrop(m) THEN m.drop ELSE Moved(p, m)
<1>1. us \in Colors /\ p.at \in [DOMAIN p.at -> Colors \X PieceTypes] /\ DOMAIN p.at \subseteq Squares
  BY DEF IsPosition
<1>2. q = [at |-> q.at, hand |-> q.hand, turn |-> q.turn]
  BY DEF After
<1>3. q.hand \in [Colors -> [HandTypes -> Nat]]
  BY AfterDrop, AfterBoardMove
<1>4. kind \in PieceTypes /\ (kind = "K" => ~IsDrop(m) /\ TypeOn(p, m.from) = "K")
  <2>1. CASE IsDrop(m)
    BY <2>1, StepKinds DEF Playable
  <2>2. CASE ~IsDrop(m) /\ m.promote
    BY <2>2, UnpromoteInverse DEF Playable, Moved
  <2>3. CASE ~IsDrop(m) /\ ~m.promote
    BY <2>3, PieceFacts DEF Playable, Moved
  <2> QED BY <2>1, <2>2, <2>3
<1>5. /\ DOMAIN q.at = (DOMAIN p.at \ (IF IsDrop(m) THEN {} ELSE {m.from})) \union {m.to}
      /\ q.at[m.to] = <<us, kind>>
      /\ \A s \in DOMAIN q.at : s # m.to => q.at[s] = p.at[s]
      /\ q.turn = Opp(us)
  BY PiecesAfter
<1>6. m.to \in Squares
  BY DEF Playable
<1>7. q.at = [s \in DOMAIN q.at |-> q.at[s]]
  <2>1. CASE IsDrop(m)
    <3>1. q.at = Put(p.at, m.to, <<p.turn, m.drop>>)
      BY <2>1, AfterDrop
    <3> QED BY <3>1 DEF Put
  <2>2. CASE ~IsDrop(m)
    <3>1. q.at = Put(Without(p, {m.from}).at, m.to, <<p.turn, Moved(p, m)>>)
      BY <2>2, AfterBoardMove
    <3> QED BY <3>1 DEF Put
  <2> QED BY <2>1, <2>2
<1> HIDE DEF q, kind
<1>8. DOMAIN q.at \subseteq Squares
  BY <1>1, <1>5, <1>6
<1>9. \A s \in DOMAIN q.at : q.at[s] \in Colors \X PieceTypes
  <2>1. ASSUME NEW s \in DOMAIN q.at, s # m.to PROVE q.at[s] \in Colors \X PieceTypes
    <3>1. s \in DOMAIN p.at /\ q.at[s] = p.at[s]
      BY <2>1, <1>5
    <3> QED BY <3>1, <1>1
  <2>2. q.at[m.to] \in Colors \X PieceTypes
    BY <1>1, <1>4, <1>5
  <2> QED BY <2>1, <2>2
<1>10. q.at \in [DOMAIN q.at -> Colors \X PieceTypes]
  BY <1>7, <1>9
<1>11. ASSUME NEW c \in Colors
       PROVE  \E k \in DOMAIN q.at : \A s \in DOMAIN q.at : q.at[s] = <<c, "K">> <=> s = k
  <2> DEFINE k == KingSq(p, c)
  <2>1. /\ k \in DOMAIN p.at /\ p.at[k] = <<c, "K">>
        /\ \A s \in DOMAIN p.at : p.at[s] = <<c, "K">> => s = k
    BY KingFacts
  <2> HIDE DEF k
  <2>2. CASE ~IsDrop(m) /\ m.from = k
    <3>1. p.at[m.from] = <<ColorOn(p, m.from), TypeOn(p, m.from)>> /\ ColorOn(p, m.from) = us
      BY <2>2, <2>1, PieceFacts DEF Playable
    <3>2. TypeOn(p, m.from) = "K" /\ c = us
      BY <3>1, <2>1, <2>2
    <3>3. ~m.promote
      BY <3>2, <2>2, UnpromoteInverse DEF Playable
    <3>4. q.at[m.to] = <<c, "K">>
      BY <3>2, <3>3, <2>2, <1>5 DEF kind, Moved
    <3>5. \A s \in DOMAIN q.at : s # m.to => q.at[s] # <<c, "K">>
      BY <1>5, <2>1, <2>2
    <3> QED BY <3>4, <3>5, <1>5
  <2>3. CASE IsDrop(m) \/ m.from # k
    <3>1. k # m.to
      <4>1. CASE IsDrop(m)
        BY <4>1, <2>1 DEF Playable
      <4>2. CASE ~IsDrop(m)
        <5>1. TypeOn(p, k) = "K"
          BY <2>1 DEF TypeOn
        <5> QED BY <4>2, <5>1, <2>1 DEF Playable
      <4> QED BY <4>1, <4>2
    <3>2. k \in DOMAIN q.at /\ q.at[k] = <<c, "K">>
      BY <3>1, <2>1, <2>3, <1>5
    <3>3. q.at[m.to] # <<c, "K">>
      <4>1. SUFFICES ASSUME us = c, kind = "K" PROVE FALSE
        BY <1>5
      <4>2. ~IsDrop(m) /\ TypeOn(p, m.from) = "K" /\ m.from \in DOMAIN p.at /\ ColorOn(p, m.from) = c
        BY <4>1, <1>4 DEF Playable
      <4>3. p.at[m.from] = <<c, "K">>
        BY <4>2, PieceFacts
      <4> QED BY <4>2, <4>3, <2>1, <2>3
    <3>4. \A s \in DOMAIN q.at : q.at[s] = <<c, "K">> => s = k
      BY <3>3, <2>1, <1>5
    <3> QED BY <3>2, <3>4
  <2> QED BY <2>2, <2>3
<1>12. q.turn \in Colors
  BY <1>1, <1>5, OppFacts
<1>13. IsPosition(q)
  BY <1>2, <1>3, <1>8, <1>10, <1>11, <1>12 DEF IsPosition
<1> QED BY <1>13 DEF q

-----------------------------------------------------------------------------
(* Taking back. *)

UndoOf(p, h, cs, m) ==
    [hand |-> p.hand[p.turn], hash |-> h, checks |-> cs[p.turn],
     captured |-> IF ~IsDrop(m) /\ m.to \in Occupied(p) THEN {p.at[m.to]} ELSE {}]

IsFun(f) == f = [x \in DOMAIN f |-> f[x]]

LEMMA SamePieces ==
    ASSUME NEW p, IsPosition(p), NEW at, DOMAIN at = DOMAIN p.at,
           IsFun(at), \A s \in DOMAIN at : at[s] = p.at[s]
    PROVE  at = p.at
BY DEF IsPosition, IsFun

LEMMA PiecesBack ==
    ASSUME NEW p, IsPosition(p), NEW m, Playable(p, m), NEW h, NEW cs, pos = After(p, m)
    PROVE  Undone(m, UndoOf(p, h, cs, m))[1].at = p.at
<1> DEFINE undo == UndoOf(p, h, cs, m)
           us == Opp(pos.turn)
           piece == pos.at[m.to]
           back == IF m.promote THEN <<us, Unpromote(piece[2])>> ELSE piece
           rest == Without(pos, {m.to}).at
           restored == IF undo.captured = {} THEN rest
                       ELSE Put(rest, m.to, CHOOSE x \in undo.captured : TRUE)
           at == IF IsDrop(m) THEN rest ELSE Put(restored, m.from, back)
<1>1. Undone(m, undo)[1].at = at
  BY DEF Undone
<1>2. IsPosition(pos) /\ p.turn \in Colors
  <2>1. IsPosition(pos)
    BY AfterIsPosition
  <2> QED BY <2>1 DEF IsPosition
<1>3. us = p.turn
  BY <1>2, PiecesAfter, OppFacts
<1>4. /\ DOMAIN pos.at = (DOMAIN p.at \ (IF IsDrop(m) THEN {} ELSE {m.from})) \union {m.to}
      /\ piece = <<p.turn, IF IsDrop(m) THEN m.drop ELSE Moved(p, m)>>
      /\ \A s \in DOMAIN pos.at : s # m.to => pos.at[s] = p.at[s]
  BY PiecesAfter
<1>5. /\ DOMAIN rest = DOMAIN pos.at \ {m.to}
      /\ \A s \in DOMAIN pos.at \ {m.to} : rest[s] = pos.at[s]
      /\ IsFun(rest)
  BY <1>2 DEF Without, IsPosition, IsFun
<1> HIDE DEF rest
<1>6. CASE IsDrop(m)
  <2>1. m.to \notin DOMAIN p.at
    BY <1>6 DEF Playable
  <2>2. DOMAIN rest = DOMAIN p.at
    BY <1>4, <1>5, <1>6, <2>1
  <2>3. \A s \in DOMAIN rest : rest[s] = p.at[s]
    BY <1>4, <1>5, <1>6, <2>1
  <2>4. rest = p.at
    BY <2>2, <2>3, <1>5, SamePieces
  <2> QED BY <2>4, <1>1, <1>6
<1>7. CASE ~IsDrop(m)
  <2>1. /\ m.from \in DOMAIN p.at /\ m.to # m.from /\ ColorOn(p, m.from) = p.turn
        /\ m.promote => TypeOn(p, m.from) \in Promotable
    BY <1>7 DEF Playable
  <2>2. back = p.at[m.from]
    <3>1. p.at[m.from] = <<p.turn, TypeOn(p, m.from)>>
      BY <2>1, PieceFacts
    <3>2. piece[2] = Moved(p, m) /\ piece = <<p.turn, Moved(p, m)>>
      BY <1>4, <1>7
    <3>3. CASE m.promote
      BY <3>1, <3>2, <3>3, <2>1, <1>3, UnpromoteInverse DEF Moved
    <3>4. CASE ~m.promote
      BY <3>1, <3>2, <3>4 DEF Moved
    <3> QED BY <3>3, <3>4
  <2>3. undo.captured = IF m.to \in DOMAIN p.at THEN {p.at[m.to]} ELSE {}
    BY <1>7 DEF UndoOf, Occupied
  <2>4. restored = IF m.to \in DOMAIN p.at THEN Put(rest, m.to, p.at[m.to]) ELSE rest
    BY <2>3
  <2> HIDE DEF undo, back
  <2>5. /\ DOMAIN restored = DOMAIN p.at \ {m.from}
        /\ \A s \in DOMAIN restored : restored[s] = p.at[s]
    <3>1. CASE m.to \in DOMAIN p.at
      <4>1. restored = Put(rest, m.to, p.at[m.to])
        BY <2>4, <3>1
      <4> HIDE DEF restored
      <4>2. DOMAIN restored = DOMAIN rest \union {m.to}
        BY <4>1 DEF Put
      <4>3. \A s \in DOMAIN restored : restored[s] = IF s = m.to THEN p.at[m.to] ELSE rest[s]
        BY <4>1 DEF Put
      <4>4. DOMAIN restored = DOMAIN p.at \ {m.from}
        BY <4>2, <1>4, <1>5, <1>7, <2>1, <3>1
      <4>5. ASSUME NEW s \in DOMAIN restored PROVE restored[s] = p.at[s]
        BY <4>2, <4>3, <1>4, <1>5
      <4> QED BY <4>4, <4>5
    <3>2. CASE m.to \notin DOMAIN p.at
      BY <3>2, <2>1, <2>4, <1>4, <1>5, <1>7
    <3> QED BY <3>1, <3>2
  <2>6. at = Put(restored, m.from, back)
    BY <1>7
  <2> HIDE DEF restored, at
  <2>7. /\ DOMAIN at = DOMAIN restored \union {m.from}
        /\ IsFun(at)
        /\ \A s \in DOMAIN at : at[s] = IF s = m.from THEN back ELSE restored[s]
    BY <2>6 DEF Put, IsFun
  <2>8. DOMAIN at = DOMAIN p.at
    BY <2>1, <2>5, <2>7
  <2>9. \A s \in DOMAIN at : at[s] = p.at[s]
    BY <2>2, <2>5, <2>7, <2>8
  <2>10. at = p.at
    BY <2>7, <2>8, <2>9, SamePieces
  <2> QED BY <2>10, <1>1 DEF undo
<1> QED BY <1>6, <1>7

LEMMA TakenBack ==
    ASSUME NEW p, IsPosition(p), NEW m, Playable(p, m), NEW h, NEW cs \in [Colors -> Nat],
           pos = After(p, m), checks \in [Colors -> Nat],
           checks[Opp(p.turn)] = cs[Opp(p.turn)]
    PROVE  Undone(m, UndoOf(p, h, cs, m)) = <<p, h, cs>>
<1> DEFINE undo == UndoOf(p, h, cs, m)
           us == Opp(pos.turn)
           hand == IF IsDrop(m) \/ undo.captured # {} THEN undo.hand ELSE pos.hand[us]
           back == Undone(m, undo)
<1>1. p.turn \in Colors /\ p.hand \in [Colors -> [HandTypes -> Nat]]
      /\ p = [at |-> p.at, hand |-> p.hand, turn |-> p.turn]
  BY DEF IsPosition
<1>2. us = p.turn
  BY <1>1, PiecesAfter, OppFacts
<1>3. back = <<[at |-> back[1].at, hand |-> [pos.hand EXCEPT ![us] = hand], turn |-> us],
               undo.hash, [checks EXCEPT ![us] = undo.checks]>>
  BY DEF Undone
<1>4. back[1].at = p.at
  BY PiecesBack
<1>5. undo.hash = h /\ undo.checks = cs[p.turn] /\ undo.hand = p.hand[p.turn]
  BY DEF UndoOf
<1>6. undo.captured # {} <=> ~IsDrop(m) /\ m.to \in DOMAIN p.at
  BY DEF UndoOf, Occupied
<1>7. /\ pos.hand \in [Colors -> [HandTypes -> Nat]]
      /\ pos.hand[Opp(p.turn)] = p.hand[Opp(p.turn)]
      /\ ~IsDrop(m) /\ m.to \notin DOMAIN p.at => pos.hand = p.hand
  <2>1. CASE IsDrop(m)
    BY <2>1, AfterDrop
  <2>2. CASE ~IsDrop(m)
    BY <2>2, AfterBoardMove
  <2> QED BY <2>1, <2>2
<1>8. hand = p.hand[p.turn]
  BY <1>2, <1>5, <1>6, <1>7
<1> HIDE DEF undo, us, hand, back
<1>9. [pos.hand EXCEPT ![us] = hand] = p.hand
  BY <1>1, <1>2, <1>7, <1>8, OppFacts
<1>10. [checks EXCEPT ![us] = undo.checks] = cs
  BY <1>1, <1>2, <1>5, OppFacts
<1>11. back = <<[at |-> p.at, hand |-> p.hand, turn |-> p.turn], h, cs>>
  BY <1>2, <1>3, <1>4, <1>5, <1>9, <1>10
<1> QED BY <1>1, <1>11 DEF back, undo

-----------------------------------------------------------------------------
(* The hash. *)

LEMMA InXor ==
    ASSUME NEW a, NEW b, NEW x
    PROVE  x \in Xor(a, b) <=> ~(x \in a <=> x \in b)
BY DEF Xor

SquareKey(piece, s) == <<"psq", piece[1], piece[2], s>>
HandKey(c, t, n) == <<"hand", c, t, n>>

PieceSet(at) == UNION {PsqKey(at[s], s) : s \in DOMAIN at}
SideSet(turn) == IF turn = WHITE THEN SideKey ELSE {}

LEMMA InPieceSet ==
    ASSUME NEW at, NEW x
    PROVE  x \in PieceSet(at) <=> \E s \in DOMAIN at : x = SquareKey(at[s], s)
BY DEF PieceSet, PsqKey, SquareKey

LEMMA InHashHand ==
    ASSUME NEW c, NEW hand, NEW x
    PROVE  x \in HashHand(c, hand) <=> \E t \in HandTypes : hand[t] > 0 /\ x = HandKey(c, t, hand[t])
BY DEF HashHand, HandKey

LEMMA KeysDiffer ==
    /\ \A piece, s, c, t, n : SquareKey(piece, s) # HandKey(c, t, n)
    /\ \A piece, s : SquareKey(piece, s) # <<"side">>
    /\ \A c, t, n : HandKey(c, t, n) # <<"side">>
    /\ \A piece, s, other, u : SquareKey(piece, s) = SquareKey(other, u)
         => s = u /\ piece[1] = other[1] /\ piece[2] = other[2]
    /\ \A c, t, n, d, u, k : HandKey(c, t, n) = HandKey(d, u, k) => c = d /\ t = u /\ n = k
<1>1. \A piece, s, c, t, n : SquareKey(piece, s) # HandKey(c, t, n)
  BY DEF SquareKey, HandKey
<1>2. \A piece, s : SquareKey(piece, s) # <<"side">>
  BY DEF SquareKey
<1>3. \A c, t, n : HandKey(c, t, n) # <<"side">>
  BY DEF HandKey
<1>4. \A piece, s, other, u : SquareKey(piece, s) = SquareKey(other, u)
         => s = u /\ piece[1] = other[1] /\ piece[2] = other[2]
  BY DEF SquareKey
<1>5. \A c, t, n, d, u, k : HandKey(c, t, n) = HandKey(d, u, k) => c = d /\ t = u /\ n = k
  BY DEF HandKey
<1> QED BY <1>1, <1>2, <1>3, <1>4, <1>5

LEMMA InHash ==
    ASSUME NEW p, NEW x
    PROVE  x \in ComputeHash(p) <=>
             \/ x \in PieceSet(p.at) \/ x \in SideSet(p.turn)
             \/ x \in HashHand(BLACK, p.hand[BLACK]) \/ x \in HashHand(WHITE, p.hand[WHITE])
<1> DEFINE A == UNION {PsqKey(p.at[s], s) : s \in Occupied(p)}
           B == HashHand(BLACK, p.hand[BLACK])
           C == HashHand(WHITE, p.hand[WHITE])
           D == IF p.turn = WHITE THEN SideKey ELSE {}
<1>1. ComputeHash(p) = ((A \union B) \union C) \union D
  BY DEF ComputeHash
<1>2. x \in A <=> x \in PieceSet(p.at)
  <2>1. x \in A <=> \E s \in DOMAIN p.at : x \in PsqKey(p.at[s], s)
    BY DEF Occupied
  <2>2. x \in PieceSet(p.at) <=> \E s \in DOMAIN p.at : x \in PsqKey(p.at[s], s)
    BY DEF PieceSet
  <2> QED BY <2>1, <2>2
<1>3. D = SideSet(p.turn)
  BY DEF SideSet
<1> HIDE DEF A, B, C, D
<1>4. x \in ComputeHash(p) <=> x \in A \/ x \in B \/ x \in C \/ x \in D
  BY <1>1
<1> QED BY <1>2, <1>3, <1>4 DEF B, C

(* The parts of a hash have no key in common, so that it is their xor too. *)
LEMMA PartsDisjoint ==
    ASSUME NEW at, NEW turn, NEW g, NEW h, NEW x
    PROVE  /\ ~(x \in PieceSet(at) /\ x \in HashHand(BLACK, g))
           /\ ~(x \in PieceSet(at) /\ x \in HashHand(WHITE, g))
           /\ ~(x \in PieceSet(at) /\ x \in SideSet(turn))
           /\ ~(x \in HashHand(BLACK, g) /\ x \in HashHand(WHITE, h))
           /\ ~(x \in HashHand(BLACK, g) /\ x \in SideSet(turn))
           /\ ~(x \in HashHand(WHITE, g) /\ x \in SideSet(turn))
<1>1. x \in SideSet(turn) => x = <<"side">>
  BY DEF SideSet, SideKey
<1>2. x \in PieceSet(at) => \E s \in DOMAIN at : x = SquareKey(at[s], s)
  BY InPieceSet
<1>3. \A c, k : x \in HashHand(c, k) => \E t \in HandTypes : x = HandKey(c, t, k[t])
  BY InHashHand
<1>4. BLACK # WHITE
  BY DEF BLACK, WHITE
<1> QED BY <1>1, <1>2, <1>3, <1>4, KeysDiffer

(* What of a hash is a piece's key, and what is the side's. *)
LEMMA KeysInHash ==
    ASSUME NEW p
    PROVE  /\ \A piece, s : SquareKey(piece, s) \in ComputeHash(p) <=> SquareKey(piece, s) \in PieceSet(p.at)
           /\ <<"side">> \in ComputeHash(p) <=> p.turn = WHITE
<1>1. \A piece, s : SquareKey(piece, s) \notin SideSet(p.turn)
  BY KeysDiffer DEF SideSet, SideKey
<1>2. \A piece, s, c, g : SquareKey(piece, s) \notin HashHand(c, g)
  BY KeysDiffer, InHashHand
<1>3. \A piece, s : SquareKey(piece, s) \in ComputeHash(p) <=> SquareKey(piece, s) \in PieceSet(p.at)
  BY <1>1, <1>2, InHash
<1>4. \A c, g : <<"side">> \notin HashHand(c, g)
  BY KeysDiffer, InHashHand
<1>5. <<"side">> \notin PieceSet(p.at)
  BY KeysDiffer, InPieceSet
<1>6. <<"side">> \in SideSet(p.turn) <=> p.turn = WHITE
  BY DEF SideSet, SideKey
<1>7. <<"side">> \in ComputeHash(p) <=> p.turn = WHITE
  BY <1>4, <1>5, <1>6, InHash
<1> QED BY <1>3, <1>7

(* Two positions with one hash and the same hands are the same position. *)
LEMMA HashTells ==
    ASSUME NEW p, IsPosition(p), NEW q, IsPosition(q),
           ComputeHash(p) = ComputeHash(q), p.hand = q.hand
    PROVE  p = q
<1>1. ASSUME NEW u, NEW v, IsPosition(u), IsPosition(v), ComputeHash(u) = ComputeHash(v),
             NEW s \in DOMAIN u.at
      PROVE  s \in DOMAIN v.at /\ v.at[s] = u.at[s]
  <2>1. SquareKey(u.at[s], s) \in PieceSet(u.at)
    BY InPieceSet
  <2>2. SquareKey(u.at[s], s) \in PieceSet(v.at)
    BY <2>1, <1>1, KeysInHash
  <2>3. PICK w \in DOMAIN v.at : SquareKey(u.at[s], s) = SquareKey(v.at[w], w)
    BY <2>2, InPieceSet
  <2>4. w = s /\ u.at[s][1] = v.at[w][1] /\ u.at[s][2] = v.at[w][2]
    BY <2>3, KeysDiffer
  <2>5. u.at[s] = <<u.at[s][1], u.at[s][2]>> /\ v.at[w] = <<v.at[w][1], v.at[w][2]>>
    BY <1>1, PieceFacts DEF ColorOn, TypeOn
  <2> QED BY <2>4, <2>5
<1>2. DOMAIN p.at = DOMAIN q.at /\ \A s \in DOMAIN p.at : p.at[s] = q.at[s]
  BY <1>1
<1>3. IsFun(p.at)
  BY DEF IsPosition, IsFun
<1>4. p.at = q.at
  BY <1>2, <1>3, SamePieces
<1>5. p.turn = WHITE <=> q.turn = WHITE
  BY KeysInHash
<1>6. p.turn \in Colors /\ q.turn \in Colors
  BY DEF IsPosition
<1>7. p.turn = q.turn
  BY <1>5, <1>6 DEF Colors
<1> QED BY <1>4, <1>7 DEF IsPosition

(* The keys of the pieces that a move takes in and out. *)
LEMMA PieceKeysChange ==
    ASSUME NEW p, IsPosition(p), NEW m, Playable(p, m), NEW x
    PROVE  x \in PieceKeys(p, m) <=> ~(x \in PieceSet(p.at) <=> x \in PieceSet(After(p, m).at))
<1> DEFINE q == After(p, m).at
           us == p.turn
<1>1. /\ DOMAIN q = (DOMAIN p.at \ (IF IsDrop(m) THEN {} ELSE {m.from})) \union {m.to}
      /\ q[m.to] = <<us, IF IsDrop(m) THEN m.drop ELSE Moved(p, m)>>
      /\ \A s \in DOMAIN q : s # m.to => q[s] = p.at[s]
  BY PiecesAfter
<1> HIDE DEF q
<1>2. x \in PieceSet(p.at) <=> \E s \in DOMAIN p.at : x = SquareKey(p.at[s], s)
  BY InPieceSet
<1>3. x \in PieceSet(q) <=> \E s \in DOMAIN q : x = SquareKey(q[s], s)
  BY InPieceSet
<1>4. \A piece, s, other, u : SquareKey(piece, s) = SquareKey(other, u) => s = u
  BY KeysDiffer
<1>5. \A piece, s : PsqKey(piece, s) = {SquareKey(piece, s)}
  BY DEF PsqKey, SquareKey
<1>6. CASE IsDrop(m)
  <2>1. m.to \notin DOMAIN p.at
    BY <1>6 DEF Playable
  <2>2. x \in PieceKeys(p, m) <=> x = SquareKey(q[m.to], m.to)
    BY <1>1, <1>5, <1>6 DEF PieceKeys
  <2> QED BY <2>1, <2>2, <1>1, <1>2, <1>3, <1>4, <1>6 DEF q
<1>7. CASE ~IsDrop(m)
  <2> DEFINE captured == IF m.to \in DOMAIN p.at THEN {SquareKey(p.at[m.to], m.to)} ELSE {}
             gone == {SquareKey(p.at[m.from], m.from)}
             placed == {SquareKey(q[m.to], m.to)}
  <2>1. /\ m.from \in DOMAIN p.at /\ m.to # m.from
        /\ p.at[m.from] = <<us, TypeOn(p, m.from)>>
        /\ m.to \in DOMAIN p.at => p.at[m.to][1] # us
    <3>1. m.from \in DOMAIN p.at /\ m.to # m.from /\ ColorOn(p, m.from) = us
      BY <1>7 DEF Playable
    <3>2. p.at[m.from] = <<us, TypeOn(p, m.from)>>
      BY <3>1, PieceFacts
    <3>3. us \in Colors
      BY DEF IsPosition
    <3>4. m.to \in DOMAIN p.at => p.at[m.to][1] # us
      BY <1>7, <3>3, OppFacts DEF Playable, ColorOn
    <3> QED BY <3>1, <3>2, <3>4
  <2>2. q[m.to] = IF m.promote THEN <<us, ProOf[p.at[m.from][2]]>> ELSE p.at[m.from]
    BY <1>1, <1>7, <2>1 DEF Moved, TypeOn
  <2>3. PieceKeys(p, m) = Xor(captured, Xor(gone, placed))
    BY <1>5, <1>7, <2>2 DEF PieceKeys, Occupied
  <2>4. x \in PieceKeys(p, m) <=> ~(x \in captured <=> ~(x \in gone <=> x \in placed))
    BY <2>3, InXor
  <2>5. ~(x \in captured /\ x \in placed) /\ ~(x \in captured /\ x \in gone) /\ ~(x \in gone /\ x \in placed)
    <3>1. m.to \in DOMAIN p.at => SquareKey(p.at[m.to], m.to) # SquareKey(q[m.to], m.to)
      <4>1. q[m.to][1] = us
        BY <1>1
      <4> QED BY <4>1, <2>1, KeysDiffer
    <3> QED BY <3>1, <2>1, <1>4
  <2>6. ASSUME NEW s \in DOMAIN p.at, s # m.from, s # m.to, x = SquareKey(p.at[s], s)
        PROVE  /\ x \in PieceSet(p.at) /\ x \in PieceSet(q)
               /\ x \notin captured /\ x \notin gone /\ x \notin placed
    <3>1. s \in DOMAIN q /\ q[s] = p.at[s]
      BY <2>6, <1>1
    <3> QED BY <3>1, <2>6, <1>2, <1>3, <1>4
  <2>7. x \in PieceSet(p.at) <=>
          \/ x \in captured \/ x \in gone
          \/ \E s \in DOMAIN p.at : s # m.from /\ s # m.to /\ x = SquareKey(p.at[s], s)
    BY <1>2, <2>1
  <2>8. x \in PieceSet(q) <=>
          \/ x \in placed
          \/ \E s \in DOMAIN p.at : s # m.from /\ s # m.to /\ x = SquareKey(p.at[s], s)
    BY <1>1, <1>3, <1>7, <2>1
  <2> HIDE DEF captured, gone, placed
  <2> QED BY <2>4, <2>5, <2>6, <2>7, <2>8 DEF q
<1> QED BY <1>6, <1>7

LEMMA HandKeysChange ==
    ASSUME NEW p, IsPosition(p), NEW m, Playable(p, m), NEW x
    PROVE  /\ x \in HandKeys(p, m) <=>
                ~(x \in HashHand(p.turn, p.hand[p.turn])
                    <=> x \in HashHand(p.turn, After(p, m).hand[p.turn]))
           /\ After(p, m).hand[Opp(p.turn)] = p.hand[Opp(p.turn)]
<1>1. CASE IsDrop(m) \/ m.to \in Occupied(p)
  <2>1. HandKeys(p, m) = Xor(HashHand(p.turn, p.hand[p.turn]),
                             HashHand(p.turn, After(p, m).hand[p.turn]))
    BY <1>1 DEF HandKeys
  <2>2. x \in HandKeys(p, m) <=>
                ~(x \in HashHand(p.turn, p.hand[p.turn])
                    <=> x \in HashHand(p.turn, After(p, m).hand[p.turn]))
    BY <2>1, InXor
  <2>3. After(p, m).hand[Opp(p.turn)] = p.hand[Opp(p.turn)]
    BY AfterDrop, AfterBoardMove
  <2> QED BY <2>2, <2>3
<1>2. CASE ~(IsDrop(m) \/ m.to \in Occupied(p))
  <2>1. HandKeys(p, m) = {}
    BY <1>2 DEF HandKeys
  <2>2. After(p, m).hand = p.hand
    BY <1>2, AfterBoardMove DEF Occupied
  <2> QED BY <2>1, <2>2
<1> QED BY <1>1, <1>2

(* In and out of the hash before a move, the keys of the move make the hash after it. *)
LEMMA HashStep ==
    ASSUME NEW p, IsPosition(p), NEW m, Playable(p, m)
    PROVE  HashAfter(p, ComputeHash(p), m) = ComputeHash(After(p, m))
<1> DEFINE q == After(p, m)
<1>1. p.turn \in Colors /\ q.turn = Opp(p.turn)
  BY PiecesAfter DEF IsPosition
<1>2. ASSUME NEW x
      PROVE  x \in HashAfter(p, ComputeHash(p), m) <=> x \in ComputeHash(q)
  <2> DEFINE A == x \in PieceSet(p.at)
             A1 == x \in PieceSet(q.at)
             U == x \in HashHand(p.turn, p.hand[p.turn])
             U1 == x \in HashHand(p.turn, q.hand[p.turn])
             V == x \in HashHand(Opp(p.turn), p.hand[Opp(p.turn)])
             S == x \in SideSet(p.turn)
             S1 == x \in SideSet(q.turn)
             K == x \in SideKey
  <2>1. x \in HashAfter(p, ComputeHash(p), m) <=>
          ~(~(x \in ComputeHash(p) <=> ~(x \in PieceKeys(p, m) <=> x \in HandKeys(p, m))) <=> K)
    <3> DEFINE a == Xor(PieceKeys(p, m), HandKeys(p, m))
               b == Xor(ComputeHash(p), a)
    <3>1. HashAfter(p, ComputeHash(p), m) = Xor(b, SideKey)
      BY DEF HashAfter
    <3>2. x \in a <=> ~(x \in PieceKeys(p, m) <=> x \in HandKeys(p, m))
      BY InXor
    <3>3. x \in b <=> ~(x \in ComputeHash(p) <=> x \in a)
      BY InXor
    <3>4. x \in Xor(b, SideKey) <=> ~(x \in b <=> K)
      BY InXor
    <3> QED BY <3>1, <3>2, <3>3, <3>4
  <2>2. x \in PieceKeys(p, m) <=> ~(A <=> A1)
    BY PieceKeysChange
  <2>3. x \in HandKeys(p, m) <=> ~(U <=> U1)
    BY HandKeysChange
  <2>4. q.hand[Opp(p.turn)] = p.hand[Opp(p.turn)]
    BY HandKeysChange
  <2>5. x \in ComputeHash(p) <=> A \/ U \/ V \/ S
    BY <1>1, InHash DEF Colors, Opp, BLACK, WHITE
  <2>6. x \in ComputeHash(q) <=> A1 \/ U1 \/ V \/ S1
    BY <1>1, <2>4, InHash DEF Colors, Opp, BLACK, WHITE
  <2>7. /\ ~(A /\ U) /\ ~(A /\ V) /\ ~(A /\ S) /\ ~(U /\ V) /\ ~(U /\ S) /\ ~(V /\ S)
        /\ ~(A1 /\ U1) /\ ~(A1 /\ V) /\ ~(A1 /\ S1) /\ ~(U1 /\ V) /\ ~(U1 /\ S1) /\ ~(V /\ S1)
    <3>1. (p.turn = BLACK /\ Opp(p.turn) = WHITE) \/ (p.turn = WHITE /\ Opp(p.turn) = BLACK)
      BY <1>1 DEF Colors, Opp, BLACK, WHITE
    <3>2. CASE p.turn = BLACK /\ Opp(p.turn) = WHITE
      BY <3>2, PartsDisjoint
    <3>3. CASE p.turn = WHITE /\ Opp(p.turn) = BLACK
      BY <3>3, PartsDisjoint
    <3> QED BY <3>1, <3>2, <3>3
  <2>8. ~(S <=> S1) <=> K
    BY <1>1 DEF SideSet, Colors, Opp, BLACK, WHITE
  <2> HIDE DEF A, A1, U, U1, V, S, S1, K
  <2> QED BY <2>1, <2>2, <2>3, <2>5, <2>6, <2>7, <2>8
<1> QED BY <1>2 DEF HashAfter, Xor

NoHands == [c \in Colors |-> [t \in HandTypes |-> 0]]

(* The key without hands is the hash of the position without hands. *)
LEMMA BoardKeyIs ==
    ASSUME NEW p, IsPosition(p), NEW x
    PROVE  /\ x \in BoardKey(p, ComputeHash(p)) <=> x \in PieceSet(p.at) \/ x \in SideSet(p.turn)
           /\ x \in ComputeHash([p EXCEPT !.hand = NoHands])
                <=> x \in PieceSet(p.at) \/ x \in SideSet(p.turn)
<1> DEFINE A == x \in PieceSet(p.at)
           U == x \in HashHand(BLACK, p.hand[BLACK])
           V == x \in HashHand(WHITE, p.hand[WHITE])
           S == x \in SideSet(p.turn)
           bare == [p EXCEPT !.hand = NoHands]
<1>1. x \in BoardKey(p, ComputeHash(p)) <=> A \/ S
  <2> DEFINE a == Xor(HashHand(BLACK, p.hand[BLACK]), HashHand(WHITE, p.hand[WHITE]))
  <2>1. BoardKey(p, ComputeHash(p)) = Xor(ComputeHash(p), a)
    BY DEF BoardKey
  <2>2. x \in a <=> ~(U <=> V)
    BY InXor
  <2>3. x \in Xor(ComputeHash(p), a) <=> ~(x \in ComputeHash(p) <=> x \in a)
    BY InXor
  <2>4. x \in ComputeHash(p) <=> A \/ S \/ U \/ V
    BY InHash
  <2>5. ~(A /\ U) /\ ~(A /\ V) /\ ~(U /\ V) /\ ~(U /\ S) /\ ~(V /\ S)
    BY PartsDisjoint
  <2> HIDE DEF A, U, V, S, a
  <2> QED BY <2>1, <2>2, <2>3, <2>4, <2>5
<1>2. x \in ComputeHash(bare) <=> A \/ S
  <2>1. bare.at = p.at /\ bare.turn = p.turn /\ bare.hand = NoHands
    BY DEF IsPosition
  <2>2. \A c \in Colors, t \in HandTypes : NoHands[c][t] = 0
    BY DEF NoHands
  <2>3. BLACK \in Colors /\ WHITE \in Colors
    BY DEF Colors
  <2>4. x \notin HashHand(BLACK, NoHands[BLACK]) /\ x \notin HashHand(WHITE, NoHands[WHITE])
    BY <2>2, <2>3, InHashHand
  <2> HIDE DEF bare
  <2> QED BY <2>1, <2>4, InHash
<1> QED BY <1>1, <1>2

LEMMA BoardKeyStep ==
    ASSUME NEW p, IsPosition(p), NEW m, Playable(p, m)
    PROVE  BoardKeyAfter(p, ComputeHash(p), m) = BoardKey(After(p, m), ComputeHash(After(p, m)))
<1> DEFINE q == After(p, m)
           a == Xor(BoardKey(p, ComputeHash(p)), PieceKeys(p, m))
<1>1. p.turn \in Colors /\ q.turn = Opp(p.turn) /\ IsPosition(q)
  <2>1. p.turn \in Colors
    BY DEF IsPosition
  <2> QED BY <2>1, PiecesAfter, AfterIsPosition
<1>2. BoardKeyAfter(p, ComputeHash(p), m) = Xor(a, SideKey)
  BY DEF BoardKeyAfter
<1>3. ASSUME NEW x PROVE x \in Xor(a, SideKey) <=> x \in BoardKey(q, ComputeHash(q))
  <2> DEFINE A == x \in PieceSet(p.at)
             A1 == x \in PieceSet(q.at)
             S == x \in SideSet(p.turn)
             S1 == x \in SideSet(q.turn)
             K == x \in SideKey
  <2>1. x \in Xor(a, SideKey) <=> ~(x \in a <=> K)
    BY InXor
  <2>2. x \in a <=> ~(x \in BoardKey(p, ComputeHash(p)) <=> x \in PieceKeys(p, m))
    BY InXor
  <2>3. x \in PieceKeys(p, m) <=> ~(A <=> A1)
    BY PieceKeysChange
  <2>4. x \in BoardKey(p, ComputeHash(p)) <=> A \/ S
    BY BoardKeyIs
  <2>5. x \in BoardKey(q, ComputeHash(q)) <=> A1 \/ S1
    BY <1>1, BoardKeyIs
  <2>6. ~(A /\ S) /\ ~(A1 /\ S1)
    BY PartsDisjoint
  <2>7. ~(S <=> S1) <=> K
    BY <1>1 DEF SideSet, Colors, Opp, BLACK, WHITE
  <2> HIDE DEF A, A1, S, S1, K, a
  <2> QED BY <2>1, <2>2, <2>3, <2>4, <2>5, <2>6, <2>7
<1>4. BoardKey(q, ComputeHash(q)) = Xor(ComputeHash(q), Xor(HashHand(BLACK, q.hand[BLACK]), HashHand(WHITE, q.hand[WHITE])))
  BY DEF BoardKey
<1> QED BY <1>2, <1>3, <1>4 DEF Xor

-----------------------------------------------------------------------------
(* Repetition. *)

(* A position does not come back after two plies: the square the first     *)
(* move emptied, or filled, is still not as it was.                        *)
LEMMA TwoPlies ==
    ASSUME NEW p, IsPosition(p), NEW m, Playable(p, m),
           NEW q, q = After(p, m), NEW n, Playable(q, n)
    PROVE  After(q, n) # p
<1> DEFINE r == After(q, n)
<1>1. p.turn \in Colors /\ IsPosition(q)
  <2>1. p.turn \in Colors
    BY DEF IsPosition
  <2> QED BY <2>1, AfterIsPosition
<1>2. /\ DOMAIN q.at = (DOMAIN p.at \ (IF IsDrop(m) THEN {} ELSE {m.from})) \union {m.to}
      /\ q.at[m.to] = <<p.turn, IF IsDrop(m) THEN m.drop ELSE Moved(p, m)>>
      /\ q.turn = Opp(p.turn)
  BY PiecesAfter
<1>3. /\ DOMAIN r.at = (DOMAIN q.at \ (IF IsDrop(n) THEN {} ELSE {n.from})) \union {n.to}
      /\ r.at[n.to] = <<q.turn, IF IsDrop(n) THEN n.drop ELSE Moved(q, n)>>
  BY <1>1, PiecesAfter
<1>4. q.turn # p.turn
  BY <1>1, <1>2, OppFacts
<1> HIDE DEF r
<1>5. CASE IsDrop(m)
  <2>1. m.to \notin DOMAIN p.at
    BY <1>5 DEF Playable
  <2>2. ~IsDrop(n) => n.from # m.to
    BY <1>2, <1>4 DEF Playable, ColorOn
  <2>3. m.to \in DOMAIN r.at
    BY <1>2, <1>3, <2>2
  <2> QED BY <2>1, <2>3 DEF r
<1>6. CASE ~IsDrop(m)
  <2>1. m.from \in DOMAIN p.at /\ p.at[m.from][1] = p.turn /\ m.to # m.from
    BY <1>6 DEF Playable, ColorOn
  <2>2. m.from \notin DOMAIN q.at
    BY <1>2, <1>6, <2>1
  <2>3. m.from \in DOMAIN r.at => r.at[m.from][1] = q.turn
    BY <1>3, <2>2
  <2> QED BY <1>4, <2>1, <2>3 DEF r
<1> QED BY <1>5, <1>6

(* Over the turns T and the checks G of N moves, the counter k of checks   *)
(* reaches back as far as every move of its side gave check.               *)
CountsBack(N, T, G, c, k) ==
    \A l \in 1..N : T[l] = c => ((\A j \in l..N : T[j] = c => G[j]) <=> k >= N + 1 - l)
InTurns(N, T) == \A l \in 1..N : T[l] = T[N] <=> (N - l) % 2 = 0
NextCount(N, T, G, c, k) == IF T[N] = c THEN (IF G[N] THEN k + 2 ELSE 0) ELSE k

LEMMA CountStep ==
    ASSUME NEW N \in Nat \ {0}, NEW T, NEW G, NEW c, NEW k \in Nat, k % 2 = 0,
           InTurns(N, T), CountsBack(N - 1, T, G, c, k)
    PROVE  CountsBack(N, T, G, c, NextCount(N, T, G, c, k))
<1> DEFINE k2 == NextCount(N, T, G, c, k)
<1>0. /\ k2 = IF T[N] = c THEN (IF G[N] THEN k + 2 ELSE 0) ELSE k
      /\ \A l \in 1..N : T[l] = T[N] <=> (N - l) % 2 = 0
  BY DEF NextCount, InTurns
<1>00. \A l \in 1..N - 1 : T[l] = c => ((\A j \in l..N - 1 : T[j] = c => G[j]) <=> k >= N - l)
  <2>1. \A l \in 1..N - 1 : (N - 1) + 1 - l = N - l
    OBVIOUS
  <2>2. \A l \in 1..N - 1 : T[l] = c => ((\A j \in l..N - 1 : T[j] = c => G[j]) <=> k >= (N - 1) + 1 - l)
    BY DEF CountsBack
  <2> QED BY <2>1, <2>2
<1> HIDE DEF k2
<1>1. k2 \in Nat /\ k2 % 2 = 0
  BY <1>0
<1>2. ASSUME NEW l \in 1..N, T[l] = c
      PROVE  (\A j \in l..N : T[j] = c => G[j]) <=> k2 >= N + 1 - l
  <2> DEFINE All(n) == \A j \in l..n : T[j] = c => G[j]
  <2>1. All(N) <=> (l <= N - 1 => All(N - 1)) /\ (T[N] = c => G[N])
    OBVIOUS
  <2>2. l <= N - 1 => (All(N - 1) <=> k >= N - l)
    BY <1>2, <1>00
  <2> HIDE DEF All
  <2>3. CASE T[N] # c
    <3>1. l <= N - 1 /\ (N - l) % 2 # 0 /\ k2 = k
      BY <1>0, <1>2, <2>3
    <3>2. k >= N - l <=> k2 >= N + 1 - l
      BY <3>1
    <3> QED BY <2>1, <2>2, <2>3, <3>1, <3>2 DEF All
  <2>4. CASE T[N] = c /\ ~G[N]
    <3>1. k2 = 0 /\ ~All(N)
      BY <1>0, <2>1, <2>4
    <3> QED BY <3>1 DEF All
  <2>5. CASE T[N] = c /\ G[N]
    <3>1. (N - l) % 2 = 0 /\ k2 = k + 2
      BY <1>0, <1>2, <2>5
    <3>2. k >= N - l <=> k2 >= N + 1 - l
      BY <3>1
    <3>3. l = N => k2 >= N + 1 - l
      BY <3>1
    <3> QED BY <2>1, <2>2, <2>5, <3>1, <3>2, <3>3 DEF All
  <2> QED BY <2>3, <2>4, <2>5
<1> QED BY <1>2 DEF CountsBack, k2

-----------------------------------------------------------------------------
(* The machine.  State i of a game is the one before its i-th move, the    *)
(* last one the board itself.                                              *)

IsSeq(s) == \E S : s \in Seq(S)

LEMMA SeqAppend ==
    ASSUME NEW s, IsSeq(s), NEW e
    PROVE  /\ IsSeq(Append(s, e)) /\ Len(Append(s, e)) = Len(s) + 1 /\ Len(s) \in Nat
           /\ \A i \in 1..Len(s) : Append(s, e)[i] = s[i]
           /\ Append(s, e)[Len(s) + 1] = e
<1>1. PICK S : s \in Seq(S)
  BY DEF IsSeq
<1>2. PICK T : T = S \union {e}
  OBVIOUS
<1>3. s \in Seq(T) /\ e \in T
  BY <1>1, <1>2
<1>4. Append(s, e) \in Seq(T)
  BY <1>3
<1> QED BY <1>3, <1>4 DEF IsSeq

LEMMA SeqFront ==
    ASSUME NEW s, IsSeq(s), s # <<>>
    PROVE  LET f == SubSeq(s, 1, Len(s) - 1)
           IN  /\ IsSeq(f) /\ Len(f) = Len(s) - 1 /\ Len(f) \in Nat /\ Len(s) \in Nat \ {0}
               /\ \A i \in 1..Len(f) : f[i] = s[i]
<1>1. PICK S : s \in Seq(S)
  BY DEF IsSeq
<1>2. Len(s) \in Nat \ {0}
  BY <1>1
<1>3. \A i \in 1..Len(s) - 1 : s[i] \in S
  BY <1>1, <1>2
<1>4. Len(s) - 1 \in Int /\ 1 \in Int
  BY <1>2
<1>5. SubSeq(s, 1, Len(s) - 1) \in Seq(S)
  BY <1>3, <1>4, SubSeqProperties
<1>6. Len(SubSeq(s, 1, Len(s) - 1)) = IF 1 <= Len(s) - 1 THEN (Len(s) - 1) - 1 + 1 ELSE 0
  BY <1>3, <1>4, SubSeqProperties
<1>7. \A i \in 1..(Len(s) - 1) - 1 + 1 : SubSeq(s, 1, Len(s) - 1)[i] = s[1 + i - 1]
  BY <1>3, <1>4, SubSeqProperties
<1>8. Len(SubSeq(s, 1, Len(s) - 1)) = Len(s) - 1
  BY <1>2, <1>6
<1>9. \A i \in 1..Len(s) - 1 : SubSeq(s, 1, Len(s) - 1)[i] = s[i]
  <2>1. ASSUME NEW i \in 1..Len(s) - 1 PROVE SubSeq(s, 1, Len(s) - 1)[i] = s[i]
    <3>1. i \in 1..(Len(s) - 1) - 1 + 1 /\ 1 + i - 1 = i
      BY <1>2
    <3> QED BY <3>1, <1>7
  <2> QED BY <2>1
<1> QED BY <1>2, <1>5, <1>8, <1>9 DEF IsSeq

StateAt(i) == IF i = Len(frames) + 1 THEN <<pos, hash, checks>> ELSE frames[i].before
PosAt(i) == StateAt(i)[1]
Turn(i) == PosAt(i).turn
Gave(i) == KingAttacked(PosAt(i + 1), Turn(i + 1))

Shape == IsSeq(frames) /\ IsSeq(history) /\ Len(history) = Len(frames)

(* A state of the game by itself. *)
SoundState(s) ==
    /\ s = <<s[1], s[2], s[3]>>
    /\ IsPosition(s[1]) /\ ~KingAttacked(s[1], Opp(s[1].turn))
    /\ s[2] = ComputeHash(s[1])
    /\ s[3] \in [Colors -> Nat] /\ \A c \in Colors : s[3][c] % 2 = 0

(* A move between two states, as the caller and the history remember it. *)
LinkedBy(s, move, undo, entry, t) ==
    /\ move \in SafeMoves(s[1]) /\ t[1] = After(s[1], move)
    /\ undo = UndoOf(s[1], s[2], s[3], move)
    /\ entry = [hash |-> s[2], hand |-> s[1].hand]
    /\ t[3][Opp(s[1].turn)] = s[3][Opp(s[1].turn)]

SoundAll == \A i \in 1..Len(frames) + 1 : SoundState(StateAt(i))
LinkedAll == \A i \in 1..Len(frames) :
    LinkedBy(StateAt(i), frames[i].move, frames[i].undo, history[i], StateAt(i + 1))
Alternates == \A i \in 1..Len(frames) + 1, l \in 1..Len(frames) + 1 :
    l <= i => (Turn(l) = Turn(i) <=> (i - l) % 2 = 0)

(* A counter reaches back as far as every move of its side gave check. *)
CountsAt(i) ==
    \A c \in Colors : \A l \in 1..i - 1 :
        Turn(l) = c => ((\A j \in l..i - 1 : Turn(j) = c => Gave(j)) <=> StateAt(i)[3][c] >= i - l)
CountsAll == \A i \in 1..Len(frames) + 1 : CountsAt(i)

PlayInv == Shape /\ SoundAll /\ LinkedAll /\ Alternates /\ CountsAll

LEMMA PlayInvInit == Init => PlayInv
<1> SUFFICES ASSUME Init PROVE PlayInv
  OBVIOUS
<1>1. frames = <<>> /\ history = <<>> /\ Len(frames) = 0 /\ Len(history) = 0
  BY DEF Init
<1>2. Shape
  <2>1. <<>> \in Seq({})
    OBVIOUS
  <2> QED BY <1>1, <2>1 DEF Shape, IsSeq
<1>3. StateAt(1) = <<pos, hash, checks>>
  BY <1>1 DEF StateAt
<1>4. SoundState(<<pos, hash, checks>>)
  <2>1. PICK start \in Starts : pos = start.pos
    BY DEF Init
  <2>2. IsPosition(pos) /\ ~KingAttacked(pos, Opp(pos.turn))
    BY <2>1, StartsAssumption
  <2>3. hash = ComputeHash(pos) /\ checks = [c \in Colors |-> 0]
    BY DEF Init
  <2>4. checks \in [Colors -> Nat] /\ \A c \in Colors : checks[c] % 2 = 0
    BY <2>3
  <2> QED BY <2>2, <2>3, <2>4 DEF SoundState
<1>5. SoundAll
  BY <1>1, <1>3, <1>4 DEF SoundAll
<1>6. LinkedAll
  BY <1>1 DEF LinkedAll
<1>7. Alternates
  BY <1>1 DEF Alternates
<1>8. CountsAll
  BY <1>1 DEF CountsAll, CountsAt
<1> QED BY <1>2, <1>5, <1>6, <1>7, <1>8 DEF PlayInv

(* The board now is the last state. *)
LEMMA Now ==
    ASSUME PlayInv
    PROVE  /\ Len(frames) \in Nat /\ StateAt(Len(frames) + 1) = <<pos, hash, checks>>
           /\ SoundState(<<pos, hash, checks>>)
           /\ IsPosition(pos) /\ ~KingAttacked(pos, Opp(pos.turn)) /\ hash = ComputeHash(pos)
           /\ checks \in [Colors -> Nat] /\ \A c \in Colors : checks[c] % 2 = 0
           /\ pos.turn \in Colors
<1>1. Len(frames) \in Nat
  BY SeqAppend DEF PlayInv, Shape
<1>2. StateAt(Len(frames) + 1) = <<pos, hash, checks>>
  BY DEF StateAt
<1>3. SoundState(<<pos, hash, checks>>)
  BY <1>1, <1>2 DEF PlayInv, SoundAll
<1>4. /\ IsPosition(pos) /\ ~KingAttacked(pos, Opp(pos.turn)) /\ hash = ComputeHash(pos)
      /\ checks \in [Colors -> Nat] /\ \A c \in Colors : checks[c] % 2 = 0
  BY <1>3 DEF SoundState
<1> QED BY <1>1, <1>2, <1>3, <1>4 DEF IsPosition

LEMMA DoMoveStates ==
    ASSUME PlayInv, NEW m, DoMove(m)
    PROVE  LET N == Len(frames) + 1 IN
           /\ N \in Nat \ {0} /\ Len(frames') = N /\ Len(history') = N
           /\ Shape'
           /\ \A i \in 1..N : StateAt(i)' = StateAt(i)
           /\ \A i \in Nat : i = N + 1 => StateAt(i)' = <<pos', hash', checks'>>
           /\ \A i \in 1..N - 1 : frames'[i] = frames[i] /\ history'[i] = history[i]
           /\ frames'[N].move = m /\ frames'[N].undo = UndoOf(pos, hash, checks, m)
           /\ history'[N] = [hash |-> hash, hand |-> pos.hand]
<1> DEFINE N == Len(frames) + 1
           undo == UndoOf(pos, hash, checks, m)
           f == [move |-> m, undo |-> undo, before |-> <<pos, hash, checks>>]
           e == [hash |-> hash, hand |-> pos.hand]
<1>1. frames' = Append(frames, f) /\ history' = Append(history, e)
  BY DEF DoMove, UndoOf
<1>2. IsSeq(frames) /\ IsSeq(history) /\ Len(history) = Len(frames)
  BY DEF PlayInv, Shape
<1>3. f.move = m /\ f.undo = undo /\ f.before = <<pos, hash, checks>>
  OBVIOUS
<1> HIDE DEF f, e, undo
<1>4. /\ IsSeq(frames') /\ Len(frames') = N /\ N \in Nat \ {0} /\ frames'[N] = f
      /\ \A i \in 1..N - 1 : frames'[i] = frames[i]
  BY <1>1, <1>2, SeqAppend
<1>5. /\ IsSeq(history') /\ Len(history') = N /\ history'[N] = e
      /\ \A i \in 1..N - 1 : history'[i] = history[i]
  BY <1>1, <1>2, SeqAppend
<1>6. Shape'
  BY <1>4, <1>5 DEF Shape
<1>7. ASSUME NEW i \in 1..N PROVE StateAt(i)' = StateAt(i)
  <2>1. StateAt(i)' = frames'[i].before
    <3>1. i # N + 1
      BY <1>4
    <3> QED BY <3>1, <1>4 DEF StateAt
  <2>2. CASE i = N
    BY <2>1, <2>2, <1>3, <1>4 DEF StateAt
  <2>3. CASE i # N
    BY <2>1, <2>3, <1>4 DEF StateAt
  <2> QED BY <2>2, <2>3
<1>8. ASSUME NEW i \in Nat, i = N + 1 PROVE StateAt(i)' = <<pos', hash', checks'>>
  BY <1>4, <1>8 DEF StateAt
<1> QED BY <1>3, <1>4, <1>5, <1>6, <1>7, <1>8 DEF undo, e

(* What a move does to the board by itself. *)
LEMMA DoMoveBoard ==
    ASSUME PlayInv, NEW m \in SafeMoves(pos), DoMove(m)
    PROVE  /\ Playable(pos, m) /\ pos' = After(pos, m) /\ pos'.turn = Opp(pos.turn)
           /\ SoundState(<<pos', hash', checks'>>)
           /\ checks'[Opp(pos.turn)] = checks[Opp(pos.turn)]
           /\ checks'[pos.turn] = IF KingAttacked(pos', pos'.turn) THEN checks[pos.turn] + 2 ELSE 0
<1>1. /\ IsPosition(pos) /\ ~KingAttacked(pos, Opp(pos.turn)) /\ hash = ComputeHash(pos)
      /\ checks \in [Colors -> Nat] /\ \A c \in Colors : checks[c] % 2 = 0
      /\ pos.turn \in Colors
  BY Now
<1>2. Playable(pos, m)
  BY <1>1, MoveIsPlayable
<1>3. /\ pos' = After(pos, m) /\ hash' = HashAfter(pos, hash, m)
      /\ checks' = [checks EXCEPT ![pos.turn] =
                      IF InCheck(pos', Opp(pos.turn)) THEN checks[pos.turn] + 2 ELSE 0]
  BY DEF DoMove
<1>4. pos'.turn = Opp(pos.turn) /\ IsPosition(pos')
  BY <1>1, <1>2, <1>3, PiecesAfter, AfterIsPosition
<1>5. hash' = ComputeHash(pos')
  BY <1>1, <1>2, <1>3, HashStep
<1>6. ~KingAttacked(pos', Opp(pos'.turn))
  <2>1. Opp(pos'.turn) = pos.turn
    BY <1>1, <1>4, OppFacts
  <2> QED BY <2>1, <1>3 DEF SafeMoves
<1>7. InCheck(pos', Opp(pos.turn)) <=> KingAttacked(pos', pos'.turn)
  BY <1>1, <1>4, OppFacts, CheckIsAttack
<1>8. checks' \in [Colors -> Nat] /\ \A c \in Colors : checks'[c] % 2 = 0
  <2>1. PICK k \in Nat : k = (IF InCheck(pos', Opp(pos.turn)) THEN checks[pos.turn] + 2 ELSE 0) /\ k % 2 = 0
    BY <1>1
  <2>2. checks' = [checks EXCEPT ![pos.turn] = k]
    BY <1>3, <2>1
  <2> QED BY <1>1, <2>1, <2>2
<1>9. /\ checks'[Opp(pos.turn)] = checks[Opp(pos.turn)]
      /\ checks'[pos.turn] = IF KingAttacked(pos', pos'.turn) THEN checks[pos.turn] + 2 ELSE 0
  BY <1>1, <1>3, <1>7, OppFacts
<1>10. SoundState(<<pos', hash', checks'>>)
  BY <1>4, <1>5, <1>6, <1>8 DEF SoundState
<1> QED BY <1>2, <1>3, <1>4, <1>9, <1>10

LEMMA DoMoveKeeps ==
    ASSUME PlayInv, NEW m \in SafeMoves(pos), DoMove(m)
    PROVE  PlayInv'
<1> DEFINE n == Len(frames)
<1>1. PICK N \in Nat \ {0} : N = n + 1
  BY Now
<1>2. /\ Len(frames') = N /\ Len(history') = N /\ Shape'
      /\ \A i \in 1..N : StateAt(i)' = StateAt(i)
      /\ StateAt(N + 1)' = <<pos', hash', checks'>>
      /\ \A i \in 1..N - 1 : frames'[i] = frames[i] /\ history'[i] = history[i]
      /\ frames'[N].move = m /\ frames'[N].undo = UndoOf(pos, hash, checks, m)
      /\ history'[N] = [hash |-> hash, hand |-> pos.hand]
  BY <1>1, DoMoveStates
<1>3. /\ Playable(pos, m) /\ pos' = After(pos, m) /\ pos'.turn = Opp(pos.turn)
      /\ SoundState(<<pos', hash', checks'>>)
      /\ checks'[Opp(pos.turn)] = checks[Opp(pos.turn)]
      /\ checks'[pos.turn] = IF KingAttacked(pos', pos'.turn) THEN checks[pos.turn] + 2 ELSE 0
  BY DoMoveBoard
<1>4. StateAt(N) = <<pos, hash, checks>> /\ n \in Nat
  BY <1>1, Now
<1>5. /\ \A i \in 1..N : SoundState(StateAt(i))
      /\ \A i \in 1..N - 1 : LinkedBy(StateAt(i), frames[i].move, frames[i].undo, history[i], StateAt(i + 1))
      /\ \A i \in 1..N, l \in 1..N : l <= i => (Turn(l) = Turn(i) <=> (i - l) % 2 = 0)
      /\ \A i \in 1..N : CountsAt(i)
  BY <1>1, <1>4 DEF PlayInv, SoundAll, LinkedAll, Alternates, CountsAll
<1>6. \A i \in 1..N + 1 : i \in 1..N \/ i = N + 1
  OBVIOUS
<1>7. SoundAll'
  <2>1. \A i \in 1..N + 1 : SoundState(StateAt(i)')
    BY <1>2, <1>3, <1>5, <1>6
  <2> QED BY <2>1, <1>2 DEF SoundAll
<1>8. LinkedAll'
  <2>1. ASSUME NEW i \in 1..N
        PROVE  LinkedBy(StateAt(i), frames'[i].move, frames'[i].undo, history'[i], StateAt(i + 1)')
    <3>1. CASE i = N
      <4>1. LinkedBy(<<pos, hash, checks>>, m, UndoOf(pos, hash, checks, m),
                     [hash |-> hash, hand |-> pos.hand], <<pos', hash', checks'>>)
        BY <1>3 DEF LinkedBy
      <4> QED BY <4>1, <3>1, <1>2, <1>4
    <3>2. CASE i # N
      <4>1. i \in 1..N - 1 /\ i + 1 \in 1..N
        BY <3>2
      <4> QED BY <4>1, <1>2, <1>5
    <3> QED BY <3>1, <3>2
  <2> QED BY <2>1, <1>2 DEF LinkedAll
<1>9. /\ \A i \in 1..N : Turn(i)' = Turn(i)
      /\ Turn(N + 1)' = Opp(Turn(N)) /\ Turn(N) = pos.turn
  BY <1>2, <1>3, <1>4 DEF Turn, PosAt
<1>10. \A i \in 1..N : Turn(i) \in Colors
  BY <1>5 DEF SoundState, IsPosition, Turn, PosAt
<1>11. Alternates'
  <2>1. ASSUME NEW i \in 1..N + 1, NEW l \in 1..N + 1, l <= i
        PROVE  Turn(l)' = Turn(i)' <=> (i - l) % 2 = 0
    <3>1. CASE i # N + 1
      BY <2>1, <3>1, <1>5, <1>9
    <3>2. CASE i = N + 1 /\ l = i
      BY <3>2
    <3>3. CASE i = N + 1 /\ l # i
      <4>1. Turn(l) = Turn(N) <=> (N - l) % 2 = 0
        BY <3>3, <2>1, <1>5
      <4>2. Turn(l)' = Turn(i)' <=> Turn(l) # Turn(N)
        BY <3>3, <2>1, <1>9, <1>10, OppFacts
      <4> QED BY <4>1, <4>2, <3>3
    <3> QED BY <3>1, <3>2, <3>3
  <2> QED BY <2>1, <1>2 DEF Alternates
<1>12. /\ \A j \in 1..N - 1 : Gave(j)' = Gave(j)
       /\ Gave(N)' = KingAttacked(pos', pos'.turn)
  <2>1. ASSUME NEW j \in 1..N - 1 PROVE Gave(j)' = Gave(j)
    <3>1. j + 1 \in 1..N
      OBVIOUS
    <3> QED BY <3>1, <1>2 DEF Gave, Turn, PosAt
  <2>2. Gave(N)' = KingAttacked(pos', pos'.turn)
    BY <1>2 DEF Gave, Turn, PosAt
  <2> QED BY <2>1, <2>2
<1>13. CountsAll'
  <2>1. ASSUME NEW i \in 1..N PROVE CountsAt(i)'
    <3>1. \A j \in 1..i - 1 : Turn(j)' = Turn(j) /\ Gave(j)' = Gave(j)
      BY <1>9, <1>12
    <3>2. StateAt(i)' = StateAt(i)
      BY <1>2
    <3>3. CountsAt(i)
      BY <1>5
    <3> QED BY <3>1, <3>2, <3>3 DEF CountsAt
  <2>2. CountsAt(N + 1)'
    <3> DEFINE T == [j \in 1..N |-> Turn(j)]
               G == [j \in 1..N |-> Gave(j)']
    <3>1. ASSUME NEW c \in Colors
          PROVE  \A l \in 1..N : Turn(l) = c =>
                   ((\A j \in l..N : Turn(j) = c => Gave(j)') <=> checks'[c] >= N + 1 - l)
      <4>1. /\ \A j \in 1..N : T[j] = Turn(j)
            /\ \A j \in 1..N : G[j] <=> Gave(j)'
        OBVIOUS
      <4> HIDE DEF T, G
      <4>2. checks[c] \in Nat /\ checks[c] % 2 = 0
        BY Now
      <4>3. checks'[c] = NextCount(N, T, G, c, checks[c])
        <5>1. T[N] = pos.turn /\ (G[N] <=> KingAttacked(pos', pos'.turn))
          BY <4>1, <1>9, <1>12
        <5>2. c = pos.turn \/ c = Opp(pos.turn)
          BY <1>9, <1>10, OppFacts
        <5>3. pos.turn # Opp(pos.turn)
          BY <1>9, <1>10, OppFacts
        <5> QED BY <5>1, <5>2, <5>3, <1>3 DEF NextCount
      <4>4. InTurns(N, T)
        BY <4>1, <1>5 DEF InTurns
      <4>5. CountsBack(N - 1, T, G, c, checks[c])
        <5>1. CountsAt(N) /\ StateAt(N)[3] = checks
          BY <1>4, <1>5
        <5>2. \A l \in 1..N - 1 : Turn(l) = c =>
                ((\A j \in l..N - 1 : Turn(j) = c => Gave(j)) <=> checks[c] >= N - l)
          BY <5>1 DEF CountsAt
        <5>3. \A j \in 1..N - 1 : T[j] = Turn(j) /\ (G[j] <=> Gave(j))
          BY <4>1, <1>12
        <5>4. \A l \in 1..N - 1 : (N - 1) + 1 - l = N - l
          OBVIOUS
        <5> QED BY <5>2, <5>3, <5>4 DEF CountsBack
      <4>6. CountsBack(N, T, G, c, checks'[c])
        BY <4>2, <4>3, <4>4, <4>5, CountStep
      <4> QED BY <4>1, <4>6 DEF CountsBack
    <3>2. (N + 1) - 1 = N /\ StateAt(N + 1)'[3] = checks'
      BY <1>2
    <3>3. ASSUME NEW c \in Colors, NEW l \in 1..(N + 1) - 1, Turn(l)' = c
          PROVE  (\A j \in l..(N + 1) - 1 : Turn(j)' = c => Gave(j)')
                   <=> StateAt(N + 1)'[3][c] >= (N + 1) - l
      <4>1. Turn(l) = c /\ l \in 1..N
        BY <3>2, <3>3, <1>9
      <4>2. \A j \in l..N : Turn(j)' = Turn(j)
        BY <1>9
      <4> QED BY <3>1, <3>2, <4>1, <4>2
    <3> QED BY <3>3 DEF CountsAt
  <2> QED BY <2>1, <2>2, <1>2, <1>6 DEF CountsAll
<1> QED BY <1>2, <1>7, <1>8, <1>11, <1>13 DEF PlayInv

LEMMA LastMove ==
    ASSUME PlayInv, frames # <<>>
    PROVE  LET n == Len(frames)
               s == frames[n].before
           IN  /\ n \in Nat \ {0} /\ StateAt(n) = s
               /\ SoundState(s) /\ Playable(s[1], frames[n].move)
               /\ LinkedBy(s, frames[n].move, frames[n].undo, history[n], <<pos, hash, checks>>)
               /\ Undone(frames[n].move, frames[n].undo) = s
<1> DEFINE n == Len(frames)
           s == frames[n].before
           m == frames[n].move
<1>1. n \in Nat \ {0}
  BY SeqFront DEF PlayInv, Shape
<1>2. n \in 1..n /\ n \in 1..n + 1 /\ n + 1 \in 1..n + 1 /\ n # n + 1
  BY <1>1
<1>3. StateAt(n) = s /\ StateAt(n + 1) = <<pos, hash, checks>>
  BY <1>2 DEF StateAt
<1>4. SoundState(s)
  BY <1>2, <1>3 DEF PlayInv, SoundAll
<1>5. LinkedBy(s, m, frames[n].undo, history[n], <<pos, hash, checks>>)
  BY <1>2, <1>3 DEF PlayInv, LinkedAll
<1> HIDE DEF s, m
<1>6. /\ s = <<s[1], s[2], s[3]>> /\ IsPosition(s[1]) /\ ~KingAttacked(s[1], Opp(s[1].turn))
      /\ s[3] \in [Colors -> Nat]
  BY <1>4 DEF SoundState
<1>7. /\ m \in SafeMoves(s[1]) /\ pos = After(s[1], m)
      /\ frames[n].undo = UndoOf(s[1], s[2], s[3], m)
      /\ checks[Opp(s[1].turn)] = s[3][Opp(s[1].turn)]
  BY <1>5 DEF LinkedBy
<1>8. Playable(s[1], m)
  BY <1>6, <1>7, MoveIsPlayable
<1>9. checks \in [Colors -> Nat]
  BY Now
<1>10. Undone(m, frames[n].undo) = <<s[1], s[2], s[3]>>
  <2>1. PICK p, h, cs : p = s[1] /\ h = s[2] /\ cs = s[3]
    OBVIOUS
  <2>2. /\ IsPosition(p) /\ Playable(p, m) /\ cs \in [Colors -> Nat] /\ pos = After(p, m)
        /\ checks[Opp(p.turn)] = cs[Opp(p.turn)]
    BY <1>6, <1>7, <1>8, <2>1
  <2>3. Undone(m, UndoOf(p, h, cs, m)) = <<p, h, cs>>
    BY <2>2, <1>9, TakenBack
  <2> QED BY <2>1, <2>3, <1>7
<1> QED BY <1>1, <1>3, <1>4, <1>5, <1>6, <1>8, <1>10 DEF s, m

LEMMA UndoMoveKeeps ==
    ASSUME PlayInv, UndoMove
    PROVE  PlayInv'
<1>1. frames # <<>>
  BY DEF UndoMove
<1>2. PICK n \in Nat \ {0} : n = Len(frames)
  BY <1>1, LastMove
<1>3. StateAt(n) = frames[n].before /\ Undone(frames[n].move, frames[n].undo) = StateAt(n)
      /\ SoundState(StateAt(n))
  BY <1>1, <1>2, LastMove
<1>4. <<pos', hash', checks'>> = StateAt(n)
  <2>1. StateAt(n) = <<StateAt(n)[1], StateAt(n)[2], StateAt(n)[3]>>
    BY <1>3 DEF SoundState
  <2>2. pos' = StateAt(n)[1] /\ hash' = StateAt(n)[2] /\ checks' = StateAt(n)[3]
    BY <1>2, <1>3 DEF UndoMove
  <2> QED BY <2>1, <2>2
<1>5. IsSeq(frames) /\ IsSeq(history) /\ Len(history) = n
  BY <1>2 DEF PlayInv, Shape
<1>6. history # <<>>
  BY <1>2, <1>5
<1>7. frames' = SubSeq(frames, 1, Len(frames) - 1) /\ history' = SubSeq(history, 1, Len(history) - 1)
  BY DEF UndoMove
<1>8. /\ IsSeq(frames') /\ Len(frames') = n - 1 /\ \A i \in 1..n - 1 : frames'[i] = frames[i]
      /\ IsSeq(history') /\ Len(history') = n - 1 /\ \A i \in 1..n - 1 : history'[i] = history[i]
  BY <1>1, <1>2, <1>5, <1>6, <1>7, SeqFront
<1>9. ASSUME NEW i \in 1..n PROVE StateAt(i)' = StateAt(i)
  <2>1. CASE i = n
    <3>1. StateAt(i)' = <<pos', hash', checks'>>
      BY <2>1, <1>8 DEF StateAt
    <3> QED BY <3>1, <2>1, <1>4
  <2>2. CASE i # n
    <3>1. i # n + 1 /\ i # (n - 1) + 1 /\ i \in 1..n - 1
      BY <2>2
    <3> QED BY <3>1, <1>2, <1>8 DEF StateAt
  <2> QED BY <2>1, <2>2
<1>10. /\ \A i \in 1..n : Turn(i)' = Turn(i)
       /\ \A i \in 1..n - 1 : Gave(i)' = Gave(i)
  <2>1. \A i \in 1..n : Turn(i)' = Turn(i)
    BY <1>9 DEF Turn, PosAt
  <2>2. ASSUME NEW i \in 1..n - 1 PROVE Gave(i)' = Gave(i)
    <3>1. i + 1 \in 1..n
      OBVIOUS
    <3> QED BY <3>1, <1>9 DEF Gave, Turn, PosAt
  <2> QED BY <2>1, <2>2
<1>11. /\ \A i \in 1..n : i \in 1..Len(frames) + 1
       /\ \A i \in 1..n - 1 : i \in 1..Len(frames) /\ i + 1 \in 1..n
       /\ Len(frames') + 1 = n
  BY <1>2, <1>8
<1>12. Shape'
  BY <1>8 DEF Shape
<1>13. SoundAll'
  <2>1. \A i \in 1..n : SoundState(StateAt(i)')
    BY <1>9, <1>11 DEF PlayInv, SoundAll
  <2> QED BY <2>1, <1>11 DEF SoundAll
<1>14. LinkedAll'
  <2>1. \A i \in 1..n - 1 :
          LinkedBy(StateAt(i), frames[i].move, frames[i].undo, history[i], StateAt(i + 1))
    BY <1>11 DEF PlayInv, LinkedAll
  <2>2. ASSUME NEW i \in 1..n - 1
        PROVE LinkedBy(StateAt(i), frames[i].move, frames[i].undo, history[i], StateAt(i + 1))'
    <3>1. StateAt(i)' = StateAt(i) /\ StateAt(i + 1)' = StateAt(i + 1)
      BY <1>9, <1>11
    <3> QED BY <3>1, <2>1, <1>8
  <2> QED BY <2>2, <1>8 DEF LinkedAll
<1>15. Alternates'
  <2>1. \A i \in 1..n, l \in 1..n : l <= i => (Turn(l) = Turn(i) <=> (i - l) % 2 = 0)
    BY <1>11 DEF PlayInv, Alternates
  <2> QED BY <2>1, <1>10, <1>11 DEF Alternates
<1>16. CountsAll'
  <2>1. ASSUME NEW i \in 1..n PROVE CountsAt(i)'
    <3>1. \A j \in 1..i - 1 : Turn(j)' = Turn(j) /\ Gave(j)' = Gave(j)
      BY <1>10
    <3>2. StateAt(i)' = StateAt(i)
      BY <1>9
    <3>3. CountsAt(i)
      BY <1>11 DEF PlayInv, CountsAll
    <3> QED BY <3>1, <3>2, <3>3 DEF CountsAt
  <2> QED BY <2>1, <1>11 DEF CountsAll
<1> QED BY <1>12, <1>13, <1>14, <1>15, <1>16 DEF PlayInv

(* Every state of the game, now and in the frames, is sound; each follows  *)
(* from the one before by a move, its UndoInfo and its history entry; the  *)
(* turns alternate; and the counters count (DoMove, UndoMove).             *)
THEOREM PlayInvHolds == PlaySpec => []PlayInv
<1>1. Init => PlayInv
  BY PlayInvInit
<1>2. PlayInv /\ [PlayNext]_vars => PlayInv'
  <2> SUFFICES ASSUME PlayInv, [PlayNext]_vars PROVE PlayInv'
    OBVIOUS
  <2>1. ASSUME NEW m \in SafeMoves(pos), DoMove(m) PROVE PlayInv'
    BY <2>1, DoMoveKeeps
  <2>2. CASE UndoMove
    BY <2>2, UndoMoveKeeps
  <2>3. CASE UNCHANGED vars
    BY <2>3 DEF vars, PlayInv, Shape, SoundAll, LinkedAll, Alternates, CountsAll, CountsAt, StateAt,
                PosAt, Turn, Gave
  <2> QED BY <2>1, <2>2, <2>3 DEF PlayNext
<1> QED BY <1>1, <1>2, PTL DEF PlaySpec

LEMMA UndoFollows == PlayInv => UndoRestores
BY LastMove DEF UndoRestores

LEMMA HashFollows == PlayInv => HashExact
<1> SUFFICES ASSUME PlayInv PROVE HashExact
  OBVIOUS
<1>1. hash = ComputeHash(pos) /\ IsPosition(pos)
  BY Now
<1>2. BoardKey(pos, hash) = ComputeHash([pos EXCEPT !.hand = NoHands])
  <2>1. \A x : x \in BoardKey(pos, hash) <=> x \in ComputeHash([pos EXCEPT !.hand = NoHands])
    BY <1>1, BoardKeyIs
  <2> QED BY <2>1 DEF BoardKey, Xor, ComputeHash
<1>3. ASSUME frames # <<>>
      PROVE  LET top == frames[Len(frames)]
             IN  BoardKeyAfter(top.before[1], top.before[2], top.move) = BoardKey(pos, hash)
  <2> DEFINE top == frames[Len(frames)]
             p == top.before[1]
  <2>1. SoundState(top.before) /\ Playable(p, top.move)
        /\ LinkedBy(top.before, top.move, top.undo, history[Len(frames)], <<pos, hash, checks>>)
    BY <1>3, LastMove
  <2>2. IsPosition(p) /\ top.before[2] = ComputeHash(p)
    BY <2>1 DEF SoundState
  <2>3. pos = After(p, top.move)
    BY <2>1 DEF LinkedBy
  <2> QED BY <1>1, <2>1, <2>2, <2>3, BoardKeyStep
<1> QED BY <1>1, <1>2, <1>3 DEF HashExact, NoHands

-----------------------------------------------------------------------------
(* The verdict on a repetition. *)

Entry == [hash |-> hash, hand |-> pos.hand]

(* The same entry in the history is the same position, an even number of   *)
(* plies ago and not two.                                                  *)
LEMMA SameEntry ==
    ASSUME PlayInv, NEW d \in 1..Len(frames)
    PROVE  Past(d) = pos <=> d >= 4 /\ d % 2 = 0 /\ history[Len(history) + 1 - d] = Entry
<1>1. PICK n \in Nat : n = Len(frames) /\ n = Len(history)
  BY Now DEF PlayInv, Shape
<1>2. PICK i \in 1..n : i = n + 1 - d
  BY <1>1
<1>3. StateAt(i) = frames[i].before /\ StateAt(n + 1) = <<pos, hash, checks>>
  BY <1>1, <1>2 DEF StateAt
<1>4. Past(d) = PosAt(i)
  BY <1>1, <1>2, <1>3 DEF Past, PosAt
<1>5. /\ SoundState(StateAt(i)) /\ IsPosition(PosAt(i))
      /\ history[i] = [hash |-> ComputeHash(PosAt(i)), hand |-> PosAt(i).hand]
  <2>1. SoundState(StateAt(i))
    BY <1>1, <1>2 DEF PlayInv, SoundAll
  <2>2. LinkedBy(StateAt(i), frames[i].move, frames[i].undo, history[i], StateAt(i + 1))
    BY <1>1, <1>2 DEF PlayInv, LinkedAll
  <2>3. history[i] = [hash |-> ComputeHash(PosAt(i)), hand |-> PosAt(i).hand]
    BY <2>1, <2>2 DEF SoundState, LinkedBy, PosAt
  <2>4. IsPosition(PosAt(i))
    BY <2>1 DEF SoundState, PosAt
  <2> QED BY <2>1, <2>3, <2>4
<1>6. IsPosition(pos) /\ hash = ComputeHash(pos)
  BY Now
<1>7. ASSUME PosAt(i) = pos PROVE d >= 4 /\ d % 2 = 0 /\ history[i] = Entry
  <2>1. history[i] = Entry
    BY <1>5, <1>6, <1>7 DEF Entry
  <2>2. d % 2 = 0
    <3>1. Turn(i) = Turn(n + 1)
      BY <1>3, <1>7 DEF Turn, PosAt
    <3>2. (n + 1 - i) % 2 = 0
      BY <3>1, <1>1, <1>2 DEF PlayInv, Alternates
    <3> QED BY <3>2, <1>2
  <2>3. d # 2
    <3>1. SUFFICES ASSUME d = 2 PROVE FALSE
      OBVIOUS
    <3>2. i = n - 1 /\ i + 1 = n /\ n \in 1..n + 1 /\ i \in 1..n + 1 /\ n \in 1..n
      BY <3>1, <1>2
    <3>3. SoundState(StateAt(n)) /\ IsPosition(PosAt(n)) /\ ~KingAttacked(PosAt(n), Opp(PosAt(n).turn))
          /\ ~KingAttacked(PosAt(i), Opp(PosAt(i).turn))
      BY <3>2, <1>1 DEF PlayInv, SoundAll, SoundState, PosAt
    <3>4. /\ frames[i].move \in SafeMoves(PosAt(i)) /\ PosAt(n) = After(PosAt(i), frames[i].move)
      BY <3>2, <1>1 DEF PlayInv, LinkedAll, LinkedBy, PosAt
    <3>5. /\ frames[n].move \in SafeMoves(PosAt(n)) /\ PosAt(n + 1) = After(PosAt(n), frames[n].move)
      BY <3>2, <1>1 DEF PlayInv, LinkedAll, LinkedBy, PosAt
    <3>6. PosAt(n + 1) = pos
      BY <1>3 DEF PosAt
    <3>7. Playable(PosAt(i), frames[i].move) /\ Playable(PosAt(n), frames[n].move)
      BY <3>3, <3>4, <3>5, <1>5, MoveIsPlayable
    <3>8. After(PosAt(n), frames[n].move) # PosAt(i)
      BY <3>4, <3>7, <1>5, TwoPlies
    <3> QED BY <3>5, <3>6, <3>8, <1>7
  <2> QED BY <2>1, <2>2, <2>3
<1>8. ASSUME history[i] = Entry PROVE PosAt(i) = pos
  <2>1. ComputeHash(PosAt(i)) = ComputeHash(pos) /\ PosAt(i).hand = pos.hand
    BY <1>5, <1>6, <1>8 DEF Entry
  <2> QED BY <2>1, <1>5, <1>6, HashTells
<1> QED BY <1>1, <1>2, <1>4, <1>7, <1>8

Perpetual(d, first) == \A j \in {i \in 1..d : i % 2 = first} : GaveCheck(j)

LEMMA Checkers ==
    ASSUME PlayInv, NEW d \in 1..Len(frames), d % 2 = 0
    PROVE  /\ Perpetual(d, 0) <=> checks[pos.turn] >= d
           /\ Perpetual(d, 1) <=> checks[Opp(pos.turn)] >= d
<1>1. PICK n \in Nat : n = Len(frames)
  BY Now
<1>2. /\ StateAt(n + 1) = <<pos, hash, checks>> /\ Turn(n + 1) = pos.turn
      /\ pos.turn \in Colors /\ checks \in [Colors -> Nat] /\ \A c \in Colors : checks[c] % 2 = 0
  BY <1>1, Now DEF Turn, PosAt
<1>3. ASSUME NEW j \in 1..n PROVE GaveCheck(j) <=> Gave(n + 1 - j)
  <2>1. Past(j - 1) = PosAt(n + 1 - j + 1)
    <3>1. CASE j = 1
      BY <3>1, <1>1, <1>2 DEF Past, PosAt
    <3>2. CASE j # 1
      <4>1. n + 1 - j + 1 # n + 1 /\ n + 1 - (j - 1) = n + 1 - j + 1 /\ j - 1 # 0
        BY <3>2
      <4> QED BY <4>1, <1>1 DEF Past, PosAt, StateAt
    <3> QED BY <3>1, <3>2
  <2> QED BY <2>1 DEF GaveCheck, Gave, Turn
<1>4. \A l \in 1..n : Turn(l) = pos.turn <=> (n + 1 - l) % 2 = 0
  BY <1>1, <1>2 DEF PlayInv, Alternates
<1>5. \A l \in 1..n : Turn(l) = Opp(pos.turn) <=> (n + 1 - l) % 2 # 0
  <2>1. ASSUME NEW l \in 1..n PROVE Turn(l) = Opp(pos.turn) <=> (n + 1 - l) % 2 # 0
    <3>1. l \in 1..Len(frames) + 1
      BY <1>1
    <3>2. SoundState(StateAt(l))
      BY <3>1 DEF PlayInv, SoundAll
    <3>3. IsPosition(PosAt(l))
      BY <3>2 DEF SoundState, PosAt
    <3>4. Turn(l) \in Colors
      BY <3>3 DEF IsPosition, Turn
    <3>5. Turn(l) = Opp(pos.turn) <=> ~(Turn(l) = pos.turn)
      BY <3>4, <1>2, OppFacts
    <3> QED BY <3>5, <1>4
  <2> QED BY <2>1
<1>6. \A c \in Colors : \A l \in 1..n :
        Turn(l) = c => ((\A j \in l..n : Turn(j) = c => Gave(j)) <=> checks[c] >= n + 1 - l)
  <2>1. PICK k \in Nat : k = n + 1
    BY <1>1
  <2>2. CountsAt(k)
    BY <2>1, <1>1 DEF PlayInv, CountsAll
  <2>3. k - 1 = n /\ StateAt(k)[3] = checks
    BY <2>1, <1>2
  <2>4. \A c \in Colors : \A l \in 1..k - 1 :
          Turn(l) = c => ((\A j \in l..k - 1 : Turn(j) = c => Gave(j)) <=> StateAt(k)[3][c] >= k - l)
    BY <2>2, Zenon DEF CountsAt
  <2> QED BY <2>1, <2>3, <2>4
<1>7. Perpetual(d, 0) <=> checks[pos.turn] >= d
  <2>1. PICK l \in 1..n : l = n + 1 - d
    BY <1>1
  <2>2. (\A j \in l..n : Turn(j) = pos.turn => Gave(j)) <=> checks[pos.turn] >= d
    <3>1. l \in 1..n /\ n + 1 - l = d /\ (n + 1 - l) % 2 = 0
      BY <2>1, <1>1
    <3>2. Turn(l) = pos.turn
      BY <3>1, <1>4
    <3>3. (\A j \in l..n : Turn(j) = pos.turn => Gave(j)) <=> checks[pos.turn] >= n + 1 - l
      BY <3>1, <3>2, <1>2, <1>6
    <3> QED BY <3>1, <3>3
  <2>3. ASSUME Perpetual(d, 0), NEW j \in l..n, Turn(j) = pos.turn PROVE Gave(j)
    <3>1. n + 1 - j \in 1..d /\ (n + 1 - j) % 2 = 0 /\ n + 1 - (n + 1 - j) = j /\ n + 1 - j \in 1..n
      BY <2>1, <2>3, <1>4
    <3> QED BY <3>1, <2>3, <1>3 DEF Perpetual
  <2>4. ASSUME \A j \in l..n : Turn(j) = pos.turn => Gave(j), NEW i \in 1..d, i % 2 = 0
        PROVE  GaveCheck(i)
    <3>1. n + 1 - i \in l..n /\ i \in 1..n /\ n + 1 - (n + 1 - i) = i
      BY <2>1, <1>1
    <3> QED BY <3>1, <2>4, <1>3, <1>4
  <2> QED BY <2>2, <2>3, <2>4 DEF Perpetual
<1>8. Perpetual(d, 1) <=> checks[Opp(pos.turn)] >= d
  <2>1. PICK l \in 1..n : l = n + 1 - (d - 1)
    BY <1>1
  <2>2. (\A j \in l..n : Turn(j) = Opp(pos.turn) => Gave(j)) <=> checks[Opp(pos.turn)] >= d - 1
    <3>1. l \in 1..n /\ n + 1 - l = d - 1 /\ (n + 1 - l) % 2 # 0
      BY <2>1, <1>1
    <3>2. Turn(l) = Opp(pos.turn) /\ Opp(pos.turn) \in Colors
      BY <3>1, <1>2, <1>5, OppFacts
    <3>3. (\A j \in l..n : Turn(j) = Opp(pos.turn) => Gave(j)) <=> checks[Opp(pos.turn)] >= n + 1 - l
      BY <3>1, <3>2, <1>6
    <3> QED BY <3>1, <3>3
  <2>3. checks[Opp(pos.turn)] >= d - 1 <=> checks[Opp(pos.turn)] >= d
    BY <1>2, OppFacts
  <2>4. ASSUME Perpetual(d, 1), NEW j \in l..n, Turn(j) = Opp(pos.turn) PROVE Gave(j)
    <3>1. n + 1 - j \in 1..d /\ (n + 1 - j) % 2 = 1 /\ n + 1 - (n + 1 - j) = j /\ n + 1 - j \in 1..n
      BY <2>1, <2>4, <1>5
    <3> QED BY <3>1, <2>4, <1>3 DEF Perpetual
  <2>5. ASSUME \A j \in l..n : Turn(j) = Opp(pos.turn) => Gave(j), NEW i \in 1..d, i % 2 = 1
        PROVE  GaveCheck(i)
    <3>1. n + 1 - i \in l..n /\ i \in 1..n /\ n + 1 - (n + 1 - i) = i
      BY <2>1, <2>5, <1>1
    <3> QED BY <3>1, <2>5, <1>3, <1>5
  <2> QED BY <2>2, <2>3, <2>4, <2>5 DEF Perpetual
<1> QED BY <1>7, <1>8

LEMMA DistancesBack ==
    ASSUME PlayInv
    PROVE  {d \in 4..Len(history) : d % 2 = 0 /\ history[Len(history) + 1 - d] = Entry}
           = {d \in 1..Len(frames) : Past(d) = pos}
<1>1. PICK n \in Nat : n = Len(frames) /\ n = Len(history)
  BY Now DEF PlayInv, Shape
<1>2. ASSUME NEW d \in 1..n PROVE Past(d) = pos <=> d >= 4 /\ d % 2 = 0 /\ history[n + 1 - d] = Entry
  BY <1>1, SameEntry
<1>3. ASSUME NEW d \in 4..n, d % 2 = 0, history[n + 1 - d] = Entry PROVE d \in 1..n /\ Past(d) = pos
  <2>1. d \in 1..n /\ d >= 4
    OBVIOUS
  <2> QED BY <2>1, <1>2, <1>3
<1>4. ASSUME NEW d \in 1..n, Past(d) = pos PROVE d \in 4..n /\ d % 2 = 0 /\ history[n + 1 - d] = Entry
  <2>1. d >= 4 /\ d % 2 = 0 /\ history[n + 1 - d] = Entry
    BY <1>2, <1>4
  <2> QED BY <2>1
<1>5. {d \in 4..n : d % 2 = 0 /\ history[n + 1 - d] = Entry} = {d \in 1..n : Past(d) = pos}
  BY <1>3, <1>4
<1> QED BY <1>5, <1>1

LEMMA RepetitionFollows == PlayInv => RepetitionExact
<1> SUFFICES ASSUME PlayInv PROVE RepetitionExact
  OBVIOUS
<1> DEFINE same == {d \in 1..Len(frames) : Past(d) = pos}
           d == CHOOSE e \in same : \A f \in same : e <= f
<1>1. {e \in 4..Len(history) : e % 2 = 0 /\ history[Len(history) + 1 - e] = Entry} = same
  BY DistancesBack
<1>2. CheckRepetition(0) = IF same = {} THEN <<0, "none">> ELSE <<d, Verdict(d)>>
  <2> DEFINE dists == {e \in 4..(IF 0 > 0 /\ 0 < Len(history) THEN 0 ELSE Len(history)) :
                         e % 2 = 0 /\ history[Len(history) + 1 - e] = [hash |-> hash, hand |-> pos.hand]}
             nearest == CHOOSE e \in dists : \A f \in dists : e <= f
  <2>1. CheckRepetition(0) = IF dists = {} THEN <<0, "none">> ELSE <<nearest, Verdict(nearest)>>
    BY Zenon DEF CheckRepetition
  <2>2. (IF 0 > 0 /\ 0 < Len(history) THEN 0 ELSE Len(history)) = Len(history)
    BY Z3
  <2>3. dists = same
    BY <1>1, <2>2 DEF Entry
  <2>4. nearest = d
    <3> HIDE DEF dists, same
    <3> QED BY <2>3
  <2> HIDE DEF dists, nearest, same, d
  <2> QED BY <2>1, <2>3, <2>4
<1>3. CASE same = {}
  BY <1>2, <1>3 DEF RepetitionExact
<1>4. CASE same # {}
  <2>1. d \in same
    <3>1. same \in SUBSET Nat
      OBVIOUS
    <3> HIDE DEF same
    <3>2. \E e \in same : \A f \in same : e <= f
      BY <3>1, <1>4, LeastNumber
    <3> QED BY <3>2
  <2>2. d \in 1..Len(frames)
    <3> HIDE DEF d
    <3> QED BY <2>1
  <2>3. d % 2 = 0
    <3>1. d \in {e \in 4..Len(history) : e % 2 = 0 /\ history[Len(history) + 1 - e] = Entry}
      BY <2>1, <1>1
    <3> HIDE DEF d
    <3> QED BY <3>1
  <2>4. /\ Perpetual(d, 0) <=> checks[pos.turn] >= d
        /\ Perpetual(d, 1) <=> checks[Opp(pos.turn)] >= d
    <3> HIDE DEF d
    <3> QED BY <2>2, <2>3, Checkers
  <2>5. Verdict(d) = IF Perpetual(d, 0) THEN "loss" ELSE IF Perpetual(d, 1) THEN "win" ELSE "draw"
    <3> HIDE DEF d
    <3> QED BY <2>4 DEF Verdict
  <2>6. CheckRepetition(0) = <<d, IF Perpetual(d, 0) THEN "loss"
                                  ELSE IF Perpetual(d, 1) THEN "win" ELSE "draw">>
    BY <1>2, <1>4, <2>5
  <2> QED BY <2>6, <1>4 DEF RepetitionExact, Perpetual
<1> QED BY <1>3, <1>4

(* UndoMove restores, from the UndoInfo alone, the position, the hash and  *)
(* the counters that DoMove changed, for any board, any moves within the   *)
(* rules and any number of them.                                           *)
THEOREM UndoIsExact == PlaySpec => []UndoRestores
BY PlayInvHolds, UndoFollows, PTL

(* The hash that DoMove keeps up is that of the position from scratch, and *)
(* BoardKeyAfter foretells the key without hands.                          *)
THEOREM HashIsExact == PlaySpec => []HashExact
BY PlayInvHolds, HashFollows, PTL

(* CheckRepetition finds the nearest earlier occurrence of the position,   *)
(* and its verdict from the counters is the rule's from the checks given.  *)
THEOREM RepetitionIsExact == PlaySpec => []RepetitionExact
BY PlayInvHolds, RepetitionFollows, PTL
=============================================================================

-------------------------- MODULE Recursion_proofs --------------------------
(***************************************************************************)
(* Induction and recursion over 0 .. N, in the first-order form the        *)
(* provers can instantiate: a set for the property, a function for the     *)
(* step.                                                                   *)
(***************************************************************************)
EXTENDS Lists, NaturalsInduction, WellFoundedInduction, TLAPS

\* A set that has 0 and with n - 1 always n has all of 0 .. N.
LEMMA RangeInduction ==
  ASSUME NEW N \in Nat, NEW S, 0 \in S, \A n \in 1 .. N : n - 1 \in S => n \in S
  PROVE  \A n \in 0 .. N : n \in S
<1> DEFINE rest == {n \in 0 .. N : n \notin S}
           Less == {ss \in Nat \X Nat : ss[1] < ss[2]}
<1>1. SUFFICES ASSUME rest # {} PROVE FALSE
  OBVIOUS
<1>2. rest \subseteq Nat
  OBVIOUS
<1>3. IsWellFoundedOn(Less, Nat)
  BY NatLessThanWellFounded DEF OpToRel
<1>4. \A x, y \in rest : y < x => <<y, x>> \in Less
  BY <1>2
<1>5. \A y \in rest : y \in 0 .. N /\ y \notin S
  OBVIOUS
<1>6. \A y \in 0 .. N : y \notin S => y \in rest
  OBVIOUS
<1> HIDE DEF Less, rest
<1>7. PICK x \in rest : \A y \in rest : ~ (<<y, x>> \in Less)
  BY <1>1, <1>2, <1>3, WFMin
<1>8. \A y \in rest : ~ (y < x)
  BY <1>4, <1>7, Zenon
<1>9. x \in 1 .. N /\ x - 1 \in 0 .. N /\ x - 1 < x
  BY <1>5
<1>10. x - 1 \in S
  BY <1>6, <1>8, <1>9
<1>11. QED
  BY <1>5, <1>9, <1>10

\* g starts at base and follows the step function F, which stays in A.
IsRun(g, N, A, base, F) ==
  /\ g \in [0 .. N -> A] /\ g[0] = base
  /\ \A n \in 1 .. N : g[n] = F[<<g[n - 1], n>>]

\* A step function has a run of any length.
LEMMA RangeRecursion ==
  ASSUME NEW N \in Nat, NEW A, NEW base \in A, NEW F \in [A \X (1 .. N) -> A]
  PROVE  \E g : IsRun(g, N, A, base, F)
<1> DEFINE run(g, m) == /\ g \in [0 .. m -> A] /\ g[0] = base
                        /\ \A n \in 1 .. m : g[n] = F[<<g[n - 1], n>>]
           S == {m \in 0 .. N : \E g : run(g, m)}
<1>1. 0 \in S
  <2>1. run([n \in 0 .. 0 |-> base], 0)
    OBVIOUS
  <2> HIDE DEF run
  <2>2. \E g : run(g, 0)
    BY <2>1
  <2>3. QED
    BY <2>2
<1>2. ASSUME NEW m \in 1 .. N, m - 1 \in S
      PROVE  m \in S
  <2>1. PICK g : run(g, m - 1)
    BY <1>2
  <2> DEFINE h == [n \in 0 .. m |-> IF n = m THEN F[<<g[m - 1], m>>] ELSE g[n]]
  <2>2. g[m - 1] \in A /\ F[<<g[m - 1], m>>] \in A
    BY <2>1
  <2>3. \A n \in 0 .. m - 1 : h[n] = g[n] /\ h[n] \in A
    BY <2>1
  <2>4. h[m] = F[<<g[m - 1], m>>] /\ DOMAIN h = 0 .. m
    OBVIOUS
  <2>5. h \in [0 .. m -> A]
    BY <2>1, <2>2
  <2> HIDE DEF h
  <2>6. \A n \in 1 .. m : h[n] = F[<<h[n - 1], n>>]
    <3>1. SUFFICES ASSUME NEW n \in 1 .. m PROVE h[n] = F[<<h[n - 1], n>>]
      OBVIOUS
    <3>2. n - 1 \in 0 .. m - 1
      OBVIOUS
    <3>3. CASE n = m
      BY <2>3, <2>4, <3>2, <3>3
    <3>4. CASE n # m
      <4>1. n \in 1 .. m - 1 /\ n \in 0 .. m - 1
        BY <3>4
      <4>2. QED
        BY <2>1, <2>3, <3>2, <4>1
    <3>5. QED
      BY <3>3, <3>4
  <2>7. run(h, m)
    BY <2>1, <2>3, <2>5, <2>6
  <2> HIDE DEF run
  <2>8. QED
    BY <2>7
<1> HIDE DEF S
<1>3. N \in S
  BY <1>1, <1>2, RangeInduction
<1>4. QED
  BY <1>3 DEF S, IsRun

-----------------------------------------------------------------------------
(* Sums.                                                                   *)

LEMMA SumsDefined ==
  ASSUME NEW s \in Seq(Int)
  PROVE  /\ PartialSums(s)[0] = 0
         /\ \A n \in 1 .. Len(s) : PartialSums(s)[n] = PartialSums(s)[n - 1] + s[n]
         /\ \A n \in 0 .. Len(s) : PartialSums(s)[n] \in Int
<1> DEFINE N == Len(s)
           F == [x \in Int \X (1 .. N) |-> x[1] + s[x[2]]]
           body(g) == [n \in 0 .. N |-> IF n = 0 THEN 0 ELSE g[n - 1] + s[n]]
           f == PartialSums(s)
<1>1. f = CHOOSE g : g = body(g)
  BY DEF PartialSums
<1>2. N \in Nat /\ \A n \in 1 .. N : s[n] \in Int
  OBVIOUS
<1>3. 0 \in 0 .. N /\ \A n \in 1 .. N : n \in 0 .. N /\ n # 0 /\ n - 1 \in 0 .. N
  BY <1>2
<1> HIDE DEF N
<1>4. F \in [Int \X (1 .. N) -> Int]
  BY <1>2
<1>5. \A a \in Int, n \in 1 .. N : F[<<a, n>>] = a + s[n]
  OBVIOUS
<1> HIDE DEF F
<1>6. PICK g : IsRun(g, N, Int, 0, F)
  <2>1. N \in Nat /\ 0 \in Int
    BY <1>2
  <2>2. QED
    BY <1>4, <2>1, RangeRecursion
<1>7. g = body(g)
  <2>1. \A n \in 1 .. N : g[n] = g[n - 1] + s[n]
    BY <1>3, <1>5, <1>6 DEF IsRun
  <2>2. \A n \in 0 .. N : g[n] = IF n = 0 THEN 0 ELSE g[n - 1] + s[n]
    BY <1>2, <1>6, <2>1 DEF IsRun
  <2>3. QED
    BY <1>6, <2>2 DEF IsRun
<1>8. f = body(f)
  BY <1>1, <1>7
<1> HIDE DEF f
<1>9. f[0] = 0 /\ \A n \in 1 .. N : f[n] = f[n - 1] + s[n]
  BY <1>3, <1>8
<1>10. \A n \in 0 .. N : f[n] \in Int
  <2> DEFINE S == {n \in 0 .. N : f[n] \in Int}
  <2>1. 0 \in S /\ \A n \in 1 .. N : n - 1 \in S => n \in S
    <3>1. 0 \in S
      BY <1>2, <1>9
    <3>2. ASSUME NEW n \in 1 .. N, n - 1 \in S
          PROVE  n \in S
      <4>1. n \in 0 .. N /\ f[n - 1] \in Int /\ s[n] \in Int
        BY <1>2, <1>3, <3>2
      <4>2. f[n] = f[n - 1] + s[n]
        BY <1>9
      <4>3. QED
        BY <4>1, <4>2
    <3>3. QED
      BY <3>1, <3>2
  <2> HIDE DEF S
  <2>2. \A n \in 0 .. N : n \in S
    BY <1>2, <2>1, RangeInduction
  <2>3. QED
    BY <2>2 DEF S
<1>11. QED
  BY <1>9, <1>10 DEF f, N

\* Sums of natural numbers grow.
LEMMA SumsGrow ==
  ASSUME NEW s \in Seq(Nat), NEW m \in 0 .. Len(s)
  PROVE  PartialSums(s)[m] <= Total(s)
<1> DEFINE N == Len(s)
           f == PartialSums(s)
           S == {k \in 0 .. N : k < m \/ f[m] <= f[k]}
<1>1. N \in Nat /\ \A n \in 1 .. N : s[n] \in Nat
  OBVIOUS
<1>2. s \in Seq(Int)
  BY <1>1
<1>3. /\ f[0] = 0 /\ \A n \in 1 .. N : f[n] = f[n - 1] + s[n]
      /\ \A n \in 0 .. N : f[n] \in Int
  BY <1>2, SumsDefined
<1>4. m \in 0 .. N
  OBVIOUS
<1> HIDE DEF f, N
<1>5. 0 \in S
  BY <1>1, <1>3, <1>4
<1>6. ASSUME NEW n \in 1 .. N, n - 1 \in S
      PROVE  n \in S
  <2>1. f[n] = f[n - 1] + s[n] /\ f[n - 1] \in Int /\ f[n] \in Int /\ s[n] \in Nat
        /\ f[m] \in Int /\ n \in 0 .. N /\ n - 1 \in 0 .. N
    BY <1>1, <1>3, <1>4
  <2>2. CASE n - 1 < m
    <3>1. n < m \/ n = m
      BY <1>1, <1>4, <2>2
    <3>2. QED
      BY <2>1, <3>1
  <2>3. CASE f[m] <= f[n - 1]
    BY <2>1, <2>3
  <2>4. QED
    BY <1>6, <2>2, <2>3
<1>7. N \in S
  <2>1. N \in 0 .. N
    BY <1>1
  <2> HIDE DEF S
  <2>2. QED
    BY <1>1, <1>5, <1>6, <2>1, RangeInduction
<1>8. f[m] <= f[N]
  BY <1>1, <1>3, <1>4, <1>7
<1>9. QED
  BY <1>8 DEF f, N, Total

-----------------------------------------------------------------------------
(* Picked elements.                                                        *)

LEMMA PicksDefined ==
  ASSUME NEW A, NEW s \in Seq(A), NEW I
  PROVE  /\ PartialPicks(s, I)[0] = <<>>
         /\ \A n \in 1 .. Len(s) :
              PartialPicks(s, I)[n] =
                IF n \in I THEN Append(PartialPicks(s, I)[n - 1], s[n])
                ELSE PartialPicks(s, I)[n - 1]
         /\ \A n \in 0 .. Len(s) : PartialPicks(s, I)[n] \in Seq(A)
<1> DEFINE N == Len(s)
           empty == <<>>
           As == Seq(A)
           F == [x \in As \X (1 .. N) |->
                   IF x[2] \in I THEN Append(x[1], s[x[2]]) ELSE x[1]]
           body(g) == [n \in 0 .. N |->
                         IF n = 0 THEN <<>>
                         ELSE IF n \in I THEN Append(g[n - 1], s[n]) ELSE g[n - 1]]
           f == PartialPicks(s, I)
<1>1. f = CHOOSE g : g = body(g)
  BY DEF PartialPicks
<1>2. N \in Nat /\ empty \in As
  OBVIOUS
<1>3. \A a \in As, n \in 1 .. N : Append(a, s[n]) \in As
  OBVIOUS
<1>4. 0 \in 0 .. N /\ \A n \in 1 .. N : n \in 0 .. N /\ n # 0 /\ n - 1 \in 0 .. N
  BY <1>2
<1> HIDE DEF As, N, empty
<1>5. F \in [As \X (1 .. N) -> As]
  BY <1>3
<1>6. \A a \in As, n \in 1 .. N :
        F[<<a, n>>] = IF n \in I THEN Append(a, s[n]) ELSE a
  OBVIOUS
<1> HIDE DEF F
<1>7. PICK g : IsRun(g, N, As, empty, F)
  <2>1. N \in Nat
    BY <1>2
  <2>2. empty \in As
    BY <1>2
  <2>3. QED
    BY <1>5, <2>1, <2>2, RangeRecursion
<1>8. g = body(g)
  <2>1. \A n \in 1 .. N : g[n] = IF n \in I THEN Append(g[n - 1], s[n]) ELSE g[n - 1]
    BY <1>4, <1>6, <1>7 DEF IsRun
  <2>2. g[0] = <<>> /\ \A n \in 0 .. N : n = 0 \/ n \in 1 .. N
    BY <1>2, <1>7 DEF empty, IsRun
  <2>3. \A n \in 0 .. N : g[n] = IF n = 0 THEN <<>> ELSE
                            IF n \in I THEN Append(g[n - 1], s[n]) ELSE g[n - 1]
    BY <2>1, <2>2
  <2>4. QED
    BY <1>7, <2>3 DEF IsRun
<1> HIDE DEF f
<1>9. f = body(f)
  BY <1>1, <1>8, Zenon
<1>10. \A n \in 0 .. N : f[n] = body(f)[n]
  BY <1>9
<1>11. f[0] = empty
  BY <1>4, <1>10 DEF empty
<1>12. \A n \in 1 .. N : f[n] = IF n \in I THEN Append(f[n - 1], s[n]) ELSE f[n - 1]
  BY <1>4, <1>10
<1>13. \A n \in 0 .. N : f[n] \in As
  <2> DEFINE S == {n \in 0 .. N : f[n] \in As}
  <2>1. 0 \in S /\ \A n \in 1 .. N : n - 1 \in S => n \in S
    BY <1>2, <1>3, <1>4, <1>11, <1>12
  <2> HIDE DEF S
  <2>2. \A n \in 0 .. N : n \in S
    BY <1>2, <2>1, RangeInduction
  <2>3. QED
    BY <2>2 DEF S
<1>14. QED
  BY <1>11, <1>12, <1>13 DEF f, N, As, empty

\* p holds the elements of s at the places pos: those among the first n that
\* are in I, in their order.
IsChoice(pos, p, s, n, I) ==
  /\ pos \in [DOMAIN p -> 1 .. n]
  /\ \A k \in DOMAIN p : pos[k] \in I /\ p[k] = s[pos[k]]
  /\ \A k, l \in DOMAIN p : k < l => pos[k] < pos[l]
  /\ \A i \in 1 .. n : i \in I => \E k \in DOMAIN p : pos[k] = i

LEMMA PickedPlaces ==
  ASSUME NEW A, NEW s \in Seq(A), NEW I
  PROVE  /\ Picked(s, I) \in Seq(A)
         /\ \E pos : IsChoice(pos, Picked(s, I), s, Len(s), I)
<1> DEFINE N == Len(s)
           f == PartialPicks(s, I)
           S == {n \in 0 .. N : \E pos : IsChoice(pos, f[n], s, n, I)}
<1>1. N \in Nat
  OBVIOUS
<1>2. f[0] = <<>>
  BY PicksDefined
<1>3. \A n \in 1 .. N : f[n] = IF n \in I THEN Append(f[n - 1], s[n]) ELSE f[n - 1]
  BY PicksDefined
<1>4. \A n \in 0 .. N : f[n] \in Seq(A)
  BY PicksDefined
<1> HIDE DEF f
<1>5. 0 \in S
  <2>1. IsChoice(<<>>, f[0], s, 0, I)
    BY <1>2 DEF IsChoice
  <2>2. QED
    BY <1>1, <2>1
<1>6. ASSUME NEW n \in 1 .. N, n - 1 \in S
      PROVE  n \in S
  <2>1. PICK pos : IsChoice(pos, f[n - 1], s, n - 1, I)
    BY <1>6
  <2>2. n \in 0 .. N /\ n - 1 \in Nat /\ n - 1 \in 0 .. N /\ s[n] \in A
    BY <1>1
  <2>3. CASE n \notin I
    <3>1. f[n] = f[n - 1]
      BY <1>3, <2>3
    <3>2. IsChoice(pos, f[n], s, n, I)
      BY <2>1, <2>2, <2>3, <3>1 DEF IsChoice
    <3>3. QED
      BY <2>2, <3>2
  <2>4. CASE n \in I
    <3> DEFINE old == f[n - 1]
               m == Len(old) + 1
               p == Append(old, s[n])
               new == [k \in 1 .. m |-> IF k = m THEN n ELSE pos[k]]
    <3>1. f[n] = p /\ old \in Seq(A)
      BY <1>3, <1>4, <2>2, <2>4
    <3>2. DOMAIN old = 1 .. Len(old) /\ Len(old) \in Nat /\ DOMAIN p = 1 .. m
      BY <2>2, <3>1
    <3>3. p[m] = s[n] /\ \A k \in DOMAIN old : p[k] = old[k]
      BY <2>2, <3>1, <3>2
    <3>4. IsChoice(pos, old, s, n - 1, I)
      BY <2>1
    <3> HIDE DEF old, p
    <3>5. m \in Nat /\ m \in 1 .. m /\ \A k \in 1 .. m : k # m => k \in DOMAIN old
      BY <3>2
    <3>6. new[m] = n /\ \A k \in DOMAIN old : new[k] = pos[k] /\ k \in 1 .. m /\ k < m
      BY <3>2
    <3>7. \A k \in DOMAIN old : pos[k] \in 1 .. n /\ pos[k] < n
      BY <2>2, <3>4 DEF IsChoice
    <3>8. new \in [1 .. m -> 1 .. n]
      BY <2>2, <3>5, <3>7
    <3> HIDE DEF new, m
    <3>9. \A k \in 1 .. m : new[k] \in I /\ p[k] = s[new[k]]
      BY <2>4, <3>3, <3>4, <3>5, <3>6 DEF IsChoice
    <3>10. \A k, l \in 1 .. m : k < l => new[k] < new[l]
      <4> SUFFICES ASSUME NEW k \in 1 .. m, NEW l \in 1 .. m, k < l
                   PROVE  new[k] < new[l]
        OBVIOUS
      <4>1. k # m /\ k \in DOMAIN old
        BY <3>5
      <4>2. CASE l = m
        BY <3>6, <3>7, <4>1, <4>2
      <4>3. CASE l # m
        BY <3>4, <3>5, <3>6, <4>1, <4>3 DEF IsChoice
      <4>4. QED
        BY <4>2, <4>3
    <3>11. \A i \in 1 .. n : i \in I => \E k \in 1 .. m : new[k] = i
      <4> SUFFICES ASSUME NEW i \in 1 .. n, i \in I
                   PROVE  \E k \in 1 .. m : new[k] = i
        OBVIOUS
      <4>1. CASE i = n
        BY <3>5, <3>6, <4>1
      <4>2. CASE i # n
        <5>1. i \in 1 .. n - 1
          BY <4>2
        <5>2. PICK k \in DOMAIN old : pos[k] = i
          BY <3>4, <5>1 DEF IsChoice
        <5>3. QED
          BY <3>6, <5>2
      <4>3. QED
        BY <4>1, <4>2
    <3>12. IsChoice(new, f[n], s, n, I)
      BY <3>1, <3>2, <3>8, <3>9, <3>10, <3>11 DEF IsChoice
    <3>13. QED
      BY <2>2, <3>12
  <2>5. QED
    BY <2>3, <2>4
<1>7. N \in S
  <2>1. N \in 0 .. N
    BY <1>1
  <2> HIDE DEF S
  <2>2. QED
    BY <1>1, <1>5, <1>6, <2>1, RangeInduction
<1>8. \E pos : IsChoice(pos, f[N], s, N, I)
  BY <1>7
<1>9. f[N] \in Seq(A)
  BY <1>1, <1>4
<1>10. QED
  BY <1>8, <1>9 DEF f, N, Picked

=============================================================================

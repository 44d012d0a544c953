----------------------------- MODULE Recursion -----------------------------
(***************************************************************************)
(* Facts about the loops of the models, written as recursive functions of  *)
(* the number of iterations: such a function exists, and what one          *)
(* iteration preserves holds after all of them.  Induction is stated over  *)
(* a set of numbers, for the provers to use it as a first-order fact.      *)
(***************************************************************************)
EXTENDS Loops, SequenceTheorems, WellFoundedInduction, TLAPS

(* A set that has zero and the successor of each of its numbers has them all. *)
LEMMA NatSetInduction ==
  ASSUME NEW T, 0 \in T, \A n \in Nat : n \in T => n + 1 \in T
  PROVE  Nat \subseteq T
<1> DEFINE Bad == Nat \ T
           Less == {ss \in Nat \X Nat : ss[1] < ss[2]}
<1>1. SUFFICES ASSUME Bad # {} PROVE FALSE  OBVIOUS
<1>2. IsWellFoundedOn(Less, Nat)  BY NatLessThanWellFounded DEF OpToRel
<1>3. PICK x \in Bad : \A y \in Bad : ~(<<y, x>> \in Less)
  <2> HIDE DEF Less
  <2>1. Bad \subseteq Nat OBVIOUS
  <2> HIDE DEF Bad
  <2> QED BY <1>1, <1>2, <2>1, WFMin
<1>4. x # 0 /\ x - 1 \in Nat OBVIOUS
<1>5. x - 1 \in Bad BY <1>4
<1>6. <<x - 1, x>> \in Less BY <1>4
<1> QED BY <1>3, <1>5, <1>6

(* The results of 0 to N iterations of a step from a first value *)
Iterations(S, init, N, step) ==
    {g \in [0 .. N -> S] : /\ g[0] = init
                           /\ \A n \in 1 .. N : g[n] = step[<<g[n - 1], n>>]}

LEMMA IterationsExist ==
  ASSUME NEW S, NEW init \in S, NEW N \in Nat, NEW step \in [S \X (1 .. N) -> S]
  PROVE  Iterations(S, init, N, step) # {}
<1> DEFINE T == {m \in Nat : m <= N => \E g : g \in Iterations(S, init, m, step)}
<1>1. 0 \in T
  <2>1. [n \in 0 .. 0 |-> init] \in Iterations(S, init, 0, step) BY DEF Iterations
  <2> QED BY <2>1
<1>2. ASSUME NEW m \in Nat, m \in T PROVE m + 1 \in T
  <2>1. SUFFICES ASSUME m + 1 <= N
                 PROVE  \E g : g \in Iterations(S, init, m + 1, step)
    OBVIOUS
  <2>2. PICK g : g \in Iterations(S, init, m, step) BY <1>2, <2>1
  <2> DEFINE h == [n \in 0 .. m + 1 |-> IF n <= m THEN g[n] ELSE step[<<g[m], m + 1>>]]
  <2> USE DEF Iterations
  <2>3. g[m] \in S /\ m + 1 \in 1 .. N BY <2>1, <2>2
  <2>4. step[<<g[m], m + 1>>] \in S BY <2>3
  <2>5. h \in [0 .. m + 1 -> S] BY <2>2, <2>4
  <2>6. h[0] = init BY <2>2
  <2>7. ASSUME NEW n \in 1 .. m + 1 PROVE h[n] = step[<<h[n - 1], n>>]
    <3>1. CASE n <= m
      <4>1. n \in 1 .. m /\ n - 1 \in 0 .. m + 1 /\ n - 1 <= m BY <3>1
      <4>2. h[n] = g[n] /\ h[n - 1] = g[n - 1] BY <4>1
      <4>3. g[n] = step[<<g[n - 1], n>>] BY <4>1, <2>2
      <4> QED BY <4>2, <4>3
    <3>2. CASE n = m + 1 BY <3>2
    <3> QED BY <3>1, <3>2
  <2>8. h \in Iterations(S, init, m + 1, step) BY <2>5, <2>6, <2>7
  <2> QED BY <2>8
<1> HIDE DEF T
<1>3. Nat \subseteq T BY <1>1, <1>2, NatSetInduction
<1>4. N \in T BY <1>3
<1> QED BY <1>4 DEF T

(* What the first value has, and each iteration preserves, all values have. *)
LEMMA IterationsStay ==
  ASSUME NEW S, NEW N \in Nat, NEW f, f[0] \in S,
         \A n \in 1 .. N : f[n - 1] \in S => f[n] \in S
  PROVE  \A n \in 0 .. N : f[n] \in S
<1> DEFINE T == {m \in Nat : m <= N => f[m] \in S}
<1>1. 0 \in T OBVIOUS
<1>2. ASSUME NEW m \in Nat, m \in T PROVE m + 1 \in T
  <2>1. SUFFICES ASSUME m + 1 <= N PROVE f[m + 1] \in S OBVIOUS
  <2>2. f[m] \in S BY <1>2, <2>1
  <2>3. m + 1 \in 1 .. N /\ (m + 1) - 1 = m BY <2>1
  <2> QED BY <2>2, <2>3
<1> HIDE DEF T
<1>3. Nat \subseteq T BY <1>1, <1>2, NatSetInduction
<1> QED BY <1>3 DEF T

(* As before, where what the values have depends on how many iterations there were *)
LEMMA IterationsAdvance ==
  ASSUME NEW S, NEW N \in Nat, NEW f, f[0] \in S[0],
         \A n \in 1 .. N : f[n - 1] \in S[n - 1] => f[n] \in S[n]
  PROVE  \A n \in 0 .. N : f[n] \in S[n]
<1> DEFINE T == {m \in Nat : m <= N => f[m] \in S[m]}
<1>1. 0 \in T OBVIOUS
<1>2. ASSUME NEW m \in Nat, m \in T PROVE m + 1 \in T
  <2>1. SUFFICES ASSUME m + 1 <= N PROVE f[m + 1] \in S[m + 1] OBVIOUS
  <2>2. f[m] \in S[m] BY <1>2, <2>1
  <2>3. m + 1 \in 1 .. N /\ (m + 1) - 1 = m BY <2>1
  <2> QED BY <2>2, <2>3
<1> HIDE DEF T
<1>3. Nat \subseteq T BY <1>1, <1>2, NatSetInduction
<1> QED BY <1>3 DEF T

(* A step that takes the values of each iteration to those of the next     *)
(* runs through all of them.                                               *)
Carries(All, N, S, init, step) ==
    /\ init \in S[0]
    /\ \A n \in 0 .. N : S[n] \subseteq All
    /\ \A n \in 1 .. N : \A s \in S[n - 1] : step[<<s, n>>] \in S[n]

Runs(All, N, S, init, step) ==
    {g \in [0 .. N -> All] :
        /\ g[0] = init
        /\ \A n \in 1 .. N : g[n] = step[<<g[n - 1], n>>]
        /\ \A n \in 0 .. N : g[n] \in S[n]}

LEMMA IterationsRun ==
  ASSUME NEW All, NEW N \in Nat, NEW S, NEW init, NEW step, Carries(All, N, S, init, step)
  PROVE  Runs(All, N, S, init, step) # {}
<1> USE DEF Carries
<1> DEFINE total == [p \in All \X (1 .. N) |-> IF p[1] \in S[p[2] - 1] THEN step[p] ELSE init]
<1>1. 0 \in 0 .. N /\ init \in All OBVIOUS
<1>2. \A n \in 1 .. N, s \in All :
        total[<<s, n>>] = IF s \in S[n - 1] THEN step[<<s, n>>] ELSE init
  OBVIOUS
<1>3. total \in [All \X (1 .. N) -> All]
  <2>1. \A n \in 1 .. N : n \in 0 .. N OBVIOUS
  <2>2. ASSUME NEW p \in All \X (1 .. N) PROVE (IF p[1] \in S[p[2] - 1] THEN step[p] ELSE init) \in All
    <3>1. PICK s \in All, n \in 1 .. N : p = <<s, n>> OBVIOUS
    <3>2. p[1] = s /\ p[2] = n BY <3>1
    <3>3. s \in S[n - 1] => step[<<s, n>>] \in S[n] BY <3>1
    <3> QED BY <1>1, <2>1, <3>1, <3>2, <3>3
  <2> QED BY <2>2
<1> HIDE DEF total
<1>4. PICK g \in Iterations(All, init, N, total) : TRUE BY <1>1, <1>3, IterationsExist
<1>5. g \in [0 .. N -> All] /\ g[0] = init /\ \A n \in 1 .. N : g[n] = total[<<g[n - 1], n>>]
  BY <1>4 DEF Iterations
<1>6. \A n \in 1 .. N : n - 1 \in 0 .. N /\ g[n - 1] \in All BY <1>5
<1>7. \A n \in 1 .. N : g[n - 1] \in S[n - 1] => g[n] = step[<<g[n - 1], n>>] BY <1>2, <1>5, <1>6
<1>8. \A n \in 1 .. N : g[n - 1] \in S[n - 1] => g[n] \in S[n] BY <1>7
<1>9. g[0] \in S[0] BY <1>5
<1>10. \A n \in 0 .. N : g[n] \in S[n] BY <1>8, <1>9, IterationsAdvance
<1>11. \A n \in 1 .. N : g[n] = step[<<g[n - 1], n>>] BY <1>6, <1>7, <1>10
<1> QED BY <1>5, <1>10, <1>11 DEF Runs

(* Among keeps the elements that are in the set, and their order. *)
Positions(list, kept, n, S) ==
    {g \in [1 .. Len(kept) -> 1 .. n] :
        /\ \A i, j \in 1 .. Len(kept) : i < j => g[i] < g[j]
        /\ \A i \in 1 .. Len(kept) : kept[i] = list[g[i]] /\ list[g[i]] \in S
        /\ \A k \in 1 .. n : list[k] \in S => \E i \in 1 .. Len(kept) : g[i] = k}

LEMMA AmongFacts ==
  ASSUME NEW A, NEW list \in Seq(A), NEW S
  PROVE  /\ Among(list, S) \in Seq(A)
         /\ Positions(list, Among(list, S), Len(list), S) # {}
<1> DEFINE N == Len(list)
           Step(kept, n) == IF list[n] \in S THEN Append(kept, list[n]) ELSE kept
           Loop(f) == f = [n \in 0 .. N |-> IF n = 0 THEN <<>> ELSE Step(f[n - 1], n)]
           kept == CHOOSE f : Loop(f)
           step == [p \in Seq(A) \X (1 .. N) |-> Step(p[1], p[2])]
           Right(n) == {q \in Seq(A) : Positions(list, q, n, S) # {}}
<1>1. N \in Nat /\ <<>> \in Seq(A) /\ \A n \in 1 .. N : list[n] \in A OBVIOUS
<1>2. \A q \in Seq(A), n \in 1 .. N : Step(q, n) \in Seq(A) BY <1>1
<1>3. ASSUME NEW n \in 1 .. N, NEW q \in Right(n - 1) PROVE Step(q, n) \in Right(n)
  <2>1. PICK g \in Positions(list, q, n - 1, S) : TRUE OBVIOUS
  <2>2. CASE list[n] \notin S
    <3>1. g \in Positions(list, q, n, S) BY <1>1, <2>1, <2>2 DEF Positions
    <3> QED BY <2>2, <3>1
  <2>3. CASE list[n] \in S
    <3> DEFINE r == Append(q, list[n])
               h == [i \in 1 .. Len(q) + 1 |-> IF i <= Len(q) THEN g[i] ELSE n]
    <3>1. /\ Len(q) \in Nat /\ r \in Seq(A) /\ Len(r) = Len(q) + 1 /\ r[Len(q) + 1] = list[n]
          /\ \A i \in 1 .. Len(q) : r[i] = q[i]
      BY <1>1
    <3> HIDE DEF r
    <3>2. g \in [1 .. Len(q) -> 1 .. n - 1] BY <2>1 DEF Positions
    <3>3. h \in [1 .. Len(r) -> 1 .. n] BY <3>1, <3>2
    <3>4. \A i \in 1 .. Len(q) : h[i] = g[i] /\ g[i] \in 1 .. n - 1 BY <3>1, <3>2
    <3>5. h[Len(q) + 1] = n BY <3>1
    <3> HIDE DEF h
    <3>6. \A i, j \in 1 .. Len(r) : i < j => h[i] < h[j]
      <4>1. ASSUME NEW i \in 1 .. Len(r), NEW j \in 1 .. Len(r), i < j PROVE h[i] < h[j]
        <5>1. i \in 1 .. Len(q) BY <3>1, <4>1
        <5>2. CASE j \in 1 .. Len(q) BY <2>1, <3>4, <4>1, <5>1, <5>2 DEF Positions
        <5>3. CASE j = Len(q) + 1 BY <3>4, <3>5, <5>1, <5>3
        <5> QED BY <3>1, <5>2, <5>3
      <4> QED BY <4>1
    <3>7. \A i \in 1 .. Len(r) : r[i] = list[h[i]] /\ list[h[i]] \in S
      BY <2>1, <2>3, <3>1, <3>4, <3>5 DEF Positions
    <3>8. \A k \in 1 .. n : list[k] \in S => \E i \in 1 .. Len(r) : h[i] = k
      <4>1. ASSUME NEW k \in 1 .. n, list[k] \in S PROVE \E i \in 1 .. Len(r) : h[i] = k
        <5>1. CASE k = n BY <3>1, <3>5, <5>1
        <5>2. CASE k # n
          <6>1. PICK i \in 1 .. Len(q) : g[i] = k BY <2>1, <4>1, <5>2 DEF Positions
          <6> QED BY <3>1, <3>4, <6>1
        <5> QED BY <5>1, <5>2
      <4> QED BY <4>1
    <3>9. h \in Positions(list, r, n, S) BY <3>3, <3>6, <3>7, <3>8 DEF Positions
    <3> QED BY <2>3, <3>1, <3>9 DEF r
  <2> QED BY <2>2, <2>3
<1>4. <<>> \in Right(0)
  <2>1. <<>> \in Positions(list, <<>>, 0, S) BY DEF Positions
  <2> QED BY <2>1
<1> HIDE DEF N, Right, Step
<1>5. step \in [Seq(A) \X (1 .. N) -> Seq(A)] BY <1>2
<1>6. \A q \in Seq(A), n \in 1 .. N : step[<<q, n>>] = Step(q, n) OBVIOUS
<1> HIDE DEF step
<1>7. Iterations(Seq(A), <<>>, N, step) # {} BY <1>1, <1>5, IterationsExist
<1>8. PICK g : Loop(g)
  <2>1. PICK g \in Iterations(Seq(A), <<>>, N, step) : TRUE BY <1>7
  <2>2. \A n \in 1 .. N : n - 1 \in 0 .. N BY <1>1
  <2>3. \A n \in 1 .. N : g[n] = Step(g[n - 1], n) BY <1>6, <2>2 DEF Iterations
  <2>4. Loop(g) BY <1>1, <2>3 DEF Iterations
  <2> QED BY <2>4
<1>9. Loop(kept) BY <1>8
<1> HIDE DEF kept
<1>10. kept[0] = <<>> BY <1>1, <1>9
<1>11. \A n \in 1 .. N : kept[n] = Step(kept[n - 1], n) BY <1>1, <1>9
<1> DEFINE F == [n \in Nat |-> Right(n)]
<1>12. F[0] = Right(0) /\ \A n \in 1 .. N : F[n] = Right(n) /\ F[n - 1] = Right(n - 1)
  BY <1>1
<1>13. F[N] = Right(N) BY <1>1
<1> HIDE DEF F
<1>14. \A n \in 0 .. N : kept[n] \in F[n]
  BY <1>1, <1>3, <1>4, <1>10, <1>11, <1>12, IterationsAdvance, ZenonT(60)
<1>15. kept[N] \in Right(N) BY <1>1, <1>13, <1>14
<1> QED BY <1>15 DEF Among, kept, N, Right, Step

(* In short, for lists without duplicates as for others *)
LEMMA AmongElements ==
  ASSUME NEW A, NEW list \in Seq(A), NEW S
  PROVE  /\ \A i \in 1 .. Len(Among(list, S)) :
                Among(list, S)[i] \in S /\ \E k \in 1 .. Len(list) : Among(list, S)[i] = list[k]
         /\ \A k \in 1 .. Len(list) : list[k] \in S =>
                \E i \in 1 .. Len(Among(list, S)) : Among(list, S)[i] = list[k]
<1> DEFINE q == Among(list, S)
<1>1. PICK g \in Positions(list, q, Len(list), S) : TRUE BY AmongFacts
<1> HIDE DEF q
<1>2. /\ \A i \in 1 .. Len(q) : q[i] \in S /\ \E k \in 1 .. Len(list) : q[i] = list[k]
      /\ \A k \in 1 .. Len(list) : list[k] \in S => \E i \in 1 .. Len(q) : q[i] = list[k]
  <2>1. \A i \in 1 .. Len(q) : g[i] \in 1 .. Len(list) /\ q[i] = list[g[i]] /\ list[g[i]] \in S
    BY <1>1 DEF Positions
  <2>2. \A k \in 1 .. Len(list) : list[k] \in S => \E i \in 1 .. Len(q) : g[i] = k
    BY <1>1 DEF Positions
  <2> QED BY <2>1, <2>2
<1> QED BY <1>2 DEF q
=============================================================================

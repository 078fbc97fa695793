--------------------------- MODULE GemmPhasesProofs ---------------------------
(***************************************************************************)
(* What the GEMM phases of a table launch keep, for every grid, plan,      *)
(* number of stages and number of streamed K tiles.                        *)
(*                                                                         *)
(* Walk     where the CTAs are: all have come to k barriers, nobody has    *)
(*          left more, and the arrival word counts the rest                *)
(* Written  the units of a phase that are over                             *)
(* Summing  the scratch of a split tile: who has published and counted,    *)
(*          and that nobody else uses the counter meanwhile                *)
(* Whole    tiles without splits                                           *)
(* Pipes    every stage of every CTA: the use its full barrier is in, the  *)
(*          copies on their way to it and what it holds, between phases,   *)
(*          at a barrier and inside a GEMM                                 *)
(***************************************************************************)
EXTENDS GemmPhases, FiniteSetTheorems, WellFoundedInduction, TLAPS

LEMMA DivMod ==
  ASSUME NEW w \in Nat \ {0}, NEW u \in Nat
  PROVE  /\ u % w \in 0 .. w - 1 /\ u \div w \in Nat
         /\ u = (u % w) + (u \div w) * w
<1>1. u % w \in 0 .. w - 1
  OBVIOUS
<1>2. u \div w \in Nat
  OBVIOUS
<1>3. u = (u % w) + (u \div w) * w
  OBVIOUS
<1>4. QED
  BY <1>1, <1>2, <1>3

LEMMA DivModOnce ==
  ASSUME NEW w \in Nat \ {0}, NEW r \in 0 .. w - 1, NEW i \in Nat
  PROVE  /\ r + i * w \in Nat
         /\ (r + i * w) % w = r
         /\ (r + i * w) \div w = i
<1>1. i * w \in Nat
  OBVIOUS
<1>2. PICK u \in Nat : u = r + i * w
  BY <1>1
<1>3. PICK q \in Nat : q = u \div w
  BY DivMod
<1>4. PICK m \in 0 .. w - 1 : m = u % w
  BY DivMod
<1>5. m + q * w = r + i * w
  BY <1>2, <1>3, <1>4, DivMod
<1>6. q = i
  <2>1. CASE q < i
    <3>1. PICK d \in Nat \ {0} : i = q + d
      BY <2>1
    <3>2. i * w = q * w + d * w /\ d * w >= w /\ q * w \in Nat /\ d * w \in Nat
      BY <3>1
    <3>3. QED
      BY <1>5, <3>2
  <2>2. CASE q > i
    <3>1. PICK d \in Nat \ {0} : q = i + d
      BY <2>2
    <3>2. q * w = i * w + d * w /\ d * w >= w /\ i * w \in Nat /\ d * w \in Nat
      BY <3>1
    <3>3. QED
      BY <1>5, <3>2
  <2>3. QED
    BY <2>1, <2>2
<1>7. m = r
  BY <1>1, <1>5, <1>6
<1>8. QED
  BY <1>2, <1>3, <1>4, <1>6, <1>7

LEMMA LeastNumber ==
  ASSUME NEW S \in SUBSET Nat, S # {}
  PROVE  Min(S) \in S /\ \A m \in S : Min(S) <= m
<1>1. PICK n \in S : \A m \in S : <<m, n>> \notin OpToRel(<, Nat)
  BY NatLessThanWellFounded, WFMin
<1>2. ASSUME NEW m \in S
      PROVE  n <= m
  <2>1. n \in Nat /\ m \in Nat
    OBVIOUS
  <2>2. ~ (m < n)
    BY <1>1, <2>1 DEF OpToRel
  <2>3. QED
    BY <2>1, <2>2
<1>3. QED
  BY <1>2 DEF Min

(* The numbers i with r + i * w < n are those below their number.          *)
LEMMA FirstNumbers ==
  ASSUME NEW w \in Nat \ {0}, NEW r \in Nat, NEW n \in Nat
  PROVE  LET D == {i \in 0 .. n : r + i * w < n}
         IN  /\ Cardinality(D) \in Nat
             /\ \A i \in Nat : r + i * w < n <=> i < Cardinality(D)
<1> DEFINE D == {i \in 0 .. n : r + i * w < n}
           Rest == {i \in Nat : ~ (r + i * w < n)}
<1>1. \A i \in Nat : i * w \in Nat /\ i * w >= i
  OBVIOUS
<1>2. n \in Rest
  BY <1>1
<1>3. PICK m \in Rest : \A i \in Rest : m <= i
  BY <1>2, LeastNumber
<1>4. ASSUME NEW i \in Nat
      PROVE  r + i * w < n <=> i < m
  <2>1. CASE i < m
    BY <1>3, <2>1
  <2>2. CASE i >= m
    <3>1. PICK d \in Nat : i = m + d
      BY <2>2
    <3>2. i * w = m * w + d * w /\ m * w \in Nat /\ d * w \in Nat
      BY <3>1
    <3>3. ~ (r + m * w < n)
      OBVIOUS
    <3>4. QED
      BY <3>2, <3>3, <2>2
  <2>3. QED
    BY <2>1, <2>2
<1>5. D = 0 .. m - 1
  <2>1. m <= n /\ m \in Nat
    BY <1>2, <1>3
  <2>2. \A i : i \in D <=> i \in 0 .. m - 1
    BY <1>4, <2>1
  <2>3. QED
    BY <2>2
<1>6. Cardinality(D) = m
  <2>1. m \in Nat /\ 0 \in Int /\ m - 1 \in Int
    OBVIOUS
  <2>2. Cardinality(0 .. m - 1) = IF 0 > m - 1 THEN 0 ELSE (m - 1) - 0 + 1
    BY <2>1, FS_Interval
  <2>3. (IF 0 > m - 1 THEN 0 ELSE (m - 1) - 0 + 1) = m
    BY <2>1
  <2>4. QED
    BY <1>5, <2>2, <2>3, Zenon
<1>7. QED
  BY <1>4, <1>6

-----------------------------------------------------------------------------
(* The intervals of the plan.                                              *)

Barrier(p) == Phases[p].barrier

LEMMA IntervalIs ==
  ASSUME NEW p \in Index
  PROVE  LET S == {q \in Index : q < p /\ Barrier(q)}
         IN  /\ Interval[p] = Cardinality(S) /\ IsFiniteSet(S) /\ Interval[p] \in Nat
<1> DEFINE S == {q \in Index : q < p /\ Barrier(q)}
<1>1. IsFiniteSet(Index)
  BY PhasesAssumption, FS_Interval
<1>2. IsFiniteSet(S)
  <2>1. S \in SUBSET Index
    OBVIOUS
  <2>2. QED
    BY <1>1, <2>1, FS_Subset
<1>3. Interval[p] = Cardinality(S)
  BY DEF Interval, Barrier
<1>4. QED
  BY <1>2, <1>3, FS_CardinalityType

LEMMA IntervalsGrow ==
  ASSUME NEW p \in Index, NEW q \in Index, p <= q
  PROVE  /\ Interval[p] <= Interval[q]
         /\ p < q /\ Barrier(p) => Interval[p] + 1 <= Interval[q]
<1> DEFINE S(r) == {x \in Index : x < r /\ Barrier(x)}
<1>1. p \in Nat /\ q \in Nat /\ \A x \in Index : x \in Nat
  BY PhasesAssumption
<1>2. S(p) \in SUBSET S(q)
  <2>1. \A x \in Index : x < p => x < q
    BY <1>1
  <2>2. QED
    BY <2>1
<1>3. /\ Interval[p] = Cardinality(S(p)) /\ IsFiniteSet(S(p)) /\ Interval[p] \in Nat
      /\ Interval[q] = Cardinality(S(q)) /\ IsFiniteSet(S(q)) /\ Interval[q] \in Nat
  BY IntervalIs
<1>4. Interval[p] <= Interval[q]
  <2>1. Cardinality(S(p)) <= Cardinality(S(q))
    BY <1>2, <1>3, FS_Subset
  <2>2. QED
    BY <1>3, <2>1
<1>5. ASSUME p < q, Barrier(p)
      PROVE  Interval[p] + 1 <= Interval[q]
  <2>1. p \notin S(p)
    BY <1>1
  <2>2. p \in S(q)
    BY <1>5
  <2>3. Cardinality(S(p) \cup {p}) = Cardinality(S(p)) + 1
    BY <1>3, <2>1, FS_AddElement
  <2>4. S(p) \cup {p} \in SUBSET S(q)
    BY <1>2, <2>2
  <2>5. Cardinality(S(p) \cup {p}) <= Cardinality(S(q))
    BY <1>3, <2>4, FS_Subset
  <2>6. QED
    BY <1>3, <2>3, <2>5
<1>6. QED
  BY <1>4, <1>5

LEMMA NextInterval ==
  ASSUME NEW p \in Index, p # Len(Phases)
  PROVE  /\ p + 1 \in Index
         /\ Interval[p + 1] = IF Barrier(p) THEN Interval[p] + 1 ELSE Interval[p]
<1> DEFINE S(r) == {x \in Index : x < r /\ Barrier(x)}
<1>1. p + 1 \in Index
  BY PhasesAssumption
<1>2. p \in Nat /\ \A x \in Index : x \in Nat
  BY PhasesAssumption
<1>3. /\ Interval[p] = Cardinality(S(p)) /\ IsFiniteSet(S(p)) /\ Interval[p] \in Nat
      /\ Interval[p + 1] = Cardinality(S(p + 1))
  BY <1>1, IntervalIs
<1>4. \A x \in Index : x < p + 1 <=> (x < p \/ x = p)
  BY <1>2
<1>5. CASE Barrier(p)
  <2>1. S(p + 1) = S(p) \cup {p}
    BY <1>4, <1>5
  <2>2. p \notin S(p)
    BY <1>2
  <2>3. Cardinality(S(p) \cup {p}) = Cardinality(S(p)) + 1
    BY <1>3, <2>2, FS_AddElement
  <2>4. QED
    BY <1>1, <1>3, <1>5, <2>1, <2>3
<1>6. CASE ~ Barrier(p)
  <2>1. S(p + 1) = S(p)
    BY <1>4, <1>6
  <2>2. QED
    BY <1>1, <1>3, <1>6, <2>1
<1>7. QED
  BY <1>5, <1>6

-----------------------------------------------------------------------------
(* The sums the code generator carries from phase to phase.                *)

(* Sums of a over the phases before, from where their interval opens, for  *)
(* the first n phases.                                                     *)
Tally(n, a, f) ==
  /\ f \in [1 .. n -> Nat]
  /\ \A i \in 1 .. n : f[i] = IF Opens(i) THEN 0 ELSE f[i - 1] + a[i - 1]

LEMMA TallyExists ==
  ASSUME NEW a, \A p \in Index : a[p] \in Nat
  PROVE  \E f : Tally(Len(Phases), a, f)
<1>1. PICK N \in Nat : N = Len(Phases) /\ Index = 1 .. N
  BY PhasesAssumption
<1> DEFINE S == {m \in 0 .. N : ~ \E f : Tally(m, a, f)}
<1>2. SUFFICES ASSUME S # {} PROVE FALSE
  <2>1. N \in 0 .. N
    OBVIOUS
  <2>2. QED
    BY <1>1, <2>1
<1>3. S \in SUBSET Nat
  OBVIOUS
<1>4. Min(S) \in S /\ \A k \in S : Min(S) <= k
  <2> HIDE DEF S
  <2>1. QED
    BY <1>2, <1>3, LeastNumber
<1>5. PICK m \in 0 .. N : /\ ~ \E f : Tally(m, a, f)
                          /\ \A k \in 0 .. N : (~ \E f : Tally(k, a, f)) => m <= k
  BY <1>4
<1>6. CASE m = 0
  <2>1. PICK f : f = [i \in 1 .. 0 |-> 0]
    OBVIOUS
  <2>2. Tally(0, a, f)
    BY <2>1 DEF Tally
  <2>3. QED
    BY <1>5, <1>6, <2>2
<1>7. CASE m # 0
  <2>1. PICK n \in Nat : n = m - 1
    BY <1>7
  <2>2. n \in 0 .. N /\ ~ (m <= n)
    BY <2>1
  <2>3. PICK f : Tally(n, a, f)
    BY <1>5, <2>2
  <2>4. PICK v \in Nat : v = IF Opens(m) THEN 0 ELSE f[n] + a[n]
    <3>1. CASE Opens(m)
      BY <3>1
    <3>2. CASE ~ Opens(m)
      <4>1. n \in 1 .. n /\ n \in Index
        BY <1>1, <1>5, <2>1, <3>2 DEF Opens
      <4>2. f[n] \in Nat /\ a[n] \in Nat
        BY <2>3, <4>1 DEF Tally
      <4>3. QED
        BY <3>2, <4>2
    <3>3. QED
      BY <3>1, <3>2
  <2>5. PICK h : h = [i \in 1 .. m |-> IF i = m THEN v ELSE f[i]]
    OBVIOUS
  <2>6. h[m] = v /\ \A i \in 1 .. n : i \in 1 .. m /\ h[i] = f[i]
    BY <1>7, <2>1, <2>5
  <2>7. \A i \in 1 .. m : i = m \/ i \in 1 .. n
    BY <2>1
  <2>8. \A i \in 1 .. n : f[i] \in Nat
    BY <2>3 DEF Tally
  <2>9. h \in [1 .. m -> Nat]
    BY <2>4, <2>5, <2>7, <2>8
  <2>10. ASSUME NEW i \in 1 .. m PROVE h[i] = IF Opens(i) THEN 0 ELSE h[i - 1] + a[i - 1]
    <3>1. CASE i = m
      <4>1. ~ Opens(m) => n \in 1 .. n
        BY <2>1, <1>7 DEF Opens
      <4>2. ~ Opens(m) => h[i - 1] = f[n] /\ i - 1 = n
        BY <2>1, <2>6, <3>1, <4>1
      <4>3. QED
        BY <2>4, <2>6, <3>1, <4>2
    <3>2. CASE i \in 1 .. n
      <4>1. f[i] = IF Opens(i) THEN 0 ELSE f[i - 1] + a[i - 1]
        BY <2>3, <3>2 DEF Tally
      <4>2. ~ Opens(i) => i - 1 \in 1 .. n
        BY <3>2 DEF Opens
      <4>3. QED
        BY <2>6, <3>2, <4>1, <4>2
    <3>3. QED
      BY <2>7, <3>1, <3>2
  <2>11. Tally(m, a, h)
    BY <2>9, <2>10 DEF Tally
  <2>12. QED
    BY <1>5, <2>11
<1>8. QED
  BY <1>6, <1>7

(* What a function defined by that recursion is.                           *)
LEMMA TallyIs ==
  ASSUME NEW a, \A p \in Index : a[p] \in Nat, NEW F,
         F = CHOOSE g : g = [p \in Index |-> IF Opens(p) THEN 0 ELSE g[p - 1] + a[p - 1]]
  PROVE  Tally(Len(Phases), a, F)
<1>1. PICK N \in Nat : N = Len(Phases) /\ Index = 1 .. N
  BY PhasesAssumption
<1>2. \E g : g = [p \in Index |-> IF Opens(p) THEN 0 ELSE g[p - 1] + a[p - 1]]
  <2>1. PICK f : Tally(N, a, f)
    BY <1>1, TallyExists
  <2>2. PICK h : h = [p \in Index |-> IF Opens(p) THEN 0 ELSE f[p - 1] + a[p - 1]]
    OBVIOUS
  <2>3. f = [p \in Index |-> f[p]] /\ \A p \in Index : f[p] = h[p]
    BY <1>1, <2>1, <2>2 DEF Tally
  <2>4. f = h
    BY <2>2, <2>3
  <2>5. f = [p \in Index |-> IF Opens(p) THEN 0 ELSE f[p - 1] + a[p - 1]]
    BY <2>2, <2>4
  <2>6. QED
    BY <2>5, Zenon
<1>3. F = [p \in Index |-> IF Opens(p) THEN 0 ELSE F[p - 1] + a[p - 1]]
  BY <1>2, Zenon
<1>4. PICK h : h = [p \in Index |-> IF Opens(p) THEN 0 ELSE F[p - 1] + a[p - 1]]
  OBVIOUS
<1>5. F = h
  BY <1>3, <1>4, Zenon
<1>6. \A p \in Index : F[p] = IF Opens(p) THEN 0 ELSE F[p - 1] + a[p - 1]
  BY <1>4, <1>5
<1>7. F = [p \in Index |-> F[p]]
  BY <1>4, <1>5
<1> DEFINE S == {p \in Index : F[p] \notin Nat}
<1>8. S = {}
  <2>1. SUFFICES ASSUME S # {} PROVE FALSE
    OBVIOUS
  <2>2. S \in SUBSET Nat
    BY <1>1
  <2>3. Min(S) \in S /\ \A k \in S : Min(S) <= k
    <3> HIDE DEF S
    <3>1. QED
      BY <2>1, <2>2, LeastNumber
  <2>4. PICK p \in Index : p = Min(S) /\ F[p] \notin Nat /\ \A k \in S : p <= k
    BY <2>3
  <2>5. ~ Opens(p)
    BY <1>6, <2>4
  <2>6. p - 1 \in Index /\ ~ (p <= p - 1)
    BY <1>1, <2>5 DEF Opens
  <2>7. F[p - 1] \in Nat
    BY <2>4, <2>6
  <2>8. F[p] = F[p - 1] + a[p - 1] /\ a[p - 1] \in Nat
    BY <1>6, <2>5, <2>6
  <2>9. QED
    BY SMTT(30), <2>4, <2>7, <2>8
<1>9. QED
  BY <1>1, <1>6, <1>7, <1>8 DEF Tally

LEMMA OffsetIs ==
  ASSUME NEW p \in Index
  PROVE  Units[p] \in Nat /\ Offset[p] \in Nat /\ Rotation[p] \in Cta
<1>1. \A q \in Index : Units[q] \in Nat
  BY PhasesAssumption DEF Units
<1>2. Offset = CHOOSE g : g = [q \in Index |-> IF Opens(q) THEN 0 ELSE g[q - 1] + Units[q - 1]]
  BY Zenon DEF Offset
<1>3. Tally(Len(Phases), Units, Offset)
  BY <1>1, <1>2, TallyIs
<1>4. Offset[p] \in Nat
  BY <1>3, PhasesAssumption DEF Tally
<1>5. PICK w \in Nat \ {0} : w = Workers
  BY GridAssumption
<1>6. PICK n \in Nat : n = Offset[p]
  BY <1>4
<1>7. n % w \in 0 .. w - 1
  OBVIOUS
<1>8. QED
  BY <1>1, <1>4, <1>5, <1>6, <1>7 DEF Rotation, Cta

LEMMA ScratchIs ==
  /\ \A p \in Index : /\ Scratch[p] \in Nat /\ SplitTiles[p] \in Nat
                      /\ Scratch[p] = IF Opens(p) THEN 0 ELSE Scratch[p - 1] + SplitTiles[p - 1]
  /\ \A p \in Index : \A t \in 0 .. Phases[p].tiles - 1 : Split(p) => Scratch[p] + t \in Counters
<1>1. \A p \in Index : SplitTiles[p] \in Nat
  BY PhasesAssumption DEF SplitTiles
<1>2. Scratch = CHOOSE g : g = [q \in Index |-> IF Opens(q) THEN 0 ELSE g[q - 1] + SplitTiles[q - 1]]
  BY Zenon DEF Scratch
<1>3. Tally(Len(Phases), SplitTiles, Scratch)
  BY <1>1, <1>2, TallyIs
<1>4. \A p \in Index : Scratch[p] \in Nat /\ Scratch[p] = IF Opens(p) THEN 0 ELSE Scratch[p - 1] + SplitTiles[p - 1]
  BY <1>3, PhasesAssumption DEF Tally
<1>5. ASSUME NEW p \in Index, NEW t \in 0 .. Phases[p].tiles - 1, Split(p)
      PROVE  Scratch[p] + t \in Counters
  <2>1. SplitTiles[p] = Phases[p].tiles /\ Phases[p].tiles \in Nat
    BY <1>5, PhasesAssumption DEF SplitTiles
  <2>2. Scratch[p] + t \in Scratch[p] .. Scratch[p] + SplitTiles[p] - 1
    BY <1>4, <2>1
  <2>3. QED
    BY <2>2 DEF Counters
<1>6. QED
  BY <1>1, <1>4, <1>5

(* A phase's part of the scratch ends before a later one's of its interval.*)
LEMMA ScratchApart ==
  ASSUME NEW q \in Index, NEW p \in Index, q < p, Interval[q] = Interval[p]
  PROVE  Scratch[q] + SplitTiles[q] <= Scratch[p]
<1>1. PICK N \in Nat : N = Len(Phases) /\ Index = 1 .. N
  BY PhasesAssumption
<1> DEFINE S == {r \in Index : q < r /\ Interval[q] = Interval[r] /\ ~ (Scratch[q] + SplitTiles[q] <= Scratch[r])}
<1>2. SUFFICES ASSUME S # {} PROVE FALSE
  OBVIOUS
<1>3. S \in SUBSET Nat
  BY <1>1
<1>4. Min(S) \in S /\ \A k \in S : Min(S) <= k
  <2> HIDE DEF S
  <2>1. QED
    BY <1>2, <1>3, LeastNumber
<1>5. PICK r \in Index : /\ q < r /\ Interval[q] = Interval[r]
                         /\ ~ (Scratch[q] + SplitTiles[q] <= Scratch[r])
                         /\ \A k \in S : r <= k
  BY <1>4
<1>6. q < r /\ Interval[q] = Interval[r] /\ ~ (Scratch[q] + SplitTiles[q] <= Scratch[r])
  BY <1>5
<1>7. PICK m \in Index : m = r - 1 /\ m # Len(Phases) /\ q <= m /\ r = m + 1
  BY <1>1, <1>6
<1>8. Interval[q] \in Nat /\ Interval[m] \in Nat /\ Interval[r] \in Nat
  BY IntervalIs
<1>9. Interval[q] <= Interval[m] /\ Interval[r] = IF Barrier(m) THEN Interval[m] + 1 ELSE Interval[m]
  BY <1>7, IntervalsGrow, NextInterval
<1>10. ~ Barrier(m) /\ Interval[q] = Interval[m]
  BY <1>8, <1>9, <1>6
<1>11. ~ Opens(r)
  <2>1. r # 1 /\ r - 1 = m
    BY <1>1, <1>7, <1>6
  <2>2. QED
    BY <1>10, <2>1 DEF Opens, Barrier
<1>12. Scratch[r] = Scratch[m] + SplitTiles[m] /\ Scratch[m] \in Nat /\ SplitTiles[m] \in Nat
       /\ Scratch[q] \in Nat /\ SplitTiles[q] \in Nat
  BY <1>7, <1>11, ScratchIs
<1>13. CASE q = m
  BY <1>12, <1>13, <1>6
<1>14. CASE q # m
  <2>1. m \notin S
    <3>1. ~ (r <= m)
      BY <1>1, <1>7
    <3>2. QED
      BY <1>5, <3>1
  <2>2. q < m
    BY <1>1, <1>7, <1>14
  <2>3. Scratch[q] + SplitTiles[q] <= Scratch[m]
    BY <1>10, <2>1, <2>2
  <2>4. QED
    BY <1>12, <1>6, <2>3
<1>15. QED
  BY <1>13, <1>14

-----------------------------------------------------------------------------
(* The units of a CTA.                                                     *)

LEMMA UnitNumbers ==
  ASSUME NEW p \in Index
  PROVE  /\ Units[p] \in Nat /\ Units[p] = Phases[p].tiles * Phases[p].splits
         /\ Rotation[p] \in 0 .. Workers - 1
BY OffsetIs DEF Units, Cta

LEMMA RotatedIs ==
  ASSUME NEW p \in Index
  PROVE  /\ \A c \in Cta : Rotated(c, p) \in 0 .. Workers - 1
         /\ \A c, d \in Cta : Rotated(c, p) = Rotated(d, p) => c = d
         /\ \A f \in 0 .. Workers - 1 : \E c \in Cta : Rotated(c, p) = f
<1>1. PICK w \in Nat \ {0} : w = Workers
  BY GridAssumption
<1>2. PICK r \in 0 .. w - 1 : r = Rotation[p]
  BY <1>1, UnitNumbers
<1>3. ASSUME NEW c \in 0 .. w - 1
      PROVE  (c + w - r) % w = IF c >= r THEN c - r ELSE c + w - r
  <2>1. CASE c >= r
    <3>1. c + w - r = (c - r) + 1 * w /\ c - r \in 0 .. w - 1
      BY <2>1
    <3>2. QED
      BY <2>1, <3>1, DivModOnce
  <2>2. CASE c < r
    <3>1. c + w - r = (c + w - r) + 0 * w /\ c + w - r \in 0 .. w - 1
      BY <2>2
    <3>2. QED
      BY <2>2, <3>1, DivModOnce
  <2>3. QED
    BY <2>1, <2>2
<1>4. \A c \in Cta : c \in 0 .. w - 1 /\ Rotated(c, p) = IF c >= r THEN c - r ELSE c + w - r
  BY <1>1, <1>2, <1>3 DEF Cta, Rotated
<1>5. \A c \in Cta : Rotated(c, p) \in 0 .. Workers - 1
  BY <1>1, <1>4
<1>6. ASSUME NEW c \in Cta, NEW d \in Cta, Rotated(c, p) = Rotated(d, p)
      PROVE  c = d
  <2>1. c \in 0 .. w - 1 /\ d \in 0 .. w - 1
    BY <1>4
  <2>2. (IF c >= r THEN c - r ELSE c + w - r) = (IF d >= r THEN d - r ELSE d + w - r)
    BY <1>4, <1>6
  <2>3. QED
    BY <2>1, <2>2
<1>7. ASSUME NEW f \in 0 .. Workers - 1
      PROVE  \E c \in Cta : Rotated(c, p) = f
  <2>1. CASE f + r < w
    <3>1. f + r \in Cta
      BY <1>1, <2>1 DEF Cta
    <3>2. f + r >= r /\ (f + r) - r = f
      BY <1>1
    <3>3. QED
      BY <1>4, <3>1, <3>2
  <2>2. CASE f + r >= w
    <3>1. f + r - w \in Cta
      BY <1>1, <2>2 DEF Cta
    <3>2. ~ (f + r - w >= r) /\ (f + r - w) + w - r = f
      BY <1>1
    <3>3. QED
      BY <1>4, <3>1, <3>2
  <2>3. QED
    BY <1>1, <2>1, <2>2
<1>8. QED
  BY <1>5, <1>6, <1>7

(* The CTA a unit is dealt to; the unit is its (u \div Workers)-th.         *)
Owner(p, u) == CHOOSE c \in Cta : Rotated(c, p) = u % Workers

LEMMA OwnerIs ==
  ASSUME NEW p \in Index, NEW u \in Nat
  PROVE  /\ Owner(p, u) \in Cta /\ u \div Workers \in Nat
         /\ Unit(Owner(p, u), p, u \div Workers) = u
<1>1. PICK w \in Nat \ {0} : w = Workers
  BY GridAssumption
<1>2. u % w \in 0 .. w - 1 /\ u \div w \in Nat /\ u = (u % w) + (u \div w) * w
  BY DivMod
<1>3. Owner(p, u) \in Cta /\ Rotated(Owner(p, u), p) = u % w
  BY <1>1, <1>2, RotatedIs DEF Owner
<1>4. QED
  BY <1>1, <1>2, <1>3 DEF Unit

LEMMA OwnerOnce ==
  ASSUME NEW p \in Index, NEW c \in Cta, NEW i \in Nat
  PROVE  /\ Unit(c, p, i) \in Nat
         /\ Owner(p, Unit(c, p, i)) = c /\ Unit(c, p, i) \div Workers = i
<1>1. PICK w \in Nat \ {0} : w = Workers
  BY GridAssumption
<1>2. PICK r \in 0 .. w - 1 : r = Rotated(c, p)
  BY <1>1, RotatedIs
<1>3. Unit(c, p, i) = r + i * w
  BY <1>1, <1>2 DEF Unit
<1>4. r + i * w \in Nat /\ (r + i * w) % w = r /\ (r + i * w) \div w = i
  BY DivModOnce
<1>5. Owner(p, Unit(c, p, i)) = c
  <2>1. Unit(c, p, i) % Workers = Rotated(c, p)
    BY <1>1, <1>2, <1>3, <1>4
  <2>2. \A d \in Cta : Rotated(d, p) = Unit(c, p, i) % Workers => d = c
    BY <2>1, RotatedIs
  <2>3. QED
    BY <2>1, <2>2 DEF Owner
<1>6. QED
  BY <1>1, <1>3, <1>4, <1>5

LEMMA UnitsOfIs ==
  ASSUME NEW p \in Index, NEW c \in Cta
  PROVE  /\ UnitsOf[c][p] \in Nat
         /\ \A i \in Nat : Unit(c, p, i) < Units[p] <=> i < UnitsOf[c][p]
<1>1. PICK w \in Nat \ {0} : w = Workers
  BY GridAssumption
<1>2. PICK r \in Nat : r = Rotated(c, p)
  BY <1>1, RotatedIs
<1>3. PICK n \in Nat : n = Units[p]
  BY UnitNumbers
<1>4. UnitsOf[c][p] = Cardinality({i \in 0 .. n : r + i * w < n})
  BY <1>1, <1>2, <1>3 DEF UnitsOf, Unit
<1>5. /\ UnitsOf[c][p] \in Nat
      /\ \A i \in Nat : r + i * w < n <=> i < UnitsOf[c][p]
  BY <1>4, FirstNumbers
<1>6. \A i \in Nat : Unit(c, p, i) = r + i * w
  BY <1>1, <1>2 DEF Unit
<1>7. QED
  BY <1>3, <1>5, <1>6

UnitOf(p, t, s) == t + s * Phases[p].tiles

LEMMA UnitOfIs ==
  ASSUME NEW p \in Index, NEW t \in 0 .. Phases[p].tiles - 1, NEW s \in Sums(p)
  PROVE  /\ UnitOf(p, t, s) \in 0 .. Units[p] - 1
         /\ TileOf(p, UnitOf(p, t, s)) = t /\ SplitOf(p, UnitOf(p, t, s)) = s
<1>1. PICK n \in Nat \ {0} : n = Phases[p].tiles
  BY PhasesAssumption
<1>2. PICK m \in Nat \ {0} : m = Phases[p].splits
  BY PhasesAssumption
<1>3. s \in 0 .. m - 1 /\ t \in 0 .. n - 1
  BY <1>1, <1>2 DEF Sums
<1>4. Units[p] = n * m
  BY <1>1, <1>2, UnitNumbers
<1>5. t + s * n < n * m
  <2>1. PICK d \in Nat : m = s + 1 + d
    BY <1>3
  <2>2. n * m = s * n + n + d * n /\ s * n \in Nat /\ d * n \in Nat
    BY <1>3, <2>1
  <2>3. QED
    BY <1>3, <2>2
<1>6. s \in Nat /\ t + s * n \in Nat /\ (t + s * n) % n = t /\ (t + s * n) \div n = s
  BY <1>3, DivModOnce
<1>7. n * m \in Nat
  OBVIOUS
<1>8. QED
  BY <1>1, <1>4, <1>5, <1>6, <1>7 DEF UnitOf, TileOf, SplitOf

LEMMA UnitIsOf ==
  ASSUME NEW p \in Index, NEW u \in 0 .. Units[p] - 1
  PROVE  /\ TileOf(p, u) \in 0 .. Phases[p].tiles - 1 /\ SplitOf(p, u) \in Sums(p)
         /\ u = UnitOf(p, TileOf(p, u), SplitOf(p, u))
<1>1. PICK n \in Nat : n = Phases[p].tiles
  BY PhasesAssumption
<1>2. PICK m \in Nat \ {0} : m = Phases[p].splits
  BY PhasesAssumption
<1>3. Units[p] = n * m /\ n * m \in Nat
  BY <1>1, <1>2, UnitNumbers
<1>4. u \in Nat /\ u < n * m
  BY <1>3
<1>5. n # 0
  <2>1. SUFFICES ASSUME n = 0 PROVE FALSE
    OBVIOUS
  <2>2. n * m = 0
    BY <2>1
  <2>3. QED
    BY <1>4, <2>2
<1>6. PICK t \in 0 .. n - 1 : t = u % n
  BY <1>4, <1>5, DivMod
<1>7. PICK s \in Nat : s = u \div n
  BY <1>4, <1>5, DivMod
<1>8. u = t + s * n
  BY <1>4, <1>5, <1>6, <1>7, DivMod
<1>9. s < m
  <2>1. SUFFICES ASSUME s >= m PROVE FALSE
    OBVIOUS
  <2>2. PICK d \in Nat : s = m + d
    BY <2>1
  <2>3. s * n = n * m + d * n /\ d * n \in Nat
    BY <2>2
  <2>4. QED
    BY <1>3, <1>4, <1>8, <2>3
<1>10. QED
  BY <1>1, <1>2, <1>6, <1>7, <1>8, <1>9 DEF UnitOf, TileOf, SplitOf, Sums

-----------------------------------------------------------------------------
(* Where the CTAs are.                                                     *)

(* The barriers a CTA has left, and those it has arrived at.               *)
LeftAt(c) == Interval[phase[c]] + (IF at[c] = "end" /\ Barrier(phase[c]) THEN 1 ELSE 0)
CameAt(c) == IF at[c] \in {"arrived", "wait"} THEN Interval[phase[c]] + 1 ELSE LeftAt(c)

(* All CTAs have come to k barriers and nobody has left more.              *)
Round(k) ==
  /\ \A c \in Cta : LeftAt(c) <= k /\ k <= CameAt(c)
  /\ arrivals = k * Workers + Cardinality({c \in Cta : CameAt(c) = k + 1})

Place(c) ==
  /\ at[c] \in {"arrived", "wait"} => Barrier(phase[c])
  /\ at[c] = "arrived" => Stream[c][phase[c]] # 0
  /\ at[c] = "gemm" => Phases[phase[c]].gemm /\ UnitsOf[c][phase[c]] > 0
  /\ at[c] = "end" => phase[c] = Len(Phases)

Walk ==
  /\ phase \in [Cta -> Index]
  /\ at \in [Cta -> {"phase", "gemm", "close", "arrived", "wait", "end"}]
  /\ \A c \in Cta : Place(c)
  /\ \E k \in Nat : Round(k)

(* A CTA is through with a phase.                                          *)
Through(c, p) == phase[c] > p \/ (phase[c] = p /\ at[c] \notin {"phase", "gemm"})

LEMMA Counted ==
  ASSUME Walk, NEW c \in Cta
  PROVE  /\ phase[c] \in Index /\ Interval[phase[c]] \in Nat
         /\ LeftAt(c) \in Nat /\ CameAt(c) \in Nat
         /\ CameAt(c) = LeftAt(c) \/ CameAt(c) = LeftAt(c) + 1
<1>1. phase[c] \in Index
  BY DEF Walk
<1>2. Interval[phase[c]] \in Nat
  BY <1>1, IntervalIs
<1>3. LeftAt(c) = Interval[phase[c]] \/ (LeftAt(c) = Interval[phase[c]] + 1 /\ at[c] = "end")
  BY <1>2 DEF LeftAt
<1>4. CameAt(c) = LeftAt(c) \/ (CameAt(c) = Interval[phase[c]] + 1 /\ at[c] # "end")
  BY DEF CameAt
<1>5. QED
  BY <1>1, <1>2, <1>3, <1>4

(* Nobody has left a barrier that somebody has not come to.                *)
LEMMA Separated ==
  ASSUME Walk, NEW c \in Cta, NEW d \in Cta
  PROVE  LeftAt(c) <= CameAt(d)
<1>1. PICK k \in Nat : LeftAt(c) <= k /\ k <= CameAt(d)
  BY DEF Walk, Round
<1>2. QED
  BY <1>1, Counted

LEMMA AllThrough ==
  ASSUME Walk, NEW c \in Cta, NEW d \in Cta, NEW p \in Index, Interval[p] < LeftAt(c)
  PROVE  Through(d, p)
<1>1. PICK q \in Index : q = phase[d]
  BY Counted
<1>2. p \in Nat /\ q \in Nat /\ p <= Len(Phases) /\ Interval[p] \in Nat /\ Interval[q] \in Nat
  <2>1. Interval[p] \in Nat /\ Interval[q] \in Nat
    BY IntervalIs
  <2>2. QED
    BY <2>1, PhasesAssumption
<1>3. Interval[p] + 1 <= CameAt(d)
  BY <1>2, Separated, Counted
<1>4. CASE at[d] \in {"arrived", "wait"}
  <2>1. Barrier(q) /\ Interval[p] <= Interval[q]
    BY <1>1, <1>2, <1>3, <1>4 DEF Walk, Place, CameAt
  <2>2. ~ (q < p)
    BY <1>2, <2>1, IntervalsGrow
  <2>3. QED
    BY <1>1, <1>2, <1>4, <2>2 DEF Through
<1>5. CASE at[d] = "end"
  <2>1. q = Len(Phases)
    BY <1>1, <1>5 DEF Walk, Place
  <2>2. QED
    BY <1>1, <1>2, <1>5, <2>1 DEF Through
<1>6. CASE at[d] \notin {"arrived", "wait", "end"}
  <2>1. Interval[p] + 1 <= Interval[q]
    BY <1>1, <1>2, <1>3, <1>6 DEF CameAt, LeftAt
  <2>2. ~ (q <= p)
    BY <1>2, <2>1, IntervalsGrow
  <2>3. QED
    BY <1>1, <1>2, <2>2 DEF Through
<1>7. QED
  BY <1>4, <1>5, <1>6

LEMMA WalkInit == Init => Walk
<1> SUFFICES ASSUME Init PROVE Walk
  OBVIOUS
<1>1. phase = [c \in Cta |-> 1] /\ at = [c \in Cta |-> "phase"] /\ arrivals = 0
  BY DEF Init
<1>2. 1 \in Index
  BY PhasesAssumption
<1>3. Interval[1] = 0
  <2>1. \A q \in Index : ~ (q < 1)
    BY PhasesAssumption
  <2>2. {q \in Index : q < 1 /\ Barrier(q)} = {}
    BY <2>1
  <2>3. QED
    BY <1>2, <2>2, IntervalIs, FS_EmptySet
<1>4. \A c \in Cta : LeftAt(c) = 0 /\ CameAt(c) = 0
  BY <1>1, <1>3 DEF LeftAt, CameAt
<1>5. {c \in Cta : CameAt(c) = 0 + 1} = {}
  BY <1>4
<1>6. Cardinality({c \in Cta : CameAt(c) = 0 + 1}) = 0
  BY <1>5, FS_EmptySet
<1>7. 0 * Workers = 0
  BY GridAssumption
<1>8. Round(0)
  BY <1>1, <1>4, <1>6, <1>7 DEF Round
<1>9. \A c \in Cta : Place(c)
  BY <1>1 DEF Place
<1>10. QED
  BY <1>1, <1>2, <1>8, <1>9 DEF Walk

LEMMA SameRound ==
  ASSUME NEW k \in Nat, Round(k), arrivals' = arrivals,
         \A c \in Cta : LeftAt(c)' = LeftAt(c) /\ CameAt(c)' = CameAt(c)
  PROVE  Round(k)'
<1>1. {c \in Cta : CameAt(c)' = k + 1} = {c \in Cta : CameAt(c) = k + 1}
  OBVIOUS
<1>2. QED
  BY <1>1 DEF Round

(* A step inside an interval. *)
LEMMA WalkWithin ==
  ASSUME Walk, NEW c \in Cta, NEW from, NEW to, at[c] = from, at' = [at EXCEPT ![c] = to],
         UNCHANGED <<phase, arrivals>>,
         \/ from \in {"phase", "gemm"} /\ to = "close"
         \/ from = "phase" /\ to = "gemm" /\ Phases[phase[c]].gemm /\ UnitsOf[c][phase[c]] > 0
         \/ from = "arrived" /\ to = "wait"
  PROVE  Walk'
<1>1. at' \in [Cta -> {"phase", "gemm", "close", "arrived", "wait", "end"}]
  BY DEF Walk
<1>2. \A d \in Cta : Place(d)'
  <2> SUFFICES ASSUME NEW d \in Cta PROVE Place(d)'
    OBVIOUS
  <2>1. CASE d = c
    BY <2>1 DEF Walk, Place
  <2>2. CASE d # c
    BY <2>2 DEF Walk, Place
  <2>3. QED
    BY <2>1, <2>2
<1>3. ASSUME NEW d \in Cta
      PROVE  LeftAt(d)' = LeftAt(d) /\ CameAt(d)' = CameAt(d)
  <2>1. CASE d = c
    BY <2>1 DEF Walk, LeftAt, CameAt
  <2>2. CASE d # c
    BY <2>2 DEF Walk, LeftAt, CameAt
  <2>3. QED
    BY <2>1, <2>2
<1>4. PICK k \in Nat : Round(k)
  BY DEF Walk
<1>5. Round(k)'
  BY <1>3, <1>4, SameRound
<1>6. QED
  BY <1>1, <1>2, <1>5 DEF Walk

(* A step out of a phase: without a barrier, or behind it. *)
LEMMA NextPhaseIs ==
  ASSUME Walk, NEW c \in Cta, NextPhase(c)
  PROVE  /\ phase' \in [Cta -> Index]
         /\ at' \in [Cta -> {"phase", "gemm", "close", "arrived", "wait", "end"}]
         /\ \A d \in Cta \ {c} : phase'[d] = phase[d] /\ at'[d] = at[d]
         /\ \/ phase[c] = Len(Phases) /\ phase'[c] = phase[c] /\ at'[c] = "end"
            \/ phase[c] # Len(Phases) /\ phase'[c] = phase[c] + 1 /\ at'[c] = "phase"
<1>1. phase \in [Cta -> Index] /\ phase[c] \in Index
      /\ at \in [Cta -> {"phase", "gemm", "close", "arrived", "wait", "end"}]
  BY DEF Walk
<1>2. CASE phase[c] = Len(Phases)
  BY <1>1, <1>2 DEF NextPhase, Goto
<1>3. CASE phase[c] # Len(Phases)
  <2>1. phase[c] + 1 \in Index
    BY <1>1, <1>3, NextInterval
  <2>2. QED
    BY <1>1, <1>3, <2>1 DEF NextPhase, Goto
<1>4. QED
  BY <1>2, <1>3

LEMMA WalkContinues ==
  ASSUME Walk, NEW c \in Cta, Continue(c)
  PROVE  Walk'
<1>1. /\ phase' \in [Cta -> Index]
      /\ at' \in [Cta -> {"phase", "gemm", "close", "arrived", "wait", "end"}]
      /\ \A d \in Cta \ {c} : phase'[d] = phase[d] /\ at'[d] = at[d]
      /\ \/ phase[c] = Len(Phases) /\ phase'[c] = phase[c] /\ at'[c] = "end"
         \/ phase[c] # Len(Phases) /\ phase'[c] = phase[c] + 1 /\ at'[c] = "phase"
  BY NextPhaseIs DEF Continue
<1>2. at[c] = "close" /\ ~ Barrier(phase[c]) /\ arrivals' = arrivals
  BY DEF Continue, Barrier
<1>3. \A d \in Cta : Place(d)'
  <2> SUFFICES ASSUME NEW d \in Cta PROVE Place(d)'
    OBVIOUS
  <2>1. CASE d = c
    BY <1>1, <2>1 DEF Place
  <2>2. CASE d # c
    BY <1>1, <2>2 DEF Walk, Place
  <2>3. QED
    BY <2>1, <2>2
<1>4. ASSUME NEW d \in Cta
      PROVE  LeftAt(d)' = LeftAt(d) /\ CameAt(d)' = CameAt(d)
  <2>1. CASE d # c
    BY <1>1, <2>1 DEF LeftAt, CameAt
  <2>2. CASE d = c
    <3>1. LeftAt(c) = Interval[phase[c]] /\ CameAt(c) = Interval[phase[c]]
      BY <1>2, Counted DEF LeftAt, CameAt
    <3>2. LeftAt(c)' = Interval[phase[c]] /\ CameAt(c)' = Interval[phase[c]]
      BY <1>1, <1>2, NextInterval, Counted DEF LeftAt, CameAt
    <3>3. QED
      BY <2>2, <3>1, <3>2
  <2>3. QED
    BY <2>1, <2>2
<1>5. PICK k \in Nat : Round(k)
  BY DEF Walk
<1>6. Round(k)'
  BY <1>2, <1>4, <1>5, SameRound
<1>7. QED
  BY <1>1, <1>3, <1>6 DEF Walk

LEMMA CtasAreFinite ==
  ASSUME NEW S \in SUBSET Cta
  PROVE  /\ IsFiniteSet(S) /\ Cardinality(S) \in Nat /\ Cardinality(S) <= Workers
         /\ Cardinality(S) = Workers => S = Cta
<1>1. IsFiniteSet(Cta) /\ Cardinality(Cta) = Workers
  <2>1. 0 \in Int /\ Workers - 1 \in Int /\ Workers > 0
    BY GridAssumption
  <2>2. IsFiniteSet(0 .. Workers - 1)
        /\ Cardinality(0 .. Workers - 1) = IF 0 > Workers - 1 THEN 0 ELSE (Workers - 1) - 0 + 1
    BY <2>1, FS_Interval
  <2>3. QED
    BY <2>1, <2>2, GridAssumption DEF Cta
<1>2. QED
  BY <1>1, FS_Subset, FS_CardinalityType

LEMMA WalkArrives ==
  ASSUME Walk, NEW c \in Cta, Arrive(c)
  PROVE  Walk'
<1>1. /\ at[c] = "close" /\ Barrier(phase[c]) /\ arrivals' = arrivals + 1 /\ phase' = phase
      /\ at' = [at EXCEPT ![c] = IF Stream[c][phase[c]] = 0 THEN "wait" ELSE "arrived"]
  BY DEF Arrive, Barrier, Goto
<1>2. at' \in [Cta -> {"phase", "gemm", "close", "arrived", "wait", "end"}]
  BY <1>1 DEF Walk
<1>3. \A d \in Cta : Place(d)'
  <2> SUFFICES ASSUME NEW d \in Cta PROVE Place(d)'
    OBVIOUS
  <2>1. CASE d = c
    BY <1>1, <2>1 DEF Walk, Place
  <2>2. CASE d # c
    BY <1>1, <2>2 DEF Walk, Place
  <2>3. QED
    BY <2>1, <2>2
<1>4. \A d \in Cta \ {c} : LeftAt(d)' = LeftAt(d) /\ CameAt(d)' = CameAt(d)
  BY <1>1 DEF Walk, LeftAt, CameAt
<1>5. /\ LeftAt(c) = Interval[phase[c]] /\ CameAt(c) = Interval[phase[c]]
      /\ LeftAt(c)' = Interval[phase[c]] /\ CameAt(c)' = Interval[phase[c]] + 1
  BY <1>1, Counted DEF Walk, LeftAt, CameAt
<1>6. PICK i \in Nat : i = Interval[phase[c]]
  BY Counted
<1>7. PICK k \in Nat : Round(k)
  BY DEF Walk
<1>8. i = k
  BY <1>5, <1>6, <1>7 DEF Round
<1> DEFINE S == {d \in Cta : CameAt(d) = k + 1}
           T == {d \in Cta : CameAt(d)' = k + 1}
<1>9. T = S \cup {c} /\ c \notin S
  <2>1. CameAt(c)' = k + 1 /\ CameAt(c) # k + 1
    BY <1>5, <1>6, <1>8
  <2>2. QED
    BY <1>4, <2>1
<1>10. S \in SUBSET Cta /\ IsFiniteSet(S) /\ Cardinality(S) \in Nat
  BY CtasAreFinite
<1>11. Cardinality(T) = Cardinality(S) + 1
  BY <1>9, <1>10, FS_AddElement
<1>12. arrivals = k * Workers + Cardinality(S)
  BY <1>7 DEF Round
<1>13. arrivals' = k * Workers + Cardinality(T)
  <2>1. k * Workers \in Nat
    BY GridAssumption
  <2>2. QED
    BY <1>1, <1>10, <1>11, <1>12, <2>1
<1>14. \A d \in Cta : LeftAt(d)' <= k /\ k <= CameAt(d)'
  <2> SUFFICES ASSUME NEW d \in Cta PROVE LeftAt(d)' <= k /\ k <= CameAt(d)'
    OBVIOUS
  <2>1. CASE d = c
    BY <1>5, <1>6, <1>8, <2>1
  <2>2. CASE d # c
    BY <1>4, <1>7, <2>2 DEF Round
  <2>3. QED
    BY <2>1, <2>2
<1>15. Round(k)'
  BY <1>13, <1>14 DEF Round
<1>16. QED
  BY <1>1, <1>2, <1>3, <1>15 DEF Walk

LEMMA WalkLeaves ==
  ASSUME Walk, NEW c \in Cta, Wait(c)
  PROVE  Walk'
<1>1. /\ phase' \in [Cta -> Index]
      /\ at' \in [Cta -> {"phase", "gemm", "close", "arrived", "wait", "end"}]
      /\ \A d \in Cta \ {c} : phase'[d] = phase[d] /\ at'[d] = at[d]
      /\ \/ phase[c] = Len(Phases) /\ phase'[c] = phase[c] /\ at'[c] = "end"
         \/ phase[c] # Len(Phases) /\ phase'[c] = phase[c] + 1 /\ at'[c] = "phase"
  BY NextPhaseIs DEF Wait
<1>2. /\ at[c] = "wait" /\ Barrier(phase[c]) /\ arrivals' = arrivals
      /\ arrivals >= (Interval[phase[c]] + 1) * Workers
  BY DEF Walk, Place, Wait
<1>3. \A d \in Cta : Place(d)'
  <2> SUFFICES ASSUME NEW d \in Cta PROVE Place(d)'
    OBVIOUS
  <2>1. CASE d = c
    BY <1>1, <2>1 DEF Place
  <2>2. CASE d # c
    BY <1>1, <2>2 DEF Walk, Place
  <2>3. QED
    BY <2>1, <2>2
<1>4. \A d \in Cta \ {c} : LeftAt(d)' = LeftAt(d) /\ CameAt(d)' = CameAt(d)
  BY <1>1 DEF LeftAt, CameAt
<1>5. PICK i \in Nat : i = Interval[phase[c]]
  BY Counted
<1>6. LeftAt(c) = i /\ CameAt(c) = i + 1
  BY <1>2, <1>5 DEF LeftAt, CameAt
<1>7. LeftAt(c)' = i + 1 /\ CameAt(c)' = i + 1
  BY <1>1, <1>2, <1>5, NextInterval, Counted DEF LeftAt, CameAt
<1>8. PICK k \in Nat : Round(k)
  BY DEF Walk
<1>9. i <= k /\ k <= i + 1
  BY <1>6, <1>8 DEF Round
<1> DEFINE S(n) == {d \in Cta : CameAt(d) = n}
<1>10. \A n : {d \in Cta : CameAt(d)' = n} = S(n)
  BY <1>4, <1>6, <1>7
<1>11. CASE i < k
  <2>1. \A d \in Cta : LeftAt(d)' <= k /\ k <= CameAt(d)'
    BY <1>4, <1>7, <1>8, <1>9, <1>11 DEF Round
  <2>2. Round(k)'
    BY <1>2, <1>8, <1>10, <2>1 DEF Round
  <2>3. QED
    BY <1>1, <1>3, <2>2 DEF Walk
<1>12. CASE i = k
  <2>1. S(k + 1) \in SUBSET Cta
    OBVIOUS
  <2>2. PICK m \in Nat : m = Cardinality(S(k + 1)) /\ m <= Workers /\ (m = Workers => S(k + 1) = Cta)
    BY <2>1, CtasAreFinite
  <2>3. PICK w \in Nat : w = Workers
    BY GridAssumption
  <2>4. arrivals = k * w + m /\ arrivals >= (k + 1) * w
    BY <1>2, <1>5, <1>8, <1>12, <2>2, <2>3 DEF Round
  <2>5. (k + 1) * w = k * w + w /\ k * w \in Nat
    OBVIOUS
  <2>6. m = w
    BY <2>2, <2>3, <2>4, <2>5
  <2>7. \A d \in Cta : CameAt(d) = k + 1
    BY <2>2, <2>3, <2>6
  <2>8. \A d \in Cta : CameAt(d)' = k + 1
    BY <1>4, <1>7, <1>12, <2>7
  <2>9. \A d \in Cta : LeftAt(d)' <= k + 1
    BY <1>4, <1>7, <1>8, <1>12, Counted DEF Round
  <2>10. {d \in Cta : CameAt(d)' = (k + 1) + 1} = {}
    BY <2>8
  <2>11. Cardinality({d \in Cta : CameAt(d)' = (k + 1) + 1}) = 0
    BY <2>10, FS_EmptySet
  <2>12. arrivals' = (k + 1) * Workers + 0
    BY <1>2, <2>3, <2>4, <2>5, <2>6
  <2>13. Round(k + 1)'
    BY <2>8, <2>9, <2>11, <2>12 DEF Round
  <2>14. QED
    BY <1>1, <1>3, <2>13 DEF Walk
<1>13. QED
  BY <1>9, <1>11, <1>12

LEMMA WalkKeeps == Walk /\ [Next]_vars => Walk'
<1> SUFFICES ASSUME Walk, [Next]_vars PROVE Walk'
  OBVIOUS
<1>1. ASSUME UNCHANGED <<phase, at, arrivals>> PROVE Walk'
  <2>1. PICK k \in Nat : Round(k)
    BY DEF Walk
  <2>2. Round(k)'
    BY <1>1, <2>1 DEF Round, LeftAt, CameAt
  <2>3. QED
    BY <1>1, <2>2 DEF Walk, Place
<1>2. ASSUME NEW c \in Cta, OtherBody(c) \/ SkipBody(c) \/ EndGemm(c) PROVE Walk'
  BY <1>2, WalkWithin DEF OtherBody, SkipBody, EndGemm, Goto
<1>3. ASSUME NEW c \in Cta, GemmBody(c) PROVE Walk'
  BY <1>3, WalkWithin DEF GemmBody, Goto
<1>4. ASSUME NEW c \in Cta, Preload(c) PROVE Walk'
  BY <1>4, WalkWithin DEF Preload, Goto
<1>5. QED
  BY <1>1, <1>2, <1>3, <1>4, WalkContinues, WalkArrives, WalkLeaves
     DEF Next, Done, CtaStep, Land, Produce, Multiply, FinishMultiply, Release, Store, Publish,
         CountSplit, SumSplits, vars

-----------------------------------------------------------------------------
(* What the CTAs have done.                                                *)

(* A CTA is through with its i-th unit of a phase.                         *)
Over(c, p, i) == Through(c, p) \/ (phase[c] = p /\ at[c] = "gemm" /\ i < stored[c])

UnitOver(p, u) == Over(Owner(p, u), p, u \div Workers)

OverUnits(p) == {u \in 0 .. Units[p] - 1 : UnitOver(p, u)}

Written == \A p \in Index : written[p] = Cardinality(OverUnits(p))

Working ==
  /\ stored \in [Cta -> Nat] /\ written \in [Index -> Nat]
  /\ epilogue \in [Cta -> {"none", "published", "last"}]
  /\ \A c \in Cta :
       /\ at[c] = "gemm" => stored[c] <= UnitsOf[c][phase[c]]
       /\ epilogue[c] # "none" => /\ at[c] = "gemm" /\ Split(phase[c])
                                  /\ stored[c] < UnitsOf[c][phase[c]]

(* A unit of the phase has its owner, for whom it is one of its units.     *)
LEMMA OwnersUnit ==
  ASSUME NEW p \in Index, NEW u \in 0 .. Units[p] - 1
  PROVE  /\ Owner(p, u) \in Cta /\ u \div Workers \in Nat /\ u \div Workers < UnitsOf[Owner(p, u)][p]
         /\ u = Unit(Owner(p, u), p, u \div Workers)
<1>1. u \in Nat /\ u < Units[p]
  BY UnitNumbers
<1>2. QED
  BY <1>1, OwnerIs, UnitsOfIs

LEMMA UnitOfOwner ==
  ASSUME NEW p \in Index, NEW c \in Cta, NEW i \in Nat, i < UnitsOf[c][p]
  PROVE  /\ Unit(c, p, i) \in 0 .. Units[p] - 1
         /\ Owner(p, Unit(c, p, i)) = c /\ Unit(c, p, i) \div Workers = i
<1>1. Unit(c, p, i) \in Nat /\ Unit(c, p, i) < Units[p]
  BY OwnerOnce, UnitsOfIs
<1>2. QED
  BY <1>1, OwnerOnce, UnitNumbers

(* Steps that finish no unit. *)
LEMMA NothingFinished ==
  ASSUME Walk, Working, NEW c \in Cta,
         \/ SkipBody(c) \/ GemmBody(c) \/ EndGemm(c) \/ Continue(c) \/ Arrive(c) \/ Preload(c) \/ Wait(c)
         \/ UNCHANGED <<phase, at, stored>>,
         NEW d \in Cta, NEW p \in Index, NEW i \in Nat, i < UnitsOf[d][p]
  PROVE  Over(d, p, i)' <=> Over(d, p, i)
<1>1. /\ phase[c] \in Index /\ phase[d] \in Index /\ p \in Nat /\ phase[c] \in Nat
      /\ UnitsOf[d][p] \in Nat
  BY Counted, UnitsOfIs, PhasesAssumption
<1>2. CASE UNCHANGED <<phase, at, stored>>
  BY <1>2 DEF Over, Through
<1>3. CASE SkipBody(c)
  <2>1. at' = [at EXCEPT ![c] = "close"] /\ phase' = phase /\ stored' = stored /\ at[c] = "phase"
        /\ UnitsOf[c][phase[c]] = 0
    BY <1>3 DEF SkipBody, Goto, pipe
  <2>2. at'[d] = IF d = c THEN "close" ELSE at[d]
    BY <2>1 DEF Walk
  <2>3. ~ (d = c /\ phase[c] = p)
    BY <2>1, <1>1
  <2>4. QED
    BY <2>1, <2>2, <2>3 DEF Over, Through
<1>4. CASE GemmBody(c)
  <2>1. at' = [at EXCEPT ![c] = "gemm"] /\ phase' = phase /\ stored' = [stored EXCEPT ![c] = 0]
        /\ at[c] = "phase"
    BY <1>4 DEF GemmBody, Goto
  <2>2. at'[d] = (IF d = c THEN "gemm" ELSE at[d]) /\ stored'[d] = IF d = c THEN 0 ELSE stored[d]
    BY <2>1 DEF Walk, Working
  <2>3. QED
    BY <2>1, <2>2 DEF Over, Through
<1>5. CASE EndGemm(c)
  <2>1. at' = [at EXCEPT ![c] = "close"] /\ phase' = phase /\ stored' = stored /\ at[c] = "gemm"
        /\ stored[c] = UnitsOf[c][phase[c]]
    BY <1>5 DEF EndGemm, Goto, pipe
  <2>2. at'[d] = IF d = c THEN "close" ELSE at[d]
    BY <2>1 DEF Walk
  <2>3. d = c /\ phase[c] = p => i < stored[c]
    BY <2>1
  <2>4. QED
    BY <2>1, <2>2, <2>3 DEF Over, Through
<1>6. CASE Preload(c) \/ Arrive(c)
  <2>1. /\ phase' = phase /\ stored' = stored /\ at[c] \in {"close", "arrived"}
        /\ \/ at' = [at EXCEPT ![c] = "wait"]
           \/ at' = [at EXCEPT ![c] = "arrived"]
    BY <1>6 DEF Preload, Arrive, Goto, pipe
  <2>2. (d = c => at'[d] \in {"wait", "arrived"}) /\ (d # c => at'[d] = at[d])
    BY <2>1 DEF Walk
  <2>3. QED
    BY <2>1, <2>2 DEF Over, Through
<1>7. CASE Continue(c) \/ Wait(c)
  <2>1. /\ \A e \in Cta \ {c} : phase'[e] = phase[e] /\ at'[e] = at[e]
        /\ \/ phase[c] = Len(Phases) /\ phase'[c] = phase[c] /\ at'[c] = "end"
           \/ phase[c] # Len(Phases) /\ phase'[c] = phase[c] + 1 /\ at'[c] = "phase"
    BY <1>7, NextPhaseIs DEF Continue, Wait
  <2>2. at[c] \in {"close", "wait"} /\ stored' = stored
    BY <1>7 DEF Continue, Wait, pipe
  <2>3. CASE d = c
    BY <1>1, <2>1, <2>2, <2>3 DEF Over, Through
  <2>4. CASE d # c
    BY <2>1, <2>2, <2>4 DEF Over, Through
  <2>5. QED
    BY <2>3, <2>4
<1>8. QED
  BY <1>2, <1>3, <1>4, <1>5, <1>6, <1>7

(* Steps that finish one. *)
LEMMA OneFinished ==
  ASSUME Walk, Working, NEW c \in Cta, at[c] = "gemm", stored[c] < UnitsOf[c][phase[c]],
         UNCHANGED <<phase, at>>, stored' = [stored EXCEPT ![c] = @ + 1],
         NEW p \in Index, NEW u \in 0 .. Units[p] - 1
  PROVE  /\ UnitOver(p, u)' <=> UnitOver(p, u) \/ (p = phase[c] /\ u = Unit(c, p, stored[c]))
         /\ p = phase[c] /\ u = Unit(c, p, stored[c]) => ~ UnitOver(p, u)
<1>1. PICK d \in Cta : d = Owner(p, u)
  BY OwnersUnit
<1>2. PICK i \in Nat : i = u \div Workers /\ u = Unit(d, p, i)
  BY <1>1, OwnersUnit
<1>3. stored[c] \in Nat /\ phase[c] \in Index /\ phase[c] \in Nat
  BY Counted, PhasesAssumption DEF Working
<1>4. p = phase[c] /\ u = Unit(c, p, stored[c]) <=> p = phase[c] /\ d = c /\ i = stored[c]
  BY <1>1, <1>2, <1>3, OwnerOnce
<1>5. (UnitOver(p, u) <=> Over(d, p, i)) /\ (UnitOver(p, u)' <=> Over(d, p, i)')
  BY <1>1, <1>2 DEF UnitOver
<1>6. stored'[d] = IF d = c THEN stored[c] + 1 ELSE stored[d]
  BY DEF Working
<1>7. Over(d, p, i)' <=> Over(d, p, i) \/ (p = phase[c] /\ d = c /\ i = stored[c])
  BY <1>3, <1>6 DEF Over, Through
<1>8. p = phase[c] /\ d = c /\ i = stored[c] => ~ Over(d, p, i)
  BY <1>3 DEF Over, Through
<1>9. QED
  BY <1>4, <1>5, <1>7, <1>8

(* A body that is no GEMM runs all of a CTA's units at once. *)
LEMMA BodyFinished ==
  ASSUME Walk, NEW c \in Cta, OtherBody(c), NEW p \in Index, NEW u \in 0 .. Units[p] - 1
  PROVE  /\ UnitOver(p, u)' <=> UnitOver(p, u) \/ (p = phase[c] /\ Owner(p, u) = c)
         /\ p = phase[c] /\ Owner(p, u) = c => ~ UnitOver(p, u)
<1>1. PICK d \in Cta : d = Owner(p, u)
  BY OwnersUnit
<1>2. PICK i \in Nat : i = u \div Workers
  BY <1>1, OwnersUnit
<1>3. (UnitOver(p, u) <=> Over(d, p, i)) /\ (UnitOver(p, u)' <=> Over(d, p, i)')
  BY <1>1, <1>2 DEF UnitOver
<1>4. at' = [at EXCEPT ![c] = "close"] /\ phase' = phase /\ stored' = stored /\ at[c] = "phase"
  BY DEF OtherBody, Goto, pipe
<1>5. phase[c] \in Nat /\ phase[d] \in Nat /\ p \in Nat
  BY Counted, PhasesAssumption
<1>6. at'[d] = IF d = c THEN "close" ELSE at[d]
  BY <1>4 DEF Walk
<1>7. Over(d, p, i)' <=> Over(d, p, i) \/ (p = phase[c] /\ d = c)
  BY <1>4, <1>5, <1>6 DEF Over, Through
<1>8. p = phase[c] /\ d = c => ~ Over(d, p, i)
  BY <1>4, <1>5 DEF Over, Through
<1>9. QED
  BY <1>1, <1>3, <1>7, <1>8

LEMMA NoUnitFinished ==
  ASSUME Walk, Working, NEW c \in Cta,
         \/ SkipBody(c) \/ GemmBody(c) \/ EndGemm(c) \/ Continue(c) \/ Arrive(c) \/ Preload(c) \/ Wait(c)
         \/ UNCHANGED <<phase, at, stored>>,
         NEW p \in Index, NEW u \in 0 .. Units[p] - 1
  PROVE  UnitOver(p, u)' <=> UnitOver(p, u)
<1>1. PICK d \in Cta : d = Owner(p, u)
  BY OwnersUnit
<1>2. PICK i \in Nat : i = u \div Workers /\ i < UnitsOf[d][p]
  BY <1>1, OwnersUnit
<1>3. (UnitOver(p, u) <=> Over(d, p, i)) /\ (UnitOver(p, u)' <=> Over(d, p, i)')
  BY <1>1, <1>2 DEF UnitOver
<1>4. Over(d, p, i)' <=> Over(d, p, i)
  BY <1>2, NothingFinished
<1>5. QED
  BY <1>3, <1>4

LEMMA UnitsAreFinite ==
  ASSUME NEW p \in Index, NEW S \in SUBSET (0 .. Units[p] - 1)
  PROVE  IsFiniteSet(S) /\ Cardinality(S) \in Nat
<1>1. 0 \in Int /\ Units[p] - 1 \in Int
  BY UnitNumbers
<1>2. IsFiniteSet(0 .. Units[p] - 1)
  BY <1>1, FS_Interval
<1>3. QED
  BY <1>2, FS_Subset, FS_CardinalityType

(* The units of a CTA are as many as it counts. *)
LEMMA OwnedUnits ==
  ASSUME NEW p \in Index, NEW c \in Cta
  PROVE  LET S == {u \in 0 .. Units[p] - 1 : Owner(p, u) = c}
         IN  IsFiniteSet(S) /\ Cardinality(S) = UnitsOf[c][p]
<1> DEFINE S == {u \in 0 .. Units[p] - 1 : Owner(p, u) = c}
<1>1. PICK n \in Nat : n = UnitsOf[c][p]
  BY UnitsOfIs
<1>2. ASSUME NEW i \in 1 .. n
      PROVE  Unit(c, p, i - 1) \in S
  <2>1. i - 1 \in Nat /\ i - 1 < UnitsOf[c][p]
    BY <1>1
  <2>2. QED
    BY <2>1, UnitOfOwner
<1>3. ASSUME NEW i \in 1 .. n, NEW j \in 1 .. n, Unit(c, p, i - 1) = Unit(c, p, j - 1)
      PROVE  i = j
  <2>1. i - 1 \in Nat /\ j - 1 \in Nat
    OBVIOUS
  <2>2. i - 1 = j - 1
    BY <2>1, <1>3, OwnerOnce
  <2>3. QED
    BY <2>2
<1>4. ASSUME NEW u \in S
      PROVE  \E i \in 1 .. n : Unit(c, p, i - 1) = u
  <2>1. PICK j \in Nat : j = u \div Workers /\ j < n /\ u = Unit(c, p, j)
    BY <1>1, OwnersUnit
  <2>2. j + 1 \in 1 .. n /\ (j + 1) - 1 = j
    BY <2>1
  <2>3. QED
    BY <2>1, <2>2
<1> DEFINE f == [i \in 1 .. n |-> Unit(c, p, i - 1)]
<1>5. f \in Bijection(1 .. n, S)
  <2>1. f \in [1 .. n -> S]
    BY <1>2
  <2>2. \A i, j \in 1 .. n : f[i] = f[j] => i = j
    BY <1>3
  <2>3. \A u \in S : \E i \in 1 .. n : f[i] = u
    BY <1>4
  <2>4. QED
    BY <2>1, <2>2, <2>3 DEF Bijection, Injection, Surjection, IsInjective
<1>6. IsFiniteSet(1 .. n) /\ Cardinality(1 .. n) = n
  <2>1. 1 \in Int /\ n \in Int
    OBVIOUS
  <2>2. IsFiniteSet(1 .. n) /\ Cardinality(1 .. n) = IF 1 > n THEN 0 ELSE n - 1 + 1
    BY <2>1, FS_Interval
  <2>3. QED
    BY <2>2
<1>7. ExistsBijection(1 .. n, S)
  BY <1>5 DEF ExistsBijection
<1>8. QED
  BY <1>1, <1>6, <1>7, FS_Bijection

LEMMA WrittenInit == Init => Written /\ Working
<1> SUFFICES ASSUME Init PROVE Written /\ Working
  OBVIOUS
<1>1. /\ phase = [c \in Cta |-> 1] /\ at = [c \in Cta |-> "phase"]
      /\ stored = [c \in Cta |-> 0] /\ epilogue = [c \in Cta |-> "none"]
      /\ written = [p \in Index |-> 0]
  BY DEF Init
<1>2. ASSUME NEW p \in Index
      PROVE  written[p] = Cardinality(OverUnits(p))
  <2>1. \A u \in 0 .. Units[p] - 1 : ~ UnitOver(p, u)
    BY <1>1, OwnersUnit, PhasesAssumption DEF UnitOver, Over, Through
  <2>2. OverUnits(p) = {}
    BY <2>1 DEF OverUnits
  <2>3. QED
    BY <1>1, <2>2, FS_EmptySet
<1>3. Working
  BY <1>1 DEF Working
<1>4. QED
  BY <1>2, <1>3 DEF Written

LEMMA WorkingKeeps == Walk /\ Working /\ [Next]_vars => Working'
<1> SUFFICES ASSUME Walk, Working, [Next]_vars PROVE Working'
  OBVIOUS
<1>1. /\ stored \in [Cta -> Nat] /\ written \in [Index -> Nat]
      /\ epilogue \in [Cta -> {"none", "published", "last"}] /\ phase \in [Cta -> Index]
      /\ at \in [Cta -> {"phase", "gemm", "close", "arrived", "wait", "end"}]
      /\ \A c \in Cta : \A p \in Index : UnitsOf[c][p] \in Nat
  BY UnitsOfIs DEF Walk, Working
<1> DEFINE Fine(c) == /\ at[c] = "gemm" => stored[c] <= UnitsOf[c][phase[c]]
                      /\ epilogue[c] # "none" => /\ at[c] = "gemm" /\ Split(phase[c])
                                                 /\ stored[c] < UnitsOf[c][phase[c]]
<1>2. \A c \in Cta : Fine(c)
  BY DEF Working
<1>3. CASE UNCHANGED <<phase, at, stored, epilogue, written>>
  BY <1>3 DEF Working
<1>4. ASSUME NEW c \in Cta, OtherBody(c) PROVE Working'
  <2>1. /\ written' = [written EXCEPT ![phase[c]] = @ + UnitsOf[c][phase[c]]]
        /\ at' = [at EXCEPT ![c] = "close"] /\ UNCHANGED <<phase, stored, epilogue>> /\ at[c] = "phase"
    BY <1>4 DEF OtherBody, Goto, pipe
  <2>2. written' \in [Index -> Nat]
    BY <1>1, <2>1
  <2>3. QED
    BY <1>1, <1>2, <2>1, <2>2 DEF Working
<1>5. ASSUME NEW c \in Cta, SkipBody(c) \/ EndGemm(c) \/ Preload(c) \/ Arrive(c) \/ Continue(c) \/ Wait(c) PROVE Working'
  <2>1. UNCHANGED <<stored, epilogue, written>>
    BY <1>5 DEF SkipBody, EndGemm, Preload, Arrive, Continue, Wait, pipe, global
  <2>2. /\ \A d \in Cta \ {c} : at'[d] = at[d] /\ phase'[d] = phase[d]
        /\ at'[c] # "gemm"
    <3>1. CASE SkipBody(c) \/ EndGemm(c) \/ Preload(c) \/ Arrive(c)
      BY <1>1, <3>1 DEF SkipBody, EndGemm, Preload, Arrive, Goto
    <3>2. CASE Continue(c) \/ Wait(c)
      BY <3>2, NextPhaseIs DEF Continue, Wait
    <3>3. QED
      BY <1>5, <3>1, <3>2
  <2>3. epilogue[c] = "none"
    <3>1. CASE at[c] # "gemm"
      BY <1>1, <1>2, <3>1
    <3>2. CASE EndGemm(c)
      BY <1>1, <1>2, <3>2 DEF EndGemm
    <3>3. QED
      BY <1>5, <3>1, <3>2 DEF SkipBody, Preload, Arrive, Continue, Wait
  <2>4. ASSUME NEW d \in Cta PROVE Fine(d)'
    <3>1. CASE d = c
      BY <2>1, <2>2, <2>3, <3>1
    <3>2. CASE d # c
      BY <1>2, <2>1, <2>2, <3>2
    <3>3. QED
      BY <3>1, <3>2
  <2>5. QED
    BY <1>1, <2>1, <2>4 DEF Working
<1>6. ASSUME NEW c \in Cta, GemmBody(c) PROVE Working'
  <2>1. /\ at' = [at EXCEPT ![c] = "gemm"] /\ stored' = [stored EXCEPT ![c] = 0]
        /\ UNCHANGED <<phase, epilogue, written>> /\ at[c] = "phase"
    BY <1>6 DEF GemmBody, Goto, global
  <2>2. epilogue[c] = "none"
    BY <1>1, <1>2, <2>1
  <2>3. stored' \in [Cta -> Nat]
    BY <1>1, <2>1
  <2>4. ASSUME NEW d \in Cta PROVE Fine(d)'
    <3>1. CASE d = c
      BY <1>1, <2>1, <2>2, <3>1
    <3>2. CASE d # c
      BY <1>1, <1>2, <2>1, <3>2
    <3>3. QED
      BY <3>1, <3>2
  <2>5. QED
    BY <1>1, <2>1, <2>3, <2>4 DEF Working
<1>7. ASSUME NEW c \in Cta, Store(c) \/ Publish(c) \/ CountSplit(c) \/ SumSplits(c) PROVE Working'
  <2>1. UNCHANGED <<phase, at>>
    BY <1>7 DEF Store, Publish, CountSplit, SumSplits
  <2>2. at[c] = "gemm" /\ stored[c] < UnitsOf[c][phase[c]]
    BY <1>2, <1>7 DEF Store, Publish, CountSplit, SumSplits, MainLoopOver
  <2>3. \/ /\ UNCHANGED <<stored, written>>
           /\ \/ epilogue' = [epilogue EXCEPT ![c] = "published"] /\ Split(phase[c])
              \/ epilogue' = [epilogue EXCEPT ![c] = "last"] /\ epilogue[c] = "published"
        \/ /\ stored' = [stored EXCEPT ![c] = @ + 1] /\ written' = [written EXCEPT ![phase[c]] = @ + 1]
           /\ epilogue' = [epilogue EXCEPT ![c] = "none"]
    BY <1>7 DEF Store, Publish, CountSplit, SumSplits, StoreTile
  <2>4. Split(phase[c])' <=> Split(phase[c])
    BY <2>1 DEF Split
  <2>5. CASE UNCHANGED <<stored, written>>
    <3>1. epilogue' \in [Cta -> {"none", "published", "last"}]
      BY <1>1, <2>3
    <3>2. ASSUME NEW d \in Cta PROVE Fine(d)'
      <4>1. CASE d = c
        <5>1. Split(phase[c])
          BY <1>1, <1>2, <2>1, <2>2, <2>3, <2>5
        <5>2. QED
          BY <1>1, <1>2, <2>1, <2>2, <2>4, <2>5, <4>1, <5>1
      <4>2. CASE d # c
        <5>1. epilogue'[d] = epilogue[d]
          BY <1>1, <2>3, <4>2
        <5>2. QED
          BY <1>1, <1>2, <2>1, <2>5, <5>1 DEF Split
      <4>3. QED
        BY <4>1, <4>2
    <3>3. QED
      BY <1>1, <2>1, <2>5, <3>1, <3>2 DEF Working
  <2>6. CASE /\ stored' = [stored EXCEPT ![c] = @ + 1] /\ written' = [written EXCEPT ![phase[c]] = @ + 1]
             /\ epilogue' = [epilogue EXCEPT ![c] = "none"]
    <3>1. /\ epilogue' \in [Cta -> {"none", "published", "last"}] /\ stored' \in [Cta -> Nat]
          /\ written' \in [Index -> Nat]
      BY <1>1, <2>6
    <3>2. ASSUME NEW d \in Cta PROVE Fine(d)'
      <4>1. CASE d = c
        BY <1>1, <2>1, <2>2, <2>6, <4>1
      <4>2. CASE d # c
        BY <1>1, <1>2, <2>1, <2>6, <4>2 DEF Split
      <4>3. QED
        BY <4>1, <4>2
    <3>3. QED
      BY <1>1, <2>1, <3>1, <3>2 DEF Working
  <2>7. QED
    BY <2>3, <2>5, <2>6
<1>8. ASSUME NEW c \in Cta, Produce(c) \/ Multiply(c) \/ FinishMultiply(c) \/ Release(c) \/ Land(c) PROVE Working'
  BY <1>3, <1>8 DEF Produce, Multiply, FinishMultiply, Release, Land, pipe, global
<1>9. QED
  BY <1>3, <1>4, <1>5, <1>6, <1>7, <1>8 DEF Next, Done, CtaStep, vars, pipe, global

LEMMA WrittenKeeps == Walk /\ Working /\ Written /\ [Next]_vars => Written'
<1> SUFFICES ASSUME Walk, Working, Written, [Next]_vars PROVE Written'
  OBVIOUS
<1>1. ASSUME written' = written,
             \A p \in Index : \A u \in 0 .. Units[p] - 1 : UnitOver(p, u)' <=> UnitOver(p, u)
      PROVE  Written'
  <2>1. \A p \in Index : OverUnits(p)' = OverUnits(p)
    BY <1>1 DEF OverUnits
  <2>2. QED
    BY <1>1, <2>1 DEF Written
<1>2. ASSUME NEW c \in Cta, at[c] = "gemm", stored[c] < UnitsOf[c][phase[c]],
             UNCHANGED <<phase, at>>, stored' = [stored EXCEPT ![c] = @ + 1],
             written' = [written EXCEPT ![phase[c]] = @ + 1]
      PROVE  Written'
  <2>1. stored[c] \in Nat /\ phase[c] \in Index /\ written \in [Index -> Nat]
    BY Counted DEF Working
  <2>2. Unit(c, phase[c], stored[c]) \in 0 .. Units[phase[c]] - 1
    BY <1>2, <2>1, UnitOfOwner
  <2>3. ASSUME NEW p \in Index
        PROVE  written'[p] = Cardinality(OverUnits(p)')
    <3>1. \A u \in 0 .. Units[p] - 1 :
            /\ UnitOver(p, u)' <=> UnitOver(p, u) \/ (p = phase[c] /\ u = Unit(c, p, stored[c]))
            /\ p = phase[c] /\ u = Unit(c, p, stored[c]) => ~ UnitOver(p, u)
      BY <1>2, OneFinished
    <3>2. OverUnits(p) \in SUBSET (0 .. Units[p] - 1)
      BY DEF OverUnits
    <3>3. IsFiniteSet(OverUnits(p)) /\ Cardinality(OverUnits(p)) \in Nat
      BY <3>2, UnitsAreFinite
    <3>4. written[p] = Cardinality(OverUnits(p))
      BY DEF Written
    <3>5. CASE p # phase[c]
      <4>1. OverUnits(p)' = OverUnits(p)
        BY <3>1, <3>5 DEF OverUnits
      <4>2. QED
        BY <1>2, <2>1, <3>4, <3>5, <4>1
    <3>6. CASE p = phase[c]
      <4>1. OverUnits(p)' = OverUnits(p) \cup {Unit(c, p, stored[c])}
            /\ Unit(c, p, stored[c]) \notin OverUnits(p)
        BY <2>2, <3>1, <3>6 DEF OverUnits
      <4>2. Cardinality(OverUnits(p)') = Cardinality(OverUnits(p)) + 1
        BY <3>3, <4>1, FS_AddElement
      <4>3. QED
        BY <1>2, <2>1, <3>4, <3>6, <4>2
    <3>7. QED
      BY <3>5, <3>6
  <2>4. QED
    BY <2>3 DEF Written
<1>3. ASSUME NEW c \in Cta, OtherBody(c) PROVE Written'
  <2>1. written' = [written EXCEPT ![phase[c]] = @ + UnitsOf[c][phase[c]]]
    BY <1>3 DEF OtherBody
  <2>2. written \in [Index -> Nat] /\ phase[c] \in Index
    BY Counted DEF Working
  <2>3. ASSUME NEW p \in Index
        PROVE  written'[p] = Cardinality(OverUnits(p)')
    <3> DEFINE S == {u \in 0 .. Units[p] - 1 : Owner(p, u) = c}
    <3>1. \A u \in 0 .. Units[p] - 1 :
            /\ UnitOver(p, u)' <=> UnitOver(p, u) \/ (p = phase[c] /\ Owner(p, u) = c)
            /\ p = phase[c] /\ Owner(p, u) = c => ~ UnitOver(p, u)
      BY <1>3, BodyFinished
    <3>2. OverUnits(p) \in SUBSET (0 .. Units[p] - 1)
      BY DEF OverUnits
    <3>3. IsFiniteSet(OverUnits(p)) /\ Cardinality(OverUnits(p)) \in Nat
      BY <3>2, UnitsAreFinite
    <3>4. written[p] = Cardinality(OverUnits(p))
      BY DEF Written
    <3>5. CASE p # phase[c]
      <4>1. OverUnits(p)' = OverUnits(p)
        BY <3>1, <3>5 DEF OverUnits
      <4>2. QED
        BY <2>1, <2>2, <3>4, <3>5, <4>1
    <3>6. CASE p = phase[c]
      <4>1. OverUnits(p)' = OverUnits(p) \cup S /\ OverUnits(p) \cap S = {}
        BY <3>1, <3>6 DEF OverUnits
      <4>2. IsFiniteSet(S) /\ Cardinality(S) = UnitsOf[c][p] /\ Cardinality(S) \in Nat
        BY OwnedUnits, UnitsOfIs
      <4>3. Cardinality(OverUnits(p)') = Cardinality(OverUnits(p)) + UnitsOf[c][p]
        <5>1. Cardinality(OverUnits(p) \cup S) =
                Cardinality(OverUnits(p)) + Cardinality(S) - Cardinality(OverUnits(p) \cap S)
          BY <3>3, <4>2, FS_Union
        <5>2. Cardinality(OverUnits(p) \cap S) = 0
          BY <4>1, FS_EmptySet
        <5>3. QED
          BY <3>3, <4>1, <4>2, <5>1, <5>2
      <4>4. QED
        BY <2>1, <2>2, <3>4, <3>6, <4>3
    <3>7. QED
      BY <3>5, <3>6
  <2>4. QED
    BY <2>3 DEF Written
<1>4. ASSUME NEW c \in Cta,
             SkipBody(c) \/ GemmBody(c) \/ EndGemm(c) \/ Continue(c) \/ Arrive(c) \/ Preload(c) \/ Wait(c)
      PROVE  Written'
  <2>1. \A p \in Index : \A u \in 0 .. Units[p] - 1 : UnitOver(p, u)' <=> UnitOver(p, u)
    BY <1>4, NoUnitFinished
  <2>2. written' = written
    BY <1>4 DEF SkipBody, GemmBody, EndGemm, Continue, Arrive, Preload, Wait, global
  <2>3. QED
    BY <1>1, <2>1, <2>2
<1>5. ASSUME NEW c \in Cta, UNCHANGED <<phase, at, stored, written>> PROVE Written'
  BY <1>1, <1>5, NoUnitFinished
<1>6. ASSUME NEW c \in Cta, Store(c) \/ Publish(c) \/ CountSplit(c) \/ SumSplits(c) PROVE Written'
  <2>1. UNCHANGED <<phase, at>>
    BY <1>6 DEF Store, Publish, CountSplit, SumSplits
  <2>2. at[c] = "gemm" /\ stored[c] < UnitsOf[c][phase[c]]
    BY <1>6 DEF Working, Store, Publish, CountSplit, SumSplits, MainLoopOver
  <2>3. \/ UNCHANGED <<stored, written>>
        \/ stored' = [stored EXCEPT ![c] = @ + 1] /\ written' = [written EXCEPT ![phase[c]] = @ + 1]
    BY <1>6 DEF Store, Publish, CountSplit, SumSplits, StoreTile
  <2>4. QED
    BY <1>2, <1>5, <2>1, <2>2, <2>3
<1>7. ASSUME NEW c \in Cta, Produce(c) \/ Multiply(c) \/ FinishMultiply(c) \/ Release(c) \/ Land(c) PROVE Written'
  <2>1. UNCHANGED <<phase, at, stored, written>>
    BY <1>7 DEF Produce, Multiply, FinishMultiply, Release, Land, pipe, global
  <2>2. QED
    BY <1>5, <2>1
<1>8. ASSUME UNCHANGED vars PROVE Written'
  <2>1. 0 \in Cta
    BY GridAssumption DEF Cta
  <2>2. UNCHANGED <<phase, at, stored, written>>
    BY <1>8 DEF vars, pipe, global
  <2>3. QED
    BY <1>5, <2>1, <2>2
<1>9. QED
  BY <1>3, <1>4, <1>6, <1>7, <1>8 DEF Next, Done, CtaStep

(* Behind a barrier every unit of the phases before it is over. *)
LEMMA AllOver ==
  ASSUME Walk, NEW p \in Index, \A d \in Cta : Through(d, p)
  PROVE  \A u \in 0 .. Units[p] - 1 : UnitOver(p, u)
BY OwnersUnit DEF UnitOver, Over

LEMMA AllWritten ==
  ASSUME Walk, Written, NEW p \in Index, \A d \in Cta : Through(d, p)
  PROVE  written[p] = Units[p]
<1>1. OverUnits(p) = 0 .. Units[p] - 1
  BY AllOver DEF OverUnits
<1>2. Cardinality(0 .. Units[p] - 1) = Units[p]
  <2>1. PICK n \in Nat : n = Units[p]
    BY UnitNumbers
  <2>2. 0 \in Int /\ n - 1 \in Int
    OBVIOUS
  <2>3. Cardinality(0 .. n - 1) = IF 0 > n - 1 THEN 0 ELSE (n - 1) - 0 + 1
    BY <2>2, FS_Interval
  <2>4. QED
    BY <2>1, <2>3
<1>3. QED
  BY <1>1, <1>2 DEF Written

(* Whatever a GEMM's weights are written by is over when a CTA runs it. *)
LEMMA WeightsReady ==
  ASSUME Walk, Written, NEW c \in Cta, at[c] = "gemm"
  PROVE  \A q \in Index : Phases[q].output = Phases[phase[c]].a => written[q] = Units[q]
<1> SUFFICES ASSUME NEW q \in Index, Phases[q].output = Phases[phase[c]].a
             PROVE  written[q] = Units[q]
  OBVIOUS
<1>1. PICK p \in Index : p = phase[c]
  BY Counted
<1>2. Phases[p].gemm
  BY <1>1 DEF Walk, Place
<1>3. Interval[q] < Interval[p]
  BY <1>1, <1>2, WeightsAssumption
<1>4. LeftAt(c) = Interval[p]
  BY <1>1, Counted DEF LeftAt
<1>5. \A d \in Cta : Through(d, q)
  BY <1>3, <1>4, AllThrough
<1>6. QED
  BY <1>5, AllWritten

-----------------------------------------------------------------------------
(* The splits of a tile.                                                   *)

TilesOf(p) == 0 .. Phases[p].tiles - 1

(* The owner of a unit is at its end. *)
AtEnd(p, u) ==
  /\ epilogue[Owner(p, u)] # "none"
  /\ phase[Owner(p, u)] = p /\ stored[Owner(p, u)] = u \div Workers

Published(p, t, s) == UnitOver(p, UnitOf(p, t, s)) \/ AtEnd(p, UnitOf(p, t, s))

Added(p, t, s) ==
  \/ UnitOver(p, UnitOf(p, t, s))
  \/ AtEnd(p, UnitOf(p, t, s)) /\ epilogue[Owner(p, UnitOf(p, t, s))] = "last"

(* The splits of a tile that have added one to its counter, and whether    *)
(* that is all there is to see of the tile.                                *)
AddedSplits(p, t) == {s \in Sums(p) : Added(p, t, s)}
Open(p, t) == c_tiles[p][t] = <<>> /\ AddedSplits(p, t) # {}

LastAt(c, p, t) == epilogue[c] = "last" /\ phase[c] = p /\ Tile(c) = t

AllSplits(p, t) == [s \in Sums(p) |-> Result(p, t, s)]

(* A tile is stored when all its splits were added and the last of them    *)
(* has summed them up, and until then the splits published are there.      *)
TileSummed(p, t) ==
  /\ \/ c_tiles[p][t] = <<>> /\ (AddedSplits(p, t) = Sums(p) => \E c \in Cta : LastAt(c, p, t))
     \/ c_tiles[p][t] = <<AllSplits(p, t)>> /\ AddedSplits(p, t) = Sums(p)
  /\ c_tiles[p][t] = <<>> =>
       \A s \in Sums(p) : Published(p, t, s) => partials[Scratch[p] + t][s] = Result(p, t, s)
  /\ Open(p, t) => counters[Scratch[p] + t] = Cardinality(AddedSplits(p, t))

(* No tile that is being summed uses the counter. *)
Unused(n) == \A p \in Index : \A t \in TilesOf(p) : Split(p) /\ Open(p, t) => Scratch[p] + t # n

LastIs(c) == c_tiles[phase[c]][Tile(c)] = <<>> /\ AddedSplits(phase[c], Tile(c)) = Sums(phase[c])

Shapes ==
  /\ counters \in [Counters -> Nat]
  /\ c_tiles = [p \in Index |-> [t \in TilesOf(p) |-> c_tiles[p][t]]]
  /\ partials = [n \in Counters |-> [s \in Splits |-> partials[n][s]]]

Summing ==
  /\ Shapes
  /\ \A p \in Index : \A t \in TilesOf(p) : Split(p) => TileSummed(p, t)
  /\ \A n \in Counters : Unused(n) => counters[n] = 0
  /\ \A c \in Cta : epilogue[c] = "last" => LastIs(c)
  /\ \A c, d \in Cta : \A p \in Index : \A t \in TilesOf(p) : LastAt(c, p, t) /\ LastAt(d, p, t) => c = d

(* Split phases of one interval have their own counters. *)
LEMMA OwnCounters ==
  ASSUME NEW p \in Index, NEW q \in Index, Split(p), Split(q), Interval[p] = Interval[q],
         NEW t \in TilesOf(p), NEW v \in TilesOf(q), Scratch[p] + t = Scratch[q] + v
  PROVE  p = q /\ t = v
<1>1. /\ Scratch[p] \in Nat /\ Scratch[q] \in Nat /\ p \in Nat /\ q \in Nat
      /\ Phases[p].tiles \in Nat /\ Phases[q].tiles \in Nat /\ t \in Nat /\ v \in Nat
      /\ t < Phases[p].tiles /\ v < Phases[q].tiles
  BY PhasesAssumption, ScratchIs DEF TilesOf
<1>2. CASE p < q
  <2>1. SplitTiles[p] = Phases[p].tiles
    BY DEF SplitTiles
  <2>2. Scratch[p] + Phases[p].tiles <= Scratch[q]
    BY <1>2, <2>1, ScratchApart
  <2>3. QED
    BY <1>1, <2>2
<1>3. CASE q < p
  <2>1. SplitTiles[q] = Phases[q].tiles
    BY DEF SplitTiles
  <2>2. Scratch[q] + Phases[q].tiles <= Scratch[p]
    BY <1>3, <2>1, ScratchApart
  <2>3. QED
    BY <1>1, <2>2
<1>4. CASE p = q
  BY <1>1, <1>4
<1>5. QED
  BY <1>1, <1>2, <1>3, <1>4

(* While a CTA runs a phase nobody has left the phase's interval.          *)
LEMMA NobodyAhead ==
  ASSUME Walk, NEW c \in Cta, at[c] = "gemm", NEW d \in Cta
  PROVE  Interval[phase[d]] <= Interval[phase[c]]
<1>1. PICK p \in Index : p = phase[c]
  BY Counted
<1>2. PICK i \in Nat : i = Interval[p]
  BY IntervalIs
<1>3. PICK j \in Nat : j = Interval[phase[d]]
  BY Counted
<1>4. SUFFICES ASSUME i < j PROVE FALSE
  BY <1>1, <1>2, <1>3
<1>5. Interval[p] < LeftAt(d)
  BY <1>2, <1>3, <1>4 DEF LeftAt
<1>6. Through(c, p)
  BY <1>5, AllThrough
<1>7. QED
  BY <1>1, <1>6, PhasesAssumption DEF Through

(* A unit that is over or about to be has an owner who came to its phase.  *)
LEMMA PublisherIsThere ==
  ASSUME Walk, NEW p \in Index, NEW u \in 0 .. Units[p] - 1, UnitOver(p, u) \/ AtEnd(p, u)
  PROVE  \E d \in Cta : Interval[p] <= Interval[phase[d]]
<1>1. PICK d \in Cta : d = Owner(p, u)
  BY OwnersUnit
<1>2. phase[d] \in Index /\ phase[d] \in Nat /\ p \in Nat
  BY Counted, PhasesAssumption
<1>3. p <= phase[d]
  BY <1>1, <1>2 DEF UnitOver, AtEnd, Over, Through
<1>4. QED
  BY <1>2, <1>3, IntervalsGrow

(* A tile that is not stored although splits of it are published belongs   *)
(* to the interval of any CTA that runs a GEMM; so no other tile uses the  *)
(* counter and the partials of the tile a CTA is at.                       *)
LEMMA OneInterval ==
  ASSUME Walk, Working, Summing, NEW c \in Cta, at[c] = "gemm",
         NEW q \in Index, NEW t \in TilesOf(q), NEW s \in Sums(q),
         Split(q), Published(q, t, s), c_tiles[q][t] = <<>>
  PROVE  Interval[q] = Interval[phase[c]]
<1>1. PICK p \in Index : p = phase[c]
  BY Counted
<1>2. Interval[p] \in Nat /\ Interval[q] \in Nat
  BY IntervalIs
<1>3. UnitOf(q, t, s) \in 0 .. Units[q] - 1
  BY UnitOfIs DEF TilesOf
<1>4. Interval[q] <= Interval[p]
  <2>1. PICK d \in Cta : Interval[q] <= Interval[phase[d]]
    BY <1>3, PublisherIsThere DEF Published
  <2>2. Interval[phase[d]] <= Interval[phase[c]] /\ Interval[phase[d]] \in Nat
    BY NobodyAhead, Counted
  <2>3. QED
    BY <1>1, <1>2, <2>1, <2>2
<1>5. ASSUME Interval[q] < Interval[p] PROVE FALSE
  <2>1. LeftAt(c) = Interval[p]
    BY <1>1, <1>2 DEF LeftAt
  <2>2. \A d \in Cta : Through(d, q)
    BY <1>5, <2>1, AllThrough
  <2>3. \A u \in 0 .. Units[q] - 1 : UnitOver(q, u)
    BY <2>2, AllOver
  <2>4. \A r \in Sums(q) : Added(q, t, r)
    BY <2>3, UnitOfIs DEF Added, TilesOf
  <2>5. AddedSplits(q, t) = Sums(q)
    BY <2>4 DEF AddedSplits
  <2>6. TileSummed(q, t)
    BY DEF Summing
  <2>7. PICK d \in Cta : LastAt(d, q, t)
    BY <2>5, <2>6 DEF TileSummed
  <2>8. phase[d] = q /\ at[d] = "gemm"
    BY <2>7 DEF LastAt, Working
  <2>9. QED
    BY <2>2, <2>8, PhasesAssumption DEF Through
<1>6. QED
  BY <1>1, <1>2, <1>4, <1>5

LEMMA OneCounter ==
  ASSUME Walk, Working, Summing, NEW c \in Cta, at[c] = "gemm", Split(phase[c]),
         NEW w \in TilesOf(phase[c]),
         NEW q \in Index, NEW t \in TilesOf(q), NEW s \in Sums(q),
         Split(q), Published(q, t, s), c_tiles[q][t] = <<>>, Scratch[q] + t = Scratch[phase[c]] + w
  PROVE  q = phase[c] /\ t = w
<1>1. Interval[q] = Interval[phase[c]]
  BY OneInterval
<1>2. phase[c] \in Index
  BY Counted
<1>3. QED
  BY <1>1, <1>2, OwnCounters

LEMMA AddedIsPublished ==
  ASSUME NEW p, NEW t, NEW s, Added(p, t, s)
  PROVE  Published(p, t, s)
BY DEF Added, Published

LEMMA SummingInit == Init => Summing
<1> SUFFICES ASSUME Init PROVE Summing
  OBVIOUS
<1>1. /\ phase = [c \in Cta |-> 1] /\ at = [c \in Cta |-> "phase"]
      /\ epilogue = [c \in Cta |-> "none"] /\ counters = [n \in Counters |-> 0]
      /\ partials = [n \in Counters |-> [s \in Splits |-> Nothing]]
      /\ c_tiles = [p \in Index |-> [t \in TilesOf(p) |-> <<>>]]
  BY DEF Init, TilesOf
<1>2. \A p \in Index : \A u \in 0 .. Units[p] - 1 : ~ UnitOver(p, u) /\ ~ AtEnd(p, u)
  BY <1>1, OwnersUnit, PhasesAssumption DEF UnitOver, AtEnd, Over, Through
<1>3. ASSUME NEW p \in Index, NEW t \in TilesOf(p)
      PROVE  TileSummed(p, t) /\ ~ Open(p, t)
  <2>1. \A s \in Sums(p) : ~ Added(p, t, s) /\ ~ Published(p, t, s)
    BY <1>2, UnitOfIs DEF Added, Published, TilesOf
  <2>2. AddedSplits(p, t) = {}
    BY <2>1 DEF AddedSplits
  <2>3. 0 \in Sums(p)
    BY PhasesAssumption DEF Sums
  <2>4. c_tiles[p][t] = <<>>
    BY <1>1
  <2>5. QED
    BY <2>1, <2>2, <2>3, <2>4 DEF TileSummed, Open
<1>4. Shapes
  BY <1>1 DEF Shapes
<1>5. QED
  BY <1>1, <1>3, <1>4 DEF Summing, LastAt

(* Steps that concern no split. *)
LEMMA SplitsStay ==
  ASSUME Walk, Working, Summing, Shapes', UNCHANGED <<epilogue, counters, partials>>,
         \A p \in Index : Split(p) => c_tiles'[p] = c_tiles[p],
         \A p \in Index : Split(p) => \A u \in 0 .. Units[p] - 1 : UnitOver(p, u)' <=> UnitOver(p, u),
         \A d \in Cta : epilogue[d] # "none" => phase'[d] = phase[d] /\ stored'[d] = stored[d]
  PROVE  Summing'
<1>1. ASSUME NEW p \in Index, Split(p), NEW t \in TilesOf(p), NEW s \in Sums(p)
      PROVE  (Published(p, t, s)' <=> Published(p, t, s)) /\ (Added(p, t, s)' <=> Added(p, t, s))
  <2>1. PICK u \in 0 .. Units[p] - 1 : u = UnitOf(p, t, s)
    BY UnitOfIs DEF TilesOf
  <2>2. PICK d \in Cta : d = Owner(p, u)
    BY OwnersUnit
  <2>3. UnitOver(p, u)' <=> UnitOver(p, u)
    BY <1>1
  <2>4. AtEnd(p, u)' <=> AtEnd(p, u)
    BY <2>2 DEF AtEnd
  <2>5. epilogue'[d] = epilogue[d]
    OBVIOUS
  <2>6. QED
    BY <2>1, <2>2, <2>3, <2>4, <2>5 DEF Published, Added
<1>2. ASSUME NEW p \in Index, Split(p), NEW t \in TilesOf(p)
      PROVE  AddedSplits(p, t)' = AddedSplits(p, t)
  BY <1>1, <1>2 DEF AddedSplits
<1>3. ASSUME NEW d \in Cta, epilogue[d] = "last"
      PROVE  phase'[d] = phase[d] /\ stored'[d] = stored[d] /\ Tile(d)' = Tile(d)
             /\ phase[d] \in Index /\ Split(phase[d]) /\ Tile(d) \in TilesOf(phase[d])
  <2>1. phase'[d] = phase[d] /\ stored'[d] = stored[d]
    BY <1>3
  <2>2. Split(phase[d]) /\ phase[d] \in Index /\ stored[d] \in Nat /\ stored[d] < UnitsOf[d][phase[d]]
    BY <1>3, Counted DEF Working
  <2>3. Unit(d, phase[d], stored[d]) \in 0 .. Units[phase[d]] - 1
    BY <2>2, UnitOfOwner
  <2>4. Tile(d) \in TilesOf(phase[d])
    BY <2>2, <2>3, UnitIsOf DEF Tile, Now, TilesOf
  <2>5. QED
    BY <2>1, <2>2, <2>4 DEF Tile, Now
<1>4. ASSUME NEW p \in Index, NEW t \in TilesOf(p), NEW d \in Cta
      PROVE  LastAt(d, p, t)' <=> LastAt(d, p, t)
  BY <1>3 DEF LastAt
<1>5. ASSUME NEW p \in Index, NEW t \in TilesOf(p), Split(p)
      PROVE  TileSummed(p, t)' /\ (Open(p, t)' <=> Open(p, t))
  <2>1. TileSummed(p, t)
    BY <1>5 DEF Summing
  <2>2. c_tiles'[p][t] = c_tiles[p][t]
    BY <1>5
  <2>3. Open(p, t)' <=> Open(p, t)
    BY <1>2, <1>5, <2>2 DEF Open
  <2>4. QED
    BY <1>1, <1>2, <1>4, <1>5, <2>1, <2>2, <2>3 DEF TileSummed
<1>6. ASSUME NEW n \in Counters, Unused(n)' PROVE counters'[n] = 0
  <2>1. Unused(n)
    BY <1>5, <1>6 DEF Unused, Split
  <2>2. QED
    BY <2>1 DEF Summing
<1>7. ASSUME NEW d \in Cta, epilogue'[d] = "last" PROVE LastIs(d)'
  <2>1. epilogue[d] = "last"
    BY <1>7
  <2>2. PICK p \in Index : p = phase[d] /\ Split(p)
    BY <1>3, <2>1
  <2>3. PICK t \in TilesOf(p) : t = Tile(d)
    BY <1>3, <2>1, <2>2
  <2>4. LastIs(d)
    BY <2>1 DEF Summing
  <2>5. AddedSplits(p, t)' = AddedSplits(p, t) /\ c_tiles'[p] = c_tiles[p]
    BY <1>2, <2>2
  <2>6. phase'[d] = p /\ Tile(d)' = t
    BY <1>3, <2>1, <2>2, <2>3
  <2>7. QED
    BY <2>2, <2>3, <2>4, <2>5, <2>6 DEF LastIs
<1>8. \A c, d \in Cta : \A p \in Index : \A t \in TilesOf(p) : LastAt(c, p, t)' /\ LastAt(d, p, t)' => c = d
  BY <1>4 DEF Summing
<1>9. \A p \in Index : \A t \in TilesOf(p) : Split(p) => TileSummed(p, t)'
  BY <1>5
<1>10. \A p : Split(p)' <=> Split(p)
  BY DEF Split
<1>11. QED
  BY <1>6, <1>7, <1>8, <1>9, <1>10 DEF Summing

CurrentSplit(c) == SplitOf(phase[c], Now(c))
Current(c, p, t, s) == p = phase[c] /\ t = Tile(c) /\ s = CurrentSplit(c)

LEMMA CurrentUnit ==
  ASSUME Walk, Working, NEW c \in Cta, at[c] = "gemm", stored[c] < UnitsOf[c][phase[c]]
  PROVE  /\ phase[c] \in Index /\ Now(c) \in 0 .. Units[phase[c]] - 1
         /\ Tile(c) \in TilesOf(phase[c]) /\ CurrentSplit(c) \in Sums(phase[c])
         /\ Now(c) = UnitOf(phase[c], Tile(c), CurrentSplit(c))
         /\ Owner(phase[c], Now(c)) = c /\ Now(c) \div Workers = stored[c]
<1>1. phase[c] \in Index /\ stored[c] \in Nat
  BY Counted DEF Working
<1>2. Now(c) \in 0 .. Units[phase[c]] - 1 /\ Owner(phase[c], Now(c)) = c /\ Now(c) \div Workers = stored[c]
  BY <1>1, UnitOfOwner DEF Now
<1>3. QED
  BY <1>1, <1>2, UnitIsOf DEF Tile, CurrentSplit, TilesOf

(* A CTA is at the end of one unit. *)
LEMMA AtEndOnce ==
  ASSUME Walk, Working, NEW c \in Cta, at[c] = "gemm", stored[c] < UnitsOf[c][phase[c]],
         NEW p \in Index, NEW t \in TilesOf(p), NEW s \in Sums(p)
  PROVE  /\ Owner(p, UnitOf(p, t, s)) = c /\ phase[c] = p /\ stored[c] = UnitOf(p, t, s) \div Workers
              => Current(c, p, t, s)
         /\ p = phase[c] /\ UnitOf(p, t, s) = Unit(c, p, stored[c]) => Current(c, p, t, s)
         /\ Current(c, p, t, s) => UnitOf(p, t, s) = Now(c)
<1>1. PICK u \in 0 .. Units[p] - 1 : u = UnitOf(p, t, s) /\ TileOf(p, u) = t /\ SplitOf(p, u) = s
  BY UnitOfIs DEF TilesOf
<1>2. u = Unit(Owner(p, u), p, u \div Workers)
  BY OwnersUnit
<1>3. QED
  BY <1>1, <1>2, CurrentUnit DEF Current, CurrentSplit, Tile, Now

LEMMA SumIsOpen ==
  ASSUME Walk, Working, Summing, NEW c \in Cta, epilogue[c] = "published"
  PROVE  /\ ~ Added(phase[c], Tile(c), CurrentSplit(c))
         /\ c_tiles[phase[c]][Tile(c)] = <<>>
         /\ counters[CounterOf(c)] = Cardinality(AddedSplits(phase[c], Tile(c)))
         /\ AddedSplits(phase[c], Tile(c)) # Sums(phase[c])
<1>1. /\ at[c] = "gemm" /\ stored[c] < UnitsOf[c][phase[c]] /\ Split(phase[c])
      /\ stored[c] \in Nat
  BY DEF Working
<1>2. PICK p \in Index : p = phase[c]
  BY <1>1, CurrentUnit
<1>3. PICK t \in TilesOf(p) : t = Tile(c)
  BY <1>1, <1>2, CurrentUnit
<1>4. PICK s \in Sums(p) : s = CurrentSplit(c)
  BY <1>1, <1>2, CurrentUnit
<1>5. UnitOf(p, t, s) = Now(c) /\ Owner(p, Now(c)) = c /\ Now(c) \div Workers = stored[c]
  BY <1>1, <1>2, <1>3, <1>4, CurrentUnit
<1>6. ~ Added(p, t, s)
  <2>1. ~ UnitOver(p, Now(c))
    BY <1>1, <1>2, <1>5, PhasesAssumption DEF UnitOver, Over, Through
  <2>2. QED
    BY <1>5, <2>1 DEF Added
<1>7. AddedSplits(p, t) # Sums(p)
  BY <1>6 DEF AddedSplits
<1>8. TileSummed(p, t)
  BY <1>1, <1>2 DEF Summing
<1>9. c_tiles[p][t] = <<>>
  BY <1>7, <1>8 DEF TileSummed
<1>10. CounterOf(c) = Scratch[p] + t /\ Scratch[p] + t \in Counters
  BY <1>1, <1>2, <1>3, ScratchIs DEF CounterOf, TilesOf
<1>11. Published(p, t, s)
  BY <1>2, <1>5 DEF Published, AtEnd
<1>12. counters[CounterOf(c)] = Cardinality(AddedSplits(p, t))
  <2>1. CASE AddedSplits(p, t) # {}
    BY <1>8, <1>9, <1>10, <2>1 DEF TileSummed, Open
  <2>2. CASE AddedSplits(p, t) = {}
    <3>1. ASSUME NEW q \in Index, NEW v \in TilesOf(q), Split(q), Open(q, v), Scratch[q] + v = Scratch[p] + t
          PROVE  FALSE
      <4>1. PICK r \in Sums(q) : Added(q, v, r)
        BY <3>1 DEF Open, AddedSplits
      <4>2. Published(q, v, r) /\ c_tiles[q][v] = <<>>
        BY <3>1, <4>1, AddedIsPublished DEF Open
      <4>3. q = p /\ v = t
        BY <1>1, <1>2, <3>1, <4>2, OneCounter
      <4>4. QED
        BY <2>2, <3>1, <4>3 DEF Open
    <3>2. Unused(Scratch[p] + t)
      BY <3>1 DEF Unused
    <3>3. counters[Scratch[p] + t] = 0
      BY <1>10, <3>2 DEF Summing
    <3>4. QED
      BY <1>10, <2>2, <3>3, FS_EmptySet
  <2>3. QED
    BY <2>1, <2>2
<1>13. QED
  BY <1>2, <1>3, <1>4, <1>6, <1>7, <1>9, <1>12

LEMMA PublishKeeps ==
  ASSUME Walk, Working, Summing, NEW c \in Cta, Publish(c)
  PROVE  Summing'
<1>1. /\ at[c] = "gemm" /\ stored[c] < UnitsOf[c][phase[c]] /\ Split(phase[c]) /\ epilogue[c] = "none"
      /\ partials' = [partials EXCEPT ![CounterOf(c)][CurrentSplit(c)] = Own(c)]
      /\ epilogue' = [epilogue EXCEPT ![c] = "published"]
      /\ UNCHANGED <<phase, at, stored, counters, c_tiles>>
  BY DEF Publish, MainLoopOver, CurrentSplit
<1>2. \A d \in Cta : epilogue'[d] = IF d = c THEN "published" ELSE epilogue[d]
  BY <1>1 DEF Working
<1>3. PICK p0 \in Index : p0 = phase[c]
  BY <1>1, CurrentUnit
<1>4. PICK t0 \in TilesOf(p0) : t0 = Tile(c)
  BY <1>1, <1>3, CurrentUnit
<1>5. PICK s0 \in Sums(p0) : s0 = CurrentSplit(c)
  BY <1>1, <1>3, CurrentUnit
<1>6. CounterOf(c) = Scratch[p0] + t0 /\ Scratch[p0] + t0 \in Counters /\ Own(c) = Result(p0, t0, s0)
  BY <1>1, <1>3, <1>4, <1>5, ScratchIs DEF CounterOf, TilesOf, Own, CurrentSplit
<1>7. s0 \in Splits
  BY DEF Splits, Sums
<1>8. ASSUME NEW p \in Index, NEW u \in 0 .. Units[p] - 1
      PROVE  UnitOver(p, u)' <=> UnitOver(p, u)
  BY <1>1, NoUnitFinished
<1>9. ASSUME NEW p \in Index, NEW t \in TilesOf(p), NEW s \in Sums(p)
      PROVE  /\ Published(p, t, s)' => Published(p, t, s) \/ Current(c, p, t, s)
             /\ Added(p, t, s)' <=> Added(p, t, s)
  <2>1. PICK u \in 0 .. Units[p] - 1 : u = UnitOf(p, t, s)
    BY UnitOfIs DEF TilesOf
  <2>2. PICK d \in Cta : d = Owner(p, u)
    BY OwnersUnit
  <2>3. UnitOver(p, u)' <=> UnitOver(p, u)
    BY <1>8
  <2>4. CASE d # c
    <3>1. epilogue'[d] = epilogue[d] /\ phase'[d] = phase[d] /\ stored'[d] = stored[d]
      BY <1>1, <1>2, <2>4
    <3>2. AtEnd(p, u)' <=> AtEnd(p, u)
      BY <2>2, <3>1 DEF AtEnd
    <3>3. QED
      BY <2>1, <2>2, <2>3, <3>1, <3>2 DEF Published, Added
  <2>5. CASE d = c
    <3>1. epilogue'[d] = "published" /\ epilogue[d] = "none"
      BY <1>1, <1>2, <2>5
    <3>2. AtEnd(p, u)' => Current(c, p, t, s)
      BY <1>1, <2>1, <2>2, <2>5, AtEndOnce DEF AtEnd
    <3>3. Added(p, t, s)' <=> Added(p, t, s)
      BY <2>1, <2>2, <2>3, <3>1 DEF Added
    <3>4. QED
      BY <2>1, <2>3, <3>2, <3>3 DEF Published
  <2>6. QED
    BY <2>4, <2>5
<1>10. ASSUME NEW p \in Index, NEW t \in TilesOf(p)
       PROVE  AddedSplits(p, t)' = AddedSplits(p, t)
  BY <1>9 DEF AddedSplits
<1>11. ASSUME NEW p \in Index, NEW t \in TilesOf(p)
       PROVE  Open(p, t)' <=> Open(p, t)
  BY <1>1, <1>10 DEF Open
<1>12. ASSUME NEW p \in Index, NEW t \in TilesOf(p), NEW d \in Cta
       PROVE  LastAt(d, p, t)' <=> LastAt(d, p, t)
  BY <1>1, <1>2 DEF LastAt, Tile, Now
<1>13. partials = [n \in Counters |-> [s \in Splits |-> partials[n][s]]]
  BY DEF Summing, Shapes
<1>14. \A n \in Counters : \A s \in Splits :
         partials'[n][s] = IF n = Scratch[p0] + t0 /\ s = s0 THEN Result(p0, t0, s0) ELSE partials[n][s]
  BY <1>1, <1>5, <1>6, <1>7, <1>13
<1>15. Shapes'
  <2>1. partials' = [n \in Counters |-> [s \in Splits |-> partials'[n][s]]]
    BY <1>1, <1>5, <1>6, <1>7, <1>13
  <2>2. QED
    BY <1>1, <2>1 DEF Summing, Shapes
<1>16. ASSUME NEW p \in Index, NEW t \in TilesOf(p), Split(p)
       PROVE  TileSummed(p, t)'
  <2>1. TileSummed(p, t)
    BY <1>16 DEF Summing
  <2>2. c_tiles'[p][t] = c_tiles[p][t] /\ counters' = counters
    BY <1>1
  <2>3. ASSUME NEW s \in Sums(p), c_tiles[p][t] = <<>>, Published(p, t, s)'
        PROVE  partials'[Scratch[p] + t][s] = Result(p, t, s)
    <3>1. Scratch[p] + t \in Counters /\ s \in Splits
      BY <1>16, ScratchIs DEF TilesOf, Splits, Sums
    <3>2. CASE p = p0 /\ t = t0 /\ s = s0
      BY <1>14, <3>1, <3>2
    <3>3. CASE ~ (p = p0 /\ t = t0 /\ s = s0)
      <4>1. Published(p, t, s)
        BY <1>3, <1>4, <1>5, <1>9, <2>3, <3>3 DEF Current
      <4>2. partials[Scratch[p] + t][s] = Result(p, t, s)
        BY <2>1, <2>3, <4>1 DEF TileSummed
      <4>3. ~ (Scratch[p] + t = Scratch[p0] + t0 /\ s = s0)
        BY <1>1, <1>3, <1>16, <2>3, <3>3, <4>1, OneCounter
      <4>4. QED
        BY <1>14, <3>1, <4>2, <4>3
    <3>4. QED
      BY <3>2, <3>3
  <2>4. QED
    BY <1>10, <1>11, <1>12, <2>1, <2>2, <2>3 DEF TileSummed
<1>17. ASSUME NEW n \in Counters, Unused(n)' PROVE counters'[n] = 0
  <2>1. Unused(n)
    BY <1>11, <1>17 DEF Unused, Split
  <2>2. QED
    BY <1>1, <2>1 DEF Summing
<1>18. ASSUME NEW d \in Cta, epilogue'[d] = "last" PROVE LastIs(d)'
  <2>1. epilogue[d] = "last"
    BY <1>2, <1>18
  <2>2. at[d] = "gemm" /\ stored[d] < UnitsOf[d][phase[d]]
    BY <2>1 DEF Working
  <2>3. PICK p \in Index : p = phase[d]
    BY <2>2, CurrentUnit
  <2>4. PICK t \in TilesOf(p) : t = Tile(d)
    BY <2>2, <2>3, CurrentUnit
  <2>5. LastIs(d)
    BY <2>1 DEF Summing
  <2>6. phase'[d] = p /\ Tile(d)' = t /\ c_tiles' = c_tiles
    BY <1>1, <2>3, <2>4 DEF Tile, Now
  <2>7. AddedSplits(p, t)' = AddedSplits(p, t)
    BY <1>10
  <2>8. QED
    BY <2>3, <2>4, <2>5, <2>6, <2>7 DEF LastIs
<1>19. \A e, d \in Cta : \A p \in Index : \A t \in TilesOf(p) : LastAt(e, p, t)' /\ LastAt(d, p, t)' => e = d
  BY <1>12 DEF Summing
<1>20. \A p \in Index : \A t \in TilesOf(p) : Split(p) => TileSummed(p, t)'
  BY <1>16
<1>21. \A p : Split(p)' <=> Split(p)
  BY DEF Split
<1>22. QED
  BY <1>15, <1>17, <1>18, <1>19, <1>20, <1>21 DEF Summing

LEMMA SplitsAreFinite ==
  ASSUME NEW p \in Index, NEW S \in SUBSET Sums(p)
  PROVE  /\ IsFiniteSet(S) /\ Cardinality(S) \in Nat
         /\ Cardinality(S) = Phases[p].splits <=> S = Sums(p)
<1>1. PICK m \in Nat \ {0} : m = Phases[p].splits
  BY PhasesAssumption
<1>2. IsFiniteSet(Sums(p)) /\ Cardinality(Sums(p)) = m
  <2>1. 0 \in Int /\ m - 1 \in Int
    OBVIOUS
  <2>2. IsFiniteSet(0 .. m - 1) /\ Cardinality(0 .. m - 1) = IF 0 > m - 1 THEN 0 ELSE (m - 1) - 0 + 1
    BY <2>1, FS_Interval
  <2>3. QED
    BY <1>1, <2>2 DEF Sums
<1>3. IsFiniteSet(S) /\ (Cardinality(Sums(p)) = Cardinality(S) => Sums(p) = S)
  BY <1>2, FS_Subset
<1>4. QED
  BY <1>1, <1>2, <1>3, FS_CardinalityType

(* What is added when a CTA adds its split, and that the last one knows it.*)
LEMMA OneAdded ==
  ASSUME Walk, Working, Summing, NEW c \in Cta, CountSplit(c),
         NEW p0 \in Index, p0 = phase[c], NEW t0 \in TilesOf(p0), t0 = Tile(c)
  PROVE  /\ \A p \in Index : \A t \in TilesOf(p) : \A s \in Sums(p) :
              /\ Published(p, t, s)' <=> Published(p, t, s)
              /\ Added(p, t, s)' <=> Added(p, t, s) \/ Current(c, p, t, s)
         /\ counters'[Scratch[p0] + t0] = Cardinality(AddedSplits(p0, t0)')
         /\ AddedSplits(p0, t0)' = Sums(p0) <=> epilogue'[c] = "last"
         /\ UNCHANGED <<phase, at>>
<1>1. /\ epilogue[c] = "published" /\ at[c] = "gemm" /\ stored[c] < UnitsOf[c][phase[c]]
      /\ Split(phase[c]) /\ UNCHANGED <<phase, at>> /\ stored[c] \in Nat
      /\ counters' = [counters EXCEPT ![CounterOf(c)] = @ + 1]
  BY DEF CountSplit, Working
<1>2. \/ IsLast(c, counters[CounterOf(c)]) /\ epilogue' = [epilogue EXCEPT ![c] = "last"] /\ stored' = stored
      \/ ~ IsLast(c, counters[CounterOf(c)]) /\ epilogue' = [epilogue EXCEPT ![c] = "none"]
         /\ stored' = [stored EXCEPT ![c] = @ + 1]
  BY DEF CountSplit
<1>5. PICK s0 \in Sums(p0) : s0 = CurrentSplit(c)
  BY <1>1, CurrentUnit
<1>6. ASSUME NEW p \in Index, NEW t \in TilesOf(p), NEW s \in Sums(p)
      PROVE  /\ Published(p, t, s)' <=> Published(p, t, s)
             /\ Added(p, t, s)' <=> Added(p, t, s) \/ Current(c, p, t, s)
  <2>1. PICK u \in 0 .. Units[p] - 1 : u = UnitOf(p, t, s)
    BY UnitOfIs DEF TilesOf
  <2>2. PICK d \in Cta : d = Owner(p, u)
    BY OwnersUnit
  <2>3. u = Unit(d, p, u \div Workers)
    BY <2>2, OwnersUnit
  <2>4. Current(c, p, t, s) <=> p = phase[c] /\ u = Unit(c, p, stored[c])
    BY <1>1, <2>1, AtEndOnce DEF Current, Now
  <2>5. Current(c, p, t, s) => d = c /\ u \div Workers = stored[c]
    BY <1>1, <2>1, <2>2, <2>4, CurrentUnit DEF Current, Now
  <2>6. CASE d # c
    <3>1. epilogue'[d] = epilogue[d] /\ phase'[d] = phase[d] /\ stored'[d] = stored[d]
      BY <1>1, <1>2, <2>6 DEF Working
    <3>2. AtEnd(p, u)' <=> AtEnd(p, u)
      BY <2>2, <3>1 DEF AtEnd
    <3>3. UnitOver(p, u)' <=> UnitOver(p, u)
      BY <1>1, <2>2, <3>1 DEF UnitOver, Over, Through
    <3>4. QED
      BY <2>1, <2>2, <2>5, <2>6, <3>1, <3>2, <3>3 DEF Published, Added
  <2>7. CASE d = c
    <3>1. AtEnd(p, u) <=> Current(c, p, t, s)
      <4>1. AtEnd(p, u) => Current(c, p, t, s)
        BY <1>1, <2>1, <2>2, <2>7, AtEndOnce DEF AtEnd
      <4>2. Current(c, p, t, s) => AtEnd(p, u)
        BY <1>1, <2>2, <2>5, <2>7 DEF AtEnd, Current
      <4>3. QED
        BY <4>1, <4>2
    <3>2. CASE epilogue' = [epilogue EXCEPT ![c] = "last"] /\ stored' = stored
      <4>1. epilogue'[d] = "last"
        BY <2>7, <3>2 DEF Working
      <4>2. AtEnd(p, u)' <=> AtEnd(p, u)
        BY <1>1, <2>2, <2>7, <3>2, <4>1 DEF AtEnd
      <4>3. UnitOver(p, u)' <=> UnitOver(p, u)
        BY <1>1, <3>2 DEF UnitOver, Over, Through
      <4>4. QED
        BY <1>1, <2>1, <2>2, <2>7, <3>1, <4>1, <4>2, <4>3 DEF Published, Added
    <3>3. CASE epilogue' = [epilogue EXCEPT ![c] = "none"] /\ stored' = [stored EXCEPT ![c] = @ + 1]
      <4>1. epilogue'[d] = "none"
        BY <2>7, <3>3 DEF Working
      <4>2. ~ AtEnd(p, u)'
        BY <2>2, <4>1 DEF AtEnd
      <4>3. UnitOver(p, u)' <=> UnitOver(p, u) \/ (p = phase[c] /\ u = Unit(c, p, stored[c]))
        BY <1>1, <3>3, OneFinished
      <4>4. UnitOver(p, u)' <=> UnitOver(p, u) \/ Current(c, p, t, s)
        BY <2>4, <4>3
      <4>5. QED
        BY <1>1, <2>1, <2>2, <2>7, <3>1, <4>2, <4>4 DEF Published, Added
    <3>4. QED
      BY <1>2, <3>2, <3>3
  <2>8. QED
    BY <2>6, <2>7
<1> DEFINE C == AddedSplits(p0, t0)
<1>7. AddedSplits(p0, t0)' = C \cup {s0} /\ s0 \notin C
  <2>1. \A s \in Sums(p0) : Added(p0, t0, s)' <=> Added(p0, t0, s) \/ s = s0
    BY <1>5, <1>6 DEF Current
  <2>2. ~ Added(p0, t0, s0)
    BY <1>1, <1>5, SumIsOpen
  <2>3. QED
    BY <2>1, <2>2 DEF AddedSplits
<1>8. PICK k \in Nat : k = Cardinality(C) /\ IsFiniteSet(C) /\ Cardinality(C \cup {s0}) = k + 1
  <2>1. C \in SUBSET Sums(p0)
    BY DEF AddedSplits
  <2>2. IsFiniteSet(C) /\ Cardinality(C) \in Nat
    BY <2>1, SplitsAreFinite
  <2>3. QED
    BY <1>7, <2>2, FS_AddElement
<1>9. counters[CounterOf(c)] = k
  BY <1>1, <1>8, SumIsOpen
<1>10. CounterOf(c) = Scratch[p0] + t0 /\ Scratch[p0] + t0 \in Counters
  BY <1>1, ScratchIs DEF CounterOf, TilesOf
<1>11. counters'[CounterOf(c)] = k + 1
  BY <1>1, <1>9, <1>10 DEF Summing, Shapes
<1>12. C \cup {s0} = Sums(p0) <=> k + 1 = Phases[p0].splits
  <2>1. C \cup {s0} \in SUBSET Sums(p0)
    BY DEF AddedSplits
  <2>2. QED
    BY <1>8, <2>1, SplitsAreFinite
<1>13. IsLast(c, counters[CounterOf(c)]) <=> k + 1 = Phases[p0].splits
  <2>1. Phases[p0].splits \in Nat
    BY PhasesAssumption
  <2>2. QED
    BY <1>9, <2>1 DEF IsLast
<1>14. epilogue'[c] = "last" <=> IsLast(c, counters[CounterOf(c)])
  BY <1>2 DEF Working
<1>15. QED
  BY <1>1, <1>6, <1>7, <1>8, <1>10, <1>11, <1>12, <1>13, <1>14

LEMMA CountKeeps ==
  ASSUME Walk, Working, Summing, NEW c \in Cta, CountSplit(c)
  PROVE  Summing'
<1>1. /\ epilogue[c] = "published" /\ at[c] = "gemm" /\ stored[c] < UnitsOf[c][phase[c]]
      /\ Split(phase[c]) /\ UNCHANGED <<phase, at, c_tiles, partials>>
      /\ counters' = [counters EXCEPT ![CounterOf(c)] = @ + 1]
  BY DEF CountSplit, Working
<1>2. \A d \in Cta \ {c} : epilogue'[d] = epilogue[d] /\ stored'[d] = stored[d]
  BY DEF CountSplit, Working
<1>3. PICK p0 \in Index : p0 = phase[c]
  BY <1>1, CurrentUnit
<1>4. PICK t0 \in TilesOf(p0) : t0 = Tile(c)
  BY <1>1, <1>3, CurrentUnit
<1>5. PICK s0 \in Sums(p0) : s0 = CurrentSplit(c)
  BY <1>1, <1>3, CurrentUnit
<1>6. CounterOf(c) = Scratch[p0] + t0 /\ Scratch[p0] + t0 \in Counters
  BY <1>1, <1>3, <1>4, ScratchIs DEF CounterOf, TilesOf
<1>7. ASSUME NEW p \in Index, NEW t \in TilesOf(p), NEW s \in Sums(p)
      PROVE  /\ Published(p, t, s)' <=> Published(p, t, s)
             /\ Added(p, t, s)' <=> Added(p, t, s) \/ (p = p0 /\ t = t0 /\ s = s0)
  BY <1>3, <1>4, <1>5, OneAdded DEF Current
<1>8. /\ counters'[Scratch[p0] + t0] = Cardinality(AddedSplits(p0, t0)')
      /\ AddedSplits(p0, t0)' = Sums(p0) <=> epilogue'[c] = "last"
  BY <1>3, <1>4, OneAdded
<1>9. c_tiles[p0][t0] = <<>> /\ AddedSplits(p0, t0) # Sums(p0)
  BY <1>1, <1>3, <1>4, SumIsOpen
<1>10. ASSUME NEW p \in Index, NEW t \in TilesOf(p), ~ (p = p0 /\ t = t0)
       PROVE  AddedSplits(p, t)' = AddedSplits(p, t) /\ (Open(p, t)' <=> Open(p, t))
  <2>1. AddedSplits(p, t)' = AddedSplits(p, t)
    BY <1>7, <1>10 DEF AddedSplits
  <2>2. QED
    BY <1>1, <2>1 DEF Open
<1>11. Open(p0, t0)'
  <2>1. s0 \in AddedSplits(p0, t0)'
    BY <1>7 DEF AddedSplits
  <2>2. QED
    BY <1>1, <1>9, <2>1 DEF Open
<1>12. ASSUME NEW p \in Index, NEW t \in TilesOf(p), ~ (p = p0 /\ t = t0), Split(p), Open(p, t)
       PROVE  Scratch[p] + t # Scratch[p0] + t0
  <2>1. PICK s \in Sums(p) : Added(p, t, s)
    BY <1>12 DEF Open, AddedSplits
  <2>2. Published(p, t, s) /\ c_tiles[p][t] = <<>>
    BY <1>12, <2>1, AddedIsPublished DEF Open
  <2>3. QED
    BY <1>1, <1>3, <1>12, <2>2, OneCounter
<1>13. counters \in [Counters -> Nat] /\ counters' \in [Counters -> Nat]
       /\ \A n \in Counters : n # Scratch[p0] + t0 => counters'[n] = counters[n]
  BY <1>1, <1>6 DEF Summing, Shapes
<1>14. ASSUME NEW d \in Cta, d # c, NEW p \in Index, NEW t \in TilesOf(p)
       PROVE  (LastAt(d, p, t)' <=> LastAt(d, p, t)) /\ Tile(d)' = Tile(d)
  BY <1>1, <1>2, <1>14 DEF LastAt, Tile, Now
<1>15. epilogue'[c] = "last" => stored' = stored
  BY DEF CountSplit, Working
<1>16. epilogue'[c] = "last" => LastAt(c, p0, t0)' /\ \A p \in Index : \A t \in TilesOf(p) : LastAt(c, p, t)' => p = p0 /\ t = t0
  BY <1>1, <1>3, <1>4, <1>15 DEF LastAt, Tile, Now
<1>17. ASSUME NEW d \in Cta PROVE ~ LastAt(d, p0, t0)
  <2>1. LastAt(d, p0, t0) => LastIs(d) /\ phase[d] = p0 /\ Tile(d) = t0
    BY DEF LastAt, Summing
  <2>2. QED
    BY <1>9, <2>1 DEF LastIs
<1>18. ASSUME NEW p \in Index, NEW t \in TilesOf(p), Split(p)
       PROVE  TileSummed(p, t)'
  <2>1. TileSummed(p, t)
    BY <1>18 DEF Summing
  <2>2. CASE p = p0 /\ t = t0
    <3>1. AddedSplits(p0, t0)' = Sums(p0) => LastAt(c, p0, t0)'
      BY <1>8, <1>16
    <3>2. \A s \in Sums(p0) : Published(p0, t0, s)' => partials'[Scratch[p0] + t0][s] = Result(p0, t0, s)
      BY <1>1, <1>7, <1>9, <2>1, <2>2 DEF TileSummed
    <3>3. c_tiles'[p0][t0] = <<>>
      BY <1>1, <1>9
    <3>4. QED
      BY <1>8, <2>2, <3>1, <3>2, <3>3 DEF TileSummed
  <2>3. CASE ~ (p = p0 /\ t = t0)
    <3>1. AddedSplits(p, t)' = AddedSplits(p, t) /\ (Open(p, t)' <=> Open(p, t))
      BY <1>10, <2>3
    <3>2. \A s \in Sums(p) : Published(p, t, s)' <=> Published(p, t, s)
      BY <1>7
    <3>3. Open(p, t) => counters'[Scratch[p] + t] = counters[Scratch[p] + t]
      <4>1. Scratch[p] + t \in Counters
        BY <1>18, ScratchIs DEF TilesOf
      <4>2. QED
        BY <1>12, <1>13, <1>18, <2>3, <4>1
    <3>4. (\E d \in Cta : LastAt(d, p, t)) => \E d \in Cta : LastAt(d, p, t)'
      <4>1. ~ LastAt(c, p, t)
        BY <1>1 DEF LastAt
      <4>2. QED
        BY <1>14, <4>1
    <3>5. QED
      BY <1>1, <2>1, <3>1, <3>2, <3>3, <3>4 DEF TileSummed
  <2>4. QED
    BY <2>2, <2>3
<1>19. ASSUME NEW n \in Counters, Unused(n)' PROVE counters'[n] = 0
  <2>1. n # Scratch[p0] + t0
    BY <1>1, <1>3, <1>11, <1>19 DEF Unused, Split
  <2>2. ASSUME NEW p \in Index, NEW t \in TilesOf(p), Split(p), Open(p, t) PROVE Scratch[p] + t # n
    <3>1. CASE p = p0 /\ t = t0
      BY <2>1, <3>1
    <3>2. CASE ~ (p = p0 /\ t = t0)
      BY <1>10, <1>19, <2>2, <3>2 DEF Unused, Split
    <3>3. QED
      BY <3>1, <3>2
  <2>3. Unused(n)
    BY <2>2 DEF Unused
  <2>4. counters[n] = 0
    BY <2>3 DEF Summing
  <2>5. QED
    BY <1>13, <2>1, <2>4
<1>20. ASSUME NEW d \in Cta, epilogue'[d] = "last" PROVE LastIs(d)'
  <2>1. CASE d = c
    <3>1. AddedSplits(p0, t0)' = Sums(p0)
      BY <1>8, <1>20, <2>1
    <3>2. phase'[c] = p0 /\ Tile(c)' = t0
      BY <1>1, <1>3, <1>4, <1>15, <1>20, <2>1 DEF Tile, Now
    <3>3. c_tiles'[p0][t0] = <<>>
      BY <1>1, <1>9
    <3>4. QED
      BY <2>1, <3>1, <3>2, <3>3 DEF LastIs
  <2>2. CASE d # c
    <3>1. epilogue[d] = "last"
      BY <1>2, <1>20, <2>2
    <3>2. at[d] = "gemm" /\ stored[d] < UnitsOf[d][phase[d]]
      BY <3>1 DEF Working
    <3>3. PICK p \in Index : p = phase[d]
      BY <3>2, CurrentUnit
    <3>4. PICK t \in TilesOf(p) : t = Tile(d)
      BY <3>2, <3>3, CurrentUnit
    <3>5. LastIs(d)
      BY <3>1 DEF Summing
    <3>6. ~ (p = p0 /\ t = t0)
      BY <1>17, <3>1, <3>3, <3>4 DEF LastAt
    <3>7. AddedSplits(p, t)' = AddedSplits(p, t)
      BY <1>10, <3>6
    <3>8. phase'[d] = p /\ Tile(d)' = t
      BY <1>1, <1>14, <2>2, <3>3, <3>4
    <3>9. QED
      BY <1>1, <3>3, <3>4, <3>5, <3>7, <3>8 DEF LastIs
  <2>3. QED
    BY <2>1, <2>2
<1>21. ASSUME NEW e \in Cta, NEW d \in Cta, NEW p \in Index, NEW t \in TilesOf(p), LastAt(e, p, t)', LastAt(d, p, t)'
       PROVE  e = d
  <2>1. CASE e # c /\ d # c
    BY <1>14, <1>21, <2>1 DEF Summing
  <2>2. CASE e = c /\ d # c
    BY <1>14, <1>16, <1>17, <1>21, <2>2 DEF LastAt
  <2>3. CASE e # c /\ d = c
    BY <1>14, <1>16, <1>17, <1>21, <2>3 DEF LastAt
  <2>4. QED
    BY <2>1, <2>2, <2>3
<1>22. \A p : Split(p)' <=> Split(p)
  BY DEF Split
<1>23. Shapes'
  BY <1>1, <1>13 DEF Summing, Shapes
<1>24. QED
  BY <1>18, <1>19, <1>20, <1>21, <1>22, <1>23 DEF Summing

(* The sum replaces the count: the split that sums was already added.      *)
LEMMA SumAdds ==
  ASSUME Walk, Working, NEW c \in Cta, SumSplits(c),
         NEW p \in Index, NEW t \in TilesOf(p), NEW s \in Sums(p)
  PROVE  (Published(p, t, s)' <=> Published(p, t, s)) /\ (Added(p, t, s)' <=> Added(p, t, s))
<1>1. /\ epilogue[c] = "last" /\ at[c] = "gemm" /\ stored[c] < UnitsOf[c][phase[c]]
      /\ UNCHANGED <<phase, at>> /\ stored[c] \in Nat
      /\ epilogue' = [epilogue EXCEPT ![c] = "none"] /\ stored' = [stored EXCEPT ![c] = @ + 1]
  BY DEF SumSplits, StoreTile, Working
<1>2. PICK u \in 0 .. Units[p] - 1 : u = UnitOf(p, t, s)
  BY UnitOfIs DEF TilesOf
<1>3. PICK d \in Cta : d = Owner(p, u)
  BY OwnersUnit
<1>4. UnitOver(p, u)' <=> UnitOver(p, u) \/ (p = phase[c] /\ u = Unit(c, p, stored[c]))
  BY <1>1, OneFinished
<1>5. Current(c, p, t, s) <=> p = phase[c] /\ u = Unit(c, p, stored[c])
  BY <1>1, <1>2, AtEndOnce DEF Current, Now
<1>6. Current(c, p, t, s) => d = c /\ u \div Workers = stored[c]
  BY <1>1, <1>2, <1>3, <1>5, CurrentUnit DEF Current, Now
<1>7. CASE d # c
  <2>1. epilogue'[d] = epilogue[d] /\ phase'[d] = phase[d] /\ stored'[d] = stored[d]
    BY <1>1, <1>7 DEF Working
  <2>2. AtEnd(p, u)' <=> AtEnd(p, u)
    BY <1>3, <2>1 DEF AtEnd
  <2>3. UnitOver(p, u)' <=> UnitOver(p, u)
    BY <1>4, <1>5, <1>6, <1>7
  <2>4. QED
    BY <1>2, <1>3, <2>1, <2>2, <2>3 DEF Published, Added
<1>8. CASE d = c
  <2>1. epilogue'[d] = "none" /\ epilogue[d] = "last"
    BY <1>1, <1>8 DEF Working
  <2>2. ~ AtEnd(p, u)'
    BY <1>3, <2>1 DEF AtEnd
  <2>3. AtEnd(p, u) => Current(c, p, t, s)
    BY <1>1, <1>2, <1>3, <1>8, AtEndOnce DEF AtEnd
  <2>4. Current(c, p, t, s) => AtEnd(p, u)
    BY <1>1, <1>3, <1>6, <1>8 DEF AtEnd, Current
  <2>5. UnitOver(p, u)' <=> UnitOver(p, u) \/ AtEnd(p, u)
    BY <1>4, <1>5, <2>3, <2>4
  <2>6. QED
    BY <1>2, <1>3, <2>1, <2>2, <2>5 DEF Published, Added
<1>9. QED
  BY <1>7, <1>8

LEMMA SumKeeps ==
  ASSUME Walk, Working, Summing, NEW c \in Cta, SumSplits(c)
  PROVE  Summing'
<1>1. /\ epilogue[c] = "last" /\ at[c] = "gemm" /\ stored[c] < UnitsOf[c][phase[c]]
      /\ Split(phase[c]) /\ UNCHANGED <<phase, at, partials>>
      /\ counters' = [counters EXCEPT ![CounterOf(c)] = 0]
      /\ c_tiles' = [c_tiles EXCEPT ![phase[c]][Tile(c)] =
                       Append(@, [s \in Sums(phase[c]) |-> partials[CounterOf(c)][s]])]
  BY DEF SumSplits, StoreTile, ResetCounter, Working
<1>2. \A d \in Cta \ {c} : epilogue'[d] = epilogue[d] /\ stored'[d] = stored[d]
  BY DEF SumSplits, StoreTile, Working
<1>3. epilogue'[c] = "none"
  BY DEF SumSplits, StoreTile, Working
<1>4. PICK p0 \in Index : p0 = phase[c]
  BY <1>1, CurrentUnit
<1>5. PICK t0 \in TilesOf(p0) : t0 = Tile(c)
  BY <1>1, <1>4, CurrentUnit
<1>6. CounterOf(c) = Scratch[p0] + t0 /\ Scratch[p0] + t0 \in Counters
  BY <1>1, <1>4, <1>5, ScratchIs DEF CounterOf, TilesOf
<1>7. ASSUME NEW p \in Index, NEW t \in TilesOf(p)
      PROVE  /\ \A s \in Sums(p) : Published(p, t, s)' <=> Published(p, t, s)
             /\ AddedSplits(p, t)' = AddedSplits(p, t)
  BY SumAdds DEF AddedSplits
<1>8. c_tiles[p0][t0] = <<>> /\ AddedSplits(p0, t0) = Sums(p0) /\ TileSummed(p0, t0)
  BY <1>1, <1>4, <1>5 DEF Summing, LastIs
<1>9. \A s \in Sums(p0) : partials[Scratch[p0] + t0][s] = Result(p0, t0, s)
  BY <1>8, AddedIsPublished DEF AddedSplits, TileSummed
<1>10. [s \in Sums(p0) |-> partials[Scratch[p0] + t0][s]] = AllSplits(p0, t0)
  BY <1>9 DEF AllSplits
<1>11. c_tiles = [p \in Index |-> [t \in TilesOf(p) |-> c_tiles[p][t]]]
  BY DEF Summing, Shapes
<1>12. c_tiles' = [c_tiles EXCEPT ![p0][t0] = Append(<<>>, AllSplits(p0, t0))]
  BY <1>1, <1>4, <1>5, <1>6, <1>8, <1>10
<1>13. Append(<<>>, AllSplits(p0, t0)) = <<AllSplits(p0, t0)>>
  <2>1. \A x : Append(<<>>, x) = <<x>>
    OBVIOUS
  <2>2. QED
    BY <2>1
<1>14. PICK new : new = <<AllSplits(p0, t0)>> /\ new # <<>>
  <2>1. \A x : <<x>> # <<>>
    OBVIOUS
  <2>2. QED
    BY <2>1
<1>15. c_tiles' = [c_tiles EXCEPT ![p0][t0] = new]
  BY <1>12, <1>13, <1>14
<1>16. \A p \in Index : \A t \in TilesOf(p) :
         c_tiles'[p][t] = IF p = p0 /\ t = t0 THEN new ELSE c_tiles[p][t]
  BY <1>11, <1>15
<1>17. c_tiles' = [p \in Index |-> [t \in TilesOf(p) |-> c_tiles'[p][t]]]
  BY <1>11, <1>15
<1>18. counters' \in [Counters -> Nat] /\ counters'[Scratch[p0] + t0] = 0
       /\ \A n \in Counters : n # Scratch[p0] + t0 => counters'[n] = counters[n]
  BY <1>1, <1>6 DEF Summing, Shapes
<1>19. Shapes'
  BY ZenonT(30), <1>1, <1>17, <1>18 DEF Summing, Shapes, TilesOf
<1>20. ASSUME NEW p \in Index, NEW t \in TilesOf(p), ~ (p = p0 /\ t = t0)
       PROVE  Open(p, t)' <=> Open(p, t)
  BY <1>7, <1>16, <1>20 DEF Open
<1>21. ASSUME NEW p \in Index, NEW t \in TilesOf(p), ~ (p = p0 /\ t = t0), Split(p), Open(p, t)
       PROVE  Scratch[p] + t # Scratch[p0] + t0
  <2>1. PICK s \in Sums(p) : Added(p, t, s)
    BY <1>21 DEF Open, AddedSplits
  <2>2. Published(p, t, s) /\ c_tiles[p][t] = <<>>
    BY <1>21, <2>1, AddedIsPublished DEF Open
  <2>3. QED
    BY <1>1, <1>4, <1>21, <2>2, OneCounter
<1>22. LastAt(c, p0, t0)
  BY <1>1, <1>4, <1>5 DEF LastAt
<1>23. ASSUME NEW d \in Cta, d # c, NEW p \in Index, NEW t \in TilesOf(p)
       PROVE  (LastAt(d, p, t)' <=> LastAt(d, p, t)) /\ Tile(d)' = Tile(d)
  BY <1>1, <1>2, <1>23 DEF LastAt, Tile, Now
<1>24. \A p \in Index : \A t \in TilesOf(p) : ~ LastAt(c, p, t)'
  BY <1>3 DEF LastAt
<1>25. ASSUME NEW p \in Index, NEW t \in TilesOf(p), Split(p)
       PROVE  TileSummed(p, t)'
  <2>1. TileSummed(p, t)
    BY <1>25 DEF Summing
  <2>2. CASE p = p0 /\ t = t0
    <3>1. c_tiles'[p0][t0] = <<AllSplits(p0, t0)>> /\ c_tiles'[p0][t0] # <<>>
      BY <1>14, <1>16
    <3>2. AddedSplits(p0, t0)' = Sums(p0)
      BY <1>7, <1>8
    <3>3. QED
      BY <2>2, <3>1, <3>2 DEF TileSummed, Open, AllSplits, Sums
  <2>3. CASE ~ (p = p0 /\ t = t0)
    <3>1. AddedSplits(p, t)' = AddedSplits(p, t) /\ (Open(p, t)' <=> Open(p, t)) /\ c_tiles'[p][t] = c_tiles[p][t]
      BY <1>7, <1>16, <1>20, <2>3
    <3>2. \A s \in Sums(p) : Published(p, t, s)' <=> Published(p, t, s)
      BY <1>7
    <3>3. Open(p, t) => counters'[Scratch[p] + t] = counters[Scratch[p] + t]
      <4>1. Scratch[p] + t \in Counters
        BY <1>25, ScratchIs DEF TilesOf
      <4>2. QED
        BY <1>18, <1>21, <1>25, <2>3, <4>1
    <3>4. (\E d \in Cta : LastAt(d, p, t)) => \E d \in Cta : LastAt(d, p, t)'
      <4>1. ~ LastAt(c, p, t)
        BY <1>4, <1>5, <2>3 DEF LastAt
      <4>2. QED
        BY <1>23, <4>1
    <3>5. QED
      BY <1>1, <2>1, <3>1, <3>2, <3>3, <3>4 DEF TileSummed, AllSplits, Sums
  <2>4. QED
    BY <2>2, <2>3
<1>26. ASSUME NEW n \in Counters, Unused(n)' PROVE counters'[n] = 0
  <2>1. CASE n = Scratch[p0] + t0
    BY <1>18, <2>1
  <2>2. CASE n # Scratch[p0] + t0
    <3>1. Unused(n)
      BY <1>20, <1>26, <2>2 DEF Unused, Split
    <3>2. QED
      BY <1>18, <2>2, <3>1 DEF Summing
  <2>3. QED
    BY <2>1, <2>2
<1>27. ASSUME NEW d \in Cta, epilogue'[d] = "last" PROVE LastIs(d)'
  <2>1. d # c
    BY <1>3, <1>27
  <2>2. epilogue[d] = "last"
    BY <1>2, <1>27, <2>1
  <2>3. at[d] = "gemm" /\ stored[d] < UnitsOf[d][phase[d]]
    BY <2>2 DEF Working
  <2>4. PICK p \in Index : p = phase[d]
    BY <2>3, CurrentUnit
  <2>5. PICK t \in TilesOf(p) : t = Tile(d)
    BY <2>3, <2>4, CurrentUnit
  <2>6. LastIs(d)
    BY <2>2 DEF Summing
  <2>7. LastAt(d, p, t)
    BY <2>2, <2>4, <2>5 DEF LastAt
  <2>8. ~ (p = p0 /\ t = t0)
    BY <1>22, <2>1, <2>7 DEF Summing
  <2>9. AddedSplits(p, t)' = AddedSplits(p, t) /\ c_tiles'[p][t] = c_tiles[p][t]
    BY <1>7, <1>16, <2>8
  <2>10. phase'[d] = p /\ Tile(d)' = t
    BY <1>1, <1>23, <2>1, <2>4, <2>5
  <2>11. QED
    BY <2>4, <2>5, <2>6, <2>9, <2>10 DEF LastIs, Sums
<1>28. \A e, d \in Cta : \A p \in Index : \A t \in TilesOf(p) : LastAt(e, p, t)' /\ LastAt(d, p, t)' => e = d
  BY <1>23, <1>24 DEF Summing
<1>29. \A p : Split(p)' <=> Split(p)
  BY DEF Split
<1>30. QED
  BY <1>19, <1>25, <1>26, <1>27, <1>28, <1>29 DEF Summing

LEMMA SummingKeeps == Walk /\ Working /\ Summing /\ [Next]_vars => Summing'
<1> SUFFICES ASSUME Walk, Working, Summing, [Next]_vars PROVE Summing'
  OBVIOUS
<1>1. \A c \in Cta : epilogue[c] # "none" => at[c] = "gemm" /\ stored[c] < UnitsOf[c][phase[c]]
  BY DEF Working
<1>2. ASSUME NEW c \in Cta, at[c] # "gemm",
             SkipBody(c) \/ GemmBody(c) \/ Continue(c) \/ Arrive(c) \/ Preload(c) \/ Wait(c)
      PROVE  Summing'
  <2>1. UNCHANGED <<epilogue, counters, partials, c_tiles>>
    BY <1>2 DEF SkipBody, GemmBody, Continue, Arrive, Preload, Wait, pipe, global
  <2>2. \A p \in Index : \A u \in 0 .. Units[p] - 1 : UnitOver(p, u)' <=> UnitOver(p, u)
    BY <1>2, NoUnitFinished
  <2>3. ASSUME NEW d \in Cta, d # c PROVE phase'[d] = phase[d] /\ stored'[d] = stored[d]
    BY <1>2, <2>3, NextPhaseIs DEF SkipBody, GemmBody, Continue, Arrive, Preload, Wait, pipe, Walk, Working
  <2>4. \A d \in Cta : epilogue[d] # "none" => phase'[d] = phase[d] /\ stored'[d] = stored[d]
    BY <1>1, <1>2, <2>3
  <2>5. Shapes'
    BY <2>1 DEF Summing, Shapes
  <2>6. QED
    BY <2>1, <2>2, <2>4, <2>5, SplitsStay
<1>3. ASSUME NEW c \in Cta, EndGemm(c) PROVE Summing'
  <2>1. UNCHANGED <<epilogue, counters, partials, c_tiles, phase, stored>>
    BY <1>3 DEF EndGemm, pipe, global
  <2>2. \A p \in Index : \A u \in 0 .. Units[p] - 1 : UnitOver(p, u)' <=> UnitOver(p, u)
    BY <1>3, NoUnitFinished
  <2>3. Shapes'
    BY <2>1 DEF Summing, Shapes
  <2>4. QED
    BY <2>1, <2>2, <2>3, SplitsStay
<1>4. ASSUME NEW c \in Cta, OtherBody(c) PROVE Summing'
  <2>1. UNCHANGED <<epilogue, counters, partials, c_tiles, phase, stored>> /\ ~ Split(phase[c])
    BY <1>4 DEF OtherBody, pipe, Split
  <2>2. ASSUME NEW p \in Index, Split(p), NEW u \in 0 .. Units[p] - 1
        PROVE  UnitOver(p, u)' <=> UnitOver(p, u)
    BY <1>4, <2>1, <2>2, BodyFinished
  <2>3. Shapes'
    BY <2>1 DEF Summing, Shapes
  <2>4. QED
    BY <2>1, <2>2, <2>3, SplitsStay
<1>5. ASSUME NEW c \in Cta, Store(c) PROVE Summing'
  <2>1. /\ at[c] = "gemm" /\ stored[c] < UnitsOf[c][phase[c]] /\ ~ Split(phase[c])
        /\ UNCHANGED <<phase, at, counters, partials>>
        /\ c_tiles' = [c_tiles EXCEPT ![phase[c]][Tile(c)] = Append(@, [s \in {0} |-> Own(c)])]
        /\ stored' = [stored EXCEPT ![c] = @ + 1] /\ epilogue' = [epilogue EXCEPT ![c] = "none"]
    BY <1>5 DEF Store, StoreTile, MainLoopOver
  <2>2. epilogue[c] = "none" /\ epilogue' = epilogue
    BY <2>1 DEF Working
  <2>3. ASSUME NEW p \in Index, Split(p), NEW u \in 0 .. Units[p] - 1
        PROVE  UnitOver(p, u)' <=> UnitOver(p, u)
    BY <2>1, <2>3, OneFinished
  <2>4. c_tiles = [p \in Index |-> [t \in TilesOf(p) |-> c_tiles[p][t]]]
    BY DEF Summing, Shapes
  <2>5. c_tiles' = [p \in Index |-> [t \in TilesOf(p) |-> c_tiles'[p][t]]]
    BY <2>1, <2>4
  <2>6. \A p \in Index : Split(p) => c_tiles'[p] = c_tiles[p]
    BY <2>1, <2>4
  <2>7. Shapes'
    BY <2>1, <2>5 DEF Summing, Shapes, TilesOf
  <2>8. \A d \in Cta : epilogue[d] # "none" => phase'[d] = phase[d] /\ stored'[d] = stored[d]
    BY <2>1, <2>2 DEF Working
  <2>9. QED
    BY <2>1, <2>2, <2>3, <2>6, <2>7, <2>8, SplitsStay
<1>6. ASSUME NEW c \in Cta, UNCHANGED <<phase, at, stored, epilogue, counters, partials, c_tiles>> PROVE Summing'
  <2>1. \A p \in Index : \A u \in 0 .. Units[p] - 1 : UnitOver(p, u)' <=> UnitOver(p, u)
    BY <1>6, NoUnitFinished
  <2>2. Shapes'
    BY <1>6 DEF Summing, Shapes
  <2>3. QED
    BY <1>6, <2>1, <2>2, SplitsStay
<1>7. ASSUME NEW c \in Cta, Produce(c) \/ Multiply(c) \/ FinishMultiply(c) \/ Release(c) \/ Land(c) PROVE Summing'
  <2>1. UNCHANGED <<phase, at, stored, epilogue, counters, partials, c_tiles>>
    BY <1>7 DEF Produce, Multiply, FinishMultiply, Release, Land, pipe, global
  <2>2. QED
    BY <1>6, <2>1
<1>8. ASSUME UNCHANGED vars PROVE Summing'
  <2>1. 0 \in Cta
    BY GridAssumption DEF Cta
  <2>2. UNCHANGED <<phase, at, stored, epilogue, counters, partials, c_tiles>>
    BY <1>8 DEF vars, pipe, global
  <2>3. QED
    BY <1>6, <2>1, <2>2
<1>9. \A c \in Cta : SkipBody(c) \/ GemmBody(c) \/ Continue(c) \/ Arrive(c) \/ Preload(c) \/ Wait(c) => at[c] # "gemm"
  BY DEF SkipBody, GemmBody, Continue, Arrive, Preload, Wait
<1>10. \A c \in Cta : SkipBody(c) \/ GemmBody(c) \/ Continue(c) \/ Arrive(c) \/ Preload(c) \/ Wait(c) => Summing'
  BY <1>2, <1>9
<1>11. \A c \in Cta : Publish(c) \/ CountSplit(c) \/ SumSplits(c) => Summing'
  BY PublishKeeps, CountKeeps, SumKeeps
<1>12. QED
  BY <1>3, <1>4, <1>5, <1>7, <1>8, <1>10, <1>11 DEF Next, Done, CtaStep

-----------------------------------------------------------------------------
(* A tile of a GEMM without splits is stored once its unit is over.        *)

Whole ==
  \A p \in Index : Phases[p].gemm /\ ~ Split(p) =>
    \A t \in TilesOf(p) :
      c_tiles[p][t] = IF UnitOver(p, UnitOf(p, t, 0)) THEN <<AllSplits(p, t)>> ELSE <<>>

LEMMA WholeInit == Init => Whole
<1> SUFFICES ASSUME Init PROVE Whole
  OBVIOUS
<1>1. /\ phase = [c \in Cta |-> 1] /\ at = [c \in Cta |-> "phase"]
      /\ c_tiles = [p \in Index |-> [t \in TilesOf(p) |-> <<>>]]
  BY DEF Init, TilesOf
<1>2. \A p \in Index : \A u \in 0 .. Units[p] - 1 : ~ UnitOver(p, u)
  BY <1>1, OwnersUnit, PhasesAssumption DEF UnitOver, Over, Through
<1>3. \A p \in Index : 0 \in Sums(p)
  BY PhasesAssumption DEF Sums
<1>4. ASSUME NEW p \in Index, NEW t \in TilesOf(p) PROVE c_tiles[p][t] = <<>> /\ ~ UnitOver(p, UnitOf(p, t, 0))
  BY <1>1, <1>2, <1>3, UnitOfIs DEF TilesOf
<1>5. QED
  BY <1>4 DEF Whole

LEMMA WholeKeeps == Walk /\ Working /\ Summing /\ Whole /\ [Next]_vars => Whole'
<1> SUFFICES ASSUME Walk, Working, Summing, Whole, [Next]_vars PROVE Whole'
  OBVIOUS
<1>1. \A p \in Index : \A t \in TilesOf(p) : UnitOf(p, t, 0) \in 0 .. Units[p] - 1
  <2>1. \A p \in Index : 0 \in Sums(p)
    BY PhasesAssumption DEF Sums
  <2>2. QED
    BY <2>1, UnitOfIs DEF TilesOf
<1>2. ASSUME \A p \in Index : Phases[p].gemm /\ ~ Split(p) =>
               /\ c_tiles'[p] = c_tiles[p]
               /\ \A u \in 0 .. Units[p] - 1 : UnitOver(p, u)' <=> UnitOver(p, u)
      PROVE  Whole'
  BY <1>1, <1>2 DEF Whole, AllSplits, Sums, Split, TilesOf, UnitOf
<1>3. ASSUME NEW c \in Cta,
             SkipBody(c) \/ GemmBody(c) \/ EndGemm(c) \/ Continue(c) \/ Arrive(c) \/ Preload(c) \/ Wait(c)
      PROVE  Whole'
  <2>1. c_tiles' = c_tiles
    BY <1>3 DEF SkipBody, GemmBody, EndGemm, Continue, Arrive, Preload, Wait, global
  <2>2. \A p \in Index : \A u \in 0 .. Units[p] - 1 : UnitOver(p, u)' <=> UnitOver(p, u)
    BY <1>3, NoUnitFinished
  <2>3. QED
    BY <1>2, <2>1, <2>2
<1>4. ASSUME NEW c \in Cta, UNCHANGED <<phase, at, stored, c_tiles>> PROVE Whole'
  BY <1>2, <1>4, NoUnitFinished
<1>5. ASSUME NEW c \in Cta, Produce(c) \/ Multiply(c) \/ FinishMultiply(c) \/ Release(c) \/ Land(c) \/ Publish(c)
      PROVE  Whole'
  <2>1. UNCHANGED <<phase, at, stored, c_tiles>>
    BY <1>5 DEF Produce, Multiply, FinishMultiply, Release, Land, Publish, pipe, global
  <2>2. QED
    BY <1>4, <2>1
<1>6. ASSUME NEW c \in Cta, OtherBody(c) PROVE Whole'
  <2>1. c_tiles' = c_tiles /\ ~ Phases[phase[c]].gemm
    BY <1>6 DEF OtherBody
  <2>2. ASSUME NEW p \in Index, Phases[p].gemm, NEW u \in 0 .. Units[p] - 1
        PROVE  UnitOver(p, u)' <=> UnitOver(p, u)
    BY <1>6, <2>1, <2>2, BodyFinished
  <2>3. QED
    BY <1>2, <2>1, <2>2
<1>7. ASSUME NEW c \in Cta, CountSplit(c) \/ SumSplits(c) PROVE Whole'
  <2>1. /\ at[c] = "gemm" /\ stored[c] < UnitsOf[c][phase[c]] /\ Split(phase[c])
        /\ UNCHANGED <<phase, at>> /\ (stored' = stored \/ stored' = [stored EXCEPT ![c] = @ + 1])
    BY <1>7 DEF CountSplit, SumSplits, StoreTile, Working
  <2>2. c_tiles = [p \in Index |-> [t \in TilesOf(p) |-> c_tiles[p][t]]]
    BY DEF Summing, Shapes
  <2>3. \A p \in Index : ~ Split(p) => c_tiles'[p] = c_tiles[p]
    <3>1. CASE c_tiles' = c_tiles
      BY <3>1
    <3>2. CASE \E x : c_tiles' = [c_tiles EXCEPT ![phase[c]][Tile(c)] = x]
      BY <2>1, <2>2, <3>2
    <3>3. SumSplits(c) => c_tiles' = [c_tiles EXCEPT ![phase[c]][Tile(c)] =
                            Append(c_tiles[phase[c]][Tile(c)], [s \in Sums(phase[c]) |-> partials[CounterOf(c)][s]])]
      <4>1. SumSplits(c) => c_tiles' = [c_tiles EXCEPT ![phase[c]][Tile(c)] =
                              Append(@, [s \in Sums(phase[c]) |-> partials[CounterOf(c)][s]])]
        BY DEF SumSplits, StoreTile
      <4>2. QED
        BY <4>1
    <3>4. CountSplit(c) => c_tiles' = c_tiles
      BY DEF CountSplit
    <3>5. QED
      BY <1>7, <3>1, <3>2, <3>3, <3>4
  <2>4. ASSUME NEW p \in Index, ~ Split(p), NEW u \in 0 .. Units[p] - 1
        PROVE  UnitOver(p, u)' <=> UnitOver(p, u)
    <3>1. CASE stored' = stored
      BY <2>1, <3>1, NoUnitFinished
    <3>2. CASE stored' = [stored EXCEPT ![c] = @ + 1]
      BY <2>1, <2>4, <3>2, OneFinished
    <3>3. QED
      BY <2>1, <3>1, <3>2
  <2>5. QED
    BY <1>2, <2>3, <2>4
<1>8. ASSUME NEW c \in Cta, Store(c) PROVE Whole'
  <2>1. /\ at[c] = "gemm" /\ stored[c] < UnitsOf[c][phase[c]] /\ ~ Split(phase[c])
        /\ UNCHANGED <<phase, at>>
        /\ c_tiles' = [c_tiles EXCEPT ![phase[c]][Tile(c)] = Append(@, [s \in {0} |-> Own(c)])]
        /\ stored' = [stored EXCEPT ![c] = @ + 1]
    BY <1>8 DEF Store, StoreTile, MainLoopOver
  <2>2. PICK p0 \in Index : p0 = phase[c] /\ Phases[p0].gemm
    BY <2>1, CurrentUnit DEF Walk, Place
  <2>3. PICK t0 \in TilesOf(p0) : t0 = Tile(c)
    BY <2>1, <2>2, CurrentUnit
  <2>4. Sums(p0) = {0}
    <3>1. Phases[p0].splits \in Nat \ {0} /\ ~ (Phases[p0].splits > 1)
      BY <2>1, <2>2, PhasesAssumption DEF Split
    <3>2. QED
      BY <3>1 DEF Sums
  <2>5. CurrentSplit(c) = 0 /\ UnitOf(p0, t0, 0) = Now(c) /\ Now(c) \in 0 .. Units[p0] - 1
    BY <2>1, <2>2, <2>3, <2>4, CurrentUnit
  <2>6. Own(c) = Result(p0, t0, 0)
    BY <2>2, <2>3, <2>5 DEF Own, CurrentSplit
  <2>7. [s \in {0} |-> Own(c)] = AllSplits(p0, t0)
    BY <2>4, <2>6 DEF AllSplits
  <2>8. \A p \in Index : \A u \in 0 .. Units[p] - 1 :
          /\ UnitOver(p, u)' <=> UnitOver(p, u) \/ (p = p0 /\ u = Now(c))
          /\ p = p0 /\ u = Now(c) => ~ UnitOver(p, u)
    BY <2>1, <2>2, OneFinished DEF Now
  <2>9. c_tiles[p0][t0] = <<>>
    <3>1. ~ UnitOver(p0, UnitOf(p0, t0, 0))
      BY <2>5, <2>8
    <3>2. c_tiles[p0][t0] = IF UnitOver(p0, UnitOf(p0, t0, 0)) THEN <<AllSplits(p0, t0)>> ELSE <<>>
      BY <2>1, <2>2 DEF Whole
    <3>3. QED
      BY <3>1, <3>2
  <2>10. Append(<<>>, AllSplits(p0, t0)) = <<AllSplits(p0, t0)>>
    <3>1. \A x : Append(<<>>, x) = <<x>>
      OBVIOUS
    <3>2. QED
      BY <3>1
  <2>11. PICK new : new = <<AllSplits(p0, t0)>>
    OBVIOUS
  <2>12. c_tiles' = [c_tiles EXCEPT ![p0][t0] = new]
    BY <2>1, <2>2, <2>3, <2>7, <2>9, <2>10, <2>11
  <2>13. c_tiles = [p \in Index |-> [t \in TilesOf(p) |-> c_tiles[p][t]]]
    BY DEF Summing, Shapes
  <2>14. \A p \in Index : \A t \in TilesOf(p) :
           c_tiles'[p][t] = IF p = p0 /\ t = t0 THEN new ELSE c_tiles[p][t]
    BY <2>12, <2>13
  <2>15. ASSUME NEW p \in Index, Phases[p].gemm /\ ~ Split(p), NEW t \in TilesOf(p)
         PROVE  c_tiles'[p][t] = IF UnitOver(p, UnitOf(p, t, 0))' THEN <<AllSplits(p, t)>> ELSE <<>>
    <3>1. c_tiles[p][t] = IF UnitOver(p, UnitOf(p, t, 0)) THEN <<AllSplits(p, t)>> ELSE <<>>
      BY <2>15 DEF Whole
    <3>2. CASE p = p0 /\ t = t0
      BY <2>5, <2>8, <2>11, <2>14, <3>2
    <3>3. CASE ~ (p = p0 /\ t = t0)
      <4>1. c_tiles'[p][t] = c_tiles[p][t]
        BY <2>14, <3>3
      <4>2. ~ (p = p0 /\ UnitOf(p, t, 0) = Now(c))
        <5>1. 0 \in Sums(p)
          BY PhasesAssumption DEF Sums
        <5>2. TileOf(p, UnitOf(p, t, 0)) = t
          BY <5>1, UnitOfIs DEF TilesOf
        <5>3. TileOf(p0, UnitOf(p0, t0, 0)) = t0
          BY <2>4, UnitOfIs DEF TilesOf
        <5>4. QED
          BY <2>5, <3>3, <5>2, <5>3
      <4>3. UnitOver(p, UnitOf(p, t, 0))' <=> UnitOver(p, UnitOf(p, t, 0))
        BY <1>1, <2>8, <4>2
      <4>4. QED
        BY <3>1, <4>1, <4>3
    <3>4. QED
      BY <3>2, <3>3
  <2>16. QED
    BY <2>15 DEF Whole, AllSplits, Sums, Split, TilesOf, UnitOf
<1>9. ASSUME UNCHANGED vars PROVE Whole'
  <2>1. 0 \in Cta
    BY GridAssumption DEF Cta
  <2>2. UNCHANGED <<phase, at, stored, c_tiles>>
    BY <1>9 DEF vars, pipe, global
  <2>3. QED
    BY <1>4, <2>1, <2>2
<1>10. QED
  BY <1>3, <1>5, <1>6, <1>7, <1>8, <1>9 DEF Next, Done, CtaStep

-----------------------------------------------------------------------------
(* What is stored, and what is left behind.                                *)

Inv == Walk /\ Working /\ Written /\ Summing /\ Whole

LEMMA InvHolds == Spec => []Inv
<1>1. Init => Inv
  BY WalkInit, WrittenInit, SummingInit, WholeInit DEF Inv
<1>2. Inv /\ [Next]_vars => Inv'
  BY WalkKeeps, WorkingKeeps, WrittenKeeps, SummingKeeps, WholeKeeps DEF Inv
<1>3. QED
  BY <1>1, <1>2, PTL DEF Spec

(* When everybody is through with a phase its tiles are stored.            *)
LEMMA AllStored ==
  ASSUME Inv, NEW p \in Index, Split(p), \A d \in Cta : Through(d, p), NEW t \in TilesOf(p)
  PROVE  c_tiles[p][t] # <<>>
<1>1. \A u \in 0 .. Units[p] - 1 : UnitOver(p, u)
  BY AllOver DEF Inv
<1>2. \A s \in Sums(p) : Added(p, t, s)
  BY <1>1, UnitOfIs DEF Added, TilesOf
<1>3. AddedSplits(p, t) = Sums(p)
  BY <1>2 DEF AddedSplits
<1>4. TileSummed(p, t)
  BY DEF Inv, Summing
<1>5. ASSUME NEW c \in Cta, LastAt(c, p, t) PROVE FALSE
  <2>1. phase[c] = p /\ at[c] = "gemm"
    BY <1>5 DEF LastAt, Inv, Working
  <2>2. QED
    BY <2>1, PhasesAssumption DEF Through
<1>6. QED
  BY <1>3, <1>4, <1>5 DEF TileSummed

LEMMA BehindIsThrough ==
  ASSUME Inv, NEW p \in Index, Behind(p), NEW d \in Cta
  PROVE  Through(d, p)
<1>1. CASE Ended
  <2>1. at[d] = "end" /\ phase[d] = Len(Phases)
    BY <1>1 DEF Ended, Inv, Walk, Place
  <2>2. QED
    BY <2>1, PhasesAssumption DEF Through
<1>2. CASE \E c \in Cta : at[c] = "phase" /\ Interval[p] < Interval[phase[c]]
  <2>1. PICK c \in Cta : at[c] = "phase" /\ Interval[p] < Interval[phase[c]]
    BY <1>2
  <2>2. LeftAt(c) = Interval[phase[c]]
    BY <2>1, Counted DEF LeftAt, Inv
  <2>3. QED
    BY <2>1, <2>2, AllThrough DEF Inv
<1>3. QED
  BY <1>1, <1>2 DEF Behind

(* What is stored for a tile is the sum of all its splits, once, and       *)
(* behind the barrier every tile is stored: _reduce_splits' counter and    *)
(* partials hold over CTAs that finish their splits in any order, and over *)
(* intervals that use the same scratch again.                              *)
THEOREM TilesSummed == Spec => []SplitsSummed
<1>1. Inv => SplitsSummed
  <2> SUFFICES ASSUME Inv PROVE SplitsSummed
    OBVIOUS
  <2>0. \A p \in Index : DOMAIN c_tiles[p] = TilesOf(p)
    <3>1. c_tiles = [p \in Index |-> [t \in TilesOf(p) |-> c_tiles[p][t]]]
      BY DEF Inv, Summing, Shapes
    <3>2. QED
      BY <3>1
  <2> SUFFICES ASSUME NEW p \in Index, Phases[p].gemm, NEW t \in TilesOf(p)
               PROVE  \/ c_tiles[p][t] = <<AllSplits(p, t)>>
                      \/ c_tiles[p][t] = <<>> /\ ~ Behind(p)
    BY <2>0 DEF SplitsSummed, AllSplits
  <2>1. CASE Split(p)
    <3>1. TileSummed(p, t)
      BY <2>1 DEF Inv, Summing
    <3>2. Behind(p) => c_tiles[p][t] # <<>>
      BY <2>1, BehindIsThrough, AllStored
    <3>3. QED
      BY <3>1, <3>2 DEF TileSummed
  <2>2. CASE ~ Split(p)
    <3>1. c_tiles[p][t] = IF UnitOver(p, UnitOf(p, t, 0)) THEN <<AllSplits(p, t)>> ELSE <<>>
      BY <2>2 DEF Inv, Whole
    <3>2. Behind(p) => UnitOver(p, UnitOf(p, t, 0))
      <4>1. 0 \in Sums(p)
        BY PhasesAssumption DEF Sums
      <4>2. UnitOf(p, t, 0) \in 0 .. Units[p] - 1
        BY <4>1, UnitOfIs DEF TilesOf
      <4>3. QED
        BY <4>2, BehindIsThrough, AllOver DEF Inv
    <3>3. QED
      BY <3>1, <3>2
  <2>3. QED
    BY <2>1, <2>2
<1>2. QED
  BY <1>1, InvHolds, PTL

(* At a barrier everybody is through with what anybody published.          *)
LEMMA BarrierIsThrough ==
  ASSUME Inv, AtBarrier, NEW p \in Index, NEW e \in Cta, Through(e, p), NEW d \in Cta
  PROVE  Through(d, p)
<1>1. PICK q \in Index : q = phase[d]
  BY Counted DEF Inv
<1>2. PICK r \in Index : r = phase[e]
  BY Counted DEF Inv
<1>3. /\ p \in Nat /\ q \in Nat /\ r \in Nat /\ p <= Len(Phases)
      /\ Interval[p] \in Nat /\ Interval[q] \in Nat /\ Interval[r] \in Nat
  <2>1. Interval[p] \in Nat /\ Interval[q] \in Nat /\ Interval[r] \in Nat
    BY IntervalIs
  <2>2. QED
    BY <2>1, PhasesAssumption
<1>4. p <= r /\ Interval[p] <= Interval[r]
  <2>1. p <= r
    BY <1>2, <1>3 DEF Through
  <2>2. QED
    BY <2>1, IntervalsGrow
<1>5. at[d] \in {"arrived", "wait", "end"} /\ Interval[q] = Interval[r]
  BY <1>1, <1>2 DEF AtBarrier
<1>6. ~ (q < p)
  <2>1. CASE at[d] = "end"
    BY <1>1, <1>3, <2>1 DEF Inv, Walk, Place
  <2>2. CASE at[d] \in {"arrived", "wait"}
    <3>1. Barrier(q)
      BY <1>1, <2>2 DEF Inv, Walk, Place
    <3>2. q < p => Interval[q] + 1 <= Interval[p]
      BY <1>3, <3>1, IntervalsGrow
    <3>3. QED
      BY <1>3, <1>4, <1>5, <3>2
  <2>3. QED
    BY <1>5, <2>1, <2>2
<1>7. QED
  BY <1>1, <1>3, <1>5, <1>6 DEF Through

(* The split counters are zero when all CTAs have come to a barrier: each  *)
(* last split's reset is what the next interval and the next launch start  *)
(* from.                                                                   *)
THEOREM CountersAtRest == Spec => []CountersRest
<1>1. Inv => CountersRest
  <2> SUFFICES ASSUME Inv, AtBarrier, NEW n \in Counters PROVE counters[n] = 0
    BY DEF CountersRest
  <2>1. ASSUME NEW p \in Index, Split(p), NEW t \in TilesOf(p), Open(p, t) PROVE FALSE
    <3>1. PICK s \in Sums(p) : Added(p, t, s)
      BY <2>1 DEF Open, AddedSplits
    <3>2. PICK u \in 0 .. Units[p] - 1 : u = UnitOf(p, t, s)
      BY UnitOfIs DEF TilesOf
    <3>3. PICK e \in Cta : e = Owner(p, u)
      BY OwnersUnit
    <3>4. at[e] # "gemm" /\ epilogue[e] = "none"
      BY DEF AtBarrier, Inv, Working
    <3>5. UnitOver(p, u)
      BY <3>1, <3>2, <3>3, <3>4 DEF Added, AtEnd
    <3>6. Through(e, p)
      BY <3>3, <3>4, <3>5 DEF UnitOver, Over
    <3>7. c_tiles[p][t] # <<>>
      BY <2>1, <3>6, BarrierIsThrough, AllStored
    <3>8. QED
      BY <2>1, <3>7 DEF Open
  <2>2. Unused(n)
    BY <2>1 DEF Unused
  <2>3. QED
    BY <2>2 DEF Inv, Summing
<1>2. QED
  BY <1>1, InvHolds, PTL

-----------------------------------------------------------------------------
(* The stages of a CTA.                                                    *)

Upto(i, x) == IF i < x THEN x ELSE i

(* What the n-th K tile of a CTA in phase p is to find in its stage.       *)
Wanted(c, p, n) == Operands(p, Unit(c, p, n \div Phases[p].depth), n % Phases[p].depth)

(* A stage at rest, before its use n: no copy is on its way.               *)
Idle(c, n) ==
  /\ full[c][StageOf(n)].parity = ParityOf(n) /\ full[c][StageOf(n)].landed = {}
  /\ \A y \in copies[c] : y.stage # StageOf(n)

(* A stage in its use m, of which i K tiles have been asked for, while the *)
(* operands come in.                                                       *)
Filling(c, p, m, i) ==
  /\ full[c][StageOf(m)].parity = ParityOf(m)
  /\ \A o \in full[c][StageOf(m)].landed :
       data[c][StageOf(m)][o] = Wanted(c, p, m)[o] /\ (o = "B" => m < i)
  /\ \A y \in copies[c] : y.stage = StageOf(m) =>
       \E o \in {"A", "B"} \ full[c][StageOf(m)].landed :
         y = Copy(StageOf(m), o, Wanted(c, p, m)[o]) /\ (o = "B" => m < i)

(* A stage whose next use is n: the use before is complete or filling.     *)
Before(c, p, n, i, r) ==
  \/ /\ Idle(c, n)
     /\ n >= Stages => n - Stages < i /\ data[c][StageOf(n)] = Wanted(c, p, n - Stages)
  \/ n >= Stages /\ r <= n - Stages /\ Filling(c, p, n - Stages, i)

(* Of phase p i K tiles have been asked for, the weights of x beforehand,  *)
(* r have been read and l given back.                                      *)
Pipe(c, p, i, x, r, l) ==
  /\ \A y \in copies[c] : y.stage \in Stage
  /\ \A n \in Upto(i, x) .. Upto(i, x) + Stages - 1 : Before(c, p, n, i, r)
  /\ \A n \in l .. l + Stages - 1 : empty[c][StageOf(n)] = ParityOf(n)

(* How far the warps of a CTA are in its phase.                            *)
Counts(c) ==
  /\ stored[c] * Depth(c) <= released[c] /\ released[c] <= finished[c] /\ finished[c] <= read[c]
  /\ read[c] <= issued[c] /\ issued[c] <= Tiles(c)
  /\ read[c] <= stored[c] * Depth(c) + Depth(c)
  /\ streamed[c] <= Depth(c) /\ streamed[c] <= Stages /\ issued[c] <= released[c] + Stages
  /\ epilogue[c] # "none" => released[c] = stored[c] * Depth(c) + Depth(c)

(* The stages hold what a phase to come is to find there.                  *)
Pending(c) == tag[c] > phase[c] \/ (tag[c] = phase[c] /\ at[c] = "phase")

(* It is the CTA's next GEMM, and no barrier is before it but the one the  *)
(* CTA waits at.                                                           *)
NextGemm(c, p) ==
  /\ Phases[p].gemm /\ UnitsOf[c][p] > 0
  /\ \A q \in Index : q < p /\ Interval[q] = Interval[p] => ~ (Phases[q].gemm /\ UnitsOf[c][q] > 0)

Awaited(c, p) ==
  \/ at[c] = "wait" /\ Barrier(phase[c]) /\ Interval[p] = Interval[phase[c]] + 1
  \/ at[c] \in {"phase", "close"} /\ Interval[p] = Interval[phase[c]]

Staged(c) ==
  /\ at[c] = "gemm" =>
       tag[c] <= phase[c] /\ Counts(c) /\ Pipe(c, phase[c], issued[c], streamed[c], read[c], released[c])
  /\ Pending(c) =>
       NextGemm(c, tag[c]) /\ Awaited(c, tag[c]) /\ Pipe(c, tag[c], 0, Streamed(tag[c]), 0, 0)
  /\ at[c] # "gemm" /\ ~ Pending(c) => copies[c] = {}

StageShapes ==
  /\ full = [c \in Cta |-> [s \in Stage |->
       [parity |-> full[c][s].parity, armed |-> full[c][s].armed, landed |-> full[c][s].landed]]]
  /\ \A c \in Cta : \A s \in Stage : full[c][s].landed \in SUBSET {"A", "B"}
  /\ empty = [c \in Cta |-> [s \in Stage |-> empty[c][s]]]
  /\ data = [c \in Cta |-> [s \in Stage |-> [o \in {"A", "B"} |-> data[c][s][o]]]]
  /\ copies = [c \in Cta |-> copies[c]]
  /\ tag \in [Cta -> Index \cup {0}]
  /\ issued \in [Cta -> Nat] /\ streamed \in [Cta -> Nat] /\ read \in [Cta -> Nat]
  /\ finished \in [Cta -> Nat] /\ released \in [Cta -> Nat]

Pipes == StageShapes /\ \A c \in Cta : Staged(c)

(* Nothing of a CTA changes. *)
Same(c) ==
  /\ full'[c] = full[c] /\ empty'[c] = empty[c] /\ data'[c] = data[c] /\ copies'[c] = copies[c]
  /\ phase'[c] = phase[c] /\ at'[c] = at[c] /\ tag'[c] = tag[c] /\ issued'[c] = issued[c]
  /\ streamed'[c] = streamed[c] /\ read'[c] = read[c] /\ finished'[c] = finished[c]
  /\ released'[c] = released[c] /\ stored'[c] = stored[c] /\ epilogue'[c] = epilogue[c]

LEMMA StageIs ==
  ASSUME NEW n \in Nat
  PROVE  /\ StageOf(n) \in Stage /\ n \div Stages \in Nat
         /\ n = StageOf(n) + (n \div Stages) * Stages
         /\ ParityOf(n) \in 0 .. 1
         /\ n < Stages => StageOf(n) = n /\ ParityOf(n) = 0
<1>1. PICK w \in Nat \ {0} : w = Stages
  BY GridAssumption
<1>2. n % w \in 0 .. w - 1 /\ n \div w \in Nat /\ n = (n % w) + (n \div w) * w
  BY DivMod
<1>3. PICK q \in Nat : q = n \div w
  BY <1>2
<1>4. q % 2 \in 0 .. 1
  OBVIOUS
<1>5. n < w => n % w = n /\ q = 0
  <2>1. n < w => (n + 0 * w) % w = n /\ (n + 0 * w) \div w = 0
    BY DivModOnce
  <2>2. n + 0 * w = n
    OBVIOUS
  <2>3. QED
    BY <1>3, <2>1, <2>2
<1>6. 0 % 2 = 0
  OBVIOUS
<1>7. QED
  BY <1>1, <1>2, <1>3, <1>4, <1>5, <1>6 DEF StageOf, ParityOf, Stage

LEMMA NextUse ==
  ASSUME NEW n \in Nat
  PROVE  n + Stages \in Nat /\ StageOf(n + Stages) = StageOf(n) /\ ParityOf(n + Stages) = 1 - ParityOf(n)
<1>1. PICK w \in Nat \ {0} : w = Stages
  BY GridAssumption
<1>2. PICK q \in Nat : q = n \div w
  BY DivMod
<1>3. PICK r \in 0 .. w - 1 : r = n % w
  BY DivMod
<1>4. n = r + q * w
  BY <1>2, <1>3, DivMod
<1>5. n + w = r + (q + 1) * w
  BY <1>4
<1>6. (r + (q + 1) * w) % w = r /\ (r + (q + 1) * w) \div w = q + 1
  BY DivModOnce
<1>7. (q + 1) % 2 = 1 - (q % 2)
  OBVIOUS
<1>8. QED
  BY <1>1, <1>2, <1>3, <1>5, <1>6, <1>7 DEF StageOf, ParityOf

(* The uses from x on, one of each stage.                                  *)
LEMMA SameStage ==
  ASSUME NEW x \in Nat, NEW n \in x .. x + Stages - 1, NEW m \in x .. x + Stages - 1,
         StageOf(n) = StageOf(m)
  PROVE  n = m
<1>1. PICK w \in Nat \ {0} : w = Stages
  BY GridAssumption
<1>2. n \in Nat /\ m \in Nat /\ n - m < w /\ m - n < w
  BY <1>1
<1>3. PICK i \in Nat : i = n \div w
  BY <1>2, DivMod
<1>4. PICK j \in Nat : j = m \div w
  BY <1>2, DivMod
<1>5. n - m = i * w - j * w
  <2>1. PICK r \in 0 .. w - 1 : r = n % w
    BY <1>2, DivMod
  <2>2. PICK s \in 0 .. w - 1 : s = m % w
    BY <1>2, DivMod
  <2>3. r = s
    BY <1>1, <2>1, <2>2 DEF StageOf
  <2>4. n = (n % w) + (n \div w) * w /\ m = (m % w) + (m \div w) * w
    BY <1>2, DivMod
  <2>5. n = r + i * w /\ m = s + j * w
    BY <1>3, <1>4, <2>1, <2>2, <2>4
  <2>6. i * w \in Nat /\ j * w \in Nat
    OBVIOUS
  <2>7. QED
    BY <1>2, <2>3, <2>5, <2>6
<1>6. ~ (i < j)
  <2>1. SUFFICES ASSUME i < j PROVE FALSE
    OBVIOUS
  <2>2. PICK d \in Nat \ {0} : j = i + d
    BY <2>1
  <2>3. j * w = i * w + d * w /\ d * w >= w /\ i * w \in Nat /\ d * w \in Nat
    BY <2>2
  <2>4. QED
    BY <1>2, <1>5, <2>3
<1>7. ~ (j < i)
  <2>1. SUFFICES ASSUME j < i PROVE FALSE
    OBVIOUS
  <2>2. PICK d \in Nat \ {0} : i = j + d
    BY <2>1
  <2>3. i * w = j * w + d * w /\ d * w >= w /\ j * w \in Nat /\ d * w \in Nat
    BY <2>2
  <2>4. QED
    BY <1>2, <1>5, <2>3
<1>8. i = j
  BY <1>6, <1>7
<1>9. QED
  BY <1>2, <1>5, <1>8

LEMMA StageHas ==
  ASSUME NEW s \in Stage, NEW x \in Nat
  PROVE  \E n \in x .. x + Stages - 1 : StageOf(n) = s
<1>1. PICK w \in Nat \ {0} : w = Stages
  BY GridAssumption
<1>2. PICK q \in Nat : q = x \div w
  BY DivMod
<1>3. PICK r \in 0 .. w - 1 : r = x % w
  BY DivMod
<1>4. x = r + q * w /\ q * w \in Nat
  BY <1>2, <1>3, DivMod
<1>5. s \in 0 .. w - 1
  BY <1>1 DEF Stage
<1>6. CASE s >= r
  <2>1. s + q * w \in x .. x + w - 1
    BY <1>3, <1>4, <1>5, <1>6
  <2>2. (s + q * w) % w = s
    BY <1>5, DivModOnce
  <2>3. QED
    BY <1>1, <2>1, <2>2 DEF StageOf
<1>7. CASE s < r
  <2>1. (q + 1) * w = q * w + w
    OBVIOUS
  <2>2. s + (q + 1) * w \in x .. x + w - 1
    BY <1>3, <1>4, <1>5, <1>7, <2>1
  <2>3. (s + (q + 1) * w) % w = s
    BY <1>5, DivModOnce
  <2>4. QED
    BY <1>1, <2>2, <2>3 DEF StageOf
<1>8. QED
  BY <1>5, <1>3, <1>6, <1>7

(* What is wanted: A as it is once the weights are final, and B.           *)
LEMMA WantedIs ==
  ASSUME NEW c \in Cta, NEW p \in Index, NEW n \in Nat
  PROVE  LET u == Unit(c, p, n \div Phases[p].depth)
             k == n % Phases[p].depth
         IN  /\ Wanted(c, p, n)["B"] = B(p, u, k)
             /\ (\A q \in Index : Phases[q].output = Phases[p].a => written[q] = Units[q])
                  => Wanted(c, p, n)["A"] = A(p, u, k)
             /\ Wanted(c, p, n) = [o \in {"A", "B"} |-> Wanted(c, p, n)[o]]
<1> DEFINE u == Unit(c, p, n \div Phases[p].depth)
           k == n % Phases[p].depth
           ready == \A q \in Index : Phases[q].output = Phases[p].a => written[q] = Units[q]
<1>1. "A" # "B"
  OBVIOUS
<1>2. Wanted(c, p, n) = [o \in {"A", "B"} |-> IF o = "A" THEN [phase |-> p, unit |-> u, k |-> k, current |-> TRUE]
                                                        ELSE B(p, u, k)]
  BY DEF Wanted, Operands
<1>3. Wanted(c, p, n)["B"] = B(p, u, k)
  BY <1>1, <1>2
<1>4. Wanted(c, p, n)["A"] = [phase |-> p, unit |-> u, k |-> k, current |-> TRUE]
  BY <1>2
<1>5. ASSUME ready
      PROVE  A(p, u, k) = [phase |-> p, unit |-> u, k |-> k, current |-> TRUE]
  <2>1. ready = TRUE
    BY <1>5
  <2>2. QED
    BY <2>1, Zenon DEF A
<1>6. Wanted(c, p, n) = [o \in {"A", "B"} |-> Wanted(c, p, n)[o]]
  BY <1>2
<1>7. QED
  BY <1>3, <1>4, <1>5, <1>6

LEMMA StreamedIs ==
  ASSUME NEW p \in Index, Phases[p].gemm
  PROVE  Streamed(p) \in Nat /\ Streamed(p) <= Phases[p].depth /\ Streamed(p) <= Stages
BY GridAssumption, PhasesAssumption DEF Streamed, Smaller

(* A step of another CTA. *)
LEMMA PipeStays ==
  ASSUME NEW c \in Cta, full'[c] = full[c], empty'[c] = empty[c], data'[c] = data[c], copies'[c] = copies[c],
         NEW p, NEW i, NEW x, NEW r, NEW l, Pipe(c, p, i, x, r, l)
  PROVE  Pipe(c, p, i, x, r, l)'
BY DEF Pipe, Before, Idle, Filling

LEMMA StagedStays ==
  ASSUME NEW c \in Cta, Staged(c), Same(c)
  PROVE  Staged(c)'
<1>1. Counts(c)' <=> Counts(c)
  BY DEF Same, Counts, Depth, Tiles
<1>2. Pending(c)' <=> Pending(c)
  BY DEF Same, Pending
<1>3. \A p : Awaited(c, p)' <=> Awaited(c, p)
  BY DEF Same, Awaited
<1>4. PICK t : t = tag[c]
  OBVIOUS
<1>5. PICK p : p = phase[c]
  OBVIOUS
<1>6. PICK i : i = issued[c]
  OBVIOUS
<1>7. PICK x : x = streamed[c]
  OBVIOUS
<1>8. PICK r : r = read[c]
  OBVIOUS
<1>9. PICK l : l = released[c]
  OBVIOUS
<1>10. Pipe(c, p, i, x, r, l) => Pipe(c, p, i, x, r, l)'
  BY PipeStays DEF Same
<1>11. Pipe(c, t, 0, Streamed(t), 0, 0) => Pipe(c, t, 0, Streamed(t), 0, 0)'
  BY PipeStays DEF Same
<1>12. QED
  BY <1>1, <1>2, <1>3, <1>4, <1>5, <1>6, <1>7, <1>8, <1>9, <1>10, <1>11 DEF Same, Staged

LEMMA UseBefore ==
  ASSUME NEW n \in Nat, n >= Stages
  PROVE  /\ n - Stages \in Nat /\ (n - Stages) + Stages = n
         /\ StageOf(n - Stages) = StageOf(n) /\ ParityOf(n) = 1 - ParityOf(n - Stages)
<1>1. n - Stages \in Nat /\ (n - Stages) + Stages = n
  BY GridAssumption
<1>2. PICK m \in Nat : m = n - Stages
  BY <1>1
<1>3. QED
  BY <1>1, <1>2, NextUse

(* A step at another stage. *)
LEMMA StageStays ==
  ASSUME NEW c \in Cta, NEW p, NEW n \in Nat, NEW i \in Nat, NEW j \in Nat, NEW r, i <= j,
         Before(c, p, n, i, r),
         full'[c][StageOf(n)] = full[c][StageOf(n)], data'[c][StageOf(n)] = data[c][StageOf(n)],
         \A y \in copies'[c] : y.stage = StageOf(n) => y \in copies[c]
  PROVE  Before(c, p, n, j, r)'
<1>1. CASE Idle(c, n) /\ (n >= Stages => n - Stages < i /\ data[c][StageOf(n)] = Wanted(c, p, n - Stages))
  <2>1. Idle(c, n)'
    BY <1>1 DEF Idle
  <2>2. n >= Stages => n - Stages < j
    BY <1>1, UseBefore
  <2>3. QED
    BY <1>1, <2>1, <2>2 DEF Before
<1>2. CASE n >= Stages /\ r <= n - Stages /\ Filling(c, p, n - Stages, i)
  <2>1. PICK m \in Nat : m = n - Stages /\ StageOf(m) = StageOf(n)
    BY <1>2, UseBefore
  <2>2. m < i => m < j
    OBVIOUS
  <2>3. Filling(c, p, m, j)'
    BY <1>2, <2>1, <2>2 DEF Filling
  <2>4. QED
    BY <1>2, <2>1, <2>3 DEF Before
<1>3. QED
  BY <1>1, <1>2 DEF Before

(* Warp 0 asks for B of a K tile whose A was asked for beforehand.         *)
LEMMA PipeAsks ==
  ASSUME NEW c \in Cta, NEW p \in Index, NEW i \in Nat, NEW x \in Nat, NEW r \in Nat, NEW l \in Nat,
         Pipe(c, p, i, x, r, l), i < x, x <= Stages,
         full'[c] = full[c], empty'[c] = empty[c], data'[c] = data[c],
         copies'[c] = copies[c] \cup {Copy(StageOf(i), "B", Wanted(c, p, i)["B"])}
  PROVE  Pipe(c, p, i + 1, x, r, l)'
<1> DEFINE b == Copy(StageOf(i), "B", Wanted(c, p, i)["B"])
<1>1. Upto(i, x) = x /\ Upto(i + 1, x) = x
  BY DEF Upto
<1>2. PICK w \in Nat \ {0} : w = Stages
  BY GridAssumption
<1>3. i + w \in x .. x + w - 1 /\ i + w \in Nat
  BY <1>2
<1>4. b.stage = StageOf(i) /\ StageOf(i) \in Stage
  BY StageIs DEF Copy
<1>5. ASSUME NEW n \in x .. x + w - 1
      PROVE  Before(c, p, n, i + 1, r)'
  <2>1. Before(c, p, n, i, r) /\ n \in Nat
    BY <1>1, <1>2 DEF Pipe
  <2>2. CASE StageOf(n) # StageOf(i)
    <3>1. \A y \in copies'[c] : y.stage = StageOf(n) => y \in copies[c]
      BY <1>4, <2>2
    <3>2. i <= i + 1 /\ i + 1 \in Nat
      OBVIOUS
    <3>3. QED
      BY <2>1, <3>1, <3>2, StageStays
  <2>3. CASE StageOf(n) = StageOf(i)
    <3>1. n = i + w
      BY <1>2, <1>3, <2>3, NextUse, SameStage
    <3>2. n >= Stages /\ n - Stages = i
      BY <1>2, <3>1
    <3>3. r <= i /\ Filling(c, p, i, i)
      BY <2>1, <3>2 DEF Before
    <3>4. "B" \notin full[c][StageOf(i)].landed
      BY <3>3 DEF Filling
    <3>5. i < i + 1 /\ "B" \in {"A", "B"}
      OBVIOUS
    <3>6. Filling(c, p, i, i + 1)'
      <4>1. \A y \in copies[c] : y.stage = StageOf(i) =>
              \E o \in {"A", "B"} \ full[c][StageOf(i)].landed :
                y = Copy(StageOf(i), o, Wanted(c, p, i)[o]) /\ (o = "B" => i < i + 1)
        BY <3>3, <3>5 DEF Filling
      <4>2. \A y \in copies'[c] : y.stage = StageOf(i) =>
              \E o \in {"A", "B"} \ full[c][StageOf(i)].landed :
                y = Copy(StageOf(i), o, Wanted(c, p, i)[o]) /\ (o = "B" => i < i + 1)
        BY <3>4, <3>5, <4>1
      <4>3. QED
        BY <3>3, <3>5, <4>2 DEF Filling
    <3>7. QED
      BY <3>2, <3>3, <3>6 DEF Before
  <2>4. QED
    BY <2>2, <2>3
<1>6. \A y \in copies'[c] : y.stage \in Stage
  BY <1>4 DEF Pipe
<1>7. \A n \in l .. l + Stages - 1 : empty'[c][StageOf(n)] = ParityOf(n)
  BY DEF Pipe
<1>8. QED
  BY <1>1, <1>2, <1>5, <1>6, <1>7 DEF Pipe

(* Warp 0 takes a stage that was given back and asks for both operands.    *)
LEMMA PipeArms ==
  ASSUME NEW c \in Cta, NEW p \in Index, NEW i \in Nat, NEW x \in Nat, NEW r \in Nat, NEW l \in Nat,
         Pipe(c, p, i, x, r, l), x <= i, r <= i, l <= r, i <= l + Stages,
         empty[c][StageOf(i)] # 1 - ParityOf(i),
         \A s \in Stage : full'[c][s].parity = full[c][s].parity /\ full'[c][s].landed = full[c][s].landed,
         \A s \in Stage : s # StageOf(i) => full'[c][s] = full[c][s],
         empty'[c] = empty[c], data'[c] = data[c],
         copies'[c] = copies[c] \cup {Copy(StageOf(i), "A", Wanted(c, p, i)["A"]),
                                      Copy(StageOf(i), "B", Wanted(c, p, i)["B"])}
  PROVE  Pipe(c, p, i + 1, x, r, l)' /\ i + 1 <= l + Stages
<1> DEFINE a == Copy(StageOf(i), "A", Wanted(c, p, i)["A"])
           b == Copy(StageOf(i), "B", Wanted(c, p, i)["B"])
<1>1. Upto(i, x) = i /\ Upto(i + 1, x) = i + 1
  BY DEF Upto
<1>2. PICK w \in Nat \ {0} : w = Stages
  BY GridAssumption
<1>3. a.stage = StageOf(i) /\ b.stage = StageOf(i) /\ StageOf(i) \in Stage
  BY StageIs DEF Copy
<1>4. i < l + w
  <2>1. SUFFICES ASSUME i = l + w PROVE FALSE
    BY <1>2
  <2>2. StageOf(i) = StageOf(l) /\ ParityOf(i) = 1 - ParityOf(l) /\ ParityOf(l) \in 0 .. 1
    BY <1>2, <2>1, NextUse, StageIs
  <2>3. l \in l .. l + Stages - 1
    BY <1>2
  <2>4. empty[c][StageOf(l)] = ParityOf(l)
    BY <2>3 DEF Pipe
  <2>5. QED
    BY <2>2, <2>4
<1>5. Idle(c, i)
  <2>1. i \in i .. i + w - 1
    BY <1>2
  <2>2. Before(c, p, i, i, r)
    BY <1>1, <1>2, <2>1 DEF Pipe
  <2>3. ~ (i >= Stages /\ r <= i - Stages)
    BY <1>2, <1>4
  <2>4. QED
    BY <2>2, <2>3 DEF Before
<1>6. ASSUME NEW n \in i + 1 .. i + 1 + w - 1
      PROVE  Before(c, p, n, i + 1, r)'
  <2>1. n \in Nat /\ (n \in i .. i + w - 1 \/ n = i + w) /\ n # i
    BY <1>2
  <2>2. CASE n = i + w
    <3>1. n >= Stages /\ n - Stages = i
      BY <1>2, <2>2
    <3>2. full'[c][StageOf(i)].parity = ParityOf(i) /\ full'[c][StageOf(i)].landed = {}
      BY <1>3, <1>5 DEF Idle
    <3>3. \A y \in copies'[c] : y.stage = StageOf(i) => y = a \/ y = b
      BY <1>5 DEF Idle
    <3>4. i < i + 1
      OBVIOUS
    <3>5. Filling(c, p, i, i + 1)'
      BY <3>2, <3>3, <3>4 DEF Filling
    <3>6. QED
      BY <3>1, <3>5 DEF Before
  <2>3. CASE n \in i .. i + w - 1
    <3>1. StageOf(n) # StageOf(i)
      BY <1>2, <2>1, <2>3, SameStage
    <3>2. Before(c, p, n, i, r) /\ StageOf(n) \in Stage
      BY <1>1, <1>2, <2>1, <2>3, StageIs DEF Pipe
    <3>3. \A y \in copies'[c] : y.stage = StageOf(n) => y \in copies[c]
      BY <1>3, <3>1
    <3>4. full'[c][StageOf(n)] = full[c][StageOf(n)]
      BY <3>1, <3>2
    <3>5. i <= i + 1 /\ i + 1 \in Nat
      OBVIOUS
    <3>6. QED
      BY <2>1, <3>2, <3>3, <3>4, <3>5, StageStays
  <2>4. QED
    BY <2>1, <2>2, <2>3
<1>7. \A y \in copies'[c] : y.stage \in Stage
  BY <1>3 DEF Pipe
<1>8. \A n \in l .. l + Stages - 1 : empty'[c][StageOf(n)] = ParityOf(n)
  BY DEF Pipe
<1>9. i + 1 <= l + Stages
  BY <1>2, <1>4
<1>10. QED
  BY <1>1, <1>2, <1>6, <1>7, <1>8, <1>9 DEF Pipe

(* The MMA warps read a K tile once its stage has filled. *)
LEMMA PipeReads ==
  ASSUME NEW c \in Cta, NEW p \in Index, NEW i \in Nat, NEW x \in Nat, NEW r \in Nat, NEW l \in Nat,
         Pipe(c, p, i, x, r, l), r <= i, l <= r, i <= l + Stages, x <= l + Stages,
         full[c][StageOf(r)].parity # ParityOf(r),
         full'[c] = full[c], empty'[c] = empty[c], data'[c] = data[c], copies'[c] = copies[c]
  PROVE  r < i /\ Pipe(c, p, i, x, r + 1, l)'
<1>1. PICK w \in Nat \ {0} : w = Stages
  BY GridAssumption
<1>2. PICK X \in Nat : X = Upto(i, x) /\ i <= X /\ X <= l + w /\ x <= X
  BY <1>1 DEF Upto
<1>3. r < X
  <2>1. SUFFICES ASSUME r = X PROVE FALSE
    BY <1>2
  <2>2. r \in X .. X + w - 1 /\ ~ (r >= w /\ r <= r - w)
    BY <1>1, <2>1
  <2>3. Before(c, p, r, i, r)
    BY <1>1, <1>2, <2>2 DEF Pipe
  <2>4. Idle(c, r)
    BY <1>1, <2>2, <2>3 DEF Before
  <2>5. QED
    BY <2>4 DEF Idle
<1>4. r + w \in X .. X + w - 1 /\ r + w >= w /\ (r + w) - w = r
  BY <1>1, <1>2, <1>3
<1>5. ~ Filling(c, p, r, i)
  BY DEF Filling
<1>6. Before(c, p, r + w, i, r)
  BY <1>1, <1>2, <1>4 DEF Pipe
<1>7. Idle(c, r + w) /\ r < i /\ data[c][StageOf(r + w)] = Wanted(c, p, r)
  BY <1>1, <1>4, <1>5, <1>6 DEF Before
<1>8. ASSUME NEW n \in X .. X + w - 1
      PROVE  Before(c, p, n, i, r + 1)'
  <2>1. CASE n = r + w
    <3>1. Idle(c, r + w)'
      BY <1>7 DEF Idle
    <3>2. data'[c][StageOf(r + w)] = Wanted(c, p, r) /\ r < i
      BY <1>7
    <3>3. QED
      BY <1>1, <1>4, <2>1, <3>1, <3>2 DEF Before
  <2>2. CASE n # r + w
    <3>1. Before(c, p, n, i, r)'
      <4>1. Before(c, p, n, i, r) /\ n \in Nat /\ i <= i
        BY <1>1, <1>2 DEF Pipe
      <4>2. QED
        BY <4>1, StageStays
    <3>2. n >= Stages /\ r <= n - Stages => r + 1 <= n - Stages
      BY <1>1, <2>2
    <3>3. QED
      BY <3>1, <3>2 DEF Before
  <2>3. QED
    BY <2>1, <2>2
<1>9. \A y \in copies'[c] : y.stage \in Stage
  BY DEF Pipe
<1>10. \A n \in l .. l + Stages - 1 : empty'[c][StageOf(n)] = ParityOf(n)
  BY DEF Pipe
<1>11. QED
  BY <1>1, <1>2, <1>7, <1>8, <1>9, <1>10 DEF Pipe

(* The oldest stage is given back. *)
LEMMA PipeReleases ==
  ASSUME NEW c \in Cta, NEW p \in Index, NEW i \in Nat, NEW x \in Nat, NEW r \in Nat, NEW l \in Nat,
         Pipe(c, p, i, x, r, l),
         full'[c] = full[c], data'[c] = data[c], copies'[c] = copies[c],
         \A s \in Stage : empty'[c][s] = IF s = StageOf(l) THEN 1 - empty[c][s] ELSE empty[c][s]
  PROVE  Pipe(c, p, i, x, r, l + 1)'
<1>1. PICK w \in Nat \ {0} : w = Stages
  BY GridAssumption
<1>2. ASSUME NEW n \in l + 1 .. l + 1 + w - 1
      PROVE  empty'[c][StageOf(n)] = ParityOf(n)
  <2>1. l \in l .. l + w - 1 /\ n \in Nat /\ (n = l + w \/ n \in l .. l + w - 1) /\ n # l
    BY <1>1
  <2>2. empty[c][StageOf(l)] = ParityOf(l) /\ StageOf(l) \in Stage /\ StageOf(n) \in Stage
    BY <1>1, <2>1, StageIs DEF Pipe
  <2>3. CASE n = l + w
    BY <1>1, <2>2, <2>3, NextUse
  <2>4. CASE n \in l .. l + w - 1
    <3>1. StageOf(n) # StageOf(l)
      BY <1>1, <2>1, <2>4, SameStage
    <3>2. empty[c][StageOf(n)] = ParityOf(n)
      BY <1>1, <2>4 DEF Pipe
    <3>3. QED
      BY <2>2, <3>1, <3>2
  <2>5. QED
    BY <2>1, <2>3, <2>4
<1>3. PICK X \in Nat : X = Upto(i, x)
  BY DEF Upto
<1>4. ASSUME NEW n \in X .. X + w - 1
      PROVE  Before(c, p, n, i, r)'
  <2>1. Before(c, p, n, i, r) /\ n \in Nat /\ i <= i
    BY <1>1, <1>3 DEF Pipe
  <2>2. QED
    BY <2>1, StageStays
<1>5. \A y \in copies'[c] : y.stage \in Stage
  BY DEF Pipe
<1>6. QED
  BY <1>1, <1>2, <1>3, <1>4, <1>5 DEF Pipe

(* A copy lands in its stage, and may complete it. *)
LEMMA PipeLands ==
  ASSUME NEW c \in Cta, NEW p \in Index, NEW i \in Nat, NEW x \in Nat, NEW r \in Nat, NEW l \in Nat,
         Pipe(c, p, i, x, r, l), NEW y \in copies[c],
         empty'[c] = empty[c], copies'[c] = copies[c] \ {y},
         data[c] = [s \in Stage |-> [o \in {"A", "B"} |-> data[c][s][o]]],
         data'[c] = [data[c] EXCEPT ![y.stage][y.operand] = y.item],
         \A s \in Stage \ {y.stage} : full'[c][s] = full[c][s],
         full[c][y.stage].landed \in SUBSET {"A", "B"},
         \/ /\ full'[c][y.stage].parity = 1 - full[c][y.stage].parity /\ full'[c][y.stage].landed = {}
            /\ full[c][y.stage].landed \cup {y.operand} = {"A", "B"}
         \/ /\ full'[c][y.stage].parity = full[c][y.stage].parity
            /\ full'[c][y.stage].landed = full[c][y.stage].landed \cup {y.operand}
  PROVE  Pipe(c, p, i, x, r, l)' /\ y.operand \in {"A", "B"}
<1>1. PICK w \in Nat \ {0} : w = Stages
  BY GridAssumption
<1>2. PICK X \in Nat : X = Upto(i, x)
  BY DEF Upto
<1>3. y.stage \in Stage
  BY DEF Pipe
<1>4. PICK k \in X .. X + w - 1 : StageOf(k) = y.stage
  BY <1>1, <1>3, StageHas
<1>5. k \in Nat /\ Before(c, p, k, i, r)
  BY SMTT(30), <1>1, <1>2, <1>4 DEF Pipe
<1>6. ~ Idle(c, k)
  BY <1>4 DEF Idle
<1>7. k >= Stages /\ r <= k - Stages /\ Filling(c, p, k - Stages, i)
  BY <1>5, <1>6 DEF Before
<1>8. PICK m \in Nat : m = k - Stages /\ StageOf(m) = StageOf(k) /\ ParityOf(k) = 1 - ParityOf(m)
  BY <1>5, <1>7, UseBefore
<1>9. PICK s \in Stage : s = StageOf(m) /\ s = y.stage /\ s = StageOf(k)
  BY <1>3, <1>4, <1>8
<1>10. PICK L \in SUBSET {"A", "B"} : L = full[c][s].landed
  BY <1>9
<1>11. Filling(c, p, m, i)
  BY <1>7, <1>8
<1>12. PICK o \in {"A", "B"} \ L : y = Copy(s, o, Wanted(c, p, m)[o]) /\ (o = "B" => m < i)
  BY <1>9, <1>10, <1>11 DEF Filling
<1>13. y.operand = o /\ y.item = Wanted(c, p, m)[o]
  BY <1>12 DEF Copy
<1>14. \A e \in {"A", "B"} : data'[c][s][e] = IF e = o THEN Wanted(c, p, m)[o] ELSE data[c][s][e]
  BY <1>9, <1>12, <1>13
<1>15. \A e \in L \cup {o} : data'[c][s][e] = Wanted(c, p, m)[e] /\ (e = "B" => m < i)
  <2>1. ASSUME NEW e \in L PROVE data'[c][s][e] = Wanted(c, p, m)[e] /\ (e = "B" => m < i)
    <3>1. e # o /\ e \in {"A", "B"}
      BY <1>10
    <3>2. data[c][s][e] = Wanted(c, p, m)[e] /\ (e = "B" => m < i)
      BY <1>9, <1>10, <1>11 DEF Filling
    <3>3. QED
      BY <1>14, <3>1, <3>2
  <2>2. data'[c][s][o] = Wanted(c, p, m)[o] /\ (o = "B" => m < i)
    BY <1>12, <1>14
  <2>3. QED
    BY <2>1, <2>2
<1>16. ASSUME NEW z \in copies'[c], z.stage = s
       PROVE  \E e \in {"A", "B"} \ (L \cup {o}) : z = Copy(s, e, Wanted(c, p, m)[e]) /\ (e = "B" => m < i)
  <2>1. z \in copies[c] /\ z # y
    BY <1>16
  <2>2. PICK e \in {"A", "B"} \ L : z = Copy(s, e, Wanted(c, p, m)[e]) /\ (e = "B" => m < i)
    BY <1>9, <1>10, <1>11, <1>16, <2>1 DEF Filling
  <2>3. e # o
    BY <1>12, <2>1, <2>2
  <2>4. QED
    BY <2>2, <2>3
<1>17. ASSUME L \cup {o} = {"A", "B"}, full'[c][s].parity = 1 - full[c][s].parity, full'[c][s].landed = {}
       PROVE  Before(c, p, k, i, r)'
  <2>1. \A z \in copies'[c] : z.stage # s
    BY <1>16, <1>17
  <2>2. Idle(c, k)'
    BY <1>8, <1>9, <1>11, <1>17, <2>1 DEF Idle, Filling
  <2>3. data'[c][s] = Wanted(c, p, m)
    <3>1. \A e \in {"A", "B"} : data'[c][s][e] = Wanted(c, p, m)[e]
      BY <1>15, <1>17
    <3>2. data'[c][s] = [e \in {"A", "B"} |-> data'[c][s][e]]
      <4>1. PICK g : g = data[c]
        OBVIOUS
      <4>2. g = [z \in Stage |-> [e \in {"A", "B"} |-> g[z][e]]]
        BY SMTT(30), <4>1
      <4>3. PICK h : h = g[s] /\ h = [e \in {"A", "B"} |-> g[s][e]]
        BY <4>2
      <4>4. data'[c] = [g EXCEPT ![s] = [h EXCEPT ![o] = y.item]]
        BY <1>9, <1>13, <4>1, <4>3
      <4>5. data'[c][s] = [h EXCEPT ![o] = y.item]
        BY <4>2, <4>4
      <4>6. PICK f : f = [h EXCEPT ![o] = y.item]
        OBVIOUS
      <4>7. f = [e \in {"A", "B"} |-> f[e]]
        BY <4>3, <4>6
      <4>8. QED
        BY <4>5, <4>6, <4>7
    <3>3. Wanted(c, p, m) = [e \in {"A", "B"} |-> Wanted(c, p, m)[e]]
      BY SMTT(30), WantedIs
    <3>4. QED
      BY <3>1, <3>2, <3>3
  <2>4. m < i
    BY <1>15, <1>17
  <2>5. QED
    BY <1>8, <1>9, <2>2, <2>3, <2>4 DEF Before
<1>18. ASSUME full'[c][s].parity = full[c][s].parity, full'[c][s].landed = L \cup {o}
       PROVE  Before(c, p, k, i, r)'
  <2>1. Filling(c, p, m, i)'
    BY <1>9, <1>11, <1>15, <1>16, <1>18 DEF Filling
  <2>2. QED
    BY <1>7, <1>8, <2>1 DEF Before
<1>19. Before(c, p, k, i, r)'
  BY <1>9, <1>10, <1>13, <1>17, <1>18
<1>20. ASSUME NEW n \in X .. X + w - 1, n # k
       PROVE  Before(c, p, n, i, r)'
  <2>1. Before(c, p, n, i, r) /\ n \in Nat /\ i <= i
    BY SMTT(30), <1>1, <1>2 DEF Pipe
  <2>2. StageOf(n) # s /\ StageOf(n) \in Stage
    <3>1. StageOf(n) # StageOf(k)
      BY <1>1, <1>20, SameStage
    <3>2. StageOf(n) \in Stage
      BY <2>1, StageIs
    <3>3. QED
      BY <1>9, <3>1, <3>2
  <2>3. full'[c][StageOf(n)] = full[c][StageOf(n)] /\ data'[c][StageOf(n)] = data[c][StageOf(n)]
    BY <1>9, <2>2
  <2>4. QED
    BY <2>1, <2>3, StageStays
<1>21. \A z \in copies'[c] : z.stage \in Stage
  BY DEF Pipe
<1>22. \A n \in l .. l + Stages - 1 : empty'[c][StageOf(n)] = ParityOf(n)
  BY DEF Pipe
<1>23. QED
  BY <1>1, <1>2, <1>13, <1>19, <1>20, <1>21, <1>22 DEF Pipe

LEMMA PipeFresh ==
  ASSUME NEW c \in Cta, NEW p, full'[c] = FreshFull, empty'[c] = FreshEmpty, copies'[c] = {}
  PROVE  Pipe(c, p, 0, 0, 0, 0)'
<1>1. PICK w \in Nat \ {0} : w = Stages
  BY GridAssumption
<1>2. Upto(0, 0) = 0
  BY DEF Upto
<1>3. ASSUME NEW n \in 0 .. 0 + w - 1
      PROVE  StageOf(n) \in Stage /\ ParityOf(n) = 0 /\ ~ (n >= Stages)
  BY <1>1, StageIs
<1>4. \A s \in Stage : full'[c][s].parity = 0 /\ full'[c][s].landed = {} /\ empty'[c][s] = 0
  BY DEF FreshFull, FreshEmpty
<1>5. ASSUME NEW n \in 0 .. 0 + w - 1
      PROVE  Before(c, p, n, 0, 0)' /\ empty'[c][StageOf(n)] = ParityOf(n)
  BY <1>3, <1>4 DEF Before, Idle
<1>6. QED
  BY <1>1, <1>2, <1>5 DEF Pipe

(* The stages as preload_table leaves them. *)
LEMMA PipeLoads ==
  ASSUME NEW c \in Cta, NEW p \in Index, Streamable(p),
         full'[c] = [s \in Stage |-> [FreshFull[s] EXCEPT !.armed = s < Streamed(p)]],
         empty'[c] = FreshEmpty,
         copies'[c] = {Copy(k, "A", A(p, Unit(c, p, 0), k)) : k \in 0 .. Streamed(p) - 1}
  PROVE  Pipe(c, p, 0, Streamed(p), 0, 0)'
<1>1. PICK w \in Nat \ {0} : w = Stages
  BY GridAssumption
<1>2. PICK d \in Nat \ {0} : d = Phases[p].depth
  BY PhasesAssumption DEF Streamable
<1>3. PICK x \in Nat : x = Streamed(p) /\ x <= d /\ x <= w
  BY <1>1, <1>2, StreamedIs DEF Streamable
<1>4. Upto(0, x) = x
  BY DEF Upto
<1>5. \A s \in Stage : full'[c][s].parity = 0 /\ full'[c][s].landed = {} /\ empty'[c][s] = 0
  BY DEF FreshFull, FreshEmpty
<1>6. ASSUME NEW k \in 0 .. x - 1
      PROVE  /\ k \in Nat /\ k \in Stage /\ StageOf(k) = k /\ ParityOf(k) = 0
             /\ A(p, Unit(c, p, 0), k) = Wanted(c, p, k)["A"]
  <2>1. k \in Nat /\ k < w /\ k \in 0 .. d - 1
    BY <1>3
  <2>2. k \in Stage /\ StageOf(k) = k /\ ParityOf(k) = 0
    BY <1>1, <2>1, StageIs
  <2>3. k \div d = 0 /\ k % d = k
    <3>1. (k + 0 * d) % d = k /\ (k + 0 * d) \div d = 0
      BY <2>1, DivModOnce
    <3>2. k + 0 * d = k
      BY <2>1
    <3>3. QED
      BY <3>1, <3>2
  <2>4. \A q \in Index : Phases[q].output = Phases[p].a => written[q] = Units[q]
    BY DEF Streamable
  <2>5. Wanted(c, p, k)["A"] = A(p, Unit(c, p, k \div d), k % d)
    BY <1>2, <2>1, <2>4, WantedIs
  <2>6. QED
    BY <2>1, <2>2, <2>3, <2>5
<1>7. ASSUME NEW y \in copies'[c]
      PROVE  \E k \in 0 .. x - 1 : y.stage = k /\ y = Copy(k, "A", Wanted(c, p, k)["A"])
  BY <1>3, <1>6, <1>7 DEF Copy
<1>8. ASSUME NEW n \in x .. x + w - 1
      PROVE  Before(c, p, n, 0, 0)'
  <2>1. n \in Nat /\ StageOf(n) \in Stage
    BY StageIs
  <2>2. CASE n < w
    <3>1. StageOf(n) = n /\ ParityOf(n) = 0 /\ ~ (n >= Stages)
      BY <1>1, <2>1, <2>2, StageIs
    <3>2. \A y \in copies'[c] : y.stage # n
      BY <1>7
    <3>3. Idle(c, n)'
      BY <1>5, <2>1, <3>1, <3>2 DEF Idle
    <3>4. QED
      BY <3>1, <3>3 DEF Before
  <2>3. CASE n >= w
    <3>1. PICK m \in 0 .. x - 1 : m = n - Stages
      BY <1>1, <2>3
    <3>2. m \in Nat /\ m \in Stage /\ StageOf(m) = m /\ ParityOf(m) = 0
      BY <1>6
    <3>3. \A y \in copies'[c] : y.stage = m => y = Copy(m, "A", Wanted(c, p, m)["A"])
      BY <1>7
    <3>4. full'[c][m].parity = 0 /\ full'[c][m].landed = {}
      BY <1>5, <3>2
    <3>5. "A" \in {"A", "B"} \ {} /\ "A" # "B"
      OBVIOUS
    <3>6. Filling(c, p, m, 0)'
      BY <3>2, <3>3, <3>4, <3>5 DEF Filling
    <3>7. QED
      BY <1>1, <2>3, <3>1, <3>2, <3>6 DEF Before
  <2>4. QED
    BY <2>1, <2>2, <2>3
<1>9. \A y \in copies'[c] : y.stage \in Stage
  BY <1>6, <1>7
<1>10. ASSUME NEW n \in 0 .. 0 + w - 1
       PROVE  empty'[c][StageOf(n)] = ParityOf(n)
  BY <1>1, <1>5, StageIs
<1>11. QED
  BY <1>1, <1>3, <1>4, <1>8, <1>9, <1>10 DEF Pipe

(* When every K tile has been given back nothing is on its way. *)
LEMMA PipeEmpty ==
  ASSUME NEW c \in Cta, NEW p \in Index, NEW i \in Nat, NEW x \in Nat, NEW l \in Nat,
         Pipe(c, p, i, x, i, l), x <= i
  PROVE  copies[c] = {}
<1>1. PICK w \in Nat \ {0} : w = Stages
  BY GridAssumption
<1>2. Upto(i, x) = i
  BY DEF Upto
<1>3. SUFFICES ASSUME NEW y \in copies[c] PROVE FALSE
  OBVIOUS
<1>4. y.stage \in Stage
  BY DEF Pipe
<1>5. PICK n \in i .. i + w - 1 : StageOf(n) = y.stage
  BY <1>1, <1>4, StageHas
<1>6. Before(c, p, n, i, i)
  BY <1>1, <1>2 DEF Pipe
<1>7. ~ (n >= Stages /\ i <= n - Stages)
  BY <1>1
<1>8. Idle(c, n)
  BY <1>6, <1>7 DEF Before
<1>9. QED
  BY <1>5, <1>8 DEF Idle

(* What is known of a CTA in a GEMM. *)
LEMMA InGemm ==
  ASSUME Walk, Working, Pipes, NEW c \in Cta, at[c] = "gemm"
  PROVE  /\ phase[c] \in Index /\ Phases[phase[c]].gemm /\ phase[c] \in Nat /\ tag[c] \in Nat
         /\ Depth(c) \in Nat \ {0} /\ stored[c] * Depth(c) \in Nat /\ Tiles(c) \in Nat
         /\ (stored[c] + 1) * Depth(c) = stored[c] * Depth(c) + Depth(c)
         /\ stored[c] \in Nat /\ stored[c] <= UnitsOf[c][phase[c]]
         /\ stored[c] < UnitsOf[c][phase[c]] => stored[c] * Depth(c) + Depth(c) <= Tiles(c)
         /\ stored[c] = UnitsOf[c][phase[c]] => stored[c] * Depth(c) = Tiles(c)
         /\ issued[c] \in Nat /\ streamed[c] \in Nat /\ read[c] \in Nat
         /\ finished[c] \in Nat /\ released[c] \in Nat
         /\ tag[c] <= phase[c] /\ Counts(c)
         /\ Pipe(c, phase[c], issued[c], streamed[c], read[c], released[c])
         /\ Depth(c) <= Tiles(c)
<1>1. PICK p \in Index : p = phase[c] /\ Phases[p].gemm /\ UnitsOf[c][p] > 0
  BY Counted DEF Walk, Place
<1>2. PICK d \in Nat \ {0} : d = Depth(c)
  BY <1>1, PhasesAssumption DEF Depth
<1>3. PICK s \in Nat : s = stored[c]
  BY DEF Working
<1>4. PICK n \in Nat : n = UnitsOf[c][p] /\ n > 0
  BY <1>1, UnitsOfIs
<1>5. s <= n
  BY <1>1, <1>3, <1>4 DEF Working
<1>6. s * d \in Nat /\ n * d \in Nat /\ (s + 1) * d = s * d + d
  OBVIOUS
<1>7. s < n => s * d + d <= n * d
  <2>1. SUFFICES ASSUME s < n PROVE s * d + d <= n * d
    OBVIOUS
  <2>2. PICK e \in Nat : n = s + 1 + e
    BY <2>1
  <2>3. n * d = s * d + d + e * d /\ e * d \in Nat
    BY <2>2
  <2>4. QED
    BY <1>6, <2>3
<1>8. d <= n * d
  BY <1>4
<1>9. Tiles(c) = n * d
  BY <1>1, <1>2, <1>4 DEF Tiles
<1>10. tag[c] \in Nat /\ p \in Nat
  BY PhasesAssumption DEF Pipes, StageShapes
<1>11. Staged(c)
  BY DEF Pipes
<1>12. /\ issued[c] \in Nat /\ streamed[c] \in Nat /\ read[c] \in Nat
       /\ finished[c] \in Nat /\ released[c] \in Nat
  BY DEF Pipes, StageShapes
<1>13. tag[c] <= phase[c] /\ Counts(c) /\ Pipe(c, phase[c], issued[c], streamed[c], read[c], released[c])
  BY <1>11 DEF Staged
<1>14. QED
  BY <1>1, <1>2, <1>3, <1>4, <1>5, <1>6, <1>7, <1>8, <1>9, <1>10, <1>12, <1>13

LEMMA StepInGemm ==
  ASSUME NEW c \in Cta, at'[c] = "gemm", tag'[c] \in Nat, phase'[c] \in Nat, tag'[c] <= phase'[c], Counts(c)',
         NEW p, NEW i, NEW x, NEW r, NEW l,
         phase'[c] = p, issued'[c] = i, streamed'[c] = x, read'[c] = r, released'[c] = l,
         Pipe(c, p, i, x, r, l)'
  PROVE  Staged(c)'
<1>1. ~ Pending(c)'
  BY DEF Pending
<1>2. QED
  BY <1>1 DEF Staged

(* Everybody else stays where it is. *)
LEMMA OthersStay ==
  ASSUME Pipes, StageShapes', NEW c \in Cta, Staged(c)', \A d \in Cta \ {c} : Same(d)
  PROVE  Pipes'
<1>1. ASSUME NEW d \in Cta PROVE Staged(d)'
  <2>1. CASE d = c
    BY <2>1
  <2>2. CASE d # c
    BY <2>2, StagedStays DEF Pipes
  <2>3. QED
    BY <2>1, <2>2
<1>2. QED
  BY <1>1 DEF Pipes

LEMMA PipesInit == Init => Pipes
<1> SUFFICES ASSUME Init PROVE Pipes
  OBVIOUS
<1>1. /\ phase = [c \in Cta |-> 1] /\ at = [c \in Cta |-> "phase"] /\ tag = [c \in Cta |-> 0]
      /\ copies = [c \in Cta |-> {}] /\ full = [c \in Cta |-> FreshFull] /\ empty = [c \in Cta |-> FreshEmpty]
      /\ data = [c \in Cta |-> [s \in Stage |-> [o \in {"A", "B"} |-> Nothing]]]
      /\ issued = [c \in Cta |-> 0] /\ streamed = [c \in Cta |-> 0] /\ read = [c \in Cta |-> 0]
      /\ finished = [c \in Cta |-> 0] /\ released = [c \in Cta |-> 0]
  BY DEF Init
<1>2. ASSUME NEW c \in Cta PROVE Staged(c)
  BY <1>1 DEF Staged, Pending
<1>3. full = [c \in Cta |-> [s \in Stage |->
        [parity |-> full[c][s].parity, armed |-> full[c][s].armed, landed |-> full[c][s].landed]]]
      /\ \A c \in Cta : \A s \in Stage : full[c][s].landed \in SUBSET {"A", "B"}
  BY <1>1 DEF FreshFull
<1>4. data = [c \in Cta |-> [s \in Stage |-> [o \in {"A", "B"} |-> data[c][s][o]]]]
  BY <1>1
<1>5. empty = [c \in Cta |-> [s \in Stage |-> empty[c][s]]] /\ copies = [c \in Cta |-> copies[c]]
  BY <1>1 DEF FreshEmpty
<1>6. QED
  BY <1>1, <1>2, <1>3, <1>4, <1>5 DEF Pipes, StageShapes

IsBarrier(h) ==
  /\ h = [parity |-> h.parity, armed |-> h.armed, landed |-> h.landed]
  /\ h.landed \in SUBSET {"A", "B"}

FullShape ==
  /\ full = [d \in Cta |-> [s \in Stage |->
       [parity |-> full[d][s].parity, armed |-> full[d][s].armed, landed |-> full[d][s].landed]]]
  /\ \A d \in Cta : \A s \in Stage : full[d][s].landed \in SUBSET {"A", "B"}

(* One full barrier changes. *)
LEMMA BarrierSet ==
  ASSUME StageShapes, NEW c \in Cta, NEW k \in Stage, NEW h, IsBarrier(h),
         full' = [full EXCEPT ![c] = [full[c] EXCEPT ![k] = h]]
  PROVE  /\ full'[c][k] = h
         /\ \A s \in Stage : s # k => full'[c][s] = full[c][s]
         /\ \A d \in Cta \ {c} : full'[d] = full[d]
         /\ FullShape'
<1>1. full = [d \in Cta |-> [s \in Stage |->
        [parity |-> full[d][s].parity, armed |-> full[d][s].armed, landed |-> full[d][s].landed]]]
  BY DEF StageShapes
<1>2. PICK g : g = full
  OBVIOUS
<1>3. PICK gc : gc = g[c] /\ gc = [s \in Stage |->
        [parity |-> g[c][s].parity, armed |-> g[c][s].armed, landed |-> g[c][s].landed]]
  BY <1>1, <1>2
<1>4. PICK hc : hc = [gc EXCEPT ![k] = h]
  OBVIOUS
<1>5. full' = [g EXCEPT ![c] = hc]
  BY <1>2, <1>3, <1>4
<1>6. full'[c] = hc /\ \A d \in Cta \ {c} : full'[d] = full[d]
  BY <1>1, <1>2, <1>5
<1>7. \A s \in Stage : hc[s] = IF s = k THEN h ELSE gc[s]
  BY <1>3, <1>4
<1>8. full'[c][k] = h /\ \A s \in Stage : s # k => full'[c][s] = full[c][s]
  BY <1>2, <1>3, <1>6, <1>7
<1>9. \A d \in Cta : \A s \in Stage : full'[d][s].landed \in SUBSET {"A", "B"}
  <2>1. \A d \in Cta : \A s \in Stage : full[d][s].landed \in SUBSET {"A", "B"}
    BY DEF StageShapes
  <2>2. h.landed \in SUBSET {"A", "B"}
    BY DEF IsBarrier
  <2>3. QED
    BY <2>1, <2>2, <1>6, <1>8
<1>10. ASSUME NEW d \in Cta
       PROVE  full'[d] = [s \in Stage |->
                [parity |-> full'[d][s].parity, armed |-> full'[d][s].armed, landed |-> full'[d][s].landed]]
  <2>1. CASE d # c
    <3>1. PICK gd : gd = g[d] /\ gd = [s \in Stage |->
            [parity |-> g[d][s].parity, armed |-> g[d][s].armed, landed |-> g[d][s].landed]]
      BY <1>1, <1>2
    <3>2. gd = [s \in Stage |-> [parity |-> gd[s].parity, armed |-> gd[s].armed, landed |-> gd[s].landed]]
      BY <3>1
    <3>3. full'[d] = gd
      BY <1>2, <1>6, <2>1, <3>1
    <3>4. QED
      BY <3>2, <3>3
  <2>2. CASE d = c
    <3>1. ASSUME NEW s \in Stage PROVE gc[s] = [parity |-> gc[s].parity, armed |-> gc[s].armed, landed |-> gc[s].landed]
      BY <1>3
    <3>2. \A s \in Stage : hc[s] = [parity |-> hc[s].parity, armed |-> hc[s].armed, landed |-> hc[s].landed]
      BY <1>7, <3>1 DEF IsBarrier
    <3>3. hc = [s \in Stage |-> hc[s]]
      BY <1>3, <1>4
    <3>4. hc = [s \in Stage |-> [parity |-> hc[s].parity, armed |-> hc[s].armed, landed |-> hc[s].landed]]
      BY <3>2, <3>3
    <3>5. QED
      BY <1>6, <2>2, <3>4
  <2>3. QED
    BY <2>1, <2>2
<1>11. full' = [d \in Cta |-> full'[d]]
  BY <1>1, <1>2, <1>5
<1>12. full' = [d \in Cta |-> [s \in Stage |->
         [parity |-> full'[d][s].parity, armed |-> full'[d][s].armed, landed |-> full'[d][s].landed]]]
  BY <1>10, <1>11
<1>13. QED
  <2>1. FullShape'
    BY <1>9, <1>12 DEF FullShape
  <2>2. QED
    BY <1>6, <1>8, <2>1

LEMMA BarrierIs ==
  ASSUME StageShapes, NEW c \in Cta, NEW k \in Stage
  PROVE  /\ full[c][k] = [parity |-> full[c][k].parity, armed |-> full[c][k].armed, landed |-> full[c][k].landed]
         /\ full[c][k].landed \in SUBSET {"A", "B"}
<1>1. PICK g : g = full /\ g = [d \in Cta |-> [s \in Stage |->
        [parity |-> g[d][s].parity, armed |-> g[d][s].armed, landed |-> g[d][s].landed]]]
  BY DEF StageShapes
<1>2. g[c][k] = [parity |-> g[c][k].parity, armed |-> g[c][k].armed, landed |-> g[c][k].landed]
  BY <1>1
<1>3. QED
  BY <1>1, <1>2 DEF StageShapes

LEMMA ArmIs ==
  ASSUME StageShapes, NEW c \in Cta, NEW n \in Nat, Arm(c, n)
  PROVE  /\ \A s \in Stage : full'[c][s].parity = full[c][s].parity /\ full'[c][s].landed = full[c][s].landed
         /\ \A s \in Stage : s # StageOf(n) => full'[c][s] = full[c][s]
         /\ \A d \in Cta \ {c} : full'[d] = full[d]
         /\ full' = [d \in Cta |-> [s \in Stage |->
              [parity |-> full'[d][s].parity, armed |-> full'[d][s].armed, landed |-> full'[d][s].landed]]]
         /\ \A d \in Cta : \A s \in Stage : full'[d][s].landed \in SUBSET {"A", "B"}
<1>1. PICK k \in Stage : k = StageOf(n)
  BY StageIs
<1>2. PICK g : g = full[c][k]
  OBVIOUS
<1>3. g = [parity |-> g.parity, armed |-> g.armed, landed |-> g.landed] /\ g.landed \in SUBSET {"A", "B"}
  BY <1>2, BarrierIs
<1>4. PICK h : h = [g EXCEPT !.armed = TRUE]
  OBVIOUS
<1>5. h = [parity |-> g.parity, armed |-> TRUE, landed |-> g.landed]
  BY <1>3, <1>4
<1>6. h = [parity |-> h.parity, armed |-> h.armed, landed |-> h.landed] /\ h.parity = g.parity /\ h.landed = g.landed
  BY <1>5
<1>7. full' = [full EXCEPT ![c] = [full[c] EXCEPT ![k] = h]]
  BY <1>1, <1>2, <1>4 DEF Arm
<1>8. h.landed \in SUBSET {"A", "B"}
  BY <1>3, <1>6
<1>9. IsBarrier(h)
  BY <1>6, <1>8 DEF IsBarrier
<1>10. /\ full'[c][k] = h
       /\ \A s \in Stage : s # k => full'[c][s] = full[c][s]
       /\ \A d \in Cta \ {c} : full'[d] = full[d]
       /\ FullShape'
  BY <1>7, <1>9, BarrierSet
<1>11. QED
  BY <1>1, <1>2, <1>6, <1>10 DEF FullShape

LEMMA ProduceKeeps ==
  ASSUME Walk, Working, Written, Pipes, NEW c \in Cta, Produce(c)
  PROVE  Pipes'
<1>1. PICK n \in Nat : n = issued[c]
  BY DEF Pipes, StageShapes
<1> DEFINE b == Copy(StageOf(n), "B", B(phase[c], UnitAt(c, n), DepthAt(c, n)))
           a == Copy(StageOf(n), "A", A(phase[c], UnitAt(c, n), DepthAt(c, n)))
<1>2. /\ at[c] = "gemm" /\ n < Tiles(c) /\ issued' = [issued EXCEPT ![c] = n + 1]
      /\ UNCHANGED <<phase, at, empty, data, tag, streamed, read, finished, released, stored, epilogue>>
      /\ \/ HasA(c, n) /\ copies' = [copies EXCEPT ![c] = @ \cup {b}] /\ full' = full
         \/ ~ HasA(c, n) /\ MayAcquire(c, n) /\ Arm(c, n) /\ copies' = [copies EXCEPT ![c] = @ \cup {a, b}]
  BY <1>1 DEF Produce
<1>3. PICK p \in Index : p = phase[c]
  BY <1>2, InGemm
<1>4. PICK d \in Nat \ {0} : d = Depth(c) /\ d = Phases[p].depth
  BY <1>2, <1>3, InGemm DEF Depth
<1>5. PICK x \in Nat : x = streamed[c]
  BY <1>2, InGemm
<1>6. PICK r \in Nat : r = read[c]
  BY <1>2, InGemm
<1>7. PICK l \in Nat : l = released[c]
  BY <1>2, InGemm
<1>8. Counts(c) /\ Pipe(c, p, n, x, r, l) /\ tag[c] <= phase[c] /\ tag[c] \in Nat /\ phase[c] \in Nat /\ finished[c] \in Nat
  BY <1>1, <1>2, <1>3, <1>5, <1>6, <1>7, InGemm
<1>9. r <= n /\ l <= r /\ x <= d /\ x <= Stages /\ n <= l + Stages
  BY <1>1, <1>4, <1>5, <1>6, <1>7, <1>8 DEF Counts
<1>10. HasA(c, n) <=> n < x
  <2>1. n < d => n % d = n
    <3>1. n < d => (n + 0 * d) % d = n
      BY DivModOnce
    <3>2. n + 0 * d = n
      OBVIOUS
    <3>3. QED
      BY <3>1, <3>2
  <2>2. QED
    BY <1>4, <1>5, <1>9, <2>1 DEF HasA, DepthAt
<1>11. B(phase[c], UnitAt(c, n), DepthAt(c, n)) = Wanted(c, p, n)["B"]
  BY <1>3, <1>4, WantedIs DEF UnitAt, DepthAt
<1>12. A(phase[c], UnitAt(c, n), DepthAt(c, n)) = Wanted(c, p, n)["A"]
  BY SMTT(30), <1>2, <1>3, <1>4, WantedIs, WeightsReady DEF UnitAt, DepthAt
<1>13. b = Copy(StageOf(n), "B", Wanted(c, p, n)["B"]) /\ a = Copy(StageOf(n), "A", Wanted(c, p, n)["A"])
  BY <1>11, <1>12
<1>14. /\ issued' \in [Cta -> Nat] /\ issued'[c] = n + 1 /\ \A e \in Cta \ {c} : issued'[e] = issued[e]
  BY <1>1, <1>2 DEF Pipes, StageShapes
<1>15. copies = [e \in Cta |-> copies[e]]
  BY DEF Pipes, StageShapes
<1>16. ASSUME NEW z, copies' = [copies EXCEPT ![c] = z]
       PROVE  copies'[c] = z /\ copies' = [e \in Cta |-> copies'[e]] /\ \A e \in Cta \ {c} : copies'[e] = copies[e]
  <2>1. PICK g : g = copies /\ g = [e \in Cta |-> g[e]]
    BY <1>15
  <2>2. PICK h : h = [g EXCEPT ![c] = z]
    OBVIOUS
  <2>3. h = [e \in Cta |-> h[e]] /\ h[c] = z /\ \A e \in Cta \ {c} : h[e] = g[e]
    BY <2>1, <2>2
  <2>4. QED
    BY <1>16, <2>1, <2>2, <2>3
<1>17. CASE HasA(c, n)
  <2>1. copies' = [copies EXCEPT ![c] = copies[c] \cup {b}] /\ full' = full
    BY <1>2, <1>17
  <2>2. /\ copies'[c] = copies[c] \cup {b} /\ copies' = [e \in Cta |-> copies'[e]]
        /\ \A e \in Cta \ {c} : copies'[e] = copies[e]
    BY <1>16, <2>1
  <2>3. n < x
    BY <1>10, <1>17
  <2>4. Pipe(c, p, n + 1, x, r, l)'
    BY <1>2, <1>8, <1>9, <1>13, <2>1, <2>2, <2>3, PipeAsks
  <2>5. n + 1 <= l + Stages
    BY <1>9, <2>3, GridAssumption
  <2>6. Counts(c)'
    BY SMTT(30), <1>1, <1>2, <1>5, <1>6, <1>7, <1>8, <1>14, <2>5, InGemm DEF Counts, Depth, Tiles
  <2>7. Staged(c)'
    BY <1>2, <1>3, <1>5, <1>6, <1>7, <1>8, <1>14, <2>4, <2>6, StepInGemm
  <2>8. StageShapes'
    BY <1>2, <1>14, <2>1, <2>2 DEF Pipes, StageShapes
  <2>9. \A e \in Cta \ {c} : Same(e)
    BY <1>2, <1>14, <2>1, <2>2 DEF Same
  <2>10. QED
    BY <2>7, <2>8, <2>9, OthersStay
<1>18. CASE ~ HasA(c, n)
  <2>1. copies' = [copies EXCEPT ![c] = copies[c] \cup {a, b}] /\ Arm(c, n) /\ MayAcquire(c, n)
    BY <1>2, <1>18
  <2>2. /\ copies'[c] = copies[c] \cup {a, b} /\ copies' = [e \in Cta |-> copies'[e]]
        /\ \A e \in Cta \ {c} : copies'[e] = copies[e]
    BY <1>16, <2>1
  <2>3. x <= n
    BY <1>10, <1>18
  <2>4. /\ \A s \in Stage : full'[c][s].parity = full[c][s].parity /\ full'[c][s].landed = full[c][s].landed
        /\ \A s \in Stage : s # StageOf(n) => full'[c][s] = full[c][s]
        /\ \A e \in Cta \ {c} : full'[e] = full[e]
        /\ full' = [e \in Cta |-> [s \in Stage |->
             [parity |-> full'[e][s].parity, armed |-> full'[e][s].armed, landed |-> full'[e][s].landed]]]
        /\ \A e \in Cta : \A s \in Stage : full'[e][s].landed \in SUBSET {"A", "B"}
    BY <2>1, ArmIs DEF Pipes
  <2>5. empty[c][StageOf(n)] # 1 - ParityOf(n)
    BY <2>1 DEF MayAcquire, Passed
  <2>6. Pipe(c, p, n + 1, x, r, l)' /\ n + 1 <= l + Stages
    <3>1. copies'[c] = copies[c] \cup {Copy(StageOf(n), "A", Wanted(c, p, n)["A"]),
                                       Copy(StageOf(n), "B", Wanted(c, p, n)["B"])}
      BY <1>13, <2>2
    <3>2. empty'[c] = empty[c] /\ data'[c] = data[c]
      BY <1>2
    <3>3. Pipe(c, p, n, x, r, l)
      BY <1>8
    <3>4. QED
      BY <1>9, <2>3, <2>4, <2>5, <3>1, <3>2, <3>3, PipeArms
  <2>7. Counts(c)'
    BY SMTT(30), <1>1, <1>2, <1>5, <1>6, <1>7, <1>8, <1>14, <2>6, InGemm DEF Counts, Depth, Tiles
  <2>8. Staged(c)'
    BY <1>2, <1>3, <1>5, <1>6, <1>7, <1>8, <1>14, <2>6, <2>7, StepInGemm
  <2>9. StageShapes'
    BY <1>2, <1>14, <2>2, <2>4 DEF Pipes, StageShapes
  <2>10. \A e \in Cta \ {c} : Same(e)
    BY <1>2, <1>14, <2>2, <2>4 DEF Same
  <2>11. QED
    BY <2>8, <2>9, <2>10, OthersStay
<1>19. QED
  BY <1>17, <1>18

LEMMA MultiplyKeeps ==
  ASSUME Walk, Working, Pipes, NEW c \in Cta, Multiply(c)
  PROVE  Pipes'
<1>1. PICK r \in Nat : r = read[c]
  BY DEF Pipes, StageShapes
<1>2. /\ at[c] = "gemm" /\ r \in InUnit(c) /\ full[c][StageOf(r)].parity # ParityOf(r)
      /\ read' = [read EXCEPT ![c] = r + 1]
      /\ UNCHANGED <<phase, at, full, empty, data, tag, copies, issued, streamed, finished, released,
                     stored, epilogue>>
  BY <1>1 DEF Multiply, Passed, shared
<1>3. PICK p \in Index : p = phase[c]
  BY <1>2, InGemm
<1>4. PICK i \in Nat : i = issued[c]
  BY <1>2, InGemm
<1>5. PICK x \in Nat : x = streamed[c]
  BY <1>2, InGemm
<1>6. PICK l \in Nat : l = released[c]
  BY <1>2, InGemm
<1>7. Counts(c) /\ Pipe(c, p, i, x, r, l) /\ tag[c] <= phase[c] /\ tag[c] \in Nat /\ phase[c] \in Nat /\ finished[c] \in Nat
  BY <1>1, <1>2, <1>3, <1>4, <1>5, <1>6, InGemm
<1>8. r <= i /\ l <= r /\ i <= l + Stages /\ x <= l + Stages
  <2>1. x <= Stages /\ r <= i /\ l <= finished[c] /\ finished[c] <= r /\ i <= l + Stages
    BY <1>1, <1>4, <1>5, <1>6, <1>7 DEF Counts
  <2>2. QED
    BY <1>7, <2>1, GridAssumption
<1>9. full'[c] = full[c] /\ empty'[c] = empty[c] /\ data'[c] = data[c] /\ copies'[c] = copies[c]
  BY <1>2
<1>10. full[c][StageOf(r)].parity # ParityOf(r)
  BY <1>2
<1>11. r < i /\ Pipe(c, p, i, x, r + 1, l)'
  BY <1>7, <1>8, <1>9, <1>10, PipeReads
<1>12. read' \in [Cta -> Nat] /\ read'[c] = r + 1 /\ \A e \in Cta \ {c} : read'[e] = read[e]
  BY <1>2 DEF Pipes, StageShapes
<1>13. r + 1 <= stored[c] * Depth(c) + Depth(c)
  BY <1>2, InGemm DEF InUnit
<1>14. Counts(c)'
  BY SMTT(30), <1>1, <1>2, <1>4, <1>7, <1>11, <1>12, <1>13, InGemm DEF Counts, Depth, Tiles
<1>15. Staged(c)'
  BY <1>2, <1>3, <1>4, <1>5, <1>6, <1>7, <1>11, <1>12, <1>14, StepInGemm
<1>16. StageShapes'
  BY SMTT(30), <1>2, <1>12 DEF Pipes, StageShapes
<1>17. \A e \in Cta \ {c} : Same(e)
  BY <1>2, <1>12 DEF Same
<1>18. QED
  BY <1>15, <1>16, <1>17, OthersStay

(* Steps of a CTA in a GEMM that leave its stages alone. *)
LEMMA CountsKeep ==
  ASSUME Walk, Working, Pipes, NEW c \in Cta, at[c] = "gemm", Counts(c)', StageShapes',
         UNCHANGED <<phase, at, full, empty, data, tag, copies, issued, streamed, read, released>>,
         \A e \in Cta \ {c} : Same(e)
  PROVE  Pipes'
<1>1. PICK p \in Index : p = phase[c]
  BY InGemm
<1>2. PICK i \in Nat : i = issued[c]
  BY InGemm
<1>3. PICK x \in Nat : x = streamed[c]
  BY InGemm
<1>4. PICK r \in Nat : r = read[c]
  BY InGemm
<1>5. PICK l \in Nat : l = released[c]
  BY InGemm
<1>6. Pipe(c, p, i, x, r, l) /\ tag[c] <= phase[c] /\ tag[c] \in Nat /\ phase[c] \in Nat
  BY <1>1, <1>2, <1>3, <1>4, <1>5, InGemm
<1>7. Pipe(c, p, i, x, r, l)'
  BY <1>6, PipeStays
<1>8. Staged(c)'
  BY <1>1, <1>2, <1>3, <1>4, <1>5, <1>6, <1>7, StepInGemm
<1>9. QED
  BY <1>8, OthersStay

LEMMA FinishKeeps ==
  ASSUME Walk, Working, Pipes, NEW c \in Cta, FinishMultiply(c)
  PROVE  Pipes'
<1>1. /\ at[c] = "gemm" /\ finished[c] < read[c] /\ finished' = [finished EXCEPT ![c] = @ + 1]
      /\ UNCHANGED <<phase, at, full, empty, data, tag, copies, issued, streamed, read, released,
                     stored, epilogue>>
  BY DEF FinishMultiply, shared
<1>2. /\ finished' \in [Cta -> Nat] /\ finished'[c] = finished[c] + 1
      /\ \A e \in Cta \ {c} : finished'[e] = finished[e]
  BY <1>1 DEF Pipes, StageShapes
<1>3. Counts(c)'
  BY <1>1, <1>2, InGemm DEF Counts, Depth, Tiles
<1>4. StageShapes'
  BY <1>1, <1>2 DEF Pipes, StageShapes
<1>5. \A e \in Cta \ {c} : Same(e)
  BY <1>1, <1>2 DEF Same
<1>6. QED
  BY <1>1, <1>3, <1>4, <1>5, CountsKeep

(* The end of a unit. *)
LEMMA UnitsKeep ==
  ASSUME Walk, Working, Pipes, NEW c \in Cta, Store(c) \/ Publish(c) \/ CountSplit(c) \/ SumSplits(c)
  PROVE  Pipes'
<1>1. UNCHANGED <<phase, at, full, empty, data, tag, copies, issued, streamed, read, finished, released>>
  BY DEF Store, Publish, CountSplit, SumSplits, shared
<1>2. at[c] = "gemm" /\ stored[c] < UnitsOf[c][phase[c]]
  BY DEF Store, Publish, CountSplit, SumSplits, MainLoopOver, Working
<1>3. released[c] = stored[c] * Depth(c) + Depth(c)
  <2>1. (stored[c] + 1) * Depth(c) = stored[c] * Depth(c) + Depth(c) /\ Counts(c)
    BY <1>2, InGemm
  <2>2. CASE Store(c) \/ Publish(c)
    BY <2>1, <2>2 DEF Store, Publish, MainLoopOver
  <2>3. CASE CountSplit(c) \/ SumSplits(c)
    BY <2>1, <2>3 DEF CountSplit, SumSplits, Counts
  <2>4. QED
    BY <2>2, <2>3
<1>4. /\ \/ stored' = stored /\ (epilogue' = [epilogue EXCEPT ![c] = "published"] \/ epilogue' = [epilogue EXCEPT ![c] = "last"])
         \/ stored' = [stored EXCEPT ![c] = @ + 1] /\ epilogue' = [epilogue EXCEPT ![c] = "none"]
  BY DEF Store, Publish, CountSplit, SumSplits, StoreTile
<1>5. \A e \in Cta \ {c} : stored'[e] = stored[e] /\ epilogue'[e] = epilogue[e]
  BY <1>4 DEF Working
<1>6. stored'[c] = stored[c] \/ (stored'[c] = stored[c] + 1 /\ epilogue'[c] = "none")
  BY <1>4 DEF Working
<1>7. Counts(c)'
  <2>1. CASE stored'[c] = stored[c]
    BY <1>1, <1>2, <1>3, <2>1, InGemm DEF Counts, Depth, Tiles
  <2>2. CASE stored'[c] = stored[c] + 1 /\ epilogue'[c] = "none"
    <3>1. stored'[c] * Depth(c) = stored[c] * Depth(c) + Depth(c)
      BY <1>2, <2>2, InGemm
    <3>2. QED
      BY <1>1, <1>2, <1>3, <2>2, <3>1, InGemm DEF Counts, Depth, Tiles
  <2>3. QED
    BY <1>6, <2>1, <2>2
<1>8. StageShapes'
  BY <1>1 DEF Pipes, StageShapes
<1>9. \A e \in Cta \ {c} : Same(e)
  BY <1>1, <1>5 DEF Same
<1>10. QED
  BY <1>1, <1>2, <1>7, <1>8, <1>9, CountsKeep

LEMMA ReleaseKeeps ==
  ASSUME Walk, Working, Pipes, NEW c \in Cta, Release(c)
  PROVE  Pipes'
<1>1. PICK l \in Nat : l = released[c]
  BY DEF Pipes, StageShapes
<1>2. /\ at[c] = "gemm" /\ l < finished[c]
      /\ empty' = [empty EXCEPT ![c][StageOf(l)] = 1 - @] /\ released' = [released EXCEPT ![c] = @ + 1]
      /\ UNCHANGED <<phase, at, full, data, tag, copies, issued, streamed, read, finished, stored, epilogue>>
  BY <1>1 DEF Release
<1>3. PICK p \in Index : p = phase[c]
  BY <1>2, InGemm
<1>4. PICK i \in Nat : i = issued[c]
  BY <1>2, InGemm
<1>5. PICK x \in Nat : x = streamed[c]
  BY <1>2, InGemm
<1>6. PICK r \in Nat : r = read[c]
  BY <1>2, InGemm
<1>7. Counts(c) /\ Pipe(c, p, i, x, r, l) /\ tag[c] <= phase[c] /\ tag[c] \in Nat /\ phase[c] \in Nat /\ finished[c] \in Nat
  BY <1>1, <1>2, <1>3, <1>4, <1>5, <1>6, InGemm
<1>8. PICK s \in Stage : s = StageOf(l)
  BY StageIs
<1>9. empty = [d \in Cta |-> [z \in Stage |-> empty[d][z]]]
  BY DEF Pipes, StageShapes
<1>10. empty' = [empty EXCEPT ![c][s] = 1 - @]
  BY <1>2, <1>8
<1>11. \A z \in Stage : empty'[c][z] = IF z = s THEN 1 - empty[c][z] ELSE empty[c][z]
  BY <1>9, <1>10
<1>12. empty' = [d \in Cta |-> [z \in Stage |-> empty'[d][z]]] /\ \A e \in Cta \ {c} : empty'[e] = empty[e]
  BY <1>9, <1>10
<1>13. full'[c] = full[c] /\ data'[c] = data[c] /\ copies'[c] = copies[c]
  BY <1>2
<1>14. Pipe(c, p, i, x, r, l + 1)'
  BY <1>7, <1>8, <1>11, <1>13, PipeReleases
<1>15. released' \in [Cta -> Nat] /\ released'[c] = l + 1 /\ \A e \in Cta \ {c} : released'[e] = released[e]
  BY <1>1, <1>2 DEF Pipes, StageShapes
<1>16. released[c] # stored[c] * Depth(c) + Depth(c)
  BY <1>1, <1>2, <1>6, <1>7, InGemm DEF Counts
<1>17. Counts(c)'
  BY SMTT(30), <1>1, <1>2, <1>4, <1>7, <1>15, <1>16, InGemm, GridAssumption DEF Counts, Depth, Tiles
<1>18. Staged(c)'
  BY <1>2, <1>3, <1>4, <1>5, <1>6, <1>7, <1>14, <1>15, <1>17, StepInGemm
<1>19. StageShapes'
  BY SMTT(30), <1>2, <1>12, <1>15 DEF Pipes, StageShapes
<1>20. \A e \in Cta \ {c} : Same(e)
  BY <1>2, <1>12, <1>15 DEF Same
<1>21. QED
  BY <1>18, <1>19, <1>20, OthersStay

LEMMA LandKeeps ==
  ASSUME Walk, Working, Pipes, NEW c \in Cta, Land(c)
  PROVE  Pipes'
<1>1. PICK y \in copies[c] :
        /\ data' = [data EXCEPT ![c][y.stage][y.operand] = y.item]
        /\ full' = [full EXCEPT ![c][y.stage] =
                      IF @.armed /\ full[c][y.stage].landed \cup {y.operand} = {"A", "B"}
                        THEN [parity |-> 1 - @.parity, armed |-> FALSE, landed |-> {}]
                        ELSE [@ EXCEPT !.landed = full[c][y.stage].landed \cup {y.operand}]]
        /\ copies' = [copies EXCEPT ![c] = @ \ {y}]
        /\ UNCHANGED <<phase, at, empty, tag, issued, streamed, read, finished, released, stored, epilogue>>
  BY DEF Land, pipe
<1>2. \E p \in Index : \E i, x, r, l \in Nat :
        /\ Pipe(c, p, i, x, r, l)
        /\ \/ at[c] = "gemm" /\ p = phase[c] /\ i = issued[c] /\ x = streamed[c] /\ r = read[c] /\ l = released[c]
           \/ Pending(c) /\ at[c] # "gemm" /\ p = tag[c] /\ i = 0 /\ x = Streamed(p) /\ r = 0 /\ l = 0
  <2>1. CASE at[c] = "gemm"
    BY <2>1, InGemm
  <2>2. CASE at[c] # "gemm"
    <3>1. Staged(c)
      BY DEF Pipes
    <3>2. Pending(c)
      BY <1>1, <2>2, <3>1 DEF Staged
    <3>3. PICK p : p = tag[c]
      OBVIOUS
    <3>4. p \in Index
      <4>1. tag[c] \in Index \cup {0} /\ phase[c] \in Nat /\ phase[c] > 0
        BY Counted, PhasesAssumption DEF Pipes, StageShapes
      <4>2. QED
        BY <3>2, <3>3, <4>1 DEF Pending
    <3>5. Phases[p].gemm /\ Pipe(c, p, 0, Streamed(p), 0, 0)
      BY <3>1, <3>2, <3>3 DEF Staged, NextGemm
    <3>6. Streamed(p) \in Nat
      BY <3>4, <3>5, StreamedIs
    <3>7. 0 \in Nat
      OBVIOUS
    <3>8. QED
      BY <2>2, <3>2, <3>3, <3>4, <3>5, <3>6, <3>7
  <2>3. QED
    BY <2>1, <2>2
<1>3. PICK p \in Index, i \in Nat, x \in Nat, r \in Nat, l \in Nat :
        /\ Pipe(c, p, i, x, r, l)
        /\ \/ at[c] = "gemm" /\ p = phase[c] /\ i = issued[c] /\ x = streamed[c] /\ r = read[c] /\ l = released[c]
           \/ Pending(c) /\ at[c] # "gemm" /\ p = tag[c] /\ i = 0 /\ x = Streamed(p) /\ r = 0 /\ l = 0
  BY <1>2
<1>4. PICK k \in Stage : k = y.stage
  BY <1>3 DEF Pipe
<1>5. PICK g : g = full[c][k] /\ g = [parity |-> g.parity, armed |-> g.armed, landed |-> g.landed]
               /\ g.landed \in SUBSET {"A", "B"}
  <2>1. StageShapes
    BY DEF Pipes
  <2>2. /\ full[c][k] = [parity |-> full[c][k].parity, armed |-> full[c][k].armed, landed |-> full[c][k].landed]
        /\ full[c][k].landed \in SUBSET {"A", "B"}
    BY <2>1, BarrierIs
  <2>3. QED
    BY <2>2, Zenon
<1>6. y.operand \in {"A", "B"}
  <2>1. PICK w \in Nat \ {0} : w = Stages
    BY GridAssumption
  <2>2. PICK X \in Nat : X = Upto(i, x)
    BY DEF Upto
  <2>3. PICK n \in X .. X + w - 1 : StageOf(n) = k
    BY <2>1, StageHas
  <2>4. n \in Nat /\ Before(c, p, n, i, r)
    BY <1>3, <2>1, <2>2 DEF Pipe
  <2>5. ~ Idle(c, n)
    BY <1>4, <2>3 DEF Idle
  <2>6. n >= Stages /\ Filling(c, p, n - Stages, i)
    BY <2>4, <2>5 DEF Before
  <2>7. PICK m \in Nat : m = n - Stages /\ StageOf(m) = k
    BY <2>3, <2>4, <2>6, UseBefore
  <2>8. PICK o \in {"A", "B"} : y = Copy(k, o, Wanted(c, p, m)[o])
    BY <1>4, <2>6, <2>7 DEF Filling
  <2>9. QED
    BY <2>8 DEF Copy
<1>7. PICK L \in SUBSET {"A", "B"} : L = g.landed \cup {y.operand}
  BY <1>5, <1>6
<1>8. PICK h : h = IF g.armed /\ L = {"A", "B"} THEN [parity |-> 1 - g.parity, armed |-> FALSE, landed |-> {}]
                   ELSE [g EXCEPT !.landed = L]
  OBVIOUS
<1>9. \/ h = [parity |-> 1 - g.parity, armed |-> FALSE, landed |-> {}] /\ L = {"A", "B"}
      \/ h = [g EXCEPT !.landed = L]
  BY <1>8
<1>10. \/ h = [parity |-> 1 - g.parity, armed |-> FALSE, landed |-> {}] /\ L = {"A", "B"}
       \/ h = [parity |-> g.parity, armed |-> g.armed, landed |-> L]
  BY <1>5, <1>9
<1>11. h = [parity |-> h.parity, armed |-> h.armed, landed |-> h.landed] /\ h.landed \in SUBSET {"A", "B"}
  BY <1>10
<1>12. \/ h.parity = 1 - g.parity /\ h.landed = {} /\ L = {"A", "B"}
       \/ h.parity = g.parity /\ h.landed = L
  BY <1>10
<1>13. full' = [full EXCEPT ![c] = [full[c] EXCEPT ![k] = h]]
  BY <1>1, <1>4, <1>5, <1>7, <1>8
<1>14. /\ full'[c][k] = h /\ \A s \in Stage : s # k => full'[c][s] = full[c][s]
       /\ \A d \in Cta \ {c} : full'[d] = full[d]
       /\ full' = [d \in Cta |-> [s \in Stage |->
            [parity |-> full'[d][s].parity, armed |-> full'[d][s].armed, landed |-> full'[d][s].landed]]]
       /\ \A d \in Cta : \A s \in Stage : full'[d][s].landed \in SUBSET {"A", "B"}
  <2>1. StageShapes
    BY DEF Pipes
  <2>2. IsBarrier(h)
    BY <1>11 DEF IsBarrier
  <2>3. /\ full'[c][k] = h
        /\ \A s \in Stage : s # k => full'[c][s] = full[c][s]
        /\ \A d \in Cta \ {c} : full'[d] = full[d]
        /\ FullShape'
    BY <1>13, <2>1, <2>2, BarrierSet
  <2>4. QED
    BY <2>3 DEF FullShape
<1>15. data = [d \in Cta |-> [s \in Stage |-> [o \in {"A", "B"} |-> data[d][s][o]]]]
  BY DEF Pipes, StageShapes
<1>16. /\ data[c] = [s \in Stage |-> [o \in {"A", "B"} |-> data[c][s][o]]]
       /\ data'[c] = [data[c] EXCEPT ![y.stage][y.operand] = y.item]
       /\ \A d \in Cta \ {c} : data'[d] = data[d]
  <2>1. PICK g1 : g1 = data
    OBVIOUS
  <2>2. g1 = [d \in Cta |-> [s \in Stage |-> [o \in {"A", "B"} |-> g1[d][s][o]]]]
    BY <1>15, <2>1
  <2>3. data' = [g1 EXCEPT ![c][y.stage][y.operand] = y.item]
    BY <1>1, <2>1
  <2>4. g1[c] = [s \in Stage |-> [o \in {"A", "B"} |-> g1[c][s][o]]]
    BY <2>2
  <2>5. data'[c] = [g1[c] EXCEPT ![y.stage][y.operand] = y.item] /\ \A d \in Cta \ {c} : data'[d] = g1[d]
    BY <2>2, <2>3
  <2>6. QED
    BY <2>1, <2>4, <2>5
<1>17. data' = [d \in Cta |-> [s \in Stage |-> [o \in {"A", "B"} |-> data'[d][s][o]]]]
  <2>1. PICK g1 : g1 = data
    OBVIOUS
  <2>2. g1 = [d \in Cta |-> [s \in Stage |-> [o \in {"A", "B"} |-> g1[d][s][o]]]]
    BY <1>15, <2>1
  <2>3. PICK gc : gc = g1[c] /\ gc = [s \in Stage |-> [o \in {"A", "B"} |-> g1[c][s][o]]]
    BY <2>2
  <2>4. PICK gs : gs = gc[k] /\ gs = [o \in {"A", "B"} |-> g1[c][k][o]]
    BY <2>3
  <2>5. PICK o \in {"A", "B"} : o = y.operand
    BY <1>6
  <2>6. PICK hs : hs = [gs EXCEPT ![o] = y.item]
    OBVIOUS
  <2>7. hs = [e \in {"A", "B"} |-> hs[e]]
    BY <2>4, <2>6
  <2>8. PICK hc : hc = [gc EXCEPT ![k] = hs]
    OBVIOUS
  <2>9. hc = [s \in Stage |-> IF s = k THEN hs ELSE gc[s]]
    BY <2>3, <2>8
  <2>10. ASSUME NEW s \in Stage PROVE hc[s] = [e \in {"A", "B"} |-> hc[s][e]]
    <3>1. CASE s = k
      BY <2>7, <2>9, <3>1
    <3>2. CASE s # k
      BY <2>3, <2>9, <3>2
    <3>3. QED
      BY <3>1, <3>2
  <2>11. hc = [s \in Stage |-> hc[s]]
    BY <2>9
  <2>12. hc = [s \in Stage |-> [e \in {"A", "B"} |-> hc[s][e]]]
    BY <2>10, <2>11
  <2>13. PICK H : H = [g1 EXCEPT ![c] = hc]
    OBVIOUS
  <2>14. data' = H
    BY <1>1, <1>4, <2>1, <2>3, <2>4, <2>5, <2>6, <2>8, <2>13
  <2>15. ASSUME NEW d \in Cta PROVE H[d] = [s \in Stage |-> [e \in {"A", "B"} |-> H[d][s][e]]]
    <3>1. CASE d = c
      <4>1. H[d] = hc
        BY <2>2, <2>13, <3>1
      <4>2. QED
        BY <4>1, <2>12
    <3>2. CASE d # c
      <4>1. H[d] = g1[d]
        BY <2>2, <2>13, <3>2
      <4>2. QED
        BY <2>2, <4>1
    <3>3. QED
      BY <3>1, <3>2
  <2>16. H = [d \in Cta |-> H[d]]
    BY <2>2, <2>13
  <2>17. H = [d \in Cta |-> [s \in Stage |-> [e \in {"A", "B"} |-> H[d][s][e]]]]
    BY <2>15, <2>16
  <2>18. QED
    BY <2>14, <2>17
<1>18. /\ copies'[c] = copies[c] \ {y} /\ copies' = [d \in Cta |-> copies'[d]]
       /\ \A d \in Cta \ {c} : copies'[d] = copies[d]
  <2>1. PICK g1 : g1 = copies /\ g1 = [d \in Cta |-> g1[d]]
    BY DEF Pipes, StageShapes
  <2>2. PICK h1 : h1 = [g1 EXCEPT ![c] = g1[c] \ {y}]
    OBVIOUS
  <2>3. h1 = [d \in Cta |-> h1[d]] /\ h1[c] = g1[c] \ {y} /\ \A d \in Cta \ {c} : h1[d] = g1[d]
    BY <2>1, <2>2
  <2>4. copies' = h1
    BY <1>1, <2>1, <2>2
  <2>5. QED
    BY <2>1, <2>3, <2>4
<1>19. Pipe(c, p, i, x, r, l)'
  <2>1. empty'[c] = empty[c]
    BY <1>1
  <2>2. \A s \in Stage \ {y.stage} : full'[c][s] = full[c][s]
    BY <1>4, <1>14
  <2>3. \/ /\ full'[c][y.stage].parity = 1 - full[c][y.stage].parity /\ full'[c][y.stage].landed = {}
           /\ full[c][y.stage].landed \cup {y.operand} = {"A", "B"}
        \/ /\ full'[c][y.stage].parity = full[c][y.stage].parity
           /\ full'[c][y.stage].landed = full[c][y.stage].landed \cup {y.operand}
    BY <1>4, <1>5, <1>7, <1>12, <1>14
  <2>4. full[c][y.stage].landed \in SUBSET {"A", "B"}
    BY <1>4, <1>5
  <2>5. Pipe(c, p, i, x, r, l) /\ copies'[c] = copies[c] \ {y}
    BY <1>3, <1>18
  <2>6. QED
    BY <1>16, <2>1, <2>2, <2>3, <2>4, <2>5, PipeLands
<1>20. Counts(c)' <=> Counts(c)
  BY <1>1 DEF Counts, Depth, Tiles
<1>21. Pending(c)' <=> Pending(c)
  BY <1>1 DEF Pending
<1>22. \A q : Awaited(c, q)' <=> Awaited(c, q)
  BY <1>1 DEF Awaited
<1>23. Staged(c)'
  <2>1. CASE at[c] = "gemm" /\ p = phase[c] /\ i = issued[c] /\ x = streamed[c] /\ r = read[c] /\ l = released[c]
    BY <1>1, <1>19, <1>20, <2>1, InGemm, StepInGemm
  <2>2. CASE Pending(c) /\ at[c] # "gemm" /\ p = tag[c] /\ i = 0 /\ x = Streamed(p) /\ r = 0 /\ l = 0
    <3>1. NextGemm(c, p) /\ Awaited(c, p)
      BY <2>2 DEF Pipes, Staged
    <3>2. Pipe(c, p, 0, Streamed(p), 0, 0)'
      BY <1>19, <2>2
    <3>3. tag'[c] = p /\ at'[c] # "gemm" /\ NextGemm(c, p)' /\ Awaited(c, p)'
      BY <1>1, <1>22, <2>2, <3>1 DEF NextGemm
    <3>4. QED
      BY <1>21, <2>2, <3>2, <3>3 DEF Staged
  <2>3. QED
    BY <1>3, <2>1, <2>2
<1>24. StageShapes'
  <2>1. (empty = [d \in Cta |-> [s \in Stage |-> empty[d][s]]])'
    BY <1>1 DEF Pipes, StageShapes
  <2>2. /\ tag' \in [Cta -> Index \cup {0}]
        /\ issued' \in [Cta -> Nat] /\ streamed' \in [Cta -> Nat] /\ read' \in [Cta -> Nat]
        /\ finished' \in [Cta -> Nat] /\ released' \in [Cta -> Nat]
    BY <1>1 DEF Pipes, StageShapes
  <2>3. QED
    BY <1>14, <1>17, <1>18, <2>1, <2>2 DEF StageShapes
<1>25. \A d \in Cta \ {c} : Same(d)
  BY <1>1, <1>14, <1>16, <1>18 DEF Same
<1>26. QED
  BY <1>23, <1>24, <1>25, OthersStay

LEMMA EndGemmKeeps ==
  ASSUME Walk, Working, Pipes, NEW c \in Cta, EndGemm(c)
  PROVE  Pipes'
<1>1. /\ at[c] = "gemm" /\ issued[c] = Tiles(c) /\ stored[c] = UnitsOf[c][phase[c]]
      /\ Arm(c, issued[c] + Stages - 1) /\ at' = [at EXCEPT ![c] = "close"]
      /\ UNCHANGED <<phase, empty, data, tag, copies, issued, streamed, read, finished, released, stored, epilogue>>
  BY DEF EndGemm, Goto, pipe
<1>2. PICK N \in Nat : N = issued[c] + Stages - 1
  BY <1>1, InGemm, GridAssumption
<1>3. copies[c] = {}
  <2>1. PICK p \in Index : p = phase[c] /\ Pipe(c, p, issued[c], streamed[c], read[c], released[c])
    BY <1>1, InGemm
  <2>2. PICK i \in Nat : i = issued[c]
    BY <1>1, InGemm
  <2>3. PICK x \in Nat : x = streamed[c]
    BY <1>1, InGemm
  <2>4. PICK l \in Nat : l = released[c]
    BY <1>1, InGemm
  <2>5. read[c] = i /\ x <= i
    <3>1. stored[c] * Depth(c) = Tiles(c) /\ Depth(c) <= Tiles(c) /\ Counts(c)
      BY <1>1, InGemm
    <3>2. /\ Depth(c) \in Nat /\ Tiles(c) \in Nat /\ read[c] \in Nat /\ finished[c] \in Nat /\ released[c] \in Nat
          /\ stored[c] * Depth(c) \in Nat
      BY <1>1, InGemm
    <3>3. /\ stored[c] * Depth(c) <= released[c] /\ released[c] <= finished[c] /\ finished[c] <= read[c]
          /\ read[c] <= issued[c] /\ streamed[c] <= Depth(c)
      BY <3>1 DEF Counts
    <3>4. QED
      BY <1>1, <2>2, <2>3, <3>1, <3>2, <3>3
  <2>6. Pipe(c, p, i, x, i, l)
    BY <2>1, <2>2, <2>3, <2>4, <2>5
  <2>7. QED
    BY <2>5, <2>6, PipeEmpty
<1>4. StageShapes /\ Arm(c, N)
  BY <1>1, <1>2 DEF Pipes
<1>5. /\ \A d \in Cta \ {c} : full'[d] = full[d]
      /\ full' = [d \in Cta |-> [s \in Stage |->
           [parity |-> full'[d][s].parity, armed |-> full'[d][s].armed, landed |-> full'[d][s].landed]]]
      /\ \A d \in Cta : \A s \in Stage : full'[d][s].landed \in SUBSET {"A", "B"}
  BY <1>4, ArmIs
<1>6. at'[c] = "close" /\ \A d \in Cta \ {c} : at'[d] = at[d]
  BY <1>1 DEF Walk
<1>7. Staged(c)'
  <2>1. ~ Pending(c)'
    BY <1>1, <1>6, InGemm DEF Pending
  <2>2. copies'[c] = {}
    BY <1>1, <1>3
  <2>3. QED
    BY <1>6, <2>1, <2>2 DEF Staged
<1>8. StageShapes'
  <2>1. data' = [d \in Cta |-> [s \in Stage |-> [o \in {"A", "B"} |-> data'[d][s][o]]]]
    BY <1>1, <1>4 DEF StageShapes
  <2>2. /\ empty' = [d \in Cta |-> [s \in Stage |-> empty'[d][s]]]
        /\ copies' = [d \in Cta |-> copies'[d]]
    BY <1>1, <1>4 DEF StageShapes
  <2>3. /\ tag' \in [Cta -> Index \cup {0}]
        /\ issued' \in [Cta -> Nat] /\ streamed' \in [Cta -> Nat] /\ read' \in [Cta -> Nat]
        /\ finished' \in [Cta -> Nat] /\ released' \in [Cta -> Nat]
    BY <1>1, <1>4 DEF StageShapes
  <2>4. QED
    BY <1>5, <2>1, <2>2, <2>3 DEF StageShapes
<1>9. \A d \in Cta \ {c} : Same(d)
  BY <1>1, <1>5, <1>6 DEF Same
<1>10. QED
  BY <1>7, <1>8, <1>9, OthersStay

(* Nothing is staged for a phase behind a GEMM the CTA is about to run.    *)
LEMMA StagedForThis ==
  ASSUME Walk, Pipes, NEW c \in Cta, at[c] = "phase",
         Pending(c), Phases[phase[c]].gemm, UnitsOf[c][phase[c]] > 0
  PROVE  tag[c] = phase[c]
<1>1. NextGemm(c, tag[c]) /\ Awaited(c, tag[c])
  BY DEF Pipes, Staged
<1>2. PICK p \in Index : p = phase[c]
  BY Counted
<1>3. tag[c] \in Nat /\ p \in Nat
  BY PhasesAssumption DEF Pipes, StageShapes
<1>4. Interval[tag[c]] = Interval[p]
  BY <1>1, <1>2 DEF Awaited
<1>5. ~ (p < tag[c])
  BY <1>1, <1>2, <1>4 DEF NextGemm
<1>6. tag[c] >= p
  BY <1>2, <1>3 DEF Pending
<1>7. QED
  BY <1>2, <1>3, <1>5, <1>6

(* The barriers of one CTA are set up.                                     *)
LEMMA FullSet ==
  ASSUME StageShapes, NEW c \in Cta, NEW h,
         h = [s \in Stage |-> h[s]], \A s \in Stage : IsBarrier(h[s]),
         full' = [full EXCEPT ![c] = h]
  PROVE  full'[c] = h /\ FullShape' /\ \A d \in Cta \ {c} : full'[d] = full[d]
<1>1. PICK g : g = full /\ g = [d \in Cta |-> [s \in Stage |->
        [parity |-> g[d][s].parity, armed |-> g[d][s].armed, landed |-> g[d][s].landed]]]
  BY DEF StageShapes
<1>2. PICK f : f = [g EXCEPT ![c] = h]
  OBVIOUS
<1>3. f[c] = h /\ \A d \in Cta \ {c} : f[d] = g[d]
  BY <1>1, <1>2
<1>4. f = [d \in Cta |-> f[d]]
  BY <1>1, <1>2
<1>5. ASSUME NEW d \in Cta
      PROVE  /\ f[d] = [s \in Stage |->
                  [parity |-> f[d][s].parity, armed |-> f[d][s].armed, landed |-> f[d][s].landed]]
             /\ \A s \in Stage : f[d][s].landed \in SUBSET {"A", "B"}
  <2>1. CASE d = c
    <3>1. \A s \in Stage : /\ h[s] = [parity |-> h[s].parity, armed |-> h[s].armed, landed |-> h[s].landed]
                           /\ h[s].landed \in SUBSET {"A", "B"}
      BY DEF IsBarrier
    <3>2. h = [s \in Stage |-> [parity |-> h[s].parity, armed |-> h[s].armed, landed |-> h[s].landed]]
      BY <3>1
    <3>3. f[d] = h
      BY <1>3, <2>1
    <3>4. QED
      BY <3>1, <3>2, <3>3
  <2>2. CASE d # c
    <3>1. f[d] = g[d]
      BY <1>3, <2>2
    <3>2. g[d] = [s \in Stage |-> [parity |-> g[d][s].parity, armed |-> g[d][s].armed, landed |-> g[d][s].landed]]
      BY <1>1
    <3>3. \A s \in Stage : g[d][s].landed \in SUBSET {"A", "B"}
      BY <1>1 DEF StageShapes
    <3>4. QED
      BY <3>1, <3>2, <3>3
  <2>3. QED
    BY <2>1, <2>2
<1>6. f = [d \in Cta |-> [s \in Stage |->
        [parity |-> f[d][s].parity, armed |-> f[d][s].armed, landed |-> f[d][s].landed]]]
  <2>1. PICK e : e = [d \in Cta |-> [s \in Stage |->
          [parity |-> f[d][s].parity, armed |-> f[d][s].armed, landed |-> f[d][s].landed]]]
    OBVIOUS
  <2>2. ASSUME NEW d \in Cta PROVE e[d] = f[d]
    <3>1. e[d] = [s \in Stage |-> [parity |-> f[d][s].parity, armed |-> f[d][s].armed, landed |-> f[d][s].landed]]
      BY <2>1
    <3>2. f[d] = [s \in Stage |-> [parity |-> f[d][s].parity, armed |-> f[d][s].armed, landed |-> f[d][s].landed]]
      BY <1>5
    <3>3. QED
      BY <3>1, <3>2
  <2>3. e = [d \in Cta |-> e[d]]
    BY <2>1
  <2>4. e = f
    BY <1>4, <2>2, <2>3
  <2>5. QED
    BY <2>1, <2>4
<1>7. full' = f
  BY <1>1, <1>2
<1>8. FullShape'
  <2>1. \A d \in Cta : \A s \in Stage : f[d][s].landed \in SUBSET {"A", "B"}
    BY <1>5
  <2>2. \A d \in Cta : \A s \in Stage : full'[d][s].landed \in SUBSET {"A", "B"}
    BY <1>7, <2>1
  <2>3. full' = [d \in Cta |-> [s \in Stage |->
          [parity |-> full'[d][s].parity, armed |-> full'[d][s].armed, landed |-> full'[d][s].landed]]]
    BY <1>6, <1>7, Zenon
  <2>4. QED
    BY <2>2, <2>3 DEF FullShape
<1>9. QED
  BY <1>1, <1>3, <1>7, <1>8

LEMMA FreshIs ==
  ASSUME StageShapes, NEW c \in Cta, Fresh(c)
  PROVE  /\ full'[c] = FreshFull /\ empty'[c] = FreshEmpty /\ FullShape'
         /\ empty' = [d \in Cta |-> [s \in Stage |-> empty'[d][s]]]
         /\ \A d \in Cta \ {c} : full'[d] = full[d] /\ empty'[d] = empty[d]
<1>1. full' = [full EXCEPT ![c] = FreshFull] /\ empty' = [empty EXCEPT ![c] = FreshEmpty]
  BY DEF Fresh
<1>2. FreshFull = [s \in Stage |-> FreshFull[s]] /\ \A s \in Stage : IsBarrier(FreshFull[s])
  BY DEF FreshFull, IsBarrier
<1>3. full'[c] = FreshFull /\ FullShape' /\ \A d \in Cta \ {c} : full'[d] = full[d]
  BY <1>1, <1>2, FullSet
<1>4. empty = [d \in Cta |-> [s \in Stage |-> empty[d][s]]]
  BY DEF StageShapes
<1>5. /\ empty'[c] = FreshEmpty /\ \A d \in Cta \ {c} : empty'[d] = empty[d]
      /\ empty' = [d \in Cta |-> [s \in Stage |-> empty'[d][s]]]
  BY <1>1, <1>4 DEF FreshEmpty
<1>6. QED
  BY <1>3, <1>5

LEMMA GemmBodyKeeps ==
  ASSUME Walk, Working, Pipes, NEW c \in Cta, GemmBody(c)
  PROVE  Pipes'
<1>1. PICK p \in Index : p = phase[c] /\ Phases[p].gemm /\ UnitsOf[c][p] > 0 /\ UnitsOf[c][p] \in Nat
  BY Counted, UnitsOfIs DEF GemmBody
<1>2. PICK x \in Nat : x = (IF tag[c] = p THEN Streamed(p) ELSE 0) /\ x <= Phases[p].depth /\ x <= Stages
  BY <1>1, StreamedIs, PhasesAssumption, GridAssumption
<1>3. /\ at[c] = "phase" /\ at' = [at EXCEPT ![c] = "gemm"] /\ SetUp(c)
      /\ streamed' = [streamed EXCEPT ![c] = x] /\ issued' = [issued EXCEPT ![c] = 0]
      /\ stored' = [stored EXCEPT ![c] = 0] /\ read' = [read EXCEPT ![c] = 0]
      /\ finished' = [finished EXCEPT ![c] = 0] /\ released' = [released EXCEPT ![c] = 0]
      /\ UNCHANGED <<phase, data, tag, copies, epilogue>>
  BY <1>1, <1>2 DEF GemmBody, Goto, Preloaded
<1>4. /\ StageShapes /\ Staged(c) /\ p \in Nat /\ tag[c] \in Nat
  BY PhasesAssumption DEF Pipes, StageShapes
<1>5. Pending(c) => tag[c] = p
  BY <1>1, <1>3, StagedForThis
<1>6. tag[c] <= p
  BY <1>1, <1>4, <1>5 DEF Pending
<1>7. /\ FullShape' /\ empty' = [d \in Cta |-> [s \in Stage |-> empty'[d][s]]]
      /\ \A d \in Cta \ {c} : full'[d] = full[d] /\ empty'[d] = empty[d]
      /\ tag[c] = p => full'[c] = full[c] /\ empty'[c] = empty[c]
      /\ tag[c] # p => full'[c] = FreshFull /\ empty'[c] = FreshEmpty
  <2>1. CASE tag[c] = p
    <3>1. full' = full /\ empty' = empty
      BY <1>1, <1>3, <2>1 DEF SetUp, Preloaded
    <3>2. FullShape
      BY <1>4 DEF StageShapes, FullShape
    <3>3. FullShape'
      BY <3>1, <3>2 DEF FullShape
    <3>4. empty' = [d \in Cta |-> [s \in Stage |-> empty'[d][s]]]
      BY <1>4, <3>1 DEF StageShapes
    <3>5. QED
      BY <2>1, <3>1, <3>3, <3>4
  <2>2. CASE tag[c] # p
    <3>1. Fresh(c)
      BY <1>1, <1>3, <2>2 DEF SetUp, Preloaded
    <3>2. QED
      BY <1>4, <2>2, <3>1, FreshIs
  <2>3. QED
    BY <2>1, <2>2
<1>8. Pipe(c, p, 0, x, 0, 0)'
  <2>1. data'[c] = data[c] /\ copies'[c] = copies[c]
    BY <1>3
  <2>2. CASE tag[c] = p
    <3>1. Pipe(c, p, 0, x, 0, 0)
      BY <1>1, <1>2, <1>3, <1>4, <2>2 DEF Staged, Pending
    <3>2. QED
      BY <1>7, <2>1, <2>2, <3>1, PipeStays
  <2>3. CASE tag[c] # p
    <3>1. copies'[c] = {}
      BY <1>3, <1>4, <1>5, <2>1, <2>3 DEF Staged
    <3>2. x = 0
      BY <1>2, <2>3
    <3>3. Pipe(c, p, 0, 0, 0, 0)'
      BY <1>7, <2>3, <3>1, PipeFresh
    <3>4. QED
      BY <3>2, <3>3
  <2>4. QED
    BY <2>2, <2>3
<1>9. /\ streamed' \in [Cta -> Nat] /\ issued' \in [Cta -> Nat] /\ read' \in [Cta -> Nat]
      /\ finished' \in [Cta -> Nat] /\ released' \in [Cta -> Nat]
      /\ streamed'[c] = x /\ issued'[c] = 0 /\ read'[c] = 0 /\ finished'[c] = 0 /\ released'[c] = 0
      /\ \A d \in Cta \ {c} : /\ streamed'[d] = streamed[d] /\ issued'[d] = issued[d] /\ read'[d] = read[d]
                              /\ finished'[d] = finished[d] /\ released'[d] = released[d]
  BY <1>3, <1>4 DEF StageShapes
<1>10. /\ stored'[c] = 0 /\ at'[c] = "gemm"
       /\ \A d \in Cta \ {c} : stored'[d] = stored[d] /\ at'[d] = at[d]
  BY <1>3 DEF Working, Walk
<1>11. epilogue'[c] = "none"
  BY <1>3 DEF Working
<1>12. Counts(c)'
  <2>1. PICK d \in Nat \ {0} : d = Phases[p].depth
    BY <1>1, PhasesAssumption
  <2>2. PICK u \in Nat : u = UnitsOf[c][p]
    BY <1>1
  <2>3. Depth(c)' = d /\ Tiles(c)' = u * d /\ u * d \in Nat /\ 0 * d = 0
    BY <1>1, <1>3, <2>1, <2>2 DEF Depth, Tiles
  <2>4. Stages \in Nat
    BY GridAssumption
  <2>5. QED
    BY <1>2, <1>9, <1>10, <1>11, <2>1, <2>3, <2>4 DEF Counts
<1>13. Staged(c)'
  BY <1>1, <1>3, <1>4, <1>6, <1>8, <1>9, <1>10, <1>12, StepInGemm
<1>14. StageShapes'
  <2>1. data' = [d \in Cta |-> [s \in Stage |-> [o \in {"A", "B"} |-> data'[d][s][o]]]]
    BY <1>3, <1>4 DEF StageShapes
  <2>2. copies' = [d \in Cta |-> copies'[d]] /\ tag' \in [Cta -> Index \cup {0}]
    BY <1>3, <1>4 DEF StageShapes
  <2>3. QED
    BY <1>7, <1>9, <2>1, <2>2 DEF StageShapes, FullShape
<1>15. \A d \in Cta \ {c} : Same(d)
  BY <1>3, <1>7, <1>9, <1>10 DEF Same
<1>16. QED
  BY <1>13, <1>14, <1>15, OthersStay

(* The GEMM whose weights a CTA loads at the barrier behind q.             *)
LEMMA StreamIs ==
  ASSUME NEW c \in Cta, NEW q \in Index, Stream[c][q] # 0
  PROVE  LET p == Stream[c][q]
         IN  p \in Index /\ p > q /\ Interval[p] = Interval[q] + 1 /\ Streamable(p) /\ NextGemm(c, p)
<1> DEFINE mine == {r \in Index : Interval[r] = Interval[q] + 1 /\ Phases[r].gemm /\ UnitsOf[c][r] > 0}
<1>1. mine # {} /\ Stream[c][q] = Min(mine) /\ Streamable(Min(mine))
  <2>1. Stream[c][q] = IF StreamStages > 0 /\ mine # {} /\ Streamable(Min(mine)) THEN Min(mine) ELSE 0
    BY DEF Stream
  <2>2. QED
    BY <2>1
<1>2. mine \in SUBSET Nat /\ Index \in SUBSET Nat
  BY PhasesAssumption
<1>3. Min(mine) \in mine /\ \A r \in mine : Min(mine) <= r
  <2> HIDE DEF mine
  <2>1. QED
    BY <1>1, <1>2, LeastNumber
<1>4. PICK p \in mine : p = Min(mine)
  BY <1>3
<1>5. p \in Index /\ Interval[p] = Interval[q] + 1 /\ Phases[p].gemm /\ UnitsOf[c][p] > 0
  BY <1>4
<1>6. \A r \in Index : r < p /\ Interval[r] = Interval[p] => ~ (Phases[r].gemm /\ UnitsOf[c][r] > 0)
  <2> SUFFICES ASSUME NEW r \in Index, r < p, Interval[r] = Interval[p], Phases[r].gemm, UnitsOf[c][r] > 0
               PROVE  FALSE
    OBVIOUS
  <2>1. r \in mine
    BY <1>5
  <2>2. p <= r
    BY <1>3, <1>4, <2>1
  <2>3. QED
    BY <1>2, <1>5, <2>2
<1>7. p > q
  <2>1. SUFFICES ASSUME p <= q PROVE FALSE
    BY <1>2, <1>5
  <2>2. Interval[p] <= Interval[q]
    BY <1>5, <2>1, IntervalsGrow
  <2>3. Interval[q] \in Nat
    BY IntervalIs
  <2>4. QED
    BY <1>5, <2>2, <2>3
<1>8. QED
  BY <1>1, <1>4, <1>5, <1>6, <1>7 DEF NextGemm

LEMMA PreloadKeeps ==
  ASSUME Walk, Working, Pipes, NEW c \in Cta, Preload(c)
  PROVE  Pipes'
<1>1. PICK q \in Index : q = phase[c] /\ q \in Nat
  BY Counted, PhasesAssumption
<1>2. at[c] = "arrived" /\ Barrier(q) /\ Stream[c][q] # 0
  BY <1>1 DEF Preload, Walk, Place
<1>3. PICK p \in Index : /\ p = Stream[c][q] /\ p > q /\ Interval[p] = Interval[q] + 1
                         /\ Streamable(p) /\ NextGemm(c, p)
  BY <1>2, StreamIs
<1>4. PICK h : h = [s \in Stage |-> [FreshFull[s] EXCEPT !.armed = s < Streamed(p)]]
  OBVIOUS
<1>5. PICK L : L = {Copy(k, "A", A(p, Unit(c, p, 0), k)) : k \in 0 .. Streamed(p) - 1}
  OBVIOUS
<1>6. /\ full' = [full EXCEPT ![c] = h] /\ empty' = [empty EXCEPT ![c] = FreshEmpty]
      /\ copies' = [copies EXCEPT ![c] = @ \cup L] /\ tag' = [tag EXCEPT ![c] = p]
      /\ at' = [at EXCEPT ![c] = "wait"]
      /\ UNCHANGED <<phase, data, issued, streamed, read, finished, released, stored, epilogue>>
  BY <1>1, <1>3, <1>4, <1>5, Zenon DEF Preload, Goto, pipe
<1>7. StageShapes /\ Staged(c)
  BY DEF Pipes
<1>8. copies[c] = {}
  <2>1. ~ Awaited(c, tag[c])
    BY <1>2 DEF Awaited
  <2>2. QED
    BY <1>2, <1>7, <2>1 DEF Staged
<1>9. ASSUME NEW s \in Stage PROVE IsBarrier(h[s])
  <2>1. FreshFull[s] = [parity |-> 0, armed |-> FALSE, landed |-> {}]
    BY DEF FreshFull
  <2>2. PICK b : b = (s < Streamed(p))
    OBVIOUS
  <2>3. h[s] = [FreshFull[s] EXCEPT !.armed = s < Streamed(p)]
    BY <1>4
  <2>4. h[s] = [FreshFull[s] EXCEPT !.armed = b]
    BY <2>2, <2>3, Zenon
  <2>5. h[s] = [parity |-> 0, armed |-> b, landed |-> {}]
    BY <2>1, <2>4
  <2>6. QED
    BY <2>5 DEF IsBarrier
<1>10. h = [s \in Stage |-> h[s]]
  BY <1>4
<1>11. full'[c] = h /\ FullShape' /\ \A d \in Cta \ {c} : full'[d] = full[d]
  BY <1>6, <1>7, <1>9, <1>10, FullSet
<1>12. /\ empty'[c] = FreshEmpty /\ \A d \in Cta \ {c} : empty'[d] = empty[d]
       /\ empty' = [d \in Cta |-> [s \in Stage |-> empty'[d][s]]]
  <2>1. empty = [d \in Cta |-> [s \in Stage |-> empty[d][s]]]
    BY <1>7 DEF StageShapes
  <2>2. QED
    BY <1>6, <2>1 DEF FreshEmpty
<1>13. /\ copies'[c] = L /\ \A d \in Cta \ {c} : copies'[d] = copies[d]
       /\ copies' = [d \in Cta |-> copies'[d]]
  <2>1. PICK g : g = copies /\ g = [d \in Cta |-> g[d]]
    BY <1>7 DEF StageShapes
  <2>2. PICK f : f = [g EXCEPT ![c] = g[c] \cup L]
    OBVIOUS
  <2>3. f = [d \in Cta |-> f[d]] /\ f[c] = g[c] \cup L /\ \A d \in Cta \ {c} : f[d] = g[d]
    BY <2>1, <2>2
  <2>4. f[c] = L
    BY <1>8, <2>1, <2>3
  <2>5. copies' = f
    BY <1>6, <2>1, <2>2
  <2>6. QED
    BY <2>1, <2>3, <2>4, <2>5
<1>14. /\ tag' \in [Cta -> Index \cup {0}] /\ tag'[c] = p /\ \A d \in Cta \ {c} : tag'[d] = tag[d]
  BY <1>6, <1>7 DEF StageShapes
<1>15. at'[c] = "wait" /\ \A d \in Cta \ {c} : at'[d] = at[d]
  BY <1>6 DEF Walk
<1>16. Pipe(c, p, 0, Streamed(p), 0, 0)'
  <2>1. full'[c] = [s \in Stage |-> [FreshFull[s] EXCEPT !.armed = s < Streamed(p)]]
    BY <1>4, <1>11, Zenon
  <2>2. copies'[c] = {Copy(k, "A", A(p, Unit(c, p, 0), k)) : k \in 0 .. Streamed(p) - 1}
    BY <1>5, <1>13, Zenon
  <2>3. QED
    BY <1>3, <1>12, <2>1, <2>2, PipeLoads
<1>17. Staged(c)'
  <2>1. Awaited(c, p)'
    BY <1>1, <1>2, <1>3, <1>6, <1>15 DEF Awaited
  <2>2. NextGemm(c, p)'
    BY <1>3 DEF NextGemm
  <2>3. Pending(c)'
    BY <1>1, <1>3, <1>6, <1>14 DEF Pending
  <2>4. QED
    BY <1>14, <1>15, <1>16, <2>1, <2>2, <2>3 DEF Staged
<1>18. StageShapes'
  <2>1. data' = [d \in Cta |-> [s \in Stage |-> [o \in {"A", "B"} |-> data'[d][s][o]]]]
    BY <1>6, <1>7 DEF StageShapes
  <2>2. /\ issued' \in [Cta -> Nat] /\ streamed' \in [Cta -> Nat] /\ read' \in [Cta -> Nat]
        /\ finished' \in [Cta -> Nat] /\ released' \in [Cta -> Nat]
    BY <1>6, <1>7 DEF StageShapes
  <2>3. QED
    BY <1>11, <1>12, <1>13, <1>14, <2>1, <2>2 DEF StageShapes, FullShape
<1>19. \A d \in Cta \ {c} : Same(d)
  BY <1>6, <1>11, <1>12, <1>13, <1>14, <1>15 DEF Same
<1>20. QED
  BY <1>17, <1>18, <1>19, OthersStay

(* A CTA moves on outside its GEMMs.                                       *)
LEMMA MoveKeeps ==
  ASSUME Walk, Pipes, NEW c \in Cta, at[c] # "gemm", at'[c] # "gemm",
         \A d \in Cta \ {c} : phase'[d] = phase[d] /\ at'[d] = at[d],
         UNCHANGED <<shared, pipe>>,
         Pending(c)' <=> Pending(c), Pending(c) => Awaited(c, tag[c])'
  PROVE  Pipes'
<1>1. UNCHANGED <<full, empty, data, tag, copies, issued, streamed, read, finished, released, stored, epilogue>>
  BY DEF shared, pipe
<1>2. StageShapes'
  BY <1>1 DEF Pipes, StageShapes
<1>3. \A d \in Cta \ {c} : Same(d)
  BY <1>1 DEF Same
<1>4. Staged(c)
  BY DEF Pipes
<1>5. ASSUME Pending(c)
      PROVE  \E p : /\ tag'[c] = p /\ NextGemm(c, p)' /\ Awaited(c, p)'
                    /\ Pipe(c, p, 0, Streamed(p), 0, 0)'
  <2>1. PICK p : p = tag[c] /\ tag'[c] = p
    BY <1>1
  <2>2. NextGemm(c, p) /\ Awaited(c, p)' /\ Pipe(c, p, 0, Streamed(p), 0, 0)
    BY <1>4, <1>5, <2>1 DEF Staged, Awaited
  <2>3. Pipe(c, p, 0, Streamed(p), 0, 0)'
    BY <1>1, <2>2, PipeStays
  <2>4. QED
    BY <2>1, <2>2, <2>3 DEF NextGemm
<1>6. ~ Pending(c) => copies'[c] = {}
  BY <1>1, <1>4 DEF Staged
<1>7. Staged(c)'
  <2>1. CASE Pending(c)
    <3>1. PICK p : /\ tag'[c] = p /\ NextGemm(c, p)' /\ Awaited(c, p)'
                   /\ Pipe(c, p, 0, Streamed(p), 0, 0)'
      BY <1>5, <2>1
    <3>2. QED
      BY <2>1, <3>1 DEF Staged
  <2>2. CASE ~ Pending(c)
    BY <1>6, <2>2 DEF Staged
  <2>3. QED
    BY <2>1, <2>2
<1>8. QED
  BY <1>2, <1>3, <1>7, OthersStay

LEMMA TagIs ==
  ASSUME Walk, Pipes, NEW c \in Cta
  PROVE  /\ phase[c] \in Index /\ phase[c] \in Nat /\ tag[c] \in Nat
         /\ tag[c] > phase[c] => tag[c] \in Index
         /\ phase[c] = Len(Phases) => ~ (tag[c] > phase[c])
<1>1. phase[c] \in Index /\ tag[c] \in Index \cup {0}
  BY Counted DEF Pipes, StageShapes
<1>2. QED
  BY <1>1, PhasesAssumption

LEMMA BodyKeeps ==
  ASSUME Walk, Pipes, NEW c \in Cta, SkipBody(c) \/ OtherBody(c)
  PROVE  Pipes'
<1>1. /\ at[c] = "phase" /\ at' = [at EXCEPT ![c] = "close"] /\ UNCHANGED <<phase, shared, pipe>>
      /\ ~ (Phases[phase[c]].gemm /\ UnitsOf[c][phase[c]] > 0)
  BY Counted, UnitsOfIs DEF SkipBody, OtherBody, Goto
<1>2. at'[c] = "close" /\ \A d \in Cta \ {c} : phase'[d] = phase[d] /\ at'[d] = at[d]
  BY <1>1 DEF Walk
<1>3. tag' = tag
  BY <1>1 DEF shared
<1>4. Pending(c) => tag[c] # phase[c] /\ Awaited(c, tag[c])
  BY <1>1 DEF Pipes, Staged, NextGemm
<1>5. Pending(c)' <=> Pending(c)
  BY <1>1, <1>2, <1>3, <1>4 DEF Pending
<1>6. Pending(c) => Awaited(c, tag[c])'
  BY <1>1, <1>2, <1>3, <1>4 DEF Awaited
<1>7. QED
  BY <1>1, <1>2, <1>5, <1>6, MoveKeeps

LEMMA ContinueKeeps ==
  ASSUME Walk, Pipes, NEW c \in Cta, Continue(c) \/ Wait(c)
  PROVE  Pipes'
<1>1. NextPhase(c) /\ UNCHANGED <<shared, pipe>>
  BY DEF Continue, Wait
<1>2. PICK q \in Index : q = phase[c] /\ q \in Nat
  BY TagIs
<1>3. PICK t \in Nat : t = tag[c] /\ (t > q => t \in Index)
  BY <1>2, TagIs
<1>4. (at[c] = "close" /\ ~ Barrier(q)) \/ (at[c] = "wait" /\ Barrier(q))
  BY <1>2 DEF Continue, Wait, Barrier, Walk, Place
<1>5. /\ \A d \in Cta \ {c} : phase'[d] = phase[d] /\ at'[d] = at[d]
      /\ \/ q = Len(Phases) /\ phase'[c] = q /\ at'[c] = "end"
         \/ q # Len(Phases) /\ phase'[c] = q + 1 /\ at'[c] = "phase"
  BY <1>1, <1>2, NextPhaseIs
<1>6. tag[c] = t /\ tag'[c] = t /\ t \in Nat /\ (q = Len(Phases) => ~ (t > q))
  BY <1>1, <1>2, <1>3, TagIs DEF shared
<1>7. Pending(c) <=> t > q
  BY <1>2, <1>4, <1>6 DEF Pending
<1>8. Pending(c)' <=> t > q
  BY <1>2, <1>5, <1>6 DEF Pending
<1>9. ASSUME Pending(c) PROVE Awaited(c, tag[c])'
  <2>1. Awaited(c, t)
    BY <1>6, <1>9 DEF Pipes, Staged
  <2>2. q # Len(Phases) /\ phase'[c] = q + 1 /\ at'[c] = "phase"
    BY <1>5, <1>6, <1>7, <1>9
  <2>3. q + 1 \in Index /\ Interval[q + 1] = IF Barrier(q) THEN Interval[q] + 1 ELSE Interval[q]
    BY <2>2, NextInterval
  <2>4. Interval[t] = Interval[q + 1]
    BY <1>2, <1>4, <2>1, <2>3 DEF Awaited
  <2>5. QED
    BY <1>6, <2>2, <2>4 DEF Awaited
<1>10. Pending(c)' <=> Pending(c)
  BY <1>7, <1>8
<1>11. at[c] # "gemm" /\ at'[c] # "gemm"
  BY <1>4, <1>5
<1>12. QED
  BY <1>1, <1>5, <1>9, <1>10, <1>11, MoveKeeps

LEMMA ArriveKeeps ==
  ASSUME Walk, Pipes, NEW c \in Cta, Arrive(c)
  PROVE  Pipes'
<1>1. PICK q \in Index : q = phase[c] /\ q \in Nat
  BY TagIs
<1>2. at[c] = "close" /\ Barrier(q) /\ UNCHANGED <<phase, shared, pipe>>
  BY <1>1 DEF Arrive, Barrier
<1>3. at'[c] \in {"wait", "arrived"} /\ \A d \in Cta \ {c} : phase'[d] = phase[d] /\ at'[d] = at[d]
  BY <1>2 DEF Arrive, Goto, Walk
<1>4. ~ Pending(c)
  <2> SUFFICES ASSUME Pending(c) PROVE FALSE
    OBVIOUS
  <2>1. tag[c] > q
    BY <1>1, <1>2 DEF Pending
  <2>2. PICK t \in Index : t = tag[c] /\ t > q /\ t \in Nat
    BY <1>1, <2>1, TagIs
  <2>3. Interval[t] = Interval[q]
    BY <1>1, <1>2, <2>2 DEF Pipes, Staged, Awaited
  <2>4. Interval[q] + 1 <= Interval[t] /\ Interval[q] \in Nat
    <3>1. q <= t /\ q < t
      BY <1>1, <2>2
    <3>2. QED
      BY <1>2, <3>1, IntervalsGrow, IntervalIs
  <2>5. QED
    BY <2>3, <2>4
<1>5. ~ Pending(c)'
  BY <1>1, <1>2, <1>3, <1>4, TagIs DEF Pending, shared
<1>6. QED
  BY <1>2, <1>3, <1>4, <1>5, MoveKeeps

LEMMA PipesKeep == Walk /\ Working /\ Written /\ Pipes /\ [Next]_vars => Pipes'
<1> SUFFICES ASSUME Walk, Working, Written, Pipes, [Next]_vars PROVE Pipes'
  OBVIOUS
<1>1. ASSUME NEW c \in Cta, CtaStep(c) PROVE Pipes'
  <2>1. CASE OtherBody(c) \/ SkipBody(c)
    BY <2>1, BodyKeeps
  <2>2. CASE GemmBody(c)
    BY <2>2, GemmBodyKeeps
  <2>3. CASE EndGemm(c)
    BY <2>3, EndGemmKeeps
  <2>4. CASE Produce(c)
    BY <2>4, ProduceKeeps
  <2>5. CASE Multiply(c)
    BY <2>5, MultiplyKeeps
  <2>6. CASE FinishMultiply(c)
    BY <2>6, FinishKeeps
  <2>7. CASE Release(c)
    BY <2>7, ReleaseKeeps
  <2>8. CASE Store(c) \/ Publish(c) \/ CountSplit(c) \/ SumSplits(c)
    BY <2>8, UnitsKeep
  <2>9. CASE Continue(c) \/ Wait(c)
    BY <2>9, ContinueKeeps
  <2>10. CASE Arrive(c)
    BY <2>10, ArriveKeeps
  <2>11. CASE Preload(c)
    BY <2>11, PreloadKeeps
  <2>12. QED
    BY <1>1, <2>1, <2>2, <2>3, <2>4, <2>5, <2>6, <2>7, <2>8, <2>9, <2>10, <2>11 DEF CtaStep
<1>2. ASSUME UNCHANGED vars PROVE Pipes'
  <2>1. \A c \in Cta : Same(c)
    BY <1>2 DEF vars, shared, pipe, Same
  <2>2. \A c \in Cta : Staged(c)'
    BY <2>1, StagedStays DEF Pipes
  <2>3. StageShapes'
    BY <1>2 DEF vars, shared, pipe, Pipes, StageShapes
  <2>4. QED
    BY <2>2, <2>3 DEF Pipes
<1>3. QED
  BY <1>1, <1>2, LandKeeps DEF Next, Done

LEMMA PipesHold == Spec => [](Inv /\ Pipes)
<1>1. Init => Inv /\ Pipes
  BY WalkInit, WrittenInit, SummingInit, WholeInit, PipesInit DEF Inv
<1>2. Inv /\ Pipes /\ [Next]_vars => (Inv /\ Pipes)'
  BY WalkKeeps, WorkingKeeps, WrittenKeeps, SummingKeeps, WholeKeeps, PipesKeep DEF Inv
<1>3. QED
  BY <1>1, <1>2, PTL DEF Spec

(* While a stage is multiplied, from the MMA's issue until it is over, it  *)
(* holds that K tile's two operands, the weight as its producer left it:   *)
(* neither the ring's reuse (producer_acquire and the release one K tile   *)
(* behind the MMAs) nor the weights loaded at the barrier before           *)
(* (preload_table) ever put anything else there.                           *)
THEOREM OperandsInPlace == Spec => []OperandsRight
<1>1. Inv /\ Pipes => OperandsRight
  <2> SUFFICES ASSUME Inv, Pipes, NEW c \in Cta, at[c] = "gemm", NEW n \in finished[c] .. read[c] - 1
               PROVE  data[c][StageOf(n)] = Operands(phase[c], UnitAt(c, n), DepthAt(c, n))
    BY DEF OperandsRight
  <2>1. Walk /\ Working
    BY DEF Inv
  <2>2. PICK w \in Nat \ {0} : w = Stages
    BY GridAssumption
  <2>3. PICK p \in Index : p = phase[c]
    BY <2>1, InGemm
  <2>4. PICK i \in Nat : i = issued[c]
    BY <2>1, InGemm
  <2>5. PICK x \in Nat : x = streamed[c]
    BY <2>1, InGemm
  <2>6. PICK r \in Nat : r = read[c]
    BY <2>1, InGemm
  <2>7. PICK l \in Nat : l = released[c]
    BY <2>1, InGemm
  <2>8. PICK f \in Nat : f = finished[c]
    BY <2>1, InGemm
  <2>9. Pipe(c, p, i, x, r, l) /\ Counts(c)
    BY <2>1, <2>3, <2>4, <2>5, <2>6, <2>7, InGemm
  <2>10. l <= f /\ f <= r /\ r <= i /\ i <= l + w /\ x <= w
    BY <2>2, <2>4, <2>5, <2>6, <2>7, <2>8, <2>9 DEF Counts
  <2>11. n \in Nat /\ f <= n /\ n < r
    BY <2>6, <2>8
  <2>12. PICK X \in Nat : X = Upto(i, x) /\ i <= X /\ X <= l + w
    BY <2>10 DEF Upto
  <2>13. PICK m \in Nat : m = n + w
    BY <2>11
  <2>14. m \in X .. X + w - 1 /\ m >= w /\ m - w = n
    BY <2>10, <2>11, <2>12, <2>13
  <2>15. Before(c, p, m, i, r)
    BY <2>2, <2>9, <2>12, <2>14 DEF Pipe
  <2>16. data[c][StageOf(m)] = Wanted(c, p, n)
    BY <2>2, <2>11, <2>14, <2>15 DEF Before
  <2>17. StageOf(m) = StageOf(n)
    BY <2>2, <2>11, <2>13, NextUse
  <2>18. QED
    BY <2>3, <2>16, <2>17 DEF Wanted, UnitAt, DepthAt, Depth
<1>2. QED
  BY <1>1, PipesHold, PTL

=============================================================================

--------------------------- MODULE MegaKernelProofs ---------------------------
(***************************************************************************)
(* Proofs about MegaKernel: from any graph to the last byte, for every     *)
(* number of CTAs.                                                         *)
(*                                                                         *)
(* The compiler, first.  A level cannot be numbered lower, so levels are   *)
(* the fewest intervals.  The fold loop keeps Settled: its intervals hold  *)
(* the levels so far, in order, each fit to run without a barrier inside.  *)
(* Hence Scheduled, from which the plan passes simulate_phase_schedule and *)
(* keeps in-place writes apart.  The storage sweep keeps Swept: what lives *)
(* has its units to itself.  Hence verify_plan accepts.                    *)
(*                                                                         *)
(* The kernel, then: a plan that passes these sequential checks is safe in *)
(* every interleaving.  Walk says where CTAs can be, Kept what every cell  *)
(* holds, given which tiles have run.                                      *)
(***************************************************************************)
EXTENDS MegaKernel, EventSchedule, FiniteSetTheorems, SequenceTheorems,
        WellFoundedInduction, TLAPS

-----------------------------------------------------------------------------
(* Numbers. *)

(* A finite set of numbers has a largest one: of the sets of its members   *)
(* above a member, take a smallest.                                        *)
LEMMA MaxIsLargest ==
  ASSUME NEW S \in SUBSET Int, IsFiniteSet(S), S # {}
  PROVE  Max(S) \in S /\ \A y \in S : Max(S) >= y
<1> DEFINE Above(x) == {y \in S : y > x}
           T == {Above(x) : x \in S}
<1>1. IsWellFoundedOn(StrictSubsetOrdering(S), FiniteSubsetsOf(S))
  BY FS_StrictSubsetOrderingWellFounded
<1>2. FiniteSubsetsOf(S) = SUBSET S
  BY FS_FiniteSubsetsOfFinite
<1>3. T \subseteq SUBSET S /\ T # {}
  OBVIOUS
<1>4. PICK U \in T : \A V \in T : ~ (<<V, U>> \in StrictSubsetOrdering(S))
  <2>1. T \subseteq FiniteSubsetsOf(S) /\ T # {}
    BY <1>2, <1>3
  <2> HIDE DEF T
  <2> QED BY <1>1, <2>1, WFMin, Zenon
<1>5. PICK x \in S : U = Above(x)
  BY <1>4
<1>6. ASSUME NEW y \in S, y > x PROVE FALSE
  <2>1. Above(y) \in T
    OBVIOUS
  <2>2. Above(y) \subseteq U /\ y \in U /\ y \notin Above(y)
    <3>1. x \in Int /\ y \in Int /\ \A z \in S : z \in Int
      OBVIOUS
    <3>2. \A z \in S : z > y => z > x
      BY <3>1, <1>6
    <3>3. ~ (y > y)
      BY <3>1
    <3> QED BY <3>2, <3>3, <1>5, <1>6
  <2>3. <<Above(y), U>> \in StrictSubsetOrdering(S)
    BY <2>1, <2>2, <1>3, <1>5 DEF StrictSubsetOrdering
  <2> QED BY <2>1, <2>3, <1>4
<1>7. \A y \in S : x >= y
  BY <1>6
<1> QED
  BY <1>7 DEF Max

LEMMA MinIsSmallest ==
  ASSUME NEW S \in SUBSET Int, IsFiniteSet(S), S # {}
  PROVE  Min(S) \in S /\ \A y \in S : Min(S) =< y
<1> DEFINE Below(x) == {y \in S : y < x}
           T == {Below(x) : x \in S}
<1>1. IsWellFoundedOn(StrictSubsetOrdering(S), FiniteSubsetsOf(S))
  BY FS_StrictSubsetOrderingWellFounded
<1>2. FiniteSubsetsOf(S) = SUBSET S
  BY FS_FiniteSubsetsOfFinite
<1>3. T \subseteq SUBSET S /\ T # {}
  OBVIOUS
<1>4. PICK U \in T : \A V \in T : ~ (<<V, U>> \in StrictSubsetOrdering(S))
  <2>1. T \subseteq FiniteSubsetsOf(S) /\ T # {}
    BY <1>2, <1>3
  <2> HIDE DEF T
  <2> QED BY <1>1, <2>1, WFMin, Zenon
<1>5. PICK x \in S : U = Below(x)
  BY <1>4
<1>6. ASSUME NEW y \in S, y < x PROVE FALSE
  <2>1. Below(y) \in T
    OBVIOUS
  <2>2. Below(y) \subseteq U /\ y \in U /\ y \notin Below(y)
    <3>1. x \in Int /\ y \in Int /\ \A z \in S : z \in Int
      OBVIOUS
    <3>2. \A z \in S : z < y => z < x
      BY <3>1, <1>6
    <3>3. ~ (y < y)
      BY <3>1
    <3> QED BY <3>2, <3>3, <1>5, <1>6
  <2>3. <<Below(y), U>> \in StrictSubsetOrdering(S)
    BY <2>1, <2>2, <1>3, <1>5 DEF StrictSubsetOrdering
  <2> QED BY <2>1, <2>3, <1>4
<1>7. \A y \in S : x =< y
  BY <1>6
<1> QED
  BY <1>7 DEF Min

(* A set of numbers that has a member has a least one.                     *)
LEMMA LeastNumber ==
  ASSUME NEW S \in SUBSET Nat, S # {}
  PROVE  \E n \in S : \A m \in S : n =< m
<1>1. PICK n \in S : \A m \in S : <<m, n>> \notin OpToRel(<, Nat)
  BY NatLessThanWellFounded, WFMin
<1>2. ASSUME NEW m \in S
      PROVE  n =< m
  <2>1. n \in Nat /\ m \in Nat
    OBVIOUS
  <2>2. ~ (m < n)
    BY <1>1, <2>1 DEF OpToRel
  <2> QED BY <2>1, <2>2
<1> QED BY <1>2

(* Ascending lists a set of numbers once and in order: a member's rank, how*)
(* many are smaller, is its place.                                         *)
LEMMA AscendingIs ==
  ASSUME NEW S \in SUBSET Nat, IsFiniteSet(S)
  PROVE  /\ Cardinality(S) \in Nat
         /\ Ascending(S) \in [1 .. Cardinality(S) -> S]
         /\ \A i, j \in 1 .. Cardinality(S) : i < j => Ascending(S)[i] < Ascending(S)[j]
         /\ \A x \in S : \E i \in 1 .. Cardinality(S) : Ascending(S)[i] = x
<1> DEFINE Below(x) == {y \in S : y < x}
           rank == [x \in S |-> Cardinality(Below(x)) + 1]
<1>1. PICK n \in Nat : n = Cardinality(S)
  BY FS_CardinalityType
<1>2. \A x \in S : IsFiniteSet(Below(x)) /\ Cardinality(Below(x)) \in Nat
  <2> SUFFICES ASSUME NEW x \in S PROVE IsFiniteSet(Below(x)) /\ Cardinality(Below(x)) \in Nat
    OBVIOUS
  <2>1. Below(x) \in SUBSET S
    OBVIOUS
  <2>2. IsFiniteSet(Below(x))
    BY <2>1, FS_Subset
  <2> QED BY <2>2, FS_CardinalityType
<1>3. \A x \in S : Cardinality(Below(x) \cup {x}) = Cardinality(Below(x)) + 1
  <2> SUFFICES ASSUME NEW x \in S PROVE Cardinality(Below(x) \cup {x}) = Cardinality(Below(x)) + 1
    OBVIOUS
  <2>1. x \notin Below(x)
    BY x \in Nat
  <2> HIDE DEF Below
  <2> QED BY <1>2, <2>1, FS_AddElement
<1>4. \A x \in S : Cardinality(Below(x)) + 1 =< n
  <2> SUFFICES ASSUME NEW x \in S PROVE Cardinality(Below(x)) + 1 =< n
    OBVIOUS
  <2>1. Below(x) \cup {x} \in SUBSET S
    OBVIOUS
  <2> HIDE DEF Below
  <2> QED BY <1>1, <1>2, <1>3, <2>1, FS_Subset
<1>5. \A x, y \in S : x < y => Cardinality(Below(x)) < Cardinality(Below(y))
  <2> SUFFICES ASSUME NEW x \in S, NEW y \in S, x < y
               PROVE  Cardinality(Below(x)) < Cardinality(Below(y))
    OBVIOUS
  <2>1. Below(x) \cup {x} \in SUBSET Below(y)
    <3>1. x \in Nat /\ y \in Nat /\ \A z \in S : z \in Nat
      OBVIOUS
    <3>2. \A z \in S : z < x => z < y
      BY <3>1
    <3> QED BY <3>2
  <2> HIDE DEF Below
  <2>2. Cardinality(Below(x) \cup {x}) =< Cardinality(Below(y))
    BY <1>2, <2>1, FS_Subset
  <2> QED BY <1>2, <1>3, <2>2
<1> HIDE DEF Below
<1>6. rank \in Injection(S, 1 .. n)
  <2>1. \A x \in S : rank[x] \in 1 .. n
    BY <1>2, <1>4
  <2>2. \A x, y \in S : x # y => rank[x] # rank[y]
    <3> SUFFICES ASSUME NEW x \in S, NEW y \in S, x # y PROVE rank[x] # rank[y]
      OBVIOUS
    <3>1. x < y \/ y < x
      BY x \in Nat, y \in Nat
    <3> QED BY <1>2, <1>5, <3>1
  <2>3. rank \in [S -> 1 .. n]
    BY <2>1
  <2> HIDE DEF rank
  <2> QED BY <2>2, <2>3 DEF Injection, IsInjective
<1>7. rank \in Surjection(S, 1 .. n)
  <2>1. IsFiniteSet(1 .. n) /\ Cardinality(1 .. n) = n
    BY FS_Interval
  <2> HIDE DEF rank
  <2> QED BY <1>1, <1>6, <2>1, FS_Injection
<1>8. \A i \in 1 .. n : \E x \in S : Cardinality(Below(x)) = i - 1
  <2> SUFFICES ASSUME NEW i \in 1 .. n PROVE \E x \in S : Cardinality(Below(x)) = i - 1
    OBVIOUS
  <2>1. PICK x \in S : rank[x] = i
    <3> HIDE DEF rank
    <3> QED BY <1>7 DEF Surjection
  <2>2. Cardinality(Below(x)) + 1 = i
    BY <2>1
  <2> QED BY <1>2, <2>2
<1>9. \A i \in 1 .. n : Ascending(S)[i] \in S /\ Cardinality(Below(Ascending(S)[i])) = i - 1
  <2> SUFFICES ASSUME NEW i \in 1 .. n
               PROVE  Ascending(S)[i] \in S /\ Cardinality(Below(Ascending(S)[i])) = i - 1
    OBVIOUS
  <2>1. Ascending(S)[i] = CHOOSE x \in S : Cardinality(Below(x)) = i - 1
    BY <1>1 DEF Ascending, Below
  <2> QED BY <1>8, <2>1
<1>10. Ascending(S) = [i \in 1 .. n |-> Ascending(S)[i]]
  BY <1>1 DEF Ascending
<1>11. \A i, j \in 1 .. n : i < j => Ascending(S)[i] < Ascending(S)[j]
  <2> SUFFICES ASSUME NEW i \in 1 .. n, NEW j \in 1 .. n, i < j
               PROVE  Ascending(S)[i] < Ascending(S)[j]
    OBVIOUS
  <2>1. PICK x \in S : x = Ascending(S)[i] /\ Cardinality(Below(x)) = i - 1
    BY <1>9
  <2>2. PICK y \in S : y = Ascending(S)[j] /\ Cardinality(Below(y)) = j - 1
    BY <1>9
  <2>3. x # y
    BY <2>1, <2>2
  <2>4. ~ (y < x)
    BY <1>5, <2>1, <2>2
  <2>5. x \in Nat /\ y \in Nat
    OBVIOUS
  <2> QED BY <2>1, <2>2, <2>3, <2>4, <2>5
<1>12. \A x \in S : \E i \in 1 .. n : Ascending(S)[i] = x
  <2> SUFFICES ASSUME NEW x \in S PROVE \E i \in 1 .. n : Ascending(S)[i] = x
    OBVIOUS
  <2>1. PICK i \in 1 .. n : i = Cardinality(Below(x)) + 1
    BY <1>2, <1>4
  <2>2. PICK y \in S : y = Ascending(S)[i] /\ Cardinality(Below(y)) = i - 1
    BY <1>9
  <2>3. ~ (x < y) /\ ~ (y < x)
    BY <1>2, <1>5, <2>1, <2>2
  <2>4. x \in Nat /\ y \in Nat
    OBVIOUS
  <2> QED BY <2>2, <2>3, <2>4
<1> QED
  BY <1>1, <1>9, <1>10, <1>11, <1>12

-----------------------------------------------------------------------------
(* FlattenSeq. *)

(* The function that FlattenSeq recurs on. *)
IsFlat(s, m, f) == f = [i \in 1 .. m |-> IF i = 1 THEN s[i] ELSE f[i - 1] \o s[i]]

(* It exists, ...                                                          *)
LEMMA FlatExists ==
  ASSUME NEW s, NEW N \in Nat
  PROVE  \E f : IsFlat(s, N, f)
<1> DEFINE S == {m \in Nat : ~ \E f : IsFlat(s, m, f)}
<1>1. SUFFICES ASSUME S # {} PROVE FALSE
  OBVIOUS
<1>2. PICK m \in S : \A k \in S : m =< k
  <2>1. S \in SUBSET Nat
    OBVIOUS
  <2> HIDE DEF S
  <2> QED BY <1>1, <2>1, LeastNumber
<1>3. m \in Nat /\ ~ \E f : IsFlat(s, m, f)
  OBVIOUS
<1>4. \A k \in Nat : k < m => \E f : IsFlat(s, k, f)
  BY <1>2, <1>3
<1>5. CASE m = 0
  <2>1. PICK f : f = [i \in 1 .. 0 |-> IF i = 1 THEN s[i] ELSE s[i] \o s[i]]
    OBVIOUS
  <2>2. IsFlat(s, 0, f)
    BY <2>1 DEF IsFlat
  <2> QED BY <1>3, <1>5, <2>2
<1>6. CASE m > 0
  <2>1. PICK n \in Nat : n = m - 1 /\ m = n + 1 /\ n < m
    BY <1>3, <1>6
  <2>2. PICK f : IsFlat(s, n, f)
    BY <1>4, <2>1
  <2>3. PICK h : h = [i \in 1 .. m |-> IF i = m THEN (IF i = 1 THEN s[i] ELSE f[i - 1] \o s[i]) ELSE f[i]]
    OBVIOUS
  <2>4. \A i \in 1 .. m : h[i] = IF i = 1 THEN s[i] ELSE h[i - 1] \o s[i]
    <3> SUFFICES ASSUME NEW i \in 1 .. m PROVE h[i] = IF i = 1 THEN s[i] ELSE h[i - 1] \o s[i]
      OBVIOUS
    <3>1. i # 1 => h[i - 1] = f[i - 1]
      BY <2>1, <2>3
    <3>2. i # m => h[i] = f[i] /\ i \in 1 .. n
      BY <2>1, <2>3
    <3>3. i # m => f[i] = IF i = 1 THEN s[i] ELSE f[i - 1] \o s[i]
      BY <2>2, <3>2 DEF IsFlat
    <3>4. i = m => h[i] = IF i = 1 THEN s[i] ELSE f[i - 1] \o s[i]
      BY <2>3
    <3> QED BY <3>1, <3>2, <3>3, <3>4
  <2>5. h = [i \in 1 .. m |-> h[i]]
    BY <2>3
  <2>6. IsFlat(s, m, h)
    BY <2>4, <2>5 DEF IsFlat
  <2> QED BY <1>3, <2>6
<1> QED
  BY <1>3, <1>5, <1>6

(* ... and what it is for a prefix does not depend on the rest.            *)
LEMMA FlatAgrees ==
  ASSUME NEW s, NEW t, NEW m \in Nat, NEW n \in Nat, m =< n, NEW f, NEW h,
         IsFlat(s, m, f), IsFlat(t, n, h), \A i \in 1 .. m : s[i] = t[i]
  PROVE  \A i \in 1 .. m : f[i] = h[i]
<1> DEFINE S == {i \in 1 .. m : f[i] # h[i]}
<1>1. SUFFICES ASSUME S # {} PROVE FALSE
  OBVIOUS
<1>2. PICK i \in S : \A k \in S : i =< k
  <2>1. S \in SUBSET Nat
    OBVIOUS
  <2> HIDE DEF S
  <2> QED BY <1>1, <2>1, LeastNumber
<1>3. i \in 1 .. m /\ i \in 1 .. n /\ f[i] # h[i] /\ s[i] = t[i]
  OBVIOUS
<1>4. f[i] = (IF i = 1 THEN s[i] ELSE f[i - 1] \o s[i]) /\ h[i] = (IF i = 1 THEN t[i] ELSE h[i - 1] \o t[i])
  BY <1>3 DEF IsFlat
<1>5. i # 1 => f[i - 1] = h[i - 1]
  <2> SUFFICES ASSUME i # 1 PROVE f[i - 1] = h[i - 1]
    OBVIOUS
  <2>1. i - 1 \in 1 .. m /\ ~ (i =< i - 1)
    BY <1>3
  <2> QED BY <1>2, <2>1
<1> QED BY <1>3, <1>4, <1>5

(* FlattenSeq is that function.                                            *)
LEMMA FlattenSeqIs ==
  ASSUME NEW S, NEW s \in Seq(S), NEW f, IsFlat(s, Len(s), f)
  PROVE  FlattenSeq(s) = IF Len(s) = 0 THEN s ELSE f[Len(s)]
<1>1. PICK F : F = CHOOSE g : g = [i \in 1 .. Len(s) |-> IF i = 1 THEN s[i] ELSE g[i - 1] \o s[i]]
  OBVIOUS
<1>2. FlattenSeq(s) = IF Len(s) = 0 THEN s ELSE F[Len(s)]
  <2>1. CASE Len(s) = 0
    BY <2>1, Zenon DEF FlattenSeq
  <2>2. CASE Len(s) # 0
    BY <1>1, <2>2 DEF FlattenSeq
  <2> QED BY <2>1, <2>2
<1>3. IsFlat(s, Len(s), F)
  BY <1>1, Zenon DEF IsFlat
<1>4. Len(s) \in Nat
  BY LenProperties
<1>5. Len(s) # 0 => F[Len(s)] = f[Len(s)]
  BY <1>3, <1>4, FlatAgrees
<1> QED BY <1>2, <1>5

(* Where the k-th of a sequence of sequences ends in the flat one.         *)
Ends(s, k) == Len(FlattenSeq(SubSeq(s, 1, k)))

(* Its members are members of the sequences.                               *)
LEMMA FlatTypes ==
  ASSUME NEW S, NEW s \in Seq(Seq(S)), NEW f, IsFlat(s, Len(s), f)
  PROVE  \A i \in 1 .. Len(s) : f[i] \in Seq(S)
<1> DEFINE T == {i \in 1 .. Len(s) : f[i] \notin Seq(S)}
<1>1. SUFFICES ASSUME T # {} PROVE FALSE
  OBVIOUS
<1>2. Len(s) \in Nat /\ \A i \in 1 .. Len(s) : s[i] \in Seq(S)
  BY LenProperties, ElementOfSeq
<1>3. PICK i \in T : \A k \in T : i =< k
  <2>1. T \in SUBSET Nat
    OBVIOUS
  <2> HIDE DEF T
  <2> QED BY <1>1, <2>1, LeastNumber
<1>4. i \in 1 .. Len(s) /\ f[i] \notin Seq(S)
  OBVIOUS
<1>5. f[i] = IF i = 1 THEN s[i] ELSE f[i - 1] \o s[i]
  BY <1>4 DEF IsFlat
<1>6. i # 1 => f[i - 1] \in Seq(S)
  <2> SUFFICES ASSUME i # 1 PROVE f[i - 1] \in Seq(S)
    OBVIOUS
  <2>1. i - 1 \in 1 .. Len(s) /\ ~ (i =< i - 1)
    BY <1>2, <1>4
  <2> QED BY <1>3, <2>1
<1> QED BY <1>2, <1>4, <1>5, <1>6, ConcatProperties

(* It says of a prefix what it says of the whole.                          *)
LEMMA FlatPrefix ==
  ASSUME NEW s, NEW t, NEW k \in Nat, NEW n \in Nat, k # 0, k =< n, NEW f, NEW h,
         IsFlat(t, k, h), IsFlat(s, n, f), \A i \in 1 .. k : t[i] = s[i]
  PROVE  h[k] = f[k]
<1>1. \A i \in 1 .. k : h[i] = f[i]
  BY FlatAgrees
<1>2. k \in 1 .. k
  OBVIOUS
<1> QED BY <1>1, <1>2

(* What FlattenSeq makes of the prefixes of a sequence of sequences.       *)
LEMMA FlattenPrefixes ==
  ASSUME NEW S, NEW s \in Seq(Seq(S)), NEW f, IsFlat(s, Len(s), f)
  PROVE  /\ FlattenSeq(SubSeq(s, 1, 0)) = <<>>
         /\ \A k \in 1 .. Len(s) : FlattenSeq(SubSeq(s, 1, k)) = f[k]
         /\ FlattenSeq(s) = IF Len(s) = 0 THEN <<>> ELSE f[Len(s)]
<1>1. Len(s) \in Nat
  BY LenProperties
<1>2. FlattenSeq(<<>>) = <<>>
  <2>1. PICK h : IsFlat(<<>>, 0, h)
    BY FlatExists
  <2>2. <<>> \in Seq(S) /\ Len(<<>>) = 0
    BY EmptySeq
  <2> QED BY <2>1, <2>2, FlattenSeqIs
<1>3. SubSeq(s, 1, 0) = <<>>
  BY SubSeqEmpty
<1>4. ASSUME NEW k \in 1 .. Len(s) PROVE FlattenSeq(SubSeq(s, 1, k)) = f[k]
  <2>1. PICK t : t = SubSeq(s, 1, k)
    OBVIOUS
  <2>2. t \in Seq(Seq(S)) /\ Len(t) = k /\ \A i \in 1 .. k : t[i] = s[i]
    BY <1>1, <2>1, SubSeqProperties
  <2>4. k \in Nat /\ k # 0 /\ k =< Len(s) /\ k \in 1 .. k
    BY <1>1
  <2>3. PICK h : IsFlat(t, k, h)
    BY <2>4, FlatExists
  <2>5. FlattenSeq(t) = h[k]
    BY <2>2, <2>3, <2>4, FlattenSeqIs
  <2>6. h[k] = f[k]
    <3>1. \A i \in 1 .. k : t[i] = s[i]
      BY <2>2
    <3> QED BY <1>1, <2>3, <2>4, <3>1, FlatPrefix
  <2> QED BY <2>1, <2>5, <2>6
<1>5. Len(s) = 0 => s = <<>>
  BY EmptySeq
<1>6. FlattenSeq(s) = IF Len(s) = 0 THEN s ELSE f[Len(s)]
  BY FlattenSeqIs
<1> QED BY <1>2, <1>3, <1>4, <1>5, <1>6

(* Lengths add up.                                                         *)
LEMMA EndsAdd ==
  ASSUME NEW S, NEW s \in Seq(Seq(S))
  PROVE  /\ FlattenSeq(s) \in Seq(S)
         /\ Ends(s, 0) = 0 /\ Ends(s, Len(s)) = Len(FlattenSeq(s))
         /\ \A k \in 0 .. Len(s) : Ends(s, k) \in Nat
         /\ \A k \in 1 .. Len(s) : Ends(s, k) = Ends(s, k - 1) + Len(s[k])
<1>1. Len(s) \in Nat /\ \A k \in 1 .. Len(s) : s[k] \in Seq(S) /\ Len(s[k]) \in Nat
  BY LenProperties, ElementOfSeq
<1>2. PICK f : IsFlat(s, Len(s), f)
  BY <1>1, FlatExists
<1>3. \A i \in 1 .. Len(s) : f[i] \in Seq(S) /\ Len(f[i]) \in Nat
  BY <1>2, FlatTypes, LenProperties
<1>4. Ends(s, 0) = 0 /\ \A k \in 1 .. Len(s) : Ends(s, k) = Len(f[k])
  <2>1. Len(<<>>) = 0
    BY EmptySeq
  <2> QED BY <1>2, <2>1, FlattenPrefixes DEF Ends
<1>5. FlattenSeq(s) \in Seq(S) /\ Ends(s, Len(s)) = Len(FlattenSeq(s))
  <2>1. <<>> \in Seq(S) /\ Len(<<>>) = 0
    BY EmptySeq
  <2>2. CASE Len(s) = 0
    BY <1>2, <1>4, <2>1, <2>2, FlattenPrefixes
  <2>3. CASE Len(s) # 0
    <3>1. Len(s) \in 1 .. Len(s)
      BY <1>1, <2>3
    <3> QED BY <1>2, <1>3, <1>4, <2>3, <3>1, FlattenPrefixes
  <2> QED BY <2>2, <2>3
<1>6. ASSUME NEW k \in 1 .. Len(s) PROVE Ends(s, k) = Ends(s, k - 1) + Len(s[k])
  <2>1. f[k] = IF k = 1 THEN s[k] ELSE f[k - 1] \o s[k]
    BY <1>2 DEF IsFlat
  <2>2. CASE k = 1
    BY <1>1, <1>4, <2>1, <2>2
  <2>3. CASE k # 1
    <3>1. k - 1 \in 1 .. Len(s)
      BY <1>1, <2>3
    <3>2. Len(f[k - 1] \o s[k]) = Len(f[k - 1]) + Len(s[k])
      BY <1>1, <1>3, <3>1, ConcatProperties
    <3> QED BY <1>4, <2>1, <2>3, <3>1, <3>2
  <2> QED BY <2>2, <2>3
<1>7. \A k \in 0 .. Len(s) : Ends(s, k) \in Nat
  BY <1>1, <1>3, <1>4
<1> QED BY <1>4, <1>5, <1>6, <1>7

(* Ends do not go back.                                                    *)
LEMMA EndsGrow ==
  ASSUME NEW S, NEW s \in Seq(Seq(S)), NEW k \in 0 .. Len(s), NEW m \in 0 .. Len(s), k =< m
  PROVE  Ends(s, k) =< Ends(s, m)
<1> DEFINE T == {i \in k .. Len(s) : ~ (Ends(s, k) =< Ends(s, i))}
<1>1. SUFFICES ASSUME T # {} PROVE FALSE
  <2>1. Len(s) \in Nat
    BY LenProperties
  <2> QED BY <2>1
<1>2. Len(s) \in Nat /\ \A j \in 1 .. Len(s) : s[j] \in Seq(S) /\ Len(s[j]) \in Nat
  BY LenProperties, ElementOfSeq
<1>3. PICK i \in T : \A j \in T : i =< j
  <2>1. T \in SUBSET Nat
    BY <1>2
  <2> HIDE DEF T
  <2> QED BY <1>1, <2>1, LeastNumber
<1>4. i \in k .. Len(s) /\ ~ (Ends(s, k) =< Ends(s, i))
  OBVIOUS
<1>5. \A j \in 0 .. Len(s) : Ends(s, j) \in Nat
  BY EndsAdd
<1>6. i # k
  BY <1>4, <1>5
<1>7. i - 1 \in k .. Len(s) /\ ~ (i =< i - 1) /\ i \in 1 .. Len(s) /\ i - 1 \in 0 .. Len(s)
  BY <1>2, <1>4, <1>6
<1>8. Ends(s, k) =< Ends(s, i - 1)
  BY <1>3, <1>7
<1>9. Ends(s, i) = Ends(s, i - 1) + Len(s[i])
  BY <1>7, EndsAdd
<1>10. i \in 0 .. Len(s)
  BY <1>2, <1>4
<1>11. Ends(s, i) \in Nat /\ Ends(s, i - 1) \in Nat /\ Ends(s, k) \in Nat /\ Len(s[i]) \in Nat
  BY <1>2, <1>5, <1>7, <1>10
<1> QED BY <1>4, <1>8, <1>9, <1>11

(* What is at a place of the flat sequence.                                *)
LEMMA FlatPlaces ==
  ASSUME NEW S, NEW s \in Seq(Seq(S)), NEW k \in 1 .. Len(s), NEW i \in 1 .. Len(s[k])
  PROVE  /\ Ends(s, k - 1) + i \in 1 .. Len(FlattenSeq(s))
         /\ FlattenSeq(s)[Ends(s, k - 1) + i] = s[k][i]
<1>1. Len(s) \in Nat /\ \A j \in 1 .. Len(s) : s[j] \in Seq(S) /\ Len(s[j]) \in Nat
  BY LenProperties, ElementOfSeq
<1>2. PICK f : IsFlat(s, Len(s), f)
  BY <1>1, FlatExists
<1>3. \A j \in 1 .. Len(s) : f[j] \in Seq(S) /\ Len(f[j]) \in Nat
  BY <1>2, FlatTypes, LenProperties
<1>4. \A j \in 1 .. Len(s) : Ends(s, j) = Len(f[j])
  BY <1>2, FlattenPrefixes DEF Ends
<1>5. /\ Ends(s, 0) = 0 /\ \A j \in 0 .. Len(s) : Ends(s, j) \in Nat
      /\ \A j \in 1 .. Len(s) : Ends(s, j) = Ends(s, j - 1) + Len(s[j])
      /\ Ends(s, Len(s)) = Len(FlattenSeq(s))
  BY EndsAdd
<1>6. PICK p : p = Ends(s, k - 1) + i
  OBVIOUS
<1>7. p \in 1 .. Ends(s, k) /\ k - 1 \in 0 .. Len(s) /\ k \in 0 .. Len(s) /\ Len(s) \in 0 .. Len(s)
  <2>1. k - 1 \in 0 .. Len(s) /\ k \in 0 .. Len(s) /\ Len(s) \in 0 .. Len(s)
    BY <1>1
  <2>2. Ends(s, k) = Ends(s, k - 1) + Len(s[k]) /\ Ends(s, k - 1) \in Nat /\ Len(s[k]) \in Nat
    BY <1>1, <1>5, <2>1
  <2> QED BY <1>6, <2>1, <2>2
<1>8. f[k][p] = s[k][i]
  <2>1. f[k] = IF k = 1 THEN s[k] ELSE f[k - 1] \o s[k]
    BY <1>2 DEF IsFlat
  <2>2. CASE k = 1
    BY <1>1, <1>5, <1>6, <2>1, <2>2
  <2>3. CASE k # 1
    <3>1. k - 1 \in 1 .. Len(s)
      BY <1>1, <2>3
    <3>2. PICK a \in Seq(S) : a = f[k - 1]
      BY <1>3, <3>1
    <3>3. p = Len(a) + i /\ Len(a) \in Nat
      BY <1>3, <1>4, <1>6, <3>1, <3>2
    <3>4. PICK b \in Seq(S) : b = s[k]
      BY <1>1
    <3>5. p \in 1 .. Len(a) + Len(b) /\ ~ (p =< Len(a)) /\ p - Len(a) = i
      BY <1>1, <3>3, <3>4
    <3>6. (a \o b)[p] = b[i]
      BY <3>5, ConcatProperties
    <3> QED BY <2>1, <2>3, <3>2, <3>4, <3>6
  <2> QED BY <2>2, <2>3
<1> DEFINE T == {m \in k .. Len(s) : f[m][p] # s[k][i]}
<1>9. T = {}
  <2>1. SUFFICES ASSUME T # {} PROVE FALSE
    OBVIOUS
  <2>2. PICK m \in T : \A j \in T : m =< j
    <3>1. T \in SUBSET Nat
      BY <1>1
    <3> HIDE DEF T
    <3> QED BY <2>1, <3>1, LeastNumber
  <2>3. m \in k .. Len(s) /\ f[m][p] # s[k][i] /\ m # k
    BY <1>8
  <2>4. m - 1 \in k .. Len(s) /\ ~ (m =< m - 1) /\ m \in 1 .. Len(s) /\ m - 1 \in 1 .. Len(s) /\ m # 1
    BY <1>1, <2>3
  <2>5. f[m - 1][p] = s[k][i]
    BY <2>2, <2>4
  <2>6. f[m] = f[m - 1] \o s[m]
    BY <1>2, <2>4 DEF IsFlat
  <2>7. PICK a \in Seq(S) : a = f[m - 1]
    BY <1>3, <2>4
  <2>8. PICK b \in Seq(S) : b = s[m]
    BY <1>1, <2>4
  <2>9. p \in 1 .. Len(a)
    <3>1. Ends(s, k) =< Ends(s, m - 1)
      BY <1>1, <1>7, <2>4, EndsGrow
    <3>2. Len(a) = Ends(s, m - 1)
      BY <1>4, <2>4, <2>7
    <3>3. Ends(s, k) \in Nat /\ Ends(s, m - 1) \in Nat
      <4>1. m - 1 \in 0 .. Len(s)
        BY <1>1, <2>4
      <4> QED BY <1>5, <1>7, <4>1
    <3> QED BY <1>7, <3>1, <3>2, <3>3
  <2>10. (a \o b)[p] = a[p]
    <3>1. Len(a) \in Nat /\ Len(b) \in Nat
      BY LenProperties
    <3>2. p \in 1 .. Len(a) + Len(b) /\ p =< Len(a)
      BY <2>9, <3>1
    <3> QED BY <3>2, ConcatProperties
  <2> QED BY <2>3, <2>5, <2>6, <2>7, <2>8, <2>10
<1>10. Len(s) # 0 /\ Len(s) \in k .. Len(s)
  BY <1>1
<1>11. FlattenSeq(s)[p] = s[k][i]
  <2>1. f[Len(s)][p] = s[k][i]
    BY <1>9, <1>10
  <2> QED BY <1>2, <1>10, <2>1, FlattenPrefixes
<1>12. p \in 1 .. Len(FlattenSeq(s))
  <2>1. Ends(s, k) =< Ends(s, Len(s))
    BY <1>1, <1>7, EndsGrow
  <2> QED BY <1>1, <1>5, <1>7, <2>1
<1> QED BY <1>6, <1>11, <1>12

(* Every place of the flat sequence is one of some sequence.               *)
LEMMA FlatPlace ==
  ASSUME NEW S, NEW s \in Seq(Seq(S)), NEW p \in 1 .. Len(FlattenSeq(s))
  PROVE  \E k \in 1 .. Len(s) : \E i \in 1 .. Len(s[k]) : p = Ends(s, k - 1) + i
<1> DEFINE T == {k \in 0 .. Len(s) : p =< Ends(s, k)}
<1>1. Len(s) \in Nat /\ \A j \in 1 .. Len(s) : s[j] \in Seq(S) /\ Len(s[j]) \in Nat
  BY LenProperties, ElementOfSeq
<1>2. /\ Ends(s, 0) = 0 /\ \A j \in 0 .. Len(s) : Ends(s, j) \in Nat
      /\ \A j \in 1 .. Len(s) : Ends(s, j) = Ends(s, j - 1) + Len(s[j])
      /\ Ends(s, Len(s)) = Len(FlattenSeq(s))
  BY EndsAdd
<1>3. Len(s) \in T /\ T \in SUBSET Nat
  BY <1>1, <1>2
<1>4. PICK k \in T : \A j \in T : k =< j
  <2> HIDE DEF T
  <2> QED BY <1>3, LeastNumber
<1>5. k \in 0 .. Len(s) /\ p =< Ends(s, k)
  OBVIOUS
<1>6. k # 0
  BY <1>2, <1>5
<1>7. k \in 1 .. Len(s) /\ k - 1 \in 0 .. Len(s) /\ ~ (k =< k - 1)
  BY <1>1, <1>5, <1>6
<1>8. ~ (p =< Ends(s, k - 1))
  BY <1>4, <1>7
<1>9. Ends(s, k) = Ends(s, k - 1) + Len(s[k]) /\ Ends(s, k - 1) \in Nat /\ Len(s[k]) \in Nat
  BY <1>1, <1>2, <1>7
<1>10. p - Ends(s, k - 1) \in 1 .. Len(s[k]) /\ p = Ends(s, k - 1) + (p - Ends(s, k - 1))
  BY <1>5, <1>8, <1>9
<1> QED BY <1>7, <1>10

-----------------------------------------------------------------------------
(* Topological order and levels. *)

(* Prerequisites come earlier in selection order.                          *)
LEMMA PrerequisitesEarlier ==
  ASSUME NEW g, GraphOK(g), NEW r \in Regions(g)
  PROVE  Prerequisites(g, r) \in SUBSET Regions(g) /\ \A p \in Prerequisites(g, r) : p < r
<1> SUFFICES ASSUME NEW p \in Prerequisites(g, r) PROVE p \in Regions(g) /\ p < r
  OBVIOUS
<1>1. PICK d \in Dependencies(g) : d[2] = r /\ d[1] = p
  BY DEF Prerequisites
<1>2. d \in Regions(g) \X Regions(g) /\ (d[1] \in g.reads[d[2]] \/ d[1] < d[2])
  BY DEF Dependencies
<1>3. d[1] \in Regions(g)
  BY <1>2
<1> QED BY <1>1, <1>2, <1>3 DEF GraphOK

(* The function of TopologicalOrders. *)
IsOrders(g, m, f) ==
  f = [k \in 0 .. m |-> IF k = 0 THEN <<>> ELSE Append(f[k - 1], Min(Ready(g, f[k - 1])))]

(* There is one, by least counterexample: every recursion below is         *)
(* resolved this way.                                                      *)
LEMMA OrdersExist ==
  ASSUME NEW g, NEW N \in Nat
  PROVE  \E f : IsOrders(g, N, f)
<1> DEFINE S == {m \in Nat : ~ \E f : IsOrders(g, m, f)}
           Next1(x) == Append(x, Min(Ready(g, x)))
<1>1. SUFFICES ASSUME S # {} PROVE FALSE
  OBVIOUS
<1>2. PICK m \in S : \A k \in S : m =< k
  <2>1. S \in SUBSET Nat
    OBVIOUS
  <2> HIDE DEF S
  <2> QED BY <1>1, <2>1, LeastNumber
<1>3. m \in Nat /\ ~ \E f : IsOrders(g, m, f)
  OBVIOUS
<1>4. \A k \in Nat : k < m => \E f : IsOrders(g, k, f)
  BY <1>2, <1>3
<1>5. \A k, f : IsOrders(g, k, f) <=> f = [i \in 0 .. k |-> IF i = 0 THEN <<>> ELSE Next1(f[i - 1])]
  BY DEF IsOrders
<1> HIDE DEF Next1
<1>6. CASE m = 0
  <2>1. PICK f : f = [i \in 0 .. 0 |-> <<>>]
    OBVIOUS
  <2>2. f = [i \in 0 .. 0 |-> IF i = 0 THEN <<>> ELSE Next1(f[i - 1])]
    BY <2>1
  <2> QED BY <1>3, <1>5, <1>6, <2>2
<1>7. CASE m > 0
  <2>1. PICK n \in Nat : n = m - 1 /\ m = n + 1 /\ n < m
    BY <1>3, <1>7
  <2>7. PICK f : IsOrders(g, n, f)
    BY <1>4, <2>1
  <2>2. f = [i \in 0 .. n |-> IF i = 0 THEN <<>> ELSE Next1(f[i - 1])]
    BY <1>5, <2>7
  <2>3. PICK h : h = [i \in 0 .. m |-> IF i = m THEN Next1(f[n]) ELSE f[i]]
    OBVIOUS
  <2>4. \A i \in 0 .. m : h[i] = IF i = 0 THEN <<>> ELSE Next1(h[i - 1])
    <3> SUFFICES ASSUME NEW i \in 0 .. m PROVE h[i] = IF i = 0 THEN <<>> ELSE Next1(h[i - 1])
      OBVIOUS
    <3>1. i # 0 => h[i - 1] = f[i - 1]
      BY <2>1, <2>3
    <3>2. i # m => h[i] = f[i] /\ i \in 0 .. n
      BY <2>1, <2>3
    <3>3. i # m => f[i] = IF i = 0 THEN <<>> ELSE Next1(f[i - 1])
      BY <2>2, <3>2
    <3>4. i = m => h[i] = Next1(f[i - 1]) /\ i # 0
      BY <2>1, <2>3
    <3> QED BY <3>1, <3>2, <3>3, <3>4
  <2>5. h = [i \in 0 .. m |-> h[i]]
    BY <2>3
  <2>6. h = [i \in 0 .. m |-> IF i = 0 THEN <<>> ELSE Next1(h[i - 1])]
    BY <2>4, <2>5
  <2> QED BY <1>3, <1>5, <2>6
<1> QED
  BY <1>3, <1>6, <1>7

(* In selection order everything is ready when its turn comes, so that the *)
(* first ready region is the next one.                                     *)
LEMMA TopologicalOrderIs ==
  ASSUME NEW g, GraphOK(g)
  PROVE  TopologicalOrder(g) = [i \in 1 .. g.n |-> i]
<1>1. PICK n \in Nat \ {0} : n = g.n
  BY DEF GraphOK
<1>2. PICK f : f = TopologicalOrders(g)
  OBVIOUS
<1>3. f = CHOOSE h : h = [k \in 0 .. n |-> IF k = 0 THEN <<>> ELSE Append(h[k - 1], Min(Ready(g, h[k - 1])))]
  BY <1>1, <1>2, Zenon DEF TopologicalOrders
<1>4. IsOrders(g, n, f)
  <2>1. \E h : IsOrders(g, n, h)
    BY OrdersExist
  <2> QED BY <1>3, <2>1, Zenon DEF IsOrders
<1>5. f[0] = <<>> /\ \A k \in 1 .. n : f[k] = Append(f[k - 1], Min(Ready(g, f[k - 1])))
  <2> DEFINE Next1(x) == Append(x, Min(Ready(g, x)))
  <2>1. f = [k \in 0 .. n |-> IF k = 0 THEN <<>> ELSE Next1(f[k - 1])]
    BY <1>4 DEF IsOrders
  <2> HIDE DEF Next1
  <2>2. f[0] = <<>> /\ \A k \in 1 .. n : f[k] = Next1(f[k - 1])
    BY <2>1
  <2> QED BY <2>2 DEF Next1
<1> DEFINE T == {k \in 0 .. n : f[k] # [i \in 1 .. k |-> i]}
<1>6. T = {}
  <2>1. SUFFICES ASSUME T # {} PROVE FALSE
    OBVIOUS
  <2>2. PICK k \in T : \A j \in T : k =< j
    <3>1. T \in SUBSET Nat
      OBVIOUS
    <3> HIDE DEF T
    <3> QED BY <2>1, <3>1, LeastNumber
  <2>3. k \in 0 .. n /\ f[k] # [i \in 1 .. k |-> i]
    OBVIOUS
  <2>4. k # 0
    <3>1. <<>> = [i \in 1 .. 0 |-> i]
      OBVIOUS
    <3> QED BY <1>5, <2>3, <3>1
  <2>5. PICK j \in 0 .. n : j = k - 1 /\ k = j + 1 /\ ~ (k =< j) /\ k \in Regions(g)
    BY <1>1, <2>3, <2>4 DEF Regions
  <2>6. f[j] = [i \in 1 .. j |-> i]
    BY <2>2, <2>5
  <2>7. ToSet(f[j]) = 1 .. j
    BY <2>6 DEF ToSet
  <2>8. k \in Ready(g, f[j])
    <3>1. \A p \in Prerequisites(g, k) : p \in 1 .. j
      <4> SUFFICES ASSUME NEW p \in Prerequisites(g, k) PROVE p \in 1 .. j
        OBVIOUS
      <4>1. p \in Regions(g) /\ p < k
        BY <2>5, PrerequisitesEarlier
      <4> QED BY <1>1, <2>5, <4>1 DEF Regions
    <3>2. k \notin 1 .. j
      BY <2>5
    <3> QED BY <2>5, <2>7, <3>1, <3>2 DEF Ready
  <2>9. \A r \in Ready(g, f[j]) : r \in Nat /\ k =< r
    <3> SUFFICES ASSUME NEW r \in Ready(g, f[j]) PROVE r \in Nat /\ k =< r
      OBVIOUS
    <3>1. r \in 1 .. n /\ r \notin 1 .. j
      BY <1>1, <2>7 DEF Ready, Regions
    <3> QED BY <2>5, <3>1
  <2>10. Min(Ready(g, f[j])) = k
    <3>1. \A r \in Ready(g, f[j]) : (\A y \in Ready(g, f[j]) : r =< y) => r = k
      <4> SUFFICES ASSUME NEW r \in Ready(g, f[j]), \A y \in Ready(g, f[j]) : r =< y PROVE r = k
        OBVIOUS
      <4>1. r =< k /\ k =< r /\ r \in Nat /\ k \in Nat
        BY <2>8, <2>9
      <4> QED BY <4>1
    <3> QED BY <2>8, <2>9, <3>1 DEF Min
  <2>11. f[k] = Append([i \in 1 .. j |-> i], k)
    <3>1. k \in 1 .. n
      BY <2>3, <2>4
    <3> QED BY <1>5, <2>5, <2>6, <2>10, <3>1
  <2>12. Append([i \in 1 .. j |-> i], k) = [i \in 1 .. k |-> i]
    <3>1. [i \in 1 .. j |-> i] \in Seq(Nat) /\ Len([i \in 1 .. j |-> i]) = j
      BY <2>5
    <3> QED BY <2>5, <3>1
  <2> QED BY <2>3, <2>11, <2>12
<1>7. f[n] = [i \in 1 .. n |-> i]
  BY <1>6
<1> QED
  BY <1>1, <1>2, <1>7 DEF TopologicalOrder

(* The function of Level. *)
Deeper(g, level, r) == 1 + Max({level[p] : p \in Prerequisites(g, r)} \cup {-1})

(* One more than the largest of some levels.                               *)
LEMMA DeeperIs ==
  ASSUME NEW g, GraphOK(g), NEW r \in Regions(g), NEW f,
         \A p \in Prerequisites(g, r) : f[p] \in Nat
  PROVE  /\ Deeper(g, f, r) \in Nat
         /\ \A p \in Prerequisites(g, r) : f[p] < Deeper(g, f, r)
         /\ Deeper(g, f, r) # 0 => \E p \in Prerequisites(g, r) : f[p] = Deeper(g, f, r) - 1
<1> DEFINE S == {f[p] : p \in Prerequisites(g, r)} \cup {-1}
<1>1. IsFiniteSet(S)
  <2>1. IsFiniteSet(Prerequisites(g, r))
    <3>1. IsFiniteSet(Regions(g))
      BY FS_Interval DEF Regions, GraphOK
    <3> QED BY <3>1, PrerequisitesEarlier, FS_Subset
  <2>2. IsFiniteSet({f[p] : p \in Prerequisites(g, r)})
    <3>1. PICK h : h = [p \in Prerequisites(g, r) |-> f[p]]
      OBVIOUS
    <3>2. h \in Surjection(Prerequisites(g, r), {f[p] : p \in Prerequisites(g, r)})
      BY <3>1 DEF Surjection
    <3> QED BY <2>1, <3>2, FS_Surjection
  <2> QED BY <2>2, FS_AddElement
<1>2. S \in SUBSET Int /\ S # {}
  OBVIOUS
<1>3. PICK m : m = Max(S)
  OBVIOUS
<1>4. m \in S /\ \A y \in S : m >= y
  <2> HIDE DEF S
  <2> QED BY <1>1, <1>2, <1>3, MaxIsLargest
<1>5. Deeper(g, f, r) = 1 + m
  BY <1>3 DEF Deeper
<1>6. m \in Int /\ m >= -1
  BY <1>2, <1>4
<1>7. \A p \in Prerequisites(g, r) : f[p] =< m
  BY <1>4, <1>6
<1>8. m # -1 => \E p \in Prerequisites(g, r) : f[p] = m
  BY <1>4
<1> QED BY <1>5, <1>6, <1>7, <1>8

IsLevels(g, m, f) == f = [r \in 1 .. m |-> Deeper(g, f, r)]

LEMMA LevelsExist ==
  ASSUME NEW g, GraphOK(g), NEW N \in Nat, N =< g.n
  PROVE  \E f : IsLevels(g, N, f)
<1> DEFINE S == {m \in 0 .. N : ~ \E f : IsLevels(g, m, f)}
<1>1. SUFFICES ASSUME S # {} PROVE FALSE
  OBVIOUS
<1>2. PICK m \in S : \A k \in S : m =< k
  <2>1. S \in SUBSET Nat
    OBVIOUS
  <2> HIDE DEF S
  <2> QED BY <1>1, <2>1, LeastNumber
<1>3. m \in 0 .. N /\ ~ \E f : IsLevels(g, m, f)
  OBVIOUS
<1>4. CASE m = 0
  <2>1. PICK f : f = [r \in 1 .. 0 |-> 0]
    OBVIOUS
  <2>2. f = [r \in 1 .. 0 |-> Deeper(g, f, r)]
    BY <2>1
  <2> QED BY <1>3, <1>4, <2>2 DEF IsLevels
<1>5. CASE m > 0
  <2>1. PICK n \in Nat : n = m - 1 /\ m = n + 1 /\ n \in 0 .. N /\ ~ (m =< n)
    BY <1>3, <1>5
  <2>2. PICK f : IsLevels(g, n, f)
    BY <1>2, <2>1
  <2>3. PICK h : h = [r \in 1 .. m |-> IF r = m THEN Deeper(g, f, m) ELSE f[r]]
    OBVIOUS
  <2>4. \A r \in 1 .. m : Deeper(g, h, r) = Deeper(g, f, r)
    <3> SUFFICES ASSUME NEW r \in 1 .. m PROVE Deeper(g, h, r) = Deeper(g, f, r)
      OBVIOUS
    <3>1. r \in Regions(g)
      BY <1>3 DEF GraphOK, Regions
    <3>2. \A p \in Prerequisites(g, r) : p \in 1 .. n
      <4> SUFFICES ASSUME NEW p \in Prerequisites(g, r) PROVE p \in 1 .. n
        OBVIOUS
      <4>1. p \in Regions(g) /\ p < r
        BY <3>1, PrerequisitesEarlier
      <4> QED BY <1>3, <2>1, <4>1 DEF GraphOK, Regions
    <3>3. \A p \in Prerequisites(g, r) : h[p] = f[p]
      <4> SUFFICES ASSUME NEW p \in Prerequisites(g, r) PROVE h[p] = f[p]
        OBVIOUS
      <4>1. p \in 1 .. m /\ p # m
        BY <2>1, <3>2
      <4> QED BY <2>3, <4>1
    <3>4. {h[p] : p \in Prerequisites(g, r)} = {f[p] : p \in Prerequisites(g, r)}
      BY <3>3
    <3> QED BY <3>4 DEF Deeper
  <2>5. \A r \in 1 .. m : h[r] = Deeper(g, h, r)
    <3> SUFFICES ASSUME NEW r \in 1 .. m PROVE h[r] = Deeper(g, f, r)
      BY <2>4
    <3>1. CASE r = m
      BY <2>3, <3>1
    <3>2. CASE r # m
      <4>1. r \in 1 .. n
        BY <2>1, <3>2
      <4>2. f[r] = Deeper(g, f, r)
        BY <2>2, <4>1 DEF IsLevels
      <4> QED BY <2>3, <3>2, <4>2
    <3> QED BY <3>1, <3>2
  <2>6. h = [r \in 1 .. m |-> h[r]]
    BY <2>3
  <2>7. IsLevels(g, m, h)
    BY <2>5, <2>6 DEF IsLevels
  <2> QED BY <1>3, <2>7
<1> QED BY <1>3, <1>4, <1>5

(* A region's level is one more than that of its deepest prerequisite.     *)
LEMMA LevelIs ==
  ASSUME NEW g, GraphOK(g)
  PROVE  /\ Level(g) \in [Regions(g) -> Nat]
         /\ \A r \in Regions(g) :
              /\ \A p \in Prerequisites(g, r) : Level(g)[p] < Level(g)[r]
              /\ Level(g)[r] # 0 => \E p \in Prerequisites(g, r) : Level(g)[p] = Level(g)[r] - 1
<1>1. PICK n \in Nat \ {0} : n = g.n /\ Regions(g) = 1 .. n
  BY DEF GraphOK, Regions
<1>2. PICK f : f = Level(g)
  OBVIOUS
<1>3. f = CHOOSE h : h = [r \in Regions(g) |-> 1 + Max({h[p] : p \in Prerequisites(g, r)} \cup {-1})]
  BY <1>2, Zenon DEF Level
<1>4. f = [r \in Regions(g) |-> Deeper(g, f, r)]
  <2>1. PICK h : IsLevels(g, n, h)
    BY <1>1, LevelsExist
  <2>2. h = [r \in Regions(g) |-> Deeper(g, h, r)]
    BY <1>1, <2>1 DEF IsLevels
  <2>3. \E e : e = [r \in Regions(g) |-> Deeper(g, e, r)]
    BY <2>2
  <2> QED BY <1>3, <2>3, Zenon DEF Deeper
<1> DEFINE T == {r \in Regions(g) : f[r] \notin Nat}
<1>5. T = {}
  <2>1. SUFFICES ASSUME T # {} PROVE FALSE
    OBVIOUS
  <2>2. PICK r \in T : \A k \in T : r =< k
    <3>1. T \in SUBSET Nat
      BY <1>1
    <3> HIDE DEF T
    <3> QED BY <2>1, <3>1, LeastNumber
  <2>3. r \in Regions(g) /\ f[r] \notin Nat
    OBVIOUS
  <2>4. \A p \in Prerequisites(g, r) : f[p] \in Nat
    <3> SUFFICES ASSUME NEW p \in Prerequisites(g, r) PROVE f[p] \in Nat
      OBVIOUS
    <3>1. p \in Regions(g) /\ p < r
      BY <2>3, PrerequisitesEarlier
    <3>2. ~ (r =< p)
      BY <1>1, <2>3, <3>1
    <3> QED BY <2>2, <3>1, <3>2
  <2>5. Deeper(g, f, r) \in Nat
    BY <2>3, <2>4, DeeperIs
  <2> QED BY <1>4, <2>3, <2>5
<1>6. \A r \in Regions(g) : f[r] \in Nat
  BY <1>5
<1>7. f \in [Regions(g) -> Nat]
  BY <1>4, <1>6
<1>8. ASSUME NEW r \in Regions(g)
      PROVE  /\ \A p \in Prerequisites(g, r) : f[p] < f[r]
             /\ f[r] # 0 => \E p \in Prerequisites(g, r) : f[p] = f[r] - 1
  <2>1. \A p \in Prerequisites(g, r) : f[p] \in Nat
    BY <1>6, PrerequisitesEarlier
  <2>2. f[r] = Deeper(g, f, r)
    BY <1>4
  <2> QED BY <2>1, <2>2, DeeperIs
<1> QED BY <1>2, <1>7, <1>8

(* There is a region of every level up to the deepest. *)
LEMMA LevelInhabited ==
  ASSUME NEW g, GraphOK(g), NEW q \in Regions(g), NEW l \in 0 .. Level(g)[q]
  PROVE  \E r \in Regions(g) : Level(g)[r] = l
<1>1. Level(g) \in [Regions(g) -> Nat]
  BY LevelIs
<1> DEFINE T == {m \in Nat : m >= l /\ \E r \in Regions(g) : Level(g)[r] = m}
<1>2. Level(g)[q] \in T /\ T \in SUBSET Nat
  BY <1>1
<1>3. PICK m \in T : \A k \in T : m =< k
  <2> HIDE DEF T
  <2> QED BY <1>2, LeastNumber
<1>4. PICK r \in Regions(g) : Level(g)[r] = m /\ m \in Nat /\ m >= l /\ l \in Nat
  BY <1>1
<1>5. CASE m = l
  BY <1>4, <1>5
<1>6. CASE m # l
  <2>1. PICK p \in Prerequisites(g, r) : Level(g)[p] = m - 1
    BY <1>4, <1>6, LevelIs
  <2>2. p \in Regions(g)
    BY PrerequisitesEarlier
  <2>3. m - 1 \in T /\ ~ (m =< m - 1)
    BY <1>4, <1>6, <2>1, <2>2
  <2> QED BY <1>3, <2>3
<1> QED BY <1>5, <1>6

(* The intervals of _level_order: each lists the regions of its level once,*)
(* in selection order.                                                     *)
LEMMA LevelsAre ==
  ASSUME NEW g, GraphOK(g)
  PROVE  /\ Levels(g) \in Seq(Seq(Regions(g)))
         /\ Len(Levels(g)) \in Nat \ {0}
         /\ \A r \in Regions(g) : Level(g)[r] < Len(Levels(g))
         /\ \A l \in 1 .. Len(Levels(g)) :
              /\ Levels(g)[l] # <<>>
              /\ \A i \in 1 .. Len(Levels(g)[l]) : /\ Levels(g)[l][i] \in Regions(g)
                                                   /\ Level(g)[Levels(g)[l][i]] = l - 1
              /\ \A i, j \in 1 .. Len(Levels(g)[l]) : i < j => Levels(g)[l][i] < Levels(g)[l][j]
         /\ \A r \in Regions(g) : \E i \in 1 .. Len(Levels(g)[Level(g)[r] + 1]) :
              Levels(g)[Level(g)[r] + 1][i] = r
<1>1. PICK n \in Nat \ {0} : n = g.n /\ Regions(g) = 1 .. n
  BY DEF GraphOK, Regions
<1>2. PICK f : f = Level(g) /\ f \in [Regions(g) -> Nat]
  BY LevelIs
<1> DEFINE At(l) == {i \in Regions(g) : f[i] = l}
           Row(l) == [j \in DOMAIN Ascending(At(l)) |-> Ascending(At(l))[j]]
           M == Max(Range(f)) + 1
<1>3. TopologicalOrder(g) = [i \in 1 .. n |-> i]
  BY <1>1, TopologicalOrderIs
<1>4. IsFiniteSet(Range(f)) /\ Range(f) \in SUBSET Nat /\ Range(f) # {}
  <2>1. IsFiniteSet(Regions(g))
    BY <1>1, FS_Interval
  <2>2. f \in Surjection(Regions(g), Range(f))
    BY <1>2 DEF Surjection, Range
  <2>3. 1 \in Regions(g)
    BY <1>1
  <2> QED BY <1>2, <2>1, <2>2, <2>3, FS_Surjection DEF Range
<1>5. Max(Range(f)) \in Range(f) /\ \A y \in Range(f) : Max(Range(f)) >= y
  BY <1>4, MaxIsLargest
<1>6. M \in Nat \ {0} /\ \A r \in Regions(g) : f[r] < M
  <2>1. \A r \in Regions(g) : f[r] \in Range(f)
    BY <1>2 DEF Range
  <2> QED BY <1>4, <1>5, <2>1
<1>7. \A l \in Nat : /\ At(l) \in SUBSET Nat /\ IsFiniteSet(At(l))
                     /\ Cardinality(At(l)) \in Nat
                     /\ Ascending(At(l)) \in [1 .. Cardinality(At(l)) -> At(l)]
                     /\ \A i, j \in 1 .. Cardinality(At(l)) : i < j => Ascending(At(l))[i] < Ascending(At(l))[j]
                     /\ \A x \in At(l) : \E i \in 1 .. Cardinality(At(l)) : Ascending(At(l))[i] = x
  <2> SUFFICES ASSUME NEW l \in Nat PROVE At(l) \in SUBSET Nat /\ IsFiniteSet(At(l))
    <3> HIDE DEF At
    <3> QED BY AscendingIs
  <2>1. IsFiniteSet(Regions(g))
    BY <1>1, FS_Interval
  <2> QED BY <1>1, <2>1, FS_Subset
<1>8. Levels(g) = [l \in 1 .. M |-> Row(l - 1)]
  <2>1. PICK order : order = TopologicalOrder(g) /\ DOMAIN order = Regions(g) /\ \A i \in Regions(g) : order[i] = i
    BY <1>1, <1>3
  <2>2. \A l : {i \in DOMAIN order : f[order[i]] = l} = At(l)
    BY <2>1
  <2>3. \A l : \A S : {i \in DOMAIN order : f[order[i]] = l} = S => S = At(l)
    BY <2>2
  <2>4. Levels(g) = [l \in 1 .. M |-> [j \in DOMAIN Ascending(At(l - 1)) |-> order[Ascending(At(l - 1))[j]]]]
    <3> DEFINE Old(l) == {i \in DOMAIN order : f[order[i]] = l}
    <3>1. Levels(g) = [l \in 1 .. M |-> [j \in DOMAIN Ascending(Old(l - 1)) |-> order[Ascending(Old(l - 1))[j]]]]
      BY <1>2, <2>1, Zenon DEF Levels, ByLevel
    <3>2. \A l : Old(l) = At(l)
      BY <2>2
    <3> HIDE DEF Old, At
    <3> QED BY <3>1, <3>2
  <2>5. \A l \in 1 .. M : [j \in DOMAIN Ascending(At(l - 1)) |-> order[Ascending(At(l - 1))[j]]] = Row(l - 1)
    <3> SUFFICES ASSUME NEW l \in 1 .. M
                 PROVE  [j \in DOMAIN Ascending(At(l - 1)) |-> order[Ascending(At(l - 1))[j]]] = Row(l - 1)
      OBVIOUS
    <3>1. l - 1 \in Nat
      OBVIOUS
    <3>2. \A j \in DOMAIN Ascending(At(l - 1)) : Ascending(At(l - 1))[j] \in At(l - 1)
      BY <1>7, <3>1
    <3>3. At(l - 1) \subseteq Regions(g)
      OBVIOUS
    <3> HIDE DEF At
    <3> QED BY <2>1, <3>2, <3>3
  <2> QED BY <2>4, <2>5
<1>9. \A l \in Nat : Row(l) \in Seq(Regions(g)) /\ Len(Row(l)) = Cardinality(At(l)) /\ Row(l) = Ascending(At(l))
  <2> SUFFICES ASSUME NEW l \in Nat
               PROVE  Row(l) \in Seq(Regions(g)) /\ Len(Row(l)) = Cardinality(At(l)) /\ Row(l) = Ascending(At(l))
    OBVIOUS
  <2>1. Ascending(At(l)) \in [1 .. Cardinality(At(l)) -> At(l)] /\ Cardinality(At(l)) \in Nat
    BY <1>7
  <2>2. Row(l) = Ascending(At(l))
    BY <2>1
  <2>3. At(l) \subseteq Regions(g)
    OBVIOUS
  <2> HIDE DEF At, Row
  <2>4. Ascending(At(l)) \in [1 .. Cardinality(At(l)) -> Regions(g)]
    BY <2>1, <2>3
  <2> QED BY <2>1, <2>2, <2>4, IsASeq
<1>10. Levels(g) \in Seq(Seq(Regions(g))) /\ Len(Levels(g)) = M
  <2>1. \A l \in 1 .. M : l - 1 \in Nat
    BY <1>6
  <2> HIDE DEF M, Row
  <2>2. \A l \in 1 .. M : Row(l - 1) \in Seq(Regions(g))
    BY <1>9, <2>1
  <2>3. Levels(g) \in [1 .. M -> Seq(Regions(g))] /\ M \in Nat
    BY <1>6, <1>8, <2>2
  <2> QED BY <2>3, IsASeq
<1>11. ASSUME NEW l \in 1 .. M
       PROVE  /\ Levels(g)[l] # <<>>
              /\ \A i \in 1 .. Len(Levels(g)[l]) : /\ Levels(g)[l][i] \in Regions(g)
                                                   /\ f[Levels(g)[l][i]] = l - 1
              /\ \A i, j \in 1 .. Len(Levels(g)[l]) : i < j => Levels(g)[l][i] < Levels(g)[l][j]
  <2>1. PICK k \in Nat : k = l - 1 /\ k \in 0 .. M - 1
    BY <1>6
  <2>2. Levels(g)[l] = Ascending(At(k)) /\ Len(Levels(g)[l]) = Cardinality(At(k))
    <3>1. Levels(g)[l] = Row(k)
      BY <1>8, <2>1
    <3> HIDE DEF Row, At
    <3> QED BY <1>9, <3>1
  <2>3. \A i \in 1 .. Cardinality(At(k)) : Ascending(At(k))[i] \in Regions(g) /\ f[Ascending(At(k))[i]] = k
    <3>1. \A i \in 1 .. Cardinality(At(k)) : Ascending(At(k))[i] \in At(k)
      <4> HIDE DEF At
      <4> QED BY <1>7
    <3> QED BY <3>1
  <2>4. \E r \in Regions(g) : f[r] = k
    <3>1. PICK m \in Range(f) : m = Max(Range(f))
      BY <1>5
    <3>2. PICK q \in Regions(g) : f[q] = m
      BY <1>2 DEF Range
    <3>3. k \in 0 .. f[q]
      BY <1>2, <2>1, <3>1, <3>2
    <3> QED BY <1>2, <3>3, LevelInhabited
  <2>5. Cardinality(At(k)) # 0
    <3>1. PICK r \in At(k) : TRUE
      BY <2>4
    <3>2. \E i \in 1 .. Cardinality(At(k)) : Ascending(At(k))[i] = r
      <4> HIDE DEF At
      <4> QED BY <1>7
    <3> HIDE DEF At
    <3> QED BY <3>2
  <2>6. Levels(g)[l] # <<>>
    <3> HIDE DEF At
    <3> QED BY <2>2, <2>5, EmptySeq
  <2>7. \A i, j \in 1 .. Cardinality(At(k)) : i < j => Ascending(At(k))[i] < Ascending(At(k))[j]
    <3> HIDE DEF At
    <3> QED BY <1>7
  <2> HIDE DEF At
  <2> QED BY <2>1, <2>2, <2>3, <2>6, <2>7
<1>12. ASSUME NEW r \in Regions(g)
       PROVE  \E i \in 1 .. Len(Levels(g)[f[r] + 1]) : Levels(g)[f[r] + 1][i] = r
  <2>1. PICK k \in Nat : k = f[r] /\ k + 1 \in 1 .. M
    BY <1>2, <1>6
  <2>2. Levels(g)[k + 1] = Ascending(At(k)) /\ Len(Levels(g)[k + 1]) = Cardinality(At(k))
    <3>1. Levels(g)[k + 1] = Row(k)
      <4>1. Levels(g)[k + 1] = Row(k + 1 - 1)
        BY <1>8, <2>1
      <4>2. k + 1 - 1 = k
        BY <2>1
      <4> HIDE DEF Row
      <4> QED BY <4>1, <4>2
    <3> HIDE DEF Row, At
    <3> QED BY <1>9, <3>1
  <2>3. r \in At(k)
    BY <2>1
  <2> HIDE DEF At
  <2> QED BY <1>7, <2>1, <2>2, <2>3
<1> HIDE DEF M
<1> QED
  BY <1>2, <1>6, <1>10, <1>11, <1>12

(* "This needs the fewest barriers any phase schedule of this graph can    *)
(* have": whoever numbers intervals gives a region of level l a number     *)
(* above l.                                                                *)
LEMMA LevelsAreFewest == ASSUME NEW g, GraphOK(g) PROVE FewestIntervals(g)
<1> SUFFICES ASSUME NEW k \in 1 .. Len(Levels(g)) - 1, NEW interval \in [Regions(g) -> 1 .. k],
                    \A d \in Dependencies(g) : interval[d[1]] < interval[d[2]]
             PROVE  FALSE
  BY DEF FewestIntervals
<1>1. Regions(g) \in SUBSET Nat
  BY DEF Regions, GraphOK
<1>2. Level(g) \in [Regions(g) -> Nat] /\ Len(Levels(g)) \in Nat
  BY LevelIs, LevelsAre
<1> DEFINE T == {r \in Regions(g) : ~ (Level(g)[r] < interval[r])}
<1>3. T = {}
  <2>1. SUFFICES ASSUME T # {} PROVE FALSE
    OBVIOUS
  <2>2. PICK r \in T : \A q \in T : r =< q
    <3>1. T \in SUBSET Nat
      BY <1>1
    <3> HIDE DEF T
    <3> QED BY <2>1, <3>1, LeastNumber
  <2>3. r \in Regions(g) /\ ~ (Level(g)[r] < interval[r]) /\ interval[r] \in 1 .. k /\ Level(g)[r] \in Nat
    BY <1>2
  <2>4. Level(g)[r] # 0
    BY <2>3
  <2>5. PICK p \in Prerequisites(g, r) : Level(g)[p] = Level(g)[r] - 1
    BY <2>3, <2>4, LevelIs
  <2>6. p \in Regions(g) /\ p < r
    BY <2>3, PrerequisitesEarlier
  <2>7. interval[p] < interval[r]
    <3>1. PICK d \in Dependencies(g) : d[1] = p /\ d[2] = r
      BY <2>5 DEF Prerequisites
    <3> QED BY <3>1
  <2>8. Level(g)[p] < interval[p]
    <3>1. ~ (r =< p)
      BY <1>1, <2>3, <2>6
    <3> QED BY <2>2, <2>6, <3>1
  <2>9. interval[p] \in 1 .. k
    BY <2>6
  <2> QED BY <2>3, <2>5, <2>7, <2>8, <2>9
<1>4. PICK r \in Regions(g) : Level(g)[r] = Len(Levels(g)) - 1
  <2>1. PICK l \in 1 .. Len(Levels(g)) : l = Len(Levels(g))
    BY LevelsAre
  <2>2. Levels(g)[l] \in Seq(Regions(g)) /\ Levels(g)[l] # <<>>
    BY LevelsAre, ElementOfSeq
  <2>3. 1 \in 1 .. Len(Levels(g)[l])
    BY <2>2, EmptySeq, LenProperties
  <2>4. PICK r \in Regions(g) : r = Levels(g)[l][1]
    BY <2>3, LevelsAre
  <2>5. Level(g)[r] = l - 1
    BY <2>3, <2>4, LevelsAre
  <2> QED BY <2>1, <2>4, <2>5
<1>5. interval[r] \in 1 .. k /\ Level(g)[r] < interval[r]
  BY <1>3
<1> QED BY <1>2, <1>4, <1>5

(* Places of the flat sequence keep the order of the sequences.            *)
LEMMA FlatOrder ==
  ASSUME NEW S, NEW s \in Seq(Seq(S)), NEW a \in 1 .. Len(s), NEW b \in 1 .. Len(s),
         NEW i \in 1 .. Len(s[a]), NEW j \in 1 .. Len(s[b]),
         Ends(s, a - 1) + i < Ends(s, b - 1) + j
  PROVE  a < b \/ (a = b /\ i < j)
<1>1. Len(s) \in Nat /\ Len(s[a]) \in Nat /\ Len(s[b]) \in Nat
  BY LenProperties, ElementOfSeq
<1>2. /\ \A k \in 0 .. Len(s) : Ends(s, k) \in Nat
      /\ \A k \in 1 .. Len(s) : Ends(s, k) = Ends(s, k - 1) + Len(s[k])
  BY EndsAdd
<1>3. a - 1 \in 0 .. Len(s) /\ b - 1 \in 0 .. Len(s) /\ b \in 0 .. Len(s)
  BY <1>1
<1>4. CASE b < a
  <2>1. b =< a - 1
    BY <1>4
  <2>2. Ends(s, b) =< Ends(s, a - 1)
    BY <1>3, <2>1, EndsGrow
  <2>3. Ends(s, b) = Ends(s, b - 1) + Len(s[b]) /\ Ends(s, b - 1) \in Nat /\ Ends(s, a - 1) \in Nat
    BY <1>2, <1>3
  <2> QED BY <1>1, <2>2, <2>3
<1>5. CASE a = b
  <2>1. Ends(s, a - 1) \in Nat
    BY <1>2, <1>3
  <2> QED BY <1>1, <1>5, <2>1
<1> QED BY <1>4, <1>5

-----------------------------------------------------------------------------
(* Folding. *)

(* The loop before the first interval.                                     *)
StartFold == [result |-> <<>>, folded |-> {}, pending |-> <<>>, cost |-> 0]

(* The function of Folds. *)
IsFolds(g, m, f) ==
  f = [k \in 0 .. m |-> IF k = 0 THEN StartFold ELSE FoldInterval(g, f[k - 1], Levels(g)[k])]

LEMMA FoldsExist ==
  ASSUME NEW g, NEW N \in Nat
  PROVE  \E f : IsFolds(g, N, f)
<1> DEFINE S == {m \in Nat : ~ \E f : IsFolds(g, m, f)}
           Next1(k, x) == FoldInterval(g, x, Levels(g)[k])
<1>1. SUFFICES ASSUME S # {} PROVE FALSE
  OBVIOUS
<1>2. PICK m \in S : \A k \in S : m =< k
  <2>1. S \in SUBSET Nat
    OBVIOUS
  <2> HIDE DEF S
  <2> QED BY <1>1, <2>1, LeastNumber
<1>3. m \in Nat /\ ~ \E f : IsFolds(g, m, f)
  OBVIOUS
<1>4. \A k \in Nat : k < m => \E f : IsFolds(g, k, f)
  BY <1>2, <1>3
<1>5. \A k, f : IsFolds(g, k, f) <=> f = [i \in 0 .. k |-> IF i = 0 THEN StartFold ELSE Next1(i, f[i - 1])]
  BY DEF IsFolds
<1> HIDE DEF Next1
<1>6. CASE m = 0
  <2>1. PICK f : f = [i \in 0 .. 0 |-> StartFold]
    OBVIOUS
  <2>2. f = [i \in 0 .. 0 |-> IF i = 0 THEN StartFold ELSE Next1(i, f[i - 1])]
    BY <2>1
  <2> QED BY <1>3, <1>5, <1>6, <2>2
<1>7. CASE m > 0
  <2>1. PICK n \in Nat : n = m - 1 /\ m = n + 1 /\ n < m
    BY <1>3, <1>7
  <2>7. PICK f : IsFolds(g, n, f)
    BY <1>4, <2>1
  <2>2. f = [i \in 0 .. n |-> IF i = 0 THEN StartFold ELSE Next1(i, f[i - 1])]
    BY <1>5, <2>7
  <2>3. PICK h : h = [i \in 0 .. m |-> IF i = m THEN Next1(m, f[n]) ELSE f[i]]
    OBVIOUS
  <2>4. \A i \in 0 .. m : h[i] = IF i = 0 THEN StartFold ELSE Next1(i, h[i - 1])
    <3> SUFFICES ASSUME NEW i \in 0 .. m PROVE h[i] = IF i = 0 THEN StartFold ELSE Next1(i, h[i - 1])
      OBVIOUS
    <3>1. i # 0 => h[i - 1] = f[i - 1]
      BY <2>1, <2>3
    <3>2. i # m => h[i] = f[i] /\ i \in 0 .. n
      BY <2>1, <2>3
    <3>3. i # m => f[i] = IF i = 0 THEN StartFold ELSE Next1(i, f[i - 1])
      BY <2>2, <3>2
    <3>4. i = m => h[i] = Next1(i, f[i - 1]) /\ i # 0
      BY <2>1, <2>3
    <3> QED BY <3>1, <3>2, <3>3, <3>4
  <2>5. h = [i \in 0 .. m |-> h[i]]
    BY <2>3
  <2>6. h = [i \in 0 .. m |-> IF i = 0 THEN StartFold ELSE Next1(i, h[i - 1])]
    BY <2>4, <2>5
  <2> QED BY <1>3, <1>5, <2>6
<1> QED
  BY <1>3, <1>6, <1>7

(* What Folds is at the start and behind an interval.                      *)
LEMMA FoldsAre ==
  ASSUME NEW g, Len(Levels(g)) \in Nat
  PROVE  /\ Folds(g, Levels(g))[0] = StartFold
         /\ \A k \in 1 .. Len(Levels(g)) : Folds(g, Levels(g))[k] = FoldInterval(g, Folds(g, Levels(g))[k - 1], Levels(g)[k])
<1>1. PICK n \in Nat : n = Len(Levels(g))
  OBVIOUS
<1>2. PICK f : f = Folds(g, Levels(g))
  OBVIOUS
<1>3. f = CHOOSE h : h = [k \in 0 .. n |-> IF k = 0 THEN StartFold ELSE FoldInterval(g, h[k - 1], Levels(g)[k])]
  BY <1>1, <1>2, Zenon DEF Folds, StartFold
<1>4. IsFolds(g, n, f)
  <2>1. \E h : IsFolds(g, n, h)
    BY FoldsExist
  <2> QED BY <1>3, <2>1, Zenon DEF IsFolds
<1> DEFINE Next1(k, x) == FoldInterval(g, x, Levels(g)[k])
<1>5. f = [k \in 0 .. n |-> IF k = 0 THEN StartFold ELSE Next1(k, f[k - 1])]
  BY <1>4 DEF IsFolds
<1>6. f[0] = StartFold /\ \A k \in 1 .. n : f[k] = Next1(k, f[k - 1])
  <2> HIDE DEF Next1
  <2> QED BY <1>5
<1> QED BY <1>1, <1>2, <1>6 DEF Next1

(* One step of the loop: what it does to the settled intervals R, the      *)
(* folded regions F and the pending run P.                                 *)
Fold(R, F, P, C) == [result |-> R, folded |-> F, pending |-> P, cost |-> C]

FoldStep(g, R, F, P, x, next) ==
  \/ Small(g, x) /\ \E c : next = Fold(R, F, Append(P, x), c)
  \/ Small(g, x) /\ \E c : next = Fold(R \o P, F, Append(<<>>, x), c)
  \/ \E c : next = Fold(Append(R \o P, x), F, <<>>, c)
  \/ /\ ~ Conflict(g, FlattenSeq(P), x)
     /\ \E c : next = Fold(Append(R, FlattenSeq(P) \o x), F \cup ToSet(FlattenSeq(P)), <<>>, c)

(* FoldInterval takes one of these steps: Fits decides which, and nothing  *)
(* below depends on it.                                                    *)
LEMMA FoldSteps ==
  ASSUME NEW g, NEW R, NEW F, NEW P, NEW C, NEW x
  PROVE  FoldStep(g, R, F, P, x, FoldInterval(g, Fold(R, F, P, C), x))
<1> PICK next : next = FoldInterval(g, Fold(R, F, P, C), x)
  OBVIOUS
<1> SUFFICES FoldStep(g, R, F, P, x, next)
  OBVIOUS
<1> DEFINE s == Fold(R, F, P, C)
           S4 == Fold(R \o P, F, <<>>, 0)
<1>1. Flush(s) = S4
  <2>1. PICK h : h = R \o P
    OBVIOUS
  <2>2. s.result \o s.pending = h
    BY <2>1, Zenon DEF Fold
  <2>3. Flush(s) = [s EXCEPT !.result = h, !.pending = <<>>, !.cost = 0]
    BY <2>2, Zenon DEF Flush
  <2> QED BY <2>1, <2>3 DEF Fold
<1>2. CASE Small(g, x)
  <2>1. next = FoldSmall(g, s, x)
    BY <1>2 DEF FoldInterval
  <2>2. CASE Fits(g, s, x)
    <3>1. next = [s EXCEPT !.pending = Append(@, x), !.cost = @ + Cost(g, x)]
      BY <2>1, <2>2 DEF FoldSmall
    <3>2. next = Fold(R, F, Append(P, x), C + Cost(g, x))
      BY <3>1 DEF Fold
    <3> QED BY <1>2, <3>2, Zenon DEF FoldStep
  <2>3. CASE ~ Fits(g, s, x)
    <3>1. CASE Fits(g, S4, x)
      <4>1. next = [S4 EXCEPT !.pending = Append(@, x), !.cost = @ + Cost(g, x)]
        BY <1>1, <2>1, <2>3, <3>1 DEF FoldSmall
      <4>2. next = Fold(R \o P, F, Append(<<>>, x), 0 + Cost(g, x))
        BY <4>1 DEF Fold
      <4> QED BY <1>2, <4>2, Zenon DEF FoldStep
    <3>2. CASE ~ Fits(g, S4, x)
      <4>1. next = [S4 EXCEPT !.result = Append(@, x)]
        BY <1>1, <2>1, <2>3, <3>2 DEF FoldSmall
      <4>2. next = Fold(Append(R \o P, x), F, <<>>, 0)
        BY <4>1 DEF Fold
      <4> QED BY <4>2, Zenon DEF FoldStep
    <3> QED BY <3>1, <3>2
  <2> QED BY <2>2, <2>3
<1>3. CASE ~ Small(g, x)
  <2>1. next = FoldInto(g, s, x)
    BY <1>3 DEF FoldInterval
  <2>2. s.pending = P
    BY DEF Fold
  <2>3. CASE Conflict(g, FlattenSeq(P), x)
    <3>1. next = [S4 EXCEPT !.result = Append(@, x)]
      BY <1>1, <2>1, <2>2, <2>3 DEF FoldInto
    <3>2. next = Fold(Append(R \o P, x), F, <<>>, 0)
      BY <3>1 DEF Fold
    <3> QED BY <3>2, Zenon DEF FoldStep
  <2>4. CASE ~ Conflict(g, FlattenSeq(P), x)
    <3>1. next = [s EXCEPT !.result = Append(@, FlattenSeq(P) \o x),
                           !.folded = @ \cup ToSet(FlattenSeq(P)),
                           !.pending = <<>>, !.cost = 0]
      BY <2>1, <2>2, <2>4 DEF FoldInto
    <3>2. next = Fold(Append(R, FlattenSeq(P) \o x), F \cup ToSet(FlattenSeq(P)), <<>>, 0)
      BY <3>1 DEF Fold
    <3> QED BY <2>4, <3>2, Zenon DEF FoldStep
  <2> QED BY <2>3, <2>4
<1> QED BY <1>2, <1>3

(* What holds of two phases i < j of one interval x, where the regions F   *)
(* are recomputed: levels ascend, recomputed regions lead, a region on     *)
(* which a deeper one may depend is recomputed, and what is not recomputed *)
(* stays off the storage of what is.                                       *)
PairOK(g, F, x, i, j) ==
  /\ Level(g)[x[i]] =< Level(g)[x[j]] /\ x[i] # x[j]
  /\ x[j] \in F => x[i] \in F
  /\ Level(g)[x[i]] # Level(g)[x[j]] => x[i] \in F
  /\ x[i] \in F /\ x[j] \notin F => Storage(g, x[j]) \notin StorageUsed(g, {x[i]})

(* Of all of them.                                                         *)
IntervalOK(g, F, x) == \A i, j \in 1 .. Len(x) : i < j => PairOK(g, F, x, i, j)

(* An interval lists regions of levels from l up to, and not including, m. *)
Lists(g, x, l, m) ==
  /\ x \in Seq(Regions(g)) /\ x # <<>>
  /\ \A i \in 1 .. Len(x) : Level(g)[x[i]] \in l .. m - 1
  /\ \A r \in Regions(g) : Level(g)[r] \in l .. m - 1 => \E i \in 1 .. Len(x) : x[i] = r

(* The intervals R settle the first m levels.                              *)
Settled(g, R, F, m) ==
  /\ m \in Nat
  /\ R \in Seq(Seq(Regions(g))) /\ Len(R) =< m
  /\ F \in SUBSET Regions(g)
  /\ \A r \in F : Level(g)[r] < m /\ g.rounds[r] # Large
  /\ \A a \in 1 .. Len(R) : /\ R[a] # <<>> /\ IntervalOK(g, F, R[a])
                            /\ \A i \in 1 .. Len(R[a]) : Level(g)[R[a][i]] < m
  /\ \A a, b \in 1 .. Len(R) : a < b =>
       \A i \in 1 .. Len(R[a]), j \in 1 .. Len(R[b]) : Level(g)[R[a][i]] < Level(g)[R[b][j]]
  /\ \A r \in Regions(g) : Level(g)[r] < m => \E a \in 1 .. Len(R) : \E i \in 1 .. Len(R[a]) : R[a][i] = r

(* IntervalOK looks at the recomputed regions of the interval only.        *)
LEMMA IntervalKept ==
  ASSUME NEW g, NEW F, NEW G, NEW x, IntervalOK(g, F, x),
         \A i \in 1 .. Len(x) : x[i] \in F <=> x[i] \in G
  PROVE  IntervalOK(g, G, x)
BY DEF IntervalOK, PairOK

(* One more interval, of the levels that come next.                        *)
LEMMA AddInterval ==
  ASSUME NEW g, GraphOK(g), NEW R, NEW F, NEW m, Settled(g, R, F, m),
         NEW x, NEW l \in Nat, m < l, Lists(g, x, m, l),
         NEW G \in SUBSET Regions(g), IntervalOK(g, F \cup G, x),
         \A r \in G : Level(g)[r] \in m .. l - 1 /\ g.rounds[r] # Large
  PROVE  Settled(g, Append(R, x), F \cup G, l)
<1>1. PICK f : f = Level(g) /\ f \in [Regions(g) -> Nat]
  BY LevelIs
<1>2. /\ m \in Nat /\ R \in Seq(Seq(Regions(g))) /\ Len(R) \in Nat /\ Len(R) =< m
      /\ x \in Seq(Regions(g))
  BY LenProperties DEF Settled, Lists
<1>3. PICK T : T = Append(R, x)
  OBVIOUS
<1>4. /\ T \in Seq(Seq(Regions(g))) /\ Len(T) = Len(R) + 1
      /\ \A a \in 1 .. Len(R) : T[a] = R[a]
      /\ T[Len(R) + 1] = x
  BY <1>2, <1>3, AppendProperties
<1>5. \A a \in 1 .. Len(T) : a \in 1 .. Len(R) \/ a = Len(R) + 1
  BY <1>2, <1>4
<1>6. \A a \in 1 .. Len(R) : \A i \in 1 .. Len(R[a]) : R[a][i] \in Regions(g) /\ f[R[a][i]] < m
  <2> SUFFICES ASSUME NEW a \in 1 .. Len(R), NEW i \in 1 .. Len(R[a])
               PROVE  R[a][i] \in Regions(g) /\ f[R[a][i]] < m
    OBVIOUS
  <2>1. R[a] \in Seq(Regions(g))
    BY <1>2, ElementOfSeq
  <2>2. R[a][i] \in Regions(g)
    BY <2>1, ElementOfSeq
  <2> QED BY <1>1, <2>2 DEF Settled
<1>7. \A i \in 1 .. Len(x) : x[i] \in Regions(g) /\ f[x[i]] \in m .. l - 1
  BY <1>1, <1>2, ElementOfSeq DEF Lists
<1>8. \A r \in F \cup G : f[r] < l /\ g.rounds[r] # Large
  <2>1. \A r \in F : r \in Regions(g) /\ f[r] < m /\ g.rounds[r] # Large
    BY <1>1 DEF Settled
  <2>2. \A r \in G : f[r] \in m .. l - 1 /\ g.rounds[r] # Large
    BY <1>1
  <2> QED BY <1>1, <1>2, <2>1, <2>2
<1>9. ASSUME NEW a \in 1 .. Len(T)
      PROVE  /\ T[a] # <<>> /\ IntervalOK(g, F \cup G, T[a])
             /\ \A i \in 1 .. Len(T[a]) : f[T[a][i]] < l
  <2>1. CASE a \in 1 .. Len(R)
    <3>1. R[a] # <<>> /\ IntervalOK(g, F, R[a])
      BY <2>1 DEF Settled
    <3>2. \A i \in 1 .. Len(R[a]) : R[a][i] \notin G
      <4> SUFFICES ASSUME NEW i \in 1 .. Len(R[a]), R[a][i] \in G PROVE FALSE
        OBVIOUS
      <4>1. f[R[a][i]] \in m .. l - 1
        BY <1>1
      <4> QED BY <1>1, <1>2, <1>6, <2>1, <4>1
    <3>3. IntervalOK(g, F \cup G, R[a])
      BY <3>1, <3>2, IntervalKept
    <3>4. \A i \in 1 .. Len(R[a]) : f[R[a][i]] < l
      BY <1>1, <1>2, <1>6, <2>1
    <3> QED BY <1>4, <2>1, <3>1, <3>3, <3>4
  <2>2. CASE a = Len(R) + 1
    <3>1. x # <<>>
      BY DEF Lists
    <3>2. \A i \in 1 .. Len(x) : f[x[i]] < l
      BY <1>1, <1>2, <1>7
    <3> QED BY <1>4, <2>2, <3>1, <3>2
  <2> QED BY <1>5, <2>1, <2>2
<1>10. ASSUME NEW a \in 1 .. Len(T), NEW b \in 1 .. Len(T), a < b,
              NEW i \in 1 .. Len(T[a]), NEW j \in 1 .. Len(T[b])
       PROVE  f[T[a][i]] < f[T[b][j]]
  <2>1. a \in 1 .. Len(R)
    BY <1>2, <1>4, <1>10
  <2>2. CASE b \in 1 .. Len(R)
    <3>1. T[a] = R[a] /\ T[b] = R[b]
      BY <1>4, <2>1, <2>2
    <3> QED BY <1>1, <1>10, <2>1, <2>2, <3>1 DEF Settled
  <2>3. CASE b = Len(R) + 1
    <3>1. T[a] = R[a] /\ T[b] = x
      BY <1>4, <2>1, <2>3
    <3>2. R[a][i] \in Regions(g) /\ f[R[a][i]] < m
      BY <1>6, <2>1, <3>1
    <3>3. x[j] \in Regions(g) /\ f[x[j]] \in m .. l - 1
      BY <1>7, <3>1
    <3>4. \A u \in Nat, w \in m .. l - 1 : u < m => u < w
      BY <1>2
    <3>5. f[R[a][i]] \in Nat
      BY <1>1, <3>2
    <3>6. f[R[a][i]] < f[x[j]]
      BY <3>2, <3>3, <3>4, <3>5
    <3> QED BY <3>1, <3>6
  <2> QED BY <1>5, <2>2, <2>3
<1>11. ASSUME NEW r \in Regions(g), f[r] < l
       PROVE  \E a \in 1 .. Len(T) : \E i \in 1 .. Len(T[a]) : T[a][i] = r
  <2>1. CASE f[r] < m
    <3>1. PICK a \in 1 .. Len(R) : \E i \in 1 .. Len(R[a]) : R[a][i] = r
      BY <1>1, <2>1 DEF Settled
    <3>2. a \in 1 .. Len(T)
      BY <1>2, <1>4
    <3>3. T[a] = R[a]
      BY <1>4
    <3> QED BY <3>1, <3>2, <3>3
  <2>2. CASE ~ (f[r] < m)
    <3>1. f[r] \in m .. l - 1
      BY <1>1, <1>2, <1>11, <2>2
    <3>2. \E i \in 1 .. Len(x) : x[i] = r
      BY <1>1, <3>1 DEF Lists
    <3>3. Len(R) + 1 \in 1 .. Len(T) /\ T[Len(R) + 1] = x
      BY <1>2, <1>4
    <3> QED BY <3>2, <3>3
  <2> QED BY <2>1, <2>2
<1>12. F \cup G \in SUBSET Regions(g) /\ Len(T) =< l
  BY <1>2, <1>4 DEF Settled
<1>13. Settled(g, T, F \cup G, l)
  BY <1>1, <1>4, <1>8, <1>9, <1>10, <1>11, <1>12 DEF Settled
<1> QED BY <1>3, <1>13

-----------------------------------------------------------------------------
(* A run of levels m + 1 .. k of Levels(g), or level numbers m .. k - 1.   *)
IsRun(g, P, m, k) ==
  /\ m \in Nat /\ k \in Nat /\ m =< k /\ k =< Len(Levels(g))
  /\ P \in Seq(Seq(Regions(g))) /\ Len(P) = k - m
  /\ \A j \in 1 .. Len(P) : P[j] = Levels(g)[m + j]

(* A level by itself is an interval.                                       *)
LEMMA OneLevel ==
  ASSUME NEW g, GraphOK(g), NEW k \in 0 .. Len(Levels(g)) - 1
  PROVE  /\ Lists(g, Levels(g)[k + 1], k, k + 1)
         /\ \A F : (\A r \in F : r \in Regions(g) => Level(g)[r] < k) => IntervalOK(g, F, Levels(g)[k + 1])
<1>1. PICK f : f = Level(g) /\ f \in [Regions(g) -> Nat]
  BY LevelIs
<1>2. Len(Levels(g)) \in Nat /\ k \in Nat /\ k + 1 \in 1 .. Len(Levels(g))
  BY LevelsAre
<1>3. PICK x : x = Levels(g)[k + 1]
  OBVIOUS
<1>4. /\ x \in Seq(Regions(g)) /\ x # <<>>
      /\ \A i \in 1 .. Len(x) : x[i] \in Regions(g) /\ f[x[i]] = k + 1 - 1
      /\ \A i, j \in 1 .. Len(x) : i < j => x[i] < x[j]
  <2>1. x \in Seq(Regions(g))
    BY <1>2, <1>3, LevelsAre, ElementOfSeq
  <2>2. PICK l \in 1 .. Len(Levels(g)) : l = k + 1
    BY <1>2
  <2>3. x = Levels(g)[l]
    BY <1>3, <2>2
  <2>4. /\ Levels(g)[l] # <<>>
        /\ \A i \in 1 .. Len(Levels(g)[l]) : /\ Levels(g)[l][i] \in Regions(g)
                                             /\ Level(g)[Levels(g)[l][i]] = l - 1
        /\ \A i, j \in 1 .. Len(Levels(g)[l]) : i < j => Levels(g)[l][i] < Levels(g)[l][j]
    BY LevelsAre
  <2> QED BY <1>1, <2>1, <2>2, <2>3, <2>4
<1>5. \A r \in Regions(g) : f[r] = k => \E i \in 1 .. Len(x) : x[i] = r
  <2> SUFFICES ASSUME NEW r \in Regions(g), f[r] = k PROVE \E i \in 1 .. Len(x) : x[i] = r
    OBVIOUS
  <2>1. Level(g)[r] + 1 = k + 1
    BY <1>1
  <2>2. \E i \in 1 .. Len(Levels(g)[Level(g)[r] + 1]) : Levels(g)[Level(g)[r] + 1][i] = r
    BY LevelsAre
  <2> QED BY <1>3, <2>1, <2>2
<1>6. \A i \in 1 .. Len(x) : f[x[i]] = k
  BY <1>2, <1>4
<1>7. \A n \in Nat : n \in k .. k + 1 - 1 <=> n = k
  BY <1>2
<1>8. Lists(g, x, k, k + 1)
  BY <1>1, <1>2, <1>4, <1>5, <1>6, <1>7 DEF Lists
<1>9. ASSUME NEW F, \A r \in F : r \in Regions(g) => f[r] < k
      PROVE  IntervalOK(g, F, x)
  <2> SUFFICES ASSUME NEW i \in 1 .. Len(x), NEW j \in 1 .. Len(x), i < j PROVE PairOK(g, F, x, i, j)
    BY DEF IntervalOK
  <2>1. f[x[i]] = k /\ f[x[j]] = k
    BY <1>6
  <2>2. x[i] \notin F /\ x[j] \notin F
    BY <1>2, <1>4, <1>9, <2>1
  <2>3. x[i] # x[j]
    <3>1. x[i] < x[j] /\ x[i] \in Regions(g)
      BY <1>4
    <3>2. Regions(g) \in SUBSET Nat
      BY DEF Regions, GraphOK
    <3> QED BY <3>1, <3>2
  <2> QED BY <1>1, <1>2, <2>1, <2>2, <2>3 DEF PairOK
<1> QED BY <1>1, <1>3, <1>8, <1>9

(* The settled intervals and a run behind them.                            *)
LEMMA FlushSettles ==
  ASSUME NEW g, GraphOK(g), NEW R, NEW F, NEW m, Settled(g, R, F, m),
         NEW P, NEW k, IsRun(g, P, m, k)
  PROVE  Settled(g, R \o P, F, k)
<1>1. PICK n \in Nat : n = Len(P) /\ k = m + n /\ m \in Nat /\ k \in Nat /\ k =< Len(Levels(g))
  BY LenProperties DEF IsRun
<1>2. R \in Seq(Seq(Regions(g))) /\ P \in Seq(Seq(Regions(g))) /\ Len(Levels(g)) \in Nat
  BY LevelsAre DEF Settled, IsRun
<1> DEFINE T == {j \in 0 .. n : ~ Settled(g, R \o SubSeq(P, 1, j), F, m + j)}
<1>3. T = {}
  <2>1. SUFFICES ASSUME T # {} PROVE FALSE
    OBVIOUS
  <2>2. PICK j \in T : \A i \in T : j =< i
    <3>1. T \in SUBSET Nat
      OBVIOUS
    <3> HIDE DEF T
    <3> QED BY <2>1, <3>1, LeastNumber
  <2>3. j \in 0 .. n /\ ~ Settled(g, R \o SubSeq(P, 1, j), F, m + j)
    OBVIOUS
  <2>4. j # 0
    <3>1. SubSeq(P, 1, 0) = <<>>
      BY SubSeqEmpty
    <3>2. R \o <<>> = R
      BY <1>2, ConcatEmptySeq
    <3>3. m + 0 = m
      BY <1>1
    <3> QED BY <2>3, <3>1, <3>2, <3>3
  <2>5. PICK i \in 0 .. n : i = j - 1 /\ j = i + 1 /\ ~ (j =< i) /\ j \in 1 .. Len(P)
    BY <1>1, <2>3, <2>4
  <2>6. PICK Q : Q = R \o SubSeq(P, 1, i)
    OBVIOUS
  <2>7. Settled(g, Q, F, m + i)
    BY <2>2, <2>5, <2>6
  <2>8. P[j] = Levels(g)[m + j] /\ P[j] \in Seq(Regions(g))
    BY <1>2, <2>5, ElementOfSeq DEF IsRun
  <2>9. R \o SubSeq(P, 1, j) = Append(Q, P[j])
    <3>1. 1 \in 1 .. Len(P) /\ j \in 1 .. Len(P)
      BY <1>1, <2>5
    <3>2. SubSeq(P, 1, j) = SubSeq(P, 1, j - 1) \o <<P[j]>>
      BY <1>2, <3>1, SubSeqRecursiveSecond
    <3>3. SubSeq(P, 1, i) \in Seq(Seq(Regions(g)))
      <4>1. \A e \in 1 .. i : P[e] \in Seq(Regions(g))
        <5>1. \A e \in 1 .. i : e \in 1 .. Len(P)
          BY <1>1, <2>5
        <5> QED BY <1>2, <5>1, ElementOfSeq
      <4> QED BY <2>5, <4>1, SubSeqProperties
    <3>4. <<P[j]>> \in Seq(Seq(Regions(g)))
      BY <2>8
    <3>5. R \o SubSeq(P, 1, j) = Q \o <<P[j]>>
      <4>1. (R \o SubSeq(P, 1, i)) \o <<P[j]>> = R \o (SubSeq(P, 1, i) \o <<P[j]>>)
        <5>1. PICK U : U = Seq(Regions(g))
          OBVIOUS
        <5>2. PICK B : B = SubSeq(P, 1, i)
          OBVIOUS
        <5>3. PICK C : C = <<P[j]>>
          OBVIOUS
        <5>4. R \in Seq(U) /\ B \in Seq(U) /\ C \in Seq(U)
          BY <1>2, <3>3, <3>4, <5>1, <5>2, <5>3
        <5>5. (R \o B) \o C = R \o (B \o C)
          BY <5>4, ConcatAssociative
        <5> QED BY <5>2, <5>3, <5>5
      <4>2. j - 1 = i
        BY <2>5
      <4> QED BY <2>6, <3>2, <4>1, <4>2
    <3>6. Q \in Seq(Seq(Regions(g)))
      BY <1>2, <2>6, <3>3, ConcatProperties
    <3> QED BY <2>8, <3>5, <3>6, AppendIsConcat
  <2>10. PICK c \in 0 .. Len(Levels(g)) - 1 : c = m + i /\ c \in Nat /\ c + 1 = m + j
    BY <1>1, <1>2, <2>5
  <2>11. Lists(g, P[j], c, c + 1)
    BY <2>8, <2>10, OneLevel
  <2>12. IntervalOK(g, F, P[j])
    <3>1. \A r \in F : Level(g)[r] < c
      BY <2>7, <2>10 DEF Settled
    <3> QED BY <2>8, <2>10, <3>1, OneLevel
  <2>13. Settled(g, Append(Q, P[j]), F \cup {}, c + 1)
    <3>1. F \cup {} = F
      OBVIOUS
    <3>2. c + 1 \in Nat /\ c < c + 1 /\ {} \in SUBSET Regions(g)
      BY <2>10
    <3>3. Settled(g, Q, F, c)
      BY <2>7, <2>10
    <3>4. IntervalOK(g, F \cup {}, P[j])
      BY <2>12, <3>1
    <3> QED BY <2>11, <3>2, <3>3, <3>4, AddInterval
  <2>14. F \cup {} = F
    OBVIOUS
  <2> QED BY <2>3, <2>9, <2>10, <2>13, <2>14
<1>4. SubSeq(P, 1, n) = P
  BY <1>1, <1>2, SubSeqFull
<1>5. n \in 0 .. n
  OBVIOUS
<1>6. Settled(g, R \o SubSeq(P, 1, n), F, m + n)
  BY <1>3, <1>5
<1> QED BY <1>1, <1>4, <1>6

SmallRun(g, P) == \A j \in 1 .. Len(P) : Small(g, P[j])

(* The regions of a run in a row.                                          *)
LEMMA RunIs ==
  ASSUME NEW g, GraphOK(g), NEW P, NEW m, NEW k, IsRun(g, P, m, k), SmallRun(g, P)
  PROVE  /\ FlattenSeq(P) \in Seq(Regions(g))
         /\ \A i \in 1 .. Len(FlattenSeq(P)) : /\ FlattenSeq(P)[i] \in Regions(g)
                                               /\ Level(g)[FlattenSeq(P)[i]] \in m .. k - 1
                                               /\ g.rounds[FlattenSeq(P)[i]] # Large
         /\ \A i, j \in 1 .. Len(FlattenSeq(P)) : i < j =>
              /\ Level(g)[FlattenSeq(P)[i]] =< Level(g)[FlattenSeq(P)[j]]
              /\ FlattenSeq(P)[i] # FlattenSeq(P)[j]
         /\ \A r \in Regions(g) : Level(g)[r] \in m .. k - 1 =>
              \E i \in 1 .. Len(FlattenSeq(P)) : FlattenSeq(P)[i] = r
<1>1. PICK f : f = Level(g) /\ f \in [Regions(g) -> Nat]
  BY LevelIs
<1>2. /\ m \in Nat /\ k \in Nat /\ m =< k /\ k =< Len(Levels(g)) /\ Len(Levels(g)) \in Nat
      /\ P \in Seq(Seq(Regions(g))) /\ Len(P) = k - m /\ Len(P) \in Nat
      /\ \A j \in 1 .. Len(P) : P[j] = Levels(g)[m + j]
  BY LevelsAre, LenProperties DEF IsRun
<1>3. PICK run : run = FlattenSeq(P)
  OBVIOUS
<1>4. run \in Seq(Regions(g))
  BY <1>2, <1>3, EndsAdd
<1>5. ASSUME NEW j \in 1 .. Len(P)
      PROVE  /\ Lists(g, P[j], m + j - 1, m + j)
             /\ \A a, b \in 1 .. Len(P[j]) : a < b => P[j][a] # P[j][b]
             /\ \A a \in 1 .. Len(P[j]) : P[j][a] \in Regions(g) /\ f[P[j][a]] = m + j - 1 /\ g.rounds[P[j][a]] # Large
  <2>1. PICK c \in 0 .. Len(Levels(g)) - 1 : c = m + j - 1 /\ c + 1 = m + j /\ c \in Nat
    BY <1>2
  <2>2. P[j] = Levels(g)[c + 1]
    BY <1>2, <2>1
  <2>3. Lists(g, P[j], c, c + 1)
    BY <2>1, <2>2, OneLevel
  <2>4. IntervalOK(g, {}, P[j])
    BY <2>1, <2>2, OneLevel
  <2>5. \A a \in 1 .. Len(P[j]) : P[j][a] \in Regions(g)
    BY <2>3, ElementOfSeq DEF Lists
  <2>6. \A n \in Nat : n \in c .. c + 1 - 1 => n = c
    BY <2>1
  <2>7. \A a \in 1 .. Len(P[j]) : f[P[j][a]] = c
    BY <1>1, <2>3, <2>5, <2>6 DEF Lists
  <2>8. \A a \in 1 .. Len(P[j]) : g.rounds[P[j][a]] # Large
    <3>1. DOMAIN P[j] = 1 .. Len(P[j])
      BY <2>3, LenProperties DEF Lists
    <3> QED BY <3>1 DEF SmallRun, Small
  <2>9. \A a, b \in 1 .. Len(P[j]) : a < b => P[j][a] # P[j][b]
    BY <2>4 DEF IntervalOK, PairOK
  <2> QED BY <2>1, <2>3, <2>5, <2>7, <2>8, <2>9
<1>6. ASSUME NEW i \in 1 .. Len(run)
      PROVE  \E a \in 1 .. Len(P) : \E b \in 1 .. Len(P[a]) : i = Ends(P, a - 1) + b /\ run[i] = P[a][b]
  <2>1. PICK a \in 1 .. Len(P) : \E b \in 1 .. Len(P[a]) : i = Ends(P, a - 1) + b
    BY <1>2, <1>3, FlatPlace
  <2>2. PICK b \in 1 .. Len(P[a]) : i = Ends(P, a - 1) + b
    BY <2>1
  <2>3. FlattenSeq(P)[Ends(P, a - 1) + b] = P[a][b]
    BY <1>2, FlatPlaces
  <2> QED BY <1>3, <2>2, <2>3
<1>7. ASSUME NEW i \in 1 .. Len(run)
      PROVE  run[i] \in Regions(g) /\ f[run[i]] \in m .. k - 1 /\ g.rounds[run[i]] # Large
  <2>1. PICK a \in 1 .. Len(P) : \E b \in 1 .. Len(P[a]) : i = Ends(P, a - 1) + b /\ run[i] = P[a][b]
    BY <1>6
  <2>2. PICK b \in 1 .. Len(P[a]) : run[i] = P[a][b]
    BY <2>1
  <2>3. P[a][b] \in Regions(g) /\ f[P[a][b]] = m + a - 1 /\ g.rounds[P[a][b]] # Large
    BY <1>5
  <2>4. m + a - 1 \in m .. k - 1
    BY <1>2
  <2> QED BY <2>2, <2>3, <2>4
<1>8. ASSUME NEW i \in 1 .. Len(run), NEW j \in 1 .. Len(run), i < j
      PROVE  f[run[i]] =< f[run[j]] /\ run[i] # run[j]
  <2>1. PICK a \in 1 .. Len(P) : \E b \in 1 .. Len(P[a]) : i = Ends(P, a - 1) + b /\ run[i] = P[a][b]
    BY <1>6
  <2>2. PICK b \in 1 .. Len(P[a]) : i = Ends(P, a - 1) + b /\ run[i] = P[a][b]
    BY <2>1
  <2>3. PICK c \in 1 .. Len(P) : \E d \in 1 .. Len(P[c]) : j = Ends(P, c - 1) + d /\ run[j] = P[c][d]
    BY <1>6
  <2>4. PICK d \in 1 .. Len(P[c]) : j = Ends(P, c - 1) + d /\ run[j] = P[c][d]
    BY <2>3
  <2>5. Ends(P, a - 1) + b < Ends(P, c - 1) + d
    BY <1>8, <2>2, <2>4
  <2>6. a < c \/ (a = c /\ b < d)
    BY <1>2, <2>5, FlatOrder
  <2>7. f[run[i]] = m + a - 1 /\ f[run[j]] = m + c - 1
    BY <1>5, <2>2, <2>4
  <2>8. CASE a < c
    <3>1. f[run[i]] < f[run[j]] /\ f[run[i]] =< f[run[j]] /\ f[run[i]] # f[run[j]]
      BY <1>2, <2>7, <2>8
    <3> QED BY <3>1
  <2>9. CASE a = c /\ b < d
    <3>1. P[a][b] # P[a][d]
      BY <1>5, <2>9
    <3> QED BY <1>2, <2>2, <2>4, <2>7, <2>9, <3>1
  <2> QED BY <2>6, <2>8, <2>9
<1>9. ASSUME NEW r \in Regions(g), f[r] \in m .. k - 1
      PROVE  \E i \in 1 .. Len(run) : run[i] = r
  <2>1. PICK j \in 1 .. Len(P) : f[r] = m + j - 1
    <3>1. f[r] - m + 1 \in 1 .. Len(P) /\ f[r] = m + (f[r] - m + 1) - 1
      BY <1>2, <1>9
    <3> QED BY <3>1
  <2>2. f[r] \in m + j - 1 .. m + j - 1
    BY <1>2, <2>1
  <2>3. \E i \in 1 .. Len(P[j]) : P[j][i] = r
    BY <1>1, <1>5, <2>2 DEF Lists
  <2>4. PICK i \in 1 .. Len(P[j]) : P[j][i] = r
    BY <2>3
  <2>5. Ends(P, j - 1) + i \in 1 .. Len(run) /\ run[Ends(P, j - 1) + i] = P[j][i]
    BY <1>2, <1>3, FlatPlaces
  <2> QED BY <2>4, <2>5
<1> QED BY <1>1, <1>3, <1>4, <1>7, <1>8, <1>9

(* A run that moves to the front of the interval behind it.                *)
LEMMA MergeSettles ==
  ASSUME NEW g, GraphOK(g), NEW R, NEW F, NEW m, Settled(g, R, F, m),
         NEW P, NEW k, IsRun(g, P, m, k), SmallRun(g, P), k < Len(Levels(g)),
         ~ Conflict(g, FlattenSeq(P), Levels(g)[k + 1])
  PROVE  Settled(g, Append(R, FlattenSeq(P) \o Levels(g)[k + 1]), F \cup ToSet(FlattenSeq(P)), k + 1)
<1>1. PICK f : f = Level(g) /\ f \in [Regions(g) -> Nat]
  BY LevelIs
<1>2. /\ m \in Nat /\ k \in Nat /\ m =< k /\ Len(Levels(g)) \in Nat /\ k \in 0 .. Len(Levels(g)) - 1
  BY LevelsAre DEF IsRun
<1>3. PICK run : run = FlattenSeq(P)
  OBVIOUS
<1>4. PICK x : x = Levels(g)[k + 1]
  OBVIOUS
<1>5. /\ run \in Seq(Regions(g)) /\ Len(run) \in Nat
      /\ \A i \in 1 .. Len(run) : run[i] \in Regions(g) /\ f[run[i]] \in m .. k - 1 /\ g.rounds[run[i]] # Large
      /\ \A i, j \in 1 .. Len(run) : i < j => f[run[i]] =< f[run[j]] /\ run[i] # run[j]
      /\ \A r \in Regions(g) : f[r] \in m .. k - 1 => \E i \in 1 .. Len(run) : run[i] = r
  BY <1>1, <1>3, RunIs, LenProperties
<1>6. Lists(g, x, k, k + 1)
  BY <1>2, <1>4, OneLevel
<1>7. /\ x \in Seq(Regions(g)) /\ Len(x) \in Nat /\ x # <<>>
      /\ \A i \in 1 .. Len(x) : x[i] \in Regions(g) /\ f[x[i]] = k
      /\ \A r \in Regions(g) : f[r] = k => \E i \in 1 .. Len(x) : x[i] = r
  <2>1. x \in Seq(Regions(g)) /\ Len(x) \in Nat /\ x # <<>>
    BY <1>6, LenProperties DEF Lists
  <2>2. \A n \in Nat : n \in k .. (k + 1) - 1 <=> n = k
    BY <1>2
  <2>3. \A i \in 1 .. Len(x) : x[i] \in Regions(g)
    BY <2>1, ElementOfSeq
  <2>4. \A i \in 1 .. Len(x) : f[x[i]] \in Nat /\ f[x[i]] \in k .. (k + 1) - 1
    <3>1. \A i \in 1 .. Len(x) : Level(g)[x[i]] \in k .. (k + 1) - 1
      BY <1>6, Zenon DEF Lists
    <3> QED BY <1>1, <2>3, <3>1
  <2>5. \A i \in 1 .. Len(x) : f[x[i]] = k
    BY <2>2, <2>4
  <2>6. \A r \in Regions(g) : f[r] \in k .. (k + 1) - 1 => \E i \in 1 .. Len(x) : x[i] = r
    BY <1>1, <1>6, Zenon DEF Lists
  <2>7. \A r \in Regions(g) : f[r] = k => \E i \in 1 .. Len(x) : x[i] = r
    BY <1>1, <2>2, <2>6
  <2> QED BY <2>1, <2>3, <2>5, <2>7
<1>8. PICK y : y = run \o x
  OBVIOUS
<1>9. /\ y \in Seq(Regions(g)) /\ Len(y) = Len(run) + Len(x)
      /\ \A i \in 1 .. Len(run) + Len(x) : y[i] = IF i =< Len(run) THEN run[i] ELSE x[i - Len(run)]
  BY <1>5, <1>7, <1>8, ConcatProperties
<1>10. ASSUME NEW i \in 1 .. Len(y)
       PROVE  \/ i \in 1 .. Len(run) /\ y[i] = run[i]
              \/ i - Len(run) \in 1 .. Len(x) /\ y[i] = x[i - Len(run)] /\ i > Len(run)
  BY <1>5, <1>7, <1>9
<1>11. ASSUME NEW i \in 1 .. Len(run) PROVE i \in 1 .. Len(y) /\ y[i] = run[i]
  BY <1>5, <1>7, <1>9
<1>12. ASSUME NEW i \in 1 .. Len(x) PROVE Len(run) + i \in 1 .. Len(y) /\ y[Len(run) + i] = x[i]
  BY <1>5, <1>7, <1>9
<1>13. PICK G : G = ToSet(run)
  OBVIOUS
<1>14. G \in SUBSET Regions(g) /\ \A r \in Regions(g) : r \in G <=> \E i \in 1 .. Len(run) : run[i] = r
  <2>1. DOMAIN run = 1 .. Len(run)
    BY <1>5, LenProperties
  <2> QED BY <1>5, <1>13, <2>1 DEF ToSet
<1>15. \A r \in G : f[r] \in m .. k - 1 /\ g.rounds[r] # Large
  BY <1>5, <1>14
<1>16. \A r \in Regions(g) : f[r] = k => r \notin F \cup G
  <2>1. \A r \in F : r \in Regions(g) /\ f[r] < m
    BY <1>1 DEF Settled
  <2>2. \A r \in Regions(g) : f[r] \in Nat
    BY <1>1
  <2>3. SUFFICES ASSUME NEW r \in Regions(g), f[r] = k, r \in F \cup G PROVE FALSE
    OBVIOUS
  <2>4. CASE r \in F
    BY <1>2, <2>1, <2>3, <2>4
  <2>5. CASE r \in G
    BY <1>2, <1>15, <2>3, <2>5
  <2> QED BY <2>3, <2>4, <2>5
<1>17. IntervalOK(g, F \cup G, y)
  <2> SUFFICES ASSUME NEW i \in 1 .. Len(y), NEW j \in 1 .. Len(y), i < j PROVE PairOK(g, F \cup G, y, i, j)
    BY DEF IntervalOK
  <2>1. CASE j \in 1 .. Len(run)
    <3>1. i \in 1 .. Len(run)
      BY <1>5, <2>1
    <3>2. y[i] = run[i] /\ y[j] = run[j]
      BY <1>11, <2>1, <3>1
    <3>3. f[run[i]] =< f[run[j]] /\ run[i] # run[j]
      BY <1>5, <2>1, <3>1
    <3>4. run[i] \in G /\ run[j] \in G
      BY <1>5, <1>14, <2>1, <3>1
    <3> QED BY <1>1, <3>2, <3>3, <3>4 DEF PairOK
  <2>2. CASE i \in 1 .. Len(run) /\ j - Len(run) \in 1 .. Len(x) /\ y[j] = x[j - Len(run)]
    <3>1. y[i] = run[i] /\ run[i] \in Regions(g) /\ f[run[i]] \in m .. k - 1 /\ run[i] \in G
      BY <1>5, <1>11, <1>14, <2>2
    <3>2. y[j] \in Regions(g) /\ f[y[j]] = k
      BY <1>7, <2>2
    <3>3. f[y[i]] =< f[y[j]] /\ f[y[i]] # f[y[j]]
      BY <1>2, <3>1, <3>2
    <3>4. y[j] \notin F \cup G
      BY <1>16, <3>2
    <3>5. Storage(g, y[j]) \notin StorageUsed(g, {y[i]})
      <4>1. y[j] \in ToSet(x)
        <5>1. DOMAIN x = 1 .. Len(x)
          BY <1>7, LenProperties
        <5> QED BY <2>2, <5>1 DEF ToSet
      <4>2. Storage(g, y[j]) \in StorageOf(g, ToSet(x))
        BY <4>1 DEF StorageOf
      <4>3. Storage(g, y[j]) \notin StorageUsed(g, G)
        BY <1>3, <1>4, <1>13, <4>2 DEF Conflict
      <4>4. StorageUsed(g, {y[i]}) \subseteq StorageUsed(g, G)
        BY <3>1 DEF StorageUsed, StorageOf
      <4> QED BY <4>3, <4>4
    <3> QED BY <1>1, <3>1, <3>3, <3>4, <3>5 DEF PairOK
  <2>3. CASE /\ i - Len(run) \in 1 .. Len(x) /\ y[i] = x[i - Len(run)]
             /\ j - Len(run) \in 1 .. Len(x) /\ y[j] = x[j - Len(run)]
    <3>1. y[i] \in Regions(g) /\ f[y[i]] = k /\ y[j] \in Regions(g) /\ f[y[j]] = k
      BY <1>7, <2>3
    <3>2. y[i] \notin F \cup G /\ y[j] \notin F \cup G
      BY <1>16, <3>1
    <3>3. y[i] # y[j]
      <4>1. IntervalOK(g, {}, x)
        BY <1>2, <1>4, OneLevel
      <4>2. i - Len(run) < j - Len(run)
        BY <1>5
      <4> QED BY <2>3, <4>1, <4>2 DEF IntervalOK, PairOK
    <3> QED BY <1>1, <1>2, <3>1, <3>2, <3>3 DEF PairOK
  <2> QED BY <1>5, <1>10, <2>1, <2>2, <2>3
<1>18. Lists(g, y, m, k + 1)
  <2>1. y # <<>>
    <3>1. Len(x) # 0
      BY <1>7, EmptySeq
    <3>2. Len(y) # 0
      BY <1>5, <1>7, <1>9, <3>1
    <3> QED BY <3>2, EmptySeq
  <2>2. \A i \in 1 .. Len(y) : f[y[i]] \in m .. (k + 1) - 1
    <3> SUFFICES ASSUME NEW i \in 1 .. Len(y) PROVE f[y[i]] \in m .. (k + 1) - 1
      OBVIOUS
    <3>1. f[y[i]] \in m .. k - 1 \/ f[y[i]] = k
      <4>1. CASE i \in 1 .. Len(run) /\ y[i] = run[i]
        BY <1>5, <4>1
      <4>2. CASE i - Len(run) \in 1 .. Len(x) /\ y[i] = x[i - Len(run)]
        BY <1>7, <4>2
      <4> QED BY <1>10, <4>1, <4>2
    <3> QED BY <1>2, <3>1
  <2>3. ASSUME NEW r \in Regions(g), f[r] \in m .. (k + 1) - 1
        PROVE  \E i \in 1 .. Len(y) : y[i] = r
    <3>1. f[r] \in m .. k - 1 \/ f[r] = k
      BY <1>2, <2>3
    <3>2. CASE f[r] \in m .. k - 1
      BY <1>5, <1>11, <3>2
    <3>3. CASE f[r] = k
      BY <1>7, <1>12, <3>3
    <3> QED BY <3>1, <3>2, <3>3
  <2>4. \A i \in 1 .. Len(y) : Level(g)[y[i]] \in m .. (k + 1) - 1
    BY <1>1, <2>2
  <2>5. \A r \in Regions(g) : Level(g)[r] \in m .. (k + 1) - 1 => \E i \in 1 .. Len(y) : y[i] = r
    BY <1>1, <2>3
  <2>6. y \in Seq(Regions(g))
    BY <1>9
  <2> QED BY <2>1, <2>4, <2>5, <2>6, Zenon DEF Lists
<1>19. Settled(g, Append(R, y), F \cup G, k + 1)
  <2>1. PICK l \in Nat : l = k + 1 /\ m < l
    BY <1>2
  <2>2. \A r \in G : Level(g)[r] \in m .. l - 1 /\ g.rounds[r] # Large
    <3>1. \A n \in m .. k - 1 : n \in m .. l - 1
      BY <1>2, <2>1
    <3> QED BY <1>1, <1>15, <3>1
  <2>3. Lists(g, y, m, l)
    BY <1>18, <2>1
  <2>4. Settled(g, Append(R, y), F \cup G, l)
    BY <1>14, <1>17, <2>1, <2>2, <2>3, AddInterval
  <2> QED BY <2>1, <2>4
<1> QED BY <1>3, <1>4, <1>8, <1>13, <1>19

(* The run is empty at first, and grows by small intervals.                *)
LEMMA EmptyRun ==
  ASSUME NEW g, GraphOK(g), NEW k \in 0 .. Len(Levels(g))
  PROVE  IsRun(g, <<>>, k, k) /\ SmallRun(g, <<>>)
<1>1. Len(Levels(g)) \in Nat /\ k \in Nat /\ k =< Len(Levels(g)) /\ k - k = 0
  BY LevelsAre
<1>2. <<>> \in Seq(Seq(Regions(g))) /\ Len(<<>>) = 0
  BY EmptySeq
<1> QED BY <1>1, <1>2 DEF IsRun, SmallRun

LEMMA RunGrows ==
  ASSUME NEW g, GraphOK(g), NEW P, NEW m, NEW k, IsRun(g, P, m, k), SmallRun(g, P),
         k < Len(Levels(g)), Small(g, Levels(g)[k + 1])
  PROVE  IsRun(g, Append(P, Levels(g)[k + 1]), m, k + 1) /\ SmallRun(g, Append(P, Levels(g)[k + 1]))
<1>1. PICK x : x = Levels(g)[k + 1]
  OBVIOUS
<1>2. /\ m \in Nat /\ k \in Nat /\ m =< k /\ Len(Levels(g)) \in Nat
      /\ P \in Seq(Seq(Regions(g))) /\ Len(P) = k - m /\ Len(P) \in Nat
      /\ \A j \in 1 .. Len(P) : P[j] = Levels(g)[m + j]
  BY LevelsAre, LenProperties DEF IsRun
<1>3. x \in Seq(Regions(g))
  <2>1. k + 1 \in 1 .. Len(Levels(g))
    BY <1>2
  <2> QED BY <1>1, <2>1, LevelsAre, ElementOfSeq
<1>4. PICK Q : Q = Append(P, x)
  OBVIOUS
<1>5. /\ Q \in Seq(Seq(Regions(g))) /\ Len(Q) = Len(P) + 1
      /\ \A j \in 1 .. Len(P) : Q[j] = P[j]
      /\ Q[Len(P) + 1] = x
  BY <1>2, <1>3, <1>4, AppendProperties
<1>6. \A j \in 1 .. Len(Q) : j \in 1 .. Len(P) \/ j = Len(P) + 1
  BY <1>2, <1>5
<1>7. \A j \in 1 .. Len(Q) : Q[j] = Levels(g)[m + j]
  <2>1. m + (Len(P) + 1) = k + 1
    BY <1>2
  <2> QED BY <1>1, <1>2, <1>5, <1>6, <2>1
<1>8. SmallRun(g, Q)
  BY <1>1, <1>5, <1>6 DEF SmallRun
<1>9. m =< k + 1 /\ k + 1 \in Nat /\ k + 1 =< Len(Levels(g)) /\ Len(Q) = (k + 1) - m
  BY <1>2, <1>5
<1>10. IsRun(g, Q, m, k + 1)
  BY <1>2, <1>5, <1>7, <1>9 DEF IsRun
<1> QED BY <1>1, <1>4, <1>8, <1>10

(* What holds of the loop's state after k intervals.                       *)
FoldInv(g, k, s) ==
  \E R, F, P, C, m : /\ s = Fold(R, F, P, C)
                     /\ Settled(g, R, F, m) /\ IsRun(g, P, m, k) /\ SmallRun(g, P)

(* Every step of the loop keeps this.                                      *)
LEMMA FoldStarts ==
  ASSUME NEW g, GraphOK(g)
  PROVE  FoldInv(g, 0, StartFold)
<1>1. StartFold = Fold(<<>>, {}, <<>>, 0)
  BY DEF StartFold, Fold
<1>2. IsRun(g, <<>>, 0, 0) /\ SmallRun(g, <<>>)
  <2>1. 0 \in 0 .. Len(Levels(g))
    BY LevelsAre
  <2> QED BY <2>1, EmptyRun
<1>3. Settled(g, <<>>, {}, 0)
  <2>1. <<>> \in Seq(Seq(Regions(g))) /\ Len(<<>>) = 0
    BY EmptySeq
  <2>2. \A r \in Regions(g) : ~ (Level(g)[r] < 0)
    BY LevelIs
  <2> QED BY <2>1, <2>2 DEF Settled
<1> QED BY <1>1, <1>2, <1>3 DEF FoldInv

LEMMA FoldStepKeeps ==
  ASSUME NEW g, GraphOK(g), NEW k \in 0 .. Len(Levels(g)) - 1, NEW s, FoldInv(g, k, s)
  PROVE  FoldInv(g, k + 1, FoldInterval(g, s, Levels(g)[k + 1]))
<1>1. PICK R, F, P, C, m : s = Fold(R, F, P, C) /\ Settled(g, R, F, m) /\ IsRun(g, P, m, k) /\ SmallRun(g, P)
  BY DEF FoldInv
<1>2. PICK x : x = Levels(g)[k + 1]
  OBVIOUS
<1>3. PICK n : n = FoldInterval(g, s, x)
  OBVIOUS
<1>4. k \in Nat /\ k < Len(Levels(g)) /\ k \in 0 .. Len(Levels(g)) /\ k + 1 \in 0 .. Len(Levels(g)) /\ m \in Nat
  BY <1>1, LevelsAre DEF IsRun
<1>5. Settled(g, R \o P, F, k)
  BY <1>1, FlushSettles
<1>6. IsRun(g, <<>>, k, k) /\ SmallRun(g, <<>>) /\ IsRun(g, <<>>, k + 1, k + 1)
  BY <1>4, EmptyRun
<1>7. \/ Small(g, x) /\ \E c : n = Fold(R, F, Append(P, x), c)
      \/ Small(g, x) /\ \E c : n = Fold(R \o P, F, Append(<<>>, x), c)
      \/ \E c : n = Fold(Append(R \o P, x), F, <<>>, c)
      \/ /\ ~ Conflict(g, FlattenSeq(P), x)
         /\ \E c : n = Fold(Append(R, FlattenSeq(P) \o x), F \cup ToSet(FlattenSeq(P)), <<>>, c)
  <2>1. n = FoldInterval(g, Fold(R, F, P, C), x)
    BY <1>1, <1>3
  <2>2. FoldStep(g, R, F, P, x, n)
    BY <2>1, FoldSteps
  <2> QED BY <2>2, Zenon DEF FoldStep
<1>8. CASE Small(g, x) /\ \E c : n = Fold(R, F, Append(P, x), c)
  <2>1. IsRun(g, Append(P, x), m, k + 1) /\ SmallRun(g, Append(P, x))
    BY <1>1, <1>2, <1>4, <1>8, RunGrows
  <2>2. FoldInv(g, k + 1, n)
    BY <1>1, <1>8, <2>1, Zenon DEF FoldInv
  <2> QED BY <1>2, <1>3, <2>2
<1>9. CASE Small(g, x) /\ \E c : n = Fold(R \o P, F, Append(<<>>, x), c)
  <2>1. IsRun(g, Append(<<>>, x), k, k + 1) /\ SmallRun(g, Append(<<>>, x))
    BY <1>2, <1>4, <1>6, <1>9, RunGrows
  <2>2. FoldInv(g, k + 1, n)
    BY <1>5, <1>9, <2>1, Zenon DEF FoldInv
  <2> QED BY <1>2, <1>3, <2>2
<1>10. CASE \E c : n = Fold(Append(R \o P, x), F, <<>>, c)
  <2>1. Lists(g, x, k, k + 1) /\ IntervalOK(g, F, x)
    <3>1. \A r \in F : Level(g)[r] < k
      BY <1>5 DEF Settled
    <3> QED BY <1>2, <3>1, OneLevel
  <2>2. PICK l \in Nat : l = k + 1 /\ k < l
    BY <1>4
  <2>3. F \cup {} = F /\ {} \in SUBSET Regions(g)
    OBVIOUS
  <2>4. Settled(g, Append(R \o P, x), F \cup {}, l)
    <3>1. IntervalOK(g, F \cup {}, x) /\ Lists(g, x, k, l)
      BY <2>1, <2>2, <2>3
    <3> QED BY <1>5, <2>2, <2>3, <3>1, AddInterval
  <2>5. Settled(g, Append(R \o P, x), F, k + 1)
    BY <2>2, <2>3, <2>4
  <2>6. FoldInv(g, k + 1, n)
    BY <1>6, <1>10, <2>5, Zenon DEF FoldInv
  <2> QED BY <1>2, <1>3, <2>6
<1>11. CASE /\ ~ Conflict(g, FlattenSeq(P), x)
            /\ \E c : n = Fold(Append(R, FlattenSeq(P) \o x), F \cup ToSet(FlattenSeq(P)), <<>>, c)
  <2>1. Settled(g, Append(R, FlattenSeq(P) \o x), F \cup ToSet(FlattenSeq(P)), k + 1)
    BY <1>1, <1>2, <1>4, <1>11, MergeSettles
  <2>2. FoldInv(g, k + 1, n)
    BY <1>6, <1>11, <2>1, Zenon DEF FoldInv
  <2> QED BY <1>2, <1>3, <2>2
<1> QED BY <1>7, <1>8, <1>9, <1>10, <1>11

(* What the loop settles.                                                  *)
LEMMA FoldedIs ==
  ASSUME NEW g, GraphOK(g)
  PROVE  Settled(g, Folded(g).result, Folded(g).folded, Len(Levels(g)))
<1>1. PICK n \in Nat : n = Len(Levels(g))
  BY LevelsAre
<1>2. PICK f : f = Folds(g, Levels(g))
  OBVIOUS
<1>3. f[0] = StartFold /\ \A k \in 1 .. n : f[k] = FoldInterval(g, f[k - 1], Levels(g)[k])
  BY <1>1, <1>2, FoldsAre
<1> DEFINE T == {k \in 0 .. n : ~ FoldInv(g, k, f[k])}
<1>4. T = {}
  <2>1. SUFFICES ASSUME T # {} PROVE FALSE
    OBVIOUS
  <2>2. PICK k \in T : \A j \in T : k =< j
    <3>1. T \in SUBSET Nat
      OBVIOUS
    <3> HIDE DEF T
    <3> QED BY <2>1, <3>1, LeastNumber
  <2>3. k \in 0 .. n /\ ~ FoldInv(g, k, f[k])
    OBVIOUS
  <2>4. k # 0
    BY <1>3, <2>3, FoldStarts
  <2>5. PICK j \in 0 .. n - 1 : j = k - 1 /\ k = j + 1 /\ ~ (k =< j) /\ j \in 0 .. n /\ k \in 1 .. n
    BY <2>3, <2>4
  <2>6. FoldInv(g, j, f[j])
    BY <2>2, <2>5
  <2>7. FoldInv(g, j + 1, FoldInterval(g, f[j], Levels(g)[j + 1]))
    BY <1>1, <2>5, <2>6, FoldStepKeeps
  <2>8. f[k] = FoldInterval(g, f[j], Levels(g)[j + 1])
    BY <1>3, <2>5
  <2> QED BY <2>3, <2>5, <2>7, <2>8
<1>5. FoldInv(g, n, f[n])
  <2>1. n \in 0 .. n
    OBVIOUS
  <2> QED BY <1>4, <2>1
<1>6. PICK R, F, P, C, m : f[n] = Fold(R, F, P, C) /\ Settled(g, R, F, m) /\ IsRun(g, P, m, n) /\ SmallRun(g, P)
  BY <1>5 DEF FoldInv
<1>7. Settled(g, R \o P, F, n)
  BY <1>6, FlushSettles
<1>8. Folded(g) = Flush(Fold(R, F, P, C))
  BY <1>1, <1>2, <1>6 DEF Folded
<1>9. Flush(Fold(R, F, P, C)).result = R \o P /\ Flush(Fold(R, F, P, C)).folded = F
  <2>1. PICK h : h = R \o P
    OBVIOUS
  <2>2. PICK s : s = Fold(R, F, P, C)
    OBVIOUS
  <2>3. s.result \o s.pending = h
    BY <2>1, <2>2, Zenon DEF Fold
  <2>4. Flush(s) = [s EXCEPT !.result = h, !.pending = <<>>, !.cost = 0]
    BY <2>3, Zenon DEF Flush
  <2>5. Flush(s).result = h /\ Flush(s).folded = F
    BY <2>2, <2>4 DEF Fold
  <2> QED BY <2>1, <2>2, <2>5
<1> QED BY <1>1, <1>7, <1>8, <1>9

-----------------------------------------------------------------------------
(* Schedules. *)

(* The regions in an order, with barriers between them.                    *)
Barred(s) ==
  /\ s.order \in Seq(Regions(s.graph))
  /\ Len(s.order) \in Nat \ {0}
  /\ s.barriers \subseteq 1 .. Len(s.order) - 1

(* Where an interval ends and where it starts.                             *)
LEMMA EndOfInterval ==
  ASSUME NEW s, Barred(s), NEW i \in 1 .. Len(s.order)
  PROVE  /\ IntervalEnd(s, i) \in s.barriers \cup {Len(s.order)}
         /\ IntervalEnd(s, i) \in i .. Len(s.order)
         /\ \A b \in s.barriers : i =< b => IntervalEnd(s, i) =< b
<1> DEFINE S == {x \in s.barriers \cup {Len(s.order)} : x >= i}
<1>1. PICK n \in Nat \ {0} : n = Len(s.order)
  BY DEF Barred
<1>2. S \subseteq 1 .. n /\ n \in S /\ s.barriers \subseteq 1 .. n - 1
  BY <1>1 DEF Barred
<1>3. S \in SUBSET Int /\ S # {} /\ IsFiniteSet(S)
  <2>1. IsFiniteSet(1 .. n) /\ 1 .. n \in SUBSET Int
    BY FS_Interval
  <2> HIDE DEF S
  <2> QED BY <1>2, <2>1, FS_Subset
<1>4. Min(S) \in S /\ \A y \in S : Min(S) =< y
  <2> HIDE DEF S
  <2> QED BY <1>3, MinIsSmallest
<1>5. IntervalEnd(s, i) = Min(S)
  BY DEF IntervalEnd
<1>6. PICK m \in S : m = Min(S) /\ \A y \in S : m =< y
  BY <1>4
<1>7. m \in s.barriers \cup {n} /\ m >= i /\ m \in 1 .. n
  BY <1>1, <1>2
<1>8. \A b \in s.barriers : i =< b => b \in S
  BY <1>1, <1>2
<1> HIDE DEF S
<1>9. m \in i .. n
  BY <1>7
<1>10. \A b \in s.barriers : i =< b => m =< b
  BY <1>6, <1>8
<1> QED BY <1>1, <1>5, <1>6, <1>7, <1>9, <1>10

LEMMA StartOfInterval ==
  ASSUME NEW s, Barred(s), NEW i \in 1 .. Len(s.order)
  PROVE  /\ IntervalStart(s, i) \in 1 .. i
         /\ IntervalStart(s, i) = 1 \/ \E b \in s.barriers : b < i /\ IntervalStart(s, i) = b + 1
         /\ \A b \in s.barriers : b < i => b < IntervalStart(s, i)
<1> DEFINE S == {x + 1 : x \in {b \in s.barriers : b < i}} \cup {1}
<1>1. PICK n \in Nat \ {0} : n = Len(s.order)
  BY DEF Barred
<1>2. S \subseteq 1 .. i /\ 1 \in S /\ s.barriers \subseteq 1 .. n - 1 /\ i \in Nat
  BY <1>1 DEF Barred
<1>3. S \in SUBSET Int /\ S # {} /\ IsFiniteSet(S)
  <2>1. IsFiniteSet(1 .. i) /\ 1 .. i \in SUBSET Int
    BY <1>2, FS_Interval
  <2> HIDE DEF S
  <2> QED BY <1>2, <2>1, FS_Subset
<1>4. Max(S) \in S /\ \A y \in S : Max(S) >= y
  <2> HIDE DEF S
  <2> QED BY <1>3, MaxIsLargest
<1>5. IntervalStart(s, i) = Max(S)
  BY DEF IntervalStart
<1>6. PICK m \in S : m = Max(S) /\ \A y \in S : m >= y
  BY <1>4
<1>7. m \in 1 .. i /\ (m = 1 \/ \E b \in s.barriers : b < i /\ m = b + 1)
  BY <1>2
<1>8. \A b \in s.barriers : b < i => b + 1 \in S /\ b \in Nat
  BY <1>2
<1>9. \A b \in s.barriers : b < i => b < m
  <2> SUFFICES ASSUME NEW b \in s.barriers, b < i PROVE b < m
    OBVIOUS
  <2>1. m >= b + 1 /\ b \in Nat /\ m \in Nat
    BY <1>6, <1>7, <1>8
  <2> QED BY <2>1
<1> HIDE DEF S
<1> QED BY <1>5, <1>6, <1>7, <1>9

(* What make_phase_schedule promises: every region has one phase, levels   *)
(* ascend, a barrier stands wherever PairOK does not hold, and there are   *)
(* fewer barriers than levels.                                             *)
SameInterval(s, i, j) == \A b \in s.barriers : ~ (i =< b /\ b < j)

Scheduled(s) ==
  LET g == s.graph
  IN  /\ Barred(s) /\ IsInjective(s.order) /\ ToSet(s.order) = Regions(g)
      /\ s.recompute \in SUBSET Regions(g)
      /\ \A r \in s.recompute : g.rounds[r] # Large
      /\ Cardinality(s.barriers) < Len(Levels(g))
      /\ \A i, j \in 1 .. Len(s.order) : i < j =>
           /\ Level(g)[s.order[i]] =< Level(g)[s.order[j]]
           /\ SameInterval(s, i, j) => PairOK(g, s.recompute, s.order, i, j)

(* Intervals that settle all levels make such a schedule.                  *)
LEMMA SettledSchedule ==
  ASSUME NEW g, GraphOK(g), NEW R, NEW F, Settled(g, R, F, Len(Levels(g))),
         NEW s, s.graph = g, s.order = FlattenSeq(R), s.recompute = F,
         s.barriers = {Ends(R, k) : k \in 1 .. Len(R) - 1}
  PROVE  Scheduled(s)
<1>1. PICK f : f = Level(g) /\ f \in [Regions(g) -> Nat]
  BY LevelIs
<1>2. /\ R \in Seq(Seq(Regions(g))) /\ Len(R) \in Nat /\ Len(R) =< Len(Levels(g)) /\ Len(Levels(g)) \in Nat \ {0}
      /\ \A a \in 1 .. Len(R) : R[a] \in Seq(Regions(g)) /\ Len(R[a]) \in Nat /\ Len(R[a]) # 0
  <2>1. R \in Seq(Seq(Regions(g))) /\ Len(R) \in Nat /\ Len(R) =< Len(Levels(g)) /\ Len(Levels(g)) \in Nat \ {0}
    BY LevelsAre, LenProperties DEF Settled
  <2>2. \A a \in 1 .. Len(R) : R[a] \in Seq(Regions(g)) /\ R[a] # <<>>
    BY <2>1, ElementOfSeq DEF Settled
  <2> QED BY <2>1, <2>2, EmptySeq, LenProperties
<1>3. PICK o : o = FlattenSeq(R) /\ o \in Seq(Regions(g)) /\ Len(o) \in Nat
  BY <1>2, EndsAdd, LenProperties
<1>4. /\ Ends(R, 0) = 0 /\ Ends(R, Len(R)) = Len(o)
      /\ \A k \in 0 .. Len(R) : Ends(R, k) \in Nat
      /\ \A k \in 1 .. Len(R) : Ends(R, k) = Ends(R, k - 1) + Len(R[k])
  BY <1>2, <1>3, EndsAdd
<1>5. ASSUME NEW i \in 1 .. Len(o)
      PROVE  \E a \in 1 .. Len(R) : \E b \in 1 .. Len(R[a]) : i = Ends(R, a - 1) + b /\ o[i] = R[a][b]
  <2>1. PICK a \in 1 .. Len(R) : \E b \in 1 .. Len(R[a]) : i = Ends(R, a - 1) + b
    BY <1>2, <1>3, FlatPlace
  <2>2. PICK b \in 1 .. Len(R[a]) : i = Ends(R, a - 1) + b
    BY <2>1
  <2>3. FlattenSeq(R)[Ends(R, a - 1) + b] = R[a][b]
    BY <1>2, FlatPlaces
  <2> QED BY <1>3, <2>2, <2>3
<1>6. \A a \in 1 .. Len(R) : \A b \in 1 .. Len(R[a]) :
        Ends(R, a - 1) + b \in 1 .. Len(o) /\ o[Ends(R, a - 1) + b] = R[a][b]
  BY <1>2, <1>3, FlatPlaces
<1>7. ASSUME NEW r \in Regions(g) PROVE \E i \in 1 .. Len(o) : o[i] = r
  <2>1. PICK a \in 1 .. Len(R) : \E b \in 1 .. Len(R[a]) : R[a][b] = r
    BY <1>2, LevelsAre DEF Settled
  <2> QED BY <1>6, <2>1
<1>8. Len(o) # 0 /\ Len(R) # 0
  <2>1. 1 \in Regions(g)
    BY DEF Regions, GraphOK
  <2>2. PICK i \in 1 .. Len(o) : o[i] = 1
    BY <1>7, <2>1
  <2>3. \E a \in 1 .. Len(R) : TRUE
    BY <1>5
  <2> QED BY <1>2, <1>3, <2>2, <2>3
<1>9. \A k \in 1 .. Len(R) - 1 : Ends(R, k) \in 1 .. Len(o) - 1
  <2> SUFFICES ASSUME NEW k \in 1 .. Len(R) - 1 PROVE Ends(R, k) \in 1 .. Len(o) - 1
    OBVIOUS
  <2>1. k \in 1 .. Len(R) /\ k - 1 \in 0 .. Len(R) /\ k \in 0 .. Len(R) /\ k + 1 \in 1 .. Len(R) /\ k + 1 \in 0 .. Len(R)
        /\ Len(R) \in 0 .. Len(R) /\ k + 1 =< Len(R)
    BY <1>2
  <2>2. Ends(R, k) = Ends(R, k - 1) + Len(R[k]) /\ Ends(R, k - 1) \in Nat /\ Len(R[k]) \in Nat /\ Len(R[k]) # 0
    BY <1>2, <1>4, <2>1
  <2>3. Ends(R, k + 1) = Ends(R, k) + Len(R[k + 1]) /\ Ends(R, k + 1) \in Nat /\ Len(R[k + 1]) \in Nat /\ Len(R[k + 1]) # 0
    <3>1. (k + 1) - 1 = k
      OBVIOUS
    <3> QED BY <1>2, <1>4, <2>1, <3>1
  <2>4. Ends(R, k + 1) =< Len(o)
    BY <1>2, <1>4, <2>1, EndsGrow
  <2>5. Ends(R, k) \in Nat
    BY <1>4, <2>1
  <2>6. \A p, d, e, q, m \in Nat : p = d + e /\ e # 0 /\ q =< m /\ m # 0 /\ p < q => p \in 1 .. m - 1
    OBVIOUS
  <2>7. Ends(R, k) < Ends(R, k + 1)
    BY <2>3, <2>5
  <2>8. Len(o) \in Nat
    BY <1>3
  <2> QED BY <1>8, <2>2, <2>3, <2>4, <2>5, <2>6, <2>7, <2>8
<1>10. Barred(s)
  BY <1>3, <1>8, <1>9 DEF Barred
<1>11. ASSUME NEW i \in 1 .. Len(o), NEW j \in 1 .. Len(o), i < j
       PROVE  /\ o[i] \in Regions(g) /\ o[j] \in Regions(g) /\ o[i] # o[j]
              /\ f[o[i]] =< f[o[j]]
              /\ SameInterval(s, i, j) => PairOK(g, F, o, i, j)
  <2>1. PICK a \in 1 .. Len(R) : \E b \in 1 .. Len(R[a]) : i = Ends(R, a - 1) + b /\ o[i] = R[a][b]
    BY <1>5
  <2>2. PICK b \in 1 .. Len(R[a]) : i = Ends(R, a - 1) + b /\ o[i] = R[a][b]
    BY <2>1
  <2>3. PICK c \in 1 .. Len(R) : \E d \in 1 .. Len(R[c]) : j = Ends(R, c - 1) + d /\ o[j] = R[c][d]
    BY <1>5
  <2>4. PICK d \in 1 .. Len(R[c]) : j = Ends(R, c - 1) + d /\ o[j] = R[c][d]
    BY <2>3
  <2>5. a < c \/ (a = c /\ b < d)
    <3>1. Ends(R, a - 1) + b < Ends(R, c - 1) + d
      BY <1>11, <2>2, <2>4
    <3> QED BY <1>2, <3>1, FlatOrder
  <2>6. o[i] \in Regions(g) /\ o[j] \in Regions(g) /\ f[o[i]] \in Nat /\ f[o[j]] \in Nat
    BY <1>1, <1>3, ElementOfSeq
  <2>7. CASE a < c
    <3>1. Level(g)[R[a][b]] < Level(g)[R[c][d]]
      BY <2>7 DEF Settled
    <3>2. f[o[i]] < f[o[j]]
      BY <1>1, <2>2, <2>4, <3>1
    <3>3. o[i] # o[j] /\ f[o[i]] =< f[o[j]]
      BY <2>6, <3>2
    <3>4. ~ SameInterval(s, i, j)
      <4>1. a \in 1 .. Len(R) - 1 /\ a \in 0 .. Len(R) /\ c - 1 \in 0 .. Len(R) /\ a =< c - 1 /\ a - 1 \in 0 .. Len(R)
        BY <1>2, <2>7
      <4>2. Ends(R, a) \in s.barriers
        BY <4>1
      <4>3. i =< Ends(R, a)
        <5>1. Ends(R, a) = Ends(R, a - 1) + Len(R[a]) /\ Ends(R, a - 1) \in Nat /\ Len(R[a]) \in Nat
          BY <1>2, <1>4, <4>1
        <5> QED BY <2>2, <5>1
      <4>4. Ends(R, a) < j
        <5>1. Ends(R, a) =< Ends(R, c - 1)
          BY <1>2, <4>1, EndsGrow
        <5>2. Ends(R, a) \in Nat /\ Ends(R, c - 1) \in Nat /\ d \in Nat /\ d # 0
          <6>1. Len(R[c]) \in Nat
            BY <1>2
          <6>2. d \in Nat /\ d # 0
            BY <6>1
          <6>3. Ends(R, a) \in Nat /\ Ends(R, c - 1) \in Nat
            BY <1>4, <4>1
          <6> QED BY <6>2, <6>3
        <5> QED BY <2>4, <5>1, <5>2
      <4> QED BY <4>2, <4>3, <4>4 DEF SameInterval
    <3> QED BY <2>6, <3>3, <3>4
  <2>8. CASE a = c /\ b < d
    <3>1. IntervalOK(g, F, R[a])
      BY DEF Settled
    <3>2. PairOK(g, F, R[a], b, d)
      BY <2>8, <3>1 DEF IntervalOK
    <3>3. PairOK(g, F, o, i, j)
      BY <2>2, <2>4, <2>8, <3>2 DEF PairOK
    <3>4. o[i] # o[j] /\ f[o[i]] =< f[o[j]]
      BY <1>1, <3>3 DEF PairOK
    <3> QED BY <2>6, <3>3, <3>4
  <2> QED BY <2>5, <2>7, <2>8
<1>12. IsInjective(o)
  <2>1. DOMAIN o = 1 .. Len(o)
    BY <1>3, LenProperties
  <2> SUFFICES ASSUME NEW i \in 1 .. Len(o), NEW j \in 1 .. Len(o), o[i] = o[j] PROVE i = j
    BY <2>1 DEF IsInjective
  <2>2. ~ (i < j) /\ ~ (j < i)
    BY <1>11
  <2> QED BY <1>3, <2>2
<1>13. ToSet(o) = Regions(g)
  <2>1. DOMAIN o = 1 .. Len(o)
    BY <1>3, LenProperties
  <2>2. \A i \in 1 .. Len(o) : o[i] \in Regions(g)
    BY <1>3, ElementOfSeq
  <2> QED BY <1>7, <2>1, <2>2 DEF ToSet
<1>14. Cardinality(s.barriers) < Len(Levels(g))
  <2>1. IsFiniteSet(1 .. Len(R) - 1) /\ Cardinality(1 .. Len(R) - 1) =< Len(R) - 1
    <3>3. Len(R) \in Nat /\ Len(R) # 0
      BY <1>2, <1>8
    <3>4. Len(R) - 1 \in Nat
      BY <3>3
    <3>1. PICK q \in Nat : q = Len(R) - 1
      BY <3>4
    <3>2. IsFiniteSet(1 .. q) /\ Cardinality(1 .. q) = IF 1 > q THEN 0 ELSE q - 1 + 1
      BY FS_Interval
    <3> QED BY <3>1, <3>2
  <2>2. PICK h : h = [k \in 1 .. Len(R) - 1 |-> Ends(R, k)]
    OBVIOUS
  <2>3. h \in Surjection(1 .. Len(R) - 1, s.barriers)
    BY <2>2 DEF Surjection
  <2>4. Cardinality(s.barriers) =< Cardinality(1 .. Len(R) - 1) /\ IsFiniteSet(s.barriers)
    BY <2>1, <2>3, FS_Surjection
  <2>5. Cardinality(s.barriers) \in Nat /\ Cardinality(1 .. Len(R) - 1) \in Nat
    BY <2>1, <2>4, FS_CardinalityType
  <2> QED BY <1>2, <2>1, <2>4, <2>5
<1>15. F \in SUBSET Regions(g) /\ \A r \in F : g.rounds[r] # Large
  BY DEF Settled
<1> QED BY <1>1, <1>3, <1>10, <1>11, <1>12, <1>13, <1>14, <1>15 DEF Scheduled

(* make_phase_schedule keeps its promise.                                  *)
LEMMA MakesSchedules ==
  ASSUME NEW g, GraphOK(g)
  PROVE  MakePhaseSchedule(g).graph = g /\ Scheduled(MakePhaseSchedule(g))
<1>1. PICK R : R = Folded(g).result
  OBVIOUS
<1>2. PICK F : F = Folded(g).folded
  OBVIOUS
<1>3. Settled(g, R, F, Len(Levels(g)))
  BY <1>1, <1>2, FoldedIs
<1>4. PICK s : s = MakePhaseSchedule(g)
  OBVIOUS
<1>5. /\ s.graph = g /\ s.order = FlattenSeq(R) /\ s.recompute = F
      /\ s.barriers = {Ends(R, k) : k \in 1 .. Len(R) - 1}
  BY <1>1, <1>2, <1>4 DEF MakePhaseSchedule, Ends
<1>6. Scheduled(s)
  BY <1>3, <1>5, SettledSchedule
<1> QED BY <1>4, <1>5, <1>6

(* Phases number the regions.                                              *)
LEMMA PhaseIs ==
  ASSUME NEW s, Scheduled(s)
  PROVE  /\ Phases(s) = 1 .. Len(s.order)
         /\ \A i \in 1 .. Len(s.order) : s.order[i] \in Regions(s.graph) /\ PhaseOf(s, s.order[i]) = i
         /\ \A r \in Regions(s.graph) : PhaseOf(s, r) \in 1 .. Len(s.order) /\ s.order[PhaseOf(s, r)] = r
<1>1. s.order \in Seq(Regions(s.graph)) /\ DOMAIN s.order = 1 .. Len(s.order) /\ Phases(s) = 1 .. Len(s.order)
  BY LenProperties DEF Scheduled, Barred, Phases
<1>2. \A i \in 1 .. Len(s.order) : s.order[i] \in Regions(s.graph)
  BY <1>1, ElementOfSeq
<1>3. \A r \in Regions(s.graph) : \E i \in 1 .. Len(s.order) : s.order[i] = r
  BY <1>1 DEF Scheduled, ToSet
<1>4. \A i, j \in 1 .. Len(s.order) : s.order[i] = s.order[j] => i = j
  BY <1>1 DEF Scheduled, IsInjective
<1>5. \A r \in Regions(s.graph) : PhaseOf(s, r) \in 1 .. Len(s.order) /\ s.order[PhaseOf(s, r)] = r
  BY <1>1, <1>3 DEF PhaseOf
<1> QED BY <1>1, <1>2, <1>4, <1>5

(* A prerequisite has an earlier phase; without a barrier in between it is *)
(* recomputed, and what waits for it is recomputed or stays off its        *)
(* storage.                                                                *)
LEMMA PrerequisitePhases ==
  ASSUME NEW s, GraphOK(s.graph), Scheduled(s),
         NEW i \in 1 .. Len(s.order), NEW p \in Prerequisites(s.graph, s.order[i])
  PROVE  \E j \in 1 .. Len(s.order) :
           /\ j < i /\ s.order[j] = p /\ PhaseOf(s, p) = j
           /\ SameInterval(s, j, i) =>
                /\ p \in s.recompute
                /\ s.order[i] \notin s.recompute => Storage(s.graph, s.order[i]) \notin StorageUsed(s.graph, {p})
<1>1. PICK g : g = s.graph
  OBVIOUS
<1>2. PICK f : f = Level(g) /\ f \in [Regions(g) -> Nat]
  BY <1>1, LevelIs
<1>3. PICK r \in Regions(g) : r = s.order[i]
  BY <1>1, PhaseIs
<1>4. p \in Regions(g) /\ f[p] < f[r]
  BY <1>1, <1>2, <1>3, PrerequisitesEarlier, LevelIs
<1>5. PICK j \in 1 .. Len(s.order) : s.order[j] = p /\ PhaseOf(s, p) = j
  BY <1>1, <1>4, PhaseIs
<1>6. Len(s.order) \in Nat /\ f[p] \in Nat /\ f[r] \in Nat
  BY <1>2, <1>3, <1>4 DEF Scheduled, Barred
<1>7. j < i
  <2>1. CASE i < j
    <3>1. f[r] =< f[p]
      BY <1>1, <1>2, <1>3, <1>5, <2>1 DEF Scheduled
    <3> QED BY <1>4, <1>6, <3>1
  <2>2. CASE i = j
    BY <1>3, <1>4, <1>5, <1>6, <2>2
  <2> QED BY <1>6, <2>1, <2>2
<1>8. ASSUME SameInterval(s, j, i)
      PROVE  /\ p \in s.recompute
             /\ r \notin s.recompute => Storage(g, r) \notin StorageUsed(g, {p})
  <2>1. PairOK(g, s.recompute, s.order, j, i)
    BY <1>1, <1>7, <1>8 DEF Scheduled
  <2>2. f[p] # f[r]
    BY <1>4, <1>6
  <2> QED BY <1>2, <1>3, <1>5, <2>1, <2>2 DEF PairOK
<1> QED BY <1>1, <1>3, <1>5, <1>7, <1>8

(* simulate_phase_schedule accepts every schedule of the promised kind.    *)
LEMMA SchedulesSimulate ==
  ASSUME NEW s, GraphOK(s.graph), Scheduled(s)
  PROVE  SimulationAccepts(s)
<1> DEFINE start(i)  == IntervalStart(s, i)
           before(i) == {s.order[j] : j \in start(i) .. i - 1}
           behind(i) == {s.order[j] : j \in 1 .. start(i) - 1}
<1>1. PICK n \in Nat \ {0} : n = Len(s.order) /\ Phases(s) = 1 .. n
  BY PhaseIs DEF Scheduled, Barred
<1>2. ASSUME NEW i \in 1 .. n
      PROVE  /\ s.order[i] \in s.recompute => before(i) \subseteq s.recompute
             /\ Prerequisites(s.graph, s.order[i]) \subseteq behind(i) \cup (before(i) \cap s.recompute)
  <2>1. PICK k : k = start(i)
    OBVIOUS
  <2>2. k \in 1 .. i /\ \A b \in s.barriers : b < i => b < k
    BY <1>1, <2>1, StartOfInterval DEF Scheduled
  <2>3. s.barriers \subseteq 1 .. n - 1
    BY <1>1 DEF Scheduled, Barred
  <2>4. ASSUME NEW j \in k .. i - 1 PROVE j \in 1 .. n /\ j < i /\ SameInterval(s, j, i)
    <3>1. j \in 1 .. n /\ j < i /\ k =< j
      BY <2>2
    <3>2. \A b \in s.barriers : ~ (j =< b /\ b < i)
      <4> SUFFICES ASSUME NEW b \in s.barriers, j =< b, b < i PROVE FALSE
        OBVIOUS
      <4>1. b < k /\ b \in Nat /\ j \in Nat /\ k \in Nat
        BY <2>2, <2>3, <3>1
      <4> QED BY <3>1, <4>1
    <3> QED BY <3>1, <3>2 DEF SameInterval
  <2>5. ASSUME s.order[i] \in s.recompute PROVE before(i) \subseteq s.recompute
    <3> SUFFICES ASSUME NEW j \in k .. i - 1 PROVE s.order[j] \in s.recompute
      BY <2>1
    <3>1. PairOK(s.graph, s.recompute, s.order, j, i)
      BY <1>1, <2>4 DEF Scheduled
    <3> QED BY <2>5, <3>1 DEF PairOK
  <2>6. ASSUME NEW p \in Prerequisites(s.graph, s.order[i])
        PROVE  p \in behind(i) \cup (before(i) \cap s.recompute)
    <3>1. PICK j \in 1 .. n : j < i /\ s.order[j] = p /\ (SameInterval(s, j, i) => p \in s.recompute)
      BY <1>1, PrerequisitePhases
    <3>2. CASE j < k
      <4>1. j \in 1 .. k - 1
        BY <2>2, <3>2
      <4> QED BY <2>1, <3>1, <4>1
    <3>3. CASE ~ (j < k)
      <4>1. j \in k .. i - 1
        BY <2>2, <3>1, <3>3
      <4>2. SameInterval(s, j, i)
        BY <2>4, <4>1
      <4> QED BY <2>1, <3>1, <4>1, <4>2
    <3> QED BY <3>2, <3>3
  <2> QED BY <2>5, <2>6
<1> QED BY <1>1, <1>2 DEF SimulationAccepts

(* Where in-place writers do not fold, the storage-order dependencies keep *)
(* them behind a barrier for whoever uses their storage in front of them.  *)
LEMMA BehindPrerequisites ==
  ASSUME NEW s, GraphOK(s.graph), Scheduled(s),
         NEW w \in s.graph.inPlace, s.graph.rounds[w] = Large,
         NEW r \in Regions(s.graph), r < w, 0 \in StorageUsed(s.graph, {r})
  PROVE  Behind(s, w, r)
<1>1. PICK g : g = s.graph
  OBVIOUS
<1>2. w \in Regions(g) /\ 0 \notin Regions(g) /\ Storage(g, w) = 0
  BY <1>1 DEF GraphOK, Regions, Storage
<1>3. PICK i \in 1 .. Len(s.order) : i = PhaseOf(s, w) /\ s.order[i] = w
  BY <1>1, <1>2, PhaseIs
<1>4. r \in Prerequisites(g, w)
  <2>1. 0 \in StorageWritten(g, w)
    BY <1>1, <1>2 DEF StorageWritten, StorageOf
  <2>2. 0 \in StorageWritten(g, r) \cup StorageRead(g, r)
    BY <1>1 DEF StorageUsed, StorageWritten, StorageRead, StorageOf
  <2>3. <<r, w>> \in Dependencies(g)
    BY <1>1, <1>2, <2>1, <2>2 DEF Dependencies
  <2> QED BY <2>3 DEF Prerequisites
<1>5. PICK j \in 1 .. Len(s.order) :
        /\ j < i /\ PhaseOf(s, r) = j
        /\ SameInterval(s, j, i) => (w \notin s.recompute => Storage(g, w) \notin StorageUsed(g, {r}))
  BY <1>1, <1>3, <1>4, PrerequisitePhases
<1>6. w \notin s.recompute
  BY DEF Scheduled
<1>7. PICK b \in s.barriers : j =< b /\ b < i
  BY <1>1, <1>2, <1>5, <1>6 DEF SameInterval
<1>8. IntervalEnd(s, j) =< b /\ IntervalEnd(s, j) \in j .. Len(s.order)
  BY <1>7, EndOfInterval DEF Scheduled
<1>9. Len(s.order) \in Nat /\ b \in Nat
  BY DEF Scheduled, Barred
<1>10. IntervalEnd(s, j) < i
  BY <1>7, <1>8, <1>9
<1> QED BY <1>3, <1>5, <1>10 DEF Behind

(* In-place writes are kept apart from other uses of their storage, as     *)
(* long as no region that writes in place is folded.                       *)
LEMMA SchedulesKeepWritesApart ==
  ASSUME NEW s, GraphOK(s.graph), Scheduled(s), WritersStay(s.graph)
  PROVE  StateWritesApart(s)
<1>1. PICK g : g = s.graph
  OBVIOUS
<1> SUFFICES ASSUME NEW w \in g.inPlace, NEW v \in ({0} \cup g.inPlace) \ {w}
             PROVE  \/ \A r \in Readers(g, v) \cup ({v} \ {0}) : Behind(s, w, r)
                    \/ v # 0 /\ Behind(s, v, w)
  BY <1>1 DEF StateWritesApart
<1>2. /\ w \in Regions(g) /\ g.inPlace \subseteq Regions(g) /\ 0 \notin Regions(g)
      /\ \A x \in {0} \cup g.inPlace : Storage(g, x) = 0
      /\ g.n \in Nat /\ Regions(g) = 1 .. g.n
  BY <1>1 DEF GraphOK, Regions, Storage
<1>3. \A x \in g.inPlace : g.rounds[x] = Large
  BY <1>1 DEF WritersStay
<1>4. CASE v = 0 \/ v < w
  <2>1. v < w
    BY <1>2, <1>4
  <2> SUFFICES ASSUME NEW r \in Readers(g, v) \cup ({v} \ {0}) PROVE Behind(s, w, r)
    OBVIOUS
  <2>2. r \in Regions(g) /\ r < w
    <3>1. CASE r \in Readers(g, v)
      <4>1. r \in Regions(g) /\ v \in g.reads[r]
        BY <3>1 DEF Readers
      <4>2. \A x \in w .. g.n : v \notin g.reads[x]
        BY <1>1, <2>1 DEF GraphOK, StateThreaded
      <4>3. r \notin w .. g.n
        BY <4>1, <4>2
      <4> QED BY <1>2, <4>1, <4>3
    <3>2. CASE r \notin Readers(g, v)
      <4>1. r = v /\ v # 0
        BY <3>2
      <4> QED BY <1>2, <2>1, <4>1
    <3> QED BY <3>1, <3>2
  <2>3. 0 \in StorageUsed(g, {r})
    <3>1. v \in {r} \cup Operands(g, r)
      BY DEF Readers, Operands
    <3>2. Storage(g, v) = 0
      BY <1>2
    <3> QED BY <3>1, <3>2 DEF StorageUsed, StorageOf
  <2> QED BY <1>1, <1>3, <2>2, <2>3, BehindPrerequisites
<1>5. CASE v # 0 /\ ~ (v < w)
  <2>1. v \in g.inPlace /\ v \in Regions(g) /\ w < v
    BY <1>2, <1>5
  <2>2. 0 \in StorageUsed(g, {w})
    BY <1>2 DEF StorageUsed, StorageOf
  <2> QED BY <1>1, <1>2, <1>3, <1>5, <2>1, <2>2, BehindPrerequisites
<1> QED BY <1>4, <1>5

-----------------------------------------------------------------------------
(* Storage. *)

LEMMA LeastIsIn ==
  ASSUME NEW S \in SUBSET Nat, S # {}
  PROVE  Min(S) \in S
<1>1. PICK x \in S : \A y \in S : x =< y
  BY LeastNumber
<1> QED BY <1>1 DEF Min

LEMMA LargerOfTwo ==
  ASSUME NEW a \in Nat, NEW b \in Nat
  PROVE  Max({a, b}) \in Nat /\ a =< Max({a, b}) /\ b =< Max({a, b})
<1>1. \E x \in {a, b} : \A y \in {a, b} : x >= y
  OBVIOUS
<1>2. PICK m : m = Max({a, b})
  OBVIOUS
<1>3. m \in {a, b} /\ \A y \in {a, b} : m >= y
  BY <1>1, <1>2 DEF Max
<1> QED BY <1>2, <1>3

(* Lifetimes begin with the value's phase and end behind it.               *)
LEMMA LifetimeIs ==
  ASSUME NEW s, GraphOK(s.graph), Scheduled(s), NEW v \in Regions(s.graph)
  PROVE  /\ Lifetime(s, v).start = PhaseOf(s, v)
         /\ Lifetime(s, v).end \in Nat
         /\ PhaseOf(s, v) \in 1 .. Len(s.order) /\ PhaseOf(s, v) < Lifetime(s, v).end
<1> DEFINE U == {PhaseOf(s, r) : r \in Readers(s.graph, v) \cup {v}}
<1>1. PICK n \in Nat \ {0} : n = Len(s.order)
  BY DEF Scheduled, Barred
<1>2. \A r \in Readers(s.graph, v) \cup {v} : r \in Regions(s.graph)
  BY DEF Readers
<1>3. U \subseteq 1 .. n /\ PhaseOf(s, v) \in U
  BY <1>1, <1>2, PhaseIs
<1>4. Max(U) \in U /\ \A y \in U : Max(U) >= y
  <2>1. IsFiniteSet(1 .. n) /\ 1 .. n \in SUBSET Int
    BY FS_Interval
  <2> HIDE DEF U
  <2>2. IsFiniteSet(U) /\ U \in SUBSET Int
    BY <1>3, <2>1, FS_Subset
  <2> QED BY <1>3, <2>2, MaxIsLargest
<1>5. PICK last : last = Max(U)
  OBVIOUS
<1>6. last \in 1 .. n /\ PhaseOf(s, v) =< last /\ PhaseOf(s, v) \in 1 .. n
  <2> HIDE DEF U
  <2> QED BY <1>3, <1>4, <1>5
<1>7. IntervalEnd(s, last) \in last .. n
  BY <1>1, <1>6, EndOfInterval DEF Scheduled
<1>8. Lifetime(s, v) = [start |-> PhaseOf(s, v), end |-> IntervalEnd(s, last) + 1]
  BY <1>5, Zenon DEF Lifetime
<1> HIDE DEF U
<1>9. Lifetime(s, v).start = PhaseOf(s, v) /\ Lifetime(s, v).end = IntervalEnd(s, last) + 1
  BY <1>8
<1> QED BY <1>1, <1>6, <1>7, <1>9

(* A place that fits lies in free storage.                                 *)
LEMMA FitIs ==
  ASSUME NEW free \in SUBSET Nat, NEW size \in Nat, NEW x \in BestFit(free, size)
  PROVE  x \in Nat /\ x .. x + size - 1 \subseteq free
<1>1. PICK r \in FreeRanges(free) : x = r[1] /\ r[2] - r[1] >= size
  BY DEF BestFit
<1> DEFINE ends == free \cup {u + 1 : u \in free}
<1>2. r \in ends \X ends /\ r[1] .. r[2] - 1 \subseteq free
  BY <1>1 DEF FreeRanges
<1>3. ends \subseteq Nat
  <2>1. \A u \in free : u \in Nat /\ u + 1 \in Nat
    OBVIOUS
  <2> QED BY <2>1
<1>4. r[1] \in Nat /\ r[2] \in Nat
  BY <1>2, <1>3
<1> QED BY <1>1, <1>2, <1>4

(* The sweep: where values are, which units are free, and how many there   *)
(* are.                                                                    *)
StorageState(O, free, peak) == [offset |-> O, free |-> free, peak |-> peak]

StartSweep(s) == StorageState([v \in WorkspaceValues(s.graph) |-> 0], {}, 0)

(* The function of Sweeps. *)
IsSweeps(s, m, f) ==
  f = [i \in 0 .. m |-> IF i = 0 THEN StartSweep(s) ELSE Sweep(s, f[i - 1], i)]

LEMMA SweepsExist ==
  ASSUME NEW s, NEW N \in Nat
  PROVE  \E f : IsSweeps(s, N, f)
<1> DEFINE S == {m \in Nat : ~ \E f : IsSweeps(s, m, f)}
           Next1(k, x) == Sweep(s, x, k)
<1>1. SUFFICES ASSUME S # {} PROVE FALSE
  OBVIOUS
<1>2. PICK m \in S : \A k \in S : m =< k
  <2>1. S \in SUBSET Nat
    OBVIOUS
  <2> HIDE DEF S
  <2> QED BY <1>1, <2>1, LeastNumber
<1>3. m \in Nat /\ ~ \E f : IsSweeps(s, m, f)
  OBVIOUS
<1>4. \A k \in Nat : k < m => \E f : IsSweeps(s, k, f)
  BY <1>2, <1>3
<1>5. \A k, f : IsSweeps(s, k, f) <=> f = [i \in 0 .. k |-> IF i = 0 THEN StartSweep(s) ELSE Next1(i, f[i - 1])]
  BY DEF IsSweeps
<1> HIDE DEF Next1
<1>6. CASE m = 0
  <2>1. PICK f : f = [i \in 0 .. 0 |-> StartSweep(s)]
    OBVIOUS
  <2>2. f = [i \in 0 .. 0 |-> IF i = 0 THEN StartSweep(s) ELSE Next1(i, f[i - 1])]
    BY <2>1
  <2> QED BY <1>3, <1>5, <1>6, <2>2
<1>7. CASE m > 0
  <2>1. PICK n \in Nat : n = m - 1 /\ m = n + 1 /\ n < m
    BY <1>3, <1>7
  <2>7. PICK f : IsSweeps(s, n, f)
    BY <1>4, <2>1
  <2>2. f = [i \in 0 .. n |-> IF i = 0 THEN StartSweep(s) ELSE Next1(i, f[i - 1])]
    BY <1>5, <2>7
  <2>3. PICK h : h = [i \in 0 .. m |-> IF i = m THEN Next1(m, f[n]) ELSE f[i]]
    OBVIOUS
  <2>4. \A i \in 0 .. m : h[i] = IF i = 0 THEN StartSweep(s) ELSE Next1(i, h[i - 1])
    <3> SUFFICES ASSUME NEW i \in 0 .. m PROVE h[i] = IF i = 0 THEN StartSweep(s) ELSE Next1(i, h[i - 1])
      OBVIOUS
    <3>1. i # 0 => h[i - 1] = f[i - 1]
      BY <2>1, <2>3
    <3>2. i # m => h[i] = f[i] /\ i \in 0 .. n
      BY <2>1, <2>3
    <3>3. i # m => f[i] = IF i = 0 THEN StartSweep(s) ELSE Next1(i, f[i - 1])
      BY <2>2, <3>2
    <3>4. i = m => h[i] = Next1(i, f[i - 1]) /\ i # 0
      BY <2>1, <2>3
    <3> QED BY <3>1, <3>2, <3>3, <3>4
  <2>5. h = [i \in 0 .. m |-> h[i]]
    BY <2>3
  <2>6. h = [i \in 0 .. m |-> IF i = 0 THEN StartSweep(s) ELSE Next1(i, h[i - 1])]
    BY <2>4, <2>5
  <2> QED BY <1>3, <1>5, <2>6
<1> QED
  BY <1>3, <1>6, <1>7

(* What Sweeps is at the start and behind a phase.                         *)
LEMMA SweepsAre ==
  ASSUME NEW s, Len(s.order) \in Nat
  PROVE  /\ Sweeps(s)[0] = StartSweep(s)
         /\ \A i \in 1 .. Len(s.order) : Sweeps(s)[i] = Sweep(s, Sweeps(s)[i - 1], i)
<1>1. PICK n \in Nat : n = Len(s.order)
  OBVIOUS
<1>2. PICK f : f = Sweeps(s)
  OBVIOUS
<1>3. f = CHOOSE h : h = [i \in 0 .. n |-> IF i = 0 THEN StartSweep(s) ELSE Sweep(s, h[i - 1], i)]
  BY <1>1, <1>2, Zenon DEF Sweeps, StartSweep, StorageState
<1>4. IsSweeps(s, n, f)
  <2>1. \E h : IsSweeps(s, n, h)
    BY SweepsExist
  <2> QED BY <1>3, <2>1, Zenon DEF IsSweeps
<1> DEFINE Next1(k, x) == Sweep(s, x, k)
<1>5. f = [i \in 0 .. n |-> IF i = 0 THEN StartSweep(s) ELSE Next1(i, f[i - 1])]
  BY <1>4 DEF IsSweeps
<1>6. f[0] = StartSweep(s) /\ \A i \in 1 .. n : f[i] = Next1(i, f[i - 1])
  <2> HIDE DEF Next1
  <2> QED BY <1>5
<1> QED BY <1>1, <1>2, <1>6 DEF Next1

(* Two values live at the same time.                                       *)
Coexist(s, v, w) ==
  Lifetime(s, v).start < Lifetime(s, w).end /\ Lifetime(s, w).start < Lifetime(s, v).end

(* What holds of the sweep behind phase i: values that still live have     *)
(* their units to themselves, below the peak and apart from what is free,  *)
(* and no two values whose lifetimes overlap ever shared a unit.           *)
Swept(s, i, O, free, peak) ==
  LET Allocated == {v \in WorkspaceValues(s.graph) : PhaseOf(s, v) =< i}
  IN  /\ O \in [WorkspaceValues(s.graph) -> Nat] /\ peak \in Nat /\ free \in SUBSET (0 .. peak - 1)
      /\ \A v \in Allocated : Lifetime(s, v).end > i =>
           Units(s, O[v], v) \subseteq (0 .. peak - 1) \ free
      /\ \A v, w \in Allocated : v # w /\ Coexist(s, v, w) => Units(s, O[v], v) \cap Units(s, O[w], w) = {}

(* The units a value takes.                                                *)
LEMMA UnitsAre ==
  ASSUME NEW s, GraphOK(s.graph), NEW v \in Regions(s.graph), NEW o \in Nat
  PROVE  /\ s.graph.tiles[v] \in Nat \ {0}
         /\ Units(s, o, v) \in SUBSET Nat
         /\ \A u : u \in Units(s, o, v) <=> u \in Nat /\ o =< u /\ u < o + s.graph.tiles[v]
<1>1. PICK t \in Nat \ {0} : t = s.graph.tiles[v]
  BY DEF GraphOK, Regions
<1>2. Units(s, o, v) = o .. o + t - 1
  BY <1>1 DEF Units
<1> QED BY <1>1, <1>2

(* What a phase frees lived until there.                                   *)
LEMMA FreedIs ==
  ASSUME NEW s, GraphOK(s.graph), Scheduled(s), NEW i \in 1 .. Len(s.order),
         NEW O, NEW free, NEW peak, Swept(s, i - 1, O, free, peak),
         NEW new, new = Freed(s, StorageState(O, free, peak), i)
  PROVE  /\ new \in SUBSET (0 .. peak - 1)
         /\ \A v \in WorkspaceValues(s.graph) : PhaseOf(s, v) =< i - 1 /\ Lifetime(s, v).end > i =>
              Units(s, O[v], v) \subseteq (0 .. peak - 1) \ new
<1>1. PICK W : W = WorkspaceValues(s.graph)
  OBVIOUS
<1>2. \A v \in W : v \in Regions(s.graph)
  BY <1>1 DEF WorkspaceValues
<1>3. /\ O \in [W -> Nat] /\ peak \in Nat /\ free \in SUBSET (0 .. peak - 1)
      /\ \A v \in W : PhaseOf(s, v) =< i - 1 /\ Lifetime(s, v).end > i - 1 =>
           Units(s, O[v], v) \subseteq (0 .. peak - 1) \ free
      /\ \A v, w \in W : PhaseOf(s, v) =< i - 1 /\ PhaseOf(s, w) =< i - 1 /\ v # w /\ Coexist(s, v, w) =>
           Units(s, O[v], v) \cap Units(s, O[w], w) = {}
  BY <1>1 DEF Swept
<1>4. \A u : u \in new <=> u \in free \/ \E v \in W : Lifetime(s, v).end = i /\ u \in Units(s, O[v], v)
  BY <1>1 DEF Freed, StorageState
<1>5. i \in Nat /\ i - 1 < i
  OBVIOUS
<1>6. \A v \in W : /\ Lifetime(s, v).start = PhaseOf(s, v) /\ Lifetime(s, v).end \in Nat
                   /\ PhaseOf(s, v) \in Nat /\ PhaseOf(s, v) < Lifetime(s, v).end
  BY <1>2, LifetimeIs
<1>7. ASSUME NEW v \in W, Lifetime(s, v).end = i
      PROVE  /\ PhaseOf(s, v) =< i - 1
             /\ Units(s, O[v], v) \subseteq (0 .. peak - 1) \ free
  <2>1. PhaseOf(s, v) =< i - 1 /\ Lifetime(s, v).end > i - 1
    BY <1>5, <1>6, <1>7
  <2> QED BY <1>3, <2>1
<1>8. new \in SUBSET (0 .. peak - 1)
  BY <1>3, <1>4, <1>7
<1>9. ASSUME NEW v \in W, PhaseOf(s, v) =< i - 1, Lifetime(s, v).end > i,
             NEW u \in Units(s, O[v], v)
      PROVE  u \in (0 .. peak - 1) \ new
  <2>1. Lifetime(s, v).end > i - 1
    BY <1>5, <1>6, <1>9
  <2>2. u \in 0 .. peak - 1 /\ u \notin free
    BY <1>3, <1>9, <2>1
  <2>3. ASSUME NEW w \in W, Lifetime(s, w).end = i, u \in Units(s, O[w], w) PROVE FALSE
    <3>1. PhaseOf(s, w) =< i - 1
      BY <1>7, <2>3
    <3>2. v # w
      BY <1>5, <1>6, <1>9, <2>3
    <3>3. Coexist(s, v, w)
      BY <1>5, <1>6, <1>9, <2>3, <3>1 DEF Coexist
    <3> QED BY <1>3, <1>9, <2>3, <3>1, <3>2, <3>3
  <2> QED BY <1>4, <2>2, <2>3
<1> QED BY <1>1, <1>8, <1>9

(* Where a value goes: units that are free, or that nothing had so far.    *)
PlacedAt(s, v, O, peak, free, next, place, top) ==
  /\ next = StorageState([O EXCEPT ![v] = place], free \ Units(s, place, v), top)
  /\ peak =< top
  /\ Units(s, place, v) \subseteq 0 .. top - 1
  /\ \A u \in Units(s, place, v) : u \in free \/ u >= peak

IsPlaced(s, v, O, peak, free, next) ==
  \E place \in Nat, top \in Nat : PlacedAt(s, v, O, peak, free, next, place, top)

LEMMA PlacedIs ==
  ASSUME NEW s, GraphOK(s.graph), NEW v, v \in WorkspaceValues(s.graph),
         NEW O, NEW old, NEW peak, peak \in Nat,
         NEW free, free \in SUBSET (0 .. peak - 1)
  PROVE  IsPlaced(s, v, O, peak, free, Placed(s, StorageState(O, old, peak), free, v))
<1>1. v \in Regions(s.graph)
  BY DEF WorkspaceValues
<1>2. PICK size \in Nat \ {0} : size = s.graph.tiles[v]
  BY <1>1, UnitsAre
<1>3. PICK fit : fit = BestFit(free, size)
  OBVIOUS
<1>4. PICK place : place = IF fit = {} THEN peak ELSE Min(fit)
  OBVIOUS
<1>5. free \in SUBSET Nat
  OBVIOUS
<1>6. fit # {} => place \in fit
  <2>1. fit \in SUBSET Nat
    BY <1>2, <1>3, <1>5, FitIs
  <2> QED BY <1>4, <2>1, LeastIsIn
<1>7. place \in Nat /\ (fit # {} => place .. place + size - 1 \subseteq free)
  <2>1. CASE fit = {}
    BY <1>4, <2>1
  <2>2. CASE fit # {}
    BY <1>2, <1>3, <1>5, <1>6, <2>2, FitIs
  <2> QED BY <2>1, <2>2
<1>8. PICK top : top = Max({peak, place + size})
  OBVIOUS
<1>9. top \in Nat /\ peak =< top /\ place + size =< top
  <2>1. place + size \in Nat
    BY <1>2, <1>7
  <2> QED BY <1>8, <2>1, LargerOfTwo
<1>10. Placed(s, StorageState(O, old, peak), free, v)
         = StorageState([O EXCEPT ![v] = place], free \ Units(s, place, v), top)
  BY <1>2, <1>3, <1>4, <1>8 DEF Placed, StorageState
<1>11. Units(s, place, v) = place .. place + size - 1
  BY <1>2 DEF Units
<1>12. Units(s, place, v) \subseteq 0 .. top - 1
  <2>1. \A u \in place .. place + size - 1 : u \in 0 .. top - 1
    BY <1>2, <1>7, <1>9
  <2> QED BY <1>11, <2>1
<1>13. \A u \in Units(s, place, v) : u \in free \/ u >= peak
  <2>1. CASE fit = {}
    BY <1>2, <1>4, <1>7, <1>11, <2>1
  <2>2. CASE fit # {}
    BY <1>7, <1>11, <2>2
  <2> QED BY <2>1, <2>2
<1>14. PlacedAt(s, v, O, peak, free, Placed(s, StorageState(O, old, peak), free, v), place, top)
  BY <1>9, <1>10, <1>12, <1>13 DEF PlacedAt
<1> QED BY <1>7, <1>9, <1>14 DEF IsPlaced

(* A phase of the sweep keeps Swept.                                       *)
LEMMA SweepKeeps ==
  ASSUME NEW s, GraphOK(s.graph), Scheduled(s), NEW i \in 1 .. Len(s.order),
         NEW O, NEW free, NEW peak, Swept(s, i - 1, O, free, peak)
  PROVE  \E O2, free2, peak2 :
           /\ Sweep(s, StorageState(O, free, peak), i) = StorageState(O2, free2, peak2)
           /\ Swept(s, i, O2, free2, peak2)
<1>1. PICK W : W = WorkspaceValues(s.graph)
  OBVIOUS
<1>2. \A v \in W : v \in Regions(s.graph)
  BY <1>1 DEF WorkspaceValues
<1>3. /\ O \in [W -> Nat] /\ peak \in Nat /\ free \in SUBSET (0 .. peak - 1)
      /\ \A v, w \in W : PhaseOf(s, v) =< i - 1 /\ PhaseOf(s, w) =< i - 1 /\ v # w /\ Coexist(s, v, w) =>
           Units(s, O[v], v) \cap Units(s, O[w], w) = {}
  BY <1>1 DEF Swept
<1>4. PICK new : new = Freed(s, StorageState(O, free, peak), i)
  OBVIOUS
<1>5. /\ new \in SUBSET (0 .. peak - 1)
      /\ \A v \in W : PhaseOf(s, v) =< i - 1 /\ Lifetime(s, v).end > i =>
           Units(s, O[v], v) \subseteq (0 .. peak - 1) \ new
  BY <1>1, <1>4, FreedIs
<1>6. i \in Nat
  OBVIOUS
<1>7. \A v \in W : /\ Lifetime(s, v).start = PhaseOf(s, v) /\ Lifetime(s, v).end \in Nat
                   /\ PhaseOf(s, v) \in Nat
                   /\ s.order[PhaseOf(s, v)] = v
  BY <1>2, LifetimeIs, PhaseIs
<1>8. PICK r : r = s.order[i]
  OBVIOUS
<1>9. \A v \in W : v # r /\ PhaseOf(s, v) =< i => PhaseOf(s, v) =< i - 1
  <2> SUFFICES ASSUME NEW v \in W, v # r, PhaseOf(s, v) =< i PROVE PhaseOf(s, v) =< i - 1
    OBVIOUS
  <2>1. PhaseOf(s, v) # i /\ PhaseOf(s, v) \in Nat
    BY <1>7, <1>8
  <2> QED BY <1>6, <2>1
<1>10. CASE r \in W
  <2>1. PhaseOf(s, r) = i
    BY <1>8, PhaseIs
  <2> DEFINE next == Placed(s, StorageState(O, free, peak), new, r)
  <2>2. PICK place \in Nat, top \in Nat :
          /\ next = StorageState([O EXCEPT ![r] = place], new \ Units(s, place, r), top)
          /\ peak =< top
          /\ Units(s, place, r) \subseteq 0 .. top - 1
          /\ \A u \in Units(s, place, r) : u \in new \/ u >= peak
    <3>1. r \in WorkspaceValues(s.graph) /\ peak \in Nat
      BY <1>1, <1>3, <1>10
    <3>2. IsPlaced(s, r, O, peak, new, Placed(s, StorageState(O, free, peak), new, r))
      BY <1>5, <3>1, PlacedIs
    <3> QED BY <3>2 DEF IsPlaced, PlacedAt
  <2>3. PICK O2 : O2 = [O EXCEPT ![r] = place]
    OBVIOUS
  <2>4. O2 \in [W -> Nat] /\ O2[r] = place /\ \A v \in W : v # r => O2[v] = O[v]
    BY <1>3, <1>10, <2>2, <2>3
  <2>5. PICK free2 : free2 = new \ Units(s, place, r)
    OBVIOUS
  <2>6. Sweep(s, StorageState(O, free, peak), i) = StorageState(O2, free2, top)
    BY <1>1, <1>4, <1>8, <1>10, <2>2, <2>3, <2>5 DEF Sweep
  <2>7. 0 .. peak - 1 \subseteq 0 .. top - 1
    BY <1>3, <2>2
  <2>8. free2 \in SUBSET (0 .. top - 1)
    BY <1>5, <2>5, <2>7
  <2>9. ASSUME NEW v \in W, PhaseOf(s, v) =< i, Lifetime(s, v).end > i
        PROVE  Units(s, O2[v], v) \subseteq (0 .. top - 1) \ free2
    <3>1. CASE v = r
      BY <2>2, <2>4, <2>5, <3>1
    <3>2. CASE v # r
      BY <1>5, <1>9, <2>4, <2>5, <2>7, <2>9, <3>2
    <3> QED BY <3>1, <3>2
  <2>10. ASSUME NEW v \in W, v # r, PhaseOf(s, v) =< i, Lifetime(s, v).end > i
         PROVE  Units(s, O2[v], v) \cap Units(s, O2[r], r) = {}
    <3>1. Units(s, O[v], v) \subseteq (0 .. peak - 1) \ new
      BY <1>5, <1>9, <2>10
    <3>2. \A u \in 0 .. peak - 1 : ~ (u >= peak)
      BY <1>3
    <3> QED BY <2>2, <2>4, <2>10, <3>1, <3>2
  <2>11. ASSUME NEW v \in W, NEW w \in W, PhaseOf(s, v) =< i, PhaseOf(s, w) =< i, v # w, Coexist(s, v, w)
         PROVE  Units(s, O2[v], v) \cap Units(s, O2[w], w) = {}
    <3>1. CASE v = r
      <4>1. Lifetime(s, w).end > i
        BY <1>6, <1>7, <2>1, <2>11, <3>1 DEF Coexist
      <4> QED BY <2>10, <2>11, <3>1, <4>1
    <3>2. CASE w = r
      <4>1. Lifetime(s, v).end > i
        BY <1>6, <1>7, <2>1, <2>11, <3>2 DEF Coexist
      <4> QED BY <2>10, <2>11, <3>2, <4>1
    <3>3. CASE v # r /\ w # r
      BY <1>3, <1>9, <2>4, <2>11, <3>3
    <3> QED BY <3>1, <3>2, <3>3
  <2>12. Swept(s, i, O2, free2, top)
    BY <1>1, <2>2, <2>4, <2>8, <2>9, <2>11 DEF Swept
  <2> QED BY <2>6, <2>12
<1>11. CASE r \notin W
  <2>1. Sweep(s, StorageState(O, free, peak), i) = StorageState(O, new, peak)
    <3>1. Sweep(s, StorageState(O, free, peak), i) = [StorageState(O, free, peak) EXCEPT !.free = new]
      BY <1>1, <1>4, <1>8, <1>11 DEF Sweep
    <3> QED BY <3>1 DEF StorageState
  <2>2. \A v \in W : PhaseOf(s, v) =< i => PhaseOf(s, v) =< i - 1
    BY <1>9, <1>11
  <2>3. Swept(s, i, O, new, peak)
    BY <1>1, <1>3, <1>5, <2>2 DEF Swept
  <2> QED BY <2>1, <2>3
<1> QED BY <1>10, <1>11

(* What verify_plan checks holds of the storage _allocate_workspace gives  *)
(* out.                                                                    *)
LEMMA AllocationIs ==
  ASSUME NEW s, GraphOK(s.graph), Scheduled(s)
  PROVE  /\ AllocateWorkspace(s) \in [WorkspaceValues(s.graph) -> Nat]
         /\ \A v, w \in WorkspaceValues(s.graph) : v # w /\ Coexist(s, v, w) =>
              \/ AllocateWorkspace(s)[v] + s.graph.tiles[v] =< AllocateWorkspace(s)[w]
              \/ AllocateWorkspace(s)[w] + s.graph.tiles[w] =< AllocateWorkspace(s)[v]
<1>1. PICK W : W = WorkspaceValues(s.graph)
  OBVIOUS
<1>2. \A v \in W : v \in Regions(s.graph)
  BY <1>1 DEF WorkspaceValues
<1>3. PICK n \in Nat : n = Len(s.order)
  BY DEF Scheduled, Barred
<1>4. PICK f : f = Sweeps(s)
  OBVIOUS
<1>5. f[0] = StartSweep(s) /\ \A i \in 1 .. n : f[i] = Sweep(s, f[i - 1], i)
  BY <1>3, <1>4, SweepsAre
<1> DEFINE Good(i) == \E O, free, peak : f[i] = StorageState(O, free, peak) /\ Swept(s, i, O, free, peak)
           T == {i \in 0 .. n : ~ Good(i)}
<1>6. T = {}
  <2>1. SUFFICES ASSUME T # {} PROVE FALSE
    OBVIOUS
  <2>2. PICK k \in T : \A j \in T : k =< j
    <3>1. T \in SUBSET Nat
      OBVIOUS
    <3> HIDE DEF T
    <3> QED BY <2>1, <3>1, LeastNumber
  <2>3. k \in 0 .. n /\ ~ Good(k)
    OBVIOUS
  <2>4. k # 0
    <3>1. \A v \in W : ~ (PhaseOf(s, v) =< 0)
      <4>1. \A v \in W : PhaseOf(s, v) \in 1 .. n
        BY <1>2, <1>3, PhaseIs
      <4> QED BY <4>1
    <3>2. [v \in W |-> 0] \in [W -> Nat] /\ {} \in SUBSET (0 .. 0 - 1)
      OBVIOUS
    <3>3. Swept(s, 0, [v \in W |-> 0], {}, 0)
      BY <1>1, <3>1, <3>2 DEF Swept
    <3>4. f[0] = StorageState([v \in W |-> 0], {}, 0)
      BY <1>1, <1>5 DEF StartSweep
    <3>5. Good(0)
      BY <3>3, <3>4
    <3> HIDE DEF Good
    <3> QED BY <2>3, <3>5
  <2>5. PICK j \in 0 .. n : j = k - 1 /\ ~ (k =< j) /\ k \in 1 .. n
    BY <2>3, <2>4
  <2>6. Good(j)
    <3> HIDE DEF Good
    <3> QED BY <2>2, <2>5
  <2>7. PICK O, free, peak : f[j] = StorageState(O, free, peak) /\ Swept(s, j, O, free, peak)
    BY <2>6
  <2>8. Swept(s, k - 1, O, free, peak) /\ f[k - 1] = StorageState(O, free, peak)
    BY <2>5, <2>7
  <2>9. \E O2, free2, peak2 :
           /\ Sweep(s, StorageState(O, free, peak), k) = StorageState(O2, free2, peak2)
           /\ Swept(s, k, O2, free2, peak2)
    BY <1>3, <2>5, <2>8, SweepKeeps
  <2>10. f[k] = Sweep(s, StorageState(O, free, peak), k)
    BY <1>5, <2>5, <2>8
  <2>11. Good(k)
    BY <2>9, <2>10
  <2> HIDE DEF Good
  <2> QED BY <2>3, <2>11
<1>7. Good(n)
  <2>1. n \in 0 .. n
    OBVIOUS
  <2> HIDE DEF Good
  <2> QED BY <1>6, <2>1
<1>8. PICK O, free, peak : f[n] = StorageState(O, free, peak) /\ Swept(s, n, O, free, peak)
  BY <1>7
<1>9. AllocateWorkspace(s) = O
  BY <1>3, <1>4, <1>8 DEF AllocateWorkspace, StorageState
<1>10. O \in [W -> Nat]
  BY <1>1, <1>8 DEF Swept
<1>11. ASSUME NEW v \in W, NEW w \in W, v # w, Coexist(s, v, w)
       PROVE  O[v] + s.graph.tiles[v] =< O[w] \/ O[w] + s.graph.tiles[w] =< O[v]
  <2>1. PhaseOf(s, v) =< n /\ PhaseOf(s, w) =< n
    <3>1. PhaseOf(s, v) \in 1 .. n /\ PhaseOf(s, w) \in 1 .. n
      BY <1>2, <1>3, PhaseIs
    <3> QED BY <3>1
  <2>2. Units(s, O[v], v) \cap Units(s, O[w], w) = {}
    BY <1>1, <1>8, <1>11, <2>1 DEF Swept
  <2>3. O[v] \in Nat /\ O[w] \in Nat
    BY <1>10
  <2>4. /\ s.graph.tiles[v] \in Nat \ {0} /\ s.graph.tiles[w] \in Nat \ {0}
        /\ \A u : u \in Units(s, O[v], v) <=> u \in Nat /\ O[v] =< u /\ u < O[v] + s.graph.tiles[v]
        /\ \A u : u \in Units(s, O[w], w) <=> u \in Nat /\ O[w] =< u /\ u < O[w] + s.graph.tiles[w]
    BY <1>2, <2>3, UnitsAre
  <2>5. ~ (O[v] \in Units(s, O[w], w) /\ O[v] \in Units(s, O[v], v))
    BY <2>2
  <2>6. ~ (O[w] \in Units(s, O[w], w) /\ O[w] \in Units(s, O[v], v))
    BY <2>2
  <2> QED BY <2>3, <2>4, <2>5, <2>6
<1> QED BY <1>1, <1>9, <1>10, <1>11

-----------------------------------------------------------------------------
(* Remainders. *)

(* Remainders: those of small numbers, one grid on, and in between.        *)
LEMMA SmallRemainder ==
  ASSUME NEW W \in Nat \ {0}, NEW x \in 0 .. W - 1
  PROVE  x % W = x /\ (x + W) % W = x
  OBVIOUS

LEMMA Remainder ==
  ASSUME NEW W \in Nat \ {0}, NEW t \in Nat
  PROVE  \E q \in Nat : t = q * W + (t % W) /\ t % W \in 0 .. W - 1
<1>1. t \div W \in Nat /\ t = (t \div W) * W + (t % W) /\ t % W \in 0 .. W - 1
  OBVIOUS
<1> QED BY <1>1

(* Only one remainder is small enough.                                     *)
LEMMA OneRemainder ==
  ASSUME NEW W \in Nat \ {0}, NEW q \in Nat, NEW p \in Nat,
         NEW r \in 0 .. W - 1, NEW s \in 0 .. W - 1, q * W + r = p * W + s
  PROVE  q = p /\ r = s
<1>1. \A a, b \in Nat : a > b => a * W >= b * W + W
  <2> SUFFICES ASSUME NEW a \in Nat, NEW b \in Nat, a > b PROVE a * W >= b * W + W
    OBVIOUS
  <2>1. a - b - 1 \in Nat /\ (a - b - 1) * W \in Nat
    OBVIOUS
  <2>2. a * W = (a - b - 1) * W + b * W + W
    OBVIOUS
  <2>3. a * W \in Nat /\ b * W \in Nat
    OBVIOUS
  <2> QED BY <2>1, <2>2, <2>3
<1>2. q * W \in Nat /\ p * W \in Nat
  OBVIOUS
<1>3. ~ (q > p)
  BY <1>1, <1>2
<1>4. ~ (p > q)
  BY <1>1, <1>2
<1> QED BY <1>3, <1>4, <1>2

LEMMA NextRemainder ==
  ASSUME NEW W \in Nat \ {0}, NEW t \in Nat
  PROVE  t % W \in 0 .. W - 1 /\ (t + W) % W = t % W
<1>1. PICK q \in Nat : t = q * W + (t % W) /\ t % W \in 0 .. W - 1
  BY Remainder
<1>2. PICK p \in Nat : t + W = p * W + ((t + W) % W) /\ (t + W) % W \in 0 .. W - 1
  <2>1. t + W \in Nat
    OBVIOUS
  <2> QED BY <2>1, Remainder
<1>3. q * W \in Nat /\ (q + 1) * W = q * W + W
  OBVIOUS
<1>4. \A r, x \in Nat : t = q * W + r /\ t + W = p * W + x => (q + 1) * W + r = p * W + x
  BY <1>3
<1>5. q + 1 \in Nat
  OBVIOUS
<1>6. t % W = (t + W) % W
  <2> DEFINE r == t % W
             x == (t + W) % W
  <2>1. r \in 0 .. W - 1 /\ x \in 0 .. W - 1 /\ t = q * W + r /\ t + W = p * W + x
    BY <1>1, <1>2
  <2> HIDE DEF r, x
  <2>2. (q + 1) * W + r = p * W + x
    BY <2>1, <1>4
  <2>3. r = x
    BY <1>5, <2>1, <2>2, OneRemainder
  <2> QED BY <2>3 DEF r, x
<1> QED BY <1>1, <1>6

LEMMA RemainderOnce ==
  ASSUME NEW W \in Nat \ {0}, NEW t \in Nat, NEW s \in Nat,
         t % W = s % W, t =< s, s < t + W
  PROVE  s = t
<1>1. PICK q \in Nat : t = q * W + (t % W) /\ t % W \in 0 .. W - 1
  BY Remainder
<1>2. PICK p \in Nat : s = p * W + (s % W) /\ s % W \in 0 .. W - 1
  BY Remainder
<1>3. s - t \in 0 .. W - 1
  OBVIOUS
<1>4. p * W \in Nat /\ q * W \in Nat
  OBVIOUS
<1>5. p * W + 0 = q * W + (s - t)
  BY <1>1, <1>2, <1>4
<1> QED BY <1>3, <1>5, OneRemainder

-----------------------------------------------------------------------------
(* Plans. *)

N    == Len(plan.order)
P(v) == PhaseOf(plan, v)

(* A barrier between two phases.                                           *)
Apart(i, j) == \E b \in plan.barriers : i =< b /\ b < j

LEMMA PlanShape ==
  ASSUME PlanOK
  PROVE  /\ N \in Nat \ {0} /\ End = N + 1 /\ Phases(plan) = 1 .. N
         /\ \A i \in 1 .. N : Region(i) \in Regions(plan.graph) /\ P(Region(i)) = i
         /\ \A v \in Regions(plan.graph) : P(v) \in 1 .. N /\ Region(P(v)) = v
         /\ \A i \in 1 .. N : Tiles(i) \in Nat
         /\ plan.barriers \subseteq 1 .. N - 1
<1>1. N \in Nat /\ End = N + 1 /\ Phases(plan) = 1 .. N /\ DOMAIN plan.order = 1 .. N
  BY DEF PlanOK, N, End, Phases
<1>2. \A i \in 1 .. N : Region(i) \in Regions(plan.graph)
  BY <1>1 DEF PlanOK, N, Region
<1>3. \A v \in Regions(plan.graph) : \E i \in 1 .. N : Region(i) = v
  BY <1>1 DEF PlanOK, ToSet, Region
<1>4. \A i, j \in 1 .. N : Region(i) = Region(j) => i = j
  BY <1>1 DEF PlanOK, IsInjective, Region
<1>5. \A v \in Regions(plan.graph) : P(v) \in 1 .. N /\ Region(P(v)) = v
  BY <1>1, <1>3 DEF P, PhaseOf, Region
<1>6. N # 0
  <2>1. 1 \in Regions(plan.graph)
    BY DEF PlanOK, Regions
  <2> QED BY <2>1, <1>3, <1>1
<1>7. \A i \in 1 .. N : Tiles(i) \in Nat
  BY <1>2 DEF PlanOK, Tiles
<1>8. plan.barriers \subseteq 1 .. N - 1
  BY <1>1 DEF PlanOK
<1> QED BY <1>1, <1>2, <1>4, <1>5, <1>6, <1>7, <1>8

LEMMA IntervalEndIs ==
  ASSUME PlanOK, NEW i \in 1 .. N
  PROVE  IntervalEnd(plan, i) \in plan.barriers \cup {N} /\ IntervalEnd(plan, i) >= i
<1>1. Barred(plan) /\ N = Len(plan.order)
  BY PlanShape DEF PlanOK, Barred, N
<1>2. IntervalEnd(plan, i) \in plan.barriers \cup {N} /\ IntervalEnd(plan, i) \in i .. N
  BY <1>1, EndOfInterval
<1> QED BY <1>2

LEMMA BeforeIntervalEnd ==
  ASSUME PlanOK, NEW i \in 1 .. N, NEW j \in 1 .. N, IntervalEnd(plan, i) < j
  PROVE  Apart(i, j)
  BY IntervalEndIs, PlanShape DEF Apart

LEMMA IntervalStartIs ==
  ASSUME PlanOK, NEW i \in 1 .. N
  PROVE  \/ IntervalStart(plan, i) = 1
         \/ \E b \in plan.barriers : b < i /\ IntervalStart(plan, i) = b + 1
<1>1. Barred(plan) /\ N = Len(plan.order)
  BY PlanShape DEF PlanOK, Barred, N
<1> QED BY <1>1, StartOfInterval

LEMMA BeforeIntervalStart ==
  ASSUME PlanOK, NEW i \in 1 .. N, NEW j \in 1 .. N, j < IntervalStart(plan, i)
  PROVE  Apart(j, i)
  BY IntervalStartIs, PlanShape DEF Apart

-----------------------------------------------------------------------------
(* What the checks of PlanVerifies give. *)

(* What a phase reads is complete behind a barrier, or recomputed earlier. *)
LEMMA ReadsApart ==
  ASSUME PlanOK, SimulationAccepts(plan), NEW i \in 1 .. N,
         NEW p \in Prerequisites(plan.graph, Region(i)), p \in Regions(plan.graph)
  PROVE  Apart(P(p), i) \/ (P(p) < i /\ Recomputed(P(p)))
<1> DEFINE start  == IntervalStart(plan, i)
           before == {plan.order[j] : j \in start .. i - 1}
           behind == {plan.order[j] : j \in 1 .. start - 1}
<1>1. p \in behind \cup (before \cap plan.recompute)
  BY PlanShape DEF SimulationAccepts, Region
<1>2. start \in 1 .. N
  <2>1. start = 1 \/ \E b \in plan.barriers : start = b + 1
    BY IntervalStartIs
  <2> QED BY <2>1, PlanShape
<1>3. CASE p \in behind
  <2>1. PICK j \in 1 .. start - 1 : p = plan.order[j]
    BY <1>3
  <2>2. j \in 1 .. N /\ P(p) = j
    BY <1>2, <2>1, PlanShape DEF Region
  <2> QED BY <2>1, <2>2, BeforeIntervalStart, <1>2
<1>4. CASE p \in before \cap plan.recompute
  <2>1. PICK j \in start .. i - 1 : p = plan.order[j]
    BY <1>4
  <2>2. j \in 1 .. N /\ P(p) = j
    BY <1>2, <2>1, PlanShape DEF Region
  <2> QED BY <2>1, <2>2, <1>2, <1>4, PlanShape DEF Recomputed
<1> QED BY <1>1, <1>3, <1>4

LastUse(v) == Max({PhaseOf(plan, r) : r \in Readers(plan.graph, v) \cup {v}})

LEMMA LastUseIs ==
  ASSUME PlanOK, NEW v \in Regions(plan.graph)
  PROVE  /\ LastUse(v) \in 1 .. N
         /\ \A r \in Readers(plan.graph, v) \cup {v} : P(r) \in 1 .. N /\ P(r) =< LastUse(v)
<1> DEFINE R == Readers(plan.graph, v) \cup {v}
           U == {PhaseOf(plan, r) : r \in R}
<1>1. R \subseteq Regions(plan.graph) /\ v \in R
  BY DEF Readers
<1>2. U \subseteq 1 .. N /\ U # {}
  BY <1>1, PlanShape DEF P
<1>3. Max(U) \in U /\ \A y \in U : Max(U) >= y
  <2>1. IsFiniteSet(1 .. N) /\ \A y \in 1 .. N : y \in Int
    BY PlanShape, FS_Interval
  <2> HIDE DEF U
  <2>2. IsFiniteSet(U) /\ U \in SUBSET Int
    BY <1>2, <2>1, FS_Subset
  <2> QED BY <1>2, <2>2, MaxIsLargest
<1>4. \A r \in R : P(r) \in U
  BY DEF P
<1>5. LastUse(v) = Max(U)
  BY DEF LastUse
<1> HIDE DEF U
<1>6. \A r \in R : P(r) \in 1 .. N /\ P(r) =< LastUse(v)
  BY <1>2, <1>3, <1>4, <1>5
<1> QED BY <1>2, <1>3, <1>5, <1>6

LEMMA LifetimeIsNumber ==
  ASSUME PlanOK, NEW v \in Regions(plan.graph)
  PROVE  /\ Lifetime(plan, v).end = IntervalEnd(plan, LastUse(v)) + 1
         /\ IntervalEnd(plan, LastUse(v)) \in Int
<1>1. Lifetime(plan, v).end = IntervalEnd(plan, LastUse(v)) + 1
  BY DEF Lifetime, LastUse
<1>2. LastUse(v) \in 1 .. N
  BY LastUseIs
<1>3. IntervalEnd(plan, LastUse(v)) \in Int
  BY <1>2, IntervalEndIs, PlanShape
<1> QED BY <1>1, <1>3

(* A lifetime ends behind a barrier that everything that uses the value is *)
(* in front of.                                                            *)
LEMMA LifetimeEnds ==
  ASSUME PlanOK, NEW v \in Regions(plan.graph), NEW j \in 1 .. N,
         Lifetime(plan, v).end =< j
  PROVE  \A r \in Readers(plan.graph, v) \cup {v} : Apart(P(r), j)
<1>1. IntervalEnd(plan, LastUse(v)) < j
  BY LifetimeIsNumber
<1>2. PICK b \in plan.barriers : LastUse(v) =< b /\ b < j
  BY <1>1, LastUseIs, BeforeIntervalEnd DEF Apart
<1>3. ASSUME NEW r \in Readers(plan.graph, v) \cup {v} PROVE Apart(P(r), j)
  <2>1. P(r) \in Int /\ LastUse(v) \in Int /\ P(r) =< LastUse(v)
    BY LastUseIs
  <2>2. b \in Int /\ P(r) =< b
    BY <1>2, <2>1, PlanShape
  <2> QED BY <1>2, <2>2 DEF Apart
<1> QED BY <1>3

(* Two values that use the same byte: one takes it over from the other     *)
(* behind a barrier that all of the other's readers are in front of.       *)
LEMMA Sharing ==
  ASSUME PlanOK, StorageVerified(plan), StateWritesApart(plan),
         NEW v \in {0} \cup Regions(plan.graph), NEW w \in Regions(plan.graph), v # w,
         NEW t \in 0 .. plan.graph.tiles[v] - 1, NEW u \in 0 .. plan.graph.tiles[w] - 1,
         Cell(plan, v, t) = Cell(plan, w, u)
  PROVE  \/ /\ v # 0 => Apart(P(v), P(w))
            /\ \A r \in Readers(plan.graph, v) : Apart(P(r), P(w))
         \/ v # 0 /\ Apart(P(w), P(v))
<1>1. 0 \notin Regions(plan.graph) /\ plan.graph.inPlace \subseteq Regions(plan.graph)
  BY DEF PlanOK, Regions
<1>2. \A r \in Readers(plan.graph, v) : r \in Regions(plan.graph)
  BY DEF Readers
<1>3. CASE Storage(plan.graph, v) = 0
  <2>1. Storage(plan.graph, w) = 0
    BY <1>3 DEF Cell
  <2>2. w \in plan.graph.inPlace /\ v \in ({0} \cup plan.graph.inPlace) \ {w}
    BY <1>1, <1>3, <2>1 DEF Storage
  <2>3. \/ \A r \in Readers(plan.graph, v) \cup ({v} \ {0}) : Behind(plan, w, r)
        \/ v # 0 /\ Behind(plan, v, w)
    BY <2>2 DEF StateWritesApart
  <2>4. \A r, q \in Regions(plan.graph) : Behind(plan, r, q) => Apart(P(q), P(r))
    BY BeforeIntervalEnd, PlanShape DEF Behind, P
  <2> QED BY <1>2, <2>3, <2>4
<1>4. CASE Storage(plan.graph, v) # 0
  <2>1. v \in Regions(plan.graph) /\ v \notin plan.graph.inPlace
    BY <1>1, <1>4 DEF Storage
  <2>2. v \in WorkspaceValues(plan.graph) /\ w \in WorkspaceValues(plan.graph)
    BY <1>1, <1>4, <2>1 DEF Cell, WorkspaceValues, Storage
  <2>3. plan.offset[v] + t = plan.offset[w] + u
    BY <1>1, <1>4, <2>1, <2>2 DEF Cell, WorkspaceValues, Storage
  <2>4. /\ plan.offset[v] \in Nat /\ plan.offset[w] \in Nat
        /\ plan.graph.tiles[v] \in Nat /\ plan.graph.tiles[w] \in Nat
    BY <2>2 DEF PlanOK
  <2>5. ~ (Lifetime(plan, v).start < Lifetime(plan, w).end
           /\ Lifetime(plan, w).start < Lifetime(plan, v).end)
    BY <2>2, <2>3, <2>4 DEF StorageVerified
  <2>6. /\ Lifetime(plan, v).start \in 1 .. N /\ Lifetime(plan, v).start = P(v)
        /\ Lifetime(plan, w).start \in 1 .. N /\ Lifetime(plan, w).start = P(w)
    BY <2>1, PlanShape DEF Lifetime, P
  <2>7. Lifetime(plan, v).end \in Int /\ Lifetime(plan, w).end \in Int
    BY <2>1, LifetimeIsNumber
  <2>8. Lifetime(plan, w).end =< P(v) \/ Lifetime(plan, v).end =< P(w)
    BY <2>5, <2>6, <2>7
  <2>9. CASE Lifetime(plan, w).end =< P(v)
    BY <2>1, <2>6, <2>9, LifetimeEnds, <1>1
  <2>10. CASE Lifetime(plan, v).end =< P(w)
    BY <2>1, <2>6, <2>10, LifetimeEnds, <1>1
  <2> QED BY <2>8, <2>9, <2>10
<1> QED BY <1>3, <1>4

-----------------------------------------------------------------------------
(* The tiles a phase deals. *)

DealtTo(i, c, t) == Recomputed(i) \/ t % Workers = FirstTile(i, c)

(* The function of TilesBefore.                                            *)
Dealt(s, before, i) ==
  IF i = 1 \/ i - 1 \in s.barriers THEN 0
  ELSE before[i - 1] + (IF s.order[i - 1] \in s.recompute THEN 0 ELSE s.graph.tiles[s.order[i - 1]])

IsTilesBefore(s, m, f) == f = [i \in 1 .. m |-> Dealt(s, f, i)]

LEMMA TilesBeforeExist ==
  ASSUME NEW s, NEW n \in Nat
  PROVE  \E f : IsTilesBefore(s, n, f)
<1> DEFINE S == {m \in Nat : ~ \E f : IsTilesBefore(s, m, f)}
<1>1. SUFFICES ASSUME S # {} PROVE FALSE
  OBVIOUS
<1>2. PICK m \in S : \A k \in S : m =< k
  <2>1. S \in SUBSET Nat
    OBVIOUS
  <2> HIDE DEF S
  <2> QED BY <1>1, <2>1, LeastNumber
<1>3. m \in Nat /\ ~ \E f : IsTilesBefore(s, m, f)
  OBVIOUS
<1>4. CASE m = 0
  <2>1. PICK f : f = [i \in 1 .. 0 |-> 0]
    OBVIOUS
  <2>2. f = [i \in 1 .. 0 |-> Dealt(s, f, i)]
    BY <2>1
  <2> QED BY <1>3, <1>4, <2>2 DEF IsTilesBefore
<1>5. CASE m > 0
  <2>1. PICK k \in Nat : k = m - 1 /\ m = k + 1 /\ ~ (m =< k)
    BY <1>3, <1>5
  <2>2. PICK f : IsTilesBefore(s, k, f)
    BY <1>2, <2>1
  <2>3. PICK h : h = [i \in 1 .. m |-> IF i = m THEN Dealt(s, f, m) ELSE f[i]]
    OBVIOUS
  <2>4. \A i \in 1 .. m : Dealt(s, h, i) = Dealt(s, f, i)
    <3> SUFFICES ASSUME NEW i \in 1 .. m PROVE Dealt(s, h, i) = Dealt(s, f, i)
      OBVIOUS
    <3>1. i # 1 => h[i - 1] = f[i - 1]
      BY <2>1, <2>3
    <3> QED BY <3>1 DEF Dealt
  <2>5. \A i \in 1 .. m : i # m => f[i] = Dealt(s, f, i)
    <3>1. \A i \in 1 .. m : i # m => i \in 1 .. k
      BY <2>1
    <3> QED BY <2>2, <3>1 DEF IsTilesBefore
  <2>6. \A i \in 1 .. m : h[i] = Dealt(s, h, i)
    BY <2>3, <2>4, <2>5
  <2>7. h = [i \in 1 .. m |-> h[i]]
    BY <2>3
  <2>8. h = [i \in 1 .. m |-> Dealt(s, h, i)]
    BY <2>6, <2>7
  <2> QED BY <1>3, <2>8 DEF IsTilesBefore
<1> QED BY <1>3, <1>4, <1>5

(* TilesBefore counts tiles.                                               *)
LEMMA TilesBeforeIs ==
  ASSUME PlanOK, NEW i \in 1 .. N
  PROVE  TilesBefore(plan)[i] \in Nat
<1>1. PICK f : f = TilesBefore(plan)
  OBVIOUS
<1>2. f = CHOOSE h : h = [k \in 1 .. N |-> Dealt(plan, h, k)]
  BY <1>1, Zenon DEF TilesBefore, Dealt, N
<1>3. N \in Nat
  BY PlanShape
<1>4. IsTilesBefore(plan, N, f)
  <2>1. \E h : IsTilesBefore(plan, N, h)
    BY <1>3, TilesBeforeExist
  <2> QED BY <1>2, <2>1, Zenon DEF IsTilesBefore
<1>5. \A k \in 1 .. N : f[k] = Dealt(plan, f, k)
  BY <1>4 DEF IsTilesBefore
<1> DEFINE S == {k \in 1 .. N : f[k] \notin Nat}
<1>6. S = {}
  <2>1. SUFFICES ASSUME S # {} PROVE FALSE
    OBVIOUS
  <2>2. PICK k \in S : \A j \in S : k =< j
    <3>1. S \in SUBSET Nat
      BY <1>3
    <3> HIDE DEF S
    <3> QED BY <2>1, <3>1, LeastNumber
  <2>3. k \in 1 .. N /\ f[k] \notin Nat
    OBVIOUS
  <2>4. k # 1 /\ f[k] = f[k - 1] + (IF plan.order[k - 1] \in plan.recompute THEN 0
                                    ELSE plan.graph.tiles[plan.order[k - 1]])
    BY <1>5, <2>3 DEF Dealt
  <2>5. k - 1 \in 1 .. N /\ ~ (k =< k - 1)
    BY <1>3, <2>3, <2>4
  <2>6. f[k - 1] \in Nat
    BY <2>2, <2>5
  <2>7. plan.graph.tiles[plan.order[k - 1]] \in Nat
    BY <2>5, PlanShape DEF Tiles, Region
  <2> QED BY <2>3, <2>4, <2>6, <2>7
<1> QED BY <1>1, <1>6

LEMMA Rotations ==
  ASSUME PlanOK, NEW i \in 1 .. N
  PROVE  Rotation(i) \in 0 .. Workers - 1
<1>1. PICK before \in Nat : before = TilesBefore(plan)[i]
  BY TilesBeforeIs
<1>2. Workers \in Nat \ {0} /\ before % Workers \in 0 .. Workers - 1
  BY WorkersAssumption
<1> QED BY <1>1, <1>2 DEF Rotation

LEMMA FirstTiles ==
  ASSUME PlanOK, NEW i \in 1 .. N, NEW c \in Cta
  PROVE  /\ FirstTile(i, c) \in 0 .. Workers - 1
         /\ Recomputed(i) => FirstTile(i, c) = 0
<1>1. Workers \in Nat \ {0} /\ c + Workers - Rotation(i) \in Nat
  BY Rotations, WorkersAssumption DEF Cta
<1>2. \A x \in Nat : x % Workers \in 0 .. Workers - 1
  BY <1>1
<1> QED BY <1>1, <1>2 DEF FirstTile

(* Every tile is dealt to a CTA.                                           *)
LEMMA EveryTileDealt ==
  ASSUME PlanOK, NEW i \in 1 .. N, NEW t \in Nat
  PROVE  \E c \in Cta : DealtTo(i, c, t)
<1> DEFINE f == t % Workers
           r == Rotation(i)
<1>1. Workers \in Nat \ {0} /\ f \in 0 .. Workers - 1 /\ r \in 0 .. Workers - 1
  <2>1. \A x \in Nat : x % Workers \in 0 .. Workers - 1
    BY WorkersAssumption
  <2> QED BY <2>1, Rotations, WorkersAssumption
<1>2. \A c \in Cta : (c + Workers - r) % Workers = f => DealtTo(i, c, t)
  BY DEF DealtTo, FirstTile
<1> HIDE DEF f, r
<1>3. CASE f + r < Workers
  <2>1. f + r \in Cta /\ (f + r) + Workers - r = f + Workers
    BY <1>1, <1>3 DEF Cta
  <2> QED BY <1>1, <1>2, <2>1, SmallRemainder
<1>4. CASE f + r >= Workers
  <2>1. f + r - Workers \in Cta /\ (f + r - Workers) + Workers - r = f
    BY <1>1, <1>4 DEF Cta
  <2> QED BY <1>1, <1>2, <2>1, SmallRemainder
<1> QED BY <1>1, <1>3, <1>4

(* A CTA that starts at its first tile and goes on by the stride meets its *)
(* own tiles, all of them.                                                 *)
LEMMA FirstDealt ==
  ASSUME PlanOK, NEW i \in 1 .. N, NEW c \in Cta
  PROVE  /\ DealtTo(i, c, FirstTile(i, c))
         /\ \A t \in Nat : DealtTo(i, c, t) => FirstTile(i, c) =< t
<1>1. Workers \in Nat \ {0}
  BY WorkersAssumption
<1>2. FirstTile(i, c) % Workers = FirstTile(i, c)
  BY <1>1, FirstTiles, SmallRemainder
<1>3. \A t \in Nat : t % Workers =< t
  BY <1>1
<1> QED BY <1>2, <1>3, FirstTiles DEF DealtTo

LEMMA NextDealt ==
  ASSUME PlanOK, NEW i \in 1 .. N, NEW c \in Cta, NEW t \in Nat, DealtTo(i, c, t)
  PROVE  /\ t + Stride(i) \in Nat /\ DealtTo(i, c, t + Stride(i))
         /\ \A s \in Nat : DealtTo(i, c, s) /\ s < t + Stride(i) => s =< t
<1>1. Workers \in Nat \ {0}
  BY WorkersAssumption
<1>2. CASE Recomputed(i)
  BY <1>2 DEF DealtTo, Stride
<1>3. CASE ~ Recomputed(i)
  <2>1. Stride(i) = Workers
    BY <1>3 DEF Stride
  <2>2. t + Workers \in Nat /\ (t + Workers) % Workers = t % Workers
    <3>1. t + Workers \in Nat
      BY <1>1
    <3>2. (t + Workers) % Workers = t % Workers
      BY <1>1, NextRemainder, Zenon
    <3> QED BY <3>1, <3>2
  <2>3. \A s \in Nat : DealtTo(i, c, s) /\ s < t + Workers => s =< t
    <3> SUFFICES ASSUME NEW s \in Nat, DealtTo(i, c, s), s < t + Workers, ~ (s =< t)
                 PROVE  FALSE
      OBVIOUS
    <3>1. t % Workers = s % Workers
      BY <1>3 DEF DealtTo
    <3>2. t =< s
      OBVIOUS
    <3>3. s = t
      BY <1>1, <3>1, <3>2, <2>1, RemainderOnce, Zenon
    <3> QED BY <3>3
  <2> QED BY <1>3, <2>1, <2>2, <2>3 DEF DealtTo
<1> QED BY <1>2, <1>3

-----------------------------------------------------------------------------
(* The CTAs' walk. *)

Past(c, i, t) == phase[c] > i \/ (phase[c] = i /\ t < tile[c])

(* A tile of a value some CTA has run.                                     *)
Ran(v, t) == \E c \in Cta : DealtTo(P(v), c, t) /\ Past(c, P(v), t)

(* CTAs are at tiles they are dealt, and through with a phase whose barrier*)
(* they are at; nobody is in front of a barrier that another is behind.    *)
OnOwnTile(c)   == phase[c] \in 1 .. N => DealtTo(phase[c], c, tile[c])
AtBarrier(c)   == at[c] = "barrier" => phase[c] \in plan.barriers /\ tile[c] >= Tiles(phase[c])
Reached(c, b)  == phase[c] > b \/ (phase[c] = b /\ at[c] = "barrier")

Walk ==
  /\ TypeOK
  /\ \A c \in Cta : OnOwnTile(c) /\ AtBarrier(c)
  /\ \A c, d \in Cta : \A b \in plan.barriers : phase[d] > b => Reached(c, b)

LEMMA SamePlan ==
  ASSUME plan' = plan
  PROVE  /\ N' = N /\ End' = End
         /\ \A v : P(v)' = P(v)
         /\ \A i : Region(i)' = Region(i) /\ Tiles(i)' = Tiles(i) /\ (Recomputed(i)' <=> Recomputed(i))
         /\ \A i, c : FirstTile(i, c)' = FirstTile(i, c)
         /\ \A i, c, t : DealtTo(i, c, t)' <=> DealtTo(i, c, t)
         /\ \A i, j : Apart(i, j)' <=> Apart(i, j)
         /\ PlanOK' <=> PlanOK
         /\ PlanVerifies' <=> PlanVerifies
<1>1. N' = N /\ End' = End
  BY DEF N, End
<1>2. \A v : P(v)' = P(v)
  BY DEF P
<1>3. \A i : Region(i)' = Region(i) /\ Tiles(i)' = Tiles(i) /\ (Recomputed(i)' <=> Recomputed(i))
  BY DEF Region, Tiles, Recomputed
<1>4. \A i, c : FirstTile(i, c)' = FirstTile(i, c)
  BY <1>3 DEF FirstTile, Rotation
<1>5. \A i, c, t : DealtTo(i, c, t)' <=> DealtTo(i, c, t)
  BY <1>3, <1>4 DEF DealtTo
<1>6. \A i, j : Apart(i, j)' <=> Apart(i, j)
  BY DEF Apart
<1>7. PlanOK' <=> PlanOK
  BY <1>1 DEF PlanOK
<1>8. PlanVerifies' <=> PlanVerifies
  BY <1>7 DEF PlanVerifies
<1> QED BY <1>1, <1>2, <1>3, <1>4, <1>5, <1>6, <1>7, <1>8

LEMMA WalkInit == Init /\ PlanOK => Walk
<1> SUFFICES ASSUME Init, PlanOK PROVE Walk
  OBVIOUS
<1>1. /\ 1 \in 1 .. N /\ 1 \in 1 .. End
      /\ \A c \in Cta : FirstTile(1, c) \in Nat
  BY PlanShape, FirstTiles
<1>2. TypeOK
  <2>1. FreshMemory(plan) \in [AllCells(plan) -> {Junk, 0} \cup Regions(plan.graph)]
    BY DEF FreshMemory
  <2> QED BY <1>1, <2>1 DEF Init, TypeOK
<1>3. \A c \in Cta : OnOwnTile(c)
  BY <1>1, FirstDealt DEF Init, OnOwnTile
<1>4. \A c \in Cta : AtBarrier(c)
  BY DEF Init, AtBarrier
<1>5. \A d \in Cta : \A b \in plan.barriers : ~ (phase[d] > b)
  BY PlanShape DEF Init
<1> QED BY <1>2, <1>3, <1>4, <1>5 DEF Walk

(* What a CTA is in the middle of.                                         *)
LEMMA InPhase ==
  ASSUME Walk, NEW c \in Cta, phase[c] < End
  PROVE  /\ phase[c] \in 1 .. N /\ tile[c] \in Nat /\ Tiles(phase[c]) \in Nat
         /\ Region(phase[c]) \in Regions(plan.graph)
         /\ DealtTo(phase[c], c, tile[c])
<1>1. phase[c] \in 1 .. N /\ tile[c] \in Nat
  BY PlanShape DEF Walk, TypeOK
<1> QED BY <1>1, PlanShape DEF Walk, OnOwnTile, TypeOK

LEMMA WalkRun ==
  ASSUME Walk, NEW c \in Cta, RunTile(c)
  PROVE  Walk'
<1> DEFINE i == phase[c]
<1>1. plan' = plan /\ phase' = phase /\ at' = at
  BY DEF RunTile
<1>2. i < End /\ at[c] = "run" /\ tile[c] < Tiles(i)
  BY DEF RunTile, HasTile
<1>3. tile' = [tile EXCEPT ![c] = @ + Stride(i)]
  BY DEF RunTile
<1>4. tile[c] + Stride(i) \in Nat /\ DealtTo(i, c, tile[c] + Stride(i))
  BY <1>2, InPhase, NextDealt DEF Walk, TypeOK
<1>5. TypeOK'
  <2>1. tile' \in [Cta -> Nat]
    BY <1>3, <1>4 DEF Walk, TypeOK
  <2>2. memory' \in [AllCells(plan) -> {Junk, 0} \cup Regions(plan.graph)]
    <3>1. Region(i) \in Regions(plan.graph)
      BY <1>2, InPhase
    <3> QED BY <3>1 DEF RunTile, Walk, TypeOK
  <2> QED BY <1>1, <2>1, <2>2, SamePlan DEF Walk, TypeOK
<1>6. ASSUME NEW d \in Cta PROVE OnOwnTile(d)' /\ AtBarrier(d)'
  <2>1. OnOwnTile(d) /\ AtBarrier(d)
    BY DEF Walk
  <2>2. CASE d = c
    <3>1. tile'[d] = tile[c] + Stride(i) /\ phase'[d] = i /\ at'[d] = "run"
      BY <1>1, <1>2, <1>3, <2>2 DEF Walk, TypeOK
    <3> QED BY <1>1, <1>4, <2>2, <3>1, SamePlan DEF OnOwnTile, AtBarrier
  <2>3. CASE d # c
    <3>1. tile'[d] = tile[d]
      BY <1>3, <2>3 DEF Walk, TypeOK
    <3> QED BY <1>1, <2>1, <3>1, SamePlan DEF OnOwnTile, AtBarrier
  <2> QED BY <2>2, <2>3
<1>7. (\A a, d \in Cta : \A b \in plan.barriers : phase[d] > b => Reached(a, b))'
  BY <1>1 DEF Walk, Reached
<1> QED BY <1>5, <1>6, <1>7 DEF Walk

LEMMA WalkArrive ==
  ASSUME Walk, NEW c \in Cta, ArriveBarrier(c)
  PROVE  Walk'
<1>1. plan' = plan /\ phase' = phase /\ tile' = tile /\ memory' = memory
  BY DEF ArriveBarrier
<1>2. phase[c] \in plan.barriers /\ at' = [at EXCEPT ![c] = "barrier"]
  BY DEF ArriveBarrier
<1>3. TypeOK'
  BY <1>1, <1>2, SamePlan DEF Walk, TypeOK
<1>4. phase[c] < End
  BY <1>2, PlanShape DEF Walk, TypeOK
<1>5. tile[c] >= Tiles(phase[c])
  BY <1>4, InPhase DEF ArriveBarrier, HasTile
<1>6. ASSUME NEW d \in Cta PROVE OnOwnTile(d)' /\ AtBarrier(d)'
  <2>1. OnOwnTile(d) /\ AtBarrier(d)
    BY DEF Walk
  <2>2. at'[d] = "barrier" => d = c \/ at[d] = "barrier"
    BY <1>2 DEF Walk, TypeOK
  <2> QED BY <1>1, <1>2, <1>5, <2>1, <2>2, SamePlan DEF OnOwnTile, AtBarrier
<1>7. (\A a, d \in Cta : \A b \in plan.barriers : phase[d] > b => Reached(a, b))'
  <2>1. \A a \in Cta : at[a] = "barrier" => at'[a] = "barrier"
    BY <1>2 DEF Walk, TypeOK
  <2> QED BY <1>1, <2>1 DEF Walk, Reached
<1> QED BY <1>3, <1>6, <1>7 DEF Walk

(* A CTA that leaves a phase with all its tiles run, behind the barrier if *)
(* the phase has one.                                                      *)
Leaves(c) ==
  /\ phase[c] < End /\ tile[c] >= Tiles(phase[c])
  /\ phase[c] \in plan.barriers => \A d \in Cta : Reached(d, phase[c])
  /\ NextPhase(c)
  /\ UNCHANGED <<plan, memory>>

LEMMA PhaseEndLeaves ==
  ASSUME Walk, NEW c \in Cta, EndPhase(c)
  PROVE  Leaves(c)
  BY InPhase DEF EndPhase, HasTile, Leaves

LEMMA BarrierLeaves ==
  ASSUME Walk, NEW c \in Cta, LeaveBarrier(c)
  PROVE  Leaves(c)
<1>1. phase[c] \in plan.barriers /\ tile[c] >= Tiles(phase[c])
  BY DEF LeaveBarrier, Walk, AtBarrier
<1>2. phase[c] < End
  BY <1>1, PlanShape DEF Walk, TypeOK
<1> QED BY <1>1, <1>2 DEF LeaveBarrier, Leaves, Reached

LEMMA WalkLeaves ==
  ASSUME Walk, NEW c \in Cta, Leaves(c)
  PROVE  Walk'
<1> DEFINE i == phase[c]
           first == IF i + 1 < End THEN FirstTile(i + 1, c) ELSE 0
<1>1. plan' = plan /\ memory' = memory
  BY DEF Leaves
<1>2. /\ phase' = [phase EXCEPT ![c] = i + 1] /\ tile' = [tile EXCEPT ![c] = first]
      /\ at' = [at EXCEPT ![c] = "run"]
  BY DEF Leaves, NextPhase
<1>3. i \in 1 .. N /\ i + 1 \in 1 .. End /\ (i + 1 < End => i + 1 \in 1 .. N)
  BY InPhase, PlanShape DEF Leaves, Walk, TypeOK
<1>4. first \in Nat /\ (i + 1 \in 1 .. N => DealtTo(i + 1, c, first))
  BY <1>3, FirstTiles, FirstDealt, PlanShape DEF Walk, TypeOK
<1> HIDE DEF first
<1>5. TypeOK'
  BY <1>1, <1>2, <1>3, <1>4, SamePlan DEF Walk, TypeOK
<1>6. ASSUME NEW d \in Cta PROVE OnOwnTile(d)' /\ AtBarrier(d)'
  <2>1. OnOwnTile(d) /\ AtBarrier(d)
    BY DEF Walk
  <2>2. CASE d = c
    <3>1. tile'[d] = first /\ phase'[d] = i + 1 /\ at'[d] = "run"
      BY <1>2, <2>2 DEF Walk, TypeOK
    <3> QED BY <1>1, <1>4, <2>2, <3>1, SamePlan DEF OnOwnTile, AtBarrier
  <2>3. CASE d # c
    <3>1. tile'[d] = tile[d] /\ phase'[d] = phase[d] /\ at'[d] = at[d]
      BY <1>2, <2>3 DEF Walk, TypeOK
    <3> QED BY <1>1, <2>1, <3>1, SamePlan DEF OnOwnTile, AtBarrier
  <2> QED BY <2>2, <2>3
<1>7. ASSUME NEW a \in Cta, NEW d \in Cta, NEW b \in plan.barriers, phase'[d] > b
      PROVE  Reached(a, b)'
  <2>1. b \in Int /\ \A e \in Cta : phase[e] \in Int
    BY PlanShape DEF Walk, TypeOK
  <2>2. Reached(a, b)
    <3>1. CASE phase[d] > b
      BY <3>1 DEF Walk
    <3>2. CASE d = c /\ i = b
      BY <3>2 DEF Leaves
    <3>3. d # c => phase'[d] = phase[d]
      BY <1>2 DEF Walk, TypeOK
    <3>4. phase'[c] = i + 1
      BY <1>2 DEF Walk, TypeOK
    <3> QED BY <1>7, <2>1, <3>1, <3>2, <3>3, <3>4
  <2>3. CASE a = c
    <3>1. phase'[a] = i + 1 /\ phase[a] = i
      BY <1>2, <2>3 DEF Walk, TypeOK
    <3> QED BY <2>1, <2>2, <3>1 DEF Reached
  <2>4. CASE a # c
    <3>1. phase'[a] = phase[a] /\ at'[a] = at[a]
      BY <1>2, <2>4 DEF Walk, TypeOK
    <3> QED BY <2>2, <3>1 DEF Reached
  <2> QED BY <2>3, <2>4
<1> QED BY <1>1, <1>5, <1>6, <1>7 DEF Walk

-----------------------------------------------------------------------------
(* Memory. *)

TilesOf(v) == 0 .. plan.graph.tiles[v] - 1

(* Some tile that takes over the byte of a tile of v has been run.         *)
Overwritten(v, t) ==
  \E w \in Regions(plan.graph) \ {v} : \E u \in TilesOf(w) :
    /\ Cell(plan, w, u) = Cell(plan, v, t)
    /\ v # 0 => Apart(P(v), P(w))
    /\ Ran(w, u)

(* A tile that has been run and not been overwritten is in memory.         *)
Kept ==
  \A v \in {0} \cup Regions(plan.graph) : \A t \in TilesOf(v) :
    (v = 0 \/ Ran(v, t)) /\ ~ Overwritten(v, t) => memory[Cell(plan, v, t)] = v

LEMMA TileNumbers ==
  ASSUME PlanOK, NEW v \in Regions(plan.graph), NEW t \in TilesOf(v)
  PROVE  t \in Nat /\ t < Tiles(P(v))
<1>1. plan.graph.tiles[v] \in Nat /\ plan.graph.tiles[v] = Tiles(P(v))
  BY PlanShape DEF PlanOK, Tiles
<1> QED BY <1>1 DEF TilesOf

(* At the start nothing has been run.                                      *)
LEMMA NothingRan ==
  ASSUME Init, PlanOK, NEW v \in Regions(plan.graph), NEW t \in TilesOf(v)
  PROVE  ~ Ran(v, t)
<1> SUFFICES ASSUME NEW c \in Cta, DealtTo(P(v), c, t), Past(c, P(v), t) PROVE FALSE
  BY DEF Ran
<1>1. P(v) \in 1 .. N /\ N \in Nat /\ t \in Nat /\ phase[c] = 1 /\ tile[c] = FirstTile(1, c)
  BY PlanShape, TileNumbers DEF Init
<1>2. P(v) = 1 /\ t < FirstTile(1, c)
  BY <1>1 DEF Past
<1>3. FirstTile(1, c) =< t /\ FirstTile(1, c) \in Nat
  BY <1>1, <1>2, FirstDealt, FirstTiles
<1> QED BY <1>1, <1>2, <1>3

(* What a step that keeps the plan makes of the walk's words.              *)
PastNext(c, i, t) == phase'[c] > i \/ (phase'[c] = i /\ t < tile'[c])

LEMMA RanNext ==
  ASSUME PlanOK, plan' = plan, NEW v \in Regions(plan.graph), NEW t
  PROVE  Ran(v, t)' <=> \E d \in Cta : DealtTo(P(v), d, t) /\ PastNext(d, P(v), t)
<1>1. PICK p : p = P(v)
  OBVIOUS
<1>2. P(v)' = p
  BY <1>1, SamePlan
<1>3. \A d \in Cta : DealtTo(p, d, t)' <=> DealtTo(p, d, t)
  BY SamePlan
<1>4. \A d \in Cta : Past(d, p, t)' <=> PastNext(d, p, t)
  BY DEF Past, PastNext
<1>5. Ran(v, t)' <=> \E d \in Cta : DealtTo(p, d, t)' /\ Past(d, p, t)'
  BY <1>2 DEF Ran, DealtTo, Past
<1> QED BY <1>1, <1>3, <1>4, <1>5

(* A run tile is the one tile that is new.                                 *)
LEMMA RunAddsTile ==
  ASSUME Walk, NEW c \in Cta, RunTile(c),
         NEW v \in Regions(plan.graph), NEW t \in TilesOf(v)
  PROVE  Ran(v, t)' <=> Ran(v, t) \/ (v = Region(phase[c]) /\ t = tile[c])
<1> DEFINE i == phase[c]
           next == tile[c] + Stride(i)
<1>1. plan' = plan /\ phase' = phase /\ tile' = [tile EXCEPT ![c] = next]
  BY DEF RunTile
<1>2. /\ i \in 1 .. N /\ tile[c] \in Nat /\ Region(i) \in Regions(plan.graph)
      /\ P(Region(i)) = i /\ DealtTo(i, c, tile[c]) /\ PlanOK
  BY InPhase, PlanShape DEF RunTile, HasTile, Walk, TypeOK
<1>3. /\ next \in Nat /\ tile[c] < next
      /\ \A s \in Nat : DealtTo(i, c, s) /\ s < next => s =< tile[c]
  <2>1. Stride(i) \in Nat \ {0}
    BY WorkersAssumption DEF Stride
  <2> QED BY <1>2, <2>1, NextDealt
<1> HIDE DEF next
<1>4. \A d \in Cta : /\ phase'[d] = phase[d] /\ phase[d] \in Int /\ tile[d] \in Nat
                     /\ tile'[d] = IF d = c THEN next ELSE tile[d]
  BY <1>1, <1>2, PlanShape DEF Walk, TypeOK
<1>5. t \in Nat /\ P(v) \in 1 .. N /\ Region(P(v)) = v
  BY <1>2, TileNumbers, PlanShape
<1>6. \A d \in Cta : Past(d, P(v), t) => PastNext(d, P(v), t)
  BY <1>2, <1>3, <1>4, <1>5 DEF Past, PastNext
<1>7. v = Region(i) /\ t = tile[c] => DealtTo(P(v), c, t) /\ PastNext(c, P(v), t)
  BY <1>2, <1>3, <1>4 DEF PastNext
<1>8. ASSUME NEW d \in Cta, DealtTo(P(v), d, t), PastNext(d, P(v), t), ~ Past(d, P(v), t)
      PROVE  v = Region(i) /\ t = tile[c]
  <2>1. d = c /\ P(v) = i /\ t < next /\ ~ (t < tile[c])
    BY <1>4, <1>8 DEF Past, PastNext
  <2>2. t =< tile[c]
    BY <1>3, <1>5, <1>8, <2>1
  <2> QED BY <1>2, <1>5, <2>1, <2>2
<1>9. Ran(v, t)' <=> \E d \in Cta : DealtTo(P(v), d, t) /\ PastNext(d, P(v), t)
  BY <1>1, <1>2, RanNext
<1> QED BY <1>6, <1>7, <1>8, <1>9 DEF Ran

(* Going on to the next phase runs nothing.                                *)
LEMMA LeavingRunsNothing ==
  ASSUME Walk, NEW c \in Cta, Leaves(c),
         NEW v \in Regions(plan.graph), NEW t \in TilesOf(v)
  PROVE  Ran(v, t)' <=> Ran(v, t)
<1> DEFINE i == phase[c]
           first == IF i + 1 < End THEN FirstTile(i + 1, c) ELSE 0
<1>1. plan' = plan /\ phase' = [phase EXCEPT ![c] = i + 1] /\ tile' = [tile EXCEPT ![c] = first]
  BY DEF Leaves, NextPhase
<1>2. i \in 1 .. N /\ tile[c] \in Nat /\ Tiles(i) \in Nat /\ tile[c] >= Tiles(i) /\ PlanOK
  BY InPhase DEF Leaves, Walk, TypeOK
<1>3. t \in Nat /\ t < Tiles(P(v)) /\ P(v) \in 1 .. N
  BY <1>2, TileNumbers, PlanShape
<1>4. N \in Nat /\ End = N + 1
  BY <1>2, PlanShape
<1>5. P(v) = i + 1 /\ DealtTo(P(v), c, t) => first =< t /\ first \in Nat
  BY <1>2, <1>3, <1>4, FirstDealt, FirstTiles
<1> HIDE DEF first
<1>6. \A d \in Cta : /\ phase[d] \in Int /\ phase'[d] = (IF d = c THEN i + 1 ELSE phase[d])
                     /\ tile[d] \in Nat /\ tile'[d] = IF d = c THEN first ELSE tile[d]
  BY <1>1, <1>4 DEF Walk, TypeOK
<1>7. ASSUME NEW d \in Cta, DealtTo(P(v), d, t)
      PROVE  PastNext(d, P(v), t) <=> Past(d, P(v), t)
  <2>1. CASE d # c
    BY <1>6, <2>1 DEF Past, PastNext
  <2>2. CASE d = c /\ P(v) = i + 1
    BY <1>2, <1>3, <1>5, <1>6, <1>7, <2>2 DEF Past, PastNext
  <2>3. CASE d = c /\ P(v) # i + 1
    <3>1. CASE P(v) = i
      <4>1. t < tile[c]
        BY <1>2, <1>3, <3>1
      <4> QED BY <1>2, <1>3, <1>6, <2>3, <3>1, <4>1 DEF Past, PastNext
    <3>2. CASE P(v) # i
      BY <1>2, <1>3, <1>6, <2>3, <3>2 DEF Past, PastNext
    <3> QED BY <3>1, <3>2
  <2> QED BY <2>1, <2>2, <2>3
<1>8. Ran(v, t)' <=> \E d \in Cta : DealtTo(P(v), d, t) /\ PastNext(d, P(v), t)
  BY <1>1, <1>2, RanNext
<1> QED BY <1>7, <1>8 DEF Ran

(* With a barrier between two phases, while some CTA is in the later one   *)
(* every CTA is through with the earlier one.                              *)
LEMMA Lockstep ==
  ASSUME Walk, NEW c \in Cta, NEW d \in Cta, NEW i \in 1 .. N, NEW j \in 1 .. N,
         Apart(i, j), phase[d] >= j
  PROVE  /\ ~ (phase[c] < i)
         /\ phase[c] = i => at[c] = "barrier" /\ tile[c] >= Tiles(i)
<1>1. PICK b \in plan.barriers : i =< b /\ b < j
  BY DEF Apart
<1>2. b \in Int /\ j \in Int /\ phase[d] \in Int /\ phase[c] \in Int
  BY PlanShape DEF Walk, TypeOK
<1>3. Reached(c, b)
  BY <1>1, <1>2 DEF Walk
<1>4. AtBarrier(c)
  BY DEF Walk
<1> QED BY <1>1, <1>2, <1>3, <1>4 DEF Reached, AtBarrier

LEMMA RanInPhase ==
  ASSUME Walk, NEW v \in Regions(plan.graph), NEW t, Ran(v, t)
  PROVE  \E d \in Cta : phase[d] >= P(v)
<1>1. PICK d \in Cta : Past(d, P(v), t)
  BY DEF Ran
<1>2. P(v) \in Int /\ phase[d] \in Int
  BY PlanShape DEF Walk, TypeOK
<1> QED BY <1>1, <1>2 DEF Past

LEMMA KeptInit == Init /\ PlanOK => Kept
<1> SUFFICES ASSUME Init, PlanOK, NEW v \in {0} \cup Regions(plan.graph), NEW t \in TilesOf(v),
                    v = 0 \/ Ran(v, t)
             PROVE  memory[Cell(plan, v, t)] = v
  BY DEF Kept
<1>1. v = 0
  BY NothingRan
<1>2. Cell(plan, v, t) \in Cells(plan, 0) /\ Cells(plan, 0) \subseteq AllCells(plan)
  BY <1>1 DEF Cells, AllCells, TilesOf
<1> QED BY <1>1, <1>2 DEF Init, FreshMemory

LEMMA OverwrittenNext ==
  ASSUME plan' = plan, NEW v, NEW t
  PROVE  Overwritten(v, t)' <=>
           \E w \in Regions(plan.graph) \ {v} : \E u \in TilesOf(w) :
             /\ Cell(plan, w, u) = Cell(plan, v, t)
             /\ v # 0 => Apart(P(v), P(w))
             /\ Ran(w, u)'
  BY DEF Overwritten, Apart, P, TilesOf

(* A step that neither runs a tile nor writes loses nothing.               *)
LEMMA KeptStays ==
  ASSUME Kept, plan' = plan, memory' = memory,
         \A v \in Regions(plan.graph) : \A t \in TilesOf(v) : Ran(v, t)' <=> Ran(v, t)
  PROVE  Kept'
<1>1. ASSUME NEW v \in {0} \cup Regions(plan.graph), NEW t \in TilesOf(v)
      PROVE  Overwritten(v, t)' <=> Overwritten(v, t)
  BY OverwrittenNext DEF Overwritten
<1>2. ASSUME NEW v \in {0} \cup Regions(plan.graph), NEW t \in TilesOf(v),
             v = 0 \/ Ran(v, t)', ~ Overwritten(v, t)'
      PROVE  memory'[Cell(plan, v, t)] = v
  BY <1>1, <1>2 DEF Kept
<1>3. \A v : TilesOf(v)' = TilesOf(v)
  BY DEF TilesOf
<1> QED BY <1>2, <1>3 DEF Kept

(* A run tile takes over bytes only from values that are overwritten then. *)
LEMMA KeptRun ==
  ASSUME Walk, Kept, PlanVerifies, NEW c \in Cta, RunTile(c)
  PROVE  Kept'
<1> PICK w, u : w = Region(phase[c]) /\ u = tile[c]
  OBVIOUS
<1>1. plan' = plan /\ memory' = [memory EXCEPT ![Cell(plan, w, u)] = w]
  BY DEF RunTile
<1>2. /\ w \in Regions(plan.graph) /\ P(w) = phase[c] /\ P(w) \in 1 .. N /\ u \in TilesOf(w)
      /\ PlanOK /\ at[c] = "run"
  <2>1. phase[c] < End /\ u < Tiles(phase[c]) /\ at[c] = "run" /\ PlanOK
    BY DEF RunTile, HasTile, Walk, TypeOK
  <2>2. /\ w \in Regions(plan.graph) /\ P(w) = phase[c] /\ P(w) \in 1 .. N
        /\ u \in Nat /\ Tiles(phase[c]) \in Nat
    BY <2>1, InPhase, PlanShape
  <2> QED BY <2>1, <2>2 DEF TilesOf, Tiles
<1>3. ASSUME NEW v \in Regions(plan.graph), NEW t \in TilesOf(v)
      PROVE  Ran(v, t)' <=> Ran(v, t) \/ (v = w /\ t = u)
  BY RunAddsTile
<1>4. ASSUME NEW v \in {0} \cup Regions(plan.graph), NEW t \in TilesOf(v),
             v = 0 \/ Ran(v, t)', ~ Overwritten(v, t)'
      PROVE  memory'[Cell(plan, v, t)] = v
  <2>1. Cell(plan, v, t) \in AllCells(plan) /\ Cell(plan, w, u) \in AllCells(plan)
    BY <1>2 DEF AllCells, Cells, TilesOf
  <2>2. CASE Cell(plan, v, t) # Cell(plan, w, u)
    <3>1. v = 0 \/ Ran(v, t)
      BY <1>3, <1>4, <2>2
    <3>2. ~ Overwritten(v, t)
      BY <1>1, <1>3, <1>4, OverwrittenNext DEF Overwritten
    <3>3. memory'[Cell(plan, v, t)] = memory[Cell(plan, v, t)]
      BY <1>1, <2>1, <2>2 DEF Walk, TypeOK
    <3> QED BY <3>1, <3>2, <3>3 DEF Kept
  <2>3. CASE v = w /\ Cell(plan, v, t) = Cell(plan, w, u)
    BY <1>1, <2>1, <2>3 DEF Walk, TypeOK
  <2>4. CASE v # w /\ Cell(plan, v, t) = Cell(plan, w, u)
    <3>1. CASE v # 0 => Apart(P(v), P(w))
      <4>1. Ran(w, u)'
        BY <1>2, <1>3
      <4>2. Overwritten(v, t)'
        BY <1>1, <1>2, <2>4, <3>1, <4>1, OverwrittenNext
      <4> QED BY <1>4, <4>2
    <3>2. CASE v # 0 /\ Apart(P(w), P(v))
      <4>1. v \in Regions(plan.graph) /\ Ran(v, t)
        BY <1>3, <1>4, <2>4, <3>2
      <4>2. PICK d \in Cta : phase[d] >= P(v)
        BY <4>1, RanInPhase
      <4>3. P(v) \in 1 .. N
        BY <1>2, <4>1, PlanShape
      <4> QED BY <1>2, <3>2, <4>2, <4>3, Lockstep
    <3>3. (v # 0 => Apart(P(v), P(w))) \/ (v # 0 /\ Apart(P(w), P(v)))
      BY <1>2, <2>4, Sharing DEF PlanVerifies, TilesOf
    <3> QED BY <3>1, <3>2, <3>3
  <2> QED BY <2>2, <2>3, <2>4
<1>5. \A v : TilesOf(v)' = TilesOf(v)
  BY <1>1 DEF TilesOf
<1> QED BY <1>1, <1>4, <1>5 DEF Kept

-----------------------------------------------------------------------------
(* The theorems. *)

LEMMA WalkStep == Walk /\ [Next]_vars => Walk'
<1> SUFFICES ASSUME Walk, [Next]_vars PROVE Walk'
  OBVIOUS
<1>1. ASSUME NEW c \in Cta, CtaStep(c) PROVE Walk'
  BY <1>1, WalkRun, WalkArrive, PhaseEndLeaves, BarrierLeaves, WalkLeaves DEF CtaStep
<1>2. CASE UNCHANGED vars
  BY <1>2, SamePlan DEF Walk, TypeOK, OnOwnTile, AtBarrier, Reached, vars
<1> QED BY <1>1, <1>2 DEF Next, KernelEnds

Inv == Walk /\ Kept /\ PlanVerifies

LEMMA InvStep == Inv /\ [Next]_vars => Inv'
<1> SUFFICES ASSUME Inv, [Next]_vars PROVE Inv'
  OBVIOUS
<1>1. Walk /\ Kept /\ PlanVerifies /\ PlanOK /\ Walk'
  BY WalkStep DEF Inv, Walk, TypeOK
<1>2. ASSUME NEW c \in Cta, RunTile(c) PROVE Kept' /\ plan' = plan
  BY <1>1, <1>2, KeptRun DEF RunTile
<1>3. ASSUME NEW c \in Cta, Leaves(c) PROVE Kept' /\ plan' = plan
  <2>1. plan' = plan /\ memory' = memory
    BY <1>3 DEF Leaves
  <2> QED BY <1>1, <1>3, <2>1, LeavingRunsNothing, KeptStays
<1>4. ASSUME UNCHANGED <<plan, phase, tile, memory>> PROVE Kept' /\ plan' = plan
  <2>1. ASSUME NEW v \in Regions(plan.graph), NEW t \in TilesOf(v)
        PROVE  Ran(v, t)' <=> Ran(v, t)
    BY <1>1, <1>4, RanNext DEF Ran, Past, PastNext
  <2> QED BY <1>1, <1>4, <2>1, KeptStays
<1>5. ASSUME NEW c \in Cta, CtaStep(c) PROVE Kept' /\ plan' = plan
  BY <1>1, <1>2, <1>3, <1>4, <1>5, PhaseEndLeaves, BarrierLeaves DEF CtaStep, ArriveBarrier
<1>6. Kept' /\ plan' = plan
  BY <1>4, <1>5 DEF Next, KernelEnds, vars
<1> QED BY <1>1, <1>6, SamePlan DEF Inv

(* What a phase reads has been run, and nothing has taken its bytes over.  *)
LEMMA ReadsKept == Inv => ReadsProducers
<1> SUFFICES ASSUME Inv, NEW c \in Cta, HasTile(c), NEW v \in plan.graph.reads[Region(phase[c])],
                    NEW t \in TilesOf(v)
             PROVE  memory[Cell(plan, v, t)] = v
  BY DEF ReadsProducers, Holds, Cells, TilesOf
<1> DEFINE i == phase[c]
           r == Region(i)
<1>1. Walk /\ Kept /\ PlanVerifies /\ PlanOK /\ at[c] = "run" /\ i < End
  BY DEF Inv, Walk, TypeOK, HasTile
<1>2. /\ i \in 1 .. N /\ r \in Regions(plan.graph) /\ P(r) = i
      /\ v \in {0} \cup Regions(plan.graph) /\ r \in Readers(plan.graph, v)
  BY <1>1, InPhase, PlanShape DEF PlanOK, Readers
<1>3. v = 0 \/ Ran(v, t)
  <2> SUFFICES ASSUME v # 0 PROVE Ran(v, t)
    OBVIOUS
  <2>1. v \in Regions(plan.graph) /\ P(v) \in 1 .. N /\ t \in Nat /\ t < Tiles(P(v))
    BY <1>1, <1>2, TileNumbers, PlanShape
  <2>2. v \in Prerequisites(plan.graph, r)
    <3>1. <<v, r>> \in Dependencies(plan.graph)
      BY <1>2, <2>1 DEF Dependencies
    <3> HIDE DEF r
    <3> QED BY <3>1 DEF Prerequisites
  <2>3. PICK d \in Cta : DealtTo(P(v), d, t)
    BY <1>1, <2>1, EveryTileDealt
  <2>4. /\ Tiles(P(v)) \in Nat
        /\ \A e \in Cta : phase[e] \in Int /\ tile[e] \in Nat
    BY <1>1, <2>1, PlanShape DEF Walk, TypeOK
  <2>5. CASE Apart(P(v), i)
    <3>1. ~ (phase[d] < P(v)) /\ (phase[d] = P(v) => tile[d] >= Tiles(P(v)))
      BY <1>1, <1>2, <2>1, <2>5, Lockstep
    <3>2. Past(d, P(v), t)
      BY <2>1, <2>4, <3>1 DEF Past
    <3> QED BY <2>3, <3>2 DEF Ran
  <2>6. CASE P(v) < i /\ Recomputed(P(v))
    BY <2>1, <2>4, <2>6 DEF Ran, Past, DealtTo
  <2> QED BY <1>1, <1>2, <2>1, <2>2, <2>5, <2>6, ReadsApart DEF PlanVerifies
<1>4. ASSUME NEW w \in Regions(plan.graph) \ {v}, NEW u \in TilesOf(w),
             Cell(plan, w, u) = Cell(plan, v, t), v # 0 => Apart(P(v), P(w)), Ran(w, u)
      PROVE  FALSE
  <2>1. PICK d \in Cta : phase[d] >= P(w)
    BY <1>1, <1>4, RanInPhase
  <2>2. P(w) \in 1 .. N /\ (v # 0 => P(v) \in 1 .. N)
    BY <1>1, <1>2, PlanShape
  <2>3. CASE Apart(P(r), P(w))
    BY <1>1, <1>2, <2>1, <2>2, <2>3, Lockstep
  <2>4. CASE v # 0 /\ Apart(P(w), P(v))
    BY <1>1, <1>4, <2>2, <2>4, PlanShape DEF Apart
  <2>5. Apart(P(r), P(w)) \/ (v # 0 /\ Apart(P(w), P(v)))
    BY <1>1, <1>2, <1>4, Sharing DEF PlanVerifies, TilesOf
  <2> QED BY <2>3, <2>4, <2>5
<1> QED BY <1>1, <1>2, <1>3, <1>4 DEF Kept, Overwritten

(* At the end every tile has been run; an output shares its bytes with     *)
(* nothing, and the last in-place write comes behind all the others.       *)
LEMMA OutputsKept == Inv => OutputsComplete
<1> SUFFICES ASSUME Inv, Finished PROVE
      /\ \A v \in plan.graph.outputs : Holds(plan, memory, v)
      /\ plan.graph.inPlace # {} => Holds(plan, memory, Max(plan.graph.inPlace))
  BY DEF OutputsComplete
<1>1. Walk /\ Kept /\ PlanVerifies /\ PlanOK
  BY DEF Inv, Walk, TypeOK
<1>2. ASSUME NEW v \in Regions(plan.graph), NEW t \in TilesOf(v) PROVE Ran(v, t)
  <2>1. N \in Nat /\ P(v) \in 1 .. N /\ t \in Nat /\ End = N + 1
    BY <1>1, TileNumbers, PlanShape
  <2>2. PICK d \in Cta : DealtTo(P(v), d, t)
    BY <1>1, <2>1, EveryTileDealt
  <2>3. phase[d] > P(v)
    BY <2>1 DEF Finished
  <2> QED BY <2>2, <2>3 DEF Ran, Past
<1>3. ASSUME NEW v \in Regions(plan.graph), \A t \in TilesOf(v) : ~ Overwritten(v, t)
      PROVE  Holds(plan, memory, v)
  BY <1>1, <1>2, <1>3 DEF Kept, Holds, Cells, TilesOf
<1>4. ASSUME NEW v \in plan.graph.outputs PROVE Holds(plan, memory, v)
  <2>1. v \in Regions(plan.graph) /\ v \notin plan.graph.inPlace /\ v # 0
    BY <1>1 DEF PlanOK, Regions
  <2>2. \A w \in Regions(plan.graph) \ {v} : \A t, u : Cell(plan, w, u) # Cell(plan, v, t)
    BY <2>1 DEF Cell, Storage
  <2> QED BY <1>3, <2>1, <2>2 DEF Overwritten
<1>5. ASSUME plan.graph.inPlace # {} PROVE Holds(plan, memory, Max(plan.graph.inPlace))
  <2> DEFINE last == Max(plan.graph.inPlace)
  <2>1. plan.graph.inPlace \subseteq Regions(plan.graph) /\ Regions(plan.graph) = 1 .. plan.graph.n
    BY <1>1 DEF PlanOK, Regions
  <2>2. last \in plan.graph.inPlace /\ \A w \in plan.graph.inPlace : last >= w
    <3>1. plan.graph.n \in Nat
      BY <1>1 DEF PlanOK
    <3>2. IsFiniteSet(1 .. plan.graph.n)
      BY <3>1, FS_Interval
    <3>3. IsFiniteSet(plan.graph.inPlace) /\ plan.graph.inPlace \in SUBSET Int
      BY <2>1, <3>1, <3>2, FS_Subset
    <3> QED BY <1>5, <3>3, MaxIsLargest
  <2> HIDE DEF last
  <2>3. ASSUME NEW w \in Regions(plan.graph) \ {last}, NEW t, NEW u,
               Cell(plan, w, u) = Cell(plan, last, t), Apart(P(last), P(w))
        PROVE  FALSE
    <3>1. w \in plan.graph.inPlace
      BY <2>1, <2>2, <2>3 DEF Cell, Storage, Regions
    <3>2. w < last
      BY <2>1, <2>2, <2>3, <3>1
    <3>3. w \in Prerequisites(plan.graph, last)
      <4>1. <<w, last>> \in Dependencies(plan.graph)
        BY <2>1, <2>2, <3>1, <3>2 DEF Dependencies, StorageWritten, StorageOf, Storage
      <4> QED BY <4>1 DEF Prerequisites
    <3>4. P(last) \in 1 .. N /\ Region(P(last)) = last /\ P(w) \in 1 .. N
      BY <1>1, <2>1, <2>2, PlanShape
    <3>5. Apart(P(w), P(last)) \/ P(w) < P(last)
      BY <1>1, <3>3, <3>4, ReadsApart DEF PlanVerifies
    <3> QED BY <1>1, <2>3, <3>4, <3>5, PlanShape DEF Apart
  <2>4. last \in Regions(plan.graph) /\ last # 0
    BY <2>1, <2>2
  <2> QED BY <1>3, <2>3, <2>4 DEF Overwritten, last
<1> QED BY <1>4, <1>5

(* CTAs stay inside the plan, and write only the cells the plan gives them.*)
LEMMA TypesKept == Spec /\ PlanOK => []TypeOK
<1>1. Init /\ PlanOK => Walk
  BY WalkInit
<1>2. Walk /\ [Next]_vars => Walk'
  BY WalkStep
<1>3. Walk => TypeOK
  BY DEF Walk
<1> QED BY <1>1, <1>2, <1>3, PTL DEF Spec

LEMMA InvHolds == Spec /\ PlanVerifies => []Inv
<1>1. Init /\ PlanVerifies => Inv
  BY WalkInit, KeptInit DEF Inv, PlanVerifies
<1>2. Inv /\ [Next]_vars => Inv'
  BY InvStep
<1> QED BY <1>1, <1>2, PTL DEF Spec

(* Whatever the order in which any number of CTAs run the tiles of a plan  *)
(* that its sequential checks accept, no tile reads bytes that are not     *)
(* there yet or not there any more.                                        *)
THEOREM VerifiedPlansReadProducers == Spec /\ PlanVerifies => []ReadsProducers
  BY InvHolds, ReadsKept, PTL

(* And such a plan leaves the graph's results in the caller's tensors.     *)
THEOREM VerifiedPlansCompleteOutputs == Spec /\ PlanVerifies => []OutputsComplete
  BY InvHolds, OutputsKept, PTL

-----------------------------------------------------------------------------
(* The compiler's plans. *)

(* What a plan takes from its schedule.                                    *)
LEMMA SameSchedule ==
  ASSUME NEW s, NEW p, p.graph = s.graph, p.order = s.order,
         p.barriers = s.barriers, p.recompute = s.recompute
  PROVE  /\ Scheduled(s) => Scheduled(p)
         /\ \A v : Lifetime(p, v) = Lifetime(s, v)
<1>1. \A i, j : SameInterval(p, i, j) <=> SameInterval(s, i, j)
  BY DEF SameInterval
<1>2. Barred(s) => Barred(p)
  BY DEF Barred
<1>3. Scheduled(s) => Scheduled(p)
  BY <1>1, <1>2 DEF Scheduled
<1>4. \A v : PhaseOf(p, v) = PhaseOf(s, v)
  BY DEF PhaseOf, Phases
<1>5. \A i : IntervalEnd(p, i) = IntervalEnd(s, i)
  BY DEF IntervalEnd
<1>6. ASSUME NEW v PROVE Lifetime(p, v) = Lifetime(s, v)
  <2>1. {PhaseOf(p, r) : r \in Readers(p.graph, v) \cup {v}} = {PhaseOf(s, r) : r \in Readers(s.graph, v) \cup {v}}
    BY <1>4
  <2> QED BY <1>4, <1>5, <2>1 DEF Lifetime
<1> QED BY <1>3, <1>6

(* A compiled plan is a schedule of its graph with storage for it.         *)
LEMMA PlansAre ==
  ASSUME NEW p \in Plans
  PROVE  /\ p.graph \in Graphs /\ GraphOK(p.graph)
         /\ Scheduled(p) /\ StorageVerified(p)
         /\ p.offset \in [WorkspaceValues(p.graph) -> Nat]
<1>1. PICK g \in Graphs : p = AssignStorage(MakePhaseSchedule(g))
  BY DEF Plans
<1>2. GraphOK(g)
  BY GraphsAssumption
<1>3. PICK s : s = MakePhaseSchedule(g)
  OBVIOUS
<1>4. s.graph = g /\ Scheduled(s)
  BY <1>2, <1>3, MakesSchedules
<1>5. PICK O : O = AllocateWorkspace(s)
  OBVIOUS
<1>6. /\ O \in [WorkspaceValues(g) -> Nat]
      /\ \A v, w \in WorkspaceValues(g) : v # w /\ Coexist(s, v, w) =>
           O[v] + g.tiles[v] =< O[w] \/ O[w] + g.tiles[w] =< O[v]
  BY <1>2, <1>4, <1>5, AllocationIs
<1>7. /\ p.graph = s.graph /\ p.order = s.order /\ p.barriers = s.barriers
      /\ p.recompute = s.recompute /\ p.offset = O
  BY <1>1, <1>3, <1>5 DEF AssignStorage
<1>8. Scheduled(p) /\ \A v : Lifetime(p, v) = Lifetime(s, v)
  BY <1>4, <1>7, SameSchedule
<1>9. StorageVerified(p)
  BY <1>4, <1>6, <1>7, <1>8 DEF StorageVerified, Coexist
<1> QED BY <1>2, <1>4, <1>6, <1>7, <1>8, <1>9

LEMMA CompiledPlanOK == plan \in Plans => PlanOK
<1> SUFFICES ASSUME plan \in Plans PROVE PlanOK
  OBVIOUS
<1>1. GraphOK(plan.graph) /\ Scheduled(plan) /\ plan.offset \in [WorkspaceValues(plan.graph) -> Nat]
  BY PlansAre
<1>2. PICK n \in Nat \ {0} : n = plan.graph.n
  BY <1>1 DEF GraphOK
<1>3. {0} \cup (1 .. n) = 0 .. n
  OBVIOUS
<1>4. /\ plan.graph.tiles \in [0 .. n -> Nat] /\ plan.graph.reads \in [1 .. n -> SUBSET (0 .. n)]
      /\ plan.graph.inPlace \subseteq 1 .. n
      /\ plan.graph.outputs \subseteq (1 .. n) \ plan.graph.inPlace
  BY <1>1, <1>2 DEF GraphOK, Regions
<1>5. /\ plan.order \in Seq(1 .. n) /\ IsInjective(plan.order) /\ ToSet(plan.order) = 1 .. n
      /\ plan.recompute \subseteq 1 .. n /\ plan.barriers \subseteq 1 .. Len(plan.order) - 1
      /\ Len(plan.order) \in Nat
  BY <1>1, <1>2 DEF Scheduled, Barred, Regions
<1>6. plan.barriers \subseteq 1 .. End - 2
  <2>1. PICK m \in Nat : m = Len(plan.order)
    BY <1>5
  <2>2. End - 2 = m - 1
    BY <2>1 DEF End
  <2> QED BY <1>5, <2>1, <2>2
<1> QED BY <1>1, <1>2, <1>3, <1>4, <1>5, <1>6 DEF PlanOK, Regions

(* make_phase_schedule and assign_storage make plans that the sequential   *)
(* checks accept, for every graph.                                         *)
LEMMA CompiledPlanVerifies == plan \in Plans /\ WritersStay(plan.graph) => PlanVerifies
  BY CompiledPlanOK, PlansAre, SchedulesSimulate, SchedulesKeepWritesApart DEF PlanVerifies

LEMMA PlansStay == Spec => [](plan \in Plans)
<1>1. Init => plan \in Plans
  BY DEF Init
<1>2. [Next]_vars => plan' = plan
  BY DEF Next, CtaStep, RunTile, EndPhase, ArriveBarrier, LeaveBarrier, KernelEnds, vars
<1>3. plan \in Plans /\ [Next]_vars => (plan \in Plans)'
  BY <1>2 DEF Plans
<1> QED BY <1>1, <1>3, PTL DEF Spec

(* FewestBarriers: levels cannot be fewer, for any graph, and a schedule   *)
(* has a barrier less than levels, folding or not.                         *)
THEOREM SchedulesAreShortest == Spec => []FewestBarriers
<1>1. plan \in Plans => FewestBarriers
  <2> SUFFICES ASSUME plan \in Plans PROVE FewestBarriers
    OBVIOUS
  <2>1. GraphOK(plan.graph) /\ Scheduled(plan)
    BY PlansAre
  <2>2. FewestIntervals(plan.graph)
    BY <2>1, LevelsAreFewest
  <2>3. Cardinality(plan.barriers) < Len(Levels(plan.graph))
    BY <2>1 DEF Scheduled
  <2> QED BY <2>2, <2>3 DEF FewestBarriers
<1> QED BY <1>1, PlansStay, PTL

(* PlanVerifies: the compiler makes only plans that its checks accept, of  *)
(* graphs whose in-place writers are too large to fold.                    *)
THEOREM CompiledPlansVerify ==
  ASSUME \A g \in Graphs : WritersStay(g)
  PROVE  Spec => []PlanVerifies
<1>1. plan \in Plans => PlanVerifies
  BY PlansAre, CompiledPlanVerifies
<1> QED BY <1>1, PlansStay, PTL

(* From the graph to the last byte: no tile of a compiled kernel reads     *)
(* bytes that are not there, whatever the graph, the grid and the order in *)
(* which CTAs run.                                                         *)
THEOREM CompiledPlansReadProducers ==
  ASSUME \A g \in Graphs : WritersStay(g)
  PROVE  Spec => []ReadsProducers
<1>1. Spec => []PlanVerifies
  BY CompiledPlansVerify
<1> QED BY <1>1, VerifiedPlansReadProducers, PTL

(* And a compiled kernel leaves the graph's results in the caller's        *)
(* tensors.                                                                *)
THEOREM CompiledPlansCompleteOutputs ==
  ASSUME \A g \in Graphs : WritersStay(g)
  PROVE  Spec => []OutputsComplete
<1>1. Spec => []PlanVerifies
  BY CompiledPlansVerify
<1> QED BY <1>1, VerifiedPlansCompleteOutputs, PTL

(* A compiled plan has the shape PlanOK, and CTAs stay inside it and write *)
(* only the cells it gives them.                                           *)
THEOREM MegaKernelTypeCorrect == Spec => []TypeOK
<1>1. Spec => []PlanOK
  BY CompiledPlanOK, PlansStay, PTL
<1> QED BY <1>1, TypesKept, PTL

-----------------------------------------------------------------------------
(* Region schedules. *)

(* The phase of a task, and the tasks of a phase.                          *)
LEMMA TaskPhases ==
  ASSUME NEW n \in Nat, NEW t \in 1 .. n * Workers
  PROVE  \E i \in 1 .. n : /\ i = (t - 1) \div Workers + 1
                           /\ (i - 1) * Workers < t /\ t =< i * Workers
<1>1. PICK w \in Nat \ {0} : w = Workers
  BY WorkersAssumption
<1>2. PICK u \in Nat : u = t - 1
  BY <1>1
<1>3. PICK q \in Nat : q = u \div w /\ u = q * w + (u % w) /\ u % w \in 0 .. w - 1
  BY <1>1
<1>4. n * w \in Nat /\ u < n * w /\ q * w \in Nat /\ q * w =< u /\ u < q * w + w
  BY <1>1, <1>2, <1>3
<1>5. q < n
  <2>1. SUFFICES ASSUME q >= n PROVE FALSE
    BY <1>3
  <2>2. PICK more \in Nat : q = n + more
    BY <1>3, <2>1
  <2>3. q * w = n * w + more * w /\ more * w \in Nat
    BY <1>1, <2>2
  <2> QED BY <1>1, <1>4, <2>3
<1>6. (q + 1) * w = q * w + w
  BY <1>1, <1>3
<1>7. (q + 1) - 1 = q /\ q + 1 \in 1 .. n
  BY <1>3, <1>5
<1>8. t = u + 1
  BY <1>2
<1>9. ((q + 1) - 1) * w < t /\ t =< (q + 1) * w
  BY <1>4, <1>6, <1>7, <1>8
<1> QED BY <1>1, <1>2, <1>3, <1>7, <1>9

LEMMA FirstTask ==
  ASSUME NEW n \in Nat, NEW j \in 1 .. n
  PROVE  \E u \in 1 .. n * Workers : (u - 1) \div Workers + 1 = j
<1>1. PICK w \in Nat \ {0} : w = Workers
  BY WorkersAssumption
<1>2. PICK k \in Nat : k = j - 1
  OBVIOUS
<1>3. PICK q \in Nat : q = k * w
  BY <1>1
<1>4. q + w =< n * w /\ n * w \in Nat
  <2>1. PICK more \in Nat : n = k + 1 + more
    BY <1>2
  <2>2. n * w = k * w + w + more * w /\ more * w \in Nat
    BY <1>1, <2>1
  <2> QED BY <1>1, <1>3, <2>2
<1>5. PICK u \in 1 .. n * w : u = q + 1
  BY <1>1, <1>3, <1>4
<1>6. (u - 1) \div w = k
  <2>1. PICK d \in Nat : d = (u - 1) \div w /\ u - 1 = d * w + ((u - 1) % w) /\ (u - 1) % w \in 0 .. w - 1
    <3>1. u - 1 \in Nat
      BY <1>1, <1>4
    <3> QED BY <1>1, <3>1
  <2>2. k * w + 0 = d * w + ((u - 1) % w)
    BY <1>1, <1>3, <1>5, <2>1
  <2>3. 0 \in 0 .. w - 1
    BY <1>1
  <2> QED BY <1>1, <2>1, <2>2, <2>3, OneRemainder
<1>7. k + 1 = j
  BY <1>2
<1> QED BY <1>1, <1>5, <1>6, <1>7

(* _verify_event_schedule accepts the region schedule of every graph, on   *)
(* every grid: an event has producers, and all of them come earlier in the *)
(* common order that every CTA walks.  So no CTAs can wait for each other. *)
THEOREM RegionSchedulesVerify ==
  ASSUME NEW g \in Graphs
  PROVE  VerifyEventSchedule(MakeRegionEventSchedule(MakePhaseSchedule(g), Workers))
<1>1. PICK s : s = MakePhaseSchedule(g)
  OBVIOUS
<1>2. s.graph = g /\ GraphOK(g) /\ Scheduled(s)
  BY <1>1, GraphsAssumption, MakesSchedules
<1>3. PICK n \in Nat : n = Len(s.order)
  BY <1>2 DEF Scheduled, Barred
<1>4. PICK tasks : tasks = RegionTasks(s, Workers)
  OBVIOUS
<1>5. n * Workers \in Nat
  BY <1>3, WorkersAssumption
<1>6. /\ DOMAIN tasks = 1 .. n * Workers
      /\ \A t \in 1 .. n * Workers : tasks[t].region = s.order[(t - 1) \div Workers + 1]
  BY <1>3, <1>4 DEF RegionTasks
<1>7. ASSUME NEW t \in DOMAIN tasks, NEW p \in Prerequisites(g, tasks[t].region)
      PROVE  TasksOf(tasks, p) # {} /\ Max(TasksOf(tasks, p)) < t
  <2>1. PICK i \in 1 .. n : /\ i = (t - 1) \div Workers + 1
                            /\ (i - 1) * Workers < t /\ t =< i * Workers
    BY <1>6, TaskPhases
  <2>2. PICK j \in 1 .. n : j < i /\ s.order[j] = p
    <3>1. i \in 1 .. Len(s.order)
      BY <1>3, <2>1
    <3>2. tasks[t].region = s.order[i]
      BY <1>6, <2>1
    <3>3. p \in Prerequisites(s.graph, s.order[i])
      BY <1>2, <1>7, <3>2
    <3>4. GraphOK(s.graph) /\ Scheduled(s)
      BY <1>2
    <3>5. PICK j \in 1 .. Len(s.order) : j < i /\ s.order[j] = p
      <4>1. \E j \in 1 .. Len(s.order) :
              /\ j < i /\ s.order[j] = p /\ PhaseOf(s, p) = j
              /\ SameInterval(s, j, i) =>
                   /\ p \in s.recompute
                   /\ s.order[i] \notin s.recompute =>
                        Storage(s.graph, s.order[i]) \notin StorageUsed(s.graph, {p})
        BY <3>1, <3>3, <3>4, PrerequisitePhases, ZenonT(60)
      <4> QED BY <4>1
    <3> QED BY <1>3, <3>5
  <2>3. PICK S : S = TasksOf(tasks, p)
    OBVIOUS
  <2>4. S # {}
    <3>1. PICK u \in 1 .. n * Workers : (u - 1) \div Workers + 1 = j
      BY FirstTask
    <3>2. u \in S
      BY <1>6, <2>2, <2>3, <3>1 DEF TasksOf
    <3> QED BY <3>2
  <2>5. ASSUME NEW u \in S PROVE u \in 1 .. n * Workers /\ u < t
    <3>1. u \in 1 .. n * Workers /\ tasks[u].region = p
      BY <1>6, <2>3 DEF TasksOf
    <3>2. PICK k \in 1 .. n : /\ k = (u - 1) \div Workers + 1
                              /\ (k - 1) * Workers < u /\ u =< k * Workers
      BY <3>1, TaskPhases
    <3>3. s.order[k] = p
      BY <1>6, <3>1, <3>2
    <3>4. k = j
      <4>1. PhaseOf(s, s.order[k]) = k /\ PhaseOf(s, s.order[j]) = j
        BY <1>2, <1>3, PhaseIs
      <4> QED BY <2>2, <3>3, <4>1
    <3>5. j * Workers =< (i - 1) * Workers
      <4>1. PICK w \in Nat \ {0} : w = Workers
        BY WorkersAssumption
      <4>2. PICK more \in Nat : i - 1 = j + more
        <5>1. i - 1 - j \in Int /\ i - (j + 1) \in Nat
          BY <2>2
        <5>2. i - 1 = j + (i - (j + 1))
          BY <2>2
        <5> QED BY <5>1, <5>2
      <4>3. (i - 1) * w = j * w + more * w /\ more * w \in Nat /\ j * w \in Nat
        BY <4>1, <4>2
      <4> QED BY <4>1, <4>3
    <3>6. j * Workers \in Nat /\ (i - 1) * Workers \in Nat /\ t \in Nat /\ u \in Nat
      BY <1>5, <1>6, <3>1, WorkersAssumption
    <3> QED BY <2>1, <3>1, <3>2, <3>4, <3>5, <3>6
  <2>6. S \in SUBSET Int /\ IsFiniteSet(S)
    <3>1. IsFiniteSet(1 .. n * Workers) /\ S \subseteq 1 .. n * Workers
      BY <1>5, <2>5, FS_Interval
    <3>2. IsFiniteSet(S)
      BY <3>1, FS_Subset
    <3> QED BY <3>1, <3>2
  <2>7. Max(S) \in S
    BY <2>4, <2>6, MaxIsLargest
  <2> QED BY <2>3, <2>4, <2>5, <2>7
<1>8. MakeRegionEventSchedule(s, Workers).prerequisites =
        UNION {{<<t, TasksOf(tasks, p)>> : p \in Prerequisites(g, tasks[t].region)} : t \in DOMAIN tasks}
  BY <1>2, <1>4 DEF MakeRegionEventSchedule
<1>9. \A q \in MakeRegionEventSchedule(s, Workers).prerequisites : q[2] # {} /\ Max(q[2]) < q[1]
  BY <1>7, <1>8
<1> QED BY <1>1, <1>9 DEF VerifyEventSchedule

=============================================================================

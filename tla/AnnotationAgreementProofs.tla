----------------------- MODULE AnnotationAgreementProofs -----------------------
(***************************************************************************)
(* What holds of the corpus commands for files of any size, any spans and  *)
(* any thresholds.  The operators proved about are those of the matching   *)
(* and the measures: sorting, sums over finite sets, the dynamic program   *)
(* and its walk back, counts by value.  Induction and recursion are over   *)
(* sets and functions: their lemmas come first, then sorting, sums, the    *)
(* validator, the table, the matching, the counts, the coefficients, and   *)
(* last the invariant of the files and the theorems.                       *)
(***************************************************************************)
EXTENDS AnnotationAgreement, SequenceTheorems, FiniteSetTheorems, WellFoundedInduction, TLAPS

-----------------------------------------------------------------------------
(* Induction and recursion on the numbers, with a set and a function in    *)
(* the place of operators.                                                 *)

LEMMA Induction ==
    ASSUME NEW T, 0 \in T, \A n \in Nat : n \in T => n + 1 \in T
    PROVE  \A n \in Nat : n \in T
  <1>1. PICK R : R = OpToRel(<, Nat)
    OBVIOUS
  <1>2. IsWellFoundedOn(R, Nat)
    BY <1>1, NatLessThanWellFounded
  <1>3. PICK U : U = {n \in Nat : n \notin T}
    OBVIOUS
  <1>4. SUFFICES ASSUME U # {} PROVE FALSE
    BY <1>3
  <1>5. PICK x \in U : \A y \in U : ~(<<y, x>> \in R)
    <2>1. U \subseteq Nat
      BY <1>3
    <2>2. QED
      BY <1>2, <1>4, <2>1, WFMin
  <1>6. x \in Nat /\ x \notin T /\ x # 0
    BY <1>3
  <1>7. x - 1 \in Nat /\ x - 1 < x
    BY <1>6
  <1>8. <<x - 1, x>> \in R
    BY <1>1, <1>6, <1>7 DEF OpToRel
  <1>9. x - 1 \in T
    BY <1>3, <1>5, <1>7, <1>8
  <1>10. (x - 1) + 1 \in T
    BY <1>7, <1>9
  <1>11. QED
    BY <1>6, <1>10

RecursesTo(g, N, S, base, step) ==
    /\ g \in [0 .. N -> S] /\ g[0] = base
    /\ \A n \in 0 .. N - 1 : g[n + 1] = step[<<n, g[n]>>]

(* A function may be defined by its first value and a step.                *)
LEMMA Recursion ==
    ASSUME NEW N \in Nat, NEW S, NEW base \in S, NEW step \in [Nat \X S -> S]
    PROVE  \E g : RecursesTo(g, N, S, base, step)
  <1> DEFINE T == {m \in Nat : \E g : RecursesTo(g, m, S, base, step)}
  <1> USE DEF RecursesTo
  <1>1. 0 \in T
    <2>1. RecursesTo([n \in 0 .. 0 |-> base], 0, S, base, step)
      OBVIOUS
    <2>2. QED
      BY <2>1
  <1>2. ASSUME NEW m \in Nat, m \in T PROVE m + 1 \in T
    <2>1. PICK g : RecursesTo(g, m, S, base, step)
      BY <1>2
    <2>2. PICK h : h = [n \in 0 .. m + 1 |-> IF n = m + 1 THEN step[<<m, g[m]>>] ELSE g[n]]
      OBVIOUS
    <2>3. g[m] \in S /\ step[<<m, g[m]>>] \in S
      BY <2>1
    <2>4. h \in [0 .. m + 1 -> S] /\ h[0] = base
      BY <2>1, <2>2, <2>3
    <2>5. ASSUME NEW n \in 0 .. m PROVE h[n + 1] = step[<<n, h[n]>>]
      <3>1. CASE n = m
        <4>1. m \in 0 .. m + 1 /\ m + 1 \in 0 .. m + 1 /\ m # m + 1
          OBVIOUS
        <4>2. h[m] = g[m] /\ h[m + 1] = step[<<m, g[m]>>]
          BY <2>2, <4>1
        <4>3. QED
          BY <3>1, <4>2
      <3>2. CASE n # m
        <4>1. n \in 0 .. m - 1 /\ n + 1 \in 0 .. m
          BY <3>2
        <4>2. h[n] = g[n] /\ h[n + 1] = g[n + 1]
          BY <2>2, <4>1
        <4>3. QED
          BY <2>1, <4>1, <4>2
      <3>3. QED
        BY <3>1, <3>2
    <2>6. RecursesTo(h, m + 1, S, base, step)
      BY <2>4, <2>5
    <2>7. QED
      BY <2>6
  <1> HIDE DEF T
  <1>3. N \in T
    BY <1>1, <1>2, Induction
  <1>4. QED
    BY <1>3 DEF T

(* A set built up from nothing, a member at a time.                        *)
LEMMA FiniteInduction ==
    ASSUME NEW S, IsFiniteSet(S), NEW T, {} \in T,
           \A A \in SUBSET S : \A x \in S : A \in T /\ x \notin A => A \cup {x} \in T
    PROVE  S \in T
  <1>1. PICK N : N = {n \in Nat : \A A \in SUBSET S : Cardinality(A) = n => A \in T}
    OBVIOUS
  <1>2. ASSUME NEW A \in SUBSET S
        PROVE  IsFiniteSet(A) /\ Cardinality(A) \in Nat /\ (Cardinality(A) = 0 <=> A = {})
    <2>1. IsFiniteSet(A)
      BY FS_Subset
    <2>2. QED
      BY <2>1, FS_CardinalityType, FS_EmptySet
  <1>3. 0 \in N
    BY <1>1, <1>2
  <1>4. ASSUME NEW n \in Nat, n \in N PROVE n + 1 \in N
    <2>1. SUFFICES ASSUME NEW A \in SUBSET S, Cardinality(A) = n + 1 PROVE A \in T
      BY <1>1
    <2>2. PICK x \in A : TRUE
      BY <1>2, <2>1
    <2>3. Cardinality(A \ {x}) = n
      <3>1. Cardinality(A \ {x}) = Cardinality(A) - 1
        BY <1>2, <2>2, FS_RemoveElement
      <3>2. QED
        BY <2>1, <3>1
    <2>4. A \ {x} \in T
      BY <1>1, <1>4, <2>3
    <2>5. (A \ {x}) \cup {x} \in T
      BY <2>2, <2>4
    <2>6. (A \ {x}) \cup {x} = A
      BY <2>2
    <2>7. QED
      BY <2>5, <2>6
  <1>5. Cardinality(S) \in N
    BY <1>2, <1>3, <1>4, Induction
  <1>6. QED
    BY <1>1, <1>5

(* A table whose cells are computed from cells of a lower rank: computed   *)
(* over and over from any table, it settles.                               *)
IsTable(t, D, V, F) == t \in [D -> V] /\ t = F[t]

(* Such a table exists.                                                    *)
LEMMA TableRecursion ==
    ASSUME NEW D, NEW V, NEW v \in V, NEW K \in Nat, NEW rank \in [D -> 0 .. K - 1],
           NEW F \in [[D -> V] -> [D -> V]],
           \A t, u \in [D -> V] : \A d \in D :
              (\A e \in D : rank[e] < rank[d] => t[e] = u[e]) => F[t][d] = F[u][d]
    PROVE  \E t : IsTable(t, D, V, F)
  <1>1. PICK Tables : Tables = [D -> V]
    OBVIOUS
  <1>2. PICK step : step = [q \in Nat \X Tables |-> F[q[2]]]
    OBVIOUS
  <1>3. step \in [Nat \X Tables -> Tables]
    BY <1>1, <1>2
  <1>4. PICK base \in Tables : TRUE
    <2>1. [d \in D |-> v] \in Tables
      BY <1>1
    <2>2. QED
      BY <2>1
  <1>5. PICK g : RecursesTo(g, K + 1, Tables, base, step)
    <2>1. PICK N \in Nat : N = K + 1
      OBVIOUS
    <2>2. \E g : RecursesTo(g, N, Tables, base, step)
      BY <1>3, Recursion, Zenon
    <2>3. QED
      BY <2>1, <2>2
  <1>6. g \in [0 .. K + 1 -> Tables]
    BY <1>5 DEF RecursesTo
  <1>7. ASSUME NEW n \in 0 .. K PROVE g[n + 1] = F[g[n]]
    <2>1. g[n + 1] = step[<<n, g[n]>>]
      BY <1>5 DEF RecursesTo
    <2>2. g[n] \in Tables
      BY <1>6
    <2>3. QED
      BY <1>2, <2>1, <2>2
  <1>8. PICK Settled : Settled = {n \in Nat : n <= K =>
                                   \A d \in D : rank[d] < n => g[n + 1][d] = g[n][d]}
    OBVIOUS
  <1>9. 0 \in Settled
    BY <1>8
  <1>10. ASSUME NEW n \in Nat, n \in Settled PROVE n + 1 \in Settled
    <2>1. SUFFICES ASSUME n + 1 <= K, NEW d \in D, rank[d] < n + 1
                   PROVE  g[(n + 1) + 1][d] = g[n + 1][d]
      BY <1>8
    <2>2. n \in 0 .. K /\ n + 1 \in 0 .. K
      BY <2>1
    <2>3. g[(n + 1) + 1] = F[g[n + 1]] /\ g[n + 1] = F[g[n]]
      BY <1>7, <2>2
    <2>4. g[n] \in [D -> V] /\ g[n + 1] \in [D -> V]
      BY <1>1, <1>6, <2>2
    <2>5. \A e \in D : rank[e] < rank[d] => g[n + 1][e] = g[n][e]
      BY <1>8, <1>10, <2>1, <2>2
    <2>6. F[g[n + 1]][d] = F[g[n]][d]
      BY <2>4, <2>5
    <2>7. QED
      BY <2>3, <2>6
  <1>11. K \in Settled
    BY <1>9, <1>10, Induction
  <1>12. \A d \in D : g[K + 1][d] = g[K][d]
    BY <1>8, <1>11
  <1>13. g[K] \in [D -> V] /\ g[K + 1] \in [D -> V] /\ g[K + 1] = F[g[K]]
    BY <1>1, <1>6, <1>7
  <1>14. g[K + 1] = g[K]
    BY <1>12, <1>13
  <1>15. QED
    BY <1>13, <1>14 DEF IsTable
-----------------------------------------------------------------------------
(* A strict total order on a finite set numbers its members: each is found *)
(* by how many there are before it.                                        *)
StrictlyOrders(R, S) ==
    /\ \A x \in S : <<x, x>> \notin R
    /\ \A x, y, z \in S : <<x, y>> \in R /\ <<y, z>> \in R => <<x, z>> \in R
    /\ \A x, y \in S : x # y => <<x, y>> \in R \/ <<y, x>> \in R

LEMMA Ranks ==
    ASSUME NEW S, IsFiniteSet(S), NEW R, StrictlyOrders(R, S),
           NEW rank, rank = [x \in S |-> Cardinality({y \in S : <<y, x>> \in R})]
    PROVE  /\ Cardinality(S) \in Nat
           /\ \A x \in S : rank[x] \in 0 .. Cardinality(S) - 1
           /\ \A x, y \in S : <<x, y>> \in R <=> rank[x] < rank[y]
           /\ \A k \in 1 .. Cardinality(S) : \E x \in S : rank[x] = k - 1
  <1> DEFINE Below(x) == {y \in S : <<y, x>> \in R}
  <1>1. PICK c : c = Cardinality(S) /\ c \in Nat
    BY FS_CardinalityType
  <1>2. ASSUME NEW x \in S
        PROVE  /\ IsFiniteSet(Below(x)) /\ rank[x] = Cardinality(Below(x))
               /\ rank[x] \in 0 .. c - 1
    <2>1. PICK B : B = Below(x) /\ B \subseteq S /\ x \notin B
      <3>1. Below(x) \subseteq S /\ x \notin Below(x)
        BY DEF StrictlyOrders
      <3>2. QED
        BY <3>1, Zenon
    <2>2. IsFiniteSet(B) /\ IsFiniteSet(B \cup {x}) /\ Cardinality(B \cup {x}) = Cardinality(B) + 1
      <3>1. IsFiniteSet(B)
        BY <2>1, FS_Subset
      <3>2. QED
        BY <2>1, <3>1, FS_AddElement
    <2>3. Cardinality(B \cup {x}) <= c
      BY <1>1, <2>1, FS_Subset
    <2>4. Cardinality(B) \in Nat
      BY <2>2, FS_CardinalityType
    <2>5. QED
      BY <1>1, <2>1, <2>2, <2>3, <2>4
  <1> HIDE DEF Below
  <1>2a. \A x \in S : rank[x] \in 0 .. c - 1
    BY <1>2, Zenon
  <1>2b. \A x \in S : rank[x] \in Int
    BY <1>1, <1>2a
  <1> USE DEF Below
  <1>3. ASSUME NEW x \in S, NEW y \in S, <<x, y>> \in R PROVE rank[x] < rank[y]
    <2>1. Below(x) \subseteq Below(y) /\ x \in Below(y) /\ x \notin Below(x)
      BY <1>3 DEF StrictlyOrders
    <2>2. PICK B, C : B = Below(x) /\ C = Below(y)
      OBVIOUS
    <2>3. IsFiniteSet(C) /\ B \subseteq C /\ B # C /\ IsFiniteSet(B)
      BY <1>2, <2>1, <2>2
    <2>4. Cardinality(B) <= Cardinality(C) /\ Cardinality(C) # Cardinality(B)
      BY <2>3, FS_Subset
    <2>5. Cardinality(B) \in Nat /\ Cardinality(C) \in Nat
      BY <2>3, FS_CardinalityType
    <2>6. rank[x] = Cardinality(B) /\ rank[y] = Cardinality(C)
      BY <1>2, <2>2
    <2>7. QED
      BY <2>4, <2>5, <2>6
  <1>4. ASSUME NEW x \in S, NEW y \in S, rank[x] < rank[y] PROVE <<x, y>> \in R
    <2>1. rank[x] \in Int /\ rank[y] \in Int
      BY <1>2b
    <2>2. x # y /\ ~(rank[y] < rank[x])
      BY <1>4, <2>1
    <2>3. ~(<<y, x>> \in R)
      BY <1>3, <2>2
    <2>4. QED
      BY <2>2, <2>3 DEF StrictlyOrders
  <1>5. \A k \in 1 .. c : \E x \in S : rank[x] = k - 1
    <2>1. PICK T : T = 0 .. c - 1
      OBVIOUS
    <2>2. IsFiniteSet(T) /\ Cardinality(T) = c
      <3>1. PICK a \in Int, b \in Int : a = 0 /\ b = c - 1
        BY <1>1
      <3>2. IsFiniteSet(a .. b) /\ Cardinality(a .. b) = IF a > b THEN 0 ELSE b - a + 1
        BY FS_Interval, Zenon
      <3>3. QED
        BY <1>1, <2>1, <3>1, <3>2
    <2>3. rank \in Injection(S, T)
      <3>1. rank \in [S -> T]
        BY <1>2, <2>1
      <3>2. ASSUME NEW x \in S, NEW y \in S, rank[x] = rank[y] PROVE x = y
        <4>1. rank[x] \in Int /\ ~(rank[x] < rank[y]) /\ ~(rank[y] < rank[x])
          BY <1>1, <1>2, <3>2
        <4>2. ~(<<x, y>> \in R) /\ ~(<<y, x>> \in R)
          BY <1>3, <4>1
        <4>3. QED
          BY <4>2 DEF StrictlyOrders
      <3>3. QED
        BY <3>1, <3>2 DEF Injection, IsInjective
    <2>4. rank \in Surjection(S, T)
      BY <1>1, <2>2, <2>3, FS_Injection
    <2>5. \A t \in T : \E x \in S : rank[x] = t
      BY <2>4 DEF Surjection
    <2>6. \A k \in 1 .. c : k - 1 \in T
      BY <1>1, <2>1
    <2>7. QED
      BY <2>5, <2>6
  <1>6. QED
    BY <1>1, <1>2, <1>3, <1>4, <1>5

(* What a sorted sequence is: every member once, in order.                 *)
IsSorting(s, S, R) ==
    /\ s \in [1 .. Cardinality(S) -> S] /\ Cardinality(S) \in Nat
    /\ \A x \in S : \E k \in 1 .. Cardinality(S) : s[k] = x
    /\ \A j, k \in 1 .. Cardinality(S) : j < k <=> <<s[j], s[k]>> \in R

(* The member with k - 1 others before it is the k-th.                     *)
LEMMA RanksSort ==
    ASSUME NEW S, IsFiniteSet(S), NEW R, StrictlyOrders(R, S),
           NEW s, s = [k \in 1 .. Cardinality(S) |-> s[k]],
           \A k \in 1 .. Cardinality(S) :
              (\E x \in S : Cardinality({y \in S : <<y, x>> \in R}) = k - 1) =>
                 s[k] \in S /\ Cardinality({y \in S : <<y, s[k]>> \in R}) = k - 1
    PROVE  IsSorting(s, S, R)
  <1>1. PICK rank : rank = [x \in S |-> Cardinality({y \in S : <<y, x>> \in R})]
    OBVIOUS
  <1>2. PICK c : c = Cardinality(S)
    OBVIOUS
  <1>3. /\ c \in Nat
        /\ \A x \in S : rank[x] \in 0 .. c - 1
        /\ \A x, y \in S : <<x, y>> \in R <=> rank[x] < rank[y]
        /\ \A k \in 1 .. c : \E x \in S : rank[x] = k - 1
    BY <1>1, <1>2, Ranks
  <1>4. \A k \in 1 .. c : s[k] \in S /\ rank[s[k]] = k - 1
    BY <1>1, <1>2, <1>3
  <1>5. s \in [1 .. c -> S]
    BY <1>2, <1>4
  <1>6. ASSUME NEW x \in S PROVE \E k \in 1 .. c : s[k] = x
    <2>1. PICK k \in 1 .. c : rank[x] = k - 1
      <3>1. rank[x] + 1 \in 1 .. c /\ rank[x] = (rank[x] + 1) - 1
        BY <1>3
      <3>2. QED
        BY <3>1
    <2>2. s[k] \in S /\ rank[s[k]] = rank[x]
      BY <1>4, <2>1
    <2>2a. rank[x] \in Int
      BY <1>3
    <2>3. ~(<<x, s[k]>> \in R) /\ ~(<<s[k], x>> \in R)
      <3>1. ~(rank[x] < rank[s[k]]) /\ ~(rank[s[k]] < rank[x])
        BY <2>2, <2>2a
      <3>2. QED
        BY <1>3, <2>2, <3>1
    <2>4. QED
      BY <2>2, <2>3 DEF StrictlyOrders
  <1>7. ASSUME NEW j \in 1 .. c, NEW k \in 1 .. c PROVE j < k <=> <<s[j], s[k]>> \in R
    <2>1. <<s[j], s[k]>> \in R <=> rank[s[j]] < rank[s[k]]
      BY <1>3, <1>4
    <2>2. rank[s[j]] = j - 1 /\ rank[s[k]] = k - 1
      BY <1>4
    <2>3. QED
      BY <1>3, <2>1, <2>2
  <1>8. QED
    BY <1>2, <1>3, <1>5, <1>6, <1>7 DEF IsSorting
-----------------------------------------------------------------------------
(* Sums: the numbers of some members are added up one by one, and what     *)
(* they come to is how many units there are.                               *)
Units(f, S) == {u \in S \X (Nat \ {0}) : u[2] <= f[u[1]]}

SumsTo(sum, f, S) ==
    sum = [s \in SUBSET S |-> IF s = {} THEN 0
                              ELSE f[CHOOSE x \in s : TRUE] + sum[s \ {CHOOSE x \in s : TRUE}]]

(* One more term adds its units.                                           *)
LEMMA UnitsOfOneMore ==
    ASSUME NEW f, NEW A, NEW x, x \notin A, f[x] \in Nat, IsFiniteSet(Units(f, A))
    PROVE  /\ IsFiniteSet(Units(f, A \cup {x})) /\ Cardinality(Units(f, A)) \in Nat
           /\ Cardinality(Units(f, A \cup {x})) = f[x] + Cardinality(Units(f, A))
  <1>1. PICK a \in Int, b \in Int : a = 1 /\ b = f[x]
    OBVIOUS
  <1>2. IsFiniteSet(a .. b) /\ Cardinality(a .. b) = IF a > b THEN 0 ELSE b - a + 1
    BY FS_Interval, Zenon
  <1>3. IsFiniteSet({x}) /\ Cardinality({x}) = 1
    BY FS_Singleton, Zenon
  <1>4. PICK P : P = {x} \X (a .. b)
    OBVIOUS
  <1>5. IsFiniteSet(P) /\ Cardinality(P) = Cardinality({x}) * Cardinality(a .. b)
    BY <1>2, <1>3, <1>4, FS_Product, Zenon
  <1>6. Cardinality(P) = f[x]
    BY <1>1, <1>2, <1>3, <1>5
  <1>7. PICK U : U = Units(f, A)
    OBVIOUS
  <1>8. Units(f, A \cup {x}) = P \cup U /\ P \cap U = {}
    BY <1>1, <1>4, <1>7 DEF Units
  <1>9. /\ IsFiniteSet(P \cup U)
        /\ Cardinality(P \cup U) = Cardinality(P) + Cardinality(U) - Cardinality(P \cap U)
    BY <1>5, <1>7, FS_Union, Zenon
  <1>10. Cardinality(P \cap U) = 0 /\ Cardinality(U) \in Nat
    BY <1>7, <1>8, FS_EmptySet, FS_CardinalityType
  <1>11. Cardinality(P \cup U) = f[x] + Cardinality(U)
    <2>1. PICK p, u, pu, i : /\ p = Cardinality(P) /\ u = Cardinality(U)
                             /\ pu = Cardinality(P \cup U) /\ i = Cardinality(P \cap U)
      OBVIOUS
    <2>2. pu = p + u - i /\ i = 0 /\ u \in Nat /\ p = f[x]
      BY <1>6, <1>9, <1>10, <2>1
    <2>3. pu = f[x] + u
      BY <2>2
    <2>4. QED
      BY <2>1, <2>3
  <1>12. QED
    BY <1>7, <1>8, <1>9, <1>10, <1>11, Zenon

LEMMA UnitsAreFinite ==
    ASSUME NEW S, IsFiniteSet(S), NEW f, \A x \in S : f[x] \in Nat
    PROVE  IsFiniteSet(Units(f, S)) /\ Cardinality(Units(f, S)) \in Nat
  <1>1. PICK T : T = {A \in SUBSET S : IsFiniteSet(Units(f, A))}
    OBVIOUS
  <1>2. {} \in T
    <2>1. Units(f, {}) = {}
      BY DEF Units
    <2>2. QED
      BY <1>1, <2>1, FS_EmptySet
  <1>3. ASSUME NEW A \in SUBSET S, NEW x \in S, A \in T, x \notin A PROVE A \cup {x} \in T
    <2>1. IsFiniteSet(Units(f, A \cup {x}))
      BY <1>1, <1>3, UnitsOfOneMore
    <2>2. QED
      BY <1>1, <2>1
  <1>4. S \in T
    BY <1>2, <1>3, FiniteInduction
  <1>5. QED
    BY <1>1, <1>4, FS_CardinalityType

(* The library's sum over a finite set is well defined: it counts units.   *)
LEMMA SumsExist ==
    ASSUME NEW S, IsFiniteSet(S), NEW f, \A x \in S : f[x] \in Nat
    PROVE  \E sum : SumsTo(sum, f, S)
  <1>1. PICK sum : sum = [s \in SUBSET S |-> Cardinality(Units(f, s))]
    OBVIOUS
  <1>2. ASSUME NEW s \in SUBSET S
        PROVE  sum[s] = IF s = {} THEN 0
                        ELSE f[CHOOSE x \in s : TRUE] + sum[s \ {CHOOSE x \in s : TRUE}]
    <2>1. CASE s = {}
      <3>1. Units(f, s) = {}
        BY <2>1 DEF Units
      <3>2. QED
        BY <1>1, <2>1, <3>1, FS_EmptySet
    <2>2. CASE s # {}
      <3>1. PICK x : x = (CHOOSE y \in s : TRUE) /\ x \in s
        BY <2>2
      <3>2. PICK A : A = s \ {x} /\ A \in SUBSET S
        OBVIOUS
      <3>3. IsFiniteSet(A)
        BY <3>2, FS_Subset
      <3>4. IsFiniteSet(Units(f, A))
        BY <3>2, <3>3, UnitsAreFinite
      <3>5. A \cup {x} = s /\ x \notin A /\ f[x] \in Nat
        BY <3>1, <3>2
      <3>6. Cardinality(Units(f, s)) = f[x] + Cardinality(Units(f, A))
        BY <3>4, <3>5, UnitsOfOneMore
      <3>7. QED
        BY <1>1, <2>2, <3>1, <3>2, <3>6
    <2>3. QED
      BY <2>1, <2>2
  <1>3. SumsTo(sum, f, S)
    BY <1>1, <1>2, Zenon DEF SumsTo
  <1>4. QED
    BY <1>3

LEMMA SumIsUnits ==
    ASSUME NEW S, IsFiniteSet(S), NEW f, \A x \in S : f[x] \in Nat
    PROVE  SumFunctionOnSet(f, S) = Cardinality(Units(f, S))
  <1>1. PICK sum : SumsTo(sum, f, S) /\ SumFunctionOnSet(f, S) = sum[S]
    <2>1. SumFunctionOnSet(f, S) = (CHOOSE sum : SumsTo(sum, f, S))[S]
      BY Zenon DEF SumFunctionOnSet, FoldFunctionOnSet, MapThenFoldSet, SumsTo
    <2>2. SumsTo(CHOOSE sum : SumsTo(sum, f, S), f, S)
      BY SumsExist
    <2>3. QED
      BY <2>1, <2>2
  <1>2. PICK N : N = {n \in Nat : \A A \in SUBSET S :
                          Cardinality(A) = n => sum[A] = Cardinality(Units(f, A))}
    OBVIOUS
  <1>3. ASSUME NEW A \in SUBSET S
        PROVE  IsFiniteSet(A) /\ Cardinality(A) \in Nat /\ (Cardinality(A) = 0 <=> A = {})
    <2>1. IsFiniteSet(A)
      BY FS_Subset
    <2>2. QED
      BY <2>1, FS_CardinalityType, FS_EmptySet
  <1>4. 0 \in N
    <2>1. Units(f, {}) = {} /\ sum[{}] = 0
      BY <1>1 DEF Units, SumsTo
    <2>2. QED
      BY <1>2, <1>3, <2>1, FS_EmptySet
  <1>5. ASSUME NEW n \in Nat, n \in N PROVE n + 1 \in N
    <2>1. SUFFICES ASSUME NEW A \in SUBSET S, Cardinality(A) = n + 1
                   PROVE  sum[A] = Cardinality(Units(f, A))
      BY <1>2
    <2>2. A # {}
      BY <1>3, <2>1
    <2>3. PICK x : x = (CHOOSE y \in A : TRUE) /\ x \in A
      BY <2>2
    <2>4. PICK B : B = A \ {x} /\ B \in SUBSET S
      OBVIOUS
    <2>5. sum[A] = f[x] + sum[B]
      BY <1>1, <2>2, <2>3, <2>4 DEF SumsTo
    <2>6. Cardinality(B) = n /\ IsFiniteSet(B)
      <3>1. IsFiniteSet(A) /\ Cardinality(A \ {x}) = Cardinality(A) - 1
        BY <1>3, <2>3, FS_RemoveElement
      <3>2. QED
        BY <1>3, <2>1, <2>4, <3>1
    <2>7. sum[B] = Cardinality(Units(f, B))
      BY <1>2, <1>5, <2>4, <2>6
    <2>8. IsFiniteSet(Units(f, B))
      BY <2>4, <2>6, UnitsAreFinite
    <2>9. B \cup {x} = A /\ x \notin B /\ f[x] \in Nat
      BY <2>3, <2>4
    <2>10. Cardinality(Units(f, A)) = f[x] + Cardinality(Units(f, B))
      BY <2>8, <2>9, UnitsOfOneMore
    <2>11. QED
      BY <2>5, <2>7, <2>10
  <1>6. Cardinality(S) \in N
    BY <1>3, <1>4, <1>5, Induction
  <1>7. QED
    BY <1>1, <1>2, <1>6

(* What a sum is known by.                                                 *)
LEMMA SumLaws ==
    ASSUME NEW f
    PROVE  /\ SumFunctionOnSet(f, {}) = 0
           /\ \A S : IsFiniteSet(S) /\ (\A x \in S : f[x] \in Nat) =>
                 /\ SumFunctionOnSet(f, S) \in Nat
                 /\ \A x : x \notin S /\ f[x] \in Nat =>
                       SumFunctionOnSet(f, S \cup {x}) = f[x] + SumFunctionOnSet(f, S)
  <1>1. SumFunctionOnSet(f, {}) = 0
    <2>1. Units(f, {}) = {} /\ IsFiniteSet({}) /\ Cardinality({}) = 0
      BY FS_EmptySet DEF Units
    <2>2. SumFunctionOnSet(f, {}) = Cardinality(Units(f, {}))
      BY <2>1, SumIsUnits
    <2>3. QED
      BY <2>1, <2>2
  <1>2. ASSUME NEW S, IsFiniteSet(S), \A x \in S : f[x] \in Nat
        PROVE  /\ SumFunctionOnSet(f, S) \in Nat
               /\ \A x : x \notin S /\ f[x] \in Nat =>
                     SumFunctionOnSet(f, S \cup {x}) = f[x] + SumFunctionOnSet(f, S)
    <2>1. /\ SumFunctionOnSet(f, S) = Cardinality(Units(f, S))
          /\ IsFiniteSet(Units(f, S)) /\ Cardinality(Units(f, S)) \in Nat
      BY <1>2, SumIsUnits, UnitsAreFinite
    <2>2. ASSUME NEW x, x \notin S, f[x] \in Nat
          PROVE  SumFunctionOnSet(f, S \cup {x}) = f[x] + SumFunctionOnSet(f, S)
      <3>1. PICK A : A = S \cup {x}
        OBVIOUS
      <3>2. IsFiniteSet(A) /\ \A y \in A : f[y] \in Nat
        BY <1>2, <2>2, <3>1, FS_AddElement
      <3>3. SumFunctionOnSet(f, A) = Cardinality(Units(f, A))
        BY <3>2, SumIsUnits
      <3>4. Cardinality(Units(f, A)) = f[x] + Cardinality(Units(f, S))
        BY <2>1, <2>2, <3>1, UnitsOfOneMore
      <3>5. QED
        BY <2>1, <3>1, <3>3, <3>4
    <2>3. QED
      BY <2>1, <2>2
  <1>3. QED
    BY <1>1, <1>2
-----------------------------------------------------------------------------
(* Sorting the annotations.                                                *)
Timed(S) == \A x \in S : x.start \in Int /\ x.end \in Int

(* Spans that differ are in one order (_same_class_overlaps).              *)
LEMMA SortedSpans ==
    ASSUME NEW S, IsFiniteSet(S), Timed(S),
           \A x, y \in S : x.start = y.start /\ x.end = y.end => x = y
    PROVE  /\ Cardinality(S) \in Nat
           /\ Sorted(S, InTime) \in [1 .. Cardinality(S) -> S]
           /\ \A x \in S : \E k \in 1 .. Cardinality(S) : Sorted(S, InTime)[k] = x
           /\ \A j, k \in 1 .. Cardinality(S) :
                 j < k <=> InTime(Sorted(S, InTime)[j], Sorted(S, InTime)[k])
  <1>1. PICK R : R = {p \in S \X S : InTime(p[1], p[2])}
    OBVIOUS
  <1>2. \A x, y \in S : <<x, y>> \in R <=> InTime(x, y)
    BY <1>1
  <1>3. StrictlyOrders(R, S)
    <2>1. \A x \in S : ~InTime(x, x)
      BY DEF InTime, Timed
    <2>2. \A x, y, z \in S : InTime(x, y) /\ InTime(y, z) => InTime(x, z)
      BY DEF InTime, Timed
    <2>3. \A x, y \in S : x # y => InTime(x, y) \/ InTime(y, x)
      BY DEF InTime, Timed
    <2>4. QED
      BY <1>2, <2>1, <2>2, <2>3, Zenon DEF StrictlyOrders
  <1>5. PICK s : s = Sorted(S, InTime)
    OBVIOUS
  <1>6. \A x \in S : {y \in S : InTime(y, x)} = {y \in S : <<y, x>> \in R}
    BY <1>2
  <1>7. /\ s = [k \in 1 .. Cardinality(S) |-> s[k]]
        /\ \A k \in 1 .. Cardinality(S) :
              (\E x \in S : Cardinality({y \in S : <<y, x>> \in R}) = k - 1) =>
                 s[k] \in S /\ Cardinality({y \in S : <<y, s[k]>> \in R}) = k - 1
    <2> DEFINE e(k) == CHOOSE x \in S : Cardinality({y \in S : InTime(y, x)}) = k - 1
    <2>1. s = [k \in 1 .. Cardinality(S) |-> e(k)]
      BY <1>5 DEF Sorted
    <2>2. ASSUME NEW k \in 1 .. Cardinality(S),
                 NEW x \in S, Cardinality({y \in S : <<y, x>> \in R}) = k - 1
          PROVE  s[k] \in S /\ Cardinality({y \in S : <<y, s[k]>> \in R}) = k - 1
      <3>1. Cardinality({y \in S : InTime(y, x)}) = k - 1
        BY <1>6, <2>2, Zenon
      <3>2. s[k] = CHOOSE z \in S : Cardinality({y \in S : InTime(y, z)}) = k - 1
        BY <2>1, Zenon
      <3>3. s[k] \in S /\ Cardinality({y \in S : InTime(y, s[k])}) = k - 1
        BY <3>1, <3>2, Zenon
      <3>4. QED
        BY <1>6, <3>3, Zenon
    <2> HIDE DEF e
    <2>3. s = [k \in 1 .. Cardinality(S) |-> s[k]]
      BY <2>1
    <2>4. QED
      BY <2>2, <2>3, Zenon
  <1>8. IsSorting(s, S, R)
    BY <1>3, <1>7, RanksSort, Zenon
  <1>9. QED
    BY <1>2, <1>5, <1>8, Zenon DEF IsSorting

LEMMA RankOrders ==
    /\ \A c \in Published : Rank(c) \in Int
    /\ \A c, d \in Published : Rank(c) = Rank(d) => c = d
  <1>1. PICK s : s = ClassOrder
    OBVIOUS
  <1>2. DOMAIN s \subseteq Int
    BY <1>1 DEF ClassOrder
  <1>3. ASSUME NEW c \in Published PROVE Rank(c) \in DOMAIN s /\ s[Rank(c)] = c
    <2>1. \E n \in DOMAIN s : s[n] = c
      BY <1>1 DEF Published, ToSet
    <2>2. QED
      BY <1>1, <2>1 DEF Rank
  <1>4. QED
    BY <1>2, <1>3

(* Marks that differ are in one order, whatever the file lists first       *)
(* (_ordered).                                                             *)
AreMarks(M) ==
    /\ IsFiniteSet(M) /\ M \subseteq RawMarks
    /\ \A m \in M : m.class \in Published /\ m.start \in Int /\ m.end \in Int /\ IsSpan(m)

(* _ordered lists every mark once, earlier marks first.                    *)
LEMMA OrderedMarks ==
    ASSUME NEW S, AreMarks(S)
    PROVE  /\ Cardinality(S) \in Nat
           /\ Ordered(S) \in [1 .. Cardinality(S) -> S]
           /\ \A x \in S : \E k \in 1 .. Cardinality(S) : Ordered(S)[k] = x
           /\ \A j, k \in 1 .. Cardinality(S) :
                 j < k <=> Earlier(Ordered(S)[j], Ordered(S)[k])
  <1>1. PICK R : R = {p \in S \X S : Earlier(p[1], p[2])}
    OBVIOUS
  <1>2. \A x, y \in S : <<x, y>> \in R <=> Earlier(x, y)
    BY <1>1
  <1>3. StrictlyOrders(R, S)
    <2>1. \A x \in S : x.start \in Int /\ x.end \in Int /\ Rank(x.class) \in Int
      BY RankOrders DEF AreMarks
    <2>2. \A x, y \in S : x.start = y.start /\ x.end = y.end /\ Rank(x.class) = Rank(y.class) => x = y
      BY RankOrders, DistinctMarks DEF AreMarks
    <2>3. \A x \in S : ~Earlier(x, x)
      BY <2>1 DEF Earlier, InTime
    <2>4. \A x, y, z \in S : Earlier(x, y) /\ Earlier(y, z) => Earlier(x, z)
      BY <2>1 DEF Earlier, InTime
    <2>5. \A x, y \in S : x # y => Earlier(x, y) \/ Earlier(y, x)
      BY <2>1, <2>2 DEF Earlier, InTime
    <2>6. QED
      BY <1>2, <2>3, <2>4, <2>5, Zenon DEF StrictlyOrders
  <1>5. PICK s : s = Sorted(S, Earlier)
    OBVIOUS
  <1>6. \A x \in S : {y \in S : Earlier(y, x)} = {y \in S : <<y, x>> \in R}
    BY <1>2
  <1>7. /\ s = [k \in 1 .. Cardinality(S) |-> s[k]]
        /\ \A k \in 1 .. Cardinality(S) :
              (\E x \in S : Cardinality({y \in S : <<y, x>> \in R}) = k - 1) =>
                 s[k] \in S /\ Cardinality({y \in S : <<y, s[k]>> \in R}) = k - 1
    <2> DEFINE e(k) == CHOOSE x \in S : Cardinality({y \in S : Earlier(y, x)}) = k - 1
    <2>1. s = [k \in 1 .. Cardinality(S) |-> e(k)]
      BY <1>5 DEF Sorted
    <2>2. ASSUME NEW k \in 1 .. Cardinality(S),
                 NEW x \in S, Cardinality({y \in S : <<y, x>> \in R}) = k - 1
          PROVE  s[k] \in S /\ Cardinality({y \in S : <<y, s[k]>> \in R}) = k - 1
      <3>1. Cardinality({y \in S : Earlier(y, x)}) = k - 1
        BY <1>6, <2>2, Zenon
      <3>2. s[k] = CHOOSE z \in S : Cardinality({y \in S : Earlier(y, z)}) = k - 1
        BY <2>1, Zenon
      <3>3. s[k] \in S /\ Cardinality({y \in S : Earlier(y, s[k])}) = k - 1
        BY <3>1, <3>2, Zenon
      <3>4. QED
        BY <1>6, <3>3, Zenon
    <2> HIDE DEF e
    <2>3. s = [k \in 1 .. Cardinality(S) |-> s[k]]
      BY <2>1
    <2>4. QED
      BY <2>2, <2>3, Zenon
  <1>8. IsSorting(s, S, R)
    <2>1. IsFiniteSet(S)
      BY DEF AreMarks
    <2>2. QED
      BY <1>3, <1>7, <2>1, RanksSort, Zenon
  <1>9. QED
    BY <1>2, <1>5, <1>8, Zenon DEF IsSorting, Ordered
-----------------------------------------------------------------------------
(* What the validator finds.                                               *)

(* Of two spans that overlap, the first overlaps the one that follows it.  *)
LEMMA CollidingSpans ==
    ASSUME NEW S, IsFiniteSet(S), Timed(S), \A x \in S : IsSpan(x),
           \A x, y \in S : x.start = y.start /\ x.end = y.end => x = y
    PROVE  /\ \A p \in Colliding(S) :
                  p[1] \in S /\ p[2] \in S /\ InTime(p[1], p[2]) /\ Overlaps(p[1], p[2])
           /\ \A x, y \in S :
                  InTime(x, y) /\ Overlaps(x, y) =>
                      \E p \in Colliding(S) : p[2] = y \/ InTime(p[2], y)
  <1>1. PICK s, c : s = Sorted(S, InTime) /\ c = Cardinality(S)
    OBVIOUS
  <1>2. /\ c \in Nat /\ s \in [1 .. c -> S]
        /\ \A x \in S : \E k \in 1 .. c : s[k] = x
        /\ \A j, k \in 1 .. c : j < k <=> InTime(s[j], s[k])
    BY <1>1, SortedSpans, Zenon
  <1>3. Neighbours(S) = {<<s[n], s[n + 1]>> : n \in 1 .. c - 1}
    BY <1>1 DEF Neighbours
  <1>4. ASSUME NEW p \in Colliding(S)
        PROVE  p[1] \in S /\ p[2] \in S /\ InTime(p[1], p[2]) /\ Overlaps(p[1], p[2])
    <2>1. p \in Neighbours(S) /\ Overlaps(p[1], p[2])
      BY <1>4 DEF Colliding
    <2>2. PICK n \in 1 .. c - 1 : p = <<s[n], s[n + 1]>>
      BY <1>3, <2>1
    <2>3. n \in 1 .. c /\ n + 1 \in 1 .. c /\ n < n + 1
      BY <1>2, <2>2
    <2>4. s[n] \in S /\ s[n + 1] \in S /\ InTime(s[n], s[n + 1])
      BY <1>2, <2>3
    <2>5. QED
      BY <2>1, <2>2, <2>4
  <1>5. ASSUME NEW x \in S, NEW y \in S, Overlaps(x, y), InTime(x, y)
        PROVE  \E p \in Colliding(S) : p[2] = y \/ InTime(p[2], y)
    <2>1. PICK j \in 1 .. c, k \in 1 .. c : s[j] = x /\ s[k] = y
      BY <1>2
    <2>2. j < k
      BY <1>2, <1>5, <2>1
    <2>3. j \in 1 .. c - 1 /\ j + 1 \in 1 .. c
      BY <1>2, <2>2
    <2>4. PICK z \in S : z = s[j + 1]
      BY <1>2, <2>3
    <2>5. z = y \/ InTime(z, y)
      <3>1. j + 1 = k \/ j + 1 < k
        BY <2>2
      <3>2. QED
        BY <1>2, <2>1, <2>3, <2>4, <3>1
    <2>6. InTime(x, z)
      <3>1. j < j + 1
        BY <2>1
      <3>2. QED
        BY <1>2, <2>1, <2>3, <2>4, <3>1
    <2>7. Overlaps(x, z)
      BY <1>5, <2>5, <2>6 DEF Overlaps, InTime, Timed, IsSpan
    <2>8. <<x, z>> \in Neighbours(S)
      BY <1>3, <2>1, <2>3, <2>4
    <2>9. PICK p : p = <<x, z>>
      OBVIOUS
    <2>10. p \in Colliding(S)
      BY <2>7, <2>8, <2>9 DEF Colliding
    <2>11. p[2] = z
      BY <2>9
    <2>12. QED
      BY <2>5, <2>10, <2>11
  <1>6. QED
    BY <1>4, <1>5

(* What is reported of a file's classes: pairs of one class that share an  *)
(* instant, and of each class that has such a pair the first at least.     *)
LEMMA ClashingMarks ==
    ASSUME NEW recording, AreMarks(recording.marks)
    PROVE  /\ \A p \in SameClassOverlaps(recording) : Clash(p[1], p[2])
           /\ \A m, n \in recording.marks :
                  Clash(m, n) =>
                      \E p \in SameClassOverlaps(recording) :
                          p[2].class = n.class /\ (p[2] = n \/ InTime(p[2], n))
  <1>1. ASSUME NEW c \in Published
        PROVE  /\ \A p \in Colliding(OfClass(recording, c)) :
                      p[1].class = c /\ p[2].class = c /\ Clash(p[1], p[2])
               /\ \A m, n \in recording.marks :
                      m.class = c /\ Clash(m, n) =>
                          \E p \in Colliding(OfClass(recording, c)) : p[2] = n \/ InTime(p[2], n)
    <2>1. PICK S : S = OfClass(recording, c)
      OBVIOUS
    <2>2. S \subseteq recording.marks /\ \A m \in recording.marks : m \in S <=> m.class = c
      BY <2>1 DEF OfClass
    <2>3. IsFiniteSet(S)
      BY <2>2, FS_Subset DEF AreMarks
    <2>4. Timed(S) /\ \A x \in S : IsSpan(x)
      BY <2>2 DEF AreMarks, Timed
    <2>5. \A x, y \in S : x.start = y.start /\ x.end = y.end => x = y
      BY <2>2, DistinctMarks DEF AreMarks
    <2>6. /\ \A p \in Colliding(S) :
                  p[1] \in S /\ p[2] \in S /\ InTime(p[1], p[2]) /\ Overlaps(p[1], p[2])
          /\ \A x, y \in S :
                  InTime(x, y) /\ Overlaps(x, y) =>
                      \E p \in Colliding(S) : p[2] = y \/ InTime(p[2], y)
      BY <2>3, <2>4, <2>5, CollidingSpans, Zenon
    <2>7. QED
      BY <2>1, <2>2, <2>6 DEF Clash
  <1>2. \A p : p \in SameClassOverlaps(recording)
                 <=> \E c \in Published : p \in Colliding(OfClass(recording, c))
    BY DEF SameClassOverlaps
  <1>3. \A m \in recording.marks : m.class \in Published
    BY DEF AreMarks
  <1>4. ASSUME NEW p \in SameClassOverlaps(recording) PROVE Clash(p[1], p[2])
    BY <1>1, <1>2
  <1>5. ASSUME NEW m \in recording.marks, NEW n \in recording.marks, Clash(m, n)
        PROVE  \E p \in SameClassOverlaps(recording) :
                   p[2].class = n.class /\ (p[2] = n \/ InTime(p[2], n))
    <2>1. PICK c \in Published : c = m.class
      BY <1>3
    <2>2. n.class = c
      BY <1>5, <2>1 DEF Clash
    <2>3. PICK p \in Colliding(OfClass(recording, c)) : p[2] = n \/ InTime(p[2], n)
      BY <1>1, <1>5, <2>1
    <2>4. p \in SameClassOverlaps(recording) /\ p[2].class = c
      BY <1>1, <1>2, <2>3
    <2>5. QED
      BY <2>2, <2>3, <2>4
  <1>6. QED
    BY <1>4, <1>5

(* The pairs among the errors are those.                                   *)
LEMMA PairsAmongErrors ==
    ASSUME NEW recording
    PROVE  {e[2] : e \in {x \in ErrorsOf(recording) : x[1] = "overlapping_same_class"}}
             = SameClassOverlaps(recording)
  <1>1. PICK Q, T : Q = SameClassOverlaps(recording) /\ T = Tier(recording.words = {})
    OBVIOUS
  <1>2. ErrorsOf(recording) = ({"overlapping_same_class"} \X Q) \union ({"no_transcription"} \X T)
    BY <1>1 DEF ErrorsOf, Findings
  <1>3. \A x \in ErrorsOf(recording) : x[1] = "overlapping_same_class" => x[2] \in Q
    BY <1>2
  <1>4. \A q \in Q : <<"overlapping_same_class", q>> \in ErrorsOf(recording)
    BY <1>2
  <1>5. PICK E : E = {x \in ErrorsOf(recording) : x[1] = "overlapping_same_class"}
    OBVIOUS
  <1>6. \A q : (\E e \in E : q = e[2]) <=> q \in Q
    <2>1. \A e \in E : e[2] \in Q
      BY <1>3, <1>5
    <2>2. ASSUME NEW q \in Q PROVE \E e \in E : q = e[2]
      <3>1. PICK e : e = <<"overlapping_same_class", q>>
        OBVIOUS
      <3>2. e \in E /\ e[2] = q
        BY <1>4, <1>5, <3>1
      <3>3. QED
        BY <3>2
    <2>3. QED
      BY <2>1, <2>2
  <1>7. {e[2] : e \in E} = Q
    BY <1>6
  <1>8. QED
    BY <1>1, <1>5, <1>7
-----------------------------------------------------------------------------
(* The dynamic program: matching.py, _optimal_non_crossing.                *)
IsScored(W, n, m) == DOMAIN W \subseteq (1 .. n) \X (1 .. m) /\ \A p \in DOMAIN W : W[p] \in Nat

AtEdge(p) == p[1] = 0 \/ p[2] = 0

(* Off the edge, a cell has the three neighbours it is computed from.      *)
LEMMA Neighbourhood ==
    ASSUME NEW n \in Nat, NEW m \in Nat, NEW p \in Cells(n, m)
    PROVE  /\ p[1] \in 0 .. n /\ p[2] \in 0 .. m /\ p = <<p[1], p[2]>>
           /\ ~AtEdge(p) =>
                 /\ Above(p) \in Cells(n, m) /\ Beside(p) \in Cells(n, m) /\ Diagonal(p) \in Cells(n, m)
                 /\ p[1] - 1 \in 0 .. n /\ p[2] - 1 \in 0 .. m
                 /\ Above(p) = <<p[1] - 1, p[2]>> /\ Beside(p) = <<p[1], p[2] - 1>>
                 /\ Diagonal(p) = <<p[1] - 1, p[2] - 1>>
  BY DEF Cells, AtEdge, Above, Beside, Diagonal

(* What holds at the edge and passes from the neighbours holds of the      *)
(* table.                                                                  *)
LEMMA CellInduction ==
    ASSUME NEW n \in Nat, NEW m \in Nat, NEW T,
           \A p \in Cells(n, m) : AtEdge(p) => p \in T,
           \A p \in Cells(n, m) :
              ~AtEdge(p) /\ Above(p) \in T /\ Beside(p) \in T /\ Diagonal(p) \in T => p \in T
    PROVE  Cells(n, m) \subseteq T
  <1>1. PICK N : N = {k \in Nat : \A p \in Cells(n, m) : p[1] + p[2] <= k => p \in T}
    OBVIOUS
  <1>2. 0 \in N
    <2>1. \A p \in Cells(n, m) : p[1] + p[2] <= 0 => AtEdge(p)
      BY Neighbourhood DEF AtEdge
    <2>2. QED
      BY <1>1, <2>1
  <1>3. ASSUME NEW k \in Nat, k \in N PROVE k + 1 \in N
    <2>1. SUFFICES ASSUME NEW p \in Cells(n, m), p[1] + p[2] <= k + 1, ~AtEdge(p) PROVE p \in T
      BY <1>1
    <2>2. /\ Above(p) \in Cells(n, m) /\ Above(p)[1] + Above(p)[2] <= k
          /\ Beside(p) \in Cells(n, m) /\ Beside(p)[1] + Beside(p)[2] <= k
          /\ Diagonal(p) \in Cells(n, m) /\ Diagonal(p)[1] + Diagonal(p)[2] <= k
      BY <2>1, Neighbourhood
    <2>3. QED
      BY <1>1, <1>3, <2>1, <2>2
  <1>4. \A k \in Nat : k \in N
    BY <1>2, <1>3, Induction
  <1>5. ASSUME NEW p \in Cells(n, m) PROVE p \in T
    <2>1. p[1] + p[2] \in Nat
      BY Neighbourhood
    <2>2. QED
      BY <1>1, <1>4, <2>1
  <1>6. QED
    BY <1>5

(* A table over the cells whose cells are computed from their neighbours.  *)
LEMMA CellRecursion ==
    ASSUME NEW n \in Nat, NEW m \in Nat, NEW V, NEW v \in V,
           NEW F \in [[Cells(n, m) -> V] -> [Cells(n, m) -> V]],
           \A t, u \in [Cells(n, m) -> V] : \A p \in Cells(n, m) :
              (~AtEdge(p) => /\ t[Above(p)] = u[Above(p)] /\ t[Beside(p)] = u[Beside(p)]
                             /\ t[Diagonal(p)] = u[Diagonal(p)]) => F[t][p] = F[u][p]
    PROVE  \E t : IsTable(t, Cells(n, m), V, F)
  <1>1. PICK D : D = Cells(n, m)
    OBVIOUS
  <1>2. PICK K \in Nat : K = n + m + 1
    OBVIOUS
  <1>3. PICK rank : rank = [p \in D |-> p[1] + p[2]]
    OBVIOUS
  <1>4. rank \in [D -> 0 .. K - 1]
    <2>1. \A p \in D : p[1] + p[2] \in 0 .. K - 1
      BY <1>1, <1>2, Neighbourhood
    <2>2. QED
      BY <1>3, <2>1
  <1>5. ASSUME NEW t \in [D -> V], NEW u \in [D -> V], NEW d \in D,
               \A e \in D : rank[e] < rank[d] => t[e] = u[e]
        PROVE  F[t][d] = F[u][d]
    <2>1. ASSUME ~AtEdge(d)
          PROVE  /\ Above(d) \in D /\ rank[Above(d)] < rank[d]
                 /\ Beside(d) \in D /\ rank[Beside(d)] < rank[d]
                 /\ Diagonal(d) \in D /\ rank[Diagonal(d)] < rank[d]
      BY <1>1, <1>3, <2>1, Neighbourhood
    <2>2. QED
      BY <1>1, <1>5, <2>1
  <1>6. F \in [[D -> V] -> [D -> V]]
    BY <1>1
  <1>7. \E t : IsTable(t, D, V, F)
    BY <1>4, <1>5, <1>6, TableRecursion
  <1>8. QED
    BY <1>1, <1>7

Cell(W, t, p) ==
    IF AtEdge(p) THEN 0
    ELSE Max({t[Above(p)], t[Beside(p)]} \cup {t[Diagonal(p)] + W[q] : q \in {p} \cap DOMAIN W})

Computes(best, W, n, m) == best = [p \in Cells(n, m) |-> Cell(W, best, p)]

(* A cell is the greatest of its neighbours and of the pairing there.      *)
LEMMA CellIsGreatest ==
    ASSUME NEW W, NEW t, NEW p, ~AtEdge(p), p \in DOMAIN W => W[p] \in Nat,
           t[Above(p)] \in Nat, t[Beside(p)] \in Nat, t[Diagonal(p)] \in Nat
    PROVE  /\ Cell(W, t, p) \in Nat
           /\ Cell(W, t, p) >= t[Above(p)] /\ Cell(W, t, p) >= t[Beside(p)]
           /\ p \in DOMAIN W => Cell(W, t, p) >= t[Diagonal(p)] + W[p]
           /\ \/ Cell(W, t, p) = t[Above(p)]
              \/ Cell(W, t, p) = t[Beside(p)]
              \/ p \in DOMAIN W /\ Cell(W, t, p) = t[Diagonal(p)] + W[p]
  <1>1. PICK a \in Nat, b \in Nat, d \in Nat :
            a = t[Above(p)] /\ b = t[Beside(p)] /\ d = t[Diagonal(p)]
    OBVIOUS
  <1>2. PICK S : S = {a, b} \cup {d + W[q] : q \in {p} \cap DOMAIN W}
    OBVIOUS
  <1>3. Cell(W, t, p) = Max(S)
    BY <1>1, <1>2 DEF Cell
  <1>4. CASE p \in DOMAIN W
    <2>1. PICK w \in Nat : w = W[p]
      BY <1>4
    <2>2. S = {a, b, d + w}
      BY <1>2, <1>4, <2>1
    <2>3. \E x \in S : \A y \in S : x >= y
      BY <2>2
    <2>4. Max(S) \in S /\ \A y \in S : Max(S) >= y
      BY <2>3 DEF Max
    <2>5. QED
      BY <1>1, <1>3, <1>4, <2>1, <2>2, <2>4
  <1>5. CASE p \notin DOMAIN W
    <2>1. S = {a, b}
      BY <1>2, <1>5
    <2>2. \E x \in S : \A y \in S : x >= y
      BY <2>1
    <2>3. Max(S) \in S /\ \A y \in S : Max(S) >= y
      BY <2>2 DEF Max
    <2>4. QED
      BY <1>1, <1>3, <1>5, <2>1, <2>3
  <1>6. QED
    BY <1>4, <1>5

(* The table: no cell is below its neighbours or below a pairing there,    *)
(* and each is one of the three.                                           *)
IsBest(best, W, n, m) ==
    /\ best \in [Cells(n, m) -> Nat]
    /\ \A p \in Cells(n, m) : AtEdge(p) => best[p] = 0
    /\ \A p \in Cells(n, m) : ~AtEdge(p) =>
          /\ best[p] >= best[Above(p)] /\ best[p] >= best[Beside(p)]
          /\ p \in DOMAIN W => best[p] >= best[Diagonal(p)] + W[p]
          /\ \/ best[p] = best[Above(p)]
             \/ best[p] = best[Beside(p)]
             \/ p \in DOMAIN W /\ best[p] = best[Diagonal(p)] + W[p]

(* The code's table is such a table.                                       *)
LEMMA BestIsBest ==
    ASSUME NEW n \in Nat, NEW m \in Nat, NEW W, IsScored(W, n, m)
    PROVE  IsBest(Best(W, n, m), W, n, m)
  <1>1. PICK D : D = Cells(n, m)
    OBVIOUS
  <1>2. PICK F : F = [t \in [D -> Nat] |-> [p \in D |-> Cell(W, t, p)]]
    OBVIOUS
  <1>3. ASSUME NEW t \in [D -> Nat], NEW p \in D PROVE Cell(W, t, p) \in Nat
    <2>1. CASE AtEdge(p)
      BY <2>1 DEF Cell
    <2>2. CASE ~AtEdge(p)
      <3>1. t[Above(p)] \in Nat /\ t[Beside(p)] \in Nat /\ t[Diagonal(p)] \in Nat
        BY <1>1, <2>2, Neighbourhood
      <3>2. p \in DOMAIN W => W[p] \in Nat
        BY DEF IsScored
      <3>3. QED
        BY <2>2, <3>1, <3>2, CellIsGreatest
    <2>3. QED
      BY <2>1, <2>2
  <1>4. F \in [[D -> Nat] -> [D -> Nat]]
    BY <1>2, <1>3
  <1>5. ASSUME NEW t \in [D -> Nat], NEW u \in [D -> Nat], NEW p \in D,
               ~AtEdge(p) => /\ t[Above(p)] = u[Above(p)] /\ t[Beside(p)] = u[Beside(p)]
                             /\ t[Diagonal(p)] = u[Diagonal(p)]
        PROVE  F[t][p] = F[u][p]
    <2>1. F[t][p] = Cell(W, t, p) /\ F[u][p] = Cell(W, u, p)
      BY <1>2
    <2>2. Cell(W, t, p) = Cell(W, u, p)
      <3>1. CASE AtEdge(p)
        BY <3>1 DEF Cell
      <3>2. CASE ~AtEdge(p)
        BY <1>5, <3>2 DEF Cell
      <3>3. QED
        BY <3>1, <3>2
    <2>3. QED
      BY <2>1, <2>2
  <1>6. PICK t : IsTable(t, D, Nat, F)
    BY <1>1, <1>4, <1>5, CellRecursion
  <1>7. t = [p \in D |-> Cell(W, t, p)]
    BY <1>2, <1>6 DEF IsTable
  <1>8. PICK best : best = Best(W, n, m) /\ best = [p \in D |-> Cell(W, best, p)]
    <2>1. Computes(t, W, n, m)
      BY <1>1, <1>7 DEF Computes
    <2>2. Best(W, n, m) = CHOOSE b : Computes(b, W, n, m)
      BY Zenon DEF Best, Computes, Cell, AtEdge
    <2>3. Computes(Best(W, n, m), W, n, m)
      BY <2>1, <2>2
    <2>4. QED
      BY <1>1, <2>3 DEF Computes
  <1>9. PICK T : T = {p \in D : best[p] \in Nat}
    OBVIOUS
  <1>10. \A p \in D : AtEdge(p) => p \in T
    BY <1>8, <1>9 DEF Cell
  <1>11. ASSUME NEW p \in D, ~AtEdge(p), Above(p) \in T, Beside(p) \in T, Diagonal(p) \in T
         PROVE  p \in T
    <2>1. best[Above(p)] \in Nat /\ best[Beside(p)] \in Nat /\ best[Diagonal(p)] \in Nat
      BY <1>9, <1>11
    <2>2. p \in DOMAIN W => W[p] \in Nat
      BY DEF IsScored
    <2>3. Cell(W, best, p) \in Nat
      BY <1>11, <2>1, <2>2, CellIsGreatest
    <2>4. QED
      BY <1>8, <1>9, <2>3
  <1>12. D \subseteq T
    BY <1>1, <1>10, <1>11, CellInduction
  <1>13. best \in [D -> Nat]
    BY <1>8, <1>9, <1>12
  <1>14. \A p \in D : AtEdge(p) => best[p] = 0
    BY <1>8 DEF Cell
  <1>15. ASSUME NEW p \in D, ~AtEdge(p)
         PROVE  /\ best[p] >= best[Above(p)] /\ best[p] >= best[Beside(p)]
                /\ p \in DOMAIN W => best[p] >= best[Diagonal(p)] + W[p]
                /\ \/ best[p] = best[Above(p)]
                   \/ best[p] = best[Beside(p)]
                   \/ p \in DOMAIN W /\ best[p] = best[Diagonal(p)] + W[p]
    <2>1. best[Above(p)] \in Nat /\ best[Beside(p)] \in Nat /\ best[Diagonal(p)] \in Nat
      BY <1>1, <1>13, <1>15, Neighbourhood
    <2>2. p \in DOMAIN W => W[p] \in Nat
      BY DEF IsScored
    <2>3. best[p] = Cell(W, best, p)
      BY <1>8
    <2>4. QED
      BY <1>15, <2>1, <2>2, <2>3, CellIsGreatest
  <1>16. QED
    BY <1>1, <1>8, <1>13, <1>14, <1>15 DEF IsBest

(* What pairs score.                                                       *)
AddsUp(W) ==
    /\ SumFunctionOnSet(W, {}) = 0
    /\ \A S \in SUBSET DOMAIN W :
          /\ IsFiniteSet(S) /\ SumFunctionOnSet(W, S) \in Nat
          /\ \A p \in DOMAIN W : p \notin S =>
                SumFunctionOnSet(W, S \cup {p}) = W[p] + SumFunctionOnSet(W, S)

LEMMA ScoredSums ==
    ASSUME NEW n \in Nat, NEW m \in Nat, NEW W, IsScored(W, n, m)
    PROVE  AddsUp(W)
  <1>1. IsFiniteSet((1 .. n) \X (1 .. m))
    <2>1. PICK a \in Int, b \in Int, c \in Int : a = 1 /\ b = n /\ c = m
      OBVIOUS
    <2>2. IsFiniteSet(a .. b) /\ IsFiniteSet(a .. c)
      BY FS_Interval
    <2>3. IsFiniteSet((a .. b) \X (a .. c))
      BY <2>2, FS_Product
    <2>4. QED
      BY <2>1, <2>3
  <1>2. IsFiniteSet(DOMAIN W)
    BY <1>1, FS_Subset DEF IsScored
  <1>3. ASSUME NEW S \in SUBSET DOMAIN W
        PROVE  /\ IsFiniteSet(S) /\ SumFunctionOnSet(W, S) \in Nat
               /\ \A p \in DOMAIN W : p \notin S =>
                     SumFunctionOnSet(W, S \cup {p}) = W[p] + SumFunctionOnSet(W, S)
    <2>1. IsFiniteSet(S)
      BY <1>2, FS_Subset
    <2>2. \A p \in DOMAIN W : W[p] \in Nat
      BY DEF IsScored
    <2>3. QED
      BY <2>1, <2>2, SumLaws
  <1>4. QED
    BY <1>3, SumLaws DEF AddsUp

(* No pairs that do not cross score more than the table says.              *)
Bounds(best, W, p) ==
    \A S \in SUBSET DOMAIN W :
        NonCrossing(S) /\ (\A q \in S : q[1] <= p[1] /\ q[2] <= p[2])
            => SumFunctionOnSet(W, S) <= best[p]

LEMMA NothingScoresMore ==
    ASSUME NEW n \in Nat, NEW m \in Nat, NEW W, IsScored(W, n, m),
           NEW best, IsBest(best, W, n, m)
    PROVE  \A p \in Cells(n, m) : Bounds(best, W, p)
  <1>0. AddsUp(W)
    BY ScoredSums
  <1>1. PICK T : T = {p \in Cells(n, m) : Bounds(best, W, p)}
    OBVIOUS
  <1>2. \A q \in DOMAIN W : q[1] \in 1 .. n /\ q[2] \in 1 .. m /\ q = <<q[1], q[2]>> /\ W[q] \in Nat
    BY DEF IsScored
  <1>3. ASSUME NEW p \in Cells(n, m), AtEdge(p) PROVE p \in T
    <2>1. ASSUME NEW S \in SUBSET DOMAIN W, \A q \in S : q[1] <= p[1] /\ q[2] <= p[2]
          PROVE  S = {}
      BY <1>2, <1>3, <2>1 DEF AtEdge
    <2>2. best[p] = 0
      BY <1>3 DEF IsBest
    <2>3. SumFunctionOnSet(W, {}) = 0
      BY <1>0 DEF AddsUp
    <2>4. QED
      BY <1>1, <2>1, <2>2, <2>3 DEF Bounds
  <1>4. ASSUME NEW p \in Cells(n, m), ~AtEdge(p), Above(p) \in T, Beside(p) \in T, Diagonal(p) \in T
        PROVE  p \in T
    <2>1. SUFFICES ASSUME NEW S \in SUBSET DOMAIN W, NonCrossing(S),
                          \A q \in S : q[1] <= p[1] /\ q[2] <= p[2]
                   PROVE  SumFunctionOnSet(W, S) <= best[p]
      BY <1>1 DEF Bounds
    <2>2. PICK i \in 0 .. n, j \in 0 .. m :
              /\ i = p[1] /\ j = p[2] /\ p = <<i, j>>
              /\ Above(p) = <<i - 1, j>> /\ Beside(p) = <<i, j - 1>> /\ Diagonal(p) = <<i - 1, j - 1>>
      BY <1>4, Neighbourhood
    <2>3. /\ best[Above(p)] \in Nat /\ best[Beside(p)] \in Nat /\ best[Diagonal(p)] \in Nat
          /\ best[p] \in Nat
      BY <1>4, Neighbourhood DEF IsBest
    <2>4. /\ best[p] >= best[Above(p)] /\ best[p] >= best[Beside(p)]
          /\ p \in DOMAIN W => best[p] >= best[Diagonal(p)] + W[p]
      BY <1>4 DEF IsBest
    <2>5. Bounds(best, W, Above(p)) /\ Bounds(best, W, Beside(p)) /\ Bounds(best, W, Diagonal(p))
      BY <1>1, <1>4
    <2>6. SumFunctionOnSet(W, S) \in Nat
      BY <1>0 DEF AddsUp
    <2>7. CASE p \in S
      <3>1. PICK R : R = S \ {p} /\ R \in SUBSET DOMAIN W
        OBVIOUS
      <3>2. \A q \in R : q[1] <= i - 1 /\ q[2] <= j - 1
        BY <1>2, <2>1, <2>2, <2>7, <3>1 DEF NonCrossing
      <3>3. NonCrossing(R)
        BY <2>1, <3>1 DEF NonCrossing
      <3>4. SumFunctionOnSet(W, R) <= best[Diagonal(p)]
        BY <2>2, <2>5, <3>1, <3>2, <3>3 DEF Bounds
      <3>5. p \in DOMAIN W /\ p \notin R /\ S = R \cup {p}
        BY <2>7, <3>1
      <3>6. /\ SumFunctionOnSet(W, R) \in Nat /\ W[p] \in Nat
            /\ SumFunctionOnSet(W, R \cup {p}) = W[p] + SumFunctionOnSet(W, R)
        <4>1. \A q \in DOMAIN W : W[q] \in Nat
          BY DEF IsScored
        <4>2. /\ SumFunctionOnSet(W, R) \in Nat
              /\ \A q \in DOMAIN W : q \notin R =>
                    SumFunctionOnSet(W, R \cup {q}) = W[q] + SumFunctionOnSet(W, R)
          BY <3>1, <1>0 DEF AddsUp
        <4>3. QED
          BY <3>5, <4>1, <4>2
      <3>7. SumFunctionOnSet(W, S) = W[p] + SumFunctionOnSet(W, R)
        BY <3>5, <3>6
      <3>8. QED
        BY <2>3, <2>4, <3>4, <3>5, <3>6, <3>7
    <2>8. CASE p \notin S
      <3>1. (\A q \in S : q[1] <= i - 1 /\ q[2] <= j) \/ (\A q \in S : q[1] <= i /\ q[2] <= j - 1)
        <4>1. SUFFICES ASSUME NEW q \in S, ~(q[1] <= i - 1), NEW r \in S, ~(r[2] <= j - 1) PROVE FALSE
          BY <2>1, <2>2
        <4>2. q[1] = i /\ r[2] = j /\ q[2] <= j /\ r[1] <= i
          BY <1>2, <2>1, <2>2, <4>1
        <4>3. q # r
          <5>1. q = r => q = p
            BY <1>2, <2>2, <4>2
          <5>2. QED
            BY <2>8, <5>1
        <4>4. (q[1] < r[1] /\ q[2] < r[2]) \/ (r[1] < q[1] /\ r[2] < q[2])
          BY <2>1, <4>3 DEF NonCrossing
        <4>5. q[1] \in Int /\ q[2] \in Int /\ r[1] \in Int /\ r[2] \in Int
          BY <1>2
        <4>6. QED
          BY <4>2, <4>4, <4>5
      <3>2. SumFunctionOnSet(W, S) <= best[Above(p)] \/ SumFunctionOnSet(W, S) <= best[Beside(p)]
        BY <2>1, <2>2, <2>5, <3>1 DEF Bounds
      <3>3. QED
        BY <2>3, <2>4, <2>6, <3>2
    <2>9. QED
      BY <2>7, <2>8
  <1>5. Cells(n, m) \subseteq T
    BY <1>3, <1>4, CellInduction
  <1>6. QED
    BY <1>1, <1>5

(* The walk back: pairs in time order that score what the table says.      *)
IsPath(s, W, best, p) ==
    /\ s \in Seq(DOMAIN W)
    /\ \A j, k \in 1 .. Len(s) : j < k => s[j][1] < s[k][1] /\ s[j][2] < s[k][2]
    /\ \A k \in 1 .. Len(s) : s[k][1] <= p[1] /\ s[k][2] <= p[2]
    /\ SumFunctionOnSet(W, ToSet(s)) = best[p]

(* A pairing goes after every pair of the cell diagonal to it.             *)
LEMMA LongerPath ==
    ASSUME NEW n \in Nat, NEW m \in Nat, NEW W, IsScored(W, n, m),
           NEW best, NEW p \in DOMAIN W, best[p] = best[Diagonal(p)] + W[p],
           best[Diagonal(p)] \in Nat, NEW s, IsPath(s, W, best, Diagonal(p))
    PROVE  IsPath(Append(s, p), W, best, p)
  <1>1. PICK t : t = Append(s, p)
    OBVIOUS
  <1>2. s \in Seq(DOMAIN W) /\ Len(s) \in Nat /\ \A k \in 1 .. Len(s) : s[k] \in DOMAIN W
    BY LenProperties, ElementOfSeq DEF IsPath
  <1>3. /\ t \in Seq(DOMAIN W) /\ Len(t) = Len(s) + 1
        /\ \A k \in 1 .. Len(s) : t[k] = s[k]
        /\ t[Len(s) + 1] = p
    BY <1>1, <1>2, AppendProperties
  <1>4. \A q \in DOMAIN W : q[1] \in Int /\ q[2] \in Int /\ W[q] \in Nat
    BY DEF IsScored
  <1>5. ASSUME NEW k \in 1 .. Len(s) PROVE s[k][1] < p[1] /\ s[k][2] < p[2]
    <2>1. Diagonal(p)[1] = p[1] - 1 /\ Diagonal(p)[2] = p[2] - 1
      BY DEF Diagonal
    <2>2. s[k][1] <= Diagonal(p)[1] /\ s[k][2] <= Diagonal(p)[2]
      BY DEF IsPath
    <2>3. s[k][1] \in Int /\ s[k][2] \in Int /\ p[1] \in Int /\ p[2] \in Int
      BY <1>2, <1>4
    <2>4. QED
      BY <2>1, <2>2, <2>3
  <1>6. ASSUME NEW j \in 1 .. Len(t), NEW k \in 1 .. Len(t), j < k
        PROVE  t[j][1] < t[k][1] /\ t[j][2] < t[k][2]
    <2>1. j \in 1 .. Len(s) /\ t[j] = s[j]
      BY <1>2, <1>3, <1>6
    <2>2. CASE k \in 1 .. Len(s)
      BY <1>3, <1>6, <2>1, <2>2 DEF IsPath
    <2>3. CASE k = Len(s) + 1
      BY <1>3, <1>5, <2>1, <2>3
    <2>4. QED
      BY <1>2, <1>3, <2>2, <2>3
  <1>7. ASSUME NEW k \in 1 .. Len(t) PROVE t[k][1] <= p[1] /\ t[k][2] <= p[2]
    <2>1. CASE k \in 1 .. Len(s)
      <3>1. t[k] = s[k] /\ s[k] \in DOMAIN W
        BY <1>2, <1>3, <2>1
      <3>2. s[k][1] < p[1] /\ s[k][2] < p[2]
        BY <1>5, <2>1
      <3>3. s[k][1] \in Int /\ s[k][2] \in Int /\ p[1] \in Int /\ p[2] \in Int
        BY <1>4, <3>1
      <3>4. QED
        BY <3>1, <3>2, <3>3
    <2>2. CASE k = Len(s) + 1
      BY <1>3, <1>4, <2>2
    <2>3. QED
      BY <1>2, <1>3, <2>1, <2>2
  <1>8. ToSet(t) = ToSet(s) \cup {p} /\ ToSet(s) \in SUBSET DOMAIN W /\ p \notin ToSet(s)
    <2>1. DOMAIN s = 1 .. Len(s) /\ DOMAIN t = 1 .. Len(s) + 1
      BY <1>2, <1>3, LenProperties
    <2>2. DOMAIN t = DOMAIN s \cup {Len(s) + 1}
      BY <1>2, <2>1
    <2>3. ToSet(t) = {t[k] : k \in DOMAIN s} \cup {p}
      BY <1>3, <2>2 DEF ToSet
    <2>4. {t[k] : k \in DOMAIN s} = ToSet(s)
      BY <1>3, <2>1 DEF ToSet
    <2>5. ToSet(s) \in SUBSET DOMAIN W
      BY <1>2, <2>1 DEF ToSet
    <2>6. p \notin ToSet(s)
      <3>1. \A k \in 1 .. Len(s) : s[k] # p
        BY <1>2, <1>4, <1>5
      <3>2. QED
        BY <2>1, <3>1 DEF ToSet
    <2>7. QED
      BY <2>3, <2>4, <2>5, <2>6
  <1>9. SumFunctionOnSet(W, ToSet(t)) = W[p] + SumFunctionOnSet(W, ToSet(s))
    BY <1>8, ScoredSums DEF AddsUp
  <1>10. SumFunctionOnSet(W, ToSet(t)) = best[p]
    BY <1>4, <1>9 DEF IsPath
  <1>11. QED
    BY <1>1, <1>3, <1>6, <1>7, <1>10 DEF IsPath

StepBack(W, best, walk, p) ==
    IF AtEdge(p) THEN <<>>
    ELSE IF p \in DOMAIN W /\ best[p] = best[Diagonal(p)] + W[p] THEN Append(walk[Diagonal(p)], p)
    ELSE IF best[p] = best[Above(p)] THEN walk[Above(p)]
    ELSE walk[Beside(p)]

Walks(walk, W, best, n, m) == walk = [p \in Cells(n, m) |-> StepBack(W, best, walk, p)]

(* The walk back is well defined, by the rank of the cells.                *)
LEMMA WalkExists ==
    ASSUME NEW n \in Nat, NEW m \in Nat, NEW W, NEW best
    PROVE  \E walk : Walks(walk, W, best, n, m)
  <1>1. PICK D : D = Cells(n, m)
    OBVIOUS
  <1>2. PICK V : V = Seq(D)
    OBVIOUS
  <1>3. PICK F : F = [t \in [D -> V] |-> [p \in D |-> StepBack(W, best, t, p)]]
    OBVIOUS
  <1>4. ASSUME NEW t \in [D -> V], NEW p \in D PROVE StepBack(W, best, t, p) \in V
    <2>1. CASE AtEdge(p)
      BY <1>2, <2>1 DEF StepBack
    <2>2. CASE ~AtEdge(p)
      <3>1. t[Above(p)] \in V /\ t[Beside(p)] \in V /\ t[Diagonal(p)] \in V
        BY <1>1, <2>2, Neighbourhood
      <3>2. Append(t[Diagonal(p)], p) \in V
        BY <1>2, <3>1, AppendProperties
      <3>3. QED
        BY <2>2, <3>1, <3>2 DEF StepBack
    <2>3. QED
      BY <2>1, <2>2
  <1>5. F \in [[D -> V] -> [D -> V]]
    BY <1>3, <1>4
  <1>6. ASSUME NEW t \in [D -> V], NEW u \in [D -> V], NEW p \in D,
               ~AtEdge(p) => /\ t[Above(p)] = u[Above(p)] /\ t[Beside(p)] = u[Beside(p)]
                             /\ t[Diagonal(p)] = u[Diagonal(p)]
        PROVE  F[t][p] = F[u][p]
    <2>1. F[t][p] = StepBack(W, best, t, p) /\ F[u][p] = StepBack(W, best, u, p)
      BY <1>3
    <2>2. StepBack(W, best, t, p) = StepBack(W, best, u, p)
      <3>1. CASE AtEdge(p)
        BY <3>1 DEF StepBack
      <3>2. CASE ~AtEdge(p)
        BY <1>6, <3>2 DEF StepBack
      <3>3. QED
        BY <3>1, <3>2
    <2>3. QED
      BY <2>1, <2>2
  <1>7. <<>> \in V
    BY <1>2
  <1>8. PICK t : IsTable(t, D, V, F)
    BY <1>1, <1>5, <1>6, <1>7, CellRecursion
  <1>9. t = [p \in D |-> StepBack(W, best, t, p)]
    BY <1>3, <1>8 DEF IsTable
  <1>10. QED
    BY <1>1, <1>9 DEF Walks

(* Whatever it does with ties, the walk is a path that scores the last     *)
(* cell.                                                                   *)
LEMMA WalkIsPath ==
    ASSUME NEW n \in Nat, NEW m \in Nat, NEW W, IsScored(W, n, m),
           NEW best, IsBest(best, W, n, m)
    PROVE  IsPath(Traceback(W, best, n, m), W, best, <<n, m>>)
  <1>1. PICK D : D = Cells(n, m)
    OBVIOUS
  <1>2. PICK walk : walk = [p \in D |-> StepBack(W, best, walk, p)] /\ Traceback(W, best, n, m) = walk[<<n, m>>]
    <2>1. \E w : Walks(w, W, best, n, m)
      BY WalkExists
    <2>2. PICK w : w = CHOOSE u : Walks(u, W, best, n, m)
      OBVIOUS
    <2>3. Traceback(W, best, n, m) = (CHOOSE u : Walks(u, W, best, n, m))[<<n, m>>]
      BY Zenon DEF Traceback, Walks, StepBack, AtEdge
    <2>4. Walks(w, W, best, n, m)
      BY <2>1, <2>2
    <2>5. w = [p \in D |-> StepBack(W, best, w, p)]
      BY <1>1, <2>4 DEF Walks
    <2>6. QED
      BY <2>2, <2>3, <2>5
  <1>3. PICK T : T = {p \in D : IsPath(walk[p], W, best, p)}
    OBVIOUS
  <1>4. \A p \in D : walk[p] = StepBack(W, best, walk, p)
    BY <1>2
  <1>5. ASSUME NEW p \in D, AtEdge(p) PROVE p \in T
    <2>1. walk[p] = <<>>
      BY <1>4, <1>5 DEF StepBack
    <2>2. ToSet(<<>>) = {}
      BY DEF ToSet
    <2>3. SumFunctionOnSet(W, {}) = 0
      BY ScoredSums DEF AddsUp
    <2>4. best[p] = 0
      BY <1>1, <1>5 DEF IsBest
    <2>5. IsPath(<<>>, W, best, p)
      <3>1. <<>> \in Seq(DOMAIN W) /\ Len(<<>>) = 0
        BY EmptySeq
      <3>2. PICK s \in Seq(DOMAIN W) : s = <<>>
        BY <3>1
      <3>3. Len(s) = 0 /\ ToSet(s) = {}
        BY <2>2, <3>1, <3>2
      <3>4. IsPath(s, W, best, p)
        BY <2>3, <2>4, <3>3 DEF IsPath
      <3>5. QED
        BY <3>2, <3>4
    <2>6. QED
      BY <1>3, <2>1, <2>5
  <1>6. ASSUME NEW p \in D, ~AtEdge(p), Above(p) \in T, Beside(p) \in T, Diagonal(p) \in T
        PROVE  p \in T
    <2>1. /\ IsPath(walk[Above(p)], W, best, Above(p)) /\ IsPath(walk[Beside(p)], W, best, Beside(p))
          /\ IsPath(walk[Diagonal(p)], W, best, Diagonal(p))
      BY <1>3, <1>6
    <2>2. /\ best[p] = best[Above(p)] \/ best[p] = best[Beside(p)]
             \/ (p \in DOMAIN W /\ best[p] = best[Diagonal(p)] + W[p])
          /\ best[Diagonal(p)] \in Nat
      BY <1>1, <1>6, Neighbourhood DEF IsBest
    <2>3. CASE p \in DOMAIN W /\ best[p] = best[Diagonal(p)] + W[p]
      <3>1. walk[p] = Append(walk[Diagonal(p)], p)
        BY <1>4, <1>6, <2>3 DEF StepBack
      <3>2. IsPath(Append(walk[Diagonal(p)], p), W, best, p)
        BY <2>1, <2>2, <2>3, LongerPath
      <3>3. QED
        BY <1>3, <3>1, <3>2
    <2>4. ASSUME NEW q \in D, q = Above(p) \/ q = Beside(p), IsPath(walk[q], W, best, q), best[p] = best[q]
          PROVE  IsPath(walk[q], W, best, p)
      <3>1. /\ p[1] \in Int /\ p[2] \in Int /\ q[1] <= p[1] /\ q[2] <= p[2]
            /\ q[1] \in Int /\ q[2] \in Int
        BY <1>1, <1>6, <2>4, Neighbourhood
      <3>2. PICK s : s = walk[q]
        OBVIOUS
      <3>3. ASSUME NEW k \in 1 .. Len(s) PROVE s[k][1] <= p[1] /\ s[k][2] <= p[2]
        <4>1. s \in Seq(DOMAIN W) /\ Len(s) \in Nat
          BY <2>4, <3>2, LenProperties DEF IsPath
        <4>2. s[k] \in DOMAIN W
          BY <4>1, ElementOfSeq
        <4>3. s[k][1] \in Int /\ s[k][2] \in Int
          BY <4>2 DEF IsScored
        <4>4. s[k][1] <= q[1] /\ s[k][2] <= q[2]
          BY <2>4, <3>2 DEF IsPath
        <4>5. QED
          BY <3>1, <4>3, <4>4
      <3>4. QED
        BY <2>4, <3>2, <3>3 DEF IsPath
    <2>5. CASE ~(p \in DOMAIN W /\ best[p] = best[Diagonal(p)] + W[p]) /\ best[p] = best[Above(p)]
      <3>1. walk[p] = walk[Above(p)]
        BY <1>4, <1>6, <2>5 DEF StepBack
      <3>2. Above(p) \in D
        BY <1>1, <1>6, Neighbourhood
      <3>3. IsPath(walk[Above(p)], W, best, p)
        BY <2>1, <2>4, <2>5, <3>2
      <3>4. QED
        BY <1>3, <3>1, <3>3
    <2>6. CASE ~(p \in DOMAIN W /\ best[p] = best[Diagonal(p)] + W[p]) /\ best[p] # best[Above(p)]
      <3>1. walk[p] = walk[Beside(p)]
        BY <1>4, <1>6, <2>6 DEF StepBack
      <3>2. Beside(p) \in D
        BY <1>1, <1>6, Neighbourhood
      <3>3. IsPath(walk[Beside(p)], W, best, p)
        BY <2>1, <2>2, <2>4, <2>6, <3>2
      <3>4. QED
        BY <1>3, <3>1, <3>3
    <2>7. QED
      BY <2>3, <2>5, <2>6
  <1>7. D \subseteq T
    BY <1>1, <1>5, <1>6, CellInduction
  <1>8. <<n, m>> \in D
    BY <1>1 DEF Cells
  <1>9. QED
    BY <1>2, <1>3, <1>7, <1>8

-----------------------------------------------------------------------------
(* What is matched.                                                        *)
LEMMA ScoresAreNatural ==
    ASSUME NEW s, NEW t, s.start \in Int, s.end \in Int, t.start \in Int, t.end \in Int,
           IsSpan(s), IsSpan(t)
    PROVE  Score(s, t) \in Nat
  <1>1. PICK a \in Int, b \in Int, c \in Int, d \in Int :
            a = s.start /\ b = s.end /\ c = t.start /\ d = t.end
    OBVIOUS
  <1>2. a < b /\ c < d
    BY <1>1 DEF IsSpan
  <1>3. PICK least : least = Min({b, d}) /\ least \in {b, d} /\ least <= b /\ least <= d
    <2>1. \E x \in {b, d} : \A y \in {b, d} : x <= y
      OBVIOUS
    <2>2. Min({b, d}) \in {b, d} /\ \A y \in {b, d} : Min({b, d}) <= y
      BY <2>1 DEF Min
    <2>3. QED
      BY <2>2
  <1>4. PICK latest : latest = Max({a, c}) /\ latest \in {a, c} /\ a <= latest /\ c <= latest
    <2>1. \E x \in {a, c} : \A y \in {a, c} : x >= y
      OBVIOUS
    <2>2. Max({a, c}) \in {a, c} /\ \A y \in {a, c} : Max({a, c}) >= y
      BY <2>1 DEF Max
    <2>3. QED
      BY <2>2
  <1>5. PICK e \in Int : e = least - latest
    BY <1>3, <1>4
  <1>6. PICK shared : shared = Max({0, e}) /\ shared \in {0, e} /\ 0 <= shared
    <2>1. \E x \in {0, e} : \A y \in {0, e} : x >= y
      OBVIOUS
    <2>2. Max({0, e}) \in {0, e} /\ \A y \in {0, e} : Max({0, e}) >= y
      BY <2>1 DEF Max
    <2>3. QED
      BY <2>2
  <1>7. Intersection(s, t) = shared
    BY <1>1, <1>3, <1>4, <1>5, <1>6 DEF Intersection
  <1>8. PICK u \in Nat : u = Union(s, t) /\ u > 0
    <2>1. Union(s, t) = (b - a) + (d - c) - shared
      BY <1>1, <1>7 DEF Union, Length
    <2>2. shared <= b - a
      BY <1>2, <1>3, <1>4, <1>5, <1>6
    <2>3. QED
      BY <1>2, <1>6, <2>1, <2>2
  <1>9. PICK k \in Nat : k = Scale * shared
    <2>1. shared \in Nat
      BY <1>6
    <2>2. \A x \in Nat : Scale * x \in Nat
      BY ExactScores
    <2>3. QED
      BY <2>1, <2>2
  <1>10. k \div u \in Nat
    BY <1>8
  <1>11. QED
    BY <1>7, <1>8, <1>9, <1>10 DEF Score

(* The pairs of a matching: places in the two lists, increasing.           *)
IsMatch(mt, L, R, W, best, s) ==
    /\ IsScored(W, Cardinality(L), Cardinality(R))
    /\ IsBest(best, W, Cardinality(L), Cardinality(R))
    /\ IsPath(s, W, best, <<Cardinality(L), Cardinality(R)>>)
    /\ mt.pairs = [k \in DOMAIN s |-> <<Ordered(L)[s[k][1]], Ordered(R)[s[k][2]]>>]
    /\ mt.leftOnly = L \ {mt.pairs[k][1] : k \in DOMAIN mt.pairs}
    /\ mt.rightOnly = R \ {mt.pairs[k][2] : k \in DOMAIN mt.pairs}

(* The code's matching is of this kind.                                    *)
LEMMA MatchIsMatch ==
    ASSUME NEW L, NEW R, NEW criterion, AreMarks(L), AreMarks(R)
    PROVE  \E best, s :
              IsMatch(Match(L, R, criterion), L, R, Weights(Ordered(L), Ordered(R), criterion), best, s)
  <1>1. PICK n \in Nat, m \in Nat : n = Cardinality(L) /\ m = Cardinality(R)
    BY OrderedMarks
  <1>2. PICK left, right : left = Ordered(L) /\ right = Ordered(R)
    OBVIOUS
  <1>3. left \in [1 .. n -> L] /\ right \in [1 .. m -> R]
    BY <1>1, <1>2, OrderedMarks
  <1>4. Len(left) = n /\ Len(right) = m
    <2>1. left \in Seq(L) /\ right \in Seq(R)
      BY <1>3
    <2>2. DOMAIN left = 1 .. n /\ DOMAIN right = 1 .. m
      BY <1>3
    <2>3. QED
      BY <2>1, <2>2, LenProperties
  <1>5. PICK W : W = Weights(left, right, criterion)
    OBVIOUS
  <1>6. IsScored(W, n, m)
    <2>1. \A i \in 1 .. n, j \in 1 .. m : Score(left[i], right[j]) \in Nat
      <3>1. ASSUME NEW i \in 1 .. n, NEW j \in 1 .. m PROVE Score(left[i], right[j]) \in Nat
        <4>1. left[i] \in L /\ right[j] \in R
          BY <1>3
        <4>2. QED
          BY <4>1, ScoresAreNatural DEF AreMarks
      <3>2. QED
        BY <3>1
    <2>2. PICK P : P = {p \in (1 .. n) \X (1 .. m) : Admits(criterion, left[p[1]], right[p[2]])}
      OBVIOUS
    <2>3. W = [p \in P |-> Score(left[p[1]], right[p[2]])]
      BY <1>3, <1>5, <2>2 DEF Weights
    <2>4. QED
      BY <2>1, <2>2, <2>3 DEF IsScored
  <1>7. PICK best : best = Best(W, n, m) /\ IsBest(best, W, n, m)
    BY <1>6, BestIsBest
  <1>8. PICK s : s = Traceback(W, best, n, m) /\ IsPath(s, W, best, <<n, m>>)
    BY <1>6, <1>7, WalkIsPath
  <1>9. PICK mt : mt = Match(L, R, criterion)
    OBVIOUS
  <1>10. /\ mt.pairs = [k \in DOMAIN s |-> <<left[s[k][1]], right[s[k][2]]>>]
         /\ mt.leftOnly = L \ {mt.pairs[k][1] : k \in DOMAIN mt.pairs}
         /\ mt.rightOnly = R \ {mt.pairs[k][2] : k \in DOMAIN mt.pairs}
    BY <1>2, <1>4, <1>5, <1>7, <1>8, <1>9 DEF Match
  <1>11. IsMatch(mt, L, R, W, best, s)
    BY <1>1, <1>2, <1>6, <1>7, <1>8, <1>10 DEF IsMatch
  <1>12. QED
    BY <1>2, <1>5, <1>9, <1>11

(* The places of a list, counted.                                          *)
LEMMA Places ==
    ASSUME NEW N \in Nat
    PROVE  IsFiniteSet(1 .. N) /\ Cardinality(1 .. N) = N
  <1>1. PICK a \in Int : a = 1
    OBVIOUS
  <1>2. IsFiniteSet(a .. N) /\ Cardinality(a .. N) = IF a > N THEN 0 ELSE N - a + 1
    BY FS_Interval
  <1>3. Cardinality(a .. N) = N
    BY <1>1, <1>2
  <1>4. QED
    BY <1>1, <1>2, <1>3

(* Two sets, paired off, have as many members.                             *)
LEMMA AsMany ==
    ASSUME NEW S, IsFiniteSet(S), NEW T, NEW f \in [S -> T],
           \A x, y \in S : f[x] = f[y] => x = y,
           \A y \in T : \E x \in S : f[x] = y
    PROVE  IsFiniteSet(T) /\ Cardinality(T) = Cardinality(S)
  <1>1. f \in Bijection(S, T)
    BY DEF Bijection, Injection, Surjection, IsInjective
  <1>2. QED
    BY <1>1, FS_Bijection DEF ExistsBijection

(* No mark is listed twice.                                                *)
LEMMA PlacedOnce ==
    ASSUME NEW S, AreMarks(S)
    PROVE  /\ Cardinality(S) \in Nat
           /\ Ordered(S) \in [1 .. Cardinality(S) -> S]
           /\ \A j, k \in 1 .. Cardinality(S) : Ordered(S)[j] = Ordered(S)[k] => j = k
  <1>1. PICK c, s : c = Cardinality(S) /\ s = Ordered(S)
    OBVIOUS
  <1>2. c \in Nat /\ s \in [1 .. c -> S]
    BY <1>1, OrderedMarks
  <1>3. \A j, k \in 1 .. c : j < k <=> Earlier(s[j], s[k])
    BY <1>1, OrderedMarks
  <1>4. ASSUME NEW j \in 1 .. c, NEW k \in 1 .. c, s[j] = s[k], j # k PROVE FALSE
    <2>1. j < k \/ k < j
      BY <1>2, <1>4
    <2>2. Earlier(s[j], s[k]) \/ Earlier(s[k], s[j])
      BY <1>3, <2>1
    <2>3. Earlier(s[j], s[j])
      BY <1>4, <2>2
    <2>4. j < j
      BY <1>3, <2>3
    <2>5. QED
      BY <1>2, <2>4
  <1>5. QED
    BY <1>1, <1>2, <1>4

(* A path is its places, once each.                                        *)
LEMMA PathPlaces ==
    ASSUME NEW W, NEW n \in Nat, NEW m \in Nat, IsScored(W, n, m), NEW best, NEW p, NEW s, IsPath(s, W, best, p)
    PROVE  /\ Len(s) \in Nat /\ DOMAIN s = 1 .. Len(s)
           /\ \A k \in 1 .. Len(s) : s[k] \in DOMAIN W
           /\ ToSet(s) \in SUBSET DOMAIN W
           /\ \A j, k \in 1 .. Len(s) : j # k => s[j][1] # s[k][1] /\ s[j][2] # s[k][2]
           /\ Cardinality(ToSet(s)) = Len(s)
           /\ NonCrossing(ToSet(s))
  <1>1. s \in Seq(DOMAIN W)
    BY DEF IsPath
  <1>2. Len(s) \in Nat /\ DOMAIN s = 1 .. Len(s) /\ s \in [1 .. Len(s) -> DOMAIN W]
    BY <1>1, LenProperties
  <1>3. \A k \in 1 .. Len(s) : s[k] \in DOMAIN W
    BY <1>2
  <1>4. \A k \in 1 .. Len(s) : s[k][1] \in Int /\ s[k][2] \in Int
    BY <1>3 DEF IsScored
  <1>5. \A j, k \in 1 .. Len(s) : j < k => s[j][1] < s[k][1] /\ s[j][2] < s[k][2]
    BY DEF IsPath
  <1>6. ASSUME NEW j \in 1 .. Len(s), NEW k \in 1 .. Len(s), j # k
        PROVE  s[j][1] # s[k][1] /\ s[j][2] # s[k][2]
    <2>1. j < k \/ k < j
      BY <1>2, <1>6
    <2>2. QED
      BY <1>4, <1>5, <2>1
  <1>7. ToSet(s) = {s[k] : k \in 1 .. Len(s)}
    BY <1>2 DEF ToSet
  <1>8. Cardinality(ToSet(s)) = Len(s)
    <2>1. s \in [1 .. Len(s) -> ToSet(s)] /\ \A y \in ToSet(s) : \E k \in 1 .. Len(s) : s[k] = y
      BY <1>2, <1>7
    <2>2. \A j, k \in 1 .. Len(s) : s[j] = s[k] => j = k
      BY <1>6
    <2>3. IsFiniteSet(1 .. Len(s)) /\ Cardinality(1 .. Len(s)) = Len(s)
      BY <1>2, Places
    <2>4. QED
      BY <2>1, <2>2, <2>3, AsMany
  <1>9. NonCrossing(ToSet(s))
    <2>1. ASSUME NEW j \in 1 .. Len(s), NEW k \in 1 .. Len(s)
          PROVE  \/ s[j] = s[k] \/ (s[j][1] < s[k][1] /\ s[j][2] < s[k][2])
                 \/ (s[k][1] < s[j][1] /\ s[k][2] < s[j][2])
      <3>1. j = k \/ j < k \/ k < j
        BY <1>2
      <3>2. QED
        BY <1>5, <3>1
    <2>2. QED
      BY <1>7, <2>1 DEF NonCrossing
  <1>10. ToSet(s) \in SUBSET DOMAIN W
    BY <1>3, <1>7
  <1>11. QED
    BY <1>2, <1>3, <1>6, <1>8, <1>9, <1>10

(* The matching is the path, and nothing that does not cross scores more.  *)
IsOptimal(pairs, left, right, W) ==
    LET chosen == {p \in DOMAIN W : \E k \in DOMAIN pairs : pairs[k] = <<left[p[1]], right[p[2]]>>}
    IN  /\ Cardinality(chosen) = Len(pairs) /\ NonCrossing(chosen)
        /\ \A other \in SUBSET DOMAIN W :
               NonCrossing(other) => ScoreOf(W, other) <= ScoreOf(W, chosen)

LEMMA MatchIsOptimal ==
    ASSUME NEW L, NEW R, AreMarks(L), AreMarks(R), NEW mt, NEW W, NEW best, NEW s,
           IsMatch(mt, L, R, W, best, s)
    PROVE  IsOptimal(mt.pairs, Ordered(L), Ordered(R), W)
  <1>0. PICK n \in Nat, m \in Nat : n = Cardinality(L) /\ m = Cardinality(R)
    BY PlacedOnce
  <1>1. PICK left, right : left = Ordered(L) /\ right = Ordered(R)
    OBVIOUS
  <1>2. IsScored(W, n, m) /\ IsBest(best, W, n, m) /\ IsPath(s, W, best, <<n, m>>)
    BY <1>0, <1>1 DEF IsMatch
  <1>3. /\ Len(s) \in Nat /\ DOMAIN s = 1 .. Len(s)
        /\ \A k \in 1 .. Len(s) : s[k] \in DOMAIN W
        /\ ToSet(s) \in SUBSET DOMAIN W
        /\ Cardinality(ToSet(s)) = Len(s)
        /\ NonCrossing(ToSet(s))
    BY <1>2, PathPlaces
  <1>4. PICK pairs : pairs = mt.pairs
    OBVIOUS
  <1>5. pairs = [k \in 1 .. Len(s) |-> <<left[s[k][1]], right[s[k][2]]>>]
    BY <1>0, <1>1, <1>3, <1>4 DEF IsMatch
  <1>6. Len(pairs) = Len(s)
    <2>1. PICK N \in Nat : N = Len(s)
      BY <1>3
    <2>2. pairs \in Seq({pairs[k] : k \in 1 .. N}) /\ DOMAIN pairs = 1 .. N
      BY <1>5, <2>1
    <2>3. QED
      BY <2>1, <2>2, LenProperties
  <1>7. PICK chosen : chosen = {p \in DOMAIN W :
                          \E k \in DOMAIN pairs : pairs[k] = <<left[p[1]], right[p[2]]>>}
    OBVIOUS
  <1>8. \A p \in DOMAIN W : p[1] \in 1 .. n /\ p[2] \in 1 .. m /\ p = <<p[1], p[2]>>
    BY <1>2 DEF IsScored
  <1>9. /\ \A j, k \in 1 .. n : left[j] = left[k] => j = k
        /\ \A j, k \in 1 .. m : right[j] = right[k] => j = k
    BY <1>0, <1>1, PlacedOnce
  <1>10. chosen = ToSet(s)
    <2>1. ASSUME NEW p \in chosen PROVE p \in ToSet(s)
      <3>1. PICK k \in 1 .. Len(s) : pairs[k] = <<left[p[1]], right[p[2]]>>
        BY <1>5, <1>7
      <3>2. left[s[k][1]] = left[p[1]] /\ right[s[k][2]] = right[p[2]]
        BY <1>5, <3>1
      <3>3. s[k] \in DOMAIN W /\ p \in DOMAIN W
        BY <1>3, <1>7
      <3>4. s[k][1] = p[1] /\ s[k][2] = p[2]
        BY <1>8, <1>9, <3>2, <3>3
      <3>5. s[k] = p
        BY <1>8, <3>3, <3>4
      <3>6. QED
        BY <1>3, <3>5 DEF ToSet
    <2>2. ASSUME NEW p \in ToSet(s) PROVE p \in chosen
      <3>1. PICK k \in 1 .. Len(s) : p = s[k]
        BY <1>3 DEF ToSet
      <3>2. k \in DOMAIN pairs /\ pairs[k] = <<left[p[1]], right[p[2]]>>
        BY <1>5, <3>1
      <3>3. QED
        BY <1>3, <1>7, <3>1, <3>2
    <2>3. QED
      BY <2>1, <2>2
  <1>11. ScoreOf(W, chosen) = best[<<n, m>>]
    BY <1>2, <1>10 DEF IsPath, ScoreOf
  <1>12. ASSUME NEW other \in SUBSET DOMAIN W, NonCrossing(other)
         PROVE  ScoreOf(W, other) <= best[<<n, m>>]
    <2>1. PICK p : p = <<n, m>>
      OBVIOUS
    <2>2. p \in Cells(n, m) /\ p[1] = n /\ p[2] = m
      BY <2>1 DEF Cells
    <2>3. Bounds(best, W, p)
      BY <1>2, <2>2, NothingScoresMore
    <2>4. \A q \in other : q[1] <= p[1] /\ q[2] <= p[2]
      BY <1>8, <2>2
    <2>5. QED
      BY <1>12, <2>1, <2>3, <2>4 DEF Bounds, ScoreOf
  <1>13. IsOptimal(pairs, left, right, W)
    BY <1>3, <1>6, <1>7, <1>10, <1>11, <1>12, Zenon DEF IsOptimal
  <1>14. QED
    BY <1>0, <1>1, <1>4, <1>13

-----------------------------------------------------------------------------
(* What is counted.                                                        *)
LEMMA Together ==
    ASSUME NEW S, NEW T, IsFiniteSet(S), IsFiniteSet(T), S \cap T = {}
    PROVE  /\ IsFiniteSet(S \cup T)
           /\ Cardinality(S) \in Nat /\ Cardinality(T) \in Nat
           /\ Cardinality(S \cup T) = Cardinality(S) + Cardinality(T)
  <1>1. Cardinality(S) \in Nat /\ Cardinality(T) \in Nat
    BY FS_CardinalityType
  <1>2. /\ IsFiniteSet(S \cup T)
        /\ Cardinality(S \cup T) = Cardinality(S) + Cardinality(T) - Cardinality(S \cap T)
    BY FS_Union, Zenon
  <1>3. Cardinality(S \cap T) = 0
    BY FS_EmptySet
  <1>4. PICK u, s, t, i :
            u = Cardinality(S \cup T) /\ s = Cardinality(S) /\ t = Cardinality(T)
            /\ i = Cardinality(S \cap T)
    OBVIOUS
  <1>5. u = s + t
    BY <1>1, <1>2, <1>3, <1>4
  <1>6. QED
    BY <1>1, <1>2, <1>4, <1>5

(* Counting by value, and adding the counts up.                            *)
Fibre(K, g, A) == {k \in K : g[k] \in A}

LEMMA Fibres ==
    ASSUME NEW K, IsFiniteSet(K), NEW g, NEW S, IsFiniteSet(S),
           NEW f, \A l \in S : f[l] = Cardinality(Fibre(K, g, {l}))
    PROVE  SumFunctionOnSet(f, S) = Cardinality(Fibre(K, g, S))
  <1>1. PICK T : T = {A \in SUBSET S : SumFunctionOnSet(f, A) = Cardinality(Fibre(K, g, A))}
    OBVIOUS
  <1>2. \A A : IsFiniteSet(Fibre(K, g, A)) /\ Cardinality(Fibre(K, g, A)) \in Nat
    <2>1. ASSUME NEW A PROVE IsFiniteSet(Fibre(K, g, A)) /\ Cardinality(Fibre(K, g, A)) \in Nat
      <3>1. Fibre(K, g, A) \in SUBSET K
        BY DEF Fibre
      <3>2. QED
        BY <3>1, FS_Subset, FS_CardinalityType
    <2>2. QED
      BY <2>1
  <1>3. {} \in T
    <2>1. Fibre(K, g, {}) = {}
      BY DEF Fibre
    <2>2. SumFunctionOnSet(f, {}) = 0
      BY SumLaws
    <2>3. QED
      BY <1>1, <2>1, <2>2, FS_EmptySet
  <1>4. ASSUME NEW A \in SUBSET S, NEW l \in S, A \in T, l \notin A PROVE A \cup {l} \in T
    <2>1. IsFiniteSet(A) /\ \A x \in A : f[x] \in Nat
      BY <1>2, FS_Subset
    <2>2. f[l] \in Nat /\ f[l] = Cardinality(Fibre(K, g, {l}))
      BY <1>2
    <2>3. SumFunctionOnSet(f, A \cup {l}) = f[l] + SumFunctionOnSet(f, A)
      BY <1>4, <2>1, <2>2, SumLaws
    <2>4. PICK P, Q : P = Fibre(K, g, {l}) /\ Q = Fibre(K, g, A)
      OBVIOUS
    <2>5. P \cap Q = {} /\ P \cup Q = Fibre(K, g, A \cup {l})
      BY <1>4, <2>4 DEF Fibre
    <2>6. Cardinality(P \cup Q) = Cardinality(P) + Cardinality(Q)
      BY <1>2, <2>4, <2>5, Together
    <2>7. SumFunctionOnSet(f, A) = Cardinality(Q)
      BY <1>1, <1>4, <2>4
    <2>8. SumFunctionOnSet(f, A \cup {l}) = Cardinality(Fibre(K, g, A \cup {l}))
      BY <2>2, <2>3, <2>4, <2>5, <2>6, <2>7
    <2>9. QED
      BY <1>1, <2>8
  <1>5. S \in T
    BY <1>3, <1>4, FiniteInduction
  <1>6. QED
    BY <1>1, <1>5

(* The confusion matrix counts positions.                                  *)
IsCounted(matrix, labels, K) ==
    /\ DOMAIN matrix = {labels[k] : k \in K}
    /\ Total(matrix) = Cardinality(K)
    /\ Agreements(matrix) = Cardinality({k \in K : labels[k][1] = labels[k][2]})
    /\ CountOf(matrix, LAMBDA p : p[1] # p[2]) = Cardinality({k \in K : labels[k][1] # labels[k][2]})
    /\ \A x : /\ LeftMarginal(matrix, x) = Cardinality({k \in K : labels[k][1] = x})
              /\ RightMarginal(matrix, x) = Cardinality({k \in K : labels[k][2] = x})
              /\ ForLabel(matrix, x).both = Cardinality({k \in K : labels[k] = <<x, x>>})
              /\ ForLabel(matrix, x).leftOnly
                    = Cardinality({k \in K : labels[k][1] = x /\ labels[k][2] # x})
              /\ ForLabel(matrix, x).rightOnly
                    = Cardinality({k \in K : labels[k][2] = x /\ labels[k][1] # x})

(* The code's matrix is one.                                               *)
LEMMA ConfusionCounts ==
    ASSUME NEW N \in Nat, NEW labels, DOMAIN labels = 1 .. N
    PROVE  IsCounted(Confusion(labels), labels, 1 .. N)
  <1>1. PICK K : K = 1 .. N
    OBVIOUS
  <1>2. IsFiniteSet(K) /\ Cardinality(K) = N
    BY <1>1, Places
  <1>3. PICK matrix : matrix = Confusion(labels)
    OBVIOUS
  <1>4. PICK D : D = {labels[k] : k \in K}
    OBVIOUS
  <1>5. matrix = [p \in D |-> Cardinality({k \in K : labels[k] = p})]
    BY <1>1, <1>3, <1>4 DEF Confusion, ToSet
  <1>6. IsFiniteSet(D)
    <2>1. [k \in K |-> labels[k]] \in Surjection(K, D)
      BY <1>4 DEF Surjection
    <2>2. QED
      BY <1>2, <2>1, FS_Surjection
  <1>7. ASSUME NEW A \in SUBSET D
        PROVE  SumFunctionOnSet(matrix, A) = Cardinality({k \in K : labels[k] \in A})
    <2>1. \A l \in A : Fibre(K, labels, {l}) = {k \in K : labels[k] = l}
      BY DEF Fibre
    <2>2. \A l \in A : matrix[l] = Cardinality(Fibre(K, labels, {l}))
      BY <1>5, <2>1
    <2>3. IsFiniteSet(A)
      BY <1>6, FS_Subset
    <2>4. SumFunctionOnSet(matrix, A) = Cardinality(Fibre(K, labels, A))
      BY <1>2, <2>2, <2>3, Fibres
    <2>5. QED
      BY <2>4 DEF Fibre
  <1>8. DOMAIN matrix = D
    BY <1>5
  <1>9. \A k \in K : labels[k] \in D
    BY <1>4
  <1>10. Total(matrix) = Cardinality(K)
    <2>1. PICK A : A = {p \in D : TRUE}
      OBVIOUS
    <2>2. {k \in K : labels[k] \in A} = K /\ A \in SUBSET D
      BY <1>9, <2>1
    <2>3. Total(matrix) = SumFunctionOnSet(matrix, A)
      BY <1>8, <2>1 DEF Total, CountOf
    <2>4. QED
      BY <1>7, <2>2, <2>3
  <1>11. Agreements(matrix) = Cardinality({k \in K : labels[k][1] = labels[k][2]})
    <2>1. PICK A : A = {p \in D : p[1] = p[2]}
      OBVIOUS
    <2>2. {k \in K : labels[k] \in A} = {k \in K : labels[k][1] = labels[k][2]} /\ A \in SUBSET D
      BY <1>9, <2>1
    <2>3. Agreements(matrix) = SumFunctionOnSet(matrix, A)
      BY <1>8, <2>1 DEF Agreements, CountOf
    <2>4. QED
      BY <1>7, <2>2, <2>3
  <1>12. CountOf(matrix, LAMBDA p : p[1] # p[2]) = Cardinality({k \in K : labels[k][1] # labels[k][2]})
    <2>1. PICK A : A = {p \in D : p[1] # p[2]}
      OBVIOUS
    <2>2. {k \in K : labels[k] \in A} = {k \in K : labels[k][1] # labels[k][2]} /\ A \in SUBSET D
      BY <1>9, <2>1
    <2>3. CountOf(matrix, LAMBDA p : p[1] # p[2]) = SumFunctionOnSet(matrix, A)
      BY <1>8, <2>1 DEF CountOf
    <2>4. QED
      BY <1>7, <2>2, <2>3
  <1>13. ASSUME NEW x
         PROVE  /\ LeftMarginal(matrix, x) = Cardinality({k \in K : labels[k][1] = x})
                /\ RightMarginal(matrix, x) = Cardinality({k \in K : labels[k][2] = x})
    <2>1. PICK A, B : A = {p \in D : p[1] = x} /\ B = {p \in D : p[2] = x}
      OBVIOUS
    <2>2. /\ {k \in K : labels[k] \in A} = {k \in K : labels[k][1] = x} /\ A \in SUBSET D
          /\ {k \in K : labels[k] \in B} = {k \in K : labels[k][2] = x} /\ B \in SUBSET D
      BY <1>9, <2>1
    <2>3. /\ LeftMarginal(matrix, x) = SumFunctionOnSet(matrix, A)
          /\ RightMarginal(matrix, x) = SumFunctionOnSet(matrix, B)
      BY <1>8, <2>1 DEF LeftMarginal, RightMarginal, CountOf
    <2>4. QED
      BY <1>7, <2>2, <2>3
  <1>14. ASSUME NEW x
         PROVE  /\ ForLabel(matrix, x).both = Cardinality({k \in K : labels[k] = <<x, x>>})
                /\ ForLabel(matrix, x).leftOnly
                      = Cardinality({k \in K : labels[k][1] = x /\ labels[k][2] # x})
                /\ ForLabel(matrix, x).rightOnly
                      = Cardinality({k \in K : labels[k][2] = x /\ labels[k][1] # x})
    <2>1. PICK A, B, C : /\ A = {p \in D : p = <<x, x>>}
                         /\ B = {p \in D : p[1] = x /\ p[2] # x}
                         /\ C = {p \in D : p[2] = x /\ p[1] # x}
      OBVIOUS
    <2>2. /\ {k \in K : labels[k] \in A} = {k \in K : labels[k] = <<x, x>>} /\ A \in SUBSET D
          /\ {k \in K : labels[k] \in B} = {k \in K : labels[k][1] = x /\ labels[k][2] # x}
          /\ B \in SUBSET D
          /\ {k \in K : labels[k] \in C} = {k \in K : labels[k][2] = x /\ labels[k][1] # x}
          /\ C \in SUBSET D
      BY <1>9, <2>1
    <2>3. /\ ForLabel(matrix, x).both = SumFunctionOnSet(matrix, A)
          /\ ForLabel(matrix, x).leftOnly = SumFunctionOnSet(matrix, B)
          /\ ForLabel(matrix, x).rightOnly = SumFunctionOnSet(matrix, C)
      BY <1>8, <2>1 DEF ForLabel, CountOf
    <2>4. QED
      BY <1>7, <2>2, <2>3
  <1>15. IsCounted(matrix, labels, K)
    BY <1>4, <1>8, <1>10, <1>11, <1>12, <1>13, <1>14, Zenon DEF IsCounted
  <1>16. QED
    BY <1>1, <1>3, <1>15

(* One annotator's events of a class: matched with the class, matched with *)
(* another, not matched.                                                   *)
Alike(N, g, h, c)   == {k \in 1 .. N : g[k].class = c /\ h[k] = c}
Unalike(N, g, h, c) == {k \in 1 .. N : g[k].class = c /\ h[k] # c}
Alone(N, g, M)      == M \ {g[k] : k \in 1 .. N}
Kind(M, c)          == {m \in M : m.class = c}

LEMMA OneAnnotator ==
    ASSUME NEW N \in Nat, NEW M, IsFiniteSet(M), NEW g \in [1 .. N -> M],
           \A j, k \in 1 .. N : g[j] = g[k] => j = k, NEW c, NEW h
    PROVE  /\ Cardinality(Alike(N, g, h, c)) \in Nat
           /\ Cardinality(Unalike(N, g, h, c)) \in Nat
           /\ Cardinality(Kind(Alone(N, g, M), c)) \in Nat
           /\ Cardinality(Kind(M, c))
                = Cardinality(Alike(N, g, h, c))
                  + (Cardinality(Unalike(N, g, h, c)) + Cardinality(Kind(Alone(N, g, M), c)))
  <1>1. PICK K : K = 1 .. N /\ IsFiniteSet(K)
    BY Places
  <1>2a. PICK S : S = M \ {g[k] : k \in K}
    OBVIOUS
  <1>2. PICK A, B, C : /\ A = {k \in K : g[k].class = c /\ h[k] = c}
                       /\ B = {k \in K : g[k].class = c /\ h[k] # c}
                       /\ C = {m \in S : m.class = c}
    OBVIOUS
  <1>2b. A = Alike(N, g, h, c) /\ B = Unalike(N, g, h, c) /\ C = Kind(Alone(N, g, M), c)
    BY <1>1, <1>2a, <1>2 DEF Alike, Unalike, Kind, Alone
  <1>3. PICK T : T = {g[k] : k \in A \cup B}
    OBVIOUS
  <1>4. IsFiniteSet(A) /\ IsFiniteSet(B) /\ A \cap B = {} /\ A \cup B \in SUBSET K
    <2>1. A \in SUBSET K /\ B \in SUBSET K /\ A \cap B = {}
      BY <1>2
    <2>2. QED
      BY <1>1, <2>1, FS_Subset
  <1>5. /\ IsFiniteSet(A \cup B) /\ Cardinality(A) \in Nat /\ Cardinality(B) \in Nat
        /\ Cardinality(A \cup B) = Cardinality(A) + Cardinality(B)
    BY <1>4, Together
  <1>6. IsFiniteSet(T) /\ Cardinality(T) = Cardinality(A \cup B)
    <2>1. PICK f : f = [k \in A \cup B |-> g[k]]
      OBVIOUS
    <2>2. f \in [A \cup B -> T] /\ \A y \in T : \E k \in A \cup B : f[k] = y
      BY <1>3, <2>1
    <2>3. \A j, k \in A \cup B : f[j] = f[k] => j = k
      BY <1>1, <1>4, <2>1
    <2>4. QED
      BY <1>5, <2>2, <2>3, AsMany
  <1>7. IsFiniteSet(C)
    <2>1. C \in SUBSET M
      BY <1>2, <1>2a
    <2>2. QED
      BY <2>1, FS_Subset
  <1>8. T \cap C = {}
    BY <1>1, <1>2a, <1>2, <1>3, <1>4
  <1>9. T \cup C = Kind(M, c)
    <2>1. ASSUME NEW m \in M, m.class = c PROVE m \in T \cup C
      <3>1. CASE m \in S
        BY <1>2, <2>1, <3>1
      <3>2. CASE m \notin S
        <4>1. PICK k \in K : m = g[k]
          BY <1>2a, <3>2
        <4>2. k \in A \cup B
          BY <1>2, <2>1, <4>1
        <4>3. QED
          BY <1>3, <4>1, <4>2
      <3>3. QED
        BY <3>1, <3>2
    <2>2. ASSUME NEW m \in T PROVE m \in M /\ m.class = c
      <3>1. PICK k \in A \cup B : m = g[k]
        BY <1>3
      <3>2. QED
        BY <1>1, <1>2, <3>1
    <2>3. \A m \in C : m \in M /\ m.class = c
      BY <1>2, <1>2a
    <2>4. QED
      BY <2>1, <2>2, <2>3 DEF Kind
  <1>10. /\ Cardinality(C) \in Nat
         /\ Cardinality(T \cup C) = Cardinality(T) + Cardinality(C)
    BY <1>6, <1>7, <1>8, Together
  <1>11. PICK a \in Nat, b \in Nat, d \in Nat :
             a = Cardinality(A) /\ b = Cardinality(B) /\ d = Cardinality(C)
    BY <1>5, <1>10
  <1>12. Cardinality(T \cup C) = a + (b + d)
    BY <1>5, <1>6, <1>10, <1>11
  <1>13. QED
    BY <1>2b, <1>9, <1>11, <1>12

(* The pairs of a matching: an event of each side, no event twice.         *)
IsPairing(mt, L, R, N) ==
    /\ N \in Nat /\ DOMAIN mt.pairs = 1 .. N /\ Len(mt.pairs) = N
    /\ \A k \in 1 .. N : mt.pairs[k][1] \in L /\ mt.pairs[k][2] \in R
    /\ \A j, k \in 1 .. N :
          mt.pairs[j][1] = mt.pairs[k][1] \/ mt.pairs[j][2] = mt.pairs[k][2] => j = k
    /\ mt.leftOnly = L \ {mt.pairs[k][1] : k \in 1 .. N}
    /\ mt.rightOnly = R \ {mt.pairs[k][2] : k \in 1 .. N}

(* A matching pairs so.                                                    *)
LEMMA MatchIsPairing ==
    ASSUME NEW L, NEW R, AreMarks(L), AreMarks(R), NEW mt, NEW W, NEW best, NEW s,
           IsMatch(mt, L, R, W, best, s)
    PROVE  \E N : IsPairing(mt, L, R, N)
  <1>0. PICK n \in Nat, m \in Nat : n = Cardinality(L) /\ m = Cardinality(R)
    BY PlacedOnce
  <1>1. PICK left, right : left = Ordered(L) /\ right = Ordered(R)
    OBVIOUS
  <1>2. IsScored(W, n, m) /\ IsPath(s, W, best, <<n, m>>)
    BY <1>0, <1>1 DEF IsMatch
  <1>3. /\ Len(s) \in Nat /\ DOMAIN s = 1 .. Len(s)
        /\ \A k \in 1 .. Len(s) : s[k] \in DOMAIN W
        /\ \A j, k \in 1 .. Len(s) : j # k => s[j][1] # s[k][1] /\ s[j][2] # s[k][2]
    BY <1>2, PathPlaces
  <1>4. PICK pairs : pairs = mt.pairs
    OBVIOUS
  <1>5. PICK N \in Nat : N = Len(s)
    BY <1>3
  <1>6. pairs = [k \in 1 .. N |-> <<left[s[k][1]], right[s[k][2]]>>]
    BY <1>0, <1>1, <1>3, <1>4, <1>5 DEF IsMatch
  <1>7. Len(pairs) = N /\ DOMAIN pairs = 1 .. N
    <2>1. pairs \in Seq({pairs[k] : k \in 1 .. N}) /\ DOMAIN pairs = 1 .. N
      BY <1>6
    <2>2. QED
      BY <2>1, LenProperties
  <1>8. \A p \in DOMAIN W : p[1] \in 1 .. n /\ p[2] \in 1 .. m
    BY <1>2 DEF IsScored
  <1>9. /\ left \in [1 .. n -> L] /\ right \in [1 .. m -> R]
        /\ \A j, k \in 1 .. n : left[j] = left[k] => j = k
        /\ \A j, k \in 1 .. m : right[j] = right[k] => j = k
    BY <1>0, <1>1, PlacedOnce
  <1>10. \A k \in 1 .. N : pairs[k][1] \in L /\ pairs[k][2] \in R
    BY <1>3, <1>5, <1>6, <1>8, <1>9
  <1>11. ASSUME NEW j \in 1 .. N, NEW k \in 1 .. N,
                pairs[j][1] = pairs[k][1] \/ pairs[j][2] = pairs[k][2]
         PROVE  j = k
    <2>1. left[s[j][1]] = left[s[k][1]] \/ right[s[j][2]] = right[s[k][2]]
      BY <1>6, <1>11
    <2>2. s[j] \in DOMAIN W /\ s[k] \in DOMAIN W
      BY <1>3, <1>5
    <2>3. s[j][1] = s[k][1] \/ s[j][2] = s[k][2]
      BY <1>8, <1>9, <2>1, <2>2
    <2>4. QED
      BY <1>3, <1>5, <2>3
  <1>12. /\ mt.leftOnly = L \ {mt.pairs[k][1] : k \in 1 .. N}
         /\ mt.rightOnly = R \ {mt.pairs[k][2] : k \in 1 .. N}
    BY <1>4, <1>7 DEF IsMatch
  <1>13. IsPairing(mt, L, R, N)
    BY <1>4, <1>7, <1>10, <1>11, <1>12 DEF IsPairing
  <1>14. QED
    BY <1>13

ClassLabels(mt) ==
    [k \in DOMAIN mt.pairs |-> <<mt.pairs[k][1].class, mt.pairs[k][2].class>>]

(* An event counts for its class, whether or not the other side found it.  *)
RowOf(per, c) ==
    IF c \in DOMAIN per THEN per[c] ELSE [both |-> 0, leftOnly |-> 0, rightOnly |-> 0]

LEMMA EventsAreCounted ==
    ASSUME NEW L, NEW R, IsFiniteSet(L), IsFiniteSet(R), NEW mt, NEW N, IsPairing(mt, L, R, N),
           NEW labels,
           labels = ClassLabels(mt),
           NEW per, per = PerClass(Confusion(labels), mt), NEW c
    PROVE  /\ RowOf(per, c).both + RowOf(per, c).leftOnly = Cardinality(Kind(L, c))
           /\ RowOf(per, c).both + RowOf(per, c).rightOnly = Cardinality(Kind(R, c))
  <1>1. PICK K : K = 1 .. N /\ N \in Nat
    BY DEF IsPairing
  <1>2. PICK g, h : g = [k \in 1 .. N |-> mt.pairs[k][1]] /\ h = [k \in 1 .. N |-> mt.pairs[k][2]]
    OBVIOUS
  <1>3. PICK gc, hc : gc = [k \in 1 .. N |-> g[k].class] /\ hc = [k \in 1 .. N |-> h[k].class]
    OBVIOUS
  <1>4. /\ g \in [1 .. N -> L] /\ h \in [1 .. N -> R]
        /\ \A j, k \in 1 .. N : g[j] = g[k] => j = k
        /\ \A j, k \in 1 .. N : h[j] = h[k] => j = k
    BY <1>2 DEF IsPairing
  <1>5. PICK S, T : S = mt.leftOnly /\ T = mt.rightOnly
    OBVIOUS
  <1>6. S = Alone(N, g, L) /\ T = Alone(N, h, R)
    <2>1. /\ {g[k] : k \in 1 .. N} = {mt.pairs[k][1] : k \in 1 .. N}
          /\ {h[k] : k \in 1 .. N} = {mt.pairs[k][2] : k \in 1 .. N}
      BY <1>2
    <2>2. QED
      BY <1>5, <2>1 DEF IsPairing, Alone
  <1>7. PICK a, b, d, e, f :
            /\ a = Cardinality(Alike(N, g, hc, c))
            /\ b = Cardinality(Unalike(N, g, hc, c)) /\ d = Cardinality(Kind(S, c))
            /\ e = Cardinality(Unalike(N, h, gc, c)) /\ f = Cardinality(Kind(T, c))
    OBVIOUS
  <1>8. a \in Nat /\ b \in Nat /\ d \in Nat /\ Cardinality(Kind(L, c)) = a + (b + d)
    BY <1>1, <1>4, <1>6, <1>7, OneAnnotator
  <1>9. e \in Nat /\ f \in Nat /\ Cardinality(Kind(R, c)) = a + (e + f)
    <2>1. Alike(N, h, gc, c) = Alike(N, g, hc, c)
      BY <1>3 DEF Alike
    <2>2. /\ e \in Nat /\ f \in Nat
          /\ Cardinality(Kind(R, c)) = Cardinality(Alike(N, h, gc, c)) + (e + f)
      BY <1>1, <1>4, <1>6, <1>7, OneAnnotator
    <2>3. QED
      BY <1>7, <2>1, <2>2
  <1>10. DOMAIN labels = 1 .. N /\ \A k \in 1 .. N : labels[k] = <<gc[k], hc[k]>>
    BY <1>2, <1>3 DEF IsPairing, ClassLabels
  <1>11. PICK matrix : matrix = Confusion(labels)
    OBVIOUS
  <1>12. IsCounted(matrix, labels, 1 .. N)
    BY <1>1, <1>10, <1>11, ConfusionCounts
  <1>13. PICK row : row = ForLabel(matrix, c)
    OBVIOUS
  <1>14. row.both = a /\ row.leftOnly = b /\ row.rightOnly = e
    <2>1. /\ row.both = Cardinality({k \in 1 .. N : labels[k] = <<c, c>>})
          /\ row.leftOnly = Cardinality({k \in 1 .. N : labels[k][1] = c /\ labels[k][2] # c})
          /\ row.rightOnly = Cardinality({k \in 1 .. N : labels[k][2] = c /\ labels[k][1] # c})
      BY <1>12, <1>13 DEF IsCounted
    <2>2. {k \in 1 .. N : labels[k] = <<c, c>>} = Alike(N, g, hc, c)
      BY <1>3, <1>10 DEF Alike
    <2>3. {k \in 1 .. N : labels[k][1] = c /\ labels[k][2] # c} = Unalike(N, g, hc, c)
      BY <1>3, <1>10 DEF Unalike
    <2>4. {k \in 1 .. N : labels[k][2] = c /\ labels[k][1] # c} = Unalike(N, h, gc, c)
      BY <1>3, <1>10 DEF Unalike
    <2>5. QED
      BY <1>7, <2>1, <2>2, <2>3, <2>4
  <1>15. PICK used : used = LabelsOf(matrix) \cup {m.class : m \in S \cup T}
    OBVIOUS
  <1>16. DOMAIN per = used
    BY <1>5, <1>11, <1>15 DEF PerClass
  <1>17. CASE c \in used
    <2>1. per[c] = [ForLabel(matrix, c) EXCEPT !.leftOnly  = @ + Cardinality(Kind(S, c)),
                                               !.rightOnly = @ + Cardinality(Kind(T, c))]
      BY <1>5, <1>11, <1>15, <1>17 DEF PerClass, Kind
    <2>2. per[c] = [row EXCEPT !.leftOnly = @ + d, !.rightOnly = @ + f]
      BY <1>7, <1>13, <2>1
    <2>3. row = [both |-> row.both, leftOnly |-> row.leftOnly, rightOnly |-> row.rightOnly]
      BY <1>13 DEF ForLabel
    <2>4. per[c].both = a /\ per[c].leftOnly = b + d /\ per[c].rightOnly = e + f
      BY <1>14, <2>2, <2>3
    <2>5. RowOf(per, c) = per[c]
      BY <1>16, <1>17 DEF RowOf
    <2>6. QED
      BY <1>8, <1>9, <2>4, <2>5
  <1>18. CASE c \notin used
    <2>1. \A k \in 1 .. N : labels[k] \in DOMAIN matrix
      BY <1>12 DEF IsCounted
    <2>2. \A k \in 1 .. N : gc[k] # c /\ hc[k] # c
      <3>1. ASSUME NEW k \in 1 .. N PROVE {gc[k], hc[k]} \subseteq LabelsOf(matrix)
        <4>1. labels[k] \in DOMAIN matrix /\ labels[k][1] = gc[k] /\ labels[k][2] = hc[k]
          BY <1>10, <2>1
        <4>2. QED
          BY <4>1 DEF LabelsOf
      <3>2. QED
        BY <1>15, <1>18, <3>1
    <2>3. Kind(L, c) = {}
      <3>1. ASSUME NEW m \in L, m.class = c PROVE FALSE
        <4>1. m \notin S
          BY <1>15, <1>18, <3>1
        <4>2. PICK k \in 1 .. N : m = g[k]
          BY <1>6, <4>1 DEF Alone
        <4>3. QED
          BY <1>3, <2>2, <3>1, <4>2
      <3>2. QED
        BY <3>1 DEF Kind
    <2>4. Kind(R, c) = {}
      <3>1. ASSUME NEW m \in R, m.class = c PROVE FALSE
        <4>1. m \notin T
          BY <1>15, <1>18, <3>1
        <4>2. PICK k \in 1 .. N : m = h[k]
          BY <1>6, <4>1 DEF Alone
        <4>3. QED
          BY <1>3, <2>2, <3>1, <4>2
      <3>2. QED
        BY <3>1 DEF Kind
    <2>5. RowOf(per, c) = [both |-> 0, leftOnly |-> 0, rightOnly |-> 0]
      BY <1>16, <1>18 DEF RowOf
    <2>6. RowOf(per, c).both = 0 /\ RowOf(per, c).leftOnly = 0 /\ RowOf(per, c).rightOnly = 0
      BY <2>5
    <2>7. Cardinality({}) = 0
      BY FS_EmptySet
    <2>8. QED
      BY <2>3, <2>4, <2>6, <2>7
  <1>19. QED
    BY <1>17, <1>18

-----------------------------------------------------------------------------
(* The coefficients: measures.py.                                          *)
Positions(labels, i, x) == {k \in DOMAIN labels : labels[k][i] = x}

(* The labels are those of the positions, and a marginal counts positions. *)
LEMMA LabelSet ==
    ASSUME NEW N \in Nat, NEW labels, DOMAIN labels = 1 .. N, NEW matrix, matrix = Confusion(labels)
    PROVE  /\ IsFiniteSet(LabelsOf(matrix))
           /\ \A x : x \in LabelsOf(matrix)
                       <=> \E k \in 1 .. N : labels[k][1] = x \/ labels[k][2] = x
           /\ \A x : /\ LeftMarginal(matrix, x) = Cardinality(Positions(labels, 1, x))
                     /\ RightMarginal(matrix, x) = Cardinality(Positions(labels, 2, x))
                     /\ IsFiniteSet(Positions(labels, 1, x)) /\ IsFiniteSet(Positions(labels, 2, x))
  <1>1. PICK K : K = 1 .. N /\ IsFiniteSet(K)
    BY Places
  <1>2. IsCounted(matrix, labels, 1 .. N)
    BY ConfusionCounts
  <1>3. DOMAIN matrix = {labels[k] : k \in K}
    BY <1>1, <1>2 DEF IsCounted
  <1>4. PICK A, B : A = {labels[k][1] : k \in K} /\ B = {labels[k][2] : k \in K}
    OBVIOUS
  <1>5. IsFiniteSet(A) /\ IsFiniteSet(B)
    <2>1. /\ [k \in K |-> labels[k][1]] \in Surjection(K, A)
          /\ [k \in K |-> labels[k][2]] \in Surjection(K, B)
      BY <1>4 DEF Surjection
    <2>2. QED
      BY <1>1, <2>1, FS_Surjection
  <1>6. LabelsOf(matrix) = A \cup B
    BY <1>3, <1>4 DEF LabelsOf
  <1>7. IsFiniteSet(A \cup B)
    BY <1>5, FS_Union
  <1>8. ASSUME NEW x
        PROVE  /\ LeftMarginal(matrix, x) = Cardinality(Positions(labels, 1, x))
               /\ RightMarginal(matrix, x) = Cardinality(Positions(labels, 2, x))
    BY <1>2 DEF IsCounted, Positions
  <1>9. ASSUME NEW x
        PROVE  IsFiniteSet(Positions(labels, 1, x)) /\ IsFiniteSet(Positions(labels, 2, x))
    <2>1. Positions(labels, 1, x) \in SUBSET K /\ Positions(labels, 2, x) \in SUBSET K
      BY <1>1 DEF Positions
    <2>2. QED
      BY <1>1, <2>1, FS_Subset
  <1>10. ASSUME NEW x
         PROVE  x \in LabelsOf(matrix) <=> \E k \in 1 .. N : labels[k][1] = x \/ labels[k][2] = x
    BY <1>1, <1>4, <1>6
  <1>11. QED
    BY <1>6, <1>7, <1>8, <1>9, <1>10

(* One label: of two positions, the left of one is the right of the other. *)
LEMMA OneLabel ==
    ASSUME NEW N \in Nat, N # 0, NEW labels, DOMAIN labels = 1 .. N,
           NEW matrix, matrix = Confusion(labels)
    PROVE  /\ Cardinality(LabelsOf(matrix)) = 1
                <=> \A j, k \in 1 .. N : labels[j][1] = labels[k][2]
           /\ Cardinality(LabelsOf(matrix)) = 1
                <=> \A x, y \in LabelsOf(matrix) : x = y
  <1>1. PICK S : S = LabelsOf(matrix) /\ IsFiniteSet(S)
    BY LabelSet
  <1>2. \A x : x \in S <=> \E k \in 1 .. N : labels[k][1] = x \/ labels[k][2] = x
    BY <1>1, LabelSet
  <1>3. PICK one \in 1 .. N : TRUE
    <2>1. 1 \in 1 .. N
      OBVIOUS
    <2>2. QED
      BY <2>1
  <1>4. PICK x : x = labels[one][1] /\ x \in S
    BY <1>2
  <1>5. Cardinality(S) = 1 <=> S = {x}
    <2>1. ASSUME Cardinality(S) = 1 PROVE S = {x}
      <3>1. \E y : S = {y}
        BY <1>1, <2>1, FS_Singleton
      <3>2. QED
        BY <1>4, <3>1
    <2>2. Cardinality({x}) = 1
      BY FS_Singleton
    <2>3. QED
      BY <2>1, <2>2
  <1>6. S = {x} <=> \A y, z \in S : y = z
    BY <1>4
  <1>7. S = {x} => \A j, k \in 1 .. N : labels[j][1] = labels[k][2]
    <2>1. \A k \in 1 .. N : labels[k][1] \in S /\ labels[k][2] \in S
      BY <1>2
    <2>2. QED
      BY <2>1
  <1>8. ASSUME \A j, k \in 1 .. N : labels[j][1] = labels[k][2] PROVE S = {x}
    <2>1. \A k \in 1 .. N : labels[k][2] = x
      BY <1>4, <1>8
    <2>2. \A k \in 1 .. N : labels[k][1] = x
      BY <1>8, <2>1
    <2>3. QED
      BY <1>2, <1>4, <2>1, <2>2
  <1>9. QED
    BY <1>1, <1>5, <1>6, <1>7, <1>8

(* Chance agreement of kappa: how many pairs of positions agree.           *)
LEMMA ExpectedOfKappa ==
    ASSUME NEW N \in Nat, NEW labels, DOMAIN labels = 1 .. N, NEW matrix, matrix = Confusion(labels),
           NEW f, f = [l \in LabelsOf(matrix) |-> LeftMarginal(matrix, l) * RightMarginal(matrix, l)]
    PROVE  /\ SumFunction(f) \in Nat /\ SumFunction(f) <= N * N
           /\ SumFunction(f) = N * N <=> \A j, k \in 1 .. N : labels[j][1] = labels[k][2]
  <1>1. PICK K : K = 1 .. N /\ IsFiniteSet(K) /\ Cardinality(K) = N
    BY Places
  <1>2. PICK S : S = LabelsOf(matrix) /\ IsFiniteSet(S)
    BY LabelSet
  <1>3. PICK P : P = K \X K
    OBVIOUS
  <1>4. IsFiniteSet(P) /\ Cardinality(P) = N * N
    BY <1>1, <1>3, FS_Product
  <1>5. PICK Q : Q = {q \in P : labels[q[1]][1] = labels[q[2]][2]}
    OBVIOUS
  <1>6. Q \in SUBSET P
    BY <1>5
  <1>7. IsFiniteSet(Q) /\ Cardinality(Q) <= Cardinality(P) /\ (Cardinality(P) = Cardinality(Q) => P = Q)
    BY <1>4, <1>6, FS_Subset
  <1>8. PICK g : g = [q \in P |-> labels[q[1]][1]]
    OBVIOUS
  <1>9. ASSUME NEW l \in S PROVE f[l] = Cardinality(Fibre(Q, g, {l}))
    <2>1. PICK A, B : A = Positions(labels, 1, l) /\ B = Positions(labels, 2, l)
      OBVIOUS
    <2>2. IsFiniteSet(A) /\ IsFiniteSet(B)
      BY <2>1, LabelSet
    <2>3. Cardinality(A \X B) = Cardinality(A) * Cardinality(B)
      BY <2>2, FS_Product
    <2>4. f[l] = LeftMarginal(matrix, l) * RightMarginal(matrix, l)
      BY <1>2
    <2>5. LeftMarginal(matrix, l) = Cardinality(A) /\ RightMarginal(matrix, l) = Cardinality(B)
      BY <2>1, LabelSet
    <2>6. Fibre(Q, g, {l}) = A \X B
      BY <1>1, <1>3, <1>5, <1>8, <2>1 DEF Fibre, Positions
    <2>7. QED
      BY <2>3, <2>4, <2>5, <2>6
  <1>10. Fibre(Q, g, S) = Q
    <2>1. \A k \in K : labels[k][1] \in S
      BY <1>1, <1>2, LabelSet
    <2>2. \A q \in Q : q \in P /\ g[q] \in S
      BY <1>3, <1>5, <1>8, <2>1
    <2>3. QED
      BY <2>2 DEF Fibre
  <1>11. SumFunctionOnSet(f, S) = Cardinality(Fibre(Q, g, S))
    BY <1>2, <1>7, <1>9, Fibres
  <1>12. SumFunction(f) = Cardinality(Q)
    <2>1. DOMAIN f = S
      BY <1>2
    <2>2. QED
      BY <1>10, <1>11, <2>1 DEF SumFunction
  <1>13. Cardinality(Q) \in Nat
    BY <1>7, FS_CardinalityType
  <1>14. Q = P <=> \A j, k \in K : labels[j][1] = labels[k][2]
    <2>1. ASSUME Q = P, NEW j \in K, NEW k \in K PROVE labels[j][1] = labels[k][2]
      <3>1. PICK q : q = <<j, k>>
        OBVIOUS
      <3>2. q \in P /\ q[1] = j /\ q[2] = k
        BY <1>3, <3>1
      <3>3. QED
        BY <1>5, <2>1, <3>2
    <2>2. ASSUME \A j, k \in K : labels[j][1] = labels[k][2] PROVE Q = P
      <3>1. \A q \in P : q[1] \in K /\ q[2] \in K
        BY <1>3
      <3>2. QED
        BY <1>5, <2>2, <3>1
    <2>3. QED
      BY <2>1, <2>2
  <1>15. Q = P <=> Cardinality(Q) = N * N
    BY <1>4, <1>7
  <1>16. QED
    BY <1>1, <1>4, <1>7, <1>12, <1>13, <1>14, <1>15

(* A sum of numbers is nothing exactly when each is.                       *)
LEMMA SumOfSome ==
    ASSUME NEW S, IsFiniteSet(S), NEW f, \A x \in S : f[x] \in Nat, NEW x \in S, f[x] # 0
    PROVE  SumFunctionOnSet(f, S) # 0
  <1>1. PICK A : A = S \ {x} /\ A \in SUBSET S
    OBVIOUS
  <1>2. IsFiniteSet(A) /\ x \notin A /\ A \cup {x} = S /\ f[x] \in Nat
    BY <1>1, FS_Subset
  <1>3. SumFunctionOnSet(f, A) \in Nat /\ SumFunctionOnSet(f, A \cup {x}) = f[x] + SumFunctionOnSet(f, A)
    BY <1>1, <1>2, SumLaws
  <1>4. PICK a, b, c : a = f[x] /\ b = SumFunctionOnSet(f, A) /\ c = SumFunctionOnSet(f, S)
    OBVIOUS
  <1>5. c = a + b /\ a \in Nat /\ a # 0 /\ b \in Nat
    BY <1>2, <1>3, <1>4
  <1>6. QED
    BY <1>4, <1>5

(* Chance disagreement of alpha: none where there is one label.            *)
Judgements(matrix, l) == LeftMarginal(matrix, l) + RightMarginal(matrix, l)

LEMMA ExpectedOfAlpha ==
    ASSUME NEW N \in Nat, NEW labels, DOMAIN labels = 1 .. N, NEW matrix, matrix = Confusion(labels),
           NEW P, P = {q \in LabelsOf(matrix) \X LabelsOf(matrix) : q[1] # q[2]},
           NEW f, f = [q \in P |-> Judgements(matrix, q[1]) * Judgements(matrix, q[2])]
    PROVE  /\ SumFunction(f) \in Nat
           /\ SumFunction(f) = 0 <=> \A x, y \in LabelsOf(matrix) : x = y
  <1>1. PICK S : S = LabelsOf(matrix) /\ IsFiniteSet(S)
    BY LabelSet
  <1>2. IsFiniteSet(P)
    <2>1. IsFiniteSet(S \X S) /\ P \in SUBSET (S \X S)
      BY <1>1, FS_Product
    <2>2. QED
      BY <2>1, FS_Subset
  <1>3. ASSUME NEW l \in S PROVE Judgements(matrix, l) \in Nat /\ Judgements(matrix, l) > 0
    <2>1. PICK A, B : A = Positions(labels, 1, l) /\ B = Positions(labels, 2, l)
      OBVIOUS
    <2>2. /\ IsFiniteSet(A) /\ IsFiniteSet(B)
          /\ LeftMarginal(matrix, l) = Cardinality(A) /\ RightMarginal(matrix, l) = Cardinality(B)
      BY <2>1, LabelSet
    <2>3. /\ Cardinality(A) \in Nat /\ Cardinality(B) \in Nat
          /\ (Cardinality(A) = 0 <=> A = {}) /\ (Cardinality(B) = 0 <=> B = {})
      BY <2>2, FS_CardinalityType, FS_EmptySet
    <2>4. PICK k \in 1 .. N : labels[k][1] = l \/ labels[k][2] = l
      BY <1>1, LabelSet
    <2>5. k \in A \/ k \in B
      BY <2>1, <2>4 DEF Positions
    <2>6. QED
      BY <2>2, <2>3, <2>5 DEF Judgements
  <1>4. ASSUME NEW q \in P PROVE f[q] \in Nat /\ f[q] # 0
    <2>1. PICK a \in Nat, b \in Nat :
              a = Judgements(matrix, q[1]) /\ b = Judgements(matrix, q[2]) /\ a > 0 /\ b > 0
      BY <1>1, <1>3
    <2>2. a * b \in Nat /\ a * b # 0
      BY <2>1
    <2>3. QED
      BY <2>1, <2>2
  <1>5. SumFunction(f) = SumFunctionOnSet(f, P)
    <2>1. DOMAIN f = P
      OBVIOUS
    <2>2. QED
      BY <2>1 DEF SumFunction
  <1>6. SumFunctionOnSet(f, P) \in Nat
    BY <1>2, <1>4, SumLaws
  <1>7. P = {} => SumFunctionOnSet(f, P) = 0
    BY SumLaws
  <1>8. P # {} => SumFunctionOnSet(f, P) # 0
    BY <1>2, <1>4, SumOfSome
  <1>9. P = {} <=> \A x, y \in S : x = y
    <2>1. ASSUME NEW x \in S, NEW y \in S, x # y PROVE P # {}
      <3>1. PICK q : q = <<x, y>>
        OBVIOUS
      <3>2. q \in S \X S /\ q[1] # q[2]
        BY <2>1, <3>1
      <3>3. q \in P
        BY <1>1, <3>2
      <3>4. QED
        BY <3>3
    <2>2. \A q \in P : q[1] \in S /\ q[2] \in S /\ q[1] # q[2]
      BY <1>1
    <2>3. QED
      BY <2>1, <2>2
  <1>10. QED
    BY <1>1, <1>5, <1>6, <1>7, <1>8, <1>9

(* What kappa and alpha say of the matched events.                         *)
Sound(c, matrix) ==
    c # Undefined => /\ c[2] > 0 /\ c[1] <= c[2]
                     /\ c[1] = c[2] <=> Agreements(matrix) = Total(matrix)

Single(matrix) == Total(matrix) < 2 \/ Cardinality(LabelsOf(matrix)) = 1

(* A matched pair agrees or it does not.                                   *)
LEMMA Totals ==
    ASSUME NEW N \in Nat, NEW labels, DOMAIN labels = 1 .. N, NEW matrix, matrix = Confusion(labels)
    PROVE  /\ Total(matrix) = N /\ Agreements(matrix) \in Nat
           /\ CountOf(matrix, LAMBDA p : p[1] # p[2]) \in Nat
           /\ Agreements(matrix) + CountOf(matrix, LAMBDA p : p[1] # p[2]) = N
  <1>1. PICK K : K = 1 .. N /\ IsFiniteSet(K) /\ Cardinality(K) = N
    BY Places
  <1>2. PICK A, D : /\ A = {k \in K : labels[k][1] = labels[k][2]}
                    /\ D = {k \in K : labels[k][1] # labels[k][2]}
    OBVIOUS
  <1>3. A \in SUBSET K /\ D \in SUBSET K /\ A \cap D = {} /\ A \cup D = K
    BY <1>2
  <1>4. IsFiniteSet(A) /\ IsFiniteSet(D)
    BY <1>1, <1>3, FS_Subset
  <1>5. /\ Cardinality(A) \in Nat /\ Cardinality(D) \in Nat
        /\ Cardinality(A \cup D) = Cardinality(A) + Cardinality(D)
    BY <1>3, <1>4, Together
  <1>6. IsCounted(matrix, labels, 1 .. N)
    BY ConfusionCounts
  <1>7. /\ Total(matrix) = Cardinality(K) /\ Agreements(matrix) = Cardinality(A)
        /\ CountOf(matrix, LAMBDA p : p[1] # p[2]) = Cardinality(D)
    BY <1>1, <1>2, <1>6, Zenon DEF IsCounted
  <1>8. QED
    BY <1>1, <1>3, <1>5, <1>7

LEMMA KappaIsSound ==
    ASSUME NEW N \in Nat, NEW labels, DOMAIN labels = 1 .. N, NEW matrix, matrix = Confusion(labels)
    PROVE  /\ Sound(CohensKappa(matrix), matrix)
           /\ CohensKappa(matrix) = Undefined <=> Single(matrix)
  <1>1. PICK f : f = [l \in LabelsOf(matrix) |-> LeftMarginal(matrix, l) * RightMarginal(matrix, l)]
    OBVIOUS
  <1>2. PICK e : e = SumFunction(f)
    OBVIOUS
  <1>3. PICK a, d : a = Agreements(matrix) /\ d = CountOf(matrix, LAMBDA p : p[1] # p[2])
    OBVIOUS
  <1>4. Total(matrix) = N /\ a \in Nat /\ d \in Nat /\ a + d = N
    BY <1>3, Totals
  <1>5. e \in Nat /\ e <= N * N
    BY <1>1, <1>2, ExpectedOfKappa
  <1>6. N # 0 => (e = N * N <=> Cardinality(LabelsOf(matrix)) = 1)
    <2>1. e = N * N <=> \A j, k \in 1 .. N : labels[j][1] = labels[k][2]
      BY <1>1, <1>2, ExpectedOfKappa
    <2>2. N # 0 => (Cardinality(LabelsOf(matrix)) = 1 <=> \A j, k \in 1 .. N : labels[j][1] = labels[k][2])
      BY OneLabel
    <2>3. QED
      BY <2>1, <2>2
  <1>7. PICK kappa : kappa = CohensKappa(matrix)
    OBVIOUS
  <1>8. kappa = IF N < 2 \/ e = N * N THEN Undefined ELSE <<N * a - e, N * N - e>>
    BY <1>1, <1>2, <1>3, <1>4, <1>7 DEF CohensKappa
  <1>9. <<N * a - e, N * N - e>> # Undefined
    BY DEF Undefined
  <1>10. kappa = Undefined <=> Single(matrix)
    BY <1>4, <1>6, <1>8, <1>9 DEF Single
  <1>11. ASSUME kappa # Undefined
         PROVE  kappa[2] > 0 /\ kappa[1] <= kappa[2] /\ (kappa[1] = kappa[2] <=> a = N)
    <2>1. N >= 2 /\ e # N * N /\ kappa[1] = N * a - e /\ kappa[2] = N * N - e
      BY <1>8, <1>11
    <2>2. PICK sq \in Nat, na \in Nat, nd \in Nat : sq = N * N /\ na = N * a /\ nd = N * d
      BY <1>4
    <2>3. na + nd = sq
      BY <1>4, <2>2
    <2>4. nd = 0 <=> d = 0
      BY <1>4, <2>1, <2>2
    <2>5. d = 0 <=> a = N
      BY <1>4
    <2>6. QED
      BY <1>5, <2>1, <2>2, <2>3, <2>4, <2>5
  <1>12. Sound(kappa, matrix)
    BY <1>3, <1>4, <1>11 DEF Sound
  <1>13. QED
    BY <1>7, <1>10, <1>12

LEMMA AlphaIsSound ==
    ASSUME NEW N \in Nat, NEW labels, DOMAIN labels = 1 .. N, NEW matrix, matrix = Confusion(labels)
    PROVE  /\ Sound(KrippendorffsAlpha(matrix), matrix)
           /\ KrippendorffsAlpha(matrix) = Undefined <=> Single(matrix)
  <1>1. PICK P : P = {q \in LabelsOf(matrix) \X LabelsOf(matrix) : q[1] # q[2]}
    OBVIOUS
  <1>2. PICK f : f = [q \in P |-> Judgements(matrix, q[1]) * Judgements(matrix, q[2])]
    OBVIOUS
  <1>3. PICK e : e = SumFunction(f)
    OBVIOUS
  <1>4. PICK a, d : a = Agreements(matrix) /\ d = CountOf(matrix, LAMBDA p : p[1] # p[2])
    OBVIOUS
  <1>5. Total(matrix) = N /\ a \in Nat /\ d \in Nat /\ a + d = N
    BY <1>4, Totals
  <1>6. e \in Nat
    BY <1>1, <1>2, <1>3, ExpectedOfAlpha
  <1>7. N # 0 => (e = 0 <=> Cardinality(LabelsOf(matrix)) = 1)
    <2>1. e = 0 <=> \A x, y \in LabelsOf(matrix) : x = y
      BY <1>1, <1>2, <1>3, ExpectedOfAlpha
    <2>2. N # 0 => (Cardinality(LabelsOf(matrix)) = 1 <=> \A x, y \in LabelsOf(matrix) : x = y)
      BY OneLabel
    <2>3. QED
      BY <2>1, <2>2
  <1>8. PICK alpha : alpha = KrippendorffsAlpha(matrix)
    OBVIOUS
  <1>9. alpha = IF N < 2 \/ e = 0 THEN Undefined ELSE <<e - (2 * N - 1) * (2 * d), e>>
    BY <1>1, <1>2, <1>3, <1>4, <1>5, <1>8 DEF KrippendorffsAlpha, Judgements
  <1>10. <<e - (2 * N - 1) * (2 * d), e>> # Undefined
    BY DEF Undefined
  <1>11. alpha = Undefined <=> Single(matrix)
    BY <1>5, <1>7, <1>9, <1>10 DEF Single
  <1>12. ASSUME alpha # Undefined
         PROVE  alpha[2] > 0 /\ alpha[1] <= alpha[2] /\ (alpha[1] = alpha[2] <=> a = N)
    <2>1. N >= 2 /\ e # 0 /\ alpha[1] = e - (2 * N - 1) * (2 * d) /\ alpha[2] = e
      BY <1>9, <1>12
    <2>2. PICK u \in Nat, v \in Nat : u = 2 * N - 1 /\ v = 2 * d
      BY <1>5, <2>1
    <2>3. u # 0 /\ (v = 0 <=> d = 0)
      BY <1>5, <2>1, <2>2
    <2>4. PICK w \in Nat : w = u * v
      BY <2>2
    <2>5. w = 0 <=> v = 0
      BY <2>3, <2>4
    <2>6. d = 0 <=> a = N
      BY <1>5
    <2>7. alpha[1] = e - w /\ alpha[2] = e
      BY <2>1, <2>2, <2>4
    <2>8. QED
      BY <1>6, <2>1, <2>3, <2>5, <2>6, <2>7
  <1>13. Sound(alpha, matrix)
    BY <1>4, <1>5, <1>12 DEF Sound
  <1>14. QED
    BY <1>8, <1>11, <1>13

-----------------------------------------------------------------------------
(* The files, and what the last command said of them.                      *)
IsFile(x) ==
    /\ x = [annotator |-> x.annotator, recording |-> x.recording, speaker |-> x.speaker,
            pass |-> x.pass, taxonomy |-> x.taxonomy, written |-> x.written, marks |-> x.marks, words |-> x.words]
    /\ x.written = TRUE /\ IsFiniteSet(x.marks) /\ x.marks \subseteq RawMarks

FilesAreKept ==
    /\ files = [f \in Annotators |-> files[f]]
    /\ \A f \in Annotators : files[f] = NoFile \/ IsFile(files[f])

ReportsAreCurrent ==
    Validated => \A f \in DOMAIN outcome.reports :
                     /\ f \in Written /\ Verdict(files[f]) = "read"
                     /\ outcome.reports[f] = ValidationOf(Read(f))

ComparisonIsCurrent ==
    Compared => /\ outcome.left \in Written /\ Verdict(files[outcome.left]) = "read"
                /\ outcome.right \in Written /\ Verdict(files[outcome.right]) = "read"
                /\ outcome.report = Compare(Read(outcome.left), Read(outcome.right), outcome.criterion)

CorpusInv == FilesAreKept /\ ReportsAreCurrent /\ ComparisonIsCurrent

(* Only a file whose marks keep the rules is read.                         *)
LEMMA WhatIsRead ==
    ASSUME NEW file, IsFiniteSet(file.marks), file.marks \subseteq RawMarks, Verdict(file) = "read"
    PROVE  AreMarks(file.marks)
  <1>1. \A m \in file.marks : IsDisfluency(m)
    BY Zenon DEF Verdict
  <1>2. ASSUME NEW m \in file.marks PROVE m.class \in Published /\ m.start \in Int /\ m.end \in Int /\ IsSpan(m)
    <2>1. m.class \in Published /\ IsSpan(m)
      BY <1>1 DEF IsDisfluency
    <2>2. {m.start, m.end} \subseteq Nat \cup {NoTime}
      BY MarksAssumption
    <2>3. QED
      BY <2>1, <2>2 DEF NoTime
  <1>3. QED
    BY <1>2 DEF AreMarks

(* So of the files as they are.                                            *)
LEMMA WrittenFiles ==
    ASSUME FilesAreKept, NEW f \in Written, Verdict(files[f]) = "read"
    PROVE  AreMarks(files[f].marks) /\ f \in Annotators /\ IsFile(files[f])
  <1>1. f \in Annotators /\ files[f].written
    BY DEF Written
  <1>2. IsFile(files[f])
    BY <1>1 DEF FilesAreKept, NoFile
  <1>3. QED
    BY <1>1, <1>2, WhatIsRead DEF IsFile

(* Nothing is written and nothing was said.                                *)
LEMMA Initially == Init => CorpusInv
  <1> SUFFICES ASSUME Init PROVE CorpusInv
    OBVIOUS
  <1>1. FilesAreKept
    BY DEF Init, FilesAreKept
  <1>2. ~Validated /\ ~Compared
    BY DEF Init, Validated, Compared, Nothing
  <1>3. QED
    BY <1>1, <1>2 DEF CorpusInv, ReportsAreCurrent, ComparisonIsCurrent

(* A change to a file leaves no report standing.                           *)
LEMMA Changed ==
    ASSUME FilesAreKept, NEW f \in Annotators, NEW x, IsFile(x), files' = [files EXCEPT ![f] = x],
           outcome'.command \notin {"validate", "agreement"}
    PROVE  CorpusInv'
  <1>1. FilesAreKept'
    BY DEF FilesAreKept
  <1>2. ~Validated' /\ ~Compared'
    BY DEF Validated, Compared
  <1>3. QED
    BY <1>1, <1>2 DEF CorpusInv, ReportsAreCurrent, ComparisonIsCurrent

(* `template` leaves a file without marks.                                 *)
LEMMA Templates ==
    ASSUME CorpusInv, NEW f \in Annotators, NEW header, Template(f, header)
    PROVE  CorpusInv'
  <1>1. PICK x : x = [annotator |-> header.annotator, recording |-> header.recording,
                      speaker |-> header.speaker, pass |-> header.pass,
                      taxonomy |-> header.taxonomy, written |-> TRUE, marks |-> {}, words |-> {}]
    OBVIOUS
  <1>2. IsFile(x)
    <2>1. x.marks = {} /\ IsFiniteSet({})
      BY <1>1, FS_EmptySet
    <2>2. QED
      BY <1>1, <2>1 DEF IsFile
  <1>3. files' = [files EXCEPT ![f] = x]
    BY <1>1 DEF Template
  <1>4. outcome'.command \notin {"validate", "agreement"}
    BY DEF Template
  <1>5. QED
    BY <1>2, <1>3, <1>4, Changed DEF CorpusInv

(* An annotator adds one mark of those there are.                          *)
LEMMA Placements ==
    ASSUME CorpusInv, NEW f \in Annotators, NEW m \in RawMarks, Place(f, m)
    PROVE  CorpusInv'
  <1>1. IsFile(files[f])
    BY DEF CorpusInv, FilesAreKept, Place, Written, NoFile
  <1>2. PICK a, r, o, p, t, b, k, w :
            /\ files[f] = [annotator |-> a, recording |-> r, speaker |-> o, pass |-> p,
                            taxonomy |-> t, written |-> b, marks |-> k, words |-> w]
            /\ b = TRUE /\ IsFiniteSet(k) /\ k \subseteq RawMarks
    BY <1>1 DEF IsFile
  <1>3. PICK x : x = [annotator |-> a, recording |-> r, speaker |-> o, pass |-> p,
                     taxonomy |-> t, written |-> b, marks |-> k \cup {m}, words |-> w]
    OBVIOUS
  <1>4. IsFile(x)
    <2>1. IsFiniteSet(k \cup {m})
      BY <1>2, FS_AddElement
    <2>2. QED
      BY <1>2, <1>3, <2>1 DEF IsFile
  <1>5. files' = [files EXCEPT ![f] = x]
    <2>1. files' = [files EXCEPT ![f] = [files[f] EXCEPT !.marks = files[f].marks \cup {m}]]
      BY DEF Place
    <2>2. PICK old : old = files[f]
      OBVIOUS
    <2>3. [old EXCEPT !.marks = old.marks \cup {m}] = x
      <3>1. old = [annotator |-> a, recording |-> r, speaker |-> o, pass |-> p,
                   taxonomy |-> t, written |-> b, marks |-> k, words |-> w]
        BY <1>2, <2>2
      <3>2. PICK z : z = k \cup {m}
        OBVIOUS
      <3>3. [old EXCEPT !.marks = z] = x
        BY <1>3, <3>1, <3>2
      <3>4. QED
        BY <3>1, <3>2, <3>3
    <2>4. QED
      BY <2>1, <2>2, <2>3
  <1>6. outcome'.command \notin {"validate", "agreement"}
    BY DEF Place, Nothing
  <1>7. QED
    BY <1>4, <1>5, <1>6, Changed DEF CorpusInv

(* The words are not the marks.                                            *)
LEMMA Transcriptions ==
    ASSUME CorpusInv, NEW f \in Annotators, NEW words, Transcribe(f, words)
    PROVE  CorpusInv'
  <1>1. IsFile(files[f])
    BY DEF CorpusInv, FilesAreKept, Transcribe, Written, NoFile
  <1>2. PICK a, r, o, p, t, b, k, w :
            /\ files[f] = [annotator |-> a, recording |-> r, speaker |-> o, pass |-> p,
                            taxonomy |-> t, written |-> b, marks |-> k, words |-> w]
            /\ b = TRUE /\ IsFiniteSet(k) /\ k \subseteq RawMarks
    BY <1>1 DEF IsFile
  <1>3. PICK x : x = [annotator |-> a, recording |-> r, speaker |-> o, pass |-> p,
                     taxonomy |-> t, written |-> b, marks |-> k, words |-> words]
    OBVIOUS
  <1>4. IsFile(x)
    BY <1>2, <1>3 DEF IsFile
  <1>5. files' = [files EXCEPT ![f] = x]
    <2>1. files' = [files EXCEPT ![f] = [files[f] EXCEPT !.words = words]]
      BY DEF Transcribe
    <2>2. PICK old : old = files[f]
      OBVIOUS
    <2>3. [old EXCEPT !.words = words] = x
      <3>1. old = [annotator |-> a, recording |-> r, speaker |-> o, pass |-> p,
                   taxonomy |-> t, written |-> b, marks |-> k, words |-> w]
        BY <1>2, <2>2
      <3>2. PICK z : z = words
        OBVIOUS
      <3>3. [old EXCEPT !.words = z] = x
        BY <1>3, <3>1, <3>2
      <3>4. QED
        BY <3>1, <3>2, <3>3
    <2>4. QED
      BY <2>1, <2>2, <2>3
  <1>6. outcome'.command \notin {"validate", "agreement"}
    BY DEF Transcribe, Nothing
  <1>7. QED
    BY <1>4, <1>5, <1>6, Changed DEF CorpusInv

(* `validate` reports of the files it has just read.                       *)
LEMMA Validations ==
    ASSUME CorpusInv, NEW F, Validate(F)
    PROVE  CorpusInv'
  <1>1. FilesAreKept' /\ Written' = Written
    BY DEF CorpusInv, FilesAreKept, Validate, Written
  <1>2. ~Compared'
    BY DEF Compared, Validate
  <1>3. ASSUME Validated', NEW f \in DOMAIN outcome'.reports
        PROVE  /\ f \in Written /\ Verdict(files[f]) = "read"
               /\ outcome'.reports[f] = ValidationOf(Read(f))
    <2>1. CASE ~Reads(F)
      BY <1>3, <2>1 DEF Validate, Validated
    <2>2. CASE Reads(F)
      <3>1. PICK reports : reports = [g \in F |-> ValidationOf(Read(g))]
        OBVIOUS
      <3>2. outcome'.reports = reports
        BY <2>2, <3>1 DEF Validate
      <3>3. f \in F
        BY <1>3, <3>1, <3>2
      <3>4. Verdict(files[f]) = "read" /\ f \in Written
        BY <2>2, <3>3 DEF Reads, Validate
      <3>5. QED
        BY <3>1, <3>2, <3>3, <3>4
    <2>3. QED
      BY <2>1, <2>2
  <1>4. files' = files /\ \A f : Read(f)' = Read(f)
    BY DEF Validate, Read
  <1>5. ReportsAreCurrent'
    BY <1>1, <1>3, <1>4 DEF ReportsAreCurrent
  <1>6. QED
    BY <1>1, <1>2, <1>5 DEF CorpusInv, ComparisonIsCurrent

(* `agreement` reports of the two files it has just read.                  *)
LEMMA Comparisons ==
    ASSUME CorpusInv, NEW f \in Annotators, NEW g \in Annotators, NEW criterion, Agreement(f, g, criterion)
    PROVE  CorpusInv'
  <1>1. FilesAreKept' /\ Written' = Written
    BY DEF CorpusInv, FilesAreKept, Agreement, Written
  <1>2. ~Validated'
    BY DEF Validated, Agreement
  <1>3. ASSUME Compared'
        PROVE  /\ outcome'.left \in Written /\ Verdict(files[outcome'.left]) = "read"
               /\ outcome'.right \in Written /\ Verdict(files[outcome'.right]) = "read"
               /\ outcome'.report = Compare(Read(outcome'.left), Read(outcome'.right), outcome'.criterion)
    <2>1. CASE ~(Reads({f, g}) /\ Comparable(Read(f), Read(g)))
      BY <1>3, <2>1 DEF Agreement, Compared
    <2>2. CASE Reads({f, g}) /\ Comparable(Read(f), Read(g))
      <3>1. PICK report : report = Compare(Read(f), Read(g), criterion)
        OBVIOUS
      <3>2. outcome' = [command |-> "agreement", left |-> f, right |-> g, criterion |-> criterion,
                        exit |-> 0, report |-> report]
        BY <2>2, <3>1 DEF Agreement
      <3>3. f \in Written /\ g \in Written /\ Verdict(files[f]) = "read" /\ Verdict(files[g]) = "read"
        BY <2>2 DEF Agreement, Reads
      <3>4. QED
        BY <3>1, <3>2, <3>3
    <2>3. QED
      BY <2>1, <2>2
  <1>4. files' = files /\ \A h : Read(h)' = Read(h)
    BY DEF Agreement, Read
  <1>5. ComparisonIsCurrent'
    BY <1>1, <1>3, <1>4 DEF ComparisonIsCurrent
  <1>6. QED
    BY <1>1, <1>2, <1>5 DEF CorpusInv, ReportsAreCurrent

(* The invariant is inductive.                                             *)
LEMMA EachStep == CorpusInv /\ [Next]_vars => CorpusInv'
  <1> SUFFICES ASSUME CorpusInv, [Next]_vars PROVE CorpusInv'
    OBVIOUS
  <1>1. ASSUME NEW f \in Annotators, NEW header \in Headers[f], Template(f, header) PROVE CorpusInv'
    BY <1>1, Templates
  <1>2. ASSUME NEW f \in Annotators, NEW m \in RawMarks, Place(f, m) PROVE CorpusInv'
    BY <1>2, Placements
  <1>3. ASSUME NEW f \in Annotators, NEW words \in WordTiers, Transcribe(f, words) PROVE CorpusInv'
    BY <1>3, Transcriptions
  <1>4. ASSUME NEW F \in SUBSET Annotators, Validate(F) PROVE CorpusInv'
    BY <1>4, Validations
  <1>5. ASSUME NEW f \in Annotators, NEW g \in Annotators, NEW criterion \in {"iou", "midpoint_tolerance"},
               Agreement(f, g, criterion)
        PROVE  CorpusInv'
    BY <1>5, Comparisons
  <1>6. CASE UNCHANGED vars
    BY <1>6 DEF vars, CorpusInv, FilesAreKept, ReportsAreCurrent, ComparisonIsCurrent, Validated,
                Compared, Written, Read
  <1>7. QED
    BY <1>1, <1>2, <1>3, <1>4, <1>5, <1>6 DEF Next

(***************************************************************************)
(* Every file written holds marks an annotator may place, a validation     *)
(* that reports was made of the files as they are, and so was a comparison *)
(* (cli/main.py).                                                          *)
(***************************************************************************)
THEOREM CorpusIsCurrent == Spec => []CorpusInv
  <1>1. QED
    BY Initially, EachStep, PTL DEF Spec

(***************************************************************************)
(* In a file of any size the first overlap within a class is reported, and *)
(* nothing that is none, although only neighbours are compared: of two     *)
(* that overlap, the first in time overlaps the one that follows it        *)
(* (schema/validation.py).                                                 *)
(***************************************************************************)
THEOREM OverlapsAreReported == Spec => []OverlapsAreFound
  <1>1. CorpusInv => OverlapsAreFound
    <2> SUFFICES ASSUME CorpusInv, Validated, NEW f \in DOMAIN outcome.reports
                 PROVE  /\ \A p \in Reported(f) : Clash(p[1], p[2])
                        /\ \A m, n \in files[f].marks :
                               Clash(m, n) =>
                                   \E p \in Reported(f) :
                                       p[2].class = n.class /\ (p[2] = n \/ InTime(p[2], n))
      BY DEF OverlapsAreFound
    <2>1. /\ f \in Written /\ Verdict(files[f]) = "read"
          /\ outcome.reports[f] = ValidationOf(Read(f))
      BY DEF CorpusInv, ReportsAreCurrent
    <2>2. AreMarks(files[f].marks)
      BY <2>1, WrittenFiles DEF CorpusInv
    <2>3. PICK recording : recording = Read(f)
      OBVIOUS
    <2>4. recording.marks = files[f].marks
      BY <2>3 DEF Read, ReadBack
    <2>5. outcome.reports[f].errors = ErrorsOf(recording)
      BY <2>1, <2>3 DEF ValidationOf
    <2>6. AreMarks(recording.marks)
      BY <2>2, <2>4
    <2>7. Reported(f) = SameClassOverlaps(recording)
      BY <2>5, PairsAmongErrors DEF Reported
    <2>8. QED
      BY <2>4, <2>6, <2>7, ClashingMarks, Zenon
  <1>2. QED
    BY <1>1, CorpusIsCurrent, PTL

(* Both files compared hold marks that keep the rules.                     *)
LEMMA WhatIsCompared ==
    ASSUME CorpusInv, Compared, NEW L, NEW R,
           L = files[outcome.left].marks, R = files[outcome.right].marks
    PROVE  /\ AreMarks(L) /\ AreMarks(R)
           /\ Read(outcome.left).marks = L /\ Read(outcome.right).marks = R
  <1>1. /\ outcome.left \in Written /\ Verdict(files[outcome.left]) = "read"
        /\ outcome.right \in Written /\ Verdict(files[outcome.right]) = "read"
    BY DEF CorpusInv, ComparisonIsCurrent
  <1>2. AreMarks(L) /\ AreMarks(R)
    BY <1>1, WrittenFiles DEF CorpusInv
  <1>3. Read(outcome.left).marks = L /\ Read(outcome.right).marks = R
    BY DEF Read, ReadBack
  <1>4. QED
    BY <1>2, <1>3

(***************************************************************************)
(* Of all ways to pair admissible events that do not cross, the dynamic    *)
(* program and its walk back find one of the greatest score, whatever they *)
(* do with ties, for files of any size and any thresholds (matching.py).   *)
(***************************************************************************)
THEOREM MatchingIsTheBest == Spec => []MatchingIsOptimal
  <1>1. CorpusInv => MatchingIsOptimal
    <2> SUFFICES ASSUME CorpusInv, Compared PROVE MatchingIsOptimal
      BY DEF MatchingIsOptimal
    <2>1. PICK L, R : L = files[outcome.left].marks /\ R = files[outcome.right].marks
      OBVIOUS
    <2>2. AreMarks(L) /\ AreMarks(R)
      BY <2>1, WhatIsCompared
    <2>3. PICK mt : mt = Match(L, R, outcome.criterion)
      OBVIOUS
    <2>4. PICK W : W = Weights(Ordered(L), Ordered(R), outcome.criterion)
      OBVIOUS
    <2>5. PICK best, s : IsMatch(mt, L, R, W, best, s)
      BY <2>2, <2>3, <2>4, MatchIsMatch
    <2>6. IsOptimal(mt.pairs, Ordered(L), Ordered(R), W)
      BY <2>2, <2>5, MatchIsOptimal
    <2>7. QED
      BY <2>1, <2>3, <2>4, <2>6, Zenon DEF MatchingIsOptimal, IsOptimal
  <1>2. QED
    BY <1>1, CorpusIsCurrent, PTL

(* What the report of two recordings rests on.                             *)
LEMMA FieldsOfReport ==
    ASSUME NEW x, NEW y, NEW criterion, NEW mt, mt = Match(x.marks, y.marks, criterion),
           NEW matrix, matrix = Confusion(ClassLabels(mt)),
           NEW report, report = Compare(x, y, criterion)
    PROVE  /\ report.perClass = PerClass(matrix, mt) /\ report.classes = matrix
           /\ report.kappa = CohensKappa(matrix) /\ report.alpha = KrippendorffsAlpha(matrix)
  <1> DEFINE match == Match(x.marks, y.marks, criterion)
  <1>1. /\ Compare(x, y, criterion).perClass = PerClass(Confusion(ClassLabels(match)), match)
        /\ Compare(x, y, criterion).classes = Confusion(ClassLabels(match))
        /\ Compare(x, y, criterion).kappa = CohensKappa(Confusion(ClassLabels(match)))
        /\ Compare(x, y, criterion).alpha = KrippendorffsAlpha(Confusion(ClassLabels(match)))
    BY DEF Compare, ClassLabels
  <1>2. QED
    BY <1>1

LEMMA WhatIsReported ==
    ASSUME CorpusInv, Compared, NEW L, NEW R,
           L = files[outcome.left].marks, R = files[outcome.right].marks
    PROVE  \E mt, N, labels :
              /\ IsPairing(mt, L, R, N) /\ labels = ClassLabels(mt) /\ DOMAIN labels = 1 .. N
              /\ outcome.report.perClass = PerClass(Confusion(labels), mt)
              /\ outcome.report.classes = Confusion(labels)
              /\ outcome.report.kappa = CohensKappa(Confusion(labels))
              /\ outcome.report.alpha = KrippendorffsAlpha(Confusion(labels))
  <1>1. AreMarks(L) /\ AreMarks(R)
    BY WhatIsCompared
  <1>2. PICK mt : mt = Match(L, R, outcome.criterion)
    OBVIOUS
  <1>3. \E W, best, s : IsMatch(mt, L, R, W, best, s)
    BY <1>1, <1>2, MatchIsMatch
  <1>4. PICK N : IsPairing(mt, L, R, N)
    BY <1>1, <1>3, MatchIsPairing
  <1>5. PICK labels : labels = ClassLabels(mt)
    OBVIOUS
  <1>6. DOMAIN labels = 1 .. N
    BY <1>4, <1>5 DEF IsPairing, ClassLabels
  <1>7. PICK x, y : x = Read(outcome.left) /\ y = Read(outcome.right)
    OBVIOUS
  <1>8. outcome.report = Compare(x, y, outcome.criterion)
    BY <1>7 DEF CorpusInv, ComparisonIsCurrent
  <1>9. mt = Match(x.marks, y.marks, outcome.criterion)
    BY <1>2, <1>7, WhatIsCompared
  <1>10. /\ outcome.report.perClass = PerClass(Confusion(labels), mt)
         /\ outcome.report.classes = Confusion(labels)
         /\ outcome.report.kappa = CohensKappa(Confusion(labels))
         /\ outcome.report.alpha = KrippendorffsAlpha(Confusion(labels))
    BY <1>5, <1>8, <1>9, FieldsOfReport
  <1>11. QED
    BY <1>4, <1>5, <1>6, <1>10

(***************************************************************************)
(* The rows of a report account for every event of both annotators, of     *)
(* every class, whoever noticed it (agreement/report.py).                  *)
(***************************************************************************)
THEOREM RowsAccountForEvents == Spec => []EveryEventIsCounted
  <1>1. CorpusInv => EveryEventIsCounted
    <2> SUFFICES ASSUME CorpusInv, Compared PROVE EveryEventIsCounted
      BY DEF EveryEventIsCounted
    <2>1. PICK L, R : L = files[outcome.left].marks /\ R = files[outcome.right].marks
      OBVIOUS
    <2>2. IsFiniteSet(L) /\ IsFiniteSet(R)
      BY <2>1, WhatIsCompared DEF AreMarks
    <2>3. PICK mt, N, labels :
              /\ IsPairing(mt, L, R, N) /\ labels = ClassLabels(mt)
              /\ outcome.report.perClass = PerClass(Confusion(labels), mt)
      BY <2>1, WhatIsReported
    <2>4. PICK per : per = outcome.report.perClass
      OBVIOUS
    <2>5. ASSUME NEW c \in Published
          PROVE  /\ RowOf(per, c).both + RowOf(per, c).leftOnly = Cardinality(Kind(L, c))
                 /\ RowOf(per, c).both + RowOf(per, c).rightOnly = Cardinality(Kind(R, c))
      BY <2>2, <2>3, <2>4, EventsAreCounted
    <2>6. QED
      BY <2>1, <2>4, <2>5, Zenon DEF EveryEventIsCounted, RowOf, Kind
  <1>2. QED
    BY <1>1, CorpusIsCurrent, PTL

(***************************************************************************)
(* Kappa and alpha are undefined exactly where one label, or less than two *)
(* matched events, leave nothing to agree on by chance; defined, they are  *)
(* at most 1, and 1 exactly for full agreement (agreement/measures.py).    *)
(***************************************************************************)
THEOREM CoefficientsAreMeaningful == Spec => []CoefficientsAreSound
  <1>1. CorpusInv => CoefficientsAreSound
    <2> SUFFICES ASSUME CorpusInv, Compared PROVE CoefficientsAreSound
      BY DEF CoefficientsAreSound
    <2>1. PICK mt, N, labels, L, R :
              /\ IsPairing(mt, L, R, N) /\ DOMAIN labels = 1 .. N
              /\ outcome.report.classes = Confusion(labels)
              /\ outcome.report.kappa = CohensKappa(Confusion(labels))
              /\ outcome.report.alpha = KrippendorffsAlpha(Confusion(labels))
      BY WhatIsReported
    <2>2. N \in Nat
      BY <2>1 DEF IsPairing
    <2>3. PICK matrix : matrix = Confusion(labels)
      OBVIOUS
    <2>4. /\ Sound(CohensKappa(matrix), matrix)
          /\ CohensKappa(matrix) = Undefined <=> Single(matrix)
      BY <2>1, <2>2, <2>3, KappaIsSound
    <2>5. /\ Sound(KrippendorffsAlpha(matrix), matrix)
          /\ KrippendorffsAlpha(matrix) = Undefined <=> Single(matrix)
      BY <2>1, <2>2, <2>3, AlphaIsSound
    <2>6. /\ outcome.report.classes = matrix
          /\ outcome.report.kappa = CohensKappa(matrix) /\ outcome.report.alpha = KrippendorffsAlpha(matrix)
      BY <2>1, <2>3
    <2>7. QED
      BY <2>4, <2>5, <2>6 DEF CoefficientsAreSound, Sound, Single
  <1>2. QED
    BY <1>1, CorpusIsCurrent, PTL

=============================================================================

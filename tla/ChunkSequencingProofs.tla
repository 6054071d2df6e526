------------------------ MODULE ChunkSequencingProofs ------------------------
(***************************************************************************)
(* Proofs about the chunk ledger, for any range of sequence numbers and    *)
(* any order of arrival: the highest number, the runs confirmed missing,   *)
(* and that the ledger implements the abstract account of arrivals.        *)
(***************************************************************************)
EXTENDS ChunkSequencing, FiniteSetTheorems, SequenceTheorems, WellFoundedInduction, TLAPS

-----------------------------------------------------------------------------
(* Induction over data: a set stands for the property, and a function for  *)
(* the step of a recursion.                                                *)

LEMMA Induction ==
    ASSUME NEW T, 0 \in T, \A n \in Nat : n \in T => n + 1 \in T
    PROVE  \A n \in Nat : n \in T
  <1>1. PICK R : R = OpToRel(<, Nat)
    OBVIOUS
  <1>2. IsWellFoundedOn(R, Nat)
    BY <1>1, NatLessThanWellFounded
  <1>3. PICK U : U = {n \in Nat : n \notin T}
    OBVIOUS
  <1>4. SUFFICES ASSUME U # {} PROVE FALSE
    BY <1>3
  <1>5. PICK x \in U : \A y \in U : ~(<<y, x>> \in R)
    <2>1. U \subseteq Nat
      BY <1>3
    <2>2. QED
      BY <1>2, <1>4, <2>1, WFMin
  <1>6. x \in Nat /\ x \notin T /\ x # 0
    BY <1>3
  <1>7. x - 1 \in Nat /\ x - 1 < x
    BY <1>6
  <1>8. <<x - 1, x>> \in R
    BY <1>1, <1>6, <1>7 DEF OpToRel
  <1>9. x - 1 \in T
    BY <1>3, <1>5, <1>7, <1>8
  <1>10. (x - 1) + 1 \in T
    BY <1>7, <1>9
  <1>11. QED
    BY <1>6, <1>10

RecursesTo(g, N, S, base, step) ==
    /\ g \in [0 .. N -> S] /\ g[0] = base
    /\ \A n \in 0 .. N - 1 : g[n + 1] = step[<<n, g[n]>>]

LEMMA Recursion ==
    ASSUME NEW N \in Nat, NEW S, NEW base \in S, NEW step \in [Nat \X S -> S]
    PROVE  \E g : RecursesTo(g, N, S, base, step)
  <1> DEFINE T == {m \in Nat : \E g : RecursesTo(g, m, S, base, step)}
  <1> USE DEF RecursesTo
  <1>1. 0 \in T
    <2>1. RecursesTo([n \in 0 .. 0 |-> base], 0, S, base, step)
      OBVIOUS
    <2>2. QED
      BY <2>1
  <1>2. ASSUME NEW m \in Nat, m \in T PROVE m + 1 \in T
    <2>1. PICK g : RecursesTo(g, m, S, base, step)
      BY <1>2
    <2>2. PICK h : h = [n \in 0 .. m + 1 |-> IF n = m + 1 THEN step[<<m, g[m]>>] ELSE g[n]]
      OBVIOUS
    <2>3. g[m] \in S /\ step[<<m, g[m]>>] \in S
      BY <2>1
    <2>4. h \in [0 .. m + 1 -> S] /\ h[0] = base
      BY <2>1, <2>2, <2>3
    <2>5. ASSUME NEW n \in 0 .. m PROVE h[n + 1] = step[<<n, h[n]>>]
      <3>1. CASE n = m
        <4>1. m \in 0 .. m + 1 /\ m + 1 \in 0 .. m + 1 /\ m # m + 1
          OBVIOUS
        <4>2. h[m] = g[m] /\ h[m + 1] = step[<<m, g[m]>>]
          BY <2>2, <4>1
        <4>3. QED
          BY <3>1, <4>2
      <3>2. CASE n # m
        <4>1. n \in 0 .. m - 1 /\ n + 1 \in 0 .. m
          BY <3>2
        <4>2. h[n] = g[n] /\ h[n + 1] = g[n + 1]
          BY <2>2, <4>1
        <4>3. QED
          BY <2>1, <4>1, <4>2
      <3>3. QED
        BY <3>1, <3>2
    <2>6. RecursesTo(h, m + 1, S, base, step)
      BY <2>4, <2>5
    <2>7. QED
      BY <2>6
  <1> HIDE DEF T
  <1>3. N \in T
    BY <1>1, <1>2, Induction
  <1>4. QED
    BY <1>3 DEF T

-----------------------------------------------------------------------------
(* What finalize computes from the missing numbers.                        *)

Runs == Seq([first : Nat, last : Nat])

(* The runs of the missing numbers below n: sorted and apart, they hold    *)
(* those numbers and no others, and none could begin earlier or, but for   *)
(* the number n itself, end later.                                         *)
AreRunsBelow(runs, n, missing) ==
    /\ \A i \in 1 .. Len(runs) :
          /\ runs[i].first <= runs[i].last /\ runs[i].last < n
          /\ runs[i].first .. runs[i].last \subseteq missing
          /\ runs[i].first - 1 \notin missing
          /\ runs[i].last + 1 \in missing => runs[i].last + 1 = n
    /\ \A i, j \in 1 .. Len(runs) : i < j => runs[i].last < runs[j].first
    /\ \A m \in missing : m < n =>
          \E i \in 1 .. Len(runs) : runs[i].first <= m /\ m <= runs[i].last

LEMMA ExtendTyped ==
    ASSUME NEW runs \in Runs, NEW n \in Nat
    PROVE  /\ Len(runs) \in Nat
           /\ \A i \in 1 .. Len(runs) : runs[i].first \in Nat /\ runs[i].last \in Nat
           /\ runs # <<>> => Len(runs) \in 1 .. Len(runs) /\ Last(runs) = runs[Len(runs)]
           /\ Extend(runs, n) \in Runs
  <1>1. Len(runs) \in Nat /\ runs \in Seq([first : Nat, last : Nat])
    BY LenProperties DEF Runs
  <1>2. \A i \in 1 .. Len(runs) : runs[i] \in [first : Nat, last : Nat]
    BY <1>1, ElementOfSeq
  <1>3. runs # <<>> => Len(runs) \in 1 .. Len(runs) /\ Last(runs) = runs[Len(runs)]
    BY <1>1, EmptySeq DEF Last
  <1>4. [first |-> n, last |-> n] \in [first : Nat, last : Nat]
    OBVIOUS
  <1>5. Append(runs, [first |-> n, last |-> n]) \in Runs
    BY <1>1, <1>4, AppendProperties DEF Runs
  <1>6. ASSUME runs # <<>> PROVE [runs EXCEPT ![Len(runs)].last = n] \in Runs
    <2>1. [runs[Len(runs)] EXCEPT !.last = n] \in [first : Nat, last : Nat]
      BY <1>2, <1>3, <1>6
    <2>2. [runs EXCEPT ![Len(runs)] = [runs[Len(runs)] EXCEPT !.last = n]] \in Runs
      BY <1>1, <1>3, <1>6, <2>1, ExceptSeq DEF Runs
    <2>3. QED
      BY <1>1, <1>3, <1>6, <2>2
  <1>7. QED
    BY <1>1, <1>2, <1>3, <1>5, <1>6 DEF Extend

(* The number that follows the last run extends it.                        *)
LEMMA ExtendLast ==
    ASSUME NEW runs \in Runs, NEW n \in Nat, runs # <<>>, n = Last(runs).last + 1
    PROVE  /\ Len(Extend(runs, n)) = Len(runs)
           /\ \A i \in 1 .. Len(runs) :
                 Extend(runs, n)[i] =
                    IF i = Len(runs) THEN [first |-> runs[i].first, last |-> n] ELSE runs[i]
  <1>1. runs \in Seq([first : Nat, last : Nat]) /\ Len(runs) \in 1 .. Len(runs)
    BY ExtendTyped DEF Runs
  <1>2. PICK r : r = [first |-> runs[Len(runs)].first, last |-> n]
    OBVIOUS
  <1>3. runs[Len(runs)] \in [first : Nat, last : Nat]
    BY <1>1, ElementOfSeq
  <1>4. [runs[Len(runs)] EXCEPT !.last = n] = r /\ r \in [first : Nat, last : Nat]
    BY <1>2, <1>3
  <1>5. Extend(runs, n) = [runs EXCEPT ![Len(runs)] = r]
    BY <1>1, <1>4 DEF Extend
  <1>6. QED
    BY <1>1, <1>2, <1>4, <1>5, ExceptSeq

(* Any other begins a run of its own.                                      *)
LEMMA ExtendNew ==
    ASSUME NEW runs \in Runs, NEW n \in Nat, ~(runs # <<>> /\ n = Last(runs).last + 1)
    PROVE  /\ Len(Extend(runs, n)) = Len(runs) + 1
           /\ \A i \in 1 .. Len(runs) : Extend(runs, n)[i] = runs[i]
           /\ Extend(runs, n)[Len(runs) + 1] = [first |-> n, last |-> n]
  <1>1. runs \in Seq([first : Nat, last : Nat]) /\ [first |-> n, last |-> n] \in [first : Nat, last : Nat]
    BY DEF Runs
  <1>2. QED
    BY <1>1, AppendProperties DEF Extend

(* One more number, missing or not, keeps the runs those below the next.   *)
LEMMA ExtendKeepsRuns ==
    ASSUME NEW missing, NEW runs \in Runs, NEW n \in Nat,
           missing \subseteq Nat, AreRunsBelow(runs, n, missing)
    PROVE  AreRunsBelow(IF n \in missing THEN Extend(runs, n) ELSE runs, n + 1, missing)
  <1>1. /\ Len(runs) \in Nat
        /\ \A i \in 1 .. Len(runs) : runs[i].first \in Nat /\ runs[i].last \in Nat
        /\ runs # <<>> => Len(runs) \in 1 .. Len(runs) /\ Last(runs) = runs[Len(runs)]
    BY ExtendTyped
  <1>2. ASSUME n \notin missing PROVE AreRunsBelow(runs, n + 1, missing)
    BY <1>1, <1>2 DEF AreRunsBelow
  <1>3. ASSUME n \in missing, runs # <<>>, n = Last(runs).last + 1
        PROVE  AreRunsBelow(Extend(runs, n), n + 1, missing)
    <2>1. PICK new : new = Extend(runs, n)
      OBVIOUS
    <2>2. PICK L : L = Len(runs) /\ L \in 1 .. L /\ n = runs[L].last + 1
      BY <1>1, <1>3
    <2>3. /\ Len(new) = L
          /\ \A i \in 1 .. L : i # L => new[i] = runs[i]
          /\ new[L].first = runs[L].first /\ new[L].last = n
      <3>1. /\ Len(new) = L
            /\ \A i \in 1 .. L :
                  new[i] = IF i = L THEN [first |-> runs[i].first, last |-> n] ELSE runs[i]
        BY <1>3, <2>1, <2>2, ExtendLast, Zenon
      <3>2. new[L] = [first |-> runs[L].first, last |-> n]
        BY <2>2, <3>1
      <3>3. QED
        BY <3>1, <3>2
    <2>4. ASSUME NEW i \in 1 .. L
          PROVE  /\ new[i].first <= new[i].last /\ new[i].last < n + 1
                 /\ new[i].first .. new[i].last \subseteq missing
                 /\ new[i].first - 1 \notin missing
                 /\ new[i].last + 1 \in missing => new[i].last + 1 = n + 1
      <3>1. CASE i = L
        BY <1>1, <1>3, <2>2, <2>3, <3>1 DEF AreRunsBelow
      <3>2. CASE i # L
        <4>1. new[i] = runs[i] /\ i < L
          BY <2>2, <2>3, <3>2
        <4>2. runs[i].last < runs[L].first /\ runs[L].first <= runs[L].last
          BY <2>2, <4>1 DEF AreRunsBelow
        <4>3. runs[i].last + 1 # n
          BY <1>1, <2>2, <4>2
        <4>4. QED
          BY <1>1, <2>2, <4>1, <4>3 DEF AreRunsBelow
      <3>3. QED
        BY <3>1, <3>2
    <2>5. ASSUME NEW i \in 1 .. L, NEW j \in 1 .. L, i < j
          PROVE  new[i].last < new[j].first
      <3>1. i # L /\ new[i] = runs[i] /\ new[j].first = runs[j].first
        BY <2>2, <2>3, <2>5
      <3>2. QED
        BY <2>2, <2>5, <3>1 DEF AreRunsBelow
    <2>6. ASSUME NEW m \in missing, m < n + 1
          PROVE  \E i \in 1 .. L : new[i].first <= m /\ m <= new[i].last
      <3>1. CASE m = n
        BY <1>1, <2>2, <2>3, <3>1 DEF AreRunsBelow
      <3>2. CASE m # n
        <4>1. PICK i \in 1 .. L : runs[i].first <= m /\ m <= runs[i].last
          BY <2>2, <2>6, <3>2 DEF AreRunsBelow
        <4>2. m \in Nat /\ m < n /\ i = L => m <= new[i].last
          BY <2>3
        <4>3. new[i].first <= m /\ m <= new[i].last
          BY <2>3, <2>6, <3>2, <4>1, <4>2
        <4>4. QED
          BY <4>3
      <3>3. QED
        BY <3>1, <3>2
    <2>7. QED
      BY <2>1, <2>3, <2>4, <2>5, <2>6 DEF AreRunsBelow
  <1>4. ASSUME n \in missing, ~(runs # <<>> /\ n = Last(runs).last + 1)
        PROVE  AreRunsBelow(Extend(runs, n), n + 1, missing)
    <2>1. PICK new : new = Extend(runs, n)
      OBVIOUS
    <2>2. PICK L : L = Len(runs) /\ L \in Nat
      BY <1>1
    <2>3. /\ Len(new) = L + 1
          /\ \A i \in 1 .. L : new[i] = runs[i]
          /\ new[L + 1].first = n /\ new[L + 1].last = n
      <3>1. /\ Len(new) = L + 1 /\ \A i \in 1 .. L : new[i] = runs[i]
            /\ new[L + 1] = [first |-> n, last |-> n]
        BY <1>4, <2>1, <2>2, ExtendNew, Zenon
      <3>2. QED
        BY <3>1
    <2>4. ASSUME NEW i \in 1 .. L PROVE runs[i].last + 1 # n
      <3>1. L \in 1 .. L /\ runs[L].last + 1 # n
        <4>1. runs # <<>>
          BY <2>2, EmptySeq
        <4>2. QED
          BY <1>1, <1>4, <2>2, <4>1
      <3>2. CASE i # L
        <4>1. runs[i].last < runs[L].first /\ runs[L].first <= runs[L].last /\ runs[L].last < n
          BY <2>2, <3>1, <3>2 DEF AreRunsBelow
        <4>2. QED
          BY <1>1, <2>2, <3>1, <4>1
      <3>3. QED
        BY <3>1, <3>2
    <2>5. n - 1 \notin missing
      <3>1. SUFFICES ASSUME n - 1 \in missing PROVE FALSE
        OBVIOUS
      <3>2. PICK i \in 1 .. L : runs[i].first <= n - 1 /\ n - 1 <= runs[i].last
        BY <2>2, <3>1 DEF AreRunsBelow
      <3>3. runs[i].last < n
        BY <2>2 DEF AreRunsBelow
      <3>4. QED
        BY <1>1, <2>2, <2>4, <3>2, <3>3
    <2>6. ASSUME NEW i \in 1 .. L + 1
          PROVE  /\ new[i].first <= new[i].last /\ new[i].last < n + 1
                 /\ new[i].first .. new[i].last \subseteq missing
                 /\ new[i].first - 1 \notin missing
                 /\ new[i].last + 1 \in missing => new[i].last + 1 = n + 1
      <3>1. CASE i = L + 1
        BY <1>4, <2>3, <2>5, <3>1
      <3>2. CASE i # L + 1
        <4>1. i \in 1 .. L /\ new[i] = runs[i]
          BY <2>2, <2>3, <3>2
        <4>2. QED
          BY <1>1, <2>2, <2>4, <4>1 DEF AreRunsBelow
      <3>3. QED
        BY <3>1, <3>2
    <2>7. ASSUME NEW i \in 1 .. L + 1, NEW j \in 1 .. L + 1, i < j
          PROVE  new[i].last < new[j].first
      <3>1. i \in 1 .. L /\ new[i] = runs[i]
        BY <2>2, <2>3, <2>7
      <3>2. CASE j = L + 1
        BY <2>2, <2>3, <3>1, <3>2 DEF AreRunsBelow
      <3>3. CASE j # L + 1
        <4>1. j \in 1 .. L /\ new[j] = runs[j]
          BY <2>2, <2>3, <3>3
        <4>2. QED
          BY <2>2, <2>7, <3>1, <4>1 DEF AreRunsBelow
      <3>4. QED
        BY <3>2, <3>3
    <2>8. ASSUME NEW m \in missing, m < n + 1
          PROVE  \E i \in 1 .. L + 1 : new[i].first <= m /\ m <= new[i].last
      <3>1. CASE m = n
        BY <2>2, <2>3, <3>1
      <3>2. CASE m # n
        <4>1. m < n
          BY <2>8, <3>2
        <4>2. PICK i \in 1 .. L : runs[i].first <= m /\ m <= runs[i].last
          BY <2>2, <4>1 DEF AreRunsBelow
        <4>3. i \in 1 .. L + 1 /\ new[i] = runs[i]
          BY <2>2, <2>3
        <4>4. QED
          BY <4>2, <4>3
      <3>3. QED
        BY <3>1, <3>2
    <2>9. QED
      BY <2>1, <2>3, <2>6, <2>7, <2>8 DEF AreRunsBelow
  <1>5. QED
    BY <1>2, <1>3, <1>4

(* The runs _collapse returns are those of all the missing numbers.        *)
LEMMA CollapseIsRuns ==
    ASSUME NEW missing, missing \subseteq Chunks
    PROVE  /\ Collapse(missing) \in Runs
           /\ AreRunsBelow(Collapse(missing), MaxSeq + 1, missing)
  <1>1. PICK N : N = MaxSeq + 1 /\ N \in Nat
    BY BoundsAssumption
  <1>2. missing \subseteq Nat
    BY BoundsAssumption DEF Chunks
  <1> DEFINE Eq(g) == g = [n \in 0 .. N |->
                              IF n = 0 THEN <<>>
                              ELSE IF n - 1 \in missing THEN Extend(g[n - 1], n - 1)
                              ELSE g[n - 1]]
  <1>3. \E g : Eq(g)
    <2>1. PICK step : step = [p \in Nat \X Runs |->
                                IF p[1] \in missing THEN Extend(p[2], p[1]) ELSE p[2]]
      OBVIOUS
    <2>2. \A n \in Nat : \A runs \in Runs :
              step[<<n, runs>>] = IF n \in missing THEN Extend(runs, n) ELSE runs
      BY <2>1
    <2>3. step \in [Nat \X Runs -> Runs]
      BY <2>1, ExtendTyped
    <2>4. PICK base \in Runs : base = <<>>
      BY EmptySeq DEF Runs
    <2>5. PICK g : RecursesTo(g, N, Runs, base, step)
      BY <1>1, <2>3, Recursion
    <2>6. /\ g \in [0 .. N -> Runs] /\ g[0] = <<>>
          /\ \A n \in 0 .. N - 1 : g[n + 1] = step[<<n, g[n]>>]
      BY <2>4, <2>5, Zenon DEF RecursesTo
    <2>7. ASSUME NEW n \in 0 .. N
          PROVE  g[n] = IF n = 0 THEN <<>>
                        ELSE IF n - 1 \in missing THEN Extend(g[n - 1], n - 1)
                        ELSE g[n - 1]
      <3>1. CASE n = 0
        BY <2>6, <3>1
      <3>2. CASE n # 0
        <4>1. n - 1 \in 0 .. N - 1 /\ (n - 1) + 1 = n /\ n - 1 \in Nat /\ n - 1 \in 0 .. N
          BY <1>1, <3>2
        <4>2. g[n] = step[<<n - 1, g[n - 1]>>] /\ g[n - 1] \in Runs
          BY <2>6, <4>1
        <4>3. QED
          BY <2>2, <3>2, <4>1, <4>2
      <3>3. QED
        BY <3>1, <3>2
    <2>8. Eq(g)
      BY <2>6, <2>7
    <2>9. QED
      BY <2>8
  <1>4. PICK r : r = CHOOSE g : Eq(g)
    OBVIOUS
  <1>5. Eq(r)
    BY <1>3, <1>4
  <1>6. Collapse(missing) = r[N]
    BY <1>1, <1>4 DEF Collapse
  <1> DEFINE T == {n \in Nat : n <= N => r[n] \in Runs /\ AreRunsBelow(r[n], n, missing)}
  <1>7. 0 \in T
    <2>1. r[0] = <<>>
      BY <1>1, <1>5
    <2>2. <<>> \in Runs /\ Len(<<>>) = 0
      BY EmptySeq DEF Runs
    <2>3. AreRunsBelow(r[0], 0, missing)
      BY <1>2, <2>1, <2>2 DEF AreRunsBelow
    <2>4. QED
      BY <2>1, <2>2, <2>3
  <1>8. ASSUME NEW n \in Nat, n \in T PROVE n + 1 \in T
    <2>1. SUFFICES ASSUME n + 1 <= N
                   PROVE  r[n + 1] \in Runs /\ AreRunsBelow(r[n + 1], n + 1, missing)
      OBVIOUS
    <2>2. r[n] \in Runs /\ AreRunsBelow(r[n], n, missing)
      BY <1>1, <1>8, <2>1
    <2>3. n + 1 \in 0 .. N /\ n + 1 # 0 /\ (n + 1) - 1 = n
      BY <1>1, <2>1
    <2>4. r[n + 1] = IF n \in missing THEN Extend(r[n], n) ELSE r[n]
      BY <1>5, <2>3
    <2>5. AreRunsBelow(r[n + 1], n + 1, missing)
      BY <1>2, <2>2, <2>4, ExtendKeepsRuns
    <2>6. r[n + 1] \in Runs
      BY <2>2, <2>4, ExtendTyped
    <2>7. QED
      BY <2>5, <2>6
  <1> HIDE DEF T
  <1>9. N \in T
    BY <1>1, <1>7, <1>8, Induction
  <1>10. r[N] \in Runs /\ AreRunsBelow(r[N], N, missing)
    BY <1>1, <1>9 DEF T
  <1>11. QED
    BY <1>1, <1>6, <1>10

Held(runs, k) == UNION {runs[i].first .. runs[i].last : i \in 1 .. k}

(* Sorted runs that do not touch are as long together as they hold numbers *)
(* (missing_count).                                                        *)
LEMMA RunsAreCounted ==
    ASSUME gaps \in Runs,
           \A i \in 1 .. Len(gaps) : gaps[i].first <= gaps[i].last,
           \A i, j \in 1 .. Len(gaps) : i < j => gaps[i].last < gaps[j].first
    PROVE  MissingCount = Cardinality(Held(gaps, Len(gaps)))
  <1>1. PICK N : N = Len(gaps) /\ N \in Nat
    BY ExtendTyped
  <1>2. \A i \in 1 .. N : gaps[i].first \in Nat /\ gaps[i].last \in Nat
    BY <1>1, ExtendTyped
  <1>3. PICK count : count = [k \in 0 .. N |-> Cardinality(Held(gaps, k))]
    OBVIOUS
  <1>4. Held(gaps, 0) = {}
    BY DEF Held
  <1>5. ASSUME NEW k \in 0 .. N - 1
        PROVE  /\ Held(gaps, k + 1) = Held(gaps, k) \cup (gaps[k + 1].first .. gaps[k + 1].last)
               /\ Held(gaps, k) \cap (gaps[k + 1].first .. gaps[k + 1].last) = {}
    <2>1. \A i \in 1 .. k + 1 : i = k + 1 \/ i \in 1 .. k
      BY <1>1
    <2>2. 1 .. k \subseteq 1 .. k + 1 /\ k + 1 \in 1 .. k + 1 /\ k + 1 \in 1 .. N
      BY <1>1
    <2>3. Held(gaps, k + 1) = Held(gaps, k) \cup (gaps[k + 1].first .. gaps[k + 1].last)
      BY <2>1, <2>2 DEF Held
    <2>4. ASSUME NEW m \in Held(gaps, k), m \in gaps[k + 1].first .. gaps[k + 1].last PROVE FALSE
      <3>1. PICK i \in 1 .. k : m \in gaps[i].first .. gaps[i].last
        BY DEF Held
      <3>2. i \in 1 .. N /\ i < k + 1
        BY <1>1
      <3>3. gaps[i].last < gaps[k + 1].first
        BY <1>1, <2>2, <3>2
      <3>4. QED
        BY <1>2, <2>2, <2>4, <3>1, <3>2, <3>3
    <2>5. QED
      BY <2>3, <2>4
  <1>6. ASSUME NEW k \in 0 .. N - 1
        PROVE  /\ IsFiniteSet(gaps[k + 1].first .. gaps[k + 1].last)
               /\ Cardinality(gaps[k + 1].first .. gaps[k + 1].last) = GapCount(gaps[k + 1])
    <2>1. k + 1 \in 1 .. N
      BY <1>1
    <2>2. /\ gaps[k + 1].first \in Int /\ gaps[k + 1].last \in Int
          /\ gaps[k + 1].first <= gaps[k + 1].last
      BY <1>1, <1>2, <2>1
    <2>3. PICK a \in Int, b \in Int : a = gaps[k + 1].first /\ b = gaps[k + 1].last
      BY <2>2
    <2>4. IsFiniteSet(a .. b) /\ Cardinality(a .. b) = IF a > b THEN 0 ELSE b - a + 1
      BY FS_Interval, Zenon
    <2>5. ~(a > b)
      BY <2>2, <2>3
    <2>6. QED
      BY <2>3, <2>4, <2>5 DEF GapCount
  <1> DEFINE T == {k \in Nat : k <= N => IsFiniteSet(Held(gaps, k))}
  <1>7. \A k \in 0 .. N : IsFiniteSet(Held(gaps, k))
    <2>1. 0 \in T
      BY <1>4, FS_EmptySet
    <2>2. ASSUME NEW k \in Nat, k \in T PROVE k + 1 \in T
      <3>1. SUFFICES ASSUME k + 1 <= N PROVE IsFiniteSet(Held(gaps, k + 1))
        OBVIOUS
      <3>2. k \in 0 .. N - 1 /\ IsFiniteSet(Held(gaps, k))
        BY <1>1, <2>2, <3>1
      <3>3. PICK H, I : /\ H = Held(gaps, k) /\ I = gaps[k + 1].first .. gaps[k + 1].last
                        /\ IsFiniteSet(H) /\ IsFiniteSet(I)
        BY <1>6, <3>2
      <3>4. IsFiniteSet(H \cup I) /\ Held(gaps, k + 1) = H \cup I
        BY <1>5, <3>2, <3>3, FS_Union
      <3>5. QED
        BY <3>4
    <2> HIDE DEF T
    <2>3. \A k \in Nat : k \in T
      BY <2>1, <2>2, Induction
    <2>4. QED
      BY <2>3 DEF T
  <1>8. ASSUME NEW k \in 0 .. N - 1
        PROVE  Cardinality(Held(gaps, k + 1)) = Cardinality(Held(gaps, k)) + GapCount(gaps[k + 1])
    <2>1. PICK H, I : /\ H = Held(gaps, k) /\ I = gaps[k + 1].first .. gaps[k + 1].last
                      /\ IsFiniteSet(H) /\ IsFiniteSet(I)
                      /\ Held(gaps, k + 1) = H \cup I /\ H \cap I = {}
      <3>1. k \in 0 .. N
        BY <1>1
      <3>2. PICK H, I : H = Held(gaps, k) /\ I = gaps[k + 1].first .. gaps[k + 1].last
        OBVIOUS
      <3>3. IsFiniteSet(H) /\ IsFiniteSet(I)
        BY <1>6, <1>7, <3>1, <3>2
      <3>4. Held(gaps, k + 1) = H \cup I /\ H \cap I = {}
        BY <1>5, <3>2
      <3>5. QED
        BY <3>2, <3>3, <3>4, Zenon
    <2>2. Cardinality(H) \in Nat /\ Cardinality(I) \in Nat /\ Cardinality(H \cap I) = 0
      BY <2>1, FS_CardinalityType, FS_EmptySet
    <2>3. Cardinality(H \cup I) = Cardinality(H) + Cardinality(I) - Cardinality(H \cap I)
      BY <2>1, FS_Union
    <2>4. Cardinality(H \cup I) = Cardinality(H) + Cardinality(I)
      BY <2>2, <2>3
    <2>5. QED
      BY <1>6, <2>1, <2>4
  <1> DEFINE Eq(g) == g = [k \in 0 .. N |->
                              IF k = 0 THEN 0 ELSE g[k - 1] + GapCount(gaps[k])]
  <1>9. Eq(count)
    <2>1. ASSUME NEW k \in 0 .. N
          PROVE  count[k] = IF k = 0 THEN 0 ELSE count[k - 1] + GapCount(gaps[k])
      <3>1. CASE k = 0
        BY <1>3, <1>4, <3>1, FS_EmptySet
      <3>2. CASE k # 0
        <4>1. k - 1 \in 0 .. N - 1 /\ k - 1 \in 0 .. N /\ (k - 1) + 1 = k
          BY <1>1, <3>2
        <4>2. Cardinality(Held(gaps, (k - 1) + 1))
                 = Cardinality(Held(gaps, k - 1)) + GapCount(gaps[(k - 1) + 1])
          BY <1>8, <4>1
        <4>3. Cardinality(Held(gaps, k)) = Cardinality(Held(gaps, k - 1)) + GapCount(gaps[k])
          BY <4>1, <4>2
        <4>4. QED
          BY <1>3, <3>2, <4>1, <4>3
      <3>3. QED
        BY <3>1, <3>2
    <2>2. QED
      BY <1>3, <2>1
  <1>10. PICK c : c = CHOOSE g : Eq(g)
    OBVIOUS
  <1>11. Eq(c) /\ MissingCount = c[N]
    <2>1. Eq(c)
      BY <1>9, <1>10
    <2>2. MissingCount = c[N]
      BY <1>1, <1>10 DEF MissingCount
    <2>3. QED
      BY <2>1, <2>2
  <1> DEFINE U == {k \in Nat : k <= N => c[k] = count[k]}
  <1>12. 0 \in U
    BY <1>1, <1>9, <1>11
  <1>13. ASSUME NEW k \in Nat, k \in U PROVE k + 1 \in U
    <2>1. SUFFICES ASSUME k + 1 <= N PROVE c[k + 1] = count[k + 1]
      OBVIOUS
    <2>2. k + 1 \in 0 .. N /\ k + 1 # 0 /\ (k + 1) - 1 = k /\ c[k] = count[k]
      BY <1>1, <1>13, <2>1
    <2>3. c[k + 1] = c[k] + GapCount(gaps[k + 1])
      BY <1>11, <2>2
    <2>4. count[k + 1] = count[k] + GapCount(gaps[k + 1])
      BY <1>9, <2>2
    <2>5. QED
      BY <2>2, <2>3, <2>4
  <1> HIDE DEF U
  <1>14. N \in U
    BY <1>1, <1>12, <1>13, Induction
  <1>15. c[N] = count[N]
    BY <1>1, <1>14 DEF U
  <1>16. QED
    BY <1>1, <1>3, <1>11, <1>15

-----------------------------------------------------------------------------
(* The invariant.                                                          *)

(* Of the types, all but that of the gaps, which follows from the rest.    *)
LedgerTypes ==
    /\ highest \in Int
    /\ highest = -1 \/ highest \in Chunks
    /\ seenAhead \subseteq Chunks
    /\ accepted \subseteq Chunks
    /\ duplicates \in 0 .. MaxDuplicates
    /\ verdict \in {"none", "accepted", "duplicate", "gap_detected", "out_of_order"}
    /\ closed \in BOOLEAN

(* The numbers ahead are accepted and at most the highest, so accepting    *)
(* the expected number drains nothing.                                     *)
LedgerInv == LedgerTypes /\ HighestIsGreatest /\ AheadIsAccepted

(* The gaps are those of finalize from the close on, when nothing that     *)
(* they were computed from changes any more.                               *)
GapsAreCollapsed == gaps = IF closed THEN Collapse(Missing) ELSE <<>>

(* The inductive invariant. *)
Inv == LedgerInv /\ GapsAreCollapsed

(* With nothing ahead of h, the drain stays where it is (_drain_ahead). *)
LEMMA NothingToDrain ==
    ASSUME NEW h \in Chunks, \A n \in seenAhead : n < h
    PROVE  Drained(h) = h
  <1> DEFINE P(k) == (h + 1) .. k \subseteq seenAhead /\ (k + 1) \notin seenAhead
  <1>1. h \in Int /\ MaxSeq \in Int /\ h \in h .. MaxSeq
    BY BoundsAssumption DEF Chunks
  <1>2. P(h)
    BY <1>1
  <1>3. ASSUME NEW k \in h .. MaxSeq, P(k) PROVE k = h
    <2>1. SUFFICES ASSUME k # h PROVE FALSE
      OBVIOUS
    <2>2. h + 1 \in (h + 1) .. k
      BY <1>1, <2>1
    <2>3. h + 1 \in seenAhead
      BY <1>3, <2>2
    <2>4. QED
      BY <1>1, <2>3
  <1>4. QED
    BY <1>1, <1>2, <1>3 DEF Drained

(* The initial ledger is empty (ChunkLedger's defaults). *)
LEMMA InitInv == Init => Inv
  <1> SUFFICES ASSUME Init PROVE Inv
    OBVIOUS
  <1>1. LedgerTypes
    <2>1. highest \in Int /\ highest = -1 /\ 0 \in 0 .. MaxDuplicates
      BY BoundsAssumption DEF Init
    <2>2. QED
      BY <2>1 DEF Init, LedgerTypes
  <1>2. HighestIsGreatest
    BY DEF Init, HighestIsGreatest
  <1>3. AheadIsAccepted
    BY DEF Init, AheadIsAccepted
  <1>4. GapsAreCollapsed
    BY DEF Init, GapsAreCollapsed
  <1>5. QED
    BY <1>1, <1>2, <1>3, <1>4 DEF Inv, LedgerInv

(* Every offer keeps the ledger consistent (offer). *)
LEMMA OfferInv ==
    ASSUME LedgerInv, NEW n \in Chunks, Offer(n)
    PROVE  LedgerInv'
  <1> USE BoundsAssumption DEF LedgerInv, LedgerTypes, HighestIsGreatest,
          AheadIsAccepted, Chunks
  <1>1. closed' = closed
    BY DEF Offer
  <1>2. CASE OfferDuplicate(n)
    BY <1>1, <1>2 DEF OfferDuplicate
  <1>3. CASE OfferExpected(n)
    <2>1. \A k \in seenAhead : k < n
      BY <1>3 DEF OfferExpected
    <2>2. highest' = n
      BY <1>3, <2>1, NothingToDrain DEF OfferExpected
    <2>3. LedgerTypes'
      <3>1. seenAhead' \subseteq seenAhead /\ duplicates' = duplicates /\ verdict' = "accepted"
        BY <1>3 DEF OfferExpected
      <3>2. accepted' \subseteq Chunks /\ highest' \in Int /\ highest' \in Chunks
        BY <1>3, <2>2 DEF OfferExpected
      <3>3. QED
        BY <1>1, <3>1, <3>2
    <2>4. HighestIsGreatest'
      BY <1>3, <2>2 DEF OfferExpected
    <2>5. AheadIsAccepted'
      BY <1>3, <2>1, <2>2 DEF OfferExpected
    <2>6. QED
      BY <2>3, <2>4, <2>5
  <1>4. CASE OfferAhead(n)
    BY <1>1, <1>4 DEF OfferAhead, Accept
  <1>5. CASE OfferLate(n)
    BY <1>1, <1>5 DEF OfferLate, Accept
  <1>6. QED
    BY <1>2, <1>3, <1>4, <1>5 DEF Offer

(* Every offer, and finalize, keeps the invariant (offer, finalize). *)
LEMMA NextInv == Inv /\ [Next]_vars => Inv'
  <1> SUFFICES ASSUME Inv, [Next]_vars PROVE Inv'
    OBVIOUS
  <1>1. ASSUME NEW n \in Chunks, Offer(n) PROVE Inv'
    <2>1. LedgerInv'
      BY <1>1, OfferInv DEF Inv
    <2>2. ~closed /\ ~closed' /\ gaps' = gaps
      BY <1>1 DEF Offer
    <2>3. QED
      BY <2>1, <2>2 DEF Inv, GapsAreCollapsed
  <1>2. CASE Finalize
    <2>1. LedgerInv'
      BY <1>2 DEF Finalize, Inv, LedgerInv, LedgerTypes, HighestIsGreatest, AheadIsAccepted
    <2>2. closed' /\ gaps' = Collapse(Missing) /\ Missing' = Missing
      BY <1>2 DEF Finalize, Missing
    <2>3. GapsAreCollapsed'
      BY <2>2 DEF GapsAreCollapsed
    <2>4. QED
      BY <2>1, <2>3 DEF Inv
  <1>3. CASE UNCHANGED vars
    BY <1>3 DEF vars, Inv, LedgerInv, LedgerTypes, HighestIsGreatest, AheadIsAccepted,
            GapsAreCollapsed, Missing
  <1>4. QED
    BY <1>1, <1>2, <1>3 DEF Next

(* The strengthened invariant holds in every behaviour (offer, finalize). *)
LEMMA AlwaysInv == Spec => []Inv
  BY InitInv, NextInv, PTL DEF Spec

-----------------------------------------------------------------------------
(* What follows from it.                                                   *)

LEMMA MissingIsBelowHighest ==
    ASSUME LedgerInv
    PROVE  /\ Missing \subseteq Chunks
           /\ \A n \in Missing : n \in Nat /\ highest \in Nat /\ n < highest
           /\ \A n \in Int : 0 <= n /\ n <= highest /\ n \notin Missing => n \in accepted
  BY BoundsAssumption DEF LedgerInv, LedgerTypes, HighestIsGreatest, Missing, Chunks

(* The gaps are the runs of the numbers missing (finalize).                *)
LEMMA GapsAreRuns ==
    ASSUME LedgerInv, NEW runs, runs = Collapse(Missing)
    PROVE  /\ runs \in Runs /\ Len(runs) \in Nat /\ DOMAIN runs = 1 .. Len(runs)
           /\ \A i \in 1 .. Len(runs) : runs[i].first \in Nat /\ runs[i].last \in Nat
           /\ AreRunsBelow(runs, MaxSeq + 1, Missing)
           /\ Held(runs, Len(runs)) = Missing
  <1>1. runs \in Runs /\ AreRunsBelow(runs, MaxSeq + 1, Missing)
    BY MissingIsBelowHighest, CollapseIsRuns
  <1>2. /\ Len(runs) \in Nat /\ DOMAIN runs = 1 .. Len(runs)
        /\ \A i \in 1 .. Len(runs) : runs[i].first \in Nat /\ runs[i].last \in Nat
    BY <1>1, ExtendTyped, LenProperties DEF Runs
  <1>3. ASSUME NEW n \in Missing PROVE n \in Held(runs, Len(runs))
    <2>1. n \in Nat /\ n < MaxSeq + 1
      BY MissingIsBelowHighest, BoundsAssumption DEF Chunks
    <2>2. PICK i \in 1 .. Len(runs) : runs[i].first <= n /\ n <= runs[i].last
      BY <1>1, <2>1 DEF AreRunsBelow
    <2>3. n \in runs[i].first .. runs[i].last
      BY <1>2, <2>1, <2>2
    <2>4. QED
      BY <2>3 DEF Held
  <1>4. ASSUME NEW n \in Held(runs, Len(runs)) PROVE n \in Missing
    BY <1>1 DEF Held, AreRunsBelow
  <1>5. QED
    BY <1>1, <1>2, <1>3, <1>4

(* The ledger is well typed (ChunkLedger's fields). *)
THEOREM LedgerIsTyped == Spec => []TypeOK
  <1>1. Inv => TypeOK
    <2> SUFFICES ASSUME Inv PROVE TypeOK
      OBVIOUS
    <2>1. gaps \in Seq([first : Chunks, last : Chunks])
      <3>1. CASE closed
        <4>1. /\ Len(gaps) \in Nat /\ gaps \in Runs
              /\ AreRunsBelow(gaps, MaxSeq + 1, Missing)
              /\ \A i \in 1 .. Len(gaps) : gaps[i].first \in Nat /\ gaps[i].last \in Nat
          BY <3>1, GapsAreRuns DEF Inv, GapsAreCollapsed
        <4>2. ASSUME NEW i \in 1 .. Len(gaps) PROVE gaps[i] \in [first : Chunks, last : Chunks]
          <5>1. gaps[i] \in [first : Nat, last : Nat]
            BY <4>1, ElementOfSeq DEF Runs
          <5>2. gaps[i].first \in Missing /\ gaps[i].last \in Missing
            BY <4>1 DEF AreRunsBelow
          <5>3. gaps[i].first \in Chunks /\ gaps[i].last \in Chunks
            BY <5>2, MissingIsBelowHighest DEF Inv
          <5>4. QED
            BY <5>1, <5>3
        <4>3. gaps \in [1 .. Len(gaps) -> [first : Nat, last : Nat]]
          BY <4>1, LenProperties DEF Runs
        <4>4. gaps \in [1 .. Len(gaps) -> [first : Chunks, last : Chunks]]
          BY <4>2, <4>3
        <4>5. QED
          BY <4>1, <4>4, SeqDef
      <3>2. CASE ~closed
        BY <3>2, EmptySeq DEF Inv, GapsAreCollapsed
      <3>3. QED
        BY <3>1, <3>2
    <2>2. highest \in Chunks \cup {-1}
      BY DEF Inv, LedgerInv, LedgerTypes
    <2>3. QED
      BY <2>1, <2>2 DEF Inv, LedgerInv, LedgerTypes, TypeOK
  <1>2. QED
    BY AlwaysInv, <1>1, PTL

(* The highest number is the greatest accepted: what the loss ratio is     *)
(* measured against does not depend on the order of arrival (_accept).     *)
THEOREM GreatestIsTracked == Spec => []HighestIsGreatest
  <1>1. Inv => HighestIsGreatest
    BY DEF Inv, LedgerInv
  <1>2. QED
    BY AlwaysInv, <1>1, PTL

(* Chunks that came early are accepted, so nothing is left to drain        *)
(* (offer, _drain_ahead).                                                  *)
THEOREM EarlyChunksAreAccepted == Spec => []AheadIsAccepted
  <1>1. Inv => AheadIsAccepted
    BY DEF Inv, LedgerInv
  <1>2. QED
    BY AlwaysInv, <1>1, PTL

(* The gaps a close confirms are the maximal runs of the numbers missing   *)
(* below the highest, in order and apart, and their lengths add up to the  *)
(* missing chunks (finalize, _collapse, missing_count).                    *)
THEOREM GapsAreExact == Spec => []GapsAreMaximalRuns
  <1>1. Inv => GapsAreMaximalRuns
    <2> SUFFICES ASSUME Inv, closed PROVE GapsAreMaximalRuns
      BY DEF GapsAreMaximalRuns
    <2>1. /\ gaps \in Runs /\ Len(gaps) \in Nat /\ DOMAIN gaps = 1 .. Len(gaps)
          /\ \A i \in 1 .. Len(gaps) : gaps[i].first \in Nat /\ gaps[i].last \in Nat
          /\ AreRunsBelow(gaps, MaxSeq + 1, Missing)
          /\ Held(gaps, Len(gaps)) = Missing
      BY GapsAreRuns DEF Inv, GapsAreCollapsed
    <2>2. UNION {gaps[i].first .. gaps[i].last : i \in DOMAIN gaps} = Missing
      BY <2>1 DEF Held
    <2>3. ASSUME NEW i \in DOMAIN gaps
          PROVE  /\ gaps[i].first <= gaps[i].last
                 /\ gaps[i].first = 0 \/ gaps[i].first - 1 \in accepted
                 /\ gaps[i].last + 1 \in accepted
      <3>1. /\ i \in 1 .. Len(gaps) /\ gaps[i].first <= gaps[i].last
            /\ gaps[i].first .. gaps[i].last \subseteq Missing
            /\ gaps[i].first - 1 \notin Missing
            /\ gaps[i].last + 1 \in Missing => gaps[i].last + 1 = MaxSeq + 1
        BY <2>1 DEF AreRunsBelow
      <3>2. gaps[i].first \in Nat /\ gaps[i].last \in Nat
        BY <2>1, <3>1
      <3>3. gaps[i].last \in Missing /\ gaps[i].first \in Missing
        BY <3>1, <3>2
      <3>4. gaps[i].last + 1 \notin Missing
        BY <3>1, MissingIsBelowHighest, BoundsAssumption DEF Inv, Chunks
      <3>5. highest \in Nat /\ gaps[i].last + 1 <= highest /\ gaps[i].first <= highest
        BY <3>2, <3>3, MissingIsBelowHighest DEF Inv
      <3>6. gaps[i].last + 1 \in accepted
        BY <3>2, <3>4, <3>5, MissingIsBelowHighest DEF Inv
      <3>7. gaps[i].first # 0 => gaps[i].first - 1 \in accepted
        <4>1. gaps[i].first # 0 => /\ gaps[i].first - 1 \in Int /\ 0 <= gaps[i].first - 1
                                   /\ gaps[i].first - 1 <= highest
          BY <3>2, <3>5
        <4>2. QED
          BY <3>1, <4>1, MissingIsBelowHighest DEF Inv
      <3>8. QED
        BY <3>1, <3>6, <3>7
    <2>4. \A i, j \in DOMAIN gaps : i < j => gaps[i].last < gaps[j].first
      BY <2>1 DEF AreRunsBelow
    <2>5. MissingCount = Cardinality(Missing)
      <3>1. \A i \in 1 .. Len(gaps) : gaps[i].first <= gaps[i].last
        BY <2>1 DEF AreRunsBelow
      <3>2. QED
        BY <2>1, <2>4, <3>1, RunsAreCounted
    <2>6. QED
      BY <2>2, <2>3, <2>4, <2>5 DEF GapsAreMaximalRuns
  <1>2. QED
    BY AlwaysInv, <1>1, PTL

-----------------------------------------------------------------------------
(* The ledger implements the abstract account of arrivals, whatever the    *)
(* order: no redelivery is taken for new and no chunk for a redelivery,    *)
(* and the close confirms lost exactly the numbers below the greatest      *)
(* arrival that never came (offer, finalize).                              *)
THEOREM LedgerImplementsArrival == Spec => ImplementsArrival
  <1>1. Init => Arrival!Init
    <2> SUFFICES ASSUME Init PROVE Arrival!Init
      OBVIOUS
    <2>1. DOMAIN gaps = {}
      BY DEF Init
    <2>2. UNION {gaps[i].first .. gaps[i].last : i \in DOMAIN gaps} = {}
      BY <2>1
    <2>3. QED
      BY <2>2 DEF Init, Arrival!Init
  <1>2. Inv /\ [Next]_vars => [Arrival!Next]_(Arrival!vars)
    <2> SUFFICES ASSUME Inv, [Next]_vars PROVE [Arrival!Next]_(Arrival!vars)
      OBVIOUS
    <2>1. ASSUME NEW n \in Chunks, Offer(n)
          PROVE  Arrival!Arrive(n) \/ Arrival!Redeliver(n)
      <3>1. ~closed /\ closed' = closed /\ gaps' = gaps
        BY <2>1 DEF Offer
      <3>2. CASE OfferDuplicate(n)
        <4>1. Arrival!Redeliver(n)
          BY <3>1, <3>2 DEF OfferDuplicate, Arrival!Redeliver
        <4>2. QED
          BY <4>1
      <3>3. CASE OfferExpected(n) \/ OfferAhead(n) \/ OfferLate(n)
        <4>1. /\ n \notin accepted
              /\ accepted' = accepted \cup {n}
              /\ duplicates' = duplicates
              /\ verdict' \in {"accepted", "gap_detected", "out_of_order"}
          BY <3>3 DEF OfferExpected, OfferAhead, OfferLate, Accept
        <4>2. Arrival!Arrive(n)
          BY <3>1, <4>1 DEF Arrival!Arrive
        <4>3. QED
          BY <4>2
      <3>4. QED
        BY <2>1, <3>2, <3>3 DEF Offer
    <2>2. CASE Finalize
      <3>1. /\ ~closed /\ closed' = TRUE /\ gaps' = Collapse(Missing)
            /\ UNCHANGED <<highest, seenAhead, accepted, duplicates, verdict>>
        BY <2>2 DEF Finalize
      <3>2. Missing' = Missing
        BY <3>1 DEF Missing
      <3>3. PICK runs : runs = Collapse(Missing)
        OBVIOUS
      <3>4. (UNION {gaps[i].first .. gaps[i].last : i \in DOMAIN gaps})' = Missing
        <4>1. DOMAIN runs = 1 .. Len(runs) /\ Held(runs, Len(runs)) = Missing
          BY <3>3, GapsAreRuns DEF Inv
        <4>2. gaps' = runs
          BY <3>1, <3>3
        <4>3. QED
          BY <4>1, <4>2 DEF Held
      <3>5. Missing = {n \in Chunks \ accepted : \E later \in accepted : n < later}
        BY BoundsAssumption
           DEF Inv, LedgerInv, LedgerTypes, HighestIsGreatest, Missing, Chunks
      <3>6. Arrival!Close
        BY <3>1, <3>4, <3>5 DEF Arrival!Close
      <3>7. QED
        BY <3>6 DEF Arrival!Next
    <2>3. CASE UNCHANGED vars
      BY <2>3 DEF vars, Arrival!vars
    <2>4. QED
      BY <2>1, <2>2, <2>3 DEF Next, Arrival!Next
  <1>3. QED
    BY AlwaysInv, <1>1, <1>2, PTL DEF Spec, ImplementsArrival, Arrival!Spec

=============================================================================

-------------------------- MODULE AnnotationMeasures --------------------------
(***************************************************************************)
(* Whether two annotators found the same events, and how far they agree    *)
(* on those they both found: the matching (agreement/matching.py) and the  *)
(* coefficients over it (agreement/measures.py).                           *)
(*                                                                         *)
(* Scores are exact here: an intersection over union is a multiple of      *)
(* 1/Scale, and a coefficient is a fraction <<numerator, denominator>>.    *)
(***************************************************************************)
EXTENDS AnnotationFiles

CONSTANTS
    Horizon,        \* bound: no edge lies beyond
    Scale,          \* what a score of 1 counts
    IouThreshold,   \* least score of a pair, in 1/Scale
    Tolerance       \* greatest midpoint distance of a pair

ASSUME ExactScores ==
    /\ Scale \in Nat
    /\ \A n \in 1 .. Horizon : Scale % n = 0
    /\ \A m \in RawMarks : m.start <= Horizon /\ m.end <= Horizon

\* Marks of one class over one span would be ordered as the file lists them.
ASSUME DistinctMarks ==
    \A m, n \in RawMarks :
        m.class = n.class /\ m.start = n.start /\ m.end = n.end => m = n

-----------------------------------------------------------------------------
(* Matching: agreement/matching.py *)

\* _ordered
Earlier(m, n) ==
    \/ InTime(m, n)
    \/ m.start = n.start /\ m.end = n.end /\ Rank(m.class) < Rank(n.class)

Ordered(marks) == Sorted(marks, Earlier)

Score(m, n) == (Scale * Intersection(m, n)) \div Union(m, n)

Distance(a, b) == IF a > b THEN a - b ELSE b - a

Admits(criterion, m, n) ==
    IF criterion = "iou"
    THEN Score(m, n) >= IouThreshold
    ELSE Distance(m.start + m.end, n.start + n.end) <= 2 * Tolerance

\* The admissible pairs of positions, with their scores.
Weights(left, right, criterion) ==
    LET pairs == {p \in (DOMAIN left) \X (DOMAIN right) : Admits(criterion, left[p[1]], right[p[2]])}
    IN  [p \in pairs |-> Score(left[p[1]], right[p[2]])]

\* The cells of the table, and the neighbours a cell is computed from.
Cells(n, m) == (0 .. n) \X (0 .. m)

Above(p)    == <<p[1] - 1, p[2]>>
Beside(p)   == <<p[1], p[2] - 1>>
Diagonal(p) == <<p[1] - 1, p[2] - 1>>

\* Variant: a pairing adds to the cell above, so that an event is paired twice.
BestReused(weights, n, m) ==
    LET best[p \in Cells(n, m)] ==
            IF p[1] = 0 \/ p[2] = 0 THEN 0
            ELSE Max({best[Above(p)], best[Beside(p)]}
                     \union {best[Above(p)] + weights[q] : q \in {p} \intersect DOMAIN weights})
    IN  best

\* The table of the dynamic program.
Best(weights, n, m) ==
    LET best[p \in Cells(n, m)] ==
            IF p[1] = 0 \/ p[2] = 0 THEN 0
            ELSE Max({best[Above(p)], best[Beside(p)]}
                     \union {best[Diagonal(p)] + weights[q] : q \in {p} \intersect DOMAIN weights})
    IN  best

\* The walk back from the last cell: a pairing first, then the left, then the right.
Traceback(weights, best, n, m) ==
    LET paired(p) == p \in DOMAIN weights /\ best[p] = best[Diagonal(p)] + weights[p]
        walk[p \in Cells(n, m)] ==
            IF p[1] = 0 \/ p[2] = 0 THEN <<>>
            ELSE IF paired(p) THEN Append(walk[Diagonal(p)], p)
            ELSE IF best[p] = best[Above(p)] THEN walk[Above(p)]
            ELSE walk[Beside(p)]
    IN  walk[<<n, m>>]

Match(leftMarks, rightMarks, criterion) ==
    LET left    == Ordered(leftMarks)
        right   == Ordered(rightMarks)
        weights == Weights(left, right, criterion)
        best    == Best(weights, Len(left), Len(right))
        places  == Traceback(weights, best, Len(left), Len(right))
        pairs   == [k \in DOMAIN places |-> <<left[places[k][1]], right[places[k][2]]>>]
    IN  [pairs     |-> pairs,
         leftOnly  |-> leftMarks \ {pairs[k][1] : k \in DOMAIN pairs},
         rightOnly |-> rightMarks \ {pairs[k][2] : k \in DOMAIN pairs}]

PositiveSpecificAgreement(matching) ==
    LET matched   == Len(matching.pairs)
        unmatched == Cardinality(matching.leftOnly) + Cardinality(matching.rightOnly)
    IN  IF matched + unmatched = 0 THEN <<1, 1>> ELSE <<2 * matched, 2 * matched + unmatched>>

-----------------------------------------------------------------------------
(* Measures over matched events: agreement/measures.py *)

Undefined == <<>>

\* How often each (left label, right label) occurs.
Confusion(labels) ==
    [p \in ToSet(labels) |-> Cardinality({k \in DOMAIN labels : labels[k] = p})]

CountOf(matrix, Test(_)) == SumFunctionOnSet(matrix, {p \in DOMAIN matrix : Test(p)})

LabelsOf(matrix) == UNION {{p[1], p[2]} : p \in DOMAIN matrix}

Total(matrix) == CountOf(matrix, LAMBDA p : TRUE)

Agreements(matrix) == CountOf(matrix, LAMBDA p : p[1] = p[2])

LeftMarginal(matrix, l) == CountOf(matrix, LAMBDA p : p[1] = l)

RightMarginal(matrix, l) == CountOf(matrix, LAMBDA p : p[2] = l)

ForLabel(matrix, l) ==
    [both      |-> CountOf(matrix, LAMBDA p : p = <<l, l>>),
     leftOnly  |-> CountOf(matrix, LAMBDA p : p[1] = l /\ p[2] # l),
     rightOnly |-> CountOf(matrix, LAMBDA p : p[2] = l /\ p[1] # l)]

SpecificAgreement(row) ==
    LET judgements == 2 * row.both + row.leftOnly + row.rightOnly
    IN  IF judgements = 0 THEN Undefined ELSE <<2 * row.both, judgements>>

\* Variant: chance agreement is taken from one annotator's labels alone.
KappaOneSided(matrix) ==
    LET total    == Total(matrix)
        expected == SumFunction([l \in LabelsOf(matrix) |->
                                    LeftMarginal(matrix, l) * LeftMarginal(matrix, l)])
    IN  IF total < 2 \/ expected = total * total THEN Undefined
        ELSE <<total * Agreements(matrix) - expected, total * total - expected>>

\* (observed - expected) / (1 - expected), times the square of the total
CohensKappa(matrix) ==
    LET total    == Total(matrix)
        expected == SumFunction([l \in LabelsOf(matrix) |->
                                    LeftMarginal(matrix, l) * RightMarginal(matrix, l)])
    IN  IF total < 2 \/ expected = total * total THEN Undefined
        ELSE <<total * Agreements(matrix) - expected, total * total - expected>>

\* Every matched pair is two coincidences, one in each direction.
KrippendorffsAlpha(matrix) ==
    LET judgements  == 2 * Total(matrix)
        marginal(l) == LeftMarginal(matrix, l) + RightMarginal(matrix, l)
        observed    == 2 * CountOf(matrix, LAMBDA p : p[1] # p[2])
        expected    == SumFunction([q \in {q \in LabelsOf(matrix) \X LabelsOf(matrix) : q[1] # q[2]} |->
                                       marginal(q[1]) * marginal(q[2])])
    IN  IF Total(matrix) < 2 \/ expected = 0 THEN Undefined
        ELSE <<expected - (judgements - 1) * observed, expected>>

InOrder(values) == SortSeq(values, <=)

\* Twice the median, so that the midpoint of two observations is exact.
TwiceMedian(values) ==
    LET middle == Len(values) \div 2
    IN  IF values = <<>> THEN Undefined
        ELSE IF Len(values) % 2 = 1 THEN <<2 * InOrder(values)[middle + 1]>>
        ELSE <<InOrder(values)[middle] + InOrder(values)[middle + 1]>>

\* Nearest rank: the rank is the ceiling of the percentage of the sample.
Percentile(values, percentage) ==
    IF values = <<>> THEN Undefined
    ELSE <<InOrder(values)[Max({1, (percentage * Len(values) + 99) \div 100})]>>

=============================================================================

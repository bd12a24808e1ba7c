---------------------------- MODULE Attribution ----------------------------
(***************************************************************************)
(* mathematics/analytics/attribution: how much of the change of a metric   *)
(* between two frames is owed to each of its factors.  A frame is a        *)
(* sequence of rows, each of a segment; its columns are the factors.       *)
(* Contributions are counted in parts of a factorial, and means in         *)
(* sixtieths, so that they are whole numbers.                              *)
(***************************************************************************)
EXTENDS Integers, Sequences, SequencesExt, FiniteSets, FiniteSetsExt, Python

CONSTANTS
  Factor,   \* the columns
  Weight,   \* the one that is the weight; the others are rates
  Segment,
  Cells     \* the rows that a segment may have: functions of the factors

VARIABLES
  baseline, comparison,  \* the frames
  result                 \* the last attribution: how it was made, and what it is

Row == [segment : Segment, cell : Cells]
Frame == {frame \in UNION {[1..n -> Row] : n \in 1 .. Cardinality(Segment)} :
            \A i, j \in DOMAIN frame : frame[i].segment = frame[j].segment => i = j}

AttributionInit == baseline = <<>> /\ comparison = <<>> /\ result = None

Given(frame, other) ==
  /\ baseline = <<>>
  /\ baseline' = frame /\ comparison' = other
  /\ UNCHANGED result

-----------------------------------------------------------------------------
(* The metrics, of a function from factors to columns of cells.            *)
Sixtieths == 60
Product(cells) == FoldFunction(LAMBDA x, y : x * y, 1, cells)
CellsAt(columns, i) == [f \in Factor |-> columns[f][i]]
RowsOf(columns) == DOMAIN columns[Weight]

\* product_metric, of one row
ProductMetric(columns) == Product(CellsAt(columns, 1))
\* reduce_total of the products
WeightedTotal(columns) == MapThenSumSet(LAMBDA i : Product(CellsAt(columns, i)), RowsOf(columns))
WeightedMean(columns) ==
  (Sixtieths * WeightedTotal(columns)) \div MapThenSumSet(LAMBDA i : columns[Weight][i], RowsOf(columns))

Measured(metric, columns) ==
  CASE metric = "product" -> ProductMetric(columns) [] metric = "total" -> WeightedTotal(columns)
    [] metric = "mean" -> WeightedMean(columns)

-----------------------------------------------------------------------------
Factorial[n \in Nat] == IF n = 0 THEN 1 ELSE n * Factorial[n - 1]
N == Cardinality(Factor)

\* The metric with the factors in switched as they came to be.
Switched(metric, from, to, switched) ==
  Measured(metric, [f \in Factor |-> IF f \in switched THEN to[f] ELSE from[f]])

\* Mutant of ShapleyAttribution: all subsets weigh the same.
ShapleyAttributionEven(metric, from, to) ==
  LET values == [switched \in SUBSET Factor |-> Switched(metric, from, to, switched)]
  IN [f \in Factor |-> MapThenSumSet(LAMBDA subset : values[subset \cup {f}] - values[subset],
                                     SUBSET (Factor \ {f})) * (Factorial[N] \div 4)]
\* shapley_attribution, in parts of the factorial of N
ShapleyAttribution(metric, from, to) ==
  LET values == [switched \in SUBSET Factor |-> Switched(metric, from, to, switched)]
      weight(size) == Factorial[size] * Factorial[N - size - 1]
  IN [f \in Factor |->
        MapThenSumSet(LAMBDA subset : weight(Cardinality(subset)) * (values[subset \cup {f}] - values[subset]),
                      SUBSET (Factor \ {f}))]

Total(contributions) == MapThenSumSet(LAMBDA f : contributions[f], DOMAIN contributions)

\* naive_attribution, in the same parts; the interaction is what is left
NaiveAttribution(metric, from, to) ==
  LET before == Switched(metric, from, to, {})
  IN [f \in Factor |-> Factorial[N] * (Switched(metric, from, to, {f}) - before)]
Interaction(metric, from, to) ==
  Factorial[N] * (Switched(metric, from, to, Factor) - Switched(metric, from, to, {}))
    - Total(NaiveAttribution(metric, from, to))

\* from_dict
FromDict(method, metric, from, to) ==
  IF method = "shapley" THEN [contributions |-> ShapleyAttribution(metric, from, to), interaction |-> 0]
  ELSE [contributions |-> NaiveAttribution(metric, from, to), interaction |-> Interaction(metric, from, to)]

-----------------------------------------------------------------------------
Columns(frame) == [f \in Factor |-> [i \in DOMAIN frame |-> frame[i].cell[f]]]
SegmentsOf(frame) == {frame[i].segment : i \in DOMAIN frame}
Index(frame) == [i \in DOMAIN frame |-> frame[i].segment]

\* reindex to the segments of both, filled with 0
Reindexed(frame, segments) ==
  [f \in Factor |-> [k \in DOMAIN segments |->
     IF segments[k] \in SegmentsOf(frame)
     THEN LET i == CHOOSE i \in DOMAIN frame : frame[i].segment = segments[k] IN frame[i].cell[f]
     ELSE 0]]

Record(by, metric, method, backend, answer) ==
  result' = [by |-> by, metric |-> metric, method |-> method, backend |-> backend, answer |-> answer]

\* from_segments: pandas aligns the rows by their segments, polars takes them as they are
FromSegments(metric, method, backend) ==
  LET union == SetToSeq(SegmentsOf(baseline) \cup SegmentsOf(comparison))
      pandas == FromDict(method, metric, Reindexed(baseline, union), Reindexed(comparison, union))
      polars == FromDict(method, metric, Columns(baseline), Columns(comparison))
  IN
  /\ baseline # <<>>
  /\ Record("segments", metric, method, backend,
            IF backend = "pandas" THEN pandas ELSE IF Len(baseline) # Len(comparison) THEN None ELSE polars)
  /\ UNCHANGED <<baseline, comparison>>

\* from_dataframe: a result for each row; pandas wants the same index, polars the same height
FromDataframe(method, backend) ==
  LET row(frame, i) == Columns(<<frame[i]>>)
      rows == [i \in DOMAIN baseline |-> FromDict(method, "product", row(baseline, i), row(comparison, i))]
      fits == IF backend = "pandas" THEN Index(baseline) = Index(comparison) ELSE Len(baseline) = Len(comparison)
  IN
  /\ baseline # <<>>
  /\ Record("rows", "product", method, backend, IF fits THEN rows ELSE None)
  /\ UNCHANGED <<baseline, comparison>>

AttributionNext ==
  \/ \E frame, other \in Frame : Given(frame, other)
  \/ \E method \in {"shapley", "basic"}, backend \in {"pandas", "polars"} :
       \/ \E metric \in {"total", "mean"} : FromSegments(metric, method, backend)
       \/ FromDataframe(method, backend)

-----------------------------------------------------------------------------
\* What factors add as they are switched one after the other, over all the orders.
OverOrders(metric, from, to) ==
  LET orders == {order \in [1..N -> Factor] : \A i, j \in 1..N : order[i] = order[j] => i = j}
      place(order, f) == CHOOSE i \in 1..N : order[i] = f
      first(order, n) == {order[i] : i \in 1..n}
  IN [f \in Factor |->
        MapThenSumSet(LAMBDA order : Switched(metric, from, to, first(order, place(order, f)))
                                       - Switched(metric, from, to, first(order, place(order, f) - 1)), orders)]

Only(frame, segment) == IF segment \in SegmentsOf(frame) THEN Reindexed(frame, <<segment>>)
                        ELSE [f \in Factor |-> <<0>>]

(* Contributions and interaction add up to the change of the metric, of    *)
(* whatever rows there are on either side; and those of Shapley are the    *)
(* average over the orders in which factors can be switched (attribution,  *)
(* shapley_attribution): so that of a weighted total of segments each is   *)
(* the sum of what it is for each segment by itself, also when segments    *)
(* come, go or change places, but with polars, which wants the same places.*)
ContributionsAddUp ==
  result # None /\ result.answer # None /\ result.by = "segments" =>
    LET answer == result.answer
        from == Columns(baseline)
        to == Columns(comparison)
    IN
    /\ Total(answer.contributions) + answer.interaction
         = Factorial[N] * (Measured(result.metric, to) - Measured(result.metric, from))
    /\ result.method = "shapley" /\ result.metric = "total"
         /\ (result.backend = "pandas" \/ Index(baseline) = Index(comparison)) =>
           answer.contributions = [f \in Factor |->
             MapThenSumSet(LAMBDA segment : OverOrders("total", Only(baseline, segment), Only(comparison, segment))[f],
                           Segment)]
=============================================================================

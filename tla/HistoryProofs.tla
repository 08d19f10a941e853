--------------------------- MODULE HistoryProofs ---------------------------
(***************************************************************************)
(* For any events, ranges, widths, page sizes and number of loads: a chart *)
(* shows every event of its range at exactly one point, under the range it *)
(* is of, and agrees with the tiles beside it; no series is longer than    *)
(* its guard allows; and reading page by page misses nothing.              *)
(***************************************************************************)
EXTENDS HistoricalView, Sums, SequenceTheorems, TLAPS

(***************************************************************************)
(* Buckets.                                                                *)
(***************************************************************************)
\* A bucket begins at or before what is in it, and ends behind it.
LEMMA Division ==
  ASSUME NEW t \in Int, NEW w \in Nat \ {0}
  PROVE  /\ t \div w \in Int /\ Bucket(t, w) \in Int
         /\ Bucket(t, w) <= t /\ t < Bucket(t, w) + w
<1>1. t \div w \in Int
  OBVIOUS
<1>2. (t \div w) * w <= t /\ t < (t \div w) * w + w
  OBVIOUS
<1> QED BY <1>1, <1>2 DEF Bucket

\* It begins at a multiple of the width.
LEMMA Aligned ==
  ASSUME NEW t \in Int, NEW w \in Nat \ {0}
  PROVE  Bucket(t, w) % w = 0 /\ Bucket(t, w) \div w = t \div w
<1>1. t \div w \in Int
  OBVIOUS
<1>2. ASSUME NEW k \in Int PROVE (k * w) % w = 0 /\ (k * w) \div w = k
  OBVIOUS
<1> QED BY <1>1, <1>2 DEF Bucket

\* There is one for each time.
LEMMA OneBucket ==
  ASSUME NEW s \in Int, NEW t \in Int, NEW w \in Nat \ {0},
         Bucket(s, w) <= t, t < Bucket(s, w) + w
  PROVE  Bucket(t, w) = Bucket(s, w)
<1>1. s \div w \in Int
  OBVIOUS
<1>2. ASSUME NEW k \in Int, k * w <= t, t < k * w + w PROVE k = t \div w
  BY <1>2
<1> QED BY <1>1, <1>2 DEF Bucket

\* m widths hold the beginnings of at most m + 1 buckets.
LEMMA FewBuckets ==
  ASSUME NEW from \in Int, NEW to \in Int, NEW t \in Int, NEW w \in Nat \ {0}, NEW m \in Nat,
         from <= t, t < to, to - from <= m * w
  PROVE  t \div w \in (from \div w)..((from \div w) + m)
<1>1. from \div w <= t \div w /\ t \div w <= (from \div w) + m
  OBVIOUS
<1> QED BY <1>1

(***************************************************************************)
(* A series.                                                               *)
(***************************************************************************)
\* Events have times.
LEMMA EventTimes == \A e \in Events : e.occurredAt \in Int
BY EventsAssumption

\* What ChartPartitionsRange says of the chart.
Partition(points, rows, from, to, w) ==
  LET holds(b, e) == b.timestamp <= e.occurredAt /\ e.occurredAt < b.timestamp + w
  IN /\ \A b \in points : /\ b.timestamp % w = 0
                          /\ from - w < b.timestamp /\ b.timestamp < to
                          /\ b.tally = Tally({e \in rows : holds(b, e)})
                          /\ \E e \in rows : holds(b, e)
     /\ \A e \in rows : Cardinality({b \in points : holds(b, e)}) = 1

\* It holds of any answer of the query.
LEMMA SeriesPartitions ==
  ASSUME NEW all \in SUBSET Events, NEW from \in Int, NEW to \in Int, NEW w \in Nat \ {0}
  PROVE  Partition(Series(all, from, to, w), InRange(all, from, to), from, to, w)
<1> DEFINE rows == InRange(all, from, to)
           answered == Series(all, from, to, w)
           point(b) == [timestamp |-> b, tally |-> Tally({e \in rows : Bucket(e.occurredAt, w) = b})]
           holds(b, e) == b.timestamp <= e.occurredAt /\ e.occurredAt < b.timestamp + w
<1>1. answered = {point(b) : b \in {Bucket(e.occurredAt, w) : e \in rows}}
  BY DEF Series
<1>2. \A e \in rows : e.occurredAt \in Int /\ from <= e.occurredAt /\ e.occurredAt < to
  BY EventTimes DEF InRange
<1> HIDE DEF rows, answered
<1>3. ASSUME NEW e \in rows, NEW d \in rows
      PROVE  holds(point(Bucket(d.occurredAt, w)), e) <=> Bucket(e.occurredAt, w) = Bucket(d.occurredAt, w)
  <2>1. e.occurredAt \in Int /\ d.occurredAt \in Int
    BY <1>2
  <2>2. Bucket(e.occurredAt, w) <= e.occurredAt /\ e.occurredAt < Bucket(e.occurredAt, w) + w
    BY <2>1, Division
  <2>3. ASSUME Bucket(d.occurredAt, w) <= e.occurredAt, e.occurredAt < Bucket(d.occurredAt, w) + w
        PROVE  Bucket(e.occurredAt, w) = Bucket(d.occurredAt, w)
    BY <2>1, <2>3, OneBucket
  <2> QED BY <2>2, <2>3
<1>4. ASSUME NEW b \in answered
      PROVE  /\ b.timestamp % w = 0
             /\ from - w < b.timestamp /\ b.timestamp < to
             /\ b.tally = Tally({e \in rows : holds(b, e)})
             /\ \E e \in rows : holds(b, e)
  <2>1. PICK d \in rows : b = point(Bucket(d.occurredAt, w))
    BY <1>1
  <2>2. d.occurredAt \in Int /\ from <= d.occurredAt /\ d.occurredAt < to
    BY <1>2
  <2>3. b.timestamp = Bucket(d.occurredAt, w)
    BY <2>1
  <2>4. b.timestamp % w = 0
    BY <2>2, <2>3, Aligned
  <2>5. from - w < b.timestamp /\ b.timestamp < to
    <3>1. LET k == Bucket(d.occurredAt, w) IN k \in Int /\ k <= d.occurredAt /\ d.occurredAt < k + w
      BY <2>2, Division
    <3> QED BY <2>2, <2>3, <3>1
  <2>6. {e \in rows : holds(b, e)} = {e \in rows : Bucket(e.occurredAt, w) = Bucket(d.occurredAt, w)}
    BY <1>3, <2>1
  <2>7. b.tally = Tally({e \in rows : holds(b, e)})
    BY <2>1, <2>6
  <2>8. holds(b, d)
    BY <1>3, <2>1
  <2> QED BY <2>4, <2>5, <2>7, <2>8
<1>5. ASSUME NEW e \in rows PROVE Cardinality({b \in answered : holds(b, e)}) = 1
  <2> DEFINE own == point(Bucket(e.occurredAt, w))
  <2>1. own \in answered /\ holds(own, e)
    BY <1>1, <1>3
  <2>2. ASSUME NEW b \in answered, holds(b, e) PROVE b = own
    <3>1. PICK d \in rows : b = point(Bucket(d.occurredAt, w))
      BY <1>1
    <3>2. Bucket(e.occurredAt, w) = Bucket(d.occurredAt, w)
      BY <1>3, <2>2, <3>1
    <3> QED BY <3>1, <3>2
  <2>3. {b \in answered : holds(b, e)} = {own}
    BY <2>1, <2>2
  <2> QED BY <2>3, FS_Singleton
<1>6. Partition(answered, rows, from, to, w)
  BY <1>4, <1>5 DEF Partition
<1> QED BY <1>6 DEF rows, answered

\* A range the guard lets pass has at most one point more than the guard counts.
LEMMA SeriesIsShort ==
  ASSUME NEW all \in SUBSET Events, NEW from \in Int, NEW to \in Int, NEW w \in Nat \ {0},
         ~ Refused(from, to, w)
  PROVE  Cardinality(Series(all, from, to, w)) <= MaxBuckets + 1
<1> DEFINE rows == InRange(all, from, to)
           answered == Series(all, from, to, w)
           first == from \div w
           point(b) == [timestamp |-> b, tally |-> Tally({e \in rows : Bucket(e.occurredAt, w) = b})]
           position == [b \in answered |-> b.timestamp \div w]
<1>0. MaxBuckets \in Nat /\ first \in Int /\ to - from <= MaxBuckets * w
  <2>1. MaxBuckets \in Nat
    BY SizesAssumption
  <2>2. first \in Int
    OBVIOUS
  <2>3. to - from <= MaxBuckets * w
    BY <2>1 DEF Refused
  <2> QED BY <2>1, <2>2, <2>3
<1>1. answered = {point(b) : b \in {Bucket(e.occurredAt, w) : e \in rows}}
  BY DEF Series
<1>2. \A e \in rows : e.occurredAt \in Int /\ from <= e.occurredAt /\ e.occurredAt < to
  BY EventTimes DEF InRange
<1> HIDE DEF rows, answered, first
<1>3. ASSUME NEW b \in answered
      PROVE  \E d \in rows : /\ b = point(Bucket(d.occurredAt, w))
                             /\ b.timestamp = (b.timestamp \div w) * w
                             /\ b.timestamp \div w \in first..(first + MaxBuckets)
  <2>1. PICK d \in rows : b = point(Bucket(d.occurredAt, w))
    BY <1>1
  <2>2. b.timestamp = Bucket(d.occurredAt, w)
    BY <2>1
  <2>3. b.timestamp \div w = d.occurredAt \div w
    BY <1>2, <2>2, Aligned
  <2>4. b.timestamp = (b.timestamp \div w) * w
    BY <2>2, <2>3 DEF Bucket
  <2>5. d.occurredAt \div w \in first..(first + MaxBuckets)
    BY <1>0, <1>2, FewBuckets DEF first
  <2> QED BY <2>1, <2>3, <2>4, <2>5
<1>4. position \in Injection(answered, first..(first + MaxBuckets))
  <2>1. position \in [answered -> first..(first + MaxBuckets)]
    BY <1>3
  <2>2. ASSUME NEW a \in answered, NEW b \in answered, position[a] = position[b] PROVE a = b
    <3>1. a.timestamp = b.timestamp
      BY <1>3, <2>2
    <3>2. ASSUME NEW c \in answered PROVE c = point(c.timestamp)
      <4>1. PICK d \in rows : c = point(Bucket(d.occurredAt, w))
        BY <1>3
      <4>2. c.timestamp = Bucket(d.occurredAt, w)
        BY <4>1
      <4> QED BY <4>1, <4>2
    <3> HIDE DEF point
    <3> QED BY <3>1, <3>2
  <2> QED BY <2>1, <2>2 DEF Injection, IsInjective
<1>5. IsFiniteSet(first..(first + MaxBuckets)) /\ Cardinality(first..(first + MaxBuckets)) = MaxBuckets + 1
  BY <1>0, FS_Interval
<1>6. Cardinality(answered) <= MaxBuckets + 1
  <2> HIDE DEF position
  <2> QED BY <1>4, <1>5, FS_Injection
<1> QED BY <1>6 DEF answered

(***************************************************************************)
(* The columns of a tally, as sums over its rows.                          *)
(***************************************************************************)
\* What each row adds to a column.
Revenues == [e \in Events |-> e.amount]
Ones(type) == [e \in Events |-> IF e.type = type THEN 1 ELSE 0]
Column(c) == IF c = "revenue" THEN Revenues
             ELSE IF c = "orders" THEN Ones("order")
             ELSE IF c = "signups" THEN Ones("signup") ELSE Ones("refund")
SumColumns == {"revenue", "orders", "signups", "refunds"}

Users(rows) == {e.userId : e \in rows}

\* A table holds finitely many rows.
LEMMA RowsAreFinite == \A rows \in SUBSET Events : IsFiniteSet(rows)
BY EventsAssumption, FS_Subset

\* So it does users.
LEMMA UsersAreFinite ==
  ASSUME NEW rows \in SUBSET Events
  PROVE  IsFiniteSet(Users(rows)) /\ Cardinality(Users(rows)) \in Nat
<1> DEFINE f == [e \in rows |-> e.userId]
<1>1. f \in Surjection(rows, Users(rows))
  BY DEF Surjection, Users
<1> HIDE DEF f
<1>2. IsFiniteSet(Users(rows))
  BY <1>1, RowsAreFinite, FS_Surjection
<1> QED BY <1>2, FS_CardinalityType

\* Amounts are integers, the other columns count.
LEMMA ColumnTypes ==
  ASSUME NEW c \in SumColumns, NEW e \in Events
  PROVE  Column(c)[e] \in Int /\ (c # "revenue" => Column(c)[e] \in Nat)
BY EventsAssumption DEF Column, SumColumns, Revenues, Ones

\* The sum of the amounts, as the query says it and as the lemmas do.
LEMMA RevenueSum ==
  ASSUME NEW rows \in SUBSET Events
  PROVE  MapThenSumSet(LAMBDA e : e.amount, rows) = SumFunctionOnSet(Revenues, rows)
<1> DEFINE f == Revenues
           loop(g) == g = [s \in SUBSET rows |-> IF s = {} THEN 0
                                                 ELSE Chosen(s).amount + g[s \ {Chosen(s)}]]
<1>1. MapThenSumSet(LAMBDA e : e.amount, rows) = (CHOOSE g : loop(g))[rows]
  BY DEF MapThenSumSet, MapThenFoldSet, Chosen
<1>2. SumFunctionOnSet(f, rows) = (CHOOSE g : Folds(g, f, rows))[rows]
  BY SumIsChosenFold
<1>3. ASSUME NEW g PROVE loop(g) <=> Folds(g, f, rows)
  <2>1. ASSUME NEW s \in SUBSET rows, s # {} PROVE f[Chosen(s)] = Chosen(s).amount
    BY <2>1, ChosenIn DEF Revenues
  <2> HIDE DEF f
  <2> QED BY <2>1 DEF Folds
<1>4. (CHOOSE g : loop(g)) = (CHOOSE g : Folds(g, f, rows))
  <2> HIDE DEF loop, f
  <2> QED BY <1>3
<1> QED BY <1>1, <1>2, <1>4

\* The columns of a tally are such sums; the users are counted once.
LEMMA TallyFields ==
  ASSUME NEW rows \in SUBSET Events
  PROVE  /\ \A c \in SumColumns : Tally(rows)[c] = SumFunctionOnSet(Column(c), rows)
         /\ Tally(rows).users = Cardinality(Users(rows))
         /\ Tally(rows).orders = Cardinality({e \in rows : e.type = "order"})
<1> DEFINE of(type) == {e \in rows : e.type = type}
<1>1. IsFiniteSet(rows)
  BY RowsAreFinite
<1>2. ASSUME NEW type PROVE SumFunctionOnSet(Ones(type), rows) = Cardinality(of(type))
  <2>1. of(type) \subseteq rows /\ \A e \in rows : Ones(type)[e] = IF e \in of(type) THEN 1 ELSE 0
    BY DEF Ones
  <2> HIDE DEF of
  <2> QED BY <1>1, <2>1, CountIsSum
<1>3. Tally(rows) = [revenue |-> MapThenSumSet(LAMBDA e : e.amount, rows), orders |-> Cardinality(of("order")),
                     signups |-> Cardinality(of("signup")), refunds |-> Cardinality(of("refund")),
                     users |-> Cardinality(Users(rows))]
  BY DEF Tally, Users
<1>4. /\ Tally(rows).revenue = MapThenSumSet(LAMBDA e : e.amount, rows)
      /\ Tally(rows).orders = Cardinality(of("order")) /\ Tally(rows).signups = Cardinality(of("signup"))
      /\ Tally(rows).refunds = Cardinality(of("refund")) /\ Tally(rows).users = Cardinality(Users(rows))
  <2> HIDE DEF of
  <2> QED BY <1>3
<1>5. ASSUME NEW c \in SumColumns PROVE Tally(rows)[c] = SumFunctionOnSet(Column(c), rows)
  <2> HIDE DEF of
  <2>1. CASE c = "revenue"
    BY <1>4, <2>1, RevenueSum DEF Column
  <2>2. CASE c = "orders"
    BY <1>2, <1>4, <2>2 DEF Column
  <2>3. CASE c = "signups"
    BY <1>2, <1>4, <2>3 DEF Column
  <2>4. CASE c = "refunds"
    BY <1>2, <1>4, <2>4 DEF Column
  <2> QED BY <2>1, <2>2, <2>3, <2>4 DEF SumColumns
<1> QED BY <1>4, <1>5

\* Amounts add up to an integer.
LEMMA AmountsAddUp ==
  ASSUME NEW rows \in SUBSET Events
  PROVE  MapThenSumSet(LAMBDA e : e.amount, rows) \in Int
<1>1. \A e \in rows : Revenues[e] \in Int
  BY EventsAssumption DEF Revenues
<1> QED BY <1>1, RevenueSum, RowsAreFinite, SumType

\* A tally is a record of numbers.
LEMMA TallyType ==
  ASSUME NEW rows \in SUBSET Events
  PROVE  Tally(rows) \in Tallies
<1>1. ASSUME NEW type PROVE Cardinality({e \in rows : e.type = type}) \in Nat
  BY RowsAreFinite, FS_CardinalityType
<1>2. MapThenSumSet(LAMBDA e : e.amount, rows) \in Int
  BY AmountsAddUp
<1>3. Cardinality({e.userId : e \in rows}) \in Nat
  BY UsersAreFinite DEF Users
<1> QED BY <1>1, <1>2, <1>3 DEF Tally, Tallies

\* A summary is a record of numbers too, without a first and a last event when none is
\* in the range.
LEMMA SummaryType ==
  ASSUME NEW all \in SUBSET Events, NEW from, NEW to
  PROVE  Summary(all, from, to) \in Tiles
<1> DEFINE rows == {e \in all : from <= e.occurredAt /\ e.occurredAt < to}
           orders == {e \in rows : e.type = "order"}
           times == {e.occurredAt : e \in rows}
           time == [e \in rows |-> e.occurredAt]
<1>1. rows \in SUBSET Events /\ orders \in SUBSET Events
  OBVIOUS
<1>2. IsFiniteSet(times)
  <2>1. time \in Surjection(rows, times)
    BY DEF Surjection
  <2> HIDE DEF time, times, rows
  <2> QED BY <1>1, <2>1, RowsAreFinite, FS_Surjection
<1>3. times \subseteq Int /\ (rows # {} => times # {})
  BY <1>1, EventTimes
<1>4. Summary(all, from, to) =
        [tally   |-> Tally(rows),
         average |-> <<MapThenSumSet(LAMBDA e : e.amount, orders), Cardinality(orders)>>,
         first   |-> IF rows = {} THEN None ELSE Min(times),
         last    |-> IF rows = {} THEN None ELSE Max(times)]
  BY DEF Summary, Totals, InRange
<1> HIDE DEF rows, orders, times
<1>5. Tally(rows) \in Tallies
  BY <1>1, TallyType
<1>6. MapThenSumSet(LAMBDA e : e.amount, orders) \in Int
  BY <1>1, AmountsAddUp
<1>7. Cardinality(orders) \in Nat
  BY <1>1, RowsAreFinite, FS_CardinalityType
<1>8. rows # {} => Min(times) \in Int /\ Max(times) \in Int
  BY <1>2, <1>3, Least, Greatest
<1> QED BY <1>4, <1>5, <1>6, <1>7, <1>8 DEF Tiles

(***************************************************************************)
(* A series and a summary of the same rows.                                *)
(***************************************************************************)
\* The point of each row.
PointOf(e, rows, w) ==
  [timestamp |-> Bucket(e.occurredAt, w),
   tally |-> Tally({d \in rows : Bucket(d.occurredAt, w) = Bucket(e.occurredAt, w)})]

\* Two rows are at the same point when they are in the same bucket.
LEMMA SamePoint ==
  ASSUME NEW rows, NEW w, NEW d, NEW e
  PROVE  PointOf(d, rows, w) = PointOf(e, rows, w) <=> Bucket(d.occurredAt, w) = Bucket(e.occurredAt, w)
BY DEF PointOf

\* What a range selects are rows.
LEMMA RowsInRange ==
  ASSUME NEW all \in SUBSET Events, NEW from, NEW to
  PROVE  InRange(all, from, to) \in SUBSET Events /\ IsFiniteSet(InRange(all, from, to))
<1>1. InRange(all, from, to) \in SUBSET Events
  BY DEF InRange
<1> QED BY <1>1, RowsAreFinite

\* A series is a finite set of points, those of its rows.
LEMMA SeriesPoints ==
  ASSUME NEW all \in SUBSET Events, NEW from, NEW to, NEW w \in Nat \ {0}
  PROVE  /\ Series(all, from, to, w) = {PointOf(e, InRange(all, from, to), w) : e \in InRange(all, from, to)}
         /\ IsFiniteSet(Series(all, from, to, w))
         /\ Series(all, from, to, w) \in SUBSET Points
<1> DEFINE rows == InRange(all, from, to)
           points == Series(all, from, to, w)
           f == [e \in rows |-> PointOf(e, rows, w)]
<1>1. rows \in SUBSET Events /\ IsFiniteSet(rows)
  BY RowsInRange
<1>2. points = {PointOf(e, rows, w) : e \in rows}
  BY DEF Series, PointOf
<1> HIDE DEF rows, points
<1>3. IsFiniteSet(points)
  <2>1. f \in Surjection(rows, points)
    BY <1>2 DEF Surjection
  <2> HIDE DEF f
  <2> QED BY <1>1, <2>1, FS_Surjection
<1>4. ASSUME NEW e \in rows PROVE PointOf(e, rows, w) \in Points
  <2>1. Bucket(e.occurredAt, w) \in Int
    BY <1>1, EventTimes, Division
  <2> DEFINE block == {d \in rows : Bucket(d.occurredAt, w) = Bucket(e.occurredAt, w)}
  <2>2. block \in SUBSET Events
    BY <1>1
  <2> HIDE DEF block
  <2>3. Tally(block) \in Tallies
    BY <2>2, TallyType
  <2> QED BY <2>1, <2>3 DEF PointOf, Points, block
<1>5. points \in SUBSET Points
  BY <1>2, <1>4
<1> QED BY <1>2, <1>3, <1>5 DEF rows, points

\* The sum of a column over the points of a chart, as the property says it.
Total(points, c) == MapThenSumSet(LAMBDA b : b.tally[c], points)

\* It is a sum over the set of points.
LEMMA ColumnSum ==
  ASSUME NEW points, NEW c
  PROVE  Total(points, c) = SumFunctionOnSet([b \in points |-> b.tally[c]], points)
<1> DEFINE f == [b \in points |-> b.tally[c]]
           loop(g) == g = [s \in SUBSET points |-> IF s = {} THEN 0
                                                   ELSE Chosen(s).tally[c] + g[s \ {Chosen(s)}]]
<1>1. Total(points, c) = (CHOOSE g : loop(g))[points]
  BY DEF Total, MapThenSumSet, MapThenFoldSet, Chosen
<1>2. SumFunctionOnSet(f, points) = (CHOOSE g : Folds(g, f, points))[points]
  BY SumIsChosenFold
<1>3. ASSUME NEW g PROVE loop(g) <=> Folds(g, f, points)
  <2>1. ASSUME NEW s \in SUBSET points, s # {} PROVE f[Chosen(s)] = Chosen(s).tally[c]
    BY <2>1, ChosenIn
  <2> HIDE DEF f
  <2> QED BY <2>1 DEF Folds
<1>4. (CHOOSE g : loop(g)) = (CHOOSE g : Folds(g, f, points))
  <2> HIDE DEF loop, f
  <2> QED BY <1>3
<1> QED BY <1>1, <1>2, <1>4

\* The points of a chart add up to the tally of all its rows, in every column but the
\* users; these are counted once per point, and in all no less than once.
LEMMA SeriesAddsUp ==
  ASSUME NEW all \in SUBSET Events, NEW from \in Int, NEW to \in Int, NEW w \in Nat \ {0}
  PROVE  LET tally == Tally(InRange(all, from, to))
             points == Series(all, from, to, w)
         IN /\ \A c \in SumColumns : Total(points, c) = tally[c]
            /\ tally.users <= Total(points, "users")
            /\ \A b \in points : b.tally.users <= tally.users
<1> DEFINE rows == InRange(all, from, to)
           points == Series(all, from, to, w)
           total(c) == Total(points, c)
           block == [e \in rows |-> PointOf(e, rows, w)]
           of(b) == {e \in rows : block[e] = b}
<1>1. /\ rows \in SUBSET Events /\ IsFiniteSet(rows) /\ IsFiniteSet(points)
      /\ points = {PointOf(e, rows, w) : e \in rows}
      /\ \A e \in rows, d \in rows : PointOf(d, rows, w) = PointOf(e, rows, w)
                                       <=> Bucket(d.occurredAt, w) = Bucket(e.occurredAt, w)
  <2>1. rows \in SUBSET Events /\ IsFiniteSet(rows)
    BY RowsInRange
  <2>2. IsFiniteSet(points) /\ points = {PointOf(e, rows, w) : e \in rows}
    BY SeriesPoints
  <2> QED BY <2>1, <2>2, SamePoint
<1> HIDE DEF rows, points
<1>2. block \in [rows -> points]
  BY <1>1
<1>3. ASSUME NEW b \in points PROVE b.tally = Tally(of(b)) /\ of(b) \in SUBSET Events
  <2>1. PICK e \in rows : b = PointOf(e, rows, w)
    BY <1>1
  <2>2. of(b) = {d \in rows : Bucket(d.occurredAt, w) = Bucket(e.occurredAt, w)}
    BY <1>1, <2>1
  <2>3. b.tally = Tally({d \in rows : Bucket(d.occurredAt, w) = Bucket(e.occurredAt, w)})
    BY <2>1 DEF PointOf
  <2> HIDE DEF of
  <2> QED BY <1>1, <2>2, <2>3 DEF of
<1> HIDE DEF block
<1>4. ASSUME NEW c \in SumColumns PROVE total(c) = Tally(rows)[c]
  <2> DEFINE f == Column(c)
             h == [b \in points |-> b.tally[c]]
  <2>1. \A e \in rows : f[e] \in Int
    BY <1>1, ColumnTypes
  <2> DEFINE parts == [b \in points |-> of(b)]
  <2>2. \A b \in points : /\ parts[b] \subseteq rows /\ \A e \in rows : e \in parts[b] <=> block[e] = b
                          /\ h[b] = SumFunctionOnSet(f, parts[b])
    BY <1>3, TallyFields
  <2>3. total(c) = SumFunctionOnSet(h, points)
    BY ColumnSum
  <2>4. Tally(rows)[c] = SumFunctionOnSet(f, rows)
    BY <1>1, TallyFields
  <2> HIDE DEF f, h, total, parts
  <2>5. SumFunctionOnSet(h, points) = SumFunctionOnSet(f, rows)
    <3>1. IsFiniteSet(rows) /\ IsFiniteSet(points)
      BY <1>1
    <3> QED BY <1>2, <2>1, <2>2, <3>1, SumOfBlocks
  <2> QED BY <2>3, <2>4, <2>5
<1>5. \A b \in points : b.tally.users <= Tally(rows).users
  <2> TAKE b \in points
  <2>1. b.tally.users = Cardinality(Users(of(b))) /\ Tally(rows).users = Cardinality(Users(rows))
    BY <1>1, <1>3, TallyFields
  <2>2. Users(of(b)) \in SUBSET Users(rows) /\ IsFiniteSet(Users(rows))
    BY <1>1, UsersAreFinite DEF Users
  <2> QED BY <2>1, <2>2, FS_Subset
<1>6. Tally(rows).users <= total("users")
  <2> DEFINE counts == [b \in points |-> b.tally["users"]]
             sets == [b \in points |-> Users(of(b))]
  <2>1. \A b \in points : IsFiniteSet(sets[b]) /\ counts[b] = Cardinality(sets[b])
    BY <1>3, UsersAreFinite, TallyFields
  <2>2. total("users") = SumFunctionOnSet(counts, points)
    BY ColumnSum
  <2>3. Users(rows) = UNION {sets[b] : b \in points}
    <3>1. ASSUME NEW u \in Users(rows) PROVE \E b \in points : u \in sets[b]
      <4>1. PICK e \in rows : u = e.userId
        BY DEF Users
      <4>2. block[e] \in points /\ e \in of(block[e])
        BY <1>2
      <4>3. u \in Users(of(block[e]))
        BY <4>1, <4>2 DEF Users
      <4> QED BY <4>2, <4>3
    <3>2. ASSUME NEW b \in points PROVE sets[b] \subseteq Users(rows)
      BY DEF Users
    <3> HIDE DEF sets
    <3> QED BY <3>1, <3>2
  <2> HIDE DEF sets, counts, total
  <2>4. Cardinality(UNION {sets[b] : b \in points}) <= SumFunctionOnSet(counts, points)
    BY <1>1, <2>1, CountOfUnion
  <2>5. Tally(rows).users = Cardinality(Users(rows))
    BY <1>1, TallyFields
  <2> QED BY <2>2, <2>3, <2>4, <2>5
<1> QED BY <1>4, <1>5, <1>6 DEF rows, points

\* The chart begins at the bucket of its first row and ends at that of its last.
LEMMA SeriesEnds ==
  ASSUME NEW all \in SUBSET Events, NEW from \in Int, NEW to \in Int, NEW w \in Nat \ {0}
  PROVE  LET rows == InRange(all, from, to)
             points == {b.timestamp : b \in Series(all, from, to, w)}
             times == {e.occurredAt : e \in rows}
         IN /\ points = {} <=> rows = {}
            /\ rows # {} => /\ Min(points) = Bucket(Min(times), w)
                            /\ Max(points) = Bucket(Max(times), w)
<1> DEFINE rows == InRange(all, from, to)
           points == {b.timestamp : b \in Series(all, from, to, w)}
           times == {e.occurredAt : e \in rows}
           start == [t \in times |-> Bucket(t, w)]
           time == [e \in rows |-> e.occurredAt]
<1>1. /\ rows \in SUBSET Events /\ IsFiniteSet(rows)
      /\ Series(all, from, to, w) = {PointOf(e, rows, w) : e \in rows}
  <2>1. rows \in SUBSET Events /\ IsFiniteSet(rows)
    BY RowsInRange
  <2>2. Series(all, from, to, w) = {PointOf(e, rows, w) : e \in rows}
    BY SeriesPoints
  <2> QED BY <2>1, <2>2
<1> HIDE DEF rows
<1>2. points = {Bucket(t, w) : t \in times}
  <2>1. points = {PointOf(e, rows, w).timestamp : e \in rows}
    BY <1>1
  <2>2. \A e \in rows : PointOf(e, rows, w).timestamp = Bucket(e.occurredAt, w)
    BY DEF PointOf
  <2> HIDE DEF points
  <2> QED BY <2>1, <2>2
<1>3. times \subseteq Int /\ IsFiniteSet(times) /\ (times = {} <=> rows = {})
  <2>1. time \in Surjection(rows, times)
    BY DEF Surjection
  <2>2. times \subseteq Int
    BY <1>1, EventTimes
  <2>3. times = {} <=> rows = {}
    OBVIOUS
  <2> HIDE DEF times, time
  <2> QED BY <1>1, <2>1, <2>2, <2>3, FS_Surjection
<1> HIDE DEF points, times
<1>4. points \subseteq Int /\ IsFiniteSet(points)
  <2>1. points \subseteq Int
    BY <1>2, <1>3, Division
  <2>2. start \in Surjection(times, points)
    BY <1>2 DEF Surjection
  <2> HIDE DEF start
  <2> QED BY <1>3, <2>1, <2>2, FS_Surjection
<1>5. points = {} <=> rows = {}
  BY <1>2, <1>3
<1>6. ASSUME NEW s \in times, NEW t \in times, s <= t PROVE Bucket(s, w) <= Bucket(t, w)
  <2>1. s \in Int /\ t \in Int /\ s \div w \in Int /\ t \div w \in Int
    BY <1>3, Division
  <2>2. s \div w <= t \div w
    BY <1>6, <2>1
  <2>3. ASSUME NEW a \in Int, NEW b \in Int, a <= b PROVE a * w <= b * w
    BY <2>3
  <2> QED BY <2>1, <2>2, <2>3 DEF Bucket
<1>7. ASSUME rows # {} PROVE Min(points) = Bucket(Min(times), w) /\ Max(points) = Bucket(Max(times), w)
  <2>1. /\ Min(times) \in times /\ \A t \in times : Min(times) <= t
        /\ Max(times) \in times /\ \A t \in times : t <= Max(times)
    BY <1>3, <1>7, Least, Greatest
  <2>2. /\ Min(points) \in points /\ \A p \in points : Min(points) <= p
        /\ Max(points) \in points /\ \A p \in points : p <= Max(points)
    BY <1>4, <1>5, <1>7, Least, Greatest
  <2>3. PICK s \in times, t \in times : Min(points) = Bucket(s, w) /\ Max(points) = Bucket(t, w)
    BY <1>2, <2>2
  <2>4. Bucket(Min(times), w) <= Min(points) /\ Max(points) <= Bucket(Max(times), w)
    BY <1>6, <2>1, <2>3
  <2>5. Bucket(Min(times), w) \in points /\ Bucket(Max(times), w) \in points
    BY <1>2, <2>1
  <2>6. Min(points) <= Bucket(Min(times), w) /\ Bucket(Max(times), w) <= Max(points)
    BY <2>2, <2>5
  <2>7. /\ Min(points) \in Int /\ Max(points) \in Int
        /\ Bucket(Min(times), w) \in Int /\ Bucket(Max(times), w) \in Int
    BY <1>4, <2>2, <2>5
  <2> QED BY <2>4, <2>6, <2>7
<1> QED BY <1>5, <1>7 DEF rows, points, times

\* The columns of a summary.
LEMMA SummaryFields ==
  ASSUME NEW all, NEW from, NEW to
  PROVE  LET rows == InRange(all, from, to)
             times == {e.occurredAt : e \in rows}
         IN /\ Summary(all, from, to).tally = Tally(rows)
            /\ Summary(all, from, to).first = IF rows = {} THEN None ELSE Min(times)
            /\ Summary(all, from, to).last = IF rows = {} THEN None ELSE Max(times)
BY DEF Summary, Totals

\* What TilesMatchChart says of a chart and a summary.
Match(points, sum, read, counted, w) ==
  LET starts == {b.timestamp : b \in points} IN
    /\ read = counted =>
         /\ \A c \in SumColumns : Total(points, c) = sum.tally[c]
         /\ sum.tally.users <= Total(points, "users")
         /\ \A b \in points : b.tally.users <= sum.tally.users
         /\ IF starts = {} THEN sum.first = None
            ELSE Min(starts) = Bucket(sum.first, w) /\ Max(starts) = Bucket(sum.last, w)
    /\ read \subseteq counted => Total(points, "orders") <= sum.tally.orders
    /\ counted \subseteq read => sum.tally.orders <= Total(points, "orders")

\* The more rows, the more orders.
LEMMA OrdersGrow ==
  ASSUME NEW rows \in SUBSET Events, NEW fewer \in SUBSET rows, NEW from, NEW to
  PROVE  Tally(InRange(fewer, from, to)).orders <= Tally(InRange(rows, from, to)).orders
<1> DEFINE orders(some) == {e \in InRange(some, from, to) : e.type = "order"}
<1>1. orders(fewer) \in SUBSET orders(rows) /\ InRange(rows, from, to) \in SUBSET Events
      /\ InRange(fewer, from, to) \in SUBSET Events /\ orders(rows) \in SUBSET Events
  BY DEF InRange
<1>2. Tally(InRange(fewer, from, to)).orders = Cardinality(orders(fewer))
  BY <1>1, TallyFields
<1>3. Tally(InRange(rows, from, to)).orders = Cardinality(orders(rows))
  BY <1>1, TallyFields
<1> HIDE DEF orders
<1>4. Cardinality(orders(fewer)) <= Cardinality(orders(rows))
  BY <1>1, RowsAreFinite, FS_Subset
<1> QED BY <1>2, <1>3, <1>4

\* It holds of any two answers for one range.
LEMMA TilesMatch ==
  ASSUME NEW read \in SUBSET Events, NEW counted \in SUBSET Events,
         NEW from \in Int, NEW to \in Int, NEW w \in Nat \ {0}
  PROVE  Match(Series(read, from, to, w), Summary(counted, from, to), read, counted, w)
<1> DEFINE points == Series(read, from, to, w)
           sum == Summary(counted, from, to)
           tally == Tally(InRange(read, from, to))
           starts == {b.timestamp : b \in points}
<1>1. /\ \A c \in SumColumns : Total(points, c) = tally[c]
      /\ tally.users <= Total(points, "users")
      /\ \A b \in points : b.tally.users <= tally.users
  BY SeriesAddsUp
<1>2. sum.tally = Tally(InRange(counted, from, to))
  BY SummaryFields
<1>3. ASSUME read = counted
      PROVE  IF starts = {} THEN sum.first = None
             ELSE Min(starts) = Bucket(sum.first, w) /\ Max(starts) = Bucket(sum.last, w)
  <2> DEFINE rows == InRange(read, from, to)
             times == {e.occurredAt : e \in rows}
  <2>1. /\ starts = {} <=> rows = {}
        /\ rows # {} => Min(starts) = Bucket(Min(times), w) /\ Max(starts) = Bucket(Max(times), w)
    BY SeriesEnds
  <2>2. /\ sum.first = IF rows = {} THEN None ELSE Min(times)
        /\ sum.last = IF rows = {} THEN None ELSE Max(times)
    BY <1>3, SummaryFields
  <2> HIDE DEF rows, times, starts, sum
  <2> QED BY <2>1, <2>2
<1>4. "orders" \in SumColumns
  BY DEF SumColumns
<1>5. read \subseteq counted => tally.orders <= sum.tally.orders
  BY <1>2, OrdersGrow
<1>6. counted \subseteq read => sum.tally.orders <= tally.orders
  BY <1>2, OrdersGrow
<1>7. Total(points, "orders") = tally.orders
  BY <1>1, <1>4
<1>8. read = counted => sum.tally = tally
  BY <1>2
<1> HIDE DEF points, sum, tally
<1> QED BY <1>1, <1>3, <1>5, <1>6, <1>7, <1>8 DEF Match, points, sum

(***************************************************************************)
(* A list, newest first, and its pages.  The place of an event is told by  *)
(* how many are newer.                                                     *)
(***************************************************************************)
NewerThan(rows, e) == {x \in rows : x.occurredAt > e.occurredAt}
Newer(rows, e) == Cardinality(NewerThan(rows, e))
Alone(rows, e) == \A f \in rows : f.occurredAt = e.occurredAt => f = e

\* How many are newer is a number.
LEMMA NewerType ==
  ASSUME NEW rows \in SUBSET Events, NEW e
  PROVE  IsFiniteSet(NewerThan(rows, e)) /\ Newer(rows, e) \in Nat
BY RowsAreFinite, FS_CardinalityType DEF Newer, NewerThan

\* The more rows, the more of them are newer.
LEMMA NewerGrows ==
  ASSUME NEW rows \in SUBSET Events, NEW fewer \in SUBSET rows, NEW e
  PROVE  /\ Newer(fewer, e) <= Newer(rows, e)
         /\ Newer(fewer, e) # Newer(rows, e) => \E x \in rows \ fewer : x.occurredAt > e.occurredAt
<1>1. NewerThan(fewer, e) \in SUBSET NewerThan(rows, e)
  BY DEF NewerThan
<1>2. IsFiniteSet(NewerThan(rows, e))
  BY NewerType
<1>3. Newer(fewer, e) <= Newer(rows, e)
  BY <1>1, <1>2, FS_Subset DEF Newer
<1>4. ASSUME Newer(fewer, e) # Newer(rows, e) PROVE \E x \in rows \ fewer : x.occurredAt > e.occurredAt
  <2>1. NewerThan(fewer, e) # NewerThan(rows, e)
    BY <1>4 DEF Newer
  <2> QED BY <1>1, <2>1 DEF NewerThan
<1> QED BY <1>3, <1>4

\* An older event has more that are newer, itself not among them.
LEMMA OlderHasMore ==
  ASSUME NEW rows \in SUBSET Events, NEW e \in rows, NEW f \in rows, e.occurredAt > f.occurredAt
  PROVE  Newer(rows, e) < Newer(rows, f)
<1>1. \A x \in rows : x.occurredAt \in Int
  BY EventTimes
<1>2. NewerThan(rows, e) \in SUBSET NewerThan(rows, f)
  BY <1>1 DEF NewerThan
<1>3. e \in NewerThan(rows, f) /\ e \notin NewerThan(rows, e)
  BY <1>1 DEF NewerThan
<1>4. IsFiniteSet(NewerThan(rows, f)) /\ Newer(rows, e) \in Nat /\ Newer(rows, f) \in Nat
  BY NewerType
<1>5. Newer(rows, e) <= Newer(rows, f) /\ Newer(rows, e) # Newer(rows, f)
  BY <1>2, <1>3, <1>4, FS_Subset DEF Newer
<1> QED BY <1>4, <1>5

\* Nothing but the event itself has the place of one that is alone with its time.
LEMMA OnePlace ==
  ASSUME NEW rows \in SUBSET Events, NEW e \in rows, Alone(rows, e), NEW f \in rows,
         Newer(rows, e) = Newer(rows, f)
  PROVE  e = f
<1>1. e.occurredAt \in Int /\ f.occurredAt \in Int /\ Newer(rows, e) \in Nat /\ Newer(rows, f) \in Nat
  BY EventTimes, NewerType
<1>2. ~ (e.occurredAt > f.occurredAt) /\ ~ (f.occurredAt > e.occurredAt)
  BY <1>1, OlderHasMore
<1>3. e.occurredAt = f.occurredAt
  BY <1>1, <1>2
<1> QED BY <1>3 DEF Alone

\* An answer of the list holds every row once.
LEMMA ListFields ==
  ASSUME NEW rows \in SUBSET Events, NEW s \in NewestFirst(rows)
  PROVE  /\ s \in Seq(Events) /\ Len(s) = Cardinality(rows) /\ Len(s) \in Nat /\ DOMAIN s = 1..Len(s)
         /\ \A i \in 1..Len(s) : s[i] \in rows
         /\ \A i, j \in 1..Len(s) : i # j => s[i] # s[j]
         /\ \A e \in rows : \E i \in 1..Len(s) : s[i] = e
<1> DEFINE n == Cardinality(rows)
<1>1. IsFiniteSet(rows) /\ n \in Nat
  BY RowsAreFinite, FS_CardinalityType
<1>2. s \in [1..n -> rows] /\ \A i, j \in 1..n : i # j => s[i] # s[j]
  BY DEF NewestFirst, SetToSeqs
<1>3. IsFiniteSet(1..n) /\ Cardinality(1..n) = n
  BY <1>1, FS_Interval
<1>4. s \in Surjection(1..n, rows)
  <2>1. s \in Injection(1..n, rows)
    BY <1>2 DEF Injection, IsInjective
  <2> QED BY <1>1, <1>3, <2>1, FS_Injection
<1> HIDE DEF n
<1>5. s \in Seq(Events) /\ Len(s) = n /\ DOMAIN s = 1..n
  BY <1>1, <1>2
<1>6. \A e \in rows : \E i \in 1..n : s[i] = e
  BY <1>4 DEF Surjection
<1> QED BY <1>1, <1>2, <1>5, <1>6 DEF n

\* It is in order throughout, not only from one row to the next.
LEMMA ListDescends ==
  ASSUME NEW rows \in SUBSET Events, NEW s \in NewestFirst(rows)
  PROVE  \A i, j \in 1..Len(s) : i < j => s[i].occurredAt >= s[j].occurredAt
<1>1. /\ Len(s) \in Nat /\ \A i \in 1..Len(s) : s[i] \in rows
      /\ \A i, j \in 1..Len(s) : i # j => s[i] # s[j]
  BY ListFields
<1>2. \A i \in 1..Len(s) : s[i].occurredAt \in Int
  BY <1>1, EventTimes
<1>3. ASSUME NEW i \in 1..Len(s) - 1 PROVE s[i].occurredAt >= s[i + 1].occurredAt
  BY DEF NewestFirst
<1> DEFINE C == {j \in 1..Len(s) : \E i \in 1..Len(s) : i < j /\ ~ (s[i].occurredAt >= s[j].occurredAt)}
<1>4. C = {}
  <2> SUFFICES ASSUME C # {} PROVE FALSE
    OBVIOUS
  <2>1. C \in SUBSET Nat
    BY <1>1
  <2>2. PICK j \in C : \A m \in C : j <= m
    <3> HIDE DEF C
    <3> QED BY <2>1, LeastNumber
  <2>3. PICK i \in 1..Len(s) : i < j /\ ~ (s[i].occurredAt >= s[j].occurredAt)
    OBVIOUS
  <2>4. j - 1 \in 1..Len(s) - 1 /\ j - 1 \in 1..Len(s) /\ (j - 1) + 1 = j /\ j \in 1..Len(s) /\ j \in Int
    BY <1>1, <2>3
  <2>5. s[j - 1].occurredAt >= s[j].occurredAt
    BY <1>3, <2>4
  <2>6. CASE i = j - 1
    BY <2>3, <2>5, <2>6
  <2>7. CASE i < j - 1
    <3>1. j - 1 \notin C
      <4> HIDE DEF C
      <4>1. ~ (j <= j - 1)
        BY <2>4
      <4> QED BY <2>2, <4>1
    <3>2. s[i].occurredAt >= s[j - 1].occurredAt
      BY <2>4, <2>7, <3>1
    <3>3. s[i].occurredAt \in Int /\ s[j - 1].occurredAt \in Int /\ s[j].occurredAt \in Int
      BY <1>2, <2>4
    <3>4. s[i].occurredAt >= s[j].occurredAt
      BY <2>5, <3>2, <3>3
    <3> QED BY <2>3, <3>4
  <2>8. i < j - 1 \/ i = j - 1
    BY <2>3, <2>4
  <2> QED BY <2>6, <2>7, <2>8
<1> QED BY <1>4

\* The place of a row that is alone with its time is one more than the number of those
\* that are newer.
LEMMA ListPlaces ==
  ASSUME NEW rows \in SUBSET Events, NEW s \in NewestFirst(rows), NEW i \in 1..Len(s),
         Alone(rows, s[i])
  PROVE  Newer(rows, s[i]) = i - 1
<1>1. /\ Len(s) \in Nat /\ \A j \in 1..Len(s) : s[j] \in rows
      /\ \A j, k \in 1..Len(s) : j # k => s[j] # s[k]
      /\ \A e \in rows : \E j \in 1..Len(s) : s[j] = e
  BY ListFields
<1>2. \A j \in 1..Len(s) : s[j].occurredAt \in Int
  BY <1>1, EventTimes
<1>3. \A j \in 1..Len(s) : /\ j < i => s[j].occurredAt > s[i].occurredAt
                           /\ i < j => ~ (s[j].occurredAt > s[i].occurredAt)
  <2> TAKE j \in 1..Len(s)
  <2>1. j # i => s[j].occurredAt # s[i].occurredAt
    BY <1>1 DEF Alone
  <2>2. /\ j < i => s[j].occurredAt >= s[i].occurredAt
        /\ i < j => s[i].occurredAt >= s[j].occurredAt
    BY ListDescends
  <2>3. s[j].occurredAt \in Int /\ s[i].occurredAt \in Int /\ (j < i => j # i) /\ (i < j => j # i)
    BY <1>1, <1>2
  <2> QED BY <2>1, <2>2, <2>3
<1> DEFINE before == NewerThan(rows, s[i])
           f == [j \in 1..i - 1 |-> s[j]]
<1>4. f \in [1..i - 1 -> before]
  <2> SUFFICES ASSUME NEW j \in 1..i - 1 PROVE s[j] \in before
    OBVIOUS
  <2>1. j \in 1..Len(s) /\ j < i
    BY <1>1
  <2> HIDE DEF f, before
  <2>2. s[j] \in rows /\ s[j].occurredAt > s[i].occurredAt
    BY <1>1, <1>3, <2>1
  <2> QED BY <2>2 DEF before, NewerThan
<1>5. \A j, k \in 1..i - 1 : f[j] = f[k] => j = k
  <2>1. \A j \in 1..i - 1 : j \in 1..Len(s)
    BY <1>1
  <2> QED BY <1>1, <2>1
<1>6. \A e \in before : \E j \in 1..i - 1 : f[j] = e
  <2> TAKE e \in before
  <2>1. e \in rows /\ e.occurredAt > s[i].occurredAt
    BY DEF NewerThan
  <2>2. PICK j \in 1..Len(s) : s[j] = e
    BY <1>1, <2>1
  <2>3. ~ (i < j) /\ i # j
    <3>1. i < j => ~ (e.occurredAt > s[i].occurredAt)
      BY <1>3, <2>2
    <3>2. ~ (s[i].occurredAt > s[i].occurredAt)
      BY <1>2
    <3> QED BY <2>1, <2>2, <3>1, <3>2
  <2>4. j \in 1..i - 1
    BY <1>1, <2>3
  <2> QED BY <2>2, <2>4
<1> HIDE DEF f, before
<1>7. f \in Bijection(1..i - 1, before)
  BY <1>4, <1>5, <1>6 DEF Bijection, Injection, IsInjective, Surjection
<1>8. IsFiniteSet(1..i - 1) /\ Cardinality(1..i - 1) = i - 1
  <2>1. 1 \in Int /\ i - 1 \in Int /\ i - 1 >= 0
    BY <1>1
  <2>2. Cardinality(1..i - 1) = IF 1 > i - 1 THEN 0 ELSE (i - 1) - 1 + 1
    BY <2>1, FS_Interval
  <2> QED BY <2>1, <2>2, FS_Interval
<1>9. ExistsBijection(1..i - 1, before)
  BY <1>7 DEF ExistsBijection
<1>10. Cardinality(before) = i - 1
  BY <1>8, <1>9, FS_Bijection
<1> QED BY <1>10 DEF before, Newer

\* The length of a page and its places in the list.
LEMMA PageLength ==
  ASSUME NEW n \in Nat, NEW limit \in Nat \ {0}, NEW offset \in Nat, NEW end \in {offset + limit, n},
         end <= offset + limit, end <= n, NEW m, m = IF offset + 1 <= end THEN end - (offset + 1) + 1 ELSE 0
  PROVE  /\ m \in Nat
         /\ \A k \in 1..m : /\ k \in 1..(end - (offset + 1) + 1)
                            /\ (offset + 1) + k - 1 = offset + k /\ offset + k \in 1..n
         /\ m < limit => n <= offset + m
<1>1. end \in Nat
  OBVIOUS
<1>2. CASE offset + 1 <= end
  <2>1. m = end - offset
    BY <1>1, <1>2
  <2> QED BY <1>1, <1>2, <2>1
<1>3. CASE ~ (offset + 1 <= end)
  <2>1. m = 0 /\ end = n /\ n <= offset
    BY <1>1, <1>3
  <2> QED BY <2>1
<1> QED BY <1>2, <1>3

\* What LIMIT and OFFSET take of the list.
Piece(s, limit, offset) == SubSeq(s, offset + 1, Min({offset + limit, Len(s)}))

\* A page that is not full is the end of it.
LEMMA PageFields ==
  ASSUME NEW rows \in SUBSET Events, NEW s \in NewestFirst(rows), NEW limit \in Nat \ {0}, NEW offset \in Nat,
         NEW page, page = Piece(s, limit, offset)
  PROVE  /\ page \in Seq(Events) /\ Len(page) \in Nat
         /\ \A k \in 1..Len(page) : offset + k \in 1..Len(s) /\ page[k] = s[offset + k]
         /\ Len(page) < limit => Len(s) <= offset + Len(page)
<1>1. s \in Seq(Events) /\ Len(s) \in Nat /\ \A i \in 1..Len(s) : s[i] \in Events
  BY ListFields
<1> DEFINE end == Min({offset + limit, Len(s)})
<1>2. end \in {offset + limit, Len(s)} /\ end <= offset + limit /\ end <= Len(s)
  <2>1. IsFiniteSet({offset + limit, Len(s)})
    <3>1. IsFiniteSet({} \cup {offset + limit})
      BY FS_EmptySet, FS_AddElement
    <3>2. IsFiniteSet(({} \cup {offset + limit}) \cup {Len(s)})
      BY <3>1, FS_AddElement
    <3>3. {offset + limit, Len(s)} = ({} \cup {offset + limit}) \cup {Len(s)}
      OBVIOUS
    <3> QED BY <3>2, <3>3
  <2>2. {offset + limit, Len(s)} \subseteq Int /\ {offset + limit, Len(s)} # {}
    BY <1>1
  <2> QED BY <2>1, <2>2, Least
<1>3. page = SubSeq(s, offset + 1, end)
  BY DEF Piece
<1> HIDE DEF end
<1>4. end \in Nat /\ end \in Int /\ offset + 1 \in Int
  BY <1>1, <1>2
<1>5. \A i \in (offset + 1)..end : i \in 1..Len(s)
  BY <1>1, <1>2, <1>4
<1>6. /\ page \in Seq(Events)
      /\ Len(page) = IF offset + 1 <= end THEN end - (offset + 1) + 1 ELSE 0
      /\ \A k \in 1..(end - (offset + 1) + 1) : page[k] = s[(offset + 1) + k - 1]
  <2>1. \A i \in (offset + 1)..end : s[i] \in Events
    BY <1>1, <1>5
  <2> DEFINE first == offset + 1
  <2>2. first \in Int /\ end \in Int /\ \A i \in first..end : s[i] \in Events
    BY <1>4, <2>1
  <2> HIDE DEF first
  <2>3. /\ SubSeq(s, first, end) \in Seq(Events)
        /\ Len(SubSeq(s, first, end)) = IF first <= end THEN end - first + 1 ELSE 0
        /\ \A i \in 1..end - first + 1 : SubSeq(s, first, end)[i] = s[first + i - 1]
    BY <2>2, SubSeqProperties
  <2> QED BY <1>3, <2>3 DEF first
<1>7. /\ Len(page) \in Nat
      /\ \A k \in 1..Len(page) : /\ k \in 1..(end - (offset + 1) + 1)
                                 /\ (offset + 1) + k - 1 = offset + k /\ offset + k \in 1..Len(s)
      /\ Len(page) < limit => Len(s) <= offset + Len(page)
  <2> DEFINE n == Len(s)
             m == Len(page)
  <2>1. n \in Nat /\ end \in {offset + limit, n} /\ end <= offset + limit /\ end <= n
        /\ m = IF offset + 1 <= end THEN end - (offset + 1) + 1 ELSE 0
    BY <1>1, <1>2, <1>6
  <2> HIDE DEF n, m
  <2>2. /\ m \in Nat
        /\ \A k \in 1..m : /\ k \in 1..(end - (offset + 1) + 1)
                           /\ (offset + 1) + k - 1 = offset + k /\ offset + k \in 1..n
        /\ m < limit => n <= offset + m
    BY <2>1, PageLength
  <2> QED BY <2>2 DEF n, m
<1>8. ASSUME NEW k \in 1..Len(page) PROVE offset + k \in 1..Len(s) /\ page[k] = s[offset + k]
  BY <1>6, <1>7
<1> QED BY <1>6, <1>7, <1>8

(***************************************************************************)
(* Reading page by page, while rows are inserted.                          *)
(***************************************************************************)
\* there are the rows when the first page was asked for, rows those of now, s what was
\* read: an entry that is alone with its time is at its place in the list or was moved
\* behind it since, and such a row that is not read yet was moved, or always was,
\* behind the end of s.
ReadSoFar(there, rows, s) ==
  /\ \A i \in 1..Len(s) : /\ s[i] \in rows
                          /\ Alone(rows, s[i]) => Newer(there, s[i]) <= i - 1 /\ i - 1 <= Newer(rows, s[i])
  /\ \A e \in there : Alone(rows, e) /\ (\A i \in 1..Len(s) : s[i] # e) => Len(s) <= Newer(rows, e)

\* Rows that are inserted only move the others further back.
LEMMA InsertStep ==
  ASSUME NEW more \in SUBSET Events, NEW rows \in SUBSET more, NEW there \in SUBSET rows,
         NEW s \in Seq(Events), ReadSoFar(there, rows, s)
  PROVE  ReadSoFar(there, more, s)
<1>1. \A e : /\ Newer(rows, e) \in Nat /\ Newer(more, e) \in Nat
             /\ Newer(rows, e) <= Newer(more, e)
  BY NewerType, NewerGrows
<1>2. Len(s) \in Nat
  OBVIOUS
<1>0. \A e : Alone(more, e) => Alone(rows, e)
  BY DEF Alone
<1>3. ASSUME NEW i \in 1..Len(s), Alone(more, s[i])
      PROVE  Newer(there, s[i]) <= i - 1 /\ i - 1 <= Newer(more, s[i])
  <2>1. Newer(there, s[i]) <= i - 1 /\ i - 1 <= Newer(rows, s[i])
    BY <1>0, <1>3 DEF ReadSoFar
  <2>2. i - 1 \in Int
    BY <1>2
  <2> QED BY <1>1, <2>1, <2>2
<1>4. ASSUME NEW e \in there, Alone(more, e), \A i \in 1..Len(s) : s[i] # e
      PROVE  Len(s) <= Newer(more, e)
  <2>1. Len(s) <= Newer(rows, e)
    BY <1>0, <1>4 DEF ReadSoFar
  <2> QED BY <1>1, <1>2, <2>1
<1>5. \A i \in 1..Len(s) : s[i] \in more
  BY DEF ReadSoFar
<1> QED BY <1>3, <1>4, <1>5 DEF ReadSoFar

\* A page that begins where s ends is read; after one that is not full nothing is left.
LEMMA PageStep ==
  ASSUME NEW rows \in SUBSET Events, NEW there \in SUBSET rows,
         NEW s \in Seq(Events), ReadSoFar(there, rows, s), NEW limit \in Nat \ {0},
         NEW list \in NewestFirst(rows), NEW page, page = Piece(list, limit, Len(s))
  PROVE  /\ s \o page \in Seq(Events) /\ ReadSoFar(there, rows, s \o page)
         /\ Len(page) < limit => \A e \in there : Alone(rows, e) => e \in ToSet(s \o page)
<1> DEFINE n == Len(s)
           m == Len(page)
           both == s \o page
<1>1. /\ n \in Nat /\ page \in Seq(Events) /\ m \in Nat
      /\ \A k \in 1..m : n + k \in 1..Len(list) /\ page[k] = list[n + k]
      /\ m < limit => Len(list) <= n + m
  <2>1. n \in Nat /\ page = Piece(list, limit, n)
    OBVIOUS
  <2> HIDE DEF n
  <2> QED BY <2>1, PageFields
<1>2. /\ both \in Seq(Events) /\ Len(both) = n + m /\ DOMAIN both = 1..(n + m)
      /\ \A i \in 1..n : both[i] = s[i]
      /\ \A k \in 1..m : both[n + k] = page[k]
  <2>1. /\ both \in Seq(Events) /\ Len(both) = n + m
        /\ \A i \in 1..(n + m) : both[i] = IF i <= n THEN s[i] ELSE page[i - n]
    BY <1>1, ConcatProperties
  <2>2. \A i \in 1..n : i \in 1..(n + m) /\ i <= n
    BY <1>1
  <2>3. \A k \in 1..m : n + k \in 1..(n + m) /\ ~ (n + k <= n) /\ (n + k) - n = k
    BY <1>1
  <2>4. DOMAIN both = 1..Len(both)
    BY <2>1
  <2> HIDE DEF both, n, m
  <2> QED BY <2>1, <2>2, <2>3, <2>4
<1>3. /\ Len(list) \in Nat /\ \A i \in 1..Len(list) : list[i] \in rows
      /\ \A e \in rows : \E i \in 1..Len(list) : list[i] = e
  BY ListFields
<1>4. \A i \in 1..Len(list) : Alone(rows, list[i]) => Newer(rows, list[i]) = i - 1
  BY ListPlaces
<1>5. \A e : Newer(there, e) \in Nat /\ Newer(rows, e) \in Nat /\ Newer(there, e) <= Newer(rows, e)
  BY NewerType, NewerGrows
<1> HIDE DEF n, m, both
<1>6. ASSUME NEW i \in 1..(n + m)
      PROVE  /\ both[i] \in rows
             /\ Alone(rows, both[i]) => Newer(there, both[i]) <= i - 1 /\ i - 1 <= Newer(rows, both[i])
  <2>1. CASE i \in 1..n
    BY <1>2, <2>1 DEF ReadSoFar, n
  <2>2. CASE i \notin 1..n
    <3> DEFINE k == i - n
    <3>1. k \in 1..m /\ n + k = i
      BY <1>1, <2>2
    <3> HIDE DEF k
    <3>2. i \in 1..Len(list) /\ both[i] = list[i]
      <4>1. n + k \in 1..Len(list) /\ both[n + k] = page[k] /\ page[k] = list[n + k]
        BY <1>1, <1>2, <3>1
      <4> QED BY <3>1, <4>1
    <3>3. both[i] \in rows /\ (Alone(rows, both[i]) => Newer(rows, both[i]) = i - 1)
      BY <1>3, <1>4, <3>2
    <3> QED BY <1>5, <3>3
  <2> QED BY <2>1, <2>2
<1>7. ASSUME NEW e \in there, Alone(rows, e), \A i \in 1..(n + m) : both[i] # e
      PROVE  n + m <= Newer(rows, e) /\ ~ (m < limit)
  <2>1. \A i \in 1..n : s[i] # e
    <3> TAKE i \in 1..n
    <3>1. i \in 1..(n + m)
      BY <1>1
    <3> QED BY <1>2, <1>7, <3>1
  <2>2. n <= Newer(rows, e)
    BY <1>7, <2>1 DEF ReadSoFar, n
  <2>3. PICK p \in 1..Len(list) : list[p] = e
    BY <1>3
  <2>4. Newer(rows, e) = p - 1 /\ p \in Nat
    BY <1>3, <1>4, <1>7, <2>3
  <2>5. ~ (p <= n + m)
    <3> SUFFICES ASSUME p <= n + m PROVE FALSE
      OBVIOUS
    <3> DEFINE k == p - n
    <3>1. k \in 1..m /\ n + k = p /\ p \in 1..(n + m)
      BY <1>1, <2>2, <2>4
    <3> HIDE DEF k
    <3>2. both[p] = e
      <4>1. both[n + k] = page[k] /\ page[k] = list[n + k]
        BY <1>1, <1>2, <3>1
      <4> QED BY <2>3, <3>1, <4>1
    <3> QED BY <1>7, <3>1, <3>2
  <2>6. p <= Len(list) /\ n + m < p
    BY <1>1, <1>3, <2>4, <2>5
  <2>7. ~ (m < limit)
    <3>1. ~ (Len(list) <= n + m)
      BY <1>1, <1>3, <2>4, <2>6
    <3> QED BY <1>1, <3>1
  <2>8. n + m <= p - 1
    BY <1>1, <2>4, <2>6
  <2> QED BY <2>4, <2>7, <2>8
<1>8. ReadSoFar(there, rows, both)
  BY <1>2, <1>6, <1>7 DEF ReadSoFar
<1>9. ASSUME m < limit, NEW e \in there, Alone(rows, e) PROVE e \in ToSet(both)
  <2>1. PICK i \in 1..(n + m) : both[i] = e
    BY <1>7, <1>9
  <2> QED BY <1>2, <2>1 DEF ToSet
<1> QED BY <1>2, <1>8, <1>9 DEF both, m

\* When nothing was inserted the pages are the list: every row at its place.
LEMMA PagesAreTheList ==
  ASSUME NEW rows \in SUBSET Events, \A e \in rows : Alone(rows, e),
         NEW s \in Seq(Events), ReadSoFar(rows, rows, s), rows \subseteq ToSet(s)
  PROVE  NewestFirst(rows) = {s}
<1>1. Len(s) \in Nat /\ DOMAIN s = 1..Len(s)
  OBVIOUS
<1>2. \A i \in 1..Len(s) : s[i] \in rows /\ Newer(rows, s[i]) = i - 1
  <2> TAKE i \in 1..Len(s)
  <2>1. s[i] \in rows /\ Newer(rows, s[i]) <= i - 1 /\ i - 1 <= Newer(rows, s[i])
    BY DEF ReadSoFar
  <2>2. Newer(rows, s[i]) \in Int /\ i - 1 \in Int
    BY NewerType
  <2> QED BY <2>1, <2>2
<1>3. \A i, j \in 1..Len(s) : s[i] = s[j] => i = j
  <2> TAKE i, j \in 1..Len(s)
  <2>1. Newer(rows, s[i]) = i - 1 /\ Newer(rows, s[j]) = j - 1
    BY <1>2
  <2> QED BY <2>1
<1>4. \A e \in rows : \E i \in 1..Len(s) : s[i] = e
  BY <1>1 DEF ToSet
<1>5. s \in [1..Len(s) -> rows]
  BY <1>1, <1>2
<1>6. Len(s) = Cardinality(rows)
  <2>1. s \in Bijection(1..Len(s), rows)
    BY <1>3, <1>4, <1>5 DEF Bijection, Injection, IsInjective, Surjection
  <2>2. ExistsBijection(1..Len(s), rows)
    BY <2>1 DEF ExistsBijection
  <2>3. IsFiniteSet(1..Len(s)) /\ Cardinality(1..Len(s)) = Len(s)
    <3>1. 1 \in Int /\ Len(s) \in Int /\ Len(s) >= 0
      BY <1>1
    <3>2. IsFiniteSet(1..Len(s)) /\ Cardinality(1..Len(s)) = IF 1 > Len(s) THEN 0 ELSE Len(s) - 1 + 1
      BY <3>1, FS_Interval
    <3> QED BY <3>1, <3>2
  <2> QED BY <2>2, <2>3, FS_Bijection
<1>7. ASSUME NEW i \in 1..Len(s) - 1 PROVE s[i].occurredAt >= s[i + 1].occurredAt
  <2>1. i \in 1..Len(s) /\ i + 1 \in 1..Len(s) /\ i \in Int
    BY <1>1
  <2>2. s[i].occurredAt \in Int /\ s[i + 1].occurredAt \in Int
    BY <1>2, <2>1, EventTimes
  <2>3. ~ (s[i + 1].occurredAt > s[i].occurredAt)
    <3> SUFFICES ASSUME s[i + 1].occurredAt > s[i].occurredAt PROVE FALSE
      OBVIOUS
    <3>1. Newer(rows, s[i + 1]) < Newer(rows, s[i])
      BY <1>2, <2>1, OlderHasMore
    <3>2. Newer(rows, s[i + 1]) = (i + 1) - 1 /\ Newer(rows, s[i]) = i - 1
      BY <1>2, <2>1
    <3> QED BY <2>1, <3>1, <3>2
  <2> QED BY <2>2, <2>3
<1>8. s \in NewestFirst(rows)
  BY <1>3, <1>5, <1>6, <1>7 DEF NewestFirst, SetToSeqs
<1>9. ASSUME NEW t \in NewestFirst(rows) PROVE t = s
  <2>1. /\ t \in Seq(Events) /\ Len(t) = Len(s) /\ \A i \in 1..Len(s) : t[i] \in rows
        /\ \A i \in 1..Len(s) : Newer(rows, t[i]) = i - 1
    BY <1>6, ListFields, ListPlaces
  <2>2. \A i \in 1..Len(s) : t[i] = s[i]
    BY <1>2, <2>1, OnePlace
  <2> QED BY <2>1, <2>2
<1> QED BY <1>8, <1>9

\* An event that is alone with its time is read twice only behind one that was inserted.
LEMMA NothingRepeats ==
  ASSUME NEW rows \in SUBSET Events, NEW there \in SUBSET rows,
         NEW s \in Seq(Events), ReadSoFar(there, rows, s),
         NEW i \in DOMAIN s, NEW j \in DOMAIN s, i < j, s[i] = s[j], Alone(rows, s[i])
  PROVE  \E e \in rows \ there : e.occurredAt > s[i].occurredAt
<1>1. Len(s) \in Nat /\ i \in 1..Len(s) /\ j \in 1..Len(s)
  OBVIOUS
<1>2. Newer(there, s[i]) <= i - 1 /\ j - 1 <= Newer(rows, s[j])
  BY <1>1 DEF ReadSoFar
<1>3. Newer(there, s[i]) \in Int /\ Newer(rows, s[i]) \in Int /\ i \in Int /\ j \in Int
  BY <1>1, NewerType
<1>4. Newer(there, s[i]) # Newer(rows, s[i])
  BY <1>2, <1>3
<1> QED BY <1>4, NewerGrows

(***************************************************************************)
(* The client.                                                             *)
(***************************************************************************)
Reads  == [kind : {"reading", "read"}, from : 0..MaxTime, to : 0..MaxTime, type : Types \cup {None}]
Charts == [kind : {"series"}, from : 0..MaxTime, to : 0..MaxTime, width : Widths]

ClientType == /\ table \in SUBSET Events /\ inserts \in 0..MaxInserts
              /\ began \in SUBSET table /\ got \in Seq(Events)
              /\ request \in {NoRequest} \cup Charts \cup Reads
              /\ answer \in {None} \cup SUBSET Points

Then == Listed(began, request.from, request.to, request.type)
Current == Listed(table, request.from, request.to, request.type)

\* Between two pages every event that is alone with its time is read or still to come;
\* at the end none is left.
AllRead(there, rows, s) == \A e \in there : Alone(rows, e) => e \in ToSet(s)
PagesInv == request \in Reads => /\ ReadSoFar(Then, Current, got)
                                 /\ request.kind = "read" => AllRead(Then, Current, got)

ClientInv == ClientType /\ PagesInv

\* More rows in the table are more in the list.
LEMMA ListedGrows ==
  ASSUME NEW rows \in SUBSET Events, NEW fewer \in SUBSET rows, NEW from, NEW to, NEW type
  PROVE  /\ Listed(rows, from, to, type) \in SUBSET Events
         /\ Listed(fewer, from, to, type) \in SUBSET Listed(rows, from, to, type)
BY DEF Listed, InRange

\* What a request of one kind is not.
LEMMA Kinds ==
  /\ NoRequest \notin Reads
  /\ \A r \in Charts : r \notin Reads
  /\ \A r \in Reads : r.kind \in {"reading", "read"}
  /\ \A r \in Charts \cup {NoRequest} : r.kind \notin {"reading", "read"}
<1>1. NoRequest.kind = "none" /\ \A r \in Charts : r.kind = "series"
  BY DEF NoRequest, Charts
<1>2. \A r \in Reads : r.kind \in {"reading", "read"}
  BY DEF Reads
<1> QED BY <1>1, <1>2

\* Nobody has asked for anything yet.
LEMMA ClientInit == Init => ClientInv
<1> SUFFICES ASSUME Init PROVE ClientInv
  OBVIOUS
<1>1. /\ table \in SUBSET Events /\ inserts = 0 /\ began = {} /\ got = <<>>
      /\ request = NoRequest /\ answer = None
  BY DEF Init, HistoryInit
<1>2. 0 \in 0..MaxInserts /\ <<>> \in Seq(Events)
  BY LimitsAssumption
<1>3. ClientType
  BY <1>1, <1>2 DEF ClientType
<1> QED BY <1>1, <1>3, Kinds DEF ClientInv, PagesInv

\* Rows are inserted, or nothing of this happens.
LEMMA ClientRests ==
  ASSUME ClientInv, UNCHANGED client, table' \in SUBSET Events, table \in SUBSET table',
         inserts' \in 0..MaxInserts
  PROVE  ClientInv'
<1>1. UNCHANGED <<request, answer, got, began>>
  BY DEF client
<1>2. ClientType'
  BY <1>1 DEF ClientInv, ClientType
<1>3. ASSUME request \in Reads
      PROVE  /\ ReadSoFar(Then, Current', got)
             /\ request.kind = "read" => AllRead(Then, Current', got)
  <2>1. /\ Current' \in SUBSET Events /\ Current \in SUBSET Current' /\ Then \in SUBSET Current
        /\ got \in Seq(Events)
    <3>1. began \in SUBSET table /\ table \in SUBSET Events /\ got \in Seq(Events)
      BY DEF ClientInv, ClientType
    <3>2. Current' = Listed(table', request.from, request.to, request.type)
      BY <1>1 DEF Current
    <3> QED BY <3>1, <3>2, ListedGrows DEF Then, Current
  <2>2. \A e : Alone(Current', e) => Alone(Current, e)
    BY <2>1 DEF Alone
  <2>3. ReadSoFar(Then, Current, got) /\ (request.kind = "read" => AllRead(Then, Current', got))
    BY <1>3, <2>2 DEF ClientInv, PagesInv, AllRead
  <2> HIDE DEF Current, Then
  <2> QED BY <2>1, <2>3, InsertStep
<1>4. PagesInv'
  BY <1>1, <1>3 DEF PagesInv, Then
<1> QED BY <1>2, <1>4 DEF ClientInv

\* The first page, or the next.
LEMMA ReadStep ==
  ASSUME ClientInv, table' = table, inserts' = inserts, answer' = answer,
         NEW s \in Seq(Events), began' \in SUBSET table,
         request' \in Reads,
         NEW list \in NewestFirst(Current'),
         NEW page, page = Piece(list, Limit, Len(s)),
         got' = s \o page, request'.kind = "read" => Len(page) < Limit,
         ReadSoFar(Then', Current', s)
  PROVE  ClientInv'
<1>1. table \in SUBSET Events /\ Limit \in Nat \ {0} /\ Len(s) \in Nat
  BY SizesAssumption DEF ClientInv, ClientType
<1>2. Current' \in SUBSET Events /\ Then' \in SUBSET Current'
  BY <1>1, ListedGrows DEF Current, Then
<1>3. page \in Seq(Events)
  BY <1>1, <1>2, PageFields
<1>4. got' \in Seq(Events)
  BY <1>3, ConcatProperties
<1>5. ClientType'
  BY <1>1, <1>4 DEF ClientInv, ClientType
<1>6. /\ ReadSoFar(Then', Current', s \o page)
      /\ Len(page) < Limit => AllRead(Then', Current', s \o page)
  <2> DEFINE rows == Current'
             there == Then'
  <2>1. /\ rows \in SUBSET Events /\ there \in SUBSET rows
        /\ s \in Seq(Events) /\ ReadSoFar(there, rows, s) /\ list \in NewestFirst(rows)
    BY <1>2
  <2> HIDE DEF rows, there
  <2>2. /\ ReadSoFar(there, rows, s \o page)
        /\ Len(page) < Limit => AllRead(there, rows, s \o page)
    BY <1>1, <2>1, PageStep DEF AllRead
  <2> QED BY <2>2 DEF rows, there
<1>7. PagesInv'
  BY <1>6 DEF PagesInv
<1> QED BY <1>5, <1>7 DEF ClientInv

\* The request for a series.
LEMMA AskSeriesStep ==
  ASSUME ClientInv, NEW from \in 0..MaxTime, NEW to \in 0..MaxTime, NEW w \in Widths,
         AskSeries(from, to, w)
  PROVE  ClientInv'
<1>1. /\ request' = [kind |-> "series", from |-> from, to |-> to, width |-> w]
      /\ UNCHANGED <<table, inserts, got, began>>
      /\ answer' = None \/ answer' = Series(table, from, to, w)
  BY DEF AskSeries, store
<1>2. request' \in Charts
  BY <1>1 DEF Charts
<1>3. answer' \in {None} \cup SUBSET Points
  <2>1. table \in SUBSET Events /\ w \in Nat \ {0}
    BY SizesAssumption DEF ClientInv, ClientType
  <2> QED BY <1>1, <2>1, SeriesPoints
<1>4. ClientType'
  BY <1>1, <1>2, <1>3 DEF ClientInv, ClientType
<1> QED BY <1>2, <1>4, Kinds DEF ClientInv, PagesInv

\* The first page: nothing was read yet.
LEMMA AskEventsStep ==
  ASSUME ClientInv, NEW from \in 0..MaxTime, NEW to \in 0..MaxTime, NEW type \in Types \cup {None},
         AskEvents(from, to, type)
  PROVE  ClientInv'
<1>1. PICK page \in Pages(table, from, to, type, Limit, 0) :
        /\ got' = page
        /\ request' = [kind |-> IF Len(page) < Limit THEN "read" ELSE "reading",
                       from |-> from, to |-> to, type |-> type]
  BY DEF AskEvents
<1>2. began' = table /\ UNCHANGED <<table, inserts, answer>>
  BY DEF AskEvents, store
<1>3. /\ request' \in Reads /\ request'.from = from /\ request'.to = to /\ request'.type = type
      /\ request'.kind = "read" => Len(page) < Limit
  BY <1>1 DEF Reads
<1>4. Current' = Listed(table, from, to, type) /\ Then' = Current'
  BY <1>2, <1>3 DEF Current, Then
<1>5. PICK list \in NewestFirst(Current') : page = Piece(list, Limit, 0)
  BY <1>4 DEF Pages, Piece
<1>6. table \in SUBSET Events /\ Limit \in Nat \ {0} /\ Current' \in SUBSET Events
  BY <1>4, SizesAssumption, ListedGrows DEF ClientInv, ClientType
<1>7. page \in Seq(Events)
  BY <1>5, <1>6, PageFields
<1> DEFINE s == <<>>
<1>8. s \in Seq(Events) /\ Len(s) = 0 /\ s \o page = page
  BY <1>7
<1>9. ReadSoFar(Then', Current', s)
  <2>1. \A e : Newer(Current', e) \in Nat
    BY <1>6, NewerType
  <2> QED BY <1>8, <2>1 DEF ReadSoFar
<1> HIDE DEF s
<1> QED BY <1>1, <1>2, <1>3, <1>5, <1>6, <1>8, <1>9, ReadStep

\* The next page: it begins where the last one ended.
LEMMA NextPageStep == ClientInv /\ NextPage => ClientInv'
<1> SUFFICES ASSUME ClientInv, NextPage PROVE ClientInv'
  OBVIOUS
<1>1. PICK page \in Pages(table, request.from, request.to, request.type, Limit, Len(got)) :
        /\ got' = got \o page
        /\ request' = [request EXCEPT !.kind = IF Len(page) < Limit THEN "read" ELSE "reading"]
  BY DEF NextPage
<1>2. request.kind = "reading" /\ UNCHANGED <<table, inserts, answer, began>>
  BY DEF NextPage, store
<1>3. request \in Reads /\ got \in Seq(Events) /\ began \in SUBSET table
  BY <1>2, Kinds DEF ClientInv, ClientType
<1>4. /\ request' \in Reads /\ request'.from = request.from /\ request'.to = request.to
      /\ request'.type = request.type
      /\ request'.kind = "read" => Len(page) < Limit
  BY <1>1, <1>3 DEF Reads
<1>5. Current' = Current /\ Then' = Then
  BY <1>2, <1>4 DEF Current, Then
<1>6. PICK list \in NewestFirst(Current') : page = Piece(list, Limit, Len(got))
  BY <1>5 DEF Pages, Piece, Current
<1>7. ReadSoFar(Then', Current', got)
  BY <1>3, <1>5 DEF ClientInv, PagesInv
<1> QED BY <1>1, <1>2, <1>3, <1>4, <1>6, <1>7, ReadStep

\* Every step keeps what the client has read in order.
LEMMA ClientNext == ClientInv /\ [Next]_vars => ClientInv'
<1> SUFFICES ASSUME ClientInv, [Next]_vars PROVE ClientInv'
  OBVIOUS
<1>1. table \in SUBSET Events /\ inserts \in 0..MaxInserts
  BY DEF ClientInv, ClientType
<1>2. CASE UNCHANGED <<store, client>>
  <2>1. UNCHANGED <<table, inserts, client>>
    BY <1>2 DEF store
  <2> QED BY <1>1, <2>1, ClientRests
<1>3. CASE Store
  <2>1. /\ inserts < MaxInserts /\ inserts' = inserts + 1 /\ UNCHANGED client
        /\ table' \in SUBSET Events /\ table \in SUBSET table'
    BY <1>1, <1>3 DEF Store
  <2>2. inserts' \in 0..MaxInserts
    BY <1>1, <2>1, LimitsAssumption
  <2> QED BY <2>1, <2>2, ClientRests
<1>4. CASE Client
  BY <1>4, AskSeriesStep, AskEventsStep, NextPageStep DEF Client
<1>5. CASE Advance \/ UNCHANGED vars
  BY <1>2, <1>5 DEF Advance, vars, store, client
<1>6. CASE View
  BY <1>2, <1>6 DEF View, Select, Refresh, Reopen, AnswerSeries, AnswerSummary, Finish, Fail, store, client
<1> QED BY <1>3, <1>4, <1>5, <1>6 DEF Next

\* So it always is.
LEMMA ClientAlways == Spec => []ClientInv
BY ClientInit, ClientNext, PTL DEF Spec

\* However many rows are inserted between the pages, older or newer than those read,
\* and whatever rows share their times: a client that reads to the end has every row
\* that was there when it began and is alone with its time, has such a row twice only
\* behind a newer one that was inserted, and has the list itself when nothing was and
\* no two rows of it have the same time.
THEOREM PagesAreComplete == Spec => []PagesComplete
<1>1. ClientInv => PagesComplete
  <2> SUFFICES ASSUME ClientInv, request.kind = "read" PROVE
        /\ AllRead(Then, Current, got)
        /\ Current = Then /\ (\A e \in Current : Alone(Current, e)) => NewestFirst(Then) = {got}
        /\ \A i, j \in DOMAIN got : i < j /\ got[i] = got[j] /\ Alone(Current, got[i]) =>
             \E e \in Current \ Then : e.occurredAt > got[i].occurredAt
    BY DEF PagesComplete, AllRead, Then, Current, Alone
  <2>1. request \in Reads /\ table \in SUBSET Events /\ began \in SUBSET table /\ got \in Seq(Events)
    BY Kinds DEF ClientInv, ClientType
  <2>2. ReadSoFar(Then, Current, got) /\ AllRead(Then, Current, got)
    BY <2>1 DEF ClientInv, PagesInv
  <2>3. Current \in SUBSET Events /\ Then \in SUBSET Current
    BY <2>1, ListedGrows DEF Then, Current
  <2>4. ASSUME Current = Then, \A e \in Current : Alone(Current, e)
        PROVE  NewestFirst(Then) = {got}
    BY <2>1, <2>2, <2>3, <2>4, PagesAreTheList DEF AllRead
  <2>5. ASSUME NEW i \in DOMAIN got, NEW j \in DOMAIN got, i < j, got[i] = got[j], Alone(Current, got[i])
        PROVE  \E e \in Current \ Then : e.occurredAt > got[i].occurredAt
    BY <2>1, <2>2, <2>3, <2>5, NothingRepeats
  <2> QED BY <2>2, <2>4, <2>5
<1> QED BY <1>1, ClientAlways, PTL

(***************************************************************************)
(* The view.                                                               *)
(***************************************************************************)
ViewType == /\ table \in SUBSET Events /\ now \in 0..MaxTime /\ rangeId \in Ranges
            /\ loading \in BOOLEAN /\ error \in BOOLEAN
            /\ loads \in Seq(LoadType) /\ loads # <<>> /\ Len(loads) <= MaxLoads
            /\ shown \in 0..Len(loads)

Asked(l) == Series(l.read, From(l), l.to, BucketOf[l.range])
Counted(l) == Summary(l.counted, From(l), l.to)

\* What was answered to a load is of the table it was read from.
Answered(l) == l.series \in {None, Asked(l)} /\ l.totals \in {None, Counted(l)}

\* So is what is shown, and its load is settled; before the first nothing is shown.
ShownInv == /\ shown = 0 => buckets = {} /\ summary = None
            /\ shown # 0 => /\ loads[shown].state = "done"
                           /\ buckets = Asked(loads[shown]) /\ summary = Counted(loads[shown])

\* The last load is of the range that is selected.
ViewInv == /\ ViewType
           /\ loads[Len(loads)].range = rangeId
           /\ \A n \in 1..Len(loads) : Answered(loads[n])
           /\ ShownInv
           /\ LabelFits /\ LoadingMeansUnderWay

\* The ranges have lengths and widths.
LEMMA LengthsAndWidths ==
  \A r \in Ranges : Ms[r] \in Nat /\ BucketOf[r] \in Nat \ {0}
BY RangesAssumption

\* A load that is started has no answer yet.
LEMMA NewLoadTyped ==
  ASSUME NEW r \in Ranges, now \in 0..MaxTime
  PROVE  /\ NewLoad(r) \in LoadType /\ NewLoad(r).range = r /\ Answered(NewLoad(r))
         /\ NewLoad(r).state = "pending"
BY DEF NewLoad, LoadType, Answered

\* The view is opened with its first load under way.
LEMMA ViewInit == Init => ViewInv
<1> SUFFICES ASSUME Init PROVE ViewInv
  OBVIOUS
<1>1. /\ table \in SUBSET Events /\ now \in 0..MaxTime /\ rangeId = FirstRange /\ rangeId \in Ranges
      /\ loads = <<NewLoad(FirstRange)>> /\ shown = 0 /\ buckets = {} /\ summary = None /\ loading = TRUE /\ error = FALSE
  BY StartAssumption, RangesAssumption, LimitsAssumption DEF Init, HistoryInit
<1>2. NewLoad(FirstRange) \in LoadType /\ NewLoad(FirstRange).range = FirstRange
      /\ Answered(NewLoad(FirstRange)) /\ NewLoad(FirstRange).state = "pending"
  BY <1>1, NewLoadTyped
<1>3. /\ loads \in Seq(LoadType) /\ Len(loads) = 1 /\ loads[1] = NewLoad(FirstRange)
      /\ loads # <<>> /\ DOMAIN loads = 1..1
  BY <1>1, <1>2
<1>4. ViewType /\ ShownInv
  <2>1. 1 <= MaxLoads /\ shown \in 0..Len(loads)
    BY <1>1, <1>3, BoundsAssumption
  <2>2. loading \in BOOLEAN /\ error \in BOOLEAN
    BY <1>1
  <2>3. Len(loads) <= MaxLoads
    BY <1>3, <2>1
  <2> QED BY <1>1, <1>3, <2>1, <2>2, <2>3 DEF ViewType, ShownInv
<1>5. 1 \in Pending
  BY <1>2, <1>3 DEF Pending
<1>6. LabelFits /\ LoadingMeansUnderWay
  BY <1>1, <1>5 DEF LabelFits, LoadingMeansUnderWay
<1> QED BY <1>1, <1>2, <1>3, <1>4, <1>6 DEF ViewInv

\* A load is started: it is of the range that is selected now.
LEMMA LoadStep ==
  ASSUME ViewInv, NEW r \in Ranges, rangeId' = r, Load(r),
         UNCHANGED <<table, now, buckets, summary, shown>>
  PROVE  ViewInv'
<1> DEFINE l == NewLoad(r)
<1>1. l \in LoadType /\ l.range = r /\ Answered(l) /\ l.state = "pending"
  BY NewLoadTyped DEF ViewInv, ViewType
<1>2. /\ loads \in Seq(LoadType) /\ loads' = Append(loads, l) /\ Len(loads) \in Nat
      /\ Len(loads) < MaxLoads /\ loading' = TRUE /\ error' = FALSE
  BY DEF ViewInv, ViewType, Load
<1> HIDE DEF l
<1>3. /\ loads' \in Seq(LoadType) /\ Len(loads') = Len(loads) + 1 /\ loads'[Len(loads) + 1] = l
      /\ \A n \in 1..Len(loads) : loads'[n] = loads[n]
  BY <1>1, <1>2
<1>4. \A n \in 1..Len(loads') : n \in 1..Len(loads) \/ n = Len(loads) + 1
  BY <1>2, <1>3
<1>5. ViewType'
  <2>1. loads' # <<>> /\ shown' \in 0..Len(loads') /\ Len(loads') <= MaxLoads
    BY <1>2, <1>3, BoundsAssumption DEF ViewInv, ViewType
  <2> QED BY <1>2, <1>3, <2>1 DEF ViewInv, ViewType
<1>6. \A n \in 1..Len(loads') : Answered(loads'[n])
  BY <1>1, <1>3, <1>4 DEF ViewInv
<1>7. ShownInv'
  <2>1. shown # 0 => loads'[shown] = loads[shown]
    BY <1>2, <1>3 DEF ViewInv, ViewType
  <2> QED BY <2>1 DEF ViewInv, ShownInv, Asked, Counted, From
<1>8. Len(loads') \in Pending'
  <2>1. DOMAIN loads' = 1..Len(loads') /\ Len(loads') \in 1..Len(loads')
    BY <1>2, <1>3
  <2> QED BY <1>1, <1>3, <2>1 DEF Pending
<1>9. LabelFits' /\ LoadingMeansUnderWay'
  BY <1>8 DEF LabelFits, LoadingMeansUnderWay
<1> QED BY <1>1, <1>3, <1>5, <1>6, <1>7, <1>9 DEF ViewInv, Answered, Asked, Counted, From

\* A load is answered or settled: one entry changes.
LEMMA Edited ==
  ASSUME NEW n \in Pending, loads \in Seq(LoadType), NEW l \in LoadType, loads' = [loads EXCEPT ![n] = l]
  PROVE  /\ loads' \in Seq(LoadType) /\ Len(loads') = Len(loads) /\ Len(loads) \in Nat
         /\ n \in 1..Len(loads) /\ loads'[n] = l /\ loads[n].state = "pending"
         /\ \A m \in 1..Len(loads) : m # n => loads'[m] = loads[m]
BY DEF Pending

\* One of the two queries of a load is answered.
LEMMA AnswerStep ==
  ASSUME ViewInv, NEW n \in Pending, AnswerSeries(n) \/ AnswerSummary(n)
  PROVE  ViewInv'
<1>0. ViewType /\ loads \in Seq(LoadType) /\ n \in 1..Len(loads) /\ loads[n] \in LoadType
  BY DEF ViewInv, ViewType, Pending
<1>1. UNCHANGED <<table, now, rangeId, buckets, summary, loading, error, shown>>
  BY DEF AnswerSeries, AnswerSummary, store
<1>2. PICK l \in LoadType :
         /\ loads' = [loads EXCEPT ![n] = l]
         /\ l.range = loads[n].range /\ l.state = "pending" /\ l.late = loads[n].late
         /\ Answered(l)
  <2>1. CASE AnswerSeries(n)
    <3> DEFINE series == Series(table, From(loads[n]), loads[n].to, BucketOf[loads[n].range])
               l == [loads[n] EXCEPT !.series = series, !.read = table]
    <3>1. series \in SUBSET Points
      <4>1. BucketOf[loads[n].range] \in Nat \ {0} /\ table \in SUBSET Events
        BY <1>0, LengthsAndWidths DEF LoadType, ViewType
      <4> QED BY <4>1, SeriesPoints
    <3>2. loads' = [loads EXCEPT ![n] = l]
      <4>1. loads' = [loads EXCEPT ![n].series = series, ![n].read = table]
        BY <2>1 DEF AnswerSeries
      <4> HIDE DEF series
      <4> QED BY <1>0, <4>1 DEF LoadType
    <3> HIDE DEF series
    <3>3. l \in LoadType /\ l.range = loads[n].range /\ l.to = loads[n].to /\ l.state = loads[n].state
          /\ l.late = loads[n].late /\ l.series = series /\ l.read = table
          /\ l.totals = loads[n].totals /\ l.counted = loads[n].counted
      BY <1>0, <3>1 DEF LoadType, ViewType
    <3>4. Answered(l)
      <4>1. l.series = Asked(l)
        BY <3>3 DEF series, Asked, From
      <4>2. l.totals \in {None, Counted(l)}
        BY <1>0, <3>3 DEF ViewInv, Answered, Counted, From
      <4> QED BY <4>1, <4>2 DEF Answered
    <3>5. loads[n].state = "pending"
      BY DEF Pending
    <3> QED BY <3>2, <3>3, <3>4, <3>5
  <2>2. CASE AnswerSummary(n)
    <3> DEFINE totals == Summary(table, From(loads[n]), loads[n].to)
               l == [loads[n] EXCEPT !.totals = totals, !.counted = table]
    <3>1. totals \in Tiles
      BY <1>0, SummaryType DEF ViewType
    <3>2. loads' = [loads EXCEPT ![n] = l]
      <4>1. loads' = [loads EXCEPT ![n].totals = totals, ![n].counted = table]
        BY <2>2 DEF AnswerSummary
      <4> HIDE DEF totals
      <4> QED BY <1>0, <4>1 DEF LoadType
    <3> HIDE DEF totals
    <3>3. l \in LoadType /\ l.range = loads[n].range /\ l.to = loads[n].to /\ l.state = loads[n].state
          /\ l.late = loads[n].late /\ l.series = loads[n].series /\ l.read = loads[n].read
          /\ l.totals = totals /\ l.counted = table
      BY <1>0, <3>1 DEF LoadType, ViewType
    <3>4. Answered(l)
      <4>1. l.series \in {None, Asked(l)}
        BY <1>0, <3>3 DEF ViewInv, Answered, Asked, From
      <4>2. l.totals = Counted(l)
        BY <3>3 DEF totals, Counted, From
      <4> QED BY <4>1, <4>2 DEF Answered
    <3>5. loads[n].state = "pending"
      BY DEF Pending
    <3> QED BY <3>2, <3>3, <3>4, <3>5
  <2> QED BY <2>1, <2>2
<1>3. /\ loads' \in Seq(LoadType) /\ Len(loads') = Len(loads) /\ Len(loads) \in Nat
      /\ loads'[n] = l /\ loads[n].state = "pending"
      /\ \A m \in 1..Len(loads) : m # n => loads'[m] = loads[m]
  BY <1>0, <1>2, Edited
<1>4. \A m \in 1..Len(loads) : /\ loads'[m].range = loads[m].range /\ loads'[m].late = loads[m].late
                               /\ loads'[m].state = loads[m].state
  BY <1>2, <1>3
<1>5. Pending' = Pending
  <2>1. DOMAIN loads = 1..Len(loads) /\ DOMAIN loads' = 1..Len(loads)
    BY <1>0, <1>3
  <2> QED BY <1>4, <2>1 DEF Pending
<1>6. ViewType'
  BY <1>0, <1>1, <1>3 DEF ViewType
<1>7. \A m \in 1..Len(loads') : Answered(loads'[m])
  BY <1>2, <1>3 DEF ViewInv
<1>8. shown # 0 => loads'[shown] = loads[shown]
  BY <1>0, <1>3 DEF ViewInv, ViewType, ShownInv
<1>9. loads'[Len(loads')].range = rangeId'
  BY <1>0, <1>1, <1>3, <1>4 DEF ViewInv
<1>10. LabelFits' /\ LoadingMeansUnderWay'
  BY <1>1, <1>5, <1>8 DEF ViewInv, LabelFits, LoadingMeansUnderWay
<1>11. ShownInv'
  BY <1>1, <1>8 DEF ViewInv, ShownInv, Asked, Counted, From
<1> QED BY <1>6, <1>7, <1>9, <1>10, <1>11 DEF ViewInv, Answered, Asked, Counted, From

\* A load settles, with an answer that is shown from now on or with an error.
LEMMA SettleStep ==
  ASSUME ViewInv, NEW n \in Pending, Finish(n) \/ Fail(n)
  PROVE  ViewInv'
<1>0. ViewType /\ loads \in Seq(LoadType) /\ n \in 1..Len(loads) /\ loads[n] \in LoadType
      /\ DOMAIN loads = 1..Len(loads) /\ Len(loads) \in Nat /\ loads[n].state = "pending"
  BY DEF ViewInv, ViewType, Pending
<1>1. UNCHANGED <<table, now, rangeId>> /\ loading' = FALSE /\ error' \in {error, TRUE}
  BY DEF Finish, Fail, store
<1>2. PICK l \in LoadType :
         /\ loads' = [loads EXCEPT ![n] = l]
         /\ l.range = loads[n].range /\ l.to = loads[n].to
         /\ l.series = loads[n].series /\ l.read = loads[n].read
         /\ l.totals = loads[n].totals /\ l.counted = loads[n].counted
         /\ Finish(n) => l.state = "done" /\ l.late = \E m \in (n + 1)..Len(loads) : m \notin Pending
  <2>1. CASE Finish(n)
    <3> DEFINE late == \E m \in (n + 1)..Len(loads) : m \notin Pending
               l == [loads[n] EXCEPT !.state = "done", !.late = late]
    <3>1. loads' = [loads EXCEPT ![n] = l] /\ late \in BOOLEAN
      <4>1. loads' = [loads EXCEPT ![n].state = "done", ![n].late = late]
        BY <2>1 DEF Finish
      <4>2. late \in BOOLEAN
        OBVIOUS
      <4> HIDE DEF late
      <4> QED BY <1>0, <4>1, <4>2 DEF LoadType
    <3> HIDE DEF late
    <3>2. l \in LoadType /\ l.range = loads[n].range /\ l.to = loads[n].to /\ l.state = "done"
          /\ l.late = late /\ l.series = loads[n].series /\ l.read = loads[n].read
          /\ l.totals = loads[n].totals /\ l.counted = loads[n].counted
      BY <1>0, <3>1 DEF LoadType
    <3> QED BY <3>1, <3>2 DEF late
  <2>2. CASE Fail(n) /\ ~ Finish(n)
    <3> DEFINE l == [loads[n] EXCEPT !.state = "failed"]
    <3>1. loads' = [loads EXCEPT ![n] = l]
      BY <1>0, <2>2 DEF Fail, LoadType
    <3>2. l \in LoadType /\ l.range = loads[n].range /\ l.to = loads[n].to
          /\ l.series = loads[n].series /\ l.read = loads[n].read
          /\ l.totals = loads[n].totals /\ l.counted = loads[n].counted
      BY <1>0 DEF LoadType
    <3> QED BY <2>2, <3>1, <3>2
  <2> QED BY <2>1, <2>2
<1>3. /\ loads' \in Seq(LoadType) /\ Len(loads') = Len(loads)
      /\ loads'[n] = l
      /\ \A m \in 1..Len(loads) : m # n => loads'[m] = loads[m]
  BY <1>0, <1>2, Edited
<1>4. \A m \in 1..Len(loads') : Answered(loads'[m])
  <2>1. Answered(loads[n]) /\ \A m \in 1..Len(loads) : Answered(loads[m])
    BY <1>0 DEF ViewInv
  <2>2. Answered(l)
    BY <1>2, <2>1 DEF Answered, Asked, Counted, From
  <2> QED BY <1>3, <2>1, <2>2
<1>5. loads'[Len(loads')].range = rangeId'
  <2>1. Len(loads) \in 1..Len(loads) /\ loads[Len(loads)].range = rangeId
    BY <1>0 DEF ViewInv, ViewType
  <2>2. loads'[Len(loads)].range = loads[Len(loads)].range
    BY <1>2, <1>3, <2>1
  <2> QED BY <1>1, <1>3, <2>1, <2>2
<1>6. /\ table' \in SUBSET Events /\ now' \in 0..MaxTime /\ rangeId' \in Ranges
      /\ loading' \in BOOLEAN /\ error' \in BOOLEAN
      /\ loads' \in Seq(LoadType) /\ loads' # <<>> /\ Len(loads') <= MaxLoads
      /\ LoadingMeansUnderWay'
  <2>1. loads' # <<>>
    BY <1>0, <1>3
  <2> QED BY <1>0, <1>1, <1>3, <2>1 DEF ViewType, LoadingMeansUnderWay
<1>7. CASE Finish(n)
  <2>1. /\ shown' = n /\ buckets' = loads[n].series /\ loads[n].series # None
        /\ summary' = loads[n].totals /\ loads[n].totals # None
    BY <1>7 DEF Finish
  <2>2. ViewType'
    <3>1. shown' \in 0..Len(loads')
      BY <1>0, <1>3, <2>1 DEF ViewType
    <3> QED BY <1>6, <3>1 DEF ViewType
  <2>3. ShownInv'
    <3>1. buckets' = Asked(loads[n]) /\ summary' = Counted(loads[n])
      BY <1>0, <2>1 DEF ViewInv, Answered
    <3>2. buckets' = Asked(l) /\ summary' = Counted(l)
      BY <1>2, <3>1 DEF Asked, Counted, From
    <3>3. loads'[shown'] = l /\ l.state = "done" /\ shown' # 0
      BY <1>0, <1>2, <1>3, <1>7, <2>1
    <3> QED BY <3>2, <3>3 DEF ShownInv, Asked, Counted, From
  <2>4. LabelFits'
    <3> SUFFICES ASSUME loads'[n].range # rangeId', ~ loads'[n].late PROVE Pending' # {}
      BY <2>1 DEF LabelFits
    <3>1. Len(loads) # n
      BY <1>3, <1>5
    <3>2. Len(loads) \in (n + 1)..Len(loads)
      <4>1. n \in 1..Len(loads) /\ Len(loads) \in Nat
        BY <1>0
      <4>2. n < Len(loads)
        BY <3>1, <4>1
      <4> QED BY <4>1, <4>2
    <3>3. Len(loads) \in Pending
      BY <1>2, <1>3, <1>7, <3>2
    <3>4. loads'[Len(loads)].state = "pending"
      BY <1>0, <1>3, <3>1, <3>3 DEF Pending
    <3>5. DOMAIN loads' = 1..Len(loads)
      BY <1>3
    <3> QED BY <1>0, <3>2, <3>4, <3>5 DEF Pending
  <2> QED BY <1>4, <1>5, <1>6, <2>2, <2>3, <2>4 DEF ViewInv, Answered, Asked, Counted, From
<1>8. CASE Fail(n) /\ ~ Finish(n)
  <2>1. UNCHANGED <<buckets, summary, shown>> /\ error' = TRUE
    BY <1>8 DEF Fail
  <2>2. ViewType'
    <3>1. shown' \in 0..Len(loads')
      BY <1>0, <1>3, <2>1 DEF ViewType
    <3> QED BY <1>6, <3>1 DEF ViewType
  <2>3. shown # 0 => loads'[shown] = loads[shown]
    BY <1>0, <1>3 DEF ViewInv, ViewType, ShownInv
  <2>4. LabelFits'
    BY <2>1 DEF LabelFits
  <2>5. ShownInv'
    BY <2>1, <2>3 DEF ViewInv, ShownInv, Asked, Counted, From
  <2> QED BY <1>4, <1>5, <1>6, <2>2, <2>4, <2>5 DEF ViewInv, Answered, Asked, Counted, From
<1> QED BY <1>7, <1>8

\* The view is opened again, with nothing shown.
LEMMA ReopenStep ==
  ASSUME ViewInv, Reopen
  PROVE  ViewInv'
<1> DEFINE kept == [n \in DOMAIN loads |-> IF n \in Pending THEN [loads[n] EXCEPT !.state = "left"]
                                           ELSE loads[n]]
           l == NewLoad(FirstRange)
<1>0. loads \in Seq(LoadType) /\ Len(loads) \in Nat /\ DOMAIN loads = 1..Len(loads)
      /\ ViewType /\ FirstRange \in Ranges
  BY RangesAssumption DEF ViewInv, ViewType
<1>1. l \in LoadType /\ l.range = FirstRange /\ Answered(l) /\ l.state = "pending"
  BY <1>0, NewLoadTyped DEF ViewType
<1>2. /\ loads' = Append(kept, l) /\ UNCHANGED <<table, now>>
      /\ rangeId' = FirstRange /\ loading' = TRUE /\ error' = FALSE
      /\ buckets' = {} /\ summary' = None /\ shown' = 0 /\ Len(loads) < MaxLoads
  BY DEF Reopen, store
<1>3. ASSUME NEW n \in 1..Len(loads)
      PROVE  kept[n] \in LoadType /\ Answered(kept[n])
  <2>1. loads[n] \in LoadType /\ Answered(loads[n])
    BY <1>0 DEF ViewInv
  <2> DEFINE k == [loads[n] EXCEPT !.state = "left"]
  <2>2. k \in LoadType /\ k.series = loads[n].series /\ k.read = loads[n].read
        /\ k.totals = loads[n].totals /\ k.counted = loads[n].counted
        /\ k.to = loads[n].to /\ k.range = loads[n].range
    BY <2>1 DEF LoadType
  <2>3. Answered(k)
    BY <2>1, <2>2 DEF Answered, Asked, Counted, From
  <2>4. kept[n] = k \/ kept[n] = loads[n]
    BY <1>0
  <2> HIDE DEF k, kept
  <2> QED BY <2>1, <2>2, <2>3, <2>4
<1>4. kept \in Seq(LoadType) /\ Len(kept) = Len(loads)
  <2>1. kept \in [1..Len(loads) -> LoadType]
    BY <1>0, <1>3
  <2> HIDE DEF kept
  <2> QED BY <1>0, <2>1
<1> HIDE DEF kept, l
<1>5. /\ loads' \in Seq(LoadType) /\ Len(loads') = Len(loads) + 1 /\ loads'[Len(loads) + 1] = l
      /\ \A n \in 1..Len(loads) : loads'[n] = kept[n]
  BY <1>0, <1>1, <1>2, <1>4
<1>6. ViewType'
  <2>1. loads' # <<>> /\ shown' \in 0..Len(loads') /\ Len(loads') <= MaxLoads
    BY <1>0, <1>2, <1>5, BoundsAssumption
  <2> QED BY <1>0, <1>2, <1>5, <2>1 DEF ViewType
<1>7. \A n \in 1..Len(loads') : n \in 1..Len(loads) \/ n = Len(loads) + 1
  BY <1>0, <1>5
<1>8. (\A n \in 1..Len(loads') : Answered(loads'[n])) /\ ShownInv'
  BY <1>1, <1>2, <1>3, <1>5, <1>7 DEF ShownInv
<1>9. Len(loads') \in Pending'
  <2>1. DOMAIN loads' = 1..Len(loads') /\ Len(loads') \in 1..Len(loads')
    BY <1>0, <1>5
  <2> QED BY <1>1, <1>5, <2>1 DEF Pending
<1>10. LabelFits' /\ LoadingMeansUnderWay'
  BY <1>9 DEF LabelFits, LoadingMeansUnderWay
<1> QED BY <1>1, <1>2, <1>5, <1>6, <1>8, <1>10 DEF ViewInv, Answered, Asked, Counted, From

\* Every step keeps the view in order.
LEMMA ViewNext == ViewInv /\ [Next]_vars => ViewInv'
<1> SUFFICES ASSUME ViewInv, [Next]_vars PROVE ViewInv'
  OBVIOUS
<1>1. CASE table' \in SUBSET Events /\ now' \in 0..MaxTime /\ UNCHANGED view
  BY <1>1 DEF ViewInv, ViewType, ShownInv, view, LabelFits, LoadingMeansUnderWay, Pending,
              Answered, Asked, Counted, From
<1>2. table \in SUBSET Events /\ now \in 0..MaxTime
  BY DEF ViewInv, ViewType
<1>3. CASE UNCHANGED vars
  BY <1>1, <1>2, <1>3 DEF vars, store
<1>4. CASE Store /\ UNCHANGED <<now, view>>
  <2>1. table' \in SUBSET Events
    BY <1>2, <1>4 DEF Store
  <2> QED BY <1>1, <1>2, <1>4, <2>1
<1>5. CASE Client /\ UNCHANGED <<now, view>>
  <2>1. table' = table
    BY <1>5 DEF Client, AskEvents, AskSeries, NextPage, store
  <2> QED BY <1>1, <1>2, <1>5, <2>1
<1>6. CASE Advance
  <2>1. now' \in 0..MaxTime
    BY <1>2, <1>6, LimitsAssumption DEF Advance
  <2> QED BY <1>1, <1>2, <1>6, <2>1 DEF Advance, store
<1>7. CASE View
  <2>1. ASSUME NEW r \in Ranges, Select(r) PROVE ViewInv'
    BY <2>1, LoadStep DEF Select, store
  <2>2. ASSUME Refresh PROVE ViewInv'
    BY <2>2, LoadStep DEF Refresh, store, ViewInv, ViewType
  <2> QED BY <1>7, <2>1, <2>2, ReopenStep, AnswerStep, SettleStep DEF View
<1> QED BY <1>3, <1>4, <1>5, <1>6, <1>7 DEF Next

\* So it always is.
LEMMA ViewAlways == Spec => []ViewInv
BY ViewInit, ViewNext, PTL DEF Spec

\* However loads overlap, fail and overtake one another: the chart that is shown puts
\* every event of its range at one point, and shows no other event.
THEOREM ChartIsAPartition == Spec => []ChartPartitionsRange
<1>1. ViewInv => ChartPartitionsRange
  <2> SUFFICES ASSUME ViewInv, shown # 0 PROVE ChartPartitionsRange
    BY DEF ChartPartitionsRange
  <2> DEFINE l == loads[shown]
  <2>1. l \in LoadType /\ buckets = Asked(l)
    BY DEF ViewInv, ViewType, ShownInv
  <2>2. l.read \in SUBSET Events /\ From(l) \in Int /\ l.to \in Int /\ BucketOf[l.range] \in Nat \ {0}
    BY <2>1, LengthsAndWidths DEF LoadType, From
  <2> DEFINE w == BucketOf[l.range]
             rows == InRange(l.read, From(l), l.to)
  <2>3. buckets = Series(l.read, From(l), l.to, w)
    BY <2>1 DEF Asked
  <2>4. Partition(buckets, rows, From(l), l.to, w)
    <3> HIDE DEF l, w
    <3> QED BY <2>2, <2>3, SeriesPartitions DEF w
  <2> QED BY <2>4 DEF ChartPartitionsRange, Partition
<1> QED BY <1>1, ViewAlways, PTL

\* The chart and the buttons disagree only while a load is under way, beside an error,
\* or after an answer that came too late.
THEOREM TheLabelFits == Spec => []LabelFits
<1>1. ViewInv => LabelFits
  BY DEF ViewInv
<1> QED BY <1>1, ViewAlways, PTL

\* Whoever is told that the view is loading is not told so for ever: some load that
\* ends it is under way.
THEOREM LoadingIsUnderWay == Spec => []LoadingMeansUnderWay
<1>1. ViewInv => LoadingMeansUnderWay
  BY DEF ViewInv
<1> QED BY <1>1, ViewAlways, PTL

\* An answer is that of a series the guard let pass.
AnswerInv == answer # None =>
  \E rows \in SUBSET Events, from \in Int, to \in Int, w \in Nat \ {0} :
    ~ Refused(from, to, w) /\ answer = Series(rows, from, to, w)

\* Whatever range and width a client asks for, aligned or not: a series is never
\* longer than the guard's limit by more than one point.
THEOREM SeriesAreBounded == Spec => []SeriesBounded
<1>1. Init => AnswerInv
  BY DEF Init, HistoryInit, AnswerInv
<1>2. ViewInv /\ AnswerInv /\ [Next]_vars => AnswerInv'
  <2> SUFFICES ASSUME ViewInv, AnswerInv, [Next]_vars PROVE AnswerInv'
    OBVIOUS
  <2>1. CASE UNCHANGED answer
    BY <2>1 DEF AnswerInv
  <2>2. ASSUME NEW from \in 0..MaxTime, NEW to \in 0..MaxTime, NEW w \in Widths, AskSeries(from, to, w)
        PROVE  AnswerInv'
    <3>1. from \in Int /\ to \in Int /\ w \in Nat \ {0} /\ table \in SUBSET Events
      BY SizesAssumption DEF ViewInv, ViewType
    <3>2. answer' = IF Refused(from, to, w) THEN None ELSE Series(table, from, to, w)
      BY <2>2 DEF AskSeries
    <3> QED BY <3>1, <3>2 DEF AnswerInv
  <2>3. CASE Client
    <3>1. ASSUME NEW from \in 0..MaxTime, NEW to \in 0..MaxTime, NEW type, AskEvents(from, to, type) PROVE AnswerInv'
      BY <2>1, <3>1 DEF AskEvents
    <3> QED BY <2>1, <2>2, <2>3, <3>1 DEF Client, NextPage
  <2>4. CASE Store \/ Advance \/ UNCHANGED vars
    BY <2>1, <2>4 DEF Store, Advance, client, vars
  <2>5. CASE View
    BY <2>1, <2>5 DEF View, Select, Refresh, Reopen, AnswerSeries, AnswerSummary, Finish, Fail, client
  <2> QED BY <2>3, <2>4, <2>5 DEF Next
<1>3. AnswerInv => SeriesBounded
  BY SeriesIsShort DEF AnswerInv, SeriesBounded
<1> QED BY <1>1, <1>2, <1>3, ViewAlways, PTL DEF Spec

\* No list of points is null, nor is the empty list.
LEMMA ChartsAreLists ==
  ASSUME ViewInv
  PROVE  buckets # None /\ buckets \in SUBSET Points
<1>1. {} # None
  <2>1. Series({}, Start - Ms[FirstRange], Start, BucketOf[FirstRange]) # None
    BY NoneAssumption, RangesAssumption, StartAssumption
  <2>2. Series({}, Start - Ms[FirstRange], Start, BucketOf[FirstRange]) = {}
    BY DEF Series, InRange
  <2> QED BY <2>1, <2>2
<1>2. CASE shown = 0
  BY <1>1, <1>2 DEF ViewInv, ShownInv
<1>3. CASE shown # 0
  <2> DEFINE l == loads[shown]
  <2>1. l \in LoadType /\ buckets = Asked(l)
    BY <1>3 DEF ViewInv, ViewType, ShownInv
  <2>2. l.read \in SUBSET Events /\ l.range \in Ranges /\ l.to \in 0..MaxTime
    BY <2>1 DEF LoadType
  <2> HIDE DEF l
  <2>3. Series(l.read, l.to - Ms[l.range], l.to, BucketOf[l.range]) # None
    BY <2>2, NoneAssumption
  <2>4. Series(l.read, l.to - Ms[l.range], l.to, BucketOf[l.range]) \in SUBSET Points
    BY <2>2, LengthsAndWidths, SeriesPoints
  <2> QED BY <2>1, <2>3, <2>4 DEF Asked, From
<1> QED BY <1>2, <1>3

\* No range, width, list of loads or number of rows, and no failure, takes a variable
\* of the table, the client or the view out of its type; the chart is always a list,
\* though a load begins without one and an answer may be an error.
THEOREM HistoryIsTyped == Spec => []TypeOK
<1>1. ViewInv /\ ClientInv => TypeOK
  <2> SUFFICES ASSUME ViewInv, ClientInv PROVE TypeOK
    OBVIOUS
  <2>1. HistoryTypeOK
    <3>1. request = NoRequest \/ request.kind \in {"series", "reading", "read"}
      BY DEF ClientInv, ClientType, Charts, Reads
    <3> QED BY <3>1 DEF HistoryTypeOK, ClientInv, ClientType
  <2>2. summary \in {None} \cup Tiles
    <3>1. shown # 0 => Counted(loads[shown]) \in Tiles
      <4>1. shown # 0 => loads[shown] \in LoadType
        BY DEF ViewInv, ViewType
      <4> QED BY <4>1, SummaryType DEF LoadType, Counted
    <3> QED BY <3>1 DEF ViewInv, ShownInv
  <2>3. Len(loads) \in 1..MaxLoads
    BY BoundsAssumption DEF ViewInv, ViewType
  <2> QED BY <2>1, <2>2, <2>3, ChartsAreLists DEF TypeOK, ViewInv, ViewType
<1> QED BY <1>1, ViewAlways, ClientAlways, PTL

\* However loads overlap and rows come in between the two queries of one: the tiles
\* and the chart that are shown agree on every sum when the table did not change, on
\* where the events begin and end, and differ by orders only the way it grew.
THEOREM TilesMatchTheChart == Spec => []TilesMatchChart
<1>1. ViewInv => TilesMatchChart
  <2> SUFFICES ASSUME ViewInv, shown # 0 PROVE TilesMatchChart
    BY DEF TilesMatchChart
  <2> DEFINE l == loads[shown]
  <2>1. l \in LoadType /\ buckets = Asked(l) /\ summary = Counted(l)
    BY DEF ViewInv, ViewType, ShownInv
  <2>2. /\ l.read \in SUBSET Events /\ l.counted \in SUBSET Events
        /\ From(l) \in Int /\ l.to \in Int /\ BucketOf[l.range] \in Nat \ {0}
    BY <2>1, LengthsAndWidths DEF LoadType, From
  <2>3. Match(buckets, summary, l.read, l.counted, BucketOf[l.range])
    <3> HIDE DEF l
    <3> QED BY <2>1, <2>2, TilesMatch DEF Asked, Counted
  <2> QED BY <2>3 DEF TilesMatchChart, Match, Total, SumColumns
<1> QED BY <1>1, ViewAlways, PTL
=============================================================================

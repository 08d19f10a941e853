--------------------------- MODULE HistoricalView ---------------------------
(***************************************************************************)
(* The historical view of the dashboard: every load asks for a series and  *)
(* a summary of the range that is selected, two queries at two times, and  *)
(* loads are answered in any order.  Leaving the view drops its state and  *)
(* what is under way.                                                      *)
(***************************************************************************)
EXTENDS History

CONSTANTS
  Ranges,        \* RANGES: what the buttons select
  FirstRange,
  Ms, BucketOf,  \* the length of each range, and its bucket width
  Start,         \* the time when the view is opened
  MaxLoads,      \* bound: loads
  MaxFailures    \* bound: loads that fail

ASSUME RangesAssumption ==
  /\ FirstRange \in Ranges
  /\ \A r \in Ranges : /\ BucketOf[r] \in Nat \ {0} /\ Ms[r] \in Nat
                       /\ ~ Refused(0, Ms[r], BucketOf[r])
ASSUME StartAssumption == Start \in 0..MaxTime
ASSUME BoundsAssumption == MaxLoads \in Nat \ {0} /\ MaxFailures \in Nat
\* No list of points is null.
ASSUME NoneAssumption ==
  \A rows \in SUBSET Events, r \in Ranges, to \in 0..MaxTime :
    Series(rows, to - Ms[r], to, BucketOf[r]) # None

VARIABLES
  now,        \* Date.now()
  rangeId, buckets, summary, loading, error,   \* the state of the component
  loads,      \* the loads started so far
  shown       \* history: the load buckets and summary are from; 0 before the first

view == <<rangeId, buckets, summary, loading, error, loads, shown>>
vars == <<store, client, now, view>>

\* read and counted are history: the table at each of the two queries.
NewLoad(r) == [range |-> r, to |-> now, state |-> "pending", late |-> FALSE,
               series |-> None, read |-> {}, totals |-> None, counted |-> {}]
From(l) == l.to - Ms[l.range]
Pending == {n \in DOMAIN loads : loads[n].state = "pending"}

Init == /\ HistoryInit
        /\ now = Start
        /\ rangeId = FirstRange /\ buckets = {} /\ summary = None
        /\ loading = TRUE /\ error = FALSE
        /\ loads = <<NewLoad(FirstRange)>>
        /\ shown = 0

Advance == /\ now < MaxTime /\ request = NoRequest
           /\ now' = now + 1
           /\ UNCHANGED <<store, client, view>>

(***************************************************************************)
(* load, up to its await.                                                  *)
(***************************************************************************)
Load(r) == /\ Len(loads) < MaxLoads
           /\ loads' = Append(loads, NewLoad(r))
           /\ loading' = TRUE
           /\ error' = FALSE

\* Bug: load does not depend on the range, and the effect not on load.
SelectWithoutLoad(r) ==
  /\ r # rangeId
  /\ rangeId' = r
  /\ UNCHANGED <<store, client, now, buckets, summary, loading, error, loads, shown>>

\* A click on a range: load changes with it, and the effect runs it at once.
Select(r) == /\ r # rangeId
             /\ rangeId' = r
             /\ Load(r)
             /\ UNCHANGED <<store, client, now, buckets, summary, shown>>

Refresh == /\ Load(rangeId)
           /\ UNCHANGED <<store, client, now, rangeId, buckets, summary, shown>>

\* The other tab of the dashboard and back: the component is mounted again.
Reopen ==
  /\ Len(loads) < MaxLoads
  /\ loads' = Append([n \in DOMAIN loads |-> IF n \in Pending
                        THEN [loads[n] EXCEPT !.state = "left"] ELSE loads[n]],
                     NewLoad(FirstRange))
  /\ rangeId' = FirstRange /\ buckets' = {} /\ summary' = None
  /\ loading' = TRUE /\ error' = FALSE /\ shown' = 0
  /\ UNCHANGED <<store, client, now>>

(***************************************************************************)
(* The backend, one query at a time, and the rest of load.                 *)
(***************************************************************************)
AnswerSeries(n) ==
  /\ n \in Pending /\ loads[n].series = None
  /\ LET l == loads[n] IN
       loads' = [loads EXCEPT ![n].series = Series(table, From(l), l.to, BucketOf[l.range]),
                              ![n].read = table]
  /\ UNCHANGED <<store, client, now, rangeId, buckets, summary, loading, error, shown>>

AnswerSummary(n) ==
  /\ n \in Pending /\ loads[n].totals = None
  /\ LET l == loads[n] IN
       loads' = [loads EXCEPT ![n].totals = Summary(table, From(l), l.to), ![n].counted = table]
  /\ UNCHANGED <<store, client, now, rangeId, buckets, summary, loading, error, shown>>

\* Whatever was started after it and is settled already, the answer is shown.
Finish(n) ==
  /\ n \in Pending /\ loads[n].series # None /\ loads[n].totals # None
  /\ buckets' = loads[n].series
  /\ summary' = loads[n].totals
  /\ shown' = n
  /\ loading' = FALSE
  /\ loads' = [loads EXCEPT ![n].state = "done",
                            ![n].late = \E m \in (n + 1)..Len(loads) : m \notin Pending]
  /\ UNCHANGED <<store, client, now, rangeId, error>>

\* Bug: setLoading(false) at the end of the try instead of in the finally.
FailLoading(n) ==
  /\ n \in Pending
  /\ Cardinality({m \in DOMAIN loads : loads[m].state = "failed"}) < MaxFailures
  /\ loads' = [loads EXCEPT ![n].state = "failed"]
  /\ error' = TRUE
  /\ UNCHANGED <<store, client, now, rangeId, buckets, summary, loading, shown>>

\* Bug: the catch sets no data instead of an empty list.
FailClearing(n) ==
  /\ n \in Pending
  /\ Cardinality({m \in DOMAIN loads : loads[m].state = "failed"}) < MaxFailures
  /\ loads' = [loads EXCEPT ![n].state = "failed"]
  /\ error' = TRUE
  /\ buckets' = None
  /\ loading' = FALSE
  /\ UNCHANGED <<store, client, now, rangeId, summary, shown>>

\* Either request fails; the other is not waited for.
Fail(n) ==
  /\ n \in Pending
  /\ Cardinality({m \in DOMAIN loads : loads[m].state = "failed"}) < MaxFailures
  /\ loads' = [loads EXCEPT ![n].state = "failed"]
  /\ error' = TRUE
  /\ loading' = FALSE
  /\ UNCHANGED <<store, client, now, rangeId, buckets, summary, shown>>

View == \/ \E r \in Ranges : Select(r)
        \/ Refresh \/ Reopen
        \/ \E n \in Pending : AnswerSeries(n) \/ AnswerSummary(n) \/ Finish(n) \/ Fail(n)

\* The view and the client only read: a behaviour has one of them, the table is the
\* same for both.
Next == \/ Store /\ UNCHANGED <<now, view>>
        \/ Client /\ loads = <<NewLoad(FirstRange)>> /\ UNCHANGED <<now, view>>
        \/ Advance
        \/ View /\ request = NoRequest

Spec == Init /\ [][Next]_vars

-----------------------------------------------------------------------------
(***************************************************************************)
(* Properties.                                                             *)
(***************************************************************************)
\* What a load holds: the range and the end it was asked for, and the two answers.
LoadType == [range : Ranges, to : 0..MaxTime, state : {"pending", "done", "failed", "left"},
             late : BOOLEAN, series : {None} \cup SUBSET Points, read : SUBSET Events,
             totals : {None} \cup Tiles, counted : SUBSET Events]

\* Every variable has its type.
TypeOK ==
  /\ HistoryTypeOK
  /\ now \in 0..MaxTime
  /\ rangeId \in Ranges
  /\ buckets # None /\ buckets \in SUBSET Points
  /\ summary \in {None} \cup Tiles
  /\ {loading, error} \subseteq BOOLEAN
  /\ loads \in Seq(LoadType) /\ Len(loads) \in 1..MaxLoads
  /\ shown \in 0..Len(loads)

\* The tiles and the chart of one load are two queries: they agree on every sum when
\* nothing was inserted between the two, and the later one has no fewer orders when
\* something was.  Users are counted per bucket in one and once in the other.  The chart
\* begins and ends with the buckets of the first and the last event of the tiles.
TilesMatchChart ==
  LET l == loads[shown]
      total(column) == MapThenSumSet(LAMBDA b : b.tally[column], buckets)
      bucketOf(t) == Bucket(t, BucketOf[l.range])
      points == {b.timestamp : b \in buckets}
  IN shown # 0 =>
       /\ l.read = l.counted =>
            /\ \A c \in {"revenue", "orders", "signups", "refunds"} : total(c) = summary.tally[c]
            /\ summary.tally.users <= total("users")
            /\ \A b \in buckets : b.tally.users <= summary.tally.users
            /\ IF points = {} THEN summary.first = None
               ELSE Min(points) = bucketOf(summary.first) /\ Max(points) = bucketOf(summary.last)
       /\ l.read \subseteq l.counted => total("orders") <= summary.tally.orders
       /\ l.counted \subseteq l.read => summary.tally.orders <= total("orders")

\* The chart is a partition of the events of its range: each is in the one point whose
\* interval holds it, no point is empty, and only the first may begin before the range.
ChartPartitionsRange ==
  LET l == loads[shown]
      width == BucketOf[l.range]
      rows == InRange(l.read, From(l), l.to)
      holds(b, e) == b.timestamp <= e.occurredAt /\ e.occurredAt < b.timestamp + width
  IN shown # 0 =>
       /\ \A b \in buckets : /\ b.timestamp % width = 0
                             /\ From(l) - width < b.timestamp /\ b.timestamp < l.to
                             /\ b.tally = Tally({e \in rows : holds(b, e)})
                             /\ \E e \in rows : holds(b, e)
       /\ \A e \in rows : Cardinality({b \in buckets : holds(b, e)}) = 1

\* The view shows another range than the selected one only while a load is under way,
\* beside an error message, or because an answer came later than that of a load
\* started after it.
LabelFits ==
  shown # 0 /\ loads[shown].range # rangeId => Pending # {} \/ error \/ loads[shown].late

\* The view says that it is loading only while a load is under way that will end it.
\* The converse fails: of two loads the first to settle ends it for both.
LoadingMeansUnderWay == loading => Pending # {}
=============================================================================

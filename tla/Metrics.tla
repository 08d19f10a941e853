------------------------------ MODULE Metrics ------------------------------
(***************************************************************************)
(* MetricsService: the trailing window, the lifetime totals, the snapshot  *)
(* and the alerts of one process, with the three callers of it: the ingest *)
(* path (primeTotals, record), the 2s tick and a connecting dashboard.     *)
(*                                                                         *)
(* Amounts are integers (cents: the code rounds to them).  The clock only  *)
(* moves forward; an event's own time is whatever its producer says.       *)
(***************************************************************************)
EXTENDS Integers, Sequences, FiniteSets, SequencesExt

CONSTANTS
  Kinds,        \* [type, amount, userId] of the events that arrive
  Skews,        \* an event's time minus its arrival time
  Primes,       \* lifetime totals the table may hold at boot
  ActiveUserWindow, RateWindow, Warmup,     \* the *_MS constants
  RevenueSpike, RevenueDrop, OrdersSurge,   \* the alert thresholds
  MaxClock,     \* bound: time
  MaxEvents,    \* bound: events recorded
  MaxTicks      \* bound: ticks remembered

ASSUME KindsAssumption ==
  Kinds \subseteq [type : {"order", "signup", "refund", "page_view"},
                   amount : Int, userId : STRING]
ASSUME SkewsAssumption == Skews \subseteq Int
ASSUME PrimesAssumption == Primes \subseteq [revenue : Int, orders : Nat]
ASSUME WindowsAssumption == /\ ActiveUserWindow \in Nat
                            /\ RateWindow \in 0..ActiveUserWindow
                            /\ Warmup \in Nat
ASSUME ThresholdsAssumption == {RevenueSpike, RevenueDrop, OrdersSurge} \subseteq Int
ASSUME BoundsAssumption == {MaxClock, MaxEvents, MaxTicks} \subseteq Nat

VARIABLES
  now,          \* Date.now(); the process was constructed at time 0
  watching,     \* when the ingest path subscribed; -1 before
  window,       \* WindowEntry[]
  totals,       \* totalRevenue, totalOrders
  activeKeys,   \* activeAlertKeys
  primed,       \* history: what primeTotals was given
  gone,         \* history: the entries shifted out of the window
  prunedAt,     \* history: when prune last ran
  ticks         \* history: per tick, the alerts breached and those announced

vars == <<now, watching, window, totals, activeKeys, primed, gone, prunedAt, ticks>>

\* came is history: when the entry was recorded.
Entries == [type : {"order", "signup", "refund", "page_view"},
            amount : Int, userId : STRING, at : Int, came : Nat]
Keys == {"revenue:above", "revenue:below", "orders:above"}

(***************************************************************************)
(* snapshot and evaluateAlerts, as functions of a list of entries.         *)
(***************************************************************************)
RateCount(w, t, type) ==
  Cardinality({j \in DOMAIN w : w[j].at >= t - RateWindow /\ w[j].type = type})

\* Bug: the entry on the cutoff is left out.
RevenueExclusive(w, t) ==
  FoldLeft(LAMBDA sum, entry : IF entry.at <= t - RateWindow THEN sum ELSE sum + entry.amount,
           0, w)

Revenue(w, t) ==
  FoldLeft(LAMBDA sum, entry : IF entry.at < t - RateWindow THEN sum ELSE sum + entry.amount,
           0, w)

ActiveUsers(w, t) ==
  Cardinality({w[j].userId : j \in {k \in DOMAIN w : w[k].at >= t - ActiveUserWindow}})

\* Bug: the key of an alert is its metric, without the direction.
MetricKeyed(revenue, orders, t) ==
  (IF revenue > RevenueSpike \/ (t >= Warmup /\ revenue < RevenueDrop) THEN {"revenue"} ELSE {})
  \cup (IF orders > OrdersSurge THEN {"orders"} ELSE {})

\* t is the age of the process, now - startedAt.
EvaluateAlerts(revenue, orders, t) ==
  {k \in Keys : \/ k = "revenue:above" /\ revenue > RevenueSpike
                \/ k = "revenue:below" /\ t >= Warmup /\ revenue < RevenueDrop
                \/ k = "orders:above"  /\ orders > OrdersSurge}

Snapshot(w, t, sums) ==
  LET revenue == Revenue(w, t)
      orders  == RateCount(w, t, "order")
  IN [revenueLast60s |-> revenue, ordersLast60s |-> orders,
      signupsLast60s |-> RateCount(w, t, "signup"),
      activeUsers |-> ActiveUsers(w, t),
      totalRevenue |-> sums.revenue, totalOrders |-> sums.orders,
      alerts |-> EvaluateAlerts(revenue, orders, t)]

Stale(entry, t) == entry.at < t - ActiveUserWindow

\* Bug: everything up to the last stale entry goes.
PruneThrough(w) ==
  \E n \in 0..Len(w) :
    /\ n > 0 => Stale(w[n], now)
    /\ \A j \in (n + 1)..Len(w) : ~ Stale(w[j], now)
    /\ window' = SubSeq(w, n + 1, Len(w))
    /\ gone' = gone \o SubSeq(w, 1, n)
    /\ prunedAt' = now

\* Bug: one entry at most is shifted, an if for the while.
PruneOne(w) ==
  \E n \in 0..1 :
    /\ n = 1 <=> (w # <<>> /\ Stale(Head(w), now))
    /\ window' = SubSeq(w, n + 1, Len(w))
    /\ gone' = gone \o SubSeq(w, 1, n)
    /\ prunedAt' = now

\* Shift stale entries off the front of w, up to the first that is not.
Prune(w) ==
  \E n \in 0..Len(w) :
    /\ \A j \in 1..n : Stale(w[j], now)
    /\ n < Len(w) => ~ Stale(w[n + 1], now)
    /\ window' = SubSeq(w, n + 1, Len(w))
    /\ gone' = gone \o SubSeq(w, 1, n)
    /\ prunedAt' = now

Init == /\ now = 0 /\ watching = -1
        /\ window = <<>> /\ gone = <<>> /\ prunedAt = 0
        /\ totals = [revenue |-> 0, orders |-> 0]
        /\ primed = totals
        /\ activeKeys = {} /\ ticks = <<>>

Advance == /\ now < MaxClock
           /\ now' = now + 1
           /\ UNCHANGED <<watching, window, totals, activeKeys, primed, gone, prunedAt, ticks>>

\* The ingest path reads the totals, then waits for Redis; the tick and the
\* dashboards start after it.
PrimeTotals == /\ watching = -1
               /\ \E p \in Primes : totals' = p /\ primed' = p
               /\ watching' = now
               /\ UNCHANGED <<now, window, activeKeys, gone, prunedAt, ticks>>

Record ==
  /\ watching >= 0
  /\ Len(gone) + Len(window) < MaxEvents
  /\ \E k \in Kinds, skew \in Skews :
       LET entry == [type |-> k.type, amount |-> k.amount, userId |-> k.userId,
                     at |-> now + skew, came |-> now]
       IN /\ Prune(Append(window, entry))
          /\ totals' = [revenue |-> totals.revenue + k.amount,
                        orders  |-> totals.orders + (IF k.type = "order" THEN 1 ELSE 0)]
  /\ UNCHANGED <<now, watching, activeKeys, primed, ticks>>

\* broadcastMetrics: snapshot, then takeNewlyRaised.
Tick ==
  /\ watching >= 0
  /\ Len(ticks) < MaxTicks
  /\ Prune(window)
  /\ LET breached == Snapshot(window, now, totals).alerts
     IN /\ activeKeys' = breached
        /\ ticks' = Append(ticks, [at |-> now, breached |-> breached,
                                   announced |-> breached \ activeKeys])
  /\ UNCHANGED <<now, watching, totals, primed>>

\* Bug: the snapshot of a connecting dashboard takes the newly raised alerts.
ConnectTaking ==
  /\ watching >= 0
  /\ Prune(window)
  /\ activeKeys' = Snapshot(window, now, totals).alerts
  /\ UNCHANGED <<now, watching, totals, primed, ticks>>

\* sendSnapshot: snapshot only.
Connect == /\ watching >= 0
           /\ Prune(window)
           /\ UNCHANGED <<now, watching, totals, activeKeys, primed, ticks>>

Next == Advance \/ PrimeTotals \/ Record \/ Tick \/ Connect

Spec == Init /\ [][Next]_vars

-----------------------------------------------------------------------------
Recorded == gone \o window

\* Every variable has its type.
TypeOK ==
  /\ now \in Nat
  /\ watching \in {-1} \cup Nat
  /\ window \in Seq(Entries) /\ gone \in Seq(Entries)
  /\ totals \in [revenue : Int, orders : Int]
  /\ primed \in [revenue : Int, orders : Int]
  /\ activeKeys \in SUBSET Keys
  /\ prunedAt \in Nat
  /\ ticks \in Seq([at : Nat, breached : SUBSET Keys, announced : SUBSET Keys])

\* Whatever the order and the timestamps of the events, prune takes away only
\* entries the active-user window no longer covers: what snapshot reads is never
\* missing an event it should count.
WindowComplete == \A j \in DOMAIN gone : Stale(gone[j], now)

\* The numbers a snapshot shows now are those of every event ever recorded: as
\* sets over the whole history, not as one pass over a pruned list.
SnapshotExact ==
  LET r == Recorded
      Rate == {j \in DOMAIN r : r[j].at >= now - RateWindow}
      Of(type, S) == {j \in S : r[j].type = type}
      Sum(S) == MapThenSumSet(LAMBDA j : r[j].amount, S)
  IN Snapshot(window, now, totals) =
       [revenueLast60s |-> Sum(Rate),
        ordersLast60s  |-> Cardinality(Of("order", Rate)),
        signupsLast60s |-> Cardinality(Of("signup", Rate)),
        activeUsers    |-> Cardinality({u \in {k.userId : k \in Kinds} :
                             \E j \in DOMAIN r : /\ r[j].userId = u
                                                 /\ r[j].at >= now - ActiveUserWindow}),
        totalRevenue   |-> primed.revenue + Sum(DOMAIN r),
        totalOrders    |-> primed.orders + Cardinality(Of("order", DOMAIN r)),
        alerts |-> (IF Sum(Rate) > RevenueSpike THEN {"revenue:above"} ELSE {})
              \cup (IF Sum(Rate) < RevenueDrop /\ now >= Warmup THEN {"revenue:below"} ELSE {})
              \cup (IF Cardinality(Of("order", Rate)) > OrdersSurge
                      THEN {"orders:above"} ELSE {})]

\* The window is five minutes of events, however far ahead of the clock a producer's
\* timestamps are: the last prune left an event that came longer ago than that only
\* behind one whose timestamp was ahead of its arrival, and no longer than it was ahead.
WindowBounded ==
  \A j \in DOMAIN window : \E i \in 1..j :
    prunedAt - window[j].came <= ActiveUserWindow + (window[i].at - window[i].came)

\* A breach is announced when it starts and not again while it lasts, whoever
\* connects in between: every tick that sees it is in an episode of ticks that
\* all see it, announced at the first of them only.
OneAlertPerEpisode ==
  \A n \in DOMAIN ticks : \A k \in ticks[n].breached :
    \E m \in 1..n : /\ k \in ticks[m].announced
                    /\ \A j \in m..n : k \in ticks[j].breached
                    /\ \A j \in (m + 1)..n : k \notin ticks[j].announced
                    /\ m > 1 => k \notin ticks[m - 1].breached

\* "Alerts stay quiet until the process has been watching for this long": a
\* revenue drop is announced only after Warmup of watching.
DropNeedsWatching ==
  \A n \in DOMAIN ticks :
    "revenue:below" \in ticks[n].announced => ticks[n].at - watching >= Warmup
=============================================================================

------------------------------ MODULE History ------------------------------
(***************************************************************************)
(* The read side of the events table: the aggregations of EventsRepository *)
(* as operators on a set of rows, the guards of EventsService, and a       *)
(* client of the REST API, which asks for one series, or reads a range     *)
(* page by page, while the ingest path goes on inserting.                  *)
(*                                                                         *)
(* Times and widths are integers of one unit; an average is the fraction    *)
(* of its sum and its number of events.                                    *)
(***************************************************************************)
EXTENDS Integers, Sequences, SequencesExt, FiniteSetsExt

CONSTANTS
  Events,         \* rows that may be inserted
  MaxBuckets, DefaultBucket,
  Widths,         \* bucket widths clients ask for
  Limit,          \* the page size of the client
  MaxTime,        \* bound: ends of ranges
  MaxInserts,     \* bound: batches inserted while somebody reads
  None

Types == {"order", "signup", "refund", "page_view"}

ASSUME EventsAssumption ==
  /\ IsFiniteSet(Events)
  /\ \A e \in Events : /\ e.occurredAt \in Int /\ e.amount \in Int /\ e.type \in Types
                       /\ {"id", "userId"} \subseteq DOMAIN e
ASSUME SizesAssumption == {MaxBuckets, DefaultBucket, Limit} \cup Widths \subseteq Nat \ {0}
ASSUME LimitsAssumption == {MaxTime, MaxInserts} \subseteq Nat

VARIABLES
  table,      \* rows of the events table
  inserts,    \* what is used of the bound
  request,    \* what the client asked for
  answer,     \* to a request for a series
  got,        \* the pages read, one after the other
  began       \* history: the table when the first page was asked for

store  == <<table, inserts>>
client == <<request, answer, got, began>>

(***************************************************************************)
(* The queries.                                                            *)
(***************************************************************************)
InRange(rows, from, to) == {e \in rows : from <= e.occurredAt /\ e.occurredAt < to}

\* The columns both aggregations select.
Tally(rows) ==
  LET ofType(type) == Cardinality({e \in rows : e.type = type}) IN
    [revenue |-> MapThenSumSet(LAMBDA e : e.amount, rows),
     orders  |-> ofType("order"),
     signups |-> ofType("signup"),
     refunds |-> ofType("refund"),
     users   |-> Cardinality({e.userId : e \in rows})]

\* Bug: rounded to the nearest bucket.
BucketRounded(t, width) == ((2 * t + width) \div (2 * width)) * width

\* to_timestamp(floor(epoch / width) * width).
Bucket(t, width) == (t \div width) * width

Series(rows, from, to, width) ==
  LET hit == InRange(rows, from, to) IN
    {[timestamp |-> b, tally |-> Tally({e \in hit : Bucket(e.occurredAt, width) = b})] :
       b \in {Bucket(e.occurredAt, width) : e \in hit}}

\* The columns of the summary: the tally, the average of the orders, the first event, the last.
Totals(rows) ==
  LET orders == {e \in rows : e.type = "order"}
      times  == {e.occurredAt : e \in rows}
  IN [tally   |-> Tally(rows),
      average |-> <<MapThenSumSet(LAMBDA e : e.amount, orders), Cardinality(orders)>>,
      first   |-> IF rows = {} THEN None ELSE Min(times),
      last    |-> IF rows = {} THEN None ELSE Max(times)]

\* Bug: BETWEEN from AND to.
SummaryThrough(rows, from, to) == Totals(InRange(rows, from, to + 1))

Summary(rows, from, to) == Totals(InRange(rows, from, to))

\* Bug: the guard divides by the default width.
RefusedByDefault(from, to, width) == from >= to \/ to - from > MaxBuckets * DefaultBucket

\* resolveRange, and the guard on the number of buckets.
Refused(from, to, width) == from >= to \/ to - from > MaxBuckets * width

\* ORDER BY occurred_at DESC: equal times come in any order, another one each time.
NewestFirst(rows) ==
  {s \in SetToSeqs(rows) : \A i \in 1..Len(s) - 1 : s[i].occurredAt >= s[i + 1].occurredAt}

\* The WHERE of the list, with or without its type clause.
Listed(rows, from, to, type) == {e \in InRange(rows, from, to) : type \in {None, e.type}}

\* Bug: the page after the first begins one row further.
PagesOffByOne(rows, from, to, type, limit, offset) ==
  LET skip == IF offset = 0 THEN 0 ELSE offset + 1 IN
    {SubSeq(s, skip + 1, Min({skip + limit, Len(s)})) :
       s \in NewestFirst(Listed(rows, from, to, type))}

\* LIMIT and OFFSET.
Pages(rows, from, to, type, limit, offset) ==
  {SubSeq(s, offset + 1, Min({offset + limit, Len(s)})) :
     s \in NewestFirst(Listed(rows, from, to, type))}

(***************************************************************************)
(* The table and a client.                                                 *)
(***************************************************************************)
NoRequest == [kind |-> "none"]

\* Somebody begins to read at any time in the life of the table.
HistoryInit == /\ table \in SUBSET Events /\ inserts = 0
               /\ request = NoRequest /\ answer = None /\ got = <<>> /\ began = {}

\* The ingest path inserts a batch; producers may be late, or ahead of the clock.
Store == /\ inserts < MaxInserts
         /\ inserts' = inserts + 1
         /\ \E batch \in SUBSET (Events \ table) \ {{}} : table' = table \cup batch
         /\ UNCHANGED client

AskSeries(from, to, width) ==
  /\ request = NoRequest
  /\ request' = [kind |-> "series", from |-> from, to |-> to, width |-> width]
  /\ answer' = IF Refused(from, to, width) THEN None ELSE Series(table, from, to, width)
  /\ UNCHANGED <<store, got, began>>

\* The first page, of every event or of one type.
AskEvents(from, to, type) ==
  /\ request = NoRequest
  /\ from < to
  /\ \E page \in Pages(table, from, to, type, Limit, 0) :
       /\ got' = page
       /\ request' = [kind |-> IF Len(page) < Limit THEN "read" ELSE "reading",
                      from |-> from, to |-> to, type |-> type]
  /\ began' = table
  /\ UNCHANGED <<store, answer>>

\* The next one, as many rows further as were read; a short page is the last.
NextPage ==
  /\ request.kind = "reading"
  /\ \E page \in Pages(table, request.from, request.to, request.type, Limit, Len(got)) :
       /\ got' = got \o page
       /\ request' = [request EXCEPT !.kind = IF Len(page) < Limit THEN "read" ELSE "reading"]
  /\ UNCHANGED <<store, answer, began>>

Client == \/ \E from, to \in 0..MaxTime : \/ \E type \in Types \cup {None} : AskEvents(from, to, type)
                                          \/ \E width \in Widths : AskSeries(from, to, width)
          \/ NextPage

-----------------------------------------------------------------------------
Tallies == [revenue : Int, orders : Nat, signups : Nat, refunds : Nat, users : Nat]
Points  == [timestamp : Int, tally : Tallies]
Tiles   == [tally : Tallies, average : Int \X Nat, first : Int \cup {None}, last : Int \cup {None}]

HistoryTypeOK ==
  /\ table \in SUBSET Events
  /\ inserts \in 0..MaxInserts
  /\ began \in SUBSET table
  /\ got \in Seq(Events)
  /\ request = NoRequest \/ request.kind \in {"series", "reading", "read"}
  /\ answer \in {None} \cup SUBSET Points

\* The guard bounds what is shipped: a range not aligned to the width touches one
\* bucket more than the guard counts, and never two.
SeriesBounded == answer # None => Cardinality(answer) <= MaxBuckets + 1

\* Reading page by page, while rows are inserted: an event whose time no other of the
\* list has is never hidden, and appears twice only behind a newer one that was
\* inserted; what was read is the list itself when none was and no two times are
\* equal.  Events with the same time may change places from one page to the next, so
\* that one of them is hidden by another: only those.
PagesComplete ==
  LET there == Listed(began, request.from, request.to, request.type)
      now   == Listed(table, request.from, request.to, request.type)
      alone(e) == \A f \in now : f.occurredAt = e.occurredAt => f = e
  IN request.kind = "read" =>
       /\ \A e \in there : alone(e) => e \in ToSet(got)
       /\ now = there /\ (\A e \in now : alone(e)) => NewestFirst(there) = {got}
       /\ \A i, j \in DOMAIN got : i < j /\ got[i] = got[j] /\ alone(got[i]) =>
            \E e \in now \ there : e.occurredAt > got[i].occurredAt
=============================================================================

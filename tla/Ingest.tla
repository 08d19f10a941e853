------------------------------- MODULE Ingest -------------------------------
(***************************************************************************)
(* The ingest path of one or several backends: every backend subscribes to *)
(* the Redis channel, validates each message, counts it, shows it to the   *)
(* dashboards, queues it for persistence and pushes it on the shared cache *)
(* of recent events; batches of queued events are inserted in Postgres.    *)
(*                                                                         *)
(* Message handlers, timers and the replies of Redis and Postgres are      *)
(* separate turns of the event loop, so each is an action of its own.  A   *)
(* reply and the code that runs on it are one action: nothing else of the  *)
(* backend runs between the two but other turns that commute with it.      *)
(***************************************************************************)
EXTENDS Naturals, Sequences, SequencesExt

CONSTANTS
  Instances,    \* backend processes
  Messages,     \* payloads a producer may publish
  Events,       \* events, told apart by their id
  NoEvent,      \* what the validator returns for a malformed payload
  Parse,        \* the validator, a function on Messages
  Storable,     \* the events whose columns Postgres accepts
  MaxBatch,     \* MAX_BATCH
  MaxRows,      \* rows a statement may have (65535 parameters, 7 per row)
  FeedSize,     \* EVENT_FEED_SIZE
  MaxFlights,   \* bound: inserts of one backend in flight at once
  MaxResends,   \* bound: commands Redis executes a second time
  MaxRestarts,  \* bound: shutdowns and crashes
  MaxOutages    \* bound: inserts that fail through no fault of their rows

ASSUME ParseAssumption == Parse \in [Messages -> Events \cup {NoEvent}]
ASSUME NoEventAssumption == NoEvent \notin Events
ASSUME StorableAssumption == Storable \subseteq Events
ASSUME BatchAssumption == MaxBatch \in Nat \ {0} /\ MaxRows \in Nat \ {0}
ASSUME FeedAssumption == FeedSize \in Nat \ {0}
ASSUME BoundsAssumption == /\ MaxFlights \in Nat \ {0}
                           /\ {MaxResends, MaxRestarts, MaxOutages} \subseteq Nat

Flights == 1..MaxFlights

VARIABLES
  channel,      \* messages Redis was asked to publish, in order
  resends, restarts, outages,   \* what is used of each bound
  phase,        \* where each backend is in its life
  inbox,        \* its subscriber connection: published, not yet handled
  pending,      \* IngestService.pending
  flight,       \* its insertMany calls that Postgres has not answered
  caching,      \* its cacheEvent calls that Redis has not executed
  counted,      \* MetricsService totals: how often each event is in them
  dropped,      \* droppedMessages
  table,        \* rows of the events table
  cache,        \* the pulseboard:feed list, newest first
  streamed,     \* history: events some backend handed to its EventStream
  late,         \* history: events a backend handled after its shutdown began
  lost          \* history: events of a batch that was given up

budget  == <<resends, restarts, outages>>
wire    == <<channel, inbox>>
batches == <<pending, flight>>
totals  == <<counted, dropped>>
stores  == <<table, cache>>
history == <<streamed, late, lost>>
vars == <<budget, wire, phase, batches, caching, totals, stores, history>>

Phases    == {"down", "primed", "subscribed", "up", "closing"}
Listening == {"subscribed", "up", "closing"}
Handling  == {"up", "closing"}
NoFlights == [f \in Flights |-> <<>>]

Init == /\ channel = <<>>
        /\ resends = 0 /\ restarts = 0 /\ outages = 0
        /\ phase   = [i \in Instances |-> "down"]
        /\ inbox   = [i \in Instances |-> <<>>]
        /\ pending = [i \in Instances |-> <<>>]
        /\ flight  = [i \in Instances |-> NoFlights]
        /\ caching = [i \in Instances |-> <<>>]
        /\ counted = [i \in Instances |-> [e \in Events |-> 0]]
        /\ dropped = [i \in Instances |-> 0]
        /\ table = {} /\ cache = <<>>
        /\ streamed = {} /\ lost = {}
        /\ late = [i \in Instances |-> {}]

(***************************************************************************)
(* The channel.  A message reaches the backends subscribed at that moment. *)
(***************************************************************************)
Deliver(m) ==
  /\ channel' = Append(channel, m)
  /\ inbox' = [i \in Instances |-> IF phase[i] \in Listening
                                   THEN Append(inbox[i], m) ELSE inbox[i]]
  /\ UNCHANGED <<phase, batches, caching, totals, stores, history>>

Publish(m) == /\ m \notin ToSet(channel)
              /\ Deliver(m)
              /\ UNCHANGED budget

\* The producer's connection broke before the reply: its client sends the
\* PUBLISH again.
Republish(m) == /\ m \in ToSet(channel)
                /\ resends < MaxResends
                /\ resends' = resends + 1
                /\ Deliver(m)
                /\ UNCHANGED <<restarts, outages>>

\* The subscriber connection breaks: what was on it is gone, the client
\* subscribes again by itself.
SubscriberReset(i) ==
  /\ inbox[i] # <<>>
  /\ inbox' = [inbox EXCEPT ![i] = <<>>]
  /\ UNCHANGED <<budget, channel, phase, batches, caching, totals, stores, history>>

(***************************************************************************)
(* onModuleInit, one action per await.                                     *)
(***************************************************************************)
\* Bug: totals start from nothing instead of from the table.
BootUnprimed(i) ==
  /\ phase[i] = "down"
  /\ phase' = [phase EXCEPT ![i] = "primed"]
  /\ UNCHANGED <<budget, wire, batches, caching, totals, stores, history>>

Boot(i) ==
  /\ phase[i] = "down"
  /\ phase' = [phase EXCEPT ![i] = "primed"]
  /\ counted' = [counted EXCEPT ![i] = [e \in Events |-> IF e \in table THEN 1 ELSE 0]]
  /\ UNCHANGED <<budget, wire, batches, caching, dropped, stores, history>>

Subscribe(i) ==
  /\ phase[i] = "primed"
  /\ phase' = [phase EXCEPT ![i] = "subscribed"]
  /\ UNCHANGED <<budget, wire, batches, caching, totals, stores, history>>

\* A message that arrives after SUBSCRIBE and before on('message').
Unheard(i) ==
  /\ phase[i] = "subscribed"
  /\ inbox[i] # <<>>
  /\ inbox' = [inbox EXCEPT ![i] = Tail(@)]
  /\ UNCHANGED <<budget, channel, phase, batches, caching, totals, stores, history>>

Listen(i) ==
  /\ phase[i] = "subscribed"
  /\ phase' = [phase EXCEPT ![i] = "up"]
  /\ UNCHANGED <<budget, wire, batches, caching, totals, stores, history>>

(***************************************************************************)
(* handleMessage, up to its await.                                         *)
(***************************************************************************)
HandleMalformed(i) ==
  /\ phase[i] \in Handling
  /\ inbox[i] # <<>>
  /\ Parse[Head(inbox[i])] = NoEvent
  /\ inbox' = [inbox EXCEPT ![i] = Tail(@)]
  /\ dropped' = [dropped EXCEPT ![i] = @ + 1]
  /\ UNCHANGED <<budget, channel, phase, batches, caching, counted, stores, history>>

\* Bug: the event is counted and queued, and the stream not told.
HandleEventMute(i) ==
  /\ phase[i] \in Handling
  /\ inbox[i] # <<>>
  /\ LET e == Parse[Head(inbox[i])] IN
       /\ e # NoEvent
       /\ counted' = [counted EXCEPT ![i][e] = @ + 1]
       /\ pending' = [pending EXCEPT ![i] = Append(@, e)]
       /\ caching' = [caching EXCEPT ![i] = Append(@, e)]
  /\ inbox' = [inbox EXCEPT ![i] = Tail(@)]
  /\ UNCHANGED <<budget, channel, phase, flight, dropped, stores, history>>

HandleEvent(i) ==
  /\ phase[i] \in Handling
  /\ inbox[i] # <<>>
  /\ LET e == Parse[Head(inbox[i])] IN
       /\ e # NoEvent
       /\ counted' = [counted EXCEPT ![i][e] = @ + 1]
       /\ streamed' = streamed \cup {e}
       /\ pending' = [pending EXCEPT ![i] = Append(@, e)]
       /\ caching' = [caching EXCEPT ![i] = Append(@, e)]
       /\ late' = IF phase[i] = "closing"
                  THEN [late EXCEPT ![i] = @ \cup {e}] ELSE late
  /\ inbox' = [inbox EXCEPT ![i] = Tail(@)]
  /\ UNCHANGED <<budget, channel, phase, flight, dropped, stores, lost>>

(***************************************************************************)
(* flush, up to its await: the queue becomes a batch in flight.            *)
(***************************************************************************)
FirstFree(i, f) == /\ flight[i][f] = <<>>
                   /\ \A g \in Flights : flight[i][g] = <<>> => f <= g

Flush(i) ==
  \/ /\ pending[i] = <<>>
     /\ UNCHANGED batches
  \/ /\ pending[i] # <<>>
     /\ \E f \in Flights :
          /\ FirstFree(i, f)
          /\ flight' = [flight EXCEPT ![i][f] = pending[i]]
          /\ pending' = [pending EXCEPT ![i] = <<>>]

\* Bug: the timer, too, waits for a full batch.
TimerFlushFull(i) ==
  /\ phase[i] = "up"
  /\ Len(pending[i]) >= MaxBatch
  /\ Flush(i)
  /\ UNCHANGED <<budget, wire, phase, caching, totals, stores, history>>

TimerFlush(i) ==
  /\ phase[i] = "up"
  /\ Flush(i)
  /\ UNCHANGED <<budget, wire, phase, caching, totals, stores, history>>

(***************************************************************************)
(* cacheEvent: MULTI LPUSH LTRIM EXEC, in the order the calls were made on *)
(* the one command connection; then the rest of handleMessage.             *)
(***************************************************************************)
\* Bug: LTRIM to feedSize, whose end is inclusive.
TrimInclusive(list) == SubSeq(list, 1, IF Len(list) > FeedSize THEN FeedSize + 1 ELSE Len(list))

Trim(list) == SubSeq(list, 1, IF Len(list) > FeedSize THEN FeedSize ELSE Len(list))

\* Bug: RPUSH.
PushedLast(s, list) == Trim(list \o s)

\* The list after the calls of the sequence s, first to last.
Pushed(s, list) == Trim(Reverse(s) \o list)

AfterCaching(i) ==
  /\ caching' = [caching EXCEPT ![i] = Tail(@)]
  /\ IF Len(pending[i]) >= MaxBatch THEN Flush(i) ELSE UNCHANGED batches
  /\ UNCHANGED <<budget, wire, phase, totals, table, history>>

CacheOk(i) == /\ caching[i] # <<>>
              /\ cache' = Pushed(<<Head(caching[i])>>, cache)
              /\ AfterCaching(i)

CacheFail(i) == /\ caching[i] # <<>>
                /\ UNCHANGED cache
                /\ AfterCaching(i)

\* Redis executed the transaction, the reply was lost with the connection and
\* the client sends it again.
CacheResend(i) ==
  /\ caching[i] # <<>>
  /\ resends < MaxResends
  /\ resends' = resends + 1
  /\ cache' = Pushed(<<Head(caching[i])>>, cache)
  /\ UNCHANGED <<restarts, outages, wire, phase, batches, caching, totals, table, history>>

(***************************************************************************)
(* insertMany: one statement, all rows or none.                            *)
(***************************************************************************)
Insertable(batch) == ToSet(batch) \subseteq Storable /\ Len(batch) <= MaxRows

\* Bug: the queue is emptied when the insert returns, not when it starts.
InsertOkClearing(i, f) ==
  /\ flight[i][f] # <<>>
  /\ Insertable(flight[i][f])
  /\ table' = table \cup ToSet(flight[i][f])
  /\ flight' = [flight EXCEPT ![i][f] = <<>>]
  /\ pending' = [pending EXCEPT ![i] = <<>>]
  /\ UNCHANGED <<budget, wire, phase, caching, totals, cache, history>>

InsertOk(i, f) ==
  /\ flight[i][f] # <<>>
  /\ Insertable(flight[i][f])
  /\ table' = table \cup ToSet(flight[i][f])
  /\ flight' = [flight EXCEPT ![i][f] = <<>>]
  /\ UNCHANGED <<budget, wire, phase, pending, caching, totals, cache, history>>

\* The catch of flush.  Rows Postgres refuses fail the statement every time; a
\* broken connection fails it before or after its commit.
InsertFail(i, f) ==
  /\ flight[i][f] # <<>>
  /\ \/ /\ ~ Insertable(flight[i][f])
        /\ UNCHANGED <<outages, table>>
     \/ /\ outages < MaxOutages
        /\ outages' = outages + 1
        /\ \/ UNCHANGED table
           \/ /\ Insertable(flight[i][f])
              /\ table' = table \cup ToSet(flight[i][f])
  /\ lost' = lost \cup ToSet(flight[i][f])
  /\ flight' = [flight EXCEPT ![i][f] = <<>>]
  /\ UNCHANGED <<resends, restarts, wire, phase, pending, caching, totals, cache, streamed, late>>

(***************************************************************************)
(* onModuleDestroy and the end of the process.  The subscriber stays       *)
(* subscribed during the final flush; the connections to Redis and to      *)
(* Postgres close once what was sent on them is answered.                  *)
(***************************************************************************)
\* Bug: no final flush.
BeginShutdownUnflushed(i) ==
  /\ phase[i] = "up"
  /\ restarts < MaxRestarts
  /\ restarts' = restarts + 1
  /\ phase' = [phase EXCEPT ![i] = "closing"]
  /\ late' = [late EXCEPT ![i] = {}]
  /\ UNCHANGED <<resends, outages, wire, batches, caching, totals, stores, streamed, lost>>

BeginShutdown(i) ==
  /\ phase[i] = "up"
  /\ restarts < MaxRestarts
  /\ restarts' = restarts + 1
  /\ phase' = [phase EXCEPT ![i] = "closing"]
  /\ late' = [late EXCEPT ![i] = {}]
  /\ Flush(i)
  /\ UNCHANGED <<resends, outages, wire, caching, totals, stores, streamed, lost>>

\* Memory is gone with the process.
Gone(i) == /\ phase'   = [phase   EXCEPT ![i] = "down"]
           /\ inbox'   = [inbox   EXCEPT ![i] = <<>>]
           /\ pending' = [pending EXCEPT ![i] = <<>>]
           /\ flight'  = [flight  EXCEPT ![i] = NoFlights]
           /\ caching' = [caching EXCEPT ![i] = <<>>]
           /\ counted' = [counted EXCEPT ![i] = [e \in Events |-> 0]]
           /\ dropped' = [dropped EXCEPT ![i] = 0]
           /\ UNCHANGED <<resends, outages, channel, streamed, late>>

Exit(i) ==
  /\ phase[i] = "closing"
  /\ flight[i] = NoFlights
  /\ caching[i] = <<>>
  /\ lost' = lost \cup ToSet(pending[i])
  /\ Gone(i)
  /\ UNCHANGED <<restarts, stores>>

InFlight(i) == UNION {ToSet(flight[i][f]) : f \in Flights}

\* The process is killed: Redis may have executed some of the calls sent to it,
\* Postgres may commit some of the statements.
Crash(i) ==
  /\ phase[i] # "down"
  /\ restarts < MaxRestarts
  /\ restarts' = restarts + 1
  /\ \E n \in 0..Len(caching[i]) : cache' = Pushed(SubSeq(caching[i], 1, n), cache)
  /\ \E C \in SUBSET {f \in Flights : Insertable(flight[i][f])} :
       /\ table' = table \cup UNION {ToSet(flight[i][f]) : f \in C}
       /\ lost' = lost \cup ToSet(pending[i])
                       \cup UNION {ToSet(flight[i][f]) : f \in Flights \ C}
  /\ Gone(i)

Next ==
  \/ \E m \in Messages : Publish(m) \/ Republish(m)
  \/ \E i \in Instances :
       \/ SubscriberReset(i)
       \/ Boot(i) \/ Subscribe(i) \/ Unheard(i) \/ Listen(i)
       \/ HandleMalformed(i) \/ HandleEvent(i)
       \/ TimerFlush(i) \/ CacheOk(i) \/ CacheFail(i) \/ CacheResend(i)
       \/ \E f \in Flights : InsertOk(i, f) \/ InsertFail(i, f)
       \/ BeginShutdown(i) \/ Exit(i) \/ Crash(i)

Spec == Init /\ [][Next]_vars

\* setInterval fires while the process is up, and Postgres answers or the
\* connection breaks; a process told to stop does stop.  Nothing is assumed of
\* Redis but that the calls made on its connection settle.
Fairness == \A i \in Instances :
              /\ WF_vars(TimerFlush(i))
              /\ WF_vars(CacheOk(i) \/ CacheFail(i))
              /\ \A f \in Flights : WF_vars(InsertOk(i, f) \/ InsertFail(i, f))
              /\ WF_vars(Exit(i))

FairSpec == Spec /\ Fairness

-----------------------------------------------------------------------------
(***************************************************************************)
(* Properties.                                                             *)
(***************************************************************************)
Waiting(i) == ToSet(pending[i]) \cup InFlight(i)

Typed ==
  /\ channel \in Seq(Messages)
  /\ {resends, restarts, outages} \subseteq Nat
  /\ phase \in [Instances -> Phases]
  /\ inbox \in [Instances -> Seq(Messages)]
  /\ pending \in [Instances -> Seq(Events)]
  /\ flight \in [Instances -> [Flights -> Seq(Events)]]
  /\ caching \in [Instances -> Seq(Events)]
  /\ counted \in [Instances -> [Events -> Nat]]
  /\ dropped \in [Instances -> Nat]
  /\ table \in SUBSET Storable
  /\ cache \in Seq(Events) /\ Len(cache) <= FeedSize
  /\ streamed \in SUBSET Events
  /\ late \in [Instances -> SUBSET Events]
  /\ lost \in SUBSET Events

Memory(i) == <<inbox[i], pending[i], flight[i], caching[i], counted[i], dropped[i]>>
NoMemory == <<<<>>, <<>>, NoFlights, <<>>, [e \in Events |-> 0], 0>>

\* Every variable has its type; the cached feed never exceeds EVENT_FEED_SIZE, and a
\* backend that is down has nothing in memory, no message and no call under way.
TypeOK == Typed /\ \A i \in Instances : phase[i] = "down" => Memory(i) = NoMemory

\* No event a dashboard was shown disappears between two structures: it is
\* queued, in a batch in flight, stored, or was given up with its batch.  The
\* swap of the queue in flush, before its await, is what makes this true.
NothingForgotten ==
  streamed \subseteq table \cup lost \cup UNION {Waiting(i) : i \in Instances}

\* With one backend, and until Redis executes a command twice, the lifetime
\* totals are those of the table plus what this process counted and has not
\* stored: every row is counted exactly once, across restarts, failed batches and
\* messages missed while down.
TotalsAgree ==
  resends = 0 =>
    \A i \in Instances : phase[i] # "down" =>
      \A e \in Events :
        /\ counted[i][e] <= 1
        /\ e \in table => counted[i][e] = 1
        /\ counted[i][e] = 1 => e \in table \cup lost \cup Waiting(i)

PublishedAfter(d, e) ==
  \E m, n \in DOMAIN channel : m < n /\ Parse[channel[m]] = e /\ Parse[channel[n]] = d

\* With one backend, and until Redis executes a command twice, the cached feed is
\* newest first and has no event twice, whatever cacheEvent calls failed or died
\* with a process.
FeedNewestFirst ==
  resends = 0 => \A k \in DOMAIN cache : \A j \in 1..(k - 1) : PublishedAfter(cache[j], cache[k])

\* What an orderly shutdown leaves unsaved arrived after it began: the final
\* flush takes everything handled before.
FinalFlush ==
  \A i \in Instances : phase[i] = "closing" => ToSet(pending[i]) \subseteq late[i]

\* The ingest path implements the ledger; LedgerSafety leaves out its progress.
Ledger == INSTANCE EventLedger
            WITH accepted <- streamed, stored <- table, givenUp <- lost
LedgerSafety == Ledger!Safety
LedgerSpec == Ledger!Spec

(***************************************************************************)
(* Claims of the documentation, each refuted by a run.                     *)
(***************************************************************************)
\* Every shape of malformed event is rejected: with a database that never fails
\* and no shutdown, an event Postgres would store is not given up.
NoGoodEventLost == lost \cap Storable = {}

\* Running several backends works: the feed has no event twice.
FeedNoDuplicates == \A j, k \in DOMAIN cache : cache[j] = cache[k] => j = k
=============================================================================

# PulseBoard, specified

TLA+ specifications of PulseBoard: what its backend and its dashboard promise,
model-checked with TLC on small instances and, for the core, proved with TLAPS
for every value of the constants. Paths below are relative to the repository.

Run, inside this directory:

    tlc -config Ingest.cfg MCIngest.tla        # and the other configurations
    tlapm IngestProofs.tla

## 1. The system

    producer ──PUBLISH──▶ Redis channel ──▶ backend(s): subscriber
                                              │ parsePulseEvent
                                              ├─▶ MetricsService.record      (memory)
                                              ├─▶ EventStream ─▶ gateway ─▶ dashboards
                                              ├─▶ pending ─▶ insertMany ─▶ Postgres
                                              └─▶ cacheEvent ─▶ Redis list pulseboard:feed
    dashboard: useRealtime ◀── snapshot (metrics, cached feed, series), then pushes
               HistoricalView ◀── REST history from Postgres

| Part | State it keeps | Operations |
| --- | --- | --- |
| ingest path, `backend/src/events/ingest.service.ts` | `pending`, `droppedMessages`, the subscriber, the flush timer | `onModuleInit`, `handleMessage`, `flush`, `onModuleDestroy` |
| validator, `events/event.validator.ts` | none | `parsePulseEvent` |
| event repository, `events/events.repository.ts` | the `events` table | `insertMany`, `lifetimeTotals`, `series`, `summary`, `list` |
| Redis client, `redis/redis.service.ts` | the client's queue of commands; in the server, the capped list `pulseboard:feed` | `publish`, `cacheEvent`, `getCachedEvents`, `ping`, `onModuleDestroy` (`quit`) |
| metrics, `metrics/metrics.service.ts` | the window, lifetime totals, active alert keys | `primeTotals`, `record`, `snapshot`, `takeNewlyRaised` |
| gateway, `realtime/realtime.gateway.ts` | the dashboard room, the tick timer | `handleConnection`, `sendSnapshot`, `broadcastMetrics`, `reject`, forwarding |
| hook, `frontend/src/realtime/useRealtime.ts` | status, metrics, series, feed, alert history | one listener per message and per connection event |
| accounts, `auth/auth.service.ts`, `users.repository.ts` | the `users` table | `register`, `login`, `verify`, `findById`, seeding |
| browser session, `frontend/src/auth/AuthContext.tsx` | token (also in localStorage), user, loading | check on load, `login`, `register`, `logout` |
| history, `events/events.service.ts`, `HistoricalView.tsx` | the view's range, buckets, summary | range and bucket guards, bucketing, loads |
| embedded producer, `backend/src/producer/` | a timer, `running` | `onModuleInit`, `scheduleNext`, `tick`, `onModuleDestroy` |
| standalone producer, `producer/src/` | where `main`'s loop is, `running` | publish and sleep, `shutdown` on a signal |
| boot and shutdown, `main.ts`, `app.module.ts`, `database.service.ts` | the pool | `waitForConnection`, the schema, the modules' hooks in the order of the imports, and in reverse |
| health check, `health/health.controller.ts` | none | a query and a `PING` |

How they interact. The backend is one event loop: every `await` is a point where
message handlers, timers and replies interleave. The ingest path and the gateway
share one Redis command connection (commands run in the order of the calls) and
one pool of Postgres connections (statements do not). Backends share Postgres and
the feed list, and nothing else. A dashboard shares a message channel with one
backend; the browser's own state is updated by callbacks.

What is hard about it. An event is in up to four places (totals, stream, queue,
cache) that are updated in one turn and then diverge across an await; a batch
fails as a whole; a process ends with work in its memory, and keeps receiving
while it ends; Redis may execute a command twice; events carry their producer's
clock; a snapshot is assembled while events go on being forwarded; connections,
attempts and tokens end at any moment. `PROJECT.json` lists each hazard at its
line with the properties that cover it, or says why none does.

What makes each part correct:

- ingest: nothing shown is forgotten; totals agree with the table; the feed is in
  order; a shutdown leaves nothing handled before it; every accepted event is
  decided.
- metrics: a snapshot equals its definition over everything that happened; a
  breach is announced once.
- gateway and hook: no data before verification; feed and alert history in order, their
  gaps explained; charts and cards agree; the interface never claims to be live when it
  is not; a dashboard always ends live or at the login screen, and its metrics catch up.
- accounts: one account per email whatever the races, a password that never changes.
- session: only the owner signs in; late checks never show through; a reload resumes
  the last session; restoring ends.
- producers: one chain of timer and publish, neither doubled nor broken; nothing is
  published behind the end of the connection.
- boot and shutdown: every wait ends once Redis answers; the last flush has its pool.
- history: points partition the range, tiles and chart agree, the view shows the range
  it names, paging hides nothing.

## 2. The modules

| Module | What it is | Checked by |
| --- | --- | --- |
| `EventLedger` | abstract: events are accepted, then stored or given up | refined by `Ingest` |
| `EventValidator` | `parsePulseEvent`, and what the table's columns take | `ASSUME` in `MCIngest` |
| `Ingest` | the ingest path of one or several backends, with Redis and Postgres | `MCIngest` |
| `MCIngest` | composes `Ingest` with `EventValidator` for TLC | four configurations |
| `IngestProofs` | theorems about `Ingest`; the last two, about one backend | tlapm |
| `Metrics`, `MCMetrics` | `MetricsService` and its three callers | two configurations |
| `MetricsProofs` | theorems about `Metrics` | tlapm |
| `Sums` | lemmas about finite sums, for `MetricsProofs` and `HistoryProofs` | tlapm |
| `Realtime`, `MCRealtime` | one dashboard, the gateway and the socket between them | two configurations |
| `RealtimeProofs` | types, and who may be sent and shown what | tlapm |
| `DashboardProofs` | the order and the completeness of what is shown | tlapm |
| `Directory` | abstract: an email gets one account, once | refined by `Session` |
| `Accounts` | `AuthService` over the `users` table, requests of several clients | through `Session` |
| `Session`, `MCSession` | extends `Accounts`: the tabs of one browser | two configurations |
| `SessionProofs` | theorems about both | tlapm |
| `History` | the queries of the history, their guards, a client that pages | through `HistoricalView` |
| `HistoricalView`, `MCHistory` | extends `History`: the view and its overlapping loads | one configuration |
| `HistoryProofs` | theorems about both | tlapm |
| `RedisClient` | a connection of ioredis: a queue of commands | in the two below |
| `Backend` | the life of a backend: boot, embedded producer, health check, shutdown | through `Processes` |
| `Producer` | the standalone producer | through `Processes` |
| `Generator` | the events both producers make | `ASSUME` in `MCProcesses` |
| `Processes`, `MCProcesses` | composes `Backend`, `Producer` and `Generator` over one Redis server | one configuration |
| `ProcessesProofs` | theorems about `Processes` | tlapm |

An operator whose comment begins with "Bug:" is not part of a specification: it is a
plausible mistake in the code (a dropped reset, an off-by-one, a swapped order), and
each property is known to fail when it takes the place of the definition after it.
`PROJECT.json` pairs them.

### 2.1 Ingest

State: `pending[i]` is the queue of backend `i`, `flight[i]` its `insertMany` calls
without an answer, `caching[i]` its `cacheEvent` calls without one, `inbox[i]` the
subscriber connection, `phase[i]` the place in `onModuleInit` or `onModuleDestroy`.
`counted[i][e]` says how often event `e` is in the lifetime totals: a sum over
events is right when every event is in it as often as it should be, so no amounts are
needed. `table` and `cache` are the two stores. `streamed`, `late` and `lost` are
history variables the guards never read.

| Action | Code |
| --- | --- |
| `Publish`, `Republish` | `RedisService.publish`; the client resends it (`maxRetriesPerRequest: null`) |
| `Boot`, `Subscribe`, `Listen` | `onModuleInit`: totals read, SUBSCRIBE answered, `on('message')` and `setInterval` |
| `Unheard` | a message between the second and the third |
| `HandleMalformed`, `HandleEvent` | `handleMessage` up to its `await` |
| `CacheOk`, `CacheFail`, `CacheResend` | the reply to `cacheEvent`, with the rest of `handleMessage`, a full batch's `flush` included |
| `TimerFlush` | `flush` from the timer; it takes the queue and sends the insert |
| `InsertOk`, `InsertFail` | the answer to `insertMany`, with the `catch`; a broken connection may hide a commit |
| `BeginShutdown`, `Exit` | `onModuleDestroy` of the ingest path; the connections closed after their last answers |
| `Crash` | the process is killed with commands under way, any of which may still be executed |

Abstractions. A reply and the code after it are one action; what could come between
them is a turn of another handler that touches other variables. The outcome of
statements in flight at a crash is chosen at the crash, not later. Statements in
flight are bounded by `MaxFlights` (the pool allows ten): a flush waits for a slot.
A message is a model value; `EventValidator` says what the validator makes of its
payload, over classes of field values: ids that are no UUID, numbers and numeric strings too
large for a NUMERIC(12, 2), texts with a NUL and dates outside the years 1 to 9999 pass it and
do not fit the table. A statement Postgres refuses is one with a row its columns do not take, or
with more than `MaxRows` rows (65535 parameters, seven per row).

Properties: `NothingForgotten`, `TotalsAgree`, `FeedNewestFirst`, `FinalFlush`,
`LedgerSafety`, `LedgerSpec`, beside `TypeOK`, which also says that a backend that is down
has nothing in its memory. `TotalsAgree` and `FeedNewestFirst`
say "until Redis executes a command twice" (`resends = 0`) and are for one backend:
without that, they are false (section 4).

### 2.2 EventLedger and the refinement

`Ledger == INSTANCE EventLedger WITH accepted <- streamed, stored <- table,
givenUp <- lost`. `HandleEvent` is `Accept`; `InsertOk`, `InsertFail`, `Exit` and
`Crash` are `Settle`; everything else stutters. `LedgerSafety` is its safety part
and a theorem; `LedgerSpec` adds that every accepted event is stored or given up in
the end, and is model-checked.

### 2.3 Metrics

`window` is the code's array, `totals` its two sums, `activeKeys` the announced
breaches; `gone`, `prunedAt`, `primed`, `watching` and `ticks` are history, and so is an entry's
`came`, when it was recorded. `Record` is
`record` with its prune, `Tick` is `broadcastMetrics` (snapshot, then
`takeNewlyRaised`), `Connect` the snapshot of a connecting dashboard. An event's
time is its arrival plus a skew, so producers may be late or ahead. `Snapshot`
follows the code's one pass over the pruned window; `SnapshotExact` compares it with
set definitions over every event ever recorded. Amounts are integers: the code
rounds to cents on output, and binary rounding of the sums is left out. The clock
is monotone; one that is set back is not modelled. `PrimeTotals` is the end of the boot in one
step, totals and subscription; that events may come between the two is in `Ingest`.

`WindowBounded` says what a timestamp in the future does: an entry stays beyond its age only
behind an earlier one that was ahead of its arrival, and by no more than it was ahead.

### 2.4 Realtime

One dashboard, and the connections it opens one after the other. Events are numbered
in the order the ingest path handles them. `commands` is the Redis connection the
pushes and the reads share; `wire` is the socket from server to client, in order and
lost with the connection. `Accept` is the whole turn after `verify` resolves: the
join (which the in-memory adapter does at once), the metrics and the LRANGE.
`RedisExec` and `RedisError` are its outcomes, `SendSnapshot` the rest. `RedisResend` is a
connection that breaks after Redis executed some of the pushes and before their replies: with
`maxRetriesPerRequest: null` they are sent again, and the events are in the cache twice. The read of
chart history from Postgres delays `SendSnapshot` and seeds the charts. Each listener of
`useRealtime` is an action, and `ui` is the whole `RealtimeState`. `Cleanup` is the effect's
cleanup with the reset, after the token was taken away by the user or by
`onUnauthorized`. A handshake may carry a token in three places; `ExtractToken` says which
one counts.

What `auth:error` does to the socket is less than it looks: the Manager took the option
`reconnection` when it was constructed, so the listener's assignment to it changes nothing. The
client stops because the server's DISCONNECT follows (`OnServerDisconnect`) and the effect is
cleaned up; a transport lost before both is retried (`Retry`). `RefusedSeesNoMore` is what holds
all the same.

A tick sends the metrics and a point of the charts (`Tick`), and an alert behind them when
there is one (`TickAlerting`; which there are is `Metrics!Tick`). A metrics value is the
number of events it counts, a point that number with its origin: a tick, or the latest
bucket of the seed, which counts what was stored by some moment up to now (`Seeds`).

`omitted` and `missed` are history: the events the snapshot of this connection may lack, and
the alerts that were raised while nobody was connected or that were lost on the wire. The
properties say that the feed and the alert history lack nothing else. `resent` remembers that Redis
executed a push twice: `FeedInOrder` (for the feed) and `OnlyOmittedMissing` are stated for
as long as it did not. The module has one backend, which alone writes the cached feed, and a
message that the channel delivers again is another event. A backend that restarts is a lost
connection here, and its totals do not go back.

### 2.5 Accounts and Session

`Accounts` has one request per client: `step` is the query it is at. `LookUp` is
`findByEmail` with what `register` and `login` do up to their hash, `Create` the INSERT
and `issue`, `Compare` the rest of `login`; `QueryFails` ends either with an error,
perhaps after the INSERT committed. `SeedDemo` is a backend's `createIfMissing`, at
any time. A hash is the password it is of. A token is its account and the `era` it was
signed in: `Expire` (twelve hours, or a new `JWT_SECRET`) ends them all at once. Tokens of one
account and era are told apart by `iat`: a login issues the token the tab holds, or another one
when it is a second later (`Issued`), and only the latter makes the effect run again. (bcrypt
looks at the first 72 bytes of a password only; a hash here is of all of it.)
`AccountsAreADirectory` says that all this implements `Directory`, with
`entries <- [email -> passwords of its rows]`; `Create`, `QueryFails` and `SeedDemo`
create, everything else stutters.

`Session` adds the tabs. `storage` is localStorage, which they share without telling each
other; `token`, `user` and `loading` are `AuthContext`'s state; `effect` is the token its
effect ran for last, `check` that effect's request `me`.

| Action | Code |
| --- | --- |
| `Load` | the page is loaded, or loaded again: state from the storage, then the effect |
| `CommitToken` | the cleanup (`cancelled = true`) and the effect, after the token changed |
| `ServeCheck`, `CheckFails` | the guard and `findById`, or a connection that fails |
| `Checked` | `.then`, `.catch` and `.finally` |
| `SubmitForm`, `FormAnswered`, `FormFails` | the form's `submit`; `login` or `register` with `accept`; the error |
| `LogOut`, `SocketRefused` | Sign out; `onUnauthorized` of the dashboard's hook |

When React runs effects matters: those of a click run before anything else does, others
some time after the state was set. So `LogOut` cancels the check in its own step, and
between `FormAnswered`, `Checked` or `SocketRefused` and `CommitToken` an answer may slip
in. A tab has one form request at a time; one abandoned by a reload is still served, and
nobody waits for its answer. `typed`, `last` (the tab in which the user signed in or out last) and
`cut` (since then a tab was signed out by a failed check or a refused socket) are history.

### 2.6 History

`Series`, `Summary`, `Pages` and `Refused` are the SQL of `EventsRepository` and the guards
of `EventsService` as operators on a set of rows; equal times come in any order, another
one with each query. `Store` inserts a batch at any time. A client of the REST API asks
for one series, of any range and width, or reads a range in pages, `offset` being what it
has read. `HistoricalView` numbers its loads; each is two queries (`AnswerSeries`,
`AnswerSummary`) and an end (`Finish`, `Fail`), and `Reopen` drops those under way.
`read` and `counted` remember the table each query saw. A client may read all events or
those of one type (`Listed`). An average is kept as its two sums; the first and the last time
of a summary are part of the tiles.

`ChartPartitionsRange` compares the bucketing with a definition by intervals, `TilesMatchChart`
the two queries with each other (first and last event included, which must lie in the first and
last bucket), `PagesComplete` the pages with the table (event by event: one whose time no other has is
never hidden; those with equal times come in any order and may be, which nothing prevents),
`LoadingMeansUnderWay` the word "Loading" with the loads. View and client only read the table, so a behaviour has one of the two.
`recentSeries` is `Series` over the window that ends now; its answer is the seed in `Realtime`.

### 2.7 Processes

`RedisClient` is what every caller of Redis depends on: with `maxRetriesPerRequest: null` a
command waits, in `sent` or in `offline`, until a server answers it, however long that takes.
`QuitCalled` is ioredis's `quit`. When there is no server and nothing was called since it was lost
it disconnects at once: just connecting, the client ends (`ended`); between two attempts it is
left as it is, with what waits never answered and later calls waiting too (`left`). Otherwise QUIT
queues like any other command.

`Backend` is one process. `hook` is the position in `BootHooks` (the order of `AppModule`'s
imports; Nest orders modules by their distance from the root, which for these is the same) or in
its reverse, `step` what that hook awaits. After the hooks Nest also waits for the HTTP server
to close, which is left out of `Exit`.

| Action | Code |
| --- | --- |
| `Connect`, `ApplySchema` | `DatabaseService.onModuleInit`: `waitForConnection` with its attempts, then the schema |
| `NoInit`, `Seed`, `PrimeTotals`, `Subscribe`, `StartProducer`, `Listen` | the other modules' hooks, and `app.listen` |
| `ProducerTick`, `Answer` | the embedded producer's `tick`, up to its await and after it, with `scheduleNext` |
| `Deliver`, `Flush` | the ingest path, reduced to a batch that is empty or not |
| `Check` | the health check |
| `RedisLost`, `RedisBack`, `PostgresTurns` | the two servers; an idle connection Postgres breaks ends the process, since nobody listens to the pool's `error` |
| `Sigterm`, `StopProducer`, `StopIngest`, `NoDestroy`, `QuitRedis`, `RedisEnded`, `EndPool`, `Exit` | a signal, then the hooks in reverse |

`Producer` is `main` of the standalone producer: `Wake` tests the flag and publishes, `Answer`
settles what waits, `Shutdown` comes at any point of the loop. `Processes` runs both, and both
lose the one Redis server together.

`Generator` is `EventGenerator.next` as a function of its random draws, on a grid of `Draws`
points, with amounts in cents. `GeneratorOK` says that every event it can make passes the validator
unchanged, fits its columns, and costs or brings what its type allows, and that every type comes up. TLC
evaluates it, on a grid of fifty, as an assumption of `MCProcesses`; all but its last part is
proved for every grid. Two things here are Nest's and ioredis's and not the repository's: that destroy hooks
run in the reverse order (Nest 11), and the three cases of `quit`.

## 3. The runs

| Run | Instance | Shows |
| --- | --- | --- |
| `ingest` | 1 backend, 2 good events, 1 that Postgres refuses, 1 malformed message; batches of 2, feed of 2; 1 restart or crash, 1 outage | type, four invariants, the safety of the ledger |
| `ingest_live` | 1 backend, 2 events, 1 command executed twice, statements of at most 2 rows; 1 restart or crash, 1 outage | the whole ledger, with progress |
| `ingest_poison` | 1 backend, no failure | a counterexample: good events lost with a bad one |
| `ingest_feed` | 2 backends, no failure | a counterexample: duplicates in the cached feed |
| `metrics` | 3 events of 3 kinds, skews -1 and 1; 4 units of time; windows 2 and 1; 3 ticks | type and four invariants |
| `metrics_warmup` | 1 event, 2 ticks | a counterexample: a drop announced before anything was watched |
| `realtime` | three instances: 3 events and a Redis failure; 2 events, a Redis failure and a lost connection or failed attempt; 3 alerts and a loss. Cached feed of 3, 2 of them shown, charts of 2, alert history of 2; all four kinds of token | type, seven invariants, one action property, two liveness properties |
| `realtime_gap` | 2 events, no failure | a counterexample: an event erased by a snapshot |
| `session` | 2 tabs, another client, 2 emails (one typed in capitals), 2 passwords, a seeded account; 2 requests, 1 failure, 1 expiry, 1 reload | type, four invariants, the refinement of `Directory` |
| `session_drop` | 1 tab, 1 request, 1 failure, 1 reload, no expiry | a counterexample: a network failure signs out |
| `history` | 4 events (two at one time), any of them stored at first, 1 batch inserted; 2 ranges, 2 loads, 1 failure; pages of 2, of all events or of one type, widths 1 and 2 | type and six invariants |
| `processes` | 1 backend and 1 standalone producer; 2 attempts, 1 loss of Redis (which, like Postgres, may be away at the start), 1 health check and 1 `cacheEvent` under way | three invariants, one liveness property |

Why the bounds are enough. The batch of two fills, overfills (a slow Redis lets a
third event in before the check) and stays partly full; two slots let inserts finish
out of order; one restart puts every kind of loss before and after a boot that reads
the table; with the second execution of a command a batch exceeds what a statement may
hold. In `metrics` three entries are the fewest for which a fresh one hides a stale
one from `prune`, four units of time let entries leave both windows, and three ticks end
an episode and begin another. In `realtime` one loss gives a connection whose read is answered
during the next one, a shown feed of two with a cache of three makes both cuts matter, and three
alerts overfill a history of two; the three instances keep apart what one state space would
multiply, and the theorems have none of these bounds. In `processes` one loss comes before,
between or after any two steps of a boot, a publish or a shutdown, two attempts have one that is
last and one that is not, and one command of each kind is enough for QUIT to have something
before it and behind it. In `session` two requests
race for one email in two tabs or in a tab and elsewhere, and one failure is enough
to hide a commit or to break a check. In `history` one batch lies before, between or after
any two queries or pages, two loads can be answered in either order, and the clock makes
ranges aligned and not; a series may have at most one bucket by its guard and has two.

The safety run of `Ingest` has no resent commands and the liveness run has no
malformed message: each is covered by the other, and the theorems have neither bound.

Fairness. `setInterval` fires while the process is up (`TimerFlush`); a call on a
Redis connection settles, since the client retries or gives an error (`CacheOk \/
CacheFail`); Postgres answers or the connection breaks (`InsertOk \/ InsertFail`); a
process told to stop stops (`Exit`). Nothing is assumed of messages arriving, of
boots, or of which of two outcomes happens. In `Realtime`: both event loops run the
callbacks they have, Redis answers or fails, `verify` settles, an opened attempt
succeeds or fails, socket.io retries (`reconnectionAttempts: Infinity`), `setInterval` fires
(`Tick`), and a dashboard told `onUnauthorized` is unmounted (`loggedOut /\ Cleanup`; a user
need never sign out). Losses are bounded (`Bounds`): a network that breaks every connection for
ever lets no dashboard settle. In `Processes`: hooks and queries end (`Boot`, `Stop`), timers fire
(`ProducerTick`, `Wake`), a Redis that is reachable answers (`Answer`); that it is reachable in the
end is not fairness but the premise `<>[]redis` of `NothingWaitsForEver`. All fairness is weak. The
specifications of `Metrics`, `Session` and
`History` are safety only and state no fairness.

The configurations of `Realtime`, `Session`, `HistoricalView` and `Processes` turn the deadlock
check off: a dashboard back at the login screen, a browser whose bounded requests are used up
or a process that has exited is an end. Every other run checks it.

## 4. Where code and documentation disagree

Each with a run; `PROJECT.json` quotes the lines.

1. `NoGoodEventLost` (`ingest_poison`). "Rejection of every shape of malformed event":
   an id that is no UUID, or an amount beyond NUMERIC(12, 2), passes the validator, is
   shown and counted, and takes the batch it is in with it.
2. `FeedNoDuplicates` (`ingest_feed`). Several backends "work": each pushes every event
   on the one feed list, so a snapshot has each event as often as there are backends.
3. `DropNeedsWatching` (`metrics_warmup`). "Watching for this long" is measured from
   construction, before the waits for Postgres and Redis.
4. `TruthWhenQuiet` (`realtime_gap`). "Shows the truth immediately, no gap": an event
   forwarded between the join and the snapshot is overwritten by the older feed.
5. `OnlyBadTokensSignOut` (`session_drop`). "An expired or forged token is treated
   differently from a network drop": not by the check on load, which throws a valid token
   away when `me` cannot be reached. (The README's sentence is about the socket; the comment at
   the check, AuthContext.tsx:25-27, gives the same two reasons for it.)

Met while modelling, with no run of their own: "a database outage that degrades history rather than
taking the live view down" (README.md:41-42) holds only while no idle connection of the pool breaks,
for the pool's `error` has no listener and ends the process (database.service.ts:17, `PostgresTurns`);
"the client stops retrying" and "reconnection is disabled" (README.md:222-224, useRealtime.ts:42-44) are
the server's doing, and a transport lost between `auth:error` and DISCONNECT is retried with the
refused token (useRealtime.ts:93, `OnAuthError`, `Retry`; the test at useRealtime.test.ts:186 looks at the
option of a fake socket); a batch may exceed 200 rows, since
its size is looked at only after Redis answered (README.md:243); a redelivered
event is stored once and counted and shown twice (README.md:245 calls it harmless); a
second backend's totals lack the events the first one has counted and not yet
stored when it boots (README.md:332-333); the five-minute window is longer when an event is
ahead of its time (metrics.service.ts:28); `amount: null` is read as 0.
Two registrations that race give the loser a 500, not the documented 409
(auth.controller.ts:16). When a socket is refused while an earlier, good answer of `me`
is still to be delivered, the user is set again without a token until the next render. A
series may have 1501 points (events.service.ts:27 says at most 1500); the seven-day chart
has 168, more than the 60-120 of HistoricalView.tsx:15. The first of two overlapping loads
to settle takes "Loading" away from the other. The charts "always agree" with the stat
cards (LiveCharts.tsx:26-28), but the points of the seed are sums over buckets of stored events
and those of the ticks trailing values, so only a chart that ends in a tick does. The alert history
lacks what was raised while the dashboard was away, and a reconnection does not fetch it. The health
check waits for as long as Redis is unreachable, so it does not report `redis: false` (README.md:161)
but nothing; a shutdown with commands queued waits in the same way. A connection lost with QUIT
under way rejects `quit`, and the hooks after it do not run.

## 5. What is proved

`IngestProofs`, for any backends, messages, events, batch and row limits and bounds,
from the assumptions named in `Ingest` (the validator's range, positive sizes):

- `TypeCorrect`: `Spec => []TypeOK`. `Typed` is inductive as it stands, and so is, with it, that a
  backend that is down has nothing in memory. The one other part that
  is not a matter of typing is `Len(cache) <= FeedSize`, by `PushedType`.
- `NothingIsForgotten`: `Spec => []NothingForgotten`. Inductive with `TypeOK`; the
  argument is event by event (`Somewhere`): `FlushKeeps` moves the queue to an idle
  slot, `AnswerKeeps` moves a batch to the table or to the given up, `GoneKeeps` does so for
  the memory of a process that ends, `NewIsQueued` covers the one step that
  accepts.
- `ImplementsLedger`: `Spec => LedgerSafety`. A batch may only be settled when its
  events were accepted, so the simulation needs the invariant `OnlyAccepted` (what is
  queued or in flight was streamed), which the properties do not state:
  `OnlyAcceptedInv`, from `NothingNewQueued` and `StreamedGrows`. `LedgerStep` then
  maps every step to `Accept`, `Settle` or a stutter.
- `FinalFlushIsComplete`: what a process that ends takes with it was handled after its
  shutdown began. Inductive with `TypeOK`: the shutdown empties the queue, and what is put in
  it afterwards is late (`HandlingIsLate`).

The rest of `IngestProofs`, for one backend, as long as Redis executes no command twice:

- `TotalsCountEveryRowOnce`: `TotalsAgree`, where every message is that of its own event
  (`Faithful`). The invariant `TotalsInv` says of each event that it is not counted while its message is
  still on its way (`Unseen`), and once when it was handled or read from the table at
  boot (`CountedOnce`); that a counted event is stored, queued, in flight or lost is
  `NothingForgotten`.
- `TheFeedIsNewestFirst`: `FeedNewestFirst`, by `FeedInv`: what is cached was handled in order, and what
  is being pushed comes after it (`Handled`, `Ahead`).

`MetricsProofs`, for any windows, thresholds, skews and kinds of events: `TypeCorrect`, and
`WindowIsComplete`: what left the window is stale now and for ever, whatever order
the timestamps are in, because `prune` tests each entry it takes and the clock only moves
forward. `WindowIsBounded`: entries are in the order in which they came (`InOrderOfArrival`), and `prune`
stops at one that is not stale (`PruneBounds`): what is behind it came later, so it outstays its age by
no more than that one was ahead of its arrival.
`AlertsAreRaisedOnce`: `OneAlertPerEpisode`, with the invariant that the announced keys are
those of the last tick (`KeysOfLastTick`). `SnapshotsAreExact`: `SnapshotExact`, the code's one pass over
a pruned window and its two running totals against definitions over everything recorded. Nothing that left the window
is young enough to be counted (`WindowComplete`), the window is the end of the history, so the sums over the two agree
place by place, and the totals are the sums over the whole history (`TotalsInv`: each recorded
event adds its amount, whatever `prune` takes).

`Sums` is what these and the history need to know of a sum over a finite set. The library's folds take
elements in an order `CHOOSE` decides, and induction over them is not available; so each lemma
is an argument on a smallest counterexample, a smallest set for which it fails (`SmallestPart`). From
`SumInAnyOrder` (whichever element is taken away first) follow the sums over
disjoint sets (`SumOfUnion`), over a renamed set, over the blocks of a partition (`SumOfBlocks`), and
cardinalities as sums of ones (`CountIsSum`, `CountOfUnion`).

`RealtimeProofs`, for any sizes, bounds and tokens: `TypeCorrect`, `NoDataIsUnverified`,
`LiveIsOpen`, `OnlyBadTokensAreLoggedOut` and the action property `RefusalIsForGood`: a user was sent to the login screen because the token is
bad, a bad token stays bad, so no later connection is verified and nothing is sent on it. They rest on `SocketInv`, which adds to
the types what may be on the wire (`WireOK`: data only to a verified connection, a rejection only
for a bad token, connect first and disconnect last) and how the two ends of the socket fit together
(`SocketOK`: nothing is on the wire of a link that is not open, a server that has hung up has
said so).

`DashboardProofs`, for the same. What is said of the feed is said as long as no push was executed
twice (`resent`), and the invariants carry that premise; what is said of alerts and charts has none:

- `TheFeedIsInOrder`: `OrderInv` says that whatever is under way is younger than what lies before it.
  Pushes under way are in order and younger than the cache and the read (`PushOrder`); an event
  on the wire is younger than the feed and than what will be received before it
  (`EventsUnderWay`); so for alerts.
- `OnlyMissedAlertsAreLacking`: every alert is shown, on the wire, missed, or older than a full
  history (`AlertsInv`).
- `ChartsAndCardsAgree`: a point under way is not older than the chart or than anything sent
  before it (`ChartsInv`), so a point appended is the latest.
- `OnlyTheOmittedIsMissing`: an event that is cached, or about to be, was given to the dashboard,
  and can be followed from the read to the snapshot to the feed (`CoverInv`: `ReadsInOrder`,
  `SnapshotUnderWay`, `AllGiven`), unless it is `omitted`.

`SessionProofs`, for any clients, tabs, spellings, passwords, demo accounts and bounds:

- `TypeCorrect`, and from it `ImplementsDirectory`: `Spec => AccountsAreADirectory`. The one
  fact is `InsertCreates`: a row inserted under the unique constraint, its email in lower
  case, is `Create` of an empty entry.
- `OnlyTheOwnerSignsIn`, `TheTokensOwnerIsShown`, `ReloadingResumes`, `LoadingIsCaused`, the four
  invariants of `Session`. They need `Granted` (an answer that grants a token is backed by
  an account with the form's password; a row read by `login` is still there when it is compared)
  and `Checks` (a check is for the effect's token, and names its owner; loading lasts as long as
  a check, which is stronger than `LoadingHasACause`), proved together as `SessionInv`.

`ProcessesProofs`, for any attempts, outages and probes:

- `ScheduleIsOneChain` and `FlushFindsItsPool`: `LifeInv` adds to the types and to `OneChain` what
  the order of the hooks gives (`Order`): before the producer's hook nothing is scheduled; a PUBLISH
  waits only while a tick awaits one, and never two; QUIT is sent, and the pool ended, only
  in a shutdown that has stopped the producer, the pool last of all.
- `NothingFollowsQuit`: the flag falls in the step that sends QUIT, and while it is up nothing
  but publishes is waiting (`QuitInv`).
- `GeneratedEventsFit`, for any resolution of the random numbers: `EventOK` of every event. Prices
  are whole, so three seats and a tenth more are whole cents and rounding cannot exceed them (`RoundedAmount`).

`HistoryProofs`, for any events, ranges, widths, page sizes, clocks and bounds:

- `ChartIsAPartition` and `SeriesAreBounded`: integer division (a time lies in one bucket; a range of
  `k` widths touches at most `k + 1`), and `AnswerInv`: an answer is that of a series the guard let pass.
- `TheLabelFits`, `LoadingIsUnderWay` and `HistoryIsTyped` rest on `ViewInv`: the last load is of the selected
  range, an answer is that of the table it was read from (`Answered`), what is shown are the two
  answers of one load that is settled (`ShownInv`).
- `TilesMatchTheChart`: two answers for one range and the tables they were read from satisfy `Match`, by
  `SeriesAddsUp` (the points are the blocks of a partition of the rows, so sums over them are sums over the rows;
  users may be in several blocks, so theirs are only bounded), `SeriesEnds` (the bucket
  function is monotonic) and `OrdersGrow`.
- `PagesAreComplete`: the place in the list of an event whose time no other has (`Alone`) is the number of
  newer ones (`ListPlaces`), and an insert can only make that greater. `PagesInv` says with this, between any two
  pages, that every entry read was at its place then or before (`Newer(then) <= i - 1 <= Newer(now)`), and that
  what was there and is not read has its place at the end of what is read, or behind it
  (`ReadSoFar`, kept by `InsertStep` and `PageStep`). After a short page nothing lies behind the end.

`HistoricalView` states two assumptions for them: the bound on loads admits the first one, and no list of points
equals the constant `None` (a list is not null).

Only model-checked is what is live: `LedgerSpec`, `Settles`, `MetricsCatchUp` and `NothingWaitsForEver`,
since liveness under fairness is beyond the prover. `ValidatorOK` speaks of finitely many classes, all of which
TLC tries; that the generator makes every type is a matter of its weights, tried on one grid. Every
invariant and every action property of a passing run has its theorem.

## 6. What is left

In the order of importance:

1. A composition of `Ingest` and `Realtime` over the feed and the stream, so that what a
   quiet dashboard shows is stated about stored events. Each has the other's interface now:
   `streamed` and `cache` in one are `Arrive` and `commands` in the other.
2. A user shown for one render without a token (DashboardPage.tsx:19): `Session` has the
   behaviour, `ShowsTokensOwner` speaks of tabs that have a token.
3. A signal during boot: whether Nest waits for the initialisation, and which hooks it then
   runs, is not decided by the repository's code.

Not modelled. Configuration reads the environment once, and its values are the constants here.
Presentation (charts, cards, tables, formatting) is a function of the hook's and the view's state and
keeps none of its own. Deployment (container files, workflows) has no behaviour but what it lets
happen: several backends and restarts, which `Ingest` has.

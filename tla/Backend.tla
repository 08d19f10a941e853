------------------------------ MODULE Backend -------------------------------
(***************************************************************************)
(* The life of one backend process: the modules' onModuleInit hooks one    *)
(* after the other, serving, and after a signal the onModuleDestroy hooks  *)
(* in reverse.  With it the embedded producer and the health check, which  *)
(* share one Redis connection with the ingest path.                        *)
(*                                                                         *)
(* What an event becomes is in Ingest: here the ingest path has a batch    *)
(* that is not empty, or none.                                             *)
(***************************************************************************)
EXTENDS Naturals, FiniteSets, RedisClient

CONSTANTS
  Attempts,     \* waitForConnection's attempts
  Embedded,     \* EMBEDDED_PRODUCER
  MaxOutages,   \* bound: how often Redis is lost
  MaxProbes,    \* bound: health checks under way
  MaxCaching    \* bound: cacheEvent transactions under way when an event arrives

ASSUME BackendAssumption ==
  /\ Attempts \in Nat \ {0} /\ Embedded \in BOOLEAN
  /\ {MaxOutages, MaxProbes, MaxCaching} \subseteq Nat

VARIABLES
  postgres,   \* it answers queries
  redis,      \* it is reachable
  outages,    \* so far, of Redis
  phase,      \* of the process
  hook,       \* whose turn it is, as a position in the order of the hooks
  step,       \* what that hook awaits
  attempt,    \* waitForConnection's
  client,     \* RedisService.client
  subscribed, \* the subscriber's connection delivers
  running,    \* EmbeddedProducerService.running
  timers,     \* setTimeouts of scheduleNext that have not fired
  publishing, \* ticks that await their publish
  pending,    \* the ingest path's batch is not empty
  pool        \* the pg pool

world    == <<postgres, redis, outages>>
process  == <<phase, hook, step, attempt>>
producer == <<running, timers, publishing>>
ingest   == <<subscribed, pending, pool>>
vars     == <<world, process, client, producer, ingest>>

\* The modules that have hooks which matter here; the gateway's are in Realtime.
BootHooks == <<"database", "redis", "auth", "ingest", "producer">>

\* Bug: destroyed in the order they are initialised, as before Nest 11.
DestroyInOrder == BootHooks

DestroyHooks == Reverse(BootHooks)

Init == /\ postgres \in BOOLEAN /\ redis \in BOOLEAN /\ outages = 0
        /\ phase = "booting" /\ hook = 1 /\ step = "start" /\ attempt = 1
        /\ client = NewClient /\ subscribed = FALSE
        /\ running = FALSE /\ timers = 0 /\ publishing = 0
        /\ pending = FALSE /\ pool = "open"

(***************************************************************************)
(* Boot.  A hook that throws rejects app.listen, and bootstrap with it,    *)
(* which nobody catches: the process ends.                                 *)
(***************************************************************************)
Booting(name, at) == /\ phase = "booting" /\ hook \in DOMAIN BootHooks
                     /\ BootHooks[hook] = name /\ step = at
Await(what) == step' = what /\ UNCHANGED <<phase, hook, attempt>>
Proceed     == hook' = hook + 1 /\ step' = "start" /\ UNCHANGED <<phase, attempt>>
Die         == phase' = "exited" /\ UNCHANGED <<hook, step, attempt>>
Query(goesOn) == (postgres /\ goesOn) \/ (~ postgres /\ Die)

\* Bug: the last attempt is not told from the others.
ConnectForEver ==
  /\ Booting("database", "start")
  /\ IF postgres THEN Await("schema") ELSE UNCHANGED process
  /\ UNCHANGED <<world, client, producer, ingest>>

\* waitForConnection.
Connect ==
  /\ Booting("database", "start")
  /\ \/ postgres /\ Await("schema")
     \/ ~ postgres /\ attempt = Attempts /\ Die
     \/ /\ ~ postgres /\ attempt < Attempts
        /\ attempt' = attempt + 1 /\ UNCHANGED <<phase, hook, step>>
  /\ UNCHANGED <<world, client, producer, ingest>>

ApplySchema == /\ Booting("database", "schema")
               /\ Query(Proceed)
               /\ UNCHANGED <<world, client, producer, ingest>>

\* RedisService has no onModuleInit.
NoInit == /\ Booting("redis", "start")
          /\ Proceed
          /\ UNCHANGED <<world, client, producer, ingest>>

\* AuthService.onModuleInit: without an account to seed there is no query.
Seed == /\ Booting("auth", "start")
        /\ Query(Proceed) \/ Proceed
        /\ UNCHANGED <<world, client, producer, ingest>>

\* IngestService.onModuleInit.
PrimeTotals == /\ Booting("ingest", "start")
               /\ Query(Await("subscribe"))
               /\ UNCHANGED <<world, client, producer, ingest>>
Subscribe   == /\ Booting("ingest", "subscribe") /\ redis
               /\ Proceed
               /\ subscribed' = TRUE
               /\ UNCHANGED <<world, client, producer, pending, pool>>

StartProducer == /\ Booting("producer", "start")
                 /\ Proceed
                 /\ running' = Embedded
                 /\ timers' = IF Embedded THEN 1 ELSE 0
                 /\ UNCHANGED <<world, client, publishing, ingest>>

Listen == /\ phase = "booting" /\ hook = Len(BootHooks) + 1
          /\ phase' = "serving"
          /\ UNCHANGED <<world, hook, step, attempt, client, producer, ingest>>

(***************************************************************************)
(* The embedded producer.                                                  *)
(***************************************************************************)
\* Bug: every settled publish schedules, the flag is not looked at.
ScheduleAlways == timers' = timers + 1

ScheduleNext == timers' = IF running THEN timers + 1 ELSE timers

\* tick: up to the await, or to its end when the client rejects at once.
ProducerTick ==
  /\ timers > 0 /\ phase # "exited"
  /\ IF running /\ ~ client.ended
     THEN timers' = timers - 1 /\ publishing' = publishing + 1
     ELSE timers' = (IF running THEN timers ELSE timers - 1) /\ UNCHANGED publishing
  /\ client' = IF running THEN Called(client, redis, "publish") ELSE client
  /\ UNCHANGED <<world, process, running, ingest>>

(***************************************************************************)
(* The ingest path and the health check.                                   *)
(***************************************************************************)
\* An event of this or another producer; cacheEvent is called.
Deliver ==
  /\ phase # "exited" /\ subscribed /\ redis
  /\ Count(client, "cache") < MaxCaching
  /\ pending' = TRUE
  /\ client' = Called(client, redis, "cache")
  /\ UNCHANGED <<world, process, producer, subscribed, pool>>

\* The flush timer runs until IngestService is destroyed.
Destroyed(name) == /\ phase \in {"stopping", "exited"}
                   /\ \E h \in 1..(hook - 1) : DestroyHooks[h] = name
Flush == /\ phase # "exited" /\ ~ Destroyed("ingest")
         /\ pending /\ pending' = FALSE
         /\ UNCHANGED <<world, process, client, producer, subscribed, pool>>

\* GET api/health: Postgres answers or fails at once, PING waits.
Check == /\ phase \in {"serving", "stopping"}
         /\ Count(client, "ping") < MaxProbes
         /\ client' = Called(client, redis, "ping")
         /\ UNCHANGED <<world, process, producer, ingest>>

(***************************************************************************)
(* Redis and Postgres.                                                     *)
(***************************************************************************)
\* The next command is executed, or refused: both settle its promise.
Answer ==
  /\ Answerable(client, redis) /\ phase # "exited"
  /\ client' = Answered(client)
  /\ IF Head(client.sent) = "publish"
     THEN publishing' = publishing - 1 /\ ScheduleNext
     ELSE UNCHANGED <<publishing, timers>>
  /\ UNCHANGED <<world, process, running, ingest>>

\* A client that has sent QUIT does not reconnect: quit() is rejected, the hook with
\* it, and Nest ends the process.
RedisLost == /\ redis /\ outages < MaxOutages
             /\ redis' = FALSE /\ outages' = outages + 1
             /\ IF "quit" \in ToSet(client.sent) THEN Die ELSE UNCHANGED process
             /\ UNCHANGED <<postgres, client, producer, ingest>>

RedisBack == /\ ~ redis
             /\ redis' = TRUE /\ client' = Reconnected(client)
             /\ UNCHANGED <<postgres, outages, process, producer, ingest>>

\* Once the pool has a connection, and until it is ended.
Pooled == pool = "open" /\ ~ Booting("database", "start")

\* A pool whose idle connection breaks emits 'error', to which nobody listens: the
\* process ends.  An outage may also find every connection in use, or none.
PostgresTurns == /\ phase # "exited"
                 /\ postgres' = ~ postgres
                 /\ UNCHANGED process \/ (postgres /\ Pooled /\ Die)
                 /\ UNCHANGED <<redis, outages, client, producer, ingest>>

(***************************************************************************)
(* Shutdown.  A signal during boot is left out.                            *)
(***************************************************************************)
Sigterm == /\ phase = "serving"
           /\ phase' = "stopping" /\ hook' = 1 /\ step' = "start"
           /\ UNCHANGED <<world, attempt, client, producer, ingest>>

Stopping(name, at) == /\ phase = "stopping" /\ hook \in DOMAIN DestroyHooks
                      /\ DestroyHooks[hook] = name /\ step = at

StopProducer == /\ Stopping("producer", "start")
                /\ Proceed
                /\ running' = FALSE
                /\ timers' = IF timers > 0 THEN timers - 1 ELSE 0
                /\ UNCHANGED <<world, client, publishing, ingest>>

\* The last flush: the insert succeeds or fails and is given up.
StopIngest == /\ Stopping("ingest", "start")
              /\ Proceed
              /\ pending' = FALSE
              /\ UNCHANGED <<world, client, producer, subscribed, pool>>

NoDestroy == /\ Stopping("auth", "start")
             /\ Proceed
             /\ UNCHANGED <<world, client, producer, ingest>>

\* The subscriber, which has nothing to wait for, goes first.
QuitRedis == /\ Stopping("redis", "start")
             /\ Await("quit")
             /\ client' \in QuitCalled(client, redis)
             /\ subscribed' = FALSE
             /\ UNCHANGED <<world, producer, pending, pool>>

RedisEnded == /\ Stopping("redis", "quit") /\ HasQuit(client)
              /\ Proceed
              /\ UNCHANGED <<world, client, producer, ingest>>

EndPool == /\ Stopping("database", "start")
           /\ Proceed
           /\ pool' = "ended"
           /\ UNCHANGED <<world, client, producer, subscribed, pending>>

\* Nest sends the signal again, now without a handler.
Exit == /\ phase = "stopping" /\ hook = Len(DestroyHooks) + 1
        /\ Die
        /\ UNCHANGED <<world, client, producer, ingest>>

Boot == Connect \/ ApplySchema \/ NoInit \/ Seed \/ PrimeTotals \/ Subscribe \/ StartProducer
          \/ Listen
Stop == StopProducer \/ StopIngest \/ NoDestroy \/ QuitRedis \/ RedisEnded \/ EndPool \/ Exit

Step == Boot \/ ProducerTick \/ Deliver \/ Flush \/ Check \/ Answer \/ PostgresTurns \/ Sigterm
          \/ Stop

\* RedisLost and RedisBack are steps of the producer's process too: see Processes.
\* Timers fire, queries and hooks end, a Redis that is reachable answers.
Fairness == WF_vars(Boot) /\ WF_vars(Stop) /\ WF_vars(ProducerTick) /\ WF_vars(Answer)

-----------------------------------------------------------------------------
(***************************************************************************)
(* Properties.                                                             *)
(***************************************************************************)
\* The embedded producer is one chain of a timer and a publish, never broken by a
\* refusal or an outage and never doubled; once stopped it leaves no timer behind,
\* though its publish may be settled later.
OneChain == IF running THEN timers + publishing = 1 ELSE timers = 0 /\ publishing <= 1

\* What the final flush needs is still there: the pool is open, and so is the Redis
\* client while the embedded producer runs.
FlushFindsPool == /\ Stopping("ingest", "start") => pool = "open"
                  /\ HasQuit(client) => ~ running

\* A boot ends in serving or in the end of the process, a shutdown in its end, every
\* health check is answered, and the embedded producer goes on: its timer fires and its
\* publish is settled.  None of it without Redis.
NothingWaits == /\ phase = "booting" ~> phase # "booting"
                /\ phase = "stopping" ~> phase = "exited"
                /\ Count(client, "ping") = MaxProbes
                     ~> Count(client, "ping") < MaxProbes \/ phase = "exited"
                /\ running ~> publishing > 0 \/ ~ running \/ phase = "exited"
                /\ publishing > 0 ~> publishing = 0 \/ phase = "exited"
=============================================================================

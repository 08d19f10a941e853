------------------------------ MODULE Realtime ------------------------------
(***************************************************************************)
(* One dashboard and the gateway of one backend: handshake, snapshot,      *)
(* pushes, rejection, and the useRealtime hook on the other end of the     *)
(* socket.  Events are numbered in the order the ingest path handles them, *)
(* alerts in the order they are raised; the metrics of a moment, and the   *)
(* point of the charts they make, are the number of events they count.     *)
(*                                                                         *)
(* The gateway reads the cached feed on the same Redis connection the      *)
(* ingest path writes it on, so the commands run in the order of the calls,*)
(* and those the connection loses run once more.  This backend alone writes*)
(* the feed.                                                               *)
(***************************************************************************)
EXTENDS Naturals, Sequences, FiniteSets, SequencesExt

CONSTANTS
  FeedSize,         \* EVENT_FEED_SIZE
  MaxFeedEvents,    \* MAX_FEED_EVENTS
  MaxSeriesPoints,  \* MAX_SERIES_POINTS
  MaxAlertHistory,  \* MAX_ALERT_HISTORY
  Bounds,           \* events, alerts, lost connections, failures of Redis: the most of each
  MaxWire           \* bound: messages under way when the tick adds one

ASSUME SizesAssumption ==
  {FeedSize, MaxFeedEvents, MaxSeriesPoints, MaxAlertHistory} \subseteq Nat \ {0}
ASSUME BoundsAssumption ==
  Bounds \subseteq [events : Nat, alerts : Nat, drops : Nat, errors : Nat] /\ MaxWire \in Nat

VARIABLES
  token,        \* what the client presents
  arrived,      \* events the ingest path has handled
  raised,       \* alerts takeNewlyRaised has returned
  commands,     \* sent on the Redis connection, not executed: pushes and reads
  cache,        \* the pulseboard:feed list, newest first
  conn,         \* the server's end of the current connection
  epoch,        \* which connection that is
  atJoin,       \* sendSnapshot's metrics, taken before its await
  fetched,      \* sendSnapshot's cachedEvents
  wire,         \* sent to the client, not yet received
  link,         \* the client's end
  tries,        \* attempts the socket's manager has made since it was last open
  ui,           \* RealtimeState; its metrics are 0 for null
  loggedOut,    \* onUnauthorized was called
  seen,         \* history: a snapshot was received on this connection
  verified,     \* history: auth.verify accepted the token of this connection
  omitted,      \* history: events this connection's snapshot may lack
  resent,       \* history: Redis executed some push twice
  missed,       \* history: alerts raised while the dashboard was away, or lost on the way
  left          \* what is left of the bounds

backend == <<arrived, raised, commands, cache>>
gateway == <<conn, epoch, atJoin, fetched>>
socket  == <<link, tries>>
hook    == <<ui, loggedOut, seen>>
history == <<verified, omitted, resent, missed>>
vars    == <<token, backend, gateway, wire, socket, hook, history, left>>

NotYet == <<0>>     \* no event has number 0
Msg(kind, events, n, points) == [kind |-> kind, events |-> events, n |-> n, points |-> points]
Note(kind) == Msg(kind, <<>>, 0, <<>>)
FirstN(s, n) == SubSeq(s, 1, IF Len(s) > n THEN n ELSE Len(s))
LastN(s, n)  == SubSeq(s, IF Len(s) > n THEN Len(s) - n + 1 ELSE 1, Len(s))

\* The bounds are for the life of the dashboard.
Spend(what) == link # "gone" /\ left[what] > 0 /\ left' = [left EXCEPT ![what] = @ - 1]

\* The token of a handshake: its auth, else a Bearer header, else the query.
Handshakes == [auth : {"absent", "valid", "forged"}, bearer : {"absent", "empty", "valid"},
               query : {"absent", "valid"}]
ExtractToken(h) == IF h.auth # "absent" THEN h.auth
                   ELSE IF h.bearer = "absent" THEN h.query
                   ELSE IF h.bearer = "empty" THEN "absent" ELSE h.bearer

InitialState == [status |-> "connecting", metrics |-> 0, series |-> <<>>, events |-> <<>>,
                 alertHistory |-> <<>>, reconnectAttempts |-> 0]

Init == /\ \E h \in Handshakes : token = ExtractToken(h)
        /\ arrived = 0 /\ raised = 0 /\ commands = <<>> /\ cache = <<>>
        /\ conn = "none" /\ epoch = 0 /\ atJoin = 0 /\ fetched = NotYet
        /\ wire = <<>>
        /\ link = "opening" /\ tries = 0
        /\ ui = InitialState /\ loggedOut = FALSE /\ seen = FALSE
        /\ verified = FALSE /\ omitted = {} /\ resent = FALSE /\ missed = {}
        /\ left \in Bounds

(***************************************************************************)
(* The backend.                                                            *)
(***************************************************************************)
\* Bug: the socket joins the room while its token is being verified.
InRoomEarly == conn \in {"verifying", "assembling", "live"}

InRoom == conn \in {"assembling", "live"}
ToRoom(msgs) == wire' = IF InRoom THEN wire \o msgs ELSE wire

\* handleMessage: forwarded to the room, then pushed on the cache.
Arrive ==
  /\ Spend("events")
  /\ arrived' = arrived + 1
  /\ ToRoom(<<Msg("event:new", <<arrived'>>, 0, <<>>)>>)
  /\ commands' = Append(commands, [push |-> arrived', read |-> 0])
  /\ omitted' = IF conn = "assembling" THEN omitted \cup {arrived'} ELSE omitted
  /\ UNCHANGED <<token, raised, cache, gateway, socket, hook, verified, resent, missed>>

Awaited(c) == c.push = 0 /\ c.read = epoch /\ conn = "assembling"

\* Redis executes the next command; a read answers the connection it was for.
RedisExec ==
  /\ commands # <<>>
  /\ commands' = Tail(commands)
  /\ LET c == Head(commands) IN
       /\ cache' = IF c.push = 0 THEN cache ELSE FirstN(<<c.push>> \o cache, FeedSize)
       /\ fetched' = IF Awaited(c) THEN cache ELSE fetched
  /\ UNCHANGED <<token, arrived, raised, conn, epoch, atJoin, wire, socket, hook, history, left>>

\* Bug: without the catch of getCachedEvents, handleConnection's rejects.
RedisErrorRejecting ==
  /\ commands # <<>> /\ Spend("errors")
  /\ commands' = Tail(commands)
  /\ IF Awaited(Head(commands))
     THEN conn' = "none" /\ wire' = wire \o <<Note("auth:error"), Note("disconnect")>>
     ELSE UNCHANGED <<conn, wire>>
  /\ UNCHANGED <<token, arrived, raised, cache, epoch, atJoin, fetched, socket, hook, history>>

\* A push that fails is logged, a read that fails gives an empty feed.  (A push that
\* fails after Redis executed it changes what RedisExec changes.)
RedisError ==
  /\ commands # <<>> /\ Spend("errors")
  /\ commands' = Tail(commands)
  /\ IF Awaited(Head(commands))
     THEN fetched' = <<>> /\ omitted' = omitted \cup 1..arrived
     ELSE UNCHANGED <<fetched, omitted>>
  /\ UNCHANGED <<token, arrived, raised, cache, conn, epoch, atJoin, wire, socket, hook,
                 verified, resent, missed>>

QueuedPushes == {commands[k].push : k \in DOMAIN commands} \ {0}

\* The connection breaks when Redis has executed the pushes up to newest and none of
\* the replies has come: all of them are sent again.  Pushes are numbered in a row.
RedisResend ==
  /\ Spend("errors")
  /\ \E oldest, newest \in QueuedPushes :
       /\ \A e \in QueuedPushes : oldest <= e
       /\ cache' = FirstN([k \in 1..(newest - oldest + 1) |-> newest + 1 - k] \o cache, FeedSize)
  /\ resent' = TRUE
  /\ UNCHANGED <<token, arrived, raised, commands, gateway, wire, socket, hook, verified,
                 omitted, missed>>

TickPoint == <<"tick", arrived>>
Update == Msg("metrics:update", <<>>, arrived, <<TickPoint>>)

\* broadcastMetrics without a new alert.
Tick ==
  /\ InRoom
  /\ Len(wire) < MaxWire
  /\ ToRoom(<<Update>>)
  /\ UNCHANGED <<token, backend, gateway, socket, hook, history, left>>

\* broadcastMetrics with one: takeNewlyRaised, whether or not anybody is there.
TickAlerting ==
  /\ Spend("alerts")
  /\ raised' = raised + 1
  /\ ToRoom(<<Update, Msg("alert:raised", <<>>, raised', <<>>)>>)
  /\ missed' = IF InRoom THEN missed ELSE missed \cup {raised'}
  /\ UNCHANGED <<token, arrived, commands, cache, gateway, socket, hook, verified, omitted,
                 resent>>

(***************************************************************************)
(* handleConnection.                                                       *)
(***************************************************************************)
Rejection == <<Note("auth:error"), Note("disconnect")>>

\* The transport is up; a handshake without a token is rejected on the spot.
Open ==
  /\ link = "opening"
  /\ link' = "open" /\ tries' = 0
  /\ epoch' = epoch + 1
  /\ conn' = IF token = "absent" THEN "none" ELSE "verifying"
  /\ wire' = <<Note("connect")>> \o IF token = "absent" THEN Rejection ELSE <<>>
  /\ fetched' = NotYet /\ seen' = FALSE /\ verified' = FALSE /\ omitted' = {}
  /\ UNCHANGED <<token, backend, atJoin, ui, loggedOut, resent, missed, left>>

\* verify resolves: join the room, take the metrics, send LRANGE, one turn.
Accept ==
  /\ conn = "verifying" /\ token = "valid"
  /\ conn' = "assembling"
  /\ verified' = TRUE
  /\ atJoin' = arrived
  /\ commands' = Append(commands, [push |-> 0, read |-> epoch])
  /\ UNCHANGED <<token, arrived, raised, cache, epoch, fetched, wire, socket, hook,
                 omitted, resent, missed, left>>

Reject ==
  /\ conn = "verifying" /\ token # "valid"
  /\ conn' = "none"
  /\ wire' = wire \o Rejection
  /\ UNCHANGED <<token, backend, epoch, atJoin, fetched, socket, hook, history, left>>

\* recentSeries: Postgres fails, has nothing, or its latest bucket counts what was
\* stored by some moment up to now.
Seeds == {<<>>} \cup {<< <<"bucket", n>> >> : n \in 1..arrived}

\* Bug: only a first connection gets a snapshot.
SendSnapshotOnce ==
  /\ conn = "assembling" /\ fetched # NotYet
  /\ conn' = "live"
  /\ \E seed \in Seeds :
       wire' = IF epoch = 1 THEN Append(wire, Msg("snapshot", fetched, atJoin, seed)) ELSE wire
  /\ UNCHANGED <<token, backend, epoch, atJoin, fetched, socket, hook, history, left>>

\* Both queries are answered.
SendSnapshot ==
  /\ conn = "assembling" /\ fetched # NotYet
  /\ conn' = "live"
  /\ \E seed \in Seeds : wire' = Append(wire, Msg("snapshot", fetched, atJoin, seed))
  /\ UNCHANGED <<token, backend, epoch, atJoin, fetched, socket, hook, history, left>>

Expire == /\ token = "valid" /\ link # "gone"
          /\ token' = "expired"
          /\ UNCHANGED <<backend, gateway, wire, socket, hook, history, left>>

(***************************************************************************)
(* useRealtime, one action per listener.                                   *)
(***************************************************************************)
Receive(kind) ==
  /\ wire # <<>> /\ Head(wire).kind = kind
  /\ wire' = Tail(wire)
  /\ UNCHANGED <<token, backend, gateway, tries, history, left>>

OnConnect ==
  /\ Receive("connect")
  /\ ui' = [ui EXCEPT !.status = "live", !.reconnectAttempts = 0]
  /\ UNCHANGED <<link, loggedOut, seen>>

\* Bug: the snapshot is put before what the feed holds.
OnSnapshotMerging ==
  /\ Receive("snapshot")
  /\ LET m == Head(wire) IN
       ui' = [ui EXCEPT !.status = "live", !.metrics = m.n,
                        !.events = FirstN(m.events \o @, MaxFeedEvents),
                        !.series = LastN(m.points, MaxSeriesPoints)]
  /\ seen' = TRUE
  /\ UNCHANGED <<link, loggedOut>>

\* Bug: the snapshot is not cut to the size of the feed.
OnSnapshotUncut ==
  /\ Receive("snapshot")
  /\ LET m == Head(wire) IN
       ui' = [ui EXCEPT !.status = "live", !.metrics = m.n, !.events = m.events,
                        !.series = LastN(m.points, MaxSeriesPoints)]
  /\ seen' = TRUE
  /\ UNCHANGED <<link, loggedOut>>

\* Bug: without history the chart keeps what it shows.
OnSnapshotKeepingChart ==
  /\ Receive("snapshot")
  /\ LET m == Head(wire) IN
       ui' = [ui EXCEPT !.status = "live", !.metrics = m.n,
                        !.events = FirstN(m.events, MaxFeedEvents),
                        !.series = IF m.points = <<>> THEN @ ELSE m.points]
  /\ seen' = TRUE
  /\ UNCHANGED <<link, loggedOut>>

\* Bug: the state is replaced as a whole, the alerts with it.
OnSnapshotReplacingAll ==
  /\ Receive("snapshot")
  /\ LET m == Head(wire) IN
       ui' = [InitialState EXCEPT !.status = "live", !.metrics = m.n,
                        !.events = FirstN(m.events, MaxFeedEvents),
                        !.series = LastN(m.points, MaxSeriesPoints)]
  /\ seen' = TRUE
  /\ UNCHANGED <<link, loggedOut>>

OnSnapshot ==
  /\ Receive("snapshot")
  /\ LET m == Head(wire) IN
       ui' = [ui EXCEPT !.status = "live", !.metrics = m.n,
                        !.events = FirstN(m.events, MaxFeedEvents),
                        !.series = LastN(m.points, MaxSeriesPoints)]
  /\ seen' = TRUE
  /\ UNCHANGED <<link, loggedOut>>

OnEvent ==
  /\ Receive("event:new")
  /\ ui' = [ui EXCEPT !.events = FirstN(Head(wire).events \o @, MaxFeedEvents)]
  /\ UNCHANGED <<link, loggedOut, seen>>

\* Bug: the charts go on, the cards keep the metrics of the snapshot.
OnMetricsChartsOnly ==
  /\ Receive("metrics:update")
  /\ ui' = [ui EXCEPT !.series = LastN(@ \o Head(wire).points, MaxSeriesPoints)]
  /\ UNCHANGED <<link, loggedOut, seen>>

OnMetrics ==
  /\ Receive("metrics:update")
  /\ ui' = [ui EXCEPT !.metrics = Head(wire).n,
                      !.series = LastN(@ \o Head(wire).points, MaxSeriesPoints)]
  /\ UNCHANGED <<link, loggedOut, seen>>

OnAlert ==
  /\ Receive("alert:raised")
  /\ ui' = [ui EXCEPT !.alertHistory = FirstN(<<Head(wire).n>> \o @, MaxAlertHistory)]
  /\ UNCHANGED <<link, loggedOut, seen>>

\* The Manager copied opts.reconnection when it was constructed: the assignment to it
\* changes nothing, and a transport lost now is retried.
OnAuthError ==
  /\ Receive("auth:error")
  /\ ui' = [ui EXCEPT !.status = "unauthorized"]
  /\ loggedOut' = TRUE
  /\ UNCHANGED <<link, seen>>

\* 'io server disconnect': socket.io does not retry it.
OnServerDisconnect ==
  /\ Receive("disconnect")
  /\ link' = "ended"
  /\ ui' = [ui EXCEPT !.status = "unauthorized"]
  /\ UNCHANGED <<loggedOut, seen>>

Lost == {wire[j].n : j \in {k \in DOMAIN wire : wire[k].kind = "alert:raised"}}
Unplug == /\ conn' = "none" /\ wire' = <<>> /\ missed' = missed \cup Lost
          /\ UNCHANGED <<token, backend, epoch, atJoin, fetched, tries, loggedOut,
                         seen, verified, omitted, resent>>

\* Bug: no disconnect listener.
LoseSilently == /\ link = "open" /\ Spend("drops")
                /\ link' = "closed"
                /\ Unplug /\ UNCHANGED ui

\* The transport is lost with everything on it, at any moment.
Lose == /\ link = "open" /\ Spend("drops")
        /\ link' = "closed" /\ ui' = [ui EXCEPT !.status = "reconnecting"]
        /\ Unplug

\* reconnect_attempt.
Retry == /\ link = "closed"
         /\ link' = "opening" /\ tries' = tries + 1
         /\ ui' = [ui EXCEPT !.status = "reconnecting", !.reconnectAttempts = tries']
         /\ UNCHANGED <<token, backend, gateway, wire, loggedOut, seen, history, left>>

\* Bug: a failed attempt is the last one.
ConnectErrorFinal ==
  /\ link = "opening" /\ Spend("drops")
  /\ link' = "ended" /\ ui' = [ui EXCEPT !.status = "reconnecting"]
  /\ UNCHANGED <<token, backend, gateway, wire, tries, loggedOut, seen, history>>

\* connect_error: the attempt fails, the next one is scheduled.
ConnectError ==
  /\ link = "opening" /\ Spend("drops")
  /\ link' = "closed" /\ ui' = [ui EXCEPT !.status = "reconnecting"]
  /\ UNCHANGED <<token, backend, gateway, wire, tries, loggedOut, seen, history>>

\* The token was taken away, by the user or by onUnauthorized: the effect is
\* cleaned up and runs again without one, which resets the state.
Cleanup == /\ link # "gone"
           /\ link' = "gone" /\ ui' = InitialState
           /\ Unplug /\ UNCHANGED left

Listeners == OnConnect \/ OnSnapshot \/ OnEvent \/ OnMetrics \/ OnAlert \/ OnAuthError
               \/ OnServerDisconnect

Next == \/ Arrive \/ RedisExec \/ RedisError \/ RedisResend \/ Tick \/ TickAlerting
        \/ Open \/ Accept \/ Reject \/ SendSnapshot \/ Expire
        \/ Listeners \/ Lose \/ Retry \/ ConnectError \/ Cleanup

Spec == Init /\ [][Next]_vars

\* The event loops of both ends run, their timers fire, Redis answers or fails,
\* socket.io retries.
Fairness == /\ WF_vars(Listeners)
            /\ WF_vars(RedisExec \/ RedisError)
            /\ WF_vars(Tick)
            /\ WF_vars(Accept \/ Reject)
            /\ WF_vars(SendSnapshot)
            /\ WF_vars(Open \/ ConnectError)
            /\ WF_vars(Retry)
            /\ WF_vars(loggedOut /\ Cleanup)

FairSpec == Spec /\ Fairness

-----------------------------------------------------------------------------
(***************************************************************************)
(* Properties.                                                             *)
(***************************************************************************)
Data  == {"snapshot", "event:new", "metrics:update", "alert:raised"}
Kinds == Data \cup {"connect", "auth:error", "disconnect"}
Points == {"tick", "bucket"} \X Nat
UIType == [status : {"connecting", "live", "reconnecting", "unauthorized"}, metrics : Nat,
           series : Seq(Points), events : Seq(Nat), alertHistory : Seq(Nat),
           reconnectAttempts : Nat]

\* Every variable has its type; the cache and what the hook keeps have their sizes.
TypeOK ==
  /\ token \in {"valid", "expired", "forged", "absent"}
  /\ arrived \in Nat /\ raised \in Nat
  /\ commands \in Seq([push : Nat, read : Nat])
  /\ cache \in Seq(Nat) /\ Len(cache) <= FeedSize
  /\ conn \in {"none", "verifying", "assembling", "live"}
  /\ epoch \in Nat /\ atJoin \in Nat /\ fetched \in Seq(Nat)
  /\ wire \in Seq([kind : Kinds, events : Seq(Nat), n : Nat, points : Seq(Points)])
  /\ link \in {"opening", "open", "closed", "ended", "gone"}
  /\ tries \in Nat
  /\ ui \in UIType
  /\ Len(ui.events) <= MaxFeedEvents
  /\ Len(ui.series) <= MaxSeriesPoints
  /\ Len(ui.alertHistory) <= MaxAlertHistory
  /\ {loggedOut, seen, verified, resent} \subseteq BOOLEAN
  /\ omitted \in SUBSET Nat /\ missed \in SUBSET Nat
  /\ left \in [events : Nat, alerts : Nat, drops : Nat, errors : Nat]

\* An unauthenticated connection never receives a byte of business data, whenever
\* events, ticks and snapshots fall between its steps.
NoDataUnverified == \A j \in DOMAIN wire : wire[j].kind \in Data => verified

NewestFirst(s) == \A k \in DOMAIN s : \A j \in 1..(k - 1) : s[j] > s[k]

\* The feed and the alert history are newest first and show nothing twice, across
\* snapshots that race with pushes, reconnections, answers to a connection that is
\* gone and failures of Redis; the feed, as long as Redis has executed no push twice.
FeedInOrder == (~ resent => NewestFirst(ui.events)) /\ NewestFirst(ui.alertHistory)

Quiet == conn = "live" /\ wire = <<>> /\ commands = <<>>

\* When nothing is under way, and as long as Redis has executed no push twice, the feed
\* has every cached event but those its connection's snapshot could not have: forwarded
\* while the snapshot was being assembled, or unread because Redis failed.
OnlyOmittedMissing ==
  Quiet /\ ~ resent =>
    \A e \in ToSet(cache) \ (ToSet(ui.events) \cup omitted) :
      Len(ui.events) = MaxFeedEvents /\ e < Last(ui.events)

\* alert:raised is sent once.  What the history of a dashboard lacks was raised while
\* it was not connected, was lost with its connection, or has made room for later ones.
OnlyMissedAlertsLacking ==
  Quiet => \A a \in 1..raised \ (ToSet(ui.alertHistory) \cup missed) :
             Len(ui.alertHistory) = MaxAlertHistory /\ a < Last(ui.alertHistory)

\* The points of the charts are in the order of time, whatever seeds and ticks were
\* received, and a point of a tick that ends them is the one the cards show.
ChartsAgreeWithCards ==
  /\ \A k \in DOMAIN ui.series : \A j \in 1..k : ui.series[j][2] <= ui.series[k][2]
  /\ ui.series # <<>> /\ Last(ui.series)[1] = "tick" => Last(ui.series)[2] = ui.metrics

\* The interface shows "live" only while the socket is connected, and then counts no
\* attempts.
LiveMeansOpen == ui.status = "live" => link = "open" /\ ui.reconnectAttempts = 0

\* A network drop, or a failure of Redis, never sends a user whose token is good to
\* the login screen.
OnlyBadTokensLogOut == loggedOut => token # "valid"

Shown == <<ui.metrics, ui.series, ui.events, ui.alertHistory>>

\* A refusal is for good: however often the socket is opened again before the hook is
\* cleaned up, nothing more is shown to a user who was sent to the login screen.
RefusedSeesNoMore == [][loggedOut => Shown' = Shown \/ link' = "gone"]_vars

\* Whatever is lost on the way, the dashboard ends up live with a snapshot of its
\* connection, or at the login screen.
Settles == <>[](link = "gone" \/ (link = "open" /\ ui.status = "live" /\ seen))

\* A snapshot may put older metrics in the place of a tick's; on every connection
\* ticks go on, and in the end the metrics count everything that arrived.
MetricsCatchUp == <>[](seen /\ link = "open" => ui.metrics = arrived)

(***************************************************************************)
(* A claim of the documentation, refuted by a run.                         *)
(***************************************************************************)
\* "Shows the truth immediately, with no gap": when nothing is under way the feed
\* is the cached feed.
TruthWhenQuiet == Quiet => ui.events = FirstN(cache, MaxFeedEvents)
=============================================================================

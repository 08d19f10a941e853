--------------------------- MODULE RealtimeProofs ---------------------------
(***************************************************************************)
(* For every size and every bound: the types, and what the protocol of the *)
(* socket guarantees.  A client that is not verified is sent no data, only *)
(* a bad token logs out, a client that was refused sees nothing more, and  *)
(* "live" is never shown without a connection.                             *)
(***************************************************************************)
EXTENDS Realtime, SequenceTheorems, TLAPS

\* The steps of the Redis connection.
RedisCommand == RedisExec \/ RedisError \/ RedisResend

\* The messages of the socket.
Msgs == [kind : Kinds, events : Seq(Nat), n : Nat, points : Seq(Points)]

(***************************************************************************)
(* Lemmas on the sequence operators.                                       *)
(***************************************************************************)
\* FirstN keeps the type and cuts to n.
LEMMA FirstNType ==
  ASSUME NEW S, NEW s \in Seq(S), NEW n \in Nat
  PROVE  FirstN(s, n) \in Seq(S) /\ Len(FirstN(s, n)) <= n
<1> DEFINE k == IF Len(s) > n THEN n ELSE Len(s)
<1>1. k \in Nat /\ k <= Len(s) /\ k <= n
  OBVIOUS
<1>2. \A i \in 1..k : s[i] \in S
  BY <1>1
<1>3. FirstN(s, n) = SubSeq(s, 1, k)
  BY DEF FirstN
<1> HIDE DEF k
<1> QED BY <1>1, <1>2, <1>3, SubSeqProperties

\* So does LastN.
LEMMA LastNType ==
  ASSUME NEW S, NEW s \in Seq(S), NEW n \in Nat
  PROVE  LastN(s, n) \in Seq(S) /\ Len(LastN(s, n)) <= n
<1> DEFINE k == IF Len(s) > n THEN Len(s) - n + 1 ELSE 1
<1>1. k \in Nat /\ k >= 1 /\ Len(s) - k + 1 <= n /\ Len(s) \in Nat
  OBVIOUS
<1>2. \A i \in k..Len(s) : s[i] \in S
  BY <1>1
<1>3. LastN(s, n) = SubSeq(s, k, Len(s))
  BY DEF LastN
<1> HIDE DEF k
<1> QED BY <1>1, <1>2, <1>3, SubSeqProperties

\* The messages the gateway sends are messages.
LEMMA MessageTypes ==
  ASSUME arrived \in Nat, raised \in Nat, atJoin \in Nat, fetched \in Seq(Nat)
  PROVE  /\ \A kind \in Kinds : Note(kind) \in Msgs
         /\ Update \in Msgs
         /\ Rejection \in Seq(Msgs)
         /\ \A e \in Nat : Msg("event:new", <<e>>, 0, <<>>) \in Msgs
         /\ \A a \in Nat : Msg("alert:raised", <<>>, a, <<>>) \in Msgs
         /\ \A seed \in Seeds : /\ seed \in Seq(Points)
                                /\ Msg("snapshot", fetched, atJoin, seed) \in Msgs
<1>1. \A kind \in Kinds : Note(kind) \in Msgs
  BY DEF Note, Msg, Msgs
<1>2. TickPoint \in Points
  BY DEF TickPoint, Points
<1>3. Update \in Msgs
  BY <1>2 DEF Update, Msg, Msgs, Kinds, Data
<1>4. Rejection \in Seq(Msgs)
  BY <1>1 DEF Rejection, Kinds
<1>5. \A e \in Nat : Msg("event:new", <<e>>, 0, <<>>) \in Msgs
  BY DEF Msg, Msgs, Kinds, Data
<1>6. \A a \in Nat : Msg("alert:raised", <<>>, a, <<>>) \in Msgs
  BY DEF Msg, Msgs, Kinds, Data
<1>7. \A seed \in Seeds : seed \in Seq(Points)
  <2>1. ASSUME NEW n \in 1..arrived PROVE << <<"bucket", n>> >> \in Seq(Points)
    <3>1. n \in Nat
      OBVIOUS
    <3>2. <<"bucket", n>> \in Points
      BY <3>1 DEF Points
    <3> QED BY <3>2
  <2>2. <<>> \in Seq(Points)
    OBVIOUS
  <2> QED BY <2>1, <2>2, Zenon DEF Seeds
<1>8. \A seed \in Seeds : Msg("snapshot", fetched, atJoin, seed) \in Msgs
  BY <1>7 DEF Msg, Msgs, Kinds, Data
<1> QED BY <1>1, <1>3, <1>4, <1>5, <1>6, <1>7, <1>8

(***************************************************************************)
(* Type correctness.                                                       *)
(***************************************************************************)
\* The types of the backend and what is on the way, and those of the client.
ServerType ==
  /\ token \in {"valid", "expired", "forged", "absent"}
  /\ arrived \in Nat /\ raised \in Nat
  /\ commands \in Seq([push : Nat, read : Nat])
  /\ cache \in Seq(Nat) /\ Len(cache) <= FeedSize
  /\ conn \in {"none", "verifying", "assembling", "live"}
  /\ epoch \in Nat /\ atJoin \in Nat /\ fetched \in Seq(Nat)
  /\ wire \in Seq(Msgs)
  /\ {verified, resent} \subseteq BOOLEAN
  /\ omitted \in SUBSET Nat /\ missed \in SUBSET Nat
  /\ left \in [events : Nat, alerts : Nat, drops : Nat, errors : Nat]
ClientType ==
  /\ link \in {"opening", "open", "closed", "ended", "gone"}
  /\ tries \in Nat
  /\ ui \in UIType
  /\ Len(ui.events) <= MaxFeedEvents
  /\ Len(ui.series) <= MaxSeriesPoints
  /\ Len(ui.alertHistory) <= MaxAlertHistory
  /\ {loggedOut, seen} \subseteq BOOLEAN

\* Together they are the type invariant.
LEMMA TypeParts == TypeOK <=> ServerType /\ ClientType
  BY DEF TypeOK, ServerType, ClientType, Msgs

\* What is left of a bound is a number.
LEMMA SpendType ==
  ASSUME ServerType, NEW what \in {"events", "alerts", "drops", "errors"}, Spend(what)
  PROVE  left' \in [events : Nat, alerts : Nat, drops : Nat, errors : Nat]
<1>1. left \in [events : Nat, alerts : Nat, drops : Nat, errors : Nat]
  BY DEF ServerType
<1>2. CASE what = "events"
  BY <1>1, <1>2 DEF Spend
<1>3. CASE what = "alerts"
  BY <1>1, <1>3 DEF Spend
<1>4. CASE what = "drops"
  BY <1>1, <1>4 DEF Spend
<1>5. CASE what = "errors"
  BY <1>1, <1>5 DEF Spend
<1> QED BY <1>2, <1>3, <1>4, <1>5

\* A token is extracted from every handshake.
LEMMA InitType == Init => TypeOK
<1> SUFFICES ASSUME Init PROVE ServerType /\ ClientType
  BY TypeParts
<1>1. token \in {"valid", "expired", "forged", "absent"}
  <2>1. PICK h \in Handshakes : token = ExtractToken(h)
    BY DEF Init
  <2>2. h.auth \in {"absent", "valid", "forged"} /\ h.bearer \in {"absent", "empty", "valid"}
          /\ h.query \in {"absent", "valid"}
    BY DEF Handshakes
  <2> QED BY <2>1, <2>2 DEF ExtractToken
<1>2. left \in [events : Nat, alerts : Nat, drops : Nat, errors : Nat]
  BY BoundsAssumption DEF Init
<1>3. ServerType
  <2>1. FeedSize \in Nat /\ NotYet \in Seq(Nat) /\ {} \in SUBSET Nat
    BY SizesAssumption DEF NotYet
  <2>2. /\ token \in {"valid", "expired", "forged", "absent"}
        /\ arrived \in Nat /\ raised \in Nat
        /\ conn \in {"none", "verifying", "assembling", "live"}
        /\ epoch \in Nat /\ atJoin \in Nat /\ fetched \in Seq(Nat)
        /\ {verified, resent} \subseteq BOOLEAN
        /\ omitted \in SUBSET Nat /\ missed \in SUBSET Nat
    BY <1>1, <2>1 DEF Init
  <2>3. /\ commands \in Seq([push : Nat, read : Nat])
        /\ cache \in Seq(Nat) /\ Len(cache) <= FeedSize
        /\ wire \in Seq(Msgs)
    BY <2>1 DEF Init
  <2> QED BY <1>2, <2>2, <2>3 DEF ServerType
<1>4. ui \in UIType
  BY DEF Init, InitialState, UIType
<1>5. ClientType
  <2>1. {MaxFeedEvents, MaxSeriesPoints, MaxAlertHistory} \subseteq Nat
    BY SizesAssumption
  <2>2. ui.events = <<>> /\ ui.series = <<>> /\ ui.alertHistory = <<>>
    BY DEF Init, InitialState
  <2>3. Len(ui.events) <= MaxFeedEvents /\ Len(ui.series) <= MaxSeriesPoints
          /\ Len(ui.alertHistory) <= MaxAlertHistory
    BY <2>1, <2>2
  <2> QED BY <1>4, <2>3 DEF Init, ClientType
<1> QED BY <1>3, <1>5

\* Steps of the backend.
LEMMA BackendType ==
  TypeOK /\ (Arrive \/ RedisCommand \/ Tick \/ TickAlerting) => TypeOK'
<1> SUFFICES ASSUME ServerType, ClientType,
                    Arrive \/ RedisCommand \/ Tick \/ TickAlerting
             PROVE  ServerType' /\ ClientType'
  BY TypeParts DEF TypeOK, ServerType, ClientType, Msgs
<1> USE DEF backend, gateway, socket, hook, history
<1>a. MaxFeedEvents \in Nat /\ FeedSize \in Nat
  BY SizesAssumption
<1>m. /\ Update \in Msgs
      /\ \A e \in Nat : Msg("event:new", <<e>>, 0, <<>>) \in Msgs
      /\ \A a \in Nat : Msg("alert:raised", <<>>, a, <<>>) \in Msgs
  BY MessageTypes DEF ServerType
<1>1. CASE Arrive
  <2>1. ClientType'
    BY <1>1 DEF Arrive, ClientType, UIType
  <2>2. arrived' \in Nat /\ left' \in [events : Nat, alerts : Nat, drops : Nat, errors : Nat]
    BY <1>1, SpendType DEF Arrive, ServerType
  <2>3. wire' \in Seq(Msgs)
    BY <1>1, <1>m, <2>2 DEF Arrive, ToRoom, ServerType
  <2>4. commands' \in Seq([push : Nat, read : Nat])
    BY <1>1, <2>2 DEF Arrive, ServerType
  <2> QED BY <1>1, <2>1, <2>2, <2>3, <2>4 DEF Arrive, ServerType
<1>2. CASE RedisExec
  <2>1. ClientType'
    BY <1>2 DEF RedisExec, ClientType, UIType
  <2>2. Head(commands) \in [push : Nat, read : Nat] /\ commands' \in Seq([push : Nat, read : Nat])
    <3>1. commands # <<>> /\ commands' = Tail(commands)
      BY <1>2 DEF RedisExec
    <3> QED BY <3>1, HeadTailProperties DEF ServerType
  <2>3. <<Head(commands).push>> \o cache \in Seq(Nat)
    BY <2>2 DEF ServerType
  <2>4. cache' \in Seq(Nat) /\ Len(cache') <= FeedSize
    BY <1>2, <1>a, <2>3, FirstNType DEF RedisExec, ServerType
  <2> QED BY <1>2, <2>1, <2>2, <2>4 DEF RedisExec, ServerType
<1>3. CASE RedisError
  <2>1. ClientType'
    BY <1>3 DEF RedisError, ClientType, UIType
  <2>2. left' \in [events : Nat, alerts : Nat, drops : Nat, errors : Nat]
    BY <1>3, SpendType DEF RedisError
  <2>3. commands' \in Seq([push : Nat, read : Nat])
    <3>1. commands # <<>> /\ commands' = Tail(commands)
      BY <1>3 DEF RedisError
    <3> QED BY <3>1, HeadTailProperties DEF ServerType
  <2>4. omitted' \in SUBSET Nat /\ fetched' \in Seq(Nat)
    <3>1. omitted \cup 1..arrived \in SUBSET Nat /\ <<>> \in Seq(Nat)
      BY DEF ServerType
    <3> QED BY <1>3, <3>1 DEF RedisError, ServerType
  <2> QED BY <1>3, <2>1, <2>2, <2>3, <2>4 DEF RedisError, ServerType
<1>6. CASE RedisResend
  <2>1. left' \in [events : Nat, alerts : Nat, drops : Nat, errors : Nat]
    BY <1>6, SpendType DEF RedisResend
  <2>2. PICK oldest, newest \in QueuedPushes :
          cache' = FirstN([k \in 1..(newest - oldest + 1) |-> newest + 1 - k] \o cache, FeedSize)
               /\ \A e \in QueuedPushes : oldest <= e
    BY <1>6, Zenon DEF RedisResend
  <2>3. oldest \in Nat /\ newest \in Nat /\ oldest <= newest /\ oldest # 0
    <3> DEFINE C == [push : Nat, read : Nat]
    <3>1. commands \in Seq(C) /\ \A c \in C : c.push \in Nat
      BY DEF ServerType
    <3> HIDE DEF C
    <3>2. \A k \in DOMAIN commands : commands[k].push \in Nat
      BY <3>1
    <3>3. QueuedPushes \subseteq Nat \ {0}
      BY <3>2, Zenon DEF QueuedPushes
    <3> QED BY <2>2, <3>3
  <2> DEFINE n == newest - oldest + 1
             again == [k \in 1..n |-> newest + 1 - k]
  <2>4. n \in Nat /\ \A k \in 1..n : newest + 1 - k \in Nat
    BY <2>3
  <2>5. again \in Seq(Nat)
    BY <2>4
  <2>6. again \o cache \in Seq(Nat) /\ cache' = FirstN(again \o cache, FeedSize)
    <3> HIDE DEF again
    <3>1. again \o cache \in Seq(Nat)
      BY <2>5 DEF ServerType
    <3> QED BY <2>2, <3>1 DEF again, n
  <2>7. cache' \in Seq(Nat) /\ Len(cache') <= FeedSize
    BY <1>a, <2>6, FirstNType
  <2> HIDE DEF again, n
  <2>8. ServerType'
    BY <1>6, <2>1, <2>7 DEF RedisResend, ServerType
  <2> QED BY <1>6, <2>8 DEF RedisResend, ClientType, UIType
<1>4. CASE Tick
  <2>1. wire' \in Seq(Msgs)
    BY <1>4, <1>m DEF Tick, ToRoom, ServerType
  <2> QED BY <1>4, <2>1 DEF Tick, ServerType, ClientType, UIType
<1>5. CASE TickAlerting
  <2>1. raised' \in Nat /\ left' \in [events : Nat, alerts : Nat, drops : Nat, errors : Nat]
    BY <1>5, SpendType DEF TickAlerting, ServerType
  <2>2. wire' \in Seq(Msgs)
    BY <1>5, <1>m, <2>1 DEF TickAlerting, ToRoom, ServerType
  <2>3. missed' \in SUBSET Nat
    BY <1>5, <2>1 DEF TickAlerting, ServerType
  <2>4. ClientType'
    BY <1>5 DEF TickAlerting, ClientType, UIType
  <2> QED BY <1>5, <2>1, <2>2, <2>3, <2>4 DEF TickAlerting, ServerType
<1> QED BY <1>1, <1>2, <1>3, <1>4, <1>5, <1>6 DEF RedisCommand

\* Steps of a connection on the gateway's side.
LEMMA GatewayType ==
  TypeOK /\ (Open \/ Accept \/ Reject \/ SendSnapshot \/ Expire) => TypeOK'
<1> SUFFICES ASSUME ServerType, ClientType,
                    Open \/ Accept \/ Reject \/ SendSnapshot \/ Expire
             PROVE  ServerType' /\ ClientType'
  BY TypeParts DEF TypeOK, ServerType, ClientType, Msgs
<1> USE DEF backend, gateway, socket, hook, history
<1>m. /\ Rejection \in Seq(Msgs) /\ Note("connect") \in Msgs
      /\ \A seed \in Seeds : Msg("snapshot", fetched, atJoin, seed) \in Msgs
  BY MessageTypes DEF ServerType, Kinds
<1>1. CASE Open
  <2>1. wire' \in Seq(Msgs)
    BY <1>1, <1>m DEF Open
  <2>2. fetched' \in Seq(Nat) /\ omitted' \in SUBSET Nat
    BY <1>1 DEF Open, NotYet
  <2>3. ServerType'
    <3>1. conn' \in {"none", "verifying", "assembling", "live"}
      BY <1>1 DEF Open
    <3>a. epoch' \in Nat
      BY <1>1 DEF Open, ServerType
    <3>b. verified' \in BOOLEAN
      BY <1>1 DEF Open
    <3>2. UNCHANGED <<token, arrived, raised, commands, cache, atJoin, resent, missed, left>>
      BY <1>1 DEF Open
    <3> QED BY <2>1, <2>2, <3>1, <3>a, <3>b, <3>2 DEF ServerType
  <2>4. ClientType'
    BY <1>1 DEF Open, ClientType
  <2> QED BY <2>3, <2>4
<1>2. CASE Accept
  <2>1. commands' \in Seq([push : Nat, read : Nat])
    BY <1>2 DEF Accept, ServerType
  <2> QED BY <1>2, <2>1 DEF Accept, ServerType, ClientType, UIType
<1>3. CASE Reject
  <2>1. wire' \in Seq(Msgs)
    BY <1>3, <1>m DEF Reject, ServerType
  <2> QED BY <1>3, <2>1 DEF Reject, ServerType, ClientType, UIType
<1>4. CASE SendSnapshot
  <2>1. wire' \in Seq(Msgs)
    BY <1>4, <1>m DEF SendSnapshot, ServerType
  <2> QED BY <1>4, <2>1 DEF SendSnapshot, ServerType, ClientType, UIType
<1>5. CASE Expire
  BY <1>5 DEF Expire, ServerType, ClientType, UIType
<1> QED BY <1>1, <1>2, <1>3, <1>4, <1>5

\* Receiving a message takes it from the wire.
LEMMA ReceiveType ==
  ASSUME ServerType, NEW kind, Receive(kind)
  PROVE  Head(wire) \in Msgs /\ Head(wire).kind = kind /\ ServerType'
<1> USE DEF backend, gateway, history
<1>1. Head(wire) \in Msgs /\ wire' \in Seq(Msgs)
  BY DEF Receive, ServerType
<1> QED BY <1>1 DEF Receive, ServerType

\* The listeners of the hook.
LEMMA ListenerType == TypeOK /\ Listeners => TypeOK'
<1> SUFFICES ASSUME ServerType, ClientType, Listeners
             PROVE  ServerType' /\ ClientType'
  BY TypeParts DEF TypeOK, ServerType, ClientType, Msgs
<1> DEFINE m == Head(wire)
<1>a. {MaxFeedEvents, MaxSeriesPoints, MaxAlertHistory} \subseteq Nat
  BY SizesAssumption
<1>1. CASE OnConnect
  BY <1>1, ReceiveType DEF OnConnect, Receive, ClientType, UIType
<1>2. CASE OnSnapshot
  <2>1. Receive("snapshot") /\ m \in Msgs /\ ServerType'
    BY <1>2, ReceiveType DEF OnSnapshot
  <2>2. /\ FirstN(m.events, MaxFeedEvents) \in Seq(Nat)
        /\ Len(FirstN(m.events, MaxFeedEvents)) <= MaxFeedEvents
    BY <1>a, <2>1, FirstNType DEF Msgs
  <2>3. /\ LastN(m.points, MaxSeriesPoints) \in Seq(Points)
        /\ Len(LastN(m.points, MaxSeriesPoints)) <= MaxSeriesPoints
    BY <1>a, <2>1, LastNType DEF Msgs
  <2>4. m.n \in Nat
    BY <2>1 DEF Msgs
  <2> QED BY <1>2, <2>1, <2>2, <2>3, <2>4 DEF OnSnapshot, Receive, ClientType, UIType
<1>3. CASE OnEvent
  <2>1. Receive("event:new") /\ m \in Msgs /\ ServerType'
    BY <1>3, ReceiveType DEF OnEvent
  <2>2. m.events \o ui.events \in Seq(Nat)
    BY <2>1 DEF Msgs, ClientType, UIType
  <2>3. /\ FirstN(m.events \o ui.events, MaxFeedEvents) \in Seq(Nat)
        /\ Len(FirstN(m.events \o ui.events, MaxFeedEvents)) <= MaxFeedEvents
    BY <1>a, <2>2, FirstNType
  <2> QED BY <1>3, <2>1, <2>3 DEF OnEvent, Receive, ClientType, UIType
<1>4. CASE OnMetrics
  <2>1. Receive("metrics:update") /\ m \in Msgs /\ ServerType'
    BY <1>4, ReceiveType DEF OnMetrics
  <2>2. ui.series \o m.points \in Seq(Points) /\ m.n \in Nat
    BY <2>1 DEF Msgs, ClientType, UIType
  <2>3. /\ LastN(ui.series \o m.points, MaxSeriesPoints) \in Seq(Points)
        /\ Len(LastN(ui.series \o m.points, MaxSeriesPoints)) <= MaxSeriesPoints
    BY <1>a, <2>2, LastNType
  <2> QED BY <1>4, <2>1, <2>2, <2>3 DEF OnMetrics, Receive, ClientType, UIType
<1>5. CASE OnAlert
  <2>1. Receive("alert:raised") /\ m \in Msgs /\ ServerType'
    BY <1>5, ReceiveType DEF OnAlert
  <2>2. <<m.n>> \o ui.alertHistory \in Seq(Nat)
    BY <2>1 DEF Msgs, ClientType, UIType
  <2>3. /\ FirstN(<<m.n>> \o ui.alertHistory, MaxAlertHistory) \in Seq(Nat)
        /\ Len(FirstN(<<m.n>> \o ui.alertHistory, MaxAlertHistory)) <= MaxAlertHistory
    BY <1>a, <2>2, FirstNType
  <2> QED BY <1>5, <2>1, <2>3 DEF OnAlert, Receive, ClientType, UIType
<1>6. CASE OnAuthError
  BY <1>6, ReceiveType DEF OnAuthError, Receive, ClientType, UIType
<1>7. CASE OnServerDisconnect
  BY <1>7, ReceiveType DEF OnServerDisconnect, Receive, ClientType, UIType
<1> QED BY <1>1, <1>2, <1>3, <1>4, <1>5, <1>6, <1>7 DEF Listeners

\* The transport and the manager of the socket.
LEMMA TransportType == TypeOK /\ (Lose \/ Retry \/ ConnectError \/ Cleanup) => TypeOK'
<1> SUFFICES ASSUME ServerType, ClientType, Lose \/ Retry \/ ConnectError \/ Cleanup
             PROVE  ServerType' /\ ClientType'
  BY TypeParts DEF TypeOK, ServerType, ClientType, Msgs
<1> USE DEF backend, gateway, history
<1>l. Lost \subseteq Nat
  <2>1. ASSUME NEW k \in DOMAIN wire PROVE wire[k].n \in Nat
    <3>1. wire[k] \in Msgs
      BY DEF ServerType
    <3> QED BY <3>1 DEF Msgs
  <2> QED BY <2>1, Zenon DEF Lost
<1>d. ASSUME Spend("drops")
      PROVE  left' \in [events : Nat, alerts : Nat, drops : Nat, errors : Nat]
  BY <1>d, SpendType
<1>1. CASE Lose
  <2>0. /\ left' \in [events : Nat, alerts : Nat, drops : Nat, errors : Nat]
        /\ missed' \in SUBSET Nat /\ wire' \in Seq(Msgs)
    BY <1>1, <1>l, <1>d DEF Lose, Unplug, ServerType
  <2>1. ServerType'
    BY <1>1, <2>0 DEF Lose, Unplug, ServerType
  <2>2. ui' \in UIType
    BY <1>1 DEF Lose, ClientType, UIType
  <2> QED BY <1>1, <2>1, <2>2 DEF Lose, Unplug, ClientType, UIType
<1>2. CASE Retry
  <2>1. tries' \in Nat
    BY <1>2 DEF Retry, ClientType
  <2>2. ui' \in UIType
    BY <1>2, <2>1 DEF Retry, ClientType, UIType
  <2> QED BY <1>2, <2>1, <2>2 DEF Retry, ServerType, ClientType, UIType
<1>3. CASE ConnectError
  BY <1>3, <1>d DEF ConnectError, ServerType, ClientType, UIType
<1>4. CASE Cleanup
  <2>1. /\ InitialState \in UIType
        /\ Len(InitialState.events) = 0 /\ Len(InitialState.series) = 0
        /\ Len(InitialState.alertHistory) = 0
    BY DEF InitialState, UIType
  <2>2. ServerType'
    <3>1. missed' \in SUBSET Nat /\ wire' \in Seq(Msgs)
      BY <1>4, <1>l DEF Cleanup, Unplug, ServerType
    <3> QED BY <1>4, <3>1 DEF Cleanup, Unplug, ServerType
  <2>3. ClientType'
    BY <1>4, <2>1, SizesAssumption DEF Cleanup, Unplug, ClientType
  <2> QED BY <2>2, <2>3
<1> QED BY <1>1, <1>2, <1>3, <1>4

\* Every step keeps the types.
LEMMA NextType == TypeOK /\ [Next]_vars => TypeOK'
<1>1. TypeOK /\ UNCHANGED vars => TypeOK'
  BY TypeParts DEF vars, backend, gateway, socket, hook, history, TypeOK, UIType
<1> QED BY <1>1, BackendType, GatewayType, ListenerType, TransportType DEF Next, RedisCommand

\* Every reachable state is well typed: the cache and what the hook keeps have their
\* sizes.
THEOREM TypeCorrect == Spec => []TypeOK
  BY InitType, NextType, PTL DEF Spec

(***************************************************************************)
(* The protocol of the socket.                                             *)
(***************************************************************************)
\* What is under way: data only for a verified client, auth:error only for a refused one,
\* connect first, and nothing behind the server's disconnect.
WireOK ==
  \A j \in 1..Len(wire) :
    /\ wire[j].kind \in Data => verified
    /\ wire[j].kind = "auth:error" => token # "valid" /\ ~ verified /\ conn = "none"
    /\ wire[j].kind = "connect" => j = 1
    /\ wire[j].kind = "disconnect" => j = Len(wire) /\ conn = "none"

\* Both ends: only the verified are in the room, a server's end and messages need an
\* open link, attempts are counted until connect is received, and a client that was
\* refused is never verified again, however often it connects.
SocketOK ==
  /\ InRoom => verified
  /\ conn # "none" => link = "open"
  /\ wire # <<>> => link = "open"
  /\ link = "open" => ui.reconnectAttempts = 0 \/ (wire # <<>> /\ wire[1].kind = "connect")
  /\ conn = "verifying" => ~ verified
  /\ loggedOut => token # "valid" /\ ~ verified
  /\ LiveMeansOpen

SocketInv == TypeOK /\ WireOK /\ SocketOK

LEMMA SocketInit == Init => WireOK /\ SocketOK
  BY DEF Init, InitialState, WireOK, SocketOK, InRoom, LiveMeansOpen

\* Steps that touch neither end of the socket.
LEMMA ElsewhereKeeps ==
  ASSUME WireOK, SocketOK, UNCHANGED <<token, conn, wire, link, ui, loggedOut, verified>>
  PROVE  WireOK' /\ SocketOK'
  BY DEF WireOK, SocketOK, InRoom, LiveMeansOpen

\* Data sent to a client in the room.
LEMMA SendingKeeps ==
  ASSUME TypeOK, WireOK, SocketOK, InRoom, conn' \in {"assembling", "live"},
         NEW msgs \in Seq(Msgs), \A j \in 1..Len(msgs) : msgs[j].kind \in Data,
         wire' = wire \o msgs,
         UNCHANGED <<token, link, ui, loggedOut, verified>>
  PROVE  WireOK' /\ SocketOK'
<1>1. wire \in Seq(Msgs) /\ conn # "none" /\ verified /\ link = "open"
  BY TypeParts DEF ServerType, SocketOK, InRoom
<1>2. /\ Len(wire') = Len(wire) + Len(msgs)
      /\ \A j \in 1..Len(wire') : wire'[j] = IF j <= Len(wire) THEN wire[j] ELSE msgs[j - Len(wire)]
  BY <1>1, ConcatProperties
<1>3. Len(wire) \in Nat /\ Len(msgs) \in Nat
  BY <1>1
<1>4. WireOK'
  <2> SUFFICES ASSUME NEW j \in 1..Len(wire')
               PROVE  /\ wire'[j].kind \in Data => verified
                      /\ wire'[j].kind # "auth:error"
                      /\ wire'[j].kind = "connect" => j = 1
                      /\ wire'[j].kind # "disconnect"
    BY DEF WireOK
  <2>1. CASE j <= Len(wire)
    <3>1. j \in 1..Len(wire) /\ wire'[j] = wire[j]
      BY <1>2, <1>3, <2>1
    <3> QED BY <1>1, <3>1 DEF WireOK
  <2>2. CASE ~ (j <= Len(wire))
    <3>1. j - Len(wire) \in 1..Len(msgs) /\ wire'[j] = msgs[j - Len(wire)]
      BY <1>2, <1>3, <2>2
    <3> QED BY <1>1, <3>1 DEF Data
  <2> QED BY <2>1, <2>2
<1>5. wire # <<>> => wire' # <<>> /\ wire'[1] = wire[1]
  BY <1>1, <1>2, <1>3
<1> QED BY <1>1, <1>4, <1>5 DEF SocketOK, InRoom, LiveMeansOpen

\* The messages of the room are data.
LEMMA RoomKeeps ==
  ASSUME TypeOK, WireOK, SocketOK, NEW msgs \in Seq(Msgs),
         \A j \in 1..Len(msgs) : msgs[j].kind \in Data, ToRoom(msgs),
         UNCHANGED <<token, conn, link, ui, loggedOut, verified>>
  PROVE  WireOK' /\ SocketOK'
<1>1. CASE InRoom
  BY <1>1, SendingKeeps DEF ToRoom, InRoom
<1>2. CASE ~ InRoom
  BY <1>2, ElsewhereKeeps DEF ToRoom
<1> QED BY <1>1, <1>2

LEMMA BackendKeeps ==
  SocketInv /\ (Arrive \/ RedisCommand \/ Tick \/ TickAlerting) => WireOK' /\ SocketOK'
<1> SUFFICES ASSUME TypeOK, WireOK, SocketOK,
                    Arrive \/ RedisCommand \/ Tick \/ TickAlerting
             PROVE  WireOK' /\ SocketOK'
  BY DEF SocketInv
<1> USE DEF backend, gateway, socket, hook, history
<1>m. /\ Update \in Msgs /\ Update.kind \in Data
      /\ \A e \in Nat : /\ Msg("event:new", <<e>>, 0, <<>>) \in Msgs
                        /\ Msg("event:new", <<e>>, 0, <<>>).kind \in Data
      /\ \A a \in Nat : /\ Msg("alert:raised", <<>>, a, <<>>) \in Msgs
                        /\ Msg("alert:raised", <<>>, a, <<>>).kind \in Data
  BY TypeParts, MessageTypes DEF ServerType, Update, Msg, Data
<1>n. arrived + 1 \in Nat /\ raised + 1 \in Nat
  BY TypeParts DEF ServerType
<1>1. CASE Arrive
  <2> DEFINE msgs == <<Msg("event:new", <<arrived'>>, 0, <<>>)>>
  <2>1. arrived' = arrived + 1 /\ ToRoom(msgs)
        /\ UNCHANGED <<token, conn, link, ui, loggedOut, verified>>
    BY <1>1 DEF Arrive
  <2>2. msgs \in Seq(Msgs) /\ \A j \in 1..Len(msgs) : msgs[j].kind \in Data
    BY <1>m, <1>n, <2>1
  <2> HIDE DEF msgs
  <2> QED BY <2>1, <2>2, RoomKeeps
<1>2. CASE RedisExec
  BY <1>2, ElsewhereKeeps DEF RedisExec
<1>3. CASE RedisError
  BY <1>3, ElsewhereKeeps DEF RedisError
<1>6. CASE RedisResend
  BY <1>6, ElsewhereKeeps DEF RedisResend
<1>4. CASE Tick
  <2> DEFINE msgs == <<Update>>
  <2>1. ToRoom(msgs) /\ UNCHANGED <<token, conn, link, ui, loggedOut, verified>>
    BY <1>4 DEF Tick
  <2>2. msgs \in Seq(Msgs) /\ \A j \in 1..Len(msgs) : msgs[j].kind \in Data
    BY <1>m
  <2> HIDE DEF msgs
  <2> QED BY <2>1, <2>2, RoomKeeps
<1>5. CASE TickAlerting
  <2> DEFINE msgs == <<Update, Msg("alert:raised", <<>>, raised', <<>>)>>
  <2>1. raised' = raised + 1 /\ ToRoom(msgs)
        /\ UNCHANGED <<token, conn, link, ui, loggedOut, verified>>
    BY <1>5 DEF TickAlerting
  <2>2. msgs \in Seq(Msgs) /\ \A j \in 1..Len(msgs) : msgs[j].kind \in Data
    BY <1>m, <1>n, <2>1
  <2> HIDE DEF msgs
  <2> QED BY <2>1, <2>2, RoomKeeps
<1> QED BY <1>1, <1>2, <1>3, <1>4, <1>5, <1>6 DEF RedisCommand

\* What a rejection adds to the messages under way.
LEMMA RejectionAfter ==
  ASSUME NEW s \in Seq(Msgs), Rejection \in Seq(Msgs), Len(Rejection) = 2,
         Rejection[1].kind = "auth:error", Rejection[2].kind = "disconnect"
  PROVE  /\ Len(s \o Rejection) = Len(s) + 2
         /\ \A j \in 1..Len(s) : (s \o Rejection)[j] = s[j]
         /\ (s \o Rejection)[Len(s) + 1].kind = "auth:error"
         /\ (s \o Rejection)[Len(s) + 2].kind = "disconnect"
<1> DEFINE r == Rejection
<1>1. /\ r \in Seq(Msgs) /\ Len(r) = 2 /\ r[1].kind = "auth:error" /\ r[2].kind = "disconnect"
      /\ Len(s) \in Nat
  OBVIOUS
<1> HIDE DEF r
<1>2. /\ Len(s \o r) = Len(s) + Len(r)
      /\ \A i \in 1..Len(s) + Len(r) : (s \o r)[i] = IF i <= Len(s) THEN s[i] ELSE r[i - Len(s)]
  BY <1>1, ConcatProperties
<1>3. (s \o r)[Len(s) + 1] = r[1]
  <2>1. Len(s) + 1 \in 1..Len(s) + Len(r) /\ ~ (Len(s) + 1 <= Len(s)) /\ Len(s) + 1 - Len(s) = 1
    BY <1>1
  <2> QED BY <1>2, <2>1
<1>4. (s \o r)[Len(s) + 2] = r[2]
  <2>1. Len(s) + 2 \in 1..Len(s) + Len(r) /\ ~ (Len(s) + 2 <= Len(s)) /\ Len(s) + 2 - Len(s) = 2
    BY <1>1
  <2> QED BY <1>2, <2>1
<1>5. \A j \in 1..Len(s) : (s \o r)[j] = s[j]
  BY <1>1, <1>2
<1>6. Len(s \o r) = Len(s) + 2
  BY <1>1, <1>2
<1> QED BY <1>1, <1>3, <1>4, <1>5, <1>6 DEF r

\* The handshake.
LEMMA HandshakeKeeps ==
  SocketInv /\ (Open \/ Accept \/ Reject \/ SendSnapshot \/ Expire) => WireOK' /\ SocketOK'
<1> SUFFICES ASSUME TypeOK, WireOK, SocketOK, Open \/ Accept \/ Reject \/ SendSnapshot \/ Expire
             PROVE  WireOK' /\ SocketOK'
  BY DEF SocketInv
<1> USE DEF backend, gateway, socket, hook, history
<1>t. ServerType /\ ClientType
  BY TypeParts
<1>r. /\ Len(Rejection) = 2
      /\ Rejection[1].kind = "auth:error" /\ Rejection[2].kind = "disconnect"
      /\ Rejection \in Seq(Msgs)
  BY <1>t, MessageTypes DEF Rejection, Note, Msg, ServerType
<1>1. CASE Open
  <2> DEFINE first == <<Note("connect")>>
  <2>1. /\ first \in Seq(Msgs) /\ Len(first) = 1 /\ first[1].kind = "connect"
    BY <1>t, MessageTypes DEF Note, Msg, ServerType, Kinds
  <2>2. CASE token = "absent"
    <3>1. wire' = first \o Rejection /\ conn' = "none"
      BY <1>1, <2>2 DEF Open
    <3> HIDE DEF first
    <3>2. /\ Len(wire') = 3 /\ wire'[1].kind = "connect" /\ wire'[2].kind = "auth:error"
          /\ wire'[3].kind = "disconnect" /\ wire' # <<>>
      <4>1. Len(wire') = 3
        <5>1. Len(first \o Rejection) = Len(first) + 2
          BY <1>r, <2>1, RejectionAfter
        <5> QED BY <2>1, <3>1, <5>1
      <4>2. wire'[1] = first[1]
        BY <1>r, <2>1, <3>1, RejectionAfter
      <4>3. wire'[1 + 1].kind = "auth:error" /\ wire'[1 + 2].kind = "disconnect"
        BY <1>r, <2>1, <3>1, RejectionAfter
      <4> QED BY <2>1, <4>1, <4>2, <4>3
    <3>3. token' = "absent" /\ link' = "open" /\ ~ verified' /\ UNCHANGED <<ui, loggedOut>>
      BY <1>1, <2>2 DEF Open
    <3>4. WireOK'
      BY <3>1, <3>2, <3>3 DEF WireOK, Data
    <3> QED BY <3>1, <3>2, <3>3, <3>4 DEF SocketOK, InRoom, LiveMeansOpen
  <2>3. CASE token # "absent"
    <3>1. wire' = first /\ conn' = "verifying"
      BY <1>1, <2>1, <2>3 DEF Open
    <3> HIDE DEF first
    <3>2. link' = "open" /\ ~ verified' /\ UNCHANGED <<token, ui, loggedOut>>
      BY <1>1 DEF Open
    <3>3. WireOK'
      <4>1. \A j \in 1..Len(wire') : j = 1 /\ wire'[j].kind = "connect"
        <5>1. Len(wire') = 1
          BY <2>1, <3>1
        <5>2. wire'[1].kind = "connect"
          BY <2>1, <3>1
        <5> QED BY <5>1, <5>2
      <4> QED BY <4>1 DEF WireOK, Data
    <3> QED BY <2>1, <3>1, <3>2, <3>3 DEF SocketOK, InRoom, LiveMeansOpen
  <2> QED BY <2>2, <2>3
<1>2. CASE Accept
  BY <1>2, <1>t DEF Accept, WireOK, SocketOK, InRoom, LiveMeansOpen
<1>3. CASE Reject
  <2>1. /\ conn = "verifying" /\ token # "valid" /\ conn' = "none" /\ wire' = wire \o Rejection
        /\ UNCHANGED <<token, link, ui, loggedOut, verified>> /\ ~ verified
    BY <1>3 DEF Reject, SocketOK
  <2>2. wire \in Seq(Msgs) /\ Len(wire) \in Nat
    BY <1>t DEF ServerType
  <2>3. /\ Len(wire') = Len(wire) + 2
        /\ \A j \in 1..Len(wire) : wire'[j] = wire[j]
        /\ wire'[Len(wire) + 1].kind = "auth:error"
        /\ wire'[Len(wire) + 2].kind = "disconnect"
    BY <1>r, <2>1, <2>2, RejectionAfter
  <2>4. WireOK'
    <3> SUFFICES ASSUME NEW j \in 1..Len(wire')
                 PROVE  /\ wire'[j].kind \in Data => FALSE
                        /\ wire'[j].kind = "connect" => j = 1
                        /\ wire'[j].kind = "disconnect" => j = Len(wire')
      BY <2>1, Zenon DEF WireOK
    <3>1. CASE j <= Len(wire)
      <4>1. j \in 1..Len(wire) /\ wire'[j] = wire[j]
        BY <2>2, <2>3, <3>1
      <4> QED BY <2>1, <4>1 DEF WireOK
    <3>2. CASE j = Len(wire) + 1
      <4>1. wire'[j].kind = "auth:error"
        BY <2>3, <3>2
      <4> QED BY <2>1, <4>1 DEF Data
    <3>3. CASE j = Len(wire) + 2
      <4>1. wire'[j].kind = "disconnect"
        BY <2>3, <3>3
      <4> QED BY <2>3, <3>3, <4>1 DEF Data
    <3> QED BY <2>2, <2>3, <3>1, <3>2, <3>3
  <2>5. wire' # <<>> /\ (wire # <<>> => wire'[1] = wire[1])
    BY <2>1, <2>2, <2>3
  <2> QED BY <2>1, <2>4, <2>5 DEF SocketOK, InRoom, LiveMeansOpen
<1>4. CASE SendSnapshot
  <2>1. PICK seed \in Seeds : wire' = Append(wire, Msg("snapshot", fetched, atJoin, seed))
    BY <1>4 DEF SendSnapshot
  <2> DEFINE msgs == <<Msg("snapshot", fetched, atJoin, seed)>>
  <2>2. msgs \in Seq(Msgs) /\ \A j \in 1..Len(msgs) : msgs[j].kind \in Data
    BY <1>t, <2>1, MessageTypes DEF ServerType, Msg, Data
  <2>3. wire' = wire \o msgs
    <3>1. wire \in Seq(Msgs) /\ Msg("snapshot", fetched, atJoin, seed) \in Msgs
      BY <1>t, <2>1, MessageTypes DEF ServerType
    <3> QED BY <2>1, <3>1, AppendIsConcat
  <2>4. /\ InRoom /\ conn' \in {"assembling", "live"}
        /\ UNCHANGED <<token, link, ui, loggedOut, verified>>
    BY <1>4 DEF SendSnapshot, InRoom
  <2> HIDE DEF msgs
  <2> QED BY <2>2, <2>3, <2>4, SendingKeeps
<1>5. CASE Expire
  BY <1>5, <1>t DEF Expire, WireOK, SocketOK, InRoom, LiveMeansOpen
<1> QED BY <1>1, <1>2, <1>3, <1>4, <1>5

\* What is received was under way, and what remains is in order.
LEMMA ReceiveKeeps ==
  ASSUME TypeOK, WireOK, SocketOK, NEW kind, Receive(kind)
  PROVE  /\ WireOK' /\ link = "open" /\ wire[1].kind = kind
         /\ kind \in Data => verified
         /\ kind = "auth:error" => token # "valid" /\ ~ verified
         /\ kind = "disconnect" => wire' = <<>> /\ conn = "none"
         /\ kind # "connect" => ui.reconnectAttempts = 0
         /\ UNCHANGED <<token, conn, verified>>
<1> USE DEF backend, gateway, history
<1>1. /\ wire \in Seq(Msgs) /\ wire # <<>> /\ Head(wire).kind = kind /\ wire' = Tail(wire)
      /\ UNCHANGED <<token, conn, verified>>
  BY TypeParts DEF Receive, ServerType
<1>2. /\ Len(wire) \in Nat /\ Len(wire) >= 1 /\ Len(wire') = Len(wire) - 1
      /\ \A j \in 1..Len(wire') : wire'[j] = wire[j + 1]
      /\ wire' \in Seq(Msgs)
  BY <1>1, HeadTailProperties
<1>3. wire[1].kind = kind
  BY <1>1
<1>4. link = "open" /\ (kind # "connect" => ui.reconnectAttempts = 0)
  BY <1>1, <1>3 DEF SocketOK
<1>5. /\ kind \in Data => verified
      /\ kind = "auth:error" => token # "valid" /\ ~ verified
      /\ kind = "disconnect" => Len(wire) = 1 /\ conn = "none"
  BY <1>2, <1>3 DEF WireOK
<1>6. Len(wire) = 1 => wire' = <<>>
  BY <1>2
<1>7. WireOK'
  <2> SUFFICES ASSUME NEW j \in 1..Len(wire')
               PROVE  /\ wire'[j].kind \in Data => verified
                      /\ wire'[j].kind = "auth:error" =>
                           token # "valid" /\ ~ verified /\ conn = "none"
                      /\ wire'[j].kind = "connect" => j = 1
                      /\ wire'[j].kind = "disconnect" => j = Len(wire') /\ conn = "none"
    BY <1>1 DEF WireOK
  <2>1. j + 1 \in 1..Len(wire) /\ j + 1 # 1 /\ wire'[j] = wire[j + 1]
    BY <1>2
  <2> QED BY <1>2, <2>1 DEF WireOK
<1> QED BY <1>1, <1>3, <1>4, <1>5, <1>6, <1>7

LEMMA ListenersKeep == SocketInv /\ Listeners => WireOK' /\ SocketOK'
<1> SUFFICES ASSUME TypeOK, WireOK, SocketOK, Listeners
             PROVE  WireOK' /\ SocketOK'
  BY DEF SocketInv
<1> USE DEF SocketOK, InRoom, LiveMeansOpen
<1>u. ui \in UIType
  BY TypeParts DEF ClientType
<1>1. CASE OnConnect
  <2>1. Receive("connect")
    BY <1>1 DEF OnConnect
  <2> QED BY <1>1, <1>u, <2>1, ReceiveKeeps DEF OnConnect, UIType
<1>2. CASE OnSnapshot
  <2>1. Receive("snapshot")
    BY <1>2 DEF OnSnapshot
  <2>2. ui'.status = "live" /\ ui'.reconnectAttempts = ui.reconnectAttempts
        /\ UNCHANGED <<link, loggedOut>>
    BY <1>2, <1>u DEF OnSnapshot, UIType
  <2> QED BY <2>1, <2>2, ReceiveKeeps
<1>3. CASE OnEvent
  <2>1. Receive("event:new")
    BY <1>3 DEF OnEvent
  <2>2. ui'.status = ui.status /\ ui'.reconnectAttempts = ui.reconnectAttempts
        /\ UNCHANGED <<link, loggedOut>>
    BY <1>3, <1>u DEF OnEvent, UIType
  <2> QED BY <2>1, <2>2, ReceiveKeeps
<1>4. CASE OnMetrics
  <2>1. Receive("metrics:update")
    BY <1>4 DEF OnMetrics
  <2>2. ui'.status = ui.status /\ ui'.reconnectAttempts = ui.reconnectAttempts
        /\ UNCHANGED <<link, loggedOut>>
    BY <1>4, <1>u DEF OnMetrics, UIType
  <2> QED BY <2>1, <2>2, ReceiveKeeps
<1>5. CASE OnAlert
  <2>1. Receive("alert:raised")
    BY <1>5 DEF OnAlert
  <2>2. ui'.status = ui.status /\ ui'.reconnectAttempts = ui.reconnectAttempts
        /\ UNCHANGED <<link, loggedOut>>
    BY <1>5, <1>u DEF OnAlert, UIType
  <2> QED BY <2>1, <2>2, ReceiveKeeps
<1>6. CASE OnAuthError
  <2>1. Receive("auth:error")
    BY <1>6 DEF OnAuthError
  <2>2. ui'.status = "unauthorized" /\ ui'.reconnectAttempts = ui.reconnectAttempts
        /\ loggedOut' /\ UNCHANGED link
    BY <1>6, <1>u DEF OnAuthError, UIType
  <2> QED BY <2>1, <2>2, ReceiveKeeps
<1>7. CASE OnServerDisconnect
  <2>1. Receive("disconnect")
    BY <1>7 DEF OnServerDisconnect
  <2>2. ui'.status = "unauthorized" /\ link' = "ended" /\ UNCHANGED loggedOut
    BY <1>7, <1>u DEF OnServerDisconnect, UIType
  <2> QED BY <2>1, <2>2, ReceiveKeeps
<1> QED BY <1>1, <1>2, <1>3, <1>4, <1>5, <1>6, <1>7 DEF Listeners

LEMMA TransportKeeps ==
  SocketInv /\ (Lose \/ Retry \/ ConnectError \/ Cleanup) => WireOK' /\ SocketOK'
<1> SUFFICES ASSUME TypeOK, WireOK, SocketOK, Lose \/ Retry \/ ConnectError \/ Cleanup
             PROVE  WireOK' /\ SocketOK'
  BY DEF SocketInv
<1> USE DEF backend, gateway, history, SocketOK, InRoom, LiveMeansOpen
<1>u. ui \in UIType
  BY TypeParts DEF ClientType
<1>1. CASE Lose
  BY <1>1, <1>u DEF Lose, Unplug, WireOK, UIType
<1>2. CASE Retry
  BY <1>2, <1>u DEF Retry, WireOK, UIType
<1>3. CASE ConnectError
  BY <1>3, <1>u DEF ConnectError, WireOK, UIType
<1>4. CASE Cleanup
  BY <1>4 DEF Cleanup, Unplug, InitialState, WireOK
<1> QED BY <1>1, <1>2, <1>3, <1>4

\* Every step keeps the invariant of the socket.
LEMMA SocketNext == SocketInv /\ [Next]_vars => SocketInv'
<1>1. SocketInv /\ UNCHANGED vars => WireOK' /\ SocketOK'
  BY ElsewhereKeeps DEF SocketInv, vars, backend, gateway, socket, hook, history
<1>2. SocketInv /\ [Next]_vars => TypeOK'
  BY NextType DEF SocketInv
<1> QED BY <1>1, <1>2, BackendKeeps, HandshakeKeeps, ListenersKeep, TransportKeeps
        DEF Next, RedisCommand, SocketInv

LEMMA SocketAlways == Spec => []SocketInv
<1>1. Init => SocketInv
  BY InitType, SocketInit DEF SocketInv
<1> QED BY <1>1, SocketNext, PTL DEF Spec

\* An unauthenticated connection never receives a byte of business data, however events,
\* ticks and snapshots fall between the steps of its handshake.
THEOREM NoDataIsUnverified == Spec => []NoDataUnverified
<1>1. SocketInv => NoDataUnverified
  BY TypeParts DEF SocketInv, WireOK, NoDataUnverified, ServerType
<1> QED BY <1>1, SocketAlways, PTL

\* Lost connections and failures of Redis, however many, never send a user whose token is
\* good to the login screen.
THEOREM OnlyBadTokensAreLoggedOut == Spec => []OnlyBadTokensLogOut
<1>1. SocketInv => OnlyBadTokensLogOut
  BY DEF SocketInv, SocketOK, OnlyBadTokensLogOut
<1> QED BY <1>1, SocketAlways, PTL

\* The interface shows "live" only on an open connection.
THEOREM LiveIsOpen == Spec => []LiveMeansOpen
<1>1. SocketInv => LiveMeansOpen
  BY DEF SocketInv, SocketOK
<1> QED BY <1>1, SocketAlways, PTL

\* A listener shows something new only if it takes data.
LEMMA OnlyDataIsShown ==
  ASSUME TypeOK, Listeners
  PROVE  Shown' = Shown \/ Head(wire).kind \in Data
<1>1. ui \in UIType
  BY TypeParts DEF ClientType
<1>2. CASE OnConnect
  BY <1>1, <1>2 DEF OnConnect, Shown, UIType
<1>3. CASE OnSnapshot \/ OnEvent \/ OnMetrics \/ OnAlert
  BY <1>3 DEF OnSnapshot, OnEvent, OnMetrics, OnAlert, Receive, Data
<1>4. CASE OnAuthError \/ OnServerDisconnect
  BY <1>1, <1>4 DEF OnAuthError, OnServerDisconnect, Shown, UIType
<1> QED BY <1>2, <1>3, <1>4 DEF Listeners

\* A refusal is for good: whatever the socket is retried for before the hook is cleaned up,
\* nothing more is shown to a user who was sent to the login screen.
THEOREM RefusalIsForGood == Spec => RefusedSeesNoMore
<1>1. SocketInv /\ [Next]_vars => [loggedOut => Shown' = Shown \/ link' = "gone"]_vars
  <2> SUFFICES ASSUME SocketInv, Next, loggedOut
               PROVE  Shown' = Shown \/ link' = "gone"
    OBVIOUS
  <2>u. TypeOK /\ WireOK /\ ~ verified /\ ui \in UIType /\ wire \in Seq(Msgs)
    BY TypeParts DEF SocketInv, SocketOK, ServerType, ClientType
  <2>1. CASE Listeners
    <3>1. wire # <<>>
      BY <2>1 DEF Listeners, OnConnect, OnSnapshot, OnEvent, OnMetrics, OnAlert, OnAuthError,
                  OnServerDisconnect, Receive
    <3>2. 1 \in 1..Len(wire) /\ Head(wire) = wire[1]
      BY <2>u, <3>1
    <3>3. Head(wire).kind \notin Data
      BY <2>u, <3>2 DEF WireOK
    <3> QED BY <2>1, <2>u, <3>3, OnlyDataIsShown
  <2>2. CASE Lose \/ Retry \/ ConnectError
    BY <2>2, <2>u DEF Lose, Retry, ConnectError, Shown, UIType
  <2>3. CASE Cleanup
    BY <2>3 DEF Cleanup
  <2>4. CASE Arrive \/ RedisCommand \/ Tick \/ TickAlerting
    BY <2>4 DEF Arrive, RedisCommand, RedisExec, RedisError, RedisResend, Tick, TickAlerting,
                hook, Shown
  <2>5. CASE Open \/ Accept \/ Reject \/ SendSnapshot \/ Expire
    BY <2>5 DEF Open, Accept, Reject, SendSnapshot, Expire, hook, Shown
  <2> QED BY <2>1, <2>2, <2>3, <2>4, <2>5 DEF Next, RedisCommand
<1> QED BY <1>1, SocketAlways, PTL DEF Spec, RefusedSeesNoMore
=============================================================================

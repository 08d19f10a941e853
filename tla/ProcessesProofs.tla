-------------------------- MODULE ProcessesProofs --------------------------
(***************************************************************************)
(* For any number of attempts, outages, health checks and transactions,    *)
(* with an embedded producer or without: its schedule is one chain, a      *)
(* shutdown ends nothing that a later hook needs, and no event is          *)
(* published behind a QUIT.                                                *)
(***************************************************************************)
EXTENDS Processes, SequenceTheorems, TLAPS

Commands == {"publish", "cache", "ping", "quit"}
Clients  == [sent : Seq(Commands), offline : Seq(Commands), ended : BOOLEAN, left : BOOLEAN]

\* A command waits, at most once, or only as the last one.
In(s, x)   == \E j \in 1..Len(s) : s[j] = x
Once(s, x) == \A j, k \in 1..Len(s) : s[j] = x /\ s[k] = x => j = k
AtEnd(s, x) == \A j \in 1..Len(s) : s[j] = x => j = Len(s)

(***************************************************************************)
(* What a queue loses and gains.                                           *)
(***************************************************************************)
\* A call at its end.
LEMMA Appended ==
  ASSUME NEW s \in Seq(Commands), NEW x \in Commands
  PROVE  /\ \A y : In(Append(s, x), y) => In(s, y) \/ x = y
         /\ \A y : Once(s, y) /\ (x = y => ~ In(s, y)) => Once(Append(s, x), y)
         /\ ~ In(s, x) => AtEnd(Append(s, x), x)
<1> DEFINE t == Append(s, x)
<1>1. /\ Len(t) = Len(s) + 1 /\ \A j \in 1..Len(s) : t[j] = s[j]
      /\ t[Len(s) + 1] = x
      /\ Len(s) \in Nat
  BY AppendProperties
<1>2. \A j \in 1..Len(t) : j \in 1..Len(s) \/ j = Len(s) + 1
  BY <1>1
<1> HIDE DEF t
<1>3. \A y : In(t, y) => In(s, y) \/ x = y
  BY <1>1, <1>2 DEF In
<1>4. \A y : Once(s, y) /\ (x = y => ~ In(s, y)) => Once(t, y)
  BY <1>1, <1>2 DEF In, Once
<1>5. ~ In(s, x) => AtEnd(t, x)
  BY <1>1, <1>2 DEF In, AtEnd
<1> QED BY <1>3, <1>4, <1>5 DEF t

\* An answer at its beginning.
LEMMA Shifted ==
  ASSUME NEW s \in Seq(Commands), s # <<>>
  PROVE  /\ \A y : In(Tail(s), y) => In(s, y)
         /\ \A y : Once(s, y) => Once(Tail(s), y)
         /\ \A y : AtEnd(s, y) => AtEnd(Tail(s), y)
         /\ Once(s, s[1]) => ~ In(Tail(s), s[1])
         /\ In(s, s[1])
<1> DEFINE t == Tail(s)
<1>1. /\ Len(t) = Len(s) - 1 /\ Len(s) \in Nat /\ Len(s) >= 1
      /\ \A j \in 1..Len(t) : t[j] = s[j + 1]
  BY HeadTailProperties
<1>2. \A j \in 1..Len(t) : j + 1 \in 1..Len(s) /\ j \in Nat /\ j + 1 # 1
  BY <1>1
<1>3. 1 \in 1..Len(s)
  BY <1>1
<1> HIDE DEF t
<1>4. \A y : In(t, y) => In(s, y)
  BY <1>1, <1>2 DEF In
<1>5. \A y : Once(s, y) => Once(t, y)
  <2> SUFFICES ASSUME NEW y, Once(s, y), NEW j \in 1..Len(t), NEW k \in 1..Len(t), t[j] = y, t[k] = y
               PROVE  j = k
    BY DEF Once
  <2>1. s[j + 1] = y /\ s[k + 1] = y
    BY <1>1
  <2>2. j + 1 = k + 1
    BY <1>2, <2>1 DEF Once
  <2> QED BY <1>2, <2>2
<1>6. \A y : AtEnd(s, y) => AtEnd(t, y)
  <2> SUFFICES ASSUME NEW y, AtEnd(s, y), NEW j \in 1..Len(t), t[j] = y PROVE j = Len(t)
    BY DEF AtEnd
  <2>1. j + 1 = Len(s)
    BY <1>1, <1>2 DEF AtEnd
  <2> QED BY <1>1, <2>1
<1>7. Once(s, s[1]) => ~ In(t, s[1])
  <2> SUFFICES ASSUME Once(s, s[1]), NEW j \in 1..Len(t), t[j] = s[1] PROVE FALSE
    BY DEF In
  <2>1. s[j + 1] = s[1]
    BY <1>1
  <2>2. j + 1 = 1
    BY <1>2, <1>3, <2>1 DEF Once
  <2> QED BY <1>2, <2>2
<1>8. In(s, s[1])
  BY <1>3 DEF In
<1> QED BY <1>4, <1>5, <1>6, <1>7, <1>8 DEF t

\* A sequence behind another.
LEMMA Concatenated ==
  ASSUME NEW s \in Seq(Commands), NEW t \in Seq(Commands)
  PROVE  /\ \A j \in 1..Len(s) : j \in 1..Len(s \o t) /\ (s \o t)[j] = s[j]
         /\ s # <<>> => s \o t # <<>> /\ (s \o t)[1] = s[1] /\ Tail(s) \o t = Tail(s \o t)
         /\ \A x \in Commands : s \o Append(t, x) = Append(s \o t, x)
<1> DEFINE w == s \o t
<1>1. /\ w \in Seq(Commands) /\ Len(w) = Len(s) + Len(t) /\ Len(s) \in Nat /\ Len(t) \in Nat
      /\ \A i \in 1..Len(s) + Len(t) : w[i] = IF i <= Len(s) THEN s[i] ELSE t[i - Len(s)]
  BY ConcatProperties
<1> HIDE DEF w
<1>2. \A j \in 1..Len(s) : j \in 1..Len(w) /\ w[j] = s[j]
  BY <1>1
<1>3. ASSUME s # <<>> PROVE w # <<>> /\ w[1] = s[1] /\ Tail(s) \o t = Tail(w)
  <2> DEFINE r == Tail(s)
             v == r \o t
             u == Tail(w)
  <2>1. /\ r \in Seq(Commands) /\ Len(r) = Len(s) - 1 /\ Len(s) >= 1
        /\ \A i \in 1..Len(r) : r[i] = s[i + 1]
    BY <1>3, HeadTailProperties
  <2>2. /\ v \in Seq(Commands) /\ Len(v) = Len(r) + Len(t)
        /\ \A i \in 1..Len(r) + Len(t) : v[i] = IF i <= Len(r) THEN r[i] ELSE t[i - Len(r)]
    <3> HIDE DEF r
    <3> QED BY <2>1, ConcatProperties
  <2>3. w # <<>> /\ w[1] = s[1]
    BY <1>1, <2>1
  <2>4. u \in Seq(Commands) /\ Len(u) = Len(w) - 1 /\ \A i \in 1..Len(u) : u[i] = w[i + 1]
    BY <1>1, <2>3, HeadTailProperties
  <2> HIDE DEF r, v, u
  <2>5. ASSUME NEW i \in 1..Len(v) PROVE v[i] = u[i]
    <3>1. u[i] = w[i + 1]
      BY <1>1, <2>1, <2>2, <2>4
    <3>2. CASE i <= Len(r)
      BY <1>1, <2>1, <2>2, <3>1, <3>2
    <3>3. CASE ~ (i <= Len(r))
      <4>1. v[i] = t[i - Len(r)] /\ i - Len(r) = (i + 1) - Len(s)
        BY <1>1, <2>1, <2>2, <3>3
      <4>2. w[i + 1] = t[(i + 1) - Len(s)]
        BY <1>1, <2>1, <2>2, <3>3
      <4> QED BY <3>1, <4>1, <4>2
    <3> QED BY <3>2, <3>3
  <2>6. v = u
    BY <1>1, <2>1, <2>2, <2>4, <2>5, SeqEqual
  <2> QED BY <2>3, <2>6 DEF r, v, u
<1>4. ASSUME NEW x \in Commands PROVE s \o Append(t, x) = Append(w, x)
  <2>1. <<x>> \in Seq(Commands)
    OBVIOUS
  <2>2. Append(t, x) = t \o <<x>> /\ Append(w, x) = w \o <<x>>
    BY <1>1, AppendIsConcat
  <2>3. s \o (t \o <<x>>) = (s \o t) \o <<x>>
    BY <2>1, ConcatAssociative
  <2> QED BY <2>2, <2>3 DEF w
<1> QED BY <1>2, <1>3, <1>4 DEF w

(***************************************************************************)
(* The connection.  Nothing is off line while the server is reachable, but *)
(* for a client that does not connect to it any more.                      *)
(***************************************************************************)
ClientOK(c, up) == c \in Clients /\ (up /\ ~ c.left => c.offline = <<>>)

LEMMA WaitingType ==
  ASSUME NEW c \in Clients
  PROVE  Waiting(c) \in Seq(Commands) /\ c.sent \in Seq(Commands) /\ c.offline \in Seq(Commands)
<1>1. c.sent \in Seq(Commands) /\ c.offline \in Seq(Commands)
  BY DEF Clients
<1> QED BY <1>1, ConcatProperties DEF Waiting

\* A new client waits for nothing.
LEMMA NewIsIdle ==
  NewClient \in Clients /\ Waiting(NewClient) = <<>> /\ \A up : ClientOK(NewClient, up)
<1>1. NewClient \in Clients
  BY DEF NewClient, Clients
<1>2. Waiting(NewClient) = <<>> \o <<>>
  BY DEF Waiting, NewClient
<1>3. <<>> \o <<>> = <<>>
  BY EmptySeq, ConcatEmptySeq
<1> QED BY <1>1, <1>2, <1>3 DEF ClientOK, NewClient

\* A call waits behind the others, or is refused.
LEMMA CallAppends ==
  ASSUME NEW c, NEW up, ClientOK(c, up), NEW x \in Commands
  PROVE  /\ ClientOK(Called(c, up, x), up)
         /\ HasQuit(Called(c, up, x)) = HasQuit(c)
         /\ Waiting(Called(c, up, x)) = IF c.ended THEN Waiting(c) ELSE Append(Waiting(c), x)
<1>0. /\ c \in Clients /\ c.sent \in Seq(Commands) /\ c.offline \in Seq(Commands)
      /\ Waiting(c) \in Seq(Commands) /\ c.ended \in BOOLEAN /\ c.left \in BOOLEAN
  BY WaitingType DEF ClientOK, Clients
<1>s. Append(c.sent, x) \in Seq(Commands) /\ Append(c.offline, x) \in Seq(Commands)
  BY <1>0, AppendProperties
<1>1. CASE c.ended
  BY <1>1 DEF Called
<1>2. CASE ~ c.ended /\ up /\ ~ c.left
  <2>1. Called(c, up, x) = [c EXCEPT !.sent = Append(c.sent, x)]
    BY <1>2 DEF Called
  <2>2. /\ Called(c, up, x) \in Clients /\ Called(c, up, x).ended = c.ended
        /\ Called(c, up, x).left = c.left /\ Called(c, up, x).sent = Append(c.sent, x)
        /\ Called(c, up, x).offline = c.offline /\ c.offline = <<>>
    BY <1>0, <1>s, <1>2, <2>1 DEF Clients, ClientOK
  <2>3. Waiting(Called(c, up, x)) = Append(c.sent, x)
    BY <1>s, <2>2, ConcatEmptySeq DEF Waiting
  <2>4. Waiting(c) = c.sent
    BY <1>0, <2>2, ConcatEmptySeq DEF Waiting
  <2> QED BY <1>2, <2>2, <2>3, <2>4 DEF ClientOK, HasQuit
<1>3. CASE ~ c.ended /\ ~ (up /\ ~ c.left)
  <2>1. Called(c, up, x) = [c EXCEPT !.offline = Append(c.offline, x)]
    BY <1>3 DEF Called
  <2>2. /\ Called(c, up, x) \in Clients /\ Called(c, up, x).ended = c.ended
        /\ Called(c, up, x).offline = Append(c.offline, x)
        /\ Called(c, up, x).sent = c.sent /\ Called(c, up, x).left = c.left
    BY <1>0, <1>s, <2>1 DEF Clients
  <2>3. c.sent \o Append(c.offline, x) = Append(c.sent \o c.offline, x)
    BY <1>0, Concatenated
  <2> QED BY <1>3, <2>2, <2>3 DEF ClientOK, Waiting, HasQuit
<1> QED BY <1>0, <1>1, <1>2, <1>3

\* QUIT waits behind the others, or nothing else joins them, or all is given up.
LEMMA QuitAppends ==
  ASSUME NEW c, NEW up, ClientOK(c, up), NEW d \in QuitCalled(c, up)
  PROVE  /\ ClientOK(d, up)
         /\ Waiting(d) \in {<<>>, Waiting(c)} \/ Waiting(d) = Append(Waiting(c), "quit")
<1>1. CASE d = [NewClient EXCEPT !.ended = TRUE] /\ ~ up
  <2>1. d \in Clients /\ d.sent = <<>> /\ d.offline = <<>>
    BY <1>1, EmptySeq DEF NewClient, Clients
  <2>2. <<>> \o <<>> = <<>>
    BY EmptySeq, ConcatEmptySeq
  <2> QED BY <2>1, <2>2 DEF ClientOK, Waiting
<1>2. CASE d = [c EXCEPT !.left = TRUE] /\ ~ up
  <2>1. c \in Clients
    BY DEF ClientOK
  <2>2. d \in Clients /\ d.sent = c.sent /\ d.offline = c.offline
    BY <1>2, <2>1 DEF Clients
  <2> QED BY <1>2, <2>2 DEF ClientOK, Waiting
<1>3. CASE d = Called(c, up, "quit")
  BY <1>3, CallAppends DEF Commands
<1> QED BY <1>1, <1>2, <1>3 DEF QuitCalled

\* An answer is to the first that waits.
LEMMA AnswerShifts ==
  ASSUME NEW c, NEW up, ClientOK(c, up), c.sent # <<>>
  PROVE  /\ ClientOK(Answered(c), up)
         /\ Waiting(Answered(c)) = Tail(Waiting(c)) /\ Waiting(c) # <<>>
         /\ Head(c.sent) = Waiting(c)[1]
         /\ HasQuit(Answered(c)) => HasQuit(c) \/ In(Waiting(c), "quit")
<1>0. /\ c \in Clients /\ c.sent \in Seq(Commands) /\ c.offline \in Seq(Commands)
      /\ Waiting(c) \in Seq(Commands) /\ c.ended \in BOOLEAN /\ c.left \in BOOLEAN
  BY WaitingType DEF ClientOK, Clients
<1>1. Tail(c.sent) \in Seq(Commands) /\ Head(c.sent) = c.sent[1]
  BY <1>0, HeadTailProperties
<1>2. /\ Answered(c) \in Clients /\ Answered(c).sent = Tail(c.sent) /\ Answered(c).offline = c.offline
      /\ Answered(c).ended = (c.ended \/ Head(c.sent) = "quit") /\ Answered(c).left = c.left
  BY <1>0, <1>1 DEF Answered, Clients
<1>3. /\ Waiting(c) # <<>> /\ Waiting(c)[1] = c.sent[1]
      /\ Tail(c.sent) \o c.offline = Tail(Waiting(c))
  BY <1>0, Concatenated DEF Waiting
<1>4. Waiting(Answered(c)) = Tail(Waiting(c))
  BY <1>2, <1>3 DEF Waiting
<1>5. In(Waiting(c), Waiting(c)[1])
  BY <1>0, <1>3, Shifted
<1> QED BY <1>1, <1>2, <1>3, <1>4, <1>5 DEF ClientOK, HasQuit

\* What waits is sent again, in its order.
LEMMA ReconnectedWaits ==
  ASSUME NEW c \in Clients, NEW up
  PROVE  /\ ClientOK(Reconnected(c), up)
         /\ HasQuit(Reconnected(c)) = HasQuit(c) /\ Waiting(Reconnected(c)) = Waiting(c)
<1>0. /\ Waiting(c) \in Seq(Commands) /\ <<>> \in Seq(Commands)
      /\ c.ended \in BOOLEAN /\ c.left \in BOOLEAN
  BY WaitingType DEF Clients
<1> SUFFICES ASSUME ~ c.left
             PROVE  /\ ClientOK(Reconnected(c), up)
                    /\ HasQuit(Reconnected(c)) = HasQuit(c) /\ Waiting(Reconnected(c)) = Waiting(c)
  BY DEF Reconnected, ClientOK
<1>1. Reconnected(c) = [c EXCEPT !.sent = Waiting(c), !.offline = <<>>]
  BY DEF Reconnected
<1>2. /\ Reconnected(c) \in Clients
      /\ Reconnected(c).ended = c.ended /\ Reconnected(c).left = c.left
      /\ Reconnected(c).sent = Waiting(c) /\ Reconnected(c).offline = <<>>
  BY <1>0, <1>1 DEF Clients
<1>3. Waiting(Reconnected(c)) = Waiting(c) \o <<>>
  BY <1>2 DEF Waiting
<1> QED BY <1>0, <1>2, <1>3, ConcatEmptySeq DEF ClientOK, HasQuit

\* What was sent waits.
LEMMA SentWaits ==
  ASSUME NEW c \in Clients, NEW x \in ToSet(c.sent)
  PROVE  In(Waiting(c), x)
<1>0. c.sent \in Seq(Commands) /\ c.offline \in Seq(Commands)
  BY WaitingType
<1>1. PICK j \in DOMAIN c.sent : c.sent[j] = x
  BY DEF ToSet
<1>2. j \in 1..Len(c.sent)
  BY <1>0, <1>1
<1>3. j \in 1..Len(Waiting(c)) /\ Waiting(c)[j] = x
  BY <1>0, <1>1, <1>2, Concatenated DEF Waiting
<1> QED BY <1>3 DEF In

-----------------------------------------------------------------------------
(***************************************************************************)
(* The backend.                                                            *)
(***************************************************************************)
\* Whose turn a position is.
LEMMA HookNames ==
  /\ Len(BootHooks) = 5 /\ Len(DestroyHooks) = 5
  /\ DOMAIN BootHooks = 1..5 /\ DOMAIN DestroyHooks = 1..5
  /\ \A h \in 1..5 : /\ BootHooks[h] = "producer" => h = 5
                     /\ BootHooks[h] # "producer" => h < 5
                     /\ DestroyHooks[h] = "producer" => h = 1
                     /\ DestroyHooks[h] = "ingest" => h = 2
                     /\ DestroyHooks[h] = "auth" => h = 3
                     /\ DestroyHooks[h] = "redis" => h = 4
                     /\ DestroyHooks[h] = "database" => h = 5
<1>1. Len(BootHooks) = 5 /\ DOMAIN BootHooks = 1..5
  BY DEF BootHooks
<1>2. /\ BootHooks[1] = "database" /\ BootHooks[2] = "redis" /\ BootHooks[3] = "auth"
      /\ BootHooks[4] = "ingest" /\ BootHooks[5] = "producer"
  BY DEF BootHooks
<1>3. DestroyHooks = [h \in 1..5 |-> BootHooks[(5 - h) + 1]]
  BY <1>1 DEF DestroyHooks, Reverse
<1>4. DestroyHooks \in Seq({"database", "redis", "auth", "ingest", "producer"})
  <2>1. DestroyHooks \in [1..5 -> {"database", "redis", "auth", "ingest", "producer"}]
    <3> SUFFICES ASSUME NEW h \in 1..5
                 PROVE  BootHooks[(5 - h) + 1] \in {"database", "redis", "auth", "ingest", "producer"}
      BY <1>3
    <3>1. h = 1 \/ h = 2 \/ h = 3 \/ h = 4 \/ h = 5
      OBVIOUS
    <3> QED BY <1>2, <3>1
  <2> QED BY <2>1, SeqDef
<1>5. DOMAIN DestroyHooks = 1..5 /\ Len(DestroyHooks) = 5
  BY <1>3, <1>4
<1>6. /\ DestroyHooks[1] = "producer" /\ DestroyHooks[2] = "ingest" /\ DestroyHooks[3] = "auth"
      /\ DestroyHooks[4] = "redis" /\ DestroyHooks[5] = "database"
  BY <1>2, <1>3
<1> SUFFICES ASSUME NEW h \in 1..5
             PROVE  /\ BootHooks[h] = "producer" => h = 5
                    /\ BootHooks[h] # "producer" => h < 5
                    /\ DestroyHooks[h] = "producer" => h = 1
                    /\ DestroyHooks[h] = "ingest" => h = 2
                    /\ DestroyHooks[h] = "auth" => h = 3
                    /\ DestroyHooks[h] = "redis" => h = 4
                    /\ DestroyHooks[h] = "database" => h = 5
  BY <1>1, <1>5
<1>7. h = 1 \/ h = 2 \/ h = 3 \/ h = 4 \/ h = 5
  OBVIOUS
<1> QED BY <1>2, <1>6, <1>7

LifeType == /\ ClientOK(client, redis)
            /\ phase \in {"booting", "serving", "stopping", "exited"}
            /\ hook \in 1..6
            /\ timers \in Nat /\ publishing \in {0, 1} /\ running \in BOOLEAN
            /\ pool \in {"open", "ended"}

\* The producer has not been started yet.
Early == phase = "booting" /\ hook <= 5

\* When the producer may run and publish, what has been told to end, and how far a
\* shutdown is.
Order ==
  /\ Early => timers = 0 /\ publishing = 0 /\ ~ running
  /\ publishing = 0 => ~ In(Waiting(client), "publish")
  /\ Once(Waiting(client), "publish")
  /\ phase = "stopping" /\ hook > 1 => ~ running
  /\ HasQuit(client) \/ In(Waiting(client), "quit") => phase \in {"stopping", "exited"} /\ ~ running
  /\ pool = "ended" => phase = "exited" \/ (phase = "stopping" /\ hook > 5)

LifeInv == LifeType /\ Order /\ OneChain

LEMMA LifeInit == Init => LifeInv
<1> SUFFICES ASSUME Init PROVE LifeInv
  OBVIOUS
<1>1. /\ ClientOK(client, redis) /\ ~ HasQuit(client) /\ Waiting(client) = <<>>
  BY NewIsIdle DEF Init, NewClient, HasQuit
<1>2. /\ phase = "booting" /\ hook = 1 /\ timers = 0 /\ publishing = 0 /\ running = FALSE
      /\ pool = "open"
  BY DEF Init
<1>3. LifeType
  <2>1. 1 \in 1..6 /\ 0 \in Nat /\ 0 \in {0, 1} /\ FALSE \in BOOLEAN
    OBVIOUS
  <2>2. "booting" \in {"booting", "serving", "stopping", "exited"} /\ "open" \in {"open", "ended"}
    OBVIOUS
  <2> QED BY <1>1, <1>2, <2>1, <2>2 DEF LifeType
<1>4. \A x : ~ In(<<>>, x) /\ Once(<<>>, x)
  BY DEF In, Once
<1>5. Order
  BY <1>1, <1>2, <1>4 DEF Order
<1>6. OneChain
  BY <1>2 DEF OneChain
<1> QED BY <1>3, <1>5, <1>6 DEF LifeInv

\* A hook of the boot ends, with the next one's turn or with the process.
LEMMA BootKeeps == LifeInv /\ Boot => LifeInv'
<1> SUFFICES ASSUME LifeInv, Boot PROVE LifeInv'
  OBVIOUS
<1> USE HookNames DEF world, process, producer, ingest
<1>1. CASE StartProducer
  <2>1. /\ phase = "booting" /\ hook = 5 /\ hook' = 6 /\ running' \in BOOLEAN
        /\ timers' = IF running' THEN 1 ELSE 0
        /\ UNCHANGED <<redis, client, publishing, pool, phase>>
    BY <1>1, BackendAssumption DEF StartProducer, Booting, Proceed
  <2>2. publishing = 0
    BY <2>1 DEF LifeInv, Order, Early
  <2> QED BY <2>1, <2>2 DEF LifeInv, LifeType, Order, OneChain, Early
<1>2. CASE Listen
  BY <1>2 DEF Listen, LifeInv, LifeType, Order, OneChain, Early
<1>3. CASE Connect \/ ApplySchema \/ NoInit \/ Seed \/ PrimeTotals \/ Subscribe
  <2>1. /\ phase = "booting" /\ hook \in 1..4 /\ phase' \in {"booting", "exited"}
        /\ hook' = hook \/ hook' = hook + 1
        /\ UNCHANGED <<redis, client, running, timers, publishing, pool>>
    BY <1>3 DEF LifeInv, LifeType, Connect, ApplySchema, NoInit, Seed, PrimeTotals, Subscribe, Booting, Await, Proceed, Die, Query
  <2> QED BY <2>1 DEF LifeInv, LifeType, Order, OneChain, Early
<1> QED BY <1>1, <1>2, <1>3 DEF Boot

\* A hook of the shutdown ends.
LEMMA StopKeeps == LifeInv /\ Stop => LifeInv'
<1> SUFFICES ASSUME LifeInv, Stop PROVE LifeInv'
  OBVIOUS
<1> USE HookNames DEF world, process, producer, ingest
<1>1. CASE StopProducer
  <2>1. /\ phase = "stopping" /\ hook = 1 /\ hook' = 2 /\ running' = FALSE
        /\ timers' = IF timers > 0 THEN timers - 1 ELSE 0
        /\ UNCHANGED <<redis, phase, client, publishing, pool>>
    BY <1>1 DEF StopProducer, Stopping, Proceed
  <2>2. timers \in Nat /\ publishing \in {0, 1} /\ running \in BOOLEAN /\ OneChain
    BY DEF LifeInv, LifeType
  <2>3. timers' = 0 /\ publishing <= 1
    BY <2>1, <2>2 DEF OneChain
  <2>4. LifeType'
    <3>1. ClientOK(client', redis')
      BY <2>1 DEF LifeInv, LifeType
    <3>2. hook' \in 1..6 /\ timers' \in Nat
      BY <2>1, <2>3
    <3> QED BY <2>1, <2>2, <3>1, <3>2 DEF LifeInv, LifeType
  <2>5. Order'
    BY <2>1 DEF LifeInv, Order, Early
  <2>6. OneChain'
    BY <2>1, <2>3 DEF OneChain
  <2> QED BY <2>4, <2>5, <2>6 DEF LifeInv
<1>2. CASE StopIngest \/ NoDestroy \/ RedisEnded
  BY <1>2 DEF StopIngest, NoDestroy, RedisEnded, Stopping, Proceed, LifeInv, LifeType, Order, OneChain, Early
<1>3. CASE QuitRedis
  <2>1. /\ phase = "stopping" /\ hook = 4 /\ client' \in QuitCalled(client, redis)
        /\ UNCHANGED <<redis, phase, hook, running, timers, publishing, pool>>
    BY <1>3 DEF QuitRedis, Stopping, Await
  <2>2. ClientOK(client, redis) /\ Waiting(client) \in Seq(Commands)
    BY WaitingType DEF LifeInv, LifeType, ClientOK
  <2>3. /\ ClientOK(client', redis)
        /\ In(Waiting(client'), "publish") => In(Waiting(client), "publish")
        /\ Once(Waiting(client), "publish") => Once(Waiting(client'), "publish")
    <3>1. \A x : ~ In(<<>>, x) /\ Once(<<>>, x)
      BY DEF In, Once
    <3>2. /\ In(Append(Waiting(client), "quit"), "publish") => In(Waiting(client), "publish")
          /\ Once(Waiting(client), "publish") => Once(Append(Waiting(client), "quit"), "publish")
      BY <2>2, Appended DEF Commands
    <3> QED BY <2>1, <2>2, <3>1, <3>2, QuitAppends
  <2> QED BY <2>1, <2>3 DEF LifeInv, LifeType, Order, OneChain, Early
<1>4. CASE EndPool
  BY <1>4 DEF EndPool, Stopping, Proceed, LifeInv, LifeType, Order, OneChain, Early
<1>5. CASE Exit
  BY <1>5 DEF Exit, Die, LifeInv, LifeType, Order, OneChain, Early
<1> QED BY <1>1, <1>2, <1>3, <1>4, <1>5 DEF Stop

\* The embedded producer's timer fires: it runs, and its publish is the only one.
LEMMA TickKeeps == LifeInv /\ ProducerTick => LifeInv'
<1> SUFFICES ASSUME LifeInv, ProducerTick PROVE LifeInv'
  OBVIOUS
<1>1. /\ timers > 0 /\ UNCHANGED <<redis, phase, hook, running, pool>>
      /\ client' = IF running THEN Called(client, redis, "publish") ELSE client
      /\ IF running /\ ~ client.ended
         THEN timers' = timers - 1 /\ publishing' = publishing + 1
         ELSE timers' = (IF running THEN timers ELSE timers - 1) /\ UNCHANGED publishing
  BY DEF ProducerTick, world, process, ingest
<1>2. timers \in Nat /\ publishing \in {0, 1} /\ OneChain /\ ClientOK(client, redis) /\ Order
  BY DEF LifeInv, LifeType
<1>3. running
  BY <1>1, <1>2 DEF OneChain
<1>4. ~ client.ended
  BY <1>2, <1>3 DEF Order, HasQuit
<1>5. timers = 1 /\ publishing = 0
  BY <1>1, <1>2, <1>3 DEF OneChain
<1>6. timers' = 0 /\ publishing' = 1 /\ client' = Called(client, redis, "publish")
  BY <1>1, <1>3, <1>4, <1>5
<1>7. /\ ClientOK(client', redis) /\ HasQuit(client') = HasQuit(client)
      /\ Waiting(client') = Append(Waiting(client), "publish") /\ Waiting(client) \in Seq(Commands)
  BY <1>2, <1>4, <1>6, CallAppends, WaitingType DEF Commands, ClientOK
<1>8. ~ In(Waiting(client), "publish") /\ Once(Waiting(client), "publish")
  BY <1>2, <1>5 DEF Order
<1>9. /\ In(Waiting(client'), "quit") => In(Waiting(client), "quit")
      /\ Once(Waiting(client'), "publish")
  BY <1>7, <1>8, Appended DEF Commands
<1> QED BY <1>1, <1>2, <1>3, <1>6, <1>7, <1>9 DEF LifeInv, LifeType, Order, OneChain, Early

\* A transaction or a PING joins the queue.
LEMMA CallKeeps == LifeInv /\ (Deliver \/ Check) => LifeInv'
<1> SUFFICES ASSUME LifeInv, Deliver \/ Check PROVE LifeInv'
  OBVIOUS
<1>1. PICK command \in {"cache", "ping"} : client' = Called(client, redis, command)
  BY DEF Deliver, Check
<1>2. UNCHANGED <<redis, phase, hook, running, timers, publishing, pool>>
  BY DEF Deliver, Check, world, process, producer, ingest
<1>3. ClientOK(client, redis) /\ Waiting(client) \in Seq(Commands) /\ Order
  BY WaitingType DEF LifeInv, LifeType, ClientOK
<1>4. /\ ClientOK(client', redis) /\ HasQuit(client') = HasQuit(client)
      /\ Waiting(client') = Waiting(client) \/ Waiting(client') = Append(Waiting(client), command)
  BY <1>1, <1>3, CallAppends DEF Commands
<1>5. /\ In(Waiting(client'), "publish") => In(Waiting(client), "publish")
      /\ In(Waiting(client'), "quit") => In(Waiting(client), "quit")
      /\ Once(Waiting(client), "publish") => Once(Waiting(client'), "publish")
  BY <1>3, <1>4, Appended DEF Commands
<1> QED BY <1>2, <1>4, <1>5 DEF LifeInv, LifeType, Order, OneChain, Early

\* A command is answered; after its only publish the producer schedules the next.
LEMMA ReplyKeeps == LifeInv /\ Answer => LifeInv'
<1> SUFFICES ASSUME LifeInv, Answer PROVE LifeInv'
  OBVIOUS
<1>1. /\ client.sent # <<>> /\ client' = Answered(client) /\ phase # "exited"
      /\ UNCHANGED <<redis, phase, hook, running, pool>>
      /\ IF Head(client.sent) = "publish"
         THEN publishing' = publishing - 1 /\ timers' = IF running THEN timers + 1 ELSE timers
         ELSE UNCHANGED <<publishing, timers>>
  BY DEF Answer, Answerable, ScheduleNext, world, process, ingest
<1> DEFINE w == Waiting(client)
<1>2. ClientOK(client, redis) /\ w \in Seq(Commands) /\ Order /\ LifeType /\ OneChain
  BY WaitingType DEF LifeInv, LifeType, ClientOK
<1>3. /\ ClientOK(client', redis) /\ Waiting(client') = Tail(w) /\ w # <<>>
      /\ Head(client.sent) = w[1]
      /\ HasQuit(client') => HasQuit(client) \/ In(w, "quit")
  BY <1>1, <1>2, AnswerShifts
<1>4. /\ \A y : In(Tail(w), y) => In(w, y)
      /\ \A y : Once(w, y) => Once(Tail(w), y)
      /\ Once(w, w[1]) => ~ In(Tail(w), w[1])
      /\ In(w, w[1])
  BY <1>2, <1>3, Shifted
<1> HIDE DEF w
<1>5. In(w, "publish") => publishing = 1
  BY <1>2 DEF LifeType, Order, w
<1>6. Once(w, "publish")
  BY <1>2 DEF Order, w
<1>7. CASE w[1] = "publish"
  <2>1. publishing = 1 /\ publishing' = 0 /\ ~ In(Tail(w), "publish")
    BY <1>1, <1>3, <1>4, <1>5, <1>6, <1>7
  <2>2. timers' = IF running THEN timers + 1 ELSE timers
    BY <1>1, <1>3, <1>7
  <2>3. OneChain'
    BY <1>1, <1>2, <2>1, <2>2 DEF OneChain, LifeType
  <2>4. LifeType'
    BY <1>1, <1>2, <1>3, <2>1, <2>2 DEF LifeType
  <2>5. ~ Early
    BY <1>2, <2>1 DEF Order
  <2>6. Order'
    BY <1>1, <1>2, <1>3, <1>4, <1>6, <2>1, <2>5 DEF Order, Early, w
  <2> QED BY <2>3, <2>4, <2>6 DEF LifeInv
<1>8. CASE w[1] # "publish"
  <2>1. UNCHANGED <<publishing, timers>>
    BY <1>1, <1>3, <1>8
  <2> QED BY <1>1, <1>2, <1>3, <1>4, <1>6, <2>1 DEF LifeInv, LifeType, Order, OneChain, Early, w
<1> QED BY <1>7, <1>8

\* The rest of what happens between the hooks.
LEMMA WorldKeeps ==
  LifeInv /\ (Flush \/ PostgresTurns \/ Sigterm \/ RedisLost \/ RedisBack) => LifeInv'
<1> SUFFICES ASSUME LifeInv, Flush \/ PostgresTurns \/ Sigterm \/ RedisLost \/ RedisBack
             PROVE  LifeInv'
  OBVIOUS
<1> USE DEF world, process, producer, ingest
<1>1. CASE Flush \/ PostgresTurns
  <2>1. /\ phase' = phase \/ phase' = "exited"
        /\ UNCHANGED <<redis, hook, client, running, timers, publishing, pool>>
    BY <1>1 DEF Flush, PostgresTurns, Die
  <2> QED BY <2>1 DEF LifeInv, LifeType, Order, OneChain, Early
<1>2. CASE Sigterm
  BY <1>2 DEF Sigterm, LifeInv, LifeType, Order, OneChain, Early
<1>3. CASE RedisLost
  <2>1. redis' = FALSE /\ UNCHANGED <<client, running, timers, publishing, pool, hook>>
    BY <1>3 DEF RedisLost, Die
  <2>2. phase' = phase \/ (phase' = "exited" /\ "quit" \in ToSet(client.sent))
    BY <1>3 DEF RedisLost, Die
  <2>3. "quit" \in ToSet(client.sent) => ~ running
    BY SentWaits DEF LifeInv, LifeType, ClientOK, Order
  <2>4. ClientOK(client', redis')
    BY <2>1 DEF LifeInv, LifeType, ClientOK
  <2> QED BY <2>1, <2>2, <2>3, <2>4 DEF LifeInv, LifeType, Order, OneChain, Early
<1>4. CASE RedisBack
  <2>1. /\ redis' = TRUE /\ client' = Reconnected(client)
        /\ UNCHANGED <<phase, hook, running, timers, publishing, pool>>
    BY <1>4 DEF RedisBack
  <2>2. /\ ClientOK(client', redis') /\ HasQuit(client') = HasQuit(client)
        /\ Waiting(client') = Waiting(client)
    BY <2>1, ReconnectedWaits DEF LifeInv, LifeType, ClientOK
  <2> QED BY <2>1, <2>2 DEF LifeInv, LifeType, Order, OneChain, Early
<1> QED BY <1>1, <1>2, <1>3, <1>4

LEMMA LifeNext == LifeInv /\ [ProcessesNext]_all => LifeInv'
<1> SUFFICES ASSUME LifeInv, [ProcessesNext]_all PROVE LifeInv'
  OBVIOUS
<1>1. CASE UNCHANGED vars
  BY <1>1 DEF vars, world, process, producer, ingest, LifeInv, LifeType, Order, OneChain, Early
<1>2. CASE Step \/ RedisLost \/ RedisBack
  BY <1>2, BootKeeps, StopKeeps, TickKeeps, CallKeeps, ReplyKeeps, WorldKeeps DEF Step
<1> QED BY <1>1, <1>2 DEF ProcessesNext, all

LEMMA LifeAlways == ProcessesSpec => []LifeInv
<1>1. ProcessesInit => LifeInv
  BY LifeInit DEF ProcessesInit
<1> QED BY <1>1, LifeNext, PTL DEF ProcessesSpec

\* However often Redis is lost, and whenever the process is told to stop: the embedded
\* producer has one timer or one publish while it runs, and no timer afterwards.
THEOREM ScheduleIsOneChain == ProcessesSpec => []OneChain
<1>1. LifeInv => OneChain
  BY DEF LifeInv
<1> QED BY <1>1, LifeAlways, PTL

\* The final flush finds the pool open, and the running producer its connection.
THEOREM FlushFindsItsPool == ProcessesSpec => []FlushFindsPool
<1>1. LifeInv => FlushFindsPool
  BY HookNames DEF LifeInv, LifeType, Order, FlushFindsPool, Stopping
<1> QED BY <1>1, LifeAlways, PTL

-----------------------------------------------------------------------------
(***************************************************************************)
(* The producer of its own.                                                *)
(***************************************************************************)
\* While it runs it has not said QUIT, and it says nothing after it.
QuitInv == /\ ClientOK(pClient, redis)
           /\ pRunning => ~ In(Waiting(pClient), "quit")
           /\ AtEnd(Waiting(pClient), "quit")

\* Its connection is one of RedisClient's.
LEMMA SameClient ==
  /\ P!NewClient = NewClient
  /\ \A c, up, x : P!Called(c, up, x) = Called(c, up, x)
  /\ \A c, up : P!QuitCalled(c, up) = QuitCalled(c, up)
  /\ \A c : /\ P!Waiting(c) = Waiting(c) /\ P!Answered(c) = Answered(c)
            /\ P!Reconnected(c) = Reconnected(c)
            /\ \A up : P!Answerable(c, up) => c.sent # <<>>
<1>1. P!NewClient = NewClient
  BY DEF P!NewClient, NewClient
<1>2. \A c, up, x : P!Called(c, up, x) = Called(c, up, x)
  BY DEF P!Called, Called
<1>3. \A c, up : P!QuitCalled(c, up) = QuitCalled(c, up)
  BY <1>1, <1>2 DEF P!QuitCalled, QuitCalled
<1>4. \A c : P!Waiting(c) = Waiting(c) /\ P!Answered(c) = Answered(c)
  BY DEF P!Waiting, Waiting, P!Answered, Answered
<1>5. \A c : P!Reconnected(c) = Reconnected(c)
  BY <1>4 DEF P!Reconnected, Reconnected
<1>6. \A c, up : P!Answerable(c, up) => c.sent # <<>>
  BY DEF P!Answerable
<1> QED BY <1>1, <1>2, <1>3, <1>4, <1>5, <1>6

\* The backend's own steps do not reach the server.
LEMMA StepKeepsRedis == Step => redis' = redis
<1>1. Boot => redis' = redis
  BY DEF Boot, Connect, ApplySchema, NoInit, Seed, PrimeTotals, Subscribe, StartProducer, Listen, world
<1>2. Stop => redis' = redis
  BY DEF Stop, StopProducer, StopIngest, NoDestroy, QuitRedis, RedisEnded, EndPool, Exit, world
<1>3. ProducerTick \/ Deliver \/ Flush \/ Check \/ Answer \/ PostgresTurns \/ Sigterm => redis' = redis
  BY DEF ProducerTick, Deliver, Flush, Check, Answer, PostgresTurns, Sigterm, world
<1> QED BY <1>1, <1>2, <1>3 DEF Step

LEMMA QuitInit == ProcessesInit => QuitInv
<1> SUFFICES ASSUME ProcessesInit PROVE QuitInv
  OBVIOUS
<1>1. ClientOK(pClient, redis) /\ Waiting(pClient) = <<>>
  BY NewIsIdle, SameClient DEF ProcessesInit, P!Init
<1>2. ~ In(<<>>, "quit") /\ AtEnd(<<>>, "quit")
  BY DEF In, AtEnd
<1> QED BY <1>1, <1>2 DEF QuitInv

\* A publish is called only while the flag is up, and QUIT once, as it is lowered.
LEMMA QuitStep ==
  ASSUME QuitInv, P!Step, UNCHANGED redis
  PROVE  QuitInv'
<1> DEFINE w == Waiting(pClient)
<1>0. ClientOK(pClient, redis) /\ w \in Seq(Commands)
  BY WaitingType DEF QuitInv, ClientOK
<1>1. CASE P!Wake
  <2>1. UNCHANGED <<pClient, pRunning>> \/ (pRunning /\ pRunning' /\ pClient' = Called(pClient, redis, "publish"))
    BY <1>1, SameClient DEF P!Wake
  <2>2. CASE UNCHANGED <<pClient, pRunning>>
    BY <2>2 DEF QuitInv
  <2>3. CASE pRunning /\ pRunning' /\ pClient' = Called(pClient, redis, "publish")
    <3>1. /\ ClientOK(pClient', redis)
          /\ Waiting(pClient') = w \/ Waiting(pClient') = Append(w, "publish")
      BY <1>0, <2>3, CallAppends DEF Commands
    <3>2. ~ In(w, "quit")
      BY <2>3 DEF QuitInv
    <3>3. ~ In(Waiting(pClient'), "quit")
      BY <1>0, <3>1, <3>2, Appended DEF Commands
    <3>4. AtEnd(Waiting(pClient'), "quit")
      BY <3>3 DEF In, AtEnd
    <3> QED BY <3>1, <3>3, <3>4 DEF QuitInv
  <2> QED BY <2>1, <2>2, <2>3
<1>2. CASE P!Answer
  <2>1. pClient.sent # <<>> /\ pClient' = Answered(pClient) /\ pRunning' = pRunning
    BY <1>2, SameClient DEF P!Answer
  <2>2. ClientOK(pClient', redis) /\ Waiting(pClient') = Tail(w) /\ w # <<>>
    BY <1>0, <2>1, AnswerShifts
  <2>3. /\ In(Tail(w), "quit") => In(w, "quit")
        /\ AtEnd(w, "quit") => AtEnd(Tail(w), "quit")
    BY <1>0, <2>2, Shifted
  <2> QED BY <2>1, <2>2, <2>3 DEF QuitInv
<1>3. CASE P!Shutdown
  <2>1. pRunning /\ ~ pRunning' /\ pClient' \in QuitCalled(pClient, redis)
    BY <1>3, SameClient DEF P!Shutdown
  <2>2. /\ ClientOK(pClient', redis)
        /\ Waiting(pClient') \in {<<>>, w} \/ Waiting(pClient') = Append(w, "quit")
    BY <1>0, <2>1, QuitAppends
  <2>3. ~ In(w, "quit")
    BY <2>1 DEF QuitInv
  <2>4. AtEnd(<<>>, "quit") /\ AtEnd(w, "quit") /\ AtEnd(Append(w, "quit"), "quit")
    <3>1. AtEnd(Append(w, "quit"), "quit")
      BY <1>0, <2>3, Appended DEF Commands
    <3>2. AtEnd(<<>>, "quit")
      BY DEF AtEnd
    <3> QED BY <3>1, <3>2 DEF QuitInv
  <2> QED BY <2>1, <2>2, <2>4 DEF QuitInv
<1>4. CASE P!Exit
  BY <1>4 DEF P!Exit, QuitInv
<1> QED BY <1>1, <1>2, <1>3, <1>4 DEF P!Step

LEMMA QuitNext == QuitInv /\ [ProcessesNext]_all => QuitInv'
<1> SUFFICES ASSUME QuitInv, [ProcessesNext]_all PROVE QuitInv'
  OBVIOUS
<1>1. CASE UNCHANGED all
  BY <1>1 DEF all, standalone, vars, world, QuitInv
<1>2. CASE Step /\ UNCHANGED standalone
  BY <1>2, StepKeepsRedis DEF standalone, QuitInv
<1>3. CASE P!Step /\ UNCHANGED vars
  BY <1>3, QuitStep DEF vars, world
<1>4. CASE RedisLost /\ P!Lost
  <2>1. redis' = FALSE /\ UNCHANGED <<pClient, pRunning>>
    BY <1>4 DEF RedisLost, P!Lost
  <2> QED BY <2>1 DEF QuitInv, ClientOK
<1>5. CASE RedisBack /\ P!Back
  <2>1. redis' = TRUE /\ pClient' = Reconnected(pClient) /\ pRunning' = pRunning
    BY <1>5, SameClient DEF RedisBack, P!Back
  <2>2. ClientOK(pClient', redis') /\ Waiting(pClient') = Waiting(pClient)
    BY <2>1, ReconnectedWaits DEF QuitInv, ClientOK
  <2> QED BY <2>1, <2>2 DEF QuitInv
<1> QED BY <1>1, <1>2, <1>3, <1>4, <1>5 DEF ProcessesNext

\* Whenever the signal comes, asleep, publishing or during an outage: no event is
\* published behind the QUIT that ends the producer's connection.
THEOREM NothingFollowsQuit == ProcessesSpec => []QuitIsLast
<1>1. QuitInv => QuitIsLast
  <2> SUFFICES ASSUME QuitInv PROVE QuitIsLast
    OBVIOUS
  <2> DEFINE w == Waiting(pClient)
  <2>1. w \in Seq(Commands) /\ AtEnd(w, "quit")
    BY WaitingType DEF QuitInv, ClientOK
  <2> HIDE DEF w
  <2>2. "quit" \in P!ToSet(w) => w[Len(w)] = "quit"
    <3> SUFFICES ASSUME "quit" \in P!ToSet(w) PROVE w[Len(w)] = "quit"
      OBVIOUS
    <3>1. PICK j \in DOMAIN w : w[j] = "quit"
      BY DEF P!ToSet
    <3>2. j \in 1..Len(w)
      BY <2>1, <3>1
    <3> QED BY <2>1, <3>1, <3>2 DEF AtEnd
  <2>3. P!Waiting(pClient) = w
    BY SameClient DEF w
  <2> QED BY <2>2, <2>3 DEF QuitIsLast, P!QuitIsLast, Last, P!Last
<1> QED BY <1>1, QuitInit, QuitNext, PTL DEF ProcessesSpec

(***************************************************************************)
(* The events both producers make.                                         *)
(***************************************************************************)
\* Whatever the roll, it ends at one of the four types.
LEMMA TypesThatComeUp ==
  ASSUME NEW draw
  PROVE  PickType(draw) \in {"page_view", "order", "signup", "refund"}
<1> DEFINE within(k) == draw * WeightUpTo(4) <= WeightUpTo(k) * Draws
           first == {k \in 1..4 : within(k) /\ \A j \in 1..(k - 1) : ~ within(j)}
<1>1. PickType(draw) = IF first = {} THEN "page_view" ELSE TYPE_WEIGHTS[CHOOSE k \in first : TRUE][1]
  BY DEF PickType
<1>2. first # {} => (CHOOSE k \in first : TRUE) \in 1..4
  <2>1. first \subseteq 1..4
    OBVIOUS
  <2> HIDE DEF first
  <2> QED BY <2>1
<1>3. \A k \in 1..4 : TYPE_WEIGHTS[k][1] \in {"page_view", "order", "signup", "refund"}
  BY DEF TYPE_WEIGHTS
<1> HIDE DEF first
<1> QED BY <1>1, <1>2, <1>3

\* Prices are whole, so three seats and a tenth are whole cents: rounding adds nothing.
LEMMA RoundedAmount ==
  ASSUME NEW p \in Nat \ {0}, NEW seats \in 1..3, NEW jitter \in Random
  PROVE  LET amount == Rounded((100 * p) * seats * (9 * Draws + 2 * jitter), 10 * Draws)
         IN amount \in Int /\ 0 < amount /\ amount <= 330 * p
<1> DEFINE n == (100 * p) * seats * (9 * Draws + 2 * jitter)
           amount == Rounded(n, 10 * Draws)
<1>1. Draws \in Nat /\ Draws > 0 /\ jitter \in Nat /\ jitter < Draws
  BY DrawsAssumption DEF Random
<1>2. n \in Int /\ 900 * p * Draws <= n /\ n < 3300 * p * Draws
  <2> DEFINE factor == 9 * Draws + 2 * jitter
  <2>1. factor \in Int /\ 9 * Draws <= factor /\ factor < 11 * Draws
    BY <1>1
  <2> HIDE DEF factor
  <2>2. n = (100 * p * seats) * factor
    BY <2>1 DEF factor
  <2>3. 100 * p <= 100 * p * seats /\ 100 * p * seats <= 300 * p /\ 100 * p * seats \in Int
    OBVIOUS
  <2>4. \A a, b, c, d \in Nat : a <= b /\ c <= d => a * c <= b * d
    OBVIOUS
  <2>5. \A a, b, c, d \in Nat : a <= b /\ c < d /\ a > 0 => a * c < b * d
    OBVIOUS
  <2> QED BY <1>1, <2>1, <2>2, <2>3, <2>4, <2>5
<1> QED BY <1>1, <1>2 DEF Rounded

\* Prices are whole.
LEMMA WholePrices == \A price \in Prices : price \in Nat /\ \E p \in Nat \ {0} : price = 100 * p
<1>1. /\ 2900 = 100 * 29 /\ 9900 = 100 * 99 /\ 24900 = 100 * 249
      /\ 120000 = 100 * 1200 /\ 4900 = 100 * 49 /\ 18000 = 100 * 180
  OBVIOUS
<1> QED BY <1>1 DEF Prices

\* However fine or coarse the random numbers are: whatever either producer makes passes
\* the validator unchanged and fits its columns; only orders bring money, at most three
\* seats and a tenth, and only refunds cost it.
THEOREM GeneratedEventsFit == \A event \in NextEvent : EventOK(event)
<1> SUFFICES ASSUME NEW event \in NextEvent PROVE EventOK(event)
  OBVIOUS
<1>1. PICK draw \in Random :
        event \in {[type |-> PickType(draw), price |-> price, amount |-> AmountFor(PickType(draw), price, seat, jitter)] :
                     price \in PickProduct(PickType(draw)), seat \in Random, jitter \in Random}
  BY DEF NextEvent
<1> DEFINE type == PickType(draw)
<1>2. PICK price \in PickProduct(type), seat \in Random, jitter \in Random :
        event.type = type /\ event.price = price /\ event.amount = AmountFor(type, price, seat, jitter)
  BY <1>1
<1>3. ParsePulseEvent(Payload(event)) = Payload(event) /\ FitsColumns(Payload(event))
  <2> DEFINE product == IF event.price = 0 THEN "absent" ELSE "text"
             q == [id |-> "uuid", type |-> "known", userId |-> "text", region |-> "text",
                   occurredAt |-> "iso", amount |-> "number", product |-> product]
  <2>1. Payload(event) = q
    BY DEF Payload
  <2>0. product \in TextClasses /\ product # "nulText"
    BY DEF TextClasses
  <2> HIDE DEF product
  <2>2. /\ Accepts(q) /\ ToNumber(q.amount) = "number" /\ ToISOString(q.occurredAt) = "iso"
        /\ FitsColumns(q)
    BY <2>0 DEF Accepts, ToNumber, ToISOString, NotAnObject, FitsColumns
  <2>3. [q EXCEPT !.amount = "number", !.occurredAt = "iso"] = q
    <3>1. q \in Fields /\ q.amount = "number" /\ q.occurredAt = "iso"
      BY <2>0 DEF Fields, IdClasses, TypeClasses, TextClasses, DateClasses, AmountClasses
    <3>2. \A r \in Fields : /\ r.amount = "number" => [r EXCEPT !.amount = "number"] = r
                            /\ r.occurredAt = "iso" => [r EXCEPT !.occurredAt = "iso"] = r
      BY DEF Fields
    <3> HIDE DEF q
    <3>3. [q EXCEPT !.amount = "number"] = q /\ [q EXCEPT !.occurredAt = "iso"] = q
      BY <3>1, <3>2
    <3> QED BY <3>3
  <2>4. ParsePulseEvent(q) =
          [q EXCEPT !.amount = ToNumber(q.amount), !.occurredAt = ToISOString(q.occurredAt)]
    BY <2>2 DEF ParsePulseEvent
  <2> HIDE DEF q
  <2> QED BY <2>1, <2>2, <2>3, <2>4
<1>4. type \in {"page_view", "order", "signup", "refund"}
  BY TypesThatComeUp
<1> HIDE DEF type
<1>5. CASE type \in {"page_view", "signup"}
  <2>1. price = 0 /\ event.amount = 0
    BY <1>2, <1>5 DEF PickProduct, AmountFor
  <2> QED BY <1>2, <1>3, <1>5, <2>1 DEF EventOK
<1>6. CASE type \in {"order", "refund"}
  <2>1. price \in Prices
    BY <1>6 DEF PickProduct
  <2>2. PICK p \in Nat \ {0} : price = 100 * p
    BY <2>1, WholePrices
  <2>3. (33 * price) \div 10 = 330 * p /\ price > 0
    BY <2>2
  <2>4. CASE type = "refund"
    <3>1. event.amount = - price
      BY <1>2, <2>4 DEF AmountFor
    <3> QED BY <1>2, <1>3, <2>2, <2>3, <2>4, <3>1 DEF EventOK
  <2>5. CASE type = "order"
    <3> DEFINE seats == 1 + (seat * 3) \div Draws
    <3>1. seats \in 1..3
      BY DrawsAssumption DEF Random
    <3>2. event.amount = Rounded(price * seats * (9 * Draws + 2 * jitter), 10 * Draws)
      BY <1>2, <2>5 DEF AmountFor
    <3> HIDE DEF seats
    <3>3. event.amount \in Int /\ 0 < event.amount /\ event.amount <= 330 * p
      BY <2>2, <3>1, <3>2, RoundedAmount
    <3> QED BY <1>2, <1>3, <2>3, <2>5, <3>3 DEF EventOK
  <2> QED BY <1>6, <2>4, <2>5
<1> QED BY <1>4, <1>5, <1>6
=============================================================================

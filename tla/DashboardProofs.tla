-------------------------- MODULE DashboardProofs --------------------------
(***************************************************************************)
(* For every size and every bound: what a dashboard shows.                 *)
(*                                                                         *)
(* Its feed and its alert history are newest first and show nothing twice. *)
(* Events and alerts are numbered as they come, so whatever is under way   *)
(* is compared with what lies before it: an event that is pushed on the    *)
(* cache, or sent, is younger than every event in the cache, in the        *)
(* messages before it and on the screen.  A snapshot may be older than     *)
(* what is on the screen, and needs no such bound, as it replaces it.      *)
(*                                                                         *)
(* An alert that is not in the history is on its way, was missed, or has   *)
(* made room for later ones.  The points of the charts are in the order of *)
(* time and end at the metrics of the cards.  An event that is cached was  *)
(* given to a dashboard in the room, unless its snapshot may lack it: from *)
(* the read that is under way to the snapshot, and on to the feed.         *)
(***************************************************************************)
EXTENDS RealtimeProofs

Below(s, n) == \A i \in 1..Len(s) : s[i] < n

\* The cache, what was read of it, and the pushes that wait for Redis.
PushOrder ==
  /\ (resent \/ NewestFirst(cache)) /\ Below(cache, arrived + 1)
  /\ (resent \/ NewestFirst(fetched)) /\ Below(fetched, arrived + 1)
  /\ \A k \in 1..Len(commands) : commands[k].push # 0 =>
       /\ commands[k].push <= arrived
       /\ resent \/ Below(cache, commands[k].push)
       /\ \A j \in 1..(k - 1) : commands[j].push < commands[k].push

\* What the hook shows.
ShownOrder ==
  /\ (resent \/ NewestFirst(ui.events)) /\ Below(ui.events, arrived + 1)
  /\ NewestFirst(ui.alertHistory) /\ Below(ui.alertHistory, raised + 1)

\* What is on its way to the hook: each event and each alert is younger than what is
\* shown and what was sent before it.
EventsUnderWay ==
  \A k \in 1..Len(wire) :
    /\ (resent \/ NewestFirst(wire[k].events)) /\ Below(wire[k].events, arrived + 1)
    /\ wire[k].kind = "event:new" => \E e \in Nat :
         /\ wire[k].events = <<e>>
         /\ Below(ui.events, e)
         /\ \A j \in 1..(k - 1) : Below(wire[j].events, e)
AlertsUnderWay ==
  \A k \in 1..Len(wire) : wire[k].kind = "alert:raised" =>
    /\ wire[k].n <= raised
    /\ Below(ui.alertHistory, wire[k].n)
    /\ \A j \in 1..(k - 1) : wire[j].kind = "alert:raised" => wire[j].n < wire[k].n

OrderInv == TypeOK /\ PushOrder /\ ShownOrder /\ EventsUnderWay /\ AlertsUnderWay

(***************************************************************************)
(* Sequences that are newest first.                                        *)
(***************************************************************************)
\* A beginning of one is one.
LEMMA FirstNInOrder ==
  ASSUME NEW s \in Seq(Nat), NEW n \in Nat
  PROVE  /\ NewestFirst(s) => NewestFirst(FirstN(s, n))
         /\ \A b : Below(s, b) => Below(FirstN(s, n), b)
<1> DEFINE k == IF Len(s) > n THEN n ELSE Len(s)
           t == SubSeq(s, 1, k)
<1>1. k \in Nat /\ k <= Len(s) /\ FirstN(s, n) = t
  BY DEF FirstN
<1>2. \A i \in 1..k : s[i] \in Nat
  BY <1>1
<1> HIDE DEF k
<1>3. Len(t) = k /\ t \in Seq(Nat) /\ \A i \in 1..k : t[i] = s[i]
  BY <1>1, <1>2, SubSeqProperties
<1>4. DOMAIN t = 1..k /\ DOMAIN s = 1..Len(s) /\ Len(s) \in Nat
  BY <1>3
<1> HIDE DEF t
<1>5. ASSUME NewestFirst(s) PROVE NewestFirst(t)
  BY <1>1, <1>3, <1>4, <1>5 DEF NewestFirst
<1>6. ASSUME NEW b, Below(s, b) PROVE Below(t, b)
  BY <1>1, <1>3, <1>4, <1>6 DEF Below
<1> QED BY <1>1, <1>5, <1>6

\* Something younger comes first.
LEMMA Prepended ==
  ASSUME NEW s \in Seq(Nat), NEW x \in Nat, NEW n \in Nat
  PROVE  /\ NewestFirst(s) /\ Below(s, x) => NewestFirst(FirstN(<<x>> \o s, n))
         /\ \A b \in Nat : Below(s, b) /\ x < b => Below(FirstN(<<x>> \o s, n), b)
<1> DEFINE one == <<x>>
           t == one \o s
           k == IF Len(t) > n THEN n ELSE Len(t)
           u == SubSeq(t, 1, k)
<1>1. one \in Seq(Nat) /\ Len(one) = 1 /\ one[1] = x
  OBVIOUS
<1>2. u = FirstN(<<x>> \o s, n)
  BY DEF FirstN
<1> HIDE DEF one
<1>3. /\ t \in Seq(Nat) /\ Len(t) = 1 + Len(s)
      /\ \A i \in 1..Len(t) : t[i] = IF i <= 1 THEN one[i] ELSE s[i - 1]
  <2>1. /\ t \in Seq(Nat) /\ Len(t) = Len(one) + Len(s)
        /\ \A i \in 1..(Len(one) + Len(s)) :
             t[i] = IF i <= Len(one) THEN one[i] ELSE s[i - Len(one)]
    BY <1>1, ConcatProperties
  <2> QED BY <1>1, <2>1
<1> HIDE DEF t
<1>4. k \in Nat /\ k <= Len(t) /\ Len(t) \in Nat
  BY <1>3
<1> HIDE DEF k
<1>5. /\ Len(u) = k /\ u \in Seq(Nat) /\ \A i \in 1..k : u[i] = t[i]
  <2>1. \A i \in 1..k : t[i] \in Nat
    BY <1>3, <1>4
  <2> QED BY <1>4, <2>1, SubSeqProperties
<1> HIDE DEF u
<1>6. \A i \in 1..Len(u) :
        \/ i = 1 /\ u[i] = x
        \/ i # 1 /\ u[i] = s[i - 1] /\ i - 1 \in 1..Len(s) /\ s[i - 1] \in Nat
  BY <1>1, <1>3, <1>4, <1>5
<1>7. DOMAIN u = 1..Len(u) /\ DOMAIN s = 1..Len(s) /\ Len(s) \in Nat /\ Len(u) \in Nat
  BY <1>4, <1>5
<1>8. ASSUME NewestFirst(s), Below(s, x) PROVE NewestFirst(u)
  <2> SUFFICES ASSUME NEW i \in 1..Len(u), NEW j \in 1..(i - 1) PROVE u[j] > u[i]
    BY <1>7 DEF NewestFirst
  <2>1. u[i] = s[i - 1] /\ i - 1 \in 1..Len(s) /\ s[i - 1] \in Nat
    BY <1>6, <1>7
  <2>2. CASE j = 1
    BY <1>6, <1>7, <1>8, <2>1, <2>2 DEF Below
  <2>3. CASE j # 1
    <3>1. u[j] = s[j - 1] /\ j - 1 \in 1..((i - 1) - 1)
      BY <1>6, <1>7, <2>3
    <3> QED BY <1>7, <1>8, <2>1, <3>1 DEF NewestFirst
  <2> QED BY <2>2, <2>3
<1>9. ASSUME NEW b \in Nat, Below(s, b), x < b PROVE Below(u, b)
  BY <1>6, <1>9 DEF Below
<1> QED BY <1>2, <1>8, <1>9

\* A bound may be raised.
LEMMA BelowMore ==
  ASSUME NEW s \in Seq(Nat), NEW a \in Nat, NEW b \in Nat, a <= b, Below(s, a + 1)
  PROVE  Below(s, b + 1)
<1>1. \A i \in 1..Len(s) : s[i] \in Nat
  OBVIOUS
<1> QED BY <1>1 DEF Below

\* A sequence with one element, or none, is in order.
LEMMA Short ==
  /\ NewestFirst(<<>>) /\ \A b : Below(<<>>, b)
  /\ \A e \in Nat : NewestFirst(<<e>>) /\ Below(<<e>>, e + 1)
  BY DEF NewestFirst, Below

(***************************************************************************)
(* Steps.                                                                  *)
(***************************************************************************)
\* At first there is nothing.
LEMMA OrderInit == Init => OrderInv
<1> SUFFICES ASSUME Init PROVE PushOrder /\ ShownOrder /\ EventsUnderWay /\ AlertsUnderWay
  BY InitType DEF OrderInv
<1>1. /\ cache = <<>> /\ fetched = <<0>> /\ commands = <<>> /\ wire = <<>> /\ arrived = 0
      /\ ui.events = <<>> /\ ui.alertHistory = <<>>
  BY DEF Init, NotYet, InitialState
<1>2. NewestFirst(<<0>>) /\ Below(<<0>>, 0 + 1)
  BY DEF NewestFirst, Below
<1> QED BY <1>1, <1>2, Short DEF PushOrder, ShownOrder, EventsUnderWay, AlertsUnderWay

\* The numbers are natural, and so are the elements of what is shown and sent.
LEMMA Sizes ==
  ASSUME TypeOK
  PROVE  /\ arrived \in Nat /\ raised \in Nat /\ cache \in Seq(Nat) /\ fetched \in Seq(Nat)
         /\ commands \in Seq([push : Nat, read : Nat]) /\ wire \in Seq(Msgs)
         /\ ui.events \in Seq(Nat) /\ ui.alertHistory \in Seq(Nat)
         /\ Len(wire) \in Nat /\ Len(commands) \in Nat
         /\ \A k \in 1..Len(wire) : wire[k].events \in Seq(Nat) /\ wire[k].n \in Nat
         /\ \A k \in 1..Len(commands) : commands[k].push \in Nat
         /\ {FeedSize, MaxFeedEvents, MaxAlertHistory} \subseteq Nat
<1>1. ServerType /\ ui \in UIType
  BY TypeParts DEF ClientType
<1>2. \A m \in Msgs : m.events \in Seq(Nat) /\ m.n \in Nat
  BY DEF Msgs
<1>3. wire \in Seq(Msgs) /\ commands \in Seq([push : Nat, read : Nat])
  BY <1>1 DEF ServerType
<1>4. \A k \in 1..Len(wire) : wire[k] \in Msgs
  BY <1>3
<1>6. \A k \in 1..Len(commands) : commands[k].push \in Nat
  <2> DEFINE C == [push : Nat, read : Nat]
  <2>1. commands \in Seq(C) /\ \A c \in C : c.push \in Nat
    BY <1>3
  <2> HIDE DEF C
  <2>2. \A k \in 1..Len(commands) : commands[k] \in C
    BY <2>1
  <2> QED BY <2>1, <2>2
<1>7. ui.events \in Seq(Nat) /\ ui.alertHistory \in Seq(Nat)
  BY <1>1 DEF UIType
<1>8. arrived \in Nat /\ raised \in Nat /\ cache \in Seq(Nat) /\ fetched \in Seq(Nat)
  BY <1>1 DEF ServerType
<1>9. {FeedSize, MaxFeedEvents, MaxAlertHistory} \subseteq Nat
  BY SizesAssumption
<1>10. \A k \in 1..Len(wire) : wire[k].events \in Seq(Nat) /\ wire[k].n \in Nat
  BY <1>2, <1>4
<1>11. Len(wire) \in Nat /\ Len(commands) \in Nat
  BY <1>3
<1> QED BY <1>3, <1>6, <1>7, <1>8, <1>9, <1>10, <1>11, Zenon

\* What is shown stays in order when more arrives.
LEMMA ShownStays ==
  ASSUME TypeOK, ShownOrder, arrived' \in Nat, arrived <= arrived', raised' \in Nat,
         raised <= raised', UNCHANGED <<ui, resent>>
  PROVE  ShownOrder'
<1>a. /\ arrived \in Nat /\ raised \in Nat
      /\ ui.events \in Seq(Nat) /\ ui.alertHistory \in Seq(Nat)
  BY Sizes
<1>1. Below(ui.events, arrived' + 1)
  BY <1>a, BelowMore DEF ShownOrder
<1>2. Below(ui.alertHistory, raised' + 1)
  BY <1>a, BelowMore DEF ShownOrder
<1> QED BY <1>1, <1>2 DEF ShownOrder

\* Sending: what is added is in order, an event it holds has just arrived and is the
\* only message, and an alert it holds has just been raised and is the only alert.
LEMMA SendingKeepsOrder ==
  ASSUME OrderInv, NEW msgs \in Seq(Msgs), wire' = wire \o msgs, UNCHANGED <<ui, resent>>,
         arrived' \in Nat, arrived <= arrived', raised' \in Nat, raised <= raised',
         \A i \in 1..Len(msgs) :
           /\ (resent \/ NewestFirst(msgs[i].events)) /\ Below(msgs[i].events, arrived' + 1)
           /\ msgs[i].kind = "event:new" =>
                i = 1 /\ arrived' = arrived + 1 /\ msgs[i].events = <<arrived'>>
           /\ msgs[i].kind = "alert:raised" =>
                /\ raised' = raised + 1 /\ msgs[i].n = raised'
                /\ \A j \in 1..(i - 1) : msgs[j].kind # "alert:raised"
  PROVE  ShownOrder' /\ EventsUnderWay' /\ AlertsUnderWay'
<1>t. TypeOK
  BY DEF OrderInv
<1>1. /\ Len(wire') = Len(wire) + Len(msgs)
      /\ \A k \in 1..Len(wire') : wire'[k] = IF k <= Len(wire) THEN wire[k] ELSE msgs[k - Len(wire)]
  BY <1>t, Sizes, ConcatProperties
<1>2. Len(wire) \in Nat /\ Len(msgs) \in Nat
  BY <1>t, Sizes
<1>o. ASSUME NEW k \in 1..Len(wire'), k <= Len(wire)
      PROVE  k \in 1..Len(wire) /\ wire'[k] = wire[k]
               /\ \A j \in 1..(k - 1) : j \in 1..Len(wire') /\ wire'[j] = wire[j]
  BY <1>1, <1>2, <1>o
<1>n. ASSUME NEW k \in 1..Len(wire'), ~ (k <= Len(wire))
      PROVE  k - Len(wire) \in 1..Len(msgs) /\ wire'[k] = msgs[k - Len(wire)]
  BY <1>1, <1>2, <1>n
<1>3. ShownOrder'
  BY <1>t, ShownStays DEF OrderInv
<1>4. EventsUnderWay'
  <2> SUFFICES ASSUME NEW k \in 1..Len(wire')
               PROVE  /\ (resent \/ NewestFirst(wire'[k].events)) /\ Below(wire'[k].events, arrived' + 1)
                      /\ wire'[k].kind = "event:new" => \E e \in Nat :
                           /\ wire'[k].events = <<e>>
                           /\ Below(ui.events, e)
                           /\ \A j \in 1..(k - 1) : Below(wire'[j].events, e)
    BY DEF EventsUnderWay
  <2>1. CASE k <= Len(wire)
    <3>1. k \in 1..Len(wire) /\ wire'[k] = wire[k] /\ \A j \in 1..(k - 1) : wire'[j] = wire[j]
      BY <1>o, <2>1
    <3>2. (resent \/ NewestFirst(wire[k].events)) /\ Below(wire[k].events, arrived + 1)
      BY <3>1 DEF OrderInv, EventsUnderWay
    <3>3. Below(wire[k].events, arrived' + 1)
      <4>a. arrived \in Nat /\ wire[k].events \in Seq(Nat)
        BY <1>t, <3>1, Sizes
      <4> QED BY <3>2, <4>a, BelowMore
    <3>4. wire[k].kind = "event:new" => \E e \in Nat :
             /\ wire[k].events = <<e>>
             /\ Below(ui.events, e)
             /\ \A j \in 1..(k - 1) : Below(wire[j].events, e)
      BY <3>1 DEF OrderInv, EventsUnderWay
    <3> QED BY <3>1, <3>2, <3>3, <3>4
  <2>2. CASE ~ (k <= Len(wire))
    <3> DEFINE i == k - Len(wire)
    <3>1. i \in 1..Len(msgs) /\ wire'[k] = msgs[i]
      BY <1>n, <2>2
    <3>2. ASSUME wire'[k].kind = "event:new"
          PROVE  /\ wire'[k].events = <<arrived + 1>>
                 /\ Below(ui.events, arrived + 1)
                 /\ \A j \in 1..(k - 1) : Below(wire'[j].events, arrived + 1)
      <4>1. i = 1 /\ arrived' = arrived + 1 /\ wire'[k].events = <<arrived'>>
        BY <3>1, <3>2
      <4>2. k = Len(wire) + 1
        BY <1>2, <4>1
      <4>3. ASSUME NEW j \in 1..(k - 1) PROVE Below(wire'[j].events, arrived + 1)
        <5>1. j \in 1..Len(wire) /\ wire'[j] = wire[j]
          BY <1>1, <1>2, <4>2
        <5> QED BY <5>1 DEF OrderInv, EventsUnderWay
      <4> QED BY <4>1, <4>3 DEF OrderInv, ShownOrder
    <3>3. arrived + 1 \in Nat
      <4>1. arrived \in Nat
        BY <1>t, Sizes
      <4> QED BY <4>1
    <3> QED BY <3>1, <3>2, <3>3
  <2> QED BY <2>1, <2>2
<1>5. AlertsUnderWay'
  <2> SUFFICES ASSUME NEW k \in 1..Len(wire'), wire'[k].kind = "alert:raised"
               PROVE  /\ wire'[k].n <= raised'
                      /\ Below(ui.alertHistory, wire'[k].n)
                      /\ \A j \in 1..(k - 1) :
                           wire'[j].kind = "alert:raised" => wire'[j].n < wire'[k].n
    BY DEF AlertsUnderWay
  <2>s. raised \in Nat /\ \A j \in 1..Len(wire) : wire[j].n \in Nat
    BY <1>t, Sizes
  <2>1. CASE k <= Len(wire)
    <3>1. k \in 1..Len(wire) /\ wire'[k] = wire[k] /\ \A j \in 1..(k - 1) : wire'[j] = wire[j]
      BY <1>o, <2>1
    <3>2. wire[k].n <= raised /\ Below(ui.alertHistory, wire[k].n)
            /\ \A j \in 1..(k - 1) : wire[j].kind = "alert:raised" => wire[j].n < wire[k].n
      BY <3>1 DEF OrderInv, AlertsUnderWay
    <3> QED BY <2>s, <3>1, <3>2
  <2>2. CASE ~ (k <= Len(wire))
    <3> DEFINE i == k - Len(wire)
    <3>1. i \in 1..Len(msgs) /\ wire'[k] = msgs[i]
      BY <1>n, <2>2
    <3>2. raised' = raised + 1 /\ wire'[k].n = raised + 1
            /\ \A j \in 1..(i - 1) : msgs[j].kind # "alert:raised"
      BY <3>1
    <3>3. ASSUME NEW j \in 1..(k - 1), wire'[j].kind = "alert:raised" PROVE wire'[j].n < raised + 1
      <4>1. j \in 1..Len(wire') /\ j < k
        BY <1>1, <1>2
      <4>2. CASE j <= Len(wire)
        <5>1. j \in 1..Len(wire) /\ wire'[j] = wire[j]
          BY <1>o, <4>1, <4>2
        <5>2. wire[j].n <= raised
          BY <3>3, <5>1 DEF OrderInv, AlertsUnderWay
        <5> QED BY <2>s, <5>1, <5>2
      <4>3. CASE ~ (j <= Len(wire))
        <5>1. j - Len(wire) \in 1..(i - 1) /\ wire'[j] = msgs[j - Len(wire)]
          BY <1>n, <1>2, <4>1, <4>3
        <5> QED BY <3>2, <3>3, <5>1
      <4> QED BY <4>2, <4>3
    <3> QED BY <2>s, <3>2, <3>3 DEF OrderInv, ShownOrder
  <2> QED BY <2>1, <2>2
<1> QED BY <1>3, <1>4, <1>5

\* Messages without events or alerts, to the room or to the socket.
LEMMA NotesKeepOrder ==
  ASSUME OrderInv, NEW msgs \in Seq(Msgs), wire' = wire \o msgs \/ wire' = wire,
         UNCHANGED <<ui, arrived, raised, resent>>,
         \A i \in 1..Len(msgs) :
           msgs[i].events = <<>> /\ msgs[i].kind \notin {"event:new", "alert:raised"}
  PROVE  ShownOrder' /\ EventsUnderWay' /\ AlertsUnderWay'
<1>1. arrived \in Nat /\ raised \in Nat
  BY Sizes DEF OrderInv
<1>2. CASE wire' = wire
  BY <1>2 DEF OrderInv, ShownOrder, EventsUnderWay, AlertsUnderWay
<1>3. CASE wire' = wire \o msgs
  <2>1. \A i \in 1..Len(msgs) :
          /\ (resent \/ NewestFirst(msgs[i].events)) /\ Below(msgs[i].events, arrived' + 1)
          /\ msgs[i].kind # "event:new" /\ msgs[i].kind # "alert:raised"
    <3> SUFFICES ASSUME NEW i \in 1..Len(msgs)
                 PROVE  /\ (resent \/ NewestFirst(msgs[i].events)) /\ Below(msgs[i].events, arrived' + 1)
                        /\ msgs[i].kind # "event:new" /\ msgs[i].kind # "alert:raised"
      OBVIOUS
    <3>1. msgs[i].events = <<>> /\ msgs[i].kind \notin {"event:new", "alert:raised"}
      OBVIOUS
    <3> QED BY <3>1, Short
  <2>2. /\ arrived' \in Nat /\ arrived <= arrived' /\ raised' \in Nat /\ raised <= raised'
        /\ UNCHANGED <<ui, resent>>
    BY <1>1
  <2>3. \A i \in 1..Len(msgs) :
          /\ (resent \/ NewestFirst(msgs[i].events)) /\ Below(msgs[i].events, arrived' + 1)
          /\ msgs[i].kind = "event:new" =>
               i = 1 /\ arrived' = arrived + 1 /\ msgs[i].events = <<arrived'>>
          /\ msgs[i].kind = "alert:raised" =>
               /\ raised' = raised + 1 /\ msgs[i].n = raised'
               /\ \A j \in 1..(i - 1) : msgs[j].kind # "alert:raised"
    BY <2>1
  <2> QED BY <1>3, <2>2, <2>3, SendingKeepsOrder
<1> QED BY <1>2, <1>3

\* The cache, the reads and the pushes do not change.
LEMMA PushStays ==
  ASSUME PushOrder, UNCHANGED <<cache, fetched, commands, arrived, resent>> PROVE PushOrder'
  BY DEF PushOrder

\* A command is added: a read, or the push of the newest event.
LEMMA CallKeepsOrder ==
  ASSUME TypeOK, PushOrder, NEW c \in [push : Nat, read : Nat], commands' = Append(commands, c),
         UNCHANGED <<cache, fetched, resent>>, arrived' \in Nat, arrived <= arrived',
         c.push = 0 \/ (c.push = arrived' /\ arrived' = arrived + 1)
  PROVE  PushOrder'
<1>t. /\ arrived \in Nat /\ cache \in Seq(Nat) /\ fetched \in Seq(Nat)
      /\ commands \in Seq([push : Nat, read : Nat]) /\ Len(commands) \in Nat
      /\ \A k \in 1..Len(commands) : commands[k].push \in Nat
  BY Sizes
<1>1. Below(cache, arrived' + 1) /\ Below(fetched, arrived' + 1)
  BY <1>t, BelowMore DEF PushOrder
<1>2. /\ Len(commands') = Len(commands) + 1
      /\ \A k \in 1..Len(commands) : commands'[k] = commands[k]
      /\ commands'[Len(commands) + 1] = c
  BY <1>t, AppendProperties
<1>3. ASSUME NEW k \in 1..Len(commands'), commands'[k].push # 0
      PROVE  /\ commands'[k].push <= arrived'
             /\ resent \/ Below(cache, commands'[k].push)
             /\ \A j \in 1..(k - 1) : commands'[j].push < commands'[k].push
  <2>1. CASE k <= Len(commands)
    <3>1. k \in 1..Len(commands) /\ commands'[k] = commands[k]
            /\ \A j \in 1..(k - 1) : commands'[j] = commands[j]
      BY <1>t, <1>2, <2>1
    <3>2. /\ commands[k].push <= arrived
          /\ resent \/ Below(cache, commands[k].push)
          /\ \A j \in 1..(k - 1) : commands[j].push < commands[k].push
      BY <1>3, <3>1 DEF PushOrder
    <3>3. commands[k].push \in Nat /\ arrived \in Nat
      BY <1>t, <3>1
    <3>4. commands[k].push <= arrived'
      BY <3>2, <3>3
    <3> QED BY <3>1, <3>2, <3>4
  <2>2. CASE k = Len(commands) + 1
    <3>1. commands'[k] = c
      BY <1>2, <2>2
    <3>2. c.push = arrived + 1 /\ arrived' = arrived + 1
      BY <1>3, <3>1
    <3>3. ASSUME NEW j \in 1..(k - 1) PROVE commands'[j].push < arrived + 1
      <4>1. j \in 1..Len(commands) /\ commands'[j] = commands[j]
        BY <1>t, <1>2, <2>2
      <4>2. commands[j].push # 0 => commands[j].push <= arrived
        BY <4>1 DEF PushOrder
      <4>3. commands[j].push \in Nat /\ arrived \in Nat
        BY <1>t, <4>1
      <4>4. commands[j].push <= arrived
        BY <4>2, <4>3
      <4>5. commands[j].push < arrived + 1
        BY <4>3, <4>4
      <4> QED BY <4>1, <4>5
    <3> QED BY <1>t, <3>1, <3>2, <3>3 DEF PushOrder
  <2> QED BY <1>t, <1>2, <2>1, <2>2
<1> QED BY <1>1, <1>3 DEF PushOrder

\* A push that is sent again is no younger than the newest event.
LEMMA ResendKeepsOrder ==
  ASSUME TypeOK, PushOrder, RedisResend
  PROVE  PushOrder'
<1>t. /\ arrived \in Nat /\ cache \in Seq(Nat) /\ FeedSize \in Nat
      /\ \A k \in 1..Len(commands) : commands[k].push \in Nat
      /\ DOMAIN commands = 1..Len(commands)
  BY Sizes
<1>1. resent' /\ UNCHANGED <<arrived, commands, fetched>>
  BY DEF RedisResend, gateway
<1>2. PICK oldest, newest \in QueuedPushes :
        /\ \A e \in QueuedPushes : oldest <= e
        /\ cache' = FirstN([k \in 1..(newest - oldest + 1) |-> newest + 1 - k] \o cache, FeedSize)
  BY Zenon DEF RedisResend
<1>3. \A e \in QueuedPushes : e \in Nat \ {0} /\ e <= arrived
  BY <1>t DEF QueuedPushes, PushOrder
<1> DEFINE n == newest - oldest + 1
           again == [k \in 1..n |-> newest + 1 - k]
           s == again \o cache
<1>4. /\ oldest \in Nat /\ newest \in Nat /\ oldest # 0 /\ oldest <= newest /\ newest <= arrived
      /\ n \in Nat
  BY <1>2, <1>3
<1>5. again \in Seq(Nat) /\ Len(again) = n /\ \A k \in 1..n : again[k] < arrived + 1
  <2>1. \A k \in 1..n : newest + 1 - k \in Nat /\ newest + 1 - k < arrived + 1
    BY <1>4, <1>t
  <2> HIDE DEF n
  <2>2. again \in Seq(Nat)
    BY <1>4, <2>1
  <2>3. Len(again) = n /\ \A k \in 1..n : again[k] = newest + 1 - k
    BY <1>4, <2>2
  <2> QED BY <2>1, <2>2, <2>3
<1> HIDE DEF again, n
<1>6. s \in Seq(Nat) /\ Below(s, arrived + 1)
  <2>1. /\ s \in Seq(Nat) /\ Len(s) = n + Len(cache) /\ Len(cache) \in Nat
        /\ \A i \in 1..(n + Len(cache)) : s[i] = IF i <= n THEN again[i] ELSE cache[i - n]
    <3>1. Len(again) = n /\ again \in Seq(Nat) /\ cache \in Seq(Nat) /\ Len(cache) \in Nat
      BY <1>5, <1>t
    <3>2. /\ s \in Seq(Nat) /\ Len(s) = Len(again) + Len(cache)
          /\ \A i \in 1..(Len(again) + Len(cache)) :
               s[i] = IF i <= Len(again) THEN again[i] ELSE cache[i - Len(again)]
      BY <3>1, ConcatProperties
    <3> QED BY <3>1, <3>2
  <2> SUFFICES ASSUME NEW i \in 1..Len(s) PROVE s[i] < arrived + 1
    BY <2>1 DEF Below
  <2>2. CASE i <= n
    BY <1>4, <1>5, <2>1, <2>2
  <2>3. CASE ~ (i <= n)
    <3>1. i - n \in 1..Len(cache) /\ s[i] = cache[i - n]
      BY <1>4, <2>1, <2>3
    <3> QED BY <3>1 DEF PushOrder, Below
  <2> QED BY <2>2, <2>3
<1>7. cache' = FirstN(s, FeedSize)
  BY <1>2 DEF again, n
<1> HIDE DEF s
<1>8. Below(cache', arrived + 1)
  <2>1. \A i \in 1..Len(s) : s[i] \in Nat
    BY <1>6
  <2> DEFINE k == IF Len(s) > FeedSize THEN FeedSize ELSE Len(s)
  <2>2. k \in Nat /\ k <= Len(s) /\ cache' = SubSeq(s, 1, k) /\ \A i \in 1..k : s[i] \in Nat
    BY <1>6, <1>7, <1>t, <2>1 DEF FirstN
  <2> HIDE DEF k
  <2>3. Len(cache') = k /\ \A i \in 1..k : cache'[i] = s[i]
    BY <2>2, SubSeqProperties
  <2> QED BY <1>6, <2>2, <2>3 DEF Below
<1>9. ASSUME NEW k \in 1..Len(commands), commands[k].push # 0
      PROVE  /\ commands[k].push <= arrived
             /\ \A j \in 1..(k - 1) : commands[j].push < commands[k].push
  BY <1>9 DEF PushOrder
<1> QED BY <1>1, <1>8, <1>9 DEF PushOrder

\* A command is taken: it is executed, or fails; or commands are executed to be sent again.
LEMMA RedisKeepsOrder ==
  ASSUME TypeOK, PushOrder, RedisCommand
  PROVE  PushOrder'
<1> SUFFICES ASSUME RedisExec \/ RedisError PROVE PushOrder'
  BY ResendKeepsOrder DEF RedisCommand
<1> DEFINE c == Head(commands)
<1>t. /\ arrived \in Nat /\ cache \in Seq(Nat) /\ fetched \in Seq(Nat) /\ FeedSize \in Nat
      /\ commands \in Seq([push : Nat, read : Nat]) /\ Len(commands) \in Nat
      /\ \A k \in 1..Len(commands) : commands[k].push \in Nat
  BY Sizes
<1>1. /\ commands # <<>> /\ commands' = Tail(commands) /\ arrived' = arrived
      /\ cache' = cache \/ (c.push # 0 /\ cache' = FirstN(<<c.push>> \o cache, FeedSize))
      /\ fetched' \in {cache, fetched, <<>>} /\ resent' = resent
  BY DEF RedisExec, RedisError, history
<1>2. /\ Len(commands) >= 1 /\ Len(commands') = Len(commands) - 1 /\ c = commands[1]
      /\ \A k \in 1..Len(commands') : commands'[k] = commands[k + 1]
  BY <1>t, <1>1, HeadTailProperties
<1> HIDE DEF c
<1>3. c.push \in Nat /\ (c.push # 0 => c.push <= arrived /\ (resent \/ Below(cache, c.push)))
  BY <1>t, <1>2 DEF PushOrder
<1>4. /\ (resent \/ NewestFirst(cache')) /\ Below(cache', arrived + 1)
      /\ \A n \in Nat : Below(cache, n) /\ c.push < n => Below(cache', n)
  <2>1. CASE cache' = cache
    BY <2>1 DEF PushOrder
  <2>2. CASE c.push # 0 /\ cache' = FirstN(<<c.push>> \o cache, FeedSize)
    <3>1. /\ resent \/ NewestFirst(cache')
          /\ \A n \in Nat : Below(cache, n) /\ c.push < n => Below(cache', n)
      BY <1>t, <1>3, <2>2, Prepended DEF PushOrder
    <3>2. arrived + 1 \in Nat /\ c.push < arrived + 1
      BY <1>t, <1>3, <2>2
    <3> QED BY <3>1, <3>2 DEF PushOrder
  <2> QED BY <1>1, <2>1, <2>2
<1>5. (resent \/ NewestFirst(fetched')) /\ Below(fetched', arrived + 1)
  <2>1. CASE fetched' = cache
    BY <2>1 DEF PushOrder
  <2>2. CASE fetched' = fetched
    BY <2>2 DEF PushOrder
  <2>3. CASE fetched' = <<>>
    BY <2>3, Short
  <2> QED BY <1>1, <2>1, <2>2, <2>3
<1>6. ASSUME NEW k \in 1..Len(commands'), commands'[k].push # 0
      PROVE  /\ commands'[k].push <= arrived
             /\ resent \/ Below(cache', commands'[k].push)
             /\ \A j \in 1..(k - 1) : commands'[j].push < commands'[k].push
  <2>1. k + 1 \in 1..Len(commands) /\ commands'[k] = commands[k + 1] /\ 1 \in 1..((k + 1) - 1)
        /\ \A j \in 1..(k - 1) : j + 1 \in 1..((k + 1) - 1) /\ commands'[j] = commands[j + 1]
    BY <1>t, <1>2
  <2>2. /\ commands[k + 1].push <= arrived
        /\ resent \/ Below(cache, commands[k + 1].push)
        /\ \A j \in 1..((k + 1) - 1) : commands[j].push < commands[k + 1].push
    BY <1>6, <2>1 DEF PushOrder
  <2>3. c.push < commands[k + 1].push /\ commands[k + 1].push \in Nat
    BY <1>t, <1>2, <2>1, <2>2
  <2>4. resent \/ Below(cache', commands[k + 1].push)
    BY <1>4, <2>2, <2>3
  <2> QED BY <2>1, <2>2, <2>4
<1> QED BY <1>1, <1>4, <1>5, <1>6 DEF PushOrder

\* The messages of the gateway, with what the invariant asks of them.
LEMMA MessageFields ==
  /\ Note("connect").events = <<>> /\ Note("connect").kind = "connect"
  /\ Rejection = <<Note("auth:error"), Note("disconnect")>>
  /\ \A kind : Note(kind).events = <<>> /\ Note(kind).kind = kind
  /\ Update.events = <<>> /\ Update.kind = "metrics:update"
  /\ \A e : /\ Msg("event:new", <<e>>, 0, <<>>).events = <<e>>
            /\ Msg("event:new", <<e>>, 0, <<>>).kind = "event:new"
  /\ \A a : /\ Msg("alert:raised", <<>>, a, <<>>).events = <<>>
            /\ Msg("alert:raised", <<>>, a, <<>>).n = a
            /\ Msg("alert:raised", <<>>, a, <<>>).kind = "alert:raised"
  /\ \A s, n, p : Msg("snapshot", s, n, p).events = s /\ Msg("snapshot", s, n, p).kind = "snapshot"
  BY DEF Note, Msg, Update, Rejection

\* The rejection and the first message of a connection.
LEMMA NoteMessages ==
  ASSUME TypeOK
  PROVE  /\ Rejection \in Seq(Msgs) /\ <<Note("connect")>> \in Seq(Msgs)
         /\ \A i \in 1..Len(Rejection) :
              Rejection[i].events = <<>> /\ Rejection[i].kind \notin {"event:new", "alert:raised"}
  BY TypeParts, MessageTypes, MessageFields DEF ServerType, Kinds

\* Steps of the backend.
LEMMA BackendOrder ==
  OrderInv /\ (Arrive \/ RedisCommand \/ Tick \/ TickAlerting)
    => PushOrder' /\ ShownOrder' /\ EventsUnderWay' /\ AlertsUnderWay'
<1> SUFFICES ASSUME OrderInv, Arrive \/ RedisCommand \/ Tick \/ TickAlerting
             PROVE  PushOrder' /\ ShownOrder' /\ EventsUnderWay' /\ AlertsUnderWay'
  OBVIOUS
<1> USE DEF backend, gateway, socket, hook, history
<1>t. TypeOK /\ ServerType /\ PushOrder /\ ShownOrder /\ EventsUnderWay /\ AlertsUnderWay
      /\ arrived \in Nat /\ raised \in Nat /\ wire \in Seq(Msgs)
  BY TypeParts, Sizes DEF OrderInv
<1>m. /\ Update \in Msgs
      /\ \A e \in Nat : Msg("event:new", <<e>>, 0, <<>>) \in Msgs
      /\ \A a \in Nat : Msg("alert:raised", <<>>, a, <<>>) \in Msgs
  BY <1>t, MessageTypes DEF ServerType
<1>1. CASE Arrive
  <2>1. /\ arrived' = arrived + 1 /\ UNCHANGED <<ui, raised, cache, fetched, resent>>
        /\ ToRoom(<<Msg("event:new", <<arrived'>>, 0, <<>>)>>)
        /\ commands' = Append(commands, [push |-> arrived', read |-> 0])
    BY <1>1 DEF Arrive
  <2>2. arrived' \in Nat /\ arrived <= arrived' /\ raised' \in Nat /\ raised <= raised'
    BY <1>t, <2>1
  <2>3. PushOrder'
    <3> DEFINE c == [push |-> arrived', read |-> 0]
    <3>1. c \in [push : Nat, read : Nat] /\ c.push = arrived' /\ commands' = Append(commands, c)
      BY <2>1, <2>2
    <3> HIDE DEF c
    <3> QED BY <1>t, <2>1, <2>2, <3>1, CallKeepsOrder
  <2>4. CASE ~ InRoom
    <3>1. wire' = wire
      BY <2>1, <2>4 DEF ToRoom
    <3>2. wire' = wire \o <<>> /\ <<>> \in Seq(Msgs)
      BY <1>t, <3>1
    <3>3. ShownOrder' /\ EventsUnderWay' /\ AlertsUnderWay'
      <4> DEFINE none == <<>>
      <4>1. none \in Seq(Msgs) /\ wire' = wire \o none /\ 1..Len(none) = {}
        BY <3>2
      <4> HIDE DEF none
      <4> QED BY <2>1, <2>2, <4>1, SendingKeepsOrder
    <3> QED BY <2>3, <3>3
  <2>5. CASE InRoom
    <3> DEFINE msgs == <<Msg("event:new", <<arrived'>>, 0, <<>>)>>
    <3>1. wire' = wire \o msgs
      BY <2>1, <2>5 DEF ToRoom
    <3>2. msgs \in Seq(Msgs) /\ Len(msgs) = 1 /\ msgs[1].events = <<arrived'>>
            /\ msgs[1].kind = "event:new"
      BY <1>m, <2>2, MessageFields
    <3> HIDE DEF msgs
    <3>3. NewestFirst(<<arrived'>>) /\ Below(<<arrived'>>, arrived' + 1)
      BY <2>2, Short
    <3>4. \A i \in 1..Len(msgs) :
            /\ (resent \/ NewestFirst(msgs[i].events)) /\ Below(msgs[i].events, arrived' + 1)
            /\ msgs[i].kind = "event:new" =>
                 i = 1 /\ arrived' = arrived + 1 /\ msgs[i].events = <<arrived'>>
            /\ msgs[i].kind # "alert:raised"
      <4> SUFFICES ASSUME NEW i \in 1..Len(msgs)
                   PROVE  /\ (resent \/ NewestFirst(msgs[i].events)) /\ Below(msgs[i].events, arrived' + 1)
                          /\ i = 1 /\ arrived' = arrived + 1 /\ msgs[i].events = <<arrived'>>
                          /\ msgs[i].kind # "alert:raised"
        OBVIOUS
      <4>1. i = 1
        BY <3>2
      <4> QED BY <2>1, <3>2, <3>3, <4>1
    <3>5. \A i \in 1..Len(msgs) :
            /\ (resent \/ NewestFirst(msgs[i].events)) /\ Below(msgs[i].events, arrived' + 1)
            /\ msgs[i].kind = "event:new" =>
                 i = 1 /\ arrived' = arrived + 1 /\ msgs[i].events = <<arrived'>>
            /\ msgs[i].kind = "alert:raised" =>
                 /\ raised' = raised + 1 /\ msgs[i].n = raised'
                 /\ \A j \in 1..(i - 1) : msgs[j].kind # "alert:raised"
      BY <3>4
    <3> QED BY <2>1, <2>2, <2>3, <3>1, <3>2, <3>5, SendingKeepsOrder
  <2> QED BY <2>4, <2>5
<1>2. CASE RedisCommand
  <2>1. UNCHANGED <<ui, wire, arrived, raised>> /\ (resent' = resent \/ resent')
    BY <1>2 DEF RedisCommand, RedisExec, RedisError, RedisResend
  <2> QED BY <1>t, <1>2, <2>1, RedisKeepsOrder DEF ShownOrder, EventsUnderWay, AlertsUnderWay
<1>3. CASE Tick
  <2> DEFINE msgs == <<Update>>
  <2>1. /\ UNCHANGED <<ui, arrived, raised, cache, fetched, commands, resent>>
        /\ wire' = wire \o msgs \/ wire' = wire
    BY <1>3 DEF Tick, ToRoom
  <2>2. msgs \in Seq(Msgs) /\ Len(msgs) = 1 /\ msgs[1] = Update
    BY <1>m
  <2> HIDE DEF msgs
  <2>3. \A i \in 1..Len(msgs) :
          msgs[i].events = <<>> /\ msgs[i].kind \notin {"event:new", "alert:raised"}
    BY <2>2, MessageFields
  <2> QED BY <1>t, <2>1, <2>2, <2>3, PushStays, NotesKeepOrder
<1>4. CASE TickAlerting
  <2> DEFINE alert == Msg("alert:raised", <<>>, raised', <<>>)
             msgs == IF InRoom THEN <<Update, alert>> ELSE <<>>
  <2>1. /\ raised' = raised + 1 /\ UNCHANGED <<ui, arrived, cache, fetched, commands, resent>>
        /\ ToRoom(<<Update, alert>>)
    BY <1>4 DEF TickAlerting
  <2>2. arrived' \in Nat /\ arrived <= arrived' /\ raised' \in Nat /\ raised <= raised'
    BY <1>t, <2>1
  <2>3. alert \in Msgs /\ alert.events = <<>> /\ alert.kind = "alert:raised" /\ alert.n = raised'
    BY <1>m, <2>2, MessageFields
  <2> HIDE DEF alert
  <2>4. msgs \in Seq(Msgs) /\ wire' = wire \o msgs
    <3>1. CASE InRoom
      BY <1>m, <2>1, <2>3, <3>1 DEF ToRoom
    <3>2. CASE ~ InRoom
      BY <1>t, <2>1, <3>2 DEF ToRoom
    <3> QED BY <3>1, <3>2
  <2>5. Len(msgs) \in {0, 2} /\ (Len(msgs) = 2 => msgs[1] = Update /\ msgs[2] = alert)
    OBVIOUS
  <2> HIDE DEF msgs
  <2>6. \A i \in 1..Len(msgs) :
          /\ (resent \/ NewestFirst(msgs[i].events)) /\ Below(msgs[i].events, arrived' + 1)
          /\ msgs[i].kind # "event:new"
          /\ msgs[i].kind = "alert:raised" =>
               /\ raised' = raised + 1 /\ msgs[i].n = raised'
               /\ \A j \in 1..(i - 1) : msgs[j].kind # "alert:raised"
    <3> SUFFICES ASSUME NEW i \in 1..Len(msgs)
                 PROVE  /\ (resent \/ NewestFirst(msgs[i].events)) /\ Below(msgs[i].events, arrived' + 1)
                        /\ msgs[i].kind # "event:new"
                        /\ msgs[i].kind = "alert:raised" =>
                             /\ raised' = raised + 1 /\ msgs[i].n = raised'
                             /\ \A j \in 1..(i - 1) : msgs[j].kind # "alert:raised"
      OBVIOUS
    <3>a. Len(msgs) # 0
      OBVIOUS
    <3>b. Len(msgs) = 2 /\ msgs[1] = Update /\ msgs[2] = alert
      BY <2>5, <3>a
    <3>1. Len(msgs) = 2 /\ i \in {1, 2} /\ msgs[1] = Update /\ msgs[2] = alert
      BY <3>b
    <3>2. CASE i = 1
      BY <3>1, <3>2, MessageFields, Short
    <3>3. CASE i = 2
      <4>1. \A j \in 1..(i - 1) : j = 1
        BY <3>3
      <4> QED BY <2>1, <2>3, <3>1, <3>3, <4>1, MessageFields, Short
    <3> QED BY <3>1, <3>2, <3>3
  <2>7. ShownOrder' /\ EventsUnderWay' /\ AlertsUnderWay'
    <3>1. \A i \in 1..Len(msgs) :
            /\ (resent \/ NewestFirst(msgs[i].events)) /\ Below(msgs[i].events, arrived' + 1)
            /\ msgs[i].kind = "event:new" =>
                 i = 1 /\ arrived' = arrived + 1 /\ msgs[i].events = <<arrived'>>
            /\ msgs[i].kind = "alert:raised" =>
                 /\ raised' = raised + 1 /\ msgs[i].n = raised'
                 /\ \A j \in 1..(i - 1) : msgs[j].kind # "alert:raised"
      BY <2>6
    <3> QED BY <2>1, <2>2, <2>4, <3>1, SendingKeepsOrder
  <2> QED BY <1>t, <2>1, <2>7, PushStays
<1> QED BY <1>1, <1>2, <1>3, <1>4

\* Steps of a connection on the gateway's side.  A snapshot is what was read of the cache.
LEMMA GatewayOrder ==
  OrderInv /\ (Open \/ Accept \/ Reject \/ SendSnapshot \/ Expire)
    => PushOrder' /\ ShownOrder' /\ EventsUnderWay' /\ AlertsUnderWay'
<1> SUFFICES ASSUME OrderInv, Open \/ Accept \/ Reject \/ SendSnapshot \/ Expire
             PROVE  PushOrder' /\ ShownOrder' /\ EventsUnderWay' /\ AlertsUnderWay'
  OBVIOUS
<1> USE DEF backend, gateway, socket, hook, history
<1>t. TypeOK /\ ServerType /\ PushOrder /\ ShownOrder /\ EventsUnderWay /\ AlertsUnderWay
      /\ arrived \in Nat /\ raised \in Nat /\ epoch \in Nat /\ atJoin \in Nat
      /\ fetched \in Seq(Nat) /\ wire \in Seq(Msgs)
  BY TypeParts, Sizes DEF OrderInv, ServerType
<1>n. /\ Rejection \in Seq(Msgs) /\ <<Note("connect")>> \in Seq(Msgs)
      /\ \A i \in 1..Len(Rejection) :
           Rejection[i].events = <<>> /\ Rejection[i].kind \notin {"event:new", "alert:raised"}
  BY <1>t, NoteMessages
<1>1. CASE Open
  <2> DEFINE first == <<Note("connect")>>
             rest == IF token = "absent" THEN Rejection ELSE <<>>
  <2>1. /\ wire' = first \o rest /\ fetched' = <<0>>
        /\ UNCHANGED <<ui, arrived, raised, cache, commands, resent>>
    BY <1>1 DEF Open, NotYet
  <2>2. rest \in Seq(Msgs) /\ \A i \in 1..Len(rest) :
          rest[i].events = <<>> /\ rest[i].kind \notin {"event:new", "alert:raised"}
    <3>1. CASE token = "absent"
      BY <1>n, <3>1
    <3>2. CASE token # "absent"
      BY <3>2
    <3> QED BY <3>1, <3>2
  <2>3. first \in Seq(Msgs) /\ Len(first) = 1 /\ first[1].events = <<>> /\ first[1].kind = "connect"
    BY <1>n, MessageFields
  <2> HIDE DEF first, rest
  <2>4. \A k \in 1..Len(wire') :
          wire'[k].events = <<>> /\ wire'[k].kind \notin {"event:new", "alert:raised"}
    <3>1. /\ Len(wire') = 1 + Len(rest) /\ Len(rest) \in Nat
          /\ \A k \in 1..Len(wire') : wire'[k] = IF k <= 1 THEN first[k] ELSE rest[k - 1]
      <4>1. /\ Len(first \o rest) = Len(first) + Len(rest)
            /\ \A k \in 1..(Len(first) + Len(rest)) :
                 (first \o rest)[k] = IF k <= Len(first) THEN first[k] ELSE rest[k - Len(first)]
        BY <2>2, <2>3, ConcatProperties
      <4> QED BY <2>1, <2>2, <2>3, <4>1
    <3> SUFFICES ASSUME NEW k \in 1..Len(wire')
                 PROVE  /\ wire'[k].events = <<>>
                        /\ wire'[k].kind \notin {"event:new", "alert:raised"}
      OBVIOUS
    <3>2. CASE k = 1
      BY <2>3, <3>1, <3>2
    <3>3. CASE k # 1
      <4>1. k - 1 \in 1..Len(rest) /\ wire'[k] = rest[k - 1]
        BY <3>1, <3>3
      <4> QED BY <2>2, <4>1
    <3> QED BY <3>2, <3>3
  <2>5. NewestFirst(<<>>) /\ \A b : Below(<<>>, b)
    BY Short
  <2>6. EventsUnderWay'
    <3> SUFFICES ASSUME NEW k \in 1..Len(wire')
                 PROVE  /\ NewestFirst(wire'[k].events) /\ Below(wire'[k].events, arrived' + 1)
                        /\ wire'[k].kind # "event:new"
      BY DEF EventsUnderWay
    <3>1. wire'[k].events = <<>> /\ wire'[k].kind \notin {"event:new", "alert:raised"}
      BY <2>4
    <3> QED BY <2>5, <3>1
  <2>7. AlertsUnderWay'
    BY <2>4 DEF AlertsUnderWay
  <2>8. PushOrder'
    <3>1. NewestFirst(<<0>>) /\ Below(<<0>>, arrived + 1)
      BY <1>t DEF NewestFirst, Below
    <3> QED BY <1>t, <2>1, <3>1 DEF PushOrder
  <2> QED BY <1>t, <2>1, <2>6, <2>7, <2>8 DEF ShownOrder
<1>2. CASE Accept
  <2> DEFINE c == [push |-> 0, read |-> epoch]
  <2>1. /\ commands' = Append(commands, c)
        /\ UNCHANGED <<ui, wire, arrived, raised, cache, fetched, resent>>
    BY <1>2 DEF Accept
  <2>2. c \in [push : Nat, read : Nat] /\ c.push = 0
    BY <1>t
  <2> HIDE DEF c
  <2>3. arrived' \in Nat /\ arrived <= arrived'
    BY <1>t, <2>1
  <2>4. PushOrder'
    BY <1>t, <2>1, <2>2, <2>3, CallKeepsOrder
  <2> QED BY <1>t, <2>1, <2>4 DEF ShownOrder, EventsUnderWay, AlertsUnderWay
<1>3. CASE Reject
  <2>1. /\ wire' = wire \o Rejection
        /\ UNCHANGED <<ui, arrived, raised, cache, commands, fetched, resent>>
    BY <1>3 DEF Reject
  <2> QED BY <1>t, <1>n, <2>1, PushStays, NotesKeepOrder
<1>4. CASE SendSnapshot
  <2>1. PICK seed \in Seeds : wire' = Append(wire, Msg("snapshot", fetched, atJoin, seed))
    BY <1>4 DEF SendSnapshot
  <2>2. UNCHANGED <<ui, arrived, raised, cache, commands, fetched, resent>>
    BY <1>4 DEF SendSnapshot
  <2> DEFINE snapshot == Msg("snapshot", fetched, atJoin, seed)
             msgs == <<snapshot>>
  <2>3. snapshot \in Msgs /\ snapshot.events = fetched /\ snapshot.kind = "snapshot"
    BY <1>t, <2>1, MessageTypes, MessageFields
  <2> HIDE DEF snapshot
  <2>4. msgs \in Seq(Msgs) /\ Len(msgs) = 1 /\ msgs[1] = snapshot /\ wire' = wire \o msgs
    <3>1. wire' = Append(wire, snapshot)
      BY <2>1 DEF snapshot
    <3> QED BY <1>t, <2>3, <3>1, AppendIsConcat
  <2> HIDE DEF msgs
  <2>5. arrived' \in Nat /\ arrived <= arrived' /\ raised' \in Nat /\ raised <= raised'
    BY <1>t, <2>2
  <2>6. (resent \/ NewestFirst(fetched)) /\ Below(fetched, arrived' + 1)
    BY <1>t, <2>2 DEF PushOrder
  <2>7. \A i \in 1..Len(msgs) :
          /\ (resent \/ NewestFirst(msgs[i].events)) /\ Below(msgs[i].events, arrived' + 1)
          /\ msgs[i].kind = "snapshot"
    <3> SUFFICES ASSUME NEW i \in 1..Len(msgs)
                 PROVE  /\ (resent \/ NewestFirst(msgs[i].events)) /\ Below(msgs[i].events, arrived' + 1)
                        /\ msgs[i].kind = "snapshot"
      OBVIOUS
    <3>1. i = 1
      BY <2>4
    <3> QED BY <2>3, <2>4, <2>6, <3>1
  <2>8. ShownOrder' /\ EventsUnderWay' /\ AlertsUnderWay'
    <3>1. \A i \in 1..Len(msgs) :
            /\ (resent \/ NewestFirst(msgs[i].events)) /\ Below(msgs[i].events, arrived' + 1)
            /\ msgs[i].kind = "event:new" =>
                 i = 1 /\ arrived' = arrived + 1 /\ msgs[i].events = <<arrived'>>
            /\ msgs[i].kind = "alert:raised" =>
                 /\ raised' = raised + 1 /\ msgs[i].n = raised'
                 /\ \A j \in 1..(i - 1) : msgs[j].kind # "alert:raised"
      BY <2>7
    <3> QED BY <2>2, <2>4, <2>5, <3>1, SendingKeepsOrder
  <2> QED BY <1>t, <2>2, <2>8, PushStays
<1>5. CASE Expire
  BY <1>5, <1>t DEF Expire, PushOrder, ShownOrder, EventsUnderWay, AlertsUnderWay
<1> QED BY <1>1, <1>2, <1>3, <1>4, <1>5

\* Receiving: what is shown afterwards is bounded by what bounded what was shown and
\* what was received.
LEMMA ReceivingKeepsOrder ==
  ASSUME OrderInv, NEW kind, Receive(kind),
         resent \/ NewestFirst(ui'.events), NewestFirst(ui'.alertHistory),
         \A e \in Nat : Below(ui.events, e) /\ Below(wire[1].events, e) => Below(ui'.events, e),
         \A a \in Nat : Below(ui.alertHistory, a) /\ (kind = "alert:raised" => wire[1].n < a)
                          => Below(ui'.alertHistory, a)
  PROVE  PushOrder' /\ ShownOrder' /\ EventsUnderWay' /\ AlertsUnderWay'
<1> USE DEF backend, gateway, history
<1>t. /\ TypeOK /\ PushOrder /\ ShownOrder /\ EventsUnderWay /\ AlertsUnderWay
      /\ arrived \in Nat /\ raised \in Nat /\ wire \in Seq(Msgs)
      /\ \A k \in 1..Len(wire) : wire[k].n \in Nat
  BY Sizes DEF OrderInv
<1>1. /\ wire # <<>> /\ Head(wire).kind = kind /\ wire' = Tail(wire)
      /\ UNCHANGED <<arrived, raised, cache, commands, fetched, resent>>
  BY DEF Receive
<1>2. /\ Len(wire) \in Nat /\ 1 \in 1..Len(wire) /\ Len(wire') = Len(wire) - 1
      /\ \A k \in 1..Len(wire') : wire'[k] = wire[k + 1]
  BY <1>t, <1>1, HeadTailProperties
<1>3. wire[1].kind = kind
  BY <1>t, <1>1
<1>n. ASSUME NEW k \in 1..Len(wire')
      PROVE  /\ k + 1 \in 1..Len(wire) /\ wire'[k] = wire[k + 1] /\ 1 \in 1..((k + 1) - 1)
             /\ \A j \in 1..(k - 1) : j + 1 \in 1..((k + 1) - 1) /\ wire'[j] = wire[j + 1]
  BY <1>2
<1>4. ShownOrder'
  <2>1. arrived + 1 \in Nat /\ raised + 1 \in Nat
    BY <1>t
  <2>2. Below(ui'.events, arrived + 1)
    BY <1>t, <1>2, <2>1 DEF ShownOrder, EventsUnderWay
  <2>3. kind = "alert:raised" => wire[1].n < raised + 1
    BY <1>t, <1>2, <1>3 DEF AlertsUnderWay
  <2>4. Below(ui'.alertHistory, raised + 1)
    BY <1>t, <2>1, <2>3 DEF ShownOrder
  <2> QED BY <1>1, <2>2, <2>4 DEF ShownOrder
<1>5. EventsUnderWay'
  <2> SUFFICES ASSUME NEW k \in 1..Len(wire')
               PROVE  /\ (resent \/ NewestFirst(wire'[k].events)) /\ Below(wire'[k].events, arrived + 1)
                      /\ wire'[k].kind = "event:new" => \E e \in Nat :
                           /\ wire'[k].events = <<e>>
                           /\ Below(ui'.events, e)
                           /\ \A j \in 1..(k - 1) : Below(wire'[j].events, e)
    BY <1>1 DEF EventsUnderWay
  <2>1. (resent \/ NewestFirst(wire[k + 1].events)) /\ Below(wire[k + 1].events, arrived + 1)
    BY <1>t, <1>n DEF EventsUnderWay
  <2>2. ASSUME wire[k + 1].kind = "event:new"
        PROVE  \E e \in Nat : /\ wire[k + 1].events = <<e>>
                              /\ Below(ui'.events, e)
                              /\ \A j \in 1..(k - 1) : Below(wire'[j].events, e)
    <3>1. PICK e \in Nat : /\ wire[k + 1].events = <<e>>
                           /\ Below(ui.events, e)
                           /\ \A j \in 1..((k + 1) - 1) : Below(wire[j].events, e)
      BY <1>t, <1>n, <2>2 DEF EventsUnderWay
    <3>2. Below(ui'.events, e)
      BY <1>n, <3>1
    <3>3. \A j \in 1..(k - 1) : Below(wire'[j].events, e)
      BY <1>n, <3>1
    <3> QED BY <3>1, <3>2, <3>3
  <2> QED BY <1>n, <2>1, <2>2
<1>6. AlertsUnderWay'
  <2> SUFFICES ASSUME NEW k \in 1..Len(wire'), wire'[k].kind = "alert:raised"
               PROVE  /\ wire'[k].n <= raised
                      /\ Below(ui'.alertHistory, wire'[k].n)
                      /\ \A j \in 1..(k - 1) :
                           wire'[j].kind = "alert:raised" => wire'[j].n < wire'[k].n
    BY <1>1 DEF AlertsUnderWay
  <2>1. /\ wire[k + 1].n <= raised /\ wire[k + 1].n \in Nat
        /\ Below(ui.alertHistory, wire[k + 1].n)
        /\ \A j \in 1..((k + 1) - 1) :
             wire[j].kind = "alert:raised" => wire[j].n < wire[k + 1].n
    BY <1>t, <1>n DEF AlertsUnderWay
  <2>2. Below(ui'.alertHistory, wire[k + 1].n)
    BY <1>3, <1>n, <2>1
  <2> QED BY <1>n, <2>1, <2>2
<1>7. PushOrder'
  BY <1>t, <1>1, PushStays
<1> QED BY <1>4, <1>5, <1>6, <1>7

\* The listeners of the hook.
LEMMA ListenersOrder ==
  OrderInv /\ Listeners => PushOrder' /\ ShownOrder' /\ EventsUnderWay' /\ AlertsUnderWay'
<1> SUFFICES ASSUME OrderInv, Listeners
             PROVE  PushOrder' /\ ShownOrder' /\ EventsUnderWay' /\ AlertsUnderWay'
  OBVIOUS
<1> DEFINE m == wire[1]
<1>t. /\ TypeOK /\ ShownOrder /\ EventsUnderWay /\ AlertsUnderWay
      /\ wire \in Seq(Msgs) /\ ui \in UIType
      /\ MaxFeedEvents \in Nat /\ MaxAlertHistory \in Nat
      /\ ui.events \in Seq(Nat) /\ ui.alertHistory \in Seq(Nat)
  BY TypeParts, Sizes DEF OrderInv, ClientType
<1>m. ASSUME NEW kind, Receive(kind)
      PROVE  /\ 1 \in 1..Len(wire) /\ m = Head(wire) /\ m.kind = kind
             /\ m.events \in Seq(Nat) /\ m.n \in Nat
             /\ (resent \/ NewestFirst(m.events))
  <2>1. wire # <<>> /\ Head(wire).kind = kind
    BY <1>m DEF Receive
  <2>2. 1 \in 1..Len(wire) /\ m = Head(wire)
    BY <1>t, <2>1
  <2>3. m.events \in Seq(Nat) /\ m.n \in Nat
    BY <1>t, <2>2, Sizes
  <2> QED BY <1>t, <2>1, <2>2, <2>3 DEF EventsUnderWay
<1>s. ASSUME NEW kind, Receive(kind), ui'.events = ui.events, ui'.alertHistory = ui.alertHistory
      PROVE  PushOrder' /\ ShownOrder' /\ EventsUnderWay' /\ AlertsUnderWay'
  BY <1>s, <1>t, ReceivingKeepsOrder DEF ShownOrder
<1>1. CASE OnConnect
  <2>1. Receive("connect") /\ ui'.events = ui.events /\ ui'.alertHistory = ui.alertHistory
    BY <1>1, <1>t DEF OnConnect, UIType
  <2> QED BY <1>s, <2>1
<1>2. CASE OnSnapshot
  <2>1. /\ Receive("snapshot") /\ ui'.alertHistory = ui.alertHistory
        /\ ui'.events = FirstN(Head(wire).events, MaxFeedEvents)
    BY <1>2, <1>t DEF OnSnapshot, UIType
  <2>2. /\ m.events \in Seq(Nat) /\ (resent \/ NewestFirst(m.events))
        /\ ui'.events = FirstN(m.events, MaxFeedEvents)
    BY <1>m, <2>1
  <2>3. (resent \/ NewestFirst(ui'.events)) /\ \A e : Below(m.events, e) => Below(ui'.events, e)
    BY <1>t, <2>2, FirstNInOrder
  <2> QED BY <1>t, <2>1, <2>3, ReceivingKeepsOrder DEF ShownOrder
<1>3. CASE OnEvent
  <2>1. /\ Receive("event:new") /\ ui'.alertHistory = ui.alertHistory
        /\ ui'.events = FirstN(Head(wire).events \o ui.events, MaxFeedEvents)
    BY <1>3, <1>t DEF OnEvent, UIType
  <2>2. PICK e \in Nat : m.events = <<e>> /\ Below(ui.events, e)
    BY <1>m, <1>t, <2>1 DEF EventsUnderWay
  <2>3. ui'.events = FirstN(<<e>> \o ui.events, MaxFeedEvents)
    BY <1>m, <2>1, <2>2
  <2>4. /\ resent \/ NewestFirst(ui'.events)
        /\ \A b \in Nat : Below(ui.events, b) /\ e < b => Below(ui'.events, b)
    BY <1>t, <2>2, <2>3, Prepended DEF ShownOrder
  <2>5. \A b \in Nat : Below(m.events, b) => e < b
    BY <2>2 DEF Below
  <2>6. \A b \in Nat : Below(ui.events, b) /\ Below(m.events, b) => Below(ui'.events, b)
    BY <2>4, <2>5
  <2> QED BY <1>t, <2>1, <2>4, <2>6, ReceivingKeepsOrder DEF ShownOrder
<1>4. CASE OnMetrics
  <2>1. Receive("metrics:update") /\ ui'.events = ui.events /\ ui'.alertHistory = ui.alertHistory
    BY <1>4, <1>t DEF OnMetrics, UIType
  <2> QED BY <1>s, <2>1
<1>5. CASE OnAlert
  <2>1. /\ Receive("alert:raised") /\ ui'.events = ui.events
        /\ ui'.alertHistory = FirstN(<<Head(wire).n>> \o ui.alertHistory, MaxAlertHistory)
    BY <1>5, <1>t DEF OnAlert, UIType
  <2>2. /\ m.n \in Nat /\ Below(ui.alertHistory, m.n)
        /\ ui'.alertHistory = FirstN(<<m.n>> \o ui.alertHistory, MaxAlertHistory)
    BY <1>m, <1>t, <2>1 DEF AlertsUnderWay
  <2>3. /\ NewestFirst(ui'.alertHistory)
        /\ \A b \in Nat : Below(ui.alertHistory, b) /\ m.n < b => Below(ui'.alertHistory, b)
    BY <1>t, <2>2, Prepended DEF ShownOrder
  <2> QED BY <1>t, <2>1, <2>3, ReceivingKeepsOrder DEF ShownOrder
<1>6. CASE OnAuthError
  <2>1. Receive("auth:error") /\ ui'.events = ui.events /\ ui'.alertHistory = ui.alertHistory
    BY <1>6, <1>t DEF OnAuthError, UIType
  <2> QED BY <1>s, <2>1
<1>7. CASE OnServerDisconnect
  <2>1. Receive("disconnect") /\ ui'.events = ui.events /\ ui'.alertHistory = ui.alertHistory
    BY <1>7, <1>t DEF OnServerDisconnect, UIType
  <2> QED BY <1>s, <2>1
<1> QED BY <1>1, <1>2, <1>3, <1>4, <1>5, <1>6, <1>7 DEF Listeners

\* The transport: what is under way is lost, what is shown stays or is reset.
LEMMA TransportOrder ==
  OrderInv /\ (Lose \/ Retry \/ ConnectError \/ Cleanup)
    => PushOrder' /\ ShownOrder' /\ EventsUnderWay' /\ AlertsUnderWay'
<1> SUFFICES ASSUME OrderInv, Lose \/ Retry \/ ConnectError \/ Cleanup
             PROVE  PushOrder' /\ ShownOrder' /\ EventsUnderWay' /\ AlertsUnderWay'
  OBVIOUS
<1> USE DEF backend, gateway, history
<1>t. PushOrder /\ ShownOrder /\ EventsUnderWay /\ AlertsUnderWay /\ ui \in UIType
  BY TypeParts DEF OrderInv, ClientType
<1>1. UNCHANGED <<arrived, raised, cache, commands, fetched, resent>> /\ wire' \in {wire, <<>>}
  BY DEF Lose, Retry, ConnectError, Cleanup, Unplug
<1>2. \/ ui'.events = ui.events /\ ui'.alertHistory = ui.alertHistory
      \/ ui'.events = <<>> /\ ui'.alertHistory = <<>> /\ wire' = <<>>
  <2>1. CASE Cleanup
    BY <2>1 DEF Cleanup, Unplug, InitialState
  <2>2. CASE Lose
    BY <1>t, <2>2 DEF Lose, UIType
  <2>3. CASE Retry
    BY <1>t, <2>3 DEF Retry, UIType
  <2>4. CASE ConnectError
    BY <1>t, <2>4 DEF ConnectError, UIType
  <2> QED BY <2>1, <2>2, <2>3, <2>4
<1>3. ShownOrder'
  BY <1>t, <1>1, <1>2, Short DEF ShownOrder
<1>4. EventsUnderWay' /\ AlertsUnderWay'
  <2>1. CASE wire' = <<>>
    BY <2>1 DEF EventsUnderWay, AlertsUnderWay
  <2>2. CASE wire' = wire /\ wire' # <<>>
    BY <1>t, <1>1, <1>2, <2>2 DEF EventsUnderWay, AlertsUnderWay
  <2> QED BY <1>1, <2>1, <2>2
<1> QED BY <1>t, <1>1, <1>3, <1>4, PushStays

LEMMA OrderStep == OrderInv /\ [Next]_vars => OrderInv'
<1> SUFFICES ASSUME OrderInv, [Next]_vars
             PROVE  PushOrder' /\ ShownOrder' /\ EventsUnderWay' /\ AlertsUnderWay'
  BY NextType DEF OrderInv
<1>1. CASE UNCHANGED vars
  BY <1>1 DEF vars, backend, gateway, hook, history, OrderInv, PushOrder, ShownOrder, EventsUnderWay,
              AlertsUnderWay
<1> QED BY <1>1, BackendOrder, GatewayOrder, ListenersOrder, TransportOrder DEF Next, RedisCommand

\* The feed and the alert history are newest first and without duplicates, across snapshots
\* that race with pushes, reconnections and failures of Redis; the feed, as long as Redis
\* has executed no push twice.
THEOREM TheFeedIsInOrder == Spec => []FeedInOrder
<1>1. OrderInv => FeedInOrder
  BY DEF OrderInv, ShownOrder, FeedInOrder
<1> QED BY <1>1, OrderInit, OrderStep, PTL DEF Spec

(***************************************************************************)
(* No alert is lacking without a reason.                                   *)
(***************************************************************************)
\* Where an alert can be: shown, pushed out by later ones, on its way, or missed.
Accounted(a) ==
  \/ a \in missed
  \/ \E k \in 1..Len(wire) : wire[k].kind = "alert:raised" /\ wire[k].n = a
  \/ \E i \in 1..Len(ui.alertHistory) : ui.alertHistory[i] = a
  \/ /\ Len(ui.alertHistory) = MaxAlertHistory
     /\ a < ui.alertHistory[MaxAlertHistory]

AlertsInv == SocketInv /\ OrderInv /\ (link # "gone" => \A a \in 1..raised : Accounted(a))

\* x comes to the elements of s; what of them is not in t is older than its last.
MakesRoom(s, x, t, n) ==
  /\ \E i \in 1..Len(t) : t[i] = x
  /\ \A i \in 1..Len(s) : \/ \E j \in 1..Len(t) : t[j] = s[i]
                          \/ Len(t) = n /\ s[i] < t[n]
  /\ Len(s) = n => Len(t) = n /\ s[n] <= t[n]

\* Putting one more in front: the others are still there, or pushed out.
LEMMA PushedOut ==
  ASSUME NEW s \in Seq(Nat), NEW x \in Nat, NEW n \in Nat \ {0}, Len(s) <= n,
         NewestFirst(s), Below(s, x),
         NEW t, t = FirstN(<<x>> \o s, n)
  PROVE  MakesRoom(s, x, t, n)
<1> DEFINE one == <<x>>
           u == one \o s
<1>1. one \in Seq(Nat) /\ Len(one) = 1 /\ one[1] = x
  OBVIOUS
<1> HIDE DEF one
<1>2. /\ u \in Seq(Nat) /\ Len(u) = 1 + Len(s) /\ u[1] = x
      /\ \A i \in 1..Len(s) : u[i + 1] = s[i]
  <2>1. /\ u \in Seq(Nat) /\ Len(u) = Len(one) + Len(s)
        /\ \A i \in 1..(Len(one) + Len(s)) :
             u[i] = IF i <= Len(one) THEN one[i] ELSE s[i - Len(one)]
    BY <1>1, ConcatProperties
  <2> QED BY <1>1, <2>1
<1>3. t = FirstN(u, n)
  BY DEF one
<1> HIDE DEF u
<1> DEFINE k == IF Len(u) > n THEN n ELSE Len(u)
<1>4. k \in Nat /\ k >= 1 /\ k <= Len(u) /\ t = SubSeq(u, 1, k) /\ Len(u) \in Nat /\ Len(s) \in Nat
  BY <1>2, <1>3 DEF FirstN
<1>5. \A i \in 1..k : u[i] \in Nat
  BY <1>2, <1>4
<1>k. (Len(u) > n => k = n) /\ (Len(u) <= n => k = Len(u))
  BY <1>2, <1>4
<1> HIDE DEF k
<1>6. Len(t) = k /\ \A i \in 1..k : t[i] = u[i]
  BY <1>4, <1>5, SubSeqProperties
<1>7. \A i \in 1..Len(s) : s[i] \in Nat
  OBVIOUS
<1>8. \A i \in 1..Len(s) : \/ \E j \in 1..Len(t) : t[j] = s[i]
                           \/ Len(t) = n /\ s[i] < t[n]
  <2> SUFFICES ASSUME NEW i \in 1..Len(s)
               PROVE  (\E j \in 1..Len(t) : t[j] = s[i]) \/ (Len(t) = n /\ s[i] < t[n])
    OBVIOUS
  <2>1. CASE i + 1 <= k
    <3>a. i + 1 \in 1..k
      BY <1>4, <2>1
    <3>1. i + 1 \in 1..Len(t) /\ t[i + 1] = s[i]
      BY <1>2, <1>6, <3>a
    <3> QED BY <3>1
  <2>2. CASE ~ (i + 1 <= k)
    <3>a. Len(u) = 1 + Len(s) /\ i <= Len(s) /\ i \in Nat
      BY <1>2, <1>4
    <3>b. Len(u) > n
      BY <1>4, <1>k, <2>2, <3>a
    <3>1. Len(u) > n /\ k = n /\ i = n /\ Len(s) = n
      BY <1>4, <1>k, <2>2, <3>a, <3>b
    <3>2. CASE n = 1
      <4>1. t[n] = x /\ s[i] < x
        BY <1>2, <1>4, <1>6, <3>1, <3>2 DEF Below
      <4> QED BY <1>6, <3>1, <4>1
    <3>3. CASE n # 1
      <4>1. n - 1 \in 1..Len(s) /\ (n - 1) + 1 = n /\ n - 1 \in 1..(n - 1) /\ n \in DOMAIN s
        BY <3>1, <3>3
      <4>2. t[n] = s[n - 1]
        BY <1>2, <1>4, <1>6, <3>1, <4>1
      <4>3. s[n - 1] > s[n]
        BY <4>1 DEF NewestFirst
      <4> QED BY <1>6, <1>7, <3>1, <4>1, <4>2, <4>3
    <3> QED BY <3>2, <3>3
  <2> QED BY <2>1, <2>2
<1>9. \E i \in 1..Len(t) : t[i] = x
  <2>1. 1 \in 1..Len(t) /\ t[1] = x
    BY <1>2, <1>4, <1>6
  <2> QED BY <2>1
<1>10. ASSUME Len(s) = n PROVE Len(t) = n /\ s[n] <= t[n]
  <2>1. k = n /\ n \in 1..Len(s)
    BY <1>2, <1>4, <1>k, <1>10
  <2>2. CASE n = 1
    <3>1. t[n] = x /\ s[n] < x
      BY <1>2, <1>4, <1>6, <2>1, <2>2 DEF Below
    <3> QED BY <1>6, <1>7, <2>1, <3>1
  <2>3. CASE n # 1
    <3>1. n - 1 \in 1..Len(s) /\ (n - 1) + 1 = n /\ n - 1 \in 1..(n - 1) /\ n \in DOMAIN s
      BY <2>1, <2>3
    <3>a. n \in 1..k
      BY <1>4, <2>1
    <3>b. t[n] = u[n]
      BY <1>6, <3>a
    <3>2. t[n] = s[n - 1]
      BY <1>2, <3>1, <3>b
    <3>3. s[n - 1] > s[n]
      BY <3>1 DEF NewestFirst
    <3> QED BY <1>6, <1>7, <2>1, <3>1, <3>2, <3>3
  <2> QED BY <2>2, <2>3
<1> QED BY <1>8, <1>9, <1>10 DEF MakesRoom

\* An alert stays accounted for when the history is the same and what was on its way
\* still is, or is missed.
LEMMA StaysAccounted ==
  ASSUME NEW a, Accounted(a), missed \subseteq missed', ui'.alertHistory = ui.alertHistory,
         \A k \in 1..Len(wire) : wire[k].kind = "alert:raised" =>
           wire[k].n \in missed' \/ \E j \in 1..Len(wire') : wire'[j] = wire[k]
  PROVE  Accounted(a)'
<1>1. CASE \E k \in 1..Len(wire) : wire[k].kind = "alert:raised" /\ wire[k].n = a
  <2>1. PICK k \in 1..Len(wire) : wire[k].kind = "alert:raised" /\ wire[k].n = a
    BY <1>1
  <2>2. CASE a \in missed'
    BY <2>2 DEF Accounted
  <2>3. CASE \E j \in 1..Len(wire') : wire'[j] = wire[k]
    BY <2>1, <2>3 DEF Accounted
  <2> QED BY <2>1, <2>2, <2>3
<1>2. CASE ~ \E k \in 1..Len(wire) : wire[k].kind = "alert:raised" /\ wire[k].n = a
  BY <1>2 DEF Accounted
<1> QED BY <1>1, <1>2

\* Sending does not take from what is on its way.
LEMMA SendingAccounts ==
  ASSUME wire \in Seq(Msgs), NEW msgs \in Seq(Msgs), wire' = wire \o msgs \/ wire' = wire,
         missed \subseteq missed', UNCHANGED ui, NEW a, Accounted(a)
  PROVE  Accounted(a)'
<1>1. \A k \in 1..Len(wire) : k \in 1..Len(wire') /\ wire'[k] = wire[k]
  <2>1. CASE wire' = wire \o msgs
    <3>1. /\ Len(wire') = Len(wire) + Len(msgs) /\ Len(wire) \in Nat /\ Len(msgs) \in Nat
          /\ \A k \in 1..(Len(wire) + Len(msgs)) :
               wire'[k] = IF k <= Len(wire) THEN wire[k] ELSE msgs[k - Len(wire)]
      BY <2>1, ConcatProperties
    <3> QED BY <3>1
  <2>2. CASE wire' = wire
    BY <2>2
  <2> QED BY <2>1, <2>2
<1> QED BY <1>1, StaysAccounted

\* Steps of the backend and of the gateway.
LEMMA ServerAccounts ==
  ASSUME AlertsInv, link' # "gone",
         \/ Arrive \/ RedisCommand \/ Tick \/ TickAlerting
         \/ Open \/ Accept \/ Reject \/ SendSnapshot \/ Expire
  PROVE  \A a \in 1..raised' : Accounted(a)'
<1> USE DEF backend, gateway, socket, hook, history
<1>t. /\ TypeOK /\ ServerType /\ wire \in Seq(Msgs) /\ SocketOK
      /\ arrived \in Nat /\ raised \in Nat /\ Len(wire) \in Nat
  BY TypeParts, Sizes DEF AlertsInv, SocketInv, OrderInv
<1>l. link # "gone"
  BY DEF Arrive, RedisCommand, RedisExec, RedisError, RedisResend, Tick, TickAlerting, Open, Accept, Reject, SendSnapshot,
         Expire
<1>a. \A a \in 1..raised : Accounted(a)
  BY <1>l DEF AlertsInv
<1>s. ASSUME NEW msgs \in Seq(Msgs), wire' = wire \o msgs \/ wire' = wire,
             UNCHANGED <<ui, raised, missed>>
      PROVE  \A a \in 1..raised' : Accounted(a)'
  BY <1>a, <1>s, <1>t, SendingAccounts
<1>e. <<>> \in Seq(Msgs)
  OBVIOUS
<1>1. CASE Arrive
  <2>1. arrived + 1 \in Nat /\ arrived' = arrived + 1
    BY <1>1, <1>t DEF Arrive
  <2>2. <<Msg("event:new", <<arrived'>>, 0, <<>>)>> \in Seq(Msgs)
    BY <1>t, <2>1, MessageTypes DEF ServerType
  <2> QED BY <1>1, <1>s, <2>2 DEF Arrive, ToRoom
<1>2. CASE RedisCommand \/ Accept \/ Expire
  <2>1. wire' = wire /\ UNCHANGED <<ui, raised, missed>>
    BY <1>2 DEF RedisCommand, RedisExec, RedisError, RedisResend, Accept, Expire
  <2> QED BY <1>s, <1>e, <2>1
<1>3. CASE Tick
  <2>1. <<Update>> \in Seq(Msgs)
    BY <1>t, MessageTypes DEF ServerType
  <2> QED BY <1>3, <1>s, <2>1 DEF Tick, ToRoom
<1>4. CASE TickAlerting
  <2> DEFINE alert == Msg("alert:raised", <<>>, raised', <<>>)
             msgs == <<Update, alert>>
  <2>1. /\ raised' = raised + 1 /\ UNCHANGED ui /\ ToRoom(msgs)
        /\ missed' = IF InRoom THEN missed ELSE missed \cup {raised'}
    BY <1>4 DEF TickAlerting
  <2>2. raised' \in Nat
    BY <1>t, <2>1
  <2>3. msgs \in Seq(Msgs) /\ Len(msgs) = 2 /\ msgs[2].kind = "alert:raised" /\ msgs[2].n = raised'
    BY <1>t, <2>2, MessageTypes, MessageFields DEF ServerType
  <2> HIDE DEF msgs
  <2>4. wire' = wire \o msgs \/ wire' = wire
    BY <2>1 DEF ToRoom
  <2>5. \A a \in 1..raised : Accounted(a)'
    BY <1>a, <1>t, <2>1, <2>3, <2>4, SendingAccounts
  <2>6. ASSUME NEW a, a = raised + 1 PROVE Accounted(a)'
    <3>1. CASE InRoom
      <4>1. wire' = wire \o msgs
        BY <2>1, <3>1 DEF ToRoom
      <4>2. /\ Len(wire') = Len(wire) + Len(msgs)
            /\ \A k \in 1..(Len(wire) + Len(msgs)) :
                 wire'[k] = IF k <= Len(wire) THEN wire[k] ELSE msgs[k - Len(wire)]
        BY <1>t, <2>3, <4>1, ConcatProperties
      <4>3. Len(wire) + 2 \in 1..Len(wire') /\ wire'[Len(wire) + 2] = msgs[2]
        BY <1>t, <2>3, <4>2
      <4> QED BY <2>1, <2>3, <2>6, <4>3 DEF Accounted
    <3>2. CASE ~ InRoom
      BY <2>1, <2>6, <3>2 DEF Accounted
    <3> QED BY <3>1, <3>2
  <2>7. \A a \in 1..raised' : a \in 1..raised \/ a = raised + 1
    BY <1>t, <2>1
  <2> QED BY <2>5, <2>6, <2>7
<1>5. CASE Open
  <2>1. link = "opening" /\ UNCHANGED <<ui, raised, missed>>
    BY <1>5 DEF Open
  <2>2. 1..Len(wire) = {}
    BY <1>t, <2>1 DEF SocketOK
  <2> QED BY <1>a, <2>1, <2>2, StaysAccounted
<1>6. CASE Reject
  BY <1>6, <1>s, <1>t, NoteMessages DEF Reject
<1>7. CASE SendSnapshot
  <2>1. PICK seed \in Seeds : wire' = Append(wire, Msg("snapshot", fetched, atJoin, seed))
    BY <1>7 DEF SendSnapshot
  <2>2. Msg("snapshot", fetched, atJoin, seed) \in Msgs
    BY <1>t, <2>1, MessageTypes DEF ServerType
  <2>3. wire' = wire \o <<Msg("snapshot", fetched, atJoin, seed)>>
          /\ <<Msg("snapshot", fetched, atJoin, seed)>> \in Seq(Msgs)
    BY <1>t, <2>1, <2>2, AppendIsConcat
  <2> QED BY <1>7, <1>s, <2>3 DEF SendSnapshot
<1> QED BY <1>1, <1>2, <1>3, <1>4, <1>5, <1>6, <1>7

\* Receiving: an alert goes from the wire to the history, and may push out the last one.
LEMMA ListenersAccount ==
  ASSUME AlertsInv, Listeners
  PROVE  \A a \in 1..raised' : Accounted(a)'
<1> USE DEF backend, gateway, history
<1>t. /\ TypeOK /\ wire \in Seq(Msgs) /\ SocketOK /\ ShownOrder /\ AlertsUnderWay
      /\ ui \in UIType /\ ui.alertHistory \in Seq(Nat)
      /\ Len(ui.alertHistory) <= MaxAlertHistory /\ MaxAlertHistory \in Nat \ {0}
      /\ \A k \in 1..Len(wire) : wire[k].n \in Nat
  BY TypeParts, Sizes, SizesAssumption DEF AlertsInv, SocketInv, OrderInv, ClientType
<1>1. PICK kind : Receive(kind)
  BY DEF Listeners, OnConnect, OnSnapshot, OnEvent, OnMetrics, OnAlert, OnAuthError,
         OnServerDisconnect
<1>2. /\ wire # <<>> /\ Head(wire).kind = kind /\ wire' = Tail(wire)
      /\ UNCHANGED <<raised, missed>>
  BY <1>1 DEF Receive
<1>3. /\ Len(wire) \in Nat /\ 1 \in 1..Len(wire) /\ Len(wire') = Len(wire) - 1
      /\ Head(wire) = wire[1]
      /\ \A k \in 1..Len(wire') : wire'[k] = wire[k + 1]
  BY <1>t, <1>2, HeadTailProperties
<1>a. \A a \in 1..raised : Accounted(a)
  BY <1>t, <1>2 DEF AlertsInv, SocketOK
<1>k. ASSUME NEW k \in 1..Len(wire), k # 1
      PROVE  k - 1 \in 1..Len(wire') /\ wire'[k - 1] = wire[k]
  <2>1. k - 1 \in 1..Len(wire') /\ (k - 1) + 1 = k
    BY <1>3, <1>k
  <2> QED BY <1>3, <2>1
<1>4. CASE ~ OnAlert
  <2>1. kind # "alert:raised" /\ ui'.alertHistory = ui.alertHistory
    BY <1>1, <1>4, <1>t DEF Listeners, OnConnect, OnSnapshot, OnEvent, OnMetrics, OnAuthError,
                            OnServerDisconnect, Receive, UIType
  <2>2. \A k \in 1..Len(wire) : wire[k].kind = "alert:raised" =>
          \E j \in 1..Len(wire') : wire'[j] = wire[k]
    BY <1>2, <1>3, <1>k, <2>1
  <2> QED BY <1>2, <1>a, <2>1, <2>2, StaysAccounted
<1>5. CASE OnAlert
  <2> DEFINE s == ui.alertHistory
             n == MaxAlertHistory
             x == wire[1].n
             t == ui'.alertHistory
  <2>1. Receive("alert:raised") /\ t = FirstN(<<Head(wire).n>> \o s, n)
    BY <1>5, <1>t DEF OnAlert, UIType
  <2>2. wire[1].kind = "alert:raised" /\ x \in Nat /\ t = FirstN(<<x>> \o s, n)
    BY <1>3, <1>t, <2>1 DEF Receive
  <2>3. s \in Seq(Nat) /\ Len(s) <= n /\ NewestFirst(s) /\ Below(s, x) /\ n \in Nat \ {0}
    BY <1>3, <1>t, <2>2 DEF ShownOrder, AlertsUnderWay
  <2>4. /\ \E i \in 1..Len(t) : t[i] = x
        /\ \A i \in 1..Len(s) : \/ \E j \in 1..Len(t) : t[j] = s[i]
                                \/ Len(t) = n /\ s[i] < t[n]
        /\ Len(s) = n => Len(t) = n /\ s[n] <= t[n]
    <3>1. t = FirstN(<<x>> \o s, n) /\ x \in Nat
      BY <2>2
    <3> HIDE DEF s, n, x, t
    <3>2. MakesRoom(s, x, t, n)
      BY <2>3, <3>1, PushedOut
    <3> QED BY <3>2 DEF MakesRoom
  <2>5. ui'.alertHistory \in Seq(Nat) /\ Len(ui'.alertHistory) \in Nat
          /\ (Len(s) = n => n \in 1..Len(s)) /\ (Len(t) = n => n \in 1..Len(t))
    <3>1. TypeOK' /\ n >= 1
      BY NextType, <1>t DEF Next
    <3>2. ui'.alertHistory \in Seq(Nat)
      BY <3>1 DEF TypeOK, UIType
    <3> QED BY <3>1, <3>2
  <2> SUFFICES ASSUME NEW a \in 1..raised PROVE Accounted(a)'
    BY <1>2
  <2>6. CASE a \in missed
    BY <1>2, <2>6 DEF Accounted
  <2>7. CASE \E k \in 1..Len(wire) : wire[k].kind = "alert:raised" /\ wire[k].n = a
    <3>1. PICK k \in 1..Len(wire) : wire[k].kind = "alert:raised" /\ wire[k].n = a
      BY <2>7
    <3>2. CASE k = 1
      BY <2>4, <3>1, <3>2 DEF Accounted
    <3>3. CASE k # 1
      BY <1>k, <3>1, <3>3 DEF Accounted
    <3> QED BY <3>2, <3>3
  <2>8. CASE \E i \in 1..Len(s) : s[i] = a
    <3>1. (\E j \in 1..Len(t) : t[j] = a) \/ (Len(t) = n /\ a < t[n])
      BY <2>4, <2>8
    <3> QED BY <3>1 DEF Accounted
  <2>9. CASE Len(s) = n /\ a < s[n]
    <3>1. s[n] \in Nat /\ t[n] \in Nat /\ a \in Nat
      BY <2>3, <2>4, <2>5, <2>9
    <3>2. Len(t) = n /\ a < t[n]
      BY <2>4, <2>9, <3>1
    <3> QED BY <3>2 DEF Accounted
  <2> QED BY <1>a, <2>6, <2>7, <2>8, <2>9 DEF Accounted
<1> QED BY <1>4, <1>5

\* The transport: what is lost with it is missed.
LEMMA TransportAccounts ==
  ASSUME AlertsInv, link' # "gone", Lose \/ Retry \/ ConnectError \/ Cleanup
  PROVE  \A a \in 1..raised' : Accounted(a)'
<1> USE DEF backend, gateway, history
<1>t. ui \in UIType
  BY TypeParts DEF AlertsInv, OrderInv, ClientType
<1>1. UNCHANGED raised /\ ui'.alertHistory = ui.alertHistory /\ link # "gone"
        /\ (\/ missed' = missed \cup Lost
            \/ missed' = missed /\ wire' = wire)
  BY <1>t DEF Lose, Retry, ConnectError, Cleanup, Unplug, UIType
<1>2. \A k \in 1..Len(wire) : wire[k].kind = "alert:raised" => wire[k].n \in Lost
  BY TypeParts DEF Lost, AlertsInv, OrderInv, ServerType
<1>a. \A a \in 1..raised : Accounted(a)
  BY <1>1 DEF AlertsInv
<1> QED BY <1>1, <1>2, <1>a, StaysAccounted

LEMMA AlertsStep == AlertsInv /\ [Next]_vars => AlertsInv'
<1> SUFFICES ASSUME AlertsInv, [Next]_vars PROVE AlertsInv'
  OBVIOUS
<1>1. SocketInv' /\ OrderInv'
  BY SocketNext, OrderStep DEF AlertsInv
<1>2. ASSUME link' # "gone" PROVE \A a \in 1..raised' : Accounted(a)'
  <2>1. CASE UNCHANGED vars
    BY <1>2, <2>1 DEF vars, backend, socket, hook, history, AlertsInv, Accounted
  <2> QED BY <1>2, <2>1, ServerAccounts, ListenersAccount, TransportAccounts DEF Next, RedisCommand
<1> QED BY <1>1, <1>2 DEF AlertsInv

\* What the alert history of a connected dashboard lacks was raised while it was not
\* connected, was lost with its connection, or has made room for later alerts.
THEOREM OnlyMissedAlertsAreLacking == Spec => []OnlyMissedAlertsLacking
<1>1. Init => AlertsInv
  <2>1. Init => \A a \in 1..raised : Accounted(a)
    BY DEF Init
  <2> QED BY <2>1, InitType, OrderInit, SocketInit DEF AlertsInv, SocketInv
<1>2. AlertsInv => OnlyMissedAlertsLacking
  <2> SUFFICES ASSUME AlertsInv, Quiet, NEW a \in 1..raised \ (ToSet(ui.alertHistory) \cup missed)
               PROVE  Len(ui.alertHistory) = MaxAlertHistory /\ a < Last(ui.alertHistory)
    BY DEF OnlyMissedAlertsLacking
  <2>1. link # "gone" /\ wire = <<>>
    BY DEF Quiet, AlertsInv, SocketInv, SocketOK
  <2>2. Accounted(a)
    BY <2>1 DEF AlertsInv
  <2>3. ui.alertHistory \in Seq(Nat)
    BY Sizes DEF AlertsInv, OrderInv
  <2>4. ~ \E i \in 1..Len(ui.alertHistory) : ui.alertHistory[i] = a
    BY <2>3 DEF ToSet
  <2> QED BY <2>1, <2>2, <2>4 DEF Accounted, Last
<1> QED BY <1>1, <1>2, AlertsStep, PTL DEF Spec

(***************************************************************************)
(* Charts and cards.                                                       *)
(***************************************************************************)
UpTo(s, n) == \A i \in 1..Len(s) : s[i][2] <= n
InTime(s) == \A k \in 1..Len(s) : \A j \in 1..k : s[j][2] <= s[k][2]

\* The chart is in the order of time and ends, with a tick, at the cards' metrics.
ChartShown ==
  /\ InTime(ui.series) /\ UpTo(ui.series, arrived)
  /\ ui.series # <<>> /\ Last(ui.series)[1] = "tick" => Last(ui.series)[2] = ui.metrics

\* A tick that is on its way is not older than the chart nor than what was sent before;
\* a snapshot has one bucket, or none.
PointsUnderWay ==
  \A k \in 1..Len(wire) :
    /\ UpTo(wire[k].points, arrived)
    /\ wire[k].kind = "metrics:update" =>
         /\ wire[k].points = << <<"tick", wire[k].n>> >>
         /\ UpTo(ui.series, wire[k].n)
         /\ \A j \in 1..(k - 1) : UpTo(wire[j].points, wire[k].n)
    /\ wire[k].kind = "snapshot" =>
         wire[k].points = <<>> \/ \E n \in Nat : wire[k].points = << <<"bucket", n>> >>

ChartsInv == TypeOK /\ ChartShown /\ PointsUnderWay

\* The types the proof needs.
LEMMA ChartTypes ==
  ASSUME TypeOK
  PROVE  /\ arrived \in Nat /\ raised \in Nat /\ atJoin \in Nat /\ fetched \in Seq(Nat)
         /\ wire \in Seq(Msgs) /\ Len(wire) \in Nat
         /\ ui \in UIType /\ ui.series \in Seq(Points) /\ MaxSeriesPoints \in Nat \ {0}
         /\ \A k \in 1..Len(wire) : wire[k].points \in Seq(Points) /\ wire[k].n \in Nat
<1>1. wire \in Seq(Msgs) /\ ui \in UIType
  BY TypeParts DEF ServerType, ClientType
<1>2. \A m \in Msgs : m.points \in Seq(Points) /\ m.n \in Nat
  BY DEF Msgs
<1>3. \A k \in 1..Len(wire) : wire[k] \in Msgs
  BY <1>1
<1>4. ui.series \in Seq(Points)
  BY <1>1 DEF UIType
<1>5. arrived \in Nat /\ raised \in Nat /\ atJoin \in Nat /\ fetched \in Seq(Nat)
  BY TypeParts DEF ServerType
<1> QED BY <1>1, <1>2, <1>3, <1>4, <1>5, SizesAssumption

\* A bound may be raised.
LEMMA UpToMore ==
  ASSUME NEW s \in Seq(Points), NEW a \in Nat, NEW b \in Nat, a <= b, UpTo(s, a)
  PROVE  UpTo(s, b)
<1> SUFFICES ASSUME NEW i \in 1..Len(s) PROVE s[i][2] <= b
  BY DEF UpTo
<1>1. s[i] \in Points
  OBVIOUS
<1>2. s[i][2] \in Nat
  BY <1>1 DEF Points
<1>3. s[i][2] <= a
  BY DEF UpTo
<1> QED BY <1>2, <1>3

\* t is the end of s with a point p behind it.
Extends(s, p, t) ==
  /\ t # <<>> /\ Last(t) = p /\ InTime(t)
  /\ \A b \in Nat : p[2] <= b => UpTo(t, b)

\* A point that is not older than the others is put at the end.
LEMMA PutAtTheEnd ==
  ASSUME NEW s \in Seq(Points), NEW p \in Points, NEW n \in Nat \ {0},
         InTime(s), UpTo(s, p[2]), NEW t, t = LastN(s \o <<p>>, n)
  PROVE  Extends(s, p, t)
<1> DEFINE one == <<p>>
           u == s \o one
<1>1. one \in Seq(Points) /\ Len(one) = 1 /\ one[1] = p
  OBVIOUS
<1> HIDE DEF one
<1>2. /\ u \in Seq(Points) /\ Len(u) = Len(s) + 1 /\ u[Len(u)] = p
      /\ \A i \in 1..Len(s) : u[i] = s[i]
  <2>1. /\ u \in Seq(Points) /\ Len(u) = Len(s) + Len(one)
        /\ \A i \in 1..(Len(s) + Len(one)) :
             u[i] = IF i <= Len(s) THEN s[i] ELSE one[i - Len(s)]
    BY <1>1, ConcatProperties
  <2> QED BY <1>1, <2>1
<1>3. t = LastN(u, n)
  BY DEF one
<1> HIDE DEF u
<1>p. p[2] \in Nat /\ \A i \in 1..Len(s) : s[i][2] \in Nat
  <2>1. \A q \in Points : q[2] \in Nat
    BY DEF Points
  <2> QED BY <2>1
<1>4. InTime(u) /\ UpTo(u, p[2])
  <2>1. \A k \in 1..Len(u) : u[k][2] <= p[2]
    <3> SUFFICES ASSUME NEW k \in 1..Len(u) PROVE u[k][2] <= p[2]
      OBVIOUS
    <3>1. CASE k = Len(u)
      BY <1>2, <1>p, <3>1
    <3>2. CASE k # Len(u)
      <4>1. k \in 1..Len(s)
        BY <1>2, <3>2
      <4> QED BY <1>2, <4>1 DEF UpTo
    <3> QED BY <3>1, <3>2
  <2>2. ASSUME NEW k \in 1..Len(u), NEW j \in 1..k PROVE u[j][2] <= u[k][2]
    <3>1. CASE k = Len(u)
      <4>1. j \in 1..Len(u)
        BY <1>2, <3>1
      <4> QED BY <1>2, <2>1, <3>1, <4>1
    <3>2. CASE k # Len(u)
      <4>1. k \in 1..Len(s) /\ j \in 1..Len(s)
        BY <1>2, <3>2
      <4> QED BY <1>2, <4>1 DEF InTime
    <3> QED BY <3>1, <3>2
  <2> QED BY <2>1, <2>2 DEF InTime, UpTo
<1> DEFINE k == IF Len(u) > n THEN Len(u) - n + 1 ELSE 1
           len == Len(u) - k + 1
<1>5. k \in Nat /\ 1 <= k /\ k <= Len(u) /\ t = SubSeq(u, k, Len(u)) /\ len \in Nat /\ 1 <= len
  BY <1>2, <1>3 DEF LastN
<1>6. \A i \in k..Len(u) : u[i] \in Points
  BY <1>2, <1>5
<1>7. Len(u) \in Nat /\ len = Len(u) - k + 1
  BY <1>2
<1> HIDE DEF k, len
<1>8. t \in Seq(Points) /\ Len(t) = len /\ \A i \in 1..len : t[i] = u[k + i - 1]
  <2>1. /\ SubSeq(u, k, Len(u)) \in Seq(Points)
        /\ Len(SubSeq(u, k, Len(u))) = IF k <= Len(u) THEN Len(u) - k + 1 ELSE 0
        /\ \A i \in 1..(Len(u) - k + 1) : SubSeq(u, k, Len(u))[i] = u[k + i - 1]
    BY <1>5, <1>6, <1>7, SubSeqProperties
  <2> QED BY <1>5, <1>7, <2>1
<1>9. \A i \in 1..len : k + i - 1 \in 1..Len(u)
  BY <1>5, <1>7
<1>10. InTime(t)
  <2> SUFFICES ASSUME NEW a \in 1..Len(t), NEW b \in 1..a PROVE t[b][2] <= t[a][2]
    BY DEF InTime
  <2>1. a \in 1..len /\ b \in 1..len /\ k + b - 1 \in 1..(k + a - 1)
    BY <1>5, <1>8
  <2> QED BY <1>4, <1>8, <1>9, <2>1 DEF InTime
<1>11. t # <<>> /\ Last(t) = p
  <2>1. len \in 1..len /\ k + len - 1 = Len(u)
    BY <1>5, <1>7
  <2>2. t[len] = p
    BY <1>2, <1>8, <2>1
  <2> QED BY <1>5, <1>8, <2>2 DEF Last
<1>12. \A b \in Nat : p[2] <= b => UpTo(t, b)
  <2> SUFFICES ASSUME NEW b \in Nat, p[2] <= b PROVE UpTo(t, b)
    OBVIOUS
  <2>1. UpTo(t, p[2])
    BY <1>4, <1>8, <1>9 DEF UpTo
  <2> QED BY <1>8, <1>p, <2>1, UpToMore
<1> QED BY <1>10, <1>11, <1>12 DEF Extends

\* A snapshot has at most one point, which LastN keeps.
LEMMA SeedStays ==
  ASSUME NEW n \in Nat \ {0}
  PROVE  /\ LastN(<<>>, n) = <<>>
         /\ \A p : LastN(<<p>>, n) = <<p>>
<1>1. LastN(<<>>, n) = SubSeq(<<>>, 1, 0)
  BY DEF LastN
<1>2. ASSUME NEW p PROVE LastN(<<p>>, n) = SubSeq(<<p>>, 1, 1)
  <2>1. Len(<<p>>) = 1 /\ ~ (1 > n)
    OBVIOUS
  <2> QED BY <2>1 DEF LastN
<1> QED BY <1>1, <1>2

\* What is sent: points up to now; a tick is alone, or first, and of now.
Charted(msgs) ==
  \A i \in 1..Len(msgs) :
    /\ UpTo(msgs[i].points, arrived)
    /\ msgs[i].kind = "metrics:update" =>
         i = 1 /\ msgs[i].n = arrived /\ msgs[i].points = << <<"tick", arrived>> >>
    /\ msgs[i].kind = "snapshot" =>
         msgs[i].points = <<>> \/ \E n \in Nat : msgs[i].points = << <<"bucket", n>> >>

LEMMA SendingKeepsCharts ==
  ASSUME ChartsInv, NEW msgs \in Seq(Msgs), Charted(msgs), wire' = wire \o msgs \/ wire' = wire,
         arrived' \in Nat, arrived <= arrived', UNCHANGED ui
  PROVE  ChartShown' /\ PointsUnderWay'
<1>t. /\ TypeOK /\ arrived \in Nat /\ wire \in Seq(Msgs) /\ Len(wire) \in Nat
      /\ ui.series \in Seq(Points) /\ \A k \in 1..Len(wire) : wire[k].points \in Seq(Points)
      /\ Len(msgs) \in Nat /\ ChartShown /\ PointsUnderWay
  BY ChartTypes DEF ChartsInv
<1>m. ASSUME NEW i \in 1..Len(msgs) PROVE msgs[i].points \in Seq(Points)
  <2>1. msgs[i] \in Msgs
    OBVIOUS
  <2> QED BY <2>1 DEF Msgs
<1>1. ChartShown'
  <2>1. UpTo(ui.series, arrived')
    BY <1>t, UpToMore DEF ChartShown
  <2> QED BY <1>t, <2>1 DEF ChartShown
<1>2. ASSUME NEW k \in 1..Len(wire)
      PROVE  /\ UpTo(wire[k].points, arrived')
             /\ wire[k].kind = "metrics:update" =>
                  /\ wire[k].points = << <<"tick", wire[k].n>> >>
                  /\ UpTo(ui.series, wire[k].n)
                  /\ \A j \in 1..(k - 1) : UpTo(wire[j].points, wire[k].n)
             /\ wire[k].kind = "snapshot" =>
                  wire[k].points = <<>> \/ \E n \in Nat : wire[k].points = << <<"bucket", n>> >>
  <2>1. UpTo(wire[k].points, arrived)
    BY <1>t DEF PointsUnderWay
  <2>2. UpTo(wire[k].points, arrived')
    BY <1>t, <2>1, UpToMore
  <2> QED BY <1>t, <2>2 DEF PointsUnderWay
<1>3. CASE wire' = wire
  BY <1>1, <1>2, <1>3 DEF PointsUnderWay
<1>4. CASE wire' = wire \o msgs
  <2>1. /\ Len(wire') = Len(wire) + Len(msgs)
        /\ \A k \in 1..(Len(wire) + Len(msgs)) :
             wire'[k] = IF k <= Len(wire) THEN wire[k] ELSE msgs[k - Len(wire)]
    BY <1>t, <1>4, ConcatProperties
  <2> SUFFICES ASSUME NEW k \in 1..Len(wire')
               PROVE  /\ UpTo(wire'[k].points, arrived')
                      /\ wire'[k].kind = "metrics:update" =>
                           /\ wire'[k].points = << <<"tick", wire'[k].n>> >>
                           /\ UpTo(ui.series, wire'[k].n)
                           /\ \A j \in 1..(k - 1) : UpTo(wire'[j].points, wire'[k].n)
                      /\ wire'[k].kind = "snapshot" =>
                           \/ wire'[k].points = <<>>
                           \/ \E n \in Nat : wire'[k].points = << <<"bucket", n>> >>
    BY <1>1 DEF PointsUnderWay
  <2>2. CASE k <= Len(wire)
    <3>1. k \in 1..Len(wire) /\ wire'[k] = wire[k] /\ \A j \in 1..(k - 1) : wire'[j] = wire[j]
      BY <1>t, <2>1, <2>2
    <3> QED BY <1>2, <3>1
  <2>3. CASE ~ (k <= Len(wire))
    <3> DEFINE i == k - Len(wire)
    <3>1. i \in 1..Len(msgs) /\ wire'[k] = msgs[i]
      BY <1>t, <2>1, <2>3
    <3>2. /\ UpTo(msgs[i].points, arrived)
          /\ msgs[i].kind = "metrics:update" =>
               i = 1 /\ msgs[i].n = arrived /\ msgs[i].points = << <<"tick", arrived>> >>
          /\ msgs[i].kind = "snapshot" =>
               msgs[i].points = <<>> \/ \E n \in Nat : msgs[i].points = << <<"bucket", n>> >>
      BY <3>1 DEF Charted
    <3>3. UpTo(msgs[i].points, arrived')
      BY <1>t, <1>m, <3>1, <3>2, UpToMore
    <3>4. ASSUME i = 1, NEW j \in 1..(k - 1) PROVE UpTo(wire'[j].points, arrived)
      <4>1. k = Len(wire) + 1
        BY <1>t, <3>4
      <4>2. j \in 1..Len(wire) /\ wire'[j] = wire[j]
        BY <1>t, <2>1, <4>1
      <4> QED BY <1>t, <4>2 DEF PointsUnderWay
    <3> HIDE DEF i
    <3> QED BY <1>t, <3>1, <3>2, <3>3, <3>4 DEF ChartShown
  <2> QED BY <2>2, <2>3
<1> QED BY <1>3, <1>4

\* The points of the messages of the gateway.
LEMMA MessagePoints ==
  ASSUME arrived \in Nat
  PROVE  /\ Note("connect").points = <<>>
         /\ \A i \in 1..Len(Rejection) : Rejection[i].points = <<>>
                /\ Rejection[i].kind \notin {"metrics:update", "snapshot"}
         /\ Update.points = << <<"tick", arrived>> >> /\ Update.n = arrived
         /\ \A s, n, p : Msg("snapshot", s, n, p).points = p
         /\ \A e, a : /\ Msg("event:new", <<e>>, 0, <<>>).points = <<>>
                      /\ Msg("alert:raised", <<>>, a, <<>>).points = <<>>
  BY DEF Note, Msg, Update, TickPoint, Rejection

\* The steps of the server.
LEMMA ServerCharts ==
  ASSUME ChartsInv,
         \/ Arrive \/ RedisCommand \/ Tick \/ TickAlerting
         \/ Open \/ Accept \/ Reject \/ SendSnapshot \/ Expire
  PROVE  ChartShown' /\ PointsUnderWay'
<1> USE DEF backend, gateway, socket, hook, history
<1>t. /\ TypeOK /\ ServerType /\ arrived \in Nat /\ raised \in Nat /\ wire \in Seq(Msgs)
      /\ Len(wire) \in Nat /\ ChartShown /\ PointsUnderWay
  BY TypeParts, ChartTypes DEF ChartsInv
<1>p. /\ \A s : s = <<>> => UpTo(s, arrived)
      /\ \A kind : UpTo(<< <<kind, arrived>> >>, arrived)
      /\ \A n : n <= arrived => \A kind : UpTo(<< <<kind, n>> >>, arrived)
  BY <1>t DEF UpTo
<1>s. ASSUME NEW msgs \in Seq(Msgs), Charted(msgs), wire' = wire \o msgs \/ wire' = wire,
             arrived' = arrived \/ arrived' = arrived + 1, UNCHANGED ui
      PROVE  ChartShown' /\ PointsUnderWay'
  <2>1. arrived' \in Nat /\ arrived <= arrived'
    BY <1>s, <1>t
  <2> QED BY <1>s, <2>1, SendingKeepsCharts
<1>1. CASE Arrive
  <2> DEFINE e == Msg("event:new", <<arrived'>>, 0, <<>>)
             msgs == <<e>>
  <2>1. /\ arrived' = arrived + 1 /\ UNCHANGED ui /\ ToRoom(msgs)
    BY <1>1 DEF Arrive
  <2>2. arrived' \in Nat
    BY <1>t, <2>1
  <2>3. e \in Msgs /\ e.kind = "event:new" /\ e.points = <<>>
    BY <1>t, <2>2, MessageTypes, MessageFields, MessagePoints DEF ServerType
  <2> HIDE DEF e
  <2>4. msgs \in Seq(Msgs) /\ Charted(msgs)
    BY <1>p, <2>3 DEF Charted
  <2> HIDE DEF msgs
  <2> QED BY <1>s, <2>1, <2>4 DEF ToRoom
<1>2. CASE RedisCommand \/ Accept \/ Expire
  BY <1>2, <1>t DEF RedisCommand, RedisExec, RedisError, RedisResend, Accept, Expire,
                    ChartShown, PointsUnderWay
<1>3. CASE Tick
  <2> DEFINE msgs == <<Update>>
  <2>1. UNCHANGED <<ui, arrived>> /\ ToRoom(msgs)
    BY <1>3 DEF Tick
  <2>2. Update \in Msgs /\ Update.kind = "metrics:update" /\ Update.n = arrived
          /\ Update.points = << <<"tick", arrived>> >>
    BY <1>t, MessageTypes, MessageFields, MessagePoints DEF ServerType
  <2>3. msgs \in Seq(Msgs) /\ Charted(msgs)
    BY <1>p, <2>2 DEF Charted
  <2> HIDE DEF msgs
  <2> QED BY <1>s, <2>1, <2>3 DEF ToRoom
<1>4. CASE TickAlerting
  <2> DEFINE alert == Msg("alert:raised", <<>>, raised', <<>>)
             msgs == <<Update, alert>>
  <2>1. UNCHANGED <<ui, arrived>> /\ ToRoom(msgs) /\ raised' = raised + 1
    BY <1>4 DEF TickAlerting
  <2>2. Update \in Msgs /\ Update.kind = "metrics:update" /\ Update.n = arrived
          /\ Update.points = << <<"tick", arrived>> >>
    BY <1>t, MessageTypes, MessageFields, MessagePoints DEF ServerType
  <2>3. alert \in Msgs /\ alert.kind = "alert:raised" /\ alert.points = <<>>
    <3>1. raised' \in Nat
      BY <1>t, <2>1
    <3> QED BY <1>t, <3>1, MessageTypes, MessageFields, MessagePoints DEF ServerType
  <2> HIDE DEF alert
  <2>4. msgs \in Seq(Msgs) /\ Charted(msgs)
    <3>1. msgs \in Seq(Msgs) /\ Len(msgs) = 2 /\ msgs[1] = Update /\ msgs[2] = alert
      BY <2>2, <2>3
    <3> HIDE DEF msgs
    <3>2. \A i \in 1..Len(msgs) : i = 1 \/ i = 2
      BY <3>1
    <3> QED BY <1>p, <2>2, <2>3, <3>1, <3>2 DEF Charted
  <2> HIDE DEF msgs
  <2> QED BY <1>s, <2>1, <2>4 DEF ToRoom
<1>5. CASE Open
  <2> DEFINE first == <<Note("connect")>>
             rest == IF token = "absent" THEN Rejection ELSE <<>>
  <2>1. wire' = first \o rest /\ UNCHANGED <<ui, arrived>>
    BY <1>5 DEF Open
  <2>2. rest \in Seq(Msgs) /\ \A i \in 1..Len(rest) :
          rest[i].points = <<>> /\ rest[i].kind \notin {"metrics:update", "snapshot"}
    <3>1. CASE token = "absent"
      BY <1>t, <3>1, NoteMessages, MessagePoints
    <3>2. CASE token # "absent"
      BY <3>2
    <3> QED BY <3>1, <3>2
  <2>3. first \in Seq(Msgs) /\ Len(first) = 1 /\ first[1].points = <<>> /\ first[1].kind = "connect"
    BY <1>t, NoteMessages, MessageFields, MessagePoints
  <2> HIDE DEF first, rest
  <2>4. \A k \in 1..Len(wire') :
          wire'[k].points = <<>> /\ wire'[k].kind \notin {"metrics:update", "snapshot"}
    <3>1. /\ Len(wire') = 1 + Len(rest) /\ Len(rest) \in Nat
          /\ \A k \in 1..Len(wire') : wire'[k] = IF k <= 1 THEN first[k] ELSE rest[k - 1]
      <4>1. /\ Len(first \o rest) = Len(first) + Len(rest)
            /\ \A k \in 1..(Len(first) + Len(rest)) :
                 (first \o rest)[k] = IF k <= Len(first) THEN first[k] ELSE rest[k - Len(first)]
        BY <2>2, <2>3, ConcatProperties
      <4> QED BY <2>1, <2>2, <2>3, <4>1
    <3> SUFFICES ASSUME NEW k \in 1..Len(wire')
                 PROVE  /\ wire'[k].points = <<>>
                        /\ wire'[k].kind \notin {"metrics:update", "snapshot"}
      OBVIOUS
    <3>2. CASE k = 1
      BY <2>3, <3>1, <3>2
    <3>3. CASE k # 1
      <4>1. k - 1 \in 1..Len(rest) /\ wire'[k] = rest[k - 1]
        BY <3>1, <3>3
      <4> QED BY <2>2, <4>1
    <3> QED BY <3>2, <3>3
  <2>5. PointsUnderWay'
    <3> SUFFICES ASSUME NEW k \in 1..Len(wire')
                 PROVE  /\ UpTo(wire'[k].points, arrived)
                        /\ wire'[k].kind \notin {"metrics:update", "snapshot"}
      BY <2>1 DEF PointsUnderWay
    <3> QED BY <1>p, <2>4
  <2> QED BY <1>t, <2>1, <2>5 DEF ChartShown
<1>6. CASE Reject
  <2>1. wire' = wire \o Rejection /\ UNCHANGED <<ui, arrived>> /\ Rejection \in Seq(Msgs)
    BY <1>6, <1>t, NoteMessages DEF Reject
  <2>2. Charted(Rejection)
    <3> SUFFICES ASSUME NEW i \in 1..Len(Rejection)
                 PROVE  /\ UpTo(Rejection[i].points, arrived)
                        /\ Rejection[i].kind \notin {"metrics:update", "snapshot"}
      BY DEF Charted
    <3>1. /\ Rejection[i].points = <<>>
          /\ Rejection[i].kind \notin {"metrics:update", "snapshot"}
      BY <1>t, MessagePoints
    <3> QED BY <1>p, <3>1
  <2> QED BY <1>s, <2>1, <2>2
<1>7. CASE SendSnapshot
  <2>1. PICK seed \in Seeds : wire' = Append(wire, Msg("snapshot", fetched, atJoin, seed))
    BY <1>7 DEF SendSnapshot
  <2>2. UNCHANGED <<ui, arrived>>
    BY <1>7 DEF SendSnapshot
  <2> DEFINE snapshot == Msg("snapshot", fetched, atJoin, seed)
             msgs == <<snapshot>>
  <2>3. snapshot \in Msgs /\ snapshot.points = seed /\ snapshot.kind = "snapshot"
    BY <1>t, <2>1, MessageTypes, MessageFields, MessagePoints DEF ServerType
  <2> HIDE DEF snapshot
  <2>4. msgs \in Seq(Msgs) /\ Len(msgs) = 1 /\ msgs[1] = snapshot /\ wire' = wire \o msgs
    <3>1. wire' = Append(wire, snapshot)
      BY <2>1 DEF snapshot
    <3> QED BY <1>t, <2>3, <3>1, AppendIsConcat
  <2> HIDE DEF msgs
  <2>5. UpTo(seed, arrived) /\ (seed = <<>> \/ \E n \in Nat : seed = << <<"bucket", n>> >>)
    <3>1. CASE seed = <<>>
      BY <1>p, <3>1
    <3>2. CASE \E n \in 1..arrived : seed = << <<"bucket", n>> >>
      <4>1. PICK n \in 1..arrived : seed = << <<"bucket", n>> >>
        BY <3>2
      <4>2. n \in Nat /\ n <= arrived
        BY <1>t
      <4> QED BY <1>p, <4>1, <4>2
    <3> QED BY <2>1, <3>1, <3>2 DEF Seeds
  <2>6. Charted(msgs)
    <3> SUFFICES ASSUME NEW i \in 1..Len(msgs)
                 PROVE  /\ UpTo(msgs[i].points, arrived)
                        /\ msgs[i].kind = "snapshot"
                        /\ msgs[i].points = <<>> \/ \E n \in Nat : msgs[i].points = << <<"bucket", n>> >>
      BY DEF Charted
    <3>1. i = 1
      BY <2>4
    <3> QED BY <2>3, <2>4, <2>5, <3>1
  <2> QED BY <1>s, <2>2, <2>4, <2>6
<1> QED BY <1>1, <1>2, <1>3, <1>4, <1>5, <1>6, <1>7

\* Receiving: the chart shown afterwards is bounded by what bounded the chart and what
\* was received.
LEMMA ReceivingKeepsCharts ==
  ASSUME ChartsInv, NEW kind, Receive(kind), InTime(ui'.series),
         \A b \in Nat : UpTo(ui.series, b) /\ UpTo(wire[1].points, b) => UpTo(ui'.series, b),
         ui'.series # <<>> /\ Last(ui'.series)[1] = "tick" => Last(ui'.series)[2] = ui'.metrics
  PROVE  ChartShown' /\ PointsUnderWay'
<1> USE DEF backend, gateway, history
<1>t. /\ ChartShown /\ PointsUnderWay /\ arrived \in Nat /\ wire \in Seq(Msgs)
      /\ \A k \in 1..Len(wire) : wire[k].n \in Nat
  BY ChartTypes DEF ChartsInv
<1>1. wire # <<>> /\ wire' = Tail(wire) /\ UNCHANGED arrived
  BY DEF Receive
<1>2. /\ Len(wire) \in Nat /\ 1 \in 1..Len(wire) /\ Len(wire') = Len(wire) - 1
      /\ \A k \in 1..Len(wire') : wire'[k] = wire[k + 1]
  BY <1>t, <1>1, HeadTailProperties
<1>n. ASSUME NEW k \in 1..Len(wire')
      PROVE  /\ k + 1 \in 1..Len(wire) /\ wire'[k] = wire[k + 1] /\ 1 \in 1..((k + 1) - 1)
             /\ \A j \in 1..(k - 1) : j + 1 \in 1..((k + 1) - 1) /\ wire'[j] = wire[j + 1]
  <2>1. k \in Nat /\ 1 <= k /\ k <= Len(wire) - 1
    BY <1>2
  <2>2. \A j \in 1..(k - 1) : j + 1 \in 1..((k + 1) - 1) /\ j \in 1..Len(wire')
    BY <1>2, <2>1
  <2>3. k + 1 \in 1..Len(wire) /\ 1 \in 1..((k + 1) - 1)
    BY <1>2, <2>1
  <2> QED BY <1>2, <2>2, <2>3
<1>3. ChartShown'
  <2>1. UpTo(ui'.series, arrived)
    BY <1>t, <1>2 DEF ChartShown, PointsUnderWay
  <2> QED BY <1>1, <2>1 DEF ChartShown
<1>4. PointsUnderWay'
  <2> SUFFICES ASSUME NEW k \in 1..Len(wire')
               PROVE  /\ UpTo(wire'[k].points, arrived)
                      /\ wire'[k].kind = "metrics:update" =>
                           /\ wire'[k].points = << <<"tick", wire'[k].n>> >>
                           /\ UpTo(ui'.series, wire'[k].n)
                           /\ \A j \in 1..(k - 1) : UpTo(wire'[j].points, wire'[k].n)
                      /\ wire'[k].kind = "snapshot" =>
                           \/ wire'[k].points = <<>>
                           \/ \E n \in Nat : wire'[k].points = << <<"bucket", n>> >>
    BY <1>1 DEF PointsUnderWay
  <2>1. /\ UpTo(wire[k + 1].points, arrived)
        /\ wire[k + 1].kind = "snapshot" =>
             \/ wire[k + 1].points = <<>>
             \/ \E n \in Nat : wire[k + 1].points = << <<"bucket", n>> >>
    BY <1>t, <1>n DEF PointsUnderWay
  <2>2. ASSUME wire[k + 1].kind = "metrics:update"
        PROVE  /\ wire[k + 1].points = << <<"tick", wire[k + 1].n>> >>
               /\ UpTo(ui'.series, wire[k + 1].n)
               /\ \A j \in 1..(k - 1) : UpTo(wire'[j].points, wire[k + 1].n)
    <3>1. /\ wire[k + 1].points = << <<"tick", wire[k + 1].n>> >>
          /\ UpTo(ui.series, wire[k + 1].n) /\ wire[k + 1].n \in Nat
          /\ \A j \in 1..((k + 1) - 1) : UpTo(wire[j].points, wire[k + 1].n)
      BY <1>t, <1>n, <2>2 DEF PointsUnderWay
    <3>2. UpTo(ui'.series, wire[k + 1].n)
      BY <1>n, <3>1
    <3>3. \A j \in 1..(k - 1) : UpTo(wire'[j].points, wire[k + 1].n)
      BY <1>n, <3>1
    <3> QED BY <3>1, <3>2, <3>3
  <2> QED BY <1>n, <2>1, <2>2
<1> QED BY <1>3, <1>4

\* The listeners of the hook.
LEMMA ListenersCharts == ChartsInv /\ Listeners => ChartShown' /\ PointsUnderWay'
<1> SUFFICES ASSUME ChartsInv, Listeners PROVE ChartShown' /\ PointsUnderWay'
  OBVIOUS
<1> DEFINE m == wire[1]
<1>t. /\ ChartShown /\ PointsUnderWay /\ wire \in Seq(Msgs) /\ ui \in UIType
      /\ ui.series \in Seq(Points) /\ MaxSeriesPoints \in Nat \ {0}
      /\ \A k \in 1..Len(wire) : wire[k].points \in Seq(Points) /\ wire[k].n \in Nat
  BY ChartTypes DEF ChartsInv
<1>m. ASSUME NEW kind, Receive(kind)
      PROVE  /\ 1 \in 1..Len(wire) /\ m = Head(wire) /\ m.kind = kind
             /\ m.points \in Seq(Points) /\ m.n \in Nat
  <2>1. wire # <<>> /\ Head(wire).kind = kind
    BY <1>m DEF Receive
  <2>2. 1 \in 1..Len(wire) /\ m = Head(wire)
    BY <1>t, <2>1
  <2> QED BY <1>t, <2>1, <2>2
<1>s. ASSUME NEW kind, Receive(kind), ui'.series = ui.series, ui'.metrics = ui.metrics
      PROVE  ChartShown' /\ PointsUnderWay'
  BY <1>s, <1>t, ReceivingKeepsCharts DEF ChartShown
<1>1. CASE OnConnect
  <2>1. Receive("connect") /\ ui'.series = ui.series /\ ui'.metrics = ui.metrics
    BY <1>1, <1>t DEF OnConnect, UIType
  <2> QED BY <1>s, <2>1
<1>2. CASE OnSnapshot
  <2>1. Receive("snapshot") /\ ui'.series = LastN(Head(wire).points, MaxSeriesPoints)
    BY <1>2, <1>t DEF OnSnapshot, UIType
  <2>2. m.points = <<>> \/ \E n \in Nat : m.points = << <<"bucket", n>> >>
    BY <1>m, <1>t, <2>1 DEF PointsUnderWay
  <2>3. ui'.series = m.points
    BY <1>m, <1>t, <2>1, <2>2, SeedStays
  <2>4. /\ InTime(ui'.series)
        /\ ~ (ui'.series # <<>> /\ Last(ui'.series)[1] = "tick")
    <3>1. CASE m.points = <<>>
      BY <2>3, <3>1 DEF InTime
    <3>2. CASE \E n \in Nat : m.points = << <<"bucket", n>> >>
      <4>1. PICK n \in Nat : ui'.series = << <<"bucket", n>> >>
        BY <2>3, <3>2
      <4>2. Last(ui'.series) = <<"bucket", n>>
        BY <4>1 DEF Last
      <4>3. InTime(ui'.series)
        BY <4>1 DEF InTime
      <4> QED BY <4>2, <4>3
    <3> QED BY <2>2, <3>1, <3>2
  <2> QED BY <2>1, <2>3, <2>4, ReceivingKeepsCharts
<1>3. CASE OnEvent
  <2>1. Receive("event:new") /\ ui'.series = ui.series /\ ui'.metrics = ui.metrics
    BY <1>3, <1>t DEF OnEvent, UIType
  <2> QED BY <1>s, <2>1
<1>4. CASE OnMetrics
  <2> DEFINE p == <<"tick", m.n>>
             one == <<p>>
  <2>1. /\ Receive("metrics:update") /\ ui'.metrics = Head(wire).n
        /\ ui'.series = LastN(ui.series \o Head(wire).points, MaxSeriesPoints)
    BY <1>4, <1>t DEF OnMetrics, UIType
  <2>2. m.points = one /\ UpTo(ui.series, m.n)
    BY <1>m, <1>t, <2>1 DEF PointsUnderWay
  <2>3. p \in Points /\ p[1] = "tick" /\ p[2] = m.n
    BY <1>m, <2>1 DEF Points
  <2>4. ui'.metrics = m.n /\ ui'.series = LastN(ui.series \o one, MaxSeriesPoints)
    BY <1>m, <2>1, <2>2
  <2>5. \A b \in Nat : UpTo(m.points, b) => p[2] <= b
    BY <2>2 DEF UpTo
  <2> HIDE DEF p
  <2>6. Extends(ui.series, p, ui'.series)
    BY <1>t, <2>2, <2>3, <2>4, PutAtTheEnd DEF ChartShown
  <2>7. \A b \in Nat : UpTo(ui.series, b) /\ UpTo(m.points, b) => UpTo(ui'.series, b)
    BY <2>5, <2>6 DEF Extends
  <2> QED BY <2>1, <2>3, <2>4, <2>6, <2>7, ReceivingKeepsCharts DEF Extends
<1>5. CASE OnAlert
  <2>1. Receive("alert:raised") /\ ui'.series = ui.series /\ ui'.metrics = ui.metrics
    BY <1>5, <1>t DEF OnAlert, UIType
  <2> QED BY <1>s, <2>1
<1>6. CASE OnAuthError
  <2>1. Receive("auth:error") /\ ui'.series = ui.series /\ ui'.metrics = ui.metrics
    BY <1>6, <1>t DEF OnAuthError, UIType
  <2> QED BY <1>s, <2>1
<1>7. CASE OnServerDisconnect
  <2>1. Receive("disconnect") /\ ui'.series = ui.series /\ ui'.metrics = ui.metrics
    BY <1>7, <1>t DEF OnServerDisconnect, UIType
  <2> QED BY <1>s, <2>1
<1> QED BY <1>1, <1>2, <1>3, <1>4, <1>5, <1>6, <1>7 DEF Listeners

\* The transport: what is under way is lost, what is shown stays or is reset.
LEMMA TransportCharts ==
  ChartsInv /\ (Lose \/ Retry \/ ConnectError \/ Cleanup) => ChartShown' /\ PointsUnderWay'
<1> SUFFICES ASSUME ChartsInv, Lose \/ Retry \/ ConnectError \/ Cleanup
             PROVE  ChartShown' /\ PointsUnderWay'
  OBVIOUS
<1> USE DEF backend, gateway
<1>t. ChartShown /\ PointsUnderWay /\ ui \in UIType
  BY ChartTypes DEF ChartsInv
<1>1. UNCHANGED arrived /\ wire' \in {wire, <<>>}
  BY DEF Lose, Retry, ConnectError, Cleanup, Unplug
<1>2. \/ ui'.series = ui.series /\ ui'.metrics = ui.metrics
      \/ ui'.series = <<>> /\ wire' = <<>>
  <2>1. CASE Cleanup
    BY <2>1 DEF Cleanup, Unplug, InitialState
  <2>2. CASE Lose
    BY <1>t, <2>2 DEF Lose, UIType
  <2>3. CASE Retry
    BY <1>t, <2>3 DEF Retry, UIType
  <2>4. CASE ConnectError
    BY <1>t, <2>4 DEF ConnectError, UIType
  <2> QED BY <2>1, <2>2, <2>3, <2>4
<1>3. ChartShown'
  BY <1>t, <1>1, <1>2 DEF ChartShown, InTime, UpTo
<1>4. CASE wire' = <<>>
  BY <1>3, <1>4 DEF PointsUnderWay
<1>5. CASE wire' = wire /\ wire' # <<>>
  BY <1>t, <1>1, <1>2, <1>3, <1>5 DEF PointsUnderWay
<1> QED BY <1>1, <1>3, <1>4, <1>5

LEMMA ChartsStep == ChartsInv /\ [Next]_vars => ChartsInv'
<1> SUFFICES ASSUME ChartsInv, [Next]_vars PROVE ChartShown' /\ PointsUnderWay'
  BY NextType DEF ChartsInv
<1>1. CASE UNCHANGED vars
  BY <1>1 DEF vars, backend, hook, ChartsInv, ChartShown, PointsUnderWay
<1> QED BY <1>1, ServerCharts, ListenersCharts, TransportCharts DEF Next, RedisCommand

\* The points of the charts are in the order of time, whatever seeds and ticks were
\* received, and a point of a tick that ends them is the one the cards show.
THEOREM ChartsAndCardsAgree == Spec => []ChartsAgreeWithCards
<1>1. Init => ChartsInv
  <2> SUFFICES ASSUME Init PROVE ChartShown /\ PointsUnderWay
    BY InitType DEF ChartsInv
  <2>1. wire = <<>> /\ ui.series = <<>>
    BY DEF Init, InitialState
  <2> QED BY <2>1 DEF ChartShown, PointsUnderWay, InTime, UpTo
<1>2. ChartsInv => ChartsAgreeWithCards
  <2> SUFFICES ASSUME ChartsInv PROVE ChartsAgreeWithCards
    OBVIOUS
  <2>1. ui.series \in Seq(Points) /\ ChartShown
    BY ChartTypes DEF ChartsInv
  <2>2. DOMAIN ui.series = 1..Len(ui.series)
    BY <2>1
  <2> QED BY <2>1, <2>2 DEF ChartShown, InTime, ChartsAgreeWithCards
<1> QED BY <1>1, <1>2, ChartsStep, PTL DEF Spec

(***************************************************************************)
(* Nothing cached is lacking without a reason.                             *)
(***************************************************************************)
In(x, s) == \E i \in 1..Len(s) : s[i] = x

\* An event is in a message that no later snapshot will erase.
Carried(e) ==
  \E k \in 1..Len(wire) :
    /\ wire[k].kind \in {"event:new", "snapshot"} /\ In(e, wire[k].events)
    /\ \A j \in (k + 1)..Len(wire) : wire[j].kind # "snapshot"

\* It is shown, or has made room, and no snapshot is on its way.
Had(e) ==
  /\ \A k \in 1..Len(wire) : wire[k].kind # "snapshot"
  /\ \/ In(e, ui.events)
     \/ Len(ui.events) = MaxFeedEvents /\ e < ui.events[MaxFeedEvents]

Given(e) == e \in omitted \/ Carried(e) \/ Had(e)

\* Reads are of connections there have been; one that is being verified has sent none.
ReadsInOrder ==
  /\ \A i \in 1..Len(cache) : cache[i] # 0
  /\ \A k \in 1..Len(commands) : commands[k].push = 0 =>
       commands[k].read <= epoch /\ (conn = "verifying" => commands[k].read # epoch)
  /\ conn = "verifying" => fetched = NotYet

\* A push behind a snapshot's read is of an event the snapshot may lack; once the read is
\* answered, so is every push, and what else is cached was read.
SnapshotUnderWay ==
  conn = "assembling" =>
    /\ \A r \in 1..Len(commands) : commands[r].push = 0 /\ commands[r].read = epoch =>
         \A k \in (r + 1)..Len(commands) : commands[k].push # 0 => commands[k].push \in omitted
    /\ fetched # NotYet =>
         /\ \A i \in 1..Len(cache) : cache[i] \in omitted \/ In(cache[i], fetched)
         /\ \A k \in 1..Len(commands) : commands[k].push # 0 => commands[k].push \in omitted

\* A dashboard in the room after its snapshot was given what is cached or will be.
AllGiven ==
  conn = "live" =>
    /\ \A i \in 1..Len(cache) : Given(cache[i])
    /\ \A k \in 1..Len(commands) : commands[k].push # 0 => Given(commands[k].push)

\* As long as no push was executed twice.
CoverInv == OrderInv /\ ~ resent /\ ReadsInOrder /\ SnapshotUnderWay /\ AllGiven

\* Steps that leave the cache, the commands and the gateway alone.
LEMMA GivingKeepsCover ==
  ASSUME CoverInv, UNCHANGED <<commands, cache, conn, epoch, fetched, omitted>>,
         \A e \in Nat : Given(e) => Given(e)'
  PROVE  ReadsInOrder' /\ SnapshotUnderWay' /\ AllGiven'
<1>t. cache \in Seq(Nat) /\ \A k \in 1..Len(commands) : commands[k].push \in Nat
  <2>1. TypeOK
    BY DEF CoverInv, OrderInv
  <2> QED BY <2>1, Sizes
<1>1. /\ \A i \in 1..Len(cache) : cache[i] \in Nat
      /\ \A k \in 1..Len(commands) : commands[k].push \in Nat
  BY <1>t
<1>2. AllGiven'
  BY <1>1 DEF CoverInv, AllGiven
<1> QED BY <1>2 DEF CoverInv, ReadsInOrder, SnapshotUnderWay

\* What was given stays so when messages other than snapshots are sent.
LEMMA GivenStays ==
  ASSUME wire \in Seq(Msgs), NEW msgs \in Seq(Msgs), wire' = wire \o msgs \/ wire' = wire,
         \A i \in 1..Len(msgs) : msgs[i].kind # "snapshot",
         omitted \subseteq omitted', UNCHANGED ui, NEW e, Given(e)
  PROVE  Given(e)'
<1>1. CASE wire' = wire
  BY <1>1 DEF Given, Carried, Had, In
<1>2. CASE wire' = wire \o msgs
  <2>1. /\ Len(wire') = Len(wire) + Len(msgs) /\ Len(wire) \in Nat /\ Len(msgs) \in Nat
        /\ \A k \in 1..(Len(wire) + Len(msgs)) :
             wire'[k] = IF k <= Len(wire) THEN wire[k] ELSE msgs[k - Len(wire)]
    BY <1>2, ConcatProperties
  <2>2. \A k \in 1..Len(wire) : k \in 1..Len(wire') /\ wire'[k] = wire[k]
    BY <2>1
  <2>3. ASSUME NEW k \in 1..Len(wire'), k \notin 1..Len(wire) PROVE wire'[k].kind # "snapshot"
    <3>1. k - Len(wire) \in 1..Len(msgs) /\ wire'[k] = msgs[k - Len(wire)]
      BY <2>1, <2>3
    <3> QED BY <3>1
  <2>4. CASE e \in omitted
    BY <2>4 DEF Given
  <2>5. CASE Carried(e)
    <3>1. PICK k \in 1..Len(wire) :
            /\ wire[k].kind \in {"event:new", "snapshot"} /\ In(e, wire[k].events)
            /\ \A j \in (k + 1)..Len(wire) : wire[j].kind # "snapshot"
      BY <2>5 DEF Carried
    <3>2. ASSUME NEW j \in (k + 1)..Len(wire') PROVE wire'[j].kind # "snapshot"
      <4>1. CASE j <= Len(wire)
        <5>1. j \in (k + 1)..Len(wire) /\ j \in 1..Len(wire)
          BY <2>1, <4>1
        <5> QED BY <2>2, <3>1, <5>1
      <4>2. CASE ~ (j <= Len(wire))
        <5>1. j \in 1..Len(wire') /\ j \notin 1..Len(wire)
          BY <2>1, <4>2
        <5> QED BY <2>3, <5>1
      <4> QED BY <4>1, <4>2
    <3>3. k \in 1..Len(wire') /\ wire'[k] = wire[k]
      BY <2>2
    <3> QED BY <3>1, <3>2, <3>3 DEF Given, Carried, In
  <2>6. CASE Had(e)
    <3>1. \A k \in 1..Len(wire') : wire'[k].kind # "snapshot"
      BY <2>2, <2>3, <2>6 DEF Had
    <3> QED BY <2>6, <3>1 DEF Given, Had, In
  <2> QED BY <2>4, <2>5, <2>6 DEF Given
<1> QED BY <1>1, <1>2

\* A snapshot that is cut to the size of the feed: what is cut off is older.
LEMMA CutOff ==
  ASSUME NEW s \in Seq(Nat), NEW n \in Nat \ {0}, NewestFirst(s), NEW t, t = FirstN(s, n),
         NEW e, In(e, s)
  PROVE  In(e, t) \/ (Len(t) = n /\ e < t[n])
<1> DEFINE k == IF Len(s) > n THEN n ELSE Len(s)
<1>1. k \in Nat /\ k <= Len(s) /\ Len(s) \in Nat /\ t = SubSeq(s, 1, k)
      /\ (Len(s) > n => k = n) /\ (~ (Len(s) > n) => k = Len(s))
  BY DEF FirstN
<1> HIDE DEF k
<1>2. \A i \in 1..k : s[i] \in Nat
  BY <1>1
<1>3. Len(t) = k /\ \A i \in 1..k : t[i] = s[i]
  BY <1>1, <1>2, SubSeqProperties
<1>4. PICK i \in 1..Len(s) : s[i] = e
  BY DEF In
<1>5. CASE i <= k
  <2>1. i \in 1..k
    BY <1>5
  <2> QED BY <1>3, <1>4, <2>1 DEF In
<1>6. CASE ~ (i <= k)
  <2>1. k = n /\ n \in 1..(i - 1) /\ n \in 1..k /\ i \in DOMAIN s
    BY <1>1, <1>6
  <2>2. s[n] > s[i]
    BY <2>1 DEF NewestFirst
  <2>3. s[n] \in Nat /\ s[i] \in Nat
    BY <1>1, <2>1
  <2> QED BY <1>3, <1>4, <2>1, <2>2, <2>3
<1> QED BY <1>5, <1>6

\* What was given stays so when a listener takes the next message.
LEMMA GivenReceived ==
  ASSUME OrderInv, ~ resent, Listeners, NEW e \in Nat, Given(e)
  PROVE  Given(e)'
<1> USE DEF history
<1>t. /\ TypeOK /\ ShownOrder /\ EventsUnderWay /\ wire \in Seq(Msgs) /\ ui \in UIType
      /\ ui.events \in Seq(Nat) /\ Len(ui.events) <= MaxFeedEvents
      /\ MaxFeedEvents \in Nat \ {0} /\ \A k \in 1..Len(wire) : wire[k].events \in Seq(Nat)
  BY TypeParts, Sizes, SizesAssumption DEF OrderInv, ClientType
<1>1. PICK kind : Receive(kind)
  BY DEF Listeners, OnConnect, OnSnapshot, OnEvent, OnMetrics, OnAlert, OnAuthError,
         OnServerDisconnect
<1>2. wire # <<>> /\ Head(wire).kind = kind /\ wire' = Tail(wire) /\ UNCHANGED omitted
  BY <1>1 DEF Receive
<1>3. /\ Len(wire) \in Nat /\ 1 \in 1..Len(wire) /\ Len(wire') = Len(wire) - 1
      /\ Head(wire) = wire[1] /\ wire[1].kind = kind
      /\ \A k \in 1..Len(wire') : wire'[k] = wire[k + 1]
  BY <1>t, <1>2, HeadTailProperties
<1>k. ASSUME NEW k \in 1..Len(wire), k # 1
      PROVE  /\ k - 1 \in 1..Len(wire') /\ wire'[k - 1] = wire[k]
             /\ \A j \in ((k - 1) + 1)..Len(wire') :
                  j + 1 \in (k + 1)..Len(wire) /\ wire'[j] = wire[j + 1]
  <2>1. k - 1 \in 1..Len(wire') /\ (k - 1) + 1 = k
    BY <1>3, <1>k
  <2>2. \A j \in k..Len(wire') : j \in 1..Len(wire') /\ j + 1 \in (k + 1)..Len(wire)
    BY <1>3, <1>k
  <2> QED BY <1>3, <2>1, <2>2
<1>n. (\A k \in 2..Len(wire) : wire[k].kind # "snapshot")
        => \A k \in 1..Len(wire') : wire'[k].kind # "snapshot"
  <2>1. \A k \in 1..Len(wire') : k + 1 \in 2..Len(wire)
    BY <1>3
  <2> QED BY <1>3, <2>1
<1>m. \A k \in 2..Len(wire) : k \in 1..Len(wire) /\ k # 1
  BY <1>3
<1>4. CASE e \in omitted
  BY <1>2, <1>4 DEF Given
<1>5. ASSUME NEW k \in 1..Len(wire), k # 1,
             wire[k].kind \in {"event:new", "snapshot"}, In(e, wire[k].events),
             \A j \in (k + 1)..Len(wire) : wire[j].kind # "snapshot"
      PROVE  Given(e)'
  <2>1. k - 1 \in 1..Len(wire') /\ wire'[k - 1] = wire[k]
    BY <1>5, <1>k
  <2>2. \A j \in ((k - 1) + 1)..Len(wire') : wire'[j].kind # "snapshot"
    BY <1>5, <1>k
  <2> QED BY <1>5, <2>1, <2>2 DEF Given, Carried, In
<1>6. CASE OnSnapshot
  <2>1. ui'.events = FirstN(wire[1].events, MaxFeedEvents) /\ wire[1].kind = "snapshot"
    BY <1>3, <1>6, <1>t DEF OnSnapshot, Receive, UIType
  <2>2. CASE Carried(e)
    <3>1. PICK k \in 1..Len(wire) :
            /\ wire[k].kind \in {"event:new", "snapshot"} /\ In(e, wire[k].events)
            /\ \A j \in (k + 1)..Len(wire) : wire[j].kind # "snapshot"
      BY <2>2 DEF Carried
    <3>2. CASE k = 1
      <4>1. \A j \in 1..Len(wire') : wire'[j].kind # "snapshot"
        BY <1>n, <3>1, <3>2
      <4>2. \/ In(e, ui'.events)
            \/ Len(ui'.events) = MaxFeedEvents /\ e < ui'.events[MaxFeedEvents]
        BY <1>t, <1>3, <2>1, <3>1, <3>2, CutOff DEF EventsUnderWay
      <4> QED BY <4>1, <4>2 DEF Given, Had
    <3>3. CASE k # 1
      BY <1>5, <3>1, <3>3
    <3> QED BY <3>2, <3>3
  <2>3. ~ Had(e)
    BY <1>3, <2>1 DEF Had
  <2> QED BY <1>4, <2>2, <2>3 DEF Given
<1>7. CASE OnEvent
  <2> DEFINE s == ui.events
             n == MaxFeedEvents
             t == ui'.events
  <2>1. t = FirstN(wire[1].events \o s, n) /\ wire[1].kind = "event:new"
    BY <1>3, <1>7, <1>t DEF OnEvent, Receive, UIType
  <2>2. PICK x \in Nat : wire[1].events = <<x>> /\ Below(s, x)
    BY <1>3, <1>t, <2>1 DEF EventsUnderWay
  <2>3. s \in Seq(Nat) /\ Len(s) <= n /\ NewestFirst(s) /\ n \in Nat \ {0}
          /\ t = FirstN(<<x>> \o s, n)
    BY <1>t, <2>1, <2>2 DEF ShownOrder
  <2>4. t \in Seq(Nat)
    <3>1. TypeOK'
      BY NextType, <1>t DEF Next
    <3> QED BY <3>1 DEF TypeOK, UIType
  <2>5. /\ \E i \in 1..Len(t) : t[i] = x
        /\ \A i \in 1..Len(s) : \/ \E j \in 1..Len(t) : t[j] = s[i]
                                \/ Len(t) = n /\ s[i] < t[n]
        /\ Len(s) = n => Len(t) = n /\ s[n] <= t[n]
    <3> HIDE DEF s, n, t
    <3>1. MakesRoom(s, x, t, n)
      BY <2>2, <2>3, PushedOut
    <3> QED BY <3>1 DEF MakesRoom
  <2>6. CASE Carried(e)
    <3>1. PICK k \in 1..Len(wire) :
            /\ wire[k].kind \in {"event:new", "snapshot"} /\ In(e, wire[k].events)
            /\ \A j \in (k + 1)..Len(wire) : wire[j].kind # "snapshot"
      BY <2>6 DEF Carried
    <3>2. CASE k = 1
      <4>1. \A j \in 1..Len(wire') : wire'[j].kind # "snapshot"
        BY <1>n, <3>1, <3>2
      <4>2. e = x
        BY <2>2, <3>1, <3>2 DEF In
      <4> QED BY <2>5, <4>1, <4>2 DEF Given, Had, In
    <3>3. CASE k # 1
      BY <1>5, <3>1, <3>3
    <3> QED BY <3>2, <3>3
  <2>7. CASE Had(e)
    <3>1. \A j \in 1..Len(wire') : wire'[j].kind # "snapshot"
      BY <1>n, <1>m, <2>7 DEF Had
    <3>2. CASE In(e, s)
      <4>1. (\E j \in 1..Len(t) : t[j] = e) \/ (Len(t) = n /\ e < t[n])
        BY <2>5, <3>2 DEF In
      <4> QED BY <3>1, <4>1 DEF Given, Had, In
    <3>3. CASE Len(s) = n /\ e < s[n]
      <4>1. Len(t) = n /\ s[n] <= t[n] /\ n \in 1..Len(s) /\ n \in 1..Len(t)
        BY <2>3, <2>5, <3>3
      <4>2. s[n] \in Nat /\ t[n] \in Nat
        BY <2>3, <2>4, <4>1
      <4>3. e < t[n]
        BY <3>3, <4>1, <4>2
      <4> QED BY <3>1, <4>1, <4>3 DEF Given, Had
    <3> QED BY <2>7, <3>2, <3>3 DEF Had
  <2> QED BY <1>4, <2>6, <2>7 DEF Given
<1>8. CASE ~ OnSnapshot /\ ~ OnEvent
  <2>1. kind \notin {"event:new", "snapshot"} /\ ui'.events = ui.events
    BY <1>1, <1>8, <1>t DEF Listeners, OnConnect, OnMetrics, OnAlert, OnAuthError,
                            OnServerDisconnect, Receive, UIType
  <2>2. CASE Carried(e)
    <3>1. PICK k \in 1..Len(wire) :
            /\ wire[k].kind \in {"event:new", "snapshot"} /\ In(e, wire[k].events)
            /\ \A j \in (k + 1)..Len(wire) : wire[j].kind # "snapshot"
      BY <2>2 DEF Carried
    <3>2. k # 1
      BY <1>3, <2>1, <3>1
    <3> QED BY <1>5, <3>1, <3>2
  <2>3. CASE Had(e)
    <3>1. \A j \in 1..Len(wire') : wire'[j].kind # "snapshot"
      BY <1>n, <1>m, <2>3 DEF Had
    <3> QED BY <2>1, <2>3, <3>1 DEF Given, Had
  <2> QED BY <1>4, <2>2, <2>3 DEF Given
<1> QED BY <1>6, <1>7, <1>8

\* A push puts one event in the cache.
LEMMA OneCached ==
  ASSUME NEW s \in Seq(Nat), NEW x \in Nat, NEW n \in Nat, NEW t, t = FirstN(<<x>> \o s, n)
  PROVE  \A i \in 1..Len(t) : t[i] = x \/ In(t[i], s)
<1> DEFINE one == <<x>>
           u == one \o s
           k == IF Len(u) > n THEN n ELSE Len(u)
<1>1. one \in Seq(Nat) /\ Len(one) = 1 /\ one[1] = x
  OBVIOUS
<1>2. t = SubSeq(u, 1, k)
  BY DEF FirstN
<1> HIDE DEF one
<1>3. /\ Len(u) = 1 + Len(s) /\ u \in Seq(Nat) /\ u[1] = x
      /\ \A i \in 1..Len(s) : u[i + 1] = s[i]
  <2>1. /\ u \in Seq(Nat) /\ Len(u) = Len(one) + Len(s)
        /\ \A i \in 1..(Len(one) + Len(s)) :
             u[i] = IF i <= Len(one) THEN one[i] ELSE s[i - Len(one)]
    BY <1>1, ConcatProperties
  <2> QED BY <1>1, <2>1
<1> HIDE DEF u
<1>4. k \in Nat /\ k <= Len(u) /\ Len(u) \in Nat
  BY <1>3
<1>5. \A i \in 1..k : u[i] \in Nat
  BY <1>3, <1>4
<1> HIDE DEF k
<1>6. Len(t) = k /\ \A i \in 1..k : t[i] = u[i]
  BY <1>2, <1>4, <1>5, SubSeqProperties
<1> SUFFICES ASSUME NEW i \in 1..Len(t) PROVE t[i] = x \/ In(t[i], s)
  OBVIOUS
<1>7. CASE i = 1
  BY <1>3, <1>6, <1>7
<1>8. CASE i # 1
  <2>1. i - 1 \in 1..Len(s) /\ (i - 1) + 1 = i
    BY <1>3, <1>4, <1>6, <1>8
  <2>2. t[i] = s[i - 1]
    BY <1>3, <1>6, <2>1
  <2> QED BY <2>1, <2>2 DEF In
<1> QED BY <1>7, <1>8

\* Redis executes a command, or fails: what the cache holds then was there or was pushed.
LEMMA RedisCovers ==
  ASSUME CoverInv, RedisExec \/ RedisError
  PROVE  ReadsInOrder' /\ SnapshotUnderWay' /\ AllGiven'
<1> USE DEF socket, hook, history
<1> DEFINE c == commands[1]
<1>t. /\ OrderInv /\ PushOrder /\ ReadsInOrder /\ SnapshotUnderWay /\ AllGiven
      /\ wire \in Seq(Msgs) /\ arrived \in Nat /\ cache \in Seq(Nat) /\ FeedSize \in Nat
      /\ commands \in Seq([push : Nat, read : Nat]) /\ Len(commands) \in Nat
      /\ \A i \in 1..Len(cache) : cache[i] \in Nat
      /\ \A k \in 1..Len(commands) : commands[k].push \in Nat
  <2>1. TypeOK /\ OrderInv /\ PushOrder /\ ReadsInOrder /\ SnapshotUnderWay /\ AllGiven
    BY DEF CoverInv, OrderInv
  <2>2. /\ wire \in Seq(Msgs) /\ arrived \in Nat /\ cache \in Seq(Nat) /\ FeedSize \in Nat
        /\ commands \in Seq([push : Nat, read : Nat]) /\ Len(commands) \in Nat
        /\ \A k \in 1..Len(commands) : commands[k].push \in Nat
    BY <2>1, Sizes
  <2>3. \A i \in 1..Len(cache) : cache[i] \in Nat
    BY <2>2
  <2> QED BY <2>1, <2>2, <2>3, Zenon
<1>1. /\ commands # <<>> /\ commands' = Tail(commands) /\ c = Head(commands)
      /\ UNCHANGED <<conn, epoch, wire, ui>>
  <2>1. /\ commands # <<>> /\ commands' = Tail(commands) /\ UNCHANGED <<conn, epoch, wire, ui>>
    BY DEF RedisExec, RedisError
  <2> QED BY <1>t, <2>1
<1>2. /\ 1 \in 1..Len(commands) /\ Len(commands') = Len(commands) - 1
      /\ \A k \in 1..Len(commands') : commands'[k] = commands[k + 1]
  BY <1>t, <1>1, HeadTailProperties
<1>n. \A k \in 1..Len(commands') :
        k + 1 \in 1..Len(commands) /\ k + 1 \in (1 + 1)..Len(commands)
          /\ commands'[k] = commands[k + 1]
  <2>1. Len(commands) \in Nat
    BY <1>t
  <2> HIDE DEF c
  <2> QED BY <1>2, <2>1
<1>p. \A r \in 1..Len(commands') : \A k \in (r + 1)..Len(commands') :
        k \in 1..Len(commands') /\ k + 1 \in ((r + 1) + 1)..Len(commands)
  BY <1>t, <1>2
<1>g. ASSUME omitted \subseteq omitted', NEW e, Given(e) PROVE Given(e)'
  <2> DEFINE none == <<>>
  <2>1. none \in Seq(Msgs) /\ 1..Len(none) = {}
    OBVIOUS
  <2> HIDE DEF none
  <2> QED BY <1>1, <1>g, <1>t, <2>1, GivenStays
\* Whatever happens to the head, what is behind it stays.
<1>r. ASSUME \A i \in 1..Len(cache') : \/ In(cache'[i], cache)
                                       \/ c.push # 0 /\ cache'[i] = c.push,
             omitted \subseteq omitted', fetched' = fetched
      PROVE  ReadsInOrder' /\ SnapshotUnderWay' /\ AllGiven'
  <2>1. ReadsInOrder'
    <3>1. \A i \in 1..Len(cache') : cache'[i] # 0
      BY <1>r, <1>t DEF ReadsInOrder, In
    <3> QED BY <1>1, <1>n, <1>r, <1>t, <3>1 DEF ReadsInOrder
  <2>2. SnapshotUnderWay'
    <3> SUFFICES ASSUME conn = "assembling"
                 PROVE  SnapshotUnderWay'
      BY <1>1 DEF SnapshotUnderWay
    <3>1. ASSUME NEW r \in 1..Len(commands'), commands'[r].push = 0, commands'[r].read = epoch,
                 NEW k \in (r + 1)..Len(commands'), commands'[k].push # 0
          PROVE  commands'[k].push \in omitted'
      <4>1. /\ r + 1 \in 1..Len(commands) /\ commands[r + 1].push = 0
            /\ commands[r + 1].read = epoch
        BY <1>n, <3>1
      <4>2. /\ k + 1 \in ((r + 1) + 1)..Len(commands) /\ commands'[k] = commands[k + 1]
        BY <1>n, <1>p
      <4>3. commands[k + 1].push \in omitted
        BY <1>t, <3>1, <4>1, <4>2 DEF SnapshotUnderWay
      <4> QED BY <1>r, <4>2, <4>3
    <3>2. ASSUME fetched # NotYet, NEW i \in 1..Len(cache')
          PROVE  cache'[i] \in omitted' \/ In(cache'[i], fetched)
      <4>1. CASE In(cache'[i], cache)
        BY <1>r, <1>t, <3>2, <4>1 DEF SnapshotUnderWay, In
      <4>2. CASE c.push # 0 /\ cache'[i] = c.push
        BY <1>2, <1>r, <1>t, <3>2, <4>2 DEF SnapshotUnderWay
      <4> QED BY <1>r, <4>1, <4>2
    <3>3. ASSUME fetched # NotYet, NEW k \in 1..Len(commands'), commands'[k].push # 0
          PROVE  commands'[k].push \in omitted'
      <4>1. k + 1 \in 1..Len(commands) /\ commands'[k] = commands[k + 1]
        BY <1>n
      <4> QED BY <1>r, <1>t, <3>3, <4>1 DEF SnapshotUnderWay
    <3> QED BY <1>1, <1>r, <3>1, <3>2, <3>3 DEF SnapshotUnderWay
  <2>3. AllGiven'
    <3> SUFFICES ASSUME conn = "live" PROVE AllGiven'
      BY <1>1 DEF AllGiven
    <3>1. ASSUME NEW i \in 1..Len(cache'), NEW e, e = cache'[i] PROVE Given(e)'
      <4>1. Given(e)
        <5>1. CASE In(e, cache)
          BY <1>t, <5>1 DEF AllGiven, In
        <5>2. CASE c.push # 0 /\ e = c.push
          BY <1>2, <1>t, <5>2 DEF AllGiven
        <5> QED BY <1>r, <3>1, <5>1, <5>2
      <4> QED BY <1>g, <1>r, <4>1
    <3>2. ASSUME NEW k \in 1..Len(commands'), commands'[k].push # 0,
                 NEW e, e = commands'[k].push
          PROVE  Given(e)'
      <4>1. k + 1 \in 1..Len(commands) /\ commands'[k] = commands[k + 1]
        BY <1>n
      <4>2. Given(e)
        BY <1>t, <3>2, <4>1 DEF AllGiven
      <4> QED BY <1>g, <1>r, <4>2
    <3> QED BY <3>1, <3>2 DEF AllGiven
  <2> QED BY <2>1, <2>2, <2>3
\* The read of a snapshot is answered, with what is cached or with nothing.
<1>a. ASSUME c.push = 0, c.read = epoch, conn = "assembling", cache' = cache,
             omitted \subseteq omitted',
             \/ fetched' = cache
             \/ \A e \in 1..arrived : e \in omitted'
      PROVE  ReadsInOrder' /\ SnapshotUnderWay' /\ AllGiven'
  <2>1. \A k \in 1..Len(commands') : commands'[k].push # 0 => commands'[k].push \in omitted'
    <3>1. \A k \in 2..Len(commands) : commands[k].push # 0 => commands[k].push \in omitted
      BY <1>2, <1>a, <1>t DEF SnapshotUnderWay
    <3>2. \A k \in 1..Len(commands') : k + 1 \in 2..Len(commands)
      BY <1>n
    <3> QED BY <1>a, <1>n, <3>1, <3>2
  <2>2. \A i \in 1..Len(cache) : cache[i] \in omitted' \/ In(cache[i], fetched')
    <3>1. CASE fetched' = cache
      BY <3>1 DEF In
    <3>2. CASE \A e \in 1..arrived : e \in omitted'
      <4>1. \A i \in 1..Len(cache) : cache[i] \in 1..arrived
        <5> SUFFICES ASSUME NEW i \in 1..Len(cache) PROVE cache[i] \in 1..arrived
          OBVIOUS
        <5>1. cache[i] \in Nat /\ cache[i] < arrived + 1 /\ cache[i] # 0
          BY <1>t DEF PushOrder, Below, ReadsInOrder
        <5> QED BY <1>t, <5>1
      <4> QED BY <3>2, <4>1
    <3> QED BY <1>a, <3>1, <3>2
  <2>3. \A k \in 1..Len(commands') : \A j \in (k + 1)..Len(commands') : j \in 1..Len(commands')
    BY <1>p
  <2>4. SnapshotUnderWay'
    BY <1>1, <1>a, <2>1, <2>2, <2>3 DEF SnapshotUnderWay
  <2>5. ReadsInOrder'
    BY <1>1, <1>a, <1>n, <1>t DEF ReadsInOrder
  <2>6. AllGiven'
    BY <1>1, <1>a DEF AllGiven
  <2> QED BY <2>4, <2>5, <2>6
<1>i. \A i \in 1..Len(cache) : In(cache[i], cache)
  BY DEF In
<1>3. CASE RedisExec
  <2>1. /\ cache' = IF c.push = 0 THEN cache ELSE FirstN(<<c.push>> \o cache, FeedSize)
        /\ fetched' = IF Awaited(c) THEN cache ELSE fetched
        /\ UNCHANGED omitted
    BY <1>1, <1>3 DEF RedisExec
  <2>2. CASE c.push # 0
    <3>1. \A i \in 1..Len(cache') : cache'[i] = c.push \/ In(cache'[i], cache)
      BY <1>2, <1>t, <2>1, <2>2, OneCached
    <3> QED BY <1>r, <2>1, <2>2, <3>1 DEF Awaited
  <2>3. CASE c.push = 0 /\ ~ Awaited(c)
    BY <1>i, <1>r, <2>1, <2>3
  <2>4. CASE c.push = 0 /\ Awaited(c)
    BY <1>a, <2>1, <2>4 DEF Awaited
  <2> QED BY <2>2, <2>3, <2>4
<1>4. CASE RedisError
  <2>1. /\ cache' = cache /\ omitted \subseteq omitted'
        /\ IF Awaited(c) THEN omitted' = omitted \cup 1..arrived ELSE fetched' = fetched
    BY <1>1, <1>4 DEF RedisError
  <2>2. CASE Awaited(c)
    BY <1>a, <2>1, <2>2 DEF Awaited
  <2>3. CASE ~ Awaited(c)
    BY <1>i, <1>r, <2>1, <2>3
  <2> QED BY <2>2, <2>3
<1> QED BY <1>3, <1>4

\* An event comes.
LEMMA ArriveCovers ==
  ASSUME CoverInv, Arrive
  PROVE  ReadsInOrder' /\ SnapshotUnderWay' /\ AllGiven'
<1> USE DEF gateway, socket, hook
<1> DEFINE e == Msg("event:new", <<arrived'>>, 0, <<>>)
           msgs == <<e>>
           c == [push |-> arrived', read |-> 0]
<1>t. /\ TypeOK /\ ServerType /\ ReadsInOrder /\ SnapshotUnderWay /\ AllGiven
      /\ wire \in Seq(Msgs) /\ Len(wire) \in Nat /\ arrived \in Nat
      /\ commands \in Seq([push : Nat, read : Nat]) /\ Len(commands) \in Nat
  BY TypeParts, Sizes DEF CoverInv, OrderInv
<1>1. /\ arrived' = arrived + 1 /\ ToRoom(msgs) /\ commands' = Append(commands, c)
      /\ omitted' = (IF conn = "assembling" THEN omitted \cup {arrived'} ELSE omitted)
      /\ UNCHANGED <<conn, epoch, fetched, cache, ui>>
  BY DEF Arrive
<1>2. arrived' \in Nat /\ arrived' # 0 /\ c.push = arrived' /\ c \in [push : Nat, read : Nat]
  BY <1>t, <1>1
<1>3. e \in Msgs /\ e.kind = "event:new" /\ e.events = <<arrived'>>
  BY <1>t, <1>2, MessageTypes, MessageFields DEF ServerType
<1> HIDE DEF e, c
<1>4. msgs \in Seq(Msgs) /\ Len(msgs) = 1 /\ msgs[1] = e
  BY <1>3
<1> HIDE DEF msgs
<1>5. /\ Len(commands') = Len(commands) + 1 /\ commands'[Len(commands) + 1] = c
      /\ \A k \in 1..Len(commands) : commands'[k] = commands[k]
  BY <1>t, <1>1, <1>2, AppendProperties
<1>6. \A k \in 1..Len(commands') : k \in 1..Len(commands) \/ k = Len(commands) + 1
  BY <1>t, <1>5
<1>g. ASSUME NEW x, Given(x) PROVE Given(x)'
  <2>1. \A i \in 1..Len(msgs) : msgs[i].kind # "snapshot"
    <3>1. \A i \in 1..Len(msgs) : i = 1
      BY <1>4
    <3> QED BY <1>3, <1>4, <3>1
  <2>2. wire' = wire \o msgs \/ wire' = wire
    BY <1>1 DEF ToRoom
  <2>3. omitted \subseteq omitted' /\ UNCHANGED ui
    BY <1>1
  <2> QED BY <1>g, <1>t, <1>4, <2>1, <2>2, <2>3, GivenStays
<1>7. ReadsInOrder'
  <2>1. ASSUME NEW k \in 1..Len(commands'), commands'[k].push = 0
        PROVE  commands'[k].read <= epoch /\ (conn = "verifying" => commands'[k].read # epoch)
    <3>1. k \in 1..Len(commands) /\ commands'[k] = commands[k]
      BY <1>2, <1>5, <1>6, <2>1
    <3> QED BY <1>t, <2>1, <3>1 DEF ReadsInOrder
  <2> QED BY <1>t, <1>1, <2>1 DEF ReadsInOrder
<1>8. SnapshotUnderWay'
  <2> SUFFICES ASSUME conn = "assembling" PROVE SnapshotUnderWay'
    BY <1>1 DEF SnapshotUnderWay
  <2>1. omitted \subseteq omitted' /\ arrived' \in omitted'
    BY <1>1
  <2>2. ASSUME NEW r \in 1..Len(commands'), commands'[r].push = 0, commands'[r].read = epoch,
               NEW k \in (r + 1)..Len(commands'), commands'[k].push # 0
        PROVE  commands'[k].push \in omitted'
    <3>1. k \in 1..Len(commands')
      BY <1>t, <1>5
    <3>2. CASE k = Len(commands) + 1
      BY <1>2, <1>5, <2>1, <3>2
    <3>3. CASE k \in 1..Len(commands)
      <4>1. r \in 1..Len(commands) /\ k \in (r + 1)..Len(commands)
        BY <1>t, <3>3
      <4> QED BY <1>5, <1>t, <2>1, <2>2, <3>3, <4>1 DEF SnapshotUnderWay
    <3> QED BY <1>6, <3>1, <3>2, <3>3
  <2>3. ASSUME fetched # NotYet, NEW k \in 1..Len(commands'), commands'[k].push # 0
        PROVE  commands'[k].push \in omitted'
    <3>1. CASE k = Len(commands) + 1
      BY <1>2, <1>5, <2>1, <3>1
    <3>2. CASE k \in 1..Len(commands)
      BY <1>5, <1>t, <2>1, <2>3, <3>2 DEF SnapshotUnderWay
    <3> QED BY <1>6, <3>1, <3>2
  <2>4. fetched # NotYet => \A i \in 1..Len(cache) : cache[i] \in omitted' \/ In(cache[i], fetched)
    BY <1>t, <2>1 DEF SnapshotUnderWay
  <2> QED BY <1>1, <2>2, <2>3, <2>4 DEF SnapshotUnderWay
<1>9. AllGiven'
  <2> SUFFICES ASSUME conn = "live" PROVE AllGiven'
    BY <1>1 DEF AllGiven
  <2>1. ASSUME NEW x, x = arrived' PROVE Given(x)'
    <3>1. wire' = wire \o msgs
      BY <1>1 DEF ToRoom, InRoom
    <3>2. /\ Len(wire') = Len(wire) + Len(msgs)
          /\ \A k \in 1..(Len(wire) + Len(msgs)) :
               wire'[k] = IF k <= Len(wire) THEN wire[k] ELSE msgs[k - Len(wire)]
      BY <1>t, <1>4, <3>1, ConcatProperties
    <3>3. Len(wire') = Len(wire) + 1 /\ wire'[Len(wire) + 1] = e
      <4>1. Len(wire) \in Nat
        BY <1>t
      <4>2. Len(msgs) = 1 /\ msgs[1] = e
        BY <1>4
      <4> HIDE DEF msgs, e
      <4> QED BY <3>2, <4>1, <4>2
    <3> DEFINE k == Len(wire) + 1
    <3>4. k \in 1..Len(wire') /\ wire'[k] = e /\ (k + 1)..Len(wire') = {}
      BY <1>t, <3>3
    <3>5. In(x, <<x>>)
      BY DEF In
    <3>6. wire'[k].kind = "event:new" /\ wire'[k].events = <<x>>
      BY <1>3, <2>1, <3>4
    <3> HIDE DEF k
    <3>7. Carried(x)'
      BY <3>4, <3>5, <3>6 DEF Carried, In
    <3> QED BY <3>7 DEF Given
  <2>2. ASSUME NEW k \in 1..Len(commands'), commands'[k].push # 0,
               NEW x, x = commands'[k].push
        PROVE  Given(x)'
    <3>1. CASE k = Len(commands) + 1
      BY <1>2, <1>5, <2>1, <2>2, <3>1
    <3>2. CASE k \in 1..Len(commands)
      <4>1. Given(x)
        BY <1>5, <1>t, <2>2, <3>2 DEF AllGiven
      <4> QED BY <1>g, <4>1
    <3> QED BY <1>6, <3>1, <3>2
  <2>3. ASSUME NEW i \in 1..Len(cache), NEW x, x = cache[i] PROVE Given(x)'
    <3>1. Given(x)
      BY <1>t, <2>3 DEF AllGiven
    <3> QED BY <1>g, <3>1
  <2> QED BY <1>1, <2>2, <2>3 DEF AllGiven
<1> QED BY <1>7, <1>8, <1>9

\* The token of a connection is accepted: the read is the last of the commands.
LEMMA AcceptCovers ==
  ASSUME CoverInv, Accept
  PROVE  ReadsInOrder' /\ SnapshotUnderWay' /\ AllGiven'
<1> DEFINE c == [push |-> 0, read |-> epoch]
<1>t. /\ ReadsInOrder /\ epoch \in Nat
      /\ commands \in Seq([push : Nat, read : Nat]) /\ Len(commands) \in Nat
  BY TypeParts, Sizes DEF CoverInv, OrderInv, ServerType
<1>1. /\ conn = "verifying" /\ conn' = "assembling" /\ commands' = Append(commands, c)
      /\ UNCHANGED <<cache, epoch, fetched>>
  BY DEF Accept
<1>2. c \in [push : Nat, read : Nat] /\ c.push = 0 /\ c.read = epoch
  BY <1>t
<1> HIDE DEF c
<1>3. /\ Len(commands') = Len(commands) + 1 /\ commands'[Len(commands) + 1] = c
      /\ \A k \in 1..Len(commands) : commands'[k] = commands[k]
  BY <1>t, <1>1, <1>2, AppendProperties
<1>4. \A k \in 1..Len(commands') : k \in 1..Len(commands) \/ k = Len(commands) + 1
  BY <1>t, <1>3
<1>5. ReadsInOrder'
  <2>1. ASSUME NEW k \in 1..Len(commands'), commands'[k].push = 0
        PROVE  commands'[k].read <= epoch
    <3>1. CASE k \in 1..Len(commands)
      BY <1>3, <1>t, <2>1, <3>1 DEF ReadsInOrder
    <3>2. CASE k = Len(commands) + 1
      BY <1>2, <1>3, <1>t, <3>2
    <3> QED BY <1>4, <3>1, <3>2
  <2> QED BY <1>1, <1>t, <2>1 DEF ReadsInOrder
<1>6. ASSUME NEW r \in 1..Len(commands'), commands'[r].push = 0, commands'[r].read = epoch
      PROVE  (r + 1)..Len(commands') = {}
  <2>1. r \notin 1..Len(commands)
    BY <1>1, <1>3, <1>6, <1>t DEF ReadsInOrder
  <2> QED BY <1>3, <1>4, <1>t, <2>1
<1>7. fetched' = NotYet
  BY <1>1, <1>t DEF ReadsInOrder
<1>8. SnapshotUnderWay'
  BY <1>1, <1>6, <1>7 DEF SnapshotUnderWay
<1>9. AllGiven'
  BY <1>1 DEF AllGiven
<1> QED BY <1>5, <1>8, <1>9

\* The snapshot is sent: it has what is cached, but for what may be omitted.
LEMMA SnapshotCovers ==
  ASSUME CoverInv, SendSnapshot
  PROVE  ReadsInOrder' /\ SnapshotUnderWay' /\ AllGiven'
<1> USE DEF backend, history
<1>t. /\ TypeOK /\ ServerType /\ ReadsInOrder /\ SnapshotUnderWay
      /\ wire \in Seq(Msgs) /\ Len(wire) \in Nat
  BY TypeParts, Sizes DEF CoverInv, OrderInv
<1>1. PICK seed \in Seeds : wire' = Append(wire, Msg("snapshot", fetched, atJoin, seed))
  BY DEF SendSnapshot
<1>2. /\ conn = "assembling" /\ conn' = "live" /\ fetched # NotYet
      /\ UNCHANGED <<commands, cache, epoch, fetched, omitted>>
  BY DEF SendSnapshot
<1> DEFINE m == Msg("snapshot", fetched, atJoin, seed)
           k == Len(wire) + 1
<1>3. m \in Msgs /\ m.kind = "snapshot" /\ m.events = fetched
  BY <1>t, <1>1, MessageTypes, MessageFields DEF ServerType
<1>4. wire' = Append(wire, m)
  BY <1>1
<1> HIDE DEF m
<1>5. Len(wire') = Len(wire) + 1 /\ wire'[Len(wire) + 1] = m
  BY <1>3, <1>4, <1>t, AppendProperties
<1>6. k \in 1..Len(wire') /\ wire'[k] = m /\ (k + 1)..Len(wire') = {}
  BY <1>5, <1>t
<1> HIDE DEF k
<1>7. ASSUME NEW x, x \in omitted \/ In(x, fetched) PROVE Given(x)'
  <2>1. CASE x \in omitted
    BY <1>2, <2>1 DEF Given
  <2>2. CASE In(x, fetched)
    <3>1. Carried(x)'
      BY <1>3, <1>6, <2>2 DEF Carried, In
    <3> QED BY <3>1 DEF Given
  <2> QED BY <1>7, <2>1, <2>2
<1>8. ASSUME NEW i \in 1..Len(cache), NEW x, x = cache[i] PROVE Given(x)'
  BY <1>2, <1>7, <1>8, <1>t DEF SnapshotUnderWay
<1>9. ASSUME NEW i \in 1..Len(commands), commands[i].push # 0, NEW x, x = commands[i].push
      PROVE  Given(x)'
  BY <1>2, <1>7, <1>9, <1>t DEF SnapshotUnderWay
<1>10. AllGiven'
  BY <1>2, <1>8, <1>9 DEF AllGiven
<1>11. ReadsInOrder' /\ SnapshotUnderWay'
  BY <1>2, <1>t DEF ReadsInOrder, SnapshotUnderWay
<1> QED BY <1>10, <1>11

\* A connection is opened, refused or lost: nothing is claimed of it.
LEMMA NoRoomCovers ==
  ASSUME CoverInv, Open \/ Reject \/ Lose \/ Cleanup
  PROVE  ReadsInOrder' /\ SnapshotUnderWay' /\ AllGiven'
<1> USE DEF backend, gateway
<1>t. /\ ReadsInOrder /\ epoch \in Nat
      /\ \A k \in 1..Len(commands) : commands[k].push = 0 => commands[k].read \in Nat
  <2>1. epoch \in Nat /\ commands \in Seq([push : Nat, read : Nat])
    BY TypeParts DEF CoverInv, OrderInv, ServerType
  <2> DEFINE C == [push : Nat, read : Nat]
  <2>2. commands \in Seq(C) /\ \A c \in C : c.read \in Nat
    BY <2>1
  <2> HIDE DEF C
  <2>3. \A k \in 1..Len(commands) : commands[k] \in C
    BY <2>2
  <2> QED BY <2>1, <2>2, <2>3 DEF CoverInv
<1>1. /\ conn' \in {"none", "verifying"} /\ UNCHANGED <<commands, cache>>
      /\ \/ conn' = "none" /\ epoch' = epoch
         \/ epoch' = epoch + 1 /\ fetched' = NotYet
  BY DEF Open, Reject, Lose, Cleanup, Unplug
<1>2. ASSUME NEW k \in 1..Len(commands), commands[k].push = 0
      PROVE  commands[k].read <= epoch' /\ (epoch' = epoch + 1 => commands[k].read # epoch')
  <2>1. commands[k].read \in Nat /\ commands[k].read <= epoch
    BY <1>2, <1>t DEF ReadsInOrder
  <2> QED BY <1>1, <1>t, <2>1
<1>3. ReadsInOrder'
  BY <1>1, <1>2, <1>t DEF ReadsInOrder
<1>4. SnapshotUnderWay' /\ AllGiven'
  BY <1>1 DEF SnapshotUnderWay, AllGiven
<1> QED BY <1>3, <1>4

\* That a push was executed twice is not forgotten.
LEMMA ResentStays == resent /\ [Next]_vars => resent'
  BY DEF Next, vars, Arrive, RedisExec, RedisError, RedisResend, Tick, TickAlerting, Open, Accept,
         Reject, SendSnapshot, Expire, Listeners, OnConnect, OnSnapshot, OnEvent, OnMetrics,
         OnAlert, OnAuthError, OnServerDisconnect, Receive, Lose, Retry, ConnectError, Cleanup,
         Unplug, history

LEMMA CoverStep == CoverInv /\ [Next]_vars => CoverInv' \/ resent'
<1> SUFFICES ASSUME CoverInv, [Next]_vars, ~ resent'
             PROVE  ReadsInOrder' /\ SnapshotUnderWay' /\ AllGiven'
  BY OrderStep DEF CoverInv
<1>r. ~ RedisResend
  BY DEF RedisResend
<1> USE DEF backend, gateway, socket, hook, history
<1>t. /\ OrderInv /\ ~ resent /\ TypeOK /\ ServerType /\ wire \in Seq(Msgs) /\ ui \in UIType
  BY TypeParts, Sizes DEF CoverInv, OrderInv, ClientType
<1>1. CASE UNCHANGED vars
  <2>1. /\ UNCHANGED <<commands, cache, conn, epoch, fetched, omitted>>
        /\ \A e \in Nat : Given(e) => Given(e)'
    BY <1>1 DEF vars, Given, Carried, Had
  <2> QED BY <2>1, GivingKeepsCover
<1>2. CASE Tick \/ TickAlerting
  <2> DEFINE alert == Msg("alert:raised", <<>>, raised', <<>>)
             msgs == IF Tick THEN <<Update>> ELSE <<Update, alert>>
  <2>1. /\ UNCHANGED <<commands, cache, conn, epoch, fetched, omitted, ui>>
        /\ ToRoom(msgs) /\ (~ Tick => raised' = raised + 1)
    BY <1>2 DEF Tick, TickAlerting
  <2>2. Update \in Msgs /\ Update.kind # "snapshot"
    BY <1>t, MessageTypes, MessageFields DEF ServerType
  <2>3. ~ Tick => alert \in Msgs /\ alert.kind # "snapshot"
    <3>1. ~ Tick => raised' \in Nat
      BY <1>t, <2>1 DEF ServerType
    <3> QED BY <1>t, <3>1, MessageTypes, MessageFields DEF ServerType
  <2> HIDE DEF alert
  <2>4. msgs \in Seq(Msgs) /\ \A i \in 1..Len(msgs) : msgs[i].kind # "snapshot"
    <3>1. CASE Tick
      BY <2>2, <3>1
    <3>2. CASE ~ Tick
      BY <2>2, <2>3, <3>2
    <3> QED BY <3>1, <3>2
  <2> HIDE DEF msgs
  <2>5. \A e \in Nat : Given(e) => Given(e)'
    BY <1>t, <2>1, <2>4, GivenStays DEF ToRoom
  <2> QED BY <2>1, <2>5, GivingKeepsCover
<1>3. CASE Expire \/ Retry \/ ConnectError
  <2>1. /\ UNCHANGED <<commands, cache, conn, epoch, fetched, omitted, wire>>
        /\ ui'.events = ui.events
    BY <1>3, <1>t DEF Expire, Retry, ConnectError, UIType
  <2>2. \A e \in Nat : Given(e) => Given(e)'
    BY <2>1 DEF Given, Carried, Had
  <2> QED BY <2>1, <2>2, GivingKeepsCover
<1>4. CASE Listeners
  <2>1. UNCHANGED <<commands, cache, conn, epoch, fetched, omitted>>
    BY <1>4 DEF Listeners, OnConnect, OnSnapshot, OnEvent, OnMetrics, OnAlert, OnAuthError,
                OnServerDisconnect, Receive
  <2> QED BY <1>4, <1>t, <2>1, GivenReceived, GivingKeepsCover
<1> QED BY <1>1, <1>2, <1>3, <1>4, <1>r, RedisCovers, ArriveCovers, AcceptCovers, SnapshotCovers,
           NoRoomCovers DEF Next

\* When nothing is under way, and as long as Redis has executed no push twice, the feed has
\* every cached event but those that were forwarded while the snapshot of the connection was
\* being assembled, or that Redis failed to tell.
THEOREM OnlyTheOmittedIsMissing == Spec => []OnlyOmittedMissing
<1>1. Init => CoverInv
  <2> SUFFICES ASSUME Init PROVE ~ resent /\ ReadsInOrder /\ SnapshotUnderWay /\ AllGiven
    BY OrderInit DEF CoverInv
  <2>1. conn = "none" /\ commands = <<>> /\ cache = <<>> /\ ~ resent
    BY DEF Init
  <2> QED BY <2>1 DEF ReadsInOrder, SnapshotUnderWay, AllGiven
<1>2. CoverInv \/ resent => OnlyOmittedMissing
  <2> SUFFICES ASSUME CoverInv, Quiet, ~ resent, NEW e \in ToSet(cache) \ (ToSet(ui.events) \cup omitted)
               PROVE  Len(ui.events) = MaxFeedEvents /\ e < Last(ui.events)
    BY DEF OnlyOmittedMissing
  <2>1. conn = "live" /\ wire = <<>>
    BY DEF Quiet
  <2>2. cache \in Seq(Nat) /\ ui.events \in Seq(Nat)
    BY Sizes DEF CoverInv, OrderInv
  <2>3. PICK i \in 1..Len(cache) : cache[i] = e
    BY <2>2 DEF ToSet
  <2>4. Given(e)
    BY <2>1, <2>3 DEF CoverInv, AllGiven
  <2>5. ~ In(e, ui.events)
    BY <2>2 DEF ToSet, In
  <2>6. ~ Carried(e)
    BY <2>1 DEF Carried
  <2> QED BY <2>4, <2>5, <2>6 DEF Given, Had, Last
<1>3. (CoverInv \/ resent) /\ [Next]_vars => (CoverInv \/ resent)'
  <2>1. resent /\ [Next]_vars => resent'
    BY ResentStays
  <2> QED BY <2>1, CoverStep
<1> QED BY <1>1, <1>2, <1>3, PTL DEF Spec
=============================================================================

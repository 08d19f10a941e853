---------------------------- MODULE IngestProofs ----------------------------
(***************************************************************************)
(* For every number of backends, every set of messages and events, every   *)
(* validator and every value of the bounds: the types, that no accepted    *)
(* event is forgotten, and that the ingest path implements the ledger.     *)
(*                                                                         *)
(* For one backend, as long as Redis executes no command twice: the        *)
(* lifetime totals count every row of the table exactly once, and the      *)
(* cached feed is newest first, whatever is lost, failed or restarted.     *)
(***************************************************************************)
EXTENDS Ingest, TLAPS

-----------------------------------------------------------------------------
(***************************************************************************)
(* Lemmas on the sequence operators.                                       *)
(***************************************************************************)
\* A sequence over S has its elements in S.
LEMMA ToSetType == ASSUME NEW S, NEW s \in Seq(S) PROVE ToSet(s) \subseteq S
  BY DEF ToSet

\* The elements after an Append.
LEMMA ToSetAppend ==
  ASSUME NEW S, NEW s \in Seq(S), NEW e \in S
  PROVE  ToSet(Append(s, e)) = ToSet(s) \cup {e}
<1>1. DOMAIN Append(s, e) = DOMAIN s \cup {Len(s) + 1}
  OBVIOUS
<1>2. /\ \A k \in DOMAIN s : Append(s, e)[k] = s[k]
      /\ Append(s, e)[Len(s) + 1] = e
  OBVIOUS
<1>3. QED BY <1>1, <1>2 DEF ToSet

\* No elements.
LEMMA ToSetEmpty == ToSet(<<>>) = {}
  BY DEF ToSet

\* The cached feed after some LPUSHes and LTRIMs: a list of events, cut to its size.
LEMMA PushedType ==
  ASSUME NEW s \in Seq(Events), NEW list \in Seq(Events)
  PROVE  Pushed(s, list) \in Seq(Events) /\ Len(Pushed(s, list)) <= FeedSize
<1> USE FeedAssumption
<1>1. Reverse(s) \in Seq(Events)
  BY DEF Reverse
<1> DEFINE l == Reverse(s) \o list
           n == IF Len(l) > FeedSize THEN FeedSize ELSE Len(l)
<1>2. l \in Seq(Events)
  BY <1>1
<1>3. n \in 0..Len(l) /\ n <= FeedSize
  BY <1>2
<1>4. SubSeq(l, 1, n) \in Seq(Events) /\ Len(SubSeq(l, 1, n)) = n
  BY <1>2, <1>3
<1>5. QED BY <1>3, <1>4 DEF Pushed, Trim

-----------------------------------------------------------------------------
(***************************************************************************)
(* Type correctness.                                                       *)
(***************************************************************************)
\* The batch a flush starts, and the queue it leaves, are events.
LEMMA FlushType ==
  ASSUME Typed, NEW i \in Instances, Flush(i) \/ UNCHANGED batches
  PROVE  /\ pending' \in [Instances -> Seq(Events)]
         /\ flight' \in [Instances -> [Flights -> Seq(Events)]]
<1>1. CASE UNCHANGED batches
  BY <1>1 DEF Typed, batches
<1>2. CASE \E f \in Flights : /\ flight' = [flight EXCEPT ![i][f] = pending[i]]
                             /\ pending' = [pending EXCEPT ![i] = <<>>]
  <2>1. PICK f \in Flights : /\ flight' = [flight EXCEPT ![i][f] = pending[i]]
                            /\ pending' = [pending EXCEPT ![i] = <<>>]
    BY <1>2
  <2>2. pending[i] \in Seq(Events) /\ <<>> \in Seq(Events)
    BY DEF Typed
  <2>3. [flight[i] EXCEPT ![f] = pending[i]] \in [Flights -> Seq(Events)]
    BY <2>2 DEF Typed
  <2>4. flight' = [flight EXCEPT ![i] = [flight[i] EXCEPT ![f] = pending[i]]]
    BY <2>1
  <2>5. QED BY <2>1, <2>2, <2>3, <2>4 DEF Typed
<1>3. QED BY <1>1, <1>2 DEF Flush

\* Memory is well typed, and empty, after the process is gone.
LEMMA GoneType ==
  ASSUME Typed, NEW i \in Instances, Gone(i)
  PROVE  /\ channel' \in Seq(Messages)
         /\ {resends, outages}' \subseteq Nat
         /\ phase' \in [Instances -> Phases]
         /\ inbox' \in [Instances -> Seq(Messages)]
         /\ pending' \in [Instances -> Seq(Events)]
         /\ flight' \in [Instances -> [Flights -> Seq(Events)]]
         /\ caching' \in [Instances -> Seq(Events)]
         /\ counted' \in [Instances -> [Events -> Nat]]
         /\ dropped' \in [Instances -> Nat]
         /\ streamed' \in SUBSET Events
         /\ late' \in [Instances -> SUBSET Events]
<1>1. <<>> \in Seq(Events) /\ <<>> \in Seq(Messages)
  OBVIOUS
<1>2. NoFlights \in [Flights -> Seq(Events)]
  BY <1>1 DEF NoFlights
<1>3. [e \in Events |-> 0] \in [Events -> Nat]
  OBVIOUS
<1>4. "down" \in Phases
  BY DEF Phases
<1>5. QED BY <1>1, <1>2, <1>3, <1>4 DEF Typed, Gone

\* What a handled message is turned into.
LEMMA ParsedType ==
  ASSUME NEW s \in Seq(Messages), s # <<>>
  PROVE  /\ Tail(s) \in Seq(Messages)
         /\ Parse[Head(s)] # NoEvent => Parse[Head(s)] \in Events
  BY ParseAssumption

\* The events of a batch in flight, and of all of them.
LEMMA FlightType ==
  ASSUME Typed, NEW i \in Instances, NEW f \in Flights
  PROVE  flight[i][f] \in Seq(Events) /\ ToSet(flight[i][f]) \subseteq Events
<1>1. flight[i][f] \in Seq(Events)
  BY DEF Typed
<1>2. QED BY <1>1, ToSetType

\* The initial state is well typed.
LEMMA InitType == Init => Typed
  BY FeedAssumption DEF Init, Typed, NoFlights, Phases

\* A crash leaves rows Postgres accepts, a feed of the right size, and no memory.
LEMMA CrashType ==
  ASSUME Typed, NEW i \in Instances, Crash(i)
  PROVE  Typed'
<1>1. Gone(i) /\ restarts' \in Nat
  BY DEF Crash, Typed
<1>2. PICK n \in 0..Len(caching[i]) : cache' = Pushed(SubSeq(caching[i], 1, n), cache)
  BY DEF Crash
<1>3. cache' \in Seq(Events) /\ Len(cache') <= FeedSize
  <2>1. SubSeq(caching[i], 1, n) \in Seq(Events)
    BY DEF Typed
  <2>2. QED BY <1>2, <2>1, PushedType DEF Typed
<1>4. PICK C \in SUBSET {f \in Flights : Insertable(flight[i][f])} :
        /\ table' = table \cup UNION {ToSet(flight[i][f]) : f \in C}
        /\ lost' = lost \cup ToSet(pending[i])
                        \cup UNION {ToSet(flight[i][f]) : f \in Flights \ C}
  BY DEF Crash
<1>5. table' \in SUBSET Storable
  BY <1>4 DEF Typed, Insertable
<1>6. lost' \in SUBSET Events
  <2>1. ToSet(pending[i]) \subseteq Events
    BY ToSetType DEF Typed
  <2>2. QED BY <1>4, <2>1, FlightType DEF Typed
<1>7. QED BY <1>1, <1>3, <1>5, <1>6, GoneType DEF Typed

\* The steps that leave all but a few of the variables alone, action by action.
LEMMA StepType == Typed /\ [Next]_vars => Typed'
<1> SUFFICES ASSUME Typed, [Next]_vars PROVE Typed'
  OBVIOUS
<1>1. ASSUME NEW m \in Messages, Publish(m) \/ Republish(m) PROVE Typed'
  <2> Deliver(m)
    BY <1>1 DEF Publish, Republish
  <2>1. channel' \in Seq(Messages) /\ inbox' \in [Instances -> Seq(Messages)]
    <3>1. \A i \in Instances : Append(inbox[i], m) \in Seq(Messages)
      BY DEF Typed
    <3>2. QED BY <3>1 DEF Deliver, Typed
  <2>2. {resends, restarts, outages}' \subseteq Nat
    BY <1>1 DEF Publish, Republish, budget, Typed
  <2>3. QED BY <2>1, <2>2 DEF Deliver, Typed, batches, totals, stores, history
<1>2. ASSUME NEW i \in Instances, SubscriberReset(i) \/ Unheard(i) \/ HandleMalformed(i)
      PROVE  Typed'
  <2>1. inbox' \in [Instances -> Seq(Messages)]
    <3>1. inbox[i] \in Seq(Messages) /\ inbox[i] # <<>>
      BY <1>2 DEF SubscriberReset, Unheard, HandleMalformed, Typed
    <3>2. Tail(inbox[i]) \in Seq(Messages) /\ <<>> \in Seq(Messages)
      BY <3>1
    <3>3. \/ inbox' = [inbox EXCEPT ![i] = <<>>]
          \/ inbox' = [inbox EXCEPT ![i] = Tail(inbox[i])]
      BY <1>2 DEF SubscriberReset, Unheard, HandleMalformed
    <3>4. QED BY <3>2, <3>3 DEF Typed
  <2>2. dropped' \in [Instances -> Nat]
    <3>1. dropped' = dropped \/ dropped' = [dropped EXCEPT ![i] = dropped[i] + 1]
      BY <1>2 DEF SubscriberReset, Unheard, HandleMalformed, totals
    <3>2. dropped \in [Instances -> Nat] /\ dropped[i] + 1 \in Nat
      BY DEF Typed
    <3>3. QED BY <3>1, <3>2
  <2>3. QED BY <1>2, <2>1, <2>2 DEF SubscriberReset, Unheard, HandleMalformed, Typed,
              budget, batches, totals, stores, history
<1>3. ASSUME NEW i \in Instances, Boot(i) PROVE Typed'
  BY <1>3 DEF Boot, Typed, Phases, budget, wire, batches, stores, history
<1>4. ASSUME NEW i \in Instances, Subscribe(i) \/ Listen(i) PROVE Typed'
  BY <1>4 DEF Subscribe, Listen, Typed, Phases, budget, wire, batches, totals, stores, history
<1>5. ASSUME NEW i \in Instances, HandleEvent(i) PROVE Typed'
  <2> DEFINE e == Parse[Head(inbox[i])]
  <2>1. e \in Events /\ inbox' \in [Instances -> Seq(Messages)]
    <3>1. inbox[i] \in Seq(Messages) /\ inbox[i] # <<>> /\ e # NoEvent
      BY <1>5 DEF HandleEvent, Typed
    <3>2. inbox' = [inbox EXCEPT ![i] = Tail(@)]
      BY <1>5 DEF HandleEvent
    <3>3. QED BY <3>1, <3>2, ParsedType DEF Typed
  <2>2. /\ pending' \in [Instances -> Seq(Events)]
        /\ caching' \in [Instances -> Seq(Events)]
        /\ streamed' \in SUBSET Events
        /\ late' \in [Instances -> SUBSET Events]
    <3>1. /\ pending' = [pending EXCEPT ![i] = Append(@, e)]
          /\ caching' = [caching EXCEPT ![i] = Append(@, e)]
          /\ streamed' = streamed \cup {e}
          /\ late' = late \/ late' = [late EXCEPT ![i] = @ \cup {e}]
      BY <1>5 DEF HandleEvent
    <3>2. e \in Events
      BY <2>1
    <3> HIDE DEF e
    <3>3. /\ pending \in [Instances -> Seq(Events)] /\ caching \in [Instances -> Seq(Events)]
          /\ streamed \in SUBSET Events /\ late \in [Instances -> SUBSET Events]
      BY DEF Typed
    <3>4. pending' \in [Instances -> Seq(Events)] /\ caching' \in [Instances -> Seq(Events)]
      BY <3>1, <3>2, <3>3
    <3>5. streamed' \in SUBSET Events /\ late' \in [Instances -> SUBSET Events]
      BY <3>1, <3>2, <3>3
    <3> QED BY <3>4, <3>5
  <2>3. counted' \in [Instances -> [Events -> Nat]]
    <3>1. counted' = [counted EXCEPT ![i] = [counted[i] EXCEPT ![e] = @ + 1]]
      BY <1>5 DEF HandleEvent
    <3>2. [counted[i] EXCEPT ![e] = @ + 1] \in [Events -> Nat]
      <4>1. counted[i] \in [Events -> Nat]
        BY DEF Typed
      <4>2. e \in Events
        BY <2>1
      <4> HIDE DEF e
      <4> QED BY <4>1, <4>2
    <3>3. QED BY <3>1, <3>2 DEF Typed
  <2>4. QED BY <1>5, <2>1, <2>2, <2>3 DEF HandleEvent, Typed, budget, stores
<1>6. ASSUME NEW i \in Instances, TimerFlush(i) PROVE Typed'
  <2>1. Flush(i)
    BY <1>6 DEF TimerFlush
  <2>2. QED BY <1>6, <2>1, FlushType DEF TimerFlush, Typed, budget, wire, totals, stores, history
<1>7. ASSUME NEW i \in Instances, CacheOk(i) \/ CacheFail(i) \/ CacheResend(i)
      PROVE  Typed'
  <2>1. Head(caching[i]) \in Events /\ Tail(caching[i]) \in Seq(Events)
    BY <1>7 DEF CacheOk, CacheFail, CacheResend, Typed
  <2>2. cache' \in Seq(Events) /\ Len(cache') <= FeedSize
    <3>1. <<Head(caching[i])>> \in Seq(Events) /\ cache \in Seq(Events)
      BY <2>1 DEF Typed
    <3>2. Pushed(<<Head(caching[i])>>, cache) \in Seq(Events)
          /\ Len(Pushed(<<Head(caching[i])>>, cache)) <= FeedSize
      BY <3>1, PushedType
    <3>3. QED BY <1>7, <3>2 DEF CacheOk, CacheFail, CacheResend, Typed
  <2>3. /\ Flush(i) \/ UNCHANGED batches
        /\ {resends, restarts, outages}' \subseteq Nat
    BY <1>7 DEF CacheOk, CacheFail, CacheResend, AfterCaching, Typed, budget
  <2>5. caching' \in [Instances -> Seq(Events)]
    <3>1. caching' = caching \/ caching' = [caching EXCEPT ![i] = Tail(caching[i])]
      BY <1>7 DEF CacheOk, CacheFail, CacheResend, AfterCaching
    <3>2. QED BY <2>1, <3>1 DEF Typed
  <2>4. UNCHANGED <<wire, phase, totals, table, history>>
    BY <1>7 DEF CacheOk, CacheFail, CacheResend, AfterCaching
  <2>6. QED BY <2>2, <2>3, <2>4, <2>5, FlushType DEF Typed, wire, totals, history
<1>8. ASSUME NEW i \in Instances, NEW f \in Flights, InsertOk(i, f) \/ InsertFail(i, f)
      PROVE  Typed'
  <2>1. table' \in SUBSET Storable
    BY <1>8 DEF InsertOk, InsertFail, Insertable, Typed
  <2>2. lost' \in SUBSET Events
    BY <1>8, FlightType DEF InsertOk, InsertFail, Typed, history
  <2>3. flight' \in [Instances -> [Flights -> Seq(Events)]]
    <3>1. flight' = [flight EXCEPT ![i] = [flight[i] EXCEPT ![f] = <<>>]]
      BY <1>8 DEF InsertOk, InsertFail
    <3>2. [flight[i] EXCEPT ![f] = <<>>] \in [Flights -> Seq(Events)]
      BY DEF Typed
    <3>3. QED BY <3>1, <3>2 DEF Typed
  <2>4. {resends, restarts, outages}' \subseteq Nat
    BY <1>8 DEF InsertOk, InsertFail, Typed, budget
  <2>5. UNCHANGED <<wire, phase, pending, caching, totals, cache, streamed, late>>
    BY <1>8 DEF InsertOk, InsertFail, history
  <2>6. QED BY <2>1, <2>2, <2>3, <2>4, <2>5 DEF Typed, wire, totals
<1>9. ASSUME NEW i \in Instances, BeginShutdown(i) PROVE Typed'
  <2>1. Flush(i)
    BY <1>9 DEF BeginShutdown
  <2>2. QED BY <1>9, <2>1, FlushType
             DEF BeginShutdown, Typed, Phases, wire, totals, stores
<1>10. ASSUME NEW i \in Instances, Exit(i) PROVE Typed'
  <2>1. ToSet(pending[i]) \subseteq Events
    BY ToSetType DEF Typed
  <2>2. Gone(i) /\ lost' \in SUBSET Events /\ UNCHANGED <<restarts, stores>>
    BY <1>10, <2>1 DEF Exit, Typed
  <2>3. QED BY <2>2, GoneType DEF Typed, stores
<1>11. ASSUME NEW i \in Instances, Crash(i) PROVE Typed'
  BY <1>11, CrashType
<1>12. CASE UNCHANGED vars
  BY <1>12 DEF Typed, vars, budget, wire, batches, totals, stores, history
<1>13. QED
  BY <1>1, <1>2, <1>3, <1>4, <1>5, <1>6, <1>7, <1>8, <1>9, <1>10, <1>11, <1>12 DEF Next

\* Every reachable state is well typed: in particular the cached feed never grows
\* past its size and no row is stored that its columns cannot hold.
LEMMA AlwaysTyped == Spec => []Typed
  BY InitType, StepType, PTL DEF Spec

Forgets(i) == phase[i] = "down" => Memory(i) = NoMemory

\* A step of one backend leaves the memory of the others alone; nothing that is under
\* way, and no handler, belongs to one that is down, and one that goes down is emptied.
LEMMA ForgetsStep ==
  ASSUME Typed, \A i \in Instances : Forgets(i), [Next]_vars, NEW i \in Instances
  PROVE  Forgets(i)'
<1> USE DEF Memory, NoMemory
<1>1. CASE UNCHANGED vars
  BY <1>1 DEF Forgets, vars, wire, batches, totals
<1>2. ASSUME NEW m \in Messages, Publish(m) \/ Republish(m) PROVE Forgets(i)'
  BY <1>2 DEF Publish, Republish, Deliver, Listening, Forgets, Typed, batches, totals
<1>3. ASSUME NEW j \in Instances, SubscriberReset(j) \/ Unheard(j) \/ HandleMalformed(j)
      PROVE  Forgets(i)'
  <2>1. inbox[j] # <<>> /\ phase' = phase
    BY <1>3 DEF SubscriberReset, Unheard, HandleMalformed
  <2>2. phase[j] # "down"
    BY <2>1 DEF Forgets
  <2>3. i # j => Memory(i)' = Memory(i)
    BY <1>3 DEF SubscriberReset, Unheard, HandleMalformed, Typed, batches, totals
  <2>4. QED BY <2>1, <2>2, <2>3 DEF Forgets
<1>4. ASSUME NEW j \in Instances, Boot(j) \/ Subscribe(j) \/ Listen(j) PROVE Forgets(i)'
  <2>1. phase'[j] # "down" /\ (i # j => phase'[i] = phase[i])
    BY <1>4 DEF Boot, Subscribe, Listen, Typed
  <2>2. i # j => Memory(i)' = Memory(i)
    BY <1>4 DEF Boot, Subscribe, Listen, Typed, wire, batches, totals
  <2>3. QED BY <2>1, <2>2 DEF Forgets
<1>5. ASSUME NEW j \in Instances, HandleEvent(j) PROVE Forgets(i)'
  <2>1. phase[j] # "down" /\ phase' = phase
    BY <1>5 DEF HandleEvent, Handling
  <2>2. i # j => Memory(i)' = Memory(i)
    BY <1>5 DEF HandleEvent, Typed
  <2>3. QED BY <2>1, <2>2 DEF Forgets
<1>6. ASSUME NEW j \in Instances, Flush(j) \/ UNCHANGED batches
      PROVE  i # j => pending'[i] = pending[i] /\ flight'[i] = flight[i]
  BY <1>6 DEF Flush, batches, Typed
<1>7. ASSUME NEW j \in Instances, TimerFlush(j) \/ BeginShutdown(j) PROVE Forgets(i)'
  <2>1. phase[j] # "down" /\ phase'[j] # "down" /\ (i # j => phase'[i] = phase[i])
    BY <1>7 DEF TimerFlush, BeginShutdown, Typed
  <2>2. i # j => Memory(i)' = Memory(i)
    BY <1>6, <1>7 DEF TimerFlush, BeginShutdown, wire, totals
  <2>3. QED BY <2>1, <2>2 DEF Forgets
<1>8. ASSUME NEW j \in Instances, CacheOk(j) \/ CacheFail(j) \/ CacheResend(j)
      PROVE  Forgets(i)'
  <2>1. caching[j] # <<>> /\ phase' = phase
    BY <1>8 DEF CacheOk, CacheFail, CacheResend, AfterCaching
  <2>2. phase[j] # "down"
    BY <2>1 DEF Forgets
  <2>3. i # j => pending'[i] = pending[i] /\ flight'[i] = flight[i]
    BY <1>6, <1>8 DEF CacheOk, CacheFail, CacheResend, AfterCaching
  <2>4. i # j => Memory(i)' = Memory(i)
    BY <1>8, <2>3 DEF CacheOk, CacheFail, CacheResend, AfterCaching, Typed, wire, totals
  <2>5. QED BY <2>1, <2>2, <2>4 DEF Forgets
<1>9. ASSUME NEW j \in Instances, NEW f \in Flights, InsertOk(j, f) \/ InsertFail(j, f)
      PROVE  Forgets(i)'
  <2>1. flight[j][f] # <<>> /\ phase' = phase
    BY <1>9 DEF InsertOk, InsertFail
  <2>2. phase[j] # "down"
    BY <2>1 DEF Forgets, NoFlights
  <2>3. i # j => Memory(i)' = Memory(i)
    BY <1>9 DEF InsertOk, InsertFail, Typed, wire, totals
  <2>4. QED BY <2>1, <2>2, <2>3 DEF Forgets
<1>10. ASSUME NEW j \in Instances, Exit(j) \/ Crash(j) PROVE Forgets(i)'
  <2>1. Gone(j)
    BY <1>10 DEF Exit, Crash
  <2>2. Memory(j)' = NoMemory
    BY <2>1 DEF Gone, Typed
  <2>3. i # j => phase'[i] = phase[i] /\ Memory(i)' = Memory(i)
    BY <2>1 DEF Gone, Typed
  <2>4. QED BY <2>2, <2>3 DEF Forgets
<1>11. QED BY <1>1, <1>2, <1>3, <1>4, <1>5, <1>7, <1>8, <1>9, <1>10 DEF Next

\* Every reachable state is well typed, and a backend that is down has no memory.
THEOREM TypeCorrect == Spec => []TypeOK
<1>1. Init => \A i \in Instances : Forgets(i)
  BY DEF Init, Forgets, Memory, NoMemory
<1>2. Typed /\ (\A i \in Instances : Forgets(i)) /\ [Next]_vars
        => (\A i \in Instances : Forgets(i))'
  BY ForgetsStep
<1>3. Spec => [](\A i \in Instances : Forgets(i))
  BY <1>1, <1>2, AlwaysTyped, PTL DEF Spec
<1>4. Typed /\ (\A i \in Instances : Forgets(i)) => TypeOK
  BY DEF TypeOK, Forgets
<1>5. QED BY <1>3, <1>4, AlwaysTyped, PTL

-----------------------------------------------------------------------------
(***************************************************************************)
(* No accepted event is forgotten.  The invariant is inductive with the    *)
(* types: each structure an event leaves, it leaves for another one.       *)
(***************************************************************************)
Queued(e, i) == \/ e \in ToSet(pending[i])
                \/ \E f \in Flights : e \in ToSet(flight[i][f])

Somewhere(e) == e \in table \/ e \in lost \/ \E i \in Instances : Queued(e, i)

\* NothingForgotten, event by event.
LEMMA SomewhereDef == NothingForgotten <=> \A e \in streamed : Somewhere(e)
  BY DEF NothingForgotten, Waiting, InFlight, Somewhere, Queued

\* flush moves the whole queue to an idle slot: what waits still waits.
LEMMA FlushKeeps ==
  ASSUME Typed, NEW i \in Instances, Flush(i) \/ UNCHANGED batches,
         NEW e, NEW j \in Instances, Queued(e, j)
  PROVE  Queued(e, j)'
<1>1. CASE UNCHANGED batches
  BY <1>1 DEF Queued, batches
<1>2. CASE \E f \in Flights : /\ FirstFree(i, f)
                             /\ flight' = [flight EXCEPT ![i][f] = pending[i]]
                             /\ pending' = [pending EXCEPT ![i] = <<>>]
  <2>1. PICK f \in Flights : /\ flight[i][f] = <<>>
                            /\ flight' = [flight EXCEPT ![i][f] = pending[i]]
                            /\ pending' = [pending EXCEPT ![i] = <<>>]
    BY <1>2 DEF FirstFree
  <2>2. CASE j # i
    <3>1. pending'[j] = pending[j] /\ flight'[j] = flight[j]
      BY <2>1, <2>2 DEF Typed
    <3>2. QED BY <3>1 DEF Queued
  <2>3. CASE j = i /\ e \in ToSet(pending[i])
    <3>1. flight'[i][f] = pending[i]
      BY <2>1 DEF Typed
    <3>2. QED BY <2>3, <3>1 DEF Queued
  <2>4. ASSUME j = i, NEW g \in Flights, e \in ToSet(flight[i][g]) PROVE Queued(e, j)'
    <3>1. g # f
      BY <2>1, <2>4, ToSetEmpty
    <3>2. flight'[i][g] = flight[i][g]
      BY <2>1, <3>1 DEF Typed
    <3>3. QED BY <2>4, <3>2 DEF Queued
  <2>5. QED BY <2>2, <2>3, <2>4 DEF Queued
<1>3. QED BY <1>1, <1>2 DEF Flush

\* A step that only adds to the rows and to the given up, and leaves the queues.
LEMMA QuietKeeps ==
  ASSUME table \subseteq table', lost \subseteq lost', UNCHANGED batches,
         NEW e, Somewhere(e)
  PROVE  Somewhere(e)'
  BY DEF Somewhere, Queued, batches

\* A batch that is answered puts its events in the table or among the given up.
LEMMA AnswerKeeps ==
  ASSUME Typed, NEW i \in Instances, NEW f \in Flights,
         table \subseteq table', lost \subseteq lost',
         ToSet(flight[i][f]) \subseteq table' \cup lost',
         flight' = [flight EXCEPT ![i][f] = <<>>], pending' = pending,
         NEW e, Somewhere(e)
  PROVE  Somewhere(e)'
<1>1. CASE e \in table \/ e \in lost
  BY <1>1 DEF Somewhere
<1>2. ASSUME NEW j \in Instances, e \in ToSet(pending[j]) PROVE Somewhere(e)'
  BY <1>2 DEF Somewhere, Queued
<1>3. ASSUME NEW j \in Instances, NEW g \in Flights, e \in ToSet(flight[j][g])
      PROVE  Somewhere(e)'
  <2>1. CASE j = i /\ g = f
    BY <1>3, <2>1 DEF Somewhere
  <2>2. CASE j # i \/ g # f
    <3>1. flight'[j][g] = flight[j][g]
      BY <2>2 DEF Typed
    <3>2. QED BY <1>3, <3>1 DEF Somewhere, Queued
  <2>3. QED BY <2>1, <2>2
<1>4. QED BY <1>1, <1>2, <1>3 DEF Somewhere, Queued

\* What the memory of a process held is in the table or among the given up.
LEMMA GoneKeeps ==
  ASSUME Typed, NEW i \in Instances, Gone(i),
         table \subseteq table', lost \subseteq lost',
         \A e : Queued(e, i) => e \in table' \cup lost',
         NEW e, Somewhere(e)
  PROVE  Somewhere(e)'
<1>1. CASE e \in table \/ e \in lost \/ Queued(e, i)
  BY <1>1 DEF Somewhere
<1>2. ASSUME NEW j \in Instances, j # i, Queued(e, j) PROVE Somewhere(e)'
  <2>1. pending'[j] = pending[j] /\ flight'[j] = flight[j]
    BY <1>2 DEF Gone, Typed
  <2>2. QED BY <1>2, <2>1 DEF Somewhere, Queued
<1>3. QED BY <1>1, <1>2 DEF Somewhere

\* An exit leaves no batch in flight and gives up the queue; a crash gives up
\* whatever Postgres does not commit.
LEMMA ExitGivesUp ==
  ASSUME NEW i \in Instances, Exit(i), NEW e, Queued(e, i)
  PROVE  e \in table' \cup lost'
<1>1. \A f \in Flights : ToSet(flight[i][f]) = {}
  BY ToSetEmpty DEF Exit, NoFlights
<1>2. QED BY <1>1 DEF Exit, Queued

\* After a crash whatever was queued or in flight is stored or given up.
LEMMA CrashGivesUp ==
  ASSUME NEW i \in Instances, Crash(i), NEW e, Queued(e, i)
  PROVE  e \in table' \cup lost'
  BY DEF Crash, Queued

\* A crash takes no row and no given up event away.
LEMMA CrashGrows ==
  ASSUME NEW i \in Instances, Crash(i)
  PROVE  table \subseteq table' /\ lost \subseteq lost'
  BY DEF Crash

\* An event that is somewhere stays somewhere, whatever the step.
LEMMA StepKeeps ==
  ASSUME Typed, [Next]_vars, NEW e, Somewhere(e)
  PROVE  Somewhere(e)'
<1>1. ASSUME NEW m \in Messages, Publish(m) \/ Republish(m) PROVE Somewhere(e)'
  BY <1>1, QuietKeeps DEF Publish, Republish, Deliver, stores, history
<1>2. ASSUME NEW i \in Instances,
             \/ SubscriberReset(i) \/ Boot(i) \/ Subscribe(i) \/ Unheard(i) \/ Listen(i)
             \/ HandleMalformed(i) \/ CacheResend(i)
      PROVE  Somewhere(e)'
  BY <1>2, QuietKeeps DEF SubscriberReset, Boot, Subscribe, Unheard, Listen,
     HandleMalformed, CacheResend, stores, history
<1>3. ASSUME NEW i \in Instances, HandleEvent(i) PROVE Somewhere(e)'
  <2> DEFINE d == Parse[Head(inbox[i])]
  <2>1. /\ pending' = [pending EXCEPT ![i] = Append(pending[i], d)]
        /\ d \in Events
        /\ UNCHANGED <<flight, table, lost>>
    <3>1. inbox[i] \in Seq(Messages)
      BY DEF Typed
    <3>2. QED BY <1>3, <3>1, ParsedType DEF HandleEvent, stores
  <2>2. ToSet(Append(pending[i], d)) = ToSet(pending[i]) \cup {d}
    BY <2>1, ToSetAppend DEF Typed
  <2>3. \A j \in Instances : ToSet(pending[j]) \subseteq ToSet(pending'[j])
    BY <2>1, <2>2 DEF Typed
  <2>4. QED BY <2>1, <2>3 DEF Somewhere, Queued
<1>4. ASSUME NEW i \in Instances,
             TimerFlush(i) \/ CacheOk(i) \/ CacheFail(i) \/ BeginShutdown(i)
      PROVE  Somewhere(e)'
  <2>1. Flush(i) \/ UNCHANGED batches
    BY <1>4 DEF TimerFlush, CacheOk, CacheFail, AfterCaching, BeginShutdown
  <2>2. UNCHANGED <<table, lost>>
    BY <1>4 DEF TimerFlush, CacheOk, CacheFail, AfterCaching, BeginShutdown, stores, history
  <2>3. QED BY <2>1, <2>2, FlushKeeps DEF Somewhere
<1>5. ASSUME NEW i \in Instances, NEW f \in Flights, InsertOk(i, f) \/ InsertFail(i, f)
      PROVE  Somewhere(e)'
  <2>1. /\ table \subseteq table' /\ lost \subseteq lost'
        /\ ToSet(flight[i][f]) \subseteq table' \cup lost'
        /\ flight' = [flight EXCEPT ![i][f] = <<>>]
        /\ pending' = pending
    BY <1>5 DEF InsertOk, InsertFail, history
  <2>2. QED BY <2>1, AnswerKeeps
<1>6. ASSUME NEW i \in Instances, Exit(i) PROVE Somewhere(e)'
  <2>1. Gone(i) /\ table \subseteq table' /\ lost \subseteq lost'
    BY <1>6 DEF Exit, stores
  <2>2. QED BY <1>6, <2>1, ExitGivesUp, GoneKeeps
<1>7. ASSUME NEW i \in Instances, Crash(i) PROVE Somewhere(e)'
  <2>1. Gone(i)
    BY <1>7 DEF Crash
  <2>2. QED BY <1>7, <2>1, CrashGrows, CrashGivesUp, GoneKeeps
<1>8. CASE UNCHANGED vars
  BY <1>8, QuietKeeps DEF vars, stores, history
<1>9. QED
  BY <1>1, <1>2, <1>3, <1>4, <1>5, <1>6, <1>7, <1>8 DEF Next

\* The one step that accepts an event puts it in the queue.
LEMMA NewIsQueued ==
  ASSUME Typed, [Next]_vars, NEW e \in streamed', e \notin streamed
  PROVE  Somewhere(e)'
<1>1. PICK i \in Instances : HandleEvent(i)
  BY ZenonT(40) DEF Next, vars, Publish, Republish, Deliver, SubscriberReset, Boot, Subscribe, Unheard,
     Listen, HandleMalformed, TimerFlush, CacheOk, CacheFail, CacheResend, AfterCaching,
     InsertOk, InsertFail, BeginShutdown, Exit, Crash, Gone, history
<1> DEFINE d == Parse[Head(inbox[i])]
<1>2. d \in Events
  <2>1. inbox[i] \in Seq(Messages)
    BY DEF Typed
  <2>2. QED BY <1>1, <2>1, ParsedType DEF HandleEvent
<1>3. e = d /\ pending' = [pending EXCEPT ![i] = Append(pending[i], d)]
  BY <1>1 DEF HandleEvent
<1>4. e \in ToSet(pending'[i])
  <2>1. ToSet(Append(pending[i], d)) = ToSet(pending[i]) \cup {d}
    BY <1>2, ToSetAppend DEF Typed
  <2>2. QED BY <1>3, <2>1 DEF Typed
<1>5. QED BY <1>4 DEF Somewhere, Queued

\* For any number of backends, restarts, crashes and failed inserts: an event that
\* was shown to a dashboard is queued, in flight, stored, or given up.
THEOREM NothingIsForgotten == Spec => []NothingForgotten
<1>1. Init => NothingForgotten
  BY DEF Init, NothingForgotten
<1>2. Typed /\ NothingForgotten /\ [Next]_vars => NothingForgotten'
  <2> SUFFICES ASSUME Typed, NothingForgotten, [Next]_vars PROVE NothingForgotten'
    OBVIOUS
  <2>1. \A e \in streamed : Somewhere(e)'
    BY SomewhereDef, StepKeeps
  <2>2. \A e \in streamed' \ streamed : Somewhere(e)'
    BY NewIsQueued
  <2>3. (\A e \in streamed : Somewhere(e))'
    BY <2>1, <2>2
  <2>4. QED BY <2>3, SomewhereDef, PTL
<1>3. QED BY <1>1, <1>2, AlwaysTyped, PTL DEF Spec

-----------------------------------------------------------------------------
(***************************************************************************)
(* The ingest path implements the ledger.  The simulation needs that what  *)
(* is queued was accepted: only such events may be settled.                *)
(***************************************************************************)
OnlyAccepted == \A i \in Instances : \A e : Queued(e, i) => e \in streamed

\* Every step but HandleEvent only moves queued events, or takes them away.
LEMMA NothingNewQueued ==
  ASSUME Typed, [Next]_vars, NEW i \in Instances, NEW e, Queued(e, i)'
  PROVE  Queued(e, i) \/ (HandleEvent(i) /\ e = Parse[Head(inbox[i])])
<1>1. CASE UNCHANGED batches
  BY <1>1 DEF Queued, batches
<1>2. ASSUME NEW j \in Instances, Flush(j) PROVE Queued(e, i)
  <2>1. CASE \E f \in Flights : /\ flight' = [flight EXCEPT ![j][f] = pending[j]]
                               /\ pending' = [pending EXCEPT ![j] = <<>>]
    <3>1. PICK f \in Flights : /\ flight' = [flight EXCEPT ![j][f] = pending[j]]
                              /\ pending' = [pending EXCEPT ![j] = <<>>]
      BY <2>1
    <3>2. \/ pending'[i] = pending[i]
          \/ ToSet(pending'[i]) = {}
      BY <3>1, ToSetEmpty DEF Typed
    <3>3. \A g \in Flights : flight'[i][g] = flight[i][g] \/ flight'[i][g] = pending[i]
      BY <3>1 DEF Typed
    <3>4. CASE e \in ToSet(pending'[i])
      BY <3>2, <3>4 DEF Queued
    <3>5. ASSUME NEW g \in Flights, e \in ToSet(flight'[i][g]) PROVE Queued(e, i)
      BY <3>3, <3>5 DEF Queued
    <3>6. QED BY <3>4, <3>5 DEF Queued
  <2>2. CASE UNCHANGED batches
    BY <2>2 DEF Queued, batches
  <2>3. QED BY <1>2, <2>1, <2>2 DEF Flush
<1>3. ASSUME NEW j \in Instances, HandleEvent(j)
      PROVE  Queued(e, i) \/ (HandleEvent(i) /\ e = Parse[Head(inbox[i])])
  <2> DEFINE d == Parse[Head(inbox[j])]
  <2>1. /\ pending' = [pending EXCEPT ![j] = Append(pending[j], d)]
        /\ d \in Events
        /\ UNCHANGED flight
    <3>1. inbox[j] \in Seq(Messages)
      BY DEF Typed
    <3>2. QED BY <1>3, <3>1, ParsedType DEF HandleEvent
  <2>2. ToSet(Append(pending[j], d)) = ToSet(pending[j]) \cup {d}
    <3>1. pending[j] \in Seq(Events) /\ d \in Events
      BY <2>1 DEF Typed
    <3> HIDE DEF d
    <3> QED BY <3>1, ToSetAppend
  <2>3. \/ pending'[i] = pending[i]
        \/ i = j /\ ToSet(pending'[i]) = ToSet(pending[i]) \cup {d}
    BY <2>1, <2>2 DEF Typed
  <2>4. QED BY <1>3, <2>1, <2>3 DEF Queued
<1>4. ASSUME NEW j \in Instances, NEW f \in Flights, InsertOk(j, f) \/ InsertFail(j, f)
      PROVE  Queued(e, i)
  <2>1. flight' = [flight EXCEPT ![j][f] = <<>>] /\ UNCHANGED pending
    BY <1>4 DEF InsertOk, InsertFail
  <2>2. \A g \in Flights : flight'[i][g] = flight[i][g] \/ ToSet(flight'[i][g]) = {}
    BY <2>1, ToSetEmpty DEF Typed
  <2>3. QED BY <2>1, <2>2 DEF Queued
<1>5. ASSUME NEW j \in Instances, Gone(j) PROVE Queued(e, i)
  <2>1. \/ pending'[i] = pending[i] /\ flight'[i] = flight[i]
        \/ pending'[i] = <<>> /\ flight'[i] = NoFlights
    BY <1>5 DEF Gone, Typed
  <2>2. CASE pending'[i] = <<>> /\ flight'[i] = NoFlights
    BY <2>2, ToSetEmpty DEF Queued, NoFlights
  <2>3. QED BY <2>1, <2>2 DEF Queued
<1>6. QED
  BY <1>1, <1>2, <1>3, <1>4, <1>5 DEF Next, vars, Publish, Republish, Deliver,
     SubscriberReset, Boot, Subscribe, Unheard, Listen, HandleMalformed, TimerFlush,
     CacheOk, CacheFail, CacheResend, AfterCaching, BeginShutdown, Exit, Crash

\* The history of accepted events only grows.
LEMMA StreamedGrows == [Next]_vars => streamed \subseteq streamed'
<1> SUFFICES ASSUME [Next]_vars PROVE streamed \subseteq streamed'
  OBVIOUS
<1>1. ASSUME NEW i \in Instances,
             Boot(i) \/ Subscribe(i) \/ Unheard(i) \/ Listen(i) \/ HandleMalformed(i) \/ HandleEvent(i)
      PROVE  streamed \subseteq streamed'
  BY <1>1 DEF Boot, Subscribe, Unheard, Listen, HandleMalformed, HandleEvent, history
<1>2. ASSUME NEW i \in Instances, TimerFlush(i) \/ CacheOk(i) \/ CacheFail(i) \/ CacheResend(i)
      PROVE  streamed \subseteq streamed'
  BY <1>2 DEF TimerFlush, CacheOk, CacheFail, CacheResend, AfterCaching, history
<1>3. ASSUME NEW i \in Instances, BeginShutdown(i) \/ Exit(i) \/ Crash(i)
                                 \/ \E f \in Flights : InsertOk(i, f) \/ InsertFail(i, f)
      PROVE  streamed \subseteq streamed'
  BY <1>3 DEF InsertOk, InsertFail, BeginShutdown, Exit, Crash, Gone, history
<1>4. QED
  BY <1>1, <1>2, <1>3 DEF Next, vars, Publish, Republish, Deliver, SubscriberReset, history

\* Only events that were accepted are queued or in flight.
LEMMA OnlyAcceptedInv == Spec => []OnlyAccepted
<1>1. Init => OnlyAccepted
  BY ToSetEmpty DEF Init, OnlyAccepted, Queued, NoFlights
<1>2. Typed /\ OnlyAccepted /\ [Next]_vars => OnlyAccepted'
  <2>1. \A i \in Instances : HandleEvent(i) => Parse[Head(inbox[i])] \in streamed'
    BY DEF HandleEvent
  <2> QED BY <2>1, NothingNewQueued, StreamedGrows DEF OnlyAccepted
<1>3. QED BY <1>1, <1>2, AlwaysTyped, PTL DEF Spec

\* A step of the ingest path on what the ledger sees: it accepts an event, or it
\* settles events that were accepted, or it shows nothing.
LEMMA LedgerStep ==
  ASSUME Typed, OnlyAccepted, [Next]_vars
  PROVE  [Ledger!Next]_(Ledger!ledger)
<1>1. ASSUME UNCHANGED streamed, NEW S \in SUBSET streamed, NEW G \in SUBSET streamed,
             table' = table \cup S, lost' = lost \cup G
      PROVE  Ledger!Next
  BY <1>1 DEF Ledger!Next, Ledger!Settle
<1>2. ASSUME NEW i \in Instances
      PROVE  /\ ToSet(pending[i]) \subseteq streamed
             /\ \A f \in Flights : ToSet(flight[i][f]) \subseteq streamed
  BY DEF OnlyAccepted, Queued
<1>3. CASE UNCHANGED <<streamed, table, lost>>
  BY <1>3 DEF Ledger!ledger
<1>4. ASSUME NEW i \in Instances, HandleEvent(i) PROVE Ledger!Next
  <2>1. inbox[i] \in Seq(Messages)
    BY DEF Typed
  <2>2. PICK e \in Events : streamed' = streamed \cup {e} /\ UNCHANGED <<table, lost>>
    BY <1>4, <2>1, ParsedType DEF HandleEvent, stores
  <2>3. Ledger!Accept(e)
    BY <2>2 DEF Ledger!Accept
  <2>4. QED BY <2>3 DEF Ledger!Next
<1>5. ASSUME NEW i \in Instances, NEW f \in Flights, InsertOk(i, f) \/ InsertFail(i, f)
      PROVE  Ledger!Next
  <2> DEFINE B == ToSet(flight[i][f])
  <2>1. /\ UNCHANGED streamed
        /\ table' = table \/ table' = table \cup B
        /\ lost' = lost \/ lost' = lost \cup B
    BY <1>5 DEF InsertOk, InsertFail, history
  <2>2. PICK S \in {{}, B} : table' = table \cup S
    BY <2>1
  <2>3. PICK G \in {{}, B} : lost' = lost \cup G
    BY <2>1
  <2>4. B \subseteq streamed
    BY <1>2
  <2>5. S \in SUBSET streamed /\ G \in SUBSET streamed
    BY <2>4
  <2>6. QED BY <1>1, <2>1, <2>2, <2>3, <2>5
<1>6. ASSUME NEW i \in Instances, Exit(i) PROVE Ledger!Next
  <2>1. UNCHANGED <<streamed, table>> /\ lost' = lost \cup ToSet(pending[i])
    BY <1>6 DEF Exit, Gone, stores
  <2>2. table' = table \cup {} /\ {} \in SUBSET streamed
    BY <2>1
  <2>3. ToSet(pending[i]) \in SUBSET streamed
    BY <1>2
  <2>4. QED BY <1>1, <2>1, <2>2, <2>3
<1>7. ASSUME NEW i \in Instances, Crash(i) PROVE Ledger!Next
  <2>1. PICK C \in SUBSET {f \in Flights : Insertable(flight[i][f])} :
          /\ table' = table \cup UNION {ToSet(flight[i][f]) : f \in C}
          /\ lost' = lost \cup ToSet(pending[i])
                          \cup UNION {ToSet(flight[i][f]) : f \in Flights \ C}
    BY <1>7 DEF Crash
  <2> DEFINE S == UNION {ToSet(flight[i][f]) : f \in C}
             G == ToSet(pending[i]) \cup UNION {ToSet(flight[i][f]) : f \in Flights \ C}
  <2>2. S \in SUBSET streamed /\ G \in SUBSET streamed
    BY <1>2
  <2>3. UNCHANGED streamed
    BY <1>7 DEF Crash, Gone
  <2>4. table' = table \cup S /\ lost' = lost \cup G
    BY <2>1
  <2>5. QED BY <1>1, <2>2, <2>3, <2>4
<1>8. QED
  BY <1>3, <1>4, <1>5, <1>6, <1>7 DEF Next, vars, Publish, Republish, Deliver,
     SubscriberReset, Boot, Subscribe, Unheard, Listen, HandleMalformed, TimerFlush,
     CacheOk, CacheFail, CacheResend, AfterCaching, BeginShutdown, stores, history

\* Rows are never removed, nothing is stored or given up that no dashboard was shown
\* first, and acceptance is for ever: the safety of the ledger.
THEOREM ImplementsLedger == Spec => LedgerSafety
<1>1. Init => Ledger!Init
  BY DEF Init, Ledger!Init
<1>2. Typed /\ OnlyAccepted /\ [Next]_vars => [Ledger!Next]_(Ledger!ledger)
  BY LedgerStep
<1>3. QED
  BY <1>1, <1>2, AlwaysTyped, OnlyAcceptedInv, PTL DEF Spec, LedgerSafety, Ledger!Safety

-----------------------------------------------------------------------------
(***************************************************************************)
(* The final flush: an orderly shutdown takes the whole queue, and what    *)
(* joins it afterwards is late.                                            *)
(***************************************************************************)
\* flush leaves the queue of its backend empty, and no other queue changes.
LEMMA FlushEmpties ==
  ASSUME Typed, NEW i \in Instances, Flush(i) \/ UNCHANGED batches, NEW j \in Instances
  PROVE  /\ pending'[j] = pending[j] \/ pending'[j] = <<>>
         /\ Flush(i) => pending'[i] = <<>>
<1>1. CASE UNCHANGED batches /\ ~ Flush(i)
  BY <1>1 DEF batches
<1>2. CASE Flush(i)
  <2>1. CASE pending[i] = <<>> /\ UNCHANGED batches
    BY <2>1 DEF batches
  <2>2. CASE pending' = [pending EXCEPT ![i] = <<>>]
    BY <2>2 DEF Typed
  <2> QED BY <1>2, <2>1, <2>2 DEF Flush
<1> QED BY <1>1, <1>2

\* A step that neither shuts a backend down nor hands it an event.
LEMMA QueueOnlyShrinks ==
  ASSUME Typed, FinalFlush,
         \A j \in Instances : pending'[j] = pending[j] \/ pending'[j] = <<>>,
         \A j \in Instances : phase'[j] = "closing" => phase[j] = "closing",
         UNCHANGED late
  PROVE  FinalFlush'
<1> SUFFICES ASSUME NEW j \in Instances, phase'[j] = "closing"
             PROVE  ToSet(pending'[j]) \subseteq late'[j]
  BY DEF FinalFlush
<1> QED BY ToSetEmpty DEF FinalFlush

\* An event handled while its backend closes is late.
LEMMA HandlingIsLate ==
  ASSUME Typed, FinalFlush, NEW i \in Instances, HandleEvent(i)
  PROVE  FinalFlush'
<1> DEFINE d == Parse[Head(inbox[i])]
<1>1. d \in Events
  <2>1. inbox[i] \in Seq(Messages) /\ inbox[i] # <<>>
    BY DEF Typed, HandleEvent
  <2> QED BY <2>1, ParsedType DEF HandleEvent
<1>2. /\ pending' = [pending EXCEPT ![i] = Append(@, d)]
      /\ late' = IF phase[i] = "closing" THEN [late EXCEPT ![i] = @ \cup {d}] ELSE late
      /\ UNCHANGED phase
  BY DEF HandleEvent
<1> HIDE DEF d
<1> SUFFICES ASSUME NEW j \in Instances, phase[j] = "closing"
             PROVE  ToSet(pending'[j]) \subseteq late'[j]
  BY <1>2 DEF FinalFlush
<1>3. CASE j # i
  <2>1. pending'[j] = pending[j] /\ late'[j] = late[j]
    BY <1>2, <1>3 DEF Typed
  <2> QED BY <2>1 DEF FinalFlush
<1>4. CASE j = i
  <2>1. pending'[i] = Append(pending[i], d) /\ late'[i] = late[i] \cup {d}
    BY <1>2, <1>4 DEF Typed
  <2>2. ToSet(pending'[i]) = ToSet(pending[i]) \cup {d}
    BY <1>1, <2>1, ToSetAppend DEF Typed
  <2> QED BY <1>4, <2>1, <2>2 DEF FinalFlush
<1> QED BY <1>3, <1>4

\* For any number of backends and events: what an orderly shutdown leaves unsaved
\* arrived after it began.
THEOREM FinalFlushIsComplete == Spec => []FinalFlush
<1>1. Init => FinalFlush
  BY DEF Init, FinalFlush
<1>2. Typed /\ FinalFlush /\ [Next]_vars => FinalFlush'
  <2> SUFFICES ASSUME Typed, FinalFlush, [Next]_vars PROVE FinalFlush'
    OBVIOUS
  <2>1. CASE UNCHANGED <<phase, batches, late>>
    BY <2>1 DEF batches, FinalFlush
  <2>2. ASSUME NEW i \in Instances, Boot(i) \/ Subscribe(i) \/ Listen(i) PROVE FinalFlush'
    BY <2>2, QueueOnlyShrinks DEF Boot, Subscribe, Listen, batches, history, Typed
  <2>3. ASSUME NEW i \in Instances, HandleEvent(i) PROVE FinalFlush'
    BY <2>3, HandlingIsLate
  <2>4. ASSUME NEW i \in Instances, TimerFlush(i) \/ CacheOk(i) \/ CacheFail(i)
        PROVE  FinalFlush'
    <3>1. (Flush(i) \/ UNCHANGED batches) /\ UNCHANGED <<phase, late>>
      BY <2>4 DEF TimerFlush, CacheOk, CacheFail, AfterCaching, history
    <3>2. \A j \in Instances : pending'[j] = pending[j] \/ pending'[j] = <<>>
      BY <3>1, FlushEmpties
    <3> QED BY <3>1, <3>2, QueueOnlyShrinks
  <2>5. ASSUME NEW i \in Instances, NEW f \in Flights, InsertOk(i, f) \/ InsertFail(i, f)
        PROVE  FinalFlush'
    BY <2>5, QueueOnlyShrinks DEF InsertOk, InsertFail, history
  <2>6. ASSUME NEW i \in Instances, BeginShutdown(i) PROVE FinalFlush'
    <3> SUFFICES ASSUME NEW j \in Instances, phase'[j] = "closing"
                 PROVE  ToSet(pending'[j]) \subseteq late'[j]
      BY DEF FinalFlush
    <3>1. CASE j = i
      BY <2>6, <3>1, FlushEmpties, ToSetEmpty DEF BeginShutdown
    <3>2. CASE j # i
      <4>1. phase[j] = "closing" /\ late'[j] = late[j]
        BY <2>6, <3>2 DEF BeginShutdown, Typed
      <4>2. pending'[j] = pending[j] \/ pending'[j] = <<>>
        BY <2>6, FlushEmpties DEF BeginShutdown
      <4> QED BY <4>1, <4>2, ToSetEmpty DEF FinalFlush
    <3> QED BY <3>1, <3>2
  <2>7. ASSUME NEW i \in Instances, Exit(i) \/ Crash(i) PROVE FinalFlush'
    <3>1. Gone(i)
      BY <2>7 DEF Exit, Crash
    <3> QED BY <3>1, QueueOnlyShrinks DEF Gone, Typed
  <2> QED BY <2>1, <2>2, <2>3, <2>4, <2>5, <2>6, <2>7 DEF Next, vars, Publish, Republish, Deliver,
        SubscriberReset, Unheard, HandleMalformed, CacheResend, history
<1> QED BY <1>1, <1>2, AlwaysTyped, PTL DEF Spec

-----------------------------------------------------------------------------
(***************************************************************************)
(* The totals.  Messages carry different events.                           *)
(***************************************************************************)
\* No two messages carry the same event.
Faithful == \A m, n \in Messages : Parse[m] = Parse[n] /\ Parse[m] # NoEvent => m = n

\* A message that is not published yet, or not handled yet, carries an event that nobody
\* has seen.
Awaited(m, i) == m \notin ToSet(channel) \/ m \in ToSet(inbox[i])
Unseen(i) ==
  /\ \A m \in Messages : Awaited(m, i) /\ Parse[m] # NoEvent => Parse[m] \notin streamed
  /\ \A j, k \in DOMAIN inbox[i] : inbox[i][j] = inbox[i][k] => j = k
  /\ ToSet(inbox[i]) \subseteq ToSet(channel)

\* What is stored or on its way was counted, once; only what was seen is counted.
Held(e, i) == e \in table \/ Queued(e, i)
CountedOnce(i) ==
  /\ table \subseteq streamed
  /\ \A e \in Events : counted[i][e] <= 1 /\ (counted[i][e] = 1 => e \in streamed)
  /\ phase[i] = "down" => \A e : ~ Queued(e, i)
  /\ phase[i] # "down" => \A e \in Events : Held(e, i) => counted[i][e] = 1

TotalsInv(i) == resends = 0 => Unseen(i) /\ CountedOnce(i)

\* Without its head a queue of different messages holds the others.
LEMMA TailIsShorter ==
  ASSUME NEW s \in Seq(Messages), s # <<>>
  PROVE  /\ ToSet(Tail(s)) \subseteq ToSet(s) /\ Head(s) \in ToSet(s)
         /\ (\A j, k \in DOMAIN s : s[j] = s[k] => j = k) =>
              /\ Head(s) \notin ToSet(Tail(s))
              /\ \A j, k \in DOMAIN Tail(s) : Tail(s)[j] = Tail(s)[k] => j = k
<1> DEFINE t == Tail(s)
<1>1. /\ Len(s) \in Nat /\ Len(s) >= 1 /\ DOMAIN s = 1..Len(s) /\ DOMAIN t = 1..Len(s) - 1
      /\ Head(s) = s[1]
      /\ \A j \in DOMAIN t : t[j] = s[j + 1]
  OBVIOUS
<1> HIDE DEF t
<1>2. \A j \in DOMAIN t : j + 1 \in DOMAIN s /\ j + 1 # 1 /\ j \in Int
  BY <1>1
<1>3. 1 \in DOMAIN s
  BY <1>1
<1>4. ToSet(t) \subseteq ToSet(s) /\ Head(s) \in ToSet(s)
  BY <1>1, <1>2, <1>3 DEF ToSet
<1>5. ASSUME \A j, k \in DOMAIN s : s[j] = s[k] => j = k
      PROVE  Head(s) \notin ToSet(t) /\ \A j, k \in DOMAIN t : t[j] = t[k] => j = k
  <2>1. Head(s) \notin ToSet(t)
    BY <1>1, <1>2, <1>3, <1>5 DEF ToSet
  <2>2. ASSUME NEW j \in DOMAIN t, NEW k \in DOMAIN t, t[j] = t[k] PROVE j = k
    <3>1. j + 1 = k + 1
      BY <1>1, <1>2, <1>5, <2>2
    <3> QED BY <1>2, <3>1
  <2> QED BY <2>1, <2>2
<1> QED BY <1>4, <1>5 DEF t

\* A queue of different messages, and another one behind it.
LEMMA AppendIsDifferent ==
  ASSUME NEW s \in Seq(Messages), NEW m \in Messages, m \notin ToSet(s),
         \A j, k \in DOMAIN s : s[j] = s[k] => j = k
  PROVE  \A j, k \in DOMAIN Append(s, m) : Append(s, m)[j] = Append(s, m)[k] => j = k
<1> DEFINE t == Append(s, m)
<1>1. /\ DOMAIN t = DOMAIN s \cup {Len(s) + 1} /\ Len(s) + 1 \notin DOMAIN s
      /\ t[Len(s) + 1] = m /\ \A j \in DOMAIN s : t[j] = s[j]
  OBVIOUS
<1> HIDE DEF t
<1>2. \A j \in DOMAIN s : t[j] # m
  BY <1>1 DEF ToSet
<1>3. \A j, k \in DOMAIN t : t[j] = t[k] => j = k
  BY <1>1, <1>2
<1> QED BY <1>3 DEF t

\* A message is published for the first time.
LEMMA PublishUnseen ==
  ASSUME Typed, NEW i \in Instances, Unseen(i), NEW m \in Messages, Publish(m)
  PROVE  Unseen(i)'
<1>1. /\ m \notin ToSet(channel) /\ channel' = Append(channel, m) /\ UNCHANGED streamed
      /\ inbox'[i] = inbox[i] \/ inbox'[i] = Append(inbox[i], m)
  BY DEF Publish, Deliver, Typed, history
<1>2. channel \in Seq(Messages) /\ inbox[i] \in Seq(Messages)
  BY DEF Typed
<1>3. /\ ToSet(channel') = ToSet(channel) \cup {m}
      /\ ToSet(inbox'[i]) = ToSet(inbox[i]) \/ ToSet(inbox'[i]) = ToSet(inbox[i]) \cup {m}
  <2>1. ToSet(Append(channel, m)) = ToSet(channel) \cup {m}
    BY <1>2, ToSetAppend
  <2>2. ToSet(Append(inbox[i], m)) = ToSet(inbox[i]) \cup {m}
    BY <1>2, ToSetAppend
  <2> QED BY <1>1, <2>1, <2>2
<1>4. \A n \in Messages : Awaited(n, i)' => Awaited(n, i)
  BY <1>1, <1>3 DEF Awaited
<1>5. \A j, k \in DOMAIN inbox'[i] : inbox'[i][j] = inbox'[i][k] => j = k
  <2>1. m \notin ToSet(inbox[i])
    BY <1>1 DEF Unseen
  <2> QED BY <1>1, <1>2, <2>1, AppendIsDifferent DEF Unseen
<1>6. ToSet(inbox'[i]) \subseteq ToSet(channel')
  BY <1>3 DEF Unseen
<1> QED BY <1>1, <1>4, <1>5, <1>6 DEF Unseen

\* Messages leave the inbox and nothing is seen.
LEMMA ShrinkUnseen ==
  ASSUME Typed, NEW i \in Instances, Unseen(i), UNCHANGED <<channel, streamed>>,
         inbox'[i] = inbox[i] \/ inbox'[i] = <<>> \/ (inbox[i] # <<>> /\ inbox'[i] = Tail(inbox[i]))
  PROVE  Unseen(i)'
<1>1. inbox[i] \in Seq(Messages)
  BY DEF Typed
<1>2. ToSet(inbox'[i]) \subseteq ToSet(inbox[i])
  BY <1>1, TailIsShorter, ToSetEmpty
<1>3. \A n \in Messages : Awaited(n, i)' => Awaited(n, i)
  BY <1>2 DEF Awaited
<1>4. \A j, k \in DOMAIN inbox'[i] : inbox'[i][j] = inbox'[i][k] => j = k
  <2>1. CASE inbox'[i] = inbox[i]
    BY <2>1 DEF Unseen
  <2>2. CASE inbox'[i] = <<>>
    BY <2>2
  <2>3. CASE inbox[i] # <<>> /\ inbox'[i] = Tail(inbox[i])
    BY <1>1, <2>3, TailIsShorter DEF Unseen
  <2> QED BY <2>1, <2>2, <2>3
<1>5. ToSet(inbox'[i]) \subseteq ToSet(channel')
  BY <1>2 DEF Unseen
<1> QED BY <1>3, <1>4, <1>5 DEF Unseen

\* An event is handled, for the first time.
LEMMA HandleUnseen ==
  ASSUME Typed, Faithful, NEW i \in Instances, Unseen(i), HandleEvent(i)
  PROVE  /\ Unseen(i)'
         /\ Parse[Head(inbox[i])] \in Events /\ Parse[Head(inbox[i])] \notin streamed
<1> DEFINE m == Head(inbox[i])
           e == Parse[m]
<1>1. inbox[i] \in Seq(Messages) /\ inbox[i] # <<>> /\ m \in Messages
  BY DEF Typed, HandleEvent
<1>2. /\ inbox'[i] = Tail(inbox[i]) /\ streamed' = streamed \cup {e} /\ e # NoEvent
      /\ UNCHANGED channel
  BY DEF HandleEvent, Typed
<1>3. e \in Events
  BY <1>1, <1>2, ParsedType
<1>4. /\ ToSet(inbox'[i]) \subseteq ToSet(inbox[i]) /\ m \in ToSet(inbox[i])
      /\ m \notin ToSet(inbox'[i])
      /\ \A j, k \in DOMAIN inbox'[i] : inbox'[i][j] = inbox'[i][k] => j = k
  BY <1>1, <1>2, TailIsShorter DEF Unseen
<1> HIDE DEF m, e
<1>5. e \notin streamed
  BY <1>1, <1>2, <1>4 DEF Unseen, Awaited, e
<1>6. ASSUME NEW n \in Messages, Awaited(n, i)', Parse[n] # NoEvent PROVE Parse[n] \notin streamed'
  <2>1. Awaited(n, i) /\ n # m
    BY <1>2, <1>4, <1>6 DEF Awaited, Unseen
  <2>2. Parse[n] # e
    BY <1>1, <1>6, <2>1 DEF Faithful, e
  <2> QED BY <1>2, <1>6, <2>1, <2>2 DEF Unseen
<1>7. ToSet(inbox'[i]) \subseteq ToSet(channel')
  BY <1>2, <1>4 DEF Unseen
<1> QED BY <1>3, <1>4, <1>5, <1>6, <1>7 DEF Unseen, e, m

\* What no step but HandleEvent and Boot does to the totals: events only leave the
\* queues, for the table or for good, and a process that ends forgets its totals.
LEMMA CountedStays ==
  ASSUME Typed, OnlyAccepted, NEW i \in Instances, CountedOnce(i),
         UNCHANGED streamed,
         \A e : Queued(e, i)' => Queued(e, i),
         \A e \in table' : Held(e, i),
         \/ counted'[i] = counted[i] /\ (phase'[i] = "down" <=> phase[i] = "down")
         \/ /\ counted'[i] = [e \in Events |-> 0] /\ phase'[i] = "down"
            /\ \A e : ~ Queued(e, i)'
  PROVE  CountedOnce(i)'
<1>1. table' \subseteq streamed'
  BY DEF CountedOnce, Held, OnlyAccepted
<1>2. CASE counted'[i] = counted[i] /\ (phase'[i] = "down" <=> phase[i] = "down")
  BY <1>1, <1>2 DEF CountedOnce, Held
<1>3. CASE /\ counted'[i] = [e \in Events |-> 0] /\ phase'[i] = "down"
           /\ \A e : ~ Queued(e, i)'
  BY <1>1, <1>3 DEF CountedOnce
<1> QED BY <1>2, <1>3

LEMMA HandleCounted ==
  ASSUME Typed, NEW i \in Instances, CountedOnce(i), HandleEvent(i),
         Parse[Head(inbox[i])] \in Events, Parse[Head(inbox[i])] \notin streamed,
         \A e : Queued(e, i)' => Queued(e, i) \/ e = Parse[Head(inbox[i])]
  PROVE  CountedOnce(i)'
<1> DEFINE d == Parse[Head(inbox[i])]
<1>1. /\ counted' = [counted EXCEPT ![i] = [counted[i] EXCEPT ![d] = @ + 1]]
      /\ streamed' = streamed \cup {d} /\ UNCHANGED <<phase, table>> /\ phase[i] # "down"
  BY DEF HandleEvent, Handling, stores
<1>2. d \in Events /\ d \notin streamed
  OBVIOUS
<1> HIDE DEF d
<1>3. counted \in [Instances -> [Events -> Nat]]
  BY DEF Typed
<1>4. \A e \in Events : counted'[i][e] = IF e = d THEN counted[i][d] + 1 ELSE counted[i][e]
  BY <1>1, <1>2, <1>3
<1>5. counted[i][d] = 0
  BY <1>2, <1>3 DEF CountedOnce
<1>6. \A e \in Events : counted'[i][e] <= 1 /\ (counted'[i][e] = 1 => e \in streamed')
  BY <1>1, <1>4, <1>5 DEF CountedOnce
<1>7. \A e \in Events : Held(e, i)' => counted'[i][e] = 1
  BY <1>1, <1>4, <1>5 DEF CountedOnce, Held, d
<1> QED BY <1>1, <1>6, <1>7 DEF CountedOnce

\* The table, read at boot, is what was counted so far.
LEMMA BootCounted ==
  ASSUME Typed, NEW i \in Instances, CountedOnce(i), Boot(i)
  PROVE  CountedOnce(i)'
<1>1. /\ counted'[i] = [e \in Events |-> IF e \in table THEN 1 ELSE 0]
      /\ phase[i] = "down" /\ phase'[i] = "primed" /\ UNCHANGED <<table, streamed, batches>>
  BY DEF Boot, Typed, stores, history
<1>2. \A e : ~ Queued(e, i)'
  BY <1>1 DEF CountedOnce, Queued, batches
<1> QED BY <1>1, <1>2 DEF CountedOnce, Held

LEMMA GoneIsEmpty ==
  ASSUME Typed, NEW i \in Instances, Gone(i)
  PROVE  /\ \A e : ~ Queued(e, i)'
         /\ counted'[i] = [e \in Events |-> 0] /\ phase'[i] = "down" /\ inbox'[i] = <<>>
         /\ UNCHANGED <<channel, streamed>>
<1>1. pending'[i] = <<>> /\ flight'[i] = NoFlights
  BY DEF Gone, Typed
<1>2. \A e : ~ Queued(e, i)'
  BY <1>1, ToSetEmpty DEF Queued, NoFlights
<1> QED BY <1>2 DEF Gone, Typed

LEMMA TotalsStep ==
  ASSUME NEW b, Instances = {b}, Faithful, Typed, OnlyAccepted, TotalsInv(b), [Next]_vars
  PROVE  TotalsInv(b)'
<1> SUFFICES ASSUME resends' = 0 PROVE Unseen(b)' /\ CountedOnce(b)'
  BY DEF TotalsInv
<1>1. resends = 0 /\ \A m \in Messages : ~ Republish(m)
  <2>1. resends \in Nat /\ (resends' = resends \/ resends' = resends + 1)
    BY ZenonT(40) DEF Typed, Next, vars, budget, Publish, Republish, Deliver, SubscriberReset, Boot, Subscribe, Unheard,
       Listen, HandleMalformed, HandleEvent, TimerFlush, CacheOk, CacheFail, CacheResend,
       AfterCaching, InsertOk, InsertFail, BeginShutdown, Exit, Crash, Gone
  <2>2. resends = 0
    BY <2>1
  <2> QED BY <2>2 DEF Republish
<1>2. Unseen(b) /\ CountedOnce(b) /\ b \in Instances
  BY <1>1 DEF TotalsInv
<1>3. \A e : Queued(e, b)' => Queued(e, b) \/ (HandleEvent(b) /\ e = Parse[Head(inbox[b])])
  BY <1>2, NothingNewQueued
<1>4. CASE HandleEvent(b)
  BY <1>2, <1>3, <1>4, HandleUnseen, HandleCounted
<1>5. CASE Boot(b)
  <2>1. UNCHANGED <<inbox, channel, streamed>>
    BY <1>5 DEF Boot, wire, history
  <2> QED BY <1>2, <1>5, <2>1, BootCounted, ShrinkUnseen
<1> SUFFICES ASSUME ~ HandleEvent(b), ~ Boot(b) PROVE Unseen(b)' /\ CountedOnce(b)'
  BY <1>4, <1>5
<1>6. \A e : Queued(e, b)' => Queued(e, b)
  BY <1>3
<1>7. ASSUME NEW m \in Messages, Publish(m) PROVE Unseen(b)' /\ CountedOnce(b)'
  <2>1. UNCHANGED <<streamed, table, counted, phase>>
    BY <1>7 DEF Publish, Deliver, totals, stores, history
  <2> QED BY <1>2, <1>6, <1>7, <2>1, PublishUnseen, CountedStays DEF Held
<1>8. CASE SubscriberReset(b) \/ Unheard(b) \/ HandleMalformed(b)
  <2>1. UNCHANGED <<channel, streamed, table, counted, phase>>
    BY <1>8 DEF SubscriberReset, Unheard, HandleMalformed, totals, stores, history
  <2>2. inbox'[b] = <<>> \/ (inbox[b] # <<>> /\ inbox'[b] = Tail(inbox[b]))
    BY <1>2, <1>8 DEF SubscriberReset, Unheard, HandleMalformed, Typed
  <2> QED BY <1>2, <1>6, <2>1, <2>2, ShrinkUnseen, CountedStays DEF Held
<1>9. CASE Subscribe(b) \/ Listen(b) \/ TimerFlush(b) \/ CacheOk(b) \/ CacheFail(b) \/ CacheResend(b)
             \/ BeginShutdown(b) \/ UNCHANGED vars
  <2>1. UNCHANGED <<channel, inbox, streamed, table, counted>>
    BY <1>9 DEF Subscribe, Listen, TimerFlush, CacheOk, CacheFail, CacheResend, AfterCaching,
       BeginShutdown, vars, wire, totals, stores, history
  <2>2. phase'[b] = "down" <=> phase[b] = "down"
    BY <1>2, <1>9 DEF Subscribe, Listen, TimerFlush, CacheOk, CacheFail, CacheResend, AfterCaching,
       BeginShutdown, vars, Typed
  <2> QED BY <1>2, <1>6, <2>1, <2>2, ShrinkUnseen, CountedStays DEF Held
<1>10. ASSUME NEW f \in Flights, InsertOk(b, f) \/ InsertFail(b, f) PROVE Unseen(b)' /\ CountedOnce(b)'
  <2>1. UNCHANGED <<channel, inbox, streamed, counted, phase>>
    BY <1>10 DEF InsertOk, InsertFail, wire, totals, history
  <2>2. table' = table \/ table' = table \cup ToSet(flight[b][f])
    BY <1>10 DEF InsertOk, InsertFail
  <2>3. \A e \in table' : Held(e, b)
    BY <2>2 DEF Held, Queued
  <2> QED BY <1>2, <1>6, <2>1, <2>3, ShrinkUnseen, CountedStays
<1>11. CASE Exit(b) \/ Crash(b)
  <2>1. Gone(b) /\ \A e \in table' : Held(e, b)
    BY <1>11 DEF Exit, Crash, stores, Held, Queued
  <2> QED BY <1>2, <1>6, <2>1, GoneIsEmpty, ShrinkUnseen, CountedStays
<1> QED BY <1>1, <1>7, <1>8, <1>9, <1>10, <1>11 DEF Next

\* Across restarts, crashes, failed inserts and messages missed while down: the totals
\* of a single backend count every row of the table exactly once, and nothing that was
\* not stored, given up, or is still on its way.
THEOREM TotalsCountEveryRowOnce ==
  ASSUME NEW b, Instances = {b}, Faithful
  PROVE  Spec => []TotalsAgree
<1>1. Init => TotalsInv(b)
  <2> SUFFICES ASSUME Init PROVE Unseen(b) /\ CountedOnce(b)
    BY DEF TotalsInv
  <2>1. inbox[b] = <<>> /\ streamed = {} /\ table = {} /\ phase[b] = "down"
        /\ pending[b] = <<>> /\ flight[b] = NoFlights /\ \A e \in Events : counted[b][e] = 0
    BY DEF Init
  <2>2. \A e : ~ Queued(e, b)
    BY <2>1, ToSetEmpty DEF Queued, NoFlights
  <2> QED BY <2>1, <2>2, ToSetEmpty DEF Unseen, CountedOnce
<1>2. Typed /\ OnlyAccepted /\ TotalsInv(b) /\ [Next]_vars => TotalsInv(b)'
  BY TotalsStep
<1>3. Typed /\ NothingForgotten /\ TotalsInv(b) => TotalsAgree
  <2> SUFFICES ASSUME Typed, NothingForgotten, TotalsInv(b), resends = 0, phase[b] # "down", NEW e \in Events
               PROVE  /\ counted[b][e] <= 1
                      /\ e \in table => counted[b][e] = 1
                      /\ counted[b][e] = 1 => e \in table \cup lost \cup Waiting(b)
    BY DEF TotalsAgree
  <2>1. CountedOnce(b)
    BY DEF TotalsInv
  <2>2. e \in streamed => e \in table \cup lost \cup Waiting(b)
    BY DEF NothingForgotten
  <2> QED BY <2>1, <2>2 DEF CountedOnce, Held
<1> QED BY <1>1, <1>2, <1>3, AlwaysTyped, OnlyAcceptedInv, NothingIsForgotten, PTL DEF Spec

-----------------------------------------------------------------------------
(***************************************************************************)
(* The feed.  An event's way is from the inbox through the calls of        *)
(* cacheEvent to the list; at every place it is younger than what is       *)
(* further on.                                                             *)
(***************************************************************************)
Carried(e) == \E n \in DOMAIN channel : Parse[channel[n]] = e
After(d, m) == \E k, n \in DOMAIN channel : k < n /\ channel[k] = m /\ channel[n] = d

\* What was handled is published, and ordered.
Handled(i) ==
  /\ \A e \in ToSet(caching[i]) \cup ToSet(cache) : Carried(e)
  /\ \A k \in DOMAIN cache : \A j \in 1..k - 1 : PublishedAfter(cache[j], cache[k])
  /\ \A k \in DOMAIN caching[i] : \A j \in 1..k - 1 : PublishedAfter(caching[i][k], caching[i][j])
  /\ \A d \in ToSet(caching[i]), e \in ToSet(cache) : PublishedAfter(d, e)

\* What was not is ordered too, and published later.
Ahead(i) ==
  /\ ToSet(inbox[i]) \subseteq ToSet(channel)
  /\ \A k \in DOMAIN inbox[i] : \A j \in 1..k - 1 : After(inbox[i][k], inbox[i][j])
  /\ \A m \in ToSet(inbox[i]) : \A e \in ToSet(caching[i]) \cup ToSet(cache) : PublishedAfter(Parse[m], e)

FeedInv(i) == resends = 0 => Handled(i) /\ Ahead(i)

\* Publishing changes no order, and whatever is published next is the youngest.
LEMMA OrderGrows ==
  ASSUME Typed, NEW m \in Messages, channel' = Append(channel, m)
  PROVE  /\ \A e : Carried(e) => Carried(e)' /\ PublishedAfter(Parse[m], e)'
         /\ \A d, e : PublishedAfter(d, e) => PublishedAfter(d, e)'
         /\ \A d, n : After(d, n) => After(d, n)'
         /\ \A n \in ToSet(channel) : After(m, n)'
         /\ ToSet(channel) \subseteq ToSet(channel')
<1>1. /\ DOMAIN channel' = DOMAIN channel \cup {Len(channel) + 1}
      /\ \A k \in DOMAIN channel : channel'[k] = channel[k] /\ k < Len(channel) + 1
      /\ channel'[Len(channel) + 1] = m
  BY DEF Typed
<1>2. \A e : Carried(e) => Carried(e)' /\ PublishedAfter(Parse[m], e)'
  BY <1>1 DEF Carried, PublishedAfter
<1>3. \A d, e : PublishedAfter(d, e) => PublishedAfter(d, e)'
  BY <1>1 DEF PublishedAfter
<1>4. \A d, n : After(d, n) => After(d, n)'
  BY <1>1 DEF After
<1>5. \A n \in ToSet(channel) : After(m, n)' /\ n \in ToSet(channel')
  BY <1>1 DEF After, ToSet
<1> QED BY <1>2, <1>3, <1>4, <1>5

\* The first of the messages is the oldest, of the events carried.
LEMMA AfterParsed ==
  ASSUME NEW d, NEW m, After(d, m)
  PROVE  PublishedAfter(Parse[d], Parse[m])
BY DEF After, PublishedAfter

\* A sequence's order is that of what remains of it.
LEMMA TailIndices ==
  ASSUME NEW S, NEW s \in Seq(S), s # <<>>
  PROVE  /\ \A k \in DOMAIN Tail(s) : k + 1 \in DOMAIN s /\ Tail(s)[k] = s[k + 1]
         /\ \A k \in DOMAIN Tail(s) : \A j \in 1..k - 1 : j \in DOMAIN Tail(s) /\ j + 1 \in 1..(k + 1) - 1
         /\ \A k \in DOMAIN Tail(s) : 1 \in 1..(k + 1) - 1
         /\ ToSet(Tail(s)) \subseteq ToSet(s) /\ Head(s) \in ToSet(s) /\ Head(s) = s[1]
<1> DEFINE t == Tail(s)
<1>1. /\ Len(s) \in Nat /\ Len(s) >= 1 /\ DOMAIN s = 1..Len(s) /\ DOMAIN t = 1..Len(s) - 1
      /\ Head(s) = s[1]
      /\ \A j \in DOMAIN t : t[j] = s[j + 1]
  OBVIOUS
<1> HIDE DEF t
<1>2. \A k \in DOMAIN t : k + 1 \in DOMAIN s /\ k \in Nat /\ k >= 1
  BY <1>1
<1>3. 1 \in DOMAIN s
  BY <1>1
<1>4. ToSet(t) \subseteq ToSet(s) /\ Head(s) \in ToSet(s)
  BY <1>1, <1>2, <1>3 DEF ToSet
<1>5. \A k \in DOMAIN t : \A j \in 1..k - 1 : j \in DOMAIN t /\ j + 1 \in 1..(k + 1) - 1
  BY <1>1
<1>6. \A k \in DOMAIN t : 1 \in 1..(k + 1) - 1
  BY <1>2
<1> QED BY <1>1, <1>2, <1>4, <1>5, <1>6 DEF t

\* The feed after the first n calls of a queue is ordered, and holds nothing else.
LEMMA PushedOrder ==
  ASSUME Typed, NEW i \in Instances, Handled(i), NEW n \in 0..Len(caching[i])
  PROVE  LET list == Pushed(SubSeq(caching[i], 1, n), cache)
         IN /\ \A k \in DOMAIN list : \A j \in 1..k - 1 : PublishedAfter(list[j], list[k])
            /\ \A k \in DOMAIN list : list[k] \in ToSet(cache) \/ \E j \in 1..n : list[k] = caching[i][j]
<1> DEFINE c == caching[i]
           sub == SubSeq(c, 1, n)
           rev == Reverse(sub)
           whole == rev \o cache
           list == Pushed(sub, cache)
<1>1. c \in Seq(Events) /\ cache \in Seq(Events) /\ Len(c) \in Nat /\ n \in Nat /\ n <= Len(c) /\ Len(cache) \in Nat
  BY DEF Typed
<1> HIDE DEF c
<1>2. sub \in Seq(Events) /\ Len(sub) = n /\ \A j \in 1..n : sub[j] = c[j]
  BY <1>1
<1> HIDE DEF sub
<1>3. rev \in Seq(Events) /\ Len(rev) = n /\ \A j \in 1..n : rev[j] = c[(n - j) + 1]
  <2>1. rev = [j \in 1..n |-> sub[(n - j) + 1]]
    BY <1>2 DEF Reverse
  <2>2. \A j \in 1..n : (n - j) + 1 \in 1..n /\ sub[(n - j) + 1] \in Events
    BY <1>1, <1>2
  <2> HIDE DEF rev
  <2> QED BY <1>1, <1>2, <2>1, <2>2
<1> HIDE DEF rev
<1>4. /\ whole \in Seq(Events) /\ Len(whole) = n + Len(cache)
      /\ \A k \in 1..n + Len(cache) : whole[k] = IF k <= n THEN rev[k] ELSE cache[k - n]
  BY <1>1, <1>3
<1> HIDE DEF whole
<1>5. /\ \A k \in DOMAIN list : k \in 1..n + Len(cache) /\ list[k] = whole[k]
      /\ \A k \in DOMAIN list : \A j \in 1..k - 1 : j \in DOMAIN list
  <2> DEFINE z == IF Len(whole) > FeedSize THEN FeedSize ELSE Len(whole)
  <2>1. z \in Nat /\ z <= Len(whole)
    BY <1>4, FeedAssumption
  <2>2. list = SubSeq(whole, 1, z)
    BY DEF Pushed, Trim, whole, rev
  <2> HIDE DEF z, list
  <2>3. DOMAIN list = 1..z /\ \A k \in 1..z : list[k] = whole[k]
    BY <1>4, <2>1, <2>2
  <2> QED BY <1>4, <2>1, <2>3
<1> HIDE DEF list
<1>6. /\ \A k \in DOMAIN cache : \A j \in 1..k - 1 : PublishedAfter(cache[j], cache[k])
      /\ \A k \in DOMAIN c : \A j \in 1..k - 1 : PublishedAfter(c[k], c[j])
      /\ \A d \in ToSet(c), e \in ToSet(cache) : PublishedAfter(d, e)
  BY DEF Handled, c
<1>7. ASSUME NEW k \in DOMAIN list, NEW j \in 1..k - 1 PROVE PublishedAfter(list[j], list[k])
  <2>1. /\ k \in 1..n + Len(cache) /\ j \in 1..n + Len(cache) /\ j < k
        /\ list[k] = whole[k] /\ list[j] = whole[j]
    BY <1>1, <1>5
  <2>2. CASE k <= n
    <3>1. list[k] = c[(n - k) + 1] /\ list[j] = c[(n - j) + 1]
      BY <1>1, <1>3, <1>4, <2>1, <2>2
    <3>2. (n - j) + 1 \in DOMAIN c /\ (n - k) + 1 \in 1..((n - j) + 1) - 1
      BY <1>1, <2>1, <2>2
    <3> QED BY <1>6, <3>1, <3>2
  <2>3. CASE j <= n /\ k > n
    <3>1. list[j] = c[(n - j) + 1] /\ (n - j) + 1 \in DOMAIN c
      BY <1>1, <1>3, <1>4, <2>1, <2>3
    <3>2. list[k] = cache[k - n] /\ k - n \in DOMAIN cache
      BY <1>1, <1>4, <2>1, <2>3
    <3> QED BY <1>6, <3>1, <3>2 DEF ToSet
  <2>4. CASE j > n
    <3>1. list[j] = cache[j - n] /\ list[k] = cache[k - n]
      BY <1>1, <1>4, <2>1, <2>4
    <3>2. k - n \in DOMAIN cache /\ j - n \in 1..(k - n) - 1
      BY <1>1, <2>1, <2>4
    <3> QED BY <1>6, <3>1, <3>2
  <2> QED BY <1>1, <2>1, <2>2, <2>3, <2>4
<1>8. ASSUME NEW k \in DOMAIN list PROVE list[k] \in ToSet(cache) \/ \E j \in 1..n : list[k] = c[j]
  <2>1. k \in 1..n + Len(cache) /\ list[k] = whole[k]
    BY <1>5
  <2>2. CASE k <= n
    <3>1. list[k] = c[(n - k) + 1] /\ (n - k) + 1 \in 1..n
      BY <1>1, <1>3, <1>4, <2>1, <2>2
    <3> QED BY <3>1
  <2>3. CASE k > n
    <3>1. list[k] = cache[k - n] /\ k - n \in DOMAIN cache
      BY <1>1, <1>4, <2>1, <2>3
    <3> QED BY <3>1 DEF ToSet
  <2> QED BY <1>1, <2>1, <2>2, <2>3
<1> QED BY <1>7, <1>8 DEF list, sub, c

\* Steps that leave the channel alone order nothing anew.
LEMMA SameOrder ==
  ASSUME UNCHANGED channel
  PROVE  /\ \A e : Carried(e)' <=> Carried(e)
         /\ \A d, e : PublishedAfter(d, e)' <=> PublishedAfter(d, e)
         /\ \A d, m : After(d, m)' <=> After(d, m)
BY DEF Carried, PublishedAfter, After

LEMMA PublishOrder ==
  ASSUME Typed, NEW i \in Instances, Handled(i), Ahead(i), NEW m \in Messages, Deliver(m)
  PROVE  Handled(i)' /\ Ahead(i)'
<1>1. /\ channel' = Append(channel, m) /\ UNCHANGED <<caching, cache>>
      /\ inbox'[i] = inbox[i] \/ inbox'[i] = Append(inbox[i], m)
  BY DEF Deliver, Typed, stores
<1>2. inbox[i] \in Seq(Messages) /\ channel \in Seq(Messages)
  BY DEF Typed
<1>3. /\ \A e : Carried(e) => Carried(e)' /\ PublishedAfter(Parse[m], e)'
      /\ \A d, e : PublishedAfter(d, e) => PublishedAfter(d, e)'
      /\ \A d, n : After(d, n) => After(d, n)'
      /\ \A n \in ToSet(channel) : After(m, n)'
      /\ ToSet(channel) \subseteq ToSet(channel')
  BY <1>1, OrderGrows
<1> DEFINE later(d, n) == \E k, l \in DOMAIN channel' : k < l /\ channel'[k] = n /\ channel'[l] = d
<1>l. /\ \A d, n : After(d, n) => later(d, n)
      /\ \A n \in ToSet(channel) : later(m, n)
  BY <1>3 DEF After
<1>4. Handled(i)'
  BY <1>1, <1>3 DEF Handled
<1>5. CASE inbox'[i] = inbox[i]
  BY <1>1, <1>3, <1>4, <1>5 DEF Ahead
<1>6. CASE inbox'[i] = Append(inbox[i], m)
  <2>1. ToSet(inbox'[i]) = ToSet(inbox[i]) \cup {m} /\ m \in ToSet(channel')
    <3>1. ToSet(Append(inbox[i], m)) = ToSet(inbox[i]) \cup {m}
      BY <1>2, ToSetAppend
    <3>2. ToSet(Append(channel, m)) = ToSet(channel) \cup {m}
      BY <1>2, ToSetAppend
    <3> QED BY <1>1, <1>6, <3>1, <3>2
  <2>2. /\ DOMAIN inbox'[i] = DOMAIN inbox[i] \cup {Len(inbox[i]) + 1}
        /\ \A k \in DOMAIN inbox[i] : inbox'[i][k] = inbox[i][k]
        /\ inbox'[i][Len(inbox[i]) + 1] = m
        /\ \A k \in DOMAIN inbox'[i] : \A j \in 1..k - 1 : j \in DOMAIN inbox[i]
    BY <1>2, <1>6
  <2>3. ToSet(inbox'[i]) \subseteq ToSet(channel')
    BY <1>3, <2>1 DEF Ahead
  <2>4. ASSUME NEW k \in DOMAIN inbox'[i], NEW j \in 1..k - 1
        PROVE  later(inbox'[i][k], inbox'[i][j])
    <3>1. j \in DOMAIN inbox[i] /\ inbox'[i][j] = inbox[i][j]
      BY <2>2
    <3> HIDE DEF later
    <3>2. CASE k \in DOMAIN inbox[i]
      <4>1. After(inbox[i][k], inbox[i][j])
        BY <3>2 DEF Ahead
      <4> QED BY <1>l, <2>2, <3>1, <3>2, <4>1
    <3>3. CASE inbox'[i][k] = m
      <4>1. inbox[i][j] \in ToSet(channel)
        BY <3>1 DEF Ahead, ToSet
      <4> QED BY <1>l, <3>1, <3>3, <4>1
    <3> QED BY <2>2, <3>2, <3>3
  <2>5. \A n \in ToSet(inbox'[i]) : \A e \in ToSet(caching[i]) \cup ToSet(cache) : PublishedAfter(Parse[n], e)'
    <3> SUFFICES ASSUME NEW n \in ToSet(inbox'[i]), NEW e \in ToSet(caching[i]) \cup ToSet(cache)
                 PROVE  PublishedAfter(Parse[n], e)'
      OBVIOUS
    <3>1. CASE n = m
      BY <1>3, <3>1 DEF Handled
    <3>2. CASE n \in ToSet(inbox[i])
      BY <1>3, <3>2 DEF Ahead
    <3> QED BY <2>1, <3>1, <3>2
  <2>6. \A k \in DOMAIN inbox'[i] : \A j \in 1..k - 1 : later(inbox'[i][k], inbox'[i][j])
    <3> HIDE DEF later
    <3> QED BY <2>4
  <2> QED BY <1>1, <1>4, <2>3, <2>5, <2>6 DEF Ahead, After
<1> QED BY <1>1, <1>5, <1>6

\* Messages leave the inbox; the calls and the list stay, or shrink to what they were.
LEMMA ShrinkAhead ==
  ASSUME Typed, NEW i \in Instances, Ahead(i), UNCHANGED channel,
         inbox'[i] = inbox[i] \/ inbox'[i] = <<>> \/ (inbox[i] # <<>> /\ inbox'[i] = Tail(inbox[i])),
         ToSet(caching'[i]) \cup ToSet(cache') \subseteq ToSet(caching[i]) \cup ToSet(cache)
  PROVE  Ahead(i)'
<1>1. inbox[i] \in Seq(Messages)
  BY DEF Typed
<1>2. ToSet(inbox'[i]) \subseteq ToSet(inbox[i])
  BY <1>1, TailIndices, ToSetEmpty
<1>3. \A k \in DOMAIN inbox'[i] : \A j \in 1..k - 1 : After(inbox'[i][k], inbox'[i][j])
  <2>1. CASE inbox'[i] = inbox[i]
    BY <2>1 DEF Ahead
  <2>2. CASE inbox'[i] = <<>>
    BY <2>2
  <2>3. CASE inbox[i] # <<>> /\ inbox'[i] = Tail(inbox[i])
    <3> SUFFICES ASSUME NEW k \in DOMAIN Tail(inbox[i]), NEW j \in 1..k - 1
                 PROVE  After(Tail(inbox[i])[k], Tail(inbox[i])[j])
      BY <2>3
    <3>1. /\ k + 1 \in DOMAIN inbox[i] /\ Tail(inbox[i])[k] = inbox[i][k + 1]
          /\ j \in DOMAIN Tail(inbox[i]) /\ j + 1 \in 1..(k + 1) - 1
      BY <1>1, <2>3, TailIndices
    <3>2. Tail(inbox[i])[j] = inbox[i][j + 1]
      BY <1>1, <2>3, <3>1, TailIndices
    <3> QED BY <3>1, <3>2 DEF Ahead
  <2> QED BY <2>1, <2>2, <2>3
<1> QED BY <1>2, <1>3, SameOrder DEF Ahead

LEMMA HandleOrder ==
  ASSUME Typed, NEW i \in Instances, Handled(i), Ahead(i), HandleEvent(i)
  PROVE  Handled(i)' /\ Ahead(i)'
<1> DEFINE m == Head(inbox[i])
           d == Parse[m]
           c == caching[i]
<1>1. /\ inbox[i] \in Seq(Messages) /\ inbox[i] # <<>> /\ inbox'[i] = Tail(inbox[i])
      /\ caching'[i] = Append(c, d) /\ c \in Seq(Events) /\ UNCHANGED <<channel, cache>> /\ d # NoEvent
  BY DEF HandleEvent, Typed, stores
<1>2. d \in Events
  BY <1>1, ParsedType
<1>3. m \in ToSet(inbox[i]) /\ m = inbox[i][1] /\ ToSet(inbox'[i]) \subseteq ToSet(inbox[i])
  BY <1>1, TailIndices
<1>4. \A n \in ToSet(inbox'[i]) : PublishedAfter(Parse[n], d)
  <2> SUFFICES ASSUME NEW n \in ToSet(inbox'[i]) PROVE PublishedAfter(Parse[n], Parse[m])
    OBVIOUS
  <2>1. PICK k \in DOMAIN Tail(inbox[i]) : Tail(inbox[i])[k] = n
    BY <1>1 DEF ToSet
  <2>2. After(inbox[i][k + 1], inbox[i][1])
    BY <1>1, TailIndices DEF Ahead
  <2>3. n = inbox[i][k + 1]
    BY <1>1, <2>1, TailIndices
  <2> HIDE DEF m
  <2> QED BY <1>3, <2>2, <2>3, AfterParsed
<1>5. Carried(d)
  BY <1>3 DEF Ahead, Carried, ToSet
<1>6. \A e \in ToSet(c) \cup ToSet(cache) : PublishedAfter(d, e)
  BY <1>3 DEF Ahead
<1> HIDE DEF d, m, c
<1>7. /\ DOMAIN caching'[i] = DOMAIN c \cup {Len(c) + 1}
      /\ \A k \in DOMAIN c : caching'[i][k] = c[k]
      /\ caching'[i][Len(c) + 1] = d
      /\ \A k \in DOMAIN caching'[i] : \A j \in 1..k - 1 : j \in DOMAIN c
  BY <1>1, <1>2
<1>8. ToSet(caching'[i]) = ToSet(c) \cup {d}
  BY <1>1, <1>2, ToSetAppend
<1>9. \A k \in DOMAIN caching'[i] : \A j \in 1..k - 1 : PublishedAfter(caching'[i][k], caching'[i][j])
  <2> SUFFICES ASSUME NEW k \in DOMAIN caching'[i], NEW j \in 1..k - 1
               PROVE  PublishedAfter(caching'[i][k], caching'[i][j])
    OBVIOUS
  <2>1. j \in DOMAIN c /\ caching'[i][j] = c[j] /\ c[j] \in ToSet(c)
    BY <1>7 DEF ToSet
  <2>2. CASE k \in DOMAIN c
    BY <1>7, <2>1, <2>2 DEF Handled, c
  <2>3. CASE caching'[i][k] = d
    BY <1>6, <2>1, <2>3
  <2> QED BY <1>7, <2>2, <2>3
<1>10. Handled(i)'
  BY <1>1, <1>5, <1>6, <1>8, <1>9, SameOrder DEF Handled, c
<1>11. \A k \in DOMAIN inbox'[i] : \A j \in 1..k - 1 : After(inbox'[i][k], inbox'[i][j])
  BY <1>1, TailIndices DEF Ahead
<1>12. Ahead(i)'
  BY <1>1, <1>3, <1>4, <1>8, <1>11, SameOrder DEF Ahead, c
<1> QED BY <1>10, <1>12

\* The first call is executed, or fails.
LEMMA CacheOrder ==
  ASSUME Typed, NEW i \in Instances, Handled(i), Ahead(i), CacheOk(i) \/ CacheFail(i)
  PROVE  Handled(i)' /\ Ahead(i)'
<1> DEFINE c == caching[i]
<1>1. /\ c \in Seq(Events) /\ c # <<>> /\ caching'[i] = Tail(c)
      /\ UNCHANGED <<channel, inbox>>
      /\ cache' = cache \/ cache' = Pushed(<<Head(c)>>, cache)
  BY DEF CacheOk, CacheFail, AfterCaching, Typed, wire
<1>2. Handled(i)
  OBVIOUS
<1>3. /\ \A k \in DOMAIN c : \A j \in 1..k - 1 : PublishedAfter(c[k], c[j])
      /\ \A d \in ToSet(c), e \in ToSet(cache) : PublishedAfter(d, e)
      /\ \A e \in ToSet(c) \cup ToSet(cache) : Carried(e)
      /\ \A k \in DOMAIN cache : \A j \in 1..k - 1 : PublishedAfter(cache[j], cache[k])
  BY DEF Handled
<1>4. /\ \A k \in DOMAIN cache' : \A j \in 1..k - 1 : PublishedAfter(cache'[j], cache'[k])
      /\ \A e \in ToSet(cache') : e \in ToSet(cache) \/ e = c[1]
  <2>1. CASE cache' = cache
    BY <1>3, <2>1
  <2>2. CASE cache' = Pushed(<<Head(c)>>, cache)
    <3>1. <<Head(c)>> = SubSeq(c, 1, 1) /\ 1 \in 0..Len(c)
      BY <1>1
    <3>2. cache' = Pushed(SubSeq(c, 1, 1), cache)
      BY <2>2, <3>1
    <3>3. /\ \A k \in DOMAIN cache' : \A j \in 1..k - 1 : PublishedAfter(cache'[j], cache'[k])
          /\ \A k \in DOMAIN cache' : cache'[k] \in ToSet(cache) \/ \E j \in 1..1 : cache'[k] = c[j]
      BY <3>1, <3>2, PushedOrder
    <3> QED BY <3>3 DEF ToSet
  <2> QED BY <1>1, <2>1, <2>2
<1> HIDE DEF c
<1>5. /\ \A k \in DOMAIN Tail(c) : k + 1 \in DOMAIN c /\ Tail(c)[k] = c[k + 1]
      /\ \A k \in DOMAIN Tail(c) : \A j \in 1..k - 1 : j \in DOMAIN Tail(c) /\ j + 1 \in 1..(k + 1) - 1
      /\ \A k \in DOMAIN Tail(c) : 1 \in 1..(k + 1) - 1
      /\ ToSet(Tail(c)) \subseteq ToSet(c) /\ c[1] \in ToSet(c)
  BY <1>1, TailIndices
<1>6. \A k \in DOMAIN Tail(c) : \A j \in 1..k - 1 : PublishedAfter(Tail(c)[k], Tail(c)[j])
  BY <1>3, <1>5
<1>7. \A d \in ToSet(Tail(c)), e \in ToSet(cache') : PublishedAfter(d, e)
  <2> SUFFICES ASSUME NEW d \in ToSet(Tail(c)), NEW e \in ToSet(cache') PROVE PublishedAfter(d, e)
    OBVIOUS
  <2>1. CASE e \in ToSet(cache)
    BY <1>3, <1>5, <2>1
  <2>2. CASE e = c[1]
    <3>1. PICK k \in DOMAIN Tail(c) : Tail(c)[k] = d
      BY DEF ToSet
    <3> QED BY <1>3, <1>5, <2>2, <3>1
  <2> QED BY <1>4, <2>1, <2>2
<1>8. \A e \in ToSet(Tail(c)) \cup ToSet(cache') : Carried(e) /\ e \in ToSet(c) \cup ToSet(cache)
  BY <1>3, <1>4, <1>5
<1>9. Handled(i)'
  BY <1>1, <1>4, <1>6, <1>7, <1>8, SameOrder DEF Handled
<1>10. Ahead(i)'
  BY <1>1, <1>8, ShrinkAhead DEF c
<1> QED BY <1>9, <1>10

\* Memory is gone; of the calls that were sent the first few were executed.
LEMMA GoneOrder ==
  ASSUME Typed, NEW i \in Instances, Handled(i), Gone(i), NEW n \in 0..Len(caching[i]),
         cache' = cache \/ cache' = Pushed(SubSeq(caching[i], 1, n), cache)
  PROVE  Handled(i)' /\ Ahead(i)'
<1>1. inbox'[i] = <<>> /\ caching'[i] = <<>> /\ UNCHANGED channel
  BY DEF Gone, Typed
<1>2. Len(caching[i]) \in Nat /\ DOMAIN caching[i] = 1..Len(caching[i])
  BY DEF Typed
<1>3. /\ \A k \in DOMAIN cache' : \A j \in 1..k - 1 : PublishedAfter(cache'[j], cache'[k])
      /\ \A e \in ToSet(cache') : Carried(e)
  <2>1. CASE cache' = cache
    BY <2>1 DEF Handled
  <2>2. CASE cache' = Pushed(SubSeq(caching[i], 1, n), cache)
    <3>1. /\ \A k \in DOMAIN cache' : \A j \in 1..k - 1 : PublishedAfter(cache'[j], cache'[k])
          /\ \A k \in DOMAIN cache' : \/ cache'[k] \in ToSet(cache)
                                      \/ \E j \in 1..n : cache'[k] = caching[i][j]
      BY <2>2, PushedOrder
    <3>2. \A j \in 1..n : caching[i][j] \in ToSet(caching[i])
      BY <1>2 DEF ToSet
    <3> QED BY <3>1, <3>2 DEF Handled, ToSet
  <2> QED BY <2>1, <2>2
<1> QED BY <1>1, <1>3, ToSetEmpty, SameOrder DEF Handled, Ahead

LEMMA FeedStep ==
  ASSUME NEW b, Instances = {b}, Typed, FeedInv(b), [Next]_vars
  PROVE  FeedInv(b)'
<1> SUFFICES ASSUME resends' = 0 PROVE Handled(b)' /\ Ahead(b)'
  BY DEF FeedInv
<1>1. resends = 0 /\ ~ CacheResend(b)
  <2>1. resends \in Nat /\ (resends' = resends \/ resends' = resends + 1)
    BY ZenonT(40) DEF Typed, Next, vars, budget, Publish, Republish, Deliver, SubscriberReset, Boot, Subscribe, Unheard,
       Listen, HandleMalformed, HandleEvent, TimerFlush, CacheOk, CacheFail, CacheResend,
       AfterCaching, InsertOk, InsertFail, BeginShutdown, Exit, Crash, Gone
  <2>2. resends = 0
    BY <2>1
  <2> QED BY <2>2 DEF CacheResend
<1>2. Handled(b) /\ Ahead(b) /\ b \in Instances
  BY <1>1 DEF FeedInv
<1>3. ASSUME NEW m \in Messages, Publish(m) \/ Republish(m) PROVE Handled(b)' /\ Ahead(b)'
  BY <1>2, <1>3, PublishOrder DEF Publish, Republish
<1>4. CASE SubscriberReset(b) \/ Unheard(b) \/ HandleMalformed(b)
  <2>1. UNCHANGED <<channel, caching, cache>>
    BY <1>4 DEF SubscriberReset, Unheard, HandleMalformed, stores
  <2>2. inbox'[b] = <<>> \/ (inbox[b] # <<>> /\ inbox'[b] = Tail(inbox[b]))
    BY <1>2, <1>4 DEF SubscriberReset, Unheard, HandleMalformed, Typed
  <2>3. Handled(b)'
    BY <1>2, <2>1, SameOrder DEF Handled
  <2> QED BY <1>2, <2>1, <2>2, <2>3, ShrinkAhead
<1>5. CASE UNCHANGED <<channel, inbox, caching, cache>>
  BY <1>2, <1>5, SameOrder DEF Handled, Ahead
<1>6. ASSUME \/ Boot(b) \/ Subscribe(b) \/ Listen(b) \/ TimerFlush(b) \/ BeginShutdown(b) \/ UNCHANGED vars
             \/ \E f \in Flights : InsertOk(b, f) \/ InsertFail(b, f)
      PROVE  Handled(b)' /\ Ahead(b)'
  BY <1>5, <1>6 DEF Boot, Subscribe, Listen, TimerFlush, BeginShutdown, vars, InsertOk, InsertFail, wire, stores
<1>7. CASE Exit(b)
  <2>1. Gone(b) /\ cache' = cache
    BY <1>7 DEF Exit, stores
  <2>2. 0 \in 0..Len(caching[b])
    BY <1>2 DEF Typed
  <2> QED BY <1>2, <2>1, <2>2, GoneOrder
<1>8. CASE Crash(b)
  <2>1. Gone(b) /\ \E n \in 0..Len(caching[b]) : cache' = Pushed(SubSeq(caching[b], 1, n), cache)
    BY <1>8 DEF Crash
  <2> QED BY <1>2, <2>1, GoneOrder
<1> QED BY <1>1, <1>2, <1>3, <1>4, <1>6, <1>7, <1>8, HandleOrder, CacheOrder DEF Next

\* Whatever calls of cacheEvent failed or died with a process: what a dashboard gets
\* from the cache is newest first and has no event twice.
THEOREM TheFeedIsNewestFirst ==
  ASSUME NEW b, Instances = {b}
  PROVE  Spec => []FeedNewestFirst
<1>1. Init => FeedInv(b)
  <2> SUFFICES ASSUME Init PROVE Handled(b) /\ Ahead(b)
    BY DEF FeedInv
  <2>1. inbox[b] = <<>> /\ caching[b] = <<>> /\ cache = <<>>
    BY DEF Init
  <2> QED BY <2>1, ToSetEmpty DEF Handled, Ahead
<1>2. Typed /\ FeedInv(b) /\ [Next]_vars => FeedInv(b)'
  BY FeedStep
<1>3. FeedInv(b) => FeedNewestFirst
  BY DEF FeedInv, Handled, FeedNewestFirst
<1> QED BY <1>1, <1>2, <1>3, AlwaysTyped, PTL DEF Spec
=============================================================================

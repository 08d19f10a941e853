--------------------------- MODULE MetricsProofs ---------------------------
(***************************************************************************)
(* For every stream of events, every skew of their clocks and every length *)
(* of the windows: the types, that pruning never takes away an entry a     *)
(* snapshot should count, and that the numbers of a snapshot are those of  *)
(* everything that happened.                                               *)
(***************************************************************************)
EXTENDS Metrics, Sums, TLAPS

-----------------------------------------------------------------------------
\* What prune keeps and what it takes are a split of the list, at some length n.
LEMMA PruneType ==
  ASSUME TypeOK, NEW w \in Seq(Entries), Prune(w)
  PROVE  window' \in Seq(Entries) /\ gone' \in Seq(Entries) /\ prunedAt' \in Nat
<1>1. PICK n \in 0..Len(w) : /\ window' = SubSeq(w, n + 1, Len(w))
                             /\ gone' = gone \o SubSeq(w, 1, n)
                             /\ prunedAt' = now
  BY DEF Prune
<1>2. SubSeq(w, n + 1, Len(w)) \in Seq(Entries) /\ SubSeq(w, 1, n) \in Seq(Entries)
  OBVIOUS
<1>3. QED BY <1>1, <1>2 DEF TypeOK

\* Whatever the list, an evaluation gives keys of alerts.
LEMMA AlertsType ==
  ASSUME NEW w, NEW t, NEW sums
  PROVE  Snapshot(w, t, sums).alerts \in SUBSET Keys
  BY DEF Snapshot, EvaluateAlerts

\* Recording an event keeps the types.
LEMMA RecordType == TypeOK /\ Record => TypeOK'
<1> SUFFICES ASSUME TypeOK, Record PROVE TypeOK'
  OBVIOUS
<1>1. PICK k \in Kinds, skew \in Skews :
        LET entry == [type |-> k.type, amount |-> k.amount, userId |-> k.userId,
                      at |-> now + skew, came |-> now]
        IN /\ Prune(Append(window, entry))
           /\ totals' = [revenue |-> totals.revenue + k.amount,
                         orders  |-> totals.orders + (IF k.type = "order" THEN 1 ELSE 0)]
  BY DEF Record
<1> DEFINE entry == [type |-> k.type, amount |-> k.amount, userId |-> k.userId,
                     at |-> now + skew, came |-> now]
<1>2. entry \in Entries
  BY KindsAssumption, SkewsAssumption DEF Entries, TypeOK
<1>3. Append(window, entry) \in Seq(Entries)
  BY <1>2 DEF TypeOK
<1>4. window' \in Seq(Entries) /\ gone' \in Seq(Entries) /\ prunedAt' \in Nat
  BY <1>1, <1>3, PruneType
<1>5. totals' \in [revenue : Int, orders : Int]
  BY <1>1, KindsAssumption DEF TypeOK
<1>6. QED BY <1>4, <1>5 DEF Record, TypeOK

\* So does a tick.
LEMMA TickType == TypeOK /\ Tick => TypeOK'
<1> SUFFICES ASSUME TypeOK, Tick PROVE TypeOK'
  OBVIOUS
<1> DEFINE breached == Snapshot(window, now, totals).alerts
<1>1. breached \in SUBSET Keys
  BY AlertsType
<1>2. /\ activeKeys' = breached
      /\ ticks' = Append(ticks, [at |-> now, breached |-> breached,
                                 announced |-> breached \ activeKeys])
  BY DEF Tick
<1>3. window' \in Seq(Entries) /\ gone' \in Seq(Entries) /\ prunedAt' \in Nat
  BY PruneType DEF Tick, TypeOK
<1>4. [at |-> now, breached |-> breached, announced |-> breached \ activeKeys]
        \in [at : Nat, breached : SUBSET Keys, announced : SUBSET Keys]
  BY <1>1 DEF TypeOK
<1>5. ticks' \in Seq([at : Nat, breached : SUBSET Keys, announced : SUBSET Keys])
  BY <1>2, <1>4 DEF TypeOK
<1>6. activeKeys' \in SUBSET Keys
  BY <1>1, <1>2
<1>7. UNCHANGED <<now, watching, totals, primed>>
  BY DEF Tick
<1> HIDE DEF breached
<1>8. QED BY <1>3, <1>5, <1>6, <1>7 DEF TypeOK

\* So does every step.
LEMMA StepType == TypeOK /\ [Next]_vars => TypeOK'
<1> SUFFICES ASSUME TypeOK, [Next]_vars PROVE TypeOK'
  OBVIOUS
<1>1. CASE Advance
  BY <1>1 DEF Advance, TypeOK
<1>2. CASE PrimeTotals
  BY <1>2, PrimesAssumption DEF PrimeTotals, TypeOK
<1>3. CASE Connect
  BY <1>3, PruneType DEF Connect, TypeOK
<1>4. CASE UNCHANGED vars
  BY <1>4 DEF TypeOK, vars
<1>5. QED BY <1>1, <1>2, <1>3, <1>4, RecordType, TickType DEF Next

\* Every reachable state is well typed.
THEOREM TypeCorrect == Spec => []TypeOK
<1>1. Init => TypeOK
  BY DEF Init, TypeOK
<1>2. QED BY <1>1, StepType, PTL DEF Spec

-----------------------------------------------------------------------------
(***************************************************************************)
(* Pruning loses nothing.  What was stale stays stale as the clock moves   *)
(* on, and prune shifts only entries that are stale when it runs, whatever *)
(* order the timestamps are in.                                            *)
(***************************************************************************)
LEMMA PruneComplete ==
  ASSUME TypeOK, WindowComplete, now' = now, NEW w \in Seq(Entries), Prune(w)
  PROVE  WindowComplete'
<1>1. PICK n \in 0..Len(w) : /\ \A j \in 1..n : Stale(w[j], now)
                             /\ gone' = gone \o SubSeq(w, 1, n)
  BY DEF Prune
<1>2. gone \in Seq(Entries) /\ SubSeq(w, 1, n) \in Seq(Entries)
  BY DEF TypeOK
<1>3. ASSUME NEW j \in DOMAIN gone' PROVE Stale(gone'[j], now)
  <2>1. CASE j \in DOMAIN gone
    BY <1>1, <1>2, <2>1 DEF WindowComplete
  <2>2. CASE j \notin DOMAIN gone
    <3>1. j - Len(gone) \in 1..n /\ gone'[j] = w[j - Len(gone)]
      BY <1>1, <1>2, <1>3, <2>2
    <3>2. QED BY <1>1, <3>1
  <2>3. QED BY <2>1, <2>2
<1>4. QED BY <1>3 DEF WindowComplete

\* For every order of arrival and every skew: an entry that left the window is
\* older than the window, now and for ever.
THEOREM WindowIsComplete == Spec => []WindowComplete
<1>1. Init => WindowComplete
  BY DEF Init, WindowComplete
<1>2. TypeOK /\ WindowComplete /\ [Next]_vars => WindowComplete'
  <2> SUFFICES ASSUME TypeOK, WindowComplete, [Next]_vars PROVE WindowComplete'
    OBVIOUS
  <2>1. CASE Advance
    <3>1. ASSUME NEW j \in DOMAIN gone PROVE gone[j].at \in Int
      <4>1. gone[j] \in Entries
        BY DEF TypeOK
      <4>2. QED BY <4>1 DEF Entries
    <3>2. QED BY <2>1, <3>1, WindowsAssumption DEF Advance, WindowComplete, Stale, TypeOK
  <2>2. CASE PrimeTotals
    BY <2>2 DEF PrimeTotals, WindowComplete
  <2>3. CASE Record
    <3>1. PICK k \in Kinds, skew \in Skews :
            Prune(Append(window, [type |-> k.type, amount |-> k.amount,
                                  userId |-> k.userId, at |-> now + skew, came |-> now]))
      BY <2>3 DEF Record
    <3>2. [type |-> k.type, amount |-> k.amount, userId |-> k.userId, at |-> now + skew, came |-> now]
            \in Entries
      BY KindsAssumption, SkewsAssumption DEF Entries, TypeOK
    <3>3. Append(window, [type |-> k.type, amount |-> k.amount,
                          userId |-> k.userId, at |-> now + skew, came |-> now]) \in Seq(Entries)
      BY <3>2 DEF TypeOK
    <3>4. QED BY <2>3, <3>1, <3>3, PruneComplete DEF Record
  <2>4. CASE Tick \/ Connect
    BY <2>4, PruneComplete DEF Tick, Connect, TypeOK
  <2>5. CASE UNCHANGED vars
    BY <2>5 DEF vars, WindowComplete
  <2>6. QED BY <2>1, <2>2, <2>3, <2>4, <2>5 DEF Next
<1>3. QED BY <1>1, <1>2, TypeCorrect, PTL DEF Spec

-----------------------------------------------------------------------------
(***************************************************************************)
(* The snapshot.  A sum over a list is a sum over its positions.           *)
(***************************************************************************)
Amounts(w) == [j \in DOMAIN w |-> w[j].amount]
RatePositions(w, t) == {j \in DOMAIN w : w[j].at >= t - RateWindow}

\* The sum of the amounts at some positions, as a snapshot says it.
LEMMA AmountsSum ==
  ASSUME NEW w, NEW S \in SUBSET DOMAIN w
  PROVE  MapThenSumSet(LAMBDA j : w[j].amount, S) = SumFunctionOnSet(Amounts(w), S)
<1> DEFINE f == Amounts(w)
           loop(g) == g = [s \in SUBSET S |-> IF s = {} THEN 0
                                              ELSE w[Chosen(s)].amount + g[s \ {Chosen(s)}]]
<1>1. MapThenSumSet(LAMBDA j : w[j].amount, S) = (CHOOSE g : loop(g))[S]
  BY DEF MapThenSumSet, MapThenFoldSet, Chosen
<1>2. SumFunctionOnSet(f, S) = (CHOOSE g : Folds(g, f, S))[S]
  BY SumIsChosenFold
<1>3. ASSUME NEW g PROVE loop(g) <=> Folds(g, f, S)
  <2>1. ASSUME NEW s \in SUBSET S, s # {} PROVE f[Chosen(s)] = w[Chosen(s)].amount
    BY <2>1, ChosenIn DEF Amounts
  <2> HIDE DEF f
  <2> QED BY <2>1 DEF Folds
<1>4. (CHOOSE g : loop(g)) = (CHOOSE g : Folds(g, f, S))
  <2> HIDE DEF loop, f
  <2> QED BY <1>3
<1> QED BY <1>1, <1>2, <1>4

\* Entries have times and amounts.
LEMMA EntryTypes ==
  ASSUME NEW w \in Seq(Entries)
  PROVE  /\ \A j \in DOMAIN w : w[j].at \in Int /\ Amounts(w)[j] = w[j].amount /\ w[j].amount \in Int
         /\ IsFiniteSet(DOMAIN w) /\ DOMAIN w = 1..Len(w) /\ Len(w) \in Nat
<1>1. DOMAIN w = 1..Len(w) /\ Len(w) \in Nat
  OBVIOUS
<1>2. IsFiniteSet(1..Len(w))
  BY <1>1, FS_Interval
<1>3. \A j \in DOMAIN w : w[j] \in Entries
  OBVIOUS
<1> QED BY <1>1, <1>2, <1>3 DEF Entries, Amounts

\* The loop of snapshot adds up the amounts of the entries within the rate window.
LEMMA RevenueIsSum ==
  ASSUME NEW w \in Seq(Entries), NEW t \in Int
  PROVE  Revenue(w, t) = SumFunctionOnSet(Amounts(w), RatePositions(w, t))
<1> DEFINE D == DOMAIN w
           old(j) == w[j].at < t - RateWindow
           f == [j \in D |-> IF old(j) THEN 0 ELSE w[j].amount]
           loop(g) == g = [s \in SUBSET D |->
                             IF s = {} THEN 0
                             ELSE IF old(Max(s)) THEN g[s \ {Max(s)}]
                             ELSE g[s \ {Max(s)}] + w[Max(s)].amount]
           iter == CHOOSE g : loop(g)
           sums == [s \in SUBSET D |-> SumFunctionOnSet(f, s)]
<1>1. RateWindow \in Int
  BY WindowsAssumption
<1>2. IsFiniteSet(D) /\ D \subseteq Int /\ \A j \in D : f[j] \in Int /\ w[j].at \in Int /\ w[j].amount \in Int
  BY EntryTypes
<1>3. Revenue(w, t) = iter[D]
  BY DEF Revenue, FoldLeft, MapThenFoldSet
<1>4. ASSUME NEW s \in SUBSET D, s # {}
      PROVE  /\ Max(s) \in s /\ IsFiniteSet(s) /\ s \ {Max(s)} \in SUBSET D
             /\ \A x \in s : f[x] \in Int
  <2>1. IsFiniteSet(s) /\ s \subseteq Int
    BY <1>2, FS_Subset
  <2>2. Max(s) \in s
    BY <1>4, <2>1, Greatest
  <2> HIDE DEF D, f
  <2> QED BY <1>2, <2>1, <2>2
<1>5. loop(sums)
  <2>1. sums[{}] = 0
    BY SumOfNothing
  <2>2. ASSUME NEW s \in SUBSET D, s # {}
        PROVE  sums[s] = IF old(Max(s)) THEN sums[s \ {Max(s)}]
                         ELSE sums[s \ {Max(s)}] + w[Max(s)].amount
    <3> DEFINE m == Max(s)
    <3>1. /\ m \in s /\ m \in D /\ IsFiniteSet(s) /\ s \ {m} \in SUBSET D
          /\ IsFiniteSet(s \ {m}) /\ \A x \in s : f[x] \in Int
      BY <1>4, <2>2, FS_RemoveElement
    <3> HIDE DEF m
    <3>2. SumFunctionOnSet(f, s) = f[m] + SumFunctionOnSet(f, s \ {m})
      <4> HIDE DEF f
      <4> QED BY <3>1, SumAt
    <3>3. SumFunctionOnSet(f, s \ {m}) \in Int
      <4> HIDE DEF f
      <4> QED BY <3>1, SumType
    <3>4. f[m] = (IF old(m) THEN 0 ELSE w[m].amount) /\ w[m].amount \in Int
      BY <1>2, <3>1
    <3>5. sums[s] = SumFunctionOnSet(f, s) /\ sums[s \ {m}] = SumFunctionOnSet(f, s \ {m})
      BY <3>1
    <3> HIDE DEF f, old, sums
    <3>6. sums[s] = IF old(m) THEN sums[s \ {m}] ELSE sums[s \ {m}] + w[m].amount
      BY <3>2, <3>3, <3>4, <3>5
    <3> QED BY <3>6 DEF m
  <2>3. sums = [s \in SUBSET D |-> sums[s]]
    OBVIOUS
  <2> HIDE DEF sums, D, old
  <2> QED BY <2>1, <2>2, <2>3
<1>6. loop(iter)
  <2> HIDE DEF loop, sums
  <2> QED BY <1>5
<1>7. iter[D] = SumFunctionOnSet(f, D)
  <2> HIDE DEF iter
  <2>1. iter[{}] = 0
    BY <1>6
  <2>2. ASSUME NEW s \in SUBSET D, s # {}
        PROVE  \E x \in s : iter[s \ {x}] \in Int => iter[s] = f[x] + iter[s \ {x}]
    <3> DEFINE m == Max(s)
    <3>1. iter[s] = IF old(m) THEN iter[s \ {m}] ELSE iter[s \ {m}] + w[m].amount
      BY <1>6, <2>2
    <3>2. m \in s
      BY <1>4, <2>2
    <3>3. f[m] = (IF old(m) THEN 0 ELSE w[m].amount) /\ w[m].amount \in Int
      BY <1>2, <3>2
    <3> HIDE DEF f, old, m, loop
    <3>4. iter[s \ {m}] \in Int => iter[s] = f[m] + iter[s \ {m}]
      BY <3>1, <3>3
    <3> QED BY <3>2, <3>4
  <2> HIDE DEF f, D, loop
  <2> QED BY <1>2, <2>1, <2>2, SumInAnyOrder
<1>8. SumFunctionOnSet(f, D) = SumFunctionOnSet(f, RatePositions(w, t))
  <2>1. RatePositions(w, t) \in SUBSET D /\ \A j \in D \ RatePositions(w, t) : f[j] = 0
    BY <1>1, <1>2 DEF RatePositions
  <2> HIDE DEF f, D
  <2> QED BY <1>2, <2>1, SumOfSome
<1>9. SumFunctionOnSet(Amounts(w), RatePositions(w, t)) = SumFunctionOnSet(f, RatePositions(w, t))
  <2>1. RatePositions(w, t) \in SUBSET D /\ IsFiniteSet(RatePositions(w, t))
    BY <1>2, FS_Subset DEF RatePositions
  <2>2. \A j \in RatePositions(w, t) : f[j] \in Int /\ Amounts(w)[j] = f[j]
    BY <1>1, <1>2 DEF RatePositions, Amounts
  <2> HIDE DEF f, D
  <2> QED BY <2>1, <2>2, SumsOfEqual
<1> QED BY <1>3, <1>7, <1>8, <1>9

\* What is gone is too old for both windows: the entries within one of them are those
\* of the window, some places further.
LEMMA WindowPositions ==
  ASSUME TypeOK, WindowComplete, NEW age \in {RateWindow, ActiveUserWindow}
  PROVE  /\ DOMAIN Recorded = 1..(Len(gone) + Len(window))
         /\ \A j \in DOMAIN window : Len(gone) + j \in DOMAIN Recorded /\ Recorded[Len(gone) + j] = window[j]
         /\ \A k \in DOMAIN Recorded : Recorded[k].at >= now - age =>
              \E j \in DOMAIN window : k = Len(gone) + j
<1>1. /\ gone \in Seq(Entries) /\ window \in Seq(Entries) /\ now \in Int
      /\ Len(gone) \in Nat /\ Len(window) \in Nat
      /\ DOMAIN gone = 1..Len(gone) /\ DOMAIN window = 1..Len(window)
  BY DEF TypeOK
<1>2. /\ DOMAIN Recorded = 1..(Len(gone) + Len(window))
      /\ \A k \in 1..Len(gone) : Recorded[k] = gone[k]
      /\ \A j \in 1..Len(window) : Recorded[Len(gone) + j] = window[j]
  BY <1>1 DEF Recorded
<1>3. \A k \in 1..Len(gone) : ~ (Recorded[k].at >= now - age)
  <2> TAKE k \in 1..Len(gone)
  <2>1. gone[k].at \in Int /\ gone[k].at < now - ActiveUserWindow
    <3>1. gone[k] \in Entries
      BY <1>1
    <3> QED BY <1>1, <3>1 DEF WindowComplete, Stale, Entries
  <2> QED BY <1>1, <1>2, <2>1, WindowsAssumption
<1>4. ASSUME NEW k \in DOMAIN Recorded, Recorded[k].at >= now - age
      PROVE  \E j \in DOMAIN window : k = Len(gone) + j
  <2>1. k \in 1..(Len(gone) + Len(window)) /\ k \notin 1..Len(gone)
    BY <1>2, <1>3, <1>4
  <2>2. k - Len(gone) \in 1..Len(window) /\ k = Len(gone) + (k - Len(gone))
    BY <1>1, <2>1
  <2> QED BY <1>1, <2>2
<1>5. \A j \in DOMAIN window : Len(gone) + j \in 1..(Len(gone) + Len(window))
  BY <1>1
<1> QED BY <1>1, <1>2, <1>4, <1>5

\* A sum and a count over the rate window are those over everything recorded.
LEMMA RateIsComplete ==
  ASSUME TypeOK, WindowComplete
  PROVE  /\ SumFunctionOnSet(Amounts(window), RatePositions(window, now))
              = SumFunctionOnSet(Amounts(Recorded), RatePositions(Recorded, now))
         /\ \A type : RateCount(window, now, type)
                       = Cardinality({k \in RatePositions(Recorded, now) : Recorded[k].type = type})
<1> DEFINE S == RatePositions(window, now)
           T == RatePositions(Recorded, now)
           n == Len(gone)
           shift == [j \in S |-> n + j]
<1>1. /\ n \in Nat /\ DOMAIN Recorded = 1..(n + Len(window))
      /\ \A j \in DOMAIN window : n + j \in DOMAIN Recorded /\ Recorded[n + j] = window[j]
      /\ \A k \in DOMAIN Recorded : Recorded[k].at >= now - RateWindow =>
              \E j \in DOMAIN window : k = n + j
  BY WindowPositions DEF TypeOK
<1>2. /\ \A j \in DOMAIN window : Amounts(window)[j] = window[j].amount /\ window[j].amount \in Int
      /\ IsFiniteSet(DOMAIN window) /\ DOMAIN window \subseteq Int
  BY EntryTypes DEF TypeOK
<1>3. IsFiniteSet(S)
  BY <1>2, FS_Subset DEF RatePositions
<1>4. shift \in [S -> T]
  BY <1>1 DEF RatePositions
<1>5. \A i, j \in S : shift[i] = shift[j] => i = j
  <2>1. \A i \in S : i \in Int
    BY <1>2 DEF RatePositions
  <2> HIDE DEF S
  <2> QED BY <1>1, <2>1
<1>6. \A k \in T : \E j \in S : shift[j] = k
  <2> TAKE k \in T
  <2>1. PICK j \in DOMAIN window : k = n + j
    BY <1>1 DEF RatePositions
  <2>2. j \in S
    BY <1>1, <2>1 DEF RatePositions
  <2> QED BY <2>1, <2>2
<1>7. shift \in Bijection(S, T)
  <2> HIDE DEF shift, S, T
  <2> QED BY <1>4, <1>5, <1>6 DEF Bijection, Injection, IsInjective, Surjection
<1>8. SumFunctionOnSet(Amounts(window), S) = SumFunctionOnSet(Amounts(Recorded), T)
  <2>1. \A j \in S : Amounts(window)[j] \in Int /\ Amounts(Recorded)[shift[j]] = Amounts(window)[j]
    <3> TAKE j \in S
    <3>1. j \in DOMAIN window /\ shift[j] = n + j
      BY DEF RatePositions
    <3>2. Amounts(Recorded)[n + j] = Recorded[n + j].amount
      BY <1>1, <3>1 DEF Amounts
    <3> QED BY <1>1, <1>2, <3>1, <3>2
  <2> HIDE DEF shift, S, T
  <2> QED BY <1>3, <1>7, <2>1, SumOfRenamed
<1>9. ASSUME NEW type
      PROVE  Cardinality({j \in S : window[j].type = type}) = Cardinality({k \in T : Recorded[k].type = type})
  <2> DEFINE A == {j \in S : window[j].type = type}
             B == {k \in T : Recorded[k].type = type}
             f == [j \in A |-> n + j]
  <2>1. IsFiniteSet(A)
    BY <1>3, FS_Subset
  <2>2. f \in [A -> B]
    BY <1>1, <1>4 DEF RatePositions
  <2>3. \A i, j \in A : f[i] = f[j] => i = j
    BY <1>5
  <2>4. \A k \in B : \E j \in A : f[j] = k
    <3> TAKE k \in B
    <3>1. PICK j \in S : n + j = k
      BY <1>6
    <3>2. window[j] = Recorded[k]
      BY <1>1, <3>1 DEF RatePositions
    <3> QED BY <3>1, <3>2
  <2> HIDE DEF f, A, B
  <2>5. f \in Bijection(A, B)
    BY <2>2, <2>3, <2>4 DEF Bijection, Injection, IsInjective, Surjection
  <2>6. ExistsBijection(A, B)
    BY <2>5 DEF ExistsBijection
  <2>7. Cardinality(A) = Cardinality(B)
    BY <2>1, <2>6, FS_Bijection
  <2> QED BY <2>7 DEF A, B
<1>10. ASSUME NEW type PROVE RateCount(window, now, type) = Cardinality({j \in S : window[j].type = type})
  <2>1. {j \in S : window[j].type = type}
          = {j \in DOMAIN window : window[j].at >= now - RateWindow /\ window[j].type = type}
    BY DEF RatePositions
  <2> QED BY <2>1 DEF RateCount
<1> QED BY <1>8, <1>9, <1>10

\* The totals are those of the table at boot and of everything recorded since; nothing
\* is recorded before; every entry is of some kind of event.
TotalsInv ==
  /\ totals.revenue = primed.revenue + SumFunctionOnSet(Amounts(Recorded), DOMAIN Recorded)
  /\ totals.orders = primed.orders + Cardinality({j \in DOMAIN Recorded : Recorded[j].type = "order"})
  /\ watching = -1 => Recorded = <<>>
  /\ \A j \in DOMAIN Recorded : Recorded[j].userId \in {k.userId : k \in Kinds}

\* Prune cuts a list in two: nothing is lost, nothing moves.
LEMMA PruneKeeps ==
  ASSUME TypeOK, NEW w \in Seq(Entries), Prune(w)
  PROVE  Recorded' = gone \o w
<1>1. PICK n \in 0..Len(w) : /\ window' = SubSeq(w, n + 1, Len(w))
                             /\ gone' = gone \o SubSeq(w, 1, n)
  BY DEF Prune
<1>2. gone \in Seq(Entries) /\ n \in Nat /\ n <= Len(w) /\ Len(w) \in Nat
  BY DEF TypeOK
<1> DEFINE a == SubSeq(w, 1, n)
           b == SubSeq(w, n + 1, Len(w))
<1>3. a \in Seq(Entries) /\ b \in Seq(Entries)
  BY <1>2
<1>4. a \o b = w
  <2>1. /\ Len(a) = n /\ \A j \in 1..n : a[j] = w[j]
        /\ Len(b) = Len(w) - n /\ \A j \in 1..Len(w) - n : b[j] = w[n + j]
    BY <1>2
  <2> HIDE DEF a, b
  <2>2. Len(a \o b) = Len(w) /\ a \o b \in Seq(Entries)
    <3>1. Len(a \o b) = Len(a) + Len(b) /\ a \o b \in Seq(Entries)
      BY <1>3
    <3> QED BY <1>2, <2>1, <3>1
  <2>3. ASSUME NEW j \in 1..Len(w) PROVE (a \o b)[j] = w[j]
    <3>1. CASE j <= n
      BY <1>2, <1>3, <2>1, <3>1
    <3>2. CASE j > n
      <4>1. j - n \in 1..Len(w) - n /\ n + (j - n) = j
        BY <1>2, <3>2
      <4>2. (a \o b)[j] = b[j - n]
        BY <1>2, <1>3, <2>1, <3>2
      <4> QED BY <2>1, <4>1, <4>2
    <3>3. j \in Int /\ n \in Int
      BY <1>2
    <3>4. j <= n \/ j > n
      BY <3>3
    <3> QED BY <3>1, <3>2, <3>4
  <2> DEFINE c == a \o b
  <2>4. c \in Seq(Entries) /\ Len(c) = Len(w) /\ \A j \in 1..Len(w) : c[j] = w[j]
    BY <2>2, <2>3
  <2> HIDE DEF c
  <2>5. c = w
    BY <2>4
  <2> QED BY <2>5 DEF c
<1> HIDE DEF a, b
<1>5. (gone \o a) \o b = gone \o (a \o b)
  BY <1>2, <1>3
<1> QED BY <1>1, <1>4, <1>5 DEF Recorded, a, b

\* An event that is recorded is added to both totals, once.
LEMMA RecordCounts ==
  ASSUME TypeOK, TotalsInv, Record
  PROVE  TotalsInv'
<1>1. PICK k \in Kinds, skew \in Skews :
        LET entry == [type |-> k.type, amount |-> k.amount, userId |-> k.userId,
                      at |-> now + skew, came |-> now]
        IN /\ Prune(Append(window, entry))
           /\ totals' = [revenue |-> totals.revenue + k.amount,
                         orders  |-> totals.orders + (IF k.type = "order" THEN 1 ELSE 0)]
  BY DEF Record
<1> DEFINE entry == [type |-> k.type, amount |-> k.amount, userId |-> k.userId,
                     at |-> now + skew, came |-> now]
           r == Recorded
           s == Recorded'
           n == Len(r) + 1
           Orders(q) == {j \in DOMAIN q : q[j].type = "order"}
<1>2. entry \in Entries /\ entry.amount = k.amount /\ entry.type = k.type /\ entry.userId = k.userId
  BY KindsAssumption, SkewsAssumption DEF Entries, TypeOK
<1>3. window \in Seq(Entries) /\ gone \in Seq(Entries)
  BY DEF TypeOK
<1> HIDE DEF entry
<1>4. r \in Seq(Entries) /\ s = Append(r, entry)
  <2>1. Append(window, entry) \in Seq(Entries)
    BY <1>2, <1>3
  <2>2. s = gone \o Append(window, entry)
    BY <1>1, <2>1, PruneKeeps DEF entry
  <2>3. gone \o Append(window, entry) = Append(gone \o window, entry)
    BY <1>2, <1>3
  <2> QED BY <1>3, <2>2, <2>3 DEF Recorded
<1> HIDE DEF r, s
<1>5. /\ s \in Seq(Entries) /\ Len(r) \in Nat /\ DOMAIN r = 1..Len(r) /\ DOMAIN s = DOMAIN r \cup {n}
      /\ n \notin DOMAIN r /\ s[n] = entry /\ \A j \in DOMAIN r : s[j] = r[j]
  <2>1. s \in Seq(Entries) /\ Len(s) = Len(r) + 1 /\ DOMAIN s = 1..Len(s) /\ DOMAIN r = 1..Len(r) /\ Len(r) \in Nat
    BY <1>2, <1>4
  <2>2. s[n] = entry /\ \A j \in 1..Len(r) : s[j] = r[j]
    BY <1>2, <1>4
  <2>3. 1..(Len(r) + 1) = 1..Len(r) \cup {Len(r) + 1} /\ n \notin 1..Len(r)
    BY <2>1
  <2> QED BY <2>1, <2>2, <2>3
<1>6. /\ \A j \in DOMAIN r : Amounts(r)[j] \in Int /\ Amounts(s)[j] = Amounts(r)[j]
      /\ Amounts(s)[n] = k.amount /\ k.amount \in Int
      /\ \A j \in DOMAIN r \cup {n} : Amounts(s)[j] \in Int
      /\ IsFiniteSet(DOMAIN r)
  <2>1. \A j \in DOMAIN r : Amounts(r)[j] \in Int /\ Amounts(r)[j] = r[j].amount
    BY <1>4, EntryTypes
  <2>2. \A j \in DOMAIN r \cup {n} : Amounts(s)[j] \in Int /\ Amounts(s)[j] = s[j].amount
    BY <1>5, EntryTypes
  <2>3. IsFiniteSet(DOMAIN r)
    BY <1>4, EntryTypes
  <2> HIDE DEF n
  <2> QED BY <1>2, <1>5, <2>1, <2>2, <2>3
<1>7. SumFunctionOnSet(Amounts(s), DOMAIN s) = k.amount + SumFunctionOnSet(Amounts(r), DOMAIN r)
  <2>1. SumFunctionOnSet(Amounts(s), DOMAIN r \cup {n}) = Amounts(s)[n] + SumFunctionOnSet(Amounts(s), DOMAIN r)
    <3> HIDE DEF n
    <3> QED BY <1>5, <1>6, SumWithOneMore
  <2>2. SumFunctionOnSet(Amounts(s), DOMAIN r) = SumFunctionOnSet(Amounts(r), DOMAIN r)
    BY <1>6, SumsOfEqual
  <2> QED BY <1>5, <1>6, <2>1, <2>2
<1>8. Cardinality(Orders(s)) = Cardinality(Orders(r)) + (IF k.type = "order" THEN 1 ELSE 0)
  <2>1. IsFiniteSet(Orders(r)) /\ Cardinality(Orders(r)) \in Nat
    BY <1>6, FS_Subset, FS_CardinalityType
  <2>2. CASE k.type = "order"
    <3>1. Orders(s) = Orders(r) \cup {n} /\ n \notin Orders(r)
      BY <1>2, <1>5, <2>2
    <3> HIDE DEF Orders, n
    <3> QED BY <2>1, <2>2, <3>1, FS_AddElement
  <2>3. CASE k.type # "order"
    <3>1. Orders(s) = Orders(r)
      BY <1>2, <1>5, <2>3
    <3> HIDE DEF Orders
    <3> QED BY <2>1, <2>3, <3>1
  <2> QED BY <2>2, <2>3
<1>9. SumFunctionOnSet(Amounts(r), DOMAIN r) \in Int /\ Cardinality(Orders(r)) \in Nat
  BY <1>6, SumType, FS_Subset, FS_CardinalityType
<1>10. /\ totals.revenue = primed.revenue + SumFunctionOnSet(Amounts(r), DOMAIN r)
       /\ totals.orders = primed.orders + Cardinality(Orders(r))
       /\ \A j \in DOMAIN r : r[j].userId \in {c.userId : c \in Kinds}
       /\ primed.revenue \in Int /\ primed.orders \in Int /\ primed' = primed
       /\ watching >= 0 /\ watching' = watching /\ watching \in Int
  BY DEF TotalsInv, Record, TypeOK, r
<1>11. totals'.revenue = totals.revenue + k.amount
       /\ totals'.orders = totals.orders + (IF k.type = "order" THEN 1 ELSE 0)
  BY <1>1
<1>12. totals'.revenue = primed.revenue + SumFunctionOnSet(Amounts(s), DOMAIN s)
  BY <1>6, <1>7, <1>9, <1>10, <1>11
<1>13. totals'.orders = primed.orders + Cardinality(Orders(s))
  <2> DEFINE before == Cardinality(Orders(r))
             one == IF k.type = "order" THEN 1 ELSE 0
  <2>1. /\ before \in Int /\ one \in Int /\ primed.orders \in Int
        /\ totals.orders = primed.orders + before /\ totals'.orders = totals.orders + one
    BY <1>9, <1>10, <1>11
  <2>2. Cardinality(Orders(s)) = before + one
    BY <1>8
  <2> HIDE DEF before, one, Orders
  <2> QED BY <2>1, <2>2
<1>14. \A j \in DOMAIN s : s[j].userId \in {c.userId : c \in Kinds}
  BY <1>2, <1>5, <1>10
<1>15. ~ (watching' = -1)
  BY <1>10
<1> QED BY <1>10, <1>12, <1>13, <1>14, <1>15 DEF TotalsInv, s

\* Every step keeps the totals those of the history.
LEMMA TotalsStep ==
  ASSUME TypeOK, TotalsInv, [Next]_vars
  PROVE  TotalsInv'
<1>1. CASE UNCHANGED <<totals, primed, watching>> /\ Recorded' = Recorded
  BY <1>1 DEF TotalsInv
<1>2. CASE Advance \/ UNCHANGED vars
  BY <1>1, <1>2 DEF Advance, vars, Recorded
<1>3. CASE Tick \/ Connect
  <2>1. window \in Seq(Entries) /\ Prune(window) /\ UNCHANGED <<totals, primed, watching>>
    BY <1>3 DEF Tick, Connect, TypeOK
  <2>2. Recorded' = Recorded
    BY <2>1, PruneKeeps DEF Recorded
  <2> QED BY <1>1, <2>1, <2>2
<1>4. CASE PrimeTotals
  <2>1. Recorded = <<>> /\ Recorded' = <<>>
    BY <1>4 DEF PrimeTotals, TotalsInv, Recorded
  <2>2. totals' = primed' /\ primed'.revenue \in Int /\ primed'.orders \in Int
    BY <1>4, PrimesAssumption DEF PrimeTotals
  <2>3. DOMAIN <<>> = {}
    OBVIOUS
  <2>4. /\ SumFunctionOnSet(Amounts(<<>>), {}) = 0
        /\ {j \in DOMAIN <<>> : <<>>[j].type = "order"} = {} /\ Cardinality({}) = 0
    BY <2>3, SumOfNothing, FS_EmptySet
  <2>5. totals'.revenue = primed'.revenue + 0 /\ totals'.orders = primed'.orders + 0
    BY <2>2
  <2> QED BY <2>1, <2>3, <2>4, <2>5 DEF TotalsInv
<1> QED BY <1>2, <1>3, <1>4, RecordCounts DEF Next

\* Counting only the entries of the window, in one pass, gives the numbers of the whole
\* history.
LEMMA ExactSnapshot ==
  ASSUME TypeOK, WindowComplete, TotalsInv
  PROVE  SnapshotExact
<1> DEFINE r == Recorded
           Rate == {j \in DOMAIN r : r[j].at >= now - RateWindow}
           Of(type, S) == {j \in S : r[j].type = type}
           Sum(S) == MapThenSumSet(LAMBDA j : r[j].amount, S)
           users == {u \in {k.userId : k \in Kinds} :
                       \E j \in DOMAIN r : r[j].userId = u /\ r[j].at >= now - ActiveUserWindow}
<1>1. ASSUME NEW S \in SUBSET DOMAIN r PROVE Sum(S) = SumFunctionOnSet(Amounts(r), S)
  BY AmountsSum
<1>2. Revenue(window, now) = Sum(Rate)
  <2>1. Revenue(window, now) = SumFunctionOnSet(Amounts(r), RatePositions(r, now))
    BY RevenueIsSum, RateIsComplete DEF TypeOK
  <2>2. RatePositions(r, now) = Rate /\ Rate \in SUBSET DOMAIN r
    BY DEF RatePositions
  <2> QED BY <1>1, <2>1, <2>2
<1>3. \A type : RateCount(window, now, type) = Cardinality(Of(type, Rate))
  BY RateIsComplete DEF RatePositions
<1>4. ActiveUsers(window, now) = Cardinality(users)
  <2> DEFINE seen == {window[j].userId : j \in {k \in DOMAIN window : window[k].at >= now - ActiveUserWindow}}
  <2>1. ASSUME NEW j \in DOMAIN window, window[j].at >= now - ActiveUserWindow
        PROVE  window[j].userId \in users
    <3>1. Len(gone) + j \in DOMAIN r /\ r[Len(gone) + j] = window[j]
      BY WindowPositions
    <3>2. r[Len(gone) + j].userId \in {k.userId : k \in Kinds}
      BY <3>1 DEF TotalsInv
    <3> QED BY <2>1, <3>1, <3>2
  <2>2. ASSUME NEW u \in users PROVE u \in seen
    <3>1. PICK k \in DOMAIN r : r[k].userId = u /\ r[k].at >= now - ActiveUserWindow
      OBVIOUS
    <3>2. PICK j \in DOMAIN window : k = Len(gone) + j
      BY <3>1, WindowPositions
    <3>3. window[j] = r[k]
      BY <3>2, WindowPositions
    <3> QED BY <3>1, <3>3
  <2>3. seen = users
    BY <2>1, <2>2
  <2> QED BY <2>3 DEF ActiveUsers
<1>5. totals.revenue = primed.revenue + Sum(DOMAIN r) /\ totals.orders = primed.orders + Cardinality(Of("order", DOMAIN r))
  <2>1. Sum(DOMAIN r) = SumFunctionOnSet(Amounts(r), DOMAIN r)
    BY <1>1
  <2> QED BY <2>1 DEF TotalsInv
<1> DEFINE revenue == Sum(Rate)
           orders == Cardinality(Of("order", Rate))
<1>6. EvaluateAlerts(revenue, orders, now) =
        (IF revenue > RevenueSpike THEN {"revenue:above"} ELSE {})
          \cup (IF revenue < RevenueDrop /\ now >= Warmup THEN {"revenue:below"} ELSE {})
          \cup (IF orders > OrdersSurge THEN {"orders:above"} ELSE {})
  <2> HIDE DEF revenue, orders
  <2> QED BY DEF EvaluateAlerts, Keys
<1>7. Snapshot(window, now, totals) =
        [revenueLast60s |-> revenue, ordersLast60s |-> orders,
         signupsLast60s |-> Cardinality(Of("signup", Rate)), activeUsers |-> Cardinality(users),
         totalRevenue |-> primed.revenue + Sum(DOMAIN r),
         totalOrders |-> primed.orders + Cardinality(Of("order", DOMAIN r)),
         alerts |-> EvaluateAlerts(revenue, orders, now)]
  <2> HIDE DEF Sum, Of, Rate, users, r
  <2> QED BY <1>2, <1>3, <1>4, <1>5 DEF Snapshot
<1> QED BY <1>6, <1>7 DEF SnapshotExact

\* For every stream of events, in any order and with clocks as wrong as they may be:
\* every number of a snapshot is the one a recount of all events would give.
THEOREM SnapshotsAreExact == Spec => []SnapshotExact
<1>1. Init => TotalsInv
  <2> SUFFICES ASSUME Init PROVE TotalsInv
    OBVIOUS
  <2>1. Recorded = <<>> /\ DOMAIN <<>> = {}
    BY DEF Init, Recorded
  <2>2. /\ SumFunctionOnSet(Amounts(<<>>), {}) = 0
        /\ {j \in DOMAIN <<>> : <<>>[j].type = "order"} = {} /\ Cardinality({}) = 0
    BY <2>1, SumOfNothing, FS_EmptySet
  <2> QED BY <2>1, <2>2 DEF Init, TotalsInv
<1>2. TypeOK /\ TotalsInv /\ [Next]_vars => TotalsInv'
  BY TotalsStep
<1>3. TypeOK /\ WindowComplete /\ TotalsInv => SnapshotExact
  BY ExactSnapshot
<1> QED BY <1>1, <1>2, <1>3, TypeCorrect, WindowIsComplete, PTL DEF Spec

-----------------------------------------------------------------------------
(***************************************************************************)
(* The window is bounded.  The first entry prune leaves is not stale, and  *)
(* the others came after it.                                               *)
(***************************************************************************)
InOrderOfArrival(w) ==
  \A j \in 1..Len(w) : w[j].came <= now /\ \A i \in 1..j : w[i].came <= w[j].came

\* Entries have two times.
LEMMA TimesOfEntries ==
  ASSUME NEW w \in Seq(Entries)
  PROVE  \A j \in 1..Len(w) : w[j].at \in Int /\ w[j].came \in Int
<1>1. \A j \in 1..Len(w) : w[j] \in Entries
  OBVIOUS
<1> QED BY <1>1 DEF Entries

\* Prune leaves a window that is in order and bounded.
LEMMA PruneBounds ==
  ASSUME TypeOK, NEW w \in Seq(Entries), InOrderOfArrival(w), Prune(w), now' = now
  PROVE  WindowBounded' /\ InOrderOfArrival(window)'
<1>1. PICK n \in 0..Len(w) : /\ n < Len(w) => ~ Stale(w[n + 1], now)
                             /\ window' = SubSeq(w, n + 1, Len(w))
                             /\ prunedAt' = now
  BY DEF Prune
<1> DEFINE v == window'
<1>2. /\ v \in Seq(Entries) /\ Len(v) \in Nat /\ DOMAIN v = 1..Len(v)
      /\ \A j \in 1..Len(v) : j + n \in 1..Len(w) /\ v[j] = w[j + n]
  BY <1>1, PruneType
<1>3. InOrderOfArrival(v)
  <2> SUFFICES ASSUME NEW j \in 1..Len(v) PROVE v[j].came <= now /\ \A i \in 1..j : v[i].came <= v[j].came
    BY DEF InOrderOfArrival
  <2>1. j + n \in 1..Len(w) /\ v[j] = w[j + n]
    BY <1>2
  <2>2. ASSUME NEW i \in 1..j PROVE v[i].came <= v[j].came
    <3>1. i \in 1..Len(v) /\ i + n \in 1..(j + n)
      BY <1>2
    <3>2. v[i] = w[i + n]
      BY <1>2, <3>1
    <3> HIDE DEF v
    <3> QED BY <2>1, <3>1, <3>2 DEF InOrderOfArrival
  <2> HIDE DEF v
  <2> QED BY <2>1, <2>2 DEF InOrderOfArrival
<1>4. ASSUME NEW j \in 1..Len(v)
      PROVE  now - v[j].came <= ActiveUserWindow + (v[1].at - v[1].came)
  <2>1. 1 \in 1..Len(v) /\ 1 \in 1..j /\ n < Len(w) /\ v[1] = w[n + 1]
    BY <1>2
  <2>2. v[1].came <= v[j].came
    BY <1>3, <2>1 DEF InOrderOfArrival
  <2>3. ~ (v[1].at < now - ActiveUserWindow)
    BY <1>1, <2>1 DEF Stale
  <2>4. v[1].at \in Int /\ v[1].came \in Int /\ v[j].came \in Int
    BY <1>2, <2>1, TimesOfEntries
  <2>5. ActiveUserWindow \in Int /\ now \in Int
    BY WindowsAssumption DEF TypeOK
  <2> HIDE DEF v
  <2> QED BY <2>2, <2>3, <2>4, <2>5
<1>5. \A j \in 1..Len(v) : 1 \in 1..j
  BY <1>2
<1> QED BY <1>1, <1>2, <1>3, <1>4, <1>5 DEF WindowBounded, InOrderOfArrival

\* For every stream of events, whatever the clocks of their producers say, and every
\* length of the windows: what prune leaves came within the active-user window, but for
\* as much as the timestamp of one before it was ahead.
THEOREM WindowIsBounded == Spec => []WindowBounded
<1> DEFINE Inv == WindowBounded /\ InOrderOfArrival(window)
<1>1. Init => Inv
  BY DEF Init, WindowBounded, InOrderOfArrival
<1>2. TypeOK /\ Inv /\ [Next]_vars => Inv'
  <2> SUFFICES ASSUME TypeOK, Inv, [Next]_vars PROVE Inv'
    OBVIOUS
  <2>1. CASE PrimeTotals \/ UNCHANGED vars
    BY <2>1 DEF PrimeTotals, vars, WindowBounded, InOrderOfArrival
  <2>2. CASE Advance
    <3>1. \A j \in 1..Len(window) : window[j].came \in Int
      BY TimesOfEntries DEF TypeOK
    <3>2. now' = now + 1 /\ now \in Int /\ UNCHANGED <<window, prunedAt>>
      BY <2>2 DEF Advance, TypeOK
    <3> QED BY <3>1, <3>2 DEF WindowBounded, InOrderOfArrival
  <2>3. CASE Record
    <3>1. PICK k \in Kinds, skew \in Skews :
            Prune(Append(window, [type |-> k.type, amount |-> k.amount,
                                  userId |-> k.userId, at |-> now + skew, came |-> now]))
      BY <2>3 DEF Record
    <3> DEFINE entry == [type |-> k.type, amount |-> k.amount, userId |-> k.userId,
                         at |-> now + skew, came |-> now]
               w == Append(window, entry)
    <3>2. entry \in Entries /\ entry.came = now /\ now' = now
      BY <2>3, KindsAssumption, SkewsAssumption DEF Entries, TypeOK, Record
    <3> HIDE DEF entry
    <3>3. /\ w \in Seq(Entries) /\ Len(w) = Len(window) + 1 /\ Len(window) \in Nat
          /\ w[Len(window) + 1] = entry /\ \A j \in 1..Len(window) : w[j] = window[j]
      BY <3>2 DEF TypeOK
    <3>4. InOrderOfArrival(w)
      <4> SUFFICES ASSUME NEW j \in 1..Len(w) PROVE w[j].came <= now /\ \A i \in 1..j : w[i].came <= w[j].came
        BY DEF InOrderOfArrival
      <4> HIDE DEF w
      <4>1. CASE j \in 1..Len(window)
        <5>1. \A i \in 1..j : i \in 1..Len(window)
          BY <4>1
        <5> QED BY <3>3, <4>1, <5>1 DEF InOrderOfArrival
      <4>2. CASE j = Len(window) + 1
        <5>1. w[j].came = now /\ now \in Int
          BY <3>2, <3>3, <4>2 DEF TypeOK
        <5>2. ASSUME NEW i \in 1..j PROVE w[i].came <= now
          <6>1. i \in 1..Len(window) \/ i = j
            BY <3>3, <4>2
          <6> QED BY <3>3, <5>1, <6>1 DEF InOrderOfArrival
        <5> QED BY <5>1, <5>2
      <4>3. j \in 1..Len(window) \/ j = Len(window) + 1
        BY <3>3
      <4> QED BY <4>1, <4>2, <4>3
    <3>5. Prune(w)
      BY <3>1 DEF entry
    <3> QED BY <3>2, <3>3, <3>4, <3>5, PruneBounds
  <2>4. CASE Tick \/ Connect
    BY <2>4, PruneBounds DEF Tick, Connect, TypeOK
  <2> QED BY <2>1, <2>2, <2>3, <2>4 DEF Next
<1> QED BY <1>1, <1>2, TypeCorrect, PTL DEF Spec

-----------------------------------------------------------------------------
(***************************************************************************)
(* One alert per episode.  The keys the service remembers are those of the *)
(* last tick: nothing but a tick touches them.                             *)
(***************************************************************************)
KeysOfLastTick == activeKeys = IF ticks = <<>> THEN {} ELSE ticks[Len(ticks)].breached

\* The episode of k that tick n is in begins at tick m and is announced there.
Episode(k, m, n) == /\ k \in ticks[m].announced
                    /\ \A j \in m..n : k \in ticks[j].breached
                    /\ \A j \in (m + 1)..n : k \notin ticks[j].announced
                    /\ m > 1 => k \notin ticks[m - 1].breached

\* A tick lets every earlier episode be, and is in one of each of its own keys.
LEMMA TickEpisodes ==
  ASSUME TypeOK, KeysOfLastTick, OneAlertPerEpisode, Tick
  PROVE  KeysOfLastTick' /\ OneAlertPerEpisode'
<1>1. PICK b : /\ activeKeys' = b
               /\ ticks' = Append(ticks, [at |-> now, breached |-> b, announced |-> b \ activeKeys])
  BY DEF Tick
<1> DEFINE last == Len(ticks) + 1
<1>2. ticks \in Seq([at : Nat, breached : SUBSET Keys, announced : SUBSET Keys]) /\ Len(ticks) \in Nat
  BY DEF TypeOK
<1>3. /\ Len(ticks') = last /\ DOMAIN ticks' = 1..last /\ ticks' # <<>>
      /\ \A j \in 1..Len(ticks) : ticks'[j] = ticks[j]
      /\ ticks'[last].breached = b /\ ticks'[last].announced = b \ activeKeys
  BY <1>1, <1>2
<1>4. KeysOfLastTick'
  BY <1>1, <1>3 DEF KeysOfLastTick
<1>5. \A n \in 1..Len(ticks) : \A k \in ticks[n].breached : \E m \in 1..n : Episode(k, m, n)
  <2>1. DOMAIN ticks = 1..Len(ticks)
    BY <1>2
  <2> QED BY <2>1, Zenon DEF OneAlertPerEpisode, Episode
<1>6. ASSUME NEW n \in 1..last, NEW k \in ticks'[n].breached
      PROVE  \E m \in 1..n : Episode(k, m, n)'
  <2>1. CASE n \in 1..Len(ticks)
    <3>1. PICK m \in 1..n : Episode(k, m, n)
      BY <1>3, <1>5, <1>6, <2>1
    <3>2. \A j \in 1..n : ticks'[j] = ticks[j]
      BY <1>2, <1>3, <2>1
    <3>3. m \in Nat /\ n \in Nat /\ m >= 1 /\ m <= n
      BY <2>1
    <3> QED BY <3>1, <3>2, <3>3 DEF Episode
  <2>2. CASE n = last /\ k \notin activeKeys
    <3>1. k \in ticks'[last].announced
      BY <1>3, <1>6, <2>2
    <3>2. last > 1 => k \notin ticks'[last - 1].breached
      <4> SUFFICES ASSUME last > 1 PROVE k \notin ticks'[last - 1].breached
        OBVIOUS
      <4>1. last - 1 = Len(ticks) /\ Len(ticks) \in 1..Len(ticks) /\ ticks # <<>>
        BY <1>2
      <4> QED BY <1>3, <2>2, <4>1 DEF KeysOfLastTick
    <3>3. last \in 1..n /\ \A j \in last..n : j = last /\ (last + 1)..n = {}
      BY <1>2, <2>2
    <3> QED BY <1>6, <2>2, <3>1, <3>2, <3>3 DEF Episode
  <2>3. CASE n = last /\ k \in activeKeys
    <3>1. Len(ticks) \in 1..Len(ticks) /\ k \in ticks[Len(ticks)].breached
      BY <1>2, <2>3 DEF KeysOfLastTick
    <3>2. PICK m \in 1..Len(ticks) : Episode(k, m, Len(ticks))
      BY <1>5, <3>1
    <3>3. m \in 1..n /\ \A j \in m..n : j \in m..Len(ticks) \/ j = last
      BY <1>2, <2>3
    <3>4. \A j \in (m + 1)..n : j \in (m + 1)..Len(ticks) \/ j = last
      BY <1>2, <2>3
    <3>5. /\ \A j \in m..Len(ticks) : ticks'[j] = ticks[j]
          /\ \A j \in (m + 1)..Len(ticks) : ticks'[j] = ticks[j]
          /\ m > 1 => ticks'[m - 1] = ticks[m - 1]
          /\ ticks'[m] = ticks[m]
      <4>1. /\ \A j \in m..Len(ticks) : j \in 1..Len(ticks)
            /\ \A j \in (m + 1)..Len(ticks) : j \in 1..Len(ticks)
            /\ m \in 1..Len(ticks) /\ (m > 1 => m - 1 \in 1..Len(ticks))
        BY <1>2
      <4>2. \A j \in 1..Len(ticks) : ticks'[j] = ticks[j]
        BY <1>3
      <4> QED BY <4>1, <4>2, Zenon
    <3>6. k \in ticks'[last].breached /\ k \notin ticks'[last].announced
      BY <1>3, <1>6, <2>3
    <3>7. \A j \in m..n : k \in ticks'[j].breached
      BY <3>2, <3>3, <3>5, <3>6 DEF Episode
    <3>8. \A j \in (m + 1)..n : k \notin ticks'[j].announced
      BY <3>2, <3>4, <3>5, <3>6 DEF Episode
    <3> QED BY <3>2, <3>3, <3>5, <3>7, <3>8 DEF Episode
  <2> QED BY <1>2, <2>1, <2>2, <2>3
<1>7. OneAlertPerEpisode'
  BY <1>3, <1>6 DEF OneAlertPerEpisode, Episode
<1> QED BY <1>4, <1>7

\* For all thresholds, and however many dashboards connect between two ticks: a breach
\* is announced by the first tick that sees it and by no other while it lasts.
THEOREM AlertsAreRaisedOnce == Spec => []OneAlertPerEpisode
<1>1. Init => KeysOfLastTick /\ OneAlertPerEpisode
  BY DEF Init, KeysOfLastTick, OneAlertPerEpisode
<1>2. TypeOK /\ KeysOfLastTick /\ OneAlertPerEpisode /\ [Next]_vars
        => KeysOfLastTick' /\ OneAlertPerEpisode'
  <2> SUFFICES ASSUME TypeOK, KeysOfLastTick, OneAlertPerEpisode, [Next]_vars
               PROVE  KeysOfLastTick' /\ OneAlertPerEpisode'
    OBVIOUS
  <2>1. CASE UNCHANGED <<activeKeys, ticks>>
    BY <2>1 DEF KeysOfLastTick, OneAlertPerEpisode
  <2>2. CASE Tick
    BY <2>2, TickEpisodes
  <2> QED BY <2>1, <2>2 DEF Next, Advance, PrimeTotals, Record, Connect, vars
<1> QED BY <1>1, <1>2, TypeCorrect, PTL DEF Spec
=============================================================================

----------------------------- MODULE Generator ------------------------------
(***************************************************************************)
(* EventGenerator.next, which both producers have: Math.random() is draw/  *)
(* Draws, prices and amounts are in cents.  Users, regions, ids and times  *)
(* are reduced to the classes the validator tells apart.                   *)
(***************************************************************************)
EXTENDS Integers, SequencesExt, EventValidator

CONSTANT Draws        \* the resolution of Math.random()

ASSUME DrawsAssumption == Draws \in Nat \ {0}

Random == 0..(Draws - 1)

Prices       == {2900, 9900, 24900, 120000, 4900, 18000}
TYPE_WEIGHTS == <<<<"page_view", 55>>, <<"order", 28>>, <<"signup", 13>>, <<"refund", 4>>>>

\* The weight of the first k types.
WeightUpTo(k) == FoldFunctionOnSet(+, 0, [j \in 1..4 |-> TYPE_WEIGHTS[j][2]], 1..k)

\* The roll goes down by each weight in turn: the first type that makes it <= 0.
PickType(draw) ==
  LET within(k) == draw * WeightUpTo(4) <= WeightUpTo(k) * Draws
      first     == {k \in 1..4 : within(k) /\ \A j \in 1..(k - 1) : ~ within(j)}
  IN IF first = {} THEN "page_view" ELSE TYPE_WEIGHTS[CHOOSE k \in first : TRUE][1]

\* Math.round of a quotient.
Rounded(n, d) == (2 * n + d) \div (2 * d)

AmountFor(type, price, seat, jitter) ==
  CASE type = "order"  -> Rounded(price * (1 + (seat * 3) \div Draws) * (9 * Draws + 2 * jitter),
                                  10 * Draws)
    [] type = "refund" -> - price
    [] OTHER           -> 0

\* Only an order or a refund has a product; a price of 0 stands for none.
PickProduct(type) == IF type \in {"page_view", "signup"} THEN {0} ELSE Prices

\* What next may return.
NextEvent == UNION {{[type |-> type, price |-> price, amount |-> AmountFor(type, price, seat, jitter)] :
                       price \in PickProduct(type), seat \in Random, jitter \in Random} :
                    type \in {PickType(draw) : draw \in Random}}

\* An event as the validator sees it.
Payload(event) == [id |-> "uuid", type |-> "known", userId |-> "text", region |-> "text",
                   occurredAt |-> "iso", amount |-> "number",
                   product |-> IF event.price = 0 THEN "absent" ELSE "text"]

\* An event is accepted, unchanged, and fits its columns; only orders bring money, at
\* most three seats and a tenth, and only refunds cost it.
EventOK(event) ==
  /\ ParsePulseEvent(Payload(event)) = Payload(event) /\ FitsColumns(Payload(event))
  /\ event.amount > 0 <=> event.type = "order"
  /\ event.amount < 0 <=> event.type = "refund"
  /\ event.price > 0 <=> event.amount # 0
  /\ event.amount <= (33 * event.price) \div 10

\* So is every event that is made, and every type comes up.
GeneratorOK == /\ {event.type : event \in NextEvent} = {TYPE_WEIGHTS[k][1] : k \in 1..4}
               /\ \A event \in NextEvent : EventOK(event)
=============================================================================

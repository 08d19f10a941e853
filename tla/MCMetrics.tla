----------------------------- MODULE MCMetrics -----------------------------
(***************************************************************************)
(* Metrics for TLC: an order, a refund that takes it back, a signup of     *)
(* another user; five units of time, the windows two and one of them.      *)
(***************************************************************************)
EXTENDS Metrics

MCKinds == {[type |-> "order",  amount |-> 2,  userId |-> "ada"],
            [type |-> "refund", amount |-> -2, userId |-> "ada"],
            [type |-> "signup", amount |-> 0,  userId |-> "bob"]}
MCSkews == {-1, 1}
NoSkew == {0}
MCPrimes == {[revenue |-> 5, orders |-> 1]}
=============================================================================

----------------------------- MODULE MCHistory -----------------------------
(***************************************************************************)
(* The historical view for TLC: four events, two at the same time, two     *)
(* users, a refund; ranges that are aligned to their buckets or not, as    *)
(* the clock moves.                                                        *)
(***************************************************************************)
EXTENDS HistoricalView

MCEvents ==
  {[id |-> 1, occurredAt |-> 1, type |-> "order",  amount |-> 5,  userId |-> "u1"],
   [id |-> 2, occurredAt |-> 2, type |-> "refund", amount |-> -5, userId |-> "u1"],
   [id |-> 3, occurredAt |-> 2, type |-> "order",  amount |-> 3,  userId |-> "u2"],
   [id |-> 4, occurredAt |-> 3, type |-> "signup", amount |-> 0,  userId |-> "u2"]}
MCMs       == [r \in Ranges |-> IF r = "short" THEN 2 ELSE 3]
MCBucketOf == MCMs
=============================================================================

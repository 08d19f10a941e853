----------------------------- MODULE EventLedger -----------------------------
(***************************************************************************)
(* What the ingest path promises, without the mechanism.  The backend      *)
(* accepts events from the channel (it shows them to the dashboards and    *)
(* counts them), and every accepted event ends in one of two ways: it has  *)
(* a durable row, or it is given up.  Rows are never removed, nothing is   *)
(* stored or given up that was not accepted first, and no accepted event   *)
(* stays undecided for ever.  Redelivery, several backends and restarts    *)
(* may put an event in both sets: one backend stores it while another      *)
(* gives it up.                                                            *)
(***************************************************************************)
CONSTANT Events

VARIABLES accepted,   \* shown to the dashboards and counted
          stored,     \* has a row in the events table
          givenUp     \* some attempt to store it was abandoned

ledger == <<accepted, stored, givenUp>>

Init == /\ accepted = {}
        /\ stored = {}
        /\ givenUp = {}

Accept(e) == /\ accepted' = accepted \cup {e}
             /\ UNCHANGED <<stored, givenUp>>

\* A batch, or what a crash leaves of several: some of its events stored, the
\* others given up.
Settle(S, G) == /\ stored' = stored \cup S
                /\ givenUp' = givenUp \cup G
                /\ UNCHANGED accepted

Next == \/ \E e \in Events : Accept(e)
        \/ \E S, G \in SUBSET accepted : Settle(S, G)

Decided(e) == e \in stored \cup givenUp

Safety == Init /\ [][Next]_ledger

\* Every accepted event is decided in the end.
Progress == \A e \in Events : (e \in accepted) ~> Decided(e)

Spec == Safety /\ Progress
=============================================================================

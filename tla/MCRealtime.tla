----------------------------- MODULE MCRealtime -----------------------------
(***************************************************************************)
(* Realtime for TLC.  One run explores three instances: three events and a *)
(* failure of Redis, two events with a lost connection as well, and three  *)
(* alerts with a lost connection.                                          *)
(***************************************************************************)
EXTENDS Realtime

MCBounds ==
  {[events |-> 3, alerts |-> 0, drops |-> 0, errors |-> 1],
   [events |-> 2, alerts |-> 0, drops |-> 1, errors |-> 1],
   [events |-> 0, alerts |-> 3, drops |-> 1, errors |-> 0]}

GapBounds == {[events |-> 2, alerts |-> 0, drops |-> 0, errors |-> 0]}
=============================================================================

---------------------------- MODULE RedisClient -----------------------------
(***************************************************************************)
(* One connection of ioredis with maxRetriesPerRequest: null, as the       *)
(* backend and the producer use it.  A command waits, however long, until  *)
(* the server answers it: commands sent before an outage are sent again    *)
(* after it, those called during it join an offline queue.                 *)
(***************************************************************************)
EXTENDS Sequences, SequencesExt

\* ended: it rejects every call.  left: it was disconnected while it waited to connect
\* again, and does neither.
NewClient == [sent |-> <<>>, offline |-> <<>>, ended |-> FALSE, left |-> FALSE]

Waiting(c) == c.sent \o c.offline

\* How many of these commands wait.
Count(c, command) == Len(SelectSeq(Waiting(c), LAMBDA w : w = command))

\* A client that has ended rejects the call.
Called(c, up, command) ==
  IF c.ended THEN c
  ELSE IF up /\ ~ c.left THEN [c EXCEPT !.sent = Append(@, command)]
  ELSE [c EXCEPT !.offline = Append(@, command)]

\* quit: without a server, and with nothing called since it was lost, the client is
\* disconnected at once.  If it is just trying to connect it ends and what was sent is
\* given up, between two attempts it is left as it is.  Otherwise QUIT waits its turn.
QuitCalled(c, up) ==
  IF ~ up /\ c.offline = <<>>
  THEN {[NewClient EXCEPT !.ended = TRUE], [c EXCEPT !.left = TRUE]}
  ELSE {Called(c, up, "quit")}

\* quit's promise is fulfilled.
HasQuit(c) == c.ended \/ c.left

\* The server may execute, or refuse, the next command.
Answerable(c, up) == up /\ ~ c.left /\ c.sent # <<>>

Answered(c) == [c EXCEPT !.sent = Tail(@), !.ended = @ \/ Head(c.sent) = "quit"]

Reconnected(c) == IF c.left THEN c ELSE [c EXCEPT !.sent = Waiting(c), !.offline = <<>>]
=============================================================================

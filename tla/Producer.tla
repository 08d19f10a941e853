------------------------------ MODULE Producer ------------------------------
(***************************************************************************)
(* The producer as a process of its own: main's loop, and the shutdown a   *)
(* signal starts at any point of it.  It shares nothing with a backend but *)
(* the Redis server, whose reachability is a variable of Backend.          *)
(***************************************************************************)
EXTENDS RedisClient

VARIABLES
  redis,    \* it is reachable
  client,   \* main's connection
  loop,     \* where main is
  running,  \* the flag the loop tests
  alive     \* the process

vars == <<client, loop, running, alive>>

\* The first publish is as if main woke up.
Init == client = NewClient /\ loop = "sleeping" /\ running = TRUE /\ alive = TRUE

\* The end of sleep: the flag is tested, and the next event is published.
Wake ==
  /\ alive /\ loop = "sleeping"
  /\ IF ~ running THEN loop' = "returned" /\ UNCHANGED client
     ELSE loop' = "publishing" /\ client' = Called(client, redis, "publish")
  /\ UNCHANGED <<running, alive>>

\* The publish is executed or refused, then main sleeps; or QUIT is.
Answer ==
  /\ alive /\ Answerable(client, redis)
  /\ client' = Answered(client)
  /\ loop' = IF Head(client.sent) = "publish" THEN "sleeping" ELSE loop
  /\ UNCHANGED <<running, alive>>

\* Bug: the loop is not told.
ShutdownUntold ==
  /\ alive /\ running /\ "quit" \notin ToSet(Waiting(client))
  /\ client' \in QuitCalled(client, redis)
  /\ UNCHANGED <<loop, running, alive>>

\* SIGINT or SIGTERM, the first of them.
Shutdown ==
  /\ alive /\ running
  /\ running' = FALSE
  /\ client' \in QuitCalled(client, redis)
  /\ UNCHANGED <<loop, alive>>

Exit == /\ alive /\ ~ running /\ HasQuit(client)
        /\ alive' = FALSE
        /\ UNCHANGED <<client, loop, running>>

\* With QUIT sent, quit() is rejected and nobody catches it.
Lost == /\ alive' = (alive /\ "quit" \notin ToSet(client.sent))
        /\ UNCHANGED <<client, loop, running>>

Back == client' = Reconnected(client) /\ UNCHANGED <<loop, running, alive>>

Step == Wake \/ Answer \/ Shutdown \/ Exit

\* Timers fire, a Redis that is reachable answers.
Fairness == WF_vars(Wake) /\ WF_vars(Answer) /\ WF_vars(Exit)

\* No event is published behind the QUIT that ends the connection.
QuitIsLast == LET w == Waiting(client) IN "quit" \in ToSet(w) => Last(w) = "quit"

\* Told to stop, the process ends.
Stops == ~ running ~> ~ alive
=============================================================================

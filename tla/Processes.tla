----------------------------- MODULE Processes ------------------------------
(***************************************************************************)
(* A backend and a standalone producer, each with its own connection to    *)
(* one Redis server that both lose, and find again, together.              *)
(***************************************************************************)
EXTENDS Backend, Generator

VARIABLES pClient, pLoop, pRunning, pAlive
P == INSTANCE Producer WITH client <- pClient, loop <- pLoop, running <- pRunning,
                            alive <- pAlive

standalone == <<pClient, pLoop, pRunning, pAlive>>
all        == <<vars, standalone>>

ProcessesInit == Init /\ P!Init

ProcessesNext == \/ Step /\ UNCHANGED standalone
                 \/ P!Step /\ UNCHANGED vars
                 \/ RedisLost /\ P!Lost
                 \/ RedisBack /\ P!Back

ProcessesSpec == ProcessesInit /\ [][ProcessesNext]_all /\ Fairness /\ P!Fairness

\* No event is published behind the QUIT of a producer that was told to stop.
QuitIsLast == P!QuitIsLast

\* Once Redis is reachable for good, every boot, shutdown and health check of the
\* backend ends, and so does a producer that was told to stop.
NothingWaitsForEver == <>[]redis => NothingWaits /\ P!Stops
=============================================================================

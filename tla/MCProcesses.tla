---------------------------- MODULE MCProcesses -----------------------------
(***************************************************************************)
(* A backend, a producer, and every event they can make.                   *)
(***************************************************************************)
EXTENDS Processes

ASSUME GeneratorAssumption == GeneratorOK
=============================================================================

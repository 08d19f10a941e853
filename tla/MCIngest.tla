------------------------------ MODULE MCIngest ------------------------------
(***************************************************************************)
(* Ingest for TLC, with the validator of EventValidator: a message is      *)
(* named by the event it carries and stands for one payload.               *)
(***************************************************************************)
EXTENDS Ingest

CONSTANTS e1, e2, junk, badId

V == INSTANCE EventValidator

Sound == [id |-> "uuid", type |-> "known", userId |-> "text", region |-> "text",
          occurredAt |-> "iso", amount |-> "number", product |-> "text"]

\* junk lacks its user; badId passes the validator and is no UUID.
Payload(m) == CASE m = junk  -> [Sound EXCEPT !.userId = "absent"]
                [] m = badId -> [Sound EXCEPT !.id = "text"]
                [] OTHER     -> Sound

MCParse == [m \in Messages |-> IF V!ParsePulseEvent(Payload(m)) = V!Null THEN NoEvent ELSE m]
MCStorable == {e \in Events : V!FitsColumns(V!ParsePulseEvent(Payload(e)))}

ASSUME ValidatorChecked == V!ValidatorOK
=============================================================================

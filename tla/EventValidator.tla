--------------------------- MODULE EventValidator ---------------------------
(***************************************************************************)
(* parsePulseEvent and the columns its result is written to.  A payload is *)
(* what JSON.parse made of it, each field reduced to the class the code,   *)
(* or Postgres, tells apart from the others.                               *)
(***************************************************************************)
EXTENDS FiniteSets

\* "absent" also stands for any value of a JSON type the code refuses.
IdClasses     == {"absent", "empty", "uuid", "text"}
TypeClasses   == {"absent", "unknown", "known"}
\* A text with a NUL is a text to JSON, and to the code.
TextClasses   == {"absent", "empty", "text", "nulText"}
\* A far date is written with a year of six digits, or with the year 0.
DateClasses   == {"absent", "unparsable", "loose", "iso", "far"}
\* Number(v) of a value that is no number: null, "" and [] give 0, a numeric
\* string its value, anything else NaN.
AmountClasses == {"absent", "nan", "null", "numericString", "number", "hugeString", "hugeNumber"}

Fields == [id : IdClasses, type : TypeClasses, userId : TextClasses, region : TextClasses,
           occurredAt : DateClasses, amount : AmountClasses, product : TextClasses]

Null == [answer |-> "null"]           \* for a malformed payload
NotAnObject == [payload |-> "other"]  \* not JSON, or JSON that is no object

ToISOString(date) == IF date = "loose" THEN "iso" ELSE date

ToNumber(amount) == CASE amount \in {"null", "numericString", "number"} -> "number"
                      [] amount \in {"hugeString", "hugeNumber"} -> "hugeNumber"
                      [] OTHER -> "nan"

\* The rejections, in any order: none has an effect.
Accepts(p) == /\ p # NotAnObject
              /\ p.id \in {"uuid", "text"}
              /\ p.type = "known"
              /\ p.userId \in {"text", "nulText"}
              /\ p.region # "absent"
              /\ p.occurredAt \notin {"absent", "unparsable"}
              /\ ToNumber(p.amount) # "nan"

ParsePulseEvent(p) ==
  IF ~ Accepts(p) THEN Null
  ELSE [p EXCEPT !.amount = ToNumber(@), !.occurredAt = ToISOString(@)]

\* events.id is a UUID, events.amount a NUMERIC(12, 2); a TEXT holds no NUL, and
\* Postgres reads no far date.  product may be NULL.
FitsColumns(event) == /\ event.id = "uuid" /\ event.amount = "number"
                      /\ event.occurredAt = "iso"
                      /\ "nulText" \notin {event.userId, event.region, event.product}

(***************************************************************************)
(* What the rest of the backend relies on.                                 *)
(***************************************************************************)
\* An accepted event is exactly one the PulseEvent type describes.
IsPulseEvent(event) == /\ event.id \in {"uuid", "text"} /\ event.type = "known"
                       /\ event.userId \in {"text", "nulText"}
                       /\ event.region \in {"empty", "text", "nulText"}
                       /\ event.occurredAt \in {"iso", "far"}
                       /\ event.amount \in {"number", "hugeNumber"}

\* The validator refuses or returns a PulseEvent, and an event that is published
\* again as it was accepted is accepted unchanged.
ValidatorOK ==
  /\ \A p \in Fields : LET event == ParsePulseEvent(p) IN
       event # Null => IsPulseEvent(event) /\ ParsePulseEvent(event) = event
  /\ ParsePulseEvent(NotAnObject) = Null
=============================================================================

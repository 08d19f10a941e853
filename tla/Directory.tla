------------------------------ MODULE Directory ------------------------------
(***************************************************************************)
(* What the accounts promise: a directory from emails to the passwords     *)
(* they were created with.  An email gets one account, once, and the       *)
(* account keeps its password.                                             *)
(***************************************************************************)
CONSTANTS Emails, Passwords

VARIABLE entries   \* the passwords of the accounts of each email

Init == entries = [e \in Emails |-> {}]

Create(e, p) == /\ entries[e] = {}
                /\ entries' = [entries EXCEPT ![e] = {p}]

Next == \E e \in Emails, p \in Passwords : Create(e, p)

Spec == Init /\ [][Next]_entries
=============================================================================

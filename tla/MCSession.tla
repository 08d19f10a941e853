----------------------------- MODULE MCSession -----------------------------
(***************************************************************************)
(* Session for TLC: an email in two spellings, the demo account in one.    *)
(***************************************************************************)
EXTENDS Session

CONSTANTS ada, Ada, demo, pw1, pw2

MCLower == [s \in Spellings |-> IF s = Ada THEN ada ELSE s]
MCSeed == {[email |-> demo, password |-> pw2]} \cap [email : Spellings, password : Passwords]
=============================================================================

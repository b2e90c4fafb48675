--------------------------- MODULE MCConnectionIO ---------------------------
(* One connection with a ring of three bytes: answers of one byte and of     *)
(* two fields wrap around it, fill it and overflow it.                       *)
EXTENDS ConnectionIO

MCAnswers == {<<1>>, <<2, 1>>}
=============================================================================

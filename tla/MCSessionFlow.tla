--------------------------- MODULE MCSessionFlow ---------------------------
(* SessionFlow on a small instance: two typed accounts and the runtime      *)
(* account.                                                                 *)
EXTENDS SessionFlow
============================================================================

-------------------------- MODULE MCClientTransport -------------------------
(* ClientTransport with bytes of two values, so that a payload of two takes *)
(* both bytes of its header.                                                *)
EXTENDS ClientTransport

MCSizes == {0, 1, 2, 3}
=============================================================================

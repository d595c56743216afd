---------------------------- MODULE MCInboundPool -----------------------------
(* A connection of the server and a client, three rings. *)
EXTENDS InboundPool
CONSTANTS c1, c2, g1, g2, g3
=============================================================================

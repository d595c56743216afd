------------------------------ MODULE MCStartup -------------------------------
(***************************************************************************)
(* Startup for TLC: two options at a time, one death of the process, and   *)
(* capacities around 2^10, 2^31, 2^32 and 2^61.                            *)
(***************************************************************************)
EXTENDS Startup

MCCaps == (SUBSET {0, 10, 11, 31}) \cup {{32}, {0, 32}, {0, 61}, {62}}
=============================================================================

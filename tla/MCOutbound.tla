----------------------------- MODULE MCOutbound -----------------------------
(***************************************************************************)
(* Outbound for TLC: one application goroutine w1 that writes, one         *)
(* goroutine c1 that may close, and the event goroutine ev, which also     *)
(* writes, in its handler, when it is among the writers.                   *)
(***************************************************************************)
EXTENDS Outbound

CONSTANTS w1, c1, ev, none

MCBoth    == {w1, ev}
MCOne     == {w1}
MCNobody  == {}
MCCloser  == {c1}
=============================================================================

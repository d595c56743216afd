----------------------------- MODULE MCReactor ------------------------------
(***************************************************************************)
(* Reactor for TLC: two or three peers that share fewer descriptors than   *)
(* there are peers over time, so that numbers are reused.                  *)
(***************************************************************************)
EXTENDS Reactor, TLC

CONSTANTS c1, c2, c3, f1, f2, ln, tick, u1, none

MCTwoConns   == {c1, c2}
MCThreeConns == {c1, c2, c3}
MCOneFd      == {f1}
MCTwoFds     == {f1, f2}
MCNoUsers    == {}
MCOneUser    == {u1}
MCNoFaults   == {}
MCFaults     == {"accept", "nonblock", "addread"}

\* Peers are interchangeable, and so are descriptors; used by safety runs only.
Symmetry == Permutations(Conns) \cup Permutations(Fds)
=============================================================================

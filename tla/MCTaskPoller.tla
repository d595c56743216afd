---------------------------- MODULE MCTaskPoller ----------------------------
(***************************************************************************)
(* TaskPoller for TLC: two goroutines that trigger, the poller, whose      *)
(* tasks trigger too, and a limit of one asynchronous task per round.      *)
(***************************************************************************)
EXTENDS TaskPoller

CONSTANTS p1, p2, loop, t1, t2, qu, qa, nil

MCProcs  == {p1, p2, loop}
MCTasks  == {t1, t2}
MCQueues == {qu, qa}
=============================================================================

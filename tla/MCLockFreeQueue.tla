--------------------------- MODULE MCLockFreeQueue --------------------------
(***************************************************************************)
(* LockFreeQueue for TLC: three goroutines, each free to enqueue and to    *)
(* dequeue, three tasks and one queue.                                     *)
(***************************************************************************)
EXTENDS LockFreeQueue, TLC

CONSTANTS p1, p2, p3, t1, t2, t3, qa, nil

MCProcs  == {p1, p2, p3}
MCTasks  == {t1, t2, t3}
MCQueues == {qa}

\* Goroutines are interchangeable, and so are tasks.
Symmetry == Permutations(Procs) \cup Permutations(Tasks)
=============================================================================

--------------------------- MODULE TaskPollerProofs ---------------------------
(***************************************************************************)
(* Theorems about TaskPoller for every finite set of goroutines, every set *)
(* of tasks and every MaxAtOneTime: its types, and that no wake-up is lost.*)
(*                                                                         *)
(* The queues' invariant is LockFreeQueueProofs'; what it says of the      *)
(* counter is what makes the poller's look at a counter that lags behind   *)
(* its list safe: the goroutine the counter waits for has yet to wake it.  *)
(***************************************************************************)
EXTENDS TaskPoller, LockFreeQueueProofs

(* A goroutine in Trigger is in Enqueue, and only the poller, while it runs *)
(* tasks, is in Dequeue.                                                    *)
CallInv ==
  /\ \A p \in Procs : trig[p] = "enqueue" <=> loc[p].at \in EnqLabels
  /\ \A p \in Procs : loc[p].at \in DeqLabels =>
       /\ p = Loop /\ trig[p] = "out" /\ lpc \in {"urgent", "async"}
       /\ lpc = "async" => runs < MaxAtOneTime

(* The wake-up of whoever set wakeupCall is on its way, until the poller    *)
(* clears it.                                                               *)
ClaimInv ==
  /\ wakeupCall = 1 => \/ efd \/ \E p \in Procs : trig[p] = "write"
                       \/ lpc \in {"read", "urgent", "async", "reset", "write", "stopped"}
  /\ lpc = "write" => wakeupCall = 1

(* A goroutine that has linked a task and not looked at wakeupCall since.   *)
Soon(p) == trig[p] = "wake" \/ loc[p].at \in {"e_swing", "e_count", "e_ret"}

(* If the poller sleeps, or has looked at a counter before it sleeps, and   *)
(* wakeupCall is clear, then a queued task has such a goroutine.            *)
SleepInv ==
  /\ lpc = "wait" /\ wakeupCall = 0 /\ (\E q \in Queues : Contents(q) # << >>) =>
       \E p \in Procs : Soon(p)
  /\ lpc = "see_urgent" /\ wakeupCall = 0 /\ Contents(Async) # << >> => \E p \in Procs : Soon(p)

PollerInv == Inv /\ PollerTypeOK /\ CallInv /\ ClaimInv /\ SleepInv

-----------------------------------------------------------------------------
LEMMA PollerInit == Init => PollerInv
<1> SUFFICES ASSUME Init PROVE PollerInv
  OBVIOUS
<1>1. Inv
  BY InitInv DEF Init
<1>2. PollerTypeOK
  <2>1. runs \in 0..MaxAtOneTime /\ wakeupCall \in {0, 1}
    BY PollerAssumption DEF Init
  <2>2. trig \in [Procs -> TrigLabels] /\ lpc \in LoopLabels
    BY DEF Init, TrigLabels, LoopLabels
  <2> QED BY <1>1, <2>1, <2>2 DEF Inv, Init, PollerTypeOK
<1>3. CallInv /\ ClaimInv
  BY DEF Init, QueueInit, Outside, CallInv, ClaimInv, EnqLabels, DeqLabels
<1>4. SleepInv
  <2>1. \A q \in Queues : head[q] = q /\ Len(chain[q]) = 1 /\ Place(q, q) = 1
    BY DEF Init, QueueInit, Place
  <2>2. \A q \in Queues : Contents(q) \in Seq(Nodes) /\ Len(Contents(q)) = 0
    BY <1>1, <2>1, ContentsLen
  <2>3. \A q \in Queues : Contents(q) = << >>
    BY <2>2, EmptySeq
  <2> QED BY <2>3, PollerAssumption DEF SleepInv
<1> QED BY <1>1, <1>2, <1>3, <1>4 DEF PollerInv

(* A step that leaves the queues alone.                                     *)
LEMMA QueuesRest ==
  ASSUME Inv, UNCHANGED qvars
  PROVE  /\ Inv' /\ TypeOK' /\ \A q : Contents(q)' = Contents(q)
         /\ loc' = loc /\ used' = used
<1>1. Inv'
  BY StutterKeeps
<1>2. \A q : Contents(q)' = Contents(q)
  BY SameContents DEF qvars
<1> QED BY <1>1, <1>2 DEF Inv, qvars

(* A counter at 0 whose list is not empty waits for a goroutine that has    *)
(* linked a task: nobody is in Dequeue while the poller looks.              *)
LEMMA EmptyCounter ==
  ASSUME PollerInv, NEW q \in Queues, IsEmpty(q), Contents(q) # << >>,
         lpc \notin {"urgent", "async"}
  PROVE  \E p \in Procs : Soon(p)
<1>1. Unlinkers(q) = {}
  BY DEF PollerInv, CallInv, Unlinkers, At, DeqLabels
<1>2. Len(Contents(q)) # 0 /\ Len(Contents(q)) \in Nat
  BY ContentsLen, EmptySeq DEF PollerInv
<1>3. length[q] = Len(Contents(q)) - Cardinality(Linkers(q)) + Cardinality(Unlinkers(q))
  BY ContentsLen DEF PollerInv, Inv, LagInv
<1>4. Cardinality(Unlinkers(q)) = 0 /\ Cardinality({}) = 0
  BY <1>1, FS_EmptySet
<1>5. Cardinality(Linkers(q)) # 0
  BY <1>2, <1>3, <1>4, Finite DEF IsEmpty
<1>6. Linkers(q) # {}
  BY <1>4, <1>5
<1> QED BY <1>6 DEF Linkers, Soon

(* Trigger *)

LEMMA TriggerCallKeeps == ASSUME PollerInv, NEW p \in Procs, TriggerCall(p) PROVE PollerInv'
<1>1. PICK q \in Queues, t \in Tasks : CallEnqueue(p, q, t)
  BY DEF TriggerCall, TriggerTask
<1>2. Inv'
  BY <1>1, StartEnqueue DEF PollerInv, CallEnqueue, At
<1>3. Become(p, "e_tail", q, t, Nil, Nil, Nil) /\ UNCHANGED <<head, chain>> /\ used \subseteq used'
  BY <1>1, CallSets DEF CallEnqueue, EnqLabels, Nodes, PollerInv, Inv
<1>4. PollerTypeOK'
  BY <1>2, <1>3 DEF PollerInv, PollerTypeOK, Inv, TriggerCall, TriggerTask, TrigGoto, TrigLabels
<1>5. CallInv'
  BY <1>3 DEF PollerInv, PollerTypeOK, CallInv, TriggerCall, TriggerTask, TrigGoto, Become, EnqLabels,
              DeqLabels, TrigLabels
<1>6. ClaimInv'
  BY DEF PollerInv, PollerTypeOK, ClaimInv, TriggerCall, TriggerTask, TrigGoto
<1>7. SleepInv'
  <2>1. \A r : Contents(r)' = Contents(r)
    BY <1>3, SameContents
  <2>2. \A r \in Procs : Soon(r) => Soon(r)'
    BY <1>1, <1>3 DEF PollerInv, PollerTypeOK, Soon, TriggerCall, TriggerTask, TrigGoto, Become,
                      CallEnqueue, At
  <2> QED BY <2>1, <2>2 DEF PollerInv, SleepInv, TriggerCall
<1> QED BY <1>2, <1>4, <1>5, <1>6, <1>7 DEF PollerInv

LEMMA TriggerEnqueuedKeeps == ASSUME PollerInv, NEW p \in Procs, TriggerEnqueued(p) PROVE PollerInv'
<1>1. At(p, "e_ret") /\ loc' = [loc EXCEPT ![p] = Outside] /\ UNCHANGED Heap
  BY DEF TriggerEnqueued, QueueReturn
<1>2. Inv'
  BY <1>1, ReturnKeeps DEF PollerInv, At
<1>3. loc'[p].at = "idle" /\ (\A r \in Procs : r # p => loc'[r] = loc[r]) /\ used' = used
  BY <1>1 DEF PollerInv, Inv, TypeOK, Outside, Heap
<1>4. PollerTypeOK'
  BY <1>2, <1>3 DEF PollerInv, PollerTypeOK, Inv, TriggerEnqueued, TrigGoto, TrigLabels
<1>5. CallInv'
  BY <1>1, <1>3 DEF PollerInv, PollerTypeOK, CallInv, TriggerEnqueued, TrigGoto, EnqLabels,
              DeqLabels, TrigLabels, At
<1>6. ClaimInv'
  BY <1>1 DEF PollerInv, PollerTypeOK, CallInv, ClaimInv, TriggerEnqueued, TrigGoto, At, EnqLabels
<1>7. SleepInv'
  <2>1. \A r : Contents(r)' = Contents(r)
    BY <1>1, SameContents DEF Heap
  <2>2. \A r \in Procs : Soon(r) => Soon(r)'
    BY <1>1, <1>3 DEF PollerInv, PollerTypeOK, Soon, TriggerEnqueued, TrigGoto
  <2> QED BY <2>1, <2>2 DEF PollerInv, SleepInv, TriggerEnqueued
<1> QED BY <1>2, <1>4, <1>5, <1>6, <1>7 DEF PollerInv

(* Who finds wakeupCall clear claims the wake-up.                           *)
LEMMA TriggerWakeKeeps == ASSUME PollerInv, NEW p \in Procs, TriggerWake(p) PROVE PollerInv'
<1>1. Inv' /\ TypeOK' /\ (\A q : Contents(q)' = Contents(q)) /\ loc' = loc /\ used' = used
  BY QueuesRest DEF PollerInv, TriggerWake
<1>2. PollerTypeOK'
  BY <1>1 DEF PollerInv, PollerTypeOK, TriggerWake, TrigGoto, TrigLabels
<1>3. CallInv'
  BY <1>1 DEF PollerInv, PollerTypeOK, CallInv, TriggerWake, TrigGoto, TrigLabels
<1>4. ClaimInv' /\ SleepInv'
  BY <1>1 DEF PollerInv, PollerTypeOK, ClaimInv, SleepInv, TriggerWake, TrigGoto
<1> QED BY <1>1, <1>2, <1>3, <1>4 DEF PollerInv

LEMMA SignalKeeps == ASSUME PollerInv, NEW p \in Procs, Signal(p) PROVE PollerInv'
<1>1. Inv' /\ TypeOK' /\ (\A q : Contents(q)' = Contents(q)) /\ loc' = loc /\ used' = used
  BY QueuesRest DEF PollerInv, Signal
<1>2. PollerTypeOK'
  BY <1>1 DEF PollerInv, PollerTypeOK, Signal, TrigGoto, TrigLabels
<1>3. CallInv' /\ ClaimInv'
  BY <1>1 DEF PollerInv, PollerTypeOK, CallInv, ClaimInv, Signal, TrigGoto, TrigLabels
<1>4. SleepInv'
  <2>1. \A r \in Procs : Soon(r) => Soon(r)'
    BY <1>1 DEF PollerInv, PollerTypeOK, Soon, Signal, TrigGoto
  <2> QED BY <1>1, <2>1 DEF PollerInv, SleepInv, Signal
<1> QED BY <1>1, <1>2, <1>3, <1>4 DEF PollerInv

(* Steps inside a call *)

LEMMA QueueKeeps == ASSUME PollerInv, NEW p \in Procs, Queue(p) PROVE PollerInv'
<1>0. TypeOK /\ UNCHANGED pvars
  BY DEF PollerInv, PollerTypeOK, Queue
<1>1. Inv'
  BY CallStepKeeps DEF PollerInv, Queue
<1>2. used' = used /\ \A r \in Procs : r # p => loc'[r] = loc[r]
  <2>1. used' = used
    BY DEF Queue, Enqueue, EnqTail, EnqNext, EnqCheck, EnqLink, EnqHelp, EnqSwing, EnqCount,
           Dequeue, DeqHead, DeqTail, DeqNext, DeqCheck, DeqHelp, DeqCas, DeqCount, Heap
  <2> QED BY <1>0, <2>1, EnqMoves, DeqMoves DEF Queue
<1>3. PollerTypeOK' /\ ClaimInv'
  BY <1>0, <1>1, <1>2 DEF PollerInv, PollerTypeOK, ClaimInv, Inv, pvars
<1>4. CASE Enqueue(p)
  <2>1. /\ loc[p].at \in EnqLabels /\ loc'[p].at \in EnqLabels
        /\ \/ loc'[p].at \in {"e_swing", "e_count", "e_ret"}
           \/ loc[p].at \in Unlinked /\ UNCHANGED <<head, chain>>
    BY <1>0, <1>4, EnqMoves
  <2>2. CallInv'
    BY <1>0, <1>2, <2>1 DEF PollerInv, CallInv, pvars, EnqLabels, DeqLabels
  <2>3. CASE loc'[p].at \in {"e_swing", "e_count", "e_ret"}
    BY <1>1, <1>3, <2>2, <2>3 DEF PollerInv, SleepInv, Soon
  <2>4. CASE loc[p].at \in Unlinked /\ UNCHANGED <<head, chain>>
    <3>1. \A r : Contents(r)' = Contents(r)
      BY <2>4, SameContents
    <3>2. \A r \in Procs : Soon(r) => Soon(r)'
      BY <1>0, <1>2, <2>1, <2>4 DEF PollerInv, CallInv, Soon, pvars, Unlinked
    <3>3. SleepInv'
      BY <1>0, <3>1, <3>2 DEF PollerInv, SleepInv, pvars
    <3> QED BY <1>1, <1>3, <2>2, <3>3 DEF PollerInv
  <2> QED BY <2>1, <2>3, <2>4
<1>5. CASE Dequeue(p)
  <2>1. loc[p].at \in DeqLabels /\ loc'[p].at \in DeqLabels
    BY <1>0, <1>5, DeqMoves
  <2>2. CallInv'
    BY <1>0, <1>2, <2>1 DEF PollerInv, CallInv, pvars, EnqLabels, DeqLabels
  <2>3. SleepInv'
    BY <1>0, <2>1 DEF PollerInv, CallInv, SleepInv, pvars
  <2> QED BY <1>1, <1>3, <2>2, <2>3 DEF PollerInv
<1> QED BY <1>4, <1>5 DEF Queue

(* Polling *)

(* Steps of the poller that are not about the queues.                       *)
LEMMA WaitKeeps == ASSUME PollerInv, LoopWait \/ LoopRead \/ KeventWait PROVE PollerInv'
<1>1. Inv' /\ TypeOK' /\ (\A q : Contents(q)' = Contents(q)) /\ loc' = loc /\ used' = used
  BY QueuesRest DEF PollerInv, LoopWait, LoopRead, KeventWait
<1>2. PollerTypeOK'
  BY <1>1 DEF PollerInv, PollerTypeOK, LoopWait, LoopRead, KeventWait, LoopStep, LoopLabels
<1>3. CallInv' /\ ClaimInv' /\ SleepInv'
  BY <1>1 DEF PollerInv, CallInv, ClaimInv, SleepInv, LoopWait, LoopRead, KeventWait, LoopStep
<1> QED BY <1>1, <1>2, <1>3 DEF PollerInv

LEMMA LoopDequeueKeeps == ASSUME PollerInv, LoopDequeue PROVE PollerInv'
<1>1. PICK q \in Queues : CallDequeue(Loop, q)
  BY PollerAssumption DEF LoopDequeue
<1>2. Inv'
  BY <1>1, PollerAssumption, StartDequeue DEF PollerInv
<1>3. Become(Loop, "d_head", q, Nil, Nil, Nil, Nil) /\ used' = used /\ UNCHANGED pvars
  BY <1>1, PollerAssumption, CallSets
     DEF CallDequeue, DeqLabels, Nodes, Heap, LoopDequeue, PollerInv, Inv
<1>4. PollerTypeOK' /\ ClaimInv'
  BY <1>2, <1>3 DEF PollerInv, PollerTypeOK, ClaimInv, Inv, pvars
<1>5. CallInv'
  BY <1>1, <1>3, PollerAssumption
     DEF PollerInv, CallInv, LoopDequeue, CallDequeue, At, Become, pvars, EnqLabels, DeqLabels
<1>6. SleepInv'
  BY <1>3 DEF LoopDequeue, SleepInv, pvars
<1> QED BY <1>2, <1>4, <1>5, <1>6 DEF PollerInv

LEMMA LoopNothingKeeps == ASSUME PollerInv, LoopNothing PROVE PollerInv'
<1>0. loc[Loop].at = "d_ret" /\ lpc \in {"urgent", "async"}
  BY PollerAssumption DEF PollerInv, CallInv, LoopNothing, At, DeqLabels
<1>1. loc' = [loc EXCEPT ![Loop] = Outside] /\ UNCHANGED Heap
  BY DEF LoopNothing, QueueReturn
<1>2. Inv'
  BY <1>0, <1>1, PollerAssumption, ReturnKeeps DEF PollerInv
<1>3. loc'[Loop].at = "idle" /\ (\A r \in Procs : r # Loop => loc'[r] = loc[r]) /\ used' = used
  BY <1>1, PollerAssumption DEF PollerInv, Inv, TypeOK, Outside, Heap
<1>4. PollerTypeOK'
  <2>1. runs' \in 0..MaxAtOneTime
    BY PollerAssumption DEF LoopNothing
  <2> QED BY <1>2, <1>3, <2>1 DEF PollerInv, PollerTypeOK, Inv, LoopNothing, LoopLabels
<1>5. CallInv'
  BY <1>0, <1>3, PollerAssumption
     DEF PollerInv, CallInv, LoopNothing, EnqLabels, DeqLabels
<1>6. ClaimInv' /\ SleepInv'
  BY <1>0 DEF PollerInv, ClaimInv, SleepInv, LoopNothing
<1> QED BY <1>2, <1>4, <1>5, <1>6 DEF PollerInv

LEMMA LoopEnoughKeeps == ASSUME PollerInv, LoopEnough PROVE PollerInv'
<1>1. Inv' /\ TypeOK' /\ (\A q : Contents(q)' = Contents(q)) /\ loc' = loc /\ used' = used
  BY QueuesRest DEF PollerInv, LoopEnough
<1>2. PollerTypeOK'
  <2>1. runs' \in 0..MaxAtOneTime
    BY PollerAssumption DEF LoopEnough
  <2> QED BY <1>1, <2>1 DEF PollerInv, PollerTypeOK, LoopEnough, LoopStep, LoopLabels
<1>3. CallInv'
  BY <1>1, PollerAssumption DEF PollerInv, CallInv, LoopEnough, LoopStep
<1>4. ClaimInv' /\ SleepInv'
  BY DEF PollerInv, ClaimInv, SleepInv, LoopEnough, LoopStep
<1> QED BY <1>1, <1>2, <1>3, <1>4 DEF PollerInv

(* A task that hands over another one starts an Enqueue where it stands.    *)
LEMMA LoopRunKeeps == ASSUME PollerInv, LoopRun PROVE PollerInv'
<1>0. /\ loc[Loop].at = "d_ret" /\ lpc \in {"urgent", "async"} /\ trig[Loop] = "out"
      /\ lpc = "async" => runs < MaxAtOneTime
  BY PollerAssumption DEF PollerInv, CallInv, LoopRun, At, DeqLabels
<1>1. loc[Loop].n \in used
  BY <1>0, PollerAssumption DEF PollerInv, Inv, RegInv, DeqInv, LoopRun, At
<1>2. runs' \in 0..MaxAtOneTime
  <2>1. runs \in 0..MaxAtOneTime /\ MaxAtOneTime \in Nat
    BY PollerAssumption DEF PollerInv, PollerTypeOK
  <2>2. runs' = IF lpc = "async" THEN runs + 1 ELSE runs
    BY DEF LoopRun
  <2> QED BY <1>0, <2>1, <2>2
<1>3. CASE QueueReturn(Loop) /\ trig' = trig /\ lpc' \in {lpc, "stopped"}
  <2>1. Inv'
    BY <1>0, <1>3, PollerAssumption, ReturnKeeps DEF PollerInv, QueueReturn
  <2>2. loc'[Loop].at = "idle" /\ (\A r \in Procs : r # Loop => loc'[r] = loc[r]) /\ used' = used
    BY <1>3, PollerAssumption DEF PollerInv, Inv, TypeOK, Outside, Heap, QueueReturn
  <2>3. PollerTypeOK'
    BY <1>1, <1>2, <1>3, <2>1, <2>2 DEF PollerInv, PollerTypeOK, Inv, LoopRun, LoopLabels
  <2>4. CallInv'
    BY <1>0, <1>3, <2>2, PollerAssumption DEF PollerInv, CallInv, EnqLabels, DeqLabels
  <2>5. ClaimInv' /\ SleepInv'
    BY <1>0, <1>3 DEF PollerInv, ClaimInv, SleepInv, LoopRun
  <2> QED BY <2>1, <2>3, <2>4, <2>5 DEF PollerInv
<1>4. ASSUME NEW q \in Queues, NEW t \in Tasks \ used, used' = used \cup {t},
             loc' = [loc EXCEPT ![Loop] = [Outside EXCEPT !.at = "e_tail", !.q = q, !.n = t]],
             TrigGoto(Loop, "enqueue"), UNCHANGED <<head, tail, length, next, chain, lpc>>
      PROVE  PollerInv'
  <2>1. Inv'
    BY <1>0, <1>4, PollerAssumption, StartEnqueue DEF PollerInv
  <2>2. Become(Loop, "e_tail", q, t, Nil, Nil, Nil)
    BY <1>4, PollerAssumption, CallSets DEF EnqLabels, Nodes, PollerInv, Inv
  <2>3. PollerTypeOK'
    BY <1>1, <1>2, <1>4, <2>1 DEF PollerInv, PollerTypeOK, Inv, LoopRun, TrigGoto, TrigLabels
  <2>4. CallInv'
    BY <1>0, <1>4, <2>2, PollerAssumption
       DEF PollerInv, PollerTypeOK, CallInv, Become, TrigGoto, TrigLabels, EnqLabels, DeqLabels
  <2>5. ClaimInv' /\ SleepInv'
    BY <1>0, <1>4 DEF PollerInv, PollerTypeOK, ClaimInv, SleepInv, LoopRun, TrigGoto
  <2> QED BY <2>1, <2>3, <2>4, <2>5 DEF PollerInv
<1> QED BY <1>3, <1>4 DEF LoopRun

(* Before it sleeps the poller looks at both counters.                      *)
LEMMA LookKeeps == ASSUME PollerInv, LoopReset \/ LoopSee \/ LoopWake \/ LoopWrite PROVE PollerInv'
<1>1. Inv' /\ TypeOK' /\ (\A q : Contents(q)' = Contents(q)) /\ loc' = loc /\ used' = used
      /\ trig' = trig
  BY QueuesRest DEF PollerInv, LoopReset, LoopSee, LoopWake, LoopWrite
<1>2. PollerTypeOK'
  BY <1>1 DEF PollerInv, PollerTypeOK, LoopReset, LoopSee, LoopWake, LoopWrite, LoopStep, LoopLabels
<1>3. CallInv'
  BY <1>1, PollerAssumption
     DEF PollerInv, CallInv, LoopReset, LoopSee, LoopWake, LoopWrite, LoopStep, DeqLabels
<1>4. ClaimInv'
  BY <1>1 DEF PollerInv, PollerTypeOK, ClaimInv, LoopReset, LoopSee, LoopWake, LoopWrite, LoopStep
<1>5. SleepInv'
  <2>1. \A p \in Procs : Soon(p)' <=> Soon(p)
    BY <1>1 DEF Soon
  <2>2. CASE LoopSee
    <3>1. lpc \notin {"urgent", "async"} /\ Async \in Queues /\ Urgent \in Queues
      BY <2>2, PollerAssumption DEF LoopSee, LoopStep
    <3>2. CASE lpc = "see_async"
      BY <1>1, <2>1, <2>2, <3>1, <3>2, EmptyCounter DEF SleepInv, LoopSee, LoopStep
    <3>3. CASE lpc = "see_urgent"
      BY <1>1, <2>1, <2>2, <3>1, <3>3, EmptyCounter, PollerAssumption
         DEF PollerInv, SleepInv, LoopSee, LoopStep
    <3> QED BY <2>2, <3>2, <3>3 DEF LoopSee, LoopStep
  <2>3. CASE LoopReset \/ LoopWake \/ LoopWrite
    BY <2>3 DEF PollerInv, ClaimInv, SleepInv, LoopReset, LoopWake, LoopWrite, LoopStep
  <2> QED BY <2>2, <2>3
<1> QED BY <1>1, <1>2, <1>3, <1>4, <1>5 DEF PollerInv

-----------------------------------------------------------------------------
(* PollerInv holds for every interleaving of Trigger with the poller's loop
   (epoll_optimized_poller.go, lock_free_queue.go). *)
THEOREM PollerInvariance == Spec => []PollerInv
<1>1. PollerInv /\ [Next]_vars => PollerInv'
  <2> SUFFICES ASSUME PollerInv, [Next]_vars PROVE PollerInv'
    OBVIOUS
  <2>1. CASE UNCHANGED vars
    <3>1. Inv' /\ TypeOK' /\ (\A q : Contents(q)' = Contents(q)) /\ loc' = loc /\ used' = used
          /\ UNCHANGED pvars
      BY <2>1, QueuesRest DEF PollerInv, vars
    <3>2. PollerTypeOK' /\ CallInv' /\ ClaimInv'
      BY <3>1 DEF PollerInv, PollerTypeOK, CallInv, ClaimInv, pvars
    <3>3. SleepInv'
      BY <3>1 DEF PollerInv, SleepInv, Soon, pvars
    <3> QED BY <3>1, <3>2, <3>3 DEF PollerInv
  <2>2. CASE Polling \/ KqueuePolling
    BY <2>2, WaitKeeps, LoopDequeueKeeps, LoopNothingKeeps, LoopEnoughKeeps, LoopRunKeeps, LookKeeps
       DEF Polling, KqueuePolling, Chores
  <2>3. ASSUME NEW p \in Procs, TriggerCall(p) \/ Trigger(p) \/ KqueueTrigger(p) \/ Queue(p)
        PROVE  PollerInv'
    BY <2>3, TriggerCallKeeps, TriggerEnqueuedKeeps, TriggerWakeKeeps, SignalKeeps, QueueKeeps
       DEF Trigger, KqueueTrigger, TriggerWrite, TriggerNote
  <2> QED BY <2>1, <2>2, <2>3 DEF Next
<1> QED BY <1>1, PollerInit, PTL DEF Spec

(* Queues, Trigger and Polling have their types: no round runs more than    *)
(* MaxAtOneTime asynchronous tasks, and only tasks handed over are run.     *)
THEOREM PollerTypeCorrect == Spec => []PollerTypeOK
<1>1. PollerInv => PollerTypeOK
  BY DEF PollerInv
<1> QED BY <1>1, PollerInvariance, PTL

(* The poller never sleeps on a queued task with nobody bound to wake it,   *)
(* although the counters it looks at lag behind the lists                   *)
(* (epoll_optimized_poller.go:107-117, 180-187).                            *)
THEOREM WakeupsArrive == Spec => []NoLostWakeup
<1>1. PollerInv => NoLostWakeup
  BY DEF PollerInv, PollerTypeOK, ClaimInv, SleepInv, NoLostWakeup, WillWake, Soon
<1> QED BY <1>1, PollerInvariance, PTL
=============================================================================

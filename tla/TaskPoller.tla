------------------------------ MODULE TaskPoller ----------------------------
(***************************************************************************)
(* The asynchronous tasks of the pollers that have them                    *)
(* (internal/netpoll/epoll_optimized_poller.go and both kqueue pollers):   *)
(* goroutines hand tasks over with Trigger and UrgentTrigger and wake the  *)
(* poller, at most once until it has run what it found; before it sleeps   *)
(* again it looks at the length counters of its two queues, which lag      *)
(* behind the lists.  On Linux the wake-up is an eventfd, which stays      *)
(* readable until Polling reads it; with kqueue it is a user event that    *)
(* kevent clears when it reports it.                                       *)
(*                                                                         *)
(* The queues are LockFreeQueue's, step by step.  Network events touch     *)
(* neither queues nor wakeupCall and are left out.                         *)
(***************************************************************************)
EXTENDS LockFreeQueue

CONSTANTS
  Loop,            \* the goroutine in Polling; the others call Trigger
  Urgent, Async,   \* urgentAsyncTaskQueue, asyncTaskQueue
  MaxAtOneTime     \* MaxAsyncTasksAtOneTime

ASSUME PollerAssumption == /\ Loop \in Procs /\ Queues = {Urgent, Async} /\ Urgent # Async
                           /\ MaxAtOneTime \in Nat \ {0}

VARIABLES
  backend,     \* "epoll" or "kqueue"
  trig,        \* per process: where it is in Trigger
  wakeupCall,  \* p.wakeupCall
  efd,         \* the eventfd is readable, or the user event is triggered
  lpc,         \* where Polling is
  runs,        \* asynchronous tasks run in this round
  ran          \* history: tasks that were run

pvars == <<backend, trig, wakeupCall, efd, lpc, runs, ran>>
vars  == <<qvars, pvars>>

TrigLabels == {"out", "enqueue", "wake", "write"}
LoopLabels == {"wait", "read", "urgent", "async", "reset", "see_async", "see_urgent",
               "wake", "write", "stopped"}

PollerTypeOK ==
  /\ TypeOK
  /\ backend \in {"epoll", "kqueue"} /\ trig \in [Procs -> TrigLabels] /\ lpc \in LoopLabels
  /\ wakeupCall \in {0, 1} /\ efd \in BOOLEAN
  /\ runs \in 0..MaxAtOneTime /\ ran \subseteq used

\* OpenPoller, then Polling.
Init ==
  /\ QueueInit
  /\ trig = [p \in Procs |-> "out"]
  /\ backend \in {"epoll", "kqueue"}
  /\ wakeupCall = 0 /\ efd = FALSE
  /\ lpc = "wait" /\ runs = 0 /\ ran = {}

-----------------------------------------------------------------------------
(* Trigger and UrgentTrigger *)

TrigGoto(p, l) == trig' = [trig EXCEPT ![p] = l]
QueueReturn(p) == loc' = [loc EXCEPT ![p] = Outside] /\ UNCHANGED Heap

TriggerTask(p) ==
  /\ trig[p] = "out" /\ TrigGoto(p, "enqueue")
  /\ \E q \in Queues, t \in Tasks : CallEnqueue(p, q, t)

TriggerCall(p) ==
  /\ p # Loop /\ TriggerTask(p)
  /\ UNCHANGED <<backend, wakeupCall, efd, lpc, runs, ran>>

TriggerEnqueued(p) ==
  /\ At(p, "e_ret") /\ QueueReturn(p) /\ TrigGoto(p, "wake")
  /\ UNCHANGED <<backend, wakeupCall, efd, lpc, runs, ran>>

\* atomic.CompareAndSwapInt32(&p.wakeupCall, 0, 1)
TriggerWake(p) ==
  /\ trig[p] = "wake" /\ TrigGoto(p, IF wakeupCall = 0 THEN "write" ELSE "out")
  /\ wakeupCall' = 1
  /\ UNCHANGED <<backend, qvars, efd, lpc, runs, ran>>

\* Mutant: the wake-up is claimed and not sent.
TriggerWriteForgotten(p) ==
  /\ trig[p] = "write" /\ TrigGoto(p, "out")
  /\ UNCHANGED <<backend, qvars, wakeupCall, efd, lpc, runs, ran>>

Signal(p) ==
  /\ trig[p] = "write" /\ TrigGoto(p, "out")
  /\ efd' = TRUE
  /\ UNCHANGED <<backend, qvars, wakeupCall, lpc, runs, ran>>

\* A write to the eventfd; EAGAIN means that its counter is full.
TriggerWrite(p) == backend = "epoll" /\ Signal(p)

\* kevent with NOTE_TRIGGER.
TriggerNote(p) == backend = "kqueue" /\ Signal(p)

Trigger(p) == TriggerEnqueued(p) \/ TriggerWake(p) \/ TriggerWrite(p)

\* Trigger and UrgentTrigger of the kqueue pollers.
KqueueTrigger(p) == TriggerEnqueued(p) \/ TriggerWake(p) \/ TriggerNote(p)

-----------------------------------------------------------------------------
(* Polling *)

LoopStep(a, b) == lpc = a /\ lpc' = b /\ trig[Loop] = "out"

\* epoll_wait reports the eventfd.
LoopWait == /\ backend = "epoll" /\ efd /\ LoopStep("wait", "read")
            /\ UNCHANGED <<backend, qvars, trig, wakeupCall, efd, runs, ran>>

LoopRead == /\ LoopStep("read", "urgent") /\ efd' = FALSE
            /\ UNCHANGED <<backend, qvars, trig, wakeupCall, runs, ran>>

\* kevent reports the user event and, EV_CLEAR, resets it.
KeventWait == /\ backend = "kqueue" /\ efd /\ LoopStep("wait", "urgent") /\ efd' = FALSE
              /\ UNCHANGED <<backend, qvars, trig, wakeupCall, runs, ran>>

\* Mutant: one asynchronous task too many.
LoopDequeueOneMore ==
  /\ trig[Loop] = "out"
  /\ \/ lpc = "urgent" /\ CallDequeue(Loop, Urgent)
     \/ lpc = "async" /\ runs <= MaxAtOneTime /\ CallDequeue(Loop, Async)
  /\ UNCHANGED pvars

\* The next Dequeue: of the urgent queue, of the other one at most MaxAtOneTime times.
LoopDequeue ==
  /\ trig[Loop] = "out"
  /\ \/ lpc = "urgent" /\ CallDequeue(Loop, Urgent)
     \/ lpc = "async" /\ runs < MaxAtOneTime /\ CallDequeue(Loop, Async)
  /\ UNCHANGED pvars

\* Dequeue returned nil: the queue was empty.
LoopNothing ==
  /\ At(Loop, "d_ret") /\ loc[Loop].n = Nil /\ QueueReturn(Loop)
  /\ lpc' = IF lpc = "urgent" THEN "async" ELSE "reset"
  /\ runs' = 0
  /\ UNCHANGED <<backend, trig, wakeupCall, efd, ran>>

LoopEnough ==
  /\ runs = MaxAtOneTime /\ LoopStep("async", "reset") /\ runs' = 0
  /\ UNCHANGED <<backend, qvars, trig, wakeupCall, efd, ran>>

\* task.Run: it returns, it hands over another task, or it shuts the engine down.
LoopRun ==
  /\ At(Loop, "d_ret") /\ loc[Loop].n # Nil
  /\ ran' = ran \cup {loc[Loop].n}
  /\ runs' = IF lpc = "async" THEN runs + 1 ELSE runs
  /\ \/ QueueReturn(Loop) /\ UNCHANGED <<trig, lpc>>
     \/ /\ \E q \in Queues, t \in Tasks \ used :
             /\ loc' = [loc EXCEPT ![Loop] = [Outside EXCEPT !.at = "e_tail", !.q = q, !.n = t]]
             /\ used' = used \cup {t}
        /\ TrigGoto(Loop, "enqueue")
        /\ UNCHANGED <<head, tail, length, next, chain, lpc>>
     \/ QueueReturn(Loop) /\ lpc' = "stopped" /\ UNCHANGED trig
  /\ UNCHANGED <<backend, wakeupCall, efd>>

\* Mutant: back to epoll_wait without another look at the queues.
LoopResetOnly ==
  /\ LoopStep("reset", "wait") /\ wakeupCall' = 0
  /\ UNCHANGED <<backend, qvars, trig, efd, runs, ran>>

LoopReset ==
  /\ LoopStep("reset", "see_async") /\ wakeupCall' = 0
  /\ UNCHANGED <<backend, qvars, trig, efd, runs, ran>>

\* !asyncTaskQueue.IsEmpty() || !urgentAsyncTaskQueue.IsEmpty()
LoopSee ==
  /\ \/ LoopStep("see_async", IF IsEmpty(Async) THEN "see_urgent" ELSE "wake")
     \/ LoopStep("see_urgent", IF IsEmpty(Urgent) THEN "wait" ELSE "wake")
  /\ UNCHANGED <<backend, qvars, trig, wakeupCall, efd, runs, ran>>

LoopWake ==
  /\ LoopStep("wake", IF wakeupCall = 0 THEN "write" ELSE "wait") /\ wakeupCall' = 1
  /\ UNCHANGED <<backend, qvars, trig, efd, runs, ran>>

LoopWrite ==
  /\ LoopStep("write", "wait") /\ efd' = TRUE
  /\ UNCHANGED <<backend, qvars, trig, wakeupCall, runs, ran>>

Chores == LoopDequeue \/ LoopNothing \/ LoopEnough \/ LoopRun
          \/ LoopReset \/ LoopSee \/ LoopWake \/ LoopWrite

Polling == LoopWait \/ LoopRead \/ Chores

KqueuePolling == KeventWait \/ Chores

\* Polling of kqueue_default_poller.go: the same loop.
KqueueDefaultPolling == KqueuePolling

-----------------------------------------------------------------------------
Queue(p) == (Enqueue(p) \/ Dequeue(p)) /\ UNCHANGED pvars

Next == \/ Polling \/ KqueuePolling
        \/ \E p \in Procs : TriggerCall(p) \/ Trigger(p) \/ KqueueTrigger(p) \/ Queue(p)

Spec == Init /\ [][Next]_vars

\* Goroutines run.  Tasks are finitely many, so no compare-and-swap fails for ever.
Fairness == /\ WF_vars(Polling \/ KqueuePolling)
            /\ \A p \in Procs : WF_vars(Trigger(p) \/ KqueueTrigger(p) \/ Queue(p))

FairSpec == Spec /\ Fairness

-----------------------------------------------------------------------------
(* Properties *)

\* A process is bound to wake the poller: it is about to signal it, or it has
\* linked a task and will find wakeupCall clear.
WillWake(p) ==
  \/ trig[p] = "write"
  \/ wakeupCall = 0 /\ (trig[p] = "wake" \/ loc[p].at \in {"e_swing", "e_count", "e_ret"})

\* The poller never sleeps on a queued task: if it waits and was not signalled, some goroutine in Trigger is bound to wake it, even when the counters
\* it looked at were behind the lists (epoll_optimized_poller.go:107-117, 180-187,
\* kqueue_optimized_poller.go:97-107, 177-184).
NoLostWakeup ==
  lpc = "wait" /\ ~efd /\ (\E q \in Queues : Contents(q) # << >>) => \E p \in Procs : WillWake(p)

\* Every task handed over is run, unless a task shuts the engine down.
TasksRun == \A t \in Tasks : t \in used ~> t \in ran \/ lpc = "stopped"
=============================================================================

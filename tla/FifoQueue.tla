----------------------------- MODULE FifoQueue ------------------------------
(***************************************************************************)
(* What internal/queue promises its callers: first-in first-out queues     *)
(* whose operations take effect at one instant between call and return.    *)
(* A Dequeue answers with the oldest task, or with nothing if the queue    *)
(* was empty at some instant of the call.                                  *)
(***************************************************************************)
EXTENDS Sequences

CONSTANTS Callers, Queues, Nodes, Nothing

VARIABLES queue,  \* per queue: what is queued, the oldest first
          on,     \* per caller: the queue it is dequeuing from, or Nothing
          answer  \* per caller: "busy", "empty" if it saw the queue empty, or its answer

fqvars == <<queue, on, answer>>

FifoInit == /\ queue = [q \in Queues |-> << >>]
            /\ on = [c \in Callers |-> Nothing] /\ answer = [c \in Callers |-> "busy"]

Set(c, a) == answer' = [answer EXCEPT ![c] = a]

Put     == /\ \E q \in Queues, n \in Nodes : queue' = [queue EXCEPT ![q] = Append(@, n)]
           /\ UNCHANGED <<on, answer>>
Call(c) == /\ on[c] = Nothing /\ \E q \in Queues : on' = [on EXCEPT ![c] = q]
           /\ UNCHANGED <<queue, answer>>
Get(c)  == /\ on[c] # Nothing /\ answer[c] = "busy" /\ queue[on[c]] # << >>
           /\ Set(c, Head(queue[on[c]])) /\ queue' = [queue EXCEPT ![on[c]] = Tail(@)]
           /\ UNCHANGED on
See(c)  == /\ on[c] # Nothing /\ answer[c] = "busy" /\ queue[on[c]] = << >>
           /\ Set(c, "empty") /\ UNCHANGED <<queue, on>>
Again(c)   == answer[c] = "empty" /\ Set(c, "busy") /\ UNCHANGED <<queue, on>>
GetNone(c) == answer[c] = "empty" /\ Set(c, Nothing) /\ UNCHANGED <<queue, on>>
Return(c)  == /\ answer[c] \notin {"busy", "empty"} /\ Set(c, "busy")
              /\ on' = [on EXCEPT ![c] = Nothing] /\ UNCHANGED queue

FifoNext == Put \/ \E c \in Callers : Call(c) \/ Get(c) \/ See(c) \/ Again(c)
                                       \/ GetNone(c) \/ Return(c)

FifoSpec == FifoInit /\ [][FifoNext]_fqvars
=============================================================================

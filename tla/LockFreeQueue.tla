---------------------------- MODULE LockFreeQueue ---------------------------
(***************************************************************************)
(* internal/queue/lock_free_queue.go: the non-blocking queue of Michael    *)
(* and Scott over a garbage-collected heap, with the length counter that   *)
(* IsEmpty reads.  A step is one atomic load, compare-and-swap or add.     *)
(*                                                                         *)
(* A process is in at most one call; Enqueue and Dequeue are entered by    *)
(* CallEnqueue and CallDequeue and left from "e_ret" and "d_ret", so that  *)
(* a caller (here anybody at any time; in TaskPoller the poller) can be    *)
(* built around them.  A node is named by the task it carries, and is      *)
(* enqueued once: every Enqueue allocates a new one.                       *)
(***************************************************************************)
EXTENDS Integers, Sequences, FiniteSets

CONSTANTS
  Procs,   \* goroutines that use the queues
  Tasks,   \* the tasks, and the nodes that carry them
  Queues,  \* the queues; also the names of their first, empty nodes
  Nil      \* the nil pointer

Nodes == Tasks \cup Queues

ASSUME NodeAssumption == Nil \notin Nodes /\ Tasks \cap Queues = {}

\* There are finitely many goroutines at a time.
ASSUME ProcsAssumption == IsFiniteSet(Procs)

\* The two marks AnswerOf uses are not nodes.
ASSUME MarkAssumption == {"busy", "empty"} \cap (Nodes \cup {Nil}) = {}

VARIABLES
  head, tail, length,  \* the fields of each lockFreeQueue
  next,                \* the next field of each node
  loc,                 \* per process: where it is, and its registers
  used,                \* tasks that were passed to Enqueue
  chain                \* history, per queue: the nodes linked so far, in order

qvars == <<head, tail, length, next, loc, used, chain>>

EnqLabels == {"e_tail", "e_next", "e_check", "e_link", "e_help", "e_swing", "e_count", "e_ret"}
DeqLabels == {"d_head", "d_tail", "d_next", "d_check", "d_help", "d_cas", "d_count", "d_ret"}

\* head, tail, next and n of the code; n is also what Dequeue returns.
Registers == [at : {"idle"} \cup EnqLabels \cup DeqLabels,
              q : Queues \cup {Nil}, n : Nodes \cup {Nil},
              h : Nodes \cup {Nil}, t : Nodes \cup {Nil}, x : Nodes \cup {Nil}]
Outside == [at |-> "idle", q |-> Nil, n |-> Nil, h |-> Nil, t |-> Nil, x |-> Nil]

TypeOK ==
  /\ head \in [Queues -> Nodes] /\ tail \in [Queues -> Nodes]
  /\ length \in [Queues -> Int]
  /\ next \in [Nodes -> Tasks \cup {Nil}]
  /\ loc \in [Procs -> Registers]
  /\ used \subseteq Tasks
  /\ chain \in [Queues -> Seq(Nodes)]

\* NewLockFreeQueue, for each queue.
QueueInit ==
  /\ head = [q \in Queues |-> q] /\ tail = [q \in Queues |-> q]
  /\ length = [q \in Queues |-> 0]
  /\ next = [n \in Nodes |-> Nil]
  /\ loc = [p \in Procs |-> Outside]
  /\ used = {}
  /\ chain = [q \in Queues |-> <<q>>]

-----------------------------------------------------------------------------
At(p, l) == loc[p].at = l
Q(p)     == loc[p].q

\* Process p goes on at label l; with register r set to v.
Goto(p, l)       == loc' = [loc EXCEPT ![p].at = l]
Load(p, r, v, l) == loc' = [loc EXCEPT ![p][r] = v, ![p].at = l]
\* Back to the first load: the registers are dead.
Retry(p, l)      == loc' = [loc EXCEPT ![p] = [Outside EXCEPT !.at = l, !.q = Q(p), !.n = loc[p].n]]
Heap == <<head, tail, length, next, used, chain>>

\* cas(&q.tail, tail, new)
SwingTail(p, new) == tail' = IF tail[Q(p)] = loc[p].t THEN [tail EXCEPT ![Q(p)] = new] ELSE tail

-----------------------------------------------------------------------------
(* Enqueue *)

CallEnqueue(p, q, t) ==
  /\ At(p, "idle") /\ t \notin used /\ used' = used \cup {t}
  /\ loc' = [loc EXCEPT ![p] = [Outside EXCEPT !.at = "e_tail", !.q = q, !.n = t]]
  /\ UNCHANGED <<head, tail, length, next, chain>>

EnqTail(p) == At(p, "e_tail") /\ Load(p, "t", tail[Q(p)], "e_next") /\ UNCHANGED Heap
EnqNext(p) == At(p, "e_next") /\ Load(p, "x", next[loc[p].t], "e_check") /\ UNCHANGED Heap

EnqCheck(p) ==
  /\ At(p, "e_check") /\ UNCHANGED Heap
  /\ CASE tail[Q(p)] # loc[p].t -> Retry(p, "e_tail")
       [] tail[Q(p)] = loc[p].t /\ loc[p].x = Nil -> Goto(p, "e_link")
       [] tail[Q(p)] = loc[p].t /\ loc[p].x # Nil -> Goto(p, "e_help")

EnqLink(p) ==
  /\ At(p, "e_link")
  /\ \/ /\ next[loc[p].t] = Nil /\ Goto(p, "e_swing")
        /\ next' = [next EXCEPT ![loc[p].t] = loc[p].n]
        /\ chain' = [chain EXCEPT ![Q(p)] = Append(@, loc[p].n)]
     \/ next[loc[p].t] # Nil /\ Retry(p, "e_tail") /\ UNCHANGED <<next, chain>>
  /\ UNCHANGED <<head, tail, length, used>>

EnqHelp(p) ==
  /\ At(p, "e_help") /\ Retry(p, "e_tail") /\ SwingTail(p, loc[p].x)
  /\ UNCHANGED <<head, length, next, used, chain>>

EnqSwing(p) ==
  /\ At(p, "e_swing") /\ Goto(p, "e_count") /\ SwingTail(p, loc[p].n)
  /\ UNCHANGED <<head, length, next, used, chain>>

EnqCount(p) ==
  /\ At(p, "e_count") /\ loc' = [loc EXCEPT ![p] = [Outside EXCEPT !.at = "e_ret", !.q = Q(p)]]
  /\ length' = [length EXCEPT ![Q(p)] = @ + 1]
  /\ UNCHANGED <<head, tail, next, used, chain>>

Enqueue(p) == EnqTail(p) \/ EnqNext(p) \/ EnqCheck(p) \/ EnqLink(p)
              \/ EnqHelp(p) \/ EnqSwing(p) \/ EnqCount(p)

-----------------------------------------------------------------------------
(* Dequeue *)

CallDequeue(p, q) ==
  /\ At(p, "idle") /\ UNCHANGED Heap
  /\ loc' = [loc EXCEPT ![p] = [Outside EXCEPT !.at = "d_head", !.q = q]]

DeqHead(p) == At(p, "d_head") /\ Load(p, "h", head[Q(p)], "d_tail") /\ UNCHANGED Heap
DeqTail(p) == At(p, "d_tail") /\ Load(p, "t", tail[Q(p)], "d_next") /\ UNCHANGED Heap
DeqNext(p) == At(p, "d_next") /\ Load(p, "x", next[loc[p].h], "d_check") /\ UNCHANGED Heap

\* Dequeue is about to return v.
Answer(p, l, v) == loc' = [loc EXCEPT ![p] = [Outside EXCEPT !.at = l, !.q = Q(p), !.n = v]]

\* Mutant: does not see that tail is falling behind.
DeqCheckNoTail(p) ==
  /\ At(p, "d_check") /\ UNCHANGED Heap
  /\ CASE head[Q(p)] # loc[p].h -> Retry(p, "d_head")
       [] head[Q(p)] = loc[p].h /\ loc[p].x = Nil -> Answer(p, "d_ret", Nil)
       [] head[Q(p)] = loc[p].h /\ loc[p].x # Nil -> Goto(p, "d_cas")

\* Mutant: does not see that the queue is empty.
DeqCheckNoNil(p) ==
  /\ At(p, "d_check") /\ UNCHANGED Heap
  /\ CASE head[Q(p)] # loc[p].h -> Retry(p, "d_head")
       [] head[Q(p)] = loc[p].h /\ loc[p].h # loc[p].t -> Goto(p, "d_cas")
       [] head[Q(p)] = loc[p].h /\ loc[p].h = loc[p].t -> Goto(p, "d_help")

DeqCheck(p) ==
  /\ At(p, "d_check") /\ UNCHANGED Heap
  /\ CASE head[Q(p)] # loc[p].h -> Retry(p, "d_head")
       [] head[Q(p)] = loc[p].h /\ loc[p].h # loc[p].t -> Goto(p, "d_cas")
       [] head[Q(p)] = loc[p].h /\ loc[p].h = loc[p].t ->
            IF loc[p].x = Nil THEN Answer(p, "d_ret", Nil) ELSE Goto(p, "d_help")

DeqHelp(p) ==
  /\ At(p, "d_help") /\ Retry(p, "d_head") /\ SwingTail(p, loc[p].x)
  /\ UNCHANGED <<head, length, next, used, chain>>

\* Mutant: a store instead of a compare-and-swap.
DeqStore(p) ==
  /\ At(p, "d_cas") /\ Answer(p, "d_count", loc[p].x)
  /\ head' = [head EXCEPT ![Q(p)] = loc[p].x]
  /\ UNCHANGED <<tail, length, next, used, chain>>

DeqCas(p) ==
  /\ At(p, "d_cas")
  /\ \/ /\ head[Q(p)] = loc[p].h /\ Answer(p, "d_count", loc[p].x)
        /\ head' = [head EXCEPT ![Q(p)] = loc[p].x]
     \/ head[Q(p)] # loc[p].h /\ Retry(p, "d_head") /\ UNCHANGED head
  /\ UNCHANGED <<tail, length, next, used, chain>>

\* Mutant: the counter is not decremented.
DeqCountForgotten(p) == At(p, "d_count") /\ Goto(p, "d_ret") /\ UNCHANGED Heap

DeqCount(p) ==
  /\ At(p, "d_count") /\ Goto(p, "d_ret")
  /\ length' = [length EXCEPT ![Q(p)] = @ - 1]
  /\ UNCHANGED <<head, tail, next, used, chain>>

Dequeue(p) == DeqHead(p) \/ DeqTail(p) \/ DeqNext(p) \/ DeqCheck(p)
              \/ DeqHelp(p) \/ DeqCas(p) \/ DeqCount(p)

IsEmpty(q) == length[q] = 0

-----------------------------------------------------------------------------
(* The queues on their own: anybody calls anything, as queue_test.go does. *)

Leave(p) == loc[p].at \in {"e_ret", "d_ret"} /\ loc' = [loc EXCEPT ![p] = Outside] /\ UNCHANGED Heap

QueueNext ==
  \E p \in Procs :
    \/ \E q \in Queues : CallDequeue(p, q) \/ \E t \in Tasks : CallEnqueue(p, q, t)
    \/ Enqueue(p) \/ Dequeue(p) \/ Leave(p)

QueueSpec == QueueInit /\ [][QueueNext]_qvars

-----------------------------------------------------------------------------
(* Properties *)

\* The place of node n in queue q's chain.
Place(q, n) == CHOOSE i \in 1..Len(chain[q]) : chain[q][i] = n

\* What queue q holds: the nodes behind head.
Contents(q) == SubSeq(chain[q], Place(q, head[q]) + 1, Len(chain[q]))

\* The list is one chain that ends in nil; tail never falls behind head, and is
\* at most one node behind the end, however many Enqueues have linked a node and
\* not swung tail yet; a Dequeue about to read next.value has a next node
\* (lock_free_queue.go:104-153).
QueueShape ==
  /\ \A q \in Queues :
       /\ head[q] \in {chain[q][i] : i \in 1..Len(chain[q])}
       /\ \A i \in 1..Len(chain[q]) :
            next[chain[q][i]] = IF i = Len(chain[q]) THEN Nil ELSE chain[q][i + 1]
       /\ Place(q, head[q]) <= Place(q, tail[q])
       /\ Place(q, tail[q]) + 1 >= Len(chain[q])
  /\ \A p \in Procs : At(p, "d_cas") => loc[p].x # Nil

\* The counter differs from the number of queued tasks by exactly the calls that
\* have changed the list and not the counter yet (lock_free_queue.go:113-116,
\* 146-147): IsEmpty is right whenever nobody is in between.
CounterLag ==
  \A q \in Queues :
    length[q] = Len(Contents(q))
                - Cardinality({p \in Procs : loc[p].at \in {"e_swing", "e_count"} /\ Q(p) = q})
                + Cardinality({p \in Procs : At(p, "d_count") /\ Q(p) = q})

\* What the Dequeue that p is in will answer, once that is settled; a load of next
\* that finds nil has seen the queue empty, and is the answer if head still holds.
AnswerOf(p) ==
  IF loc[p].at \in {"d_count", "d_ret"} THEN loc[p].n
  ELSE IF At(p, "d_check") /\ loc[p].x = Nil THEN "empty"
  ELSE "busy"

\* The queues are first-in first-out queues with atomic operations.
Fifo == INSTANCE FifoQueue WITH
  Callers <- Procs, Nothing <- Nil,
  queue <- [q \in Queues |-> Contents(q)],
  on <- [p \in Procs |-> IF loc[p].at \in DeqLabels THEN Q(p) ELSE Nil],
  answer <- [p \in Procs |-> AnswerOf(p)]

Linearizable == Fifo!FifoSpec
=============================================================================

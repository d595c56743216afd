------------------------- MODULE LockFreeQueueProofs --------------------------
(***************************************************************************)
(* Theorems about LockFreeQueue for every number of queues and tasks and   *)
(* every finite set of goroutines: the shape of the list, the lag of the   *)
(* counter, and that the queues implement FifoQueue.                       *)
(*                                                                         *)
(* The chain of a queue only grows, so a node keeps its place in it, and   *)
(* what a goroutine has loaded can be compared by place: a loaded head or  *)
(* tail is at or before the present one, and a loaded next is the node     *)
(* right behind.  Each action has a lemma that says it keeps Inv; the      *)
(* proofs of TaskPoller, whose queues these are, cite the same lemmas.     *)
(***************************************************************************)
EXTENDS LockFreeQueue, SequenceTheorems, FiniteSetTheorems, TLAPS

(* Node n is in queue q's chain.                                            *)
On(q, n) == \E i \in 1..Len(chain[q]) : chain[q][i] = n

(* In queue q's chain, a is not behind b, and b is right behind a.          *)
UpTo(q, a, b)    == On(q, a) /\ On(q, b) /\ Place(q, a) <= Place(q, b)
Follows(q, a, b) == /\ On(q, a) /\ Place(q, a) < Len(chain[q])
                    /\ b = chain[q][Place(q, a) + 1]

(* A chain starts with the queue's first node, goes on with tasks, and no   *)
(* node is in two places.                                                   *)
ChainInv ==
  /\ \A q \in Queues : /\ Len(chain[q]) >= 1 /\ chain[q][1] = q
                       /\ \A i \in 2..Len(chain[q]) : chain[q][i] \in used
  /\ \A q, r \in Queues : \A i \in 1..Len(chain[q]), j \in 1..Len(chain[r]) :
       chain[q][i] = chain[r][j] => q = r /\ i = j

(* The next fields follow the chains, and are nil everywhere else.          *)
NextInv ==
  /\ \A q \in Queues : \A i \in 1..Len(chain[q]) :
       next[chain[q][i]] = IF i = Len(chain[q]) THEN Nil ELSE chain[q][i + 1]
  /\ \A n \in Nodes : (\A q \in Queues : ~On(q, n)) => next[n] = Nil

(* Tail is at most one node behind the end, and head at most at tail.       *)
EndsInv ==
  \A q \in Queues : UpTo(q, head[q], tail[q]) /\ Place(q, tail[q]) + 1 >= Len(chain[q])

(* What a goroutine in Enqueue has loaded.  Up to "e_help" its node is not  *)
(* linked yet.                                                              *)
Unlinked == {"e_tail", "e_next", "e_check", "e_link", "e_help"}
EnqInv(p) ==
  /\ loc[p].at \in Unlinked => loc[p].n \in used /\ \A q \in Queues : ~On(q, loc[p].n)
  /\ loc[p].at \in {"e_next", "e_check", "e_link", "e_help", "e_swing"} =>
       UpTo(Q(p), loc[p].t, tail[Q(p)])
  /\ At(p, "e_check") /\ loc[p].x # Nil => Follows(Q(p), loc[p].t, loc[p].x)
  /\ At(p, "e_help") => Follows(Q(p), loc[p].t, loc[p].x)
  /\ At(p, "e_swing") => Follows(Q(p), loc[p].t, loc[p].n)

(* What a goroutine in Dequeue has loaded: tail after head, so that a head  *)
(* that is not tail has a next node.                                        *)
DeqInv(p) ==
  /\ loc[p].at \in {"d_tail", "d_next", "d_check", "d_help", "d_cas"} =>
       UpTo(Q(p), loc[p].h, head[Q(p)])
  /\ loc[p].at \in {"d_next", "d_check", "d_help", "d_cas"} =>
       UpTo(Q(p), loc[p].h, loc[p].t) /\ UpTo(Q(p), loc[p].t, tail[Q(p)])
  /\ At(p, "d_check") => /\ loc[p].x # Nil => Follows(Q(p), loc[p].h, loc[p].x)
                         /\ loc[p].h # loc[p].t => loc[p].x # Nil
  /\ At(p, "d_help") => loc[p].h = loc[p].t /\ Follows(Q(p), loc[p].h, loc[p].x)
  /\ At(p, "d_cas") => loc[p].h # loc[p].t /\ Follows(Q(p), loc[p].h, loc[p].x)
  /\ At(p, "d_count") => loc[p].n \in used
  /\ At(p, "d_ret") => loc[p].n \in used \cup {Nil}

RegInv(p) == (At(p, "idle") \/ Q(p) \in Queues) /\ EnqInv(p) /\ DeqInv(p)

(* No two goroutines are about to link the same node.                       *)
FreshInv ==
  \A p, r \in Procs : loc[p].at \in Unlinked /\ loc[r].at \in Unlinked /\ p # r =>
                        loc[p].n # loc[r].n

(* The goroutines that have linked or unlinked a node and not counted it.   *)
Linkers(q)   == {p \in Procs : loc[p].at \in {"e_swing", "e_count"} /\ Q(p) = q}
Unlinkers(q) == {p \in Procs : At(p, "d_count") /\ Q(p) = q}
LagInv ==
  \A q \in Queues : length[q] = Len(chain[q]) - Place(q, head[q])
                                - Cardinality(Linkers(q)) + Cardinality(Unlinkers(q))

ListInv == ChainInv /\ NextInv /\ EndsInv
Inv == TypeOK /\ ListInv /\ (\A p \in Procs : RegInv(p)) /\ FreshInv /\ LagInv

-----------------------------------------------------------------------------
(* Places *)

(* A node is where its place says, and a place is where its node says.      *)
Placed(q) ==
  /\ Len(chain[q]) \in Nat
  /\ \A i \in 1..Len(chain[q]) : /\ chain[q][i] \in Nodes /\ On(q, chain[q][i])
                                 /\ Place(q, chain[q][i]) = i
  /\ \A n : On(q, n) => /\ Place(q, n) \in 1..Len(chain[q]) /\ n \in Nodes
                        /\ chain[q][Place(q, n)] = n
ChainType == chain \in [Queues -> Seq(Nodes)]
LEMMA ChainPlaces == ASSUME ChainType, ChainInv, NEW q \in Queues PROVE Placed(q)
<1>0. chain[q] \in Seq(Nodes)
  BY DEF ChainType
<1>1. Len(chain[q]) \in Nat /\ \A i \in 1..Len(chain[q]) : chain[q][i] \in Nodes
  BY <1>0, LenProperties
<1>2. ASSUME NEW n, On(q, n)
      PROVE  Place(q, n) \in 1..Len(chain[q]) /\ chain[q][Place(q, n)] = n
  BY <1>2 DEF On, Place
<1>3. ASSUME NEW i \in 1..Len(chain[q])
      PROVE  On(q, chain[q][i]) /\ Place(q, chain[q][i]) = i
  <2>1. On(q, chain[q][i])
    BY DEF On
  <2> QED BY <1>2, <2>1 DEF ChainInv
<1> QED BY <1>1, <1>2, <1>3 DEF Placed

LEMMA Places == ASSUME TypeOK, ChainInv, NEW q \in Queues PROVE Placed(q)
BY ChainPlaces DEF TypeOK, ChainType

(* The same in the next state.                                              *)
LEMMA PlacesNext == ASSUME NEW q \in Queues PROVE ChainType' /\ ChainInv' => Placed(q)'
<1>1. ChainType /\ ChainInv => Placed(q)
  BY ChainPlaces
<1> QED BY <1>1, PTL

(* Two nodes of a queue at the same place are one.                          *)
LEMMA SamePlace ==
  ASSUME TypeOK, ChainInv, NEW q \in Queues, NEW a, NEW b, On(q, a), On(q, b),
         Place(q, a) = Place(q, b)
  PROVE  a = b
BY Places DEF Placed

(* What the next field of a linked node says.                               *)
LEMMA NextOf ==
  ASSUME TypeOK, ListInv, NEW q \in Queues, NEW a, On(q, a)
  PROVE  /\ next[a] = Nil <=> Place(q, a) = Len(chain[q])
         /\ next[a] # Nil => Follows(q, a, next[a])
<1>1. Place(q, a) \in 1..Len(chain[q]) /\ chain[q][Place(q, a)] = a /\ Len(chain[q]) \in Nat
  BY Places DEF ListInv, Placed
<1>2. next[a] = IF Place(q, a) = Len(chain[q]) THEN Nil ELSE chain[q][Place(q, a) + 1]
  BY <1>1 DEF ListInv, NextInv
<1>3. Place(q, a) # Len(chain[q]) => chain[q][Place(q, a) + 1] \in Nodes
  BY <1>1, Places DEF ListInv, Placed
<1> QED BY <1>1, <1>2, <1>3, NodeAssumption DEF Follows

(* The node behind a is linked, one place further, and carries a task.      *)
LEMMA FollowerPlace ==
  ASSUME TypeOK, ChainInv, NEW q \in Queues, NEW a, NEW b, Follows(q, a, b)
  PROVE  On(q, b) /\ Place(q, b) = Place(q, a) + 1 /\ b \in used /\ b \in Tasks /\ b # Nil
<1>1. Place(q, a) \in 1..Len(chain[q]) /\ Len(chain[q]) \in Nat /\ Place(q, a) + 1 \in 2..Len(chain[q])
  BY Places DEF Follows, Placed
<1>2. On(q, b) /\ Place(q, b) = Place(q, a) + 1
  BY <1>1, Places DEF Follows, Placed
<1>3. b \in used
  BY <1>1 DEF Follows, ChainInv
<1> QED BY <1>2, <1>3, NodeAssumption DEF TypeOK, Nodes

(* Registers *)

(* Only process p's registers change, and they become the ones given.       *)
Become(p, l, q, n, h, t, x) ==
  /\ loc' \in [Procs -> Registers] /\ \A r \in Procs : r # p => loc'[r] = loc[r]
  /\ loc'[p].at = l /\ loc'[p].q = q /\ loc'[p].n = n
  /\ loc'[p].h = h /\ loc'[p].t = t /\ loc'[p].x = x

(* A load sets one register and the label, Goto the label.                  *)
LEMMA LoadSets ==
  ASSUME TypeOK, NEW p \in Procs, NEW v \in Nodes \cup {Nil}, NEW l \in EnqLabels \cup DeqLabels
  PROVE  /\ Load(p, "h", v, l) => Become(p, l, Q(p), loc[p].n, v, loc[p].t, loc[p].x)
         /\ Load(p, "t", v, l) => Become(p, l, Q(p), loc[p].n, loc[p].h, v, loc[p].x)
         /\ Load(p, "x", v, l) => Become(p, l, Q(p), loc[p].n, loc[p].h, loc[p].t, v)
         /\ Goto(p, l) => Become(p, l, Q(p), loc[p].n, loc[p].h, loc[p].t, loc[p].x)
<1> USE DEF TypeOK, Registers, Become, Q
<1>1. ASSUME Load(p, "h", v, l) PROVE Become(p, l, Q(p), loc[p].n, v, loc[p].t, loc[p].x)
  BY <1>1 DEF Load
<1>2. ASSUME Load(p, "t", v, l) PROVE Become(p, l, Q(p), loc[p].n, loc[p].h, v, loc[p].x)
  BY <1>2 DEF Load
<1>3. ASSUME Load(p, "x", v, l) PROVE Become(p, l, Q(p), loc[p].n, loc[p].h, loc[p].t, v)
  BY <1>3 DEF Load
<1>4. ASSUME Goto(p, l) PROVE Become(p, l, Q(p), loc[p].n, loc[p].h, loc[p].t, loc[p].x)
  BY <1>4 DEF Goto
<1> QED BY <1>1, <1>2, <1>3, <1>4

(* A retry and an answer keep the queue and clear the loads.                *)
LEMMA RetrySets ==
  ASSUME TypeOK, NEW p \in Procs, NEW l \in EnqLabels \cup DeqLabels, NEW v \in Nodes \cup {Nil}
  PROVE  /\ Retry(p, l) => Become(p, l, Q(p), loc[p].n, Nil, Nil, Nil)
         /\ Answer(p, l, v) => Become(p, l, Q(p), v, Nil, Nil, Nil)
<1> USE DEF TypeOK, Registers, Become, Q, Outside
<1>1. ASSUME Retry(p, l) PROVE Become(p, l, Q(p), loc[p].n, Nil, Nil, Nil)
  BY <1>1 DEF Retry
<1>2. ASSUME Answer(p, l, v) PROVE Become(p, l, Q(p), v, Nil, Nil, Nil)
  BY <1>2 DEF Answer
<1> QED BY <1>1, <1>2

(* A call sets the queue and, for Enqueue, the node; a return clears all.   *)
LEMMA CallSets ==
  ASSUME TypeOK, NEW p \in Procs, NEW l \in EnqLabels \cup DeqLabels, NEW q \in Queues,
         NEW n \in Nodes
  PROVE  /\ loc' = [loc EXCEPT ![p] = Outside] => Become(p, "idle", Nil, Nil, Nil, Nil, Nil)
         /\ loc' = [loc EXCEPT ![p] = [Outside EXCEPT !.at = l, !.q = q]]
              => Become(p, l, q, Nil, Nil, Nil, Nil)
         /\ loc' = [loc EXCEPT ![p] = [Outside EXCEPT !.at = l, !.q = q, !.n = n]]
              => Become(p, l, q, n, Nil, Nil, Nil)
<1> USE DEF TypeOK, Registers, Become, Q, Outside
<1>1. ASSUME loc' = [loc EXCEPT ![p] = Outside] PROVE Become(p, "idle", Nil, Nil, Nil, Nil, Nil)
  BY <1>1
<1>2. ASSUME loc' = [loc EXCEPT ![p] = [Outside EXCEPT !.at = l, !.q = q]]
      PROVE  Become(p, l, q, Nil, Nil, Nil, Nil)
  BY <1>2
<1>3. ASSUME loc' = [loc EXCEPT ![p] = [Outside EXCEPT !.at = l, !.q = q, !.n = n]]
      PROVE  Become(p, l, q, n, Nil, Nil, Nil)
  BY <1>3
<1> QED BY <1>1, <1>2, <1>3

-----------------------------------------------------------------------------
(* What a step leaves of what goroutines know *)

(* Chains grow at their ends and head and tail move forward.                *)
Grow ==
  /\ used \subseteq used'
  /\ \A q \in Queues : \A n : On(q, n) => On(q, n)' /\ Place(q, n)' = Place(q, n)
  /\ \A q \in Queues : \A a, b : Follows(q, a, b) => Follows(q, a, b)'
  /\ \A q \in Queues : /\ Place(q, head[q]) <= Place(q, head[q])'
                       /\ Place(q, tail[q]) <= Place(q, tail[q])'

(* What a goroutine knows stays true while others step.                     *)
LEMMA Others ==
  ASSUME Inv, TypeOK', ListInv', Grow, NEW r \in Procs, loc'[r] = loc[r],
         loc[r].at \in Unlinked => \A q \in Queues : ~On(q, loc[r].n)'
  PROVE  RegInv(r)'
<1> USE DEF Inv, RegInv, At, Q
<1>1. (At(r, "idle") \/ Q(r) \in Queues)'
  OBVIOUS
<1>2. CASE At(r, "idle")
  BY <1>2 DEF EnqInv, DeqInv, Unlinked
<1>3. ASSUME NEW q \in Queues, NEW a
      PROVE  /\ UpTo(q, a, tail[q]) => UpTo(q, a, tail[q])'
             /\ UpTo(q, a, head[q]) => UpTo(q, a, head[q])'
  <2>1. /\ On(q, head[q]) /\ On(q, tail[q]) /\ On(q, head[q])' /\ On(q, tail[q])'
    BY DEF ListInv, EndsInv, UpTo
  <2>2. /\ Place(q, head[q]) \in Nat /\ Place(q, head[q])' \in Nat
        /\ Place(q, tail[q]) \in Nat /\ Place(q, tail[q])' \in Nat
        /\ On(q, a) => Place(q, a) \in Nat
    BY <2>1, Places, PlacesNext DEF ListInv, Placed, TypeOK, ChainType
  <2> QED BY <2>1, <2>2 DEF UpTo, Grow
<1>5. CASE Q(r) \in Queues
  <2>1. EnqInv(r)'
    BY <1>3, <1>5 DEF EnqInv, Grow, Unlinked
  <2>2. DeqInv(r)'
    <3>1. \A a, b : UpTo(Q(r), a, b) => UpTo(Q(r), a, b)'
      BY <1>5 DEF UpTo, Grow
    <3> QED BY <1>3, <1>5, <3>1 DEF DeqInv, Grow
  <2> QED BY <1>1, <2>1, <2>2
<1> QED BY <1>1, <1>2, <1>5

(* A step that leaves the lists alone.                                      *)
LEMMA SameList ==
  ASSUME Inv, used \subseteq used', UNCHANGED <<head, tail, next, chain>>
  PROVE  /\ ListInv' /\ Grow
         /\ \A q, n : (On(q, n)' <=> On(q, n)) /\ Place(q, n)' = Place(q, n)
         /\ \A q, a, b : (UpTo(q, a, b)' <=> UpTo(q, a, b)) /\ (Follows(q, a, b)' <=> Follows(q, a, b))
<1>1. \A q, n : (On(q, n)' <=> On(q, n)) /\ Place(q, n)' = Place(q, n)
  BY DEF On, Place
<1>2. ListInv'
  BY <1>1 DEF Inv, ListInv, ChainInv, NextInv, EndsInv, UpTo
<1>3. Grow
  <2>1. \A q \in Queues : Place(q, head[q]) \in Nat /\ Place(q, tail[q]) \in Nat
    BY Places DEF Inv, ListInv, EndsInv, UpTo, Placed
  <2> QED BY <1>1, <2>1 DEF Grow, Follows
<1>4. \A q, a, b : (UpTo(q, a, b)' <=> UpTo(q, a, b)) /\ (Follows(q, a, b)' <=> Follows(q, a, b))
  BY <1>1 DEF UpTo, Follows
<1> QED BY <1>1, <1>2, <1>3, <1>4

(* A step of p that changes no list and no counter keeps Inv if what p      *)
(* knows afterwards is true.                                                *)
Counted(p) == loc[p].at \notin {"e_swing", "e_count", "d_count"}
LEMMA QuietStep ==
  ASSUME Inv, NEW p \in Procs, UNCHANGED <<head, tail, length, next, chain>>,
         used \subseteq used', used' \subseteq Tasks,
         loc' \in [Procs -> Registers], \A r \in Procs : r # p => loc'[r] = loc[r],
         Counted(p), Counted(p)',
         loc'[p].at \in Unlinked => \/ loc[p].at \in Unlinked /\ loc'[p].n = loc[p].n
                                    \/ loc'[p].n \notin used,
         RegInv(p)'
  PROVE  Inv'
<1>1. TypeOK'
  BY DEF Inv, TypeOK
<1>2. ListInv' /\ Grow /\ \A q, n : (On(q, n)' <=> On(q, n)) /\ Place(q, n)' = Place(q, n)
  BY SameList
<1>3. \A r \in Procs : RegInv(r)'
  BY <1>1, <1>2, Others DEF Inv, RegInv, EnqInv
<1>4. FreshInv'
  BY DEF Inv, FreshInv, RegInv, EnqInv
<1>5. LagInv'
  <2>1. \A q \in Queues : Linkers(q)' = Linkers(q) /\ Unlinkers(q)' = Unlinkers(q)
    BY DEF Linkers, Unlinkers, Counted, At, Q
  <2> QED BY <1>2, <2>1 DEF Inv, LagInv
<1> QED BY <1>1, <1>2, <1>3, <1>4, <1>5 DEF Inv

-----------------------------------------------------------------------------
(* Calls, loads, checks and returns *)

(* Enqueue starts with a node nobody else has.                              *)
LEMMA StartEnqueue ==
  ASSUME Inv, NEW p \in Procs, NEW q \in Queues, NEW t \in Tasks \ used, used' = used \cup {t},
         loc[p].at \in {"idle", "d_ret"}, UNCHANGED <<head, tail, length, next, chain>>,
         loc' = [loc EXCEPT ![p] = [Outside EXCEPT !.at = "e_tail", !.q = q, !.n = t]]
  PROVE  Inv'
<1>1. Become(p, "e_tail", q, t, Nil, Nil, Nil)
  BY CallSets DEF Inv, EnqLabels, Nodes
<1>2. \A r \in Queues : ~On(r, t)'
  <2>1. \A r \in Queues : ~On(r, t)
    BY NodeAssumption, Places DEF Inv, ListInv, ChainInv, On, Placed
  <2> QED BY <2>1, SameList
<1>3. RegInv(p)'
  BY <1>1, <1>2 DEF Become, RegInv, EnqInv, DeqInv, Unlinked, At, Q
<1>4. Counted(p) /\ Counted(p)'
  BY <1>1 DEF Become, Counted
<1> QED BY <1>1, <1>3, <1>4, QuietStep DEF Become, Inv, TypeOK

LEMMA StartDequeue ==
  ASSUME Inv, NEW p \in Procs, NEW q \in Queues, CallDequeue(p, q)
  PROVE  Inv'
<1>1. Become(p, "d_head", q, Nil, Nil, Nil, Nil)
  BY CallSets DEF Inv, DeqLabels, CallDequeue, Nodes
<1>2. RegInv(p)' /\ Counted(p) /\ Counted(p)'
  BY <1>1 DEF Become, RegInv, EnqInv, DeqInv, Unlinked, Counted, CallDequeue, At, Q
<1> QED BY <1>1, <1>2, QuietStep DEF Become, Inv, TypeOK, CallDequeue, Heap, Unlinked

LEMMA ReturnKeeps ==
  ASSUME Inv, NEW p \in Procs, loc[p].at \in {"e_ret", "d_ret"},
         loc' = [loc EXCEPT ![p] = Outside], UNCHANGED Heap
  PROVE  Inv'
<1>0. Q(p) \in Queues /\ Q(p) \in Nodes
  BY DEF Inv, RegInv, At, Nodes
<1>1. Become(p, "idle", Nil, Nil, Nil, Nil, Nil)
  BY <1>0, CallSets DEF Inv, DeqLabels
<1>2. RegInv(p)' /\ Counted(p) /\ Counted(p)'
  BY <1>1 DEF Become, RegInv, EnqInv, DeqInv, Unlinked, Counted, At, Q
<1> QED BY <1>1, <1>2, QuietStep DEF Become, Inv, TypeOK, Heap, Unlinked

LEMMA EnqTailKeeps == ASSUME Inv, NEW p \in Procs, EnqTail(p) PROVE Inv'
<1> DEFINE q == Q(p)
<1>0. q \in Queues /\ tail[q] \in Nodes
  BY DEF Inv, RegInv, EnqTail, At, TypeOK
<1>1. Become(p, "e_next", q, loc[p].n, loc[p].h, tail[q], loc[p].x)
  BY <1>0, LoadSets DEF Inv, EnqLabels, EnqTail
<1>2. RegInv(p)'
  <2>1. UpTo(q, tail[q], tail[q])
    BY <1>0, Places DEF Inv, ListInv, EndsInv, UpTo, Placed
  <2> QED BY <1>0, <1>1, <2>1, SameList
          DEF Inv, Become, RegInv, EnqInv, DeqInv, Unlinked, EnqTail, Heap, At, Q
<1>3. Counted(p) /\ Counted(p)'
  BY <1>1 DEF Become, Counted, EnqTail, At
<1> QED BY <1>1, <1>2, <1>3, QuietStep DEF Become, Inv, TypeOK, EnqTail, Heap, Unlinked, At

(* The next node of a loaded tail is the one behind it, if there is one.    *)
LEMMA EnqNextKeeps == ASSUME Inv, NEW p \in Procs, EnqNext(p) PROVE Inv'
<1> DEFINE q == Q(p)
           x == next[loc[p].t]
<1>0. q \in Queues /\ UpTo(q, loc[p].t, tail[q]) /\ loc[p].t \in Nodes
  BY Places DEF Inv, ListInv, RegInv, EnqInv, EnqNext, At, UpTo, Placed
<1>1. Become(p, "e_check", q, loc[p].n, loc[p].h, loc[p].t, x)
  <2>1. x \in Nodes \cup {Nil}
    BY <1>0 DEF Inv, TypeOK, Nodes
  <2> QED BY <1>0, <2>1, LoadSets DEF Inv, EnqLabels, EnqNext
<1>2. RegInv(p)'
  <2>1. x # Nil => Follows(q, loc[p].t, x)
    BY <1>0, NextOf DEF Inv, UpTo
  <2> HIDE DEF x
  <2> QED BY <1>0, <1>1, <2>1, SameList
          DEF Inv, Become, RegInv, EnqInv, DeqInv, Unlinked, EnqNext, Heap, At, Q
<1>3. Counted(p) /\ Counted(p)'
  BY <1>1 DEF Become, Counted, EnqNext, At
<1> QED BY <1>1, <1>2, <1>3, QuietStep DEF Become, Inv, TypeOK, EnqNext, Heap, Unlinked, At

(* A failed check or compare-and-swap goes back to the first load.          *)
LEMMA EnqAgain ==
  ASSUME Inv, NEW p \in Procs, loc[p].at \in Unlinked, Retry(p, "e_tail"),
         UNCHANGED <<head, tail, length, next, used, chain>>
  PROVE  Inv'
<1>0. Q(p) \in Queues /\ loc[p].n \in Nodes \cup {Nil}
  BY DEF Inv, RegInv, At, Unlinked, TypeOK, Registers
<1>1. Become(p, "e_tail", Q(p), loc[p].n, Nil, Nil, Nil)
  BY <1>0, RetrySets DEF Inv, EnqLabels
<1>2. RegInv(p)'
  BY <1>0, <1>1, SameList DEF Inv, Become, RegInv, EnqInv, DeqInv, Unlinked, At, Q
<1>3. Counted(p) /\ Counted(p)'
  BY <1>1 DEF Become, Counted, Unlinked
<1> QED BY <1>1, <1>2, <1>3, QuietStep DEF Become, Inv, TypeOK, Unlinked

LEMMA EnqCheckKeeps == ASSUME Inv, NEW p \in Procs, EnqCheck(p) PROVE Inv'
<1>1. CASE tail[Q(p)] # loc[p].t
  BY <1>1, EnqAgain DEF EnqCheck, Heap, Unlinked, At
<1>2. CASE tail[Q(p)] = loc[p].t
  <2> DEFINE l == IF loc[p].x = Nil THEN "e_link" ELSE "e_help"
  <2>0. Q(p) \in Queues /\ Goto(p, l) /\ l \in EnqLabels
    BY <1>2 DEF Inv, RegInv, EnqCheck, EnqLabels, At
  <2>1. Become(p, l, Q(p), loc[p].n, loc[p].h, loc[p].t, loc[p].x)
    BY <2>0, LoadSets DEF Inv
  <2>2. RegInv(p)'
    BY <2>0, <2>1, SameList
       DEF Inv, Become, RegInv, EnqInv, DeqInv, Unlinked, EnqCheck, Heap, At, Q
  <2>3. Counted(p) /\ Counted(p)'
    BY <2>1 DEF Become, Counted, EnqCheck, At
  <2> QED BY <2>1, <2>2, <2>3, QuietStep DEF Become, Inv, TypeOK, EnqCheck, Heap, Unlinked, At
<1> QED BY <1>1, <1>2

LEMMA DeqHeadKeeps == ASSUME Inv, NEW p \in Procs, DeqHead(p) PROVE Inv'
<1> DEFINE q == Q(p)
<1>0. q \in Queues /\ head[q] \in Nodes
  BY DEF Inv, RegInv, DeqHead, At, TypeOK
<1>1. Become(p, "d_tail", q, loc[p].n, head[q], loc[p].t, loc[p].x)
  BY <1>0, LoadSets DEF Inv, DeqLabels, DeqHead
<1>2. RegInv(p)'
  <2>1. UpTo(q, head[q], head[q])
    BY <1>0, Places DEF Inv, ListInv, EndsInv, UpTo, Placed
  <2> QED BY <1>0, <1>1, <2>1, SameList
          DEF Inv, Become, RegInv, EnqInv, DeqInv, Unlinked, DeqHead, Heap, At, Q
<1>3. Counted(p) /\ Counted(p)'
  BY <1>1 DEF Become, Counted, DeqHead, At
<1> QED BY <1>1, <1>2, <1>3, QuietStep DEF Become, Inv, TypeOK, DeqHead, Heap, Unlinked, At

(* Tail is loaded after head, and is not before it.                         *)
LEMMA DeqTailKeeps == ASSUME Inv, NEW p \in Procs, DeqTail(p) PROVE Inv'
<1> DEFINE q == Q(p)
<1>0. q \in Queues /\ tail[q] \in Nodes
  BY DEF Inv, RegInv, DeqTail, At, TypeOK
<1>1. Become(p, "d_next", q, loc[p].n, loc[p].h, tail[q], loc[p].x)
  BY <1>0, LoadSets DEF Inv, DeqLabels, DeqTail
<1>2. RegInv(p)'
  <2>1. UpTo(q, tail[q], tail[q]) /\ UpTo(q, loc[p].h, tail[q]) /\ UpTo(q, loc[p].h, head[q])
    BY <1>0, Places DEF Inv, ListInv, EndsInv, UpTo, Placed, RegInv, DeqInv, DeqTail, At
  <2> QED BY <1>0, <1>1, <2>1, SameList
          DEF Inv, Become, RegInv, EnqInv, DeqInv, Unlinked, DeqTail, Heap, At, Q
<1>3. Counted(p) /\ Counted(p)'
  BY <1>1 DEF Become, Counted, DeqTail, At
<1> QED BY <1>1, <1>2, <1>3, QuietStep DEF Become, Inv, TypeOK, DeqTail, Heap, Unlinked, At

(* A loaded head that is before a loaded tail has a next node.              *)
LEMMA DeqNextKeeps == ASSUME Inv, NEW p \in Procs, DeqNext(p) PROVE Inv'
<1> DEFINE q == Q(p)
           h == loc[p].h
           x == next[h]
<1>0. /\ q \in Queues /\ UpTo(q, h, head[q]) /\ UpTo(q, h, loc[p].t)
      /\ UpTo(q, loc[p].t, tail[q]) /\ h \in Nodes
  BY Places DEF Inv, ListInv, RegInv, DeqInv, DeqNext, At, UpTo, Placed
<1>1. Become(p, "d_check", q, loc[p].n, h, loc[p].t, x)
  <2>1. x \in Nodes \cup {Nil}
    BY <1>0 DEF Inv, TypeOK, Nodes
  <2> QED BY <1>0, <2>1, LoadSets DEF Inv, DeqLabels, DeqNext
<1>2. RegInv(p)'
  <2>1. x # Nil => Follows(q, h, x)
    BY <1>0, NextOf DEF Inv, UpTo
  <2>2. h # loc[p].t => x # Nil
    BY <1>0, NextOf, SamePlace, Places DEF Inv, ListInv, UpTo, Placed
  <2> HIDE DEF x
  <2> QED BY <1>0, <1>1, <2>1, <2>2, SameList
          DEF Inv, Become, RegInv, EnqInv, DeqInv, Unlinked, DeqNext, Heap, At, Q
<1>3. Counted(p) /\ Counted(p)'
  BY <1>1 DEF Become, Counted, DeqNext, At
<1> QED BY <1>1, <1>2, <1>3, QuietStep DEF Become, Inv, TypeOK, DeqNext, Heap, Unlinked, At

LEMMA DeqAgain ==
  ASSUME Inv, NEW p \in Procs, loc[p].at \in {"d_check", "d_cas"}, Retry(p, "d_head"),
         UNCHANGED <<head, tail, length, next, used, chain>>
  PROVE  Inv'
<1>0. Q(p) \in Queues /\ loc[p].n \in Nodes \cup {Nil}
  BY DEF Inv, RegInv, At, TypeOK, Registers
<1>1. Become(p, "d_head", Q(p), loc[p].n, Nil, Nil, Nil)
  BY <1>0, RetrySets DEF Inv, DeqLabels
<1>2. RegInv(p)'
  BY <1>0, <1>1, SameList DEF Inv, Become, RegInv, EnqInv, DeqInv, Unlinked, At, Q
<1>3. Counted(p) /\ Counted(p)'
  BY <1>1 DEF Become, Counted
<1> QED BY <1>1, <1>2, <1>3, QuietStep DEF Become, Inv, TypeOK, Unlinked

LEMMA DeqCheckKeeps == ASSUME Inv, NEW p \in Procs, DeqCheck(p) PROVE Inv'
<1>0. Q(p) \in Queues
  BY DEF Inv, RegInv, DeqCheck, At
<1>1. CASE head[Q(p)] # loc[p].h
  BY <1>1, DeqAgain DEF DeqCheck, Heap, At
<1>2. CASE head[Q(p)] = loc[p].h /\ loc[p].h = loc[p].t /\ loc[p].x = Nil
  <2>1. Become(p, "d_ret", Q(p), Nil, Nil, Nil, Nil)
    BY <1>0, <1>2, RetrySets DEF Inv, DeqCheck, DeqLabels
  <2>2. RegInv(p)'
    BY <1>0, <2>1 DEF Inv, Become, RegInv, EnqInv, DeqInv, Unlinked, At, Q
  <2>3. Counted(p) /\ Counted(p)'
    BY <2>1 DEF Become, Counted, DeqCheck, At
  <2> QED BY <2>1, <2>2, <2>3, QuietStep DEF Become, Inv, TypeOK, DeqCheck, Heap, Unlinked
<1>3. CASE head[Q(p)] = loc[p].h /\ ~(loc[p].h = loc[p].t /\ loc[p].x = Nil)
  <2> DEFINE l == IF loc[p].h = loc[p].t THEN "d_help" ELSE "d_cas"
  <2>0. Goto(p, l) /\ l \in DeqLabels
    BY <1>3 DEF DeqCheck, DeqLabels
  <2>1. Become(p, l, Q(p), loc[p].n, loc[p].h, loc[p].t, loc[p].x)
    BY <2>0, LoadSets DEF Inv
  <2>2. RegInv(p)'
    BY <1>0, <1>3, <2>1, SameList
       DEF Inv, Become, RegInv, EnqInv, DeqInv, Unlinked, DeqCheck, Heap, At, Q
  <2>3. Counted(p) /\ Counted(p)'
    BY <2>1 DEF Become, Counted, DeqCheck, At
  <2> QED BY <2>1, <2>2, <2>3, QuietStep DEF Become, Inv, TypeOK, DeqCheck, Heap, Unlinked
<1> QED BY <1>1, <1>2, <1>3

-----------------------------------------------------------------------------
(* Tail moves *)

(* Tail moves from a loaded tail to the node behind it.                     *)
LEMMA SwingList ==
  ASSUME Inv, NEW p \in Procs, NEW new, Q(p) \in Queues, Follows(Q(p), loc[p].t, new),
         SwingTail(p, new), UNCHANGED <<head, next, used, chain>>
  PROVE  /\ ListInv' /\ Grow /\ tail' \in [Queues -> Nodes]
         /\ \A q, n : (On(q, n)' <=> On(q, n)) /\ Place(q, n)' = Place(q, n)
         /\ \A q, a, b : (UpTo(q, a, b)' <=> UpTo(q, a, b)) /\ (Follows(q, a, b)' <=> Follows(q, a, b))
<1> DEFINE s == Q(p)
<1>1. \A q, n : (On(q, n)' <=> On(q, n)) /\ Place(q, n)' = Place(q, n)
  BY DEF On, Place
<1>2. \A q, a, b : (UpTo(q, a, b)' <=> UpTo(q, a, b)) /\ (Follows(q, a, b)' <=> Follows(q, a, b))
  BY <1>1 DEF UpTo, Follows
<1>3. On(s, new) /\ Place(s, new) = Place(s, loc[p].t) + 1 /\ new \in Nodes
  BY FollowerPlace DEF Inv, ListInv, Nodes
<1>4. tail' \in [Queues -> Nodes]
  BY <1>3 DEF SwingTail, Inv, TypeOK
<1>5. \A q \in Queues : /\ UpTo(q, head[q], tail'[q]) /\ Place(q, tail[q]) <= Place(q, tail'[q])
                        /\ Place(q, tail'[q]) + 1 >= Len(chain[q])
                        /\ Place(q, head[q]) <= Place(q, head[q])
  BY <1>3, Places DEF SwingTail, Inv, TypeOK, ListInv, EndsInv, UpTo, Placed
<1>6. ListInv'
  BY <1>1, <1>2, <1>5 DEF Inv, ListInv, ChainInv, NextInv, EndsInv
<1>7. Grow
  BY <1>1, <1>2, <1>5 DEF Grow
<1> QED BY <1>1, <1>2, <1>4, <1>6, <1>7

LEMMA SwingStep ==
  ASSUME Inv, NEW p \in Procs, NEW new, Q(p) \in Queues, Follows(Q(p), loc[p].t, new),
         SwingTail(p, new), UNCHANGED <<head, length, next, used, chain>>,
         loc' \in [Procs -> Registers], \A r \in Procs : r # p => loc'[r] = loc[r],
         \/ Counted(p) /\ Counted(p)'
         \/ loc[p].at = "e_swing" /\ loc'[p].at = "e_count" /\ loc'[p].q = loc[p].q,
         loc'[p].at \in Unlinked => loc[p].at \in Unlinked /\ loc'[p].n = loc[p].n,
         RegInv(p)'
  PROVE  Inv'
<1>0. /\ ListInv' /\ Grow /\ tail' \in [Queues -> Nodes]
      /\ \A q, n : (On(q, n)' <=> On(q, n)) /\ Place(q, n)' = Place(q, n)
  BY SwingList
<1>1. TypeOK'
  BY <1>0 DEF Inv, TypeOK
<1>3. \A r \in Procs : RegInv(r)'
  BY <1>0, <1>1, Others DEF Inv, RegInv, EnqInv
<1>4. FreshInv'
  BY DEF Inv, FreshInv
<1>5. LagInv'
  <2>1. \A q \in Queues : Linkers(q)' = Linkers(q) /\ Unlinkers(q)' = Unlinkers(q)
    BY DEF Linkers, Unlinkers, Counted, At, Q
  <2> QED BY <1>0, <2>1 DEF Inv, LagInv
<1> QED BY <1>0, <1>1, <1>3, <1>4, <1>5 DEF Inv

LEMMA EnqHelpKeeps == ASSUME Inv, NEW p \in Procs, EnqHelp(p) PROVE Inv'
<1>0. Q(p) \in Queues /\ Follows(Q(p), loc[p].t, loc[p].x) /\ loc[p].n \in Nodes \cup {Nil}
  BY DEF Inv, RegInv, EnqInv, EnqHelp, At, TypeOK, Registers
<1>1. Become(p, "e_tail", Q(p), loc[p].n, Nil, Nil, Nil)
  BY <1>0, RetrySets DEF Inv, EnqHelp, EnqLabels
<1>2. RegInv(p)'
  BY <1>0, <1>1, SwingList DEF Inv, Become, RegInv, EnqInv, DeqInv, EnqHelp, Unlinked, At, Q
<1>3. Counted(p) /\ Counted(p)'
  BY <1>1 DEF Become, Counted, EnqHelp, At
<1>4. loc[p].at \in Unlinked /\ loc'[p].n = loc[p].n
  BY <1>1 DEF Become, EnqHelp, Unlinked, At
<1> QED BY <1>0, <1>1, <1>2, <1>3, <1>4, SwingStep DEF Become, EnqHelp

LEMMA EnqSwingKeeps == ASSUME Inv, NEW p \in Procs, EnqSwing(p) PROVE Inv'
<1>0. Q(p) \in Queues /\ Follows(Q(p), loc[p].t, loc[p].n) /\ loc[p].n \in Nodes \cup {Nil}
  BY DEF Inv, RegInv, EnqInv, EnqSwing, At, TypeOK, Registers
<1>1. Become(p, "e_count", Q(p), loc[p].n, loc[p].h, loc[p].t, loc[p].x)
  BY <1>0, LoadSets DEF Inv, EnqSwing, EnqLabels
<1>2. RegInv(p)'
  BY <1>0, <1>1 DEF Inv, Become, RegInv, EnqInv, DeqInv, Unlinked, At, Q
<1> QED BY <1>0, <1>1, <1>2, SwingStep DEF Become, EnqSwing, Unlinked, At, Q

LEMMA DeqHelpKeeps == ASSUME Inv, NEW p \in Procs, DeqHelp(p) PROVE Inv'
<1>0. Q(p) \in Queues /\ Follows(Q(p), loc[p].t, loc[p].x) /\ loc[p].n \in Nodes \cup {Nil}
  BY DEF Inv, RegInv, DeqInv, DeqHelp, At, TypeOK, Registers
<1>1. Become(p, "d_head", Q(p), loc[p].n, Nil, Nil, Nil)
  BY <1>0, RetrySets DEF Inv, DeqHelp, DeqLabels
<1>2. RegInv(p)'
  BY <1>0, <1>1 DEF Inv, Become, RegInv, EnqInv, DeqInv, Unlinked, At, Q
<1>3. Counted(p) /\ Counted(p)' /\ loc'[p].at \notin Unlinked
  BY <1>1 DEF Become, Counted, DeqHelp, Unlinked, At
<1> QED BY <1>0, <1>1, <1>2, <1>3, SwingStep DEF Become, DeqHelp

-----------------------------------------------------------------------------
(* A node is linked *)

(* Only the new node is new.                                                *)
LEMMA LinkOn ==
  ASSUME TypeOK, NEW s \in Queues, NEW n \in Nodes, chain' = [chain EXCEPT ![s] = Append(@, n)],
         NEW q \in Queues, NEW m, On(q, m)', m # n
  PROVE  On(q, m)
<1>1. chain[s] \in Seq(Nodes) /\ chain \in [Queues -> Seq(Nodes)]
  BY DEF TypeOK
<1> QED BY <1>1, AppendProperties, LenProperties DEF On

(* The new node is the last one of its queue; nothing else moves.           *)
LEMMA LinkList ==
  ASSUME Inv, NEW p \in Procs, NEW s, NEW n, NEW t, s = Q(p), n = loc[p].n, t = loc[p].t,
         At(p, "e_link"), next[t] = Nil, next' = [next EXCEPT ![t] = n],
         chain' = [chain EXCEPT ![s] = Append(@, n)], UNCHANGED <<head, tail, used>>
  PROVE  /\ ListInv' /\ Grow /\ next' \in [Nodes -> Tasks \cup {Nil}]
         /\ chain' \in [Queues -> Seq(Nodes)] /\ Follows(s, t, n)'
         /\ \A q \in Queues : Place(q, head[q])' = Place(q, head[q])
         /\ \A q \in Queues : Len(chain'[q]) = IF q = s THEN Len(chain[q]) + 1 ELSE Len(chain[q])
<1> DEFINE L == Len(chain[s])
<1>0. /\ s \in Queues /\ n \in used /\ n \in Tasks /\ n \in Nodes /\ t \in Nodes
      /\ \A q \in Queues : ~On(q, n)
      /\ UpTo(s, t, tail[s])
  BY Places DEF Inv, RegInv, EnqInv, TypeOK, Nodes, At, Unlinked, UpTo, ListInv, Placed
<1>1. L \in Nat /\ L >= 1 /\ Place(s, t) = L /\ chain[s][L] = t /\ On(s, t) /\ tail[s] = t
  <2>1. L \in Nat /\ On(s, t) /\ On(s, tail[s]) /\ Place(s, t) = L
    BY <1>0, NextOf, Places DEF Inv, UpTo, ListInv, Placed
  <2>2. Place(s, tail[s]) = L
    BY <1>0, <2>1, Places DEF Inv, UpTo, ListInv, Placed
  <2> QED BY <1>0, <2>1, <2>2, Places, SamePlace DEF Inv, ListInv, ChainInv, Placed
<1>2. /\ chain' \in [Queues -> Seq(Nodes)] /\ Len(chain'[s]) = L + 1
      /\ \A i \in 1..L : chain'[s][i] = chain[s][i]
      /\ chain'[s][L + 1] = n /\ \A q \in Queues : q # s => chain'[q] = chain[q]
  <2>1. chain[s] \in Seq(Nodes) /\ chain \in [Queues -> Seq(Nodes)]
    BY <1>0 DEF Inv, TypeOK
  <2>2. chain'[s] = Append(chain[s], n) /\ \A q \in Queues : q # s => chain'[q] = chain[q]
    BY <1>0, <2>1
  <2>3. Append(chain[s], n) \in Seq(Nodes)
    BY <1>0, <2>1, AppendProperties
  <2> QED BY <1>0, <2>1, <2>2, <2>3, AppendProperties
<1>3. next' \in [Nodes -> Tasks \cup {Nil}] /\ next'[t] = n /\ \A m \in Nodes : m # t => next'[m] = next[m]
  BY <1>0 DEF Inv, TypeOK
<1>4. \A q \in Queues : Len(chain'[q]) \in Nat /\ Len(chain[q]) \in Nat
  BY <1>1, <1>2, <1>0, Places DEF Inv, ListInv, Placed
<1>5. \A q \in Queues : \A m : On(q, m)' <=> On(q, m) \/ (q = s /\ m = n)
  BY <1>0, <1>1, <1>2, <1>4 DEF On
<1>6. ChainInv'
  <2>1. ASSUME NEW q \in Queues
        PROVE  /\ Len(chain'[q]) >= 1 /\ chain'[q][1] = q
               /\ \A i \in 2..Len(chain'[q]) : chain'[q][i] \in used'
    BY <1>0, <1>1, <1>2, <1>4 DEF Inv, ListInv, ChainInv
  <2>2. ASSUME NEW q \in Queues, NEW r \in Queues, NEW i \in 1..Len(chain'[q]),
               NEW j \in 1..Len(chain'[r]), chain'[q][i] = chain'[r][j]
        PROVE  q = r /\ i = j
    <3>1. ASSUME NEW u \in Queues, NEW k \in 1..Len(chain'[u])
          PROVE  \/ u = s /\ k = L + 1 /\ chain'[u][k] = n
                 \/ k \in 1..Len(chain[u]) /\ chain'[u][k] = chain[u][k] /\ chain[u][k] # n
      BY <1>0, <1>1, <1>2, <1>4 DEF On
    <3>2. chain[q][i] = chain[r][j] /\ i \in 1..Len(chain[q]) /\ j \in 1..Len(chain[r])
          => q = r /\ i = j
      BY DEF Inv, ListInv, ChainInv
    <3> QED BY <2>2, <3>1, <3>2
  <2> QED BY <2>1, <2>2 DEF ChainInv
<1>7. \A q \in Queues : \A m : On(q, m) => Place(q, m)' = Place(q, m)
  <2> SUFFICES ASSUME NEW q \in Queues, NEW m, On(q, m) PROVE Place(q, m)' = Place(q, m)
    OBVIOUS
  <2>1. /\ Place(q, m) \in 1..Len(chain[q]) /\ chain[q][Place(q, m)] = m
    BY Places DEF Inv, ListInv, Placed
  <2>2. Place(q, m) \in 1..Len(chain'[q]) /\ chain'[q][Place(q, m)] = m
    BY <1>0, <1>1, <1>2, <1>4, <2>1
  <2>3. Placed(q)'
    BY <1>2, <1>6, PlacesNext DEF ChainType
  <2> QED BY <2>2, <2>3 DEF Placed
<1>8. On(s, n)' /\ Place(s, n)' = L + 1
  <2>1. Placed(s)' /\ L + 1 \in 1..Len(chain'[s])
    BY <1>0, <1>1, <1>2, <1>6, PlacesNext DEF ChainType
  <2> QED BY <1>2, <2>1 DEF Placed
<1>9. \A q \in Queues : \A a, b : Follows(q, a, b) => Follows(q, a, b)'
  <2> SUFFICES ASSUME NEW q \in Queues, NEW a, NEW b, Follows(q, a, b) PROVE Follows(q, a, b)'
    OBVIOUS
  <2>1. Placed(q)
    BY Places DEF Inv, ListInv
  <2> QED BY <1>1, <1>2, <1>4, <1>5, <1>7, <2>1 DEF Follows, Placed
<1>10. Follows(s, t, n)'
  BY <1>0, <1>1, <1>2, <1>5, <1>7 DEF Follows
<1>11. NextInv'
  <2>1. ASSUME NEW q \in Queues, NEW i \in 1..Len(chain'[q])
        PROVE  next'[chain'[q][i]] = IF i = Len(chain'[q]) THEN Nil ELSE chain'[q][i + 1]
    <3>1. Placed(q) /\ Placed(s)
      BY <1>0, Places DEF Inv, ListInv
    <3>2. next[n] = Nil /\ n # t
      BY <1>0, <1>1 DEF Inv, ListInv, NextInv
    <3>3. CASE i \in 1..Len(chain[q])
      <4>1. next[chain[q][i]] = IF i = Len(chain[q]) THEN Nil ELSE chain[q][i + 1]
        BY <3>3 DEF Inv, ListInv, NextInv
      <4>2. chain[q][i] = t <=> q = s /\ i = L
        BY <1>0, <1>1, <3>3 DEF Inv, ListInv, ChainInv
      <4>3. chain[q][i] \in Nodes
        BY <3>1, <3>3 DEF Placed
      <4> QED BY <1>0, <1>1, <1>2, <1>3, <1>4, <3>3, <4>1, <4>2, <4>3
    <3>4. CASE i \notin 1..Len(chain[q])
      BY <1>0, <1>1, <1>2, <1>3, <1>4, <3>2, <3>4
    <3> QED BY <3>3, <3>4
  <2>2. ASSUME NEW m \in Nodes, \A q \in Queues : ~On(q, m)' PROVE next'[m] = Nil
    BY <1>0, <1>1, <1>3, <1>5, <2>2 DEF Inv, ListInv, NextInv
  <2> QED BY <2>1, <2>2 DEF NextInv
<1>12. \A q \in Queues : Place(q, head[q])' = Place(q, head[q]) /\ Place(q, tail[q])' = Place(q, tail[q])
  BY <1>7 DEF Inv, ListInv, EndsInv, UpTo
<1>13. EndsInv'
  BY <1>0, <1>1, <1>2, <1>4, <1>5, <1>12, Places DEF Inv, ListInv, EndsInv, UpTo, Placed
<1>14. Grow
  <2>1. \A q \in Queues : Place(q, head[q]) \in Nat /\ Place(q, tail[q]) \in Nat
    BY Places DEF Inv, ListInv, EndsInv, UpTo, Placed
  <2> QED BY <1>5, <1>7, <1>9, <1>12, <2>1 DEF Grow
<1> QED BY <1>2, <1>3, <1>5, <1>6, <1>10, <1>11, <1>12, <1>13, <1>14 DEF ListInv

-----------------------------------------------------------------------------
(* Steps that change the balance of list and counter *)

LEMMA Finite ==
  ASSUME NEW q
  PROVE  IsFiniteSet(Linkers(q)) /\ IsFiniteSet(Unlinkers(q))
         /\ Cardinality(Linkers(q)) \in Nat /\ Cardinality(Unlinkers(q)) \in Nat
<1>1. Linkers(q) \subseteq Procs /\ Unlinkers(q) \subseteq Procs
  BY DEF Linkers, Unlinkers
<1>2. IsFiniteSet(Linkers(q)) /\ IsFiniteSet(Unlinkers(q))
  BY <1>1, ProcsAssumption, FS_Subset
<1> QED BY <1>2, FS_CardinalityType

(* One more, or one less, that owes the counter something.                  *)
LEMMA OneMore ==
  ASSUME NEW S, NEW T, IsFiniteSet(S), NEW p, p \notin S, T = S \cup {p}
  PROVE  Cardinality(T) = Cardinality(S) + 1
BY FS_AddElement

LEMMA OneLess ==
  ASSUME NEW S, NEW T, IsFiniteSet(S), NEW p \in S, T = S \ {p}
  PROVE  Cardinality(T) = Cardinality(S) - 1
BY FS_RemoveElement

LEMMA EnqLinkKeeps == ASSUME Inv, NEW p \in Procs, EnqLink(p) PROVE Inv'
<1>1. CASE next[loc[p].t] # Nil
  BY <1>1, EnqAgain DEF EnqLink, Unlinked, At
<1>2. CASE next[loc[p].t] = Nil
  <2>0. PICK s, n, t : s = Q(p) /\ n = loc[p].n /\ t = loc[p].t
    OBVIOUS
  <2>1. /\ At(p, "e_link") /\ Goto(p, "e_swing") /\ next' = [next EXCEPT ![t] = n]
        /\ chain' = [chain EXCEPT ![s] = Append(@, n)] /\ UNCHANGED <<head, tail, length, used>>
    BY <1>2, <2>0 DEF EnqLink
  <2>2. /\ ListInv' /\ Grow /\ next' \in [Nodes -> Tasks \cup {Nil}]
        /\ chain' \in [Queues -> Seq(Nodes)] /\ Follows(s, t, n)'
        /\ \A q \in Queues : Place(q, head[q])' = Place(q, head[q])
        /\ \A q \in Queues : Len(chain'[q]) = IF q = s THEN Len(chain[q]) + 1 ELSE Len(chain[q])
    BY <1>2, <2>0, <2>1, LinkList
  <2>3. Become(p, "e_swing", s, n, loc[p].h, t, loc[p].x) /\ s \in Queues /\ n \in Nodes
    <3>1. s \in Queues /\ n \in Nodes
      BY <2>0, <2>1 DEF Inv, RegInv, EnqInv, TypeOK, Unlinked, At, Nodes
    <3> QED BY <2>0, <2>1, <3>1, LoadSets DEF Inv, EnqLabels
  <2>4. TypeOK'
    BY <2>1, <2>2, <2>3 DEF Inv, TypeOK, Become
  <2>5. RegInv(p)'
    <3>1. UpTo(s, t, tail[s]) /\ tail' = tail
      BY <2>0, <2>1 DEF Inv, RegInv, EnqInv, At
    <3>2. UpTo(s, t, tail[s])'
      BY <2>2, <2>3, <3>1 DEF UpTo, Grow
    <3> QED BY <2>2, <2>3, <3>2 DEF Become, RegInv, EnqInv, DeqInv, Unlinked, At, Q
  <2>6. ASSUME NEW r \in Procs, r # p PROVE RegInv(r)'
    <3>1. loc[r].at \in Unlinked => loc[r].n # n /\ \A q \in Queues : ~On(q, loc[r].n)
      BY <2>0, <2>1, <2>6 DEF Inv, FreshInv, RegInv, EnqInv, At, Unlinked
    <3>2. loc'[r] = loc[r]
      BY <2>3, <2>6 DEF Become
    <3>3. loc[r].at \in Unlinked => \A q \in Queues : ~On(q, loc[r].n)'
      BY <2>1, <2>3, <3>1, <3>2, LinkOn DEF Inv
    <3> QED BY <2>2, <2>4, <3>2, <3>3, Others
  <2>7. FreshInv'
    BY <2>3 DEF Inv, FreshInv, Become, Unlinked
  <2>8. LagInv'
    <3> SUFFICES ASSUME NEW q \in Queues
                 PROVE  (length[q] = Len(chain[q]) - Place(q, head[q])
                           - Cardinality(Linkers(q)) + Cardinality(Unlinkers(q)))'
      BY DEF LagInv
    <3>1. /\ Place(q, head[q]) \in Nat /\ Len(chain[q]) \in Nat
          /\ length[q] = Len(chain[q]) - Place(q, head[q])
                           - Cardinality(Linkers(q)) + Cardinality(Unlinkers(q))
      BY Places DEF Inv, ListInv, EndsInv, UpTo, LagInv, Placed
    <3>2. Unlinkers(q)' = Unlinkers(q)
      BY <2>1, <2>3 DEF Unlinkers, Become, At, Q
    <3>3. CASE q = s
      <4>1. p \notin Linkers(q) /\ Linkers(q)' = Linkers(q) \cup {p}
        BY <2>1, <2>3, <3>3 DEF Linkers, Become, At, Q
      <4>2. Cardinality(Linkers(q)') = Cardinality(Linkers(q)) + 1
        BY <4>1, Finite, OneMore
      <4> QED BY <2>1, <2>2, <3>1, <3>2, <3>3, <4>2, Finite
    <3>4. CASE q # s
      <4>1. Linkers(q)' = Linkers(q)
        BY <2>0, <2>1, <2>3, <3>4 DEF Linkers, Become, At, Q
      <4> QED BY <2>1, <2>2, <3>1, <3>2, <3>4, <4>1
    <3> QED BY <3>3, <3>4
  <2> QED BY <2>2, <2>4, <2>5, <2>6, <2>7, <2>8 DEF Inv
<1> QED BY <1>1, <1>2

(* The counter is increased and p owes it nothing any more.                 *)
LEMMA EnqCountKeeps == ASSUME Inv, NEW p \in Procs, EnqCount(p) PROVE Inv'
<1>0. PICK s : s = Q(p)
  OBVIOUS
<1>1. s \in Queues /\ Become(p, "e_ret", s, Nil, Nil, Nil, Nil)
  <2>1. s \in Queues /\ s \in Nodes
    BY <1>0 DEF Inv, RegInv, EnqCount, At, Nodes
  <2> QED BY <1>0, <2>1, CallSets DEF Inv, EnqCount, EnqLabels
<1>2. ListInv' /\ Grow /\ \A q, n : (On(q, n)' <=> On(q, n)) /\ Place(q, n)' = Place(q, n)
  BY SameList DEF EnqCount
<1>3. TypeOK'
  BY <1>0, <1>1 DEF Inv, TypeOK, EnqCount, Become
<1>4. \A r \in Procs : RegInv(r)'
  <2>1. RegInv(p)'
    BY <1>1 DEF Become, RegInv, EnqInv, DeqInv, Unlinked, At, Q
  <2>2. ASSUME NEW r \in Procs, r # p PROVE RegInv(r)'
    BY <1>1, <1>2, <1>3, <2>2, Others DEF Become, Inv, RegInv, EnqInv
  <2> QED BY <2>1, <2>2
<1>5. FreshInv'
  BY <1>1 DEF Inv, FreshInv, Become, Unlinked
<1>6. LagInv'
  <2> SUFFICES ASSUME NEW q \in Queues
               PROVE  (length[q] = Len(chain[q]) - Place(q, head[q])
                         - Cardinality(Linkers(q)) + Cardinality(Unlinkers(q)))'
    BY DEF LagInv
  <2>1. /\ Place(q, head[q]) \in Nat /\ Len(chain[q]) \in Nat
        /\ length[q] = Len(chain[q]) - Place(q, head[q])
                         - Cardinality(Linkers(q)) + Cardinality(Unlinkers(q))
    BY Places DEF Inv, ListInv, EndsInv, UpTo, LagInv, Placed
  <2>2. Unlinkers(q)' = Unlinkers(q) /\ Place(q, head[q])' = Place(q, head[q]) /\ chain' = chain
    BY <1>1, <1>2 DEF Unlinkers, Become, EnqCount, At, Q
  <2>3. CASE q = s
    <3>1. p \in Linkers(q) /\ Linkers(q)' = Linkers(q) \ {p}
      BY <1>0, <1>1, <2>3 DEF Linkers, Become, EnqCount, At, Q
    <3>2. Cardinality(Linkers(q)') = Cardinality(Linkers(q)) - 1
      BY <3>1, Finite, OneLess
    <3>3. length'[q] = length[q] + 1 /\ length[q] \in Int
      BY <1>0, <2>3 DEF EnqCount, Inv, TypeOK
    <3>4. Cardinality(Linkers(q)) \in Nat /\ Cardinality(Unlinkers(q)) \in Nat
      BY Finite
    <3>5. length[q] + 1 = Len(chain[q]) - Place(q, head[q])
                            - (Cardinality(Linkers(q)) - 1) + Cardinality(Unlinkers(q))
      <4> DEFINE k == length[q]
                 c == Len(chain[q])
                 h == Place(q, head[q])
                 a == Cardinality(Linkers(q))
                 u == Cardinality(Unlinkers(q))
      <4>1. k \in Int /\ c \in Nat /\ h \in Nat /\ a \in Nat /\ u \in Nat /\ k = c - h - a + u
        BY <2>1, <3>3, <3>4
      <4> HIDE DEF k, c, h, a, u
      <4>2. k + 1 = c - h - (a - 1) + u
        BY ONLY <4>1
      <4> QED BY <4>2 DEF k, c, h, a, u
    <3> QED BY ONLY <2>2, <3>2, <3>3, <3>5
  <2>4. CASE q # s
    <3>1. Linkers(q)' = Linkers(q) /\ length'[q] = length[q]
      BY <1>0, <1>1, <2>4 DEF Linkers, Become, EnqCount, At, Q, Inv, TypeOK
    <3> QED BY <2>1, <2>2, <3>1
  <2> QED BY <2>3, <2>4
<1> QED BY <1>2, <1>3, <1>4, <1>5, <1>6 DEF Inv

LEMMA DeqCountKeeps == ASSUME Inv, NEW p \in Procs, DeqCount(p) PROVE Inv'
<1>0. PICK s : s = Q(p)
  OBVIOUS
<1>1. s \in Queues /\ Become(p, "d_ret", s, loc[p].n, loc[p].h, loc[p].t, loc[p].x)
  <2>1. s \in Queues /\ s \in Nodes
    BY <1>0 DEF Inv, RegInv, DeqCount, At, Nodes
  <2> QED BY <1>0, <2>1, LoadSets DEF Inv, DeqCount, DeqLabels
<1>2. ListInv' /\ Grow /\ \A q, n : (On(q, n)' <=> On(q, n)) /\ Place(q, n)' = Place(q, n)
  BY SameList DEF DeqCount
<1>3. TypeOK'
  BY <1>0, <1>1 DEF Inv, TypeOK, DeqCount, Become
<1>4. \A r \in Procs : RegInv(r)'
  <2>1. RegInv(p)'
    BY <1>1 DEF Become, Inv, RegInv, EnqInv, DeqInv, Unlinked, DeqCount, At, Q
  <2>2. ASSUME NEW r \in Procs, r # p PROVE RegInv(r)'
    BY <1>1, <1>2, <1>3, <2>2, Others DEF Become, Inv, RegInv, EnqInv
  <2> QED BY <2>1, <2>2
<1>5. FreshInv'
  BY <1>1 DEF Inv, FreshInv, Become, Unlinked
<1>6. LagInv'
  <2> SUFFICES ASSUME NEW q \in Queues
               PROVE  (length[q] = Len(chain[q]) - Place(q, head[q])
                         - Cardinality(Linkers(q)) + Cardinality(Unlinkers(q)))'
    BY DEF LagInv
  <2>1. /\ Place(q, head[q]) \in Nat /\ Len(chain[q]) \in Nat
        /\ length[q] = Len(chain[q]) - Place(q, head[q])
                         - Cardinality(Linkers(q)) + Cardinality(Unlinkers(q))
    BY Places DEF Inv, ListInv, EndsInv, UpTo, LagInv, Placed
  <2>2. Linkers(q)' = Linkers(q) /\ Place(q, head[q])' = Place(q, head[q]) /\ chain' = chain
    BY <1>1, <1>2 DEF Linkers, Become, DeqCount, At, Q
  <2>3. CASE q = s
    <3>1. p \in Unlinkers(q) /\ Unlinkers(q)' = Unlinkers(q) \ {p}
      BY <1>0, <1>1, <2>3 DEF Unlinkers, Become, DeqCount, At, Q
    <3>2. Cardinality(Unlinkers(q)') = Cardinality(Unlinkers(q)) - 1
      BY <3>1, Finite, OneLess
    <3>3. length'[q] = length[q] - 1 /\ length[q] \in Int
      BY <1>0, <2>3 DEF DeqCount, Inv, TypeOK
    <3>4. Cardinality(Linkers(q)) \in Nat /\ Cardinality(Unlinkers(q)) \in Nat
      BY Finite
    <3>5. length[q] - 1 = Len(chain[q]) - Place(q, head[q])
                            - Cardinality(Linkers(q)) + (Cardinality(Unlinkers(q)) - 1)
      <4> DEFINE k == length[q]
                 c == Len(chain[q])
                 h == Place(q, head[q])
                 a == Cardinality(Linkers(q))
                 u == Cardinality(Unlinkers(q))
      <4>1. k \in Int /\ c \in Nat /\ h \in Nat /\ a \in Nat /\ u \in Nat /\ k = c - h - a + u
        BY <2>1, <3>3, <3>4
      <4> HIDE DEF k, c, h, a, u
      <4>2. k - 1 = c - h - a + (u - 1)
        BY ONLY <4>1
      <4> QED BY <4>2 DEF k, c, h, a, u
    <3> QED BY ONLY <2>2, <3>2, <3>3, <3>5
  <2>4. CASE q # s
    <3>1. Unlinkers(q)' = Unlinkers(q) /\ length'[q] = length[q]
      BY <1>0, <1>1, <2>4 DEF Unlinkers, Become, DeqCount, At, Q, Inv, TypeOK
    <3> QED BY <2>1, <2>2, <3>1
  <2> QED BY <2>3, <2>4
<1> QED BY <1>2, <1>3, <1>4, <1>5, <1>6 DEF Inv

(* Head moves to the node behind the loaded head, which is not behind tail. *)
LEMMA CasList ==
  ASSUME Inv, NEW p \in Procs, NEW s, NEW x, s = Q(p), x = loc[p].x, At(p, "d_cas"),
         head[s] = loc[p].h, head' = [head EXCEPT ![s] = x], UNCHANGED <<tail, next, used, chain>>
  PROVE  /\ s \in Queues /\ x \in used /\ x \in Nodes
         /\ ListInv' /\ Grow /\ head' \in [Queues -> Nodes]
         /\ \A q, n : (On(q, n)' <=> On(q, n)) /\ Place(q, n)' = Place(q, n)
         /\ \A q \in Queues : Place(q, head[q])' = IF q = s THEN Place(q, head[q]) + 1
                                                   ELSE Place(q, head[q])
<1>1. \A q, n : (On(q, n)' <=> On(q, n)) /\ Place(q, n)' = Place(q, n)
  BY DEF On, Place
<1>2. /\ s \in Queues /\ Follows(s, head[s], x) /\ head[s] # loc[p].t
      /\ UpTo(s, head[s], loc[p].t) /\ UpTo(s, loc[p].t, tail[s])
  BY DEF Inv, RegInv, DeqInv, At
<1>3. On(s, x) /\ Place(s, x) = Place(s, head[s]) + 1 /\ x \in used /\ x \in Nodes
  BY <1>2, FollowerPlace DEF Inv, ListInv, Nodes
<1>4. Place(s, x) <= Place(s, tail[s])
  BY <1>2, <1>3, Places, SamePlace DEF Inv, ListInv, UpTo, Placed
<1>5. head' \in [Queues -> Nodes]
  BY <1>2, <1>3 DEF Inv, TypeOK
<1>6. \A q \in Queues : /\ UpTo(q, head'[q], tail[q]) /\ Place(q, head[q]) <= Place(q, head'[q])
                        /\ Place(q, tail[q]) <= Place(q, tail[q])
                        /\ Place(q, head'[q]) = IF q = s THEN Place(q, head[q]) + 1
                                                ELSE Place(q, head[q])
  BY <1>2, <1>3, <1>4, Places DEF Inv, TypeOK, ListInv, EndsInv, UpTo, Placed
<1>7. ListInv'
  BY <1>1, <1>6 DEF Inv, ListInv, ChainInv, NextInv, EndsInv, UpTo
<1>8. Grow
  BY <1>1, <1>6 DEF Grow, Follows
<1> QED BY <1>1, <1>2, <1>3, <1>5, <1>6, <1>7, <1>8

LEMMA DeqCasKeeps == ASSUME Inv, NEW p \in Procs, DeqCas(p) PROVE Inv'
<1>1. CASE head[Q(p)] # loc[p].h
  BY <1>1, DeqAgain DEF DeqCas, At
<1>2. CASE head[Q(p)] = loc[p].h
  <2>0. PICK s, x : s = Q(p) /\ x = loc[p].x
    OBVIOUS
  <2>1. /\ At(p, "d_cas") /\ Answer(p, "d_count", x) /\ head' = [head EXCEPT ![s] = x]
        /\ UNCHANGED <<tail, length, next, used, chain>>
    BY <1>2, <2>0 DEF DeqCas
  <2>2. /\ s \in Queues /\ x \in used /\ x \in Nodes
        /\ ListInv' /\ Grow /\ head' \in [Queues -> Nodes]
        /\ \A q, n : (On(q, n)' <=> On(q, n)) /\ Place(q, n)' = Place(q, n)
        /\ \A q \in Queues : Place(q, head[q])' = IF q = s THEN Place(q, head[q]) + 1
                                                  ELSE Place(q, head[q])
    BY <1>2, <2>0, <2>1, CasList
  <2>3. Become(p, "d_count", s, x, Nil, Nil, Nil)
    BY <2>0, <2>1, <2>2, RetrySets DEF Inv, DeqLabels
  <2>4. TypeOK'
    BY <2>1, <2>2, <2>3 DEF Inv, TypeOK, Become
  <2>5. \A r \in Procs : RegInv(r)'
    <3>1. RegInv(p)'
      BY <2>1, <2>2, <2>3 DEF Become, RegInv, EnqInv, DeqInv, Unlinked, At, Q
    <3>2. ASSUME NEW r \in Procs, r # p PROVE RegInv(r)'
      BY <2>2, <2>3, <2>4, <3>2, Others DEF Become, Inv, RegInv, EnqInv
    <3> QED BY <3>1, <3>2
  <2>6. FreshInv'
    BY <2>3 DEF Inv, FreshInv, Become, Unlinked
  <2>7. LagInv'
    <3> SUFFICES ASSUME NEW q \in Queues
                 PROVE  (length[q] = Len(chain[q]) - Place(q, head[q])
                           - Cardinality(Linkers(q)) + Cardinality(Unlinkers(q)))'
      BY DEF LagInv
    <3>1. /\ Place(q, head[q]) \in Nat /\ Len(chain[q]) \in Nat
          /\ length[q] = Len(chain[q]) - Place(q, head[q])
                           - Cardinality(Linkers(q)) + Cardinality(Unlinkers(q))
      BY Places DEF Inv, ListInv, EndsInv, UpTo, LagInv, Placed
    <3>2. Linkers(q)' = Linkers(q)
      BY <2>1, <2>3 DEF Linkers, Become, At, Q
    <3>3. Cardinality(Linkers(q)) \in Nat /\ Cardinality(Unlinkers(q)) \in Nat
      BY Finite
    <3>4. CASE q = s
      <4>1. p \notin Unlinkers(q) /\ Unlinkers(q)' = Unlinkers(q) \cup {p}
        BY <2>1, <2>3, <3>4 DEF Unlinkers, Become, At, Q
      <4>2. Cardinality(Unlinkers(q)') = Cardinality(Unlinkers(q)) + 1
        BY <4>1, Finite, OneMore
      <4>3. length' = length /\ chain' = chain /\ Place(q, head[q])' = Place(q, head[q]) + 1
        BY <2>1, <2>2, <3>4
      <4>4. length[q] = Len(chain[q]) - (Place(q, head[q]) + 1)
                          - Cardinality(Linkers(q)) + (Cardinality(Unlinkers(q)) + 1)
        <5> DEFINE k == length[q]
                   c == Len(chain[q])
                   h == Place(q, head[q])
                   a == Cardinality(Linkers(q))
                   u == Cardinality(Unlinkers(q))
        <5>1. c \in Nat /\ h \in Nat /\ a \in Nat /\ u \in Nat /\ k = c - h - a + u
          BY <3>1, <3>3
        <5> HIDE DEF k, c, h, a, u
        <5>2. k = c - (h + 1) - a + (u + 1)
          BY ONLY <5>1
        <5> QED BY <5>2 DEF k, c, h, a, u
      <4> QED BY ONLY <3>2, <4>2, <4>3, <4>4
    <3>5. CASE q # s
      <4>1. Unlinkers(q)' = Unlinkers(q)
        BY <2>0, <2>1, <2>3, <3>5 DEF Unlinkers, Become, At, Q
      <4> QED BY <2>1, <2>2, <3>1, <3>2, <3>5, <4>1
    <3> QED BY <3>4, <3>5
  <2> QED BY <2>2, <2>4, <2>5, <2>6, <2>7 DEF Inv
<1> QED BY <1>1, <1>2

-----------------------------------------------------------------------------
(* Invariance *)

LEMMA InitInv == QueueInit => Inv
<1> SUFFICES ASSUME QueueInit PROVE Inv
  OBVIOUS
<1>1. TypeOK
  BY DEF QueueInit, TypeOK, Nodes, Registers, Outside
<1>2. \A q \in Queues : Len(chain[q]) = 1 /\ chain[q][1] = q /\ On(q, q) /\ Place(q, q) = 1
  BY DEF QueueInit, On, Place
<1>3. ListInv
  BY <1>2 DEF QueueInit, ListInv, ChainInv, NextInv, EndsInv, UpTo, Nodes
<1>4. \A p \in Procs : RegInv(p)
  BY DEF QueueInit, Outside, RegInv, EnqInv, DeqInv, Unlinked, At
<1>5. FreshInv
  BY DEF QueueInit, Outside, FreshInv, Unlinked
<1>6. LagInv
  <2>1. \A q \in Queues : Linkers(q) = {} /\ Unlinkers(q) = {}
    BY DEF QueueInit, Outside, Linkers, Unlinkers, At
  <2>2. Cardinality({}) = 0
    BY FS_EmptySet
  <2>3. \A q \in Queues : Cardinality(Linkers(q)) = 0 /\ Cardinality(Unlinkers(q)) = 0
    BY <2>1, <2>2
  <2>4. \A q \in Queues : length[q] = 0 /\ head[q] = q
    BY DEF QueueInit
  <2> QED BY <1>2, <2>3, <2>4 DEF LagInv
<1> QED BY <1>1, <1>3, <1>4, <1>5, <1>6 DEF Inv

(* Every step inside a call keeps Inv, whoever made the call.               *)
LEMMA CallStepKeeps == ASSUME Inv, NEW p \in Procs, Enqueue(p) \/ Dequeue(p) PROVE Inv'
BY EnqTailKeeps, EnqNextKeeps, EnqCheckKeeps, EnqLinkKeeps, EnqHelpKeeps, EnqSwingKeeps,
   EnqCountKeeps, DeqHeadKeeps, DeqTailKeeps, DeqNextKeeps, DeqCheckKeeps, DeqHelpKeeps,
   DeqCasKeeps, DeqCountKeeps DEF Enqueue, Dequeue

LEMMA StutterKeeps == ASSUME Inv, UNCHANGED qvars PROVE Inv'
<1>1. \A q, n : (On(q, n)' <=> On(q, n)) /\ Place(q, n)' = Place(q, n)
  BY DEF On, Place, qvars
<1>2. TypeOK' /\ FreshInv'
  BY DEF Inv, TypeOK, FreshInv, qvars
<1>3. ListInv' /\ Grow
  BY SameList DEF qvars
<1>4. \A r \in Procs : RegInv(r)'
  BY <1>1, <1>2, <1>3, Others DEF Inv, qvars, RegInv, EnqInv
<1>5. LagInv'
  <2>1. \A q \in Queues : Linkers(q)' = Linkers(q) /\ Unlinkers(q)' = Unlinkers(q)
    BY DEF Linkers, Unlinkers, At, Q, qvars
  <2> QED BY <1>1, <2>1 DEF Inv, LagInv, qvars
<1> QED BY <1>2, <1>3, <1>4, <1>5 DEF Inv

(* Inv holds whatever the goroutines that call Enqueue and Dequeue do, in any
   interleaving of their loads and compare-and-swaps (lock_free_queue.go). *)
THEOREM Invariance == QueueSpec => []Inv
<1>1. Inv /\ [QueueNext]_qvars => Inv'
  <2> SUFFICES ASSUME Inv, [QueueNext]_qvars PROVE Inv'
    OBVIOUS
  <2>1. ASSUME NEW p \in Procs, NEW q \in Queues, NEW t \in Tasks, CallEnqueue(p, q, t) PROVE Inv'
    BY <2>1, StartEnqueue DEF CallEnqueue, At
  <2>2. ASSUME NEW p \in Procs, Leave(p) PROVE Inv'
    BY <2>2, ReturnKeeps DEF Leave
  <2> QED BY <2>1, <2>2, StartDequeue, CallStepKeeps, StutterKeeps DEF QueueNext
<1> QED BY <1>1, InitInv, PTL DEF QueueSpec

(* Heap, registers and history have their types.                            *)
THEOREM TypeCorrect == QueueSpec => []TypeOK
<1>1. Inv => TypeOK
  BY DEF Inv
<1> QED BY <1>1, Invariance, PTL

(* The list is one chain that ends in nil, tail is between head and the end *)
(* and at most one node behind it, and a Dequeue about to read next.value   *)
(* has a next node (lock_free_queue.go:104-153).                            *)
THEOREM ListWellFormed == QueueSpec => []QueueShape
<1>1. Inv => QueueShape
  <2> SUFFICES ASSUME Inv PROVE QueueShape
    OBVIOUS
  <2>1. ASSUME NEW q \in Queues
        PROVE  /\ head[q] \in {chain[q][i] : i \in 1..Len(chain[q])}
               /\ \A i \in 1..Len(chain[q]) :
                    next[chain[q][i]] = IF i = Len(chain[q]) THEN Nil ELSE chain[q][i + 1]
               /\ Place(q, head[q]) <= Place(q, tail[q])
               /\ Place(q, tail[q]) + 1 >= Len(chain[q])
    <3>1. head[q] \in {chain[q][i] : i \in 1..Len(chain[q])}
      BY DEF Inv, ListInv, EndsInv, UpTo, On
    <3> QED BY <3>1 DEF Inv, ListInv, NextInv, EndsInv, UpTo
  <2>2. ASSUME NEW p \in Procs, At(p, "d_cas") PROVE loc[p].x # Nil
    BY <2>2, FollowerPlace DEF Inv, ListInv, RegInv, DeqInv, At
  <2> QED BY <2>1, <2>2 DEF QueueShape
<1> QED BY <1>1, Invariance, PTL

(* What a queue holds is as long as the chain behind head.                  *)
LEMMA ContentsLen ==
  ASSUME Inv, NEW q \in Queues
  PROVE  /\ Contents(q) \in Seq(Nodes) /\ Place(q, head[q]) \in 1..Len(chain[q])
         /\ Len(chain[q]) \in Nat /\ Len(Contents(q)) = Len(chain[q]) - Place(q, head[q])
         /\ \A i \in 1..Len(Contents(q)) : Contents(q)[i] = chain[q][Place(q, head[q]) + i]
<1>1. /\ Place(q, head[q]) \in 1..Len(chain[q]) /\ Len(chain[q]) \in Nat
      /\ \A i \in 1..Len(chain[q]) : chain[q][i] \in Nodes
  BY Places DEF Inv, ListInv, EndsInv, UpTo, Placed
<1> DEFINE m == Place(q, head[q]) + 1
           n == Len(chain[q])
           s == chain[q]
<1>2. m \in Int /\ n \in Int /\ \A i \in m..n : s[i] \in Nodes
  BY <1>1
<1> HIDE DEF m, n, s
<1>3. /\ SubSeq(s, m, n) \in Seq(Nodes) /\ Len(SubSeq(s, m, n)) = IF m <= n THEN n - m + 1 ELSE 0
      /\ \A i \in 1..n - m + 1 : SubSeq(s, m, n)[i] = s[m + i - 1]
  BY <1>2, SubSeqProperties
<1> USE DEF m, n, s
<1>4. Contents(q) = SubSeq(s, m, n)
  BY DEF Contents
<1> QED BY <1>1, <1>3, <1>4

(* The length counter differs from what is queued by exactly the calls that *)
(* are between the list and the counter (lock_free_queue.go:113-116,        *)
(* 146-147).                                                                *)
THEOREM CounterLagsByCalls == QueueSpec => []CounterLag
<1>1. Inv => CounterLag
  BY ContentsLen DEF Inv, LagInv, CounterLag, Linkers, Unlinkers
<1> QED BY <1>1, Invariance, PTL

-----------------------------------------------------------------------------
(* The queues implement FifoQueue *)

(* FifoQueue's three variables.                                             *)
From(p) == IF loc[p].at \in DeqLabels THEN Q(p) ELSE Nil
Held    == [q \in Queues |-> Contents(q)]
Froms   == [p \in Procs |-> From(p)]
Says    == [p \in Procs |-> AnswerOf(p)]

(* Contents change only with head and chain.                                *)
LEMMA SameContents == ASSUME UNCHANGED <<head, chain>>, NEW q PROVE Contents(q)' = Contents(q)
BY DEF Contents, Place

(* What a step of p with the given effect on p does to the two functions.   *)
LEMMA SaysSets ==
  ASSUME NEW p \in Procs, \A r \in Procs : r # p => loc'[r] = loc[r]
  PROVE  /\ Froms' = [Froms EXCEPT ![p] = From(p)'] /\ Says' = [Says EXCEPT ![p] = AnswerOf(p)']
         /\ Froms[p] = From(p) /\ Says[p] = AnswerOf(p)
         /\ From(p)' = From(p) => Froms' = Froms
         /\ AnswerOf(p)' = AnswerOf(p) => Says' = Says
BY DEF Froms, Says, From, AnswerOf, At, Q

(* A step that settles no answer is invisible.                              *)
LEMMA Silent ==
  ASSUME NEW p \in Procs, \A r \in Procs : r # p => loc'[r] = loc[r], UNCHANGED <<head, chain>>,
         From(p)' = From(p), AnswerOf(p)' = AnswerOf(p)
  PROVE  UNCHANGED <<Held, Froms, Says>>
BY SameContents, SaysSets DEF Held

(* Appending, and taking the first off, what is behind place k.             *)
LEMMA BehindAppend ==
  ASSUME NEW S, NEW c \in Seq(S), NEW n \in S, NEW k \in 1..Len(c)
  PROVE  SubSeq(Append(c, n), k + 1, Len(c) + 1) = Append(SubSeq(c, k + 1, Len(c)), n)
<1>1. Len(c) \in Nat /\ k \in Nat /\ \A i \in 1..Len(c) : c[i] \in S
  BY LenProperties
<1>2. PICK a : a = Append(c, n)
  OBVIOUS
<1>3. a \in Seq(S) /\ Len(a) = Len(c) + 1 /\ (\A i \in 1..Len(c) : a[i] = c[i]) /\ a[Len(c) + 1] = n
  BY <1>2, AppendProperties
<1>4. PICK d : d = SubSeq(a, k + 1, Len(c) + 1)
  OBVIOUS
<1>5. /\ d \in Seq(S) /\ Len(d) = Len(c) + 1 - k
      /\ \A i \in 1..Len(c) + 1 - k : d[i] = a[k + i]
  <2>1. \A i \in k + 1..Len(c) + 1 : a[i] \in S
    BY <1>1, <1>3
  <2>2. /\ d \in Seq(S) /\ Len(d) = IF k + 1 <= Len(c) + 1 THEN (Len(c) + 1) - (k + 1) + 1 ELSE 0
        /\ \A i \in 1..(Len(c) + 1) - (k + 1) + 1 : d[i] = a[(k + 1) + i - 1]
    BY <1>1, <1>4, <2>1, SubSeqProperties
  <2> QED BY <1>1, <2>2
<1>6. PICK b : b = SubSeq(c, k + 1, Len(c))
  OBVIOUS
<1>7. b \in Seq(S) /\ Len(b) = Len(c) - k /\ \A i \in 1..Len(c) - k : b[i] = c[k + i]
  <2>1. \A i \in k + 1..Len(c) : c[i] \in S
    BY <1>1
  <2>2. /\ b \in Seq(S) /\ Len(b) = IF k + 1 <= Len(c) THEN Len(c) - (k + 1) + 1 ELSE 0
        /\ \A i \in 1..Len(c) - (k + 1) + 1 : b[i] = c[(k + 1) + i - 1]
    BY <1>1, <1>6, <2>1, SubSeqProperties
  <2> QED BY <1>1, <2>2
<1>8. PICK e : e = Append(b, n)
  OBVIOUS
<1>9. e \in Seq(S) /\ Len(e) = Len(b) + 1 /\ (\A i \in 1..Len(b) : e[i] = b[i]) /\ e[Len(b) + 1] = n
  <2>1. b \in Seq(S)
    BY <1>7
  <2> QED BY <1>8, <2>1, AppendProperties
<1>10. Len(d) = Len(e) /\ \A i \in 1..Len(d) : d[i] = e[i]
  <2>1. Len(d) = Len(e) /\ Len(b) = Len(c) - k /\ Len(d) = Len(c) + 1 - k
    BY <1>1, <1>5, <1>7, <1>9
  <2>2. ASSUME NEW i \in 1..Len(c) + 1 - k PROVE d[i] = e[i]
    <3>1. CASE i \in 1..Len(c) - k
      <4>1. d[i] = a[k + i] /\ k + i \in 1..Len(c)
        BY <1>1, <1>5, <3>1
      <4>2. e[i] = b[i] /\ b[i] = c[k + i]
        BY <1>7, <1>9, <2>1, <3>1
      <4> QED BY <1>3, <4>1, <4>2
    <3>2. CASE i = Len(c) + 1 - k
      <4>1. d[i] = a[k + i] /\ k + i = Len(c) + 1 /\ i = Len(b) + 1
        BY <1>1, <1>5, <2>1, <3>2
      <4> QED BY <1>3, <1>9, <4>1
    <3> QED BY <1>1, <3>1, <3>2
  <2> QED BY <2>1, <2>2
<1>11. d = e
  BY <1>5, <1>9, <1>10, SeqEqual
<1> QED BY <1>2, <1>4, <1>6, <1>8, <1>11

LEMMA BehindTail ==
  ASSUME NEW S, NEW c \in Seq(S), NEW k \in 1..Len(c), k < Len(c)
  PROVE  /\ SubSeq(c, k + 1, Len(c)) # << >> /\ Head(SubSeq(c, k + 1, Len(c))) = c[k + 1]
         /\ Tail(SubSeq(c, k + 1, Len(c))) = SubSeq(c, k + 2, Len(c))
<1>1. Len(c) \in Nat /\ k + 1 \in 1..Len(c) /\ Len(c) \in k + 1..Len(c) /\ (k + 1) + 1 = k + 2
      /\ \A i \in 1..Len(c) : c[i] \in S
  BY LenProperties
<1>2. /\ Head(SubSeq(c, k + 1, Len(c))) = c[k + 1]
      /\ Tail(SubSeq(c, k + 1, Len(c))) = SubSeq(c, (k + 1) + 1, Len(c))
  BY <1>1, HeadTailOfSubSeq
<1>3. Len(SubSeq(c, k + 1, Len(c))) # 0
  <2>1. k + 1 \in Int /\ Len(c) \in Int /\ \A i \in k + 1..Len(c) : c[i] \in S
    BY <1>1
  <2>2. Len(SubSeq(c, k + 1, Len(c))) = IF k + 1 <= Len(c) THEN Len(c) - (k + 1) + 1 ELSE 0
    BY <2>1, SubSeqProperties
  <2> QED BY <1>1, <2>2
<1>4. Len(<< >>) = 0
  BY EmptySeq
<1> QED BY <1>1, <1>2, <1>3, <1>4

(* A linked node is the last of the queue's contents.                       *)
LEMMA LinkPuts ==
  ASSUME Inv, Inv', NEW s \in Queues, NEW n \in Nodes, chain' = [chain EXCEPT ![s] = Append(@, n)],
         \A q \in Queues : Place(q, head[q])' = Place(q, head[q]), head' = head
  PROVE  Held' = [Held EXCEPT ![s] = Append(@, n)]
<1>1. chain[s] \in Seq(Nodes) /\ chain \in [Queues -> Seq(Nodes)]
  BY DEF Inv, TypeOK
<1>2. \A q \in Queues : q # s => Contents(q)' = Contents(q)
  BY <1>1 DEF Contents
<1>3. Contents(s)' = Append(Contents(s), n)
  <2> DEFINE k == Place(s, head[s])
  <2>1. k \in 1..Len(chain[s])
    BY ContentsLen
  <2>2. Contents(s)' = SubSeq(Append(chain[s], n), k + 1, Len(chain[s]) + 1)
    <3>1. chain'[s] = Append(chain[s], n)
      BY <1>1
    <3>2. Len(Append(chain[s], n)) = Len(chain[s]) + 1
      BY <1>1, AppendProperties
    <3>3. Contents(s)' = SubSeq(chain'[s], Place(s, head[s])' + 1, Len(chain'[s]))
      BY DEF Contents
    <3> QED BY <3>1, <3>2, <3>3
  <2>3. Contents(s) = SubSeq(chain[s], k + 1, Len(chain[s]))
    BY DEF Contents
  <2> HIDE DEF k
  <2> QED BY <1>1, <2>1, <2>2, <2>3, BehindAppend
<1> QED BY <1>2, <1>3 DEF Held

(* Moving head takes the first of the contents off.                         *)
LEMMA CasGets ==
  ASSUME Inv, NEW s \in Queues, NEW x, Follows(s, head[s], x), chain' = chain,
         \A q \in Queues : Place(q, head[q])' = IF q = s THEN Place(q, head[q]) + 1
                                                ELSE Place(q, head[q])
  PROVE  /\ Held[s] # << >> /\ Head(Held[s]) = x
         /\ Held' = [Held EXCEPT ![s] = Tail(@)]
<1>1. \A q \in Queues : q # s => Contents(q)' = Contents(q)
  BY DEF Contents
<1> DEFINE k == Place(s, head[s])
           c == chain[s]
<1>2. /\ k \in 1..Len(c) /\ k < Len(c) /\ x = c[k + 1] /\ c \in Seq(Nodes)
      /\ Contents(s) = SubSeq(c, k + 1, Len(c))
      /\ Contents(s)' = SubSeq(c, k + 2, Len(c))
  <2>1. k \in 1..Len(c) /\ k < Len(c) /\ x = c[k + 1] /\ c \in Seq(Nodes) /\ (k + 1) + 1 = k + 2
    BY ContentsLen DEF Follows, Inv, TypeOK
  <2>2. Contents(s) = SubSeq(c, k + 1, Len(c))
    BY DEF Contents
  <2>3. Contents(s)' = SubSeq(c, (k + 1) + 1, Len(c))
    BY DEF Contents
  <2> QED BY <2>1, <2>2, <2>3
<1> HIDE DEF k, c
<1>3. Contents(s) # << >> /\ Head(Contents(s)) = x /\ Tail(Contents(s)) = Contents(s)'
  BY <1>2, BehindTail
<1> QED BY <1>1, <1>3 DEF Held

(* Whatever a step does to p's registers, it leaves the others' alone.      *)
LEMMA Moves ==
  ASSUME TypeOK, NEW p \in Procs, NEW l, NEW v,
         \/ Load(p, "h", v, l) \/ Load(p, "t", v, l) \/ Load(p, "x", v, l)
         \/ Goto(p, l) \/ Retry(p, l) \/ Answer(p, l, v)
         \/ loc' = [loc EXCEPT ![p] = [Outside EXCEPT !.at = l, !.q = v]]
  PROVE  loc'[p].at = l /\ \A r \in Procs : r # p => loc'[r] = loc[r]
<1> USE DEF TypeOK, Registers, Outside
<1>1. CASE Load(p, "h", v, l)
  BY <1>1 DEF Load
<1>2. CASE Load(p, "t", v, l)
  BY <1>2 DEF Load
<1>3. CASE Load(p, "x", v, l)
  BY <1>3 DEF Load
<1>4. CASE Goto(p, l)
  BY <1>4 DEF Goto
<1>5. CASE Retry(p, l)
  BY <1>5 DEF Retry
<1>6. CASE Answer(p, l, v)
  BY <1>6 DEF Answer
<1>7. CASE loc' = [loc EXCEPT ![p] = [Outside EXCEPT !.at = l, !.q = v]]
  BY <1>7
<1> QED BY <1>1, <1>2, <1>3, <1>4, <1>5, <1>6, <1>7

(* A step inside Enqueue ends past the linking of the node, or leaves the   *)
(* list as it is.                                                           *)
LEMMA EnqMoves ==
  ASSUME TypeOK, NEW p \in Procs, Enqueue(p)
  PROVE  /\ loc[p].at \in EnqLabels /\ loc'[p].at \in EnqLabels
         /\ \A r \in Procs : r # p => loc'[r] = loc[r]
         /\ \/ loc'[p].at \in {"e_swing", "e_count", "e_ret"}
            \/ loc[p].at \in Unlinked /\ UNCHANGED <<head, chain>>
<1> DEFINE Moved == \A r \in Procs : r # p => loc'[r] = loc[r]
<1>1. CASE EnqTail(p) \/ EnqNext(p)
  <2>1. \E l \in {"e_next", "e_check"} : loc'[p].at = l /\ Moved
    BY <1>1, Moves DEF EnqTail, EnqNext
  <2> QED BY <1>1, <2>1 DEF EnqTail, EnqNext, EnqLabels, Unlinked, Heap, At
<1>2. CASE EnqCheck(p)
  <2>1. \E l \in {"e_tail", "e_link", "e_help"} : Retry(p, l) \/ Goto(p, l)
    BY <1>2 DEF EnqCheck
  <2>2. \E l \in {"e_tail", "e_link", "e_help"} : loc'[p].at = l /\ Moved
    BY <2>1, Moves
  <2> QED BY <1>2, <2>2 DEF EnqCheck, EnqLabels, Unlinked, Heap, At
<1>3. CASE EnqLink(p) /\ next[loc[p].t] = Nil
  <2>1. loc'[p].at = "e_swing" /\ Moved
    BY <1>3, Moves DEF EnqLink
  <2> QED BY <1>3, <2>1 DEF EnqLink, EnqLabels, At
<1>4. CASE EnqLink(p) /\ next[loc[p].t] # Nil
  <2>1. loc'[p].at = "e_tail" /\ Moved
    BY <1>4, Moves DEF EnqLink
  <2> QED BY <1>4, <2>1 DEF EnqLink, EnqLabels, Unlinked, At
<1>5. CASE EnqHelp(p)
  <2>1. loc'[p].at = "e_tail" /\ Moved
    BY <1>5, Moves DEF EnqHelp
  <2> QED BY <1>5, <2>1 DEF EnqHelp, EnqLabels, Unlinked, At
<1>6. CASE EnqSwing(p)
  <2>1. loc'[p].at = "e_count" /\ Moved
    BY <1>6, Moves DEF EnqSwing
  <2> QED BY <1>6, <2>1 DEF EnqSwing, EnqLabels, At
<1>7. CASE EnqCount(p)
  <2>1. loc'[p].at = "e_ret" /\ Moved
    BY <1>7, Moves DEF EnqCount
  <2> QED BY <1>7, <2>1 DEF EnqCount, EnqLabels, At
<1> QED BY <1>1, <1>2, <1>3, <1>4, <1>5, <1>6, <1>7 DEF Enqueue

LEMMA DeqMoves ==
  ASSUME TypeOK, NEW p \in Procs, Dequeue(p)
  PROVE  /\ loc[p].at \in DeqLabels /\ loc'[p].at \in DeqLabels
         /\ \A r \in Procs : r # p => loc'[r] = loc[r]
<1>1. loc[p].at \in DeqLabels
  BY DEF Dequeue, DeqHead, DeqTail, DeqNext, DeqCheck, DeqHelp, DeqCas, DeqCount, At, DeqLabels
<1>2. \E l \in DeqLabels : \E v :
        \/ Load(p, "h", v, l) \/ Load(p, "t", v, l) \/ Load(p, "x", v, l)
        \/ Goto(p, l) \/ Retry(p, l) \/ Answer(p, l, v)
  BY DEF Dequeue, DeqHead, DeqTail, DeqNext, DeqCheck, DeqHelp, DeqCas, DeqCount, DeqLabels
<1> QED BY <1>1, <1>2, Moves

(* One step of an Enqueue: linking is Put, everything else is invisible.    *)
LEMMA EnqueueImplements ==
  ASSUME Inv, Inv', NEW p \in Procs, Enqueue(p)
  PROVE  Fifo!Put \/ UNCHANGED <<Held, Froms, Says>>
<1>0. TypeOK
  BY DEF Inv
<1>1. CASE At(p, "e_link") /\ next[loc[p].t] = Nil
  <2>0. PICK s, n, t : s = Q(p) /\ n = loc[p].n /\ t = loc[p].t
    OBVIOUS
  <2>1. EnqLink(p)
    BY <1>1 DEF Enqueue, EnqTail, EnqNext, EnqCheck, EnqHelp, EnqSwing, EnqCount, At
  <2>2. /\ Goto(p, "e_swing") /\ next' = [next EXCEPT ![t] = n]
        /\ chain' = [chain EXCEPT ![s] = Append(@, n)] /\ UNCHANGED <<head, tail, length, used>>
    BY <1>1, <2>0, <2>1 DEF EnqLink
  <2>3. s \in Queues /\ n \in Nodes
    BY <1>1, <2>0 DEF Inv, RegInv, EnqInv, TypeOK, Unlinked, At, Nodes
  <2>4. \A q \in Queues : Place(q, head[q])' = Place(q, head[q])
    BY <1>1, <2>0, <2>2, LinkList
  <2>5. Held' = [Held EXCEPT ![s] = Append(@, n)]
    BY <2>2, <2>3, <2>4, LinkPuts
  <2>6. Become(p, "e_swing", s, n, loc[p].h, t, loc[p].x)
    BY <1>0, <2>0, <2>2, <2>3, LoadSets DEF EnqLabels
  <2>7. UNCHANGED <<Froms, Says>>
    BY <1>1, <2>6, SaysSets DEF Become, From, AnswerOf, DeqLabels, At, Q
  <2> QED BY <2>3, <2>5, <2>7 DEF Fifo!Put, Held, Froms, Says, From
<1>2. CASE ~(At(p, "e_link") /\ next[loc[p].t] = Nil)
  <2>1. UNCHANGED <<head, chain>>
    BY <1>2 DEF Enqueue, EnqTail, EnqNext, EnqCheck, EnqLink, EnqHelp, EnqSwing, EnqCount, Heap, At
  <2>2. loc[p].at \notin DeqLabels /\ loc'[p].at \notin DeqLabels
        /\ \A r \in Procs : r # p => loc'[r] = loc[r]
    BY <1>0, EnqMoves DEF EnqLabels, DeqLabels
  <2>3. From(p)' = From(p) /\ AnswerOf(p)' = AnswerOf(p)
    BY <2>2 DEF From, AnswerOf, At, DeqLabels
  <2> QED BY <2>1, <2>2, <2>3, Silent
<1> QED BY <1>1, <1>2

(* Dequeue sees the queue empty when it finds nil behind head.              *)
LEMMA NilMeansEmpty ==
  ASSUME Inv, NEW q \in Queues, NEW h, UpTo(q, h, head[q]), next[h] = Nil
  PROVE  Contents(q) = << >>
<1>1. Place(q, h) = Len(chain[q]) /\ Place(q, h) <= Place(q, head[q])
  BY NextOf DEF Inv, UpTo
<1>2. Len(Contents(q)) = 0 /\ Contents(q) \in Seq(Nodes)
  BY <1>1, ContentsLen
<1> QED BY <1>2, EmptySeq

LEMMA DequeueImplements ==
  ASSUME Inv, NEW p \in Procs, Dequeue(p)
  PROVE  \/ Fifo!Get(p) \/ Fifo!See(p) \/ Fifo!Again(p) \/ Fifo!GetNone(p)
         \/ UNCHANGED <<Held, Froms, Says>>
<1>0. PICK s, h, t, x : s = Q(p) /\ h = loc[p].h /\ t = loc[p].t /\ x = loc[p].x
  OBVIOUS
<1>1. /\ s \in Queues /\ s # Nil /\ s \in Nodes /\ loc[p].n \in Nodes \cup {Nil} /\ TypeOK
      /\ tail[s] \in Nodes /\ head[s] \in Nodes /\ x \in Nodes \cup {Nil}
      /\ loc[p].at \in DeqLabels
  <2>1. loc[p].at \in DeqLabels
    BY DEF Dequeue, DeqHead, DeqTail, DeqNext, DeqCheck, DeqHelp, DeqCas, DeqCount, At, DeqLabels
  <2>2. s \in Queues /\ loc[p].n \in Nodes \cup {Nil} /\ TypeOK /\ x \in Nodes \cup {Nil}
    BY <1>0, <2>1 DEF Inv, RegInv, At, DeqLabels, TypeOK, Registers
  <2> QED BY <2>1, <2>2, NodeAssumption DEF TypeOK, Nodes
<1>2. ASSUME NEW l \in DeqLabels, NEW n, NEW a, NEW b, NEW c, Become(p, l, s, n, a, b, c),
             UNCHANGED <<head, chain>>, AnswerOf(p)' = AnswerOf(p)
      PROVE  UNCHANGED <<Held, Froms, Says>>
  BY <1>0, <1>1, <1>2, Silent DEF Become, From, Q
<1>3. CASE DeqHead(p)
  <2>1. Become(p, "d_tail", s, loc[p].n, head[s], t, x)
    BY <1>0, <1>1, <1>3, LoadSets DEF DeqHead, DeqLabels
  <2>2. AnswerOf(p)' = AnswerOf(p) /\ UNCHANGED <<head, chain>>
    BY <1>3, <2>1 DEF Become, DeqHead, AnswerOf, Heap, At
  <2> QED BY <1>2, <2>1, <2>2 DEF DeqLabels
<1>4. CASE DeqTail(p)
  <2>1. Become(p, "d_next", s, loc[p].n, h, tail[s], x)
    BY <1>0, <1>1, <1>4, LoadSets DEF DeqTail, DeqLabels
  <2>2. AnswerOf(p)' = AnswerOf(p) /\ UNCHANGED <<head, chain>>
    BY <1>4, <2>1 DEF Become, DeqTail, AnswerOf, Heap, At
  <2> QED BY <1>2, <2>1, <2>2 DEF DeqLabels
<1>5. CASE DeqNext(p)
  <2>0. UpTo(s, h, head[s]) /\ next[h] \in Nodes \cup {Nil}
    BY <1>0, <1>1, <1>5, Places DEF Inv, ListInv, RegInv, DeqInv, DeqNext, At, TypeOK, Nodes, UpTo, Placed
  <2>1. Become(p, "d_check", s, loc[p].n, h, t, next[h])
    BY <1>0, <1>1, <1>5, <2>0, LoadSets DEF DeqNext, DeqLabels
  <2>2. UNCHANGED <<head, chain>> /\ AnswerOf(p) = "busy" /\ From(p) = s /\ From(p)' = s
    BY <1>0, <1>1, <1>5, <2>1 DEF Become, DeqNext, AnswerOf, Heap, At, From, Q, DeqLabels
  <2>3. CASE next[h] = Nil
    <3>1. Contents(s) = << >> /\ AnswerOf(p)' = "empty"
      BY <1>1, <2>0, <2>1, <2>3, NilMeansEmpty DEF Become, AnswerOf, At
    <3>2. /\ Froms' = Froms /\ Froms[p] = s /\ Says[p] = "busy" /\ Held' = Held
          /\ Says' = [Says EXCEPT ![p] = "empty"] /\ Held[s] = << >>
      BY <1>1, <2>1, <2>2, <3>1, SaysSets, SameContents DEF Become, Held
    <3> QED BY <1>1, <3>2 DEF Fifo!See, Fifo!Set, Held, Froms, Says, From
  <2>4. CASE next[h] # Nil
    <3>1. AnswerOf(p)' = "busy"
      BY <2>1, <2>4 DEF Become, AnswerOf, At
    <3> QED BY <1>2, <2>1, <2>2, <3>1 DEF DeqLabels
  <2> QED BY <2>3, <2>4
<1>6. CASE DeqCheck(p)
  <2>1. UNCHANGED <<head, chain>> /\ At(p, "d_check") /\ From(p) = s
    BY <1>0, <1>1, <1>6 DEF DeqCheck, Heap, From
  <2>2. CASE head[s] # h
    <3>1. Become(p, "d_head", s, loc[p].n, Nil, Nil, Nil)
      BY <1>0, <1>1, <1>6, <2>2, RetrySets DEF DeqCheck, DeqLabels
    <3>2. AnswerOf(p)' = "busy" /\ From(p)' = s
      BY <3>1 DEF Become, AnswerOf, At, From, Q, DeqLabels
    <3>3. CASE x = Nil
      <4>1. AnswerOf(p) = "empty"
        BY <1>0, <2>1, <3>3 DEF AnswerOf, At
      <4>2. Says[p] = "empty" /\ Says' = [Says EXCEPT ![p] = "busy"] /\ Froms' = Froms /\ Held' = Held
        BY <2>1, <3>1, <3>2, <4>1, SaysSets, SameContents DEF Become, Held
      <4> QED BY <4>2 DEF Fifo!Again, Fifo!Set, Held, Froms, Says, From
    <3>4. CASE x # Nil
      <4>1. AnswerOf(p) = "busy"
        BY <1>0, <2>1, <3>4 DEF AnswerOf, At
      <4> QED BY <1>2, <2>1, <3>1, <3>2, <4>1 DEF DeqLabels
    <3> QED BY <3>3, <3>4
  <2>3. CASE head[s] = h /\ x = Nil
    <3>1. h = t
      BY <1>0, <2>1, <2>3 DEF Inv, RegInv, DeqInv
    <3>2. Become(p, "d_ret", s, Nil, Nil, Nil, Nil)
      BY <1>0, <1>1, <1>6, <2>3, <3>1, RetrySets DEF DeqCheck, DeqLabels
    <3>3. AnswerOf(p)' = Nil /\ From(p)' = s /\ AnswerOf(p) = "empty"
      BY <1>0, <2>1, <2>3, <3>2 DEF Become, AnswerOf, At, From, Q, DeqLabels
    <3>4. Says[p] = "empty" /\ Says' = [Says EXCEPT ![p] = Nil] /\ Froms' = Froms /\ Held' = Held
      BY <2>1, <3>2, <3>3, SaysSets, SameContents DEF Become, Held
    <3> QED BY <3>4 DEF Fifo!GetNone, Fifo!Set, Held, Froms, Says, From
  <2>4. CASE head[s] = h /\ x # Nil
    <3> DEFINE l == IF h = t THEN "d_help" ELSE "d_cas"
    <3>1. Goto(p, l) /\ l \in DeqLabels
      BY <1>0, <1>6, <2>4 DEF DeqCheck, DeqLabels
    <3>2. Become(p, l, s, loc[p].n, h, t, x)
      BY <1>0, <1>1, <3>1, LoadSets
    <3>3. AnswerOf(p)' = AnswerOf(p)
      BY <1>0, <2>1, <2>4, <3>2 DEF Become, AnswerOf, At
    <3> QED BY <1>2, <2>1, <3>1, <3>2, <3>3
  <2> QED BY <2>2, <2>3, <2>4
<1>7. CASE DeqHelp(p)
  <2>1. Become(p, "d_head", s, loc[p].n, Nil, Nil, Nil)
    BY <1>0, <1>1, <1>7, RetrySets DEF DeqHelp, DeqLabels
  <2>2. AnswerOf(p)' = AnswerOf(p) /\ UNCHANGED <<head, chain>>
    BY <1>7, <2>1 DEF Become, DeqHelp, AnswerOf, At
  <2> QED BY <1>2, <2>1, <2>2 DEF DeqLabels
<1>8. CASE DeqCas(p)
  <2>1. At(p, "d_cas") /\ AnswerOf(p) = "busy" /\ From(p) = s
    BY <1>0, <1>1, <1>8 DEF DeqCas, AnswerOf, At, From
  <2>2. CASE head[s] # h
    <3>1. Become(p, "d_head", s, loc[p].n, Nil, Nil, Nil) /\ UNCHANGED <<head, chain>>
      BY <1>0, <1>1, <1>8, <2>2, RetrySets DEF DeqCas, DeqLabels
    <3>2. AnswerOf(p)' = AnswerOf(p)
      BY <2>1, <3>1 DEF Become, AnswerOf, At
    <3> QED BY <1>2, <3>1, <3>2 DEF DeqLabels
  <2>3. CASE head[s] = h
    <3>1. /\ Answer(p, "d_count", x) /\ head' = [head EXCEPT ![s] = x]
          /\ UNCHANGED <<tail, next, used, chain>>
      BY <1>0, <1>8, <2>3 DEF DeqCas
    <3>2. Become(p, "d_count", s, x, Nil, Nil, Nil) /\ chain' = chain
      BY <1>0, <1>1, <3>1, RetrySets DEF DeqLabels
    <3>3. \A q \in Queues : Place(q, head[q])' = IF q = s THEN Place(q, head[q]) + 1
                                                 ELSE Place(q, head[q])
      BY <1>0, <2>1, <2>3, <3>1, CasList
    <3>4. Follows(s, head[s], x)
      BY <1>0, <2>1, <2>3 DEF Inv, RegInv, DeqInv
    <3>5. Held[s] # << >> /\ Head(Held[s]) = x /\ Held' = [Held EXCEPT ![s] = Tail(@)]
      BY <1>1, <3>2, <3>3, <3>4, CasGets
    <3>6. AnswerOf(p)' = x /\ From(p)' = s
      BY <3>2 DEF Become, AnswerOf, At, From, Q, DeqLabels
    <3>7. Says[p] = "busy" /\ Says' = [Says EXCEPT ![p] = x] /\ Froms' = Froms /\ Froms[p] = s
      BY <2>1, <3>2, <3>6, SaysSets DEF Become
    <3> QED BY <1>1, <3>5, <3>7 DEF Fifo!Get, Fifo!Set, Held, Froms, Says, From
  <2> QED BY <2>2, <2>3
<1>9. CASE DeqCount(p)
  <2>1. Become(p, "d_ret", s, loc[p].n, h, t, x)
    BY <1>0, <1>1, <1>9, LoadSets DEF DeqCount, DeqLabels
  <2>2. AnswerOf(p)' = AnswerOf(p) /\ UNCHANGED <<head, chain>>
    BY <1>9, <2>1 DEF Become, DeqCount, AnswerOf, At
  <2> QED BY <1>2, <2>1, <2>2 DEF DeqLabels
<1> QED BY <1>3, <1>4, <1>5, <1>6, <1>7, <1>8, <1>9 DEF Dequeue

(* A call announces the Dequeue, a return delivers its answer.              *)
LEMMA CallsImplement ==
  ASSUME Inv, NEW p \in Procs,
         \/ \E q \in Queues : CallDequeue(p, q) \/ \E t \in Tasks : CallEnqueue(p, q, t)
         \/ Leave(p)
  PROVE  Fifo!Call(p) \/ Fifo!Return(p) \/ UNCHANGED <<Held, Froms, Says>>
<1>0. TypeOK
  BY DEF Inv
<1>1. ASSUME NEW q \in Queues, NEW t \in Tasks, CallEnqueue(p, q, t)
      PROVE  UNCHANGED <<Held, Froms, Says>>
  <2>1. Become(p, "e_tail", q, t, Nil, Nil, Nil) /\ At(p, "idle") /\ UNCHANGED <<head, chain>>
    BY <1>0, <1>1, CallSets DEF CallEnqueue, EnqLabels, Nodes
  <2>2. From(p)' = From(p) /\ AnswerOf(p)' = AnswerOf(p)
    BY <2>1 DEF Become, From, AnswerOf, At, DeqLabels
  <2> QED BY <2>1, <2>2, Silent DEF Become
<1>2. ASSUME NEW q \in Queues, CallDequeue(p, q) PROVE Fifo!Call(p)
  <2>1. Become(p, "d_head", q, Nil, Nil, Nil, Nil) /\ At(p, "idle") /\ UNCHANGED <<head, chain>>
    BY <1>0, <1>2, CallSets DEF CallDequeue, DeqLabels, Nodes, Heap
  <2>2. From(p) = Nil /\ From(p)' = q /\ AnswerOf(p)' = AnswerOf(p)
    BY <2>1 DEF Become, From, AnswerOf, At, Q, DeqLabels
  <2>3. Froms[p] = Nil /\ Froms' = [Froms EXCEPT ![p] = q] /\ Says' = Says /\ Held' = Held
    BY <2>1, <2>2, SaysSets, SameContents DEF Become, Held
  <2> QED BY <2>3 DEF Fifo!Call, Held, Froms, Says, From
<1>3. ASSUME Leave(p) PROVE Fifo!Return(p) \/ UNCHANGED <<Held, Froms, Says>>
  <2>0. Q(p) \in Queues /\ Q(p) \in Nodes /\ loc[p].n \in Nodes \cup {Nil}
    BY <1>3 DEF Inv, RegInv, Leave, At, TypeOK, Registers, Nodes
  <2>1. Become(p, "idle", Nil, Nil, Nil, Nil, Nil) /\ UNCHANGED <<head, chain>>
    BY <1>0, <1>3, <2>0, CallSets DEF Leave, DeqLabels, Heap
  <2>2. From(p)' = Nil /\ AnswerOf(p)' = "busy"
    BY <2>1 DEF Become, From, AnswerOf, At, DeqLabels
  <2>3. CASE At(p, "e_ret")
    <3>1. From(p) = Nil /\ AnswerOf(p) = "busy"
      BY <2>3 DEF From, AnswerOf, At, DeqLabels
    <3> QED BY <2>1, <2>2, <3>1, Silent DEF Become
  <2>4. CASE At(p, "d_ret")
    <3>1. AnswerOf(p) \notin {"busy", "empty"}
      BY <2>0, <2>4, MarkAssumption DEF AnswerOf, At
    <3>2. /\ Says[p] \notin {"busy", "empty"} /\ Says' = [Says EXCEPT ![p] = "busy"]
          /\ Froms' = [Froms EXCEPT ![p] = Nil] /\ Held' = Held
      BY <2>1, <2>2, <3>1, SaysSets, SameContents DEF Become, Held
    <3> QED BY <3>2 DEF Fifo!Return, Fifo!Set, Held, Froms, Says, From
  <2> QED BY <1>3, <2>3, <2>4 DEF Leave, At
<1> QED BY <1>1, <1>2, <1>3

(* The queues behave like first-in first-out queues with atomic operations: *)
(* Enqueue takes effect when it links its node, Dequeue when it moves head  *)
(* or, if it answers nothing, when it finds nil behind head.                *)
THEOREM QueuesAreFifo == QueueSpec => Linearizable
<1>1. QueueInit => Fifo!FifoInit
  <2> SUFFICES ASSUME QueueInit PROVE Fifo!FifoInit
    OBVIOUS
  <2>1. \A q \in Queues : Contents(q) = << >>
    <3>1. Inv /\ \A q \in Queues : head[q] = q /\ Len(chain[q]) = 1 /\ Place(q, q) = 1
      BY InitInv DEF QueueInit, Place
    <3>2. \A q \in Queues : Contents(q) \in Seq(Nodes) /\ Len(Contents(q)) = 0
      BY <3>1, ContentsLen
    <3> QED BY <3>2, EmptySeq
  <2>2. \A p \in Procs : From(p) = Nil /\ AnswerOf(p) = "busy"
    BY DEF QueueInit, Outside, From, AnswerOf, At, DeqLabels
  <2> QED BY <2>1, <2>2 DEF Fifo!FifoInit, From
<1>2. Inv /\ Inv' /\ [QueueNext]_qvars => [Fifo!FifoNext]_(Fifo!fqvars)
  <2> SUFFICES ASSUME Inv, Inv', [QueueNext]_qvars PROVE [Fifo!FifoNext]_(Fifo!fqvars)
    OBVIOUS
  <2>1. UNCHANGED <<Held, Froms, Says>> => UNCHANGED Fifo!fqvars
    BY DEF Fifo!fqvars, Held, Froms, Says, From
  <2>2. CASE UNCHANGED qvars
    <3>1. \A q : Contents(q)' = Contents(q)
      BY <2>2, SameContents DEF qvars
    <3>2. UNCHANGED <<Held, Froms, Says>>
      BY <2>2, <3>1 DEF Held, Froms, Says, From, AnswerOf, At, Q, qvars
    <3> QED BY <2>1, <3>2
  <2>3. CASE QueueNext
    BY <2>1, <2>3, EnqueueImplements, DequeueImplements, CallsImplement DEF QueueNext, Fifo!FifoNext
  <2> QED BY <2>2, <2>3
<1> QED BY <1>1, <1>2, Invariance, PTL DEF QueueSpec, Linearizable, Fifo!FifoSpec
=============================================================================

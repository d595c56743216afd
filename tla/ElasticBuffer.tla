---------------------------- MODULE ElasticBuffer -----------------------------
(***************************************************************************)
(* elastic.Buffer: a ring for the first maxStaticBytes bytes and a list    *)
(* for what comes behind them, as functions of mb = [ring, list].          *)
(***************************************************************************)
EXTENDS Integers, Sequences

CONSTANTS MaxStatic, Nil, DefaultBufferSize, GrowThreshold, MinRead, Junk, WordBits

Elastic == INSTANCE ElasticRing
List    == INSTANCE LinkedList

New         == [ring |-> Nil, list |-> << >>]
Buffered(mb) == Elastic!Buffered(mb.ring) + List!Buffered(mb.list)
IsEmpty(mb)  == Elastic!IsEmpty(mb.ring) /\ List!IsEmpty(mb.list)
Content(mb)  == Elastic!Bytes(mb.ring) \o List!Content(mb.list)

\* Bytes go to the list from now on.
ToList(mb) == ~List!IsEmpty(mb.list) \/ Elastic!Buffered(mb.ring) >= MaxStatic

\* p[:n] to the ring, the rest to the list.
Split(mb, p, n, pooled) == [ring |-> Elastic!Write(mb.ring, SubSeq(p, 1, n), pooled),
                            list |-> List!PushBack(mb.list, SubSeq(p, n + 1, Len(p)))]

Write(mb, p, pooled) ==
  LET writable == Elastic!Available(mb.ring) IN
  CASE ToList(mb)                                                -> Split(mb, p, 0, pooled)
    [] ~ToList(mb) /\ Elastic!Len0(mb.ring) >= MaxStatic /\ Len(p) > writable
                                                                 -> Split(mb, p, writable, pooled)
    [] OTHER                                                     -> Split(mb, p, Len(p), pooled)

\* One slice of Writev: to the ring up to the room that is left; the first that does
\* not fit is split, and everything behind it goes to the list.
Put(a, b, pooled) ==
  LET n == IF a.split THEN 0 ELSE IF Len(b) > a.room THEN a.room ELSE Len(b) IN
  [mb |-> Split(a.mb, b, n, pooled), room |-> a.room - n, split |-> a.split \/ Len(b) > a.room]

PutAll(mb, bs, room, pooled) ==
  LET after[i \in 0..Len(bs)] == IF i = 0 THEN [mb |-> mb, room |-> room, split |-> ToList(mb)]
                                 ELSE Put(after[i - 1], bs[i], pooled)
  IN  after[Len(bs)].mb

\* Mutant: the room is what the ring has, not what the limit leaves.
WritevByRing(mb, bs, pooled) == PutAll(mb, bs, Elastic!Available(mb.ring), pooled)

Writev(mb, bs, pooled) ==
  PutAll(mb, bs, IF Elastic!Len0(mb.ring) < MaxStatic THEN MaxStatic - Elastic!Buffered(mb.ring)
                 ELSE Elastic!Available(mb.ring), pooled)

Taken(mb, n) == LET t == Elastic!Taken(mb.ring, n) IN t \o List!Taken(mb.list, n - Len(t))
Read(mb, n)  == [ring |-> Elastic!Read(mb.ring, n),
                 list |-> List!Read(mb.list, n - Len(Elastic!Taken(mb.ring, n)))]

Discard(mb, n) ==
  LET d == IF n < Elastic!Buffered(mb.ring) THEN n ELSE Elastic!Buffered(mb.ring) IN
  [ring |-> Elastic!Discard(mb.ring, n), list |-> List!Discard(mb.list, n - d)]

\* Slices with n bytes or more, if there are as many; all of them for n <= 0.
Peek(mb, n) ==
  LET p == Elastic!Peek(mb.ring, n) IN
  IF n > 0 /\ Elastic!Buffered(mb.ring) >= n THEN p
  ELSE List!PeekWithBytes(mb.list, n, p[1], p[2])

\* Where ReadFrom reads to.
ReadsToList(mb) == ToList(mb)

\* To a writer that takes k bytes in all: the list's turn comes only when the ring
\* was emptied without an error, an empty ring being one.
WriteTo(mb, k, err) ==
  LET inRing == Elastic!Buffered(mb.ring) IN
  CASE Elastic!IsEmpty(mb.ring)                       -> mb
    [] ~Elastic!IsEmpty(mb.ring) /\ k < inRing        -> [mb EXCEPT !.ring = Elastic!WriteTo(@, k)]
    [] OTHER -> [ring |-> Elastic!WriteTo(mb.ring, inRing),
                 list |-> List!WriteTo(mb.list, k - inRing, err)]

Reset(mb)   == [ring |-> Elastic!Reset(mb.ring), list |-> << >>]
Release(mb) == New
=============================================================================

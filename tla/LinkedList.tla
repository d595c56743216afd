------------------------------ MODULE LinkedList ------------------------------
(***************************************************************************)
(* pkg/buffer/linkedlist: the list of byte slices, as a sequence of byte   *)
(* sequences.  head, tail, size and bytes are the two ends, Len and the    *)
(* sum of the lengths of that sequence.                                    *)
(***************************************************************************)
EXTENDS Integers, Sequences, SequencesExt

IsEmpty(l)  == l = << >>
Content(l)  == FlattenSeq(l)
Buffered(l) == Len(Content(l))

PushBack(l, p) == IF p = << >> THEN l ELSE Append(l, p)

\* Nodes are popped until n bytes are gone; one that is used in part only goes back
\* to the front.
Pop(a, b) == IF a.left > 0 /\ a.left >= Len(b) THEN [left |-> a.left - Len(b), rest |-> a.rest]
             ELSE [left |-> 0, rest |-> Append(a.rest, SubSeq(b, a.left + 1, Len(b)))]
Discard(l, n) ==
  LET after[i \in 0..Len(l)] == IF i = 0 THEN [left |-> n, rest |-> << >>] ELSE Pop(after[i - 1], l[i])
  IN  IF n <= 0 THEN l ELSE after[Len(l)].rest

\* Read into a slice of n bytes: what it got; the list behind it is Discard's.
Taken(l, n) == SubSeq(Content(l), 1, IF n < Buffered(l) THEN n ELSE Buffered(l))
Read(l, n)  == Discard(l, n)

\* The first nodes that hold maxBytes bytes, behind the slices b1 and b2 that are not
\* empty; all for maxBytes <= 0.
PeekWithBytes(l, maxBytes, b1, b2) ==
  LET nodes  == PushBack(PushBack(<< >>, b1), b2) \o l
      enough == {k \in 1..Len(nodes) : maxBytes > 0 /\ Buffered(SubSeq(nodes, 1, k)) >= maxBytes}
  IN  IF enough = {} THEN nodes ELSE SubSeq(nodes, 1, Min(enough))
Peek(l, maxBytes) == PeekWithBytes(l, maxBytes, << >>, << >>)

\* One r.Read of ReadFrom: with an error, end of file included, its bytes are dropped.
ReadFrom(l, data, err) == IF err THEN l ELSE Append(l, data)

\* WriteTo a writer that takes k bytes in all: stopped by an error the node in its
\* hands is lost, stopped short the rest of the node goes back.
WriteTo(l, k, err) == LET rest == Discard(l, k) IN IF err /\ rest # << >> THEN Tail(rest) ELSE rest
=============================================================================

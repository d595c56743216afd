------------------------------- MODULE ByteQueue ------------------------------
(***************************************************************************)
(* What a buffer promises: a queue of bytes, whatever holds them.  The     *)
(* bytes put in are numbered (modulo Numbers), so a byte that is lost,     *)
(* doubled, moved or made up shows.                                        *)
(***************************************************************************)
EXTENDS Integers, Sequences

CONSTANTS Numbers, HeadLen, BodyLen

VARIABLES
  content,   \* the bytes in the queue
  next,      \* the number of the next byte that is put in
  call       \* the last call: [op, n, ret], n as asked for, ret the bytes returned

Least(a, b) == IF a < b THEN a ELSE b
OrAll(n)    == IF n <= 0 THEN Len(content) ELSE n
Front(n)    == SubSeq(content, 1, Least(n, Len(content)))
Drop(n)     == content' = SubSeq(content, n + 1, Len(content))
Returns(op, ret) == call'.op = op /\ call'.ret = ret

Put == /\ call'.op = "put" /\ call'.n \in 0..Numbers
       /\ content' = content \o [i \in 1..call'.n |-> (next + i - 1) % Numbers]
       /\ next' = (next + call'.n) % Numbers

\* Read, WriteTo: as many as there are.
Take == /\ \E op \in {"take", "write", "writefail"} : Returns(op, Front(call'.n))
        /\ Drop(call'.n) /\ UNCHANGED next

\* Next, Peek, Discard of a connection: exactly n, or all of them for n <= 0.
TakeExactly ==
  /\ Returns("next", IF call'.n > Len(content) THEN << >> ELSE Front(OrAll(call'.n)))
  /\ Drop(Len(call'.ret)) /\ UNCHANGED next
LookExactly ==
  /\ Returns("look", IF call'.n > Len(content) THEN << >> ELSE Front(OrAll(call'.n)))
  /\ UNCHANGED <<content, next>>
Skip ==
  /\ call'.op = "skip" /\ UNCHANGED next
  /\ Drop(IF call'.n > Len(content) THEN Len(content) ELSE OrAll(call'.n))

\* Peek of an elastic.Buffer: whole slices, so n bytes or more; Discard: n or fewer.
Look ==
  /\ Returns("peek", SubSeq(content, 1, Len(call'.ret))) /\ UNCHANGED <<content, next>>
  /\ Len(call'.ret) \in Least(OrAll(call'.n), Len(content))..Len(content)
Discard == call'.op = "discard" /\ Drop(IF call'.n > 0 THEN call'.n ELSE 0) /\ UNCHANGED next

\* A message that has arrived whole is handed over, exactly its bytes.
Decode ==
  LET n == IF Len(content) < HeadLen THEN HeadLen ELSE HeadLen + BodyLen[content[1]] IN
  /\ Returns("decode", IF Len(content) < n THEN << >> ELSE Front(n))
  /\ Drop(Len(call'.ret)) /\ UNCHANGED next

Clear == call'.op = "clear" /\ content' = << >> /\ UNCHANGED next

\* Rewind, a growth: nothing a reader could see.
Internal == call'.op = "internal" /\ UNCHANGED <<content, next>>

Next == Put \/ Take \/ TakeExactly \/ LookExactly \/ Skip \/ Look \/ Discard
        \/ Decode \/ Clear \/ Internal
=============================================================================

----------------------------- MODULE ElasticRing ------------------------------
(***************************************************************************)
(* elastic.RingBuffer: a ring taken from the pool when the first byte      *)
(* comes and given back when the last one is gone; Nil in between.         *)
(***************************************************************************)
EXTENDS Integers, Sequences

CONSTANTS Nil, DefaultBufferSize, GrowThreshold, MinRead, Junk, WordBits

Ring == INSTANCE RingBuffer

instance(b, pooled) == IF b = Nil THEN pooled ELSE b

done(b) == IF b # Nil /\ b.empty THEN Nil ELSE b

Len0(b)      == IF b = Nil THEN 0 ELSE Ring!Size(b)
Buffered(b)  == IF b = Nil THEN 0 ELSE Ring!Buffered(b)
Available(b) == IF b = Nil THEN 0 ELSE Ring!Available(b)
IsEmpty(b)   == IF b = Nil THEN TRUE ELSE b.empty
IsFull(b)    == IF b = Nil THEN FALSE ELSE Ring!IsFull(b)
Bytes(b)     == IF b = Nil THEN << >> ELSE Ring!Bytes(b)

Peek(b, n)    == IF b = Nil THEN <<<< >>, << >>>> ELSE Ring!Peek(b, n)
Discard(b, n) == IF b = Nil THEN Nil ELSE done(Ring!Discard(b, n))
Taken(b, n)   == IF b = Nil THEN << >> ELSE Ring!Taken(b, n)
Read(b, n)    == IF b = Nil THEN Nil ELSE done(Ring!Read(b, n))
WriteTo(b, k) == IF b = Nil THEN Nil ELSE done(Ring!WriteTo(b, k))
Reset(b)      == IF b = Nil THEN Nil ELSE Ring!Reset(b)

Write(b, p, pooled)     == IF p = << >> THEN b ELSE Ring!Write(instance(b, pooled), p)
WriteByte(b, c, pooled) == Ring!WriteByte(instance(b, pooled), c)
=============================================================================

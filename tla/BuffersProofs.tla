---------------------------- MODULE BuffersProofs -----------------------------
(***************************************************************************)
(* A buffer is a byte queue: proofs of RingShape, ActsAsQueue and          *)
(* StaticLimit for every sequence of calls, every number of bytes and      *)
(* every size of the rings the pool gives out.                             *)
(*                                                                         *)
(* What one call of the ring or of the list does is proved in RingProofs   *)
(* and ListProofs.  Buffers reaches those operations through several       *)
(* instances of the same modules, so the proofs begin with what makes them *)
(* one: an operation is the same in every instance.                        *)
(***************************************************************************)
EXTENDS Buffers, SequenceTheorems, TLAPS

RP == INSTANCE RingProofs
LP == INSTANCE ListProofs

(* The ring's operations as Buffers uses them are those of RingProofs. *)
LEMMA RingIsRP ==
  /\ \A x : Ring!CeilToPowerOfTwo(x) = RP!CeilToPowerOfTwo(x)
  /\ \A b : Ring!Size(b) = RP!Size(b)
  /\ \A x : Ring!Get(x) = RP!Get(x)
  /\ \A b : Ring!Available(b) = RP!Available(b)
  /\ \A b : Ring!WriteBytePanics(b) = RP!WriteBytePanics(b)
  /\ \A b : Ring!ReadFromRoom(b) = RP!ReadFromRoom(b)
  /\ \A b : Ring!FirstRoom(b) = RP!FirstRoom(b)
  /\ \A b, x : Ring!FirstRead(b, x) = RP!FirstRead(b, x)
  /\ \A b, x : Ring!SecondRead(b, x) = RP!SecondRead(b, x)
  /\ \A b : Ring!SocketTarget(b) = RP!SocketTarget(b)
  /\ \A b, x : Ring!CopyFromSocket(b, x) = RP!CopyFromSocket(b, x)
  /\ \A b : Ring!RewindPanics(b) = RP!RewindPanics(b)
  /\ \A b : Ring!Rewind(b) = RP!Rewind(b)
<1>1. \A x : Ring!CeilToPowerOfTwo(x) = RP!CeilToPowerOfTwo(x)
  <2>1. \A y : Ring!BitsOf(y) = RP!BitsOf(y) BY DEF Ring!BitsOf, RP!BitsOf
  <2>2. \A y, z : Ring!ShiftRight(y, z) = RP!ShiftRight(y, z) BY DEF Ring!ShiftRight, RP!ShiftRight
  <2>3. \A y : Ring!Smear(y) = RP!Smear(y) BY <2>2 DEF Ring!Smear, RP!Smear
  <2>4. \A y : Ring!Decrement(y) = RP!Decrement(y)
    BY DEF Ring!Decrement, Ring!Min, RP!Decrement, RP!Min
  <2>5. \A y : Ring!Increment(y) = RP!Increment(y)
    BY DEF
      Ring!Increment, Ring!Min, Ring!Cardinality, Ring!IsFiniteSet, RP!Increment, RP!Min,
      RP!Cardinality, RP!IsFiniteSet
  <2>6. \A y : Ring!CeilBits(y) = RP!CeilBits(y)
    BY <2>3, <2>4, <2>5 DEF Ring!CeilBits, RP!CeilBits
  <2>7. \A y : Ring!NatOf(y) = RP!NatOf(y)
    BY DEF
      Ring!NatOf, Ring!MapThenSumSet, Ring!MapThenFoldSet, RP!NatOf, RP!MapThenSumSet,
      RP!MapThenFoldSet
  <2> QED BY <2>1, <2>6, <2>7 DEF Ring!CeilToPowerOfTwo, RP!CeilToPowerOfTwo
<1>2. \A b : Ring!Size(b) = RP!Size(b)
  BY DEF Ring!Size, RP!Size
<1>3. \A x, y : Ring!Least(x, y) = RP!Least(x, y)
  BY DEF Ring!Least, RP!Least
<1>4. \A x, y, z : Ring!Slice(x, y, z) = RP!Slice(x, y, z)
  BY DEF Ring!Slice, RP!Slice
<1>5. \A x, y, z : Ring!Copy(x, y, z) = RP!Copy(x, y, z)
  BY DEF Ring!Copy, RP!Copy
<1>6. \A x : Ring!Get(x) = RP!Get(x)
  BY DEF Ring!Get, RP!Get
<1>7. \A b : Ring!Buffered(b) = RP!Buffered(b)
  BY <1>2 DEF Ring!Buffered, RP!Buffered
<1>8. \A b : Ring!Available(b) = RP!Available(b)
  BY <1>2 DEF Ring!Available, RP!Available
<1>9. \A b : Ring!IsFull(b) = RP!IsFull(b)
  BY DEF Ring!IsFull, RP!IsFull
<1>10. \A b : Ring!Reset(b) = RP!Reset(b)
  BY DEF Ring!Reset, RP!Reset
<1>11. \A x, y : Ring!QuarterSteps(x, y) = RP!QuarterSteps(x, y)
  BY DEF Ring!QuarterSteps, RP!QuarterSteps
<1>12. \A b, x : Ring!Peek(b, x) = RP!Peek(b, x)
  BY <1>7, <1>3, <1>2, <1>4 DEF Ring!Peek, RP!Peek
<1>13. \A b, x : Ring!Taken(b, x) = RP!Taken(b, x)
  BY <1>12 DEF Ring!Taken, RP!Taken
<1>14. \A x, y : Ring!GrownSize(x, y) = RP!GrownSize(x, y)
  BY <1>1, <1>11 DEF Ring!GrownSize, RP!GrownSize
<1>15. \A b, x : Ring!grow(b, x) = RP!grow(b, x)
  BY <1>14, <1>2, <1>5, <1>6, <1>13, <1>7 DEF Ring!grow, RP!grow
<1>16. \A b : Ring!WriteBytePanics(b) = RP!WriteBytePanics(b)
  BY <1>9, <1>2 DEF Ring!WriteBytePanics, RP!WriteBytePanics
<1>17. \A b : Ring!ReadFromRoom(b) = RP!ReadFromRoom(b)
  BY <1>8, <1>15, <1>7 DEF Ring!ReadFromRoom, RP!ReadFromRoom
<1>18. \A b : Ring!FirstRoom(b) = RP!FirstRoom(b)
  BY <1>2 DEF Ring!FirstRoom, RP!FirstRoom
<1>19. \A b, x : Ring!FirstRead(b, x) = RP!FirstRead(b, x)
  BY <1>5, <1>2 DEF Ring!FirstRead, RP!FirstRead
<1>20. \A b, x : Ring!SecondRead(b, x) = RP!SecondRead(b, x)
  BY <1>5, <1>2 DEF Ring!SecondRead, RP!SecondRead
<1>21. \A b : Ring!SocketTarget(b) = RP!SocketTarget(b)
  BY <1>9, <1>15, <1>2 DEF Ring!SocketTarget, RP!SocketTarget
<1>22. \A b, x : Ring!CopyFromSocket(b, x) = RP!CopyFromSocket(b, x)
  BY <1>21, <1>3, <1>2, <1>5, <1>4 DEF Ring!CopyFromSocket, RP!CopyFromSocket
<1>23. \A b : Ring!RewindPanics(b) = RP!RewindPanics(b)
  BY <1>2 DEF Ring!RewindPanics, RP!RewindPanics
<1>24. \A b : Ring!Rewind(b) = RP!Rewind(b)
  BY <1>2, <1>10, <1>15, <1>5, <1>4 DEF Ring!Rewind, RP!Rewind
<1> QED BY <1>1, <1>2, <1>6, <1>8, <1>16, <1>17, <1>18, <1>19, <1>20, <1>21, <1>22, <1>23, <1>24

(* So are those under the inbound buffer, ... *)
LEMMA InboundRingIsRP ==
  /\ \A b : Inbound!Ring!Size(b) = RP!Size(b)
  /\ \A b : Inbound!Ring!Buffered(b) = RP!Buffered(b)
  /\ \A b : Inbound!Ring!Available(b) = RP!Available(b)
  /\ \A b : Inbound!Ring!IsFull(b) = RP!IsFull(b)
  /\ \A b : Inbound!Ring!Reset(b) = RP!Reset(b)
  /\ \A b, x : Inbound!Ring!Peek(b, x) = RP!Peek(b, x)
  /\ \A b, x : Inbound!Ring!Discard(b, x) = RP!Discard(b, x)
  /\ \A b, x : Inbound!Ring!Taken(b, x) = RP!Taken(b, x)
  /\ \A b, x : Inbound!Ring!Read(b, x) = RP!Read(b, x)
  /\ \A b : Inbound!Ring!Bytes(b) = RP!Bytes(b)
  /\ \A b, x : Inbound!Ring!Write(b, x) = RP!Write(b, x)
  /\ \A b, x : Inbound!Ring!WriteByte(b, x) = RP!WriteByte(b, x)
  /\ \A b, x : Inbound!Ring!WriteTo(b, x) = RP!WriteTo(b, x)
<1>1. \A x : Inbound!Ring!CeilToPowerOfTwo(x) = RP!CeilToPowerOfTwo(x)
  <2>1. \A y : Inbound!Ring!BitsOf(y) = RP!BitsOf(y) BY DEF Inbound!Ring!BitsOf, RP!BitsOf
  <2>2. \A y, z : Inbound!Ring!ShiftRight(y, z) = RP!ShiftRight(y, z) BY DEF Inbound!Ring!ShiftRight, RP!ShiftRight
  <2>3. \A y : Inbound!Ring!Smear(y) = RP!Smear(y) BY <2>2 DEF Inbound!Ring!Smear, RP!Smear
  <2>4. \A y : Inbound!Ring!Decrement(y) = RP!Decrement(y)
    BY DEF Inbound!Ring!Decrement, Inbound!Ring!Min, RP!Decrement, RP!Min
  <2>5. \A y : Inbound!Ring!Increment(y) = RP!Increment(y)
    BY DEF
      Inbound!Ring!Increment, Inbound!Ring!Min, Inbound!Ring!Cardinality,
      Inbound!Ring!IsFiniteSet, RP!Increment, RP!Min, RP!Cardinality, RP!IsFiniteSet
  <2>6. \A y : Inbound!Ring!CeilBits(y) = RP!CeilBits(y)
    BY <2>3, <2>4, <2>5 DEF Inbound!Ring!CeilBits, RP!CeilBits
  <2>7. \A y : Inbound!Ring!NatOf(y) = RP!NatOf(y)
    BY DEF
      Inbound!Ring!NatOf, Inbound!Ring!MapThenSumSet, Inbound!Ring!MapThenFoldSet, RP!NatOf,
      RP!MapThenSumSet, RP!MapThenFoldSet
  <2> QED BY <2>1, <2>6, <2>7 DEF Inbound!Ring!CeilToPowerOfTwo, RP!CeilToPowerOfTwo
<1>2. \A b : Inbound!Ring!Size(b) = RP!Size(b)
  BY DEF Inbound!Ring!Size, RP!Size
<1>3. \A x, y : Inbound!Ring!Least(x, y) = RP!Least(x, y)
  BY DEF Inbound!Ring!Least, RP!Least
<1>4. \A x, y, z : Inbound!Ring!Slice(x, y, z) = RP!Slice(x, y, z)
  BY DEF Inbound!Ring!Slice, RP!Slice
<1>5. \A x, y, z : Inbound!Ring!Copy(x, y, z) = RP!Copy(x, y, z)
  BY DEF Inbound!Ring!Copy, RP!Copy
<1>6. \A x : Inbound!Ring!Get(x) = RP!Get(x)
  BY DEF Inbound!Ring!Get, RP!Get
<1>7. \A b : Inbound!Ring!Buffered(b) = RP!Buffered(b)
  BY <1>2 DEF Inbound!Ring!Buffered, RP!Buffered
<1>8. \A b : Inbound!Ring!Available(b) = RP!Available(b)
  BY <1>2 DEF Inbound!Ring!Available, RP!Available
<1>9. \A b : Inbound!Ring!IsFull(b) = RP!IsFull(b)
  BY DEF Inbound!Ring!IsFull, RP!IsFull
<1>10. \A b : Inbound!Ring!Reset(b) = RP!Reset(b)
  BY DEF Inbound!Ring!Reset, RP!Reset
<1>11. \A x, y : Inbound!Ring!QuarterSteps(x, y) = RP!QuarterSteps(x, y)
  BY DEF Inbound!Ring!QuarterSteps, RP!QuarterSteps
<1>12. \A b, x : Inbound!Ring!Peek(b, x) = RP!Peek(b, x)
  BY <1>7, <1>3, <1>2, <1>4 DEF Inbound!Ring!Peek, RP!Peek
<1>13. \A b, x : Inbound!Ring!Advance(b, x) = RP!Advance(b, x)
  BY <1>2, <1>10 DEF Inbound!Ring!Advance, RP!Advance
<1>14. \A b, x : Inbound!Ring!Discard(b, x) = RP!Discard(b, x)
  BY <1>7, <1>2, <1>10 DEF Inbound!Ring!Discard, RP!Discard
<1>15. \A b, x : Inbound!Ring!Taken(b, x) = RP!Taken(b, x)
  BY <1>12 DEF Inbound!Ring!Taken, RP!Taken
<1>16. \A b, x : Inbound!Ring!Read(b, x) = RP!Read(b, x)
  BY <1>13, <1>3, <1>7 DEF Inbound!Ring!Read, RP!Read
<1>17. \A b : Inbound!Ring!Bytes(b) = RP!Bytes(b)
  BY <1>4, <1>2 DEF Inbound!Ring!Bytes, RP!Bytes
<1>18. \A x, y : Inbound!Ring!GrownSize(x, y) = RP!GrownSize(x, y)
  BY <1>1, <1>11 DEF Inbound!Ring!GrownSize, RP!GrownSize
<1>19. \A b, x : Inbound!Ring!grow(b, x) = RP!grow(b, x)
  BY <1>18, <1>2, <1>5, <1>6, <1>15, <1>7 DEF Inbound!Ring!grow, RP!grow
<1>20. \A b, x : Inbound!Ring!Write(b, x) = RP!Write(b, x)
  <2> TAKE b, x
  <2>1. CASE x = << >> BY <2>1 DEF Inbound!Ring!Write, RP!Write
  <2>2. CASE x # << >>
    <3> DEFINE g == IF Len(x) > Inbound!Ring!Available(b) THEN Inbound!Ring!grow(b, Inbound!Ring!Size(b) + Len(x) - Inbound!Ring!Available(b)) ELSE b
               h == IF Len(x) > RP!Available(b) THEN RP!grow(b, RP!Size(b) + Len(x) - RP!Available(b)) ELSE b
               m == Inbound!Ring!Least(Inbound!Ring!Size(g) - g.w, Len(x))
               n == RP!Least(RP!Size(h) - h.w, Len(x))
    <3>1. Inbound!Ring!Write(b, x) = [g EXCEPT
                         !.buf = Inbound!Ring!Copy(Inbound!Ring!Copy(@, g.w, Inbound!Ring!Slice(x, 0, m)), 0, Inbound!Ring!Slice(x, m, Len(x))),
                         !.w = (@ + Len(x)) % Inbound!Ring!Size(g), !.empty = FALSE]
      BY <2>2, Zenon DEF Inbound!Ring!Write
    <3>2. RP!Write(b, x) = [h EXCEPT
                         !.buf = RP!Copy(RP!Copy(@, h.w, RP!Slice(x, 0, n)), 0, RP!Slice(x, n, Len(x))),
                         !.w = (@ + Len(x)) % RP!Size(h), !.empty = FALSE]
      BY <2>2, Zenon DEF RP!Write
    <3>3. g = h BY <1>8, <1>19, <1>2
    <3> HIDE DEF g, h
    <3>4. m = n BY <3>3, <1>3, <1>2
    <3> HIDE DEF m, n
    <3> QED BY <3>1, <3>2, <3>3, <3>4, <1>5, <1>4, <1>2
  <2> QED BY <2>1, <2>2
<1>21. \A b, x : Inbound!Ring!WriteByte(b, x) = RP!WriteByte(b, x)
  BY <1>8, <1>19, <1>5, <1>2 DEF Inbound!Ring!WriteByte, RP!WriteByte
<1>22. \A b, x : Inbound!Ring!WriteTo(b, x) = RP!WriteTo(b, x)
  BY <1>2, <1>13 DEF Inbound!Ring!WriteTo, RP!WriteTo
<1> QED BY <1>2, <1>7, <1>8, <1>9, <1>10, <1>12, <1>14, <1>15, <1>16, <1>17, <1>20, <1>21, <1>22

(* ... under the connection's framing, ... *)
LEMMA ConnRingIsRP ==
  /\ \A b : Conn!In!Ring!Buffered(b) = RP!Buffered(b)
  /\ \A b : Conn!In!Ring!Reset(b) = RP!Reset(b)
  /\ \A b, x : Conn!In!Ring!Peek(b, x) = RP!Peek(b, x)
  /\ \A b, x : Conn!In!Ring!Discard(b, x) = RP!Discard(b, x)
<1>1. \A b : Conn!In!Ring!Size(b) = RP!Size(b)
  BY DEF Conn!In!Ring!Size, RP!Size
<1>2. \A x, y : Conn!In!Ring!Least(x, y) = RP!Least(x, y)
  BY DEF Conn!In!Ring!Least, RP!Least
<1>3. \A x, y, z : Conn!In!Ring!Slice(x, y, z) = RP!Slice(x, y, z)
  BY DEF Conn!In!Ring!Slice, RP!Slice
<1>4. \A b : Conn!In!Ring!Buffered(b) = RP!Buffered(b)
  BY <1>1 DEF Conn!In!Ring!Buffered, RP!Buffered
<1>5. \A b : Conn!In!Ring!Reset(b) = RP!Reset(b)
  BY DEF Conn!In!Ring!Reset, RP!Reset
<1>6. \A b, x : Conn!In!Ring!Peek(b, x) = RP!Peek(b, x)
  BY <1>4, <1>2, <1>1, <1>3 DEF Conn!In!Ring!Peek, RP!Peek
<1>7. \A b, x : Conn!In!Ring!Discard(b, x) = RP!Discard(b, x)
  BY <1>4, <1>1, <1>5 DEF Conn!In!Ring!Discard, RP!Discard
<1> QED BY <1>4, <1>5, <1>6, <1>7

(* ... and under the elastic buffer. *)
LEMMA MixedRingIsRP ==
  /\ \A b : Mixed!Elastic!Ring!Size(b) = RP!Size(b)
  /\ \A b : Mixed!Elastic!Ring!Buffered(b) = RP!Buffered(b)
  /\ \A b : Mixed!Elastic!Ring!Available(b) = RP!Available(b)
  /\ \A b : Mixed!Elastic!Ring!Reset(b) = RP!Reset(b)
  /\ \A b, x : Mixed!Elastic!Ring!Peek(b, x) = RP!Peek(b, x)
  /\ \A b, x : Mixed!Elastic!Ring!Discard(b, x) = RP!Discard(b, x)
  /\ \A b, x : Mixed!Elastic!Ring!Taken(b, x) = RP!Taken(b, x)
  /\ \A b, x : Mixed!Elastic!Ring!Read(b, x) = RP!Read(b, x)
  /\ \A b : Mixed!Elastic!Ring!Bytes(b) = RP!Bytes(b)
  /\ \A b, x : Mixed!Elastic!Ring!Write(b, x) = RP!Write(b, x)
  /\ \A b, x : Mixed!Elastic!Ring!WriteTo(b, x) = RP!WriteTo(b, x)
<1>1. \A x : Mixed!Elastic!Ring!CeilToPowerOfTwo(x) = RP!CeilToPowerOfTwo(x)
  <2>1. \A y : Mixed!Elastic!Ring!BitsOf(y) = RP!BitsOf(y) BY DEF Mixed!Elastic!Ring!BitsOf, RP!BitsOf
  <2>2. \A y, z : Mixed!Elastic!Ring!ShiftRight(y, z) = RP!ShiftRight(y, z) BY DEF Mixed!Elastic!Ring!ShiftRight, RP!ShiftRight
  <2>3. \A y : Mixed!Elastic!Ring!Smear(y) = RP!Smear(y) BY <2>2 DEF Mixed!Elastic!Ring!Smear, RP!Smear
  <2>4. \A y : Mixed!Elastic!Ring!Decrement(y) = RP!Decrement(y)
    BY DEF Mixed!Elastic!Ring!Decrement, Mixed!Elastic!Ring!Min, RP!Decrement, RP!Min
  <2>5. \A y : Mixed!Elastic!Ring!Increment(y) = RP!Increment(y)
    BY DEF
      Mixed!Elastic!Ring!Increment, Mixed!Elastic!Ring!Min, Mixed!Elastic!Ring!Cardinality,
      Mixed!Elastic!Ring!IsFiniteSet, RP!Increment, RP!Min, RP!Cardinality, RP!IsFiniteSet
  <2>6. \A y : Mixed!Elastic!Ring!CeilBits(y) = RP!CeilBits(y)
    BY <2>3, <2>4, <2>5 DEF Mixed!Elastic!Ring!CeilBits, RP!CeilBits
  <2>7. \A y : Mixed!Elastic!Ring!NatOf(y) = RP!NatOf(y)
    BY DEF
      Mixed!Elastic!Ring!NatOf, Mixed!Elastic!Ring!MapThenSumSet,
      Mixed!Elastic!Ring!MapThenFoldSet, RP!NatOf, RP!MapThenSumSet, RP!MapThenFoldSet
  <2> QED BY <2>1, <2>6, <2>7 DEF Mixed!Elastic!Ring!CeilToPowerOfTwo, RP!CeilToPowerOfTwo
<1>2. \A b : Mixed!Elastic!Ring!Size(b) = RP!Size(b)
  BY DEF Mixed!Elastic!Ring!Size, RP!Size
<1>3. \A x, y : Mixed!Elastic!Ring!Least(x, y) = RP!Least(x, y)
  BY DEF Mixed!Elastic!Ring!Least, RP!Least
<1>4. \A x, y, z : Mixed!Elastic!Ring!Slice(x, y, z) = RP!Slice(x, y, z)
  BY DEF Mixed!Elastic!Ring!Slice, RP!Slice
<1>5. \A x, y, z : Mixed!Elastic!Ring!Copy(x, y, z) = RP!Copy(x, y, z)
  BY DEF Mixed!Elastic!Ring!Copy, RP!Copy
<1>6. \A x : Mixed!Elastic!Ring!Get(x) = RP!Get(x)
  BY DEF Mixed!Elastic!Ring!Get, RP!Get
<1>7. \A b : Mixed!Elastic!Ring!Buffered(b) = RP!Buffered(b)
  BY <1>2 DEF Mixed!Elastic!Ring!Buffered, RP!Buffered
<1>8. \A b : Mixed!Elastic!Ring!Available(b) = RP!Available(b)
  BY <1>2 DEF Mixed!Elastic!Ring!Available, RP!Available
<1>9. \A b : Mixed!Elastic!Ring!Reset(b) = RP!Reset(b)
  BY DEF Mixed!Elastic!Ring!Reset, RP!Reset
<1>10. \A x, y : Mixed!Elastic!Ring!QuarterSteps(x, y) = RP!QuarterSteps(x, y)
  BY DEF Mixed!Elastic!Ring!QuarterSteps, RP!QuarterSteps
<1>11. \A b, x : Mixed!Elastic!Ring!Peek(b, x) = RP!Peek(b, x)
  BY <1>7, <1>3, <1>2, <1>4 DEF Mixed!Elastic!Ring!Peek, RP!Peek
<1>12. \A b, x : Mixed!Elastic!Ring!Advance(b, x) = RP!Advance(b, x)
  BY <1>2, <1>9 DEF Mixed!Elastic!Ring!Advance, RP!Advance
<1>13. \A b, x : Mixed!Elastic!Ring!Discard(b, x) = RP!Discard(b, x)
  BY <1>7, <1>2, <1>9 DEF Mixed!Elastic!Ring!Discard, RP!Discard
<1>14. \A b, x : Mixed!Elastic!Ring!Taken(b, x) = RP!Taken(b, x)
  BY <1>11 DEF Mixed!Elastic!Ring!Taken, RP!Taken
<1>15. \A b, x : Mixed!Elastic!Ring!Read(b, x) = RP!Read(b, x)
  BY <1>12, <1>3, <1>7 DEF Mixed!Elastic!Ring!Read, RP!Read
<1>16. \A b : Mixed!Elastic!Ring!Bytes(b) = RP!Bytes(b)
  BY <1>4, <1>2 DEF Mixed!Elastic!Ring!Bytes, RP!Bytes
<1>17. \A x, y : Mixed!Elastic!Ring!GrownSize(x, y) = RP!GrownSize(x, y)
  BY <1>1, <1>10 DEF Mixed!Elastic!Ring!GrownSize, RP!GrownSize
<1>18. \A b, x : Mixed!Elastic!Ring!grow(b, x) = RP!grow(b, x)
  BY <1>17, <1>2, <1>5, <1>6, <1>14, <1>7 DEF Mixed!Elastic!Ring!grow, RP!grow
<1>19. \A b, x : Mixed!Elastic!Ring!Write(b, x) = RP!Write(b, x)
  <2> TAKE b, x
  <2>1. CASE x = << >> BY <2>1 DEF Mixed!Elastic!Ring!Write, RP!Write
  <2>2. CASE x # << >>
    <3> DEFINE g == IF Len(x) > Mixed!Elastic!Ring!Available(b) THEN Mixed!Elastic!Ring!grow(b, Mixed!Elastic!Ring!Size(b) + Len(x) - Mixed!Elastic!Ring!Available(b)) ELSE b
               h == IF Len(x) > RP!Available(b) THEN RP!grow(b, RP!Size(b) + Len(x) - RP!Available(b)) ELSE b
               m == Mixed!Elastic!Ring!Least(Mixed!Elastic!Ring!Size(g) - g.w, Len(x))
               n == RP!Least(RP!Size(h) - h.w, Len(x))
    <3>1. Mixed!Elastic!Ring!Write(b, x) = [g EXCEPT
                         !.buf = Mixed!Elastic!Ring!Copy(Mixed!Elastic!Ring!Copy(@, g.w, Mixed!Elastic!Ring!Slice(x, 0, m)), 0, Mixed!Elastic!Ring!Slice(x, m, Len(x))),
                         !.w = (@ + Len(x)) % Mixed!Elastic!Ring!Size(g), !.empty = FALSE]
      BY <2>2, Zenon DEF Mixed!Elastic!Ring!Write
    <3>2. RP!Write(b, x) = [h EXCEPT
                         !.buf = RP!Copy(RP!Copy(@, h.w, RP!Slice(x, 0, n)), 0, RP!Slice(x, n, Len(x))),
                         !.w = (@ + Len(x)) % RP!Size(h), !.empty = FALSE]
      BY <2>2, Zenon DEF RP!Write
    <3>3. g = h BY <1>8, <1>18, <1>2
    <3> HIDE DEF g, h
    <3>4. m = n BY <3>3, <1>3, <1>2
    <3> HIDE DEF m, n
    <3> QED BY <3>1, <3>2, <3>3, <3>4, <1>5, <1>4, <1>2
  <2> QED BY <2>1, <2>2
<1>20. \A b, x : Mixed!Elastic!Ring!WriteTo(b, x) = RP!WriteTo(b, x)
  BY <1>2, <1>12 DEF Mixed!Elastic!Ring!WriteTo, RP!WriteTo
<1> QED BY <1>2, <1>7, <1>8, <1>9, <1>11, <1>13, <1>14, <1>15, <1>16, <1>19, <1>20

(* The buffer that framing reads is the inbound one. *)
LEMMA ConnIsInbound ==
  /\ \A b : Conn!In!Buffered(b) = Inbound!Buffered(b)
  /\ \A b : Conn!In!IsEmpty(b) = Inbound!IsEmpty(b)
  /\ \A b, x : Conn!In!Peek(b, x) = Inbound!Peek(b, x)
  /\ \A b, x : Conn!In!Discard(b, x) = Inbound!Discard(b, x)
  /\ \A b : Conn!In!Reset(b) = Inbound!Reset(b)
<1>1. \A b : Conn!In!Buffered(b) = Inbound!Buffered(b)
  BY InboundRingIsRP, ConnRingIsRP DEF Conn!In!Buffered, Inbound!Buffered
<1>2. \A b : Conn!In!IsEmpty(b) = Inbound!IsEmpty(b)
  BY DEF Conn!In!IsEmpty, Inbound!IsEmpty
<1>3. \A b, x : Conn!In!Peek(b, x) = Inbound!Peek(b, x)
  BY InboundRingIsRP, ConnRingIsRP DEF Conn!In!Peek, Inbound!Peek
<1>4. \A b, x : Conn!In!Discard(b, x) = Inbound!Discard(b, x)
  BY InboundRingIsRP, ConnRingIsRP DEF Conn!In!Discard, Conn!In!done, Inbound!Discard, Inbound!done
<1>5. \A b : Conn!In!Reset(b) = Inbound!Reset(b)
  BY InboundRingIsRP, ConnRingIsRP DEF Conn!In!Reset, Inbound!Reset
<1> QED BY <1>1, <1>2, <1>3, <1>4, <1>5

(* The ring of an elastic buffer has the same operations. *)
LEMMA ElasticIsInbound ==
  /\ \A b : Mixed!Elastic!Len0(b) = Inbound!Len0(b)
  /\ \A b : Mixed!Elastic!Buffered(b) = Inbound!Buffered(b)
  /\ \A b : Mixed!Elastic!Available(b) = Inbound!Available(b)
  /\ \A b : Mixed!Elastic!IsEmpty(b) = Inbound!IsEmpty(b)
  /\ \A b : Mixed!Elastic!Bytes(b) = Inbound!Bytes(b)
  /\ \A b, x : Mixed!Elastic!Peek(b, x) = Inbound!Peek(b, x)
  /\ \A b, x : Mixed!Elastic!Discard(b, x) = Inbound!Discard(b, x)
  /\ \A b, x : Mixed!Elastic!Taken(b, x) = Inbound!Taken(b, x)
  /\ \A b, x : Mixed!Elastic!Read(b, x) = Inbound!Read(b, x)
  /\ \A b, x : Mixed!Elastic!WriteTo(b, x) = Inbound!WriteTo(b, x)
  /\ \A b : Mixed!Elastic!Reset(b) = Inbound!Reset(b)
  /\ \A b, x, y : Mixed!Elastic!Write(b, x, y) = Inbound!Write(b, x, y)
<1>1. \A b : Mixed!Elastic!Len0(b) = Inbound!Len0(b)
  BY InboundRingIsRP, MixedRingIsRP DEF Mixed!Elastic!Len0, Inbound!Len0
<1>2. \A b : Mixed!Elastic!Buffered(b) = Inbound!Buffered(b)
  BY InboundRingIsRP, MixedRingIsRP DEF Mixed!Elastic!Buffered, Inbound!Buffered
<1>3. \A b : Mixed!Elastic!Available(b) = Inbound!Available(b)
  BY InboundRingIsRP, MixedRingIsRP DEF Mixed!Elastic!Available, Inbound!Available
<1>4. \A b : Mixed!Elastic!IsEmpty(b) = Inbound!IsEmpty(b)
  BY DEF Mixed!Elastic!IsEmpty, Inbound!IsEmpty
<1>5. \A b : Mixed!Elastic!Bytes(b) = Inbound!Bytes(b)
  BY InboundRingIsRP, MixedRingIsRP DEF Mixed!Elastic!Bytes, Inbound!Bytes
<1>6. \A b, x : Mixed!Elastic!Peek(b, x) = Inbound!Peek(b, x)
  BY InboundRingIsRP, MixedRingIsRP DEF Mixed!Elastic!Peek, Inbound!Peek
<1>7. \A b, x : Mixed!Elastic!Discard(b, x) = Inbound!Discard(b, x)
  BY InboundRingIsRP, MixedRingIsRP DEF Mixed!Elastic!Discard, Mixed!Elastic!done, Inbound!Discard, Inbound!done
<1>8. \A b, x : Mixed!Elastic!Taken(b, x) = Inbound!Taken(b, x)
  BY InboundRingIsRP, MixedRingIsRP DEF Mixed!Elastic!Taken, Inbound!Taken
<1>9. \A b, x : Mixed!Elastic!Read(b, x) = Inbound!Read(b, x)
  BY InboundRingIsRP, MixedRingIsRP DEF Mixed!Elastic!Read, Mixed!Elastic!done, Inbound!Read, Inbound!done
<1>10. \A b, x : Mixed!Elastic!WriteTo(b, x) = Inbound!WriteTo(b, x)
  BY InboundRingIsRP, MixedRingIsRP DEF Mixed!Elastic!WriteTo, Mixed!Elastic!done, Inbound!WriteTo, Inbound!done
<1>11. \A b : Mixed!Elastic!Reset(b) = Inbound!Reset(b)
  BY InboundRingIsRP, MixedRingIsRP DEF Mixed!Elastic!Reset, Inbound!Reset
<1>12. \A b, x, y : Mixed!Elastic!Write(b, x, y) = Inbound!Write(b, x, y)
  BY InboundRingIsRP, MixedRingIsRP DEF Mixed!Elastic!Write, Mixed!Elastic!instance, Inbound!Write, Inbound!instance
<1> QED BY <1>1, <1>2, <1>3, <1>4, <1>5, <1>6, <1>7, <1>8, <1>9, <1>10, <1>11, <1>12

(* The list's operations as Buffers and the elastic.Buffer use them are those of ListProofs. *)
LEMMA ListIsLP ==
  /\ \A l : List!Content(l) = LP!Content(l)
  /\ \A l, n : List!Discard(l, n) = LP!Discard(l, n)
  /\ \A l, p, e : List!ReadFrom(l, p, e) = LP!ReadFrom(l, p, e)
<1>1. \A l : List!Content(l) = LP!Content(l) BY DEF List!Content, LP!Content, List!FlattenSeq, LP!FlattenSeq
<1>3. \A l, n : List!Discard(l, n) = LP!Discard(l, n) BY DEF List!Discard, LP!Discard, List!Pop, LP!Pop
<1>4. \A l, p, e : List!ReadFrom(l, p, e) = LP!ReadFrom(l, p, e) BY DEF List!ReadFrom, LP!ReadFrom
<1> QED BY <1>1, <1>3, <1>4

(* The list inside an elastic.Buffer is the list of ListProofs. *)
LEMMA MixedListIsLP ==
  /\ \A l : Mixed!List!Content(l) = LP!Content(l)
  /\ \A l : Mixed!List!Buffered(l) = LP!Buffered(l)
  /\ \A l : Mixed!List!IsEmpty(l) = (l = << >>)
  /\ \A l, p : Mixed!List!PushBack(l, p) = LP!PushBack(l, p)
  /\ \A l, n : Mixed!List!Discard(l, n) = LP!Discard(l, n)
  /\ \A l, n : Mixed!List!Taken(l, n) = LP!Taken(l, n)
  /\ \A l, n : Mixed!List!Read(l, n) = LP!Discard(l, n)
  /\ \A l, n, a, b : Mixed!List!PeekWithBytes(l, n, a, b) = LP!PeekWithBytes(l, n, a, b)
  /\ \A l, n, e : Mixed!List!WriteTo(l, n, e) = LP!WriteTo(l, n, e)
<1>1. \A l : Mixed!List!Content(l) = LP!Content(l)
  BY DEF Mixed!List!Content, LP!Content, Mixed!List!FlattenSeq, LP!FlattenSeq
<1>2. \A l : Mixed!List!Buffered(l) = LP!Buffered(l) BY <1>1 DEF Mixed!List!Buffered, LP!Buffered
<1>3. \A l : Mixed!List!IsEmpty(l) = (l = << >>) BY DEF Mixed!List!IsEmpty
<1>4. \A l, p : Mixed!List!PushBack(l, p) = LP!PushBack(l, p) BY DEF Mixed!List!PushBack, LP!PushBack
<1>6. \A l, n : Mixed!List!Discard(l, n) = LP!Discard(l, n)
  BY DEF Mixed!List!Discard, LP!Discard, Mixed!List!Pop, LP!Pop
<1>7. \A l, n : Mixed!List!Taken(l, n) = LP!Taken(l, n) BY <1>1, <1>2 DEF Mixed!List!Taken, LP!Taken
<1>8. \A l, n : Mixed!List!Read(l, n) = LP!Discard(l, n) BY <1>6 DEF Mixed!List!Read
<1>10. \A l, n, a, b : Mixed!List!PeekWithBytes(l, n, a, b) = LP!PeekWithBytes(l, n, a, b)
  BY DEF Mixed!List!PeekWithBytes, LP!PeekWithBytes, Mixed!List!PushBack, LP!PushBack, Mixed!List!Min, LP!Min,
    Mixed!List!Buffered, LP!Buffered, Mixed!List!Content, LP!Content, Mixed!List!FlattenSeq, LP!FlattenSeq
<1>11. \A l, n, e : Mixed!List!WriteTo(l, n, e) = LP!WriteTo(l, n, e)
  BY <1>6 DEF Mixed!List!WriteTo, LP!WriteTo
<1> QED BY <1>1, <1>2, <1>3, <1>4, <1>6, <1>7, <1>8, <1>10, <1>11

-----------------------------------------------------------------------------
(* The inbound buffer: no ring, or one with slots *)

Slotted == {b \in RP!Rings(Byte) : Len(b.buf) > 0}
Held    == {Nil} \cup Slotted

(* What the assumptions say of the constants. *)
LEMMA Scale ==
  /\ Junk \in Byte
  /\ MinRead \in Nat \ {0} /\ DefaultBufferSize \in Nat \ {0} /\ DefaultBufferSize >= MinRead
  /\ GrowThreshold \in Nat /\ GrowThreshold >= 4
BY ScaleAssumption DEF Byte

(* Nil is not a ring. *)
LEMMA NilIsNoRing == \A b \in RP!Rings(Byte) : b # Nil
BY NilAssumption DEF RP!Rings

(* The first n of a sequence, or all of them. *)
Least0(m, n) == IF m < n THEN m ELSE n
FirstBytes(s, n) == SubSeq(s, 1, Least0(n, Len(s)))

(* What is in the ring, and how much of it. *)
LEMMA HeldFacts ==
  ASSUME NEW b \in Held
  PROVE  /\ Inbound!Bytes(b) \in Seq(Byte) /\ Len(Inbound!Bytes(b)) \in Nat
         /\ Inbound!Buffered(b) = Len(Inbound!Bytes(b))
         /\ Inbound!IsEmpty(b) \in BOOLEAN /\ (Inbound!IsEmpty(b) <=> Inbound!Bytes(b) = << >>)
         /\ Inbound!Len0(b) \in Nat /\ Inbound!Available(b) \in Nat
         /\ Inbound!Available(b) = Inbound!Len0(b) - Inbound!Buffered(b)
<1>1. CASE b = Nil
  BY <1>1 DEF Inbound!Bytes, Inbound!Buffered, Inbound!IsEmpty, Inbound!Len0, Inbound!Available
<1>2. CASE b # Nil
  <2>1. b \in RP!Rings(Byte) BY <1>2 DEF Held, Slotted
  <2>2. /\ Inbound!Bytes(b) = RP!Bytes(b) /\ Inbound!Buffered(b) = RP!Buffered(b)
        /\ Inbound!Len0(b) = RP!Size(b) /\ Inbound!Available(b) = RP!Available(b)
        /\ Inbound!IsEmpty(b) = b.empty
    BY <1>2, InboundRingIsRP DEF Inbound!Bytes, Inbound!Buffered, Inbound!Len0, Inbound!Available, Inbound!IsEmpty
  <2>3. RP!Bytes(b) \in Seq(Byte) /\ Len(RP!Bytes(b)) = RP!Buffered(b) BY <2>1, RP!BytesOf
  <2>4. /\ RP!Size(b) \in Nat /\ RP!Buffered(b) \in 0..RP!Size(b) /\ b.empty \in BOOLEAN
        /\ ((RP!Buffered(b) = 0) <=> b.empty) /\ RP!Available(b) = RP!Size(b) - RP!Buffered(b)
    BY <2>1, RP!RingFacts DEF RP!Size
  <2>5. (RP!Buffered(b) = 0) <=> RP!Bytes(b) = << >>
    <3> DEFINE s == RP!Bytes(b)
    <3>1. s \in Seq(Byte) /\ Len(s) = RP!Buffered(b) BY <2>3
    <3> HIDE DEF s
    <3>2. Len(s) = 0 <=> s = << >> BY <3>1
    <3> QED BY <3>1, <3>2 DEF s
  <2>6. RP!Buffered(b) \in Nat /\ RP!Size(b) - RP!Buffered(b) \in Nat BY <2>4
  <2> QED BY <2>2, <2>3, <2>4, <2>5, <2>6
<1> QED BY <1>1, <1>2

(* A ring of the pool: empty, of any size. *)
LEMMA PooledFacts ==
  ASSUME NEW p \in Pooled
  PROVE  p \in RP!Rings(Byte) /\ RP!Bytes(p) = << >>
<1>1. PICK s \in Nat : p = [buf |-> RP!Get(s), r |-> 0, w |-> 0, empty |-> TRUE]
  <2>1. Ring!New(0) = [buf |-> RP!Get(0), r |-> 0, w |-> 0, empty |-> TRUE] BY RingIsRP DEF Ring!New
  <2>2. CASE p = Ring!New(0) BY <2>1, <2>2
  <2>3. CASE p # Ring!New(0)
    <3>1. PICK s \in PoolSizes : p = [Ring!New(0) EXCEPT !.buf = Ring!Get(s)] BY <2>3 DEF Pooled
    <3>2. s \in Nat BY ScaleAssumption
    <3>3. Ring!Get(s) = RP!Get(s) BY RingIsRP
    <3> DEFINE e == RP!Get(0)
               q == RP!Get(s)
               x == [buf |-> e, r |-> 0, w |-> 0, empty |-> TRUE]
    <3>4. p = [x EXCEPT !.buf = q] BY <2>1, <3>1, <3>3
    <3> HIDE DEF e, q
    <3>5. [x EXCEPT !.buf = q] = [buf |-> q, r |-> 0, w |-> 0, empty |-> TRUE]
      <4> DEFINE f == [x EXCEPT !.buf = q]
      <4>1. x \in [buf : {e}, r : {0}, w : {0}, empty : {TRUE}] OBVIOUS
      <4> HIDE DEF x
      <4>2. f \in [buf : {q}, r : {0}, w : {0}, empty : {TRUE}] BY <4>1
      <4> HIDE DEF f
      <4>3. f = [buf |-> q, r |-> 0, w |-> 0, empty |-> TRUE] BY <4>2
      <4> QED BY <4>3 DEF f
    <3> HIDE DEF x
    <3>6. p = [buf |-> RP!Get(s), r |-> 0, w |-> 0, empty |-> TRUE] BY <3>4, <3>5 DEF q
    <3> QED BY <3>2, <3>6
  <2> QED BY <2>2, <2>3
<1>2. RP!Get(s) \in Seq(Byte)
  <2>1. Junk \in Byte BY Scale
  <2> QED BY <2>1 DEF RP!Get
<1>3. p \in RP!Rings(Byte)
  <2> DEFINE q == RP!Get(s)
  <2>1. q \in Seq(Byte) /\ p = [buf |-> q, r |-> 0, w |-> 0, empty |-> TRUE] /\ Len(q) \in Nat BY <1>1, <1>2
  <2> HIDE DEF q
  <2> QED BY <2>1 DEF RP!Rings, RP!Shape
<1>4. RP!Bytes(p) = << >> BY <1>1 DEF RP!Bytes
<1> QED BY <1>3, <1>4

(* done gives an empty ring back to the pool; the bytes are the same. *)
LEMMA DoneKeeps ==
  ASSUME NEW b \in Slotted
  PROVE  /\ Inbound!done(b) \in Held /\ Inbound!Bytes(Inbound!done(b)) = RP!Bytes(b)
         /\ Inbound!Len0(Inbound!done(b)) \in Nat /\ Inbound!Len0(Inbound!done(b)) <= Len(b.buf)
<1>1. b \in RP!Rings(Byte) /\ b # Nil BY NilIsNoRing DEF Slotted
<1>2. Len(b.buf) \in Nat /\ b.empty \in BOOLEAN BY <1>1, RP!RingFacts
<1>3. CASE b.empty
  <2>1. Inbound!done(b) = Nil BY <1>1, <1>3 DEF Inbound!done
  <2>2. RP!Bytes(b) = << >> BY <1>3 DEF RP!Bytes
  <2> QED BY <1>2, <2>1, <2>2 DEF Held, Inbound!Bytes, Inbound!Len0
<1>4. CASE ~b.empty
  <2>1. Inbound!done(b) = b BY <1>4 DEF Inbound!done
  <2> QED BY <1>1, <1>2, <2>1, InboundRingIsRP DEF Held, Inbound!Bytes, Inbound!Len0, RP!Size
<1> QED BY <1>2, <1>3, <1>4

(* A ring in hand is one of the ring's proofs. *)
LEMMA InHand ==
  ASSUME NEW b \in Held, b # Nil
  PROVE  /\ b \in RP!Rings(Byte) /\ b \in Slotted /\ Len(b.buf) \in Nat /\ Len(b.buf) > 0
         /\ b.empty \in BOOLEAN /\ RP!Size(b) = Len(b.buf)
         /\ Inbound!Bytes(b) = RP!Bytes(b) /\ Inbound!Buffered(b) = RP!Buffered(b)
         /\ Inbound!Len0(b) = Len(b.buf) /\ Inbound!Available(b) = RP!Available(b)
         /\ RP!Buffered(b) = Len(RP!Bytes(b)) /\ RP!Bytes(b) \in Seq(Byte)
         /\ Inbound!IsEmpty(b) = b.empty
<1>1. b \in Slotted BY DEF Held
<1>2. b \in RP!Rings(Byte) /\ Len(b.buf) > 0 BY <1>1 DEF Slotted
<1>3. Len(b.buf) \in Nat /\ b.empty \in BOOLEAN BY <1>2, RP!RingFacts
<1>4. RP!Buffered(b) = Len(RP!Bytes(b)) /\ RP!Bytes(b) \in Seq(Byte) BY <1>2, RP!BytesOf
<1>5. RP!Size(b) = Len(b.buf) BY DEF RP!Size
<1>6. /\ Inbound!Bytes(b) = RP!Bytes(b) /\ Inbound!Buffered(b) = RP!Buffered(b)
      /\ Inbound!Len0(b) = RP!Size(b) /\ Inbound!Available(b) = RP!Available(b)
      /\ Inbound!IsEmpty(b) = b.empty
  BY InboundRingIsRP DEF Inbound!Bytes, Inbound!Buffered, Inbound!Len0, Inbound!Available, Inbound!IsEmpty
<1> QED BY <1>1, <1>2, <1>3, <1>4, <1>5, <1>6

(* Discard of the inbound buffer. *)
LEMMA InboundDiscard ==
  ASSUME NEW b \in Held, NEW n \in Int
  PROVE  /\ Inbound!Discard(b, n) \in Held
         /\ Inbound!Len0(Inbound!Discard(b, n)) <= Inbound!Len0(b)
         /\ n <= 0 => Inbound!Bytes(Inbound!Discard(b, n)) = Inbound!Bytes(b)
         /\ n > 0 => Inbound!Bytes(Inbound!Discard(b, n)) = LP!Rest(Inbound!Bytes(b), n)
<1>1. CASE b = Nil
  <2>1. Inbound!Discard(b, n) = Nil BY <1>1 DEF Inbound!Discard
  <2>2. Inbound!Bytes(Nil) = << >> /\ Inbound!Len0(Nil) = 0 BY DEF Inbound!Bytes, Inbound!Len0
  <2>3. n > 0 => LP!Rest(<< >>, n) = << >>
    <3>1. << >> \in Seq(Byte) /\ Len(<< >>) = 0 OBVIOUS
    <3>2. n > 0 => n \in Nat /\ n >= 0 OBVIOUS
    <3> QED BY <3>1, <3>2, SubSeqEmpty DEF LP!Rest
  <2> QED BY <1>1, <2>1, <2>2, <2>3 DEF Held
<1>2. CASE b # Nil
  <2> DEFINE d == RP!Discard(b, n)
             s == RP!Bytes(b)
  <2>1. /\ b \in RP!Rings(Byte) /\ Len(b.buf) > 0 /\ s \in Seq(Byte) /\ RP!Buffered(b) = Len(s)
        /\ Inbound!Bytes(b) = s /\ Inbound!Len0(b) = Len(b.buf)
    BY <1>2, InHand
  <2>2. Inbound!Discard(b, n) = Inbound!done(d) BY <1>2, InboundRingIsRP DEF Inbound!Discard
  <2>3. /\ d \in RP!Rings(Byte)
        /\ n <= 0 => d = b
        /\ n > 0 /\ n < RP!Buffered(b) => RP!Bytes(d) = SubSeq(s, n + 1, RP!Buffered(b))
        /\ n > 0 /\ n >= RP!Buffered(b) => RP!Bytes(d) = << >>
    BY <2>1, RP!DiscardDrops
  <2>4. d.buf = b.buf BY <2>1, RP!TakingKeepsSlots
  <2> HIDE DEF d, s
  <2>5. d \in Slotted BY <2>1, <2>3, <2>4 DEF Slotted
  <2>6. /\ Inbound!done(d) \in Held /\ Inbound!Bytes(Inbound!done(d)) = RP!Bytes(d)
        /\ Inbound!Len0(Inbound!done(d)) <= Len(b.buf)
    BY <2>4, <2>5, DoneKeeps
  <2>7. n > 0 => RP!Bytes(d) = LP!Rest(s, n)
    <3>1. n > 0 => n \in Nat OBVIOUS
    <3>2. n > 0 /\ n >= Len(s) => LP!Rest(s, n) = << >> BY <2>1, <3>1, LP!RestOf
    <3>3. LP!Rest(s, n) = SubSeq(s, n + 1, Len(s)) BY DEF LP!Rest
    <3>4. Len(s) \in Nat BY <2>1
    <3>5. n < Len(s) \/ n >= Len(s) BY <3>4
    <3> QED BY <2>1, <2>3, <3>2, <3>3, <3>5
  <2>8. n <= 0 => RP!Bytes(d) = s BY <2>3 DEF s
  <2> QED BY <2>1, <2>2, <2>6, <2>7, <2>8
<1> QED BY <1>1, <1>2

(* Read of the inbound buffer: what it returns and what it leaves. *)
LEMMA InboundRead ==
  ASSUME NEW b \in Held, NEW n \in Nat
  PROVE  /\ Inbound!Read(b, n) \in Held
         /\ Inbound!Len0(Inbound!Read(b, n)) <= Inbound!Len0(b)
         /\ Inbound!Taken(b, n) = FirstBytes(Inbound!Bytes(b), n)
         /\ Inbound!Bytes(Inbound!Read(b, n)) = LP!Rest(Inbound!Bytes(b), n)
<1>1. CASE b = Nil
  <2>1. Inbound!Read(b, n) = Nil /\ Inbound!Taken(b, n) = << >> BY <1>1 DEF Inbound!Read, Inbound!Taken
  <2>2. Inbound!Bytes(Nil) = << >> /\ Inbound!Len0(Nil) = 0 BY DEF Inbound!Bytes, Inbound!Len0
  <2>3. LP!Rest(<< >>, n) = << >> /\ FirstBytes(<< >>, n) = << >>
    <3>1. Len(<< >>) = 0 OBVIOUS
    <3>2. Least0(n, Len(<< >>)) = 0 BY <3>1 DEF Least0
    <3> QED BY <3>1, <3>2, SubSeqEmpty DEF LP!Rest, FirstBytes
  <2> QED BY <1>1, <2>1, <2>2, <2>3 DEF Held
<1>2. CASE b # Nil
  <2> DEFINE d == RP!Read(b, n)
             s == RP!Bytes(b)
             m == RP!Least(n, RP!Buffered(b))
  <2>1. /\ b \in RP!Rings(Byte) /\ Len(b.buf) > 0 /\ s \in Seq(Byte) /\ RP!Buffered(b) = Len(s)
        /\ Inbound!Bytes(b) = s /\ Inbound!Len0(b) = Len(b.buf)
    BY <1>2, InHand
  <2>2. Inbound!Read(b, n) = Inbound!done(d) /\ Inbound!Taken(b, n) = RP!Taken(b, n)
    BY <1>2, InboundRingIsRP DEF Inbound!Read, Inbound!Taken
  <2>3. /\ RP!Taken(b, n) = SubSeq(s, 1, m) /\ d \in RP!Rings(Byte)
        /\ RP!Bytes(d) = SubSeq(s, m + 1, RP!Buffered(b))
    <3>1. b \in RP!Rings(Byte) /\ n \in Nat BY <2>1
    <3>2. m = RP!Least(n, RP!Buffered(b)) OBVIOUS
    <3> HIDE DEF m
    <3>3. /\ RP!Taken(b, n) = SubSeq(RP!Bytes(b), 1, m) /\ RP!Read(b, n) \in RP!Rings(Byte)
          /\ RP!Bytes(RP!Read(b, n)) = SubSeq(RP!Bytes(b), m + 1, RP!Buffered(b))
      BY ONLY <3>1, <3>2, RP!ReadTakesFront
    <3> QED BY <3>3
  <2>4. d.buf = b.buf BY <2>1, RP!TakingKeepsSlots
  <2>5. m = Least0(n, Len(s)) BY <2>1 DEF RP!Least, Least0
  <2> HIDE DEF d, s, m
  <2>6. d \in Slotted BY <2>1, <2>3, <2>4 DEF Slotted
  <2>7. /\ Inbound!done(d) \in Held /\ Inbound!Bytes(Inbound!done(d)) = RP!Bytes(d)
        /\ Inbound!Len0(Inbound!done(d)) <= Len(b.buf)
    BY <2>4, <2>6, DoneKeeps
  <2>8. RP!Bytes(d) = LP!Rest(s, n)
    <3>1. Len(s) \in Nat BY <2>1
    <3>2. CASE n < Len(s)
      <4>1. m = n BY <2>5, <3>2 DEF Least0
      <4> QED BY <2>1, <2>3, <4>1 DEF LP!Rest
    <3>3. CASE ~(n < Len(s))
      <4>1. m = Len(s) /\ n >= Len(s) BY <2>5, <3>1, <3>3 DEF Least0
      <4>2. LP!Rest(s, n) = << >> BY <2>1, <4>1, LP!RestOf
      <4>3. SubSeq(s, Len(s) + 1, Len(s)) = << >> BY <3>1, SubSeqEmpty
      <4> QED BY <2>1, <2>3, <4>1, <4>2, <4>3
    <3> QED BY <3>2, <3>3
  <2> QED BY <2>1, <2>2, <2>3, <2>5, <2>7, <2>8 DEF FirstBytes
<1> QED BY <1>1, <1>2

(* WriteTo of the inbound buffer drops what the writer takes; but one that takes nothing *)
(* from a ring that is full from its first slot to its last drops all.                  *)
LEMMA InboundWriteTo ==
  ASSUME NEW b \in Held, NEW k \in Nat, k <= Inbound!Buffered(b)
  PROVE  /\ Inbound!WriteTo(b, k) \in Held
         /\ Inbound!Len0(Inbound!WriteTo(b, k)) <= Inbound!Len0(b)
         /\ ~(k = 0 /\ Inbound!IsFull(b) /\ b.r = 0) =>
              Inbound!Bytes(Inbound!WriteTo(b, k)) = LP!Rest(Inbound!Bytes(b), k)
<1>1. CASE b = Nil
  <2>1. Inbound!WriteTo(b, k) = Nil BY <1>1 DEF Inbound!WriteTo
  <2>2. Inbound!Bytes(Nil) = << >> /\ Inbound!Len0(Nil) = 0 BY DEF Inbound!Bytes, Inbound!Len0
  <2>3. LP!Rest(<< >>, k) = << >>
    <3>1. Len(<< >>) = 0 OBVIOUS
    <3> QED BY <3>1, SubSeqEmpty DEF LP!Rest
  <2> QED BY <1>1, <2>1, <2>2, <2>3 DEF Held
<1>2. CASE b # Nil
  <2> DEFINE d == RP!WriteTo(b, k)
             s == RP!Bytes(b)
  <2>1. /\ b \in RP!Rings(Byte) /\ Len(b.buf) > 0 /\ s \in Seq(Byte) /\ RP!Buffered(b) = Len(s)
        /\ Inbound!Bytes(b) = s /\ Inbound!Len0(b) = Len(b.buf) /\ RP!Size(b) = Len(b.buf)
        /\ Inbound!Buffered(b) = RP!Buffered(b) /\ b.empty \in BOOLEAN
    BY <1>2, InHand
  <2>2. Inbound!WriteTo(b, k) = Inbound!done(d) BY <1>2, InboundRingIsRP DEF Inbound!WriteTo
  <2>3. Inbound!IsFull(b) <=> b.r = b.w /\ ~b.empty
    BY <1>2, InboundRingIsRP DEF Inbound!IsFull, RP!IsFull
  <2>4. d.buf = b.buf
    <3>1. k \in Int OBVIOUS
    <3> QED BY <2>1, <3>1, RP!TakingKeepsSlots
  <2>5. /\ d \in RP!Rings(Byte)
        /\ ~(k = 0 /\ Inbound!IsFull(b) /\ b.r = 0) => RP!Bytes(d) = LP!Rest(s, k)
    <3>1. CASE b.empty
      <4>1. RP!Buffered(b) = 0 BY <2>1, <3>1, RP!RingFacts
      <4>2. k = 0 /\ Len(s) = 0 BY <2>1, <4>1
      <4>3. d \in RP!Rings(Byte) /\ RP!Bytes(d) = << >> BY <2>1, <3>1, <4>2, RP!WriteToOfEmpty
      <4> HIDE DEF d, s
      <4>4. LP!Rest(s, k) = << >> BY <4>2, SubSeqEmpty DEF LP!Rest
      <4> QED BY <4>3, <4>4
    <3>2. CASE ~b.empty
      <4>1. k <= RP!Buffered(b) BY <2>1
      <4>2. /\ d \in RP!Rings(Byte)
            /\ ~(k = 0 /\ b.r = 0 /\ b.w = 0) => RP!Bytes(d) = SubSeq(s, k + 1, RP!Buffered(b))
        BY <2>1, <3>2, <4>1, RP!WriteToDrops
      <4> HIDE DEF d, s
      <4>3. SubSeq(s, k + 1, RP!Buffered(b)) = LP!Rest(s, k) BY <2>1 DEF LP!Rest
      <4> QED BY <2>3, <3>2, <4>2, <4>3
    <3> QED BY <2>1, <3>1, <3>2
  <2> HIDE DEF d, s
  <2>6. d \in Slotted BY <2>1, <2>4, <2>5 DEF Slotted
  <2>7. /\ Inbound!done(d) \in Held /\ Inbound!Bytes(Inbound!done(d)) = RP!Bytes(d)
        /\ Inbound!Len0(Inbound!done(d)) <= Len(b.buf)
    BY <2>4, <2>6, DoneKeeps
  <2> QED BY <2>1, <2>2, <2>5, <2>7
<1> QED BY <1>1, <1>2

(* Reset of the inbound buffer. *)
LEMMA InboundReset ==
  ASSUME NEW b \in Held
  PROVE  /\ Inbound!Reset(b) \in Held /\ Inbound!Bytes(Inbound!Reset(b)) = << >>
         /\ Inbound!Len0(Inbound!Reset(b)) = Inbound!Len0(b)
<1>1. CASE b = Nil BY <1>1 DEF Inbound!Reset, Inbound!Bytes
<1>2. CASE b # Nil
  <2> DEFINE d == RP!Reset(b)
  <2>1. b \in RP!Rings(Byte) /\ Len(b.buf) > 0 /\ Inbound!Len0(b) = Len(b.buf) BY <1>2, InHand
  <2>2. Inbound!Reset(b) = d BY <1>2, InboundRingIsRP DEF Inbound!Reset
  <2>3. d \in RP!Rings(Byte) /\ RP!Bytes(d) = << >> /\ d.buf = b.buf BY <2>1, RP!ResetEmpties
  <2> HIDE DEF d
  <2>4. d \in Held /\ d # Nil BY <2>1, <2>3, NilIsNoRing DEF Held, Slotted
  <2>5. Inbound!Bytes(d) = RP!Bytes(d) /\ Inbound!Len0(d) = Len(d.buf) BY <2>4, InHand
  <2> QED BY <2>1, <2>2, <2>3, <2>4, <2>5
<1> QED BY <1>1, <1>2

(* The ring that is written to: the one in hand or one of the pool. *)
LEMMA InstanceIs ==
  ASSUME NEW b \in Held, NEW q \in Pooled
  PROVE  /\ Inbound!instance(b, q) \in RP!Rings(Byte)
         /\ RP!Bytes(Inbound!instance(b, q)) = Inbound!Bytes(b)
         /\ b # Nil => Inbound!instance(b, q) = b
<1>1. CASE b = Nil BY <1>1, PooledFacts DEF Inbound!instance, Inbound!Bytes
<1>2. CASE b # Nil
  <2>1. Inbound!instance(b, q) = b BY <1>2 DEF Inbound!instance
  <2> QED BY <1>2, <2>1, InHand
<1> QED BY <1>1, <1>2

(* A ring with bytes in it has slots. *)
LEMMA BytesNeedSlots ==
  ASSUME NEW b \in RP!Rings(Byte), RP!Bytes(b) # << >>
  PROVE  b \in Held /\ b # Nil
<1>1. RP!Bytes(b) \in Seq(Byte) /\ Len(RP!Bytes(b)) = RP!Buffered(b) BY RP!BytesOf
<1>2. RP!Buffered(b) \in 0..Len(b.buf) /\ Len(b.buf) \in Nat BY RP!RingFacts
<1>3. Len(b.buf) > 0
  <2> DEFINE s == RP!Bytes(b)
             k == RP!Buffered(b)
             m == Len(b.buf)
  <2>1. s \in Seq(Byte) /\ s # << >> /\ Len(s) = k /\ k \in 0..m /\ m \in Nat BY <1>1, <1>2
  <2> HIDE DEF s, k, m
  <2>2. m > 0 BY ONLY <2>1
  <2> QED BY <2>2 DEF m
<1> QED BY <1>3, NilIsNoRing DEF Held, Slotted

(* Write of the inbound buffer puts its bytes behind the others; a ring with room for *)
(* them stays as large as it is.                                                     *)
LEMMA InboundWrite ==
  ASSUME NEW b \in Held, NEW p \in Seq(Byte), Len(p) <= MaxBytes, NEW q \in Pooled
  PROVE  /\ Inbound!Write(b, p, q) \in Held
         /\ Inbound!Bytes(Inbound!Write(b, p, q)) = Inbound!Bytes(b) \o p
         /\ b # Nil /\ Len(p) <= Inbound!Available(b) =>
              Inbound!Len0(Inbound!Write(b, p, q)) = Inbound!Len0(b)
<1>1. CASE p = << >>
  <2>1. Inbound!Write(b, p, q) = b BY <1>1 DEF Inbound!Write
  <2>2. Inbound!Bytes(b) \in Seq(Byte) BY HeldFacts
  <2>3. Inbound!Bytes(b) \o << >> = Inbound!Bytes(b) BY <2>2, ConcatEmptySeq
  <2> QED BY <1>1, <2>1, <2>3
<1>2. CASE p # << >>
  <2> DEFINE g == Inbound!instance(b, q)
             d == RP!Write(g, p)
  <2>1. Inbound!Write(b, p, q) = d BY <1>2, InboundRingIsRP DEF Inbound!Write
  <2>2. g \in RP!Rings(Byte) /\ RP!Bytes(g) = Inbound!Bytes(b) /\ (b # Nil => g = b) BY InstanceIs
  <2> HIDE DEF g
  <2>3. RP!CeilToPowerOfTwo(Len(p)) \in Nat /\ RP!CeilToPowerOfTwo(Len(p)) >= Len(p)
    <3> DEFINE n == Len(p)
    <3>1. n \in 1..MaxBytes
      <4>1. n \in Nat /\ n # 0 BY <1>2
      <4>2. MaxBytes \in Int BY StreamAssumption
      <4> QED BY <4>1, <4>2
    <3> HIDE DEF n
    <3>2. Ring!CeilToPowerOfTwo(n) \in Nat /\ n <= Ring!CeilToPowerOfTwo(n) BY <3>1, CeilAssumption
    <3>3. Ring!CeilToPowerOfTwo(n) = RP!CeilToPowerOfTwo(n) BY RingIsRP
    <3>4. n \in Nat BY <3>1
    <3>5. RP!CeilToPowerOfTwo(n) \in Nat /\ RP!CeilToPowerOfTwo(n) >= n BY <3>2, <3>3, <3>4
    <3> QED BY <3>5 DEF n
  <2>4. /\ d \in RP!Rings(Byte) /\ RP!Bytes(d) = RP!Bytes(g) \o p
        /\ Len(p) <= RP!Available(g) => RP!Size(d) = RP!Size(g)
    <3>1. /\ Junk \in Byte /\ DefaultBufferSize \in Nat \ {0}
          /\ GrowThreshold \in Nat /\ GrowThreshold >= 4
      BY Scale
    <3>2. RP!Size(g) = 0 /\ Len(p) > DefaultBufferSize =>
            RP!CeilToPowerOfTwo(Len(p)) \in Nat /\ RP!CeilToPowerOfTwo(Len(p)) >= Len(p)
      BY <2>3
    <3> QED BY <2>2, <3>1, <3>2, RP!WriteAppendsAlways
  <2> HIDE DEF d
  <2>5. RP!Bytes(d) # << >>
    <3> DEFINE s == RP!Bytes(g)
    <3>1. s \in Seq(Byte) BY <2>2, RP!BytesOf
    <3> HIDE DEF s
    <3>2. s \o p # << >> BY <1>2, <3>1, ConcatEqualIffEmpty
    <3> QED BY <2>4, <3>2 DEF s
  <2>6. d \in Held /\ d # Nil BY <2>4, <2>5, BytesNeedSlots
  <2>7. Inbound!Bytes(d) = RP!Bytes(d) /\ Inbound!Len0(d) = RP!Size(d) BY <2>6, InHand
  <2>8. b # Nil => Inbound!Available(b) = RP!Available(b) /\ Inbound!Len0(b) = RP!Size(b) BY InHand
  <2> QED BY <2>1, <2>2, <2>4, <2>6, <2>7, <2>8
<1> QED BY <1>1, <1>2

(* WriteByte of the inbound buffer, unless it panics. *)
LEMMA InboundWriteByte ==
  ASSUME NEW b \in Held, NEW c \in Byte, NEW q \in Pooled,
         ~Ring!WriteBytePanics(Inbound!instance(b, q))
  PROVE  /\ Inbound!WriteByte(b, c, q) \in Held
         /\ Inbound!Bytes(Inbound!WriteByte(b, c, q)) = Append(Inbound!Bytes(b), c)
<1> DEFINE g == Inbound!instance(b, q)
           d == RP!WriteByte(g, c)
<1>1. Inbound!WriteByte(b, c, q) = d BY InboundRingIsRP DEF Inbound!WriteByte
<1>2. g \in RP!Rings(Byte) /\ RP!Bytes(g) = Inbound!Bytes(b) BY InstanceIs
<1>3. ~RP!WriteBytePanics(g) BY RingIsRP
<1> HIDE DEF g
<1>4. d \in RP!Rings(Byte) /\ RP!Bytes(d) = Append(RP!Bytes(g), c) BY <1>2, <1>3, Scale, RP!WriteByteAppends
<1> HIDE DEF d
<1>5. RP!Bytes(d) # << >>
  <2> DEFINE s == RP!Bytes(g)
  <2>1. s \in Seq(Byte) BY <1>2, RP!BytesOf
  <2> HIDE DEF s
  <2>2. Append(s, c) # << >> BY <2>1, AppendProperties
  <2> QED BY <1>4, <2>2 DEF s
<1>6. d \in Held /\ d # Nil BY <1>4, <1>5, BytesNeedSlots
<1>7. Inbound!Bytes(d) = RP!Bytes(d) BY <1>6, InHand
<1> QED BY <1>1, <1>2, <1>4, <1>6, <1>7

(* Peek of the inbound buffer: the first n bytes in two slices, all for n <= 0. *)
LEMMA InboundPeek ==
  ASSUME NEW b \in Held, NEW n \in Int
  PROVE  /\ Inbound!Peek(b, n)[1] \in Seq(Byte) /\ Inbound!Peek(b, n)[2] \in Seq(Byte)
         /\ n <= 0 => Inbound!Peek(b, n)[1] \o Inbound!Peek(b, n)[2] = Inbound!Bytes(b)
         /\ n > 0 => Inbound!Peek(b, n)[1] \o Inbound!Peek(b, n)[2] = FirstBytes(Inbound!Bytes(b), n)
<1>1. CASE b = Nil
  <2>1. Inbound!Peek(b, n)[1] = << >> /\ Inbound!Peek(b, n)[2] = << >> BY <1>1 DEF Inbound!Peek
  <2>2. Inbound!Bytes(b) = << >> BY <1>1 DEF Inbound!Bytes
  <2>3. << >> \o << >> = << >> /\ << >> \in Seq(Byte) /\ Len(<< >>) = 0 OBVIOUS
  <2>4. n > 0 => FirstBytes(<< >>, n) = << >>
    <3>1. n > 0 => Least0(n, Len(<< >>)) = 0 BY <2>3 DEF Least0
    <3> QED BY <3>1, SubSeqEmpty DEF FirstBytes
  <2> QED BY <2>1, <2>2, <2>3, <2>4
<1>2. CASE b # Nil
  <2>1. /\ b \in RP!Rings(Byte) /\ RP!Buffered(b) = Len(RP!Bytes(b)) /\ Inbound!Bytes(b) = RP!Bytes(b)
    BY <1>2, InHand
  <2>2. Inbound!Peek(b, n) = RP!Peek(b, n) BY <1>2, InboundRingIsRP DEF Inbound!Peek
  <2>3. RP!Least(n, RP!Buffered(b)) = Least0(n, Len(RP!Bytes(b))) BY <2>1 DEF RP!Least, Least0
  <2>4. /\ RP!Peek(b, n)[1] \in Seq(Byte) /\ RP!Peek(b, n)[2] \in Seq(Byte)
        /\ n <= 0 => RP!Peek(b, n)[1] \o RP!Peek(b, n)[2] = RP!Bytes(b)
        /\ n > 0 => RP!Peek(b, n)[1] \o RP!Peek(b, n)[2]
                      = SubSeq(RP!Bytes(b), 1, RP!Least(n, RP!Buffered(b)))
    BY <2>1, RP!PeekShowsFront
  <2> QED BY <2>1, <2>2, <2>3, <2>4 DEF FirstBytes
<1> QED BY <1>1, <1>2

(* The slot of the i-th byte is one that Scrub leaves alone. *)
LEMMA HeldSlot ==
  ASSUME NEW s \in Nat, NEW r \in Nat, NEW w \in Nat, NEW k, NEW i \in 1..k, r < s, w < s,
         k = IF w > r THEN w - r ELSE (s - r) + w,
         NEW x, x = IF r + i <= s THEN r + i ELSE (r + i) - s
  PROVE  IF r < w THEN r < x /\ x <= w ELSE r < x \/ x <= w
OBVIOUS

(* Scrub forgets only slots that hold no byte. *)
LEMMA ScrubKeepsRing ==
  ASSUME NEW b \in Slotted
  PROVE  /\ Scrub(b) \in Slotted /\ RP!Bytes(Scrub(b)) = RP!Bytes(b)
         /\ Len(Scrub(b).buf) = Len(b.buf) /\ RP!Available(Scrub(b)) = RP!Available(b)
<1> DEFINE s == Len(b.buf)
           held(i) == ~b.empty /\ IF b.r < b.w THEN b.r < i /\ i <= b.w ELSE b.r < i \/ i <= b.w
           v == [i \in 1..s |-> IF held(i) THEN b.buf[i] ELSE Junk]
           d == [buf |-> v, r |-> b.r, w |-> b.w, empty |-> b.empty]
<1>1. b \in RP!Rings(Byte) /\ b # Nil /\ Len(b.buf) > 0 BY NilIsNoRing DEF Slotted
<1>2. /\ b.buf \in Seq(Byte) /\ s \in Nat /\ b.r \in Nat /\ b.w \in Nat /\ b.empty \in BOOLEAN
      /\ b.r < s /\ b.w < s /\ (b.empty => b.r = 0 /\ b.w = 0)
      /\ RP!Buffered(b) = IF b.empty THEN 0 ELSE IF b.w > b.r THEN b.w - b.r ELSE (s - b.r) + b.w
      /\ RP!Available(b) = s - RP!Buffered(b)
      /\ RP!Buffered(b) \in 0..s
  BY <1>1, RP!RingFacts
<1>3. DOMAIN b.buf = 1..s BY <1>2
<1>4. v \in Seq(Byte) /\ Len(v) = s
  <2>1. ASSUME NEW i \in 1..s PROVE (IF held(i) THEN b.buf[i] ELSE Junk) \in Byte
    <3>1. b.buf[i] \in Byte BY <1>2
    <3>2. Junk \in Byte BY Scale
    <3> HIDE DEF held
    <3> QED BY <3>1, <3>2
  <2> HIDE DEF held
  <2> QED BY <1>2, <2>1
<1>5. Scrub(b) = d
  <2> DEFINE u == [i \in DOMAIN b.buf |-> IF held(i) THEN b.buf[i] ELSE Junk]
             f == [b EXCEPT !.buf = u]
  <2>1. Scrub(b) = f BY <1>1 DEF Scrub
  <2>2. u = v
    <3> HIDE DEF held
    <3> QED BY <1>3
  <2> HIDE DEF u, v
  <2>3. b \in [buf : Seq(Byte), r : Nat, w : Nat, empty : BOOLEAN] BY <1>1 DEF RP!Rings
  <2>4. f \in [buf : {v}, r : {b.r}, w : {b.w}, empty : {b.empty}] BY <2>2, <2>3
  <2> HIDE DEF f
  <2>5. f = d BY <2>4
  <2> QED BY <2>1, <2>5
<1>6. \A i \in 1..s : held(i) => v[i] = b.buf[i] OBVIOUS
<1> HIDE DEF v
<1>7. d.buf = v /\ d.r = b.r /\ d.w = b.w /\ d.empty = b.empty OBVIOUS
<1>8. d \in RP!Rings(Byte)
  <2> DEFINE r == b.r
             w == b.w
             e == b.empty
  <2>1. v \in Seq(Byte) /\ r \in Nat /\ w \in Nat /\ e \in BOOLEAN BY <1>2, <1>4
  <2>2. /\ Len(v) > 0 => r < Len(v) /\ w < Len(v)
        /\ Len(v) = 0 => e
        /\ e => r = 0 /\ w = 0
    BY <1>1, <1>2, <1>4
  <2> HIDE DEF r, w, e
  <2>3. [buf |-> v, r |-> r, w |-> w, empty |-> e] \in RP!Rings(Byte) BY ONLY <2>1, <2>2, RP!RingIs
  <2> QED BY <2>3 DEF r, w, e
<1> HIDE DEF d
<1>9. /\ RP!Buffered(d) = IF d.empty THEN 0 ELSE IF d.w > d.r THEN d.w - d.r ELSE (Len(d.buf) - d.r) + d.w
      /\ RP!Available(d) = Len(d.buf) - RP!Buffered(d)
  BY <1>8, RP!RingFacts
<1>10. RP!Buffered(d) = RP!Buffered(b) /\ RP!Available(d) = RP!Available(b) BY <1>2, <1>4, <1>7, <1>9
<1>11. /\ RP!Bytes(b) \in Seq(Byte) /\ Len(RP!Bytes(b)) = RP!Buffered(b)
       /\ \A i \in 1..RP!Buffered(b) : /\ RP!ReadSlot(b, i) \in 1..s
                                       /\ RP!Bytes(b)[i] = b.buf[RP!ReadSlot(b, i)]
  BY <1>1, RP!BytesOf
<1>12. ASSUME NEW i \in 1..Len(RP!Bytes(b)) PROVE RP!Bytes(b)[i] = d.buf[RP!ReadSlot(d, i)]
  <2> DEFINE x == RP!ReadSlot(b, i)
             k == RP!Buffered(b)
  <2>1. i \in 1..k /\ x \in 1..s /\ RP!Bytes(b)[i] = b.buf[x] BY <1>11
  <2>2. RP!ReadSlot(d, i) = x BY <1>4, <1>7 DEF RP!ReadSlot
  <2>3. x = IF b.r + i <= s THEN b.r + i ELSE (b.r + i) - s BY DEF RP!ReadSlot
  <2>4. ~b.empty
    <3> SUFFICES ASSUME b.empty PROVE FALSE BY <1>2
    <3>1. k = 0 BY <1>2
    <3> HIDE DEF k, x
    <3> QED BY <2>1, <3>1
  <2>5. k = IF b.w > b.r THEN b.w - b.r ELSE (s - b.r) + b.w BY <1>2, <2>4
  <2>6. IF b.r < b.w THEN b.r < x /\ x <= b.w ELSE b.r < x \/ x <= b.w
    <3> DEFINE r == b.r
               w == b.w
    <3>1. /\ s \in Nat /\ r \in Nat /\ w \in Nat /\ r < s /\ w < s /\ i \in 1..k
          /\ k = IF w > r THEN w - r ELSE (s - r) + w
          /\ x = IF r + i <= s THEN r + i ELSE (r + i) - s
      BY <1>2, <2>1, <2>3, <2>5
    <3> HIDE DEF r, w, s, k, x
    <3>2. IF r < w THEN r < x /\ x <= w ELSE r < x \/ x <= w BY ONLY <3>1, HeldSlot
    <3> QED BY <3>2 DEF r, w
  <2>7. held(x) BY <2>4, <2>6
  <2> HIDE DEF held, x
  <2>8. v[x] = b.buf[x] BY <1>6, <2>1, <2>7
  <2> QED BY <1>7, <2>1, <2>2, <2>8
<1>13. RP!Bytes(d) = RP!Bytes(b)
  <2> DEFINE c == RP!Bytes(b)
  <2>1. c \in Seq(Byte) /\ Len(c) = RP!Buffered(d) /\ \A i \in 1..Len(c) : c[i] = d.buf[RP!ReadSlot(d, i)]
    BY <1>10, <1>11, <1>12
  <2> HIDE DEF c
  <2>2. RP!Bytes(d) = c BY <1>8, <2>1, RP!BytesAre
  <2> QED BY <2>2 DEF c
<1> QED BY <1>1, <1>4, <1>5, <1>7, <1>8, <1>10, <1>13 DEF Slotted

(* What a call leaves, as the buffer that holds it. *)
LEMMA ScrubKeeps ==
  ASSUME NEW b \in Held
  PROVE  /\ Scrub(b) \in Held /\ Inbound!Bytes(Scrub(b)) = Inbound!Bytes(b)
         /\ Inbound!Len0(Scrub(b)) = Inbound!Len0(b) /\ Inbound!Buffered(Scrub(b)) = Inbound!Buffered(b)
         /\ b \in Slotted => Scrub(b) \in Slotted /\ RP!Available(Scrub(b)) = RP!Available(b)
<1>1. CASE b = Nil
  <2>1. Scrub(b) = b /\ b \notin Slotted BY <1>1, NilIsNoRing DEF Scrub, Slotted
  <2> QED BY <2>1
<1>2. CASE b # Nil
  <2> DEFINE d == Scrub(b)
  <2>1. b \in Slotted BY <1>2, InHand
  <2>2. d \in Slotted /\ RP!Bytes(d) = RP!Bytes(b) /\ Len(d.buf) = Len(b.buf) /\ RP!Available(d) = RP!Available(b)
    BY <2>1, ScrubKeepsRing
  <2> HIDE DEF d
  <2>3. d \in Held /\ d # Nil BY <2>2, NilIsNoRing DEF Held, Slotted
  <2>4. /\ Inbound!Bytes(d) = RP!Bytes(d) /\ Inbound!Buffered(d) = Len(RP!Bytes(d)) /\ Inbound!Len0(d) = Len(d.buf)
        /\ Inbound!Bytes(b) = RP!Bytes(b) /\ Inbound!Buffered(b) = Len(RP!Bytes(b)) /\ Inbound!Len0(b) = Len(b.buf)
    BY <1>2, <2>3, InHand
  <2> QED BY <2>2, <2>3, <2>4 DEF d
<1> QED BY <1>1, <1>2

-----------------------------------------------------------------------------
(* Two takings, one behind the other *)

(* What is left after m bytes and then n is what is left after m + n. *)
LEMMA RestOfRest ==
  ASSUME NEW T, NEW s \in Seq(T), NEW m \in Nat, NEW n \in Nat, m + n <= Len(s)
  PROVE  LP!Rest(LP!Rest(s, m), n) = LP!Rest(s, m + n)
<1> DEFINE a == Len(s)
           u == LP!Rest(s, m)
           x == LP!Rest(u, n)
           k == m + n
           y == LP!Rest(s, k)
<1>1. a \in Nat /\ k \in Nat /\ m <= a /\ k <= a OBVIOUS
<1>2. u \in Seq(T) /\ Len(u) = a - m /\ \A i \in 1..Len(u) : u[i] = s[m + i] BY <1>1, LP!RestOf
<1>3. y \in Seq(T) /\ Len(y) = a - k /\ \A i \in 1..Len(y) : y[i] = s[k + i]
  <2> HIDE DEF k
  <2> QED BY <1>1, LP!RestOf
<1> HIDE DEF u
<1>4. /\ x \in Seq(T) /\ Len(x) = IF n <= Len(u) THEN Len(u) - n ELSE 0
      /\ \A i \in 1..Len(x) : x[i] = u[n + i]
  BY <1>2, LP!RestOf
<1> HIDE DEF x, y, a
<1>5. Len(x) = Len(y) BY <1>1, <1>2, <1>3, <1>4
<1>6. ASSUME NEW i \in 1..Len(x) PROVE x[i] = y[i]
  <2>1. n + i \in 1..Len(u) /\ m + (n + i) = k + i /\ i \in 1..Len(y) BY <1>1, <1>2, <1>3, <1>5
  <2>2. x[i] = u[n + i] /\ u[n + i] = s[m + (n + i)] /\ y[i] = s[k + i] BY <1>2, <1>3, <1>4, <2>1
  <2> QED BY <2>1, <2>2
<1>7. x = y BY <1>3, <1>4, <1>5, <1>6, SeqEqual
<1> QED BY <1>7 DEF x, y, u

(* The first m and then the first n of what is left are the first m + n. *)
LEMMA FirstOfRest ==
  ASSUME NEW T, NEW s \in Seq(T), NEW m \in Nat, NEW n \in Nat, m + n <= Len(s)
  PROVE  /\ SubSeq(s, 1, m) \o SubSeq(LP!Rest(s, m), 1, n) = SubSeq(s, 1, m + n)
         /\ Len(SubSeq(s, 1, m + n)) = m + n
<1> DEFINE a == Len(s)
           u == LP!Rest(s, m)
           x == SubSeq(s, 1, m)
           y == SubSeq(u, 1, n)
           k == m + n
           z == SubSeq(s, 1, k)
           c == x \o y
<1>1. a \in Nat /\ k \in Nat /\ m <= a /\ k <= a OBVIOUS
<1>2. u \in Seq(T) /\ Len(u) = a - m /\ \A i \in 1..Len(u) : u[i] = s[m + i] BY <1>1, LP!RestOf
<1>3. z \in Seq(T) /\ Len(z) = k /\ \A i \in 1..k : z[i] = s[i]
  <2> HIDE DEF k
  <2> QED BY <1>1, LP!FirstOf
<1>4. x \in Seq(T) /\ Len(x) = m /\ \A i \in 1..m : x[i] = s[i] BY <1>1, LP!FirstOf
<1>5. n <= Len(u) BY <1>1, <1>2
<1> HIDE DEF u
<1>6. y \in Seq(T) /\ Len(y) = n /\ \A i \in 1..n : y[i] = u[i] BY <1>2, <1>5, LP!FirstOf
<1> HIDE DEF x, y, z, a
<1>7. /\ c \in Seq(T) /\ Len(c) = Len(x) + Len(y)
      /\ \A i \in 1..(Len(x) + Len(y)) : c[i] = IF i <= Len(x) THEN x[i] ELSE y[i - Len(x)]
  BY <1>4, <1>6, ConcatProperties
<1> HIDE DEF c
<1>8. Len(c) = Len(z) BY <1>3, <1>4, <1>6, <1>7
<1>9. ASSUME NEW i \in 1..Len(c) PROVE c[i] = z[i]
  <2>1. i \in 1..k /\ i \in 1..(Len(x) + Len(y)) /\ (~(i <= m) => i - m \in 1..n /\ m + (i - m) = i)
    BY <1>3, <1>4, <1>6, <1>7
  <2>2. c[i] = IF i <= m THEN x[i] ELSE y[i - m] BY <1>4, <1>7, <2>1
  <2>3. z[i] = s[i] BY <1>3, <2>1
  <2>4. CASE i <= m
    <3>1. i \in 1..m BY <2>4
    <3> QED BY <1>4, <2>2, <2>3, <2>4, <3>1
  <2>5. CASE ~(i <= m)
    <3>1. y[i - m] = u[i - m] /\ i - m \in 1..Len(u) BY <1>5, <1>2, <1>6, <2>1, <2>5
    <3>2. u[i - m] = s[m + (i - m)] BY <1>2, <3>1
    <3> QED BY <2>1, <2>2, <2>3, <2>5, <3>1, <3>2
  <2> QED BY <2>4, <2>5
<1>10. c = z BY <1>3, <1>7, <1>8, <1>9, SeqEqual
<1> QED BY <1>3, <1>10 DEF c, x, y, z, u

-----------------------------------------------------------------------------
(* Framing *)

AllOr(n, s) == IF n <= 0 THEN Len(s) ELSE n

(* Peek of a connection: exactly n bytes, all for n <= 0, an error if there are fewer. *)
LEMMA ConnPeekIs ==
  ASSUME NEW b \in Held, NEW n \in Int, NEW c, c = Inbound!Bytes(b)
  PROVE  /\ n > Len(c) \/ c = << >> => /\ ~Conn!Peek(b, n).ok /\ Conn!Peek(b, n).data = << >>
                                      /\ Conn!Peek(b, n).b = b
         /\ ~(n > Len(c) \/ c = << >>) =>
              /\ Conn!Peek(b, n).ok /\ Conn!Peek(b, n).data = SubSeq(c, 1, AllOr(n, c))
              /\ Conn!Peek(b, n).b = b
<1>1. /\ c \in Seq(Byte) /\ Len(c) \in Nat /\ Inbound!Buffered(b) = Len(c)
      /\ (Inbound!IsEmpty(b) <=> c = << >>)
  BY HeldFacts
<1>2. Conn!In!Buffered(b) = Len(c) /\ (Conn!In!IsEmpty(b) <=> c = << >>) BY <1>1, ConnIsInbound
<1>3. CASE n > Len(c) \/ c = << >>
  <2>1. Conn!Peek(b, n) = [ok |-> FALSE, data |-> << >>, b |-> b]
    BY <1>2, <1>3 DEF Conn!Peek, Conn!ErrShort, Conn!Answer
  <2> QED BY <1>3, <2>1
<1>4. CASE ~(n > Len(c) \/ c = << >>)
  <2> DEFINE m == AllOr(n, c)
             p == Inbound!Peek(b, m)
             d == p[1] \o p[2]
  <2>1. m = Conn!OrAll(n, b) BY <1>2 DEF Conn!OrAll, AllOr
  <2>2. m \in Int /\ m > 0 /\ m <= Len(c)
    <3>1. Len(c) > 0 BY <1>1, <1>4
    <3> QED BY <1>1, <1>4, <3>1 DEF AllOr
  <2>3. Conn!Peek(b, n) = [ok |-> TRUE, data |-> d, b |-> b]
    <3> HIDE DEF m
    <3>1. Conn!In!Peek(b, m) = p BY ConnIsInbound
    <3> QED BY <1>2, <1>4, <2>1, <3>1 DEF Conn!Peek, Conn!Answer
  <2>4. d = SubSeq(c, 1, m)
    <3> HIDE DEF m
    <3>1. d = FirstBytes(c, m) BY <2>2, InboundPeek
    <3>2. Least0(m, Len(c)) = m BY <1>1, <2>2 DEF Least0
    <3> QED BY <3>1, <3>2 DEF FirstBytes
  <2> HIDE DEF d, m
  <2>5. Conn!Peek(b, n).ok /\ Conn!Peek(b, n).data = d /\ Conn!Peek(b, n).b = b BY <2>3
  <2> QED BY <1>4, <2>4, <2>5 DEF m
<1> QED BY <1>3, <1>4

(* Discard of a connection: all when n is 0 or less or more than there are. *)
LEMMA ConnDiscardIs ==
  ASSUME NEW b \in Held, NEW n \in Int, NEW c, c = Inbound!Bytes(b)
  PROVE  /\ Conn!Discard(b, n) \in Held
         /\ n > Len(c) \/ n <= 0 => Inbound!Bytes(Conn!Discard(b, n)) = << >>
         /\ ~(n > Len(c) \/ n <= 0) => Inbound!Bytes(Conn!Discard(b, n)) = LP!Rest(c, n)
<1>1. Len(c) \in Nat /\ Conn!In!Buffered(b) = Len(c) BY HeldFacts, ConnIsInbound
<1>2. CASE n > Len(c) \/ n <= 0
  <2>1. Conn!Discard(b, n) = Inbound!Reset(b) BY <1>1, <1>2, ConnIsInbound DEF Conn!Discard
  <2> QED BY <1>2, <2>1, InboundReset
<1>3. CASE ~(n > Len(c) \/ n <= 0)
  <2>1. Conn!Discard(b, n) = Inbound!Discard(b, n) BY <1>1, <1>3, ConnIsInbound DEF Conn!Discard
  <2>2. n > 0 BY <1>3
  <2> QED BY <1>3, <2>1, <2>2, InboundDiscard
<1> QED BY <1>2, <1>3

(* Next of a connection: exactly n bytes, or nothing. *)
LEMMA ConnNextIs ==
  ASSUME NEW b \in Held, NEW n \in Int, NEW c, c = Inbound!Bytes(b)
  PROVE  /\ Conn!Next(b, n).b \in Held
         /\ n > Len(c) \/ c = << >> => Conn!Next(b, n).data = << >> /\ Conn!Next(b, n).b = b
         /\ ~(n > Len(c) \/ c = << >>) =>
              /\ Conn!Next(b, n).data = SubSeq(c, 1, AllOr(n, c))
              /\ Inbound!Bytes(Conn!Next(b, n).b) = LP!Rest(c, AllOr(n, c))
<1>1. c \in Seq(Byte) /\ Len(c) \in Nat /\ Conn!In!Buffered(b) = Len(c) BY HeldFacts, ConnIsInbound
<1>2. CASE n > Len(c) \/ c = << >>
  <2>1. ~Conn!Peek(b, n).ok /\ Conn!Peek(b, n).data = << >> /\ Conn!Peek(b, n).b = b BY <1>2, ConnPeekIs
  <2>2. Conn!Next(b, n) = Conn!Peek(b, n) BY <2>1 DEF Conn!Next
  <2> QED BY <1>2, <2>1, <2>2
<1>3. CASE ~(n > Len(c) \/ c = << >>)
  <2> DEFINE m == AllOr(n, c)
             d == Inbound!Discard(b, m)
             x == SubSeq(c, 1, m)
  <2>1. m = Conn!OrAll(n, b) BY <1>1 DEF Conn!OrAll, AllOr
  <2>2. m \in Int /\ m > 0
    <3>1. Len(c) > 0 BY <1>1, <1>3
    <3> QED BY <1>1, <1>3, <3>1 DEF AllOr
  <2> HIDE DEF m
  <2>3. Conn!Peek(b, n).ok /\ Conn!Peek(b, n).data = x BY <1>3, ConnPeekIs DEF m
  <2>4. Conn!In!Discard(b, m) = d BY ConnIsInbound
  <2>5. Conn!Next(b, n) = [ok |-> TRUE, data |-> x, b |-> d] BY <2>1, <2>3, <2>4 DEF Conn!Next, Conn!Answer
  <2>6. d \in Held /\ Inbound!Bytes(d) = LP!Rest(c, m) BY <2>2, InboundDiscard
  <2> HIDE DEF d, x
  <2>7. Conn!Next(b, n).data = x /\ Conn!Next(b, n).b = d BY <2>5
  <2> QED BY <1>3, <2>6, <2>7 DEF m, x
<1> QED BY <1>2, <1>3

(* Decode: nothing of a message that has not arrived whole, and exactly the message when *)
(* it has, unless its body length is 0 or less.                                         *)
LEMMA ConnDecodeIs ==
  ASSUME NEW b \in Held, NEW c, c = Inbound!Bytes(b)
  PROVE  /\ Conn!Decode(b).b \in Held
         /\ Len(c) < HeadLen => Conn!Decode(b).data = << >> /\ Conn!Decode(b).b = b
         /\ Len(c) >= HeadLen => c[1] \in Byte /\ BodyLen[c[1]] \in Int
         /\ Len(c) >= HeadLen /\ BodyLen[c[1]] > 0 /\ Len(c) < HeadLen + BodyLen[c[1]] =>
              Conn!Decode(b).data = << >> /\ Conn!Decode(b).b = b
         /\ Len(c) >= HeadLen /\ BodyLen[c[1]] > 0 /\ Len(c) >= HeadLen + BodyLen[c[1]] =>
              /\ Conn!Decode(b).data = SubSeq(c, 1, HeadLen + BodyLen[c[1]])
              /\ Inbound!Bytes(Conn!Decode(b).b) = LP!Rest(c, HeadLen + BodyLen[c[1]])
<1> DEFINE head == Conn!Peek(b, HeadLen)
           n    == BodyLen[head.data[1]]
           b1   == Conn!Discard(b, HeadLen)
           body == Conn!Peek(b1, n)
           b2   == Conn!Discard(b1, n)
           d    == Conn!Decode(b)
           h    == SubSeq(c, 1, HeadLen)
           c1   == LP!Rest(c, HeadLen)
<1>1. /\ c \in Seq(Byte) /\ Len(c) \in Nat /\ Conn!In!Buffered(b) = Len(c)
      /\ HeadLen \in Nat /\ HeadLen > 0 /\ BodyLen \in [Byte -> Int]
  BY HeldFacts, ConnIsInbound, StreamAssumption
<1> DEFINE k    == Conn!In!Buffered(b)
           e    == Conn!ErrShort(b)
           e1   == Conn!ErrShort(b1)
           e2   == Conn!Answer(TRUE, head.data \o body.data, b2)
<1>2. d = CASE k < HeadLen -> e
            [] k >= HeadLen /\ k < HeadLen + n -> e
            [] k >= HeadLen /\ k >= HeadLen + n /\ ~body.ok -> e1
            [] OTHER -> e2
  BY DEF Conn!Decode
<1> HIDE DEF d
<1>3. /\ Conn!ErrShort(b).data = << >> /\ Conn!ErrShort(b).b = b
      /\ Conn!ErrShort(b1).b = b1
  <2> HIDE DEF b1
  <2> QED BY DEF Conn!ErrShort, Conn!Answer
<1>4. b1 \in Held BY <1>1, ConnDiscardIs
<1>5. CASE Len(c) < HeadLen
  <2>1. d = Conn!ErrShort(b) /\ ~(Len(c) >= HeadLen)
    <3>1. k \in Nat /\ k < HeadLen /\ ~(k >= HeadLen) BY <1>1, <1>5
    <3> HIDE DEF n, body, e, e1, e2, k
    <3>2. d = e BY ONLY <1>2, <3>1
    <3> QED BY <1>1, <1>5, <3>2 DEF e
  <2> QED BY <1>3, <1>5, <2>1 DEF d
<1>6. CASE ~(Len(c) < HeadLen)
  <2>1. Len(c) >= HeadLen /\ c # << >> BY <1>1, <1>6
  <2>2. head.ok /\ head.data = h
    <3>1. ~(HeadLen > Len(c) \/ c = << >>) /\ HeadLen \in Int BY <1>1, <2>1
    <3>2. AllOr(HeadLen, c) = HeadLen BY <1>1 DEF AllOr
    <3>3. head.ok /\ head.data = SubSeq(c, 1, AllOr(HeadLen, c)) BY <3>1, ConnPeekIs
    <3> QED BY <3>2, <3>3
  <2>3. head.data[1] = c[1] /\ c[1] \in Byte /\ n \in Int /\ n = BodyLen[c[1]]
    <3>1. h[1] = c[1]
      <4>1. HeadLen <= Len(c) /\ 1 \in 1..HeadLen BY <1>1, <2>1
      <4> QED BY <1>1, <4>1, LP!FirstOf
    <3>2. c[1] \in Byte
      <4>1. 1 \in 1..Len(c) BY <1>1, <2>1
      <4> QED BY <1>1, <4>1
    <3> QED BY <1>1, <2>2, <3>1, <3>2
  <2> HIDE DEF n
  <2>4. c1 \in Seq(Byte) /\ Len(c1) = Len(c) - HeadLen /\ Inbound!Bytes(b1) = c1
    <3>1. HeadLen <= Len(c) /\ HeadLen \in Int /\ ~(HeadLen > Len(c) \/ HeadLen <= 0) BY <1>1, <2>1
    <3>2. Inbound!Bytes(b1) = c1 BY <3>1, ConnDiscardIs
    <3> QED BY <1>1, <3>1, <3>2, LP!RestOf
  <2>5. b2 \in Held
    <3> HIDE DEF b1
    <3> QED BY <1>4, <2>3, ConnDiscardIs
  <2> HIDE DEF b1, b2, c1, h, head
  <2>6. CASE Len(c) < HeadLen + n
    <3>1. d = Conn!ErrShort(b)
      <4>1. ~(k < HeadLen) /\ k >= HeadLen /\ k < HeadLen + n /\ ~(k >= HeadLen + n)
        BY <1>1, <2>1, <2>3, <2>6
      <4> HIDE DEF body, e, e1, e2, k
      <4>2. d = e BY ONLY <1>2, <4>1
      <4> QED BY <4>2 DEF e
    <3>2. ~(Len(c) >= HeadLen + n) BY <1>1, <2>3, <2>6
    <3> QED BY <1>3, <2>1, <2>3, <2>6, <3>1, <3>2, <1>6 DEF d
  <2>7. CASE ~(Len(c) < HeadLen + n) /\ ~body.ok
    <3>1. d = Conn!ErrShort(b1)
      <4>1. ~(k < HeadLen) /\ k >= HeadLen /\ ~(k < HeadLen + n) /\ k >= HeadLen + n /\ ~body.ok
        BY <1>1, <2>1, <2>3, <2>7
      <4> HIDE DEF body, e, e1, e2, k
      <4>2. d = e1 BY ONLY <1>2, <4>1
      <4> QED BY <4>2 DEF e1
    <3>2. ~(n > 0)
      <4> SUFFICES ASSUME n > 0 PROVE FALSE OBVIOUS
      <4>1. ~(n > Len(c1) \/ c1 = << >>) BY <1>1, <2>3, <2>4, <2>7
      <4>2. body.ok BY <1>4, <2>3, <2>4, <4>1, ConnPeekIs
      <4> QED BY <2>7, <4>2
    <3> QED BY <1>3, <1>4, <1>6, <2>3, <3>1, <3>2 DEF d
  <2>8. CASE ~(Len(c) < HeadLen + n) /\ body.ok
    <3> DEFINE x == h \o body.data
    <3>1. d = [ok |-> TRUE, data |-> x, b |-> b2]
      <4>1. ~(k < HeadLen) /\ ~(k < HeadLen + n) /\ body.ok BY <1>1, <2>1, <2>3, <2>8
      <4> HIDE DEF body, e, e1, e2, k
      <4>2. d = e2 BY ONLY <1>2, <4>1
      <4>3. e2 = Conn!Answer(TRUE, x, b2) BY <2>2 DEF e2
      <4> HIDE DEF x
      <4> QED BY <4>2, <4>3 DEF Conn!Answer
    <3> HIDE DEF x
    <3>2. d.data = x /\ d.b = b2 BY <3>1
    <3>3. ASSUME n > 0 PROVE x = SubSeq(c, 1, HeadLen + n) /\ Inbound!Bytes(b2) = LP!Rest(c, HeadLen + n)
      <4>1. /\ ~(n > Len(c1) \/ c1 = << >>) /\ ~(n > Len(c1) \/ n <= 0) /\ n \in Nat
            /\ HeadLen + n <= Len(c)
        BY <1>1, <2>3, <2>4, <2>8, <3>3
      <4>2. body.data = SubSeq(c1, 1, n)
        <5>1. AllOr(n, c1) = n BY <2>3, <3>3 DEF AllOr
        <5>2. body.data = SubSeq(c1, 1, AllOr(n, c1)) BY <1>4, <2>3, <2>4, <4>1, ConnPeekIs
        <5> QED BY <5>1, <5>2
      <4>3. Inbound!Bytes(b2) = LP!Rest(c1, n) BY <1>4, <2>3, <2>4, <4>1, ConnDiscardIs DEF b2
      <4>4. LP!Rest(c1, n) = LP!Rest(c, HeadLen + n) BY <1>1, <4>1, RestOfRest DEF c1
      <4>5. h \o SubSeq(c1, 1, n) = SubSeq(c, 1, HeadLen + n) BY <1>1, <4>1, FirstOfRest DEF c1, h
      <4> QED BY <4>2, <4>3, <4>4, <4>5 DEF x
    <3>4. ~(Len(c) < HeadLen + n) BY <2>8
    <3> QED BY <1>6, <2>3, <2>5, <3>2, <3>3, <3>4 DEF d
  <2> QED BY <2>6, <2>7, <2>8
<1> QED BY <1>5, <1>6

-----------------------------------------------------------------------------
(* The inductive invariant *)

(* What a buffer is between two steps, and in the middle of ReadFrom: the ring is one *)
(* with slots, and at the top of a turn it has room for a read.                       *)
Inv ==
  /\ kind \in {"conn", "elastic"} /\ ring \in Held
  /\ list \in Seq(Seq(Byte)) /\ (kind = "conn" => list = << >>)
  /\ loop \in {"no", "first", "second", "list"}
  /\ loop \in {"first", "second"} => ring \in Slotted /\ list = << >>
  /\ loop = "first" => RP!Available(ring) >= MinRead
  /\ loop = "list" => kind = "elastic" /\ (list # << >> \/ Inbound!Buffered(ring) >= MaxStatic)
  /\ next \in 0..(Numbers - 1)

(* What StaticLimit says of one step. *)
Limited == kind = "elastic" =>
             /\ list = << >> /\ list' # << >> => Inbound!Buffered(ring') >= MaxStatic
             /\ loop = "no" /\ loop' = "no" /\ Inbound!Len0(ring) >= MaxStatic =>
                  Inbound!Len0(ring') <= Inbound!Len0(ring)

(* What is shown of every step. *)
Sound == (call'.op = "panic" \/ Inv') /\ (Defect \/ Queue!Next) /\ Limited

(* The bytes of a buffer: those of the ring, then those of the list. *)
LEMMA ContentOf ==
  /\ Content = Inbound!Bytes(ring) \o LP!Content(list)
  /\ Content' = Inbound!Bytes(ring') \o LP!Content(list')
<1> DEFINE m == [ring |-> ring, list |-> list]
<1>1. mb.ring = ring /\ mb.list = list BY DEF mb
<1>2. mb'.ring = ring' /\ mb'.list = list' BY DEF mb
<1>3. \A x : Mixed!Content(x) = Inbound!Bytes(x.ring) \o LP!Content(x.list)
  BY ElasticIsInbound, MixedListIsLP DEF Mixed!Content
<1>4. Content = Mixed!Content(mb) /\ Content' = Mixed!Content(mb') BY DEF Content
<1> QED BY <1>1, <1>2, <1>3, <1>4

(* The buffered bytes are a sequence of bytes, as many as the ring and the list hold. *)
LEMMA ContentType ==
  ASSUME Inv
  PROVE  /\ Content \in Seq(Byte) /\ Len(Content) \in Nat
         /\ Inbound!Bytes(ring) \in Seq(Byte) /\ LP!Content(list) \in Seq(Byte)
         /\ Len(Content) = Len(Inbound!Bytes(ring)) + Len(LP!Content(list))
         /\ kind = "conn" => Content = Inbound!Bytes(ring)
<1>1. ring \in Held /\ list \in Seq(Seq(Byte)) BY DEF Inv
<1>2. Inbound!Bytes(ring) \in Seq(Byte) BY <1>1, HeldFacts
<1>3. LP!Content(list) \in Seq(Byte) BY <1>1, LP!ContentIs
<1> DEFINE s == Inbound!Bytes(ring)
           u == LP!Content(list)
<1>4. Content = s \o u BY ContentOf
<1>5. kind = "conn" => u = << >> BY LP!ContentOfNone DEF Inv
<1> HIDE DEF s, u
<1>6. s \in Seq(Byte) /\ u \in Seq(Byte) BY <1>2, <1>3 DEF s, u
<1>7. s \o u \in Seq(Byte) /\ Len(s \o u) = Len(s) + Len(u) BY <1>6, ConcatProperties
<1>8. Len(s \o u) \in Nat BY <1>7
<1>9. s \o << >> = s BY <1>6, ConcatEmptySeq
<1> QED BY <1>4, <1>5, <1>6, <1>7, <1>8, <1>9 DEF s, u

(* Whatever a call leaves, the buffer holds its bytes. *)
LEMMA BecomesIs ==
  ASSUME NEW b \in Held, NEW l \in Seq(Seq(Byte)), Becomes(b, l)
  PROVE  /\ ring' \in Held /\ list' = l /\ kind' = kind
         /\ Inbound!Len0(ring') = Inbound!Len0(b) /\ Inbound!Buffered(ring') = Inbound!Buffered(b)
         /\ Content' = Inbound!Bytes(b) \o LP!Content(l)
         /\ b \in Slotted => ring' \in Slotted /\ RP!Available(ring') = RP!Available(b)
<1>1. ring' = Scrub(b) /\ list' = l /\ kind' = kind BY DEF Becomes
<1>2. /\ Scrub(b) \in Held /\ Inbound!Bytes(Scrub(b)) = Inbound!Bytes(b)
      /\ Inbound!Len0(Scrub(b)) = Inbound!Len0(b) /\ Inbound!Buffered(Scrub(b)) = Inbound!Buffered(b)
      /\ b \in Slotted => Scrub(b) \in Slotted /\ RP!Available(Scrub(b)) = RP!Available(b)
  BY ScrubKeeps
<1> QED BY <1>1, <1>2, ContentOf

(* A call outside ReadFrom that leaves a buffer of the right shape. *)
LEMMA CallKeeps ==
  ASSUME Inv, NEW b \in Held, NEW l \in Seq(Seq(Byte)), Becomes(b, l), loop' = "no",
         kind = "conn" => l = << >>, next' \in 0..(Numbers - 1)
  PROVE  Inv'
<1>1. ring' \in Held /\ list' = l /\ kind' = kind BY BecomesIs
<1> QED BY <1>1 DEF Inv

(* The same of an inbound buffer, which has no list. *)
LEMMA ConnKeeps ==
  ASSUME Inv, kind = "conn", NEW b \in Held, Becomes(b, list), loop' = "no", next' \in 0..(Numbers - 1)
  PROVE  Inv' /\ Limited /\ Content' = Inbound!Bytes(b)
<1>1. list = << >> /\ list \in Seq(Seq(Byte)) BY DEF Inv
<1>2. Inv' BY <1>1, CallKeeps
<1>3. Limited BY DEF Limited
<1>4. Content' = Inbound!Bytes(b) \o LP!Content(list) BY <1>1, BecomesIs
<1>5. LP!Content(list) = << >> BY <1>1, LP!ContentOfNone
<1>6. Inbound!Bytes(b) \o << >> = Inbound!Bytes(b)
  <2>1. Inbound!Bytes(b) \in Seq(Byte) BY HeldFacts
  <2> QED BY <2>1, ConcatEmptySeq
<1> QED BY <1>2, <1>3, <1>4, <1>5, <1>6

(* A number of the stream. *)
LEMMA Number ==
  ASSUME NEW n \in Nat
  PROVE  n % Numbers \in 0..(Numbers - 1) /\ n % Numbers \in Byte
<1>1. Numbers \in Nat \ {0} BY StreamAssumption
<1>2. n % Numbers \in Nat /\ n % Numbers < Numbers BY <1>1, RP!ModInside
<1> DEFINE x == n % Numbers
<1>3. x \in Nat /\ x < Numbers BY <1>2
<1> HIDE DEF x
<1>4. x \in 0..(Numbers - 1) BY <1>1, <1>3
<1> QED BY <1>4 DEF x, Byte

(* The bytes that come. *)
LEMMA IncomingIs ==
  ASSUME Inv, NEW k \in Sizes
  PROVE  /\ k \in Nat /\ k <= MaxBytes /\ k \in 0..Numbers
         /\ Incoming(k) \in Seq(Byte) /\ Len(Incoming(k)) = k
         /\ k = 0 => Incoming(k) = << >>
<1>1. k \in Nat /\ k <= MaxBytes /\ k \in 0..Numbers
  <2>1. Len(Content) \in Nat BY ContentType
  <2>2. MaxBytes \in Nat /\ MaxBytes <= Numbers /\ Numbers \in Nat BY StreamAssumption
  <2> QED BY <2>1, <2>2 DEF Sizes
<1>2. ASSUME NEW i \in 1..k PROVE (next + i - 1) % Numbers \in Byte
  <2>1. next \in Nat
    <3>1. next \in 0..(Numbers - 1) BY DEF Inv
    <3> QED BY <3>1
  <2>2. next + i - 1 \in Nat BY <2>1
  <2> DEFINE m == next + i - 1
  <2> HIDE DEF m
  <2>3. m % Numbers \in Byte BY <2>2, Number DEF m
  <2> QED BY <2>3 DEF m
<1>3. Incoming(k) \in Seq(Byte) /\ Len(Incoming(k)) = k
  <2> DEFINE e(i) == (next + i - 1) % Numbers
  <2>1. \A i \in 1..k : e(i) \in Byte BY <1>2
  <2>2. Incoming(k) = [i \in 1..k |-> e(i)] BY DEF Incoming
  <2> HIDE DEF e
  <2>3. [i \in 1..k |-> e(i)] \in Seq(Byte) BY <1>1, <2>1
  <2>4. Len([i \in 1..k |-> e(i)]) = k BY <1>1
  <2> QED BY <2>2, <2>3, <2>4
<1>4. k = 0 => Incoming(k) = << >>
  <2> DEFINE s == Incoming(k)
  <2>1. s \in Seq(Byte) /\ Len(s) = k BY <1>3
  <2> HIDE DEF s
  <2>2. k = 0 => s = << >> BY <2>1
  <2> QED BY <2>2 DEF s
<1> QED BY <1>1, <1>3, <1>4

-----------------------------------------------------------------------------
(* The steps of a byte queue *)

(* Bytes that came and stand behind the others: a Put. *)
LEMMA PutStep ==
  ASSUME Inv, NEW k \in Sizes, Comes(k), Content' = Content \o Incoming(k)
  PROVE  Queue!Next /\ next' \in 0..(Numbers - 1)
<1>1. k \in 0..Numbers /\ k \in Nat BY IncomingIs
<1>2. call'.op = "put" /\ call'.n = k /\ next' = (next + k) % Numbers BY DEF Comes, Is
<1>3. Queue!Put BY <1>1, <1>2 DEF Queue!Put, Incoming
<1>4. next' \in 0..(Numbers - 1)
  <2>1. next \in 0..(Numbers - 1) BY DEF Inv
  <2>2. next + k \in Nat BY <1>1, <2>1
  <2> QED BY <1>2, <2>2, Number
<1> QED BY <1>3, <1>4 DEF Queue!Next

(* The first bytes returned and gone: a Take. *)
LEMMA TakeStep ==
  ASSUME NEW op \in {"take", "write", "writefail"}, NEW n, NEW ret, Is(op, n, ret),
         ret = FirstBytes(Content, n), Content' = LP!Rest(Content, n), Unread
  PROVE  Queue!Next
<1>1. call'.op = op /\ call'.n = n /\ call'.ret = ret BY DEF Is
<1>2. Queue!Take
  BY <1>1 DEF Queue!Take, Queue!Returns, Queue!Front, Queue!Drop, Queue!Least, FirstBytes, Least0, LP!Rest, Unread
<1> QED BY <1>2 DEF Queue!Next

(* What Next(n) promises: n bytes or nothing, and all of them for n <= 0. *)
LEMMA NextStep ==
  ASSUME Content \in Seq(Byte), NEW n \in Nat, NEW ret, Is("next", n, ret), Unread,
         n > Len(Content) \/ Content = << >> => ret = << >> /\ Content' = Content,
         ~(n > Len(Content) \/ Content = << >>) =>
           ret = SubSeq(Content, 1, AllOr(n, Content)) /\ Content' = LP!Rest(Content, AllOr(n, Content))
  PROVE  Queue!Next
<1> DEFINE c == Content
           m == AllOr(n, c)
<1>1. call'.op = "next" /\ call'.n = n /\ call'.ret = ret BY DEF Is
<1>2. c \in Seq(Byte) /\ Len(c) \in Nat OBVIOUS
<1>3. SubSeq(c, 0 + 1, Len(c)) = c BY <1>2, SubSeqFull
<1>4. Queue!OrAll(n) = m BY DEF Queue!OrAll, AllOr
<1>5. CASE n > Len(c)
  <2>1. ret = << >> /\ Content' = c /\ Len(ret) = 0 BY <1>5
  <2>2. Queue!TakeExactly
    BY <1>1, <1>3, <1>5, <2>1 DEF Queue!TakeExactly, Queue!Returns, Queue!Drop, Unread
  <2> QED BY <2>2 DEF Queue!Next
<1>6. CASE ~(n > Len(c)) /\ c = << >>
  <2>1. ret = << >> /\ Content' = c /\ Len(ret) = 0 /\ Len(c) = 0 BY <1>6
  <2>2. Queue!Front(m) = << >>
    <3>1. m = 0 BY <1>6, <2>1 DEF AllOr
    <3>2. Queue!Least(m, Len(c)) = 0 BY <2>1, <3>1 DEF Queue!Least
    <3> QED BY <3>2, SubSeqEmpty DEF Queue!Front
  <2> HIDE DEF m
  <2>3. Queue!TakeExactly
    BY <1>1, <1>3, <1>4, <1>6, <2>1, <2>2 DEF Queue!TakeExactly, Queue!Returns, Queue!Drop, Unread
  <2> QED BY <2>3 DEF Queue!Next
<1>7. CASE ~(n > Len(c)) /\ c # << >>
  <2>1. m \in Nat /\ m <= Len(c) BY <1>2, <1>7 DEF AllOr
  <2> HIDE DEF m
  <2>2. ret = SubSeq(c, 1, m) /\ Content' = LP!Rest(c, m) BY <1>7 DEF m
  <2>3. Len(ret) = m BY <1>2, <2>1, <2>2, LP!FirstOf
  <2>4. Queue!Front(m) = ret
    <3>1. Queue!Least(m, Len(c)) = m BY <1>2, <2>1 DEF Queue!Least
    <3> QED BY <2>2, <3>1 DEF Queue!Front
  <2>5. Queue!TakeExactly
    BY <1>1, <1>4, <1>7, <2>2, <2>3, <2>4 DEF Queue!TakeExactly, Queue!Returns, Queue!Drop, Unread, LP!Rest
  <2> QED BY <2>5 DEF Queue!Next
<1> QED BY <1>5, <1>6, <1>7

(* What Peek(n) of a connection promises: the same bytes, and they stay. *)
LEMMA LookStep ==
  ASSUME Content \in Seq(Byte), NEW n \in Nat, NEW ret, Is("look", n, ret), Unread, Content' = Content,
         n > Len(Content) \/ Content = << >> => ret = << >>,
         ~(n > Len(Content) \/ Content = << >>) => ret = SubSeq(Content, 1, AllOr(n, Content))
  PROVE  Queue!Next
<1> DEFINE c == Content
           m == AllOr(n, c)
<1>1. call'.op = "look" /\ call'.n = n /\ call'.ret = ret BY DEF Is
<1>2. c \in Seq(Byte) /\ Len(c) \in Nat OBVIOUS
<1>3. Queue!OrAll(n) = m BY DEF Queue!OrAll, AllOr
<1>4. ret = IF n > Len(c) THEN << >> ELSE Queue!Front(m)
  <2>1. CASE n > Len(c) BY <2>1
  <2>2. CASE ~(n > Len(c)) /\ c = << >>
    <3>1. m = 0 /\ Len(c) = 0 BY <2>2 DEF AllOr
    <3>2. Queue!Least(m, Len(c)) = 0 BY <3>1 DEF Queue!Least
    <3>3. Queue!Front(m) = << >> BY <3>2, SubSeqEmpty DEF Queue!Front
    <3> QED BY <2>2, <3>3
  <2>3. CASE ~(n > Len(c)) /\ c # << >>
    <3>1. m \in Nat /\ m <= Len(c) BY <1>2, <2>3 DEF AllOr
    <3> HIDE DEF m
    <3>2. Queue!Least(m, Len(c)) = m BY <1>2, <3>1 DEF Queue!Least
    <3>3. ret = SubSeq(c, 1, m) BY <2>3 DEF m
    <3> QED BY <2>3, <3>2, <3>3 DEF Queue!Front
  <2> QED BY <2>1, <2>2, <2>3
<1> HIDE DEF m
<1>5. Queue!LookExactly BY <1>1, <1>3, <1>4 DEF Queue!LookExactly, Queue!Returns, Unread
<1> QED BY <1>5 DEF Queue!Next

(* No byte is left: a Clear. *)
LEMMA ClearStep ==
  ASSUME Is("clear", 0, << >>), Content' = << >>, Unread
  PROVE  Queue!Next
<1>1. call'.op = "clear" BY DEF Is
<1> QED BY <1>1 DEF Queue!Next, Queue!Clear, Unread

(* Nothing a caller can see: an Internal step. *)
LEMMA InternalStep ==
  ASSUME NEW n, NEW ret, Is("internal", n, ret), Content' = Content, Unread
  PROVE  Queue!Next
<1>1. call'.op = "internal" BY DEF Is
<1> QED BY <1>1 DEF Queue!Next, Queue!Internal, Unread

-----------------------------------------------------------------------------
(* The calls of an inbound buffer *)

(* Nothing is put in. *)
LEMMA NextStays ==
  ASSUME Inv, Unread
  PROVE  next' \in 0..(Numbers - 1)
BY DEF Inv, Unread

(* A write to the inbound ring, lazily taken from the pool, is a Put. *)
LEMMA ConnWriteSound ==
  ASSUME Inv, ConnWrite
  PROVE  Sound
<1>1. kind = "conn" /\ loop' = "no" /\ ring \in Held BY DEF ConnWrite, Idle, Inv
<1>2. PICK k \in Sizes, p \in Pooled : Comes(k) /\ Becomes(Inbound!Write(ring, Incoming(k), p), list)
  BY DEF ConnWrite
<1> DEFINE b == Inbound!Write(ring, Incoming(k), p)
<1>3. b \in Held /\ Inbound!Bytes(b) = Inbound!Bytes(ring) \o Incoming(k)
  <2> DEFINE x == Incoming(k)
  <2>1. x \in Seq(Byte) /\ Len(x) <= MaxBytes BY IncomingIs
  <2> HIDE DEF x
  <2>2. Inbound!Write(ring, x, p) \in Held /\ Inbound!Bytes(Inbound!Write(ring, x, p)) = Inbound!Bytes(ring) \o x
    BY <1>1, <2>1, InboundWrite
  <2> QED BY <2>2 DEF x
<1>4. Becomes(b, list) BY <1>2
<1> HIDE DEF b
<1>5. next' \in 0..(Numbers - 1)
  <2>1. k \in Nat /\ next \in 0..(Numbers - 1) BY IncomingIs DEF Inv
  <2>2. next + k \in Nat /\ next' = (next + k) % Numbers BY <1>2, <2>1 DEF Comes
  <2> QED BY <2>2, Number
<1>6. Inv' /\ Limited /\ Content' = Inbound!Bytes(b) BY <1>1, <1>3, <1>4, <1>5, ConnKeeps
<1>7. Content = Inbound!Bytes(ring) BY <1>1, ContentType
<1>8. Queue!Next BY <1>2, <1>3, <1>6, <1>7, PutStep
<1> QED BY <1>6, <1>8 DEF Sound

(* WriteByte is a Put of one byte, or the index out of range FullRingPanics. *)
LEMMA RingWriteByteSound ==
  ASSUME Inv, RingWriteByte
  PROVE  Sound
<1>1. /\ kind = "conn" /\ loop' = "no" /\ ring \in Held /\ 1 \in Sizes /\ next \in 0..(Numbers - 1)
  BY DEF RingWriteByte, Idle, Inv
<1>2. PICK p \in Pooled :
        LET b == Inbound!instance(ring, p) IN
        IF Ring!WriteBytePanics(b) THEN Is("panic", 1, << >>) /\ Unread /\ Becomes(Ring!grow(b, 1), list)
        ELSE Comes(1) /\ Becomes(Inbound!WriteByte(ring, next, p), list)
  BY DEF RingWriteByte
<1>3. CASE Ring!WriteBytePanics(Inbound!instance(ring, p))
  <2>1. Is("panic", 1, << >>) BY <1>2, <1>3
  <2>2. call'.op = "panic" /\ Limited BY <1>1, <2>1 DEF Is, Limited
  <2>3. Defect BY <2>2 DEF Defect, FullRingPanics
  <2> QED BY <2>2, <2>3 DEF Sound
<1>4. CASE ~Ring!WriteBytePanics(Inbound!instance(ring, p))
  <2> DEFINE b == Inbound!WriteByte(ring, next, p)
  <2>1. Comes(1) /\ Becomes(b, list) BY <1>2, <1>4
  <2>2. next \in Byte BY <1>1 DEF Byte
  <2>3. b \in Held /\ Inbound!Bytes(b) = Append(Inbound!Bytes(ring), next)
    BY <1>1, <1>4, <2>2, InboundWriteByte
  <2> HIDE DEF b
  <2>4. next' \in 0..(Numbers - 1)
    <3>1. next + 1 \in Nat /\ next' = (next + 1) % Numbers BY <1>1, <2>1 DEF Comes
    <3> QED BY <3>1, Number
  <2>5. Inv' /\ Limited /\ Content' = Inbound!Bytes(b) BY <1>1, <2>1, <2>3, <2>4, ConnKeeps
  <2>6. Content = Inbound!Bytes(ring) /\ Inbound!Bytes(ring) \in Seq(Byte) BY <1>1, ContentType
  <2>7. Incoming(1) = <<next>>
    <3>1. next \in Nat /\ Numbers \in Nat \ {0} /\ next < Numbers BY <1>1, StreamAssumption
    <3>2. next % Numbers = next BY <3>1, RP!ModSmall
    <3>3. next + 1 - 1 = next BY <3>1
    <3>4. Incoming(1) = [i \in 1..1 |-> (next + i - 1) % Numbers] BY DEF Incoming
    <3>5. (next + 1 - 1) % Numbers = next BY <3>2, <3>3
    <3> DEFINE e(i) == (next + i - 1) % Numbers
    <3>6. e(1) = next BY <3>5
    <3>7. Incoming(1) = [i \in 1..1 |-> e(i)] BY <3>4
    <3> HIDE DEF e
    <3>8. [i \in 1..1 |-> e(i)] = <<e(1)>> OBVIOUS
    <3> QED BY <3>6, <3>7, <3>8
  <2>8. Append(Inbound!Bytes(ring), next) = Inbound!Bytes(ring) \o <<next>>
    <3> DEFINE s == Inbound!Bytes(ring)
    <3>1. s \in Seq(Byte) BY <2>6
    <3> HIDE DEF s
    <3>2. Append(s, next) = s \o <<next>> BY <2>2, <3>1, AppendIsConcat
    <3> QED BY <3>2 DEF s
  <2>9. Queue!Next BY <1>1, <2>1, <2>3, <2>5, <2>6, <2>7, <2>8, PutStep
  <2> QED BY <2>5, <2>9 DEF Sound
<1> QED BY <1>3, <1>4

(* connection.Read is a Take. *)
LEMMA ConnReadSound ==
  ASSUME Inv, ConnRead
  PROVE  Sound
<1>1. kind = "conn" /\ loop' = "no" /\ ring \in Held /\ Unread BY DEF ConnRead, Idle, Inv
<1>2. PICK n \in Counts : Is("take", n, Inbound!Taken(ring, n)) /\ Becomes(Inbound!Read(ring, n), list)
  BY DEF ConnRead
<1>3. n \in Nat BY DEF Counts
<1> DEFINE b == Inbound!Read(ring, n)
           t == Inbound!Taken(ring, n)
<1>4. /\ b \in Held /\ t = FirstBytes(Inbound!Bytes(ring), n)
      /\ Inbound!Bytes(b) = LP!Rest(Inbound!Bytes(ring), n)
  BY <1>1, <1>3, InboundRead
<1>5. Is("take", n, t) /\ Becomes(b, list) BY <1>2
<1> HIDE DEF b, t
<1>6. Inv' /\ Limited /\ Content' = Inbound!Bytes(b) BY <1>1, <1>4, <1>5, ConnKeeps, NextStays
<1>7. Content = Inbound!Bytes(ring) BY <1>1, ContentType
<1>8. Queue!Next BY <1>1, <1>4, <1>5, <1>6, <1>7, TakeStep
<1> QED BY <1>6, <1>8 DEF Sound

(* connection.Next returns the first n bytes and drops them, or returns none. *)
LEMMA ConnNextSound ==
  ASSUME Inv, ConnNext
  PROVE  Sound
<1>1. kind = "conn" /\ loop' = "no" /\ ring \in Held /\ Unread BY DEF ConnNext, Idle, Inv
<1>2. PICK n \in Counts : Is("next", n, Conn!Next(ring, n).data) /\ Becomes(Conn!Next(ring, n).b, list)
  BY DEF ConnNext
<1>3. n \in Nat /\ n \in Int BY DEF Counts
<1> DEFINE b == Conn!Next(ring, n).b
           t == Conn!Next(ring, n).data
           c == Inbound!Bytes(ring)
<1>4. /\ b \in Held
      /\ n > Len(c) \/ c = << >> => t = << >> /\ b = ring
      /\ ~(n > Len(c) \/ c = << >>) => t = SubSeq(c, 1, AllOr(n, c)) /\ Inbound!Bytes(b) = LP!Rest(c, AllOr(n, c))
  BY <1>1, <1>3, ConnNextIs
<1>5. Is("next", n, t) /\ Becomes(b, list) BY <1>2
<1> HIDE DEF b, t
<1>6. Inv' /\ Limited /\ Content' = Inbound!Bytes(b) BY <1>1, <1>4, <1>5, ConnKeeps, NextStays
<1>7. Content = c /\ Content \in Seq(Byte) BY <1>1, ContentType
<1> HIDE DEF c
<1>8. Queue!Next
  <2>1. n > Len(Content) \/ Content = << >> => t = << >> /\ Content' = Content BY <1>4, <1>6, <1>7 DEF c
  <2>2. ~(n > Len(Content) \/ Content = << >>) =>
          t = SubSeq(Content, 1, AllOr(n, Content)) /\ Content' = LP!Rest(Content, AllOr(n, Content))
    BY <1>4, <1>6, <1>7
  <2> QED BY <1>1, <1>3, <1>5, <1>7, <2>1, <2>2, NextStep
<1> QED BY <1>6, <1>8 DEF Sound

(* connection.Peek returns the first n bytes of a ring that may wrap, and drops none. *)
LEMMA ConnPeekSound ==
  ASSUME Inv, ConnPeek
  PROVE  Sound
<1>1. kind = "conn" /\ loop' = "no" /\ ring \in Held /\ Unread BY DEF ConnPeek, Idle, Inv
<1>2. PICK n \in Counts : Is("look", n, Conn!Peek(ring, n).data) /\ Becomes(ring, list)
  BY DEF ConnPeek
<1>3. n \in Nat /\ n \in Int BY DEF Counts
<1> DEFINE t == Conn!Peek(ring, n).data
           c == Inbound!Bytes(ring)
<1>4. /\ n > Len(c) \/ c = << >> => t = << >>
      /\ ~(n > Len(c) \/ c = << >>) => t = SubSeq(c, 1, AllOr(n, c))
  BY <1>1, <1>3, ConnPeekIs
<1>5. Is("look", n, t) BY <1>2
<1> HIDE DEF t
<1>6. Inv' /\ Limited /\ Content' = c BY <1>1, <1>2, ConnKeeps, NextStays
<1>7. Content = c /\ Content \in Seq(Byte) BY <1>1, ContentType
<1> HIDE DEF c
<1>8. Queue!Next
  <2>1. n > Len(Content) \/ Content = << >> => t = << >> BY <1>4, <1>7
  <2>2. ~(n > Len(Content) \/ Content = << >>) => t = SubSeq(Content, 1, AllOr(n, Content)) BY <1>4, <1>7
  <2>3. Content' = Content BY <1>6, <1>7
  <2> QED BY <1>1, <1>3, <1>5, <1>7, <2>1, <2>2, <2>3, LookStep
<1> QED BY <1>6, <1>8 DEF Sound

(* connection.Discard drops the first n bytes, all of them when n exceeds them. *)
LEMMA ConnDiscardSound ==
  ASSUME Inv, ConnDiscard
  PROVE  Sound
<1>1. kind = "conn" /\ loop' = "no" /\ ring \in Held /\ Unread BY DEF ConnDiscard, Idle, Inv
<1>2. PICK n \in Counts : Is("skip", n, << >>) /\ Becomes(Conn!Discard(ring, n), list) BY DEF ConnDiscard
<1>3. n \in Nat /\ n \in Int BY DEF Counts
<1> DEFINE b == Conn!Discard(ring, n)
           c == Inbound!Bytes(ring)
<1>4. /\ b \in Held
      /\ n > Len(c) \/ n <= 0 => Inbound!Bytes(b) = << >>
      /\ ~(n > Len(c) \/ n <= 0) => Inbound!Bytes(b) = LP!Rest(c, n)
  BY <1>1, <1>3, ConnDiscardIs
<1>5. Becomes(b, list) BY <1>2
<1> HIDE DEF b
<1>6. Inv' /\ Limited /\ Content' = Inbound!Bytes(b) BY <1>1, <1>4, <1>5, ConnKeeps, NextStays
<1>7. Content = c /\ Content \in Seq(Byte) /\ Len(Content) \in Nat BY <1>1, ContentType
<1> HIDE DEF c
<1>8. Queue!Skip
  <2> DEFINE m == IF call'.n > Len(Content) THEN Len(Content) ELSE Queue!OrAll(call'.n)
  <2>1. call'.op = "skip" /\ call'.n = n BY <1>2 DEF Is
  <2>2. Content' = SubSeq(Content, m + 1, Len(Content))
    <3>1. CASE n > Len(c) \/ n <= 0
      <4>1. m = Len(Content) BY <1>3, <1>7, <2>1, <3>1 DEF Queue!OrAll
      <4> HIDE DEF m
      <4>2. SubSeq(Content, Len(Content) + 1, Len(Content)) = << >> BY <1>7, SubSeqEmpty
      <4> QED BY <1>4, <1>6, <3>1, <4>1, <4>2
    <3>2. CASE ~(n > Len(c) \/ n <= 0)
      <4>1. m = n BY <1>3, <1>7, <2>1, <3>2 DEF Queue!OrAll
      <4> HIDE DEF m
      <4> QED BY <1>4, <1>6, <1>7, <3>2, <4>1 DEF LP!Rest
    <3> QED BY <3>1, <3>2
  <2> QED BY <1>1, <2>1, <2>2 DEF Queue!Skip, Queue!Drop, Unread
<1> QED BY <1>6, <1>8 DEF Sound, Queue!Next

(* The codec takes one whole message or nothing; an empty body that takes the whole *)
(* buffer is the defect EmptyBodyTakesAll.                                          *)
LEMMA ConnDecodeSound ==
  ASSUME Inv, ConnDecode
  PROVE  Sound
<1>1. kind = "conn" /\ loop' = "no" /\ ring \in Held /\ Unread BY DEF ConnDecode, Idle, Inv
<1>2. Is("decode", 0, Conn!Decode(ring).data) /\ Becomes(Conn!Decode(ring).b, list) BY DEF ConnDecode
<1> DEFINE b == Conn!Decode(ring).b
           t == Conn!Decode(ring).data
           c == Inbound!Bytes(ring)
           n == BodyLen[c[1]]
           m == HeadLen + n
<1>3. /\ b \in Held
      /\ Len(c) < HeadLen => t = << >> /\ b = ring
      /\ Len(c) >= HeadLen => n \in Int
      /\ Len(c) >= HeadLen /\ n > 0 /\ Len(c) < m => t = << >> /\ b = ring
      /\ Len(c) >= HeadLen /\ n > 0 /\ Len(c) >= m => t = SubSeq(c, 1, m) /\ Inbound!Bytes(b) = LP!Rest(c, m)
  BY <1>1, ConnDecodeIs
<1>4. Is("decode", 0, t) /\ Becomes(b, list) BY <1>2
<1> HIDE DEF b, t
<1>5. Inv' /\ Limited /\ Content' = Inbound!Bytes(b) BY <1>1, <1>3, <1>4, ConnKeeps, NextStays
<1>6. Content = c /\ c \in Seq(Byte) /\ Len(c) \in Nat BY <1>1, ContentType
<1>7. call'.op = "decode" /\ call'.ret = t BY <1>4 DEF Is
<1>8. HeadLen \in Nat /\ HeadLen > 0 BY StreamAssumption
<1>9. Defect \/ Queue!Next
  <2>1. CASE Len(c) >= HeadLen /\ ~(n > 0)
    <3>1. n <= 0 BY <1>3, <2>1
    <3>2. EmptyBodyTakesAll BY <1>6, <1>7, <2>1, <3>1 DEF EmptyBodyTakesAll
    <3> QED BY <3>2 DEF Defect
  <2>2. CASE ~(Len(c) >= HeadLen /\ ~(n > 0))
    <3> DEFINE k == IF Len(c) < HeadLen THEN HeadLen ELSE m
    <3>1. CASE Len(c) < k
      <4>1. t = << >> /\ b = ring
        <5>1. CASE Len(c) < HeadLen BY <1>3, <5>1
        <5>2. CASE ~(Len(c) < HeadLen)
          <6>1. Len(c) >= HeadLen /\ n > 0 /\ Len(c) < m BY <1>6, <1>8, <2>2, <3>1, <5>2
          <6> QED BY <1>3, <6>1
        <5> QED BY <5>1, <5>2
      <4>2. Len(t) = 0 /\ Content' = c BY <1>5, <4>1
      <4>3. SubSeq(c, 0 + 1, Len(c)) = c BY <1>6, SubSeqFull
      <4> QED BY <1>1, <1>6, <1>7, <3>1, <4>1, <4>2, <4>3
           DEF Queue!Next, Queue!Decode, Queue!Returns, Queue!Drop, Unread
    <3>2. CASE ~(Len(c) < k)
      <4>1. Len(c) >= HeadLen /\ n > 0 /\ Len(c) >= m /\ k = m /\ ~(Len(c) < HeadLen) /\ n \in Int
        <5>1. ~(Len(c) < HeadLen)
          <6> SUFFICES ASSUME Len(c) < HeadLen PROVE FALSE OBVIOUS
          <6> QED BY <3>2
        <5>2. k = m /\ Len(c) >= HeadLen BY <1>6, <1>8, <5>1
        <5>3. n \in Int /\ n > 0 BY <1>3, <2>2, <5>2
        <5> QED BY <1>6, <1>8, <3>2, <5>1, <5>2, <5>3
      <4>2. t = SubSeq(c, 1, m) /\ Content' = LP!Rest(c, m) BY <1>3, <1>5, <4>1
      <4>3. m \in Nat /\ m <= Len(c) BY <1>6, <1>8, <4>1
      <4> HIDE DEF m
      <4>4. Len(t) = m BY <1>6, <4>2, <4>3, LP!FirstOf
      <4>5. Queue!Front(m) = t
        <5>1. Queue!Least(m, Len(c)) = m BY <1>6, <4>3 DEF Queue!Least
        <5> QED BY <1>6, <4>2, <5>1 DEF Queue!Front
      <4>6. Content' = SubSeq(Content, Len(call'.ret) + 1, Len(Content)) BY <1>6, <1>7, <4>2, <4>4 DEF LP!Rest
      <4>7. (IF Len(Content) < HeadLen THEN HeadLen ELSE HeadLen + BodyLen[Content[1]]) = m
        BY <1>6, <4>1 DEF m
      <4>8. ~(Len(Content) < m) BY <1>6, <4>3
      <4>9. Queue!Decode BY <1>1, <1>7, <4>5, <4>6, <4>7, <4>8 DEF Queue!Decode, Queue!Returns, Queue!Drop, Unread
      <4> QED BY <4>9 DEF Queue!Next
    <3> QED BY <3>1, <3>2
  <2> QED BY <2>1, <2>2
<1> QED BY <1>5, <1>9 DEF Sound

(* WriteTo drops what the writer took; a writer that takes nothing from a full ring *)
(* drops all of it, the defect NothingTakenDropsAll.                                 *)
LEMMA RingWriteToSound ==
  ASSUME Inv, RingWriteTo
  PROVE  Sound
<1>1. kind = "conn" /\ loop' = "no" /\ loop = "no" /\ ring \in Held /\ Unread
  BY DEF RingWriteTo, Idle, Inv
<1>2. PICK k \in 0..Len(Content) : Is("write", k, Inbound!Taken(ring, k)) /\ Becomes(Inbound!WriteTo(ring, k), list)
  BY DEF RingWriteTo
<1>3. Content = Inbound!Bytes(ring) /\ Len(Content) \in Nat BY <1>1, ContentType
<1>4. k \in Nat /\ k <= Inbound!Buffered(ring)
  <2>1. Inbound!Buffered(ring) = Len(Content) BY <1>1, <1>3, HeldFacts
  <2> QED BY <1>3, <2>1
<1> DEFINE b == Inbound!WriteTo(ring, k)
           t == Inbound!Taken(ring, k)
<1>5. /\ b \in Held
      /\ ~(k = 0 /\ Inbound!IsFull(ring) /\ ring.r = 0) => Inbound!Bytes(b) = LP!Rest(Content, k)
  BY <1>1, <1>3, <1>4, InboundWriteTo
<1>6. t = FirstBytes(Content, k) BY <1>1, <1>3, <1>4, InboundRead
<1>7. Is("write", k, t) /\ Becomes(b, list) BY <1>2
<1> HIDE DEF b, t
<1>8. Inv' /\ Limited /\ Content' = Inbound!Bytes(b) BY <1>1, <1>5, <1>7, ConnKeeps, NextStays
<1>9. CASE k = 0 /\ Inbound!IsFull(ring) /\ ring.r = 0
  <2>1. call'.op = "write" /\ call'.n = k BY <1>7 DEF Is
  <2>2. NothingTakenDropsAll BY <1>9, <2>1 DEF NothingTakenDropsAll
  <2> QED BY <1>8, <2>2 DEF Sound, Defect
<1>10. CASE ~(k = 0 /\ Inbound!IsFull(ring) /\ ring.r = 0)
  <2>1. Queue!Next BY <1>1, <1>5, <1>6, <1>7, <1>8, <1>10, TakeStep
  <2> QED BY <1>8, <2>1 DEF Sound
<1> QED BY <1>9, <1>10

(* Reset leaves no byte. *)
LEMMA ConnResetSound ==
  ASSUME Inv, ConnReset
  PROVE  Sound
<1>1. /\ kind = "conn" /\ loop' = "no" /\ ring \in Held /\ Unread
      /\ Is("clear", 0, << >>) /\ Becomes(Inbound!Reset(ring), list)
  BY DEF ConnReset, Idle, Inv
<1>2. Inbound!Reset(ring) \in Held /\ Inbound!Bytes(Inbound!Reset(ring)) = << >> BY <1>1, InboundReset
<1>3. Inv' /\ Limited /\ Content' = << >> BY <1>1, <1>2, ConnKeeps, NextStays
<1> QED BY <1>1, <1>3, ClearStep DEF Sound

(* release gives the ring back to the pool, with every byte in it. *)
LEMMA ConnReleaseSound ==
  ASSUME Inv, ConnRelease
  PROVE  Sound
<1>1. /\ kind = "conn" /\ loop' = "no" /\ Unread /\ Is("clear", 0, << >>) /\ Becomes(Nil, list)
  BY DEF ConnRelease, Idle
<1>2. Nil \in Held /\ Inbound!Bytes(Nil) = << >> BY DEF Held, Inbound!Bytes
<1>3. Inv' /\ Limited /\ Content' = << >> BY <1>1, <1>2, ConnKeeps, NextStays
<1> QED BY <1>1, <1>3, ClearStep DEF Sound

(* A ring of the ring's proofs that has slots. *)
LEMMA RingInHand ==
  ASSUME NEW d \in RP!Rings(Byte), RP!Size(d) > 0
  PROVE  d \in Held /\ d \in Slotted /\ d # Nil /\ Inbound!Bytes(d) = RP!Bytes(d)
<1>1. d \in Slotted /\ d # Nil BY NilIsNoRing DEF Slotted, RP!Size
<1>2. d \in Held BY <1>1 DEF Held
<1> QED BY <1>1, <1>2, InHand

(* CopyFromSocket appends what one read of the socket brought. *)
LEMMA CopyFromSocketSound ==
  ASSUME Inv, CopyFromSocket
  PROVE  Sound
<1>1. kind = "conn" /\ loop' = "no" /\ ring \in Held /\ ring # Nil BY DEF CopyFromSocket, Idle, Inv
<1>2. PICK k \in Sizes : /\ k <= Ring!Available(Ring!SocketTarget(ring))
                         /\ Comes(k) /\ Becomes(Ring!CopyFromSocket(ring, Incoming(k)), list)
  BY DEF CopyFromSocket
<1> DEFINE x == Incoming(k)
           b == RP!CopyFromSocket(ring, x)
<1>3. x \in Seq(Byte) /\ Len(x) = k BY IncomingIs
<1> HIDE DEF x
<1>4. ring \in RP!Rings(Byte) /\ RP!Size(ring) \in Nat /\ RP!Size(ring) > 0 /\ Inbound!Bytes(ring) = RP!Bytes(ring)
  BY <1>1, InHand
<1>5. Len(x) <= RP!Available(RP!SocketTarget(ring)) BY <1>2, <1>3, RingIsRP
<1>6. b \in RP!Rings(Byte) /\ RP!Size(b) >= RP!Size(ring) /\ RP!Bytes(b) = RP!Bytes(ring) \o x
  BY <1>3, <1>4, <1>5, Scale, RP!CopyFromSocketAppends
<1>7. Comes(k) /\ Becomes(b, list) BY <1>2, RingIsRP DEF x
<1> HIDE DEF b
<1>8. b \in Held /\ Inbound!Bytes(b) = Inbound!Bytes(ring) \o x
  <2>1. RP!Size(b) > 0
    <3>1. RP!Size(b) \in Nat BY <1>6, RP!RingFacts DEF RP!Size
    <3> QED BY <1>4, <1>6, <3>1
  <2> QED BY <1>4, <1>6, <2>1, RingInHand
<1>9. next' \in 0..(Numbers - 1)
  <2>1. k \in Nat /\ next \in 0..(Numbers - 1) BY IncomingIs DEF Inv
  <2>2. next + k \in Nat /\ next' = (next + k) % Numbers BY <1>7, <2>1 DEF Comes
  <2> QED BY <2>2, Number
<1>10. Inv' /\ Limited /\ Content' = Inbound!Bytes(b) BY <1>1, <1>7, <1>8, <1>9, ConnKeeps
<1>11. Content = Inbound!Bytes(ring) BY <1>1, ContentType
<1>12. Queue!Next BY <1>7, <1>8, <1>10, <1>11, PutStep DEF x
<1> QED BY <1>10, <1>12 DEF Sound

(* Rewind moves the bytes to the front in their order, or is RewindRotates or FullRingPanics. *)
LEMMA RewindSound ==
  ASSUME Inv, Rewind
  PROVE  Sound
<1>1. kind = "conn" /\ loop = "no" /\ loop' = "no" /\ ring \in Held /\ ring # Nil /\ Unread
  BY DEF Rewind, Idle, Inv
<1>2. IF Ring!RewindPanics(ring) THEN Is("panic", 0, << >>) /\ Becomes(ring, list)
      ELSE Is("internal", 0, << >>) /\ Becomes(Ring!Rewind(ring), list)
  BY DEF Rewind
<1>3. CASE Ring!RewindPanics(ring)
  <2>1. Is("panic", 0, << >>) /\ Becomes(ring, list) BY <1>2, <1>3
  <2>2. Inv' /\ Limited BY <1>1, <2>1, ConnKeeps, NextStays
  <2>3. Defect BY <2>1 DEF Is, Defect, FullRingPanics
  <2> QED BY <2>2, <2>3 DEF Sound
<1>4. CASE ~Ring!RewindPanics(ring)
  <2> DEFINE b == RP!Rewind(ring)
             bad == RP!IsFull(ring) /\ ring.w # 0 /\ RP!Size(ring) - ring.w < DefaultBufferSize
  <2>1. Is("internal", 0, << >>) /\ Becomes(b, list) /\ ~RP!RewindPanics(ring) BY <1>2, <1>4, RingIsRP
  <2>2. ring \in RP!Rings(Byte) /\ RP!Size(ring) \in Nat /\ RP!Size(ring) > 0 /\ Inbound!Bytes(ring) = RP!Bytes(ring)
    BY <1>1, InHand
  <2>3. b \in RP!Rings(Byte) /\ RP!Size(b) >= RP!Size(ring) /\ (~bad => RP!Bytes(b) = RP!Bytes(ring))
    BY <2>1, <2>2, Scale, RP!RewindKeeps
  <2> HIDE DEF b
  <2>4. b \in Held /\ Inbound!Bytes(b) = RP!Bytes(b)
    <3>1. RP!Size(b) > 0
      <4>1. RP!Size(b) \in Nat BY <2>3, RP!RingFacts DEF RP!Size
      <4> QED BY <2>2, <2>3, <4>1
    <3> QED BY <2>3, <3>1, RingInHand
  <2>5. Inv' /\ Limited /\ Content' = Inbound!Bytes(b) BY <1>1, <2>1, <2>4, ConnKeeps, NextStays
  <2>6. Content = Inbound!Bytes(ring) BY <1>1, ContentType
  <2>7. CASE bad
    <3>1. Inbound!IsFull(ring) BY <1>1, <2>7, InboundRingIsRP DEF Inbound!IsFull
    <3>2. Ring!Size(ring) = RP!Size(ring) BY RingIsRP
    <3>3. call'.op = "internal" BY <2>1 DEF Is
    <3>4. RewindRotates BY <1>1, <2>7, <3>1, <3>2, <3>3 DEF RewindRotates
    <3> QED BY <2>5, <3>4 DEF Sound, Defect
  <2>8. CASE ~bad
    <3>1. Content' = Content BY <2>2, <2>3, <2>4, <2>5, <2>6, <2>8
    <3>2. Queue!Next BY <1>1, <2>1, <3>1, InternalStep
    <3> QED BY <2>5, <3>2 DEF Sound
  <2> QED BY <2>7, <2>8
<1> QED BY <1>3, <1>4
-----------------------------------------------------------------------------
(* The calls of an elastic.Buffer. *)

Lists == Seq(Seq(Byte))
Mb    == [ring : Held, list : Lists]
MC(m) == Inbound!Bytes(m.ring) \o LP!Content(m.list)

(* One sequence behind another. *)
Cat(x, y) == x \o y

(* Which two of three are joined first makes no difference. *)
LEMMA CatAgain ==
  ASSUME NEW T, NEW x \in Seq(T), NEW y \in Seq(T), NEW c \in Seq(T)
  PROVE  Cat(Cat(x, y), c) = Cat(x, Cat(y, c))
<1>1. x \in Seq(T) /\ y \in Seq(T) /\ c \in Seq(T) OBVIOUS
<1>2. (x \o y) \o c = x \o (y \o c) BY ONLY <1>1, ConcatAssociative
<1> QED BY <1>2 DEF Cat

(* The two parts of a buffer, and what they hold together. *)
LEMMA MbFacts ==
  ASSUME NEW m \in Mb
  PROVE  /\ m.ring \in Held /\ m.list \in Seq(Seq(Byte)) /\ m = [ring |-> m.ring, list |-> m.list]
         /\ Inbound!Bytes(m.ring) \in Seq(Byte) /\ LP!Content(m.list) \in Seq(Byte) /\ MC(m) \in Seq(Byte)
         /\ Len(MC(m)) = Len(Inbound!Bytes(m.ring)) + Len(LP!Content(m.list))
         /\ m.list = << >> => MC(m) = Inbound!Bytes(m.ring)
<1>1. m.ring \in Held /\ m.list \in Seq(Seq(Byte)) /\ m = [ring |-> m.ring, list |-> m.list] BY DEF Mb, Lists
<1> DEFINE a == Inbound!Bytes(m.ring)
           c == LP!Content(m.list)
<1>2. a \in Seq(Byte) BY <1>1, HeldFacts
<1>3. c \in Seq(Byte) BY <1>1, LP!ContentIs
<1>4. m.list = << >> => c = << >> BY LP!ContentOfNone
<1>5. MC(m) = a \o c BY DEF MC
<1> HIDE DEF a, c
<1>6. a \o c \in Seq(Byte) /\ Len(a \o c) = Len(a) + Len(c) BY <1>2, <1>3, ConcatProperties
<1>7. a \o << >> = a BY <1>2, ConcatEmptySeq
<1> QED BY <1>1, <1>2, <1>3, <1>4, <1>5, <1>6, <1>7 DEF a, c

(* Cutting a sequence in two. *)
LEMMA CutAt ==
  ASSUME NEW T, NEW p \in Seq(T), NEW n \in Nat, n <= Len(p)
  PROVE  /\ SubSeq(p, 1, n) \in Seq(T) /\ Len(SubSeq(p, 1, n)) = n
         /\ LP!Rest(p, n) \in Seq(T) /\ Len(LP!Rest(p, n)) = Len(p) - n
         /\ SubSeq(p, 1, n) \o LP!Rest(p, n) = p
         /\ n = 0 => SubSeq(p, 1, n) = << >> /\ LP!Rest(p, n) = p
         /\ n = Len(p) => LP!Rest(p, n) = << >>
<1>1. n \in Nat /\ n <= Len(p) /\ Len(p) \in Nat OBVIOUS
<1>2. SubSeq(p, 1, n) \in Seq(T) /\ Len(SubSeq(p, 1, n)) = n BY <1>1, LP!FirstOf
<1> DEFINE c == SubSeq(p, n + 1, Len(p))
<1>3. c = LP!Rest(p, n) BY DEF LP!Rest
<1>4. c \in Seq(T) /\ Len(c) = Len(p) - n BY <1>1, <1>3, LP!RestOf
<1>5. (n = 0 => c = p) /\ (n = Len(p) => c = << >>) BY <1>1, <1>3, LP!RestOf
<1> HIDE DEF c
<1>6. n = 0 => SubSeq(p, 1, n) = << >> BY <1>2, EmptySeq
<1>7. SubSeq(p, 1, n) \o c = p
  <2>1. CASE n = 0
    <3>1. << >> \o p = p BY ConcatEmptySeq
    <3> QED BY <1>5, <1>6, <2>1, <3>1
  <2>2. CASE n # 0
    <3>1. 1 \in 1..(Len(p) + 1) /\ n \in (1 - 1)..Len(p) /\ Len(p) \in n..Len(p) BY <1>1, <2>2
    <3>2. SubSeq(p, 1, n) \o SubSeq(p, n + 1, Len(p)) = SubSeq(p, 1, Len(p)) BY <3>1, ConcatAdjacentSubSeq
    <3>3. SubSeq(p, 1, Len(p)) = p BY SubSeqFull
    <3> QED BY <3>2, <3>3 DEF c
  <2> QED BY <2>1, <2>2
<1> QED BY <1>2, <1>3, <1>4, <1>5, <1>6, <1>7

(* A buffer p may be split over after n bytes, and the buffer that has it. *)
MaySplit(m, p, n, q) == /\ m \in Mb /\ p \in Seq(Byte) /\ Len(p) <= MaxBytes /\ q \in Pooled
                        /\ n \in Nat /\ n <= Len(p) /\ (n > 0 => m.list = << >>)
HasSplit(w, m, p, n) ==
  /\ w \in Mb /\ MC(w) = MC(m) \o p
  /\ n = Len(p) => w.list = m.list
  /\ n = 0 => w.ring = m.ring
  /\ Inbound!Buffered(w.ring) = Inbound!Buffered(m.ring) + n
  /\ n <= Inbound!Available(m.ring) => Inbound!Len0(w.ring) = Inbound!Len0(m.ring)

(* p[:n] into the ring and the rest behind the list is p behind both, when the list *)
(* is empty or the ring takes nothing.                                              *)
LEMMA MixedSplit ==
  ASSUME NEW m, NEW p, NEW n, NEW q, MaySplit(m, p, n, q)
  PROVE  HasSplit(Mixed!Split(m, p, n, q), m, p, n)
<1> /\ m \in Mb /\ p \in Seq(Byte) /\ Len(p) <= MaxBytes /\ q \in Pooled
    /\ n \in Nat /\ n <= Len(p) /\ (n > 0 => m.list = << >>)
  BY DEF MaySplit
<1> DEFINE w == Mixed!Split(m, p, n, q)
<1> DEFINE a == SubSeq(p, 1, n)
           c == SubSeq(p, n + 1, Len(p))
           R == m.ring
           L == m.list
           W == Inbound!Write(R, a, q)
           P == LP!PushBack(L, c)
<1>1. w = [ring |-> W, list |-> P] BY ElasticIsInbound, MixedListIsLP DEF Mixed!Split
<1>2. /\ a \in Seq(Byte) /\ Len(a) = n /\ c \in Seq(Byte) /\ a \o c = p
      /\ (n = 0 => a = << >> /\ c = p) /\ (n = Len(p) => c = << >>)
  <2>1. p \in Seq(Byte) /\ n \in Nat /\ n <= Len(p) OBVIOUS
  <2>2. /\ SubSeq(p, 1, n) \in Seq(Byte) /\ Len(SubSeq(p, 1, n)) = n
        /\ LP!Rest(p, n) \in Seq(Byte)
        /\ SubSeq(p, 1, n) \o LP!Rest(p, n) = p
        /\ (n = 0 => SubSeq(p, 1, n) = << >> /\ LP!Rest(p, n) = p)
        /\ (n = Len(p) => LP!Rest(p, n) = << >>)
    BY ONLY <2>1, CutAt
  <2>3. c = LP!Rest(p, n) BY DEF LP!Rest
  <2> QED BY <2>2, <2>3
<1>3. R \in Held /\ L \in Seq(Seq(Byte)) BY MbFacts
<1>4. Len(a) <= MaxBytes
  <2>1. MaxBytes \in Int /\ Len(p) \in Nat /\ n \in Nat /\ n <= Len(p) BY StreamAssumption
  <2> QED BY <1>2, <2>1
<1> HIDE DEF a, c, R, L, w
<1>5. /\ W \in Held /\ Inbound!Bytes(W) = Inbound!Bytes(R) \o a
      /\ R # Nil /\ Len(a) <= Inbound!Available(R) => Inbound!Len0(W) = Inbound!Len0(R)
  BY <1>2, <1>3, <1>4, InboundWrite
<1>6. P \in Seq(Seq(Byte)) /\ LP!Content(P) = LP!Content(L) \o c BY <1>2, <1>3, LP!PushBackAppends
<1>7. n = Len(p) => P = L BY <1>2 DEF LP!PushBack
<1>8. n = 0 => W = R BY <1>2 DEF Inbound!Write
<1>9. Inbound!Buffered(R) = Len(Inbound!Bytes(R)) /\ Inbound!Bytes(R) \in Seq(Byte) BY <1>3, HeldFacts
<1>10. Inbound!Buffered(W) = Len(Inbound!Bytes(W)) BY <1>5, HeldFacts
<1>11. n > 0 => L = << >> BY DEF L
<1>12. R = Nil => Inbound!Available(R) = 0 BY DEF Inbound!Available
<1> HIDE DEF W, P
<1> DEFINE x == Inbound!Bytes(R)
           y == LP!Content(L)
<1>13. y \in Seq(Byte) /\ (L = << >> => y = << >>) BY <1>3, LP!ContentIs, LP!ContentOfNone
<1>14. MC(w) = (x \o a) \o (y \o c)
  <2>1. w.ring = W /\ w.list = P BY <1>1
  <2>2. MC(w) = Inbound!Bytes(W) \o LP!Content(P) BY <2>1 DEF MC
  <2> QED BY <1>5, <1>6, <2>2
<1>15. MC(m) = x \o y BY DEF MC, R, L
<1>16. x \in Seq(Byte) BY <1>9
<1>17. w \in Mb /\ w.ring = W /\ w.list = P BY <1>1, <1>5, <1>6 DEF Mb, Lists
<1>18. Inbound!Buffered(W) = Inbound!Buffered(R) + n
  <2>0. x \in Seq(Byte) /\ a \in Seq(Byte) BY <1>2, <1>16
  <2>1. Len(x \o a) = Len(x) + Len(a) BY ONLY <2>0, ConcatProperties
  <2> QED BY <1>2, <1>5, <1>9, <1>10, <2>1
<1>19. n \in Nat OBVIOUS
<1>20. n <= Inbound!Available(R) => Inbound!Len0(W) = Inbound!Len0(R)
  <2>1. CASE n = 0 BY <1>8, <2>1
  <2>2. CASE n > 0
    <3>1. n <= Inbound!Available(R) => R # Nil BY <1>12, <1>19, <2>2
    <3> QED BY <1>2, <1>5, <3>1
  <2> QED BY <1>19, <2>1, <2>2
<1> HIDE DEF x, y
<1>21. (x \o a) \o (y \o c) = (x \o y) \o p
  <2>0. x \in Seq(Byte) /\ y \in Seq(Byte) /\ a \in Seq(Byte) /\ c \in Seq(Byte) BY <1>2, <1>13, <1>16
  <2>1. n = 0 \/ n > 0 BY <1>19
  <2>2. y = << >> \/ a = << >> BY <1>2, <1>11, <1>13, <2>1
  <2>3. x \o << >> = x BY ONLY <2>0, ConcatEmptySeq
  <2>4. << >> \o c = c BY ONLY <2>0, ConcatEmptySeq
  <2>5. (x \o y) \o c = x \o (y \o c)
    <3>1. Cat(Cat(x, y), c) = Cat(x, Cat(y, c)) BY ONLY <2>0, CatAgain
    <3> QED BY <3>1 DEF Cat
  <2>6. (x \o a) \o c = x \o (a \o c)
    <3>1. Cat(Cat(x, a), c) = Cat(x, Cat(a, c)) BY ONLY <2>0, CatAgain
    <3> QED BY <3>1 DEF Cat
  <2>7. a \o c = p BY <1>2
  <2>8. CASE y = << >> BY ONLY <2>3, <2>4, <2>6, <2>7, <2>8
  <2>9. CASE a = << >> BY ONLY <2>3, <2>4, <2>5, <2>7, <2>9
  <2> QED BY <2>2, <2>8, <2>9
<1>22. /\ w \in Mb /\ MC(w) = MC(m) \o p
       /\ n = Len(p) => w.list = m.list
       /\ n = 0 => w.ring = m.ring
       /\ Inbound!Buffered(w.ring) = Inbound!Buffered(m.ring) + n
       /\ n <= Inbound!Available(m.ring) => Inbound!Len0(w.ring) = Inbound!Len0(m.ring)
  BY <1>7, <1>8, <1>14, <1>15, <1>17, <1>18, <1>20, <1>21 DEF R, L
<1> QED BY <1>22 DEF HasSplit, w

(* Write of an elastic.Buffer puts p behind what is there, goes to the list first only *)
(* when the ring holds maxStaticBytes, and never grows a ring that large.             *)
LEMMA MixedWrite ==
  ASSUME NEW m \in Mb, NEW p \in Seq(Byte), Len(p) <= MaxBytes, NEW q \in Pooled,
         NEW w, w = Mixed!Write(m, p, q)
  PROVE  /\ w \in Mb /\ MC(w) = MC(m) \o p
         /\ m.list = << >> /\ w.list # << >> => Inbound!Buffered(w.ring) >= MaxStatic
         /\ Inbound!Len0(m.ring) >= MaxStatic => Inbound!Len0(w.ring) <= Inbound!Len0(m.ring)
<1> DEFINE R == m.ring
           L == m.list
           a == Inbound!Available(R)
           s == Inbound!Len0(R)
           f == Inbound!Buffered(R)
<1>1. /\ R \in Held /\ Len(p) \in Nat BY MbFacts
<1>2. s \in Nat /\ a \in Nat /\ f \in Nat /\ a = s - f /\ MaxStatic \in Nat
  BY <1>1, HeldFacts, ScaleAssumption
<1>3. Mixed!ToList(m) = (~(L = << >>) \/ f >= MaxStatic) BY ElasticIsInbound, MixedListIsLP DEF Mixed!ToList
<1>4. w = CASE Mixed!ToList(m)                                  -> Mixed!Split(m, p, 0, q)
            [] ~Mixed!ToList(m) /\ s >= MaxStatic /\ Len(p) > a -> Mixed!Split(m, p, a, q)
            [] OTHER                                            -> Mixed!Split(m, p, Len(p), q)
  BY ElasticIsInbound DEF Mixed!Write
<1> HIDE DEF R, L, a, s, f
<1>5. CASE Mixed!ToList(m)
  <2>1. w = Mixed!Split(m, p, 0, q) BY <1>4, <1>5
  <2>2. 0 \in Nat /\ 0 <= Len(p) /\ (0 > 0 => m.list = << >>) BY <1>1
  <2>3. /\ w \in Mb /\ MC(w) = MC(m) \o p /\ w.ring = m.ring
    <3>1. MaySplit(m, p, 0, q) BY <2>2 DEF MaySplit
    <3>2. HasSplit(w, m, p, 0) BY ONLY <2>1, <3>1, MixedSplit
    <3> QED BY <3>2 DEF HasSplit
  <2>4. Inbound!Buffered(w.ring) = f /\ Inbound!Len0(w.ring) = s BY <2>3 DEF f, s, R
  <2>5. m.list = << >> => f >= MaxStatic BY <1>3, <1>5 DEF L
  <2> QED BY <1>2, <2>3, <2>4, <2>5 DEF s, R
<1>6. CASE ~Mixed!ToList(m) /\ s >= MaxStatic /\ Len(p) > a
  <2>1. w = Mixed!Split(m, p, a, q) BY <1>4, <1>6
  <2>2. a \in Nat /\ a <= Len(p) BY <1>1, <1>2, <1>6
  <2>3. m.list = << >> BY <1>3, <1>6 DEF L
  <2>4. a <= Inbound!Available(m.ring) BY <1>2 DEF a, R
  <2>5. /\ w \in Mb /\ MC(w) = MC(m) \o p
        /\ Inbound!Buffered(w.ring) = Inbound!Buffered(m.ring) + a
        /\ Inbound!Len0(w.ring) = Inbound!Len0(m.ring)
    <3>1. MaySplit(m, p, a, q) BY <2>2, <2>3 DEF MaySplit
    <3>2. HasSplit(w, m, p, a) BY ONLY <2>1, <3>1, MixedSplit
    <3> QED BY <2>4, <3>2 DEF HasSplit
  <2>6. Inbound!Buffered(m.ring) = f /\ Inbound!Len0(m.ring) = s BY DEF f, s, R
  <2>7. f + a >= MaxStatic BY <1>2, <1>6
  <2> QED BY <1>2, <2>5, <2>6, <2>7
<1>7. CASE ~Mixed!ToList(m) /\ ~(s >= MaxStatic /\ Len(p) > a)
  <2>1. w = Mixed!Split(m, p, Len(p), q) BY <1>4, <1>7
  <2>2. Len(p) \in Nat /\ Len(p) <= Len(p) BY <1>1
  <2>3. m.list = << >> BY <1>3, <1>7 DEF L
  <2>4. s >= MaxStatic => Len(p) <= Inbound!Available(m.ring) BY <1>1, <1>2, <1>7 DEF a, R
  <2>5. /\ w \in Mb /\ MC(w) = MC(m) \o p /\ w.list = m.list
        /\ Len(p) <= Inbound!Available(m.ring) => Inbound!Len0(w.ring) = Inbound!Len0(m.ring)
    <3>1. MaySplit(m, p, Len(p), q) BY <2>2, <2>3 DEF MaySplit
    <3>2. HasSplit(w, m, p, Len(p)) BY ONLY <2>1, <3>1, MixedSplit
    <3> QED BY <3>2 DEF HasSplit
  <2>6. Inbound!Len0(m.ring) = s BY DEF s, R
  <2> QED BY <1>2, <2>3, <2>4, <2>5, <2>6
<1> QED BY <1>5, <1>6, <1>7

(* The buffer in hand. *)
LEMMA MbIs ==
  ASSUME Inv
  PROVE  /\ mb \in Mb /\ mb.ring = ring /\ mb.list = list /\ Content = MC(mb)
         /\ Content \in Seq(Byte) /\ Len(Content) \in Nat
         /\ ring \in Held /\ list \in Seq(Seq(Byte))
<1>1. ring \in Held /\ list \in Seq(Seq(Byte)) BY DEF Inv
<1>2. mb \in Mb /\ mb.ring = ring /\ mb.list = list BY <1>1 DEF mb, Mb, Lists
<1>3. Content = Inbound!Bytes(ring) \o LP!Content(list) BY ContentOf
<1>4. Content = MC(mb) BY <1>2, <1>3 DEF MC
<1> QED BY <1>1, <1>2, <1>4, ContentType

(* A call of an elastic.Buffer that is over at once. *)
LEMMA MixedKeeps ==
  ASSUME Inv, kind = "elastic", NEW w \in Mb, Puts(w), loop' = "no", next' \in 0..(Numbers - 1),
         list = << >> /\ w.list # << >> => Inbound!Buffered(w.ring) >= MaxStatic,
         Inbound!Len0(ring) >= MaxStatic => Inbound!Len0(w.ring) <= Inbound!Len0(ring)
  PROVE  Inv' /\ Limited /\ Content' = MC(w)
<1> DEFINE b == w.ring
           l == w.list
<1>1. b \in Held /\ l \in Seq(Seq(Byte)) BY MbFacts
<1>2. Becomes(b, l) BY DEF Puts
<1>3. /\ list = << >> /\ l # << >> => Inbound!Buffered(b) >= MaxStatic
      /\ Inbound!Len0(ring) >= MaxStatic => Inbound!Len0(b) <= Inbound!Len0(ring)
      /\ MC(w) = Inbound!Bytes(b) \o LP!Content(l)
  BY DEF MC
<1> HIDE DEF b, l
<1>4. /\ list' = l /\ Inbound!Len0(ring') = Inbound!Len0(b) /\ Inbound!Buffered(ring') = Inbound!Buffered(b)
      /\ Content' = Inbound!Bytes(b) \o LP!Content(l)
  BY <1>1, <1>2, BecomesIs
<1>5. Inv'
  <2>1. kind = "conn" => l = << >> OBVIOUS
  <2> QED BY <1>1, <1>2, <2>1, CallKeeps
<1>6. Limited BY <1>3, <1>4 DEF Limited
<1> QED BY <1>3, <1>4, <1>5, <1>6

(* The number of the next byte stays in its range. *)
LEMMA ComesNumber ==
  ASSUME Inv, NEW k \in Sizes, Comes(k)
  PROVE  next' \in 0..(Numbers - 1)
<1>1. k \in Nat /\ next \in 0..(Numbers - 1) BY IncomingIs DEF Inv
<1>2. next + k \in Nat /\ next' = (next + k) % Numbers BY <1>1 DEF Comes
<1> QED BY <1>2, Number

(* elastic.Buffer.Write. *)
LEMMA ElasticWriteSound ==
  ASSUME Inv, ElasticWrite
  PROVE  Sound
<1>1. kind = "elastic" /\ loop' = "no" BY DEF ElasticWrite, Idle
<1>2. PICK k \in Sizes, p \in Pooled : Comes(k) /\ Puts(Mixed!Write(mb, Incoming(k), p)) BY DEF ElasticWrite
<1> DEFINE w == Mixed!Write(mb, Incoming(k), p)
<1>3. Puts(w) BY <1>2
<1>4. mb \in Mb /\ mb.ring = ring /\ mb.list = list /\ Content = MC(mb) BY MbIs
<1>5. /\ w \in Mb /\ MC(w) = MC(mb) \o Incoming(k)
      /\ list = << >> /\ w.list # << >> => Inbound!Buffered(w.ring) >= MaxStatic
      /\ Inbound!Len0(ring) >= MaxStatic => Inbound!Len0(w.ring) <= Inbound!Len0(ring)
  <2> DEFINE x == Incoming(k)
             m == mb
  <2>1. x \in Seq(Byte) /\ Len(x) <= MaxBytes BY IncomingIs
  <2>2. m \in Mb /\ m.ring = ring /\ m.list = list BY <1>4
  <2>3. w = Mixed!Write(m, x, p) OBVIOUS
  <2> HIDE DEF w, x, m
  <2>4. /\ w \in Mb /\ MC(w) = MC(m) \o x
        /\ m.list = << >> /\ w.list # << >> => Inbound!Buffered(w.ring) >= MaxStatic
        /\ Inbound!Len0(m.ring) >= MaxStatic => Inbound!Len0(w.ring) <= Inbound!Len0(m.ring)
    BY <2>1, <2>2, <2>3, MixedWrite
  <2>5. /\ w \in Mb /\ MC(w) = MC(m) \o x
        /\ list = << >> /\ w.list # << >> => Inbound!Buffered(w.ring) >= MaxStatic
        /\ Inbound!Len0(ring) >= MaxStatic => Inbound!Len0(w.ring) <= Inbound!Len0(ring)
    BY <2>2, <2>4
  <2> QED BY <2>5 DEF m, x
<1> HIDE DEF w
<1>6. next' \in 0..(Numbers - 1) BY <1>2, ComesNumber
<1>7. Inv' /\ Limited /\ Content' = MC(w) BY <1>1, <1>3, <1>5, <1>6, MixedKeeps
<1>8. Queue!Next BY <1>2, <1>4, <1>5, <1>7, PutStep
<1> QED BY <1>7, <1>8 DEF Sound

(* The first n bytes of two sequences one behind the other, and what is behind them. *)
LEMMA FirstOfTwo ==
  ASSUME NEW T, NEW s \in Seq(T), NEW u \in Seq(T), NEW n \in Nat,
         NEW k, k = n - Least0(n, Len(s))
  PROVE  /\ k \in Nat /\ FirstBytes(s, n) \in Seq(T) /\ Len(FirstBytes(s, n)) = Least0(n, Len(s))
         /\ FirstBytes(Cat(s, u), n) = Cat(FirstBytes(s, n), FirstBytes(u, k))
         /\ LP!Rest(Cat(s, u), n) = Cat(LP!Rest(s, n), LP!Rest(u, k))
<1>1. Len(s) \in Nat /\ Len(u) \in Nat OBVIOUS
<1>2. s \o u \in Seq(T) /\ Len(s \o u) = Len(s) + Len(u) BY ConcatProperties
<1> DEFINE su == s \o u
           a == Len(s)
           b == Len(u)
<1>3. su \in Seq(T) /\ Len(su) = a + b /\ a \in Nat /\ b \in Nat BY <1>1, <1>2
<1>4. k = n - Least0(n, a) OBVIOUS
<1>5. Cat(s, u) = su BY DEF Cat
<1>6. CASE n <= a
  <2>1. Least0(n, a) = n /\ Least0(n, a + b) = n BY <1>3, <1>6 DEF Least0
  <2>2. k = 0 BY <1>4, <2>1
  <2>3. Least0(0, b) = 0 BY <1>3 DEF Least0
  <2>4. FirstBytes(s, n) = SubSeq(s, 1, n) /\ FirstBytes(u, k) = SubSeq(u, 1, 0) /\ FirstBytes(su, n) = SubSeq(su, 1, n)
    BY <1>3, <2>1, <2>2, <2>3 DEF FirstBytes, a, b
  <2>5. SubSeq(su, 1, n) = SubSeq(s, 1, n)
    <3>1. n <= Len(s) /\ n <= Len(s) + Len(u) BY <1>1, <1>6
    <3> QED BY <3>1, LP!FirstOfConcat
  <2>6. SubSeq(s, 1, n) \in Seq(T) /\ Len(SubSeq(s, 1, n)) = n BY <1>6, LP!FirstOf
  <2>7. SubSeq(u, 1, 0) = << >> OBVIOUS
  <2>8. LP!Rest(su, n) = LP!Rest(s, n) \o u BY <1>6, LP!RestOfConcat
  <2>9. LP!Rest(u, 0) = u BY LP!RestOf
  <2> DEFINE f == SubSeq(s, 1, n)
  <2>10. f \in Seq(T) BY <2>6
  <2>11. f \o << >> = f
    <3> HIDE DEF f
    <3> QED BY <2>10, ConcatEmptySeq
  <2>12. FirstBytes(Cat(s, u), n) = Cat(FirstBytes(s, n), FirstBytes(u, k))
    <3>1. FirstBytes(su, n) = f /\ FirstBytes(s, n) = f /\ FirstBytes(u, k) = << >> BY <2>4, <2>5, <2>7
    <3> HIDE DEF f, su
    <3> QED BY ONLY <1>5, <2>11, <3>1 DEF Cat
  <2>13. LP!Rest(Cat(s, u), n) = Cat(LP!Rest(s, n), LP!Rest(u, k))
    <3>1. LP!Rest(u, k) = u BY <2>2, <2>9
    <3> HIDE DEF su
    <3> QED BY ONLY <1>5, <2>8, <3>1 DEF Cat
  <2>14. k \in Nat /\ FirstBytes(s, n) \in Seq(T) /\ Len(FirstBytes(s, n)) = Least0(n, Len(s))
    BY <2>1, <2>2, <2>4, <2>6
  <2> QED BY <2>12, <2>13, <2>14
<1>7. CASE n > a
  <2>1. Least0(n, a) = a BY <1>3, <1>7 DEF Least0
  <2>2. k = n - a /\ k \in Nat /\ n = a + k BY <1>3, <1>4, <1>7, <2>1
  <2> DEFINE j == Least0(k, b)
             i == Least0(n, a + b)
  <2>3. j \in Nat /\ j <= b /\ i = a + j /\ i \in Nat BY <1>3, <2>2 DEF Least0
  <2>4. FirstBytes(s, n) = SubSeq(s, 1, a) /\ FirstBytes(u, k) = SubSeq(u, 1, j) /\ FirstBytes(su, n) = SubSeq(su, 1, i)
    BY <1>3, <2>1 DEF FirstBytes
  <2>5. SubSeq(s, 1, a) = s BY SubSeqFull
  <2> HIDE DEF i, j
  <2>6. i \in Nat /\ i <= Len(s) + Len(u) /\ i >= Len(s) /\ i - Len(s) = j BY <1>1, <2>3 DEF a, b
  <2>7. SubSeq(su, 1, i) = s \o SubSeq(u, 1, i - Len(s)) BY <2>6, LP!FirstOfConcat
  <2>8. LP!Rest(su, n) = LP!Rest(u, n - Len(s))
    <3>1. n >= Len(s) BY <1>1, <1>7
    <3> QED BY <3>1, LP!RestOfConcat
  <2>9. LP!Rest(s, n) = << >> BY <1>1, <1>7, LP!RestOf
  <2> DEFINE z == LP!Rest(u, k)
  <2>10. z \in Seq(T) BY <2>2, LP!RestOf
  <2>11. << >> \o z = z
    <3> HIDE DEF z
    <3> QED BY <2>10, ConcatEmptySeq
  <2>12. n - Len(s) = k BY <2>2 DEF a
  <2>13. LP!Rest(su, n) = LP!Rest(s, n) \o LP!Rest(u, k) BY <2>8, <2>9, <2>11, <2>12
  <2>14. FirstBytes(su, n) = FirstBytes(s, n) \o FirstBytes(u, k) BY <2>4, <2>5, <2>6, <2>7
  <2>15. FirstBytes(s, n) \in Seq(T) /\ Len(FirstBytes(s, n)) = Least0(n, Len(s)) BY <2>1, <2>4, <2>5 DEF a
  <2> QED BY <1>5, <2>2, <2>13, <2>14, <2>15 DEF Cat
<1>8. n <= a \/ n > a BY <1>3
<1> QED BY <1>6, <1>7, <1>8

(* What Read and WriteTo of an elastic.Buffer hand over. *)
LEMMA MixedTaken ==
  ASSUME NEW m \in Mb, NEW n \in Nat
  PROVE  Mixed!Taken(m, n) = FirstBytes(MC(m), n)
<1> DEFINE s == Inbound!Bytes(m.ring)
           u == LP!Content(m.list)
           t == Inbound!Taken(m.ring, n)
           k == n - Len(t)
<1>1. s \in Seq(Byte) /\ u \in Seq(Byte) /\ MC(m) = Cat(s, u) BY MbFacts DEF MC, Cat
<1>2. t = FirstBytes(s, n) BY MbFacts, InboundRead
<1>3. Mixed!Taken(m, n) = t \o LP!Taken(m.list, k) BY ElasticIsInbound, MixedListIsLP DEF Mixed!Taken
<1>4. LP!Buffered(m.list) = Len(u) BY DEF LP!Buffered
<1>5. LP!Taken(m.list, k) = FirstBytes(u, k) BY <1>4 DEF LP!Taken, FirstBytes, Least0
<1> HIDE DEF s, u, t
<1> DEFINE j == n - Least0(n, Len(s))
<1>6. j = n - Least0(n, Len(s)) OBVIOUS
<1> HIDE DEF j
<1>7. Len(FirstBytes(s, n)) = Least0(n, Len(s)) /\ FirstBytes(Cat(s, u), n) = Cat(FirstBytes(s, n), FirstBytes(u, j))
  BY <1>1, <1>6, FirstOfTwo
<1>8. k = j BY <1>2, <1>6, <1>7
<1> QED BY <1>1, <1>2, <1>3, <1>5, <1>7, <1>8 DEF Cat

(* A ring that is n bytes shorter, and a list from which the bytes that were not in *)
(* the ring are dropped.                                                            *)
LEMMA MixedDrop ==
  ASSUME NEW m \in Mb, NEW n \in Nat, NEW b \in Held,
         Inbound!Bytes(b) = LP!Rest(Inbound!Bytes(m.ring), n),
         NEW k, k = n - Least0(n, Len(Inbound!Bytes(m.ring))),
         NEW w, w = [ring |-> b, list |-> LP!Discard(m.list, k)]
  PROVE  /\ w \in Mb /\ MC(w) = LP!Rest(MC(m), n) /\ w.ring = b
         /\ m.list = << >> => w.list = << >>
<1> DEFINE s == Inbound!Bytes(m.ring)
           u == LP!Content(m.list)
           l == m.list
           d == LP!Discard(l, k)
<1>1. s \in Seq(Byte) /\ u \in Seq(Byte) /\ MC(m) = Cat(s, u) /\ l \in Seq(Seq(Byte)) BY MbFacts DEF MC, Cat
<1>2. u = LP!Content(l) /\ w = [ring |-> b, list |-> d] OBVIOUS
<1>3. k = n - Least0(n, Len(s)) /\ Inbound!Bytes(b) = LP!Rest(s, n) OBVIOUS
<1> HIDE DEF s, u, l
<1>4. k \in Nat /\ LP!Rest(Cat(s, u), n) = Cat(LP!Rest(s, n), LP!Rest(u, k)) BY <1>1, <1>3, FirstOfTwo
<1>5. d \in Seq(Seq(Byte)) /\ (k <= 0 \/ l = << >> => d = l) /\ (k > 0 => LP!Content(d) = LP!Rest(LP!Content(l), k))
  <2>1. k \in Int BY <1>4
  <2> QED BY ONLY <1>1, <2>1, LP!DiscardDropsFront
<1>6. LP!Rest(u, 0) = u BY <1>1, LP!RestOf
<1>7. LP!Content(d) = LP!Rest(u, k)
  <2>1. k = 0 \/ k > 0 BY <1>4
  <2> HIDE DEF d
  <2>2. k = 0 => LP!Content(d) = LP!Rest(u, k) BY <1>2, <1>5, <1>6
  <2>3. k > 0 => LP!Content(d) = LP!Rest(u, k) BY <1>2, <1>5
  <2> QED BY <2>1, <2>2, <2>3
<1> HIDE DEF d
<1>8. w \in Mb /\ w.ring = b /\ w.list = d BY <1>2, <1>5 DEF Mb, Lists
<1>9. MC(w) = Cat(LP!Rest(s, n), LP!Rest(u, k)) BY <1>3, <1>7, <1>8 DEF MC, Cat
<1> QED BY <1>1, <1>4, <1>5, <1>8, <1>9 DEF l

(* elastic.Buffer.Read. *)
LEMMA ElasticReadSound ==
  ASSUME Inv, ElasticRead
  PROVE  Sound
<1>1. kind = "elastic" /\ loop' = "no" /\ Unread BY DEF ElasticRead, Idle
<1>2. PICK n \in Counts : Is("take", n, Mixed!Taken(mb, n)) /\ Puts(Mixed!Read(mb, n)) BY DEF ElasticRead
<1>3. n \in Nat BY DEF Counts
<1>4. mb \in Mb /\ mb.ring = ring /\ mb.list = list /\ Content = MC(mb) /\ ring \in Held BY MbIs
<1> DEFINE w == Mixed!Read(mb, n)
           b == Inbound!Read(ring, n)
           t == Inbound!Taken(ring, n)
           k == n - Len(t)
<1>5. /\ b \in Held /\ Inbound!Len0(b) <= Inbound!Len0(ring)
      /\ t = FirstBytes(Inbound!Bytes(ring), n)
      /\ Inbound!Bytes(b) = LP!Rest(Inbound!Bytes(ring), n)
  BY <1>3, <1>4, InboundRead
<1>6. w = [ring |-> b, list |-> LP!Discard(list, k)] BY <1>4, ElasticIsInbound, MixedListIsLP DEF Mixed!Read
<1>7. k = n - Least0(n, Len(Inbound!Bytes(ring)))
  <2> DEFINE s == Inbound!Bytes(ring)
             j == n - Least0(n, Len(s))
  <2>1. s \in Seq(Byte) BY <1>4, HeldFacts
  <2>2. j = n - Least0(n, Len(s)) OBVIOUS
  <2>3. t = FirstBytes(s, n) BY <1>5
  <2> HIDE DEF s, j, t
  <2>4. Len(FirstBytes(s, n)) = Least0(n, Len(s)) BY <1>3, <2>1, <2>2, FirstOfTwo
  <2> QED BY <2>3, <2>4 DEF s
<1>8. Puts(w) /\ Is("take", n, Mixed!Taken(mb, n)) BY <1>2
<1> HIDE DEF w, b, k
<1>9. /\ w \in Mb /\ MC(w) = LP!Rest(MC(mb), n) /\ w.ring = b /\ (list = << >> => w.list = << >>)
  <2> DEFINE m == mb
  <2>1. m \in Mb /\ m.ring = ring /\ m.list = list BY <1>4
  <2> HIDE DEF m
  <2>2. /\ Inbound!Bytes(b) = LP!Rest(Inbound!Bytes(m.ring), n)
        /\ k = n - Least0(n, Len(Inbound!Bytes(m.ring)))
        /\ w = [ring |-> b, list |-> LP!Discard(m.list, k)]
    BY <1>5, <1>6, <1>7, <2>1
  <2>3. /\ w \in Mb /\ MC(w) = LP!Rest(MC(m), n) /\ w.ring = b /\ (m.list = << >> => w.list = << >>)
    BY <1>3, <1>5, <2>1, <2>2, MixedDrop
  <2>4. /\ w \in Mb /\ MC(w) = LP!Rest(MC(m), n) /\ w.ring = b /\ (list = << >> => w.list = << >>)
    BY <2>1, <2>3
  <2> QED BY <2>4 DEF m
<1>10. Inv' /\ Limited /\ Content' = MC(w) BY <1>1, <1>5, <1>8, <1>9, MixedKeeps, NextStays
<1>11. Mixed!Taken(mb, n) = FirstBytes(Content, n) BY <1>3, <1>4, MixedTaken
<1>12. Queue!Next BY <1>1, <1>4, <1>8, <1>9, <1>10, <1>11, TakeStep
<1> QED BY <1>10, <1>12 DEF Sound

(* elastic.Buffer.Discard. *)
LEMMA ElasticDiscardSound ==
  ASSUME Inv, ElasticDiscard
  PROVE  Sound
<1>1. kind = "elastic" /\ loop' = "no" /\ Unread BY DEF ElasticDiscard, Idle
<1>2. PICK n \in Counts : Is("discard", n, << >>) /\ Puts(Mixed!Discard(mb, n)) BY DEF ElasticDiscard
<1>3. n \in Nat BY DEF Counts
<1>4. mb \in Mb /\ mb.ring = ring /\ mb.list = list /\ Content = MC(mb) /\ ring \in Held /\ Content \in Seq(Byte)
  BY MbIs
<1> DEFINE w == Mixed!Discard(mb, n)
           b == Inbound!Discard(ring, n)
           s == Inbound!Bytes(ring)
           k == n - Least0(n, Len(s))
<1>5. s \in Seq(Byte) /\ Inbound!Buffered(ring) = Len(s) BY <1>4, HeldFacts
<1>6. b \in Held /\ Inbound!Len0(b) <= Inbound!Len0(ring) /\ Inbound!Bytes(b) = LP!Rest(s, n)
  <2>1. /\ b \in Held /\ Inbound!Len0(b) <= Inbound!Len0(ring)
        /\ (n <= 0 => Inbound!Bytes(b) = s) /\ (n > 0 => Inbound!Bytes(b) = LP!Rest(s, n))
    <3>1. n \in Int BY <1>3
    <3> QED BY <1>4, <3>1, InboundDiscard
  <2> HIDE DEF b, s
  <2>2. LP!Rest(s, 0) = s BY <1>5, LP!RestOf
  <2>3. n = 0 \/ n > 0 BY <1>3
  <2> QED BY <2>1, <2>2, <2>3
<1>7. w = [ring |-> b, list |-> LP!Discard(list, k)]
  BY <1>4, <1>5, ElasticIsInbound, MixedListIsLP DEF Mixed!Discard, Least0
<1>8. Puts(w) /\ Is("discard", n, << >>) BY <1>2
<1>9. k = n - Least0(n, Len(s)) OBVIOUS
<1> HIDE DEF w, b, k
<1>10. /\ w \in Mb /\ MC(w) = LP!Rest(MC(mb), n) /\ w.ring = b /\ (list = << >> => w.list = << >>)
  <2> DEFINE m == mb
  <2>1. m \in Mb /\ m.ring = ring /\ m.list = list BY <1>4
  <2> HIDE DEF m
  <2>2. /\ Inbound!Bytes(b) = LP!Rest(Inbound!Bytes(m.ring), n)
        /\ k = n - Least0(n, Len(Inbound!Bytes(m.ring)))
        /\ w = [ring |-> b, list |-> LP!Discard(m.list, k)]
    BY <1>6, <1>7, <1>9, <2>1
  <2>3. /\ w \in Mb /\ MC(w) = LP!Rest(MC(m), n) /\ w.ring = b /\ (m.list = << >> => w.list = << >>)
    BY <1>3, <1>6, <2>1, <2>2, MixedDrop
  <2>4. /\ w \in Mb /\ MC(w) = LP!Rest(MC(m), n) /\ w.ring = b /\ (list = << >> => w.list = << >>)
    BY <2>1, <2>3
  <2> QED BY <2>4 DEF m
<1>11. Inv' /\ Limited /\ Content' = MC(w) BY <1>1, <1>6, <1>8, <1>10, MixedKeeps, NextStays
<1>12. Queue!Next
  <2>1. Content' = LP!Rest(Content, n) BY <1>4, <1>10, <1>11
  <2>2. call'.op = "discard" /\ call'.n = n BY <1>8 DEF Is
  <2>3. (IF n > 0 THEN n ELSE 0) = n BY <1>3
  <2>4. Queue!Drop(n) BY <2>1 DEF Queue!Drop, LP!Rest
  <2>5. Queue!Discard BY <1>1, <2>2, <2>3, <2>4 DEF Queue!Discard, Unread
  <2> QED BY <2>5 DEF Queue!Next
<1> QED BY <1>11, <1>12 DEF Sound

(* elastic.Buffer.Reset. *)
LEMMA ElasticResetSound ==
  ASSUME Inv, ElasticReset
  PROVE  Sound
<1>1. /\ kind = "elastic" /\ loop' = "no" /\ Unread /\ Is("clear", 0, << >>) /\ Puts(Mixed!Reset(mb))
  BY DEF ElasticReset, Idle
<1>2. mb \in Mb /\ mb.ring = ring /\ ring \in Held BY MbIs
<1> DEFINE w == Mixed!Reset(mb)
           b == Inbound!Reset(ring)
<1>3. w = [ring |-> b, list |-> << >>] BY <1>2, ElasticIsInbound DEF Mixed!Reset
<1>4. b \in Held /\ Inbound!Bytes(b) = << >> /\ Inbound!Len0(b) = Inbound!Len0(ring) BY <1>2, InboundReset
<1>5. Inbound!Len0(ring) \in Nat BY <1>2, HeldFacts
<1>6. << >> \in Lists BY DEF Lists
<1>7. Puts(w) BY <1>1
<1> HIDE DEF w, b
<1>8. w \in Mb /\ w.list = << >> /\ w.ring = b BY <1>3, <1>4, <1>6 DEF Mb
<1>9. MC(w) = << >> BY <1>4, <1>8, MbFacts
<1>10. Inbound!Len0(w.ring) <= Inbound!Len0(ring) BY <1>4, <1>5, <1>8
<1>11. Inv' /\ Limited /\ Content' = MC(w) BY <1>1, <1>7, <1>8, <1>10, MixedKeeps, NextStays
<1>12. Queue!Next BY <1>1, <1>9, <1>11, ClearStep
<1> QED BY <1>11, <1>12 DEF Sound

(* elastic.Buffer.Release. *)
LEMMA ElasticReleaseSound ==
  ASSUME Inv, ElasticRelease
  PROVE  Sound
<1>1. /\ kind = "elastic" /\ loop' = "no" /\ Unread /\ Is("clear", 0, << >>) /\ Puts(Mixed!Release(mb))
  BY DEF ElasticRelease, Idle
<1>2. ring \in Held BY MbIs
<1> DEFINE w == Mixed!Release(mb)
<1>3. w = [ring |-> Nil, list |-> << >>] BY DEF Mixed!Release, Mixed!New
<1>4. Nil \in Held /\ << >> \in Lists BY DEF Held, Lists
<1>5. Inbound!Bytes(Nil) = << >> /\ Inbound!Len0(Nil) = 0 BY DEF Inbound!Bytes, Inbound!Len0
<1>6. Inbound!Len0(ring) \in Nat BY <1>2, HeldFacts
<1>7. Puts(w) BY <1>1
<1> HIDE DEF w
<1>8. w \in Mb /\ w.list = << >> /\ w.ring = Nil BY <1>3, <1>4 DEF Mb
<1>9. MC(w) = << >> BY <1>5, <1>8, MbFacts
<1>10. Inbound!Len0(w.ring) <= Inbound!Len0(ring) BY <1>5, <1>6, <1>8
<1>11. Inv' /\ Limited /\ Content' = MC(w) BY <1>1, <1>7, <1>8, <1>10, MixedKeeps, NextStays
<1>12. Queue!Next BY <1>1, <1>9, <1>11, ClearStep
<1> QED BY <1>11, <1>12 DEF Sound

(* A list of two slices holds the two. *)
LEMMA ContentOfTwo ==
  ASSUME NEW x \in Seq(Byte), NEW y \in Seq(Byte)
  PROVE  LP!Content(<<x, y>>) = Cat(x, y)
<1> DEFINE e == << >>
           l == Append(e, x)
<1>1. e \in Seq(Seq(Byte)) /\ LP!Content(e) = << >> BY LP!ContentOfNone
<1> HIDE DEF e
<1>2. l \in Seq(Seq(Byte))
  <2> DEFINE T == Seq(Byte)
  <2>1. e \in Seq(T) /\ x \in T BY <1>1
  <2> HIDE DEF T
  <2>2. Append(e, x) \in Seq(T) BY <2>1, AppendProperties
  <2> QED BY <2>2 DEF T
<1>3. LP!Content(l) = LP!Content(e) \o x BY <1>1, LP!ContentAppend
<1>4. << >> \o x = x BY ConcatEmptySeq
<1>5. l = <<x>> BY DEF e
<1>6. Append(<<x>>, y) = <<x, y>>
  <2> DEFINE T == Seq(Byte)
             v == Append(<<x>>, y)
             z == <<x, y>>
  <2>1. x \in T /\ y \in T OBVIOUS
  <2> HIDE DEF T
  <2>2. <<x>> \in Seq(T) /\ Len(<<x>>) = 1 BY <2>1
  <2>3. v \in Seq(T) /\ Len(v) = 2 /\ v[1] = x /\ v[2] = y BY <2>1, <2>2, AppendProperties
  <2>4. z \in Seq(T) /\ Len(z) = 2 /\ z[1] = x /\ z[2] = y BY <2>1
  <2> HIDE DEF v, z
  <2>5. \A i \in 1..Len(v) : v[i] = z[i]
    <3>1. \A i \in 1..2 : i = 1 \/ i = 2 OBVIOUS
    <3> QED BY <2>3, <2>4, <3>1
  <2>6. Len(v) = Len(z) BY <2>3, <2>4
  <2>7. v = z BY <2>3, <2>4, <2>5, <2>6, SeqEqual
  <2> QED BY <2>7 DEF v, z
<1> HIDE DEF l
<1>7. LP!Content(Append(l, y)) = LP!Content(l) \o y BY <1>2, LP!ContentAppend
<1> QED BY <1>1, <1>3, <1>4, <1>5, <1>6, <1>7 DEF Cat

(* elastic.Buffer.Peek returns the bytes at the front: n or more, or all. *)
LEMMA MixedPeek ==
  ASSUME NEW m \in Mb, NEW n \in Nat,
         NEW c, c = MC(m), NEW r, r = LP!Content(Mixed!Peek(m, n))
  PROVE  /\ Len(r) \in Nat /\ Len(r) <= Len(c) /\ r = SubSeq(c, 1, Len(r))
         /\ n <= 0 => r = c
         /\ Len(r) >= n \/ r = c
<1> DEFINE s == Inbound!Bytes(m.ring)
           u == LP!Content(m.list)
           p == Inbound!Peek(m.ring, n)
           x == p[1]
           y == p[2]
<1>1. s \in Seq(Byte) /\ u \in Seq(Byte) /\ c = Cat(s, u) /\ m.ring \in Held /\ m.list \in Seq(Seq(Byte))
  BY MbFacts DEF MC, Cat
<1>2. /\ x \in Seq(Byte) /\ y \in Seq(Byte)
      /\ n <= 0 => x \o y = s
      /\ n > 0 => x \o y = FirstBytes(s, n)
  <2>1. n \in Int OBVIOUS
  <2> QED BY <1>1, <2>1, InboundPeek
<1>3. p = <<x, y>> BY <1>1 DEF Inbound!Peek, Inbound!Ring!Peek
<1>4. Inbound!Buffered(m.ring) = Len(s) BY <1>1, HeldFacts
<1>5. Mixed!Peek(m, n) = IF n > 0 /\ Len(s) >= n THEN p ELSE LP!PeekWithBytes(m.list, n, x, y)
  BY <1>4, ElasticIsInbound, MixedListIsLP DEF Mixed!Peek
<1>6. u = LP!Content(m.list) OBVIOUS
<1> HIDE DEF s, u, x, y, p
<1>7. Len(s) \in Nat /\ Len(u) \in Nat BY <1>1
<1>8. CASE n > 0 /\ Len(s) >= n
  <2>1. LP!Content(p) = Cat(x, y) BY <1>2, <1>3, ContentOfTwo
  <2>2. r = Cat(x, y) BY <1>5, <1>8, <2>1
  <2>3. Least0(n, Len(s)) = n BY <1>7, <1>8 DEF Least0
  <2>4. r = SubSeq(s, 1, n) BY <1>2, <1>8, <2>2, <2>3 DEF Cat, FirstBytes
  <2>5. Len(r) = n BY <1>1, <1>8, <2>4, LP!FirstOf
  <2> DEFINE su == s \o u
  <2>6. SubSeq(su, 1, n) = SubSeq(s, 1, n)
    <3>1. n <= Len(s) /\ n <= Len(s) + Len(u) BY <1>7, <1>8
    <3> QED BY <1>1, <3>1, LP!FirstOfConcat
  <2>7. Len(su) = Len(s) + Len(u) BY <1>1, ConcatProperties
  <2>8. c = su BY <1>1 DEF Cat
  <2> HIDE DEF su
  <2>9. Len(r) <= Len(c) /\ r = SubSeq(c, 1, Len(r)) BY <1>7, <1>8, <2>4, <2>5, <2>6, <2>7, <2>8
  <2> QED BY <1>8, <2>5, <2>9
<1>9. CASE ~(n > 0 /\ Len(s) >= n)
  <2>1. r = LP!Content(LP!PeekWithBytes(m.list, n, x, y)) BY <1>5, <1>9
  <2>2. x \o y = s
    <3>1. n <= 0 \/ n > Len(s) BY <1>7, <1>9
    <3>2. ASSUME n > Len(s) PROVE FirstBytes(s, n) = s
      <4>1. Least0(n, Len(s)) = Len(s) BY <1>7, <3>2 DEF Least0
      <4>2. SubSeq(s, 1, Len(s)) = s BY <1>1, SubSeqFull
      <4> QED BY <4>1, <4>2 DEF FirstBytes
    <3>3. n > Len(s) => n > 0 BY <1>7
    <3> QED BY <1>2, <3>1, <3>2, <3>3
  <2>3. c = (x \o y) \o LP!Content(m.list) BY <1>1, <1>6, <2>2 DEF Cat
  <2>4. n \in Int OBVIOUS
  <2> DEFINE l == m.list
  <2>5. /\ l \in Seq(Seq(Byte)) /\ x \in Seq(Byte) /\ y \in Seq(Byte)
        /\ r = LP!Content(LP!PeekWithBytes(l, n, x, y)) /\ c = (x \o y) \o LP!Content(l)
    BY <1>1, <1>2, <2>1, <2>3
  <2> HIDE DEF l
  <2>6. l \in Seq(Seq(Byte)) /\ x \in Seq(Byte) /\ y \in Seq(Byte) BY <2>5
  <2>7. LP!Shows(LP!Content(LP!PeekWithBytes(l, n, x, y)), (x \o y) \o LP!Content(l), n)
    BY ONLY <2>4, <2>6, LP!PeekShowsEnough
  <2> QED BY <2>5, <2>7 DEF LP!Shows
<1> QED BY <1>8, <1>9

(* elastic.Buffer.Peek leaves the buffer as it is. *)
LEMMA ElasticPeekSound ==
  ASSUME Inv, ElasticPeek
  PROVE  Sound
<1>1. kind = "elastic" /\ loop' = "no" /\ Unread BY DEF ElasticPeek, Idle
<1>2. PICK n \in Counts : Is("peek", n, List!Content(Mixed!Peek(mb, n))) /\ Puts(mb) BY DEF ElasticPeek
<1>3. n \in Nat BY DEF Counts
<1>4. mb \in Mb /\ mb.ring = ring /\ mb.list = list /\ Content = MC(mb) /\ Content \in Seq(Byte) /\ ring \in Held
  BY MbIs
<1>5. Inbound!Len0(ring) \in Nat BY <1>4, HeldFacts
<1>6. Inv' /\ Limited /\ Content' = Content
  <2> DEFINE w == mb
  <2>1. w \in Mb /\ Puts(w) /\ w.list = list /\ w.ring = ring /\ Content = MC(w) BY <1>2, <1>4
  <2> HIDE DEF w
  <2>2. /\ list = << >> /\ w.list # << >> => Inbound!Buffered(w.ring) >= MaxStatic
        /\ Inbound!Len0(ring) >= MaxStatic => Inbound!Len0(w.ring) <= Inbound!Len0(ring)
    BY <1>5, <2>1
  <2>3. next' \in 0..(Numbers - 1) BY <1>1, NextStays
  <2> QED BY <1>1, <2>1, <2>2, <2>3, MixedKeeps
<1> DEFINE r == List!Content(Mixed!Peek(mb, n))
           c == Content
<1>7. r = LP!Content(Mixed!Peek(mb, n)) BY ListIsLP
<1>8. /\ Len(r) \in Nat /\ Len(r) <= Len(c) /\ r = SubSeq(c, 1, Len(r))
      /\ n <= 0 => r = c
      /\ Len(r) >= n \/ r = c
  <2> DEFINE m == mb
  <2>1. m \in Mb /\ c = MC(m) /\ r = LP!Content(Mixed!Peek(m, n)) BY <1>4, <1>7
  <2> HIDE DEF m, c, r
  <2> QED BY <1>3, <2>1, MixedPeek
<1>9. call'.op = "peek" /\ call'.n = n /\ call'.ret = r BY <1>2 DEF Is
<1>10. c \in Seq(Byte) /\ Content' = c BY <1>4, <1>6
<1> HIDE DEF r
<1>11. Len(r) \in Queue!Least(Queue!OrAll(n), Len(c))..Len(c)
  <2> HIDE DEF c
  <2>1. Len(c) \in Nat BY <1>10
  <2>2. Queue!OrAll(n) = IF n <= 0 THEN Len(c) ELSE n BY DEF Queue!OrAll, c
  <2>3. Queue!Least(Queue!OrAll(n), Len(c)) <= Len(r) BY <1>3, <1>8, <2>1, <2>2 DEF Queue!Least
  <2>4. Queue!Least(Queue!OrAll(n), Len(c)) \in Nat BY <1>3, <2>1, <2>2 DEF Queue!Least
  <2> QED BY <1>8, <2>1, <2>3, <2>4
<1>12. Queue!Look BY <1>1, <1>8, <1>9, <1>10, <1>11 DEF Queue!Look, Queue!Returns, Unread
<1>13. Queue!Next BY <1>12 DEF Queue!Next
<1> QED BY <1>6, <1>13 DEF Sound

(* WriteTo of an elastic.Buffer to a writer that takes k bytes in all. *)
LEMMA MixedWriteTo ==
  ASSUME NEW m \in Mb, NEW k \in 0..Len(MC(m)), NEW err \in BOOLEAN, NEW w, w = Mixed!WriteTo(m, k, err)
  PROVE  /\ w \in Mb /\ Inbound!Len0(w.ring) <= Inbound!Len0(m.ring) /\ (m.list = << >> => w.list = << >>)
         /\ Inbound!IsEmpty(m.ring) => w = m
         /\ ~Inbound!IsEmpty(m.ring) =>
              \/ MC(w) = LP!Rest(MC(m), k)
              \/ k = 0 /\ Inbound!IsFull(m.ring) /\ m.ring.r = 0
              \/ err /\ k >= Inbound!Buffered(m.ring) /\ k < Len(MC(m))
<1> DEFINE R == m.ring
           L == m.list
           s == Inbound!Bytes(R)
           u == LP!Content(L)
           f == Inbound!Buffered(R)
           su == s \o u
<1>1. /\ s \in Seq(Byte) /\ u \in Seq(Byte) /\ MC(m) = su /\ R \in Held /\ L \in Seq(Seq(Byte))
      /\ Len(su) = Len(s) + Len(u) /\ m = [ring |-> R, list |-> L]
  BY MbFacts DEF MC
<1>2. f = Len(s) /\ f \in Nat /\ Inbound!Len0(R) \in Nat /\ (Inbound!IsEmpty(R) <=> s = << >>) BY <1>1, HeldFacts
<1>3. k \in Nat /\ k <= Len(s) + Len(u) BY <1>1
<1>4. w = CASE Inbound!IsEmpty(R)                  -> m
            [] ~Inbound!IsEmpty(R) /\ k < f        -> [m EXCEPT !.ring = Inbound!WriteTo(@, k)]
            [] OTHER -> [ring |-> Inbound!WriteTo(R, f), list |-> LP!WriteTo(L, k - f, err)]
  BY ElasticIsInbound, MixedListIsLP DEF Mixed!WriteTo
<1>5. u = LP!Content(L) /\ s = Inbound!Bytes(R) OBVIOUS
<1>6. R = m.ring /\ L = m.list OBVIOUS
<1> HIDE DEF R, L, s, u, f
<1>7. CASE Inbound!IsEmpty(R)
  <2>1. w = m BY <1>4, <1>7
  <2>2. Inbound!Len0(R) <= Inbound!Len0(R) BY <1>2
  <2>3. w.ring = R /\ w.list = L BY <1>6, <2>1
  <2> QED BY <1>6, <1>7, <2>1, <2>2, <2>3
<1>8. CASE ~Inbound!IsEmpty(R) /\ k < f
  <2> DEFINE b == Inbound!WriteTo(R, k)
  <2>1. w = [m EXCEPT !.ring = Inbound!WriteTo(@, k)] BY <1>4, <1>8
  <2>2. w = [ring |-> b, list |-> L] BY <1>1, <2>1
  <2>3. k <= Inbound!Buffered(R) BY <1>2, <1>3, <1>8 DEF f
  <2>4. /\ b \in Held /\ Inbound!Len0(b) <= Inbound!Len0(R)
        /\ ~(k = 0 /\ Inbound!IsFull(R) /\ R.r = 0) => Inbound!Bytes(b) = LP!Rest(s, k)
    BY <1>1, <1>3, <1>5, <2>3, InboundWriteTo
  <2> HIDE DEF b
  <2>5. w \in Mb /\ w.ring = b /\ w.list = L BY <1>1, <2>2, <2>4 DEF Mb, Lists
  <2>6. LP!Rest(su, k) = LP!Rest(s, k) \o u
    <3>1. k <= Len(s) BY <1>2, <1>8
    <3> QED BY <1>1, <1>3, <3>1, LP!RestOfConcat
  <2>7. MC(w) = Inbound!Bytes(b) \o u BY <1>5, <2>5 DEF MC
  <2> HIDE DEF su
  <2>8. ~(k = 0 /\ Inbound!IsFull(R) /\ R.r = 0) => MC(w) = LP!Rest(MC(m), k) BY <1>1, <2>4, <2>6, <2>7
  <2> QED BY <1>6, <1>8, <2>4, <2>5, <2>8
<1>9. CASE ~Inbound!IsEmpty(R) /\ ~(k < f)
  <2> DEFINE b == Inbound!WriteTo(R, f)
             j == k - f
             d == LP!WriteTo(L, j, err)
  <2>1. w = [ring |-> b, list |-> d] BY <1>4, <1>9
  <2>2. f <= Inbound!Buffered(R) /\ f # 0
    <3>1. s # << >> BY <1>2, <1>9
    <3>2. Len(s) # 0 BY <1>1, <3>1
    <3> QED BY <1>2, <3>2 DEF f
  <2>3. b \in Held /\ Inbound!Len0(b) <= Inbound!Len0(R) /\ Inbound!Bytes(b) = LP!Rest(s, f)
    BY <1>1, <1>2, <1>5, <2>2, InboundWriteTo
  <2>4. Inbound!Bytes(b) = << >>
    <3>1. f \in Nat /\ f >= Len(s) BY <1>2
    <3> QED BY <1>1, <2>3, <3>1, LP!RestOf
  <2>5. j \in Nat /\ k = f + j BY <1>2, <1>3, <1>9
  <2> HIDE DEF j
  <2>6. /\ d \in Seq(Seq(Byte)) /\ (L = << >> => d = L)
        /\ ~err \/ j >= LP!Buffered(L) => LP!Content(d) = LP!Rest(LP!Content(L), j)
    BY <1>1, <2>5, LP!WriteToDropsFront
  <2>7. LP!Buffered(L) = Len(u) BY <1>5 DEF LP!Buffered
  <2> HIDE DEF b, d
  <2>8. w \in Mb /\ w.ring = b /\ w.list = d BY <2>1, <2>3, <2>6 DEF Mb, Lists
  <2>9. LP!Content(d) \in Seq(Byte) BY <2>6, LP!ContentIs
  <2>10. MC(w) = LP!Content(d)
    <3> DEFINE c == LP!Content(d)
    <3>1. << >> \o c = c
      <4>1. c \in Seq(Byte) BY <2>9
      <4> HIDE DEF c
      <4> QED BY <4>1, ConcatEmptySeq
    <3>2. MC(w) = << >> \o c BY <2>4, <2>8 DEF MC
    <3> QED BY <3>1, <3>2
  <2>11. LP!Rest(su, k) = LP!Rest(u, j)
    <3>1. k >= Len(s) /\ k - Len(s) = j BY <1>2, <2>5
    <3>2. LP!Rest(su, k) = LP!Rest(u, k - Len(s)) BY <1>1, <1>3, <3>1, LP!RestOfConcat
    <3> QED BY <3>1, <3>2
  <2>12. Len(MC(m)) = f + Len(u) BY <1>1, <1>2
  <2> HIDE DEF su
  <2>13. ~err \/ j >= Len(u) => MC(w) = LP!Rest(MC(m), k) BY <1>1, <1>5, <2>6, <2>7, <2>10, <2>11
  <2>14. ~(j >= Len(u)) => k >= f /\ k < Len(MC(m)) BY <1>1, <1>2, <2>5, <2>12
  <2>15. (L = << >> => w.list = << >>) BY <2>6, <2>8
  <2> QED BY <1>6, <1>9, <2>3, <2>8, <2>13, <2>14, <2>15 DEF f
<1> QED BY <1>7, <1>8, <1>9

(* elastic.Buffer.WriteTo: what goes wrong is ListNotReached, NothingTakenDropsAll or *)
(* NodeLostOnError.                                                                   *)
LEMMA ElasticWriteToSound ==
  ASSUME Inv, ElasticWriteTo
  PROVE  Sound
<1>1. kind = "elastic" /\ loop' = "no" /\ Unread BY DEF ElasticWriteTo, Idle
<1>2. PICK k \in 0..Len(Content), err \in BOOLEAN :
        /\ Is(IF err THEN "writefail" ELSE "write", k,
              IF Inbound!IsEmpty(ring) THEN << >> ELSE Mixed!Taken(mb, k))
        /\ Puts(Mixed!WriteTo(mb, k, err))
  BY DEF ElasticWriteTo
<1> DEFINE w == Mixed!WriteTo(mb, k, err)
           m == mb
           op == IF err THEN "writefail" ELSE "write"
           ret == IF Inbound!IsEmpty(ring) THEN << >> ELSE Mixed!Taken(mb, k)
<1>3. Puts(w) /\ Is(op, k, ret) BY <1>2
<1>4. /\ m \in Mb /\ m.ring = ring /\ m.list = list /\ Content = MC(m) /\ Content \in Seq(Byte)
      /\ Len(Content) \in Nat /\ ring \in Held
  BY MbIs
<1>5. w = Mixed!WriteTo(m, k, err) OBVIOUS
<1>6. /\ Inbound!IsEmpty(ring) => ret = << >>
      /\ ~Inbound!IsEmpty(ring) => ret = Mixed!Taken(m, k)
  OBVIOUS
<1>7. op \in {"write", "writefail"} /\ (err => op = "writefail") OBVIOUS
<1> HIDE DEF w, m, op, ret
<1>8. k \in 0..Len(MC(m)) BY <1>4
<1>9. /\ w \in Mb /\ Inbound!Len0(w.ring) <= Inbound!Len0(ring) /\ (list = << >> => w.list = << >>)
      /\ Inbound!IsEmpty(ring) => w = m
      /\ ~Inbound!IsEmpty(ring) =>
           \/ MC(w) = LP!Rest(Content, k)
           \/ k = 0 /\ Inbound!IsFull(ring) /\ ring.r = 0
           \/ err /\ k >= Inbound!Buffered(ring) /\ k < Len(Content)
  <2>1. /\ w \in Mb /\ Inbound!Len0(w.ring) <= Inbound!Len0(m.ring) /\ (m.list = << >> => w.list = << >>)
        /\ Inbound!IsEmpty(m.ring) => w = m
        /\ ~Inbound!IsEmpty(m.ring) =>
             \/ MC(w) = LP!Rest(MC(m), k)
             \/ k = 0 /\ Inbound!IsFull(m.ring) /\ m.ring.r = 0
             \/ err /\ k >= Inbound!Buffered(m.ring) /\ k < Len(MC(m))
    BY <1>4, <1>5, <1>8, MixedWriteTo
  <2> QED BY <1>4, <2>1
<1>10. Inv' /\ Limited /\ Content' = MC(w)
  <2>1. next' \in 0..(Numbers - 1) BY <1>1, NextStays
  <2>2. list = << >> /\ w.list # << >> => Inbound!Buffered(w.ring) >= MaxStatic BY <1>9
  <2>3. Inbound!Len0(ring) >= MaxStatic => Inbound!Len0(w.ring) <= Inbound!Len0(ring) BY <1>9
  <2> QED BY <1>1, <1>3, <1>9, <2>1, <2>2, <2>3, MixedKeeps
<1>11. k \in Nat BY <1>4
<1>12. call'.op = op /\ call'.n = k BY <1>3 DEF Is
<1>13. CASE Inbound!IsEmpty(ring)
  <2>1. CASE k > 0
    <3>1. Defect BY <1>7, <1>12, <1>13, <2>1 DEF Defect, ListNotReached
    <3> QED BY <1>10, <3>1 DEF Sound
  <2>2. CASE k = 0
    <3>1. LP!Rest(Content, 0) = Content BY <1>4, LP!RestOf
    <3>2. Content' = LP!Rest(Content, k) BY <1>4, <1>9, <1>10, <1>13, <2>2, <3>1
    <3>3. ret = FirstBytes(Content, k)
      <4>1. Least0(0, Len(Content)) = 0 BY <1>4 DEF Least0
      <4>2. SubSeq(Content, 1, 0) = << >> BY <1>4
      <4> QED BY <1>6, <1>13, <2>2, <4>1, <4>2 DEF FirstBytes
    <3>4. Queue!Next BY <1>1, <1>3, <1>7, <3>2, <3>3, TakeStep
    <3> QED BY <1>10, <3>4 DEF Sound
  <2> QED BY <1>11, <2>1, <2>2
<1>14. CASE ~Inbound!IsEmpty(ring)
  <2>1. CASE MC(w) = LP!Rest(Content, k)
    <3>1. Content' = LP!Rest(Content, k) BY <1>10, <2>1
    <3>2. ret = FirstBytes(Content, k)
      <4>1. Mixed!Taken(m, k) = FirstBytes(MC(m), k) BY <1>4, <1>11, MixedTaken
      <4> QED BY <1>4, <1>6, <1>14, <4>1
    <3>3. Queue!Next BY <1>1, <1>3, <1>7, <3>1, <3>2, TakeStep
    <3> QED BY <1>10, <3>3 DEF Sound
  <2>2. CASE k = 0 /\ Inbound!IsFull(ring) /\ ring.r = 0
    <3>1. Defect BY <1>7, <1>12, <2>2 DEF Defect, NothingTakenDropsAll
    <3> QED BY <1>10, <3>1 DEF Sound
  <2>3. CASE err /\ k >= Inbound!Buffered(ring) /\ k < Len(Content)
    <3>1. Defect BY <1>7, <1>12, <1>14, <2>3 DEF Defect, NodeLostOnError
    <3> QED BY <1>10, <3>1 DEF Sound
  <2> QED BY <1>9, <1>14, <2>1, <2>2, <2>3
<1> QED BY <1>13, <1>14

(* What Writev has in hand: the buffer, the room that is left in the ring, and whether *)
(* the list's turn has come.                                                           *)
Puttings == {a \in [mb : Mb, room : Nat, split : BOOLEAN] : ~a.split => a.mb.list = << >>}

(* From m on it has put the bytes c. *)
Putting(a, m, c) ==
  /\ MC(a.mb) = Cat(MC(m), c)
  /\ ~a.split => a.room + Inbound!Buffered(a.mb.ring) >= MaxStatic
  /\ a.split => m.list # << >> \/ Inbound!Buffered(a.mb.ring) >= MaxStatic
  /\ Inbound!Len0(m.ring) >= MaxStatic =>
       /\ Inbound!Len0(a.mb.ring) = Inbound!Len0(m.ring)
       /\ ~a.split => a.room <= Inbound!Available(a.mb.ring)

(* One slice more. *)
LEMMA PutGoesOn ==
  ASSUME NEW m \in Mb, NEW a \in Puttings, NEW p \in Seq(Byte), Len(p) <= MaxBytes, NEW q \in Pooled,
         NEW c \in Seq(Byte)
  PROVE  Mixed!Put(a, p, q) \in Puttings /\ (Putting(a, m, c) => Putting(Mixed!Put(a, p, q), m, Cat(c, p)))
<1> DEFINE n == IF a.split THEN 0 ELSE IF Len(p) > a.room THEN a.room ELSE Len(p)
           y == a.mb
           room == a.room
           w == Mixed!Split(y, p, n, q)
           d == [mb |-> w, room |-> room - n, split |-> a.split \/ Len(p) > room]
<1>1. y \in Mb /\ room \in Nat /\ a.split \in BOOLEAN /\ (~a.split => y.list = << >>) BY DEF Puttings
<1>2. Len(p) \in Nat OBVIOUS
<1>3. n \in Nat /\ n <= Len(p) /\ (a.split => n = 0) /\ (~a.split => n <= room) BY <1>1, <1>2
<1>4. n > 0 => y.list = << >> BY <1>1, <1>3
<1>5. /\ a.split \/ Len(p) > room \/ n = Len(p)
      /\ ~a.split /\ Len(p) > room => n = room
  BY <1>1, <1>2
<1>6. Mixed!Put(a, p, q) = d BY DEF Mixed!Put
<1>7. d.mb = w /\ d.room = room - n /\ d.split = (a.split \/ Len(p) > room) OBVIOUS
<1>8. w = Mixed!Split(y, p, n, q) /\ y = a.mb /\ room = a.room OBVIOUS
<1>9. d = [mb |-> w, room |-> room - n, split |-> (a.split \/ Len(p) > room)] OBVIOUS
<1> HIDE DEF n, y, w, room, d
<1>10. /\ w \in Mb /\ MC(w) = MC(y) \o p
       /\ n = Len(p) => w.list = y.list
       /\ n = 0 => w.ring = y.ring
       /\ Inbound!Buffered(w.ring) = Inbound!Buffered(y.ring) + n
       /\ n <= Inbound!Available(y.ring) => Inbound!Len0(w.ring) = Inbound!Len0(y.ring)
  <2>1. /\ y \in Mb /\ p \in Seq(Byte) /\ Len(p) <= MaxBytes /\ n \in Nat /\ n <= Len(p) /\ q \in Pooled
        /\ (n > 0 => y.list = << >>) /\ w = Mixed!Split(y, p, n, q)
    BY <1>1, <1>3, <1>4, <1>8
  <2>2. MaySplit(y, p, n, q) BY ONLY <2>1 DEF MaySplit
  <2>3. HasSplit(Mixed!Split(y, p, n, q), y, p, n) BY ONLY <2>2, MixedSplit
  <2> QED BY ONLY <2>1, <2>3 DEF HasSplit
<1>11. room - n \in Nat \/ a.split BY <1>1, <1>3
<1>12. room - n \in Nat BY <1>1, <1>3, <1>11
<1>13. d.split \in BOOLEAN BY <1>1, <1>7
<1>14. d \in Puttings
  <2>1. d \in [mb : Mb, room : Nat, split : BOOLEAN] BY <1>7, <1>9, <1>10, <1>12, <1>13
  <2>2. ~d.split => d.mb.list = << >> BY <1>1, <1>5, <1>7, <1>10
  <2> QED BY <2>1, <2>2 DEF Puttings
<1>15. ASSUME Putting(a, m, c) PROVE Putting(d, m, Cat(c, p))
  <2>1. /\ MC(y) = Cat(MC(m), c)
        /\ ~a.split => room + Inbound!Buffered(y.ring) >= MaxStatic
        /\ a.split => m.list # << >> \/ Inbound!Buffered(y.ring) >= MaxStatic
        /\ Inbound!Len0(m.ring) >= MaxStatic =>
             /\ Inbound!Len0(y.ring) = Inbound!Len0(m.ring)
             /\ ~a.split => room <= Inbound!Available(y.ring)
    BY <1>8, <1>15 DEF Putting
  <2> DEFINE f == Inbound!Buffered(y.ring)
             g == Inbound!Buffered(w.ring)
             av == Inbound!Available(y.ring)
             aw == Inbound!Available(w.ring)
             sy == Inbound!Len0(y.ring)
             sw == Inbound!Len0(w.ring)
             sm == Inbound!Len0(m.ring)
             x == MC(m)
  <2>2. y.ring \in Held /\ w.ring \in Held /\ m.ring \in Held /\ x \in Seq(Byte) BY <1>1, <1>10, MbFacts
  <2>3. f \in Nat /\ sy \in Nat /\ av \in Nat /\ av = sy - f BY <2>2, HeldFacts
  <2>4. g \in Nat /\ sw \in Nat /\ aw \in Nat /\ aw = sw - g BY <2>2, HeldFacts
  <2>5. sm \in Nat /\ MaxStatic \in Nat BY <2>2, HeldFacts, ScaleAssumption
  <2>6. g = f + n /\ (n <= av => sw = sy) BY <1>10
  <2>7. MC(w) = Cat(x, Cat(c, p))
    <3>1. MC(w) = Cat(Cat(x, c), p) BY <1>10, <2>1 DEF Cat
    <3>2. x \in Seq(Byte) /\ c \in Seq(Byte) /\ p \in Seq(Byte) BY <2>2
    <3> HIDE DEF x
    <3>3. Cat(Cat(x, c), p) = Cat(x, Cat(c, p)) BY ONLY <3>2, CatAgain
    <3> QED BY <3>1, <3>3
  <2>8. ~d.split => d.room + g >= MaxStatic BY <1>1, <1>3, <1>7, <2>1, <2>3, <2>5, <2>6
  <2>9. d.split => m.list # << >> \/ g >= MaxStatic
    <3>1. CASE a.split BY <1>3, <2>1, <2>3, <2>6, <3>1
    <3>2. CASE ~a.split /\ Len(p) > room BY <1>1, <1>5, <2>1, <2>3, <2>5, <2>6, <3>2
    <3> QED BY <1>7, <3>1, <3>2
  <2>10. sm >= MaxStatic => sw = sm /\ (~d.split => d.room <= aw)
    <3>1. ASSUME sm >= MaxStatic PROVE sw = sm /\ (~d.split => d.room <= aw)
      <4>1. sy = sm /\ (~a.split => room <= av) BY <2>1, <3>1
      <4>2. n <= av BY <1>1, <1>3, <2>3, <4>1
      <4> HIDE DEF f, g, av, aw, sy, sw, sm
      <4>3. sw = sy BY <2>6, <4>2
      <4>4. aw = av - n BY <1>3, <2>3, <2>4, <2>6, <4>3
      <4>5. ~d.split => ~a.split /\ d.room = room - n BY <1>7
      <4>6. ~d.split => d.room <= aw BY <1>1, <1>3, <2>3, <2>4, <4>1, <4>4, <4>5
      <4> QED BY <4>1, <4>3, <4>6
    <3> QED BY <3>1
  <2>11. d.mb = w BY <1>7
  <2> QED BY <2>7, <2>8, <2>9, <2>10, <2>11 DEF Putting
<1> QED BY <1>6, <1>14, <1>15

(* Slices that are no longer than a call may bring. *)
Fitting(bs) == \A i \in 1..Len(bs) : Len(bs[i]) <= MaxBytes

(* All slices: by induction on how many were put. *)
LEMMA PutAllAppends ==
  ASSUME NEW m \in Mb, NEW bs \in Seq(Seq(Byte)), Fitting(bs), NEW q \in Pooled, NEW room \in Nat,
         NEW x, x = [mb |-> m, room |-> room, split |-> Mixed!ToList(m)],
         x \in Puttings, Putting(x, m, << >>)
  PROVE  \E a \in Puttings : Mixed!PutAll(m, bs, room, q) = a.mb /\ Putting(a, m, LP!Content(bs))
<1> DEFINE N == Len(bs)
           A == Puttings
           G == [i \in 1..N |-> [a \in A |-> Mixed!Put(a, bs[i], q)]]
           g == CHOOSE h : h = [i \in 0..N |-> IF i = 0 THEN [mb |-> m, room |-> room, split |-> Mixed!ToList(m)]
                                               ELSE Mixed!Put(h[i - 1], bs[i], q)]
<1>1. N \in Nat /\ \A i \in 1..N : bs[i] \in Seq(Byte) /\ Len(bs[i]) <= MaxBytes BY DEF Fitting
<1>2. Mixed!PutAll(m, bs, room, q) = g[N].mb BY DEF Mixed!PutAll
<1>3. g = CHOOSE h : h = [i \in 0..N |-> IF i = 0 THEN x ELSE Mixed!Put(h[i - 1], bs[i], q)] OBVIOUS
<1> HIDE DEF g
<1>4. G \in LP!Turns(A, N)
  <2>1. ASSUME NEW i \in 1..N PROVE [a \in A |-> Mixed!Put(a, bs[i], q)] \in [A -> A]
    <3>1. << >> \in Seq(Byte) OBVIOUS
    <3>2. \A a \in A : Mixed!Put(a, bs[i], q) \in A BY <1>1, <3>1, PutGoesOn
    <3> HIDE DEF A
    <3> QED BY <3>2
  <2> HIDE DEF A
  <2> QED BY <2>1 DEF LP!Turns
<1>5. \A i \in 1..N : \A a \in A : G[i][a] = Mixed!Put(a, bs[i], q) OBVIOUS
<1> HIDE DEF G, A
<1>6. PICK f \in [0..N -> A] : f[0] = x /\ \A i \in 1..N : f[i] = G[i][f[i - 1]]
  <2>1. \E f : f \in LP!Values(A, N, x, G)
    <3>1. N \in Nat /\ x \in A BY <1>1 DEF A
    <3> HIDE DEF N
    <3> QED BY <1>4, <3>1, LP!Iterates, Zenon
  <2> QED BY <2>1 DEF LP!Values
<1>7. ASSUME NEW i \in 1..N PROVE f[i] = Mixed!Put(f[i - 1], bs[i], q)
  <2>1. i - 1 \in 0..N BY <1>1
  <2> QED BY <1>5, <1>6, <2>1
<1>8. g[N] = f[N]
  <2>1. f = [i \in 0..N |-> IF i = 0 THEN x ELSE Mixed!Put(f[i - 1], bs[i], q)]
    <3>1. ASSUME NEW i \in 0..N PROVE f[i] = IF i = 0 THEN x ELSE Mixed!Put(f[i - 1], bs[i], q)
      <4>1. i # 0 => i \in 1..N BY <1>1
      <4> QED BY <1>6, <1>7, <4>1
    <3> QED BY <1>6, <3>1
  <2>2. g = [i \in 0..N |-> IF i = 0 THEN x ELSE Mixed!Put(g[i - 1], bs[i], q)] BY <1>3, <2>1
  <2>3. ASSUME NEW i \in 1..N, g[i - 1] = f[i - 1] PROVE g[i] = f[i]
    <3>1. i \in 0..N /\ i # 0 BY <1>1
    <3> QED BY <1>7, <2>2, <2>3, <3>1
  <2>4. g[0] = f[0]
    <3>1. 0 \in 0..N BY <1>1
    <3> QED BY <1>6, <2>2, <3>1
  <2>5. LP!GoAlike(g, f, N) BY <2>3, <2>4 DEF LP!GoAlike
  <2>6. N \in Nat /\ N \in 0..N BY <1>1
  <2> HIDE DEF N
  <2>7. LP!Alike(g, f, N) BY <2>5, <2>6, LP!SameValues
  <2> QED BY <2>6, <2>7 DEF LP!Alike
<1>9. PICK c \in [0..N -> Seq(Byte)] : /\ c[0] = << >> /\ \A i \in 1..N : c[i] = c[i - 1] \o bs[i]
                                       /\ c[N] = LP!Content(bs)
  BY LP!ContentSteps
<1> DEFINE P == {j \in Nat : j <= N => Putting(f[j], m, c[j])}
<1>10. 0 \in P BY <1>6, <1>9
<1>11. ASSUME NEW j \in Nat, j \in P PROVE j + 1 \in P
  <2> SUFFICES ASSUME j + 1 <= N PROVE Putting(f[j + 1], m, c[j + 1]) OBVIOUS
  <2>1. j <= N /\ j \in 0..N /\ j + 1 \in 1..N /\ (j + 1) - 1 = j BY <1>1
  <2>2. f[j] \in Puttings /\ c[j] \in Seq(Byte) /\ bs[j + 1] \in Seq(Byte) /\ Len(bs[j + 1]) <= MaxBytes
    BY <1>1, <1>6, <1>9, <2>1 DEF A
  <2>3. f[j + 1] = Mixed!Put(f[j], bs[j + 1], q) /\ c[j + 1] = Cat(c[j], bs[j + 1]) BY <1>7, <1>9, <2>1 DEF Cat
  <2>4. Putting(f[j], m, c[j]) BY <1>11, <2>1
  <2>5. Putting(Mixed!Put(f[j], bs[j + 1], q), m, Cat(c[j], bs[j + 1])) BY <2>2, <2>4, PutGoesOn
  <2> QED BY <2>3, <2>5
<1>12. N \in P
  <2> HIDE DEF P
  <2> QED BY <1>1, <1>10, <1>11, LP!AllNumbers
<1>13. Putting(f[N], m, LP!Content(bs)) /\ f[N] \in Puttings
  <2>1. N \in 0..N /\ N <= N BY <1>1
  <2> QED BY <1>6, <1>9, <1>12, <2>1 DEF A
<1> HIDE DEF N
<1> QED BY <1>2, <1>8, <1>13


(* The bytes of the stream from sent before next on, and what is left of them. *)
Before(k, sent) == [j \in 1..(sent + k) |-> (next + j - 1 - sent) % Numbers]

(* They are bytes, and the last k are those that come. *)
LEMMA BeforeIs ==
  ASSUME Inv, NEW k \in Sizes, NEW sent \in {0, 1}
  PROVE  /\ Before(k, sent) \in Seq(Byte) /\ Len(Before(k, sent)) = sent + k
         /\ LP!Rest(Before(k, sent), sent) = Incoming(k)
<1>1. k \in Nat /\ Incoming(k) \in Seq(Byte) /\ Len(Incoming(k)) = k BY IncomingIs
<1>2. sent \in Nat /\ next \in Int /\ Numbers \in Nat \ {0} BY StreamAssumption DEF Inv
<1> DEFINE e(j) == (next + j - 1 - sent) % Numbers
           n == sent + k
           d == [j \in 1..n |-> e(j)]
<1>3. ASSUME NEW j \in 1..n PROVE e(j) \in Byte
  <2> DEFINE x == next + j - 1 - sent
  <2>1. x \in Int BY <1>1, <1>2
  <2> HIDE DEF x
  <2>2. x % Numbers \in 0..(Numbers - 1) BY <1>2, <2>1
  <2> QED BY <2>2 DEF x, Byte
<1>4. n \in Nat BY <1>1, <1>2
<1>5. Before(k, sent) = d BY DEF Before
<1> HIDE DEF e
<1>6. d \in Seq(Byte) /\ Len(d) = n /\ \A j \in 1..n : d[j] = e(j) BY <1>3, <1>4
<1> DEFINE r == LP!Rest(d, sent)
<1> HIDE DEF d
<1>7. /\ r \in Seq(Byte)
      /\ Len(r) = IF sent <= Len(d) THEN Len(d) - sent ELSE 0
      /\ \A j \in 1..Len(r) : r[j] = d[sent + j]
  BY <1>2, <1>6, LP!RestOf
<1> HIDE DEF r
<1>8. Len(r) = k BY <1>1, <1>2, <1>6, <1>7
<1>9. ASSUME NEW j \in 1..k PROVE r[j] = Incoming(k)[j]
  <2>1. sent + j \in 1..n BY <1>1, <1>2
  <2>2. r[j] = e(sent + j) BY <1>6, <1>7, <1>8, <2>1
  <2>3. next + (sent + j) - 1 - sent = next + j - 1 BY <1>1, <1>2
  <2>4. e(sent + j) = (next + j - 1) % Numbers BY <2>3 DEF e
  <2>5. Incoming(k)[j] = (next + j - 1) % Numbers BY DEF Incoming
  <2> QED BY <2>2, <2>4, <2>5
<1>10. r = Incoming(k)
  <2> DEFINE i == Incoming(k)
  <2>1. i \in Seq(Byte) /\ Len(i) = k /\ \A j \in 1..k : r[j] = i[j] BY <1>1, <1>9
  <2> HIDE DEF i
  <2>2. r = i BY <1>7, <1>8, <2>1, SeqEqual
  <2> QED BY <2>2 DEF i
<1> QED BY <1>5, <1>6, <1>10 DEF r

(* The two slices of a Writev, cut after n bytes of d, and what is left of them to send. *)
TwoParts(bs, d, n, k, sent) ==
  /\ k \in Sizes /\ sent \in {0, 1} /\ n \in Nat /\ n <= sent + k
  /\ d = Before(k, sent) /\ bs = <<SubSeq(d, 1, n), SubSeq(d, n + 1, sent + k)>>
StillToSend(l, k) == l \in Seq(Seq(Byte)) /\ LP!Content(l) = Incoming(k) /\ Fitting(l)

(* What is left of two slices of which the first sent bytes were taken: slices that *)
(* fit and hold what comes.                                                          *)
LEMMA LeftoverIs ==
  ASSUME Inv, NEW k, NEW sent, NEW n, NEW d, NEW bs, TwoParts(bs, d, n, k, sent)
  PROVE  StillToSend(Leftover(bs, sent), k)
<1> /\ k \in Sizes /\ sent \in {0, 1} /\ n \in Nat /\ n <= sent + k
    /\ d = Before(k, sent) /\ bs = <<SubSeq(d, 1, n), SubSeq(d, n + 1, sent + k)>>
  BY DEF TwoParts
<1>1. k \in Nat /\ k <= MaxBytes /\ Len(Incoming(k)) = k /\ sent \in Nat /\ MaxBytes \in Int
  BY IncomingIs, StreamAssumption
<1>2. d \in Seq(Byte) /\ Len(d) = sent + k /\ LP!Rest(d, sent) = Incoming(k) BY BeforeIs
<1>3. n \in Nat /\ n <= Len(d) BY <1>2
<1> DEFINE x == SubSeq(d, 1, n)
           y == LP!Rest(d, n)
           l == Leftover(bs, sent)
<1>4. x \in Seq(Byte) /\ y \in Seq(Byte) /\ x \o y = d BY ONLY <1>2, <1>3, CutAt
<1>5. bs = <<x, y>> BY <1>2 DEF LP!Rest
<1> HIDE DEF x, y
<1>6. LP!Content(bs) = d BY <1>4, <1>5, ContentOfTwo DEF Cat
<1>7. bs \in Seq(Seq(Byte))
  <2> DEFINE T == Seq(Byte)
  <2>1. x \in T /\ y \in T BY <1>4
  <2> HIDE DEF T
  <2>2. <<x, y>> \in Seq(T) BY ONLY <2>1
  <2> QED BY <1>5, <2>2 DEF T
<1>8. l = LP!Discard(bs, sent) BY ListIsLP DEF Leftover
<1>9. /\ LP!Discard(bs, sent) \in Seq(Seq(Byte))
      /\ sent <= 0 => LP!Discard(bs, sent) = bs
      /\ sent > 0 => LP!Content(LP!Discard(bs, sent)) = LP!Rest(LP!Content(bs), sent)
  <2>1. sent \in Int BY <1>1
  <2> QED BY ONLY <1>7, <2>1, LP!DiscardDropsFront
<1> HIDE DEF l
<1>10. LP!Content(l) = Incoming(k)
  <2>1. CASE sent = 0
    <3>1. LP!Rest(d, 0) = d BY <1>2, LP!RestOf
    <3>2. sent <= 0 BY <2>1
    <3>3. l = bs BY <1>8, <1>9, <3>2
    <3> QED BY <1>2, <1>6, <2>1, <3>1, <3>3
  <2>2. CASE sent = 1
    <3>1. sent > 0 BY <2>2
    <3> QED BY <1>2, <1>6, <1>8, <1>9, <3>1
  <2> QED BY <2>1, <2>2
<1>11. l \in Seq(Seq(Byte)) BY <1>8, <1>9
<1>12. Fitting(l)
  <2>1. LP!Buffered(l) = k BY <1>1, <1>10 DEF LP!Buffered
  <2>2. ASSUME NEW i \in 1..Len(l) PROVE Len(l[i]) <= MaxBytes
    <3>1. i \in Nat /\ i > 0 /\ i <= Len(l) /\ Len(l[i]) \in Nat BY <1>11
    <3>2. Len(l[i]) <= LP!Buffered(l) BY <1>11, <3>1, LP!NodeFits
    <3> QED BY <1>1, <2>1, <3>1, <3>2
  <2> QED BY <2>2 DEF Fitting
<1> QED BY <1>10, <1>11, <1>12 DEF l, StillToSend

(* Writev: the room it starts with is what maxStaticBytes leaves, or what a ring of that *)
(* size or more has free.                                                                *)
LEMMA MixedWritev ==
  ASSUME NEW m \in Mb, NEW bs \in Seq(Seq(Byte)), Fitting(bs), NEW q \in Pooled,
         NEW w, w = Mixed!Writev(m, bs, q)
  PROVE  /\ w \in Mb /\ MC(w) = MC(m) \o LP!Content(bs)
         /\ m.list = << >> /\ w.list # << >> => Inbound!Buffered(w.ring) >= MaxStatic
         /\ Inbound!Len0(m.ring) >= MaxStatic => Inbound!Len0(w.ring) <= Inbound!Len0(m.ring)
<1> DEFINE R == m.ring
           av == Inbound!Available(R)
           s == Inbound!Len0(R)
           f == Inbound!Buffered(R)
           room == IF s < MaxStatic THEN MaxStatic - f ELSE av
           split == Mixed!ToList(m)
           x == [mb |-> m, room |-> room, split |-> split]
<1>1. R \in Held /\ MC(m) \in Seq(Byte) BY MbFacts
<1>2. s \in Nat /\ av \in Nat /\ f \in Nat /\ av = s - f /\ MaxStatic \in Nat
  BY <1>1, HeldFacts, ScaleAssumption
<1>3. split = (~(m.list = << >>) \/ f >= MaxStatic) BY ElasticIsInbound, MixedListIsLP DEF Mixed!ToList
<1>4. split \in BOOLEAN /\ (~split => m.list = << >>) BY <1>3
<1>5. w = Mixed!PutAll(m, bs, room, q) BY ElasticIsInbound DEF Mixed!Writev
<1>6. R = m.ring OBVIOUS
<1>7. x = [mb |-> m, room |-> room, split |-> Mixed!ToList(m)] OBVIOUS
<1>8. x.mb = m /\ x.room = room /\ x.split = split OBVIOUS
<1>9. room \in Nat /\ room + f >= MaxStatic /\ (s >= MaxStatic => room = av)
  <2> HIDE DEF R, av, s, f
  <2> QED BY <1>2
<1> HIDE DEF R, av, s, f, room, split
<1>10. x \in [mb : Mb, room : Nat, split : BOOLEAN] BY <1>4, <1>9
<1> HIDE DEF x
<1>11. x \in Puttings BY <1>4, <1>8, <1>10 DEF Puttings
<1>12. Putting(x, m, << >>)
  <2>1. MC(m) = Cat(MC(m), << >>)
    <3> DEFINE c == MC(m)
    <3>1. c \in Seq(Byte) BY <1>1
    <3> HIDE DEF c
    <3>2. c \o << >> = c BY <3>1, ConcatEmptySeq
    <3> QED BY <3>2 DEF c, Cat
  <2>2. ~x.split => x.room + Inbound!Buffered(x.mb.ring) >= MaxStatic BY <1>6, <1>8, <1>9 DEF f
  <2>3. x.split => m.list # << >> \/ Inbound!Buffered(x.mb.ring) >= MaxStatic BY <1>3, <1>6, <1>8 DEF f
  <2>4. Inbound!Len0(m.ring) >= MaxStatic =>
          /\ Inbound!Len0(x.mb.ring) = Inbound!Len0(m.ring)
          /\ ~x.split => x.room <= Inbound!Available(x.mb.ring)
    <3>1. s >= MaxStatic => room <= av BY <1>2, <1>9
    <3> QED BY <1>6, <1>8, <3>1 DEF s, av
  <2>5. MC(x.mb) = MC(m) BY <1>8
  <2> QED BY <2>1, <2>2, <2>3, <2>4, <2>5 DEF Putting
<1>13. PICK a \in Puttings : Mixed!PutAll(m, bs, room, q) = a.mb /\ Putting(a, m, LP!Content(bs))
  BY <1>7, <1>9, <1>11, <1>12, PutAllAppends
<1>14. w = a.mb /\ w \in Mb /\ (~a.split => w.list = << >>) BY <1>5, <1>13 DEF Puttings
<1>15. /\ MC(w) = Cat(MC(m), LP!Content(bs))
       /\ a.split => m.list # << >> \/ Inbound!Buffered(w.ring) >= MaxStatic
       /\ Inbound!Len0(m.ring) >= MaxStatic => Inbound!Len0(w.ring) = Inbound!Len0(m.ring)
  BY <1>13, <1>14 DEF Putting
<1>16. Inbound!Len0(m.ring) >= MaxStatic => Inbound!Len0(w.ring) <= Inbound!Len0(m.ring)
  <2>1. Inbound!Len0(m.ring) <= Inbound!Len0(m.ring) BY <1>2, <1>6 DEF s
  <2> QED BY <1>15, <2>1
<1>17. a.split \in BOOLEAN BY DEF Puttings
<1> QED BY <1>14, <1>15, <1>16, <1>17 DEF Cat

(* elastic.Buffer.Writev with what a writev of the socket left over. *)
LEMMA ElasticWritevSound ==
  ASSUME Inv, ElasticWritev
  PROVE  Sound
<1>1. kind = "elastic" /\ loop' = "no" BY DEF ElasticWritev, Idle
<1> DEFINE Sends(k, p, i, sent) ==
             LET data == [j \in 1..(sent + k) |-> (next + j - 1 - sent) % Numbers]
                 bs   == <<SubSeq(data, 1, sent + i), SubSeq(data, sent + i + 1, sent + k)>>
             IN  Comes(k) /\ Puts(Mixed!Writev(mb, Leftover(bs, sent), p))
<1>1a. PICK k \in Sizes, p \in Pooled : \E i \in 0..k, sent \in {0, 1} : Sends(k, p, i, sent)
  BY DEF ElasticWritev
<1>1b. PICK i \in 0..k, sent \in {0, 1} : Sends(k, p, i, sent)
  <2> HIDE DEF Sends
  <2> QED BY <1>1a
<1>2. LET data == [j \in 1..(sent + k) |-> (next + j - 1 - sent) % Numbers]
          bs   == <<SubSeq(data, 1, sent + i), SubSeq(data, sent + i + 1, sent + k)>>
      IN  Comes(k) /\ Puts(Mixed!Writev(mb, Leftover(bs, sent), p))
  BY <1>1b
<1> DEFINE d == Before(k, sent)
           n == sent + i
           bs == <<SubSeq(d, 1, n), SubSeq(d, n + 1, sent + k)>>
           l == Leftover(bs, sent)
           w == Mixed!Writev(mb, l, p)
<1>3. Comes(k) /\ Puts(w) BY <1>2 DEF Before
<1>4. n \in Nat /\ n <= sent + k
  <2>1. k \in Nat BY IncomingIs
  <2> QED BY <2>1
<1>5. d = Before(k, sent) /\ bs = <<SubSeq(d, 1, n), SubSeq(d, n + 1, sent + k)>> OBVIOUS
<1> HIDE DEF d, n, bs
<1>6. l \in Seq(Seq(Byte)) /\ LP!Content(l) = Incoming(k) /\ Fitting(l)
  <2>1. TwoParts(bs, d, n, k, sent) BY <1>4, <1>5 DEF TwoParts
  <2>2. Inv OBVIOUS
  <2>3. StillToSend(Leftover(bs, sent), k) BY ONLY <2>1, <2>2, LeftoverIs
  <2> QED BY <2>3 DEF StillToSend
<1> HIDE DEF l
<1>7. mb \in Mb /\ mb.ring = ring /\ mb.list = list /\ Content = MC(mb) BY MbIs
<1>8. /\ w \in Mb /\ MC(w) = MC(mb) \o Incoming(k)
      /\ list = << >> /\ w.list # << >> => Inbound!Buffered(w.ring) >= MaxStatic
      /\ Inbound!Len0(ring) >= MaxStatic => Inbound!Len0(w.ring) <= Inbound!Len0(ring)
  <2> DEFINE m == mb
  <2>1. m \in Mb /\ m.ring = ring /\ m.list = list BY <1>7
  <2>2. w = Mixed!Writev(m, l, p) OBVIOUS
  <2> HIDE DEF w, m
  <2>3. /\ w \in Mb /\ MC(w) = MC(m) \o LP!Content(l)
        /\ m.list = << >> /\ w.list # << >> => Inbound!Buffered(w.ring) >= MaxStatic
        /\ Inbound!Len0(m.ring) >= MaxStatic => Inbound!Len0(w.ring) <= Inbound!Len0(m.ring)
    BY <1>6, <2>1, <2>2, MixedWritev
  <2>4. /\ w \in Mb /\ MC(w) = MC(m) \o Incoming(k)
        /\ list = << >> /\ w.list # << >> => Inbound!Buffered(w.ring) >= MaxStatic
        /\ Inbound!Len0(ring) >= MaxStatic => Inbound!Len0(w.ring) <= Inbound!Len0(ring)
    BY <1>6, <2>1, <2>3
  <2> QED BY <2>4 DEF m
<1> HIDE DEF w
<1>9. next' \in 0..(Numbers - 1) BY <1>3, ComesNumber
<1>10. Inv' /\ Limited /\ Content' = MC(w) BY <1>1, <1>3, <1>8, <1>9, MixedKeeps
<1>11. Queue!Next BY <1>3, <1>7, <1>8, <1>10, PutStep
<1> QED BY <1>10, <1>11 DEF Sound

-----------------------------------------------------------------------------
(* ReadFrom *)

(* A turn of ReadFrom, or its start, that reads into the ring. *)
LEMMA TurnKeeps ==
  ASSUME Inv, list = << >>, NEW b \in Slotted, Becomes(b, list), loop' \in {"no", "first", "second"},
         loop' = "first" => RP!Available(b) >= MinRead,
         loop = "no" => loop' # "no", next' \in 0..(Numbers - 1)
  PROVE  Inv' /\ Limited /\ Content' = RP!Bytes(b)
<1>1. b \in Held /\ b # Nil /\ b \in RP!Rings(Byte) BY NilIsNoRing DEF Held, Slotted
<1>2. list \in Seq(Seq(Byte)) BY DEF Inv
<1>3. /\ ring' \in Held /\ list' = << >> /\ kind' = kind
      /\ Content' = Inbound!Bytes(b) \o LP!Content(list)
      /\ ring' \in Slotted /\ RP!Available(ring') = RP!Available(b)
  BY <1>1, <1>2, BecomesIs
<1>4. Inv' BY <1>2, <1>3 DEF Inv
<1>5. Limited BY <1>3 DEF Limited
<1>6. Content' = RP!Bytes(b)
  <2> DEFINE s == RP!Bytes(b)
             u == LP!Content(list)
  <2>1. Inbound!Bytes(b) = s /\ s \in Seq(Byte) BY <1>1, InHand
  <2>2. u = << >> BY LP!ContentOfNone
  <2>3. Content' = Inbound!Bytes(b) \o u BY <1>3
  <2> HIDE DEF s, u
  <2>4. s \o << >> = s BY <2>1, ConcatEmptySeq
  <2>5. Content' = s BY ONLY <2>1, <2>2, <2>3, <2>4
  <2> QED BY <2>5 DEF s
<1> QED BY <1>4, <1>5, <1>6

(* The top of the loop of ReadFrom makes room and keeps the bytes. *)
LEMMA RoomIs ==
  ASSUME NEW b \in RP!Rings(Byte)
  PROVE  /\ RP!ReadFromRoom(b) \in Slotted /\ RP!Bytes(RP!ReadFromRoom(b)) = RP!Bytes(b)
         /\ RP!Available(RP!ReadFromRoom(b)) >= MinRead
<1> DEFINE d == RP!ReadFromRoom(b)
<1>1. d \in RP!Rings(Byte) /\ RP!Bytes(d) = RP!Bytes(b) /\ RP!Available(d) >= MinRead
  BY Scale, RP!ReadFromRoomKeeps
<1> HIDE DEF d
<1>2. Len(d.buf) > 0
  <2>1. Len(d.buf) \in Nat /\ RP!Buffered(d) \in 0..Len(d.buf) /\ RP!Available(d) = Len(d.buf) - RP!Buffered(d)
    BY <1>1, RP!RingFacts
  <2>2. MinRead \in Nat /\ MinRead > 0 BY Scale
  <2> QED BY <1>1, <2>1, <2>2
<1> QED BY <1>1, <1>2 DEF d, Slotted

(* ReadFrom begins, with the list's turn or with a turn of the ring. *)
LEMMA ReadFromSound ==
  ASSUME Inv, ReadFrom
  PROVE  Sound
<1>1. loop = "no" /\ Is("internal", 0, << >>) /\ Unread BY DEF ReadFrom
<1>2. next' \in 0..(Numbers - 1) BY <1>1, NextStays
<1>3. /\ mb \in Mb /\ mb.ring = ring /\ mb.list = list /\ ring \in Held /\ list \in Seq(Seq(Byte))
      /\ Content = MC(mb)
  BY MbIs
<1>4. Mixed!ReadsToList(mb) = (~(list = << >>) \/ Inbound!Buffered(ring) >= MaxStatic)
  BY <1>3, ElasticIsInbound, MixedListIsLP DEF Mixed!ReadsToList, Mixed!ToList
<1> DEFINE toList == kind = "elastic" /\ Mixed!ReadsToList(mb)
<1>5. IF toList THEN loop' = "list" /\ Becomes(ring, list)
      ELSE /\ loop' = "first"
           /\ \E p \in Pooled : Becomes(Ring!ReadFromRoom(Inbound!instance(ring, p)), list)
  BY DEF ReadFrom
<1>6. CASE toList
  <2>1. loop' = "list" /\ Becomes(ring, list) BY <1>5, <1>6
  <2>2. /\ ring' \in Held /\ list' = list /\ kind' = kind /\ Inbound!Buffered(ring') = Inbound!Buffered(ring)
        /\ Content' = Inbound!Bytes(ring) \o LP!Content(list)
    BY <1>3, <2>1, BecomesIs
  <2>3. list # << >> \/ Inbound!Buffered(ring) >= MaxStatic BY <1>4, <1>6
  <2>4. Inv' BY <1>2, <1>3, <1>6, <2>1, <2>2, <2>3 DEF Inv
  <2>5. Limited BY <2>1, <2>2 DEF Limited
  <2>6. Content' = Content BY <2>2, ContentOf
  <2>7. Queue!Next BY <1>1, <2>6, InternalStep
  <2> QED BY <2>4, <2>5, <2>7 DEF Sound
<1>7. CASE ~toList
  <2>1. loop' = "first" BY <1>5, <1>7
  <2>2. PICK p \in Pooled : Becomes(Ring!ReadFromRoom(Inbound!instance(ring, p)), list) BY <1>5, <1>7
  <2> DEFINE g == Inbound!instance(ring, p)
             b == RP!ReadFromRoom(g)
  <2>3. g \in RP!Rings(Byte) /\ RP!Bytes(g) = Inbound!Bytes(ring) BY <1>3, InstanceIs
  <2>4. Becomes(b, list) BY <2>2, RingIsRP
  <2> HIDE DEF g
  <2>5. b \in Slotted /\ RP!Bytes(b) = RP!Bytes(g) /\ RP!Available(b) >= MinRead BY <2>3, RoomIs
  <2> HIDE DEF b
  <2>6. list = << >> BY <1>4, <1>7 DEF Inv
  <2>7. Inv' /\ Limited /\ Content' = RP!Bytes(b)
    <3>1. loop' \in {"no", "first", "second"} /\ (loop' = "first" => RP!Available(b) >= MinRead)
          /\ (loop = "no" => loop' # "no")
      BY <2>1, <2>5
    <3> QED BY <1>2, <2>4, <2>5, <2>6, <3>1, TurnKeeps
  <2>8. Content = Inbound!Bytes(ring) BY <1>3, <2>6, MbFacts
  <2>9. Queue!Next BY <1>1, <2>3, <2>5, <2>7, <2>8, InternalStep
  <2> QED BY <2>7, <2>9 DEF Sound
<1> QED BY <1>6, <1>7

(* A ring that ReadFrom is filling. *)
LEMMA Filling ==
  ASSUME Inv, loop \in {"first", "second"}
  PROVE  /\ ring \in Slotted /\ ring \in RP!Rings(Byte) /\ list = << >>
         /\ RP!Size(ring) \in Nat /\ RP!Size(ring) > 0
         /\ Content = RP!Bytes(ring) /\ Content \in Seq(Byte)
<1>1. ring \in Slotted /\ list = << >> BY DEF Inv
<1>2. ring \in Held /\ ring # Nil /\ ring \in RP!Rings(Byte) BY <1>1, NilIsNoRing DEF Held, Slotted
<1>3. mb \in Mb /\ mb.ring = ring /\ mb.list = list /\ Content = MC(mb) /\ Content \in Seq(Byte) BY MbIs
<1>4. Content = Inbound!Bytes(ring) BY <1>1, <1>3, MbFacts
<1> QED BY <1>1, <1>2, <1>3, <1>4, InHand

(* A read into the ring, and the room that is made when the loop goes on. *)
LEMMA ReadInto ==
  ASSUME Inv, loop \in {"first", "second"}, NEW k \in Sizes, Comes(k),
         NEW d \in RP!Rings(Byte), RP!Size(d) = RP!Size(ring),
         loop' \in {"no", "first", "second"},
         Becomes(IF loop' = "first" THEN Ring!ReadFromRoom(d) ELSE d, list)
  PROVE  Inv' /\ Limited /\ Content' = RP!Bytes(d)
<1> DEFINE b == IF loop' = "first" THEN RP!ReadFromRoom(d) ELSE d
<1>1. Becomes(b, list) BY RingIsRP
<1>2. RP!Size(ring) > 0 /\ list = << >> BY Filling
<1>3. d \in Slotted BY <1>2 DEF Slotted, RP!Size
<1>4. /\ RP!ReadFromRoom(d) \in Slotted /\ RP!Bytes(RP!ReadFromRoom(d)) = RP!Bytes(d)
      /\ RP!Available(RP!ReadFromRoom(d)) >= MinRead
  BY RoomIs
<1>5. b \in Slotted /\ RP!Bytes(b) = RP!Bytes(d) /\ (loop' = "first" => RP!Available(b) >= MinRead) BY <1>3, <1>4
<1> HIDE DEF b
<1>6. next' \in 0..(Numbers - 1) BY ComesNumber
<1>7. loop = "no" => loop' # "no" OBVIOUS
<1>8. Inv' /\ Limited /\ Content' = RP!Bytes(b) BY <1>1, <1>2, <1>5, <1>6, <1>7, TurnKeeps
<1> QED BY <1>5, <1>8

(* The first read of a turn: what goes wrong is EmptyReadFills. *)
LEMMA ReadFirstSound ==
  ASSUME Inv, ReadFirst
  PROVE  Sound
<1>1. loop = "first" /\ loop \in {"first", "second"} BY DEF ReadFirst
<1>2. PICK k \in Sizes, err \in BOOLEAN :
       LET b == Ring!FirstRead(ring, Incoming(k)) IN
       /\ k <= Ring!FirstRoom(ring) /\ Comes(k) /\ (k = 0 => err)
       /\ loop' = CASE err -> "no" [] ~err /\ ring.w >= ring.r -> "second" [] OTHER -> "first"
       /\ Becomes(IF loop' = "first" THEN Ring!ReadFromRoom(b) ELSE b, list)
  BY DEF ReadFirst
<1> DEFINE x == Incoming(k)
           d == RP!FirstRead(ring, x)
<1>3. x \in Seq(Byte) /\ Len(x) = k /\ k \in Nat /\ (k = 0 => x = << >>) BY IncomingIs
<1>4. Ring!FirstRead(ring, x) = d BY RingIsRP
<1>5. /\ k <= Ring!FirstRoom(ring) /\ Comes(k)
      /\ Becomes(IF loop' = "first" THEN Ring!ReadFromRoom(d) ELSE d, list)
  BY <1>2, <1>4
<1>6. loop' \in {"no", "first", "second"} BY <1>2, Zenon
<1> HIDE DEF x
<1>7. /\ ring \in RP!Rings(Byte) /\ list = << >> /\ Content = RP!Bytes(ring) BY <1>1, Filling
<1>8. RP!Available(ring) > 0
  <2>1. MinRead \in Nat /\ MinRead > 0 BY Scale
  <2>2. RP!Available(ring) >= MinRead BY <1>1 DEF Inv
  <2>3. RP!Available(ring) \in Int BY <1>7, RP!RingFacts
  <2> QED BY <2>1, <2>2, <2>3
<1>9. Len(x) <= RP!FirstRoom(ring) BY <1>3, <1>5, RingIsRP
<1>10. /\ d \in RP!Rings(Byte) /\ RP!Size(d) = RP!Size(ring)
       /\ ~(ring.empty /\ x = << >>) => RP!Bytes(d) = RP!Bytes(ring) \o x
  BY <1>3, <1>7, <1>8, <1>9, RP!FirstReadAppends
<1> HIDE DEF d
<1>11. Inv' /\ Limited /\ Content' = RP!Bytes(d) BY <1>1, <1>5, <1>6, <1>10, ReadInto
<1>12. CASE ring.empty /\ x = << >>
  <2>1. k = 0 BY <1>3, <1>12
  <2>2. call'.n = k BY <1>5 DEF Comes, Is
  <2>3. Defect BY <1>1, <1>12, <2>1, <2>2 DEF Defect, EmptyReadFills
  <2> QED BY <1>11, <2>3 DEF Sound
<1>13. CASE ~(ring.empty /\ x = << >>)
  <2>1. Content' = Content \o Incoming(k) BY <1>7, <1>10, <1>11, <1>13 DEF x
  <2>2. Queue!Next BY <1>5, <2>1, PutStep
  <2> QED BY <1>11, <2>2 DEF Sound
<1> QED BY <1>12, <1>13

(* The second read of a turn: what goes wrong is SecondReadMisplaced. *)
LEMMA ReadSecondSound ==
  ASSUME Inv, ReadSecond
  PROVE  Sound
<1>1. loop = "second" /\ loop \in {"first", "second"} BY DEF ReadSecond
<1>2. PICK k \in Sizes, err \in BOOLEAN :
       LET b == Ring!SecondRead(ring, Incoming(k)) IN
       /\ k <= ring.r /\ Comes(k) /\ (k = 0 => err \/ ring.r = 0)
       /\ loop' = IF err THEN "no" ELSE "first"
       /\ Becomes(IF err THEN b ELSE Ring!ReadFromRoom(b), list)
  BY DEF ReadSecond
<1> DEFINE x == Incoming(k)
           d == RP!SecondRead(ring, x)
<1>3. x \in Seq(Byte) /\ Len(x) = k /\ k \in Nat /\ (k = 0 => x = << >>) BY IncomingIs
<1>4. Ring!SecondRead(ring, x) = d BY RingIsRP
<1>5. /\ k <= ring.r /\ Comes(k)
      /\ Becomes(IF err THEN d ELSE Ring!ReadFromRoom(d), list)
      /\ loop' = IF err THEN "no" ELSE "first"
  BY <1>2, <1>4
<1>6. loop' \in {"no", "first", "second"} /\ (loop' = "first" <=> ~err) BY <1>5
<1> HIDE DEF x, d
<1>7. Becomes(IF loop' = "first" THEN Ring!ReadFromRoom(d) ELSE d, list)
  <2>1. CASE err
    <3>1. loop' # "first" BY <1>6, <2>1
    <3> QED BY <1>5, <2>1, <3>1
  <2>2. CASE ~err
    <3>1. loop' = "first" BY <1>6, <2>2
    <3> QED BY <1>5, <2>2, <3>1
  <2> QED BY <2>1, <2>2
<1>8. /\ ring \in RP!Rings(Byte) /\ list = << >> /\ Content = RP!Bytes(ring) /\ RP!Size(ring) > 0 BY <1>1, Filling
<1>9. /\ d \in RP!Rings(Byte) /\ RP!Size(d) = RP!Size(ring)
      /\ x = << >> \/ ring.w = 0 => RP!Bytes(d) = RP!Bytes(ring) \o x
  <2>1. Len(x) <= ring.r BY <1>3, <1>5
  <2> QED BY <1>3, <1>8, <2>1, RP!SecondReadAppends DEF d
<1>10. Inv' /\ Limited /\ Content' = RP!Bytes(d) BY <1>1, <1>5, <1>6, <1>7, <1>9, ReadInto
<1>11. CASE x = << >> \/ ring.w = 0
  <2>1. Content' = Content \o Incoming(k) BY <1>8, <1>9, <1>10, <1>11 DEF x
  <2>2. Queue!Next BY <1>5, <2>1, PutStep
  <2> QED BY <1>10, <2>2 DEF Sound
<1>12. CASE ~(x = << >> \/ ring.w = 0)
  <2>1. k > 0 BY <1>3, <1>12
  <2>2. call'.n = k BY <1>5 DEF Comes, Is
  <2>3. Defect BY <1>1, <1>12, <2>1, <2>2 DEF Defect, SecondReadMisplaced
  <2> QED BY <1>10, <2>3 DEF Sound
<1> QED BY <1>11, <1>12

(* A read into the list: what goes wrong is BytesWithErrorDropped. *)
LEMMA ReadToListSound ==
  ASSUME Inv, ReadToList
  PROVE  Sound
<1>1. loop = "list" BY DEF ReadToList
<1>2. PICK k \in Sizes, err \in BOOLEAN :
       /\ k <= MinRead /\ Comes(k) /\ (k = 0 => err)
       /\ loop' = IF err THEN "no" ELSE "list"
       /\ Becomes(ring, List!ReadFrom(list, Incoming(k), err))
  BY DEF ReadToList
<1> DEFINE x == Incoming(k)
           l == IF err THEN list ELSE Append(list, x)
<1>3. x \in Seq(Byte) /\ Len(x) = k /\ k \in Nat /\ (k = 0 => x = << >>) BY IncomingIs
<1>4. ring \in Held /\ list \in Seq(Seq(Byte)) /\ kind = "elastic" BY <1>1 DEF Inv
<1>5. list # << >> \/ Inbound!Buffered(ring) >= MaxStatic BY <1>1 DEF Inv
<1>6. List!ReadFrom(list, x, err) = l BY ListIsLP DEF LP!ReadFrom
<1>7. Becomes(ring, l) /\ Comes(k) /\ loop' = IF err THEN "no" ELSE "list" BY <1>2, <1>6
<1> HIDE DEF x
<1>8. l \in Seq(Seq(Byte)) /\ (err => l = list) /\ (~err => l = Append(list, x))
  <2> DEFINE T == Seq(Byte)
  <2>1. list \in Seq(T) /\ x \in T BY <1>3, <1>4
  <2> HIDE DEF T
  <2>2. Append(list, x) \in Seq(T) BY <2>1, AppendProperties
  <2> QED BY <2>1, <2>2 DEF T
<1>9. ~err => LP!Content(l) = LP!Content(list) \o x BY <1>3, <1>4, <1>8, LP!ContentAppend
<1>10. ~err => l # << >>
  <2> DEFINE T == Seq(Byte)
  <2>1. list \in Seq(T) /\ x \in T BY <1>3, <1>4
  <2> HIDE DEF T, l
  <2>2. Append(list, x) # << >> BY ONLY <2>1, AppendProperties
  <2> QED BY <1>8, <2>2
<1> HIDE DEF l
<1>11. /\ ring' \in Held /\ list' = l /\ kind' = kind /\ Inbound!Buffered(ring') = Inbound!Buffered(ring)
       /\ Content' = Inbound!Bytes(ring) \o LP!Content(l)
  BY <1>4, <1>7, <1>8, BecomesIs
<1>12. next' \in 0..(Numbers - 1) BY <1>7, ComesNumber
<1>13. Inv' BY <1>4, <1>5, <1>7, <1>8, <1>10, <1>11, <1>12 DEF Inv
<1>14. Limited BY <1>1, <1>5, <1>11 DEF Limited
<1>15. call'.n = k BY <1>7 DEF Comes, Is
<1>16. CASE err /\ k > 0
  <2>1. loop' = "no" BY <1>7, <1>16
  <2>2. Defect BY <1>1, <1>15, <1>16, <2>1 DEF Defect, BytesWithErrorDropped
  <2> QED BY <1>13, <1>14, <2>2 DEF Sound
<1>17. CASE ~(err /\ k > 0)
  <2> DEFINE s == Inbound!Bytes(ring)
             u == LP!Content(list)
  <2>1. s \in Seq(Byte) /\ u \in Seq(Byte) /\ x \in Seq(Byte) BY <1>3, <1>4, HeldFacts, LP!ContentIs
  <2>2. Content = Cat(s, u) /\ Content' = Cat(s, LP!Content(l)) BY <1>11, ContentOf DEF Cat
  <2> HIDE DEF s
  <2>3. LP!Content(l) = Cat(u, x)
    <3>1. CASE err
      <4>1. x = << >> BY <1>3, <1>17, <3>1
      <4>2. u \o << >> = u
        <5> HIDE DEF u
        <5> QED BY <2>1, ConcatEmptySeq
      <4> QED BY <1>8, <3>1, <4>1, <4>2 DEF Cat
    <3>2. CASE ~err BY <1>9, <3>2 DEF Cat
    <3> QED BY <3>1, <3>2
  <2> HIDE DEF u
  <2>4. Cat(Cat(s, u), x) = Cat(s, Cat(u, x)) BY ONLY <2>1, CatAgain
  <2>5. Content' = Content \o Incoming(k) BY <2>2, <2>3, <2>4 DEF Cat, x
  <2>6. Queue!Next BY <1>7, <2>5, PutStep
  <2> QED BY <1>13, <1>14, <2>6 DEF Sound
<1> QED BY <1>16, <1>17

-----------------------------------------------------------------------------
(* The theorems *)

(* A new buffer has no ring, no list and no reader. *)
LEMMA InvInit == Init => Inv
<1> SUFFICES ASSUME Init PROVE Inv OBVIOUS
<1>1. Numbers \in Nat \ {0} BY StreamAssumption
<1>2. 0 \in 0..(Numbers - 1) BY <1>1
<1>3. Nil \in Held /\ << >> \in Seq(Seq(Byte)) BY DEF Held
<1> QED BY <1>2, <1>3 DEF Init, Inv

(* Every call keeps the invariant, is a step of a byte queue or one of the steps listed *)
(* as Defect, and respects the limit of the ring: one lemma per operation.             *)
LEMMA CallSound ==
  ASSUME Inv, Call
  PROVE  Sound
<1>1. CASE ConnWrite BY <1>1, ConnWriteSound
<1>2. CASE RingWriteByte BY <1>2, RingWriteByteSound
<1>3. CASE ConnRead BY <1>3, ConnReadSound
<1>4. CASE ConnNext BY <1>4, ConnNextSound
<1>5. CASE ConnPeek BY <1>5, ConnPeekSound
<1>6. CASE ConnDiscard BY <1>6, ConnDiscardSound
<1>7. CASE ConnDecode BY <1>7, ConnDecodeSound
<1>8. CASE RingWriteTo BY <1>8, RingWriteToSound
<1>9. CASE ConnReset BY <1>9, ConnResetSound
<1>10. CASE ConnRelease BY <1>10, ConnReleaseSound
<1>11. CASE CopyFromSocket BY <1>11, CopyFromSocketSound
<1>12. CASE Rewind BY <1>12, RewindSound
<1>13. CASE ElasticWrite BY <1>13, ElasticWriteSound
<1>14. CASE ElasticWritev BY <1>14, ElasticWritevSound
<1>15. CASE ElasticRead BY <1>15, ElasticReadSound
<1>16. CASE ElasticPeek BY <1>16, ElasticPeekSound
<1>17. CASE ElasticDiscard BY <1>17, ElasticDiscardSound
<1>18. CASE ElasticWriteTo BY <1>18, ElasticWriteToSound
<1>19. CASE ElasticReset BY <1>19, ElasticResetSound
<1>20. CASE ElasticRelease BY <1>20, ElasticReleaseSound
<1>21. CASE ReadFrom BY <1>21, ReadFromSound
<1>22. CASE ReadFirst BY <1>22, ReadFirstSound
<1>23. CASE ReadSecond BY <1>23, ReadSecondSound
<1>24. CASE ReadToList BY <1>24, ReadToListSound
<1> QED BY <1>1, <1>2, <1>3, <1>4, <1>5, <1>6, <1>7, <1>8, <1>9, <1>10, <1>11, <1>12, <1>13, <1>14,
           <1>15, <1>16, <1>17, <1>18, <1>19, <1>20, <1>21, <1>22, <1>23, <1>24, Zenon DEF Call

(* Inv holds for as long as no call has panicked. *)
Holds == call.op = "panic" \/ Inv

(* A step that changes nothing keeps the invariant too, and after a panic there is no other. *)
LEMMA InvStep == Holds /\ [Next]_vars => Holds'
<1> SUFFICES ASSUME Holds, [Next]_vars PROVE Holds' OBVIOUS
<1>1. CASE Next
  <2>1. Inv /\ Call BY <1>1 DEF Next, Holds
  <2>2. Sound BY <2>1, CallSound
  <2> QED BY <2>2 DEF Sound, Holds
<1>2. CASE UNCHANGED vars BY <1>2 DEF vars, Holds, Inv
<1> QED BY <1>1, <1>2

(* The inductive invariant: ring and list are what the code can hold, the list is empty *)
(* whenever ReadFrom reads into the ring, which then has room, and the list has bytes   *)
(* or the ring has reached maxStaticBytes whenever it reads into the list.              *)
THEOREM InvHolds == Spec => []Holds
<1>1. Init => Holds BY InvInit DEF Holds
<1> QED BY <1>1, InvStep, PTL DEF Spec

(* The flag and the two positions of the ring agree after every call that returns,     *)
(* of every length and every size of the ring: r and w are inside, an empty ring has   *)
(* both at 0, and a ring without slots is empty (ring_buffer.go:483).                   *)
THEOREM RingShapeHolds == Spec => []RingShape
<1>1. Holds => RingShape
  <2> SUFFICES ASSUME Inv, ring # Nil
              PROVE  /\ ring.r \in 0..Len(ring.buf) /\ ring.w \in 0..Len(ring.buf)
                     /\ ring.buf # << >> => ring.r < Len(ring.buf) /\ ring.w < Len(ring.buf)
                     /\ ring.empty => ring.r = 0 /\ ring.w = 0
                     /\ ring.buf = << >> => ring.empty
    BY DEF RingShape, Holds
  <2>1. ring \in RP!Rings(Byte) BY DEF Inv, Held, Slotted
  <2>2. /\ ring.buf \in Seq(Byte) /\ Len(ring.buf) \in Nat /\ ring.r \in Nat /\ ring.w \in Nat
        /\ Len(ring.buf) > 0 => ring.r < Len(ring.buf) /\ ring.w < Len(ring.buf)
        /\ Len(ring.buf) = 0 => ring.empty
        /\ ring.empty => ring.r = 0 /\ ring.w = 0
    BY <2>1, RP!RingFacts
  <2>3. Len(ring.buf) = 0 <=> ring.buf = << >> BY <2>2
  <2>4. Len(ring.buf) > 0 \/ Len(ring.buf) = 0 BY <2>2
  <2> QED BY <2>2, <2>3, <2>4
<1> QED BY <1>1, InvHolds, PTL

(* Ring, list, pool and framing together are one queue of bytes: whatever calls came    *)
(* before, a call returns and leaves what ByteQueue says, or it is one of the steps     *)
(* that Defect lists, each of which is in the code.                                     *)
THEOREM BufferIsQueue == Spec => ActsAsQueue
<1>1. Holds /\ [Next]_vars => [Defect \/ Queue!Next]_vars
  <2> SUFFICES ASSUME Holds, [Next]_vars PROVE [Defect \/ Queue!Next]_vars OBVIOUS
  <2>1. CASE Next
    <3>1. Inv /\ Call BY <2>1 DEF Next, Holds
    <3>2. Sound BY <3>1, CallSound
    <3> QED BY <3>2 DEF Sound
  <2>2. CASE UNCHANGED vars BY <2>2
  <2> QED BY <2>1, <2>2
<1> QED BY <1>1, InvHolds, PTL DEF Spec, ActsAsQueue

(* The list of an elastic.Buffer is used only once the ring holds maxStaticBytes, and a *)
(* ring of that size or more does not grow any more but in ReadFrom                     *)
(* (elastic_ring_list_buffer.go:27 and :82-130).                                        *)
THEOREM StaticLimitHolds == Spec => StaticLimit
<1>1. Holds /\ [Next]_vars => [Limited]_vars
  <2> SUFFICES ASSUME Holds, [Next]_vars PROVE [Limited]_vars OBVIOUS
  <2>1. CASE Next
    <3>1. Inv /\ Call BY <2>1 DEF Next, Holds
    <3>2. Sound BY <3>1, CallSound
    <3> QED BY <3>2 DEF Sound
  <2>2. CASE UNCHANGED vars BY <2>2
  <2> QED BY <2>1, <2>2
<1> QED BY <1>1, InvHolds, PTL DEF Spec, StaticLimit, Limited

=============================================================================

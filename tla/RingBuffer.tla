------------------------------ MODULE RingBuffer ------------------------------
(***************************************************************************)
(* pkg/buffer/ring: the operations of ring.Buffer, as functions of the     *)
(* ring [buf, r, w, empty].  buf is a sequence, r and w count from 0 as in *)
(* the code, size is Len(buf); r = w means empty or full, and only the     *)
(* flag tells which.  A buffer that comes from the pool holds Junk.        *)
(***************************************************************************)
EXTENDS Numeric, Sequences

CONSTANTS DefaultBufferSize, GrowThreshold, MinRead, Junk

Least(a, b) == IF a < b THEN a ELSE b

\* s[lo:hi], and copy(s[at:], p).
Slice(s, lo, hi) == SubSeq(s, lo + 1, hi)
Copy(s, at, p) == [i \in DOMAIN s |-> IF i - at \in DOMAIN p THEN p[i - at] ELSE s[i]]

Get(size) == [i \in 1..size |-> Junk]
New(size) == [buf |-> Get(IF size = 0 THEN 0 ELSE CeilToPowerOfTwo(size)),
              r |-> 0, w |-> 0, empty |-> TRUE]

Size(rb) == Len(rb.buf)

Buffered(rb) ==
  CASE rb.w > rb.r            -> rb.w - rb.r
    [] rb.w = rb.r /\ rb.empty -> 0
    [] OTHER                  -> Size(rb) - rb.r + rb.w

Available(rb) ==
  CASE rb.w < rb.r             -> rb.r - rb.w
    [] rb.w = rb.r /\ ~rb.empty -> 0
    [] OTHER                   -> Size(rb) - rb.w + rb.r

IsFull(rb) == rb.r = rb.w /\ ~rb.empty

Reset(rb) == [rb EXCEPT !.r = 0, !.w = 0, !.empty = TRUE]

\* The head and the tail of the next n bytes, of all of them for n <= 0.
Peek(rb, n) ==
  LET m == IF n <= 0 THEN Buffered(rb) ELSE Least(n, Buffered(rb)) IN
  IF rb.r + m <= Size(rb)
    THEN <<Slice(rb.buf, rb.r, rb.r + m), << >>>>
    ELSE <<Slice(rb.buf, rb.r, Size(rb)), Slice(rb.buf, 0, m - (Size(rb) - rb.r))>>

\* rb.r = (rb.r + n) % rb.size, and Reset when that reaches w.
Advance(rb, n) == LET r == (rb.r + n) % Size(rb) IN
                  IF r = rb.w THEN Reset(rb) ELSE [rb EXCEPT !.r = r]

Discard(rb, n) ==
  CASE n <= 0                   -> rb
    [] 0 < n /\ n < Buffered(rb) -> [rb EXCEPT !.r = (@ + n) % Size(rb)]
    [] OTHER                    -> Reset(rb)

\* Read into a slice of n bytes: what it got, and the ring behind it.
Taken(rb, n) == IF n = 0 \/ rb.empty THEN << >> ELSE LET p == Peek(rb, n) IN p[1] \o p[2]
Read(rb, n)  == IF n = 0 \/ rb.empty THEN rb ELSE Advance(rb, Least(n, Buffered(rb)))

\* Bytes: a copy of all that is buffered.
Bytes(rb) ==
  CASE rb.empty                -> << >>
    [] ~rb.empty /\ rb.w > rb.r -> Slice(rb.buf, rb.r, rb.w)
    [] OTHER                   -> Slice(rb.buf, rb.r, Size(rb)) \o Slice(rb.buf, 0, rb.w)

\* for n < newCap { n += n / 4 }
QuarterSteps(n, newCap) == LET g[k \in Nat] == IF k < newCap THEN g[k + k \div 4] ELSE k IN g[n]

GrownSize(n, newCap) ==
  CASE n = 0 /\ newCap <= DefaultBufferSize      -> DefaultBufferSize
    [] n = 0 /\ newCap > DefaultBufferSize       -> CeilToPowerOfTwo(newCap)
    [] n > 0 /\ newCap > n + n                   -> newCap
    [] n > 0 /\ newCap <= n + n /\ n < GrowThreshold -> n + n
    [] OTHER                                     -> QuarterSteps(n, newCap)

\* Mutant: the old slots are copied, not the bytes in their order.
growInPlace(rb, newCap) ==
  LET cap == GrownSize(Size(rb), newCap) IN
  [buf |-> Copy(Get(cap), 0, rb.buf), r |-> 0, w |-> Buffered(rb),
   empty |-> IF Buffered(rb) > 0 THEN FALSE ELSE rb.empty]

grow(rb, newCap) ==
  LET cap == GrownSize(Size(rb), newCap) IN
  [buf |-> Copy(Get(cap), 0, Taken(rb, cap)), r |-> 0, w |-> Buffered(rb),
   empty |-> IF Buffered(rb) > 0 THEN FALSE ELSE rb.empty]

\* Mutant: w stays at size when the last slot is written.
WriteNoWrap(rb, p) ==
  LET g == IF Len(p) > Available(rb) THEN grow(rb, Size(rb) + Len(p) - Available(rb)) ELSE rb IN
  IF p = << >> THEN rb ELSE [g EXCEPT !.buf = Copy(@, g.w, p), !.w = @ + Len(p), !.empty = FALSE]

\* Write of p, WriteString.
Write(rb, p) ==
  IF p = << >> THEN rb ELSE
  LET n     == Len(p)
      g     == IF n > Available(rb) THEN grow(rb, Size(rb) + n - Available(rb)) ELSE rb
      right == Least(Size(g) - g.w, n)
  IN  [g EXCEPT !.buf = Copy(Copy(@, g.w, Slice(p, 0, right)), 0, Slice(p, right, n)),
                !.w = (@ + n) % Size(g), !.empty = FALSE]

\* grow(1) leaves a full buffer of GrowThreshold bytes or more as large as it is,
\* with w = size: the next store is out of range.
WriteBytePanics(rb) == IsFull(rb) /\ Size(rb) >= GrowThreshold
WriteByte(rb, c) ==
  LET g == IF Available(rb) < 1 THEN grow(rb, 1) ELSE rb IN
  [g EXCEPT !.buf = Copy(@, g.w, <<c>>), !.w = (@ + 1) % Size(g), !.empty = FALSE]

-----------------------------------------------------------------------------
(* ReadFrom, one r.Read at a time, and WriteTo *)

\* At the top of the loop.
ReadFromRoom(rb) == IF Available(rb) < MinRead THEN grow(rb, Buffered(rb) + MinRead) ELSE rb

\* The first r.Read of a turn: to the end of the buffer, or to the read position.
FirstRoom(rb) == IF rb.w >= rb.r THEN Size(rb) - rb.w ELSE rb.r - rb.w
FirstRead(rb, data) == [rb EXCEPT !.buf = Copy(@, rb.w, data), !.empty = FALSE,
                                  !.w = (@ + Len(data)) % Size(rb)]

\* The second one, if the first went to the end: to buf[:r], wherever w is.
SecondRead(rb, data) == [rb EXCEPT !.buf = Copy(@, 0, data), !.w = (@ + Len(data)) % Size(rb)]

\* The writer takes k bytes, in one Write or two: in the second form of the code
\* the pointers are compared only when the first slice was taken whole.
WriteTo(rb, k) ==
  LET c1 == Size(rb) - rb.r IN
  IF rb.w > rb.r \/ rb.w = 0 \/ k >= c1 THEN Advance(rb, k) ELSE [rb EXCEPT !.r = @ + k]

-----------------------------------------------------------------------------
(* ring_buffer_unix.go *)

\* CopyFromSocket: a full ring grows first; then the kernel fills the free slots in
\* their order, so data has at most Available(SocketTarget(rb)) bytes.
SocketTarget(rb) == IF IsFull(rb) THEN grow(rb, Size(rb) + Size(rb) \div 2) ELSE rb
CopyFromSocket(rb, data) ==
  LET g     == SocketTarget(rb)
      right == Least(Size(g) - g.w, Len(data))
  IN  IF data = << >> THEN g
      ELSE [g EXCEPT !.buf = Copy(Copy(@, g.w, Slice(data, 0, right)), 0, Slice(data, right, Len(data))),
                     !.w = (@ + Len(data)) % Size(g), !.empty = FALSE]

\* Rewind: rb.buf[r:w] is out of range when the bytes wrap round.
RewindPanics(rb) == ~rb.empty /\ rb.w # 0 /\ Size(rb) - rb.w < DefaultBufferSize /\ rb.w < rb.r
Rewind(rb) ==
  LET end == IF rb.w = 0 THEN Size(rb) ELSE rb.w
      n   == end - rb.r
  IN  CASE rb.empty -> Reset(rb)
        [] ~rb.empty /\ rb.w # 0 /\ Size(rb) - rb.w >= DefaultBufferSize -> rb
        [] ~rb.empty /\ (rb.w = 0 \/ Size(rb) - rb.w < DefaultBufferSize) /\ rb.r < n -> grow(rb, Size(rb) + n)
        [] OTHER -> [rb EXCEPT !.buf = Copy(@, 0, Slice(@, rb.r, end)), !.r = 0, !.w = n]
=============================================================================
